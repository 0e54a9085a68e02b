---------------------------- MODULE MCLogSession ----------------------------
(* Small instances of LogSession for TLC. *)
EXTENDS LogSession
=============================================================================
