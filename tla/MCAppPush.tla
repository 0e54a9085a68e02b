------------------------------ MODULE MCAppPush ------------------------------
(* Small instances of AppPush for TLC. *)
EXTENDS AppPush
=============================================================================
