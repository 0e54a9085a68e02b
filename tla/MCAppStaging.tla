---------------------------- MODULE MCAppStaging ----------------------------
(* Small instances of AppStaging for TLC. *)
EXTENDS AppStaging, TLC

Symmetry == Permutations(Req) \cup Permutations(Stage) \cup Permutations(Blob)
=============================================================================
