--------------------------- MODULE MCAppSettings ----------------------------
(* Small instances of AppSettings for TLC. *)
EXTENDS AppSettings, TLC

Symmetry == Permutations(Req) \cup Permutations(Var) \cup Permutations(Config)
              \cup Permutations(Uid)
=============================================================================
