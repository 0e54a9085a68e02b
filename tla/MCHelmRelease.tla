--------------------------- MODULE MCHelmRelease ----------------------------
(* Small instances of HelmRelease for TLC. *)
EXTENDS HelmRelease
=============================================================================
