------------------------------ MODULE MCAccess ------------------------------
(* Small instances of Access for TLC. *)
EXTENDS Access, TLC

CONSTANTS u1, u2, u3, n1

\* Users of a provider administer the first namespace.
GroupOfAll == [u \in Grouped |-> {n1}]

\* What overlaps is explored without failures, until all have ended,
\* and for one namespace and one git configuration.
Explored ==
  "overlap" \in past =>
    /\ ~AllIdle /\ "fault" \notin past
    /\ \A x \in Namespace \ {n1} : exists[x] = "no"

Symmetry == Permutations(Req)
=============================================================================
