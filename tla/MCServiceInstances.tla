------------------------- MODULE MCServiceInstances -------------------------
(* Small instances of ServiceInstances for TLC. *)
EXTENDS ServiceInstances, TLC

Symmetry == Permutations(Req) \cup Permutations(Service) \cup Permutations(Key)

OneService == \A s, t \in Service :
  secret[s].exists \/ release[s].status # "none" => ~secret[t].exists \/ s = t

\* What overlaps is explored for one service, with nothing to restart, until all
\* have ended; what follows a failure for one service, while nothing overlaps.
Explored ==
  /\ past \cap {"overlap", "fault"} # {} => OneService
  /\ "overlap" \in past =>
       /\ \A a \in App : bound[a].services = {} /\ bound[a].configs = {} /\ ~pods[a].runs
       /\ \A r \in Req : ~req[r].flag
       /\ ~AllIdle
  /\ ~({"overlap", "fault"} \subseteq past)
=============================================================================
