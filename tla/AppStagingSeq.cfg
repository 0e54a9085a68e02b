SPECIFICATION Spec
CONSTANTS
  r1 = r1
  s1 = s1
  s2 = s2
  b1 = b1
  b2 = b2
  b3 = b3
  None = None
  Req = {r1}
  Stage = {s1, s2}
  Blob = {b1, b2, b3}
  Ops = {"stage", "push", "sourcepatch", "deploy", "redeploy", "restart", "delete"}
  MaxTries = 2
  TTL = FALSE
  Faults = TRUE
SYMMETRY Symmetry
 
INVARIANT NoOrphanWorkload
CHECK_DEADLOCK FALSE
