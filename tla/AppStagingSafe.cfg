SPECIFICATION Spec
CONSTANTS
  r1 = r1
  r2 = r2
  s1 = s1
  s2 = s2
  b1 = b1
  b2 = b2
  None = None
  Req = {r1, r2}
  Stage = {s1, s2}
  Blob = {b1, b2}
  Ops = {"push", "sourcepatch", "redeploy", "delete"}
  MaxTries = 2
  TTL = TRUE
  Faults = TRUE
SYMMETRY Symmetry
INVARIANT TypeOK
INVARIANT JobHasEnv
INVARIANT UnstageFindsEnv
INVARIANT CRNamesOneAttempt
PROPERTY StagingNotLost
PROPERTY UnstageSparesKept
CHECK_DEADLOCK FALSE
