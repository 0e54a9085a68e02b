SPECIFICATION Spec
CONSTANTS
  r1 = r1
  r2 = r2
  v1 = v1
  v2 = v2
  c1 = c1
  u1 = u1
  None = None
  Req = {r1, r2}
  Var = {v1, v2}
  Config = {c1}
  Uid = {u1}
  Ops = {"create", "set", "bind", "update", "delconf"}
  MaxTries = 2
  Stagings = FALSE
  Faults = TRUE
SYMMETRY Symmetry
PROPERTY AtomicChanges
CHECK_DEADLOCK FALSE
