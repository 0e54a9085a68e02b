SPECIFICATION Spec
CONSTANTS
  r1 = r1
  v1 = v1
  v2 = v2
  c1 = c1
  c2 = c2
  u1 = u1
  None = None
  Req = {r1}
  Var = {v1, v2}
  Config = {c1, c2}
  Uid = {u1}
  Ops = {"create", "set", "bind", "unbind", "delconf", "deploy", "delete"}
  MaxTries = 2
  Stagings = FALSE
  Faults = FALSE
SYMMETRY Symmetry
INVARIANT WorkloadCurrent
CHECK_DEADLOCK FALSE
