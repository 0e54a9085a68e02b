SPECIFICATION Spec
CONSTANTS
  r1 = r1
  v1 = v1
  c1 = c1
  c2 = c2
  u1 = u1
  u2 = u2
  None = None
  Req = {r1}
  Var = {v1}
  Config = {c1, c2}
  Uid = {u1, u2}
  Ops = {"create", "set", "bind", "unbind", "update", "delconf", "deploy", "delete"}
  MaxTries = 2
  Stagings = TRUE
  Faults = TRUE
SYMMETRY Symmetry
INVARIANT TypeOK
INVARIANT BindingsExist
CHECK_DEADLOCK FALSE
