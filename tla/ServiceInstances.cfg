SPECIFICATION Spec
CONSTANTS
  r1 = r1
  r2 = r2
  s1 = s1
  s2 = s2
  a1 = a1
  k1 = k1
  k2 = k2
  v1 = v1
  None = None
  Keep = Keep
  Req = {r1, r2}
  Service = {s1, s2}
  App = {a1}
  Key = {k1, k2}
  Val = {v1}
  Together = {"create", "update", "replace", "deleteall"}
  Faults = TRUE
SYMMETRY Symmetry
CONSTRAINT Explored
INVARIANT TypeOK
INVARIANT ServiceComplete
 
PROPERTY SettingsApply
CHECK_DEADLOCK FALSE
