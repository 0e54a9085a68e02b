SPECIFICATION Spec
CONSTANTS
  r1 = r1
  r2 = r2
  u1 = u1
  u2 = u2
  u3 = u3
  n1 = n1
  n2 = n2
  c1 = c1
  None = None
  Req = {r1, r2}
  User = {u1, u2, u3}
  Global = {u1}
  Grouped = {u2}
  Group <- GroupOfAll
  New = {u2}
  Namespace = {n1, n2}
  Gitconfig = {c1}
  Faults = TRUE
SYMMETRY Symmetry
CONSTRAINT Explored
INVARIANT TypeOK
INVARIANT RolesWithinNamespaces
INVARIANT NoForeignAccess
INVARIANT OwnerHasAccess
CHECK_DEADLOCK FALSE
