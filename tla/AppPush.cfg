SPECIFICATION FairSpec
CONSTANTS
  c1 = c1
  c2 = c2
  a1 = a1
  a2 = a2
  rt1 = rt1
  None = None
  Old = Old
  Cmd = {c1, c2}
  App = {a1, a2}
  Target = {a1}
  Route = {rt1}
  Ops = {"push", "update", "delete"}
  MaxTries = 2
  Restarts = 1
INVARIANT TypeOK
INVARIANT StatusSettled
INVARIANT SuccessWasDeployed
PROPERTY RoutesStay
PROPERTY PushEnds
CHECK_DEADLOCK FALSE
