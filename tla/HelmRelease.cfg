SPECIFICATION FairSpec
CONSTANTS
  r1 = r1
  r2 = r2
  a = a
  s = s
  v1 = v1
  None = None
  Req = {r1, r2}
  App = {a}
  Service = {s}
  Val = {v1}
  Faults = TRUE
INVARIANT TypeOK
INVARIANT OneOperation
INVARIANT NotRefusedAsPending
PROPERTY PendingReplaced
PROPERTY RequestsEnd
