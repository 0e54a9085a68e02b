SPECIFICATION FairSpec
CONSTANTS
  r1 = r1
  r2 = r2
  s1 = s1
  b1 = b1
  None = None
  Req = {r1, r2}
  Stage = {s1}
  Blob = {b1}
  Ops = {"push", "deploy", "delete"}
  MaxTries = 2
  TTL = FALSE
  Faults = FALSE
 
PROPERTY RequestsEnd
CHECK_DEADLOCK FALSE
