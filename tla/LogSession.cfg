SPECIFICATION FairSpec
CONSTANTS
  c1 = c1
  c2 = c2
  Container = {c1}
  Updates = 1
  Lines = 2
  Faults = TRUE
INVARIANT TypeOK
INVARIANT NoSendOnClosed
INVARIANT FetchComplete
 
PROPERTY FetchEnds
 
CHECK_DEADLOCK FALSE
