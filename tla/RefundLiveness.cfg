SPECIFICATION FairSpec
CONSTANTS
  o1 = o1
  o2 = o2
  c1 = c1
  c2 = c2
  NoTx = NoTx
  NoJob = NoJob
  Obligations = {o1, o2}
  Callers = {c1}
  Shape <- Apart
  MaxCrashes = 1
PROPERTIES PaidGetsClosed
CHECK_DEADLOCK FALSE
