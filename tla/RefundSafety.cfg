SPECIFICATION Spec
CONSTANTS
  o1 = o1
  o2 = o2
  c1 = c1
  c2 = c2
  NoTx = NoTx
  NoJob = NoJob
  Obligations = {o1, o2}
  Callers = {c1, c2}
  Shape <- Apart
  MaxCrashes = 1
INVARIANTS TypeOK NeverPendingOnWire AtMostOneBroadcast CompleteMeansPaid
PROPERTIES FinishedStaysFinished KeepsPromise
SYMMETRY Activations2
CHECK_DEADLOCK FALSE
