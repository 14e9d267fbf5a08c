SPECIFICATION FairSpec
CONSTANTS
  MaxCrashes = 3
  Ton = 2000
INVARIANTS TypeOK OwnerAfterWinner PaidOnce SettledWasPaid HeldWhileOwed ReserveStays
PROPERTIES PayoutCompletes KeepsPromise
CHECK_DEADLOCK FALSE
