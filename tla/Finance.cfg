SPECIFICATION FairSpec
CONSTANTS
  alice = alice
  bob = bob
  stakeA = stakeA
  stakeB = stakeB
  again = again
  NoTx = NoTx
  Players = {alice, bob}
  Transfers = {stakeA, stakeB, again}
  Payer <- PaidBy
  MaxCrashes = 2
INVARIANTS TypeOK OneDirection
PROPERTIES AbortedMoneyReturns ReleasedClean KeepsPromise
CHECK_DEADLOCK FALSE
