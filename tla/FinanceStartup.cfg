SPECIFICATION Spec
CONSTANTS
  alice = alice
  bob = bob
  stakeA = stakeA
  stakeB = stakeB
  again = again
  NoTx = NoTx
  Players = {alice, bob}
  Transfers = {stakeA, stakeB, again}
  Payer <- PaidBy
  MaxCrashes = 1
INVARIANTS StartsAgain
CHECK_DEADLOCK FALSE
