SPECIFICATION FairSpec
CONSTANTS
  alice = alice
  bob = bob
  stakeA = stakeA
  stakeB = stakeB
  again = again
  NoTx = NoTx
  Players = {alice, bob}
  Transfers = {stakeA, stakeB, again}
  Payer <- PaidBy
  MaxCrashes = 0
PROPERTIES WalletComesBack
CHECK_DEADLOCK FALSE
