SPECIFICATION Spec
CONSTANTS
  winner = winner
  owner = owner
  refund = refund
  sweep = sweep
  NoJob = NoJob
  NoSeqno = NoSeqno
  NoMessage = NoMessage
  Keys = {winner, owner}
  Earlier <- OwnerAfterWinner
  Refunds = {refund}
  Sweeps = {}
  MaxLag = 0
  MaxRenewals = 1
  MaxCrashes = 1
INVARIANTS AcceptedWasExecuted
