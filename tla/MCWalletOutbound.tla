-------------------------- MODULE MCWalletOutbound --------------------------
(* WalletOutbound with the two legs of a payout, the refund of a surplus    *)
(* payment and the administrator's sweep. *)
EXTENDS WalletOutbound

CONSTANTS winner, owner, refund, sweep

OwnerAfterWinner == [k \in Keys |-> IF k = owner THEN {winner} ELSE {}]
====
