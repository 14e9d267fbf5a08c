----------------------------- MODULE PayoutSplit -----------------------------
(***************************************************************************)
(* The amounts of a payout: PayoutAllocationConfig's fixed rule in whole   *)
(* nanotons (95 % to the winner, 4.9 % to the owner, each rounded down,    *)
(* the rest kept in the room's wallet), RoomPayoutCalculator's plan and    *)
(* what PayoutPlan accepts, and the stakes a room's principal consists of. *)
(***************************************************************************)
EXTENDS Integers

CONSTANT Ton     \* nanotons in one TON: 10^9 in the code

ASSUME TonAssumption == Ton \in Nat \ {0} /\ Ton % 2000 = 0

-----------------------------------------------------------------------------
(* deriveTestnetRoomPaymentRequirements: three players, one stake *)

Stakes == {1, 10}
Seats == 1 .. 3
Sectors == [Seats -> {1, 2}]

\* Two sectors cost two and a half times the stake.
Amount(stake, sectors) == stake * (IF sectors = 2 THEN (5 * Ton) \div 2 ELSE Ton)

RoomPrincipal(stake, s) == Amount(stake, s[1]) + Amount(stake, s[2]) + Amount(stake, s[3])

\* What a room whose three players have paid can hold.
RoomPrincipals == {RoomPrincipal(stake, s) : stake \in Stakes, s \in Sectors}

-----------------------------------------------------------------------------
(* The split *)

\* Fault: the winner's share is taken of what is left beside the reserve.
WinnerOfRest(p) == ((p - p \div 1000) * 95) \div 100

WinnerShare(p) == (p * 95) \div 100

OwnerShare(p) == (p * 49) \div 1000

Reserve(p) == p - WinnerShare(p) - OwnerShare(p)

\* An empty transfer is left out of the plan, and a plan must have both.
PlanAccepted(p) == WinnerShare(p) > 0 /\ OwnerShare(p) > 0 /\ Reserve(p) >= 0

\* Rounding never favours a recipient: each is short of its exact share by less
\* than a nanoton, what they lack stays in the wallet, whose reserve is 0.1 %
\* and less than two nanotons, never less; and only principals of up to twenty
\* nanotons make no plan.
SplitsExactly(p) ==
    /\ 100 * WinnerShare(p) \in (95 * p - 99) .. (95 * p)
    /\ 1000 * OwnerShare(p) \in (49 * p - 999) .. (49 * p)
    /\ 1000 * Reserve(p) \in p .. (p + 1989)
    /\ PlanAccepted(p) <=> p > 20

\* No rounding at all, and 0.1 % is left.
SplitsEvenly(p) ==
    /\ PlanAccepted(p)
    /\ 1000 * WinnerShare(p) = 950 * p
    /\ 1000 * OwnerShare(p) = 49 * p
    /\ 1000 * Reserve(p) = p
====
