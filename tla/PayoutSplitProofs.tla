-------------------------- MODULE PayoutSplitProofs --------------------------
(***************************************************************************)
(* The split of the prize for every principal and every room.              *)
(***************************************************************************)
EXTENDS PayoutSplit, TLAPS

\* What rounding down leaves over.
LEMMA RoundedDown ==
    ASSUME NEW p \in Nat
    PROVE  /\ WinnerShare(p) \in Nat /\ OwnerShare(p) \in Nat
           /\ 100 * WinnerShare(p) <= 95 * p /\ 95 * p <= 100 * WinnerShare(p) + 99
           /\ 1000 * OwnerShare(p) <= 49 * p /\ 49 * p <= 1000 * OwnerShare(p) + 999
  BY DEF WinnerShare, OwnerShare

LEMMA SharesAreNat == \A p \in Nat : WinnerShare(p) \in Nat /\ OwnerShare(p) \in Nat
  BY DEF WinnerShare, OwnerShare

\* The split is exact to the nanoton for every positive principal: nobody gets
\* more than the rule says, nothing is lost, and the reserve is at least 0.1 %.
THEOREM SplitAlwaysExact == \A p \in Nat \ {0} : SplitsExactly(p)
  <1>. SUFFICES ASSUME NEW p \in Nat \ {0}
                PROVE  /\ 100 * WinnerShare(p) \in (95 * p - 99) .. (95 * p)
                       /\ 1000 * OwnerShare(p) \in (49 * p - 999) .. (49 * p)
                       /\ 1000 * Reserve(p) \in p .. (p + 1989)
                       /\ PlanAccepted(p) <=> p > 20
    BY DEF SplitsExactly
  <1>1. p \in Nat /\ p > 0
    OBVIOUS
  <1> DEFINE w == WinnerShare(p)
             o == OwnerShare(p)
  <1>2. /\ w \in Nat /\ o \in Nat
        /\ 100 * w <= 95 * p /\ 95 * p <= 100 * w + 99
        /\ 1000 * o <= 49 * p /\ 49 * p <= 1000 * o + 999
    BY <1>1, RoundedDown
  <1>3. Reserve(p) = p - w - o
    BY DEF Reserve
  <1>4. PlanAccepted(p) <=> w > 0 /\ o > 0 /\ Reserve(p) >= 0
    BY DEF PlanAccepted
  <1>. HIDE DEF w, o
  <1>5. 1000 * Reserve(p) \in p .. (p + 1989) /\ Reserve(p) >= 0
    BY <1>1, <1>2, <1>3
  <1>6. w > 0 /\ o > 0 <=> p > 20
    BY <1>1, <1>2
  <1>7. 100 * w \in (95 * p - 99) .. (95 * p) /\ 1000 * o \in (49 * p - 999) .. (49 * p)
    BY <1>1, <1>2
  <1>. QED BY <1>4, <1>5, <1>6, <1>7 DEF w, o

\* A principal in whole thousands of nanotons splits without rounding.
LEMMA ThousandsSplitEvenly ==
    ASSUME NEW m \in Nat \ {0}, NEW p, p = 1000 * m
    PROVE  /\ PlanAccepted(p)
           /\ WinnerShare(p) = 950 * m /\ OwnerShare(p) = 49 * m /\ Reserve(p) = m
  BY DEF PlanAccepted, WinnerShare, OwnerShare, Reserve

LEMMA AmountsInThousands ==
    ASSUME NEW k \in Nat \ {0}, Ton = 2000 * k, NEW stake \in Stakes, NEW n \in {1, 2}
    PROVE  \E a \in Nat \ {0} : Amount(stake, n) = 1000 * a
  <1>1. CASE n = 1
    <2>1. Amount(stake, n) = 1000 * (stake * 2 * k) /\ stake * 2 * k \in Nat \ {0}
      BY <1>1 DEF Amount, Stakes
    <2>. QED BY <2>1
  <1>2. CASE n = 2
    <2>1. (5 * Ton) \div 2 = 5000 * k
      OBVIOUS
    <2>2. Amount(stake, n) = 1000 * (stake * 5 * k) /\ stake * 5 * k \in Nat \ {0}
      BY <1>2, <2>1 DEF Amount, Stakes
    <2>. QED BY <2>2
  <1>. QED BY <1>1, <1>2

\* Whatever stake and sectors its three players chose, a room's principal gives
\* the winner 95 %, the owner 4.9 % and the wallet 0.1 % to the nanoton.
THEOREM RoomAlwaysSplitsEvenly == \A p \in RoomPrincipals : p \in Nat \ {0} /\ SplitsEvenly(p)
  <1>. SUFFICES ASSUME NEW stake \in Stakes, NEW s \in Sectors
                PROVE  /\ RoomPrincipal(stake, s) \in Nat \ {0}
                       /\ SplitsEvenly(RoomPrincipal(stake, s))
    BY DEF RoomPrincipals
  <1>1. PICK k \in Nat \ {0} : Ton = 2000 * k
    <2> DEFINE h == Ton \div 2000
    <2>1. h \in Nat \ {0} /\ Ton = 2000 * h
      BY TonAssumption
    <2>. HIDE DEF h
    <2>. QED BY <2>1
  <1>2. \A n \in Seats : s[n] \in {1, 2}
    BY DEF Sectors
  <1>3. /\ \E a \in Nat \ {0} : Amount(stake, s[1]) = 1000 * a
        /\ \E a \in Nat \ {0} : Amount(stake, s[2]) = 1000 * a
        /\ \E a \in Nat \ {0} : Amount(stake, s[3]) = 1000 * a
    BY <1>1, <1>2, AmountsInThousands DEF Seats
  <1>4. PICK a \in Nat \ {0}, b \in Nat \ {0}, c \in Nat \ {0} :
            /\ Amount(stake, s[1]) = 1000 * a
            /\ Amount(stake, s[2]) = 1000 * b
            /\ Amount(stake, s[3]) = 1000 * c
    BY <1>3
  <1>5. a + b + c \in Nat \ {0} /\ RoomPrincipal(stake, s) = 1000 * (a + b + c)
    BY <1>4 DEF RoomPrincipal
  <1>6. PICK m \in Nat \ {0} : RoomPrincipal(stake, s) = 1000 * m
    BY <1>5
  <1> DEFINE p == RoomPrincipal(stake, s)
  <1>. HIDE DEF p
  <1>7. /\ PlanAccepted(p) /\ p = 1000 * m
        /\ WinnerShare(p) = 950 * m /\ OwnerShare(p) = 49 * m /\ Reserve(p) = m
    BY <1>6, ThousandsSplitEvenly DEF p
  <1>8. p \in Nat \ {0} /\ SplitsEvenly(p)
    BY <1>7 DEF SplitsEvenly
  <1>. QED BY <1>8 DEF p
====
