------------------------- MODULE RoomFinanceProofs -------------------------
(***************************************************************************)
(* RoomFinance for any number of players, payments and crashes: its types, *)
(* that no stake is both played for and refunded, and that the wallet is   *)
(* released only when all the money the room knows of is discharged.       *)
(***************************************************************************)
EXTENDS RoomFinance, TLAPS

USE PayerAssumption, NoTxAssumption, MaxCrashesAssumption

DebtStates == {"none", "open", "complete"}
Intents == [Players -> [state : {"PENDING", "MATCHED", "SETTLED"}, tx : Transfers \cup {NoTx}]]
Watches == [Watchers -> [on : BOOLEAN, open : SUBSET Players]]

-----------------------------------------------------------------------------
(* What the helpers return *)

LEMMA DebtsForTyped ==
    ASSUME debts \in [Transfers -> DebtStates], NEW S
    PROVE  DebtsFor(S) \in [Transfers -> DebtStates]
  BY DEF DebtsFor, DebtStates

\* A debt that DebtsFor adds is for one of the transfers it was asked for.
LEMMA DebtsForOnly ==
    ASSUME debts \in [Transfers -> DebtStates], NEW S, NEW t \in Transfers \ S
    PROVE  DebtsFor(S)[t] = debts[t]
  BY DEF DebtsFor

\* A check never touches a settled intent, and types every one it credits.
LEMMA CreditsTyped ==
    ASSUME intent \in Intents, NEW w \in Watchers, NEW saw \in SUBSET Transfers,
           NEW i \in Credits(w, saw)
    PROVE  /\ i \in Intents
           /\ \A p \in Players : intent[p].state = "SETTLED" => i[p] = intent[p]
  <1>1. CASE Ambiguous(w, saw)
    BY <1>1 DEF Credits
  <1>2. CASE ~Ambiguous(w, saw)
    <2>1. PICK how \in [Creditable(w, saw) -> {"refused", "MATCHED", "SETTLED"}] :
              i = Credit(w, saw, how)
      BY <1>2 DEF Credits
    <2>2. \A p \in Creditable(w, saw) :
              /\ p \in Players /\ intent[p].state # "SETTLED"
              /\ (CHOOSE t \in Found(w, saw, p) : TRUE) \in Transfers
      BY DEF Creditable, Found
    <2>3. i \in Intents
      BY <2>1, <2>2 DEF Credit, Intents
    <2>4. \A p \in Players : intent[p].state = "SETTLED" => i[p] = intent[p]
      BY <2>1, <2>2 DEF Credit
    <2>. QED BY <2>3, <2>4
  <1>. QED BY <1>1, <1>2

LEMMA WindowTyped == TypeOK => \A w \in Watchers : Window(w) \subseteq Transfers
  BY DEF TypeOK, Window

LEMMA CloseBooksTyped ==
    ASSUME TypeOK, NEW i, NEW r, CloseBooks(i, r)
    PROVE  /\ booked' \in SUBSET Players
           /\ outcome' \in {"none", "PAYOUT", "REFUND"}
           /\ debts' \in [Transfers -> DebtStates]
           /\ holder' \in {"room", "free", "other"}
  <1>1. debts' \in [Transfers -> DebtStates]
    BY DebtsForTyped DEF CloseBooks, TypeOK, DebtStates
  <1>. QED BY <1>1 DEF CloseBooks, TypeOK, SettledIn, OutcomeOf

LEMMA ReturnedTyped ==
    ASSUME TypeOK, NEW w \in Watchers, Returned(w)
    PROVE  watch' \in Watches
  BY DEF Returned, NotWatching, TypeOK, Watches

-----------------------------------------------------------------------------
(* Types *)

LEMMA TypeInit == Init => TypeOK
  <1>. SUFFICES ASSUME Init PROVE TypeOK
    OBVIOUS
  <1>1. watch \in Watches
    BY DEF Init, NotWatching, Watches
  <1>2. intent \in Intents /\ debts \in [Transfers -> DebtStates]
    BY DEF Init, Intents, DebtStates
  <1>3. late \in BOOLEAN /\ up \in BOOLEAN
    BY Zenon DEF Init
  <1>. QED BY <1>1, <1>2, <1>3 DEF Init, TypeOK, RoomAt, Watches, Intents, DebtStates

LEMMA RestartTyped ==
    ASSUME TypeOK, NEW i \in Intents, NEW r \in SUBSET Transfers, NEW b \in SUBSET Players,
           NEW o \in {"none", "PAYOUT", "REFUND"}, NEW why \in Reasons \cup {"no"},
           Restart(i, r, b, o, why)
    PROVE  TypeOK'
  <1>1. watch' \in Watches
    BY DEF Restart, NotWatching, Watches
  <1>2. debts' \in [Transfers -> DebtStates]
    BY DebtsForTyped DEF Restart, TypeOK, DebtStates
  <1>3. up' \in BOOLEAN
    BY Zenon DEF Restart
  <1>4. room' \in RoomAt /\ crashes' \in 0 .. MaxCrashes
    BY DEF Restart, TypeOK, RoomAt
  <1>5. outcome' \in {"none", "PAYOUT", "REFUND"}
    BY DEF Restart
  <1>6. holder' \in {"room", "free", "other"}
    BY DEF Restart, TypeOK
  <1>7. intent' \in Intents /\ receipts' \in SUBSET Transfers /\ booked' \in SUBSET Players
        /\ closed' \in Reasons \cup {"no"}
    BY DEF Restart, SettledIn
  <1>8. UNCHANGED <<prize, landed, onTime, late>>
    BY DEF Restart, chain
  <1>. QED BY <1>1, <1>2, <1>3, <1>4, <1>5, <1>6, <1>7, <1>8
       DEF TypeOK, Intents, DebtStates, Watches

LEMMA TypeStep == TypeOK /\ [Next]_vars => TypeOK'
  <1>. SUFFICES ASSUME TypeOK, [Next]_vars PROVE TypeOK'
    OBVIOUS
  <1>0. debts \in [Transfers -> DebtStates] /\ intent \in Intents
    BY DEF TypeOK, DebtStates, Intents
  <1>a. /\ receipts \in SUBSET Transfers /\ booked \in SUBSET Players
        /\ outcome \in {"none", "PAYOUT", "REFUND"} /\ closed \in Reasons \cup {"no"}
    BY DEF TypeOK
  <1>1. CASE UNCHANGED vars
    BY <1>1 DEF vars, TypeOK
  <1>2. ASSUME NEW why \in Reasons, DestroyRoom(why) PROVE TypeOK'
    <2>1. debts' \in [Transfers -> DebtStates]
      BY <1>0, <1>2, DebtsForTyped DEF DestroyRoom
    <2>2. outcome' \in {"none", "PAYOUT", "REFUND"}
      BY <1>2 DEF DestroyRoom, OutcomeOf, TypeOK
    <2>. QED BY <1>2, <2>1, <2>2 DEF DestroyRoom, TypeOK, DebtStates, RoomAt, chain
  <1>3. ASSUME NEW why \in Reasons, DestroyRoomFails(why) PROVE TypeOK'
    <2>1. debts' \in [Transfers -> DebtStates]
      BY <1>0, <1>3, DebtsForTyped DEF DestroyRoomFails
    <2>2. outcome' \in {"none", "PAYOUT", "REFUND"} /\ closed' \in Reasons \cup {"no"}
      BY <1>3 DEF DestroyRoomFails, TypeOK
    <2>. QED BY <1>3, <2>1, <2>2 DEF DestroyRoomFails, TypeOK, DebtStates, RoomAt, chain
  <1>4. CASE ExecutorPass
    BY <1>4, CloseBooksTyped DEF ExecutorPass, TypeOK, DebtStates, chain
  <1>5. ASSUME NEW w \in Watchers, Observe(w) PROVE TypeOK'
    <2>1. watch' \in Watches
      BY <1>5 DEF Observe, TypeOK, Watches, SettledIn
    <2>. QED BY <1>5, <2>1 DEF Observe, TypeOK, Watches, durable, chain
  <1>6. ASSUME NEW w \in Watchers, ObservationArrives(w) PROVE TypeOK'
    <2>1. PICK saw \in SUBSET Window(w) : \E i \in Credits(w, saw) :
              /\ receipts' = receipts \cup saw
              /\ intent' = i
              /\ IF w = "page4"
                 THEN /\ booked' = IF Ambiguous(w, saw) THEN booked ELSE booked \cup SettledIn(i)
                      /\ UNCHANGED <<outcome, debts, holder>>
                 ELSE CloseBooks(i, receipts \cup saw)
      BY <1>6 DEF ObservationArrives
    <2>2. saw \in SUBSET Transfers
      BY WindowTyped
    <2>3. PICK i \in Credits(w, saw) :
              /\ receipts' = receipts \cup saw
              /\ intent' = i
              /\ IF w = "page4"
                 THEN /\ booked' = IF Ambiguous(w, saw) THEN booked ELSE booked \cup SettledIn(i)
                      /\ UNCHANGED <<outcome, debts, holder>>
                 ELSE CloseBooks(i, receipts \cup saw)
      BY <2>1
    <2>4. intent' \in Intents
      BY <1>0, <2>2, <2>3, CreditsTyped
    <2>5. /\ booked' \in SUBSET Players
          /\ outcome' \in {"none", "PAYOUT", "REFUND"}
          /\ debts' \in [Transfers -> DebtStates]
          /\ holder' \in {"room", "free", "other"}
      <3>1. CASE w = "page4"
        BY <1>0, <2>3, <3>1 DEF TypeOK, SettledIn
      <3>2. CASE w # "page4"
        BY <2>3, <3>2, CloseBooksTyped
      <3>. QED BY <3>1, <3>2
    <2>6. watch' \in Watches
      BY <1>6, ReturnedTyped DEF ObservationArrives
    <2>7. UNCHANGED <<closed, prize, room, landed, onTime, late, up, crashes>>
      BY <1>6 DEF ObservationArrives, chain
    <2>. QED BY <2>2, <2>3, <2>4, <2>5, <2>6, <2>7 DEF TypeOK, Intents, Watches, DebtStates
  <1>7. ASSUME NEW w \in Watchers, ObservationFails(w) PROVE TypeOK'
    <2>1. /\ booked' \in SUBSET Players
          /\ outcome' \in {"none", "PAYOUT", "REFUND"}
          /\ debts' \in [Transfers -> DebtStates]
          /\ holder' \in {"room", "free", "other"}
      BY <1>0, <1>7, CloseBooksTyped DEF ObservationFails, TypeOK
    <2>2. watch' \in Watches
      BY <1>7, ReturnedTyped DEF ObservationFails
    <2>. QED BY <1>7, <2>1, <2>2 DEF ObservationFails, TypeOK, Watches, DebtStates, chain
  <1>8. CASE BookPersisted \/ StartGame \/ GameResultReady \/ PlanClaimedPrize
    BY <1>8 DEF BookPersisted, StartGame, GameResultReady, PlanClaimedPrize, TypeOK, RoomAt,
                durable, chain
  <1>9. ASSUME NEW t \in Transfers, CaptureHistorical(t) PROVE TypeOK'
    BY <1>9 DEF CaptureHistorical, TypeOK, chain
  <1>10. CASE PrepareReceipts
    <2>1. debts' \in [Transfers -> DebtStates]
      BY <1>0, <1>10, DebtsForTyped DEF PrepareReceipts
    <2>. QED BY <1>10, <2>1 DEF PrepareReceipts, TypeOK, DebtStates, chain
  <1>11. CASE Crash
    <2>1. PICK why \in Reasons \cup {"no"} : Restart(intent, receipts, booked, outcome, why)
      BY <1>a, <1>11 DEF Crash
    <2>. QED BY <1>0, <1>a, <2>1, RestartTyped
  <1>12. CASE CrashWhileClosing
    <2>1. PICK why \in Reasons : Restart(intent, receipts, booked, outcome, why)
      BY <1>12 DEF CrashWhileClosing
    <2>. QED BY <1>0, <1>a, <2>1, RestartTyped
  <1>13. CASE CrashWhilePlanning
    BY <1>0, <1>a, <1>13, RestartTyped DEF CrashWhilePlanning
  <1>14. ASSUME NEW w \in Watchers, CrashWhileSettling(w) PROVE TypeOK'
    <2>1. PICK saw \in SUBSET Window(w) : \E i \in Credits(w, saw) :
              Restart(i, receipts \cup saw, booked, outcome, closed)
      BY <1>14 DEF CrashWhileSettling
    <2>2. saw \in SUBSET Transfers
      BY WindowTyped
    <2>3. PICK i \in Credits(w, saw) : Restart(i, receipts \cup saw, booked, outcome, closed)
      BY <2>1
    <2>4. i \in Intents
      BY <1>0, <2>2, CreditsTyped
    <2>5. receipts \cup saw \in SUBSET Transfers
      BY <1>a, <2>2
    <2>6. PICK r \in SUBSET Transfers, why \in Reasons \cup {"no"} : Restart(i, r, booked, outcome, why)
      BY <1>a, <2>3, <2>5
    <2>. QED BY <1>a, <2>4, <2>5, <2>6, RestartTyped
  <1>15. ASSUME NEW t \in Transfers, Pay(t) PROVE TypeOK'
    BY <1>15 DEF Pay, TypeOK, durable
  <1>16. ASSUME NEW t \in Transfers, CompleteDebt(t) PROVE TypeOK'
    BY <1>16 DEF CompleteDebt, TypeOK, chain
  <1>17. CASE DeadlinePasses \/ PrizePaid \/ OtherRoomReserves
    BY <1>17 DEF DeadlinePasses, PrizePaid, OtherRoomReserves, TypeOK, durable, chain
  <1>. QED BY <1>1, <1>2, <1>3, <1>4, <1>5, <1>6, <1>7, <1>8, <1>9, <1>10, <1>11, <1>12,
             <1>13, <1>14, <1>15, <1>16, <1>17 DEF Next

\* Every reachable state of a room's money is well typed.
THEOREM TypeCorrect == Spec => []TypeOK
  BY TypeInit, TypeStep, PTL DEF Spec
-----------------------------------------------------------------------------
(* A stake goes one way. *)

\* These intents are all settled, and none of their payments has a debt.
Clean(i) == \A p \in Players :
    i[p].state = "SETTLED" /\ (i[p].tx # NoTx => debts[i[p].tx] = "none")

\* A plan is only ever stored under the claimed outcome, and the claim is only ever
\* held over stakes that are credited for good and have no debts.
DirectionInv ==
    /\ prize # "none" => outcome = "PAYOUT"
    /\ outcome = "PAYOUT" => Clean(intent)

\* Debts for uncredited payments alone leave credited ones without a debt.
LEMMA SurplusKeepsClean ==
    ASSUME debts \in [Transfers -> DebtStates], NEW i \in Intents, NEW S,
           S \cap Credited(i) = {}, Clean(i)
    PROVE  \A p \in Players : i[p].tx # NoTx => DebtsFor(S)[i[p].tx] = "none"
  <1>. SUFFICES ASSUME NEW p \in Players, i[p].tx # NoTx
                PROVE  DebtsFor(S)[i[p].tx] = "none"
    OBVIOUS
  <1>1. i[p].tx \in Transfers /\ i[p].tx \in Credited(i)
    BY DEF Intents, Credited
  <1>2. i[p].tx \in Transfers \ S
    BY <1>1
  <1>3. DebtsFor(S)[i[p].tx] = debts[i[p].tx]
    BY <1>2, DebtsForOnly
  <1>. QED BY <1>3 DEF Clean

\* Under the claim no stake is owed, so closing makes debts for surplus only.
LEMMA ClaimStopsStakes ==
    ASSUME NEW why, NEW i, NEW r, NEW b, outcome = "PAYOUT"
    PROVE  /\ StakesOwed(why, i, b) = {}
           /\ OutcomeOf(why, b) = "PAYOUT"
           /\ (StakesOwed(why, i, b) \cup SurplusOwed(why, i, r)) \cap Credited(i) = {}
           /\ SurplusOwed(why, i, r) \cap Credited(i) = {}
  BY DEF StakesOwed, OutcomeOf, RefundsStakes, SurplusOwed

LEMMA OutcomeKept ==
    ASSUME NEW why, NEW b
    PROVE  /\ OutcomeOf(why, b) = "PAYOUT" => outcome = "PAYOUT"
           /\ prize # "none" => OutcomeOf(why, b) = outcome
  BY DEF OutcomeOf, RefundsStakes

LEMMA CloseBooksKeepsDirection ==
    ASSUME TypeOK, DirectionInv, NEW i \in Intents, NEW r,
           \A p \in Players : intent[p].state = "SETTLED" => i[p] = intent[p],
           CloseBooks(i, r), intent' = i, prize' = prize
    PROVE  DirectionInv'
  <1>0. debts \in [Transfers -> DebtStates]
    BY DEF TypeOK, DebtStates
  <1>1. PICK b : /\ outcome' = OutcomeOf(closed, b)
                 /\ debts' = DebtsFor(StakesOwed(closed, i, b) \cup SurplusOwed(closed, i, r))
    BY DEF CloseBooks
  <1>2. prize' # "none" => outcome' = "PAYOUT"
    BY <1>1, OutcomeKept DEF DirectionInv
  <1>3. ASSUME outcome' = "PAYOUT" PROVE Clean(intent)'
    <2>1. outcome = "PAYOUT"
      BY <1>1, <1>3, OutcomeKept
    <2>2. Clean(intent)
      BY <2>1 DEF DirectionInv
    <2>3. Clean(i)
      BY <2>2 DEF Clean
    <2>4. (StakesOwed(closed, i, b) \cup SurplusOwed(closed, i, r)) \cap Credited(i) = {}
      BY <2>1, ClaimStopsStakes
    <2>5. \A p \in Players : i[p].tx # NoTx => debts'[i[p].tx] = "none"
      BY <1>0, <1>1, <2>3, <2>4, SurplusKeepsClean
    <2>. QED BY <2>3, <2>5 DEF Clean
  <1>. QED BY <1>2, <1>3 DEF DirectionInv

LEMMA RestartKeepsDirection ==
    ASSUME TypeOK, NEW i \in Intents, NEW r, NEW b0, NEW o, NEW why, Restart(i, r, b0, o, why),
           prize # "none" => o = "PAYOUT",
           o = "PAYOUT" => Clean(i)
    PROVE  DirectionInv'
  <1>0. debts \in [Transfers -> DebtStates]
    BY DEF TypeOK, DebtStates
  <1> DEFINE pays == IF o = "PAYOUT" THEN {} ELSE StakesOwed(why, i, b0 \cup SettledIn(i))
  <1>1. prize' = prize /\ intent' = i
    BY DEF Restart
  <1>2. CASE up'
    <2>1. /\ debts' = DebtsFor(pays \cup SurplusOwed(why, i, r))
          /\ outcome' = IF pays # {} THEN "REFUND" ELSE o
      BY <1>2 DEF Restart
    <2>2. prize # "none" => pays = {}
      BY DEF StakesOwed, RefundsStakes
    <2>3. ASSUME outcome' = "PAYOUT" PROVE Clean(intent)'
      <3>1. o = "PAYOUT" /\ pays = {}
        BY <2>1, <2>3
      <3>2. Clean(i)
        BY <3>1
      <3>3. (pays \cup SurplusOwed(why, i, r)) \cap Credited(i) = {}
        BY <3>1 DEF SurplusOwed
      <3>4. \A p \in Players : i[p].tx # NoTx => debts'[i[p].tx] = "none"
        BY <1>0, <2>1, <3>2, <3>3, SurplusKeepsClean
      <3>. QED BY <1>1, <3>2, <3>4 DEF Clean
    <2>. QED BY <1>1, <2>1, <2>2, <2>3 DEF DirectionInv
  <1>3. CASE ~up'
    <2>1. debts' = debts /\ outcome' = o
      BY <1>3 DEF Restart
    <2>. QED BY <1>1, <2>1 DEF DirectionInv, Clean
  <1>. QED BY <1>2, <1>3

LEMMA DirectionStep == TypeOK /\ DirectionInv /\ [Next]_vars => DirectionInv'
  <1>. SUFFICES ASSUME TypeOK, DirectionInv, [Next]_vars PROVE DirectionInv'
    OBVIOUS
  <1>0. debts \in [Transfers -> DebtStates] /\ intent \in Intents
    BY DEF TypeOK, DebtStates, Intents
  <1>a. ASSUME UNCHANGED <<intent, outcome, prize, debts>> PROVE DirectionInv'
    BY <1>a DEF DirectionInv, Clean
  \* Debts of an unclaimed room, or for surplus only, and an outcome other than the claim.
  <1>b. ASSUME NEW S, UNCHANGED <<intent, prize>>, debts' = DebtsFor(S),
               prize # "none" => outcome' = outcome,
               outcome' = "PAYOUT" => outcome = "PAYOUT" /\ S \cap Credited(intent) = {}
        PROVE  DirectionInv'
    <2>1. prize' # "none" => outcome' = "PAYOUT"
      BY <1>b DEF DirectionInv
    <2>2. ASSUME outcome' = "PAYOUT" PROVE Clean(intent)'
      <3>1. Clean(intent) /\ S \cap Credited(intent) = {}
        BY <1>b, <2>2 DEF DirectionInv
      <3>2. \A p \in Players : intent[p].tx # NoTx => debts'[intent[p].tx] = "none"
        BY <1>0, <1>b, <3>1, SurplusKeepsClean
      <3>. QED BY <1>b, <3>1, <3>2 DEF Clean
    <2>. QED BY <2>1, <2>2 DEF DirectionInv
  <1>1. CASE UNCHANGED vars
    BY <1>1, <1>a DEF vars
  <1>2. ASSUME NEW why \in Reasons, DestroyRoom(why) PROVE DirectionInv'
    <2>1. /\ UNCHANGED <<intent, prize>>
          /\ debts' = DebtsFor(StakesOwed(why, intent, booked))
          /\ outcome' = OutcomeOf(why, booked)
      BY <1>2 DEF DestroyRoom
    <2>2. outcome = "PAYOUT" => StakesOwed(why, intent, booked) \cap Credited(intent) = {}
      BY ClaimStopsStakes
    <2>. QED BY <1>b, <2>1, <2>2, OutcomeKept
  <1>3. ASSUME NEW why \in Reasons, DestroyRoomFails(why) PROVE DirectionInv'
    <2>1. CASE UNCHANGED <<outcome, debts>>
      BY <1>3, <1>a, <2>1 DEF DestroyRoomFails
    <2>2. CASE ~UNCHANGED <<outcome, debts>>
      <3>1. /\ RefundsStakes(why, booked) /\ outcome' = "REFUND"
            /\ \E S \in SUBSET StakesOwed(why, intent, booked) : debts' = DebtsFor(S)
            /\ UNCHANGED <<intent, prize>>
        BY <1>3, <2>2 DEF DestroyRoomFails
      <3>2. PICK S : debts' = DebtsFor(S)
        BY <3>1
      <3>3. prize = "none"
        BY <3>1 DEF RefundsStakes
      <3>. QED BY <1>b, <3>1, <3>2, <3>3
    <2>. QED BY <2>1, <2>2
  <1>4. CASE ExecutorPass
    BY <1>0, <1>4, CloseBooksKeepsDirection DEF ExecutorPass
  <1>5. ASSUME NEW w \in Watchers, Observe(w) PROVE DirectionInv'
    BY <1>5, <1>a DEF Observe, durable
  <1>6. ASSUME NEW w \in Watchers, ObservationArrives(w) PROVE DirectionInv'
    <2>0. PICK saw \in SUBSET Window(w) : \E i \in Credits(w, saw) :
              /\ intent' = i
              /\ IF w = "page4" THEN UNCHANGED <<outcome, debts>>
                                ELSE CloseBooks(i, receipts \cup saw)
      BY <1>6 DEF ObservationArrives
    <2>1. PICK i \in Credits(w, saw) :
              /\ intent' = i
              /\ IF w = "page4" THEN UNCHANGED <<outcome, debts>>
                                ELSE CloseBooks(i, receipts \cup saw)
      BY <2>0
    <2>2. saw \in SUBSET Transfers
      BY WindowTyped
    <2>3. /\ i \in Intents
          /\ \A p \in Players : intent[p].state = "SETTLED" => i[p] = intent[p]
      BY <1>0, <2>2, CreditsTyped
    <2>4. prize' = prize
      BY <1>6 DEF ObservationArrives
    <2>5. CASE w = "page4"
      BY <2>1, <2>3, <2>4, <2>5 DEF DirectionInv, Clean
    <2>6. CASE w # "page4"
      BY <2>1, <2>3, <2>4, <2>6, CloseBooksKeepsDirection
    <2>. QED BY <2>5, <2>6
  <1>7. ASSUME NEW w \in Watchers, ObservationFails(w) PROVE DirectionInv'
    <2>1. UNCHANGED <<intent, prize>>
      BY <1>7 DEF ObservationFails
    <2>2. CASE CloseBooks(intent, receipts)
      BY <1>0, <2>1, <2>2, CloseBooksKeepsDirection
    <2>3. CASE UNCHANGED <<booked, outcome, debts, holder>>
      BY <1>a, <2>1, <2>3
    <2>. QED BY <1>7, <2>2, <2>3 DEF ObservationFails
  <1>8. CASE BookPersisted \/ StartGame
    BY <1>8, <1>a DEF BookPersisted, StartGame, durable
  <1>9. CASE GameResultReady
    BY <1>9 DEF GameResultReady, PrizeIsDue, SettledIn, DirectionInv, Clean, Intents, TypeOK
  <1>10. CASE PlanClaimedPrize
    BY <1>10 DEF PlanClaimedPrize, DirectionInv, Clean
  <1>11. ASSUME NEW t \in Transfers, CaptureHistorical(t) PROVE DirectionInv'
    BY <1>11, <1>a DEF CaptureHistorical
  <1>12. CASE PrepareReceipts
    <2>1. SurplusOwed(closed, intent, receipts) \cap Credited(intent) = {}
      BY DEF SurplusOwed
    <2>. QED BY <1>12, <1>b, <2>1 DEF PrepareReceipts
  <1>13. CASE Crash \/ CrashWhileClosing
    <2>1. PICK why : Restart(intent, receipts, booked, outcome, why)
      BY <1>13 DEF Crash, CrashWhileClosing
    <2>. QED BY <1>0, <2>1, RestartKeepsDirection DEF DirectionInv
  <1>14. CASE CrashWhilePlanning
    <2>1. Clean(intent)
      BY <1>0, <1>14 DEF CrashWhilePlanning, PrizeIsDue, SettledIn, Clean, Intents
    <2>2. Restart(intent, receipts, booked, "PAYOUT", closed)
      BY <1>14 DEF CrashWhilePlanning
    <2>. QED BY <1>0, <2>1, <2>2, RestartKeepsDirection
  <1>15. ASSUME NEW w \in Watchers, CrashWhileSettling(w) PROVE DirectionInv'
    <2>0. PICK saw \in SUBSET Window(w) : \E i \in Credits(w, saw) :
              Restart(i, receipts \cup saw, booked, outcome, closed)
      BY <1>15 DEF CrashWhileSettling
    <2>1. PICK i \in Credits(w, saw) : Restart(i, receipts \cup saw, booked, outcome, closed)
      BY <2>0
    <2>2. saw \in SUBSET Transfers
      BY WindowTyped
    <2>3. /\ i \in Intents
          /\ \A p \in Players : intent[p].state = "SETTLED" => i[p] = intent[p]
      BY <1>0, <2>2, CreditsTyped
    <2>4. outcome = "PAYOUT" => Clean(i)
      BY <2>3 DEF DirectionInv, Clean
    <2>. QED BY <2>1, <2>3, <2>4, RestartKeepsDirection DEF DirectionInv
  <1>16. ASSUME NEW t \in Transfers, CompleteDebt(t) PROVE DirectionInv'
    BY <1>0, <1>16 DEF CompleteDebt, DirectionInv, Clean, DebtStates
  <1>17. CASE PrizePaid
    BY <1>17 DEF PrizePaid, DirectionInv, Clean
  <1>18. ASSUME NEW t \in Transfers, Pay(t) PROVE DirectionInv'
    BY <1>18, <1>a DEF Pay, durable
  <1>19. CASE DeadlinePasses \/ OtherRoomReserves
    BY <1>19, <1>a DEF DeadlinePasses, OtherRoomReserves, durable
  <1>. QED BY <1>1, <1>2, <1>3, <1>4, <1>5, <1>6, <1>7, <1>8, <1>9, <1>10, <1>11, <1>12,
             <1>13, <1>14, <1>15, <1>16, <1>17, <1>18, <1>19 DEF Next

\* No stake is both played for and refunded, however the claim of the prize, the
\* closing of the room, the preparation of debts and crashes interleave.
THEOREM OneWay == Spec => []OneDirection
  <1>1. Init => DirectionInv
    BY DEF Init, DirectionInv
  <1>2. DirectionInv => OneDirection
    BY DEF DirectionInv, OneDirection, Clean
  <1>. QED BY <1>1, <1>2, TypeInit, TypeStep, DirectionStep, PTL DEF Spec

-----------------------------------------------------------------------------
(* The release of the wallet. *)

\* What is not owed has been returned or paid out.
LEMMA NothingOwed ==
    ASSUME NEW i \in Intents, NEW r \in SUBSET Transfers, NEW b \in SUBSET Players,
           NEW d, NEW z \in {"none", "planned", "paid"},
           SettledIn(i) \subseteq b, ~Owe(i, r, b, d, z)
    PROVE  \A t \in r \cup Credited(i) :
               d[t] = "complete" \/ (z = "paid" /\ t \in Credited(i))
  <1>1. \A p \in Players : p \in b
    BY DEF Owe, SettledIn
  <1>2. \A t \in Credited(i) : t \in Principal(i, b)
    BY <1>1 DEF Credited, Principal
  <1>3. \A t \in r \ Principal(i, b) : d[t] = "complete"
    BY DEF Owe
  <1>4. \A t \in Principal(i, b) : d[t] = "complete" \/ z = "paid"
    BY DEF Owe
  <1>5. \A t \in r \cap Principal(i, b) : t \in Credited(i)
    BY DEF Credited, Principal
  <1>. QED BY <1>2, <1>3, <1>4, <1>5

\* The step from these books leaves the money the room knows of discharged.
AllDischarged == \A t \in Known : Discharged(t)

LEMMA CloseBooksReleases ==
    ASSUME TypeOK, NEW i \in Intents, NEW r \in SUBSET Transfers, CloseBooks(i, r),
           intent' = i, receipts' = r, prize' = prize, holder = "room", holder' # "room"
    PROVE  AllDischarged'
  <1>1. /\ booked' \in SUBSET Players /\ SettledIn(i) \subseteq booked'
        /\ ~Owe(i, r, booked', debts', prize)
    BY DEF CloseBooks, TypeOK, SettledIn
  <1>2. prize \in {"none", "planned", "paid"}
    BY DEF TypeOK
  <1>3. \A t \in r \cup Credited(i) :
            debts'[t] = "complete" \/ (prize = "paid" /\ t \in Credited(i))
    <2>1. \E b, d : /\ d = debts' /\ b \in SUBSET Players /\ SettledIn(i) \subseteq b
                    /\ ~Owe(i, r, b, d, prize)
      BY <1>1, Zenon
    <2>2. PICK b, d : /\ d = debts' /\ b \in SUBSET Players /\ SettledIn(i) \subseteq b
                      /\ ~Owe(i, r, b, d, prize)
      BY <2>1
    <2>3. ASSUME NEW z \in {"none", "planned", "paid"}, ~Owe(i, r, b, d, z)
          PROVE  \A t \in r \cup Credited(i) :
                     d[t] = "complete" \/ (z = "paid" /\ t \in Credited(i))
      BY <2>2, <2>3, NothingOwed, SMTT(60)
    <2>. QED BY <1>2, <2>2, <2>3
  <1>. QED BY <1>3 DEF AllDischarged, Known, Discharged, Credited

LEMMA RestartReleases ==
    ASSUME TypeOK, NEW i \in Intents, NEW r \in SUBSET Transfers, NEW b0 \in SUBSET Players,
           NEW o, NEW why, Restart(i, r, b0, o, why), holder = "room", holder' # "room"
    PROVE  AllDischarged'
  <1> DEFINE b == b0 \cup SettledIn(i)
  <1>1. b \in SUBSET Players /\ SettledIn(i) \subseteq b /\ ~Owe(i, r, b, debts, prize)
    BY DEF Restart, SettledIn
  <1>2. prize \in {"none", "planned", "paid"}
    BY DEF TypeOK
  <1>3. \A t \in r \cup Credited(i) :
            debts[t] = "complete" \/ (prize = "paid" /\ t \in Credited(i))
    <2>. HIDE DEF b
    <2>. QED BY <1>1, <1>2, NothingOwed
  <1>4. \A t \in Transfers : debts[t] = "complete" => debts'[t] = "complete"
    BY DEF Restart, DebtsFor
  <1>5. \A t \in Credited(i) : t \in Transfers
    BY DEF Credited, Intents
  <1>6. intent' = i /\ receipts' = r /\ prize' = prize
    BY DEF Restart
  <1>. QED BY <1>3, <1>4, <1>5, <1>6 DEF AllDischarged, Known, Discharged, Credited

LEMMA ReleaseStep ==
    ASSUME TypeOK, [Next]_vars, holder = "room", holder' # "room"
    PROVE  AllDischarged'
  <1>0. /\ intent \in Intents /\ receipts \in SUBSET Transfers /\ booked \in SUBSET Players
    BY DEF TypeOK, Intents
  <1>1. CASE ExecutorPass
    BY <1>0, <1>1, CloseBooksReleases DEF ExecutorPass
  <1>2. ASSUME NEW w \in Watchers, ObservationArrives(w) PROVE AllDischarged'
    <2>1. PICK saw \in SUBSET Window(w) : \E i \in Credits(w, saw) :
              /\ intent' = i /\ receipts' = receipts \cup saw
              /\ CloseBooks(i, receipts \cup saw)
      BY <1>2 DEF ObservationArrives
    <2>2. PICK i \in Credits(w, saw) :
              /\ intent' = i /\ receipts' = receipts \cup saw
              /\ CloseBooks(i, receipts \cup saw)
      BY <2>1
    <2>3. saw \in SUBSET Transfers /\ i \in Intents
      BY <1>0, WindowTyped, CreditsTyped
    <2>4. receipts \cup saw \in SUBSET Transfers /\ prize' = prize
      BY <1>0, <1>2, <2>3 DEF ObservationArrives
    <2>. QED BY <2>2, <2>3, <2>4, CloseBooksReleases
  <1>3. ASSUME NEW w \in Watchers, ObservationFails(w) PROVE AllDischarged'
    <2>1. CloseBooks(intent, receipts)
      BY <1>3 DEF ObservationFails
    <2>2. UNCHANGED <<intent, receipts, prize>>
      BY <1>3 DEF ObservationFails
    <2>. QED BY <1>0, <2>1, <2>2, CloseBooksReleases
  <1>4. CASE Crash \/ CrashWhileClosing \/ CrashWhilePlanning
    <2>1. PICK o, why : Restart(intent, receipts, booked, o, why)
      BY <1>4 DEF Crash, CrashWhileClosing, CrashWhilePlanning
    <2>. QED BY <1>0, <2>1, RestartReleases
  <1>5. ASSUME NEW w \in Watchers, CrashWhileSettling(w) PROVE AllDischarged'
    <2>1. PICK saw \in SUBSET Window(w) : \E i \in Credits(w, saw) :
              Restart(i, receipts \cup saw, booked, outcome, closed)
      BY <1>5 DEF CrashWhileSettling
    <2>2. PICK i \in Credits(w, saw) : Restart(i, receipts \cup saw, booked, outcome, closed)
      BY <2>1
    <2>3. saw \in SUBSET Transfers /\ i \in Intents
      BY <1>0, WindowTyped, CreditsTyped
    <2>4. receipts \cup saw \in SUBSET Transfers
      BY <1>0, <2>3
    <2>5. PICK r \in SUBSET Transfers : Restart(i, r, booked, outcome, closed)
      BY <2>2, <2>4
    <2>. QED BY <1>0, <2>3, <2>5, RestartReleases
  <1>6. ~(DeadlinePasses \/ PrizePaid \/ StartGame \/ GameResultReady \/ PlanClaimedPrize
          \/ BookPersisted \/ PrepareReceipts \/ OtherRoomReserves)
    BY DEF DeadlinePasses, PrizePaid, StartGame, GameResultReady, PlanClaimedPrize,
           BookPersisted, PrepareReceipts, OtherRoomReserves
  <1>7. \A t \in Transfers : ~(Pay(t) \/ CompleteDebt(t) \/ CaptureHistorical(t))
    BY DEF Pay, CompleteDebt, CaptureHistorical
  <1>8. /\ \A why \in Reasons : ~(DestroyRoom(why) \/ DestroyRoomFails(why))
        /\ \A w \in Watchers : ~Observe(w)
    BY DEF DestroyRoom, DestroyRoomFails, Observe
  <1>9. ~UNCHANGED vars
    BY DEF vars
  <1>. QED BY <1>1, <1>2, <1>3, <1>4, <1>5, <1>6, <1>7, <1>8, <1>9 DEF Next

\* The wallet leaves the room, at a pass or at startup, only when every payment the
\* room knows of has been returned or paid out as the prize.
THEOREM CleanRelease == Spec => ReleasedClean
  <1>1. TypeOK /\ [Next]_vars =>
            [holder = "room" /\ holder' # "room" => (\A t \in Known : Discharged(t))']_vars
    BY ReleaseStep DEF AllDischarged
  <1>. QED BY <1>1, TypeInit, TypeStep, PTL DEF Spec, ReleasedClean

-----------------------------------------------------------------------------
(* The room keeps StakesPromise.  What checks, closures, passes and startups   *)
(* have in common: they notice payments, credit open intents with payments of  *)
(* their player, and make debts of payments that are not being played for. *)

CreditInv ==
    /\ \A p \in Players :
         /\ intent[p].tx # NoTx => intent[p].tx \in receipts /\ Payer[intent[p].tx] = p
         /\ intent[p].state = "SETTLED" => intent[p].tx # NoTx
    /\ \A t \in Transfers : debts[t] # "none" => t \in receipts
    /\ receipts \subseteq landed

\* These debts are for payments received, and not for stakes of a planned prize.
Returnable(S) ==
    /\ \A t \in S \cap Transfers : t \in receipts'
    /\ prize # "none" => S \cap Credited(intent) = {}

Bookkeeping ==
    /\ UNCHANGED <<prize, landed>>
    /\ receipts \subseteq receipts' /\ receipts' \subseteq landed
    /\ \/ holder' = holder
       \/ holder = "room" /\ holder' = "free"
       \/ holder = "free" /\ holder' = "room"
    /\ \A p \in Players :
         \/ intent'[p] = intent[p]
         \/ /\ intent[p].state # "SETTLED"
            /\ intent'[p].tx \in receipts' /\ Payer[intent'[p].tx] = p
    /\ \E S : debts' = DebtsFor(S) /\ Returnable(S)

LEMMA CreditInit == Init => CreditInv
  BY DEF Init, CreditInv

\* A check credits an intent with a payment it saw, of the intent's player.
LEMMA CreditsFound ==
    ASSUME NEW w \in Watchers, NEW saw, NEW i \in Credits(w, saw), NEW p \in Players
    PROVE  \/ i[p] = intent[p]
           \/ intent[p].state # "SETTLED" /\ i[p].tx \in saw /\ Payer[i[p].tx] = p
  <1>1. CASE Ambiguous(w, saw)
    BY <1>1 DEF Credits
  <1>2. CASE ~Ambiguous(w, saw)
    <2>1. PICK how \in [Creditable(w, saw) -> {"refused", "MATCHED", "SETTLED"}] :
              i = Credit(w, saw, how)
      BY <1>2 DEF Credits
    <2>2. \A q \in Creditable(w, saw) :
              /\ q \in Players /\ intent[q].state # "SETTLED"
              /\ (CHOOSE t \in Found(w, saw, q) : TRUE) \in Found(w, saw, q)
      BY DEF Creditable
    <2>3. \A q \in Players : \A t \in Found(w, saw, q) : t \in saw /\ Payer[t] = q
      BY DEF Found
    <2>. QED BY <2>1, <2>2, <2>3 DEF Credit
  <1>. QED BY <1>1, <1>2

LEMMA NoNewDebts == TypeOK => debts = DebtsFor({})
  BY DEF TypeOK, DebtsFor

\* What closing a room, a pass and a startup ask debts for is returnable.
LEMMA OwedIsReturnable ==
    ASSUME NEW i \in Intents, intent' = i, NEW b \in SUBSET Players, NEW why,
           Credited(i) \subseteq receipts', prize # "none" => Credited(i) = Credited(intent),
           NEW stakes, stakes \subseteq StakesOwed(why, i, b),
           NEW surplus, surplus \subseteq SurplusOwed(why, i, receipts')
    PROVE  Returnable(stakes \cup surplus)
  <1>1. \A t \in stakes \cap Transfers : t \in receipts'
    BY DEF StakesOwed, Principal, Credited
  <1>2. \A t \in surplus : t \in receipts' /\ t \notin Credited(i)
    BY DEF SurplusOwed
  <1>3. prize # "none" => stakes = {}
    BY DEF StakesOwed, RefundsStakes
  <1>. QED BY <1>1, <1>2, <1>3 DEF Returnable

\* While a prize is planned all intents are settled, so no check changes one.
LEMMA PlannedKeepsCredits ==
    ASSUME DirectionInv, prize # "none", NEW i,
           \A p \in Players : intent[p].state = "SETTLED" => i[p] = intent[p]
    PROVE  Credited(i) = Credited(intent)
  BY DEF DirectionInv, Clean, Credited

LEMMA CloseBooksReturnable ==
    ASSUME TypeOK, DirectionInv, NEW i \in Intents, intent' = i, CloseBooks(i, receipts'),
           Credited(i) \subseteq receipts',
           \A p \in Players : intent[p].state = "SETTLED" => i[p] = intent[p]
    PROVE  /\ \E S : debts' = DebtsFor(S) /\ Returnable(S)
           /\ holder' = holder \/ (holder = "room" /\ holder' = "free")
  <1>1. PICK b \in SUBSET Players : debts' = DebtsFor(StakesOwed(closed, i, b)
                                                 \cup SurplusOwed(closed, i, receipts'))
    <2>1. booked \cup SettledIn(i) \in SUBSET Players
      BY DEF TypeOK, SettledIn
    <2>. QED BY <2>1 DEF CloseBooks
  <1>2. Returnable(StakesOwed(closed, i, b) \cup SurplusOwed(closed, i, receipts'))
    BY OwedIsReturnable, PlannedKeepsCredits
  <1>3. holder' = holder \/ (holder = "room" /\ holder' = "free")
    BY DEF CloseBooks
  <1>. QED BY <1>1, <1>2, <1>3

LEMMA RestartBooks ==
    ASSUME TypeOK, DirectionInv, CreditInv,
           NEW i \in Intents, NEW r \in SUBSET landed, NEW b0 \in SUBSET Players, NEW o, NEW why,
           Restart(i, r, b0, o, why), receipts \subseteq r,
           \A p \in Players : \/ i[p] = intent[p]
                              \/ intent[p].state # "SETTLED" /\ i[p].tx \in r /\ Payer[i[p].tx] = p
    PROVE  Bookkeeping
  <1> DEFINE b == b0 \cup SettledIn(i)
             pays == IF o = "PAYOUT" THEN {} ELSE StakesOwed(why, i, b)
  <1>1. intent' = i /\ receipts' = r /\ UNCHANGED <<prize, landed>>
    BY DEF Restart, chain
  <1>2. Credited(i) \subseteq r
    BY DEF Credited, CreditInv
  <1>3. prize # "none" => Credited(i) = Credited(intent)
    BY PlannedKeepsCredits
  <1>4. \E S : debts' = DebtsFor(S) /\ Returnable(S)
    <2>1. b \in SUBSET Players /\ pays \subseteq StakesOwed(why, i, b)
      BY DEF SettledIn
    <2>2. CASE up'
      <3>1. debts' = DebtsFor(pays \cup SurplusOwed(why, i, r))
        BY <2>2 DEF Restart
      <3>2. Returnable(pays \cup SurplusOwed(why, i, r))
        <4>. HIDE DEF b, pays
        <4>. QED BY <1>1, <1>2, <1>3, <2>1, OwedIsReturnable
      <3>. QED BY <3>1, <3>2
    <2>3. CASE ~up'
      BY <2>3, NoNewDebts DEF Restart, Returnable
    <2>. QED BY <2>2, <2>3
  <1>5. \/ holder' = holder
        \/ holder = "room" /\ holder' = "free"
        \/ holder = "free" /\ holder' = "room"
    BY DEF Restart, TypeOK
  <1>. QED BY <1>1, <1>4, <1>5 DEF Bookkeeping

\* Actions that only notice, credit, make debts, or change none of this.
Books ==
    \/ \E why \in Reasons : DestroyRoom(why) \/ DestroyRoomFails(why)
    \/ ExecutorPass
    \/ \E w \in Watchers : Observe(w) \/ ObservationArrives(w) \/ ObservationFails(w)
    \/ BookPersisted
    \/ \E t \in Transfers : CaptureHistorical(t)
    \/ PrepareReceipts
    \/ StartGame
    \/ Crash \/ CrashWhileClosing \/ CrashWhilePlanning
    \/ \E w \in Watchers : CrashWhileSettling(w)
    \/ DeadlinePasses

LEMMA BooksAre == ASSUME TypeOK, DirectionInv, CreditInv, Books PROVE Bookkeeping
  <1>0. /\ intent \in Intents /\ receipts \in SUBSET Transfers /\ booked \in SUBSET Players
        /\ receipts \subseteq landed /\ landed \subseteq Transfers /\ onTime \subseteq landed
        /\ Credited(intent) \subseteq receipts
    BY DEF TypeOK, Intents, CreditInv, Credited
  <1>1. ASSUME UNCHANGED <<intent, prize, landed, receipts, holder>>,
               \E S : debts' = DebtsFor(S) /\ Returnable(S)
        PROVE  Bookkeeping
    BY <1>0, <1>1 DEF Bookkeeping
  <1>2. Returnable({})
    BY DEF Returnable
  <1>3. ASSUME NEW why, NEW S, S \subseteq StakesOwed(why, intent, booked), debts' = DebtsFor(S),
               UNCHANGED <<intent, prize, landed, receipts, holder>>
        PROVE  Bookkeeping
    <2>1. Returnable(S \cup {})
      BY <1>0, <1>3, OwedIsReturnable
    <2>. QED BY <1>1, <1>3, <2>1
  <1>4. ASSUME NEW why \in Reasons, DestroyRoom(why) PROVE Bookkeeping
    BY <1>3, <1>4 DEF DestroyRoom, chain
  <1>5. ASSUME NEW why \in Reasons, DestroyRoomFails(why) PROVE Bookkeeping
    <2>1. UNCHANGED <<intent, prize, landed, receipts, holder>>
      BY <1>5 DEF DestroyRoomFails, chain
    <2>2. CASE UNCHANGED debts
      BY <1>1, <1>2, <2>1, <2>2, NoNewDebts
    <2>3. CASE \E S \in SUBSET StakesOwed(why, intent, booked) : debts' = DebtsFor(S)
      BY <1>3, <2>1, <2>3
    <2>. QED BY <1>5, <2>2, <2>3 DEF DestroyRoomFails
  <1>6. ASSUME CloseBooks(intent, receipts), UNCHANGED <<intent, prize, landed, receipts>>
        PROVE  Bookkeeping
    BY <1>0, <1>6, CloseBooksReturnable DEF Bookkeeping
  <1>7. CASE ExecutorPass
    BY <1>6, <1>7 DEF ExecutorPass, chain
  <1>8. ASSUME NEW w \in Watchers, ObservationFails(w) PROVE Bookkeeping
    <2>1. UNCHANGED <<intent, prize, landed, receipts>>
      BY <1>8 DEF ObservationFails, chain
    <2>2. CASE UNCHANGED <<booked, outcome, debts, holder>>
      BY <1>1, <1>2, <2>1, <2>2, NoNewDebts
    <2>. QED BY <1>6, <1>8, <2>1, <2>2 DEF ObservationFails
  <1>9. ASSUME NEW w \in Watchers, ObservationArrives(w) PROVE Bookkeeping
    <2>1. PICK saw \in SUBSET Window(w) : \E i \in Credits(w, saw) :
              /\ receipts' = receipts \cup saw
              /\ intent' = i
              /\ IF w = "page4" THEN UNCHANGED <<debts, holder>>
                                ELSE CloseBooks(i, receipts \cup saw)
      BY <1>9 DEF ObservationArrives
    <2>2. PICK i \in Credits(w, saw) :
              /\ receipts' = receipts \cup saw
              /\ intent' = i
              /\ IF w = "page4" THEN UNCHANGED <<debts, holder>>
                                ELSE CloseBooks(i, receipts \cup saw)
      BY <2>1
    <2>3. saw \in SUBSET Transfers /\ saw \subseteq landed
      BY <1>0, WindowTyped DEF Window
    <2>4. /\ i \in Intents
          /\ \A p \in Players : intent[p].state = "SETTLED" => i[p] = intent[p]
      BY <1>0, <2>3, CreditsTyped
    <2>5. \A p \in Players : \/ i[p] = intent[p]
                             \/ intent[p].state # "SETTLED" /\ i[p].tx \in saw /\ Payer[i[p].tx] = p
      BY CreditsFound
    <2>6. Credited(i) \subseteq receipts'
      BY <1>0, <2>2, <2>5 DEF Credited
    <2>7. UNCHANGED <<prize, landed>>
      BY <1>9 DEF ObservationArrives, chain
    <2>8. /\ \E S : debts' = DebtsFor(S) /\ Returnable(S)
          /\ holder' = holder \/ (holder = "room" /\ holder' = "free")
      <3>1. CASE w = "page4"
        BY <1>2, <2>2, <3>1, NoNewDebts
      <3>2. CASE w # "page4"
        BY <2>2, <2>4, <2>6, <3>2, CloseBooksReturnable
      <3>. QED BY <3>1, <3>2
    <2>. QED BY <1>0, <2>2, <2>3, <2>5, <2>7, <2>8 DEF Bookkeeping
  <1>10. CASE BookPersisted \/ StartGame \/ DeadlinePasses \/ \E w \in Watchers : Observe(w)
    <2>1. UNCHANGED <<intent, prize, landed, receipts, holder, debts>>
      BY <1>10 DEF BookPersisted, StartGame, DeadlinePasses, Observe, durable, chain
    <2>. QED BY <1>1, <1>2, <2>1, NoNewDebts
  <1>11. ASSUME NEW t \in Transfers, CaptureHistorical(t) PROVE Bookkeeping
    <2>1. /\ UNCHANGED <<intent, prize, landed, holder, debts>>
          /\ receipts' = receipts \cup {t} /\ t \in landed
      BY <1>11 DEF CaptureHistorical, chain
    <2>. QED BY <1>0, <1>2, <2>1, NoNewDebts DEF Bookkeeping
  <1>12. CASE PrepareReceipts
    <2>1. /\ UNCHANGED <<intent, prize, landed, receipts, holder>>
          /\ debts' = DebtsFor({} \cup SurplusOwed(closed, intent, receipts))
      BY <1>12 DEF PrepareReceipts, chain
    <2>2. Returnable({} \cup SurplusOwed(closed, intent, receipts))
      BY <1>0, <2>1, OwedIsReturnable
    <2>. QED BY <1>1, <2>1, <2>2
  <1>13. CASE Crash \/ CrashWhileClosing \/ CrashWhilePlanning
    <2>1. PICK o, why : Restart(intent, receipts, booked, o, why)
      BY <1>13 DEF Crash, CrashWhileClosing, CrashWhilePlanning
    <2>. QED BY <1>0, <2>1, RestartBooks
  <1>14. ASSUME NEW w \in Watchers, CrashWhileSettling(w) PROVE Bookkeeping
    <2>1. PICK saw \in SUBSET Window(w) : \E i \in Credits(w, saw) :
              Restart(i, receipts \cup saw, booked, outcome, closed)
      BY <1>14 DEF CrashWhileSettling
    <2>2. PICK i \in Credits(w, saw) : Restart(i, receipts \cup saw, booked, outcome, closed)
      BY <2>1
    <2>3. saw \in SUBSET Transfers /\ saw \subseteq landed
      BY <1>0, WindowTyped DEF Window
    <2>4. i \in Intents
      BY <1>0, <2>3, CreditsTyped
    <2>5. PICK r \in SUBSET landed : r = receipts \cup saw
      BY <1>0, <2>3
    <2>6. \A p \in Players : \/ i[p] = intent[p]
                             \/ intent[p].state # "SETTLED" /\ i[p].tx \in r /\ Payer[i[p].tx] = p
      BY <2>5, CreditsFound
    <2>7. Restart(i, r, booked, outcome, closed) /\ receipts \subseteq r
      BY <2>2, <2>5
    <2>. QED BY <1>0, <2>4, <2>6, <2>7, RestartBooks
  <1>. QED BY <1>4, <1>5, <1>7, <1>8, <1>9, <1>10, <1>11, <1>12, <1>13, <1>14 DEF Books

LEMMA BookkeepingKeepsCredit ==
    ASSUME TypeOK, TypeOK', CreditInv, Bookkeeping
    PROVE  CreditInv'
  <1>1. ASSUME NEW p \in Players
        PROVE  /\ intent'[p].tx # NoTx => intent'[p].tx \in receipts' /\ Payer[intent'[p].tx] = p
               /\ intent'[p].state = "SETTLED" => intent'[p].tx # NoTx
    <2>1. receipts' \subseteq Transfers
      BY DEF TypeOK
    <2>. QED BY <2>1 DEF Bookkeeping, CreditInv
  <1>2. ASSUME NEW t \in Transfers, debts'[t] # "none" PROVE t \in receipts'
    <2>1. PICK S : debts' = DebtsFor(S) /\ Returnable(S)
      BY DEF Bookkeeping
    <2>2. t \in S \/ debts'[t] = debts[t]
      BY <2>1, DebtsForOnly DEF TypeOK, DebtStates
    <2>. QED BY <1>2, <2>1, <2>2 DEF Returnable, Bookkeeping, CreditInv
  <1>3. receipts' \subseteq landed'
    BY DEF Bookkeeping
  <1>. QED BY <1>1, <1>2, <1>3 DEF CreditInv

LEMMA CreditStep == TypeOK /\ DirectionInv /\ CreditInv /\ [Next]_vars => CreditInv'
  <1>. SUFFICES ASSUME TypeOK, DirectionInv, CreditInv, [Next]_vars PROVE CreditInv'
    OBVIOUS
  <1>1. CASE UNCHANGED <<intent, receipts, debts>> /\ landed \subseteq landed'
    BY <1>1 DEF CreditInv
  <1>2. CASE Books
    BY <1>2, BooksAre, TypeStep, BookkeepingKeepsCredit
  <1>3. CASE UNCHANGED vars \/ GameResultReady \/ PlanClaimedPrize \/ PrizePaid \/ OtherRoomReserves
             \/ \E t \in Transfers : Pay(t)
    BY <1>1, <1>3 DEF vars, GameResultReady, PlanClaimedPrize, PrizePaid, OtherRoomReserves, Pay,
                      durable, chain
  <1>4. ASSUME NEW t \in Transfers, CompleteDebt(t) PROVE CreditInv'
    BY <1>4 DEF CompleteDebt, CreditInv, chain, TypeOK
  <1>. QED BY <1>2, <1>3, <1>4 DEF Next, Books

\* A claimed prize that is not paid keeps the wallet: the claim is made while the
\* room has it, and its stakes stay undischarged.
PrizeInv == outcome = "PAYOUT" => prize = "paid" \/ Players = {} \/ holder = "room"

LEMMA CloseBooksClaims ==
    ASSUME NEW i, NEW r, CloseBooks(i, r), outcome' = "PAYOUT"
    PROVE  outcome = "PAYOUT"
  BY OutcomeKept DEF CloseBooks

\* The outcome becomes the prize only where onGameResult's guards hold.
LEMMA ClaimedWhenDue ==
    ASSUME [Next]_vars, outcome' = "PAYOUT"
    PROVE  outcome = "PAYOUT" \/ PrizeIsDue
  <1>1. CASE GameResultReady \/ CrashWhilePlanning
    BY <1>1 DEF GameResultReady, CrashWhilePlanning
  <1>2. CASE ExecutorPass
    BY <1>2, CloseBooksClaims DEF ExecutorPass
  <1>3. ASSUME NEW w \in Watchers, ObservationArrives(w) PROVE outcome = "PAYOUT"
    <2>1. UNCHANGED outcome \/ \E i, r : CloseBooks(i, r)
      BY <1>3 DEF ObservationArrives
    <2>. QED BY <2>1, CloseBooksClaims
  <1>4. ASSUME NEW w \in Watchers, ObservationFails(w) PROVE outcome = "PAYOUT"
    BY <1>4, CloseBooksClaims DEF ObservationFails
  <1>5. ASSUME NEW why \in Reasons, DestroyRoom(why) \/ DestroyRoomFails(why)
        PROVE  outcome = "PAYOUT"
    BY <1>5, OutcomeKept DEF DestroyRoom, DestroyRoomFails
  <1>6. ASSUME \E i, r, b, why : Restart(i, r, b, outcome, why) PROVE outcome = "PAYOUT"
    BY <1>6 DEF Restart
  <1>7. CASE Crash \/ CrashWhileClosing \/ \E w \in Watchers : CrashWhileSettling(w)
    BY <1>6, <1>7 DEF Crash, CrashWhileClosing, CrashWhileSettling
  <1>8. CASE UNCHANGED outcome
    BY <1>8
  <1>9. CASE UNCHANGED vars \/ BookPersisted \/ PrepareReceipts \/ StartGame \/ PlanClaimedPrize
             \/ DeadlinePasses \/ PrizePaid \/ OtherRoomReserves
    BY <1>8, <1>9 DEF vars, BookPersisted, PrepareReceipts, StartGame, PlanClaimedPrize,
                      DeadlinePasses, PrizePaid, OtherRoomReserves, durable
  <1>10. CASE \/ \E w \in Watchers : Observe(w)
              \/ \E t \in Transfers : CaptureHistorical(t) \/ Pay(t) \/ CompleteDebt(t)
    BY <1>8, <1>10 DEF Observe, CaptureHistorical, Pay, CompleteDebt, durable
  <1>. QED BY <1>1, <1>2, <1>3, <1>4, <1>5, <1>7, <1>9, <1>10 DEF Next

LEMMA PaidStaysPaid == ASSUME TypeOK, DirectionInv, CreditInv, [Next]_vars, prize = "paid"
                       PROVE  prize' = "paid"
  <1>1. CASE Books
    BY <1>1, BooksAre DEF Bookkeeping
  <1>2. CASE ~Books
    BY <1>2 DEF Next, Books, vars, GameResultReady, PlanClaimedPrize, PrizePaid, OtherRoomReserves,
                Pay, CompleteDebt, durable
  <1>. QED BY <1>1, <1>2

LEMMA PrizeStep ==
    ASSUME TypeOK, DirectionInv, DirectionInv', CreditInv, CreditInv', PrizeInv, [Next]_vars
    PROVE  PrizeInv'
  <1>. SUFFICES ASSUME outcome' = "PAYOUT", prize' # "paid", Players # {}
                PROVE  holder' = "room"
    BY DEF PrizeInv
  <1>1. prize # "paid"
    BY PaidStaysPaid
  <1>2. holder = "room"
    BY <1>1, ClaimedWhenDue DEF PrizeInv, PrizeIsDue
  <1>3. ASSUME AllDischarged' PROVE FALSE
    <2>1. PICK p \in Players : TRUE
      OBVIOUS
    <2>2. /\ intent'[p].tx # NoTx
          /\ debts'[intent'[p].tx] = "none"
      BY DEF DirectionInv, Clean, CreditInv
    <2>3. intent'[p].tx \in Known'
      BY <2>2 DEF Known, Credited
    <2>. QED BY <1>3, <2>2, <2>3 DEF AllDischarged, Discharged
  <1>. QED BY <1>2, <1>3, ReleaseStep

\* Every step maps to a step of the promise.
LEMMA PromiseInit == Init => Promise!Init
  <1>. SUFFICES ASSUME Init PROVE Promise!Init
    OBVIOUS
  <1>1. \A t \in Transfers : StatusOf(t) = "none"
    BY DEF Init, StatusOf
  <1>. QED BY <1>1 DEF Init, Promise!Init

LEMMA PromiseQuiet ==
    ASSUME UNCHANGED <<debts, intent, prize, receipts, landed, holder>>
    PROVE  [Promise!Next]_(Promise!vars)
  BY DEF Promise!vars, StatusOf, Credited

\* While a prize is planned or paid, no check changes what is credited.
LEMMA PlannedKeepsIntents ==
    ASSUME TypeOK, TypeOK', DirectionInv, Bookkeeping, prize # "none"
    PROVE  Credited(intent)' = Credited(intent)
  BY DEF DirectionInv, Clean, Credited, Bookkeeping

\* How bookkeeping moves one payment.
LEMMA BooksMove ==
    ASSUME TypeOK, TypeOK', DirectionInv, CreditInv, Bookkeeping, NEW t \in Transfers
    PROVE  \/ StatusOf(t)' = StatusOf(t) /\ StatusOf(t) # "sent"
           \/ StatusOf(t) = "sent" /\ StatusOf(t)' \in {"sent", "known", "owed"}
           \/ StatusOf(t) = "known" /\ StatusOf(t)' = "owed"
  <1>a. t \in Credited(intent) => t \in receipts
    BY DEF CreditInv, Credited
  <1>b. prize # "none" => Credited(intent)' = Credited(intent)
    BY PlannedKeepsIntents
  <1>c. /\ debts[t] \in DebtStates /\ prize \in {"none", "planned", "paid"}
        /\ UNCHANGED <<prize, landed>> /\ (t \in receipts => t \in receipts')
        /\ (t \in receipts' => t \in landed)
    BY DEF Bookkeeping, TypeOK, DebtStates
  <1>0. /\ debts[t] \in DebtStates /\ prize \in {"none", "planned", "paid"}
        /\ UNCHANGED <<prize, landed>> /\ (t \in receipts => t \in receipts')
        /\ (t \in receipts' => t \in landed)
        /\ (prize # "none" => Credited(intent)' = Credited(intent))
        /\ (t \in Credited(intent) => t \in receipts)
    BY <1>a, <1>b, <1>c
  <1>1. CASE debts'[t] = debts[t]
    BY <1>0, <1>1 DEF StatusOf, DebtStates, Credited
  <1>2. CASE debts'[t] # debts[t]
    <2>1. PICK S : debts' = DebtsFor(S) /\ Returnable(S)
      BY DEF Bookkeeping
    <2>2. t \in S /\ debts[t] = "none" /\ debts'[t] = "open"
      BY <1>2, <2>1 DEF DebtsFor
    <2>3. t \in receipts' /\ (prize # "none" => t \notin Credited(intent))
      BY <2>1, <2>2 DEF Returnable
    <2>. QED BY <1>0, <2>2, <2>3 DEF StatusOf, DebtStates
  <1>. QED BY <1>1, <1>2

LEMMA PromiseBook ==
    ASSUME TypeOK, TypeOK', DirectionInv, CreditInv, Bookkeeping,
           holder' = holder \/ (holder = "free" /\ holder' = "room")
    PROVE  [Promise!Next]_(Promise!vars)
  <1>1. \A t \in Transfers : StatusOf(t) \in Promise!Stages /\ StatusOf(t)' \in Promise!Stages
    BY DEF Promise!Stages, StatusOf, TypeOK
  <1>2. Promise!Book
    BY <1>1, BooksMove DEF Promise!Book
  <1>. QED BY <1>2 DEF Promise!Next

LEMMA PromiseRelease ==
    ASSUME TypeOK, TypeOK', DirectionInv, CreditInv, Bookkeeping,
           holder = "room", holder' = "free", AllDischarged'
    PROVE  [Promise!Next]_(Promise!vars)
  <1>1. ASSUME NEW t \in Transfers
        PROVE  StatusOf(t)' = StatusOf(t) /\ StatusOf(t) \notin {"known", "owed", "played"}
    <2>a. prize # "none" => Credited(intent)' = Credited(intent)
      BY PlannedKeepsIntents
    <2>b. /\ debts[t] \in DebtStates /\ prize \in {"none", "planned", "paid"}
          /\ UNCHANGED <<prize, landed>> /\ (t \in receipts => t \in receipts')
      BY DEF Bookkeeping, TypeOK, DebtStates
    <2>c. /\ (debts[t] # "none" => t \in receipts)
          /\ (t \in Credited(intent) => t \in receipts)
      BY DEF CreditInv, Credited
    <2>1. /\ debts[t] \in DebtStates /\ prize \in {"none", "planned", "paid"} /\ prize' = prize
          /\ (t \in receipts => t \in receipts')
          /\ (prize # "none" => Credited(intent)' = Credited(intent))
          /\ (debts[t] # "none" => t \in receipts)
          /\ (t \in Credited(intent) => t \in receipts)
          /\ landed' = landed
      BY <2>a, <2>b, <2>c
    <2>2. debts'[t] = "complete" => debts[t] = "complete"
      BY DEF Bookkeeping, DebtsFor
    <2>3. debts[t] = "complete" => debts'[t] = "complete"
      BY DEF Bookkeeping, DebtsFor
    <2>4. prize = "paid" /\ t \in Credited(intent) => debts[t] = "none" /\ debts'[t] = "none"
      <3>. SUFFICES ASSUME prize = "paid", t \in Credited(intent)
                    PROVE  debts[t] = "none" /\ debts'[t] = "none"
        OBVIOUS
      <3>1. debts[t] = "none"
        BY DEF DirectionInv, Clean, Credited
      <3>2. PICK S : debts' = DebtsFor(S) /\ Returnable(S)
        BY DEF Bookkeeping
      <3>. QED BY <3>1, <3>2 DEF Returnable, DebtsFor
    <2>5. t \in receipts' =>
              \/ debts[t] = "complete"
              \/ prize = "paid" /\ t \in Credited(intent)
      BY <2>1, <2>2 DEF AllDischarged, Known, Discharged
    <2>6. CASE t \in receipts'
      BY <2>1, <2>3, <2>4, <2>5, <2>6 DEF StatusOf
    <2>7. CASE t \notin receipts'
      <3>1. t \notin receipts /\ debts[t] = "none" /\ t \notin Credited(intent)
        BY <2>1, <2>7
      <3>2. debts'[t] = "none"
        BY <2>7, <3>1 DEF Bookkeeping, DebtsFor, Returnable
      <3>3. prize # "none" => t \notin Credited(intent)'
        BY <2>1, <3>1
      <3>. QED BY <2>1, <2>7, <3>1, <3>2, <3>3 DEF StatusOf
    <2>. QED BY <2>6, <2>7
  <1>2. Promise!Release
    BY <1>1 DEF Promise!Release, Promise!At
  <1>. QED BY <1>2 DEF Promise!Next

LEMMA PromisePlay ==
    ASSUME TypeOK, CreditInv, Clean(intent), prize = "none", prize' = "planned",
           UNCHANGED <<debts, intent, receipts, landed, holder>>, Players = {} \/ holder = "room"
    PROVE  [Promise!Next]_(Promise!vars)
  <1>1. CASE Players = {}
    BY <1>1 DEF Promise!vars, StatusOf, Credited
  <1>2. CASE holder = "room"
    <2>1. /\ \A p \in Players : /\ intent[p].tx \in Credited(intent) /\ Payer[intent[p].tx] = p
                                /\ intent[p].tx \in Transfers
                                /\ intent[p].tx \in receipts /\ debts[intent[p].tx] = "none"
          /\ \A t \in Credited(intent) : \E p \in Players : t = intent[p].tx
      BY DEF CreditInv, Clean, Credited, TypeOK
    <2>2. /\ \A t \in Credited(intent) : StatusOf(t) = "known" /\ StatusOf(t)' = "played"
          /\ \A t \in Transfers : StatusOf(t) \notin {"played", "won"}
      BY <2>1 DEF StatusOf
    <2>3. \A t \in Transfers \ Credited(intent) : StatusOf(t)' = StatusOf(t)
      BY DEF StatusOf
    <2>4. Credited(intent) \in SUBSET Promise!At("known")
      BY <2>1, <2>2 DEF Promise!At
    <2>5. Promise!Play(Credited(intent))
      <3>1. {Payer[t] : t \in Credited(intent)} = Players
        BY <2>1
      <3>2. \A t, u \in Credited(intent) : Payer[t] = Payer[u] => t = u
        BY <2>1
      <3>3. Promise!At("played") = {} /\ Promise!At("won") = {}
        BY <2>2 DEF Promise!At
      <3>4. [t \in Transfers |-> StatusOf(t)]'
            = [t \in Transfers |-> IF t \in Credited(intent) THEN "played"
                                   ELSE [u \in Transfers |-> StatusOf(u)][t]]
        BY <2>2, <2>3
      <3>. QED BY <1>2, <3>1, <3>2, <3>3, <3>4 DEF Promise!Play
    <2>. QED BY <2>4, <2>5 DEF Promise!Next
  <1>. QED BY <1>1, <1>2

LEMMA PromiseStep ==
    ASSUME TypeOK, TypeOK', DirectionInv, CreditInv, CreditInv', PrizeInv, [Next]_vars
    PROVE  [Promise!Next]_(Promise!vars)
  <1>1. CASE Books
    <2>1. Bookkeeping
      BY <1>1, BooksAre
    <2>2. CASE holder' = holder \/ (holder = "free" /\ holder' = "room")
      BY <2>1, <2>2, PromiseBook
    <2>3. CASE holder = "room" /\ holder' = "free"
      BY <2>1, <2>3, ReleaseStep, PromiseRelease
    <2>. QED BY <2>1, <2>2, <2>3 DEF Bookkeeping
  <1>2. CASE UNCHANGED vars
    BY <1>2, PromiseQuiet DEF vars
  <1>3. CASE GameResultReady
    <2>1. UNCHANGED <<debts, intent, receipts, landed, holder>>
      BY <1>3 DEF GameResultReady, chain
    <2>2. CASE UNCHANGED prize
      BY <2>1, <2>2, PromiseQuiet
    <2>3. CASE ~UNCHANGED prize
      <3>1. PrizeIsDue /\ prize = "none" /\ prize' = "planned"
        BY <1>3, <2>3 DEF GameResultReady
      <3>2. Clean(intent) /\ holder = "room"
        BY <3>1 DEF PrizeIsDue, SettledIn, Clean, TypeOK
      <3>. QED BY <2>1, <3>1, <3>2, PromisePlay
    <2>. QED BY <2>2, <2>3
  <1>4. CASE PlanClaimedPrize
    BY <1>4, PromisePlay DEF PlanClaimedPrize, DirectionInv, PrizeInv, chain
  <1>5. CASE PrizePaid
    <2>1. \A t \in Transfers :
              /\ StatusOf(t)' = IF StatusOf(t) = "played" THEN "won" ELSE StatusOf(t)
      BY <1>5 DEF PrizePaid, chain, StatusOf, Credited, TypeOK
    <2>2. Promise!Win
      BY <1>5, <2>1 DEF PrizePaid, Promise!Win
    <2>. QED BY <2>2 DEF Promise!Next
  <1>6. ASSUME NEW t \in Transfers, CompleteDebt(t) PROVE [Promise!Next]_(Promise!vars)
    <2>1. /\ UNCHANGED <<intent, prize, receipts, landed, holder>> /\ holder = "room"
          /\ debts[t] = "open" /\ debts'[t] = "complete"
          /\ \A u \in Transfers \ {t} : debts'[u] = debts[u]
      BY <1>6 DEF CompleteDebt, chain, TypeOK
    <2>2. /\ StatusOf(t) = "owed" /\ StatusOf(t)' = "returned"
          /\ \A u \in Transfers \ {t} : StatusOf(u)' = StatusOf(u)
      BY <2>1 DEF StatusOf, Credited
    <2>3. Promise!Return(t)
      BY <2>1, <2>2 DEF Promise!Return
    <2>. QED BY <2>3 DEF Promise!Next
  <1>7. ASSUME NEW t \in Transfers, Pay(t) PROVE [Promise!Next]_(Promise!vars)
    <2>1. /\ UNCHANGED <<intent, prize, receipts, debts, holder>> /\ holder = "room"
          /\ t \notin landed /\ landed' = landed \cup {t}
      BY <1>7 DEF Pay, durable
    <2>2. debts[t] = "none" /\ t \notin receipts /\ t \notin Credited(intent)
      BY <2>1 DEF CreditInv, TypeOK, Credited
    <2>3. /\ StatusOf(t) = "none" /\ StatusOf(t)' = "sent"
          /\ \A u \in Transfers \ {t} : StatusOf(u)' = StatusOf(u)
      BY <2>1, <2>2 DEF StatusOf, Credited
    <2>4. Promise!Arrive(t)
      BY <2>1, <2>3 DEF Promise!Arrive
    <2>. QED BY <2>4 DEF Promise!Next
  <1>8. CASE OtherRoomReserves
    <2>1. UNCHANGED <<debts, intent, prize, receipts, landed>>
      BY <1>8 DEF OtherRoomReserves, durable, chain
    <2>2. Promise!OtherTakes
      BY <1>8, <2>1 DEF OtherRoomReserves, Promise!OtherTakes, StatusOf, Credited
    <2>. QED BY <2>2 DEF Promise!Next
  <1>. QED BY <1>1, <1>2, <1>3, <1>4, <1>5, <1>6, <1>7, <1>8 DEF Next, Books

\* The room's money implements StakesPromise for any players, payments, crashes
\* and interleavings of the checks, the closing, the game's result and startup.
THEOREM MoneyKeepsPromise == Spec => KeepsPromise
  <1>1. Init => DirectionInv /\ PrizeInv
    BY DEF Init, DirectionInv, PrizeInv
  <1>2. TypeOK /\ DirectionInv /\ CreditInv /\ PrizeInv /\ [Next]_vars
        => TypeOK' /\ DirectionInv' /\ CreditInv' /\ PrizeInv' /\ [Promise!Next]_(Promise!vars)
    BY TypeStep, DirectionStep, CreditStep, PrizeStep, PromiseStep
  <1>. QED BY <1>1, <1>2, TypeInit, CreditInit, PromiseInit, PTL
       DEF Spec, KeepsPromise, Promise!Spec
====
