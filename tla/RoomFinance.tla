---------------------------- MODULE RoomFinance ----------------------------
(***************************************************************************)
(* The money of one room, from its three payment intents to the release of *)
(* its wallet: IncomingPaymentSettlementCoordinator and                    *)
(* RoomPaymentSessionAdapter collect the stakes, IncomingReceiptAccounting *)
(* keeps every other payment, the room's one outcome is a prize or the     *)
(* refund of the stakes, and RoomWalletPaymentService keeps the wallet     *)
(* reserved while any of it is owed.                                       *)
(*                                                                         *)
(* A step runs from one await to the next.  How a refund debt is completed *)
(* and a planned prize is paid is RefundLifecycle and WinnerPayout.        *)
(***************************************************************************)
EXTENDS Naturals

CONSTANTS
    Players,
    Transfers,   \* payments into the room's wallet, each of the exact stake
    Payer,       \* Payer[t]: the player whose verified wallet sent t
    NoTx,
    MaxCrashes   \* bound of the model on process crashes

ASSUME PayerAssumption == Payer \in [Transfers -> Players]
ASSUME NoTxAssumption == NoTx \notin Transfers
ASSUME MaxCrashesAssumption == MaxCrashes \in Nat

VARIABLES
    intent,    \* per player, the durable payment intent and its transaction
    receipts,  \* incoming receipts captured
    booked,    \* players whose principal the room ledger holds
    closed,    \* closed-rooms/<room>.json: why the room was closed
    outcome,   \* financial-outcomes/<room>.json
    prize,     \* the ledger's payout plan: none, planned, or settled
    debts,     \* per incoming transaction, its refund debt
    holder,    \* whom the wallet pool keeps the wallet for
    room,      \* the room in memory
    watch,     \* observations under way: who awaits one, of which intents
    landed,    \* payments the chain finalized
    onTime,    \* those before the intents' deadline
    late,      \* the deadline has passed
    up,        \* the payment runtime started
    crashes

durable == <<intent, receipts, booked, closed, outcome, prize, debts>>
chain == <<landed, onTime, late>>
vars == <<intent, receipts, booked, closed, outcome, prize, debts, holder, room,
          watch, landed, onTime, late, up, crashes>>

Reasons == {"aborted", "completed"}
Watchers == {"page4", "executor"}

\* A destroyed room whose closure was not prepared stays, under its reason.
RoomAt == {"page4", "playing", "result", "gone"} \cup Reasons

TypeOK ==
    /\ intent \in [Players -> [state : {"PENDING", "MATCHED", "SETTLED"},
                               tx : Transfers \cup {NoTx}]]
    /\ receipts \in SUBSET Transfers
    /\ booked \in SUBSET Players
    /\ closed \in Reasons \cup {"no"}
    /\ outcome \in {"none", "PAYOUT", "REFUND"}
    /\ prize \in {"none", "planned", "paid"}
    /\ debts \in [Transfers -> {"none", "open", "complete"}]
    /\ holder \in {"room", "free", "other"}
    /\ room \in RoomAt
    /\ watch \in [Watchers -> [on : BOOLEAN, open : SUBSET Players]]
    /\ landed \in SUBSET Transfers /\ onTime \in SUBSET landed
    /\ late \in BOOLEAN /\ up \in BOOLEAN
    /\ crashes \in 0 .. MaxCrashes

NotWatching == [on |-> FALSE, open |-> {}]

\* The three intents are created with the payment session of Page 4.
Init ==
    /\ intent = [p \in Players |-> [state |-> "PENDING", tx |-> NoTx]]
    /\ receipts = {} /\ booked = {}
    /\ closed = "no" /\ outcome = "none" /\ prize = "none"
    /\ debts = [t \in Transfers |-> "none"]
    /\ holder = "room" /\ room = "page4"
    /\ watch = [w \in Watchers |-> NotWatching]
    /\ landed = {} /\ onTime = {} /\ late = FALSE
    /\ up = TRUE /\ crashes = 0

-----------------------------------------------------------------------------
(* What the room owes *)

SettledIn(i) == {p \in Players : i[p].state = "SETTLED"}
Credited(i) == {i[p].tx : p \in Players} \ {NoTx}
Principal(i, b) == {i[p].tx : p \in b}

\* Fault: only debts that exist count as unreturned money.
OweByDebt(i, r, b, d, z) ==
    \/ \E p \in Players : i[p].state # "SETTLED"
    \/ \E t \in Transfers : d[t] = "open"
    \/ z = "planned"

\* Open intents; receipts neither credited nor returned; open debts; an unpaid
\* prize; and without a prize, principal that was not returned.
Owe(i, r, b, d, z) ==
    \/ \E p \in Players : i[p].state # "SETTLED"
    \/ \E t \in r \ Principal(i, b) : d[t] # "complete"
    \/ \E t \in Transfers : d[t] = "open"
    \/ z = "planned"
    \/ z = "none" /\ \E t \in Principal(i, b) : d[t] # "complete"

-----------------------------------------------------------------------------
(* Closing a room *)

\* Fault: the stakes are refunded only when all of them are booked.
RefundsWhenFull(why, b) == outcome # "PAYOUT" /\ prize = "none" /\ b = Players /\ why = "aborted"

\* prepareClosedRoom refunds the booked stakes of an aborted game, unless the
\* prize was claimed first.
RefundsStakes(why, b) ==
    /\ outcome # "PAYOUT" /\ prize = "none"
    /\ b # {} /\ why = "aborted"

DebtsFor(S) == [t \in Transfers |-> IF t \in S /\ debts[t] = "none" THEN "open" ELSE debts[t]]

\* Fault: only a stored plan stops the refund of the stakes, not a claimed prize.
StakesUnlessPlanned(why, i, b) == IF prize = "none" /\ why = "aborted" THEN Principal(i, b) ELSE {}

StakesOwed(why, i, b) == IF RefundsStakes(why, b) THEN Principal(i, b) ELSE {}

\* Receipts of a closed room that no intent was credited with.
SurplusOwed(why, i, r) == IF why = "no" THEN {} ELSE r \ Credited(i)

\* Fault: the reason of the closure is stored as the outcome.
ReasonAsOutcome(why, b) == IF RefundsStakes(why, b) THEN why ELSE outcome

OutcomeOf(why, b) == IF RefundsStakes(why, b) THEN "REFUND" ELSE outcome

DestroyRoom(why) ==
    /\ up
    /\ \/ why = "aborted" /\ room \in {"page4", "playing", "result"}
       \/ why = "completed" /\ room = "result"
       \/ room = why
    /\ closed \in {"no", why}
    /\ closed' = why
    /\ outcome' = OutcomeOf(why, booked)
    /\ debts' = DebtsFor(StakesOwed(why, intent, booked))
    /\ room' = "gone"
    /\ UNCHANGED <<intent, receipts, booked, prize, holder, watch, chain, up, crashes>>

\* A write failed, or the room was closed for another reason before a crash: the
\* destroyed room is kept for a retry, with what was written before.
DestroyRoomFails(why) ==
    /\ up
    /\ \/ why = "aborted" /\ room \in {"page4", "playing", "result"}
       \/ why = "completed" /\ room = "result"
       \/ room = why
    /\ room' = why
    /\ \/ UNCHANGED <<closed, outcome, debts>>
       \/ closed \in {"no", why} /\ closed' = why /\ UNCHANGED <<outcome, debts>>
       \/ /\ closed \in {"no", why} /\ closed' = why
          /\ RefundsStakes(why, booked) /\ outcome' = "REFUND"
          /\ \E S \in SUBSET StakesOwed(why, intent, booked) : debts' = DebtsFor(S)
    /\ UNCHANGED <<intent, receipts, booked, prize, holder, watch, chain, up, crashes>>

-----------------------------------------------------------------------------
(* TestnetPendingRefundExecutor: its work on a closed room after the check *)

\* Missing principal is booked, then debts are made, then the wallet released.
CloseBooks(i, r) ==
    LET b == booked \cup SettledIn(i)
        d == DebtsFor(StakesOwed(closed, i, b) \cup SurplusOwed(closed, i, r))
    IN  /\ booked' = b
        /\ outcome' = OutcomeOf(closed, b)
        /\ debts' = d
        /\ holder' = IF holder = "room" /\ ~Owe(i, r, b, d, prize) THEN "free" ELSE holder

\* Every intent settled, or no wallet left to observe: no check is awaited.
ExecutorPass ==
    /\ up /\ closed # "no" /\ ~watch["executor"].on
    /\ SettledIn(intent) = Players \/ holder # "room"
    /\ CloseBooks(intent, receipts)
    /\ UNCHANGED <<intent, receipts, closed, prize, room, watch, chain, up, crashes>>

-----------------------------------------------------------------------------
(* settleRoomPayments, for Page 4 and for the executor *)

Observe(w) ==
    /\ up /\ ~watch[w].on /\ holder = "room"
    /\ w = "page4" => room = "page4"
    /\ w = "executor" => closed # "no"
    /\ SettledIn(intent) # Players
    /\ watch' = [watch EXCEPT ![w] = [on |-> TRUE, open |-> Players \ SettledIn(intent)]]
    /\ UNCHANGED <<durable, holder, room, chain, up, crashes>>

\* All settled: Page 4 books what is missing without a new observation.
BookPersisted ==
    /\ up /\ room = "page4" /\ SettledIn(intent) = Players
    /\ booked' = Players
    /\ UNCHANGED <<intent, receipts, closed, outcome, prize, debts, holder, room, watch,
                   chain, up, crashes>>

Returned(w) == watch' = [watch EXCEPT ![w] = NotWatching]

\* Fault: a payment counts for any player, whoever sent it.
FoundFromAnyone(w, saw, p) == {t \in saw : p \in watch[w].open /\ intent[p].tx \in {NoTx, t}}

\* The payments a check finds for p, of the intents that were open when it began.
Found(w, saw, p) ==
    {t \in saw : Payer[t] = p /\ p \in watch[w].open /\ intent[p].tx \in {NoTx, t}}

Ambiguous(w, saw) == \E p \in Players : \E t, u \in Found(w, saw, p) : t # u

\* One on-time payment settles an intent that is still open now.
Creditable(w, saw) ==
    {p \in Players : intent[p].state # "SETTLED" /\ Found(w, saw, p) \cap onTime # {}}

Credit(w, saw, how) ==
    [p \in Players |->
        IF p \in DOMAIN how /\ how[p] # "refused"
        THEN [state |-> how[p], tx |-> CHOOSE t \in Found(w, saw, p) : TRUE]
        ELSE intent[p]]

\* A check credits no one if any player's payment is ambiguous. Matching and then
\* settling an intent are two writes; either can be refused or fail.
Credits(w, saw) ==
    IF Ambiguous(w, saw) THEN {intent}
    ELSE {Credit(w, saw, how) :
            how \in [Creditable(w, saw) -> {"refused", "MATCHED", "SETTLED"}]}

\* The executor's window ends with the intents' deadline, Page 4's with now.
Window(w) == IF w = "page4" THEN landed ELSE onTime

\* A complete answer: every payment in it is captured before any is credited.
ObservationArrives(w) ==
    /\ up /\ watch[w].on
    /\ \E saw \in SUBSET Window(w) :
        /\ receipts' = receipts \cup saw
        /\ \E i \in Credits(w, saw) :
            /\ intent' = i
            /\ IF w = "page4"
               THEN /\ booked' = IF Ambiguous(w, saw) THEN booked ELSE booked \cup SettledIn(i)
                    /\ UNCHANGED <<outcome, debts, holder>>
               ELSE CloseBooks(i, receipts \cup saw)
    /\ Returned(w)
    /\ UNCHANGED <<closed, prize, room, chain, up, crashes>>

\* An incomplete window settles nothing, but the executor goes on; an error ends
\* the room's turn.
ObservationFails(w) ==
    /\ up /\ watch[w].on
    /\ \/ w = "executor" /\ CloseBooks(intent, receipts)
       \/ UNCHANGED <<booked, outcome, debts, holder>>
    /\ Returned(w)
    /\ UNCHANGED <<intent, receipts, closed, prize, room, chain, up, crashes>>

-----------------------------------------------------------------------------
(* HistoricalIncomingReceiptReconciler *)

\* One verified payment that arrived while the room had the wallet.
CaptureHistorical(t) ==
    /\ up /\ closed # "no"
    /\ t \in landed \ receipts
    /\ receipts' = receipts \cup {t}
    /\ UNCHANGED <<intent, booked, closed, outcome, prize, debts, holder, room, watch,
                   chain, up, crashes>>

\* The end of a pass.
PrepareReceipts ==
    /\ up /\ closed # "no"
    /\ debts' = DebtsFor(SurplusOwed(closed, intent, receipts))
    /\ UNCHANGED <<intent, receipts, booked, closed, outcome, prize, holder, room, watch,
                   chain, up, crashes>>

-----------------------------------------------------------------------------
(* The game *)

\* The gate of ThreePlayerPaymentGate: all settled, all booked, before the deadline.
StartGame ==
    /\ up /\ room = "page4" /\ ~late
    /\ SettledIn(intent) = Players /\ booked = Players
    /\ room' = "playing"
    /\ UNCHANGED <<durable, holder, watch, chain, up, crashes>>

\* onGameResult's guards, before it claims the outcome.
PrizeIsDue ==
    /\ SettledIn(intent) = Players /\ booked = Players
    /\ holder = "room"
    /\ \A t \in Transfers : debts[t] = "none"
    /\ outcome # "REFUND"

\* GAME_RESULT_READY, announced when the winner is resolved and again when the
\* RESULT phase ends. The prize is claimed and planned, or onGameResult throws.
GameResultReady ==
    /\ up /\ room \in {"playing", "result"}
    /\ room' = "result"
    /\ \/ PrizeIsDue /\ outcome' = "PAYOUT" /\ prize' = IF prize = "none" THEN "planned" ELSE prize
       \/ UNCHANGED <<outcome, prize>>
    /\ UNCHANGED <<intent, receipts, booked, closed, debts, holder, watch, chain, up, crashes>>

\* recoverPendingResults
PlanClaimedPrize ==
    /\ up /\ outcome = "PAYOUT" /\ prize = "none"
    /\ prize' = "planned"
    /\ UNCHANGED <<intent, receipts, booked, closed, outcome, debts, holder, room, watch,
                   chain, up, crashes>>

-----------------------------------------------------------------------------
(* Startup: principal is repaired, the pool keeps, frees or takes back the      *)
(* wallet, then the debts of closed rooms are prepared.                         *)

\* The process died with intents i, receipts r, principal b0, outcome o and
\* closure why on disk.
Restart(i, r, b0, o, why) ==
    LET b == b0 \cup SettledIn(i)
        owes == Owe(i, r, b, debts, prize)
        pays == IF o = "PAYOUT" THEN {} ELSE StakesOwed(why, i, b)
    IN
    /\ up /\ crashes < MaxCrashes
    /\ crashes' = crashes + 1
    /\ intent' = i /\ receipts' = r /\ booked' = b /\ closed' = why
    /\ watch' = [w \in Watchers |-> NotWatching]
    /\ room' \in {"gone"} \cup (IF room \in {"playing", "result"} THEN {room} ELSE {})
    /\ holder' = IF holder = "other" THEN "other" ELSE IF owes THEN "room" ELSE "free"
    /\ up' = ~(owes /\ holder = "other")
    /\ IF up'
       THEN /\ debts' = DebtsFor(pays \cup SurplusOwed(why, i, r))
            /\ outcome' = IF pays # {} THEN "REFUND" ELSE o
       ELSE debts' = debts /\ outcome' = o
    /\ UNCHANGED <<prize, chain>>

Crash == Restart(intent, receipts, booked, outcome, closed)

\* Between the writes of a check, before the principal is booked.
CrashWhileSettling(w) ==
    /\ watch[w].on
    /\ \E saw \in SUBSET Window(w) : \E i \in Credits(w, saw) :
        Restart(i, receipts \cup saw, booked, outcome, closed)

\* Between the closed-room record and the debts, and between claim and plan.
CrashWhileClosing ==
    /\ closed = "no" /\ room \in {"page4", "playing", "result"}
    /\ \E why \in Reasons :
        /\ why = "completed" => room = "result"
        /\ Restart(intent, receipts, booked, outcome, why)

CrashWhilePlanning ==
    /\ room \in {"playing", "result"} /\ PrizeIsDue
    /\ Restart(intent, receipts, booked, "PAYOUT", closed)

-----------------------------------------------------------------------------
(* Environment: the chain, the sibling subsystems, and other rooms *)

\* Payments arrive while the room has the wallet.
Pay(t) ==
    /\ t \notin landed /\ holder = "room"
    /\ landed' = landed \cup {t}
    /\ onTime' = IF late THEN onTime ELSE onTime \cup {t}
    /\ UNCHANGED <<durable, holder, room, watch, late, up, crashes>>

DeadlinePasses ==
    /\ ~late /\ late' = TRUE
    /\ UNCHANGED <<durable, holder, room, watch, landed, onTime, up, crashes>>

\* RefundLifecycle; the signer refuses a room without a reservation.
CompleteDebt(t) ==
    /\ up /\ debts[t] = "open" /\ holder = "room"
    /\ debts' = [debts EXCEPT ![t] = "complete"]
    /\ UNCHANGED <<intent, receipts, booked, closed, outcome, prize, holder, room, watch,
                   chain, up, crashes>>

\* WinnerPayout
PrizePaid ==
    /\ up /\ prize = "planned" /\ holder = "room"
    /\ prize' = "paid"
    /\ UNCHANGED <<intent, receipts, booked, closed, outcome, debts, holder, room, watch,
                   chain, up, crashes>>

\* Another room takes the free wallet.
OtherRoomReserves ==
    /\ up /\ holder = "free" /\ holder' = "other"
    /\ UNCHANGED <<durable, room, watch, chain, up, crashes>>

Next ==
    \/ \E why \in Reasons : DestroyRoom(why) \/ DestroyRoomFails(why)
    \/ ExecutorPass
    \/ \E w \in Watchers : Observe(w) \/ ObservationArrives(w) \/ ObservationFails(w)
    \/ BookPersisted
    \/ \E t \in Transfers : CaptureHistorical(t)
    \/ PrepareReceipts
    \/ StartGame \/ GameResultReady \/ PlanClaimedPrize
    \/ Crash \/ CrashWhileClosing \/ CrashWhilePlanning
    \/ \E w \in Watchers : CrashWhileSettling(w)
    \/ \E t \in Transfers : Pay(t) \/ CompleteDebt(t)
    \/ DeadlinePasses \/ PrizePaid \/ OtherRoomReserves

Spec == Init /\ [][Next]_vars

\* The 60 s financial pass comes round to the room; a check that is repeated is
\* answered completely in the end; refunds and prizes are paid by their subsystems.
CompleteAnswer ==
    /\ ObservationArrives("executor")
    /\ onTime \subseteq receipts'
    /\ Creditable("executor", onTime) \subseteq SettledIn(intent') \/ Ambiguous("executor", onTime)

Fairness ==
    /\ WF_vars(ExecutorPass) /\ WF_vars(Observe("executor")) /\ SF_vars(CompleteAnswer)
    /\ WF_vars(ObservationArrives("executor") \/ ObservationFails("executor"))
    /\ \A t \in Transfers : WF_vars(CaptureHistorical(t)) /\ WF_vars(CompleteDebt(t))
    /\ WF_vars(PrepareReceipts)
    /\ WF_vars(PlanClaimedPrize) /\ WF_vars(PrizePaid)

FairSpec == Spec /\ Fairness

-----------------------------------------------------------------------------
(* Properties *)

\* No stake is both played for and refunded, in whatever order the prize is
\* claimed, the room closed, its debts prepared and the process restarted.
OneDirection == prize # "none" => \A p \in Players : intent[p].tx # NoTx => debts[intent[p].tx] = "none"

\* The money the room knows to have received, and what has been given back.
Known == receipts \cup Credited(intent)
Discharged(t) == debts[t] = "complete" \/ (prize = "paid" /\ t \in Credited(intent))

\* The wallet leaves the room only when every payment the room knows of, booked
\* or not, has been returned or paid out as the prize.
ReleasedClean ==
    [][holder = "room" /\ holder' # "room" => (\A t \in Known : Discharged(t))']_vars

\* How far each payment has come: Page 4, the executor, the game, the startup
\* and the sibling subsystems each move some of them.
StatusOf(t) ==
    CASE debts[t] = "complete" -> "returned"
      [] debts[t] = "open" -> "owed"
      [] debts[t] = "none" /\ t \in Credited(intent) /\ prize = "paid" -> "won"
      [] debts[t] = "none" /\ t \in Credited(intent) /\ prize = "planned" -> "played"
      [] OTHER -> IF t \in receipts THEN "known" ELSE IF t \in landed THEN "sent" ELSE "none"

Promise == INSTANCE StakesPromise WITH
    status <- [t \in Transfers |-> StatusOf(t)],
    wallet <- holder

\* However checks, closures, results and restarts interleave, every payment is
\* played for with one of each player, or owed and returned, and never turns
\* back; and the wallet is given up only over payments that came to an end.
KeepsPromise == Promise!Spec

PaidTwice == \E t, u \in landed : t # u /\ Payer[t] = Payer[u]

\* While the room has the wallet, whatever was paid into it on time or late comes
\* back after an aborted game, unless the prize was claimed before. (A player who
\* pays twice can block the stakes of the others: one of them may stay MATCHED.)
AbortedMoneyReturns ==
    closed = "aborted" ~> \/ holder # "room" \/ PaidTwice
                          \/ \A t \in landed : Discharged(t)

\* An aborted room gives its wallet back once its intents' deadline has passed.
WalletComesBack == closed = "aborted" /\ late ~> holder # "room"

\* The payment runtime starts after any crash.
StartsAgain == up
====
