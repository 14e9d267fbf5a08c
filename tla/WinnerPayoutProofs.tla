------------------------- MODULE WinnerPayoutProofs -------------------------
(***************************************************************************)
(* WinnerPayout for any number of crashes and for either kind of adapter,  *)
(* the one taking over from the other: its types, the order of the legs,   *)
(* the evidence behind a settlement, the hold on the wallet, and one       *)
(* payment per leg.                                                        *)
(***************************************************************************)
EXTENDS WinnerPayout, PayoutSplitProofs

USE MaxCrashesAssumption DEF files, process, network

LEMMA TypeInit == Init => TypeOK
  <1>1. Idle \in Execs
    BY DEF Idle, Execs, ExecSteps, Legs
  <1>2. Init => wire \in [Legs -> Nat] /\ paid \in [Legs -> Nat]
    BY DEF Init
  <1>3. Init => disk \in SUBSET Files /\ crashes \in 0 .. MaxCrashes
    BY DEF Init
  <1>4. Init => reserved \in BOOLEAN /\ ready \in BOOLEAN
    BY Zenon DEF Init
  <1>5. Init => exec \in Execs
    BY <1>1 DEF Init
  <1>6. Init => durableRetry \in BOOLEAN /\ supports \in BOOLEAN /\ keyed \in SUBSET Legs
    BY Zenon DEF Init
  <1>. QED BY <1>2, <1>3, <1>4, <1>5, <1>6 DEF TypeOK

LEMMA SomeWritten ==
    \A k \in 1 .. 6 : Written(k) \subseteq
        {"outcome", "plan", "winner-net", "owner-net", "journal", "winner-intent"}
  BY DEF Written, Writes, Net, Intent, Of

\* The intent is the last of them: no crash in between leaves it.
LEMMA IntentIsLast == \A k \in 1 .. 5 : \A leg \in Legs : Intent(leg) \notin Written(k)
  BY DEF Written, Writes, Net, Intent, Of, Legs

LEMMA AllWritten ==
    Written(6) = {"outcome", "plan", "winner-net", "owner-net", "journal", "winner-intent"}
  BY DEF Written, Writes, Net, Intent, Of

LEMMA FilesAre ==
    Files = {"outcome", "plan", "journal", "winner-net", "owner-net", "winner-intent",
             "owner-intent", "winner-settled", "owner-settled"}
  BY DEF Files, Legs, Net, Intent, Settled, Of

LEMMA ExecMoves ==
    ASSUME TypeOK
    PROVE  /\ \A leg \in Legs : Send(leg) => exec' \in Execs /\ exec'.at = "send" /\ exec'.leg = leg
           /\ Finish => exec' \in Execs /\ exec'.at \in {"idle", "settle"}
  <1>1. exec \in Execs
    BY DEF TypeOK
  <1>2. ASSUME NEW leg \in Legs, Send(leg)
        PROVE  exec' \in Execs /\ exec'.at = "send" /\ exec'.leg = leg
    BY <1>1, <1>2 DEF Execs, ExecSteps, Send
  <1>3. ASSUME Finish PROVE exec' \in Execs /\ exec'.at \in {"idle", "settle"}
    <2>1. [exec EXCEPT !.at = "settle"] \in Execs /\ Idle \in Execs
      BY <1>1 DEF Execs, ExecSteps, Idle, Legs
    <2>2. [exec EXCEPT !.at = "settle"].at = "settle" /\ Idle.at = "idle"
      BY <1>1 DEF Execs, Idle
    <2>. QED BY <1>3, <2>1, <2>2 DEF Finish
  <1>. QED BY <1>2, <1>3

LEMMA JournalTyped == ASSUME TypeOK, NEW d, Journal(d) PROVE durableRetry' \in BOOLEAN
  <1>1. durableRetry \in BOOLEAN
    BY DEF TypeOK
  <1>2. CASE "journal" \in disk
    BY <1>1, <1>2 DEF Journal
  <1>3. CASE "journal" \notin disk
    BY <1>3, Zenon DEF Journal
  <1>. QED BY <1>2, <1>3

LEMMA RestartTyped == ASSUME TypeOK, NEW d \in SUBSET Files, Restart(d) PROVE TypeOK'
  <1>1. Repaired(d) \in SUBSET Files
    BY FilesAre DEF Repaired, Net, Of, Legs
  <1>2. reserved' \in BOOLEAN /\ ready' \in BOOLEAN
    BY Zenon DEF Restart, Owed
  <1>3. exec' \in Execs
    BY DEF Restart, Idle, Execs, ExecSteps, Legs
  <1>4. durableRetry' \in BOOLEAN /\ supports' \in BOOLEAN
    BY JournalTyped DEF Restart, TypeOK
  <1>. QED BY <1>1, <1>2, <1>3, <1>4 DEF Restart, TypeOK

LEMMA TypeStep == TypeOK /\ [Next]_vars => TypeOK'
  <1>. SUFFICES ASSUME TypeOK, [Next]_vars PROVE TypeOK'
    OBVIOUS
  <1>1. CASE UNCHANGED vars
    BY <1>1 DEF vars, TypeOK
  <1>2. CASE ReleaseWallet \/ GameResultReady
    BY <1>2 DEF ReleaseWallet, GameResultReady, TypeOK
  <1>3. CASE ExecuteResult
    BY <1>3, AllWritten, FilesAre, JournalTyped DEF ExecuteResult, TypeOK, Execs, ExecSteps, Legs
  <1>4. CASE WinnerConfirmed
    BY <1>4, ExecMoves, FilesAre DEF WinnerConfirmed, BeginOwner, TypeOK, Legs, Intent, Of
  <1>5. CASE WinnerNotConfirmed
    BY <1>5, ExecMoves DEF WinnerNotConfirmed, TypeOK, Legs
  <1>12. CASE ConfirmationThrows
    BY <1>12 DEF ConfirmationThrows, TypeOK, Idle, Execs, ExecSteps, Legs
  <1>6. ASSUME NEW ok \in BOOLEAN, SendTransfer(ok) PROVE TypeOK'
    <2>1. exec' \in Execs
      BY <1>6, ExecMoves DEF SendTransfer, TypeOK, Execs, ExecSteps
    <2>2. wire' \in [Legs -> Nat]
      BY <1>6 DEF SendTransfer, Reached, TypeOK, Execs
    <2>3. keyed' \in SUBSET Legs
      BY <1>6 DEF SendTransfer, Reached, TypeOK, Execs
    <2>. QED BY <1>6, <2>1, <2>2, <2>3 DEF SendTransfer, TypeOK
  <1>7. CASE ReconcileAndSettle \/ ReconcilerPass
    <2>1. Settlements \subseteq Files
      BY FilesAre DEF Settlements, Settled, Of, Legs
    <2>2. disk' \in SUBSET Files
      BY <1>7, <2>1 DEF ReconcileAndSettle, ReconcilerPass, TypeOK
    <2>3. exec' \in Execs
      BY <1>7 DEF ReconcileAndSettle, ReconcilerPass, TypeOK, Idle, Execs, ExecSteps, Legs
    <2>. QED BY <1>7, <2>2, <2>3 DEF ReconcileAndSettle, ReconcilerPass, TypeOK
  <1>8. ASSUME NEW leg \in Legs, Land(leg) PROVE TypeOK'
    BY <1>8 DEF Land, TypeOK
  <1>9. CASE Crash
    BY <1>9, RestartTyped DEF Crash, TypeOK
  <1>10. CASE CrashWhileExecuting
    BY <1>10, SomeWritten, RestartTyped, FilesAre DEF CrashWhileExecuting, TypeOK
  <1>11. CASE CrashWhileSettling
    BY <1>11, RestartTyped, FilesAre DEF CrashWhileSettling, TypeOK, Settled, Of
  <1>. QED BY <1>1, <1>2, <1>3, <1>4, <1>5, <1>6, <1>7, <1>8, <1>9, <1>10, <1>11, <1>12 DEF Next

\* Every reachable state of a payout is well typed.
THEOREM TypeCorrect == Spec => []TypeOK
  BY TypeInit, TypeStep, PTL DEF Spec

-----------------------------------------------------------------------------
(* What each durable file says about the chain. *)

WinnerPaid == paid["WINNER"] > 0
BothPaid == \A leg \in Legs : paid[leg] > 0

OrderInv ==
    /\ wire["OWNER"] > 0 => WinnerPaid
    /\ Intent("OWNER") \in disk => WinnerPaid
    /\ exec.at = "send" /\ exec.leg = "OWNER" => WinnerPaid

SettleInv == (\E leg \in Legs : Settled(leg) \in disk) => BothPaid

HoldInv == ~reserved => ~Owed(disk)

EvidenceInv == OrderInv /\ SettleInv /\ HoldInv

LEMMA EvidenceInit == Init => EvidenceInv
  BY DEF Init, EvidenceInv, OrderInv, SettleInv, HoldInv, Idle, Intent, Settled, Of, Legs

\* What is paid stays paid, and the disk only grows; so only a step that writes
\* or sends can disturb the invariant.
LEMMA Grows ==
    ASSUME TypeOK, [Next]_vars
    PROVE  disk \subseteq disk' /\ \A leg \in Legs : paid[leg] > 0 => paid'[leg] > 0
  <1>1. ASSUME NEW d, disk \subseteq d, Restart(d) PROVE disk \subseteq disk' /\ UNCHANGED paid
    BY <1>1 DEF Restart, Repaired
  <1>2. CASE Crash \/ CrashWhileExecuting \/ CrashWhileSettling
    BY <1>1, <1>2 DEF Crash, CrashWhileExecuting, CrashWhileSettling
  <1>3. CASE \E leg \in Legs : Land(leg)
    BY <1>3 DEF Land, TypeOK
  <1>4. CASE UNCHANGED vars \/ ReleaseWallet \/ GameResultReady \/ ExecuteResult \/ WinnerConfirmed
             \/ WinnerNotConfirmed \/ ConfirmationThrows \/ (\E ok \in BOOLEAN : SendTransfer(ok))
             \/ ReconcileAndSettle \/ ReconcilerPass
    BY <1>4 DEF vars, ReleaseWallet, GameResultReady, ExecuteResult, WinnerConfirmed, BeginOwner,
                WinnerNotConfirmed, ConfirmationThrows, SendTransfer, ReconcileAndSettle,
                ReconcilerPass
  <1>. QED BY <1>2, <1>3, <1>4 DEF Next

LEMMA OwedShrinks ==
    ASSUME NEW d, NEW e, d \subseteq e, ~Owed(d)
    PROVE  ~Owed(e)
  BY DEF Owed, Legs

LEMMA HoldStep == ASSUME TypeOK, HoldInv, [Next]_vars PROVE HoldInv'
  <1>1. CASE UNCHANGED reserved
    BY <1>1, Grows, OwedShrinks DEF HoldInv
  <1>2. CASE ReleaseWallet
    BY <1>2 DEF ReleaseWallet, HoldInv
  <1>3. ASSUME NEW d, Restart(d) PROVE HoldInv'
    BY <1>3 DEF Restart, HoldInv
  <1>4. CASE Crash \/ CrashWhileExecuting \/ CrashWhileSettling
    BY <1>3, <1>4 DEF Crash, CrashWhileExecuting, CrashWhileSettling
  <1>. QED BY <1>1, <1>2, <1>4
       DEF Next, vars, GameResultReady, ExecuteResult, WinnerConfirmed, WinnerNotConfirmed,
           ConfirmationThrows, SendTransfer, ReconcileAndSettle, ReconcilerPass, Land

\* The intents, settlements and sends a step may add.
LEMMA OrderKept ==
    ASSUME TypeOK, OrderInv, SettleInv, [Next]_vars,
           UNCHANGED wire,
           Intent("OWNER") \in disk' => Intent("OWNER") \in disk \/ WinnerPaid,
           exec'.at = "send" /\ exec'.leg = "OWNER" => WinnerPaid,
           \A leg \in Legs : Settled(leg) \in disk' => Settled(leg) \in disk \/ BothPaid
    PROVE  OrderInv' /\ SettleInv'
  BY Grows DEF OrderInv, SettleInv, WinnerPaid, BothPaid, Legs

LEMMA RestartOrder ==
    ASSUME TypeOK, OrderInv, SettleInv, [Next]_vars, NEW d, Restart(d),
           Intent("OWNER") \in d => Intent("OWNER") \in disk,
           \A leg \in Legs : Settled(leg) \in d => Settled(leg) \in disk \/ BothPaid
    PROVE  OrderInv' /\ SettleInv'
  BY OrderKept DEF Restart, Repaired, Idle, Intent, Settled, Net, Of, Legs

LEMMA OrderStep == ASSUME TypeOK, OrderInv, SettleInv, [Next]_vars PROVE OrderInv' /\ SettleInv'
  <1>1. CASE UNCHANGED vars
    BY <1>1 DEF vars, OrderInv, SettleInv, WinnerPaid, BothPaid
  <1>2. CASE ReleaseWallet \/ GameResultReady
    BY <1>2, OrderKept DEF ReleaseWallet, GameResultReady, OrderInv
  <1>3. CASE ExecuteResult
    BY <1>3, AllWritten, OrderKept DEF ExecuteResult, Intent, Settled, Of, Legs
  <1>4. CASE WinnerConfirmed
    <2>1. WinnerPaid /\ UNCHANGED wire
      BY <1>4 DEF WinnerConfirmed, CreditSeen, WinnerPaid
    <2>2. disk' \subseteq disk \cup {Intent("OWNER")}
      BY <1>4 DEF WinnerConfirmed, BeginOwner
    <2>. QED BY <2>1, <2>2, OrderKept DEF Intent, Settled, Of, Legs
  <1>5. CASE WinnerNotConfirmed
    BY <1>5, ExecMoves, OrderKept DEF WinnerNotConfirmed, Legs
  <1>12. CASE ConfirmationThrows
    BY <1>12, OrderKept DEF ConfirmationThrows, Idle
  <1>6. CASE \E ok \in BOOLEAN : SendTransfer(ok)
    <2>1. exec.at = "send" /\ UNCHANGED <<disk, paid>> /\ exec'.at # "send" /\ exec.leg \in Legs
      BY <1>6, ExecMoves DEF SendTransfer, TypeOK, Execs
    <2>2. exec.leg = "WINNER" => wire'["OWNER"] = wire["OWNER"]
      BY <1>6 DEF SendTransfer, Reached, TypeOK, Legs
    <2>. QED BY <2>1, <2>2 DEF OrderInv, SettleInv, WinnerPaid, BothPaid, Legs
  <1>7. CASE ReconcileAndSettle \/ ReconcilerPass
    <2>1. UNCHANGED wire /\ (exec'.at # "send" \/ UNCHANGED exec)
      BY <1>7 DEF ReconcileAndSettle, ReconcilerPass, Idle
    <2>2. UNCHANGED disk \/ (BothPaid /\ disk' = disk \cup Settlements)
      BY <1>7 DEF ReconcileAndSettle, ReconcilerPass, Evidence, CreditSeen, BothPaid
    <2>3. Intent("OWNER") \notin Settlements
      BY DEF Settlements, Settled, Intent, Of, Legs
    <2>. QED BY <2>1, <2>2, <2>3, OrderKept DEF OrderInv
  <1>8. CASE \E leg \in Legs : Land(leg)
    BY <1>8, OrderKept DEF Land, OrderInv
  <1>9. CASE Crash
    BY <1>9, RestartOrder DEF Crash
  <1>10. CASE CrashWhileExecuting
    <2>1. PICK k \in 1 .. 5 : Restart(disk \cup Written(k))
      BY <1>10 DEF CrashWhileExecuting
    <2>2. Intent("OWNER") \notin Written(k) /\ \A leg \in Legs : Settled(leg) \notin Written(k)
      BY SomeWritten DEF Intent, Settled, Of, Legs
    <2>. QED BY <2>1, <2>2, RestartOrder
  <1>11. CASE CrashWhileSettling
    BY <1>11, RestartOrder
       DEF CrashWhileSettling, Evidence, CreditSeen, BothPaid, Intent, Settled, Of, Legs
  <1>. QED BY <1>1, <1>2, <1>3, <1>4, <1>5, <1>6, <1>7, <1>8, <1>9, <1>10, <1>11, <1>12 DEF Next

LEMMA Invariant == Spec => [](TypeOK /\ EvidenceInv)
  BY TypeInit, TypeStep, EvidenceInit, HoldStep, OrderStep, PTL DEF Spec, EvidenceInv

\* The owner's leg leaves the wallet only after the winner has been paid.
THEOREM WinnerFirst == Spec => []OwnerAfterWinner
  <1>1. EvidenceInv => OwnerAfterWinner
    BY DEF EvidenceInv, OrderInv, OwnerAfterWinner, WinnerPaid
  <1>. QED BY <1>1, Invariant, PTL

\* A settlement in the ledger is backed by a payment on the chain.
THEOREM SettlementIsBacked == Spec => []SettledWasPaid
  <1>1. EvidenceInv => SettledWasPaid
    BY DEF EvidenceInv, SettleInv, SettledWasPaid, BothPaid
  <1>. QED BY <1>1, Invariant, PTL

\* The wallet leaves the room only when everybody has been paid.
THEOREM WalletIsHeld == Spec => []HeldWhileOwed
  <1>1. EvidenceInv => HeldWhileOwed
    BY DEF EvidenceInv, SettleInv, HoldInv, HeldWhileOwed, BothPaid, Owed, Legs
  <1>. QED BY <1>1, Invariant, PTL

-----------------------------------------------------------------------------
(* One message per leg: a key's replays are one message, and without keys the *)
(* exclusive intent file admits one send.  Which of the two it is, the journal *)
(* says once and for all, and it is written before either intent.             *)

JournalInv ==
    /\ durableRetry => supports /\ "journal" \in disk
    /\ exec.at # "idle" => "journal" \in disk
    /\ \A leg \in Legs : Intent(leg) \in disk => "journal" \in disk

WithKeys == \A leg \in Legs : wire[leg] = IF leg \in keyed THEN 1 ELSE 0

WithoutKeys ==
    /\ keyed = {}
    /\ \A leg \in Legs : wire[leg] <= 1 /\ (Intent(leg) \notin disk => wire[leg] = 0)
    /\ exec.at = "send" => wire[exec.leg] = 0 /\ Intent(exec.leg) \in disk

MessageInv ==
    /\ JournalInv
    /\ IF durableRetry THEN WithKeys ELSE WithoutKeys
    /\ \A leg \in Legs : paid[leg] <= wire[leg]

LEMMA OneOnWire == ASSUME MessageInv PROVE \A leg \in Legs : wire[leg] <= 1
  BY DEF MessageInv, WithKeys, WithoutKeys

LEMMA MessageInit == Init => MessageInv
  BY DEF Init, MessageInv, JournalInv, WithoutKeys, Idle, Intent, Of, Legs

\* A step that sends nothing and leaves the journal's word as it is.
LEMMA MessageKept ==
    ASSUME TypeOK, MessageInv, disk \subseteq disk', UNCHANGED <<durableRetry, network, paid>>,
           durableRetry => supports',
           exec'.at # "idle" => "journal" \in disk',
           \A leg \in Legs : Intent(leg) \in disk' => "journal" \in disk',
           exec'.at # "send" \/ durableRetry \/ UNCHANGED exec
    PROVE  MessageInv'
  BY DEF MessageInv, JournalInv, WithKeys, WithoutKeys

\* Until the journal is written, nothing was sent.
LEMMA NothingSentYet ==
    ASSUME TypeOK, MessageInv, "journal" \notin disk
    PROVE  /\ ~durableRetry /\ keyed = {} /\ exec.at = "idle"
           /\ \A leg \in Legs : wire[leg] = 0 /\ Intent(leg) \notin disk
  BY DEF MessageInv, JournalInv, WithoutKeys

\* The step that writes it says which kind of payout this is.
LEMMA MessageJournal ==
    ASSUME TypeOK, MessageInv, "journal" \notin disk, NEW d, d \subseteq disk', Journal(d),
           UNCHANGED <<network, paid>>, supports => supports',
           exec'.at # "idle" => "journal" \in disk',
           exec'.at = "send" => exec'.leg \in Legs /\ Intent(exec'.leg) \in disk',
           \A leg \in Legs : Intent(leg) \in disk' => "journal" \in disk'
    PROVE  MessageInv'
  <1>1. /\ keyed' = {} /\ \A leg \in Legs : wire'[leg] = 0 /\ paid'[leg] <= wire'[leg]
    BY NothingSentYet DEF MessageInv
  <1>2. durableRetry' => supports' /\ "journal" \in disk'
    BY DEF Journal
  <1>. QED BY <1>1, <1>2 DEF MessageInv, JournalInv, WithKeys, WithoutKeys

LEMMA RestartMessage ==
    ASSUME TypeOK, MessageInv, NEW d, disk \subseteq d, Restart(d),
           \A leg \in Legs : Intent(leg) \in d => Intent(leg) \in disk
    PROVE  MessageInv'
  <1>1. exec'.at = "idle" /\ UNCHANGED <<network, paid>> /\ Journal(d)
    BY DEF Restart, Idle
  <1>0. supports => supports'
    BY Zenon DEF Restart
  <1>2. d \subseteq disk' /\ \A leg \in Legs : Intent(leg) \in disk' => Intent(leg) \in disk
    BY DEF Restart, Repaired, Net, Intent, Of, Legs
  <1>3. CASE "journal" \in disk
    BY <1>1, <1>2, <1>0, <1>3, MessageKept DEF Journal, MessageInv, JournalInv
  <1>4. CASE "journal" \notin disk
    BY <1>1, <1>2, <1>0, <1>4, MessageJournal, NothingSentYet
  <1>. QED BY <1>3, <1>4

LEMMA MessageStep == ASSUME TypeOK, MessageInv, [Next]_vars PROVE MessageInv'
  <1>0. JournalInv
    BY DEF MessageInv
  <1>1. CASE UNCHANGED vars \/ ReleaseWallet \/ GameResultReady \/ ConfirmationThrows
    BY <1>0, <1>1, MessageKept DEF vars, ReleaseWallet, GameResultReady,
                                   ConfirmationThrows, Idle, JournalInv
  <1>2. CASE ReconcileAndSettle \/ ReconcilerPass
    <2>1. UNCHANGED <<durableRetry, supports, network, paid>>
      BY <1>2 DEF ReconcileAndSettle, ReconcilerPass
    <2>2. (exec'.at = "idle" \/ UNCHANGED exec) /\ disk \subseteq disk'
      BY <1>2 DEF ReconcileAndSettle, ReconcilerPass, Idle
    <2>3. \A leg \in Legs : Intent(leg) \in disk' => Intent(leg) \in disk
      BY <1>2 DEF ReconcileAndSettle, ReconcilerPass, Settlements, Settled, Intent, Of, Legs
    <2>. QED BY <1>0, <2>1, <2>2, <2>3, MessageKept DEF JournalInv
  <1>3. CASE ExecuteResult
    <2>1. /\ disk' = disk \cup Written(6) /\ Journal(disk') /\ UNCHANGED <<supports, network, paid>>
          /\ exec'.leg = "WINNER"
          /\ exec'.at = IF Intent("WINNER") \in disk THEN "confirm" ELSE "send"
      BY <1>3 DEF ExecuteResult
    <2>2. "journal" \in disk' /\ Intent("WINNER") \in disk' /\ "WINNER" \in Legs
          /\ Intent("OWNER") \notin Written(6)
      BY <2>1, AllWritten DEF Intent, Of, Legs
    <2>3. CASE "journal" \notin disk
      BY <2>1, <2>2, <2>3, MessageJournal
    <2>4. CASE "journal" \in disk
      <3>1. UNCHANGED durableRetry /\ (durableRetry => supports')
        BY <1>0, <2>1, <2>4 DEF Journal, JournalInv
      <3>2. CASE durableRetry \/ exec'.at # "send"
        BY <2>1, <2>2, <3>1, <3>2, MessageKept
      <3>3. CASE ~durableRetry /\ exec'.at = "send"
        BY <2>1, <2>2, <3>1, <3>3 DEF MessageInv, JournalInv, WithoutKeys, Legs
      <3>. QED BY <3>2, <3>3
    <2>. QED BY <2>3, <2>4
  <1>4. CASE WinnerConfirmed
    <2>1. /\ "journal" \in disk /\ disk \subseteq disk'
          /\ UNCHANGED <<durableRetry, supports, network, paid>>
      BY <1>0, <1>4 DEF WinnerConfirmed, BeginOwner, JournalInv
    <2>2. CASE durableRetry \/ exec'.at # "send"
      BY <1>0, <2>1, <2>2, MessageKept DEF JournalInv
    <2>3. CASE ~durableRetry /\ exec'.at = "send"
      <3>1. Intent("OWNER") \notin disk /\ Send("OWNER") /\ disk' = disk \cup {Intent("OWNER")}
        BY <1>4, <2>3, ExecMoves DEF WinnerConfirmed, BeginOwner, Replays
      <3>2. exec'.leg = "OWNER" /\ "OWNER" \in Legs
        BY <3>1, ExecMoves DEF Legs
      <3>. QED BY <2>1, <2>3, <3>1, <3>2 DEF MessageInv, JournalInv, WithoutKeys
    <2>. QED BY <2>2, <2>3
  <1>5. CASE WinnerNotConfirmed
    <2>1. exec.at # "idle" /\ UNCHANGED <<files, process, network, paid>>
      BY <1>5 DEF WinnerNotConfirmed
    <2>2. exec'.at # "send" \/ durableRetry
      BY <1>5, ExecMoves DEF WinnerNotConfirmed, Replays
    <2>. QED BY <1>0, <2>1, <2>2, MessageKept DEF JournalInv
  <1>6. CASE \E ok \in BOOLEAN : SendTransfer(ok)
    <2>1. /\ exec.at = "send" /\ UNCHANGED <<files, paid, process>> /\ exec'.at # "send"
          /\ exec.leg \in Legs /\ (Reached(exec.leg) \/ UNCHANGED network)
      BY <1>6, ExecMoves DEF SendTransfer, TypeOK, Execs
    <2>2. CASE UNCHANGED network
      BY <1>0, <2>1, <2>2, MessageKept DEF JournalInv
    <2>3. CASE Reached(exec.leg) /\ ~UNCHANGED network
      <3>1. /\ wire' = [wire EXCEPT ![exec.leg] = @ + 1]
            /\ keyed' = IF Replays THEN keyed \cup {exec.leg} ELSE keyed
            /\ ~(Replays /\ exec.leg \in keyed)
        BY <2>3 DEF Reached
      <3>2. JournalInv'
        BY <1>0, <2>1 DEF JournalInv
      <3>3. CASE durableRetry
        <4>1. Replays /\ wire[exec.leg] = 0
          BY <1>0, <2>1, <3>1, <3>3 DEF Replays, JournalInv, MessageInv, WithKeys
        <4>2. WithKeys' /\ durableRetry'
          BY <2>1, <3>1, <3>3, <4>1 DEF MessageInv, WithKeys, TypeOK
        <4>3. \A leg \in Legs : paid'[leg] <= wire'[leg]
          BY <2>1, <3>1 DEF MessageInv, TypeOK
        <4>. QED BY <3>2, <4>2, <4>3 DEF MessageInv
      <3>4. CASE ~durableRetry
        <4>1. wire[exec.leg] = 0 /\ Intent(exec.leg) \in disk
          BY <2>1, <3>4 DEF MessageInv, WithoutKeys
        <4>2. WithoutKeys' /\ ~durableRetry'
          BY <2>1, <3>1, <3>4, <4>1 DEF MessageInv, WithoutKeys, Replays, TypeOK
        <4>3. \A leg \in Legs : paid'[leg] <= wire'[leg]
          BY <2>1, <3>1 DEF MessageInv, TypeOK
        <4>. QED BY <3>2, <4>2, <4>3 DEF MessageInv
      <3>. QED BY <3>3, <3>4
    <2>. QED BY <2>1, <2>2, <2>3
  <1>7. CASE \E leg \in Legs : Land(leg)
    <2>1. /\ UNCHANGED <<files, process, network, exec>>
          /\ \A leg \in Legs : paid'[leg] <= wire[leg]
      BY <1>7 DEF Land, MessageInv, TypeOK
    <2>. QED BY <2>1 DEF MessageInv, JournalInv, WithKeys, WithoutKeys
  <1>8. CASE Crash
    BY <1>8, RestartMessage DEF Crash
  <1>9. CASE CrashWhileExecuting
    BY <1>9, IntentIsLast, RestartMessage DEF CrashWhileExecuting
  <1>10. CASE CrashWhileSettling
    BY <1>10, RestartMessage DEF CrashWhileSettling, Settled, Intent, Of, Legs
  <1>. QED BY <1>1, <1>2, <1>3, <1>4, <1>5, <1>6, <1>7, <1>8, <1>9, <1>10 DEF Next

\* No recipient of the prize is paid twice, also when a process that replays takes
\* over from one that does not.
THEOREM OnePaymentPerLeg == Spec => []PaidOnce
  <1>1. TypeOK /\ MessageInv => PaidOnce
    BY OneOnWire DEF TypeOK, MessageInv, PaidOnce
  <1>. QED BY <1>1, TypeInit, TypeStep, MessageInit, MessageStep, PTL DEF Spec

\* A leg paid at most once takes at most its share.
LEMMA SpentOnce ==
    ASSUME NEW p \in Nat, paid["WINNER"] \in {0, 1}, paid["OWNER"] \in {0, 1}
    PROVE  /\ p - Spent(p) >= Reserve(p)
           /\ paid["WINNER"] = 1 /\ paid["OWNER"] = 1 => p - Spent(p) = Reserve(p)
  <1> DEFINE w == WinnerShare(p)
             o == OwnerShare(p)
  <1>1. w \in Nat /\ o \in Nat
    BY SharesAreNat
  <1>2. Reserve(p) = p - w - o /\ Spent(p) = paid["WINNER"] * w + paid["OWNER"] * o
    BY DEF Reserve, Spent
  <1>. HIDE DEF w, o
  <1>3. /\ paid["WINNER"] * w = IF paid["WINNER"] = 1 THEN w ELSE 0
        /\ paid["OWNER"] * o = IF paid["OWNER"] = 1 THEN o ELSE 0
    BY <1>1
  <1>. QED BY <1>1, <1>2, <1>3

\* The wallet keeps its reserve, and exactly that when the payout is settled, for
\* every stake and every choice of sectors.
THEOREM WalletKeepsReserve == Spec => []ReserveStays
  <1>1. ASSUME TypeOK, MessageInv, EvidenceInv PROVE ReserveStays
    <2>. SUFFICES ASSUME NEW p \in RoomPrincipals
                  PROVE  /\ 1000 * (p - Spent(p)) >= p
                         /\ (\A leg \in Legs : Settled(leg) \in disk) => 1000 * (p - Spent(p)) = p
      BY DEF ReserveStays
    <2>1. p \in Nat /\ 1000 * Reserve(p) = p
      BY RoomAlwaysSplitsEvenly DEF SplitsEvenly
    <2>2. paid["WINNER"] \in {0, 1} /\ paid["OWNER"] \in {0, 1}
      BY <1>1, OneOnWire DEF TypeOK, MessageInv, Legs
    <2>3. (\A leg \in Legs : Settled(leg) \in disk) => paid["WINNER"] = 1 /\ paid["OWNER"] = 1
      BY <1>1, <2>2 DEF EvidenceInv, SettleInv, BothPaid, Legs
    <2>4. /\ p - Spent(p) >= Reserve(p)
          /\ paid["WINNER"] = 1 /\ paid["OWNER"] = 1 => p - Spent(p) = Reserve(p)
      BY <2>1, <2>2, SpentOnce
    <2>5. Reserve(p) \in Int /\ Spent(p) \in Int
      <3>1. WinnerShare(p) \in Nat /\ OwnerShare(p) \in Nat
        BY <2>1, SharesAreNat
      <3>. QED BY <2>1, <2>2, <3>1 DEF Reserve, Spent
    <2>. QED BY <2>1, <2>3, <2>4, <2>5
  <1>. QED BY <1>1, Invariant, TypeInit, TypeStep, MessageInit, MessageStep, PTL DEF Spec

-----------------------------------------------------------------------------
(* The payout keeps PayoutPromise. *)

\* Nothing is sent or settled before the plan stands with both obligations, and
\* the winner is settled first.
BooksInv ==
    /\ exec.at # "idle" => "plan" \in disk
    /\ \A leg \in Legs : wire[leg] > 0 \/ Settled(leg) \in disk => "plan" \in disk
    /\ "plan" \in disk => "outcome" \in disk /\ \A leg \in Legs : Net(leg) \in disk
    /\ Settled("OWNER") \in disk => Settled("WINNER") \in disk

LEMMA BooksInit == Init => BooksInv
  BY DEF Init, BooksInv, Idle

\* Once the plan stands, startup finds nothing to repair.
LEMMA NothingToRepair ==
    ASSUME NEW d, "plan" \in d => \A leg \in Legs : Net(leg) \in d
    PROVE  Repaired(d) = d
  BY DEF Repaired

LEMMA RestartBooks ==
    ASSUME TypeOK, BooksInv, NEW d, disk \subseteq d, Restart(d),
           "plan" \in d => "outcome" \in d,
           \A leg \in Legs : Settled(leg) \in d => Settled(leg) \in disk \/ "plan" \in disk,
           Settled("OWNER") \in d => Settled("WINNER") \in d
    PROVE  BooksInv'
  <1>1. UNCHANGED wire /\ exec'.at = "idle" /\ disk' = Repaired(d)
    BY DEF Restart, Idle
  <1>2. /\ d \subseteq Repaired(d) /\ Repaired(d) \subseteq d \cup {Net(leg) : leg \in Legs}
        /\ "plan" \in d => \A leg \in Legs : Net(leg) \in Repaired(d)
    BY DEF Repaired
  <1>3. /\ "plan" \notin {Net(leg) : leg \in Legs}
        /\ \A leg \in Legs : Settled(leg) \notin {Net(l) : l \in Legs}
    BY DEF Net, Settled, Of, Legs
  <1>. QED BY <1>1, <1>2, <1>3 DEF BooksInv, Legs

LEMMA BooksStep == ASSUME TypeOK, MessageInv, BooksInv, [Next]_vars PROVE BooksInv'
  <1>0. /\ \A leg \in Legs : Settled(leg) \notin Written(6) /\ Settled(leg) # Intent("OWNER")
        /\ \A leg \in Legs : Net(leg) \in Written(6)
        /\ "plan" \in Written(6) /\ "outcome" \in Written(6)
    BY AllWritten DEF Settled, Intent, Net, Of, Legs
  <1>1. ASSUME UNCHANGED <<disk, wire>>, exec'.at # "idle" => exec.at # "idle" PROVE BooksInv'
    BY <1>1 DEF BooksInv
  <1>2. CASE UNCHANGED vars \/ ReleaseWallet \/ GameResultReady \/ ConfirmationThrows
             \/ \E leg \in Legs : Land(leg)
    BY <1>1, <1>2 DEF vars, ReleaseWallet, GameResultReady, ConfirmationThrows, Land, Idle
  <1>3. CASE ExecuteResult
    BY <1>0, <1>3 DEF ExecuteResult, BooksInv, Legs
  <1>4. CASE WinnerConfirmed
    <2>1. exec.at # "idle" /\ disk \subseteq disk' /\ disk' \subseteq disk \cup {Intent("OWNER")}
          /\ UNCHANGED wire
      BY <1>4 DEF WinnerConfirmed, BeginOwner
    <2>2. "plan" \in disk
      BY <2>1 DEF BooksInv
    <2>. QED BY <1>0, <2>1, <2>2 DEF BooksInv, Legs
  <1>5. CASE WinnerNotConfirmed
    BY <1>1, <1>5 DEF WinnerNotConfirmed
  <1>6. CASE \E ok \in BOOLEAN : SendTransfer(ok)
    BY <1>6 DEF SendTransfer, BooksInv
  <1>7. CASE ReconcileAndSettle \/ ReconcilerPass
    <2>1. "plan" \in disk /\ UNCHANGED wire /\ (exec'.at # "idle" => exec.at # "idle")
      BY <1>7 DEF ReconcileAndSettle, ReconcilerPass, BooksInv, Idle
    <2>2. disk' = disk \/ disk' = disk \cup {Settled(leg) : leg \in Legs}
      BY <1>7, <2>1 DEF ReconcileAndSettle, ReconcilerPass, BooksInv, Settlements
    <2>. QED BY <2>1, <2>2 DEF BooksInv, Legs
  <1>8. CASE Crash
    BY <1>8, RestartBooks DEF Crash, BooksInv
  <1>9. CASE CrashWhileExecuting
    <2>1. PICK k \in 1 .. 5 : Restart(disk \cup Written(k))
      BY <1>9 DEF CrashWhileExecuting
    <2>2. "outcome" \in Written(k) /\ \A leg \in Legs : Settled(leg) \notin Written(k)
      <3>1. Writes[1] = "outcome" /\ 1 \in 1 .. k
        BY DEF Writes
      <3>. QED BY <3>1, SomeWritten DEF Written, Settled, Of, Legs
    <2>. QED BY <2>1, <2>2, RestartBooks DEF BooksInv, Legs
  <1>10. CASE CrashWhileSettling
    <2>1. "plan" \in disk
      BY <1>10 DEF CrashWhileSettling, BooksInv, Evidence, CreditSeen, MessageInv, TypeOK, Legs
    <2>. QED BY <1>10, <2>1, RestartBooks DEF CrashWhileSettling, BooksInv, Settled, Of, Legs
  <1>. QED BY <1>2, <1>3, <1>4, <1>5, <1>6, <1>7, <1>8, <1>9, <1>10 DEF Next

PayoutInv == TypeOK /\ EvidenceInv /\ MessageInv /\ BooksInv

LEMMA PayoutInvariant == Spec => []PayoutInv
  <1>1. Init => PayoutInv
    BY TypeInit, EvidenceInit, MessageInit, BooksInit DEF PayoutInv
  <1>2. PayoutInv /\ [Next]_vars => PayoutInv'
    BY TypeStep, HoldStep, OrderStep, MessageStep, BooksStep DEF PayoutInv, EvidenceInv
  <1>. QED BY <1>1, <1>2, PTL DEF Spec

SettledLegs == {leg \in Legs : Settled(leg) \in disk}

LEMMA PromiseInit == Init => Promise!Init
  BY DEF Init, Promise!Init

LEMMA SettledOrReleased ==
    ASSUME PayoutInv
    PROVE  /\ ~Owed(disk) => SettledLegs = Legs /\ "outcome" \in disk
           /\ SettledLegs = Legs => ~Owed(disk)
           /\ "OWNER" \in SettledLegs => SettledLegs = Legs
  BY DEF PayoutInv, BooksInv, Owed, SettledLegs, Legs

\* A step that neither claims, pays nor settles releases the wallet or stutters.
LEMMA PromiseQuiet ==
    ASSUME PayoutInv, UNCHANGED paid, SettledLegs' = SettledLegs,
           "outcome" \in disk' <=> "outcome" \in disk,
           reserved' = reserved \/ (~reserved' /\ ~Owed(disk))
    PROVE  [Promise!Next]_(Promise!vars)
  <1>0. reserved \in BOOLEAN /\ ("outcome" \in disk)' = ("outcome" \in disk)
    BY DEF PayoutInv, TypeOK
  <1>1. CASE reserved' = reserved
    BY <1>0, <1>1 DEF Promise!vars, SettledLegs
  <1>2. CASE ~reserved' /\ ~Owed(disk)
    <2>1. Promise!Release
      BY <1>0, <1>2, SettledOrReleased DEF Promise!Release, SettledLegs
    <2>. QED BY <2>1 DEF Promise!Next
  <1>. QED BY <1>1, <1>2

LEMMA PromiseClaim ==
    ASSUME PayoutInv, "outcome" \notin disk, "outcome" \in disk', reserved, UNCHANGED <<paid, reserved>>,
           SettledLegs' = SettledLegs
    PROVE  [Promise!Next]_(Promise!vars)
  <1>1. Promise!Claim
    BY DEF Promise!Claim, SettledLegs
  <1>. QED BY <1>1 DEF Promise!Next

LEMMA PromiseSettle ==
    ASSUME PayoutInv, Evidence, UNCHANGED <<paid, reserved>>, "outcome" \in disk, "outcome" \in disk',
           NEW legs \in SUBSET Legs, "WINNER" \in legs, SettledLegs' = SettledLegs \cup legs
    PROVE  [Promise!Next]_(Promise!vars)
  <1>1. Promise!Settle(legs)
    BY DEF Promise!Settle, Evidence, CreditSeen, SettledLegs
  <1>. QED BY <1>1 DEF Promise!Next

\* A payment lands once per leg, after the winner's, and while the wallet is held.
LEMMA PromisePay ==
    ASSUME PayoutInv, NEW leg \in Legs, Land(leg)
    PROVE  [Promise!Next]_(Promise!vars)
  <1>1. paid[leg] = 0 /\ wire[leg] = 1
    BY OneOnWire DEF Land, PayoutInv, MessageInv, TypeOK
  <1>2. "outcome" \in disk
    BY <1>1 DEF PayoutInv, BooksInv
  <1>3. reserved
    <2>1. ~BothPaid
      BY <1>1 DEF BothPaid
    <2>2. SettledLegs = {}
      BY <2>1 DEF PayoutInv, EvidenceInv, SettleInv, SettledLegs
    <2>. QED BY <2>2, SettledOrReleased DEF PayoutInv, EvidenceInv, HoldInv, Legs
  <1>4. leg = "OWNER" => paid["WINNER"] = 1
    BY <1>1, OneOnWire
       DEF PayoutInv, EvidenceInv, OrderInv, WinnerPaid, MessageInv, TypeOK, Legs
  <1>5. paid' = [paid EXCEPT ![leg] = 1] /\ UNCHANGED <<disk, reserved>>
    BY <1>1 DEF Land
  <1>6. Promise!Pay(leg)
    BY <1>1, <1>2, <1>3, <1>4, <1>5 DEF Promise!Pay
  <1>. QED BY <1>6 DEF Promise!Next

\* Startup after a crash that left the books d on disk.
LEMMA PromiseRestart ==
    ASSUME PayoutInv, NEW d, Restart(d), disk \subseteq d, "outcome" \in disk \/ reserved,
           \/ \A leg \in Legs : Settled(leg) \in d <=> Settled(leg) \in disk
           \/ Evidence /\ "outcome" \in disk /\ d = disk \cup {Settled("WINNER")}
    PROVE  [Promise!Next]_(Promise!vars)
  <1>1. UNCHANGED paid /\ disk' = Repaired(d) /\ reserved' = Owed(disk')
    BY DEF Restart
  <1>2. SettledLegs' = {leg \in Legs : Settled(leg) \in d}
    BY <1>1 DEF SettledLegs, Repaired, Net, Settled, Of, Legs
  <1>3. /\ "outcome" \in disk' <=> "outcome" \in d
        /\ \A leg \in Legs : "plan" \in disk' => Net(leg) \in disk'
    BY <1>1 DEF Repaired, Net, Of, Legs
  <1>4. "outcome" \in disk => "outcome" \in d
    OBVIOUS
  <1>5. ~reserved => ~Owed(disk) /\ ~Owed(disk')
    <2>1. disk \subseteq disk'
      BY <1>1 DEF Repaired
    <2>. QED BY <2>1, OwedShrinks DEF PayoutInv, EvidenceInv, HoldInv
  <1>6. reserved \in BOOLEAN /\ reserved' \in BOOLEAN
    BY <1>1, Zenon DEF PayoutInv, TypeOK, Owed
  <1>7. CASE \A leg \in Legs : Settled(leg) \in d <=> Settled(leg) \in disk
    <2>1. SettledLegs' = SettledLegs
      BY <1>2, <1>7 DEF SettledLegs
    <2>2. ~Owed(disk') => SettledLegs = Legs
      BY <2>1 DEF Owed, SettledLegs, Legs
    <2>3. CASE "outcome" \in disk
      BY <1>1, <1>3, <1>4, <1>5, <1>6, <2>1, <2>2, <2>3, SettledOrReleased, PromiseQuiet
    <2>4. CASE "outcome" \notin disk
      <3>1. Owed(disk')
        BY <2>2, <2>4, SettledOrReleased
      <3>2. reserved' = reserved
        BY <1>1, <1>5, <1>6, <2>4, <3>1
      <3>. QED BY <1>1, <2>1, <2>4, <3>1, <3>2, PromiseQuiet, PromiseClaim
    <2>. QED BY <2>3, <2>4
  <1>8. CASE Evidence /\ "outcome" \in disk /\ d = disk \cup {Settled("WINNER")}
    <2>1. SettledLegs' = SettledLegs \cup {"WINNER"}
      BY <1>2, <1>8 DEF SettledLegs, Settled, Of, Legs
    <2>2. CASE SettledLegs = Legs
      BY <1>1, <1>3, <1>4, <1>5, <1>6, <1>8, <2>1, <2>2, SettledOrReleased, PromiseQuiet DEF Legs
    <2>3. CASE SettledLegs # Legs
      <3>1. "OWNER" \notin SettledLegs'
        BY <2>1, <2>3, SettledOrReleased
      <3>2. Owed(disk')
        BY <3>1 DEF Owed, SettledLegs, Legs
      <3>3. UNCHANGED reserved
        BY <1>1, <1>5, <1>6, <3>2
      <3>. QED BY <1>1, <1>3, <1>4, <1>8, <2>1, <3>3, PromiseSettle DEF Legs
    <2>. QED BY <2>2, <2>3
  <1>. QED BY <1>7, <1>8

LEMMA PromiseStep == ASSUME PayoutInv, [Next]_vars PROVE [Promise!Next]_(Promise!vars)
  <1>0. /\ TypeOK /\ BooksInv /\ reserved \in BOOLEAN
        /\ "outcome" \in Written(6) /\ \A leg \in Legs : Settled(leg) \notin Written(6)
    BY AllWritten DEF PayoutInv, TypeOK, Settled, Of, Legs
  <1>1. CASE UNCHANGED <<disk, reserved, paid>>
    BY <1>0, <1>1, PromiseQuiet DEF SettledLegs
  <1>2. CASE UNCHANGED vars \/ GameResultReady \/ WinnerNotConfirmed \/ ConfirmationThrows
             \/ \E ok \in BOOLEAN : SendTransfer(ok)
    BY <1>1, <1>2 DEF vars, GameResultReady, WinnerNotConfirmed, ConfirmationThrows, SendTransfer
  <1>3. CASE ReleaseWallet
    BY <1>0, <1>3, PromiseQuiet DEF ReleaseWallet, SettledLegs
  <1>4. CASE ExecuteResult
    <2>1. UNCHANGED <<paid, reserved>> /\ disk' = disk \cup Written(6) /\ reserved
      BY <1>4 DEF ExecuteResult, CanExecute
    <2>2. SettledLegs' = SettledLegs /\ "outcome" \in disk'
      BY <1>0, <2>1 DEF SettledLegs
    <2>. QED BY <2>1, <2>2, PromiseQuiet, PromiseClaim
  <1>5. CASE WinnerConfirmed
    <2>1. UNCHANGED <<paid, reserved>> /\ (disk' = disk \/ disk' = disk \cup {Intent("OWNER")})
      BY <1>5 DEF WinnerConfirmed, BeginOwner
    <2>2. Intent("OWNER") # "outcome" /\ \A leg \in Legs : Settled(leg) # Intent("OWNER")
      BY DEF Intent, Settled, Of, Legs
    <2>3. SettledLegs' = SettledLegs /\ ("outcome" \in disk' <=> "outcome" \in disk)
      BY <2>1, <2>2 DEF SettledLegs
    <2>. QED BY <2>1, <2>3, PromiseQuiet
  <1>6. CASE ReconcileAndSettle \/ ReconcilerPass
    <2>1. UNCHANGED <<paid, reserved>> /\ "plan" \in disk
      BY <1>0, <1>6 DEF ReconcileAndSettle, ReconcilerPass, BooksInv
    <2>2. CASE UNCHANGED disk
      BY <1>1, <2>1, <2>2
    <2>3. CASE Evidence /\ disk' = disk \cup Settlements
      <3>1. Settlements = {Settled(leg) : leg \in Legs} /\ "outcome" \in disk
        BY <1>0, <2>1 DEF Settlements, BooksInv
      <3>2. SettledLegs' = SettledLegs \cup Legs /\ "outcome" \in disk'
        BY <2>3, <3>1 DEF SettledLegs
      <3>. QED BY <2>1, <2>3, <3>1, <3>2, PromiseSettle DEF Legs
    <2>. QED BY <1>6, <2>2, <2>3 DEF ReconcileAndSettle, ReconcilerPass
  <1>7. CASE \E leg \in Legs : Land(leg)
    BY <1>7, PromisePay
  <1>8. CASE Crash
    <2>1. "outcome" \in disk \/ reserved
      BY SettledOrReleased DEF PayoutInv, EvidenceInv, HoldInv
    <2>. QED BY <1>8, <2>1, PromiseRestart DEF Crash
  <1>9. CASE CrashWhileExecuting
    <2>1. PICK k \in 1 .. 5 : Restart(disk \cup Written(k))
      BY <1>9 DEF CrashWhileExecuting
    <2>2. \A leg \in Legs : Settled(leg) \notin Written(k)
      BY SomeWritten DEF Settled, Of, Legs
    <2>. QED BY <1>9, <2>1, <2>2, PromiseRestart DEF CrashWhileExecuting, CanExecute
  <1>10. CASE CrashWhileSettling
    <2>1. Evidence /\ "outcome" \in disk
      BY <1>0, <1>10 DEF CrashWhileSettling, BooksInv, Evidence, CreditSeen, PayoutInv, MessageInv,
                         TypeOK, Legs
    <2>. QED BY <1>10, <2>1, PromiseRestart DEF CrashWhileSettling
  <1>. QED BY <1>2, <1>3, <1>4, <1>5, <1>6, <1>7, <1>8, <1>9, <1>10 DEF Next

\* The payout implements PayoutPromise for both kinds of adapter and a change from
\* one to the other, through any number of repeated results, replays and crashes.
THEOREM PayoutKeepsPromise == Spec => KeepsPromise
  <1>1. PayoutInv /\ [Next]_vars => [Promise!Next]_(Promise!vars)
    BY PromiseStep
  <1>. QED BY <1>1, PayoutInvariant, PromiseInit, PTL DEF Spec, KeepsPromise, Promise!Spec
====
