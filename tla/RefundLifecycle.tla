-------------------------- MODULE RefundLifecycle --------------------------
(***************************************************************************)
(* The life of a refund debt: RefundObligationStore (durable records),     *)
(* RefundLifecycleCoordinator (submitRefund, finalizeRefund,               *)
(* reconcileAmbiguousSubmission), the native broadcaster with its durable  *)
(* one-shot claim, and TestnetPendingRefundReconciler, the read-only       *)
(* worker that closes debts from the chain's history.                      *)
(*                                                                         *)
(* A step runs from one await of the code to the next: JavaScript cannot   *)
(* be interleaved in between.  A crash can fall anywhere, also between two *)
(* durable writes of one step.                                             *)
(***************************************************************************)
EXTENDS Naturals

CONSTANTS
    Obligations,  \* refund obligations, by their idempotency key
    Callers,      \* concurrent activations of the coordinator's operations
    Shape,        \* Shape[o]: source wallet, destination and net amount of o's
                  \* transfer, all that the chain's history shows of it
    NoTx,         \* no outgoing transaction identity recorded
    NoJob,        \* no obligation in hand
    MaxCrashes    \* bound of the model on process crashes

ASSUME ShapeAssumption == DOMAIN Shape = Obligations
ASSUME NoTxAssumption == NoTx \notin Obligations \X Nat
ASSUME NoJobAssumption == NoJob \notin Obligations
ASSUME MaxCrashesAssumption == MaxCrashes \in Nat

VARIABLES
    record,   \* refund-obligations/<id>.json
    claims,   \* native-refund-broadcast-claims/<id>.json
    caller,   \* where each activation of the coordinator awaits
    worker,   \* the reconciler's pass
    sends,    \* messages handed to the network for an obligation
    landed,   \* transfers the chain executed: <<o, k>> is o's k-th message
    crashes

vars == <<record, claims, caller, worker, sends, landed, crashes>>

States == {"ABSENT", "PENDING", "SUBMISSION_UNKNOWN", "SUBMITTED",
           "RECONCILIATION_REQUIRED", "BLOCKED", "COMPLETE"}

Transfers == Obligations \X Nat

Records == [state : States, outgoingTx : Transfers \cup {NoTx},
            before : SUBSET Transfers]

CallerAt == {"idle", "quote", "sign", "send", "reply", "finality", "search", "observe"}

Activations == [at : CallerAt, job : Obligations \cup {NoJob},
                tx : Transfers \cup {NoTx}]

Passes == [at : {"idle", "pass", "verify"}, todo : SUBSET Obligations,
           known : [Obligations -> Transfers \cup {NoTx}],
           job : Obligations \cup {NoJob}, tx : Transfers \cup {NoTx}]

Idle == [at |-> "idle", job |-> NoJob, tx |-> NoTx]

Resting == [at |-> "idle", todo |-> {}, known |-> [o \in Obligations |-> NoTx],
            job |-> NoJob, tx |-> NoTx]

TypeOK ==
    /\ record \in [Obligations -> Records]
    /\ claims \in SUBSET Obligations
    /\ caller \in [Callers -> Activations]
    /\ worker \in Passes
    /\ sends \in [Obligations -> Nat]
    /\ landed \in SUBSET Transfers
    /\ crashes \in 0 .. MaxCrashes

Init ==
    /\ record = [o \in Obligations |->
                    [state |-> "ABSENT", outgoingTx |-> NoTx, before |-> {}]]
    /\ claims = {}
    /\ caller = [c \in Callers |-> Idle]
    /\ worker = Resting
    /\ sends = [o \in Obligations |-> 0]
    /\ landed = {}
    /\ crashes = 0

-----------------------------------------------------------------------------
(* The store *)

\* The state machine of _commitTransition; a state may be rewritten in place.
Allowed(from, to) ==
    \/ from = to
    \/ from = "PENDING" /\ to \in {"SUBMISSION_UNKNOWN", "BLOCKED"}
    \/ from = "SUBMISSION_UNKNOWN" /\ to \in {"SUBMITTED", "RECONCILIATION_REQUIRED", "BLOCKED"}
    \/ from = "SUBMITTED" /\ to \in {"RECONCILIATION_REQUIRED", "COMPLETE", "BLOCKED"}
    \/ from = "RECONCILIATION_REQUIRED" /\ to \in {"COMPLETE", "BLOCKED"}

\* A committed write; a recorded transaction identity is never replaced.
Commit(o, to, tx) ==
    /\ Allowed(record[o].state, to)
    /\ record[o].outgoingTx \in {NoTx, tx}
    /\ record' = [record EXCEPT ![o].state = to, ![o].outgoingTx = tx]

\* prepareClosedRoom creates the debt once; a replay returns the stored one.
Create(o) ==
    /\ record[o].state = "ABSENT"
    /\ record' = [record EXCEPT ![o].state = "PENDING", ![o].before = landed]
    /\ UNCHANGED <<claims, caller, worker, sends, landed, crashes>>

\* The store's terminal manual hold, open to every unfinished debt.
MarkBlocked(o) ==
    /\ record[o].state \notin {"ABSENT", "BLOCKED"}
    /\ Commit(o, "BLOCKED", record[o].outgoingTx)
    /\ UNCHANGED <<claims, caller, worker, sends, landed, crashes>>

-----------------------------------------------------------------------------
(* submitRefund *)

Go(c, at) == caller' = [caller EXCEPT ![c].at = at]
Return(c) == caller' = [caller EXCEPT ![c] = Idle]

\* Only a PENDING debt is taken up; then the fee quote is awaited.
StartSubmit(c, o) ==
    /\ caller[c] = Idle
    /\ record[o].state = "PENDING"
    /\ caller' = [caller EXCEPT ![c] = [at |-> "quote", job |-> o, tx |-> NoTx]]
    /\ UNCHANGED <<record, claims, worker, sends, landed, crashes>>

\* No quote, no wallet reservation: only the failed attempt is recorded.
QuoteFails(c) ==
    /\ caller[c].at = "quote"
    /\ Return(c)
    /\ UNCHANGED <<record, claims, worker, sends, landed, crashes>>

\* Fault: the plan is kept in memory and written only when the network replied.
MarkLater(c) ==
    /\ caller[c].at = "quote"
    /\ IF record[caller[c].job].state = "PENDING" THEN Go(c, "sign") ELSE Return(c)
    /\ UNCHANGED <<record, claims, worker, sends, landed, crashes>>

\* The quote arrived. The plan and SUBMISSION_UNKNOWN are durable before
\* anything is signed, and only if the debt is still PENDING.
MarkSubmissionUnknown(c) ==
    LET o == caller[c].job IN
    /\ caller[c].at = "quote"
    /\ IF record[o].state = "PENDING"
       THEN Commit(o, "SUBMISSION_UNKNOWN", NoTx) /\ Go(c, "sign")
       ELSE UNCHANGED record /\ Return(c)
    /\ UNCHANGED <<claims, worker, sends, landed, crashes>>

\* Signing failed: FAILED is reported, the debt stays SUBMISSION_UNKNOWN.
SignFails(c) ==
    /\ caller[c].at = "sign"
    /\ Return(c)
    /\ UNCHANGED <<record, claims, worker, sends, landed, crashes>>

\* The broadcaster's exclusive claim file; an existing claim ends the attempt.
ClaimBroadcast(c) ==
    LET o == caller[c].job IN
    /\ caller[c].at = "sign"
    /\ claims' = claims \cup {o}
    /\ IF o \in claims THEN Return(c) ELSE Go(c, "send")
    /\ UNCHANGED <<record, worker, sends, landed, crashes>>

\* The adapter gave up before the network: sequence hold, lost reservation.
AdapterRefuses(c) ==
    /\ caller[c].at = "send"
    /\ Return(c)
    /\ UNCHANGED <<record, claims, worker, sends, landed, crashes>>

Broadcast(c) ==
    /\ caller[c].at = "send"
    /\ sends' = [sends EXCEPT ![caller[c].job] = @ + 1]
    /\ Go(c, "reply")
    /\ UNCHANGED <<record, claims, worker, landed, crashes>>

\* Fault: the debt's own key is recorded in place of the transaction's.
RecordOwnKey(c) ==
    LET o == caller[c].job IN
    /\ caller[c].at = "reply"
    /\ record[o].state = "SUBMISSION_UNKNOWN"
    /\ Commit(o, "SUBMITTED", o)
    /\ Return(c)
    /\ UNCHANGED <<claims, worker, sends, landed, crashes>>

\* The network's reply names the transaction: SUBMITTED, unless the record
\* moved on during the await (markSubmitted then throws).
ReplyHash(c) ==
    LET o == caller[c].job IN
    /\ caller[c].at = "reply"
    /\ IF record[o].state = "SUBMISSION_UNKNOWN"
       THEN Commit(o, "SUBMITTED", <<o, sends[o]>>)
       ELSE UNCHANGED record
    /\ Return(c)
    /\ UNCHANGED <<claims, worker, sends, landed, crashes>>

\* Fault: an unknown outcome is answered by sending again.
SendAgain(c) ==
    /\ caller[c].at = "reply"
    /\ Go(c, "send")
    /\ UNCHANGED <<record, claims, worker, sends, landed, crashes>>

\* No hash, a timeout or an error: the outcome stays unknown, nothing is resent.
ReplyUnknown(c) ==
    /\ caller[c].at = "reply"
    /\ Return(c)
    /\ UNCHANGED <<record, claims, worker, sends, landed, crashes>>

-----------------------------------------------------------------------------
(* What the history of the source wallet shows *)

\* Fault: destination and amount are not compared.
AnyTransfer(o) == landed \ record[o].before

\* Transfers since the debt was created that look like o's.
Matches(o) == {t \in landed \ record[o].before : Shape[t[1]] = Shape[o]}

\* findOutgoingTransfer answers only when exactly one transfer matches.
UniqueMatch(o, t) == Matches(o) = {t}

-----------------------------------------------------------------------------
(* finalizeRefund and reconcileAmbiguousSubmission *)

StartFinalize(c, o) ==
    /\ caller[c] = Idle
    /\ record[o].state = "SUBMITTED"
    /\ caller' = [caller EXCEPT ![c] =
                    [at |-> "finality", job |-> o, tx |-> record[o].outgoingTx]]
    /\ UNCHANGED <<record, claims, worker, sends, landed, crashes>>

\* Fault: the network's acknowledgement passes for finality.
AcknowledgementIsFinal(c) ==
    LET o == caller[c].job IN
    /\ caller[c].at = "finality"
    /\ IF Allowed(record[o].state, "COMPLETE") /\ record[o].outgoingTx = caller[c].tx
       THEN Commit(o, "COMPLETE", caller[c].tx)
       ELSE UNCHANGED record
    /\ Return(c)
    /\ UNCHANGED <<claims, worker, sends, landed, crashes>>

\* Evidence of the recorded transaction verified: markComplete.
FinalityVerified(c) ==
    LET o == caller[c].job IN
    /\ caller[c].at = "finality"
    /\ caller[c].tx \in landed \ record[o].before
    /\ IF Allowed(record[o].state, "COMPLETE") /\ record[o].outgoingTx = caller[c].tx
       THEN Commit(o, "COMPLETE", caller[c].tx)
       ELSE UNCHANGED record
    /\ Return(c)
    /\ UNCHANGED <<claims, worker, sends, landed, crashes>>

FinalityNotVerified(c) ==
    /\ caller[c].at = "finality"
    /\ Return(c)
    /\ UNCHANGED <<record, claims, worker, sends, landed, crashes>>

StartReconcile(c, o) ==
    /\ caller[c] = Idle
    /\ record[o].state = "SUBMISSION_UNKNOWN"
    /\ caller' = [caller EXCEPT ![c] = [at |-> "search", job |-> o, tx |-> NoTx]]
    /\ UNCHANGED <<record, claims, worker, sends, landed, crashes>>

\* One matching transfer was found; its finality is then observed.
SearchFinds(c) ==
    /\ caller[c].at = "search"
    /\ \E t \in landed :
        /\ UniqueMatch(caller[c].job, t)
        /\ caller' = [caller EXCEPT ![c].at = "observe", ![c].tx = t]
    /\ UNCHANGED <<record, claims, worker, sends, landed, crashes>>

\* Verified: markSubmitted and markComplete, two writes in one step. The first
\* throws when the record is no longer SUBMISSION_UNKNOWN.
ReconcileVerified(c) ==
    LET o == caller[c].job IN
    /\ caller[c].at = "observe"
    /\ record' = IF record[o].state = "SUBMISSION_UNKNOWN"
                 THEN [record EXCEPT ![o].state = "COMPLETE", ![o].outgoingTx = caller[c].tx]
                 ELSE record
    /\ Return(c)
    /\ UNCHANGED <<claims, worker, sends, landed, crashes>>

\* Not found, ambiguous or not final: held for manual reconciliation.
ReconcileNotVerified(c) ==
    LET o == caller[c].job IN
    /\ caller[c].at \in {"search", "observe"}
    /\ IF Allowed(record[o].state, "RECONCILIATION_REQUIRED")
       THEN Commit(o, "RECONCILIATION_REQUIRED", record[o].outgoingTx)
       ELSE UNCHANGED record
    /\ Return(c)
    /\ UNCHANGED <<claims, worker, sends, landed, crashes>>

-----------------------------------------------------------------------------
(* TestnetPendingRefundReconciler.runPass *)

\* Fault: a debt once held for manual reconciliation is not looked at again.
EligibleUnheld(o) == record[o].state \in {"SUBMISSION_UNKNOWN", "SUBMITTED"}

Eligible(o) == record[o].state \in
    {"SUBMISSION_UNKNOWN", "SUBMITTED", "RECONCILIATION_REQUIRED"}

\* A pass takes a batch of the eligible debts (the code rotates through them,
\* a few per pass) and works on the records as they were when it began.
StartPass(batch) ==
    /\ worker.at = "idle"
    /\ batch # {}
    /\ worker' = [Resting EXCEPT !.at = "pass", !.todo = batch,
                    !.known = [o \in Obligations |-> record[o].outgoingTx]]
    /\ UNCHANGED <<record, claims, caller, sends, landed, crashes>>

\* The source wallet's history holds one match, and not another transaction
\* than the recorded one.
PassFinds(o) ==
    /\ worker.at = "pass"
    /\ o \in worker.todo
    /\ \E t \in landed :
        /\ UniqueMatch(o, t)
        /\ worker.known[o] \in {NoTx, t}
        /\ worker' = [worker EXCEPT !.at = "verify", !.job = o, !.tx = t]
    /\ UNCHANGED <<record, claims, caller, sends, landed, crashes>>

NextInPass(o) ==
    worker' = IF worker.todo = {o} THEN Resting
              ELSE [worker EXCEPT !.at = "pass", !.todo = @ \ {o}, !.job = NoJob, !.tx = NoTx]

\* Nothing found, several matches, or a provider failed: next debt.
PassSkips(o) ==
    /\ worker.at \in {"pass", "verify"}
    /\ o \in worker.todo
    /\ worker.at = "verify" => worker.job = o
    /\ NextInPass(o)
    /\ UNCHANGED <<record, claims, caller, sends, landed, crashes>>

\* Fault: the pass trusts the state it read when it began.
CompleteFromSnapshot ==
    LET o == worker.job IN
    /\ worker.at = "verify"
    /\ record' = [record EXCEPT ![o].state = "COMPLETE", ![o].outgoingTx = worker.tx]
    /\ NextInPass(o)
    /\ UNCHANGED <<claims, caller, sends, landed, crashes>>

\* Both providers confirm: completeFromVerifiedHistory on the record as it is
\* now; a conflict throws and the pass goes on.
CompleteFromVerifiedHistory ==
    LET o == worker.job IN
    /\ worker.at = "verify"
    /\ record' = IF Eligible(o) /\ record[o].outgoingTx \in {NoTx, worker.tx}
                 THEN [record EXCEPT ![o].state = "COMPLETE", ![o].outgoingTx = worker.tx]
                 ELSE record
    /\ NextInPass(o)
    /\ UNCHANGED <<claims, caller, sends, landed, crashes>>

-----------------------------------------------------------------------------
(* Environment: the chain, and the process *)

\* A message on the wire may be executed later, or never.
Land(t) ==
    /\ t \in Transfers \ landed
    /\ t[2] \in 1 .. sends[t[1]]
    /\ landed' = landed \cup {t}
    /\ UNCHANGED <<record, claims, caller, worker, sends, crashes>>

Restart ==
    /\ crashes < MaxCrashes
    /\ crashes' = crashes + 1
    /\ caller' = [c \in Callers |-> Idle]
    /\ worker' = Resting

\* The process dies and comes back with what is on disk.
Crash ==
    /\ Restart
    /\ UNCHANGED <<record, claims, sends, landed>>

\* Both completions from SUBMISSION_UNKNOWN write SUBMITTED first; the process
\* dies between the two writes.
CrashHalfComplete(o, t) ==
    /\ record[o].state = "SUBMISSION_UNKNOWN"
    /\ \/ worker.at = "verify" /\ worker.job = o /\ worker.tx = t
       \/ \E c \in Callers : caller[c] = [at |-> "observe", job |-> o, tx |-> t]
    /\ Commit(o, "SUBMITTED", t)
    /\ Restart
    /\ UNCHANGED <<claims, sends, landed>>

SubmitRefund(c) ==
    \/ \E o \in Obligations : StartSubmit(c, o)
    \/ QuoteFails(c) \/ MarkSubmissionUnknown(c)
    \/ SignFails(c) \/ ClaimBroadcast(c)
    \/ AdapterRefuses(c) \/ Broadcast(c)
    \/ ReplyHash(c) \/ ReplyUnknown(c)

FinalizeRefund(c) ==
    \/ \E o \in Obligations : StartFinalize(c, o)
    \/ FinalityVerified(c) \/ FinalityNotVerified(c)

ReconcileAmbiguousSubmission(c) ==
    \/ \E o \in Obligations : StartReconcile(c, o)
    \/ SearchFinds(c) \/ ReconcileVerified(c) \/ ReconcileNotVerified(c)

RunPass ==
    \/ \E batch \in SUBSET {o \in Obligations : Eligible(o)} : StartPass(batch)
    \/ \E o \in Obligations : PassFinds(o) \/ PassSkips(o)
    \/ CompleteFromVerifiedHistory

Next ==
    \/ \E o \in Obligations : Create(o) \/ MarkBlocked(o)
    \/ \E c \in Callers :
        SubmitRefund(c) \/ FinalizeRefund(c) \/ ReconcileAmbiguousSubmission(c)
    \/ RunPass
    \/ \E o \in Obligations : \E k \in 1 .. sends[o] : Land(<<o, k>>)
    \/ Crash
    \/ \E o \in Obligations : \E t \in landed : CrashHalfComplete(o, t)

Spec == Init /\ [][Next]_vars

\* app.js runs a pass every 60 s and the rotation reaches every debt; each debt
\* of a pass is dealt with; providers and network are not down forever.
StartPassWith(o) ==
    \E batch \in SUBSET {p \in Obligations : Eligible(p)} : o \in batch /\ StartPass(batch)

Fairness ==
    /\ \A o \in Obligations :
        SF_vars(StartPassWith(o)) /\ SF_vars(PassFinds(o)) /\ WF_vars(PassSkips(o))
    /\ SF_vars(CompleteFromVerifiedHistory)

FairSpec == Spec /\ Fairness

-----------------------------------------------------------------------------
(* Properties *)

\* What two providers can tell apart: no two debts expect the same transfer.
DistinctShapes == \A o, p \in Obligations : Shape[o] = Shape[p] => o = p

\* Whatever reached the network was durably marked first: a debt that still
\* reads PENDING after a crash can be submitted, because it never was.
NeverPendingOnWire ==
    \A o \in Obligations : sends[o] > 0 => record[o].state \notin {"ABSENT", "PENDING"}

\* Concurrent activations, retries and restarts hand a refund to the network
\* at most once; an unknown outcome is never answered by a second broadcast.
AtMostOneBroadcast == \A o \in Obligations : sends[o] <= 1

\* A debt is COMPLETE only by a transfer that was sent for it and landed.
CompleteMeansPaid ==
    \A o \in Obligations : record[o].state = "COMPLETE" =>
        /\ record[o].outgoingTx \in landed
        /\ record[o].outgoingTx[1] = o

\* A finished debt or a manual hold is never rewritten by an activation or a
\* pass that was awaiting when it was written.
FinishedStaysFinished ==
    [][\A o \in Obligations :
        record[o].state \in {"COMPLETE", "BLOCKED"} => record'[o] = record[o]]_vars

\* A refund that landed is closed by the worker alone, whatever crash lost the
\* reply, unless it is put on manual hold.
Paid(o) == \E t \in landed : t[1] = o
PaidGetsClosed ==
    \A o \in Obligations : Paid(o) ~> record[o].state \in {"COMPLETE", "BLOCKED"}

\* The promise the records keep, with the chain as its ledger of transfers.
Debt(o) == CASE record[o].state = "ABSENT" -> "none"
             [] record[o].state = "COMPLETE" -> "closed"
             [] record[o].state = "BLOCKED" -> "held"
             [] OTHER -> "open"

Payments(o) == CASE \A t \in landed : t[1] # o -> 0
                 [] \E t, u \in landed : t # u /\ t[1] = o /\ u[1] = o -> 2
                 [] OTHER -> 1

Promise == INSTANCE RefundPromise
           WITH Debts <- Obligations,
                status <- [o \in Obligations |-> Debt(o)],
                payments <- [o \in Obligations |-> Payments(o)]

\* The lifecycle implements the promise: one transfer per debt, closed only by it.
KeepsPromise == Promise!Spec
====
