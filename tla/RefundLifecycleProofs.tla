----------------------- MODULE RefundLifecycleProofs -----------------------
(***************************************************************************)
(* RefundLifecycle for any number of debts, activations and crashes: its   *)
(* types, the single broadcast, and the evidence behind a closed debt.     *)
(***************************************************************************)
EXTENDS RefundLifecycle, TLAPS

USE ShapeAssumption, NoTxAssumption, NoJobAssumption, MaxCrashesAssumption

\* The parts of the state, and that an activation or a pass that is not idle
\* has a debt in hand.
RecordInv == record \in [Obligations -> Records]

CallerInv ==
    /\ caller \in [Callers -> Activations]
    /\ \A c \in Callers : caller[c].at # "idle" => caller[c].job \in Obligations

WorkerInv ==
    /\ worker \in Passes
    /\ worker.at = "verify" => worker.job \in Obligations /\ worker.tx \in Transfers

ChainInv ==
    /\ claims \in SUBSET Obligations
    /\ sends \in [Obligations -> Nat]
    /\ landed \in SUBSET Transfers
    /\ crashes \in 0 .. MaxCrashes

TypeInv == RecordInv /\ CallerInv /\ WorkerInv /\ ChainInv

LEMMA TypeInit == Init => TypeInv
  BY DEF Init, TypeInv, RecordInv, CallerInv, WorkerInv, ChainInv, Records,
         States, Activations, CallerAt, Idle, Passes, Resting, Transfers

LEMMA Unchanged ==
    /\ RecordInv /\ UNCHANGED record => RecordInv'
    /\ CallerInv /\ UNCHANGED caller => CallerInv'
    /\ WorkerInv /\ UNCHANGED worker => WorkerInv'
    /\ ChainInv /\ UNCHANGED <<claims, sends, landed, crashes>> => ChainInv'
  BY DEF RecordInv, CallerInv, WorkerInv, ChainInv

LEMMA WriteTyped ==
    ASSUME RecordInv, NEW o \in Obligations, NEW to \in States,
           NEW tx \in Transfers \cup {NoTx},
           record' = [record EXCEPT ![o].state = to, ![o].outgoingTx = tx]
    PROVE  RecordInv'
  BY DEF RecordInv, Records

LEMMA GoTyped ==
    ASSUME CallerInv, NEW c \in Callers, NEW at \in CallerAt \ {"idle"}, Go(c, at),
           caller[c].at # "idle"
    PROVE  CallerInv'
  BY DEF CallerInv, Go, Activations

LEMMA ReturnTyped ==
    ASSUME CallerInv, NEW c \in Callers, Return(c)
    PROVE  CallerInv'
  BY DEF CallerInv, Return, Activations, Idle, CallerAt

LEMMA TakeTyped ==
    ASSUME CallerInv, NEW c \in Callers, NEW o \in Obligations,
           NEW at \in CallerAt, NEW tx \in Transfers \cup {NoTx},
           caller' = [caller EXCEPT ![c] = [at |-> at, job |-> o, tx |-> tx]]
    PROVE  CallerInv'
  BY DEF CallerInv, Activations

LEMMA RecordFields ==
    ASSUME RecordInv, NEW o \in Obligations
    PROVE  record[o].state \in States /\ record[o].outgoingTx \in Transfers \cup {NoTx}
  BY DEF RecordInv, Records

LEMMA CallerFields ==
    ASSUME CallerInv, NEW c \in Callers
    PROVE  /\ caller[c].at \in CallerAt
           /\ caller[c].tx \in Transfers \cup {NoTx}
           /\ caller[c].at # "idle" => caller[c].job \in Obligations
  BY DEF CallerInv, Activations

LEMMA TypeStore ==
    ASSUME TypeInv, NEW o \in Obligations, Create(o) \/ MarkBlocked(o)
    PROVE  TypeInv'
  <1>1. CASE Create(o)
    <2>1. RecordInv'
      <3>1. "PENDING" \in States /\ landed \in SUBSET Transfers
        BY DEF States, TypeInv, ChainInv
      <3>. QED BY <1>1, <3>1 DEF Create, TypeInv, RecordInv, Records
    <2>. QED BY <1>1, <2>1, Unchanged DEF TypeInv, Create
  <1>2. CASE MarkBlocked(o)
    <2>1. RecordInv'
      BY <1>2, RecordFields, WriteTyped, "BLOCKED" \in States
         DEF MarkBlocked, Commit, TypeInv, States
    <2>. QED BY <1>2, <2>1, Unchanged DEF TypeInv, MarkBlocked
  <1>. QED BY <1>1, <1>2

LEMMA TypeSubmit ==
    ASSUME TypeInv, NEW c \in Callers, SubmitRefund(c)
    PROVE  TypeInv'
  <1>. USE DEF TypeInv
  <1>1. CASE \E o \in Obligations : StartSubmit(c, o)
    <2>1. CallerInv'
      BY <1>1, TakeTyped, "quote" \in CallerAt DEF StartSubmit, CallerAt
    <2>. QED BY <1>1, <2>1, Unchanged DEF StartSubmit
  <1>2. CASE QuoteFails(c) \/ SignFails(c) \/ AdapterRefuses(c) \/ ReplyUnknown(c)
    <2>1. CallerInv'
      BY <1>2, ReturnTyped DEF QuoteFails, SignFails, AdapterRefuses, ReplyUnknown
    <2>. QED BY <1>2, <2>1, Unchanged
             DEF QuoteFails, SignFails, AdapterRefuses, ReplyUnknown
  <1>3. CASE MarkSubmissionUnknown(c)
    <2>1. caller[c].job \in Obligations /\ caller[c].at # "idle"
      BY <1>3, CallerFields DEF MarkSubmissionUnknown
    <2>2. RecordInv'
      BY <1>3, <2>1, WriteTyped, Unchanged, "SUBMISSION_UNKNOWN" \in States
         DEF MarkSubmissionUnknown, Commit, States
    <2>3. CallerInv'
      BY <1>3, <2>1, GoTyped, ReturnTyped, "sign" \in CallerAt
         DEF MarkSubmissionUnknown, CallerAt
    <2>. QED BY <1>3, <2>2, <2>3, Unchanged DEF MarkSubmissionUnknown
  <1>4. CASE ClaimBroadcast(c)
    <2>1. caller[c].job \in Obligations /\ caller[c].at # "idle"
      BY <1>4, CallerFields DEF ClaimBroadcast
    <2>2. CallerInv'
      BY <1>4, <2>1, GoTyped, ReturnTyped, "send" \in CallerAt DEF ClaimBroadcast, CallerAt
    <2>3. ChainInv'
      BY <1>4, <2>1 DEF ClaimBroadcast, ChainInv
    <2>. QED BY <1>4, <2>2, <2>3, Unchanged DEF ClaimBroadcast
  <1>5. CASE Broadcast(c)
    <2>1. caller[c].job \in Obligations /\ caller[c].at # "idle"
      BY <1>5, CallerFields DEF Broadcast
    <2>2. CallerInv'
      BY <1>5, <2>1, GoTyped, "reply" \in CallerAt DEF Broadcast, CallerAt
    <2>3. ChainInv'
      BY <1>5, <2>1 DEF Broadcast, ChainInv
    <2>. QED BY <1>5, <2>2, <2>3, Unchanged DEF Broadcast
  <1>6. CASE ReplyHash(c)
    <2>1. caller[c].job \in Obligations
      BY <1>6, CallerFields DEF ReplyHash
    <2>2. <<caller[c].job, sends[caller[c].job]>> \in Transfers
      BY <2>1 DEF ChainInv, Transfers
    <2>3. RecordInv'
      BY <1>6, <2>1, <2>2, WriteTyped, Unchanged, "SUBMITTED" \in States
         DEF ReplyHash, Commit, States
    <2>. QED BY <1>6, <2>3, ReturnTyped, Unchanged DEF ReplyHash
  <1>. QED BY <1>1, <1>2, <1>3, <1>4, <1>5, <1>6 DEF SubmitRefund

LEMMA TypeResolve ==
    ASSUME TypeInv, NEW c \in Callers, FinalizeRefund(c) \/ ReconcileAmbiguousSubmission(c)
    PROVE  TypeInv'
  <1>. USE DEF TypeInv
  <1>1. CASE \E o \in Obligations : StartFinalize(c, o) \/ StartReconcile(c, o)
    <2>1. CallerInv'
      BY <1>1, TakeTyped, RecordFields, "finality" \in CallerAt, "search" \in CallerAt
         DEF StartFinalize, StartReconcile, CallerAt
    <2>. QED BY <1>1, <2>1, Unchanged DEF StartFinalize, StartReconcile
  <1>2. CASE FinalityVerified(c)
    <2>1. RecordInv'
      BY <1>2, CallerFields, WriteTyped, Unchanged, "COMPLETE" \in States
         DEF FinalityVerified, Commit, States
    <2>. QED BY <1>2, <2>1, ReturnTyped, Unchanged DEF FinalityVerified
  <1>3. CASE FinalityNotVerified(c)
    BY <1>3, ReturnTyped, Unchanged DEF FinalityNotVerified
  <1>4. CASE SearchFinds(c)
    <2>1. CallerInv'
      <3>1. PICK t \in landed : caller' = [caller EXCEPT ![c].at = "observe", ![c].tx = t]
        BY <1>4 DEF SearchFinds
      <3>2. caller[c].at # "idle" /\ t \in Transfers /\ "observe" \in CallerAt
        BY <1>4 DEF SearchFinds, ChainInv, CallerAt
      <3>. QED BY <3>1, <3>2 DEF CallerInv, Activations
    <2>. QED BY <1>4, <2>1, Unchanged DEF SearchFinds
  <1>5. CASE ReconcileVerified(c)
    <2>1. RecordInv'
      BY <1>5, CallerFields, WriteTyped, Unchanged, "COMPLETE" \in States
         DEF ReconcileVerified, States
    <2>. QED BY <1>5, <2>1, ReturnTyped, Unchanged DEF ReconcileVerified
  <1>6. CASE ReconcileNotVerified(c)
    <2>1. RecordInv'
      BY <1>6, CallerFields, RecordFields, WriteTyped, Unchanged,
         "RECONCILIATION_REQUIRED" \in States
         DEF ReconcileNotVerified, Commit, States
    <2>. QED BY <1>6, <2>1, ReturnTyped, Unchanged DEF ReconcileNotVerified
  <1>. QED BY <1>1, <1>2, <1>3, <1>4, <1>5, <1>6
           DEF FinalizeRefund, ReconcileAmbiguousSubmission

LEMMA NextInPassTyped ==
    ASSUME WorkerInv, NEW o \in Obligations, NextInPass(o)
    PROVE  WorkerInv'
  BY DEF WorkerInv, NextInPass, Passes, Resting

LEMMA TypePass ==
    ASSUME TypeInv, RunPass
    PROVE  TypeInv'
  <1>. USE DEF TypeInv
  <1>1. CASE \E batch \in SUBSET {o \in Obligations : Eligible(o)} : StartPass(batch)
    <2>1. [o \in Obligations |-> record[o].outgoingTx]
              \in [Obligations -> Transfers \cup {NoTx}]
      BY RecordFields
    <2>2. WorkerInv'
      <3>1. PICK batch \in SUBSET Obligations :
                worker' = [at |-> "pass", todo |-> batch,
                           known |-> [o \in Obligations |-> record[o].outgoingTx],
                           job |-> NoJob, tx |-> NoTx]
        BY <1>1 DEF StartPass, Resting
      <3>. QED BY <2>1, <3>1 DEF WorkerInv, Passes
    <2>. QED BY <1>1, <2>2, Unchanged DEF StartPass
  <1>2. CASE \E o \in Obligations : PassFinds(o)
    <2>1. WorkerInv'
      <3>1. PICK o \in Obligations, t \in landed :
                worker' = [worker EXCEPT !.at = "verify", !.job = o, !.tx = t]
        BY <1>2 DEF PassFinds
      <3>2. t \in Transfers
        BY DEF ChainInv
      <3>. QED BY <3>1, <3>2 DEF WorkerInv, Passes
    <2>. QED BY <1>2, <2>1, Unchanged DEF PassFinds
  <1>3. CASE \E o \in Obligations : PassSkips(o)
    BY <1>3, NextInPassTyped, Unchanged DEF PassSkips
  <1>4. CASE CompleteFromVerifiedHistory
    <2>1. worker.job \in Obligations /\ worker.tx \in Transfers
      BY <1>4 DEF CompleteFromVerifiedHistory, WorkerInv
    <2>2. RecordInv'
      BY <1>4, <2>1, WriteTyped, Unchanged, "COMPLETE" \in States
         DEF CompleteFromVerifiedHistory, States
    <2>. QED BY <1>4, <2>1, <2>2, NextInPassTyped, Unchanged
             DEF CompleteFromVerifiedHistory
  <1>. QED BY <1>1, <1>2, <1>3, <1>4 DEF RunPass

LEMMA RestartTyped ==
    ASSUME Restart, CallerInv, WorkerInv, crashes \in 0 .. MaxCrashes
    PROVE  CallerInv' /\ WorkerInv' /\ crashes' \in 0 .. MaxCrashes
  BY DEF Restart, CallerInv, WorkerInv, Idle, Resting, Activations, CallerAt, Passes

LEMMA TypeEnvironment ==
    ASSUME TypeInv,
           \/ \E o \in Obligations : \E k \in 1 .. sends[o] : Land(<<o, k>>)
           \/ Crash
           \/ \E o \in Obligations : \E t \in landed : CrashHalfComplete(o, t)
    PROVE  TypeInv'
  <1>. USE DEF TypeInv
  <1>1. CASE \E o \in Obligations : \E k \in 1 .. sends[o] : Land(<<o, k>>)
    <2>1. ChainInv'
      BY <1>1 DEF Land, ChainInv
    <2>. QED BY <1>1, <2>1, Unchanged DEF Land
  <1>2. CASE Crash
    <2>1. CallerInv' /\ WorkerInv' /\ ChainInv'
      BY <1>2, RestartTyped DEF Crash, ChainInv
    <2>. QED BY <1>2, <2>1, Unchanged DEF Crash
  <1>3. CASE \E o \in Obligations : \E t \in landed : CrashHalfComplete(o, t)
    <2>1. RecordInv'
      BY <1>3, WriteTyped, "SUBMITTED" \in States
         DEF CrashHalfComplete, Commit, ChainInv, States
    <2>2. CallerInv' /\ WorkerInv' /\ ChainInv'
      BY <1>3, RestartTyped DEF CrashHalfComplete, ChainInv
    <2>. QED BY <2>1, <2>2
  <1>. QED BY <1>1, <1>2, <1>3

LEMMA TypeStep == TypeInv /\ [Next]_vars => TypeInv'
  <1>. SUFFICES ASSUME TypeInv, [Next]_vars PROVE TypeInv'
    OBVIOUS
  <1>1. CASE UNCHANGED vars
    BY <1>1, Unchanged DEF vars, TypeInv
  <1>2. CASE Next
    BY <1>2, TypeStore, TypeSubmit, TypeResolve, TypePass, TypeEnvironment DEF Next
  <1>. QED BY <1>1, <1>2

\* Every variable keeps its type, whatever the number of debts and activations.
THEOREM TypeCorrect == Spec => []TypeOK
  <1>1. TypeInv => TypeOK
    BY DEF TypeInv, TypeOK, RecordInv, CallerInv, WorkerInv, ChainInv
  <1>. QED BY <1>1, TypeInit, TypeStep, PTL DEF Spec

-----------------------------------------------------------------------------
(* One broadcast *)

\* Nothing precedes the durable mark, and nothing is sent without the claim.
MarkFirst ==
    /\ \A o \in Obligations : record[o].state \in {"ABSENT", "PENDING"} => o \notin claims
    /\ \A c \in Callers : caller[c].at \in {"sign", "send", "reply"} =>
            record[caller[c].job].state \notin {"ABSENT", "PENDING"}

\* The claim has one winner, who sends at most once.
ClaimInv ==
    /\ \A o \in Obligations : o \notin claims => sends[o] = 0
    /\ \A c \in Callers : caller[c].at \in {"send", "reply"} => caller[c].job \in claims
    /\ \A c \in Callers : caller[c].at = "send" => sends[caller[c].job] = 0
    /\ \A c, d \in Callers :
        caller[c].at \in {"send", "reply"} /\ caller[d].at \in {"send", "reply"}
            /\ caller[c].job = caller[d].job => c = d
    /\ AtMostOneBroadcast

\* The chain executes nothing that was not handed to the network.
SentInv == \A t \in landed : t[2] \in 1 .. sends[t[1]]

SendInv == MarkFirst /\ ClaimInv /\ SentInv

LEMMA SendInit == Init => SendInv
  BY DEF Init, SendInv, MarkFirst, ClaimInv, SentInv, AtMostOneBroadcast, Idle

\* No record goes back to ABSENT or PENDING, and no activation starts signing.
NoReopening == \A o \in Obligations :
    record'[o].state \in {"ABSENT", "PENDING"} => record[o].state \in {"ABSENT", "PENDING"}

NoNewSigner == \A c \in Callers :
    caller'[c].at \in {"sign", "send", "reply"} => caller'[c] = caller[c]

LEMMA SendKept ==
    TypeInv /\ SendInv /\ UNCHANGED <<claims, sends, landed>> /\ NoReopening /\ NoNewSigner
        => SendInv'
  BY DEF TypeInv, RecordInv, CallerInv, ChainInv, Activations, SendInv, MarkFirst,
         ClaimInv, SentInv, AtMostOneBroadcast, NoReopening, NoNewSigner

LEMMA NothingKept ==
    /\ UNCHANGED record => NoReopening
    /\ UNCHANGED caller => NoNewSigner
  BY DEF NoReopening, NoNewSigner

\* What a write of the store leaves of the other records, and of its own.
LEMMA WriteEffect ==
    ASSUME RecordInv, NEW o \in Obligations, NEW to, NEW tx,
           record' = [record EXCEPT ![o].state = to, ![o].outgoingTx = tx]
    PROVE  /\ record'[o].state = to /\ record'[o].outgoingTx = tx
           /\ \A p \in Obligations \ {o} : record'[p] = record[p]
  BY DEF RecordInv, Records

LEMMA GoEffect ==
    ASSUME CallerInv, NEW c \in Callers, NEW at, Go(c, at)
    PROVE  /\ caller'[c].at = at /\ caller'[c].job = caller[c].job
           /\ \A d \in Callers \ {c} : caller'[d] = caller[d]
  BY DEF CallerInv, Activations, Go

LEMMA ReturnEffect ==
    ASSUME CallerInv, NEW c \in Callers, Return(c)
    PROVE  /\ caller'[c].at = "idle"
           /\ \A d \in Callers \ {c} : caller'[d] = caller[d]
  BY DEF CallerInv, Activations, Return, Idle

LEMMA WriteKept ==
    ASSUME RecordInv, NEW o \in Obligations, NEW to, NEW tx, to \notin {"ABSENT", "PENDING"},
           record' = [record EXCEPT ![o].state = to, ![o].outgoingTx = tx]
    PROVE  NoReopening
  BY DEF RecordInv, Records, NoReopening

LEMMA ReturnKept ==
    ASSUME CallerInv, NEW c \in Callers, Return(c)
    PROVE  NoNewSigner
  BY ReturnEffect DEF NoNewSigner

LEMMA SendSubmit ==
    ASSUME TypeInv, SendInv, NEW c \in Callers, SubmitRefund(c)
    PROVE  SendInv'
  <1>. USE DEF TypeInv
  <1>1. CASE \E o \in Obligations : StartSubmit(c, o)
    <2>1. /\ UNCHANGED <<record, claims, sends, landed>>
          /\ caller'[c].at = "quote" /\ \A d \in Callers \ {c} : caller'[d] = caller[d]
      BY <1>1 DEF StartSubmit, CallerInv
    <2>2. NoNewSigner
      BY <2>1 DEF NoNewSigner
    <2>. QED BY <2>1, <2>2, SendKept, NothingKept
  <1>2. CASE QuoteFails(c) \/ SignFails(c) \/ AdapterRefuses(c) \/ ReplyUnknown(c)
    BY <1>2, SendKept, NothingKept, ReturnKept
       DEF QuoteFails, SignFails, AdapterRefuses, ReplyUnknown
  <1>3. CASE MarkSubmissionUnknown(c)
    <2>. DEFINE o == caller[c].job
    <2>1. o \in Obligations
      BY <1>3, CallerFields DEF MarkSubmissionUnknown
    <2>2. CASE record[o].state = "PENDING"
      <3>1. record' = [record EXCEPT ![o].state = "SUBMISSION_UNKNOWN", ![o].outgoingTx = NoTx]
        BY <1>3, <2>2 DEF MarkSubmissionUnknown, Commit
      <3>2. Go(c, "sign") /\ UNCHANGED <<claims, sends, landed>>
        BY <1>3, <2>2 DEF MarkSubmissionUnknown
      <3>3. MarkFirst'
        <4>1. /\ record'[o].state = "SUBMISSION_UNKNOWN"
              /\ \A p \in Obligations \ {o} : record'[p] = record[p]
          BY <2>1, <3>1, WriteEffect
        <4>2. /\ caller'[c].job = o
              /\ \A d \in Callers \ {c} : caller'[d] = caller[d]
          BY <3>2, GoEffect
        <4>. QED BY <2>1, <3>2, <4>1, <4>2, CallerFields DEF SendInv, MarkFirst
      <3>4. ClaimInv' /\ SentInv'
        BY <3>2, GoEffect DEF SendInv, ClaimInv, SentInv, AtMostOneBroadcast
      <3>. QED BY <3>3, <3>4 DEF SendInv
    <2>3. CASE record[o].state # "PENDING"
      BY <1>3, <2>3, SendKept, NothingKept, ReturnKept DEF MarkSubmissionUnknown
    <2>. QED BY <2>2, <2>3
  <1>4. CASE ClaimBroadcast(c)
    <2>. DEFINE o == caller[c].job
    <2>1. o \in Obligations /\ caller[c].at = "sign"
      BY <1>4, CallerFields DEF ClaimBroadcast
    <2>2. CASE o \in claims
      <3>1. Return(c) /\ UNCHANGED <<record, claims, sends, landed>>
        BY <1>4, <2>2 DEF ClaimBroadcast
      <3>. QED BY <3>1, SendKept, NothingKept, ReturnKept
    <2>3. CASE o \notin claims
      <3>1. Go(c, "send") /\ claims' = claims \cup {o} /\ UNCHANGED <<record, sends, landed>>
        BY <1>4, <2>3 DEF ClaimBroadcast
      <3>2. MarkFirst'
        BY <2>1, <3>1, GoEffect DEF SendInv, MarkFirst
      <3>3. ClaimInv'
        BY <2>1, <2>3, <3>1, GoEffect DEF SendInv, ClaimInv, AtMostOneBroadcast
      <3>4. SentInv'
        BY <3>1 DEF SendInv, SentInv
      <3>. QED BY <3>2, <3>3, <3>4 DEF SendInv
    <2>. QED BY <2>2, <2>3
  <1>5. CASE Broadcast(c)
    <2>. DEFINE o == caller[c].job
    <2>1. /\ o \in Obligations /\ caller[c].at = "send"
          /\ sends' = [sends EXCEPT ![o] = @ + 1]
          /\ Go(c, "reply") /\ UNCHANGED <<record, claims, landed>>
      BY <1>5, CallerFields DEF Broadcast
    <2>2. sends'[o] = 1 /\ \A p \in Obligations \ {o} : sends'[p] = sends[p]
      BY <2>1 DEF ChainInv, SendInv, ClaimInv
    <2>3. MarkFirst'
      BY <2>1, GoEffect DEF SendInv, MarkFirst
    <2>4. ClaimInv'
      BY <2>1, <2>2, GoEffect, CallerFields DEF SendInv, ClaimInv, AtMostOneBroadcast
    <2>5. SentInv'
      BY <2>1, <2>2 DEF SendInv, ClaimInv, SentInv, ChainInv, Transfers
    <2>. QED BY <2>3, <2>4, <2>5 DEF SendInv
  <1>6. CASE ReplyHash(c)
    <2>1. caller[c].job \in Obligations
      BY <1>6, CallerFields DEF ReplyHash
    <2>2. Return(c) /\ UNCHANGED <<claims, sends, landed>>
      BY <1>6 DEF ReplyHash
    <2>3. NoReopening
      BY <1>6, <2>1, WriteKept, NothingKept DEF ReplyHash, Commit
    <2>. QED BY <2>2, <2>3, SendKept, ReturnKept
  <1>. QED BY <1>1, <1>2, <1>3, <1>4, <1>5, <1>6 DEF SubmitRefund

LEMMA SendOther ==
    ASSUME TypeInv, SendInv,
           \/ \E o \in Obligations : Create(o) \/ MarkBlocked(o)
           \/ \E c \in Callers : FinalizeRefund(c) \/ ReconcileAmbiguousSubmission(c)
           \/ RunPass
    PROVE  SendInv'
  <1>. USE DEF TypeInv
  <1>1. CASE \E o \in Obligations : Create(o) \/ MarkBlocked(o)
    <2>1. PICK o \in Obligations : Create(o) \/ MarkBlocked(o)
      BY <1>1
    <2>2. UNCHANGED <<claims, caller, sends, landed>>
      BY <2>1 DEF Create, MarkBlocked
    <2>3. Create(o) => NoReopening
      BY DEF Create, RecordInv, Records, NoReopening
    <2>4. MarkBlocked(o) => NoReopening
      BY DEF MarkBlocked, Commit, RecordInv, Records, NoReopening
    <2>. QED BY <2>1, <2>2, <2>3, <2>4, NothingKept, SendKept
  <1>2. CASE \E c \in Callers : FinalizeRefund(c) \/ ReconcileAmbiguousSubmission(c)
    <2>1. PICK c \in Callers : FinalizeRefund(c) \/ ReconcileAmbiguousSubmission(c)
      BY <1>2
    <2>2. UNCHANGED <<claims, sends, landed>>
      BY <2>1 DEF FinalizeRefund, ReconcileAmbiguousSubmission, StartFinalize,
        FinalityVerified, FinalityNotVerified, StartReconcile, SearchFinds,
        ReconcileVerified, ReconcileNotVerified
    <2>3. /\ caller'[c].at \notin {"sign", "send", "reply"}
          /\ \A d \in Callers \ {c} : caller'[d] = caller[d]
      BY <2>1, ReturnEffect DEF FinalizeRefund, ReconcileAmbiguousSubmission,
        StartFinalize, FinalityVerified, FinalityNotVerified, StartReconcile,
        SearchFinds, ReconcileVerified, ReconcileNotVerified, CallerInv, Activations
    <2>4. NoNewSigner
      BY <2>3 DEF NoNewSigner
    <2>5. FinalityVerified(c) => NoReopening
      BY WriteKept, NothingKept, CallerFields DEF FinalityVerified, Commit
    <2>6. ReconcileVerified(c) => NoReopening
      BY WriteKept, NothingKept, CallerFields DEF ReconcileVerified
    <2>7. ReconcileNotVerified(c) => NoReopening
      BY WriteKept, NothingKept, CallerFields DEF ReconcileNotVerified, Commit
    <2>8. UNCHANGED record => NoReopening
      BY NothingKept
    <2>9. NoReopening
      BY <2>1, <2>5, <2>6, <2>7, <2>8
         DEF FinalizeRefund, ReconcileAmbiguousSubmission, StartFinalize,
             FinalityNotVerified, StartReconcile, SearchFinds
    <2>. QED BY <2>2, <2>4, <2>9, SendKept
  <1>3. CASE RunPass
    <2>1. UNCHANGED <<claims, caller, sends, landed>>
      BY <1>3 DEF RunPass, StartPass, PassFinds, PassSkips, CompleteFromVerifiedHistory
    <2>2. CompleteFromVerifiedHistory => NoReopening
      BY WriteKept, NothingKept DEF CompleteFromVerifiedHistory, WorkerInv
    <2>3. UNCHANGED record => NoReopening
      BY NothingKept
    <2>4. NoReopening
      BY <1>3, <2>2, <2>3 DEF RunPass, StartPass, PassFinds, PassSkips
    <2>. QED BY <2>1, <2>4, NothingKept, SendKept
  <1>. QED BY <1>1, <1>2, <1>3

LEMMA SendEnvironment ==
    ASSUME TypeInv, SendInv,
           \/ \E o \in Obligations : \E k \in 1 .. sends[o] : Land(<<o, k>>)
           \/ Crash
           \/ \E o \in Obligations : \E t \in landed : CrashHalfComplete(o, t)
    PROVE  SendInv'
  <1>. USE DEF TypeInv
  <1>1. CASE \E o \in Obligations : \E k \in 1 .. sends[o] : Land(<<o, k>>)
    BY <1>1 DEF Land, SendInv, MarkFirst, ClaimInv, SentInv, AtMostOneBroadcast
  <1>2. Restart => NoNewSigner
    BY DEF Restart, Idle, NoNewSigner
  <1>3. CASE Crash
    BY <1>2, <1>3, SendKept, NothingKept DEF Crash
  <1>4. CASE \E o \in Obligations : \E t \in landed : CrashHalfComplete(o, t)
    <2>1. NoReopening
      <3>1. PICK o \in Obligations, t \in landed : Commit(o, "SUBMITTED", t)
        BY <1>4 DEF CrashHalfComplete
      <3>. QED BY <3>1 DEF Commit, RecordInv, Records, NoReopening
    <2>. QED BY <1>2, <1>4, <2>1, SendKept DEF CrashHalfComplete
  <1>. QED BY <1>1, <1>3, <1>4

LEMMA SendStep == TypeInv /\ SendInv /\ [Next]_vars => SendInv'
  <1>. SUFFICES ASSUME TypeInv, SendInv, [Next]_vars PROVE SendInv'
    OBVIOUS
  <1>1. CASE UNCHANGED vars
    BY <1>1 DEF vars, SendInv, MarkFirst, ClaimInv, SentInv, AtMostOneBroadcast
  <1>2. CASE Next
    BY <1>2, SendSubmit, SendOther, SendEnvironment DEF Next
  <1>. QED BY <1>1, <1>2

LEMMA Invariant == Spec => [](TypeInv /\ SendInv)
  BY TypeInit, TypeStep, SendInit, SendStep, PTL DEF Spec

\* No interleaving of activations and no restart sends a refund twice.
THEOREM SingleBroadcast == Spec => []AtMostOneBroadcast
  <1>1. SendInv => AtMostOneBroadcast
    BY DEF SendInv, ClaimInv
  <1>. QED BY <1>1, Invariant, PTL

\* A debt that reads PENDING was never handed to the network.
THEOREM PendingWasNeverSent == Spec => []NeverPendingOnWire
  <1>1. TypeInv /\ SendInv => NeverPendingOnWire
    BY DEF TypeInv, ChainInv, SendInv, MarkFirst, ClaimInv, NeverPendingOnWire
  <1>. QED BY <1>1, Invariant, PTL

-----------------------------------------------------------------------------
(* The evidence behind a closed debt *)

\* Recorded transactions are the debt's own, and a COMPLETE one was executed.
RecordsBacked == \A o \in Obligations :
    /\ record[o].outgoingTx # NoTx => record[o].outgoingTx[1] = o
    /\ record[o].state = "COMPLETE" => record[o].outgoingTx \in landed

\* So is whatever a search found and still has to have confirmed.
CallersBacked == \A c \in Callers :
    caller[c].at = "observe" => caller[c].tx \in landed /\ caller[c].tx[1] = caller[c].job

WorkerBacked ==
    worker.at = "verify" => worker.tx \in landed /\ worker.tx[1] = worker.job

EvidenceInv == RecordsBacked /\ CallersBacked /\ WorkerBacked

LEMMA EvidenceInit == Init => EvidenceInv
  BY DEF Init, EvidenceInv, RecordsBacked, CallersBacked, WorkerBacked, Idle, Resting

\* When shapes differ, the only transfer that matches a debt was sent for it.
LEMMA MatchIsOwn ==
    ASSUME DistinctShapes, TypeInv, NEW o \in Obligations, NEW t \in landed,
           UniqueMatch(o, t)
    PROVE  t[1] = o
  <1>1. t[1] \in Obligations
    BY DEF TypeInv, ChainInv, Transfers
  <1>2. Shape[t[1]] = Shape[o]
    BY DEF UniqueMatch, Matches
  <1>. QED BY <1>1, <1>2 DEF DistinctShapes

LEMMA BackedKept ==
    ASSUME landed \subseteq landed'
    PROVE  /\ RecordsBacked /\ UNCHANGED record => RecordsBacked'
           /\ CallersBacked /\ UNCHANGED caller => CallersBacked'
           /\ WorkerBacked /\ UNCHANGED worker => WorkerBacked'
  BY DEF RecordsBacked, CallersBacked, WorkerBacked

LEMMA WriteBacked ==
    ASSUME TypeInv, RecordsBacked, landed \subseteq landed',
           NEW o \in Obligations, NEW to, NEW tx,
           record' = [record EXCEPT ![o].state = to, ![o].outgoingTx = tx],
           tx # NoTx => tx[1] = o,
           to = "COMPLETE" => tx \in landed
    PROVE  RecordsBacked'
  BY DEF TypeInv, RecordInv, Records, RecordsBacked

LEMMA GoBacked ==
    ASSUME TypeInv, CallersBacked, landed \subseteq landed', NEW c \in Callers,
           \/ Return(c)
           \/ \E at \in CallerAt \ {"observe"} : Go(c, at)
           \/ \E a \in Activations : a.at # "observe" /\ caller' = [caller EXCEPT ![c] = a]
    PROVE  CallersBacked'
  BY DEF TypeInv, CallerInv, CallersBacked, Return, Go, Idle, Activations

LEMMA EvidenceSubmit ==
    ASSUME TypeInv, EvidenceInv, NEW c \in Callers, SubmitRefund(c)
    PROVE  EvidenceInv'
  <1>. USE DEF EvidenceInv
  <1>1. UNCHANGED <<worker, landed>>
    BY DEF SubmitRefund, StartSubmit, QuoteFails, MarkSubmissionUnknown, SignFails,
           ClaimBroadcast, AdapterRefuses, Broadcast, ReplyHash, ReplyUnknown
  <1>2. CallersBacked'
    <2>1. CASE \E o \in Obligations : StartSubmit(c, o)
      <3>1. PICK o \in Obligations :
                caller' = [caller EXCEPT ![c] = [at |-> "quote", job |-> o, tx |-> NoTx]]
        BY <2>1 DEF StartSubmit
      <3>2. [at |-> "quote", job |-> o, tx |-> NoTx] \in Activations
        BY DEF Activations, CallerAt
      <3>. QED BY <1>1, <3>1, <3>2, GoBacked
    <2>2. Return(c) \/ Go(c, "sign") \/ Go(c, "send") \/ Go(c, "reply")
            => \/ Return(c)
               \/ \E at \in CallerAt \ {"observe"} : Go(c, at)
      BY DEF CallerAt
    <2>. QED BY <1>1, <2>1, <2>2, GoBacked
             DEF SubmitRefund, QuoteFails, MarkSubmissionUnknown, SignFails,
                 ClaimBroadcast, AdapterRefuses, Broadcast, ReplyHash, ReplyUnknown
  <1>3. RecordsBacked'
    <2>1. CASE UNCHANGED record
      BY <1>1, <2>1, BackedKept
    <2>2. CASE MarkSubmissionUnknown(c) /\ record[caller[c].job].state = "PENDING"
      <3>1. record' = [record EXCEPT ![caller[c].job].state = "SUBMISSION_UNKNOWN",
                                     ![caller[c].job].outgoingTx = NoTx]
        BY <2>2 DEF MarkSubmissionUnknown, Commit
      <3>2. caller[c].job \in Obligations
        BY <2>2, CallerFields DEF MarkSubmissionUnknown, TypeInv
      <3>. QED BY <1>1, <3>1, <3>2 DEF TypeInv, RecordInv, Records, RecordsBacked
    <2>3. CASE ReplyHash(c) /\ record[caller[c].job].state = "SUBMISSION_UNKNOWN"
      <3>. DEFINE tx == <<caller[c].job, sends[caller[c].job]>>
      <3>1. record' = [record EXCEPT ![caller[c].job].state = "SUBMITTED",
                                     ![caller[c].job].outgoingTx = tx]
        BY <2>3 DEF ReplyHash, Commit
      <3>2. caller[c].job \in Obligations /\ tx[1] = caller[c].job
        BY <2>3, CallerFields DEF ReplyHash, TypeInv
      <3>. HIDE DEF tx
      <3>. QED BY <1>1, <3>1, <3>2 DEF TypeInv, RecordInv, Records, RecordsBacked
    <2>. QED BY <2>1, <2>2, <2>3
             DEF SubmitRefund, StartSubmit, QuoteFails, MarkSubmissionUnknown, SignFails,
                 ClaimBroadcast, AdapterRefuses, Broadcast, ReplyHash, ReplyUnknown
  <1>. QED BY <1>1, <1>2, <1>3, BackedKept

LEMMA EvidenceResolve ==
    ASSUME DistinctShapes, TypeInv, EvidenceInv, NEW c \in Callers,
           FinalizeRefund(c) \/ ReconcileAmbiguousSubmission(c)
    PROVE  EvidenceInv'
  <1>. USE DEF EvidenceInv
  <1>1. UNCHANGED <<worker, landed>>
    BY DEF FinalizeRefund, ReconcileAmbiguousSubmission, StartFinalize, FinalityVerified,
           FinalityNotVerified, StartReconcile, SearchFinds, ReconcileVerified,
           ReconcileNotVerified
  <1>2. CASE \E o \in Obligations : StartFinalize(c, o) \/ StartReconcile(c, o)
    <2>1. CallersBacked'
      BY <1>1, <1>2 DEF StartFinalize, StartReconcile, TypeInv, CallerInv, CallersBacked
    <2>. QED BY <1>1, <1>2, <2>1, BackedKept DEF StartFinalize, StartReconcile
  <1>3. CASE SearchFinds(c)
    <2>1. PICK t \in landed :
              /\ UniqueMatch(caller[c].job, t)
              /\ caller' = [caller EXCEPT ![c].at = "observe", ![c].tx = t]
      BY <1>3 DEF SearchFinds
    <2>2. t[1] = caller[c].job
      BY <1>3, <2>1, CallerFields, MatchIsOwn DEF SearchFinds, TypeInv
    <2>3. CallersBacked'
      BY <1>1, <2>1, <2>2 DEF TypeInv, CallerInv, Activations, CallersBacked
    <2>. QED BY <1>1, <1>3, <2>3, BackedKept DEF SearchFinds
  <1>4. CASE FinalityVerified(c) \/ FinalityNotVerified(c) \/ ReconcileVerified(c)
                \/ ReconcileNotVerified(c)
    <2>1. CallersBacked'
      BY <1>1, <1>4, GoBacked
         DEF FinalityVerified, FinalityNotVerified, ReconcileVerified, ReconcileNotVerified
    <2>2. caller[c].job \in Obligations
      BY <1>4, CallerFields DEF TypeInv, FinalityVerified, FinalityNotVerified,
                                ReconcileVerified, ReconcileNotVerified
    <2>3. RecordsBacked'
      <3>1. CASE UNCHANGED record
        BY <1>1, <3>1, BackedKept
      <3>2. CASE FinalityVerified(c) /\ record' # record
        BY <1>1, <2>2, <3>2
           DEF FinalityVerified, Commit, TypeInv, RecordInv, Records, RecordsBacked
      <3>3. CASE ReconcileVerified(c) /\ record' # record
        BY <1>1, <2>2, <3>3
           DEF ReconcileVerified, TypeInv, RecordInv, Records, RecordsBacked, CallersBacked
      <3>4. CASE ReconcileNotVerified(c) /\ record' # record
        BY <1>1, <2>2, <3>4
           DEF ReconcileNotVerified, Commit, TypeInv, RecordInv, Records, RecordsBacked
      <3>. QED BY <1>4, <3>1, <3>2, <3>3, <3>4 DEF FinalityNotVerified
    <2>. QED BY <1>1, <2>1, <2>3, BackedKept
  <1>. QED BY <1>2, <1>3, <1>4 DEF FinalizeRefund, ReconcileAmbiguousSubmission

LEMMA EvidencePass ==
    ASSUME DistinctShapes, TypeInv, EvidenceInv, RunPass
    PROVE  EvidenceInv'
  <1>. USE DEF EvidenceInv
  <1>1. UNCHANGED <<caller, landed>>
    BY DEF RunPass, StartPass, PassFinds, PassSkips, CompleteFromVerifiedHistory
  <1>2. CASE \E batch \in SUBSET {o \in Obligations : Eligible(o)} : StartPass(batch)
    <2>1. worker'.at = "pass"
      BY <1>2 DEF StartPass, Resting
    <2>. QED BY <1>1, <1>2, <2>1, BackedKept DEF StartPass, WorkerBacked
  <1>3. CASE \E o \in Obligations : PassFinds(o)
    <2>1. PICK o \in Obligations, t \in landed :
              /\ UniqueMatch(o, t) /\ UNCHANGED record
              /\ worker' = [worker EXCEPT !.at = "verify", !.job = o, !.tx = t]
      BY <1>3 DEF PassFinds
    <2>2. t[1] = o
      BY <2>1, MatchIsOwn
    <2>3. WorkerBacked'
      BY <1>1, <2>1, <2>2 DEF TypeInv, WorkerInv, Passes, WorkerBacked
    <2>. QED BY <1>1, <2>1, <2>3, BackedKept
  <1>4. ASSUME NEW o \in Obligations, NextInPass(o) PROVE WorkerBacked'
    BY <1>4 DEF TypeInv, WorkerInv, NextInPass, Passes, Resting, WorkerBacked
  <1>5. CASE \E o \in Obligations : PassSkips(o)
    BY <1>1, <1>4, <1>5, BackedKept DEF PassSkips
  <1>6. CASE CompleteFromVerifiedHistory
    <2>1. worker.job \in Obligations /\ worker.tx \in landed /\ worker.tx[1] = worker.job
      BY <1>6 DEF CompleteFromVerifiedHistory, TypeInv, WorkerInv, WorkerBacked
    <2>2. RecordsBacked'
      BY <1>1, <1>6, <2>1
         DEF CompleteFromVerifiedHistory, TypeInv, RecordInv, Records, RecordsBacked
    <2>. QED BY <1>1, <1>4, <1>6, <2>1, <2>2, BackedKept DEF CompleteFromVerifiedHistory
  <1>. QED BY <1>2, <1>3, <1>5, <1>6 DEF RunPass

LEMMA EvidenceOther ==
    ASSUME TypeInv, EvidenceInv,
           \/ \E o \in Obligations : Create(o) \/ MarkBlocked(o)
           \/ \E o \in Obligations : \E k \in 1 .. sends[o] : Land(<<o, k>>)
           \/ Crash
           \/ \E o \in Obligations : \E t \in landed : CrashHalfComplete(o, t)
    PROVE  EvidenceInv'
  <1>. USE DEF EvidenceInv
  <1>1. CASE \E o \in Obligations : Create(o) \/ MarkBlocked(o)
    <2>1. UNCHANGED <<caller, worker, landed>>
      BY <1>1 DEF Create, MarkBlocked
    <2>2. RecordsBacked'
      BY <1>1, <2>1
         DEF Create, MarkBlocked, Commit, TypeInv, RecordInv, Records, RecordsBacked
    <2>. QED BY <2>1, <2>2, BackedKept
  <1>2. CASE \E o \in Obligations : \E k \in 1 .. sends[o] : Land(<<o, k>>)
    BY <1>2, BackedKept DEF Land
  <1>3. Restart => CallersBacked' /\ WorkerBacked'
    BY DEF Restart, CallersBacked, WorkerBacked, Idle, Resting
  <1>4. CASE Crash
    BY <1>3, <1>4, BackedKept DEF Crash
  <1>5. CASE \E o \in Obligations : \E t \in landed : CrashHalfComplete(o, t)
    <2>1. PICK o \in Obligations, t \in landed : CrashHalfComplete(o, t)
      BY <1>5
    <2>2. t[1] = o
      BY <2>1 DEF CrashHalfComplete, WorkerBacked, CallersBacked
    <2>3. RecordsBacked'
      BY <2>1, <2>2 DEF CrashHalfComplete, Commit, TypeInv, RecordInv, Records, RecordsBacked
    <2>. QED BY <1>3, <2>1, <2>3 DEF CrashHalfComplete
  <1>. QED BY <1>1, <1>2, <1>4, <1>5

LEMMA EvidenceStep ==
    ASSUME DistinctShapes
    PROVE  TypeInv /\ EvidenceInv /\ [Next]_vars => EvidenceInv'
  <1>. SUFFICES ASSUME TypeInv, EvidenceInv, [Next]_vars PROVE EvidenceInv'
    OBVIOUS
  <1>1. CASE UNCHANGED vars
    BY <1>1, BackedKept DEF vars, EvidenceInv
  <1>2. CASE Next
    BY <1>2, EvidenceSubmit, EvidenceResolve, EvidencePass, EvidenceOther DEF Next
  <1>. QED BY <1>1, <1>2

\* If no two debts expect the same transfer, a debt is COMPLETE only by a
\* transfer that was sent for it and executed.
THEOREM CompleteIsPaid == ASSUME DistinctShapes PROVE Spec => []CompleteMeansPaid
  <1>1. TypeInv /\ EvidenceInv => CompleteMeansPaid
    BY DEF TypeInv, ChainInv, Transfers, EvidenceInv, RecordsBacked, CompleteMeansPaid
  <1>. QED BY <1>1, Invariant, EvidenceInit, EvidenceStep, PTL DEF Spec

-----------------------------------------------------------------------------
(* The promise *)

\* A step writes at most one record, forwards, and never a finished one.
Forward(from, to) ==
    \/ from = to
    \/ from = "ABSENT" /\ to = "PENDING"
    \/ from \notin {"ABSENT", "COMPLETE", "BLOCKED"} /\ to \in States \ {"ABSENT"}

WritesOnly(o) ==
    /\ \A p \in Obligations \ {o} : record'[p] = record[p]
    /\ Forward(record[o].state, record'[o].state)
    /\ record[o].state \in {"COMPLETE", "BLOCKED"} => record'[o] = record[o]

LEMMA OneWrite ==
    ASSUME TypeInv, Next
    PROVE  UNCHANGED record \/ \E o \in Obligations : WritesOnly(o)
  <1>1. CASE \E o \in Obligations : Create(o) \/ MarkBlocked(o)
    <2>1. PICK o \in Obligations : Create(o) \/ MarkBlocked(o)
      BY <1>1
    <2>2. WritesOnly(o)
      BY <2>1 DEF Create, MarkBlocked, Commit, Allowed, TypeInv, RecordInv, Records,
                  States, WritesOnly, Forward
    <2>. QED BY <2>2
  <1>2. ASSUME NEW c \in Callers, SubmitRefund(c)
        PROVE  UNCHANGED record \/ \E o \in Obligations : WritesOnly(o)
    <2>1. CASE MarkSubmissionUnknown(c) /\ record' # record
      <3>1. caller[c].job \in Obligations
        BY <2>1, CallerFields DEF MarkSubmissionUnknown, TypeInv
      <3>2. WritesOnly(caller[c].job)
        BY <2>1, <3>1 DEF MarkSubmissionUnknown, Commit, TypeInv, RecordInv, Records,
                          States, WritesOnly, Forward
      <3>. QED BY <3>1, <3>2
    <2>2. CASE ReplyHash(c) /\ record' # record
      <3>1. caller[c].job \in Obligations
        BY <2>2, CallerFields DEF ReplyHash, TypeInv
      <3>2. WritesOnly(caller[c].job)
        BY <2>2, <3>1 DEF ReplyHash, Commit, TypeInv, RecordInv, Records,
                          States, WritesOnly, Forward
      <3>. QED BY <3>1, <3>2
    <2>. QED BY <1>2, <2>1, <2>2
             DEF SubmitRefund, StartSubmit, QuoteFails, SignFails, ClaimBroadcast,
                 AdapterRefuses, Broadcast, ReplyUnknown
  <1>3. ASSUME NEW c \in Callers, FinalizeRefund(c) \/ ReconcileAmbiguousSubmission(c)
        PROVE  UNCHANGED record \/ \E o \in Obligations : WritesOnly(o)
    <2>. DEFINE o == caller[c].job
    <2>1. CASE FinalityVerified(c) /\ record' # record
      <3>1. o \in Obligations
        BY <2>1, CallerFields DEF FinalityVerified, TypeInv
      <3>2. WritesOnly(o)
        BY <2>1, <3>1 DEF FinalityVerified, Commit, Allowed, TypeInv, RecordInv, Records,
                          States, WritesOnly, Forward
      <3>. QED BY <3>1, <3>2
    <2>2. CASE ReconcileVerified(c) /\ record' # record
      <3>1. o \in Obligations
        BY <2>2, CallerFields DEF ReconcileVerified, TypeInv
      <3>2. WritesOnly(o)
        BY <2>2, <3>1 DEF ReconcileVerified, TypeInv, RecordInv, Records,
                          States, WritesOnly, Forward
      <3>. QED BY <3>1, <3>2
    <2>3. CASE ReconcileNotVerified(c) /\ record' # record
      <3>1. o \in Obligations
        BY <2>3, CallerFields DEF ReconcileNotVerified, TypeInv
      <3>2. WritesOnly(o)
        BY <2>3, <3>1 DEF ReconcileNotVerified, Commit, Allowed, TypeInv, RecordInv,
                          Records, States, WritesOnly, Forward
      <3>. QED BY <3>1, <3>2
    <2>. QED BY <1>3, <2>1, <2>2, <2>3
             DEF FinalizeRefund, ReconcileAmbiguousSubmission, StartFinalize,
                 FinalityNotVerified, StartReconcile, SearchFinds
  <1>4. CASE RunPass
    <2>1. CASE CompleteFromVerifiedHistory /\ record' # record
      <3>1. worker.job \in Obligations
        BY <2>1 DEF CompleteFromVerifiedHistory, TypeInv, WorkerInv
      <3>2. WritesOnly(worker.job)
        BY <2>1, <3>1 DEF CompleteFromVerifiedHistory, Eligible, TypeInv, RecordInv,
                          Records, States, WritesOnly, Forward
      <3>. QED BY <3>1, <3>2
    <2>. QED BY <1>4, <2>1 DEF RunPass, StartPass, PassFinds, PassSkips
  <1>5. CASE \E o \in Obligations : \E t \in landed : CrashHalfComplete(o, t)
    <2>1. PICK o \in Obligations, t \in landed : CrashHalfComplete(o, t)
      BY <1>5
    <2>2. WritesOnly(o)
      BY <2>1 DEF CrashHalfComplete, Commit, TypeInv, RecordInv, Records, States,
                  WritesOnly, Forward
    <2>. QED BY <2>2
  <1>. QED BY <1>1, <1>2, <1>3, <1>4, <1>5 DEF Next, Land, Crash

\* No late answer, to an activation or to a pass, rewrites a finished debt.
THEOREM FinishedIsFinal == Spec => FinishedStaysFinished
  <1>1. TypeInv /\ [Next]_vars =>
            [\A o \in Obligations :
                record[o].state \in {"COMPLETE", "BLOCKED"} => record'[o] = record[o]]_vars
    BY OneWrite DEF WritesOnly
  <1>. QED BY <1>1, TypeInit, TypeStep, PTL DEF Spec, FinishedStaysFinished

LEMMA PaymentsCount ==
    ASSUME TypeInv, SendInv, NEW o \in Obligations
    PROVE  Payments(o) = IF <<o, 1>> \in landed THEN 1 ELSE 0
  <1>1. \A t \in landed : t[1] = o => t = <<o, 1>>
    BY DEF TypeInv, ChainInv, SendInv, SentInv, ClaimInv, AtMostOneBroadcast, Transfers
  <1>2. CASE <<o, 1>> \in landed
    <2>1. ~ \A t \in landed : t[1] # o
      BY <1>2
    <2>2. ~ \E t, u \in landed : t # u /\ t[1] = o /\ u[1] = o
      BY <1>1
    <2>. QED BY <1>2, <2>1, <2>2 DEF Payments
  <1>3. CASE <<o, 1>> \notin landed
    <2>1. \A t \in landed : t[1] # o
      BY <1>1, <1>3
    <2>. QED BY <1>3, <2>1 DEF Payments
  <1>. QED BY <1>2, <1>3

PaymentsRight == TypeInv /\ SendInv =>
    \A o \in Obligations : Payments(o) = IF <<o, 1>> \in landed THEN 1 ELSE 0

LEMMA PaymentsAlwaysRight == PaymentsRight /\ PaymentsRight'
  <1>1. PaymentsRight
    BY PaymentsCount DEF PaymentsRight
  <1>. QED BY <1>1, PTL

\* A write moves its debt along the promise; a debt closes when it is paid.
LEMMA WriteKeepsPromise ==
    ASSUME TypeInv, SendInv, TypeInv', SendInv', EvidenceInv', UNCHANGED landed,
           NEW o \in Obligations, WritesOnly(o)
    PROVE  [Promise!Next]_(Promise!vars)
  <1>. DEFINE status == [p \in Obligations |-> Debt(p)]
              paid == [p \in Obligations |-> Payments(p)]
  <1>1. paid' = paid
    BY PaymentsCount DEF Payments
  <1>2. \A p \in Obligations \ {o} : Debt(p)' = Debt(p)
    BY DEF WritesOnly, Debt
  <1>3. status' = [status EXCEPT ![o] = Debt(o)']
    BY <1>2
  <1>4. \/ Debt(o)' = Debt(o)
        \/ Debt(o) = "none" /\ Debt(o)' = "open"
        \/ Debt(o) = "open" /\ Debt(o)' = "held"
        \/ Debt(o) = "open" /\ Debt(o)' = "closed"
    BY DEF WritesOnly, Forward, Debt, TypeInv, RecordInv, Records, States
  <1>5. Debt(o)' = "closed" => paid[o] = 1
    <2>1. SUFFICES ASSUME Debt(o)' = "closed" PROVE <<o, 1>> \in landed
      BY PaymentsCount
    <2>2. record'[o].state = "COMPLETE"
      BY <2>1 DEF Debt
    <2>3. record'[o].outgoingTx \in landed' /\ record'[o].outgoingTx[1] = o
      BY <2>2 DEF EvidenceInv, RecordsBacked, TypeInv, ChainInv, Transfers
    <2>. QED BY <2>3 DEF TypeInv, ChainInv, SendInv, SentInv, ClaimInv,
                         AtMostOneBroadcast, Transfers
  <1>6. CASE Debt(o)' = Debt(o)
    BY <1>1, <1>3, <1>6 DEF Promise!vars
  <1>7. CASE Debt(o) = "none" /\ Debt(o)' = "open"
    BY <1>1, <1>3, <1>7 DEF Promise!Next, Promise!Owe
  <1>8. CASE Debt(o) = "open" /\ Debt(o)' = "held"
    BY <1>1, <1>3, <1>8 DEF Promise!Next, Promise!Hold
  <1>9. CASE Debt(o) = "open" /\ Debt(o)' = "closed"
    BY <1>1, <1>3, <1>5, <1>9 DEF Promise!Next, Promise!Close
  <1>. QED BY <1>4, <1>6, <1>7, <1>8, <1>9

\* A transfer is executed at most once, for a debt that is open or held.
LEMMA LandKeepsPromise ==
    ASSUME TypeInv, SendInv, EvidenceInv, TypeInv', SendInv',
           NEW o \in Obligations, NEW k \in 1 .. sends[o], Land(<<o, k>>)
    PROVE  [Promise!Next]_(Promise!vars)
  <1>. DEFINE status == [p \in Obligations |-> Debt(p)]
              paid == [p \in Obligations |-> Payments(p)]
  <1>1. k = 1 /\ sends[o] = 1
    BY DEF TypeInv, ChainInv, SendInv, ClaimInv, AtMostOneBroadcast
  <1>2. <<o, 1>> \notin landed /\ landed' = landed \cup {<<o, 1>>} /\ UNCHANGED record
    BY <1>1 DEF Land
  <1>3. status' = status
    BY <1>2 DEF Debt
  <1>4. paid[o] = 0 /\ paid' = [paid EXCEPT ![o] = 1]
    <2>1. \A p \in Obligations : Payments(p) = IF <<p, 1>> \in landed THEN 1 ELSE 0
      BY PaymentsAlwaysRight DEF PaymentsRight
    <2>2. \A p \in Obligations : Payments(p)' = IF <<p, 1>> \in landed' THEN 1 ELSE 0
      BY PaymentsAlwaysRight DEF PaymentsRight
    <2>. QED BY <1>2, <2>1, <2>2
  <1>5. Debt(o) \in {"open", "held"}
    <2>1. record[o].state \notin {"ABSENT", "PENDING"}
      BY <1>1 DEF SendInv, MarkFirst, ClaimInv
    <2>2. record[o].state # "COMPLETE"
      BY <1>2 DEF EvidenceInv, RecordsBacked, TypeInv, ChainInv, SendInv, SentInv,
                  ClaimInv, AtMostOneBroadcast, Transfers
    <2>. QED BY <2>1, <2>2 DEF Debt
  <1>. QED BY <1>3, <1>4, <1>5 DEF Promise!Next, Promise!Pay

LEMMA PromiseInit == Init => Promise!Init
  BY DEF Init, Promise!Init, Debt, Payments

LEMMA PromiseStep ==
    ASSUME TypeInv, SendInv, EvidenceInv, TypeInv', SendInv', EvidenceInv', [Next]_vars
    PROVE  [Promise!Next]_(Promise!vars)
  <1>1. CASE UNCHANGED <<record, landed>>
    BY <1>1 DEF Promise!vars, Debt, Payments
  <1>2. CASE Next
    <2>1. CASE \E o \in Obligations : \E k \in 1 .. sends[o] : Land(<<o, k>>)
      BY <2>1, LandKeepsPromise
    <2>2. CASE UNCHANGED landed
      BY <1>1, <1>2, <2>2, OneWrite, WriteKeepsPromise
    <2>3. Next => \/ UNCHANGED landed
                  \/ \E o \in Obligations : \E k \in 1 .. sends[o] : Land(<<o, k>>)
      BY DEF Next, Create, MarkBlocked, SubmitRefund, StartSubmit, QuoteFails,
        MarkSubmissionUnknown, SignFails, ClaimBroadcast, AdapterRefuses, Broadcast,
        ReplyHash, ReplyUnknown, FinalizeRefund, StartFinalize, FinalityVerified,
        FinalityNotVerified, ReconcileAmbiguousSubmission, StartReconcile, SearchFinds,
        ReconcileVerified, ReconcileNotVerified, RunPass, StartPass, PassFinds,
        PassSkips, CompleteFromVerifiedHistory, Crash, CrashHalfComplete
    <2>. QED BY <1>2, <2>1, <2>2, <2>3
  <1>. QED BY <1>1, <1>2 DEF vars

\* The lifecycle implements the promise whenever no two debts expect the same
\* transfer: one payment per debt, and only a paid debt is closed.
THEOREM ImplementsPromise == ASSUME DistinctShapes PROVE Spec => KeepsPromise
  <1>1. Spec => [](TypeInv /\ SendInv /\ EvidenceInv)
    BY Invariant, EvidenceInit, EvidenceStep, PTL DEF Spec
  <1>2. TypeInv /\ SendInv /\ EvidenceInv /\ (TypeInv /\ SendInv /\ EvidenceInv)'
            /\ [Next]_vars => [Promise!Next]_(Promise!vars)
    BY PromiseStep
  <1>. QED BY <1>1, <1>2, PromiseInit, PTL DEF Spec, KeepsPromise, Promise!Spec
====
