--------------------------- MODULE WalletOutbound ---------------------------
(***************************************************************************)
(* Outgoing transfers of one room wallet: RoomWalletAdapter with its       *)
(* durable sequence hold and outbox, and the wallet contract on the chain, *)
(* which executes one message per sequence number.                         *)
(*                                                                         *)
(* _enqueueOutbound runs one transfer of a wallet at a time.  A step runs  *)
(* from one await to the next; consecutive durable writes are steps of     *)
(* their own because the process can die between them.                     *)
(***************************************************************************)
EXTENDS Naturals

CONSTANTS
    Keys,         \* durable transfers by idempotency key: the payout legs
    Earlier,      \* Earlier[k]: the legs whose credit k's caller waits for
    Refunds,      \* transfers without a key, each attempted once by its caller
    Sweeps,       \* the administrator's transfer of the whole balance
    NoJob, NoSeqno, NoMessage,
    MaxLag,       \* how many sequence numbers a node's answer may be behind
    MaxRenewals,  \* bound of the model on renewed messages of a key
    MaxCrashes    \* bound of the model on process crashes

Jobs == Keys \cup Refunds \cup Sweeps

\* issue tells a key's renewed message from the one it replaces
Messages == [job : Jobs, seqno : Nat, issue : Nat]

ASSUME JobsAssumption ==
    Keys \cap Refunds = {} /\ Keys \cap Sweeps = {} /\ Refunds \cap Sweeps = {}
ASSUME EarlierAssumption == Earlier \in [Keys -> SUBSET Keys]
ASSUME NothingAssumption == NoJob \notin Jobs /\ NoSeqno \notin Nat /\ NoMessage \notin Messages
ASSUME BoundsAssumption == MaxLag \in Nat /\ MaxRenewals \in Nat /\ MaxCrashes \in Nat

VARIABLES
    outbox,    \* transfers/<key>.json: the exact signed message of a key
    hold,      \* <wallet>.json: the last message the wallet was to send
    claims,    \* one-shot claims: the refunds' and admin-sweeps/<room>.json
    pending,   \* _pendingOutboundSeqno, in memory
    task,      \* the transfer at work: where it is, and its message
    accepted,  \* keys reported ACCEPTED_AWAITING_CREDIT
    wire,      \* messages that reached the network
    expired,   \* messages whose validUntil passed
    seqno,     \* the wallet contract's sequence number
    landed,    \* messages the contract executed
    crashes

durable == <<outbox, hold, claims>>
chain == <<wire, expired, seqno, landed>>
vars == <<outbox, hold, claims, pending, task, accepted, wire, expired, seqno, landed, crashes>>

Steps == {"idle", "observe", "safety", "sign", "hold", "send"}

TypeOK ==
    /\ outbox \in [Keys -> Messages \cup {NoMessage}]
    /\ hold \in Messages \cup {NoMessage}
    /\ claims \in SUBSET (Refunds \cup Sweeps)
    /\ pending \in Nat \cup {NoSeqno}
    /\ task \in [at : Steps, job : Jobs \cup {NoJob}, message : Messages \cup {NoMessage}]
    /\ accepted \in SUBSET Keys
    /\ wire \in SUBSET Messages
    /\ expired \in SUBSET Messages
    /\ seqno \in Nat
    /\ landed \in SUBSET Messages
    /\ crashes \in 0 .. MaxCrashes

Resting == [at |-> "idle", job |-> NoJob, message |-> NoMessage]

Init ==
    /\ outbox = [k \in Keys |-> NoMessage]
    /\ hold = NoMessage
    /\ claims = {}
    /\ pending = NoSeqno
    /\ task = Resting
    /\ accepted = {}
    /\ wire = {} /\ expired = {} /\ seqno = 0 /\ landed = {}
    /\ crashes = 0

Go(at) == task' = [task EXCEPT !.at = at]
Return == task' = Resting

\* What getSeqno may answer: some node's view of the contract.
Reads == {s \in 0 .. seqno : seqno <= s + MaxLag}

-----------------------------------------------------------------------------
(* Entry points *)

Executed(k) == \E m \in landed : m.job = k

\* sendTransfer with an idempotency key: a stored message is looked at first.
StartKey(k) ==
    /\ task = Resting
    /\ \A j \in Earlier[k] : Executed(j)
    /\ task' = [at |-> IF outbox[k] = NoMessage THEN "safety" ELSE "observe",
                job |-> k, message |-> NoMessage]
    /\ UNCHANGED <<durable, pending, accepted, chain, crashes>>

\* sendTransfer without a key; the refund broadcaster's claim makes it the only one.
StartRefund(r) ==
    /\ task = Resting
    /\ r \notin claims
    /\ claims' = claims \cup {r}
    /\ task' = [at |-> "safety", job |-> r, message |-> NoMessage]
    /\ UNCHANGED <<outbox, hold, pending, accepted, chain, crashes>>

\* sendAllBalance, unless an earlier attempt left its claim.
StartSweep(w) ==
    /\ task = Resting
    /\ w \notin claims
    /\ task' = [at |-> "safety", job |-> w, message |-> NoMessage]
    /\ UNCHANGED <<durable, pending, accepted, chain, crashes>>

-----------------------------------------------------------------------------
(* A stored message: replay it, renew it, or learn that its number is used *)

Accept ==
    /\ accepted' = accepted \cup {task.job}
    /\ Return

\* Fault: off by one, the stored message's own number counts as used.
ObserveUsed ==
    /\ task.at = "observe" /\ \E s \in Reads : s >= outbox[task.job].seqno /\ Accept
    /\ UNCHANGED <<durable, pending, chain, crashes>>

ObserveOutbox ==
    LET m == outbox[task.job] IN
    /\ task.at = "observe"
    /\ \E s \in Reads :
        \/ s > m.seqno /\ Accept
        \/ s < m.seqno /\ Return /\ UNCHANGED accepted
        \/ s = m.seqno /\ m \in expired /\ Go("sign") /\ UNCHANGED accepted
        \/ /\ s = m.seqno /\ m \notin expired
           /\ task' = [task EXCEPT !.at = "hold", !.message = m]
           /\ UNCHANGED accepted
    /\ UNCHANGED <<durable, pending, chain, crashes>>

-----------------------------------------------------------------------------
(* _awaitOutboundSequenceSafety *)

\* The number to be passed: from memory, or after a restart from the hold.
Awaited == IF pending # NoSeqno THEN pending
           ELSE IF hold # NoMessage THEN hold.seqno ELSE NoSeqno

SequenceSafe ==
    /\ task.at = "safety"
    /\ Awaited # NoSeqno => \E s \in Reads : s > Awaited
    /\ pending' = NoSeqno
    /\ Go("sign")
    /\ UNCHANGED <<durable, accepted, chain, crashes>>

\* Not passed within the window, or no answer: the transfer is refused.
SequenceTimeout ==
    /\ task.at = "safety"
    /\ Awaited # NoSeqno
    /\ pending' = Awaited
    /\ Return
    /\ UNCHANGED <<durable, accepted, chain, crashes>>

-----------------------------------------------------------------------------
(* _buildSignedExternalMessage and what is stored of its result *)

\* Address drift, no balance, no fee estimate, no sequence number.
SignFails ==
    /\ task.at = "sign"
    /\ Return
    /\ UNCHANGED <<durable, pending, accepted, chain, crashes>>

SignOnce ==
    /\ task.at = "sign"
    /\ task.job \notin Keys
    /\ \E s \in Reads :
        task' = [task EXCEPT !.at = "hold",
                    !.message = [job |-> task.job, seqno |-> s, issue |-> 0]]
    \* the sweep's exclusive claim file, written before its hold
    /\ claims' = claims \cup {task.job}
    /\ UNCHANGED <<outbox, hold, pending, accepted, chain, crashes>>

Issue(k) == IF outbox[k] = NoMessage THEN 0 ELSE outbox[k].issue + 1

\* Fault: a renewal takes whatever number the wallet is at.
SignKeyAnywhere ==
    LET k == task.job IN
    /\ task.at = "sign" /\ k \in Keys
    /\ \E s \in Reads : LET m == [job |-> k, seqno |-> s, issue |-> Issue(k)] IN
        outbox' = [outbox EXCEPT ![k] = m] /\ task' = [task EXCEPT !.at = "hold", !.message = m]
    /\ UNCHANGED <<hold, claims, pending, accepted, chain, crashes>>

\* A first message, or the renewal of an expired one under the same number. The
\* outbox file is written before the hold.
SignKey ==
    LET k == task.job IN
    /\ task.at = "sign"
    /\ k \in Keys
    /\ \E s \in Reads :
        IF outbox[k] # NoMessage /\ s # outbox[k].seqno
        THEN Accept /\ UNCHANGED outbox
        ELSE LET m == [job |-> k, seqno |-> s, issue |-> Issue(k)] IN
             /\ outbox' = [outbox EXCEPT ![k] = m]
             /\ task' = [task EXCEPT !.at = "hold", !.message = m]
             /\ UNCHANGED accepted
    /\ UNCHANGED <<hold, claims, pending, chain, crashes>>

-----------------------------------------------------------------------------
(* _holdSequence and the broadcast *)

\* Only a key's own number may be held again: the same message, or the renewal
\* of an expired one.
SameTransfer(m) ==
    /\ m.job \in Keys
    /\ hold.job = m.job
    /\ hold.seqno = m.seqno
    /\ hold = m \/ hold \in expired

\* Fault: the hold file is overwritten without looking at it.
Overwrites(m) == TRUE

\* Fault: a hold is never taken again, not even for the message it holds.
OnlyForward(m) == hold = NoMessage \/ m.seqno > hold.seqno

HoldAdvances(m) == hold = NoMessage \/ m.seqno > hold.seqno \/ SameTransfer(m)

\* Fault: the hold does not say whose message it is.
HoldNameless ==
    /\ task.at = "hold" /\ HoldAdvances(task.message)
    /\ hold' = [task.message EXCEPT !.job = NoJob] /\ pending' = task.message.seqno /\ Go("send")
    /\ UNCHANGED <<outbox, claims, accepted, chain, crashes>>

HoldSequence ==
    /\ task.at = "hold"
    /\ IF HoldAdvances(task.message)
       THEN /\ hold' = task.message
            /\ pending' = task.message.seqno
            /\ Go("send")
       ELSE Return /\ UNCHANGED <<hold, pending>>
    /\ UNCHANGED <<outbox, claims, accepted, chain, crashes>>

\* The caller learns nothing certain from the RPC: the message may have reached
\* the network although the call failed, or not.
Broadcast ==
    /\ task.at = "send"
    /\ wire' \in {wire, wire \cup {task.message}}
    /\ Return
    /\ UNCHANGED <<durable, pending, accepted, expired, seqno, landed, crashes>>

-----------------------------------------------------------------------------
(* Environment: the wallet contract, time, and the process *)

Land(m) ==
    /\ m.seqno = seqno
    /\ m \notin expired
    /\ landed' = landed \cup {m}
    /\ seqno' = seqno + 1
    /\ UNCHANGED <<durable, pending, task, accepted, wire, expired, crashes>>

\* 120 s after signing; the message that deploys the wallet does not expire.
\* MaxRenewals bounds how often a leg's message does.
Expire(m) ==
    /\ m.seqno > 0
    /\ m.issue < MaxRenewals
    /\ expired' = expired \cup {m}
    /\ UNCHANGED <<durable, pending, task, accepted, wire, seqno, landed, crashes>>

Signed == (wire \cup {outbox[k] : k \in Keys} \cup {task.message, hold}) \ {NoMessage}

Crash ==
    /\ crashes < MaxCrashes
    /\ crashes' = crashes + 1
    /\ pending' = NoSeqno
    /\ Return
    /\ UNCHANGED <<durable, accepted, chain>>

Adapter ==
    \/ \E k \in Keys : StartKey(k)
    \/ \E r \in Refunds : StartRefund(r)
    \/ \E w \in Sweeps : StartSweep(w)
    \/ ObserveOutbox
    \/ SequenceSafe \/ SequenceTimeout
    \/ SignFails \/ SignOnce \/ SignKey
    \/ HoldSequence \/ Broadcast

Next ==
    \/ Adapter
    \/ \E m \in wire : Land(m)
    \/ \E m \in Signed \ expired : Expire(m)
    \/ Crash

Spec == Init /\ [][Next]_vars

\* The recovery pass retries an open payout leg every 60 s; requests to the
\* nodes succeed now and then, and so does the network.
Fairness ==
    /\ \A k \in Keys : SF_vars(StartKey(k))
    /\ WF_vars(ObserveOutbox) /\ SF_vars(SequenceSafe) /\ SF_vars(SignKey)
    /\ WF_vars(HoldSequence) /\ WF_vars(Broadcast)
    /\ SF_vars(Broadcast /\ wire' # wire)
    /\ \A k \in Keys : SF_vars(\E m \in wire : m.job = k /\ Land(m))

FairSpec == Spec /\ Fairness

-----------------------------------------------------------------------------
(* Properties *)

\* Lost replies, restarts, renewals of expired messages and lagging nodes never
\* make the chain execute two messages for one payout leg, refund or sweep.
DeliveredOnce == \A m, n \in landed : m.job = n.job => m = n

\* The wallet never puts two transfers on the wire under one sequence number:
\* the chain would silently drop one of them.
NoSharedSeqno == \A m, n \in wire : m.seqno = n.seqno => m.job = n.job

\* A leg reported as accepted was executed by the wallet.
AcceptedWasExecuted == \A k \in accepted : Executed(k)

\* Every leg the caller keeps retrying is executed in the end, whatever replies
\* are lost and however its messages expire.
LegsLand == \A k \in Keys : <>Executed(k)
====
