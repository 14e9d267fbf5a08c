----------------------- MODULE WalletOutboundProofs ------------------------
(***************************************************************************)
(* WalletOutbound for any legs, refunds and sweeps, any lag of the nodes   *)
(* and any number of crashes: its types, no two transfers under one number *)
(* on the wire, and one execution per transfer.                            *)
(***************************************************************************)
EXTENDS WalletOutbound, TLAPS

USE JobsAssumption, NothingAssumption, BoundsAssumption

\* A key's file holds its own message, and what the transfer at work has in
\* hand at each step.
TaskInv ==
    /\ \A k \in Keys : outbox[k] # NoMessage => outbox[k].job = k
    /\ task.at = "idle" => task = Resting
    /\ task.at # "idle" => task.job \in Jobs
    /\ task.at = "observe" => task.job \in Keys /\ outbox[task.job] # NoMessage
    /\ task.at \in {"hold", "send"} => task.message \in Messages /\ task.message.job = task.job

TypeInv == TypeOK /\ TaskInv

LEMMA TypeInit == Init => TypeInv
  BY DEF Init, TypeInv, TypeOK, TaskInv, Resting, Steps

LEMMA Reading == ASSUME TypeOK, NEW s \in Reads PROVE s \in Nat
  BY DEF Reads, TypeOK

LEMMA TypeStart ==
    ASSUME TypeInv,
           \/ \E k \in Keys : StartKey(k)
           \/ \E r \in Refunds : StartRefund(r)
           \/ \E w \in Sweeps : StartSweep(w)
    PROVE  TypeInv'
  <1>1. CASE \E k \in Keys : StartKey(k)
    BY <1>1 DEF StartKey, TypeInv, TypeOK, TaskInv, Steps, Jobs, durable, chain
  <1>2. CASE \E r \in Refunds : StartRefund(r)
    BY <1>2 DEF StartRefund, TypeInv, TypeOK, TaskInv, Steps, Jobs, chain
  <1>3. CASE \E w \in Sweeps : StartSweep(w)
    BY <1>3 DEF StartSweep, TypeInv, TypeOK, TaskInv, Steps, Jobs, durable, chain
  <1>. QED BY <1>1, <1>2, <1>3

LEMMA TakeTyped ==
    ASSUME TypeInv, task.at # "idle", NEW m \in Messages, m.job = task.job,
           task' = [task EXCEPT !.at = "hold", !.message = m]
    PROVE  /\ task' \in [at : Steps, job : Jobs \cup {NoJob}, message : Messages \cup {NoMessage}]
           /\ task'.at = "hold" /\ task'.job = task.job /\ task'.message = m
  BY DEF TypeInv, TypeOK, Steps

LEMMA GoTyped ==
    ASSUME TypeInv, NEW at \in Steps, Go(at)
    PROVE  /\ task' \in [at : Steps, job : Jobs \cup {NoJob}, message : Messages \cup {NoMessage}]
           /\ task'.at = at /\ task'.job = task.job /\ task'.message = task.message
  BY DEF TypeInv, TypeOK, Go

LEMMA ReturnTyped ==
    ASSUME TypeInv, Return
    PROVE  /\ task' \in [at : Steps, job : Jobs \cup {NoJob}, message : Messages \cup {NoMessage}]
           /\ task' = Resting /\ task'.at = "idle"
  BY DEF Return, Resting, Steps

LEMMA TypeObserve == ASSUME TypeInv, ObserveOutbox PROVE TypeInv'
  <1>. DEFINE m == outbox[task.job]
  <1>1. m \in Messages /\ task.job \in Keys /\ m.job = task.job /\ task.at = "observe"
    BY DEF ObserveOutbox, TypeInv, TypeOK, TaskInv
  <1>2. UNCHANGED <<outbox, hold, claims, pending, wire, expired, seqno, landed, crashes>>
    BY DEF ObserveOutbox, durable, chain
  <1>3. CASE Accept
    BY <1>1, <1>2, <1>3, ReturnTyped DEF Accept, TypeInv, TypeOK, TaskInv, Resting
  <1>4. CASE Return /\ UNCHANGED accepted
    BY <1>2, <1>4, ReturnTyped DEF TypeInv, TypeOK, TaskInv, Resting
  <1>5. CASE Go("sign") /\ UNCHANGED accepted
    BY <1>1, <1>2, <1>5, GoTyped DEF TypeInv, TypeOK, TaskInv, Steps
  <1>6. CASE task' = [task EXCEPT !.at = "hold", !.message = m] /\ UNCHANGED accepted
    <2>1. /\ task' \in [at : Steps, job : Jobs \cup {NoJob}, message : Messages \cup {NoMessage}]
          /\ task'.at = "hold" /\ task'.job = task.job /\ task'.message = m
      BY <1>1, <1>6, TakeTyped
    <2>. HIDE DEF m
    <2>. QED BY <1>1, <1>2, <1>6, <2>1 DEF TypeInv, TypeOK, TaskInv, Jobs
  <1>. QED BY <1>3, <1>4, <1>5, <1>6 DEF ObserveOutbox

LEMMA TypeSafety == ASSUME TypeInv, SequenceSafe \/ SequenceTimeout PROVE TypeInv'
  <1>1. Awaited \in Nat \cup {NoSeqno}
    BY DEF Awaited, TypeInv, TypeOK, Messages
  <1>2. CASE SequenceSafe
    BY <1>2, GoTyped DEF SequenceSafe, TypeInv, TypeOK, TaskInv, Steps, durable, chain
  <1>3. CASE SequenceTimeout
    BY <1>1, <1>3, ReturnTyped
       DEF SequenceTimeout, TypeInv, TypeOK, TaskInv, Resting, durable, chain
  <1>. QED BY <1>2, <1>3

LEMMA TypeSign == ASSUME TypeInv, SignFails \/ SignOnce \/ SignKey PROVE TypeInv'
  <1>1. CASE SignFails
    BY <1>1 DEF SignFails, TypeInv, TypeOK, TaskInv, Return, Resting, Steps, durable, chain
  <1>2. CASE SignOnce
    <2>1. task.at = "sign" /\ task.job \in Refunds \cup Sweeps
      BY <1>2 DEF SignOnce, TypeInv, TaskInv, Jobs
    <2>2. PICK s \in Reads : task' = [task EXCEPT !.at = "hold",
                !.message = [job |-> task.job, seqno |-> s, issue |-> 0]]
      BY <1>2 DEF SignOnce
    <2>. DEFINE m == [job |-> task.job, seqno |-> s, issue |-> 0]
    <2>3. m \in Messages /\ m.job = task.job
      BY <2>1, Reading DEF TypeInv, Messages, Jobs
    <2>4. /\ task' \in [at : Steps, job : Jobs \cup {NoJob}, message : Messages \cup {NoMessage}]
          /\ task'.at = "hold" /\ task'.job = task.job /\ task'.message = m
      BY <2>1, <2>2, <2>3, TakeTyped
    <2>. HIDE DEF m
    <2>. QED BY <1>2, <2>1, <2>3, <2>4 DEF SignOnce, TypeInv, TypeOK, TaskInv, Jobs, chain
  <1>3. CASE SignKey
    <2>1. task.job \in Keys /\ Issue(task.job) \in Nat
      <3>1. task.job \in Keys /\ outbox[task.job] \in Messages \cup {NoMessage}
        BY <1>3 DEF SignKey, TypeInv, TypeOK
      <3>2. outbox[task.job] # NoMessage => outbox[task.job].issue \in Nat
        BY <3>1 DEF Messages
      <3>. QED BY <3>1, <3>2 DEF Issue
    <2>2. CASE Accept /\ UNCHANGED <<outbox, hold, claims, pending, chain, crashes>>
      BY <2>1, <2>2, ReturnTyped DEF Accept, TypeInv, TypeOK, TaskInv, Resting, chain
    <2>3. ASSUME NEW m \in Messages, m.job = task.job, task.at = "sign",
                 outbox' = [outbox EXCEPT ![task.job] = m],
                 task' = [task EXCEPT !.at = "hold", !.message = m],
                 UNCHANGED <<hold, claims, pending, accepted, chain, crashes>>
          PROVE  TypeInv'
      <3>1. /\ task' \in [at : Steps, job : Jobs \cup {NoJob}, message : Messages \cup {NoMessage}]
            /\ task'.at = "hold" /\ task'.job = task.job /\ task'.message = m
        BY <2>3, TakeTyped
      <3>. QED BY <2>1, <2>3, <3>1 DEF TypeInv, TypeOK, TaskInv, Jobs, chain
    <2>4. PICK s \in Reads :
            IF outbox[task.job] # NoMessage /\ s # outbox[task.job].seqno
            THEN Accept /\ UNCHANGED outbox
            ELSE LET m == [job |-> task.job, seqno |-> s, issue |-> Issue(task.job)] IN
                 /\ outbox' = [outbox EXCEPT ![task.job] = m]
                 /\ task' = [task EXCEPT !.at = "hold", !.message = m]
                 /\ UNCHANGED accepted
      BY <1>3 DEF SignKey
    <2>5. [job |-> task.job, seqno |-> s, issue |-> Issue(task.job)] \in Messages
      BY <2>1, Reading DEF TypeInv, Messages, Jobs
    <2>. QED BY <1>3, <2>2, <2>3, <2>4, <2>5 DEF SignKey
  <1>. QED BY <1>1, <1>2, <1>3

LEMMA TypeSend == ASSUME TypeInv, HoldSequence \/ Broadcast PROVE TypeInv'
  <1>1. CASE HoldSequence
    BY <1>1 DEF HoldSequence, TypeInv, TypeOK, TaskInv, Messages, Return, Go, Resting,
                Steps, chain
  <1>2. CASE Broadcast
    BY <1>2 DEF Broadcast, TypeInv, TypeOK, TaskInv, Return, Resting, Steps, durable
  <1>. QED BY <1>1, <1>2

LEMMA TypeEnvironment ==
    ASSUME TypeInv,
           \/ \E m \in wire : Land(m)
           \/ \E m \in Signed \ expired : Expire(m)
           \/ Crash
    PROVE  TypeInv'
  <1>1. CASE \E m \in wire : Land(m)
    BY <1>1 DEF Land, TypeInv, TypeOK, TaskInv, durable
  <1>2. CASE \E m \in Signed \ expired : Expire(m)
    <2>1. Signed \subseteq Messages
      BY DEF Signed, TypeInv, TypeOK
    <2>. QED BY <1>2, <2>1 DEF Expire, TypeInv, TypeOK, TaskInv, durable
  <1>3. CASE Crash
    BY <1>3 DEF Crash, TypeInv, TypeOK, TaskInv, Return, Resting, Steps, durable, chain
  <1>. QED BY <1>1, <1>2, <1>3

LEMMA TypeStep == TypeInv /\ [Next]_vars => TypeInv'
  <1>. SUFFICES ASSUME TypeInv, [Next]_vars PROVE TypeInv'
    OBVIOUS
  <1>1. CASE UNCHANGED vars
    BY <1>1 DEF vars, TypeInv, TypeOK, TaskInv, Resting
  <1>2. CASE Next
    BY <1>2, TypeStart, TypeObserve, TypeSafety, TypeSign, TypeSend, TypeEnvironment
       DEF Next, Adapter
  <1>. QED BY <1>1, <1>2

\* Every reachable state of the adapter, its files and the chain is well typed.
THEOREM TypeCorrect == Spec => []TypeOK
  <1>1. TypeInv => TypeOK
    BY DEF TypeInv
  <1>. QED BY <1>1, TypeInit, TypeStep, PTL DEF Spec
-----------------------------------------------------------------------------
(* One number, one transfer: the hold covers everything on the wire. *)

Covered(m) ==
    hold # NoMessage /\ m.seqno <= hold.seqno /\ (m.seqno = hold.seqno => m.job = hold.job)

WireInv ==
    /\ \A m \in wire : Covered(m)
    /\ task.at = "send" => hold = task.message
    /\ NoSharedSeqno

LEMMA WireInit == Init => WireInv
  BY DEF Init, WireInv, NoSharedSeqno, Resting

\* Only HoldSequence moves the hold, and only it leads to a broadcast.
LEMMA WireKept ==
    ASSUME TypeInv, Next, ~HoldSequence, ~Broadcast
    PROVE  UNCHANGED <<hold, wire>> /\ (task'.at = "send" => UNCHANGED task)
  <1>1. ASSUME Return PROVE task'.at # "send"
    BY <1>1 DEF Return, Resting
  <1>2. ASSUME Go("sign") PROVE task'.at # "send"
    BY <1>2, GoTyped DEF Steps
  <1>3. ASSUME NEW m, task' = [task EXCEPT !.at = "hold", !.message = m]
        PROVE  task'.at # "send"
    BY <1>3 DEF TypeInv, TypeOK
  <1>4. CASE \/ \E k \in Keys : StartKey(k)
             \/ \E r \in Refunds : StartRefund(r)
             \/ \E w \in Sweeps : StartSweep(w)
    BY <1>4 DEF StartKey, StartRefund, StartSweep, durable, chain
  <1>5. CASE ObserveOutbox
    BY <1>1, <1>2, <1>3, <1>5 DEF ObserveOutbox, Accept, durable, chain
  <1>6. CASE SequenceSafe \/ SequenceTimeout \/ SignFails
    BY <1>1, <1>2, <1>6 DEF SequenceSafe, SequenceTimeout, SignFails, durable, chain
  <1>7. CASE SignOnce
    BY <1>3, <1>7 DEF SignOnce, chain
  <1>8. CASE SignKey
    BY <1>1, <1>3, <1>8 DEF SignKey, Accept, chain
  <1>9. CASE \/ \E m \in wire : Land(m)
             \/ \E m \in Signed \ expired : Expire(m)
             \/ Crash
    BY <1>1, <1>9 DEF Land, Expire, Crash, durable, chain
  <1>. QED BY <1>4, <1>5, <1>6, <1>7, <1>8, <1>9 DEF Next, Adapter

LEMMA WireHold == ASSUME TypeInv, WireInv, HoldSequence PROVE WireInv'
  <1>1. task.message \in Messages /\ UNCHANGED wire
    BY DEF HoldSequence, TypeInv, TaskInv, chain
  <1>2. CASE HoldAdvances(task.message)
    <2>1. hold' = task.message /\ task'.message = hold'
      BY <1>2, GoTyped DEF HoldSequence, Steps
    <2>2. hold \in Messages \cup {NoMessage} /\ \A m \in wire : m.seqno \in Nat
      BY DEF TypeInv, TypeOK, Messages
    <2>3. hold # NoMessage => hold.seqno \in Nat
      BY <2>2 DEF Messages
    <2>4. \A m \in wire : Covered(m)'
      BY <1>1, <1>2, <2>1, <2>2, <2>3 DEF WireInv, Covered, HoldAdvances, SameTransfer, Messages
    <2>. QED BY <1>1, <2>1, <2>4 DEF WireInv, NoSharedSeqno
  <1>3. CASE ~HoldAdvances(task.message)
    BY <1>1, <1>3, ReturnTyped DEF HoldSequence, WireInv, Covered, NoSharedSeqno
  <1>. QED BY <1>2, <1>3

LEMMA WireBroadcast == ASSUME TypeInv, WireInv, Broadcast PROVE WireInv'
  <1>1. hold = task.message /\ hold \in Messages /\ UNCHANGED hold /\ task'.at = "idle"
    BY ReturnTyped DEF Broadcast, WireInv, TypeInv, TaskInv, durable
  <1>2. wire' \subseteq wire \cup {hold}
    BY <1>1 DEF Broadcast
  <1>3. hold.seqno \in Nat
    BY <1>1 DEF Messages
  <1>. QED BY <1>1, <1>2, <1>3 DEF WireInv, Covered, NoSharedSeqno

LEMMA WireStep == TypeInv /\ WireInv /\ [Next]_vars => WireInv'
  <1>. SUFFICES ASSUME TypeInv, WireInv, [Next]_vars PROVE WireInv'
    OBVIOUS
  <1>1. CASE UNCHANGED vars
    BY <1>1 DEF vars, WireInv, Covered, NoSharedSeqno
  <1>2. CASE Next /\ ~HoldSequence /\ ~Broadcast
    BY <1>2, WireKept DEF WireInv, Covered, NoSharedSeqno
  <1>. QED BY <1>1, <1>2, WireHold, WireBroadcast

\* _holdSequence keeps the wallet from ever putting two transfers on the wire
\* under one sequence number, whatever the nodes answer and wherever it dies.
THEOREM OneTransferPerSeqno == Spec => []NoSharedSeqno
  <1>1. WireInv => NoSharedSeqno
    BY DEF WireInv
  <1>. QED BY <1>1, TypeInit, TypeStep, WireInit, WireStep, PTL DEF Spec
-----------------------------------------------------------------------------
(* One execution per transfer: a key's messages share the number of its      *)
(* file, a refund or sweep signs one message, and the chain uses a number    *)
(* once. *)

ChainInv ==
    /\ landed \subseteq wire
    /\ \A m \in landed : m.seqno < seqno
    /\ \A m, n \in landed : m.seqno = n.seqno => m = n

Filed(m) == m.job \in Keys => outbox[m.job] # NoMessage /\ m.seqno = outbox[m.job].seqno

KeyInv ==
    /\ \A m \in wire : Filed(m)
    /\ task.at \in {"hold", "send"} => Filed(task.message)

OnceInv ==
    /\ \A m \in wire : m.job \notin Keys => m.job \in claims /\ task.job # m.job
    /\ \A m, n \in wire : m.job = n.job /\ m.job \notin Keys => m = n
    /\ task.job \in Refunds => task.job \in claims
    /\ task.at \in {"hold", "send"} => task.job \in Keys \/ task.job \in claims

DeliveryInv == ChainInv /\ KeyInv /\ OnceInv

LEMMA DeliveryInit == Init => DeliveryInv
  BY DEF Init, DeliveryInv, ChainInv, KeyInv, OnceInv, Resting, Jobs

LEMMA ChainStep == ASSUME TypeInv, ChainInv, [Next]_vars PROVE ChainInv'
  <1>1. CASE \E m \in wire : Land(m)
    BY <1>1 DEF Land, ChainInv, TypeInv, TypeOK, Messages
  <1>2. CASE UNCHANGED <<seqno, landed>> /\ wire \subseteq wire'
    BY <1>2 DEF ChainInv
  <1>3. \/ \E m \in wire : Land(m)
        \/ UNCHANGED <<seqno, landed>> /\ wire \subseteq wire'
    BY DEF vars, Next, Adapter, StartKey, StartRefund, StartSweep, ObserveOutbox,
           SequenceSafe, SequenceTimeout, SignFails, SignOnce, SignKey, HoldSequence,
           Broadcast, Expire, Crash, chain
  <1>. QED BY <1>1, <1>2, <1>3

LEMMA DeliveryStart ==
    ASSUME TypeInv, KeyInv, OnceInv,
           \/ \E k \in Keys : StartKey(k)
           \/ \E r \in Refunds : StartRefund(r)
           \/ \E w \in Sweeps : StartSweep(w)
    PROVE  KeyInv' /\ OnceInv'
  <1>1. UNCHANGED <<outbox, wire>> /\ task'.at \in {"safety", "observe"}
    BY DEF StartKey, StartRefund, StartSweep, durable, chain
  <1>2. KeyInv'
    BY <1>1 DEF KeyInv, Filed
  <1>3. /\ claims \subseteq claims'
        /\ task'.job \in Keys \/ task'.job \notin claims
        /\ task'.job \in Refunds => task'.job \in claims'
    BY DEF StartKey, StartRefund, StartSweep, durable
  <1>. QED BY <1>1, <1>2, <1>3 DEF OnceInv

\* Every other step signs, broadcasts, or leaves both as they are.
LEMMA DeliveryRest ==
    ASSUME TypeInv, KeyInv, OnceInv,
           UNCHANGED <<outbox, claims, wire>>,
           \/ task'.job = NoJob /\ task'.at = "idle"
           \/ /\ task'.job = task.job
              /\ task'.at \in {"hold", "send"} =>
                    task.at = "hold" /\ task'.message = task.message
    PROVE  KeyInv' /\ OnceInv'
  <1>1. KeyInv'
    BY DEF KeyInv, Filed
  <1>2. \A m \in wire : m.job \in Jobs
    BY DEF TypeInv, TypeOK, Messages
  <1>. QED BY <1>1, <1>2 DEF OnceInv, Jobs

LEMMA DeliveryObserve == ASSUME TypeInv, KeyInv, OnceInv, ObserveOutbox PROVE KeyInv' /\ OnceInv'
  <1>. DEFINE m == outbox[task.job]
  <1>1. m \in Messages /\ m.job = task.job /\ task.job \in Keys /\ task.at = "observe"
    BY DEF ObserveOutbox, TypeInv, TypeOK, TaskInv
  <1>2. UNCHANGED <<outbox, claims, wire>>
    BY DEF ObserveOutbox, durable, chain
  <1>3. CASE task' = [task EXCEPT !.at = "hold", !.message = m]
    <2>1. task'.at = "hold" /\ task'.job = task.job /\ task'.message = m
      BY <1>1, <1>3, TakeTyped
    <2>. QED BY <1>1, <1>2, <2>1 DEF KeyInv, OnceInv, Filed
  <1>4. CASE Return
    BY <1>2, <1>4, ReturnTyped, DeliveryRest DEF Resting
  <1>5. CASE Go("sign")
    BY <1>2, <1>5, GoTyped, DeliveryRest DEF Steps
  <1>. QED BY <1>3, <1>4, <1>5 DEF ObserveOutbox, Accept

LEMMA DeliverySign ==
    ASSUME TypeInv, KeyInv, OnceInv, SignOnce \/ SignKey
    PROVE  KeyInv' /\ OnceInv'
  <1>. DEFINE m(s, i) == [job |-> task.job, seqno |-> s, issue |-> i]
  <1>0. task.at = "sign" /\ task.job \in Jobs
    BY DEF SignOnce, SignKey, TypeInv, TaskInv
  <1>1. CASE SignOnce
    <2>1. PICK s \in Reads : task' = [task EXCEPT !.at = "hold", !.message = m(s, 0)]
      BY <1>1 DEF SignOnce
    <2>2. m(s, 0) \in Messages
      BY <1>0, Reading DEF TypeInv, Messages
    <2>3. task'.at = "hold" /\ task'.job = task.job /\ task'.message = m(s, 0)
      BY <1>0, <2>1, <2>2, TakeTyped
    <2>4. task.job \notin Keys /\ UNCHANGED <<outbox, wire>> /\ claims' = claims \cup {task.job}
      BY <1>1 DEF SignOnce, chain
    <2>5. m(s, 0).job = task.job
      OBVIOUS
    <2>. HIDE DEF m
    <2>. QED BY <2>3, <2>4, <2>5 DEF KeyInv, OnceInv, Filed
  <1>2. CASE SignKey
    <2>1. task.job \in Keys /\ UNCHANGED <<claims, wire>>
      BY <1>2 DEF SignKey, chain
    <2>2. PICK s \in Reads :
            IF outbox[task.job] # NoMessage /\ s # outbox[task.job].seqno
            THEN Accept /\ UNCHANGED outbox
            ELSE /\ outbox' = [outbox EXCEPT ![task.job] = m(s, Issue(task.job))]
                 /\ task' = [task EXCEPT !.at = "hold", !.message = m(s, Issue(task.job))]
      BY <1>2 DEF SignKey
    <2>3. CASE Accept /\ UNCHANGED outbox
      BY <2>1, <2>3, ReturnTyped, DeliveryRest DEF Accept, Resting
    <2>4. CASE /\ outbox[task.job] = NoMessage \/ s = outbox[task.job].seqno
               /\ outbox' = [outbox EXCEPT ![task.job] = m(s, Issue(task.job))]
               /\ task' = [task EXCEPT !.at = "hold", !.message = m(s, Issue(task.job))]
      <3>. DEFINE n == m(s, Issue(task.job))
      <3>1. task'.at = "hold" /\ task'.job = task.job /\ task'.message = n
        BY <2>4 DEF TypeInv, TypeOK
      <3>2. n # NoMessage /\ n.job = task.job /\ n.seqno = s
        BY <1>2, <3>1, TypeSign DEF TypeInv, TaskInv
      <3>3. outbox \in [Keys -> Messages \cup {NoMessage}] /\ outbox' = [outbox EXCEPT ![task.job] = n]
        BY <2>4 DEF TypeInv, TypeOK
      <3>. HIDE DEF n
      <3>4. outbox'[task.job] = n /\ \A k \in Keys \ {task.job} : outbox'[k] = outbox[k]
        BY <2>1, <3>3
      <3>5. KeyInv'
        BY <2>1, <2>4, <3>1, <3>2, <3>4 DEF KeyInv, Filed
      <3>. QED BY <2>1, <3>1, <3>5 DEF OnceInv
    <2>. QED BY <2>2, <2>3, <2>4
  <1>. QED BY <1>1, <1>2

LEMMA DeliverySend ==
    ASSUME TypeInv, KeyInv, OnceInv, HoldSequence \/ Broadcast
    PROVE  KeyInv' /\ OnceInv'
  <1>1. CASE HoldSequence
    <2>1. UNCHANGED <<outbox, claims, wire>> /\ task.at = "hold"
      BY <1>1 DEF HoldSequence, chain
    <2>. QED BY <1>1, <2>1, GoTyped, ReturnTyped, DeliveryRest DEF HoldSequence, Resting, Steps
  <1>2. CASE Broadcast
    <2>1. /\ UNCHANGED <<outbox, claims>> /\ task.at = "send"
          /\ wire' \subseteq wire \cup {task.message}
          /\ task'.at = "idle" /\ task'.job = NoJob
      BY <1>2, ReturnTyped DEF Broadcast, durable, Resting
    <2>2. task.message.job = task.job /\ task.job \in Jobs /\ \A m \in wire : m.job \in Jobs
      BY <2>1 DEF TypeInv, TypeOK, TaskInv, Messages
    <2>3. KeyInv'
      BY <2>1 DEF KeyInv, Filed
    <2>. QED BY <2>1, <2>2, <2>3 DEF OnceInv, Jobs
  <1>. QED BY <1>1, <1>2

LEMMA DeliveryStep == TypeInv /\ DeliveryInv /\ [Next]_vars => DeliveryInv'
  <1>. SUFFICES ASSUME TypeInv, DeliveryInv, [Next]_vars PROVE KeyInv' /\ OnceInv'
    BY ChainStep DEF DeliveryInv
  <1>. USE DEF DeliveryInv
  <1>1. CASE UNCHANGED vars
    BY <1>1 DEF vars, KeyInv, OnceInv, Filed
  <1>2. CASE \/ \E k \in Keys : StartKey(k)
             \/ \E r \in Refunds : StartRefund(r)
             \/ \E w \in Sweeps : StartSweep(w)
    BY <1>2, DeliveryStart
  <1>3. CASE SequenceSafe \/ SequenceTimeout \/ SignFails \/ Crash
    <2>1. UNCHANGED <<outbox, claims, wire>> /\ (Return \/ Go("sign"))
      BY <1>3 DEF SequenceSafe, SequenceTimeout, SignFails, Crash, durable, chain
    <2>. QED BY <2>1, GoTyped, ReturnTyped, DeliveryRest DEF Resting, Steps
  <1>4. CASE (\E m \in wire : Land(m)) \/ (\E m \in Signed \ expired : Expire(m))
    BY <1>4 DEF Land, Expire, durable, KeyInv, OnceInv, Filed
  <1>. QED BY <1>1, <1>2, <1>3, <1>4, DeliveryObserve, DeliverySign, DeliverySend DEF Next, Adapter

\* Whatever replies are lost, messages renewed and crashes survived, the chain
\* executes at most one message of each payout leg, refund and sweep.
THEOREM OneExecution == Spec => []DeliveredOnce
  <1>1. DeliveryInv => DeliveredOnce
    BY DEF DeliveryInv, ChainInv, KeyInv, OnceInv, Filed, DeliveredOnce
  <1>. QED BY <1>1, TypeInit, TypeStep, DeliveryInit, DeliveryStep, PTL DEF Spec

-----------------------------------------------------------------------------
(* A passed number is taken for an executed leg.  That is right as long as no *)
(* two transfers sign one number: when nodes do not lag, and either the       *)
(* process never dies between the outbox file and the hold, or the wallet     *)
(* sends nothing but legs that wait for each other. *)

LegsAlone ==
    /\ Refunds = {} /\ Sweeps = {}
    /\ \A j, k \in Keys : j = k \/ j \in Earlier[k] \/ k \in Earlier[j]

Undisturbed == MaxLag = 0 /\ (MaxCrashes = 0 \/ LegsAlone)

MemoryInv ==
    /\ task.at \notin {"hold", "send"} => task.message = NoMessage
    /\ hold # NoMessage => Filed(hold)
    /\ pending # NoSeqno => hold # NoMessage /\ pending = hold.seqno

\* A leg is begun after the credit of those it waits for.
WaitInv ==
    \A k \in Keys : task.job = k \/ outbox[k] # NoMessage =>
        \A j \in Earlier[k] : Executed(j)

\* Fresh: the message to be signed is the first one of its transfer.
Fresh == task.job \in Keys => outbox[task.job] = NoMessage

PassedInv == task.at = "sign" /\ Fresh => hold = NoMessage \/ hold.seqno < seqno

HoldCovers(m) == hold # NoMessage /\ m.seqno <= hold.seqno

\* Without a crash the hold keeps up with the outbox.
HeldInv ==
    MaxCrashes = 0 => \A k \in Keys : outbox[k] # NoMessage =>
        \/ HoldCovers(outbox[k])
        \/ /\ task.at = "hold" /\ outbox[k] = task.message
           /\ hold = NoMessage \/ task.message.seqno > hold.seqno

\* A signed number belongs to one transfer, and once it is passed the leg it
\* belongs to is executed.
NumberInv ==
    /\ \A m, n \in Signed : m.seqno = n.seqno => m.job = n.job
    /\ \A m \in Signed : m.seqno <= seqno
    /\ \A m \in Signed : m.job \in Keys /\ m.seqno < seqno => Executed(m.job)

AcceptInv ==
    MemoryInv /\ WaitInv /\ PassedInv /\ HeldInv /\ NumberInv /\ AcceptedWasExecuted

\* What the earlier sections have proved of every state.
SoundInv == TypeInv /\ WireInv /\ DeliveryInv

LEMMA AcceptInit == Init => AcceptInv
  <1>. SUFFICES ASSUME Init PROVE AcceptInv
    OBVIOUS
  <1>1. Signed = {}
    BY DEF Init, Signed, Resting
  <1>. QED BY <1>1 DEF Init, AcceptInv, MemoryInv, WaitInv, PassedInv, HeldInv, NumberInv,
                       AcceptedWasExecuted, Resting, Jobs

LEMMA SignedTyped == ASSUME TypeInv PROVE Signed \subseteq Messages
  BY DEF Signed, TypeInv, TypeOK

\* Nodes that do not lag answer the contract's own number.
LEMMA ReadsNow == ASSUME TypeInv, Undisturbed, NEW s \in Reads PROVE s = seqno
  BY DEF Undisturbed, Reads, TypeInv, TypeOK

LEMMA ExecutedKept ==
    ASSUME TypeInv, [Next]_vars
    PROVE  /\ seqno <= seqno'
           /\ \A k : Executed(k) => Executed(k)'
  <1>1. CASE \E m \in wire : Land(m)
    BY <1>1 DEF Land, Executed, TypeInv, TypeOK
  <1>2. CASE UNCHANGED <<seqno, landed>>
    BY <1>2 DEF Executed, TypeInv, TypeOK
  <1>3. (\E m \in wire : Land(m)) \/ UNCHANGED <<seqno, landed>>
    BY DEF vars, Next, Adapter, StartKey, StartRefund, StartSweep, ObserveOutbox, SequenceSafe,
           SequenceTimeout, SignFails, SignOnce, SignKey, HoldSequence, Broadcast, Expire,
           Crash, durable, chain
  <1>. QED BY <1>1, <1>2, <1>3

\* Only signing adds a message.
LEMMA SignedKept ==
    ASSUME TypeInv, [Next]_vars, ~SignOnce, ~SignKey
    PROVE  Signed' \subseteq Signed /\ UNCHANGED outbox
  <1>1. CASE ObserveOutbox
    <2>1. UNCHANGED <<outbox, hold, wire>> /\ task.job \in Keys
      BY <1>1 DEF ObserveOutbox, durable, chain, TypeInv, TaskInv
    <2>2. \/ Return \/ Go("sign")
          \/ task' = [task EXCEPT !.at = "hold", !.message = outbox[task.job]]
      BY <1>1 DEF ObserveOutbox, Accept
    <2>3. task'.message \in {NoMessage, task.message, outbox[task.job]}
      <3>1. CASE Return
        BY <3>1 DEF Return, Resting
      <3>2. CASE Go("sign")
        BY <3>2, GoTyped DEF Steps
      <3>3. CASE task' = [task EXCEPT !.at = "hold", !.message = outbox[task.job]]
        BY <3>3 DEF TypeInv, TypeOK
      <3>. QED BY <2>2, <3>1, <3>2, <3>3
    <2>. QED BY <2>1, <2>3 DEF Signed
  <1>2. CASE HoldSequence
    <2>1. UNCHANGED <<outbox, wire>> /\ hold' \in {hold, task.message}
      BY <1>2 DEF HoldSequence, chain
    <2>2. task'.message \in {NoMessage, task.message}
      BY <1>2 DEF HoldSequence, Return, Go, Resting, TypeInv, TypeOK
    <2>. QED BY <2>1, <2>2 DEF Signed
  <1>3. CASE Broadcast
    BY <1>3 DEF Broadcast, Return, Resting, durable, Signed
  <1>4. CASE \/ UNCHANGED vars
             \/ \E k \in Keys : StartKey(k)
             \/ \E r \in Refunds : StartRefund(r)
             \/ \E w \in Sweeps : StartSweep(w)
             \/ SequenceSafe \/ SequenceTimeout \/ SignFails
             \/ \E m \in wire : Land(m)
             \/ \E m \in Signed \ expired : Expire(m)
             \/ Crash
    <2>1. UNCHANGED <<outbox, hold, wire>> /\ task'.message \in {NoMessage, task.message}
      BY <1>4 DEF vars, StartKey, StartRefund, StartSweep, SequenceSafe, SequenceTimeout,
                  SignFails, Land, Expire, Crash, Return, Go, Resting, durable, chain,
                  TypeInv, TypeOK
    <2>. QED BY <2>1 DEF Signed
  <1>. QED BY <1>1, <1>2, <1>3, <1>4 DEF Next, Adapter

LEMMA SignedFiled == ASSUME TypeInv, DeliveryInv, MemoryInv, NEW m \in Signed PROVE Filed(m)
  <1>1. CASE m \in wire \/ m = hold
    BY <1>1 DEF DeliveryInv, KeyInv, MemoryInv, Signed
  <1>2. CASE m = task.message
    BY <1>2 DEF DeliveryInv, KeyInv, MemoryInv, Signed
  <1>3. ASSUME NEW k \in Keys, m = outbox[k], m # NoMessage PROVE Filed(m)
    BY <1>3 DEF Filed, TypeInv, TaskInv
  <1>. QED BY <1>1, <1>2, <1>3 DEF Signed

\* A first message gets a number that no message has.
LEMMA FreshNumber ==
    ASSUME SoundInv, AcceptInv, Undisturbed, task.at = "sign", Fresh
    PROVE  \A m \in Signed : m.seqno < seqno
  <1>. SUFFICES ASSUME NEW m \in Signed PROVE m.seqno < seqno
    OBVIOUS
  <1>. USE DEF SoundInv, AcceptInv
  <1>0. m \in Messages /\ m # NoMessage /\ m.seqno \in Nat /\ seqno \in Nat
    BY SignedTyped DEF Signed, Messages, TypeInv, TypeOK
  <1>1. CASE MaxCrashes = 0
    <2>1. HoldCovers(m)
      <3>1. CASE m \in wire \/ m = hold
        BY <1>0, <3>1 DEF WireInv, Covered, HoldCovers
      <3>2. ASSUME NEW k \in Keys, m = outbox[k] PROVE HoldCovers(m)
        BY <1>0, <1>1, <3>2 DEF HeldInv
      <3>. QED BY <1>0, <3>1, <3>2 DEF Signed, MemoryInv
    <2>2. hold.seqno \in Nat
      BY <2>1 DEF HoldCovers, TypeInv, TypeOK, Messages
    <2>. QED BY <1>0, <2>1, <2>2 DEF PassedInv, HoldCovers
  <1>2. CASE LegsAlone
    <2>. DEFINE j == m.job
    <2>1. j \in Keys /\ task.job \in Keys /\ outbox[task.job] = NoMessage
      BY <1>0, <1>2 DEF LegsAlone, Messages, Jobs, Fresh, TypeInv, TaskInv
    <2>2. outbox[j] # NoMessage /\ m.seqno = outbox[j].seqno
      BY <2>1, SignedFiled DEF Filed
    <2>3. \A n \in landed : n.job \in Keys =>
            outbox[n.job] # NoMessage /\ n.seqno = outbox[n.job].seqno /\ n.seqno < seqno
      BY DEF DeliveryInv, ChainInv, KeyInv, Filed
    <2>4. ~Executed(task.job)
      BY <2>1, <2>3 DEF Executed
    <2>5. j \in Earlier[task.job]
      BY <1>2, <2>1, <2>2, <2>4 DEF LegsAlone, WaitInv
    <2>6. Executed(j)
      BY <2>1, <2>5 DEF WaitInv
    <2>. QED BY <2>1, <2>2, <2>3, <2>6 DEF Executed
  <1>. QED BY <1>1, <1>2 DEF Undisturbed

\* What observing a stored message comes to when nodes do not lag.
LEMMA Observing ==
    ASSUME TypeInv, Undisturbed, ObserveOutbox
    PROVE  LET m == outbox[task.job] IN
           /\ task.at = "observe" /\ task.job \in Keys /\ m \in Messages /\ m # NoMessage
           /\ UNCHANGED <<outbox, hold, pending, wire, seqno, landed, crashes>>
           /\ \/ task' = Resting /\ UNCHANGED accepted
              \/ task' = Resting /\ seqno > m.seqno /\ accepted' = accepted \cup {task.job}
              \/ /\ task'.at = "sign" /\ task'.job = task.job /\ task'.message = task.message
                 /\ UNCHANGED accepted
              \/ /\ task'.at = "hold" /\ task'.job = task.job /\ task'.message = m
                 /\ m.seqno = seqno
                 /\ UNCHANGED accepted
  <1>. DEFINE m == outbox[task.job]
  <1>1. task.at = "observe" /\ task.job \in Keys /\ m \in Messages /\ m # NoMessage /\ m.job = task.job
    BY DEF ObserveOutbox, TypeInv, TypeOK, TaskInv
  <1>2. UNCHANGED <<outbox, hold, pending, wire, seqno, landed, crashes>>
    BY DEF ObserveOutbox, durable, chain
  <1>3. \/ seqno > m.seqno /\ Accept
        \/ Return /\ UNCHANGED accepted
        \/ Go("sign") /\ UNCHANGED accepted
        \/ /\ seqno = m.seqno
           /\ task' = [task EXCEPT !.at = "hold", !.message = m]
           /\ UNCHANGED accepted
    BY ReadsNow DEF ObserveOutbox
  <1>4. CASE seqno > m.seqno /\ Accept
    BY <1>1, <1>2, <1>4 DEF Accept, Return
  <1>5. CASE Return /\ UNCHANGED accepted
    BY <1>1, <1>2, <1>5 DEF Return
  <1>6. CASE Go("sign") /\ UNCHANGED accepted
    BY <1>1, <1>2, <1>6, GoTyped DEF Steps
  <1>7. CASE /\ seqno = m.seqno
             /\ task' = [task EXCEPT !.at = "hold", !.message = m]
             /\ UNCHANGED accepted
    <2>1. task'.at = "hold" /\ task'.job = task.job /\ task'.message = m
      BY <1>1, <1>7, TakeTyped
    <2>. QED BY <1>1, <1>2, <1>7, <2>1
  <1>. QED BY <1>3, <1>4, <1>5, <1>6, <1>7

\* And what signing does: it learns that the number is used, or signs under the
\* contract's number a message n, the transfer's first or a renewal.
LEMMA Signing ==
    ASSUME TypeInv, Undisturbed, SignOnce \/ SignKey
    PROVE  /\ task.at = "sign" /\ task.job \in Jobs
           /\ UNCHANGED <<hold, pending, wire, seqno, landed, crashes>>
           /\ \/ /\ task.job \in Keys /\ outbox[task.job] # NoMessage
                 /\ seqno # outbox[task.job].seqno
                 /\ task' = Resting /\ accepted' = accepted \cup {task.job} /\ UNCHANGED outbox
              \/ \E n \in Messages :
                    /\ n.job = task.job /\ n.seqno = seqno
                    /\ Fresh \/ (task.job \in Keys /\ seqno = outbox[task.job].seqno)
                    /\ task'.at = "hold" /\ task'.job = task.job /\ task'.message = n
                    /\ outbox' = IF task.job \in Keys THEN [outbox EXCEPT ![task.job] = n] ELSE outbox
                    /\ UNCHANGED accepted
  <1>. DEFINE m(s, i) == [job |-> task.job, seqno |-> s, issue |-> i]
  <1>1. task.at = "sign" /\ task.job \in Jobs
    BY DEF SignOnce, SignKey, TypeInv, TaskInv
  <1>2. UNCHANGED <<hold, pending, wire, seqno, landed, crashes>>
    BY DEF SignOnce, SignKey, chain
  <1>3. CASE SignOnce
    <2>1. /\ task.job \notin Keys /\ UNCHANGED <<outbox, accepted>>
          /\ task' = [task EXCEPT !.at = "hold", !.message = m(seqno, 0)]
      BY <1>3, ReadsNow DEF SignOnce
    <2>2. m(seqno, 0) \in Messages /\ m(seqno, 0).job = task.job /\ m(seqno, 0).seqno = seqno
      BY <1>1 DEF Messages, TypeInv, TypeOK
    <2>3. task'.at = "hold" /\ task'.job = task.job /\ task'.message = m(seqno, 0)
      BY <1>1, <2>1, <2>2, TakeTyped
    <2>4. PICK n \in Messages : n = m(seqno, 0)
      BY <2>2
    <2>. HIDE DEF m
    <2>5. /\ n.job = task.job /\ n.seqno = seqno /\ Fresh
          /\ task'.at = "hold" /\ task'.job = task.job /\ task'.message = n
          /\ outbox' = IF task.job \in Keys THEN [outbox EXCEPT ![task.job] = n] ELSE outbox
          /\ UNCHANGED accepted
      BY <2>1, <2>2, <2>3, <2>4 DEF Fresh
    <2>. QED BY <1>1, <1>2, <2>5
  <1>4. CASE SignKey
    <2>. DEFINE k == task.job
    <2>1. k \in Keys
      BY <1>4 DEF SignKey
    <2>2. IF outbox[k] # NoMessage /\ seqno # outbox[k].seqno
          THEN Accept /\ UNCHANGED outbox
          ELSE /\ outbox' = [outbox EXCEPT ![k] = m(seqno, Issue(k))]
               /\ task' = [task EXCEPT !.at = "hold", !.message = m(seqno, Issue(k))]
               /\ UNCHANGED accepted
      BY <1>4, ReadsNow DEF SignKey
    <2>3. Issue(k) \in Nat
      <3>1. outbox[k] # NoMessage => outbox[k].issue \in Nat
        BY <2>1 DEF TypeInv, TypeOK, Messages
      <3>. QED BY <3>1 DEF Issue
    <2>. DEFINE n == m(seqno, Issue(k))
    <2>4. n \in Messages /\ n.job = k /\ n.seqno = seqno
      BY <1>1, <2>3 DEF Messages, TypeInv, TypeOK
    <2>5. CASE outbox[k] # NoMessage /\ seqno # outbox[k].seqno
      BY <1>1, <1>2, <2>1, <2>2, <2>5 DEF Accept, Return
    <2>6. CASE ~(outbox[k] # NoMessage /\ seqno # outbox[k].seqno)
      <3>1. /\ task' = [task EXCEPT !.at = "hold", !.message = n]
            /\ outbox' = [outbox EXCEPT ![k] = n] /\ UNCHANGED accepted
        BY <2>2, <2>6
      <3>2. task'.at = "hold" /\ task'.job = task.job /\ task'.message = n
        BY <1>1, <2>4, <3>1, TakeTyped
      <3>3. PICK o \in Messages : o = n
        BY <2>4
      <3>. HIDE DEF m, n
      <3>4. /\ o.job = task.job /\ o.seqno = seqno
            /\ Fresh \/ (task.job \in Keys /\ seqno = outbox[task.job].seqno)
            /\ task'.at = "hold" /\ task'.job = task.job /\ task'.message = o
            /\ outbox' = IF task.job \in Keys THEN [outbox EXCEPT ![task.job] = o] ELSE outbox
            /\ UNCHANGED accepted
        BY <2>1, <2>4, <2>6, <3>1, <3>2, <3>3 DEF Fresh
      <3>. QED BY <1>1, <1>2, <3>4
    <2>. QED BY <2>5, <2>6
  <1>. QED BY <1>3, <1>4

LEMMA NumberStep ==
    ASSUME SoundInv, AcceptInv, Undisturbed, [Next]_vars
    PROVE  NumberInv'
  <1>. USE DEF SoundInv
  <1>0. /\ \A m \in Signed : m.seqno \in Nat
        /\ seqno \in Nat
        /\ NumberInv
        /\ \A k : Executed(k) => Executed(k)'
    BY SignedTyped, ExecutedKept DEF Messages, TypeInv, TypeOK, AcceptInv
  <1>1. CASE \E m \in wire : Land(m)
    <2>1. PICK m \in wire : Land(m)
      BY <1>1
    <2>2. Signed' = Signed /\ seqno' = seqno + 1 /\ m.seqno = seqno /\ m \in landed'
      BY <2>1 DEF Land, durable, Signed
    <2>3. m \in Signed
      BY DEF Signed, TypeInv, TypeOK
    <2>4. Executed(m.job)'
      BY <2>2 DEF Executed
    <2>. QED BY <1>0, <2>2, <2>3, <2>4 DEF NumberInv
  <1>2. ASSUME Signed' \subseteq Signed, UNCHANGED seqno PROVE NumberInv'
    BY <1>0, <1>2 DEF NumberInv
  <1>3. CASE SignOnce \/ SignKey
    <2>1. CASE UNCHANGED outbox /\ task' = Resting
      BY <1>2, <1>3, <2>1, Signing DEF Signed, Resting
    <2>2. ASSUME NEW n \in Messages, n.job = task.job, n.seqno = seqno, task'.message = n,
                 Fresh \/ (task.job \in Keys /\ seqno = outbox[task.job].seqno),
                 outbox' = IF task.job \in Keys THEN [outbox EXCEPT ![task.job] = n] ELSE outbox
          PROVE  NumberInv'
      <3>1. Signed' \subseteq Signed \cup {n} /\ UNCHANGED seqno
        BY <1>3, <2>2, Signing DEF Signed, TypeInv, TypeOK
      <3>2. CASE Fresh
        <4>1. \A m \in Signed : m.seqno < seqno
          BY <1>3, <3>2, FreshNumber, Signing
        <4>. QED BY <1>0, <2>2, <3>1, <4>1 DEF NumberInv
      <3>3. CASE ~Fresh
        <4>. DEFINE o == outbox[task.job]
        <4>1. o \in Signed /\ o.seqno = seqno /\ o.job = task.job
          BY <2>2, <3>3 DEF Fresh, Signed, TypeInv, TaskInv
        <4>. QED BY <1>0, <2>2, <3>1, <4>1 DEF NumberInv
      <3>. QED BY <3>2, <3>3
    <2>. QED BY <1>3, <2>1, <2>2, Signing
  <1>4. CASE ~SignOnce /\ ~SignKey /\ ~\E m \in wire : Land(m)
    <2>1. UNCHANGED seqno
      BY <1>4 DEF vars, Next, Adapter, StartKey, StartRefund, StartSweep, ObserveOutbox,
                  SequenceSafe, SequenceTimeout, SignFails, HoldSequence, Broadcast, Expire,
                  Crash, durable, chain
    <2>. QED BY <1>2, <1>4, <2>1, SignedKept
  <1>. QED BY <1>1, <1>3, <1>4

\* The two places where a leg is reported as accepted.
LEMMA AcceptedStep ==
    ASSUME SoundInv, AcceptInv, Undisturbed, [Next]_vars
    PROVE  AcceptedWasExecuted'
  <1>. USE DEF SoundInv
  <1>0. AcceptedWasExecuted /\ NumberInv /\ \A k : Executed(k) => Executed(k)'
    BY ExecutedKept DEF AcceptInv
  <1>1. ASSUME NEW k \in Keys, outbox[k] # NoMessage, seqno # outbox[k].seqno
        PROVE  Executed(k)
    <2>1. outbox[k] \in Signed /\ outbox[k].job = k /\ outbox[k].seqno \in Nat /\ seqno \in Nat
      BY <1>1 DEF Signed, TypeInv, TypeOK, TaskInv, Messages
    <2>. QED BY <1>0, <1>1, <2>1 DEF NumberInv
  <1>2. CASE UNCHANGED accepted
    BY <1>0, <1>2 DEF AcceptedWasExecuted
  <1>3. ASSUME accepted' = accepted \cup {task.job}, Executed(task.job)
        PROVE  AcceptedWasExecuted'
    BY <1>0, <1>3 DEF AcceptedWasExecuted
  <1>4. CASE ObserveOutbox
    <2>1. outbox[task.job].seqno \in Nat /\ seqno \in Nat
      BY <1>4, Observing DEF Messages, TypeInv, TypeOK
    <2>. QED BY <1>1, <1>2, <1>3, <1>4, <2>1, Observing
  <1>5. CASE SignOnce \/ SignKey
    BY <1>1, <1>2, <1>3, <1>5, Signing
  <1>6. CASE ~ObserveOutbox /\ ~SignOnce /\ ~SignKey
    BY <1>2, <1>6 DEF vars, Next, Adapter, StartKey, StartRefund, StartSweep, SequenceSafe,
                      SequenceTimeout, SignFails, HoldSequence, Broadcast, Land, Expire,
                      Crash, durable, chain
  <1>. QED BY <1>4, <1>5, <1>6

\* Every step but a start, a signature, an observation and the hold's leaves a
\* transfer as it is, sends it on or ends it.
LEMMA Rest ==
    ASSUME TypeInv, [Next]_vars,
           ~ObserveOutbox, ~SignOnce, ~SignKey, ~HoldSequence,
           ~\E k \in Keys : StartKey(k),
           ~\E r \in Refunds : StartRefund(r),
           ~\E w \in Sweeps : StartSweep(w)
    PROVE  /\ UNCHANGED <<outbox, hold>>
           /\ \/ task' = Resting
              \/ UNCHANGED task
              \/ SequenceSafe /\ task'.at = "sign" /\ task'.job = task.job
                 /\ task'.message = task.message
  <1>1. CASE SequenceSafe
    BY <1>1, GoTyped DEF SequenceSafe, durable, Steps
  <1>2. CASE SequenceTimeout \/ SignFails \/ Broadcast \/ Crash
    BY <1>2 DEF SequenceTimeout, SignFails, Broadcast, Crash, Return, durable
  <1>3. CASE \/ UNCHANGED vars
             \/ \E m \in wire : Land(m)
             \/ \E m \in Signed \ expired : Expire(m)
    BY <1>3 DEF vars, Land, Expire, durable
  <1>. QED BY <1>1, <1>2, <1>3 DEF Next, Adapter

LEMMA Starting ==
    ASSUME TypeInv,
           \/ \E k \in Keys : StartKey(k)
           \/ \E r \in Refunds : StartRefund(r)
           \/ \E w \in Sweeps : StartSweep(w)
    PROVE  /\ task' \in [at : {"safety", "observe"}, job : Jobs, message : {NoMessage}]
           /\ task'.job \in Keys => \A j \in Earlier[task'.job] : Executed(j)
           /\ UNCHANGED <<outbox, hold, pending, seqno, landed>>
  <1>1. CASE \E k \in Keys : StartKey(k)
    BY <1>1 DEF StartKey, durable, chain, Jobs
  <1>2. CASE \E r \in Refunds : StartRefund(r)
    BY <1>2 DEF StartRefund, chain, Jobs
  <1>3. CASE \E w \in Sweeps : StartSweep(w)
    BY <1>3 DEF StartSweep, durable, chain, Jobs
  <1>. QED BY <1>1, <1>2, <1>3

\* _holdSequence takes the number it is given, or refuses and changes nothing.
LEMMA Holding ==
    ASSUME TypeInv, HoldSequence
    PROVE  /\ task.at = "hold" /\ task.message \in Messages /\ task.message # NoMessage
           /\ UNCHANGED <<outbox, seqno, landed>>
           /\ \/ /\ HoldAdvances(task.message)
                 /\ hold' = task.message /\ pending' = task.message.seqno
                 /\ task'.at = "send" /\ task'.job = task.job /\ task'.message = task.message
              \/ /\ ~HoldAdvances(task.message)
                 /\ task' = Resting /\ UNCHANGED <<hold, pending>>
  <1>1. /\ task.at = "hold" /\ task.message \in Messages /\ task.message # NoMessage
        /\ UNCHANGED <<outbox, seqno, landed>>
    BY DEF HoldSequence, TypeInv, TaskInv, chain
  <1>2. CASE HoldAdvances(task.message)
    BY <1>1, <1>2, GoTyped DEF HoldSequence, Steps
  <1>3. CASE ~HoldAdvances(task.message)
    BY <1>1, <1>3 DEF HoldSequence, Return
  <1>. QED BY <1>2, <1>3

LEMMA MemoryStep ==
    ASSUME SoundInv, MemoryInv, Undisturbed, [Next]_vars
    PROVE  MemoryInv'
  <1>. USE DEF SoundInv
  <1>1. CASE SignOnce \/ SignKey
    <2>1. UNCHANGED <<hold, pending>>
      BY <1>1, Signing
    <2>2. CASE UNCHANGED outbox /\ task' = Resting
      BY <2>1, <2>2 DEF MemoryInv, Filed, Resting
    <2>3. ASSUME NEW n \in Messages, n.seqno = seqno, task'.at = "hold",
                 Fresh \/ (task.job \in Keys /\ seqno = outbox[task.job].seqno),
                 outbox' = IF task.job \in Keys THEN [outbox EXCEPT ![task.job] = n] ELSE outbox
          PROVE  MemoryInv'
      <3>1. hold # NoMessage => Filed(hold)'
        BY <2>1, <2>3 DEF MemoryInv, Filed, Fresh, TypeInv, TypeOK
      <3>. QED BY <2>1, <2>3, <3>1 DEF MemoryInv
    <2>. QED BY <1>1, <2>2, <2>3, Signing
  <1>2. CASE HoldSequence
    <2>1. Filed(task.message)
      BY <1>2, Holding DEF DeliveryInv, KeyInv
    <2>. QED BY <1>2, <2>1, Holding DEF MemoryInv, Filed, Resting
  <1>3. CASE ObserveOutbox
    BY <1>3, Observing DEF MemoryInv, Filed, Resting
  <1>4. CASE \/ \E k \in Keys : StartKey(k)
             \/ \E r \in Refunds : StartRefund(r)
             \/ \E w \in Sweeps : StartSweep(w)
    BY <1>4, Starting DEF MemoryInv, Filed
  <1>5. CASE /\ ~SignOnce /\ ~SignKey /\ ~HoldSequence /\ ~ObserveOutbox
             /\ ~\E k \in Keys : StartKey(k)
             /\ ~\E r \in Refunds : StartRefund(r)
             /\ ~\E w \in Sweeps : StartSweep(w)
    <2>1. pending' # NoSeqno => hold # NoMessage /\ pending' = hold.seqno
      <3>1. CASE SequenceTimeout
        BY <3>1 DEF SequenceTimeout, Awaited, MemoryInv
      <3>2. CASE ~SequenceTimeout
        <4>1. UNCHANGED pending \/ pending' = NoSeqno
          BY <1>5, <3>2 DEF vars, Next, Adapter, SequenceSafe, SignFails, Broadcast, Land, Expire,
                            Crash
        <4>. QED BY <4>1 DEF MemoryInv
      <3>. QED BY <3>1, <3>2
    <2>2. task'.at \notin {"hold", "send"} => task'.message = NoMessage
      <3>1. CASE SequenceSafe
        BY <1>5, <3>1, Rest DEF SequenceSafe, MemoryInv, Resting
      <3>2. CASE ~SequenceSafe
        BY <1>5, <3>2, Rest DEF MemoryInv, Resting
      <3>. QED BY <3>1, <3>2
    <2>. QED BY <1>5, <2>1, <2>2, Rest DEF MemoryInv, Filed
  <1>. QED BY <1>1, <1>2, <1>3, <1>4, <1>5

LEMMA WaitStep ==
    ASSUME SoundInv, WaitInv, Undisturbed, [Next]_vars
    PROVE  WaitInv'
  <1>. USE DEF SoundInv
  <1>1. ASSUME \A k \in Keys : task'.job = k \/ outbox'[k] # NoMessage =>
                 \/ task.job = k \/ outbox[k] # NoMessage
                 \/ \A j \in Earlier[k] : Executed(j)
        PROVE  WaitInv'
    <2>1. \A k \in Keys : task'.job = k \/ outbox'[k] # NoMessage =>
             \A j \in Earlier[k] : Executed(j)
      BY <1>1 DEF WaitInv
    <2>. QED BY <2>1, ExecutedKept DEF WaitInv
  <1>2. NoJob \notin Keys /\ Resting.job = NoJob
    BY DEF Jobs, Resting
  <1>3. CASE SignOnce \/ SignKey
    <2>1. CASE UNCHANGED outbox /\ task' = Resting
      BY <1>1, <1>2, <2>1
    <2>2. ASSUME NEW n, task'.job = task.job,
                 outbox' = IF task.job \in Keys THEN [outbox EXCEPT ![task.job] = n] ELSE outbox
          PROVE  WaitInv'
      BY <1>1, <2>2 DEF TypeInv, TypeOK
    <2>. QED BY <1>3, <2>1, <2>2, Signing
  <1>4. CASE HoldSequence \/ ObserveOutbox
    BY <1>1, <1>2, <1>4, Holding, Observing
  <1>5. CASE \/ \E k \in Keys : StartKey(k)
             \/ \E r \in Refunds : StartRefund(r)
             \/ \E w \in Sweeps : StartSweep(w)
    BY <1>1, <1>5, Starting
  <1>6. CASE /\ ~SignOnce /\ ~SignKey /\ ~HoldSequence /\ ~ObserveOutbox
             /\ ~\E k \in Keys : StartKey(k)
             /\ ~\E r \in Refunds : StartRefund(r)
             /\ ~\E w \in Sweeps : StartSweep(w)
    BY <1>1, <1>2, <1>6, Rest
  <1>. QED BY <1>3, <1>4, <1>5, <1>6

\* A transfer comes to sign its first message only through the sequence check.
LEMMA PassedStep ==
    ASSUME SoundInv, MemoryInv, PassedInv, Undisturbed, [Next]_vars
    PROVE  PassedInv'
  <1>. USE DEF SoundInv
  <1>0. seqno \in Nat /\ seqno' \in Nat /\ seqno <= seqno' /\ (hold # NoMessage => hold.seqno \in Nat)
    BY TypeStep, ExecutedKept DEF TypeInv, TypeOK, Messages
  <1>1. CASE SequenceSafe
    <2>1. hold # NoMessage => \E s \in Reads : s > hold.seqno
      BY <1>1 DEF SequenceSafe, Awaited, MemoryInv, NothingAssumption, TypeInv, TypeOK, Messages
    <2>2. UNCHANGED hold
      BY <1>1 DEF SequenceSafe, durable
    <2>. QED BY <1>0, <2>1, <2>2, ReadsNow DEF PassedInv
  <1>2. CASE SignOnce \/ SignKey
    BY <1>2, Signing DEF PassedInv, Resting
  <1>3. CASE HoldSequence
    BY <1>3, Holding DEF PassedInv, Resting
  <1>4. CASE ObserveOutbox
    BY <1>4, Observing DEF PassedInv, Resting, Fresh
  <1>5. CASE \/ \E k \in Keys : StartKey(k)
             \/ \E r \in Refunds : StartRefund(r)
             \/ \E w \in Sweeps : StartSweep(w)
    BY <1>5, Starting DEF PassedInv
  <1>6. CASE /\ ~SignOnce /\ ~SignKey /\ ~HoldSequence /\ ~ObserveOutbox /\ ~SequenceSafe
             /\ ~\E k \in Keys : StartKey(k)
             /\ ~\E r \in Refunds : StartRefund(r)
             /\ ~\E w \in Sweeps : StartSweep(w)
    <2>1. UNCHANGED <<outbox, hold>> /\ (task' = Resting \/ UNCHANGED task)
      BY <1>6, Rest
    <2>. QED BY <1>0, <2>1 DEF PassedInv, Resting, Fresh
  <1>. QED BY <1>1, <1>2, <1>3, <1>4, <1>5, <1>6

LEMMA HeldStep ==
    ASSUME SoundInv, PassedInv, HeldInv, Undisturbed, [Next]_vars
    PROVE  HeldInv'
  <1>. SUFFICES ASSUME MaxCrashes = 0, NEW k \in Keys, outbox'[k] # NoMessage
                PROVE  \/ HoldCovers(outbox[k])'
                       \/ /\ task'.at = "hold" /\ outbox'[k] = task'.message
                          /\ hold' = NoMessage \/ task'.message.seqno > hold'.seqno
    BY DEF HeldInv
  <1>. USE DEF SoundInv
  <1>0. /\ seqno \in Nat /\ (hold # NoMessage => hold.seqno \in Nat)
        /\ outbox[k] # NoMessage => outbox[k].seqno \in Nat
    BY DEF TypeInv, TypeOK, Messages
  <1>1. ASSUME task.at # "hold", UNCHANGED <<hold, outbox>> PROVE HoldCovers(outbox[k])'
    BY <1>1 DEF HeldInv, HoldCovers
  <1>2. CASE SignOnce \/ SignKey
    <2>1. UNCHANGED hold /\ task.at = "sign"
      BY <1>2, Signing
    <2>2. CASE UNCHANGED outbox
      BY <1>1, <2>1, <2>2
    <2>3. ASSUME NEW n \in Messages, n.seqno = seqno, task'.at = "hold", task'.message = n,
                 Fresh \/ (task.job \in Keys /\ seqno = outbox[task.job].seqno),
                 outbox' = IF task.job \in Keys THEN [outbox EXCEPT ![task.job] = n] ELSE outbox
          PROVE  \/ HoldCovers(outbox[k])'
                 \/ /\ task'.at = "hold" /\ outbox'[k] = task'.message
                    /\ hold' = NoMessage \/ task'.message.seqno > hold'.seqno
      <3>1. CASE k # task.job
        <4>1. outbox'[k] = outbox[k]
          BY <2>3, <3>1 DEF TypeInv, TypeOK
        <4>. QED BY <2>1, <4>1 DEF HeldInv, HoldCovers
      <3>2. CASE k = task.job
        <4>1. outbox'[k] = n
          BY <2>3, <3>2 DEF TypeInv, TypeOK
        <4>2. CASE Fresh
          BY <1>0, <2>1, <2>3, <4>1, <4>2 DEF PassedInv
        <4>3. CASE ~Fresh
          <5>1. outbox[k] # NoMessage /\ n.seqno = outbox[k].seqno
            BY <2>3, <3>2, <4>3 DEF Fresh
          <5>. QED BY <2>1, <4>1, <5>1 DEF HeldInv, HoldCovers
        <4>. QED BY <4>2, <4>3
      <3>. QED BY <3>1, <3>2
    <2>. QED BY <1>2, <2>2, <2>3, Signing
  <1>3. CASE HoldSequence
    <2>1. task.message.seqno \in Nat
      BY <1>3, Holding DEF Messages
    <2>2. outbox'[k] = outbox[k] /\ outbox[k] # NoMessage
      BY <1>3, Holding
    <2>3. CASE HoldAdvances(task.message)
      BY <1>0, <1>3, <2>1, <2>2, <2>3, Holding
         DEF HeldInv, HoldCovers, HoldAdvances, SameTransfer
    <2>4. CASE ~HoldAdvances(task.message)
      BY <1>3, <2>2, <2>4, Holding DEF HeldInv, HoldCovers, HoldAdvances
    <2>. QED BY <2>3, <2>4
  <1>4. CASE ObserveOutbox
    BY <1>1, <1>4, Observing
  <1>5. CASE \/ \E j \in Keys : StartKey(j)
             \/ \E r \in Refunds : StartRefund(r)
             \/ \E w \in Sweeps : StartSweep(w)
    BY <1>1, <1>5, Starting DEF StartKey, StartRefund, StartSweep, Resting
  <1>6. CASE /\ ~SignOnce /\ ~SignKey /\ ~HoldSequence /\ ~ObserveOutbox
             /\ ~\E j \in Keys : StartKey(j)
             /\ ~\E r \in Refunds : StartRefund(r)
             /\ ~\E w \in Sweeps : StartSweep(w)
    <2>1. UNCHANGED <<outbox, hold>> /\ (task.at = "hold" => UNCHANGED task)
      <3>1. ~Crash
        BY DEF Crash, TypeInv, TypeOK
      <3>2. task.at # "hold" \/ UNCHANGED task
        BY <1>6, <3>1 DEF vars, Next, Adapter, SequenceSafe, SequenceTimeout, SignFails, Broadcast,
                          Land, Expire
      <3>. QED BY <1>6, <3>2, Rest
    <2>. QED BY <1>1, <2>1 DEF HeldInv, HoldCovers
  <1>. QED BY <1>2, <1>3, <1>4, <1>5, <1>6

\* Where nodes do not lag, and either no crash separates the outbox file from
\* the hold or the wallet sends nothing but legs that wait for each other, a
\* leg that sendTransfer reports as accepted was executed by the wallet.
THEOREM AcceptedIsExecuted ==
    ASSUME Undisturbed
    PROVE  Spec => []AcceptedWasExecuted
  <1>1. SoundInv /\ AcceptInv /\ [Next]_vars => AcceptInv'
    BY MemoryStep, WaitStep, PassedStep, HeldStep, NumberStep, AcceptedStep DEF AcceptInv
  <1>2. AcceptInv => AcceptedWasExecuted
    BY DEF AcceptInv
  <1>3. Init => SoundInv
    BY TypeInit, WireInit, DeliveryInit DEF SoundInv
  <1>4. SoundInv /\ [Next]_vars => SoundInv'
    BY TypeStep, WireStep, DeliveryStep DEF SoundInv
  <1>. QED BY <1>1, <1>2, <1>3, <1>4, AcceptInit, PTL DEF Spec
====
