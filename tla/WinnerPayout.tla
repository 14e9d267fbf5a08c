---------------------------- MODULE WinnerPayout ----------------------------
(***************************************************************************)
(* The prize of one finished game: TestnetWinnerPayoutCoordinator plans it *)
(* in the ledger, TestnetNativeRoomPayoutTransport sends its two legs and  *)
(* settles them from chain evidence, TestnetPendingPayoutReconciler        *)
(* settles what is left, and the room's wallet is held until both legs are *)
(* settled.                                                                *)
(*                                                                         *)
(* Everything durable about the room's payout is a file or a ledger entry  *)
(* written once, so the disk is the set of those that exist.  Code between *)
(* two awaits is one step; the process can die after any of its writes.    *)
(***************************************************************************)
EXTENDS Naturals, PayoutSplit

CONSTANT MaxCrashes  \* bound of the model on process crashes

ASSUME MaxCrashesAssumption == MaxCrashes \in Nat

Legs == {"WINNER", "OWNER"}

Of(leg, winner, owner) == IF leg = "WINNER" THEN winner ELSE owner

\* Per leg: its ledger obligation, its exclusive intent file, its settlement.
Net(leg) == Of(leg, "winner-net", "owner-net")
Intent(leg) == Of(leg, "winner-intent", "owner-intent")
Settled(leg) == Of(leg, "winner-settled", "owner-settled")

\* And the room's PAYOUT outcome, the ledger's plan, the transport's claim journal.
Files == {"outcome", "plan", "journal"} \cup
         UNION {{Net(leg), Intent(leg), Settled(leg)} : leg \in Legs}

VARIABLES
    disk,          \* the files and ledger entries that exist
    durableRetry,  \* the journal says that its payout's messages can be replayed
    supports,      \* this process's adapter stores messages and replays them by key
    reserved,      \* the pool keeps the room's wallet for this room
    ready,         \* the winner engine holds the result, in memory
    exec,          \* _activeResults: the execution of the result under way
    wire,          \* wire[leg]: messages for the leg that reached the network
    keyed,         \* the legs whose stored message is among them
    paid,          \* paid[leg]: how many of them the wallet executed
    crashes

files == <<disk, durableRetry>>
process == <<supports, crashes>>
network == <<wire, keyed>>
vars == <<files, process, reserved, ready, exec, network, paid>>

\* confirm: the leg's intent was there already; credit: its message was just sent.
ExecSteps == {"idle", "confirm", "send", "credit", "settle"}
Execs == [at : ExecSteps, leg : Legs, call : {"submit", "resumeUnattempted"}]

TypeOK ==
    /\ disk \in SUBSET Files
    /\ durableRetry \in BOOLEAN /\ supports \in BOOLEAN /\ keyed \in SUBSET Legs
    /\ reserved \in BOOLEAN /\ ready \in BOOLEAN
    /\ exec \in Execs
    /\ wire \in [Legs -> Nat] /\ paid \in [Legs -> Nat]
    /\ crashes \in 0 .. MaxCrashes

Idle == [at |-> "idle", leg |-> "WINNER", call |-> "submit"]

\* Three players have paid and play. The server may be of a release whose adapter
\* cannot replay yet.
Init ==
    /\ disk = {} /\ durableRetry = FALSE
    /\ supports \in BOOLEAN /\ keyed = {}
    /\ reserved = TRUE /\ ready = FALSE
    /\ exec = Idle
    /\ wire = [leg \in Legs |-> 0] /\ paid = [leg \in Legs |-> 0]
    /\ crashes = 0

-----------------------------------------------------------------------------
(* What the room still owes *)

OpenLegs == {leg \in Legs : Net(leg) \in disk /\ Settled(leg) \notin disk}

\* Fault: only planned obligations count, not collected money without a plan.
OwedByPlan(d) == \E leg \in Legs : Net(leg) \in d /\ Settled(leg) \notin d

\* Planned obligations, a plan with missing ones, or three payments without a plan.
Owed(d) ==
    \/ \E leg \in Legs : Net(leg) \in d /\ Settled(leg) \notin d
    \/ "plan" \in d /\ \E leg \in Legs : Net(leg) \notin d
    \/ "plan" \notin d

ReleaseWallet ==
    /\ reserved /\ ~Owed(disk)
    /\ reserved' = FALSE
    /\ UNCHANGED <<files, ready, exec, network, paid, process>>

-----------------------------------------------------------------------------
(* The coordinator *)

GameResultReady ==
    /\ ~ready
    /\ ready' = TRUE
    /\ UNCHANGED <<files, reserved, exec, network, paid, process>>

\* Up to its first await an execution claims the outcome, plans the payout (or
\* completes its entries), claims the journal and opens the winner's intent.
Writes == <<"outcome", "plan", Net("WINNER"), Net("OWNER"), "journal", Intent("WINNER")>>
Written(k) == {Writes[i] : i \in 1 .. k}

\* The journal is written once and tells what the adapter of that time can do.
Journal(d) ==
    durableRetry' = IF "journal" \in disk THEN durableRetry ELSE supports /\ "journal" \in d

\* recoverPendingResults: the outcome is claimed, and not planned or not settled.
Recoverable == "outcome" \in disk /\ ("plan" \notin disk \/ OpenLegs # {})

\* A result that is announced, again perhaps, or recovered; one execution at a time.
CanExecute == exec = Idle /\ reserved /\ (ready \/ Recoverable)

ExecuteResult ==
    /\ CanExecute
    /\ disk' = disk \cup Written(6)
    /\ Journal(disk')
    /\ exec' = [at |-> IF Intent("WINNER") \in disk THEN "confirm" ELSE "send",
                leg |-> "WINNER",
                call |-> IF "plan" \in disk THEN "resumeUnattempted" ELSE "submit"]
    /\ UNCHANGED <<reserved, ready, network, paid, process>>

-----------------------------------------------------------------------------
(* The transport *)

\* Only resumeUnattempted, the call for a replayed plan, goes on to reconcileAndSettle.
Finish ==
    exec' = IF exec.call = "resumeUnattempted" THEN [exec EXCEPT !.at = "settle"] ELSE Idle

\* Fault: an attempt made without a key is replayed with one.
ReplaysNow == supports

\* Attempts of an older release have no stored message and are only observed.
Replays == durableRetry /\ supports

Send(leg) == exec' = [exec EXCEPT !.at = "send", !.leg = leg]

BeginOwner ==
    IF Intent("OWNER") \notin disk
    THEN disk' = disk \cup {Intent("OWNER")} /\ Send("OWNER")
    ELSE UNCHANGED disk /\ IF Replays THEN Send("OWNER") ELSE Finish

\* Fault: a message that reached the network counts as credited.
SubmittedSeen(leg) == wire[leg] > 0

\* A finalized credit of exactly this amount; two of them are ambiguous.
CreditSeen(leg) == paid[leg] = 1

WinnerConfirmed ==
    /\ exec.at \in {"confirm", "credit"}
    /\ CreditSeen("WINNER")
    /\ BeginOwner
    /\ UNCHANGED <<durableRetry, reserved, ready, network, paid, process>>

\* Fault: the answer of the confirmation is not looked at.
OwnerAnyway ==
    /\ exec.at \in {"confirm", "credit"} /\ BeginOwner
    /\ UNCHANGED <<durableRetry, reserved, ready, network, paid, process>>

\* No credit found (yet): an old intent is retried if the adapter can replay.
WinnerNotConfirmed ==
    /\ exec.at \in {"confirm", "credit"}
    /\ IF exec.at = "confirm" /\ Replays THEN Send("WINNER") ELSE Finish
    /\ UNCHANGED <<files, reserved, ready, network, paid, process>>

\* The node's answer is an error: the execution throws, and settles nothing.
ConfirmationThrows ==
    /\ exec.at \in {"confirm", "credit"}
    /\ exec' = Idle
    /\ UNCHANGED <<files, reserved, ready, network, paid, process>>

\* A replayed message is the same message; without a key each send is a new one.
Reached(leg) ==
    IF Replays /\ leg \in keyed
    THEN UNCHANGED network
    ELSE /\ wire' = [wire EXCEPT ![leg] = @ + 1]
         /\ keyed' = IF Replays THEN keyed \cup {leg} ELSE keyed

\* The adapter's answer says neither that the message reached the network nor
\* that it did not.
SendTransfer(ok) ==
    /\ exec.at = "send"
    /\ Reached(exec.leg) \/ UNCHANGED network
    /\ IF ok /\ exec.leg = "WINNER" THEN exec' = [exec EXCEPT !.at = "credit"] ELSE Finish
    /\ UNCHANGED <<files, reserved, ready, paid, process>>

Evidence == \A leg \in Legs : CreditSeen(leg)

\* settlePayout of both legs; a leg without an obligation is refused.
Settlements == {Settled(leg) : leg \in {l \in Legs : Net(l) \in disk}}

\* Fault: the settlement is stored under the recipient's role alone.
SettleByRole ==
    /\ exec.at = "settle" /\ exec' = Idle /\ disk' = IF Evidence THEN disk \cup Legs ELSE disk
    /\ UNCHANGED <<durableRetry, reserved, ready, network, paid, process>>

ReconcileAndSettle ==
    /\ exec.at = "settle"
    /\ exec' = Idle
    /\ \/ Evidence /\ disk' = disk \cup Settlements
       \/ UNCHANGED disk
    /\ UNCHANGED <<durableRetry, reserved, ready, network, paid, process>>

\* TestnetPendingPayoutReconciler, beside any execution.
ReconcilerPass ==
    /\ reserved /\ "plan" \in disk /\ OpenLegs # {}
    /\ Evidence
    /\ disk' = disk \cup Settlements
    /\ UNCHANGED <<durableRetry, reserved, ready, exec, network, paid, process>>

-----------------------------------------------------------------------------
(* Environment: the chain and the process *)

Land(leg) ==
    /\ paid[leg] < wire[leg]
    /\ paid' = [paid EXCEPT ![leg] = @ + 1]
    /\ UNCHANGED <<files, reserved, ready, exec, network, process>>

\* Fault: startup leaves the ledger as it finds it.
AsFound(d) == d

\* RoomLedger.initialize completes the entries of a stored plan.
Repaired(d) == IF "plan" \in d THEN d \cup {Net(leg) : leg \in Legs} ELSE d

\* Fault: startup takes back the wallet of every room it finds.
RestartHolding(d) ==
    /\ crashes < MaxCrashes /\ crashes' = crashes + 1
    /\ disk' = Repaired(d) /\ reserved' = TRUE /\ ready' = FALSE /\ exec' = Idle
    /\ Journal(d) /\ UNCHANGED <<supports, network, paid>>

\* Startup: the ledger is repaired before the pool keeps, restores or releases
\* the wallet. The release started may be a newer one, never an older one.
Restart(d) ==
    /\ crashes < MaxCrashes
    /\ crashes' = crashes + 1
    /\ disk' = Repaired(d) /\ Journal(d)
    /\ supports' \in {supports, TRUE}
    /\ reserved' = Owed(Repaired(d))
    /\ ready' = FALSE
    /\ exec' = Idle
    /\ UNCHANGED <<network, paid>>

Crash == Restart(disk)
CrashWhileExecuting == CanExecute /\ \E k \in 1 .. 5 : Restart(disk \cup Written(k))

\* The winner's settlement is appended first.
CrashWhileSettling ==
    /\ exec.at = "settle" \/ OpenLegs # {}
    /\ Evidence /\ Net("WINNER") \in disk
    /\ Restart(disk \cup {Settled("WINNER")})

Next ==
    \/ ReleaseWallet
    \/ GameResultReady \/ ExecuteResult
    \/ WinnerConfirmed \/ WinnerNotConfirmed \/ ConfirmationThrows
    \/ \E ok \in BOOLEAN : SendTransfer(ok)
    \/ ReconcileAndSettle \/ ReconcilerPass
    \/ \E leg \in Legs : Land(leg)
    \/ Crash \/ CrashWhileExecuting \/ CrashWhileSettling

Spec == Init /\ [][Next]_vars

\* The financial pass runs the recovery and the reconciler every 60 s. An answer
\* of the nodes that keeps being asked for comes now and then, and a message that
\* keeps being replayed reaches the network and is executed (WalletOutbound).
Fairness ==
    /\ SF_vars(Recoverable /\ ExecuteResult)
    /\ SF_vars(WinnerNotConfirmed) /\ SF_vars(WinnerConfirmed)
    /\ WF_vars(\E ok \in BOOLEAN : SendTransfer(ok))
    /\ SF_vars(SendTransfer(TRUE) /\ wire' # wire)
    /\ WF_vars(ReconcileAndSettle) /\ SF_vars(ReconcilerPass)
    /\ \A leg \in Legs : WF_vars(Land(leg))

FairSpec == Spec /\ Fairness

-----------------------------------------------------------------------------
(* Properties *)

\* The owner's share is never sent before the winner's is finally credited,
\* across retries, repeated results and restarts.
OwnerAfterWinner == wire["OWNER"] > 0 => paid["WINNER"] > 0

\* No recipient is paid twice: not by retries and crashes, nor when a process that
\* replays stored messages takes over a payout begun by one that cannot.
PaidOnce == \A leg \in Legs : paid[leg] <= 1

\* The ledger books a leg as settled only when the chain has paid it.
SettledWasPaid == \A leg \in Legs : Settled(leg) \in disk => paid[leg] > 0

\* The pool gives the wallet to another room only when the winner and the owner
\* have both been paid.
HeldWhileOwed == ~reserved => \A leg \in Legs : paid[leg] > 0

\* What the two legs have taken out of the room's wallet, network fees aside.
Spent(p) == paid["WINNER"] * WinnerShare(p) + paid["OWNER"] * OwnerShare(p)

\* Whatever the stakes were and however often results, replays and crashes make
\* the code send a leg again, a tenth of a percent of the principal stays in the
\* room's wallet, and exactly that once both legs are settled.
ReserveStays ==
    \A p \in RoomPrincipals :
        /\ 1000 * (p - Spent(p)) >= p
        /\ (\A leg \in Legs : Settled(leg) \in disk) => 1000 * (p - Spent(p)) = p

\* All of this is what the recipients are promised.
Promise == INSTANCE PayoutPromise WITH
    claimed <- "outcome" \in disk,
    payments <- paid,
    settled <- {leg \in Legs : Settled(leg) \in disk},
    held <- reserved

\* The payout, with its repeated results, replays, crashes and restarts, keeps
\* the promise: claimed, paid in order and once, settled, and only then is the
\* wallet given up, never to be taken back.
KeepsPromise == Promise!Spec

\* The payout's messages, if any are sent, can be replayed.
Replayable == supports /\ ("journal" \in disk => durableRetry)

\* A claimed payout is completed, wherever the process died in between; one that
\* a process without replays began is only observed, and may wait for ever.
PayoutCompletes ==
    "outcome" \in disk /\ Replayable ~> \A leg \in Legs : Settled(leg) \in disk
====
