# WheelWin: a verification project

WheelWin is a three-player wheel game played for TON stakes. A Node server
(`src/server`) owns every decision: three players meet in a lobby, choose their
setup (Page 2), verify wallets (Page 3), pay their stakes into a wallet that the
room holds while it lives (Page 4), watch the wheel (Page 5) and see the result
(Page 6). The winner's prize, the owner's share and every refund are then sent
from the room's wallet. The React client (`src/client`, some 63 000 lines) shows
server state.

What can go wrong silently here is money: a stake that goes both ways, a transfer
sent twice or taken for sent, a wallet given to the next room with somebody's
money in it, a table that paid and is closed by a timer, a game that waits for
ever. The code writes every fact to its own durable file, sends at most once,
lets workers finish what a crash or a lost reply left open, and lets lobby,
authorization, clock and engines follow each other's events. The models in this
directory are about exactly that: the financial core, and the life of a room and
its game from the first seat to the result.

Contents: [Inventory](#inventory) · [Modules](#modules-and-the-code) ·
[Runs](#runs) · [Fairness](#fairness) · [Proofs](#proofs) ·
[Disagreements](#where-code-and-comments-disagree) · [Not modelled](#not-modelled-and-why) ·
[Plan](#plan)

## Inventory

All paths are under `src/server`. "Model" names the module.

| Component | State it keeps | Operations | What is hard | What makes it correct | Model |
|---|---|---|---|---|---|
| Refund lifecycle: `payment/refund/RefundObligationStore`, `RefundLifecycleCoordinator`, `TestnetOutgoingRefundProvider`, `roomWallet/TestnetNativeRefundCapabilities`, `runtime/TestnetPendingRefundReconciler` | one JSON record per debt, one claim file per broadcast | create, submit, finalize, reconcile, mark blocked, the reconciler's pass | several activations await with old snapshots; the process dies between claim, mark and send; replies are lost | a debt is sent at most once, closed only by its own transfer, and closed in the end if it landed | `RefundLifecycle`, `RefundPromise` |
| Room wallet adapter: `payment/roomWallet/RoomWalletAdapter`, `TestnetNativeTonService` | per leg an outbox file with the signed message, per wallet a sequence hold, a pending number in memory | sendTransfer with and without key, sendAllBalance, replay, renewal | lagging nodes, lost broadcasts, expiry, crash between two files | no transfer executed twice, no number shared, retried legs land | `WalletOutbound` |
| Winner payout: `payment/runtime/TestnetWinnerPayoutCoordinator`, `TestnetNativeRoomPayoutTransport`, `TestnetPendingPayoutReconciler`, `payment/ledger/RoomLedger` | outcome claim, plan, ledger entries, claim journal, an exclusive intent file per leg | onGameResult, recoverPendingResults, submit, resumeUnattempted, reconcileAndSettle, settlePayout | six writes in a row with a crash after any; repeated result events; confirmation that never comes | winner before owner, each paid once, settled only when paid, wallet held until then | `WinnerPayout`, `PayoutPromise` |
| Money of a room: `payment/incoming/*`, `payment/runtime/TestnetPendingRefundExecutor`, `HistoricalIncomingReceiptReconciler`, `countUnsettledRoomFinancialObligations`, `RoomPaymentSessionAdapter`, `RoomWalletPaymentService`, `managers/RoomManager.destroyRoom` | intents, receipts, principal entries, closed-room record, outcome, debts, the wallet's reservation | observe, match, settle, book, capture, close, release, recover | Page 4 and the executor check the same room concurrently; two writes per credit; late payments; closure races the result | one direction per stake, no wallet released with undischarged money, aborted stakes come back | `RoomFinance`, `StakesPromise` |
| Wallet pool: `payment/WalletPoolRegistry` | reservations, quarantine, history | reserve, release, restore | finite pool, restoration at startup | one room per wallet | `RoomFinance` (one wallet) |
| Payment session, gate, split: `runtime/RoomPaymentSessionAdapter`, `ThreePlayerPaymentGate`, `ledger/RoomPayoutCalculator` | session, deadlines, shares | prepareRoom, observeRoomPayments, gate, split 95 % / 4.9 % / rest | deadlines against the clock, small stakes, gas reserve | nobody plays unpaid; shares never exceed the principal, the reserve stays | session and gate in `RoomStart`, `RoomFinance`; split in `PayoutSplit` |
| Setup and lobby: `socket/RoomLobbyBridge`, `gameplay/SetupSessionLifecycle`, `managers/RoomManager`, `GameManager` | seats, profiles, payer addresses, two barriers, the setup session and its deadline, the running payment check | create, match, join, leave, profile, wallet, confirm, next, options, payment status, expiry, closure | players leave between the barriers; a payment check awaits while the room changes; a closure may fail half way | nobody is asked to pay before the table went on; an unstarted room always has its timer | `RoomStart`, `RoomPromise` |
| Game start: `gameplay/GameStartAuthorization`, `GameManager._activateGameplaySession` | latch per room (AUTHORIZED, INITIALIZING, OPENED, FAILED), its timer, the ownership of the room | evaluate, timeout, authorize, activate, fail | two timers and a chain observation decide one room; the activation may throw inside the authorization | a room opens or closes, never both; what it was started on is not undone | `RoomStart` |
| Clock, state, wheel, winner: `engines/GameClockEngine`, `GameStateEngine`, `PhysicsEngine`, `WinnerEngine`, `gameplay/GameStateActivation`, `WinnerActivation`, `ResultActivation`, `BrakePhaseController` | phase and its timer, state, simulation, frozen result, retries | PRE_GAME_READY, READY, SELF_TEST, SPEED, BRAKE, RESULT; resolveResult | BRAKE's end, the wheel's stop and the winner's retries come in any order | RESULT once, after all of them; the clock never waits for nothing | `GamePhases`, `GamePromise` |
| Result session: `gameplay/ResultSessionLifecycle`, `RoomLobbyBridge._finishResultSession` | its timer | Page 6, per-player leave, last leave, expiry | players come and go during the game and after it | seats are kept to Page 6; every room ends | `RoomGame` |
| Recovery: `recovery/RecoveryCheckpointManager`, `RecoveryOrchestrator`, `persistence/RecoveryDataPersistence` | one checkpoint record per game, in memory | checkpoint; at startup, go over the records | records and game share one process and die together | a checkpointed game comes back (it does not, see [below](#where-code-and-comments-disagree)) | record and its loss in `GamePhases`; the rebuilding of games is unreachable and not modelled |
| Player input: `input/InputAuthority` | sequence numbers per player | accept, reject | replays, duplicates | each command once | not modelled |
| Lifecycle, sockets, audit, reports, configuration, operations, client | - | - | wiring, formats, presentation | - | not modelled |

### How the parts interact

`app.js` (lines 1334 to 1374) runs one *financial pass* at start and every 60 s,
its parts in series: historical receipts, closed-room executor, recovery of
claimed prizes, payout reconciler, refund reconciler. Page 4 observes payments on
its own schedule. `GAME_RESULT_READY` (line 1384) calls `onGameResult` and
only logs an exception; the event is emitted twice, by the resolution of the
winner and by the end of RESULT, so the second is a retry. `RoomManager.destroyRoom` records the closure and prepares
refunds before the room disappears. Everything is one JavaScript thread: what can
interleave is what awaits.

    players --stakes--> room wallet --prize, owner's share, refunds--> recipients
                            |                     ^
          RoomFinance: who is owed what           | WalletOutbound: one message
             |               |                    |   per sequence number
       CompleteDebt      PrizePaid                |
             |               |                    |
       RefundLifecycle   WinnerPayout ------------+

The room and the game are tied by events on one synchronous bus:

    RoomLobbyBridge --ROOM_FULL, profiles, barriers--> SetupSessionLifecycle, GameManager
          | payment check (grace, observation: the only awaits)
          v
    gate eligible -> GameStartAuthorization -> GameManager._activateGameplaySession
                            | GAME_START_FAILED      | GAME_INITIALIZED: the setup timer is
                            v                        v  cleared, the clock starts, Page 5 opens
                       _closeRoom         clock -> state -> wheel -> winner -> RESULT -> Page 6
                            ^                                                      |
                            +------------- result session: last leave or expiry <--+

`RoomStart` models this up to the started clock, `GamePhases` from there to Page 6
or to a crash, `RoomGame` puts the two together. How the room's stakes and
closure continue in the files is `RoomFinance`.

`RoomFinance` takes `CompleteDebt` and `PrizePaid` as single steps;
`RefundLifecycle` and `WinnerPayout` are what happens inside them. `WinnerPayout`
in turn takes from the adapter that a key's replay is the same message
(`Reached`), which is `DeliveredOnce` of `WalletOutbound`, and that a replayed
message is executed in the end, which is `LegsLand`.

## Modules and the code

Two conventions hold throughout. A step runs from one `await` to the next. The
durable writes inside a step are one step when the process survives; the
`Crash...` actions stop it after each prefix of the writes that another run can
tell apart. `PROJECT.json` names the source lines of every definition.
Definitions whose comment starts with `Fault:` are wrong variants of the one
that follows and are not used by the specification: they state the bugs that
each property was tested against.

### RefundLifecycle, RefundPromise

| Model | Code |
|---|---|
| `record[o]` with `state`, `outgoingTx` | `refund-obligations/<id>.json`; `Allowed` is the transition table of `_commitTransition` |
| `record[o].before` | the transfers older than the debt, which the history's window leaves out |
| `claims` | `native-refund-broadcast-claims/<id>.json`, created exclusively before a broadcast |
| `caller[c]` | an activation of `submitRefund`, `finalizeRefund` or `reconcileAmbiguousSubmission`, and the await it is at |
| `worker` | `TestnetPendingRefundReconciler.runPass` with the snapshot it read |
| `sends`, `landed` | messages handed to the network; transfers executed |

The order in the code is what matters: mark `SUBMISSION_UNKNOWN` before anything
is signed (`MarkSubmissionUnknown`), claim before broadcast (`ClaimBroadcast`),
and never answer an unknown outcome by sending again (`ReplyUnknown`).
`Shape[o]` is all the chain's history shows of a transfer, so two debts can look
alike. `RefundPromise` is the abstract specification, four actions on a status
and a count: owed, paid at most once, closed by that payment or held.
`KeepsPromise` maps the detailed records onto it.

In production `submitRefund` is called by `TestnetPendingRefundExecutor` alone
(at most three per pass), and `finalizeRefund`, `reconcileAmbiguousSubmission` and
`markBlocked` have no callers outside tests; they are public operations of the
component and are modelled. The native broadcaster answers without a hash, so
every production refund is closed by the reconciler.

### WalletOutbound

`outbox[k]` is `transfers/<key>.json`, `hold` is `<wallet>.json`, `pending` is
`_pendingOutboundSeqno`, `task` is the transfer at work in the queue of
`_enqueueOutbound`, which admits one per wallet. `StartKey`, `ObserveOutbox`,
`SequenceSafe`, `SignKey`, `HoldSequence`, `Broadcast` follow
`_sendDurableTransferLocked`; `SignOnce` is the path of refunds and sweeps. A node
may answer a sequence number up to `MaxLag` behind. The wallet contract (`Land`)
executes a message only under its current number. `Expire` is `validUntil`.

### WinnerPayout, PayoutPromise, PayoutSplit

The disk is the set of files and entries that exist, each written once. An
execution (`exec`) is `_executeResult`: its six writes up to the first await are
`Writes`, in order. `confirm` and `credit` are the two places where the
transport asks the chain for the winner's credit, `settle` is
`reconcileAndSettle`. `Owed` is the part of
`countUnsettledRoomFinancialObligations` that concerns the prize; `Restart`
repairs the ledger first and restores the reservation afterwards, as
`PaymentRuntime.initialize` does.

`supports` tells whether this process's adapter stores messages and replays them by
key; a restart may bring one that does, never take it away again. `durableRetry` is
what the claim journal recorded of the adapter that began the payout, and `Replays`
needs both: an attempt made without a key may be on the wire, so a process that
could replay must only observe it. `keyed` are the legs whose stored message is on
the wire; sending them again adds nothing, while every send without a key is a new
message (`Reached`).

`PayoutPromise` is the abstract specification, four actions on what was claimed,
paid, settled and held: claim, pay the winner and then the owner once each, settle,
give the wallet up. `PayoutSplit` has the numbers: the stakes and sectors a room can
be played for, `allocatePrincipal`'s shares in whole nanotons, and when a plan is
accepted. `ReserveStays` joins the two: the transfers the payout really makes,
counted as the chain executes them, against every principal a room can hold.

### RoomFinance, StakesPromise

Intents, receipts, booked principal, the closure, the outcome, the prize and the
debts are the durable state; `watch` holds the observations under way with the
intents they read before the await (`open`), which is where Page 4 and the
executor meet. `ObservationArrives` is everything after that await: capture of
receipts, ambiguity, match and settle, booking, and for the executor the debts
and the release (`CloseBooks`). `Credits` lets each credit stop after `MATCHED`.
`Restart` is the startup order: principal repaired, reservation kept, taken back or
in conflict with the next room, then the debts of the closed room.

`StakesPromise` says the same of each payment alone, without intents, receipts,
observations, outcomes and crashes: it is sent, known, and then either played for,
with exactly one of each player, and won, or owed and returned. It never turns back,
and the wallet is given up only over payments that came to an end. `StatusOf`
reads a payment's stage off the files.

The model has one wallet, exact stakes and known payers.

### RoomStart, RoomPromise

| Model | Code |
|---|---|
| `room`, `seat` | `RoomManager`'s record (`destroyed`: closed, but its refunds could not be prepared and it stays in memory) |
| `setup`, `alarm`, `late`, `released` | `SetupSessionLifecycle`: session, its timer, its `expiresAt`, the ownership given to the game |
| `profiled`, `wallets`, `confirmed`, `revealed`, `continued`, `ready`, `barrier`, `check` | the maps of `RoomLobbyBridge` and `PlayerManager` |
| `prepared`, `booked` | the payment session's payers and the ledger's principal entries |
| `game`, `config` | the game's status, the committed wheel configuration |
| `phase`, `timer`, `page5` | the latch and the timer of `GameStartAuthorization`; who was sent Page 5 |

An action is one handler with all that its events trigger, because the bus is
synchronous; `RequestCheck`, `GraceEnds` and `ObservationEnds` are cut at the two
awaits of a payment check. Two things in the code make the properties more than a
restatement of guards. The barriers count everybody who ever pressed, also those
who left, so `VerifyNext` may be the last one without everybody having gone on;
what keeps such a player from being asked is that nobody's payer address can be
given any more once one player went on (`WalletOpen`). And a closure may fail:
`CloseRoom` then keeps the room, its latch and its timer, while the bridge forgets
the players. Friends' rooms go by Page 3, matched rooms by their options; both
meet in `EnterPaymentStage`. `RoomPromise` is the abstract specification: asked once,
of a full table; started only when all of it has paid; closed for good.

### GamePhases, GamePromise

`clock`, `running`, `timeout`, `awaiting` are `GameClockEngine`, `state` is
`GameStateEngine`, `wheel` a simulation's state, `attempts`, `retry`, `failed`
`WinnerActivation`. `StartPhase` is everything a phase's announcement does in the timer's own
step: state, checkpoint, wheel. BRAKE ends by the wheel's own tick (`WheelStops`) or by
the clock's timer (`BrakeTimeout`, which stops a wheel that still brakes);
each makes the first attempt to resolve the winner, which may be resolved
later (`RetryResolve`) or given up.

`recorded` is the game's recovery record. It lives in the process (`CrashGame` takes it),
its creation may fail, and it is never replaced: updating one throws on a name
that was not imported (`RecoveryCheckpointManager.js:622`). So `Restart` has nothing to go
over and attaches nothing. `readyOver` is a history variable for the properties.

`GamePromise` is the abstract specification, a game's course without phases, timers,
ticks and retries: started once, stands, decided, shown, or lost. `Stage` reads it off the engines; what was announced stays announced, since
the prize is claimed on it.

### RoomGame

The conjunction of the two: the room's step that initializes the game is
`StartGame` of its clock. It adds the result session and a crash, which takes the
room and the game. `Tables`, the rosters a game may have, are the
room's full tables (`RostersAssumption`).

## Runs

| Run | Configuration | States | Shows |
|---|---|---|---|
| `refund_safety` | 2 debts of different shape, 2 activations (symmetric), 1 crash | 262 474 (modulo symmetry) | `NeverPendingOnWire`, `AtMostOneBroadcast`, `CompleteMeansPaid`, `FinishedStaysFinished`, `KeepsPromise` |
| `refund_liveness` | 2 debts, 1 activation, 1 crash | 33 326 | `PaidGetsClosed` |
| `refund_alike` | 2 debts of one shape | - | violation of `CompleteMeansPaid` |
| `outbound_safety` | 2 legs, a refund, a sweep, lag 1, 1 renewal per leg, 1 crash | 257 977 | `DeliveredOnce`, `NoSharedSeqno` |
| `outbound_legs` | 2 legs alone, current nodes, 1 renewal, 1 crash | 533 | `AcceptedWasExecuted`, `LegsLand` |
| `outbound_crash` | 2 legs and a refund, 1 crash | - | violation of `AcceptedWasExecuted` |
| `payout` | begun by a process that replays or one that cannot, replaced or not at any of 3 crashes, 2000 nanotons to the TON | 994 | `OwnerAfterWinner`, `PaidOnce`, `SettledWasPaid`, `HeldWhileOwed`, `ReserveStays`, `PayoutCompletes`, `KeepsPromise` |
| `finance` | 2 players, 3 payments of which 2 by one player, 2 crashes | 66 352 | `OneDirection`, `ReleasedClean`, `AbortedMoneyReturns`, `KeepsPromise` |
| `finance_wallet` | the same, no crash | - | violation of `WalletComesBack` |
| `finance_startup` | the same, 1 crash | - | violation of `StartsAgain` |
| `room_game` | 4 people, tables of 3, both modes, 3 attempts for the winner, 1 crash | 642 904 | `PayersWentOn`, `StartedStaysPaid`, `PageFiveMeansGame`, `ArmedUntilStarted`, `ResultHasWinner`, `KeepsGoing`, `SeatsKeptToTheEnd`, `ClockMeansStartedRoom`, `KeepsPromise`, `KeepsCourse`, `EndsWithResult`, `EveryRoomEnds` |
| `game_recovery` | one table of 3, 6 attempts, 1 crash | - | violation of `RecordedComesBack` |

`refund_safety`, `outbound_safety`, `payout`, `finance` and `room_game` also check
the type invariants of their modules. `finance` and `room_game` take two to three
minutes each, the others seconds.

**Why the bounds suffice.** Two debts are needed for one to be taken for the
other, and two activations for a stale read; a third would only repeat a pair. One
crash is enough to stop between any two writes; recovery itself is
idempotent work, and where a second crash can hit a half-recovered state
(payout, finance) the run has two or three. One unit of lag already makes a node
answer a number that is on the wire. One renewal gives a leg two different
messages under one number. Two players are enough for a room in which one has
paid and one has not, and the extra payment by one of them is the one that makes
a room ambiguous; the code needs exactly three players and treats them alike.
Tables of three are the code's own size. The fourth person is the one who takes a
seat that another has left after being counted by a barrier, which is what
`PayersWentOn` is about. Three attempts for the winner instead of the code's six
(three fast, three deferred) keep a first, a middle and a last one; a second
crash would find nothing, since no game and no record comes back from the first. A TON of 2000 nanotons is the smallest one for which all the code's
amounts are whole; the arithmetic is the same for 10^9, which TLC's integers
would not hold. What the theorems cover holds for every value of these constants.

**Deadlock.** `CHECK_DEADLOCK FALSE` stands where the system really stops: all
debts finished, the prize settled, the room closed. `WalletOutbound` never stops
(a leg can always be asked for again) and is checked for deadlock.

## Fairness

The 60 s pass is the only scheduler, and nothing else is assumed of the server:

* `RefundLifecycle`: the reconciler's pass keeps taking up each eligible debt, and its
  chain query is answered now and then (strong fairness of `StartPassWith`,
  `PassFinds`). Nothing is assumed of the activations or of the network.
* `WalletOutbound`: the caller keeps retrying a leg until it is accepted (the payout
  recovery of each pass), the sequence check does not fail for ever, and a
  message that is broadcast again and again reaches the network and is executed
  before it expires at some point. Without the last one no wallet could promise
  anything.
* `WinnerPayout`: recovery and reconciler of the pass; the rest is `LegsLand`. That
  covers payouts whose messages can be replayed (`Replayable`); an attempt of a process
  that could not is only observed, and may wait for ever.
* `RoomFinance`: the executor and the history reconciler come round to the room, a
  check that is repeated is answered completely in the end and its writes
  succeed (`CompleteAnswer`); the sibling subsystems complete their work. Nothing is
  assumed of Page 4, of the game, or of anybody closing the room.

* `RoomGame`: Node's timers fire once they are due, as one weak fairness condition
  on all of them (setup deadline, phase timers, retries, result session).
  Players, payments and the ticks of the wheel are free to stop: the clock's
  BRAKE timer stops the wheel by itself. One condition suffices because each
  timer, once fired, is gone.
* `GamePhases` alone: the same for the game's timers.

Strong fairness appears where an attempt can be refused or interrupted and is
made again; weak fairness where the step only has to be taken.

## Proofs

Eight modules, all proved by TLAPS for every value of the constants, from the
assumptions named in the modules (disjoint keys, `NoTx` outside the transfers,
natural bounds, a finite set of people, tables above one player, a TON of whole
two-thousandths). Two theorems have a hypothesis besides, named in their statement:
`DistinctShapes` for `CompleteIsPaid` and `ImplementsPromise`, `Undisturbed` for
`AcceptedIsExecuted`.

| Module | Theorems | Inductive invariant |
|---|---|---|
| `RefundLifecycleProofs` | `TypeCorrect`, `SingleBroadcast`, `PendingWasNeverSent`, `CompleteIsPaid`, `FinishedIsFinal`, `ImplementsPromise` | `TypeInv`, `SendInv`, `EvidenceInv` |
| `WalletOutboundProofs` | `TypeCorrect`, `OneTransferPerSeqno`, `OneExecution`, `AcceptedIsExecuted` | `TaskInv`, `WireInv`, `DeliveryInv`, `AcceptInv` |
| `WinnerPayoutProofs` | `TypeCorrect`, `WinnerFirst`, `SettlementIsBacked`, `WalletIsHeld`, `OnePaymentPerLeg`, `WalletKeepsReserve`, `PayoutKeepsPromise` | `EvidenceInv`, `MessageInv`, `BooksInv` |
| `PayoutSplitProofs` | `SplitAlwaysExact`, `RoomAlwaysSplitsEvenly` | none: facts about integers |
| `RoomFinanceProofs` | `TypeCorrect`, `OneWay`, `CleanRelease`, `MoneyKeepsPromise` | `DirectionInv`, `CreditInv`, `PrizeInv` |
| `RoomStartProofs` | `RoomTypeCorrect`, `AlwaysArmedUntilStarted`, `PayersAlwaysWentOn`, `RoomKeepsPromise` | `RoomInv` |
| `GamePhasesProofs` | `PhasesTypeCorrect`, `ResultAlwaysHasWinner`, `AlwaysKeepsGoing`, `GameKeepsCourse` | `PhasesInv`, `ShownWasAnnounced` |
| `RoomGameProofs` | `RoomGameTypeCorrect`, `RoomAlwaysFair`, `StartedAlwaysPaid`, `PageFiveAlwaysMeansGame`, `RoomGameKeepsGoing`, `ClockAlwaysMeansStartedRoom`, `SeatsAlwaysKept`, `AlwaysEndsWithResult`, `RoomGameKeepsPromise`, `RoomGameKeepsCourse` | `RoomGameInv` |

**Refunds.** "Sent at most once" is not inductive: an activation that is about to
send must be the only one. `ClaimInv` says that without a claim nothing was sent,
that an activation past the claim owns it, alone, and that one about to send has not
sent yet; `MarkFirst` that a claim exists only for records already beyond PENDING.
`EvidenceInv` carries the evidence of a transfer with whoever holds it: records,
activations and the pass. It is proved under `DistinctShapes`, the very
condition `refund_alike` shows to be needed. The refinement then follows step
by step: each write of a record is a step of `RefundPromise` or a stutter, and a
landing is its `Pay`.

**The wallet.** `WireInv`: the hold's number is at least that of every message on
the wire, a message with the held number belongs to the held transfer, and what
is about to be broadcast is what is held. That is why a second transfer cannot
get a number already used, however far a node lags. `DeliveryInv` adds that
executed messages are below the contract's number, one per number (`ChainInv`),
that all messages of a key share the number of its file, renewed ones too
(`KeyInv`), and that a refund or sweep signs one message under its claim
(`OnceInv`).

*Accepted means executed* is not true of every wallet (see below). It is proved under
`Undisturbed`: no node lags, and either nothing crashes or the wallet sends only
payout legs that wait for each other. Each part is needed, as TLC shows. With a
refund, a crash between outbox and hold lets the refund take the leg's number
(`outbound_crash`); with lag, even without a crash, a node answers a number that is
already passed and the adapter stores a message under it before the hold refuses.
`NumberInv` is the heart: a signed number belongs to one transfer, and once the
wallet is past it that leg was executed. `PassedInv` says a new message is signed
only above the hold, and `HeldInv` or `WaitInv` say why nobody else has that
number: without crashes the hold covers every outbox file, with crashes and legs
alone the earlier legs are executed before this one is begun. `MemoryInv` keeps
the adapter's memory consistent with the files.

**The payout.** `OrderInv` relates the owner's intent file, not only the wire, to
the winner's credit, because a crash loses everything else; `SettleInv` says a
settlement implies both payments; `HoldInv` that a released wallet owes nothing,
which survives because `Owed` never becomes true again (`OwedShrinks`).
`MessageInv` bounds the messages on the wire, by the kind of payout that the journal
records: with keys they are the stored messages (`WithKeys`), without them a leg is
sent only by whoever created its intent file (`WithoutKeys`). `JournalInv` is what lets one
process take over from another: the journal is written before either intent, so
whoever changes nothing of it finds what it says true, and whoever writes it finds that
nothing was sent. `BooksInv` adds what the
promise needs of the disk: nothing is sent or settled before the plan stands with
both obligations, and the winner is settled first. Every write, confirmation and
landing is then a step of `PayoutPromise` or a stutter. A restart is two things at
once: it can settle a leg as well as bring the wallet's release to light, and is
shown not to do both.

**The split.** Rounding down is the whole argument (`RoundedDown`): for every positive
principal each share is short of its percentage by less than a nanoton, so the
reserve is never below 0.1 % (`SplitAlwaysExact`). All amounts a room of three can
hold are whole thousands if the TON is a whole multiple of 2000, so they split without
rounding at all (`RoomAlwaysSplitsEvenly`). With `PaidOnce` that bounds what leaves
the wallet (`WalletKeepsReserve`).

**The room.** `DirectionInv`: there is a plan only under a claimed PAYOUT outcome,
and once that is claimed, no debt names a credited payment (`Clean`). The second part
is what a closure, a pass and a restart must each keep; `ClaimStopsStakes` is
the reason. `CleanRelease` is an action property: `CloseBooks` and `Restart` give
the wallet up only if `Owe` is false of the very books they write
(`NothingOwed`).

The refinement of `StakesPromise` rests on one observation: checks, closures, passes
and startups do the same to a payment. `Bookkeeping` is that common shape (notice
payments, credit open intents with a payment of their player, make debts of payments
not played for, move the wallet), and `BooksAre` shows each of the four to be one.
`CreditInv` says an intent is credited with a received payment of its own player,
`PrizeInv` that a claimed prize whose room lost its wallet was paid. A game's start is then the
`Play` of one stake per player; the release is a `Release` because everything known
is discharged by the books it writes.

**The start of a room.** `PayersWentOn` needs to know whom the barriers count.
`TableWentOn` says that once anybody went on from Page 3, a full table whose payers
are all known has nobody counted who left: leaving takes the payer address away,
and no new one is accepted any more. So when the last one goes on, those counted
are those seated. `StartedForGood` is what
no later check, timer or barrier may change once the game is READY; `AskedOnce`
ties the payment session to the barrier. With them each action of the room is a
step of `RoomPromise` or a stutter: an observation that books the last stakes and
starts is its `Play`, one that books and then fails its `Close`.

**The phases.** The invariant says for each phase of the clock what state, wheel,
timer and winner may be (`PhaseFits`), for each wheel how far the winner is (`WheelFits`),
and that a stopped wheel without a winner has a retry or was given up
(`StoppedIsRetried`). The refinement of `GamePromise` needs little more: an attempt
to resolve the winner happens only in BRAKE, after READY (`AttemptBegins`), only a
game that plays ends its READY phase (`CourseInReady`), and a crash before the
decision is its `Lose`, after it a stutter (`CourseCrash`).

**Room and game.** `LinkInv` ties the two states: a running clock belongs to
a released room with the roster that paid; a released room has a running clock or
Page 6. A step of the room keeps the game (`RoomInv` is reused as it stands, since
`StartGame` touches none of its variables) and the other way round; the crash is
the one action that changes both and is proved on its own.

**Only model-checked.** The liveness properties (`PaidGetsClosed`, `LegsLand`,
`PayoutCompletes`, `AbortedMoneyReturns`, `EveryRoomEnds`): the prover does not handle liveness
under fairness or `ENABLED`. `StartsAgain`, `WalletComesBack` and `RecordedComesBack`
are false of the code. Every other property of the runs has its theorem; `outbound_legs`
checks `AcceptedWasExecuted` inside `Undisturbed`, `outbound_crash` refutes it outside.

## Where code and comments disagree

Five runs of kind `violation` show the code doing something else than it, its
comments or its tests say; `PROJECT.json` quotes the lines.

* **Two refunds that look alike** (`refund_alike`). A player who paid twice is owed two
  refunds of equal amount to one address. The reconciler looks for a transfer
  that fits and never asks whether it already closed another debt.
* **Accepted but never sent** (`outbound_crash`). After a crash between the outbox
  file and the sequence hold, a refund can use the leg's number; the replay then
  takes the passed number as proof of its own execution.
* **A wallet that never comes back** (`finance_wallet`). Nothing calls the expiry of
  intents, so an unpaid intent stays PENDING and holds the wallet for good.
* **No start after a late capture** (`finance_startup`). A payment captured after the
  release makes startup claim the wallet back from its next room, and throw.

* **Nothing is ever recovered** (`game_recovery`). The comments speak of "durable
  persistence" of recovery records and of rebuilding games from them at startup. The
  records are kept in a `Map` of the process (`RecoveryDataPersistence.js:163`), every
  start makes a new one (`app.js:1462`), and `recoverAll()` goes over it while it is empty
  (`app.js:1534`). A durable store alone would not help: `RecoveryOrchestrator` uses
  `RECOVERY_DATA_TERMINAL_STATUSES` (line 1065) and `computePayloadChecksum` (line 1350)
  without importing them, so each candidate would end in a caught ReferenceError. A game
  whose process dies is lost, with its players' stakes in the room's wallet.

More was seen while modelling and has no run of its own. The comment at
`socket/RoomLobbyBridge.js:199` says the profiles are revealed when all have
confirmed; the barrier counts players who have left, so they may be revealed earlier.
`recovery/RecoveryCheckpointManager.js:13` lists a checkpoint of PRE_GAME_READY, but
`initializeGameState` announces the state before the clock runs and the checkpoint
is skipped; and a record of READY never becomes one of RESULT, since line 622 uses
the same unimported name. Players who chose different stakes latch
`ALL_PLAYER_PROFILES_READY` without a configuration, can still pay, and the
room is then closed and refunded at its start. `app.js:1094` sets a wait for an
audit that no production event answers, so a game's records stay in memory after it.
In the financial core, two. A node that lags can make a payout leg accepted and never sent
without any crash: the outbox file is written before `_holdSequence` refuses the
stale number (`RoomWalletAdapter.js:438` and `:440`), and the next call of the leg
finds the file, sees its number passed and reports success. And matching and settling
an intent are two writes. If the second is lost, and another player of the room has paid twice, the
room's ambiguity refuses every later check: the intent stays MATCHED, is not booked,
and its receipt is skipped as credited. `AbortedMoneyReturns` therefore excludes
rooms in which somebody paid twice (`PaidTwice`); without that disjunct TLC finds the
counterexample, of eleven steps and without a crash.

Known limits the code accepts, and the models show as stuck states rather than
as violations: a refund whose broadcast was lost is held for ever and its number blocks
the wallet; a room in memory on Page 4 that is lost in a crash is never closed
and its wallet stays held; a started game that is lost in a crash is neither
refunded nor paid out, and holds its wallet as well; a room closed as completed whose prize was never claimed
stays held too; a game whose winner could not be resolved in six attempts emits
`WINNER_RESOLUTION_FAILED`, to which nobody subscribes, and its room stays
(`failed` in `EveryRoomEnds`).

## Not modelled, and why

* In `RefundLifecycle`: how amounts and gas are computed and addresses checked (a
  debt is planned or refused).
* In `WalletOutbound`: balance and gas estimation, message encoding, several
  wallets (queues, files and numbers are per wallet).
* In `WinnerPayout`: a restart with an older release than the one that began the payout;
  ledger appends that fail without a crash; network fees, which the code
  pays from the source.
* In `RoomFinance`: payments after the release, by strangers, of wrong amounts or
  wrong comments (they are captured and refunded like the surplus payment, or
  ignored), and per-intent deadlines, which the code sets together.
* In `RoomStart`: matchmaking's queue, avatars, the order of names, debug start
  (development only), and players' connections, since a disconnect changes no seat.
  Stakes as numbers: a configuration is valid or refused. A profile changed
  after all profiles were ready alters the shown sectors but not the configuration.
* In `GamePhases`: the players' input in SELF_TEST and SPEED, which turns the wheel
  and nothing else; pausing a clock, which has no production caller; the clock's two
  sources of READY's duration (frozen timers and configuration), taken as equal;
  classification, rebuilding and eviction of recovery candidates, of which the
  code never has one.
* Several rooms. Rooms share the observation budget, the wallet pool and the players'
  one-room index; the models let each refuse.
* The wallet pool as an allocator of several wallets and `InputAuthority`'s sequence
  numbers: left for later (see *Plan*).
* Chain access (`payment/toncenter`), sockets, persistence formats, audit, reports,
  configuration and the operational folders: I/O, formats and observation
  without influence on the state above.
* Physics: numerical.
* The web client: presentation.

## Plan

Done, in this order: `RefundLifecycle` with `RefundPromise`, `WalletOutbound`,
`WinnerPayout`, `RoomFinance`; then `RoomStart` with `RoomPromise`, `GamePhases`, and
their composition `RoomGame`; each with its MC module, runs and proofs; then
`PayoutPromise`, `StakesPromise`, `GamePromise` and `PayoutSplit` with their proofs.

What would be worth adding, most important first:

1. A composition in which `RoomFinance` is shown to be an abstraction of
   `WinnerPayout` (`PrizePaid`, and the hold of the wallet) and of `RoomGame` (`StartGame`,
   the closures), by refinement.
2. `WalletPool`: several wallets and rooms, so that "one room per wallet" and the
   conflict at startup are seen from the pool's side; abstract specification:
   an allocator.
3. `InputAuthority`, then the application's start and stop order.
