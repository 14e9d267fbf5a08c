----------------------------- MODULE GamePhases -----------------------------
(***************************************************************************)
(* One game from the start of its clock to Page 6, or to a crash.          *)
(* Four engines advance on each other's events and not together: the clock *)
(* (GameClockEngine) on its phase timer, the state (GameStateEngine) on    *)
(* the clock's announcements, the wheel (PhysicsEngine) on phases and on   *)
(* its own ticks, the winner (WinnerActivation) on the stopped wheel, with *)
(* retries; the clock then waits for the winner.  Checkpoints are recorded *)
(* on the way, in the memory of the process, so a game ends with it.       *)
(* What a phase announces happens synchronously, in the timer's own step.  *)
(***************************************************************************)
EXTENDS Naturals, FiniteSets

CONSTANTS
    Tables,        \* the rosters a game can be started for
    MaxAttempts,   \* attempts to resolve the winner: three fast, three deferred
    MaxCrashes     \* bound on the crashes explored

ASSUME TablesAssumption == {} \notin Tables
ASSUME AttemptsAssumption == MaxAttempts \in Nat \ {0}
ASSUME CrashesAssumption == MaxCrashes \in Nat

VARIABLES
    server,     \* the process is up or down
    crashes,    \* crashes so far
    roster,     \* players of the game, {} before it starts
    clock,      \* current phase of the clock
    running,    \* the clock runs
    timeout,    \* its phase timer is armed
    awaiting,   \* BRAKE is over, RESULT awaits the winner
    state,      \* state of the game
    readied,    \* players ready during PRE_GAME_READY
    wheel,      \* state of the physics simulation
    attempts,   \* attempts to resolve the winner; above 0 the stop is claimed
    retry,      \* the next attempt's timer is armed
    winner,     \* the winner is resolved
    failed,     \* WINNER_RESOLUTION_FAILED
    announced,  \* GAME_RESULT_READY events so far
    page6,      \* Page 6 was opened
    recorded,   \* the game's recovery record: none, READY or RESULT
    readyOver   \* the READY phase has run out

engineVars == <<clock, running, timeout, awaiting, state, readied, wheel>>
winnerVars == <<attempts, retry, winner, failed, announced, page6>>
recoveryVars == <<recorded, readyOver>>
phaseVars == <<server, crashes, roster, engineVars, winnerVars, recoveryVars>>

Phases == {"PRE_GAME_READY", "READY", "SELF_TEST", "SPEED", "BRAKE", "RESULT"}

\* The one phase that may follow each, for the clock and for the state.
Follows == [PRE_GAME_READY |-> "READY", READY |-> "SELF_TEST", SELF_TEST |-> "SPEED",
            SPEED |-> "BRAKE", BRAKE |-> "RESULT"]

PhasesInit ==
    /\ server = "up" /\ crashes = 0 /\ roster = {}
    /\ clock = "none" /\ running = FALSE /\ timeout = FALSE /\ awaiting = FALSE
    /\ state = "none" /\ readied = {} /\ wheel = "none"
    /\ attempts = 0 /\ retry = FALSE /\ winner = FALSE /\ failed = FALSE
    /\ announced = 0 /\ page6 = FALSE
    /\ recorded = "none" /\ readyOver = FALSE

\* Fault: the clock is set to its first phase and not started.
StartStopped(table) ==
    /\ server = "up" /\ roster = {}
    /\ roster' = table
    /\ clock' = "PRE_GAME_READY" /\ state' = "PRE_GAME_READY"
    /\ timeout' = TRUE
    /\ wheel' = "CREATED"
    /\ UNCHANGED <<server, crashes, running, awaiting, readied, winnerVars, recoveryVars>>

\* _activateGameplaySession: the state, then the clock in its first phase.  No
\* checkpoint is written here: the state is announced before the clock runs.
StartGame(table) ==
    /\ server = "up" /\ roster = {}
    /\ roster' = table
    /\ clock' = "PRE_GAME_READY" /\ state' = "PRE_GAME_READY"
    /\ running' = TRUE /\ timeout' = TRUE
    /\ wheel' = "CREATED"
    /\ UNCHANGED <<server, crashes, awaiting, readied, winnerVars, recoveryVars>>

----------------------------------------------------------------------------
(* Phases that follow each other by time. *)

\* The state machine takes only the transition its table allows.
EnterState(next) ==
    state' = IF state \in DOMAIN Follows /\ Follows[state] = next THEN next ELSE state

\* READY starts the wheel and forgets the confirmations, BRAKE brakes a wheel
\* that turns; the others need it turning and leave it so.
DriveWheel(next) ==
    /\ wheel' = IF next = "READY" /\ wheel = "CREATED" THEN "RUNNING"
                ELSE IF next = "BRAKE" /\ wheel = "RUNNING" THEN "BRAKING"
                ELSE wheel
    /\ readied' = IF next = "READY" THEN {} ELSE readied

\* A record is created, if nothing fails.  One that exists is never replaced: READY
\* by RESULT throws on a name that was not imported, which is logged.
Persist(reached) ==
    recorded' \in IF recorded = "none" THEN {"none", reached} ELSE {recorded}

\* The READY checkpoint is written before the wheel is started.
CheckpointReady(next) ==
    IF next = "READY" /\ state' = "READY" /\ wheel = "CREATED"
    THEN Persist("READY")
    ELSE UNCHANGED recorded

StartPhase(next) ==
    /\ clock' = next
    /\ timeout' = TRUE
    /\ EnterState(next)
    /\ DriveWheel(next)
    /\ CheckpointReady(next)
    /\ UNCHANGED <<server, crashes, roster, running, awaiting, winnerVars>>

PhaseTimeout ==
    /\ timeout
    /\ clock \in {"PRE_GAME_READY", "READY", "SELF_TEST", "SPEED"}
    /\ StartPhase(Follows[clock])
    /\ readyOver' = (readyOver \/ clock = "READY")

\* The last of the roster to be ready ends PRE_GAME_READY early.
Confirm(p) ==
    /\ state = "PRE_GAME_READY"
    /\ p \in roster \ readied
    /\ IF readied \union {p} = roster /\ running /\ clock = "PRE_GAME_READY"
       THEN /\ StartPhase("READY")
            /\ UNCHANGED readyOver
       ELSE /\ readied' = readied \union {p}
            /\ UNCHANGED <<server, crashes, roster, clock, running, timeout, awaiting>>
            /\ UNCHANGED <<state, wheel, winnerVars, recoveryVars>>

----------------------------------------------------------------------------
(* The winner. *)

\* Fault: the new phase's timer is cleared with the old one's.
BeginResultUntimed ==
    /\ clock' = "RESULT" /\ timeout' = FALSE /\ awaiting' = FALSE
    /\ EnterState("RESULT")

\* ResultActivation: the clock accepts RESULT during BRAKE or when it awaits it.
BeginResult ==
    /\ clock' = "RESULT" /\ timeout' = TRUE /\ awaiting' = FALSE
    /\ EnterState("RESULT")

Resolved ==
    /\ winner' = TRUE
    /\ announced' = announced + 1
    /\ retry' = FALSE
    /\ IF running /\ (clock = "BRAKE" \/ awaiting)
       THEN BeginResult
       ELSE UNCHANGED <<clock, timeout, awaiting, state>>
    /\ UNCHANGED failed

\* Tried again later, or given up.
Unresolved(late) ==
    /\ retry' = (attempts' < MaxAttempts)
    /\ failed' = ~retry'
    /\ timeout' = (timeout /\ ~late)
    /\ awaiting' = (awaiting \/ late)
    /\ UNCHANGED <<winner, announced, clock, state>>

\* One attempt to resolve the winner. late: the BRAKE phase ends in this very step.
Attempt(late) ==
    /\ attempts' = attempts + 1
    /\ Resolved \/ Unresolved(late)
    /\ UNCHANGED <<server, crashes, roster, running, readied, page6, recoveryVars>>

\* Fault: a tick may take the end of the turning for the end of the braking.
StopTurning ==
    /\ wheel \in {"RUNNING", "BRAKING"}
    /\ wheel' = "STOPPED"

StopWheel ==
    /\ wheel = "BRAKING"
    /\ wheel' = "STOPPED"

\* A tick reaches the end of the braking before the clock's timer does.
WheelStops ==
    /\ StopWheel
    /\ Attempt(FALSE)

\* Fault: the end of BRAKE moves the state on, winner or not.
BrakeMovesState ==
    /\ timeout /\ clock = "BRAKE"
    /\ \/ StopWheel /\ Attempt(TRUE)
       \/ /\ wheel # "BRAKING"
          /\ timeout' = FALSE /\ awaiting' = TRUE
          /\ EnterState("RESULT")
          /\ UNCHANGED <<server, crashes, roster, clock, running, readied, wheel>>
          /\ UNCHANGED <<winnerVars, recoveryVars>>

\* The timer stops a wheel that still brakes; without a winner the clock waits.
BrakeTimeout ==
    /\ timeout /\ clock = "BRAKE"
    /\ \/ StopWheel /\ Attempt(TRUE)
       \/ /\ wheel # "BRAKING"
          /\ timeout' = FALSE /\ awaiting' = TRUE
          /\ UNCHANGED <<server, crashes, roster, clock, running, state, readied, wheel>>
          /\ UNCHANGED <<winnerVars, recoveryVars>>

RetryResolve ==
    /\ retry
    /\ Attempt(FALSE)
    /\ UNCHANGED wheel

\* Fault: the clock's last timer comes round again.
ResultRepeats ==
    /\ timeout /\ clock = "RESULT"
    /\ announced' = announced + 1
    /\ page6' = TRUE
    /\ UNCHANGED <<server, crashes, roster, engineVars, recorded>>
    /\ UNCHANGED <<attempts, retry, winner, failed, readyOver>>

\* The last checkpoint, of a game whose state and wheel agree.
CheckpointResult ==
    IF state = "RESULT" /\ wheel = "STOPPED" THEN Persist("RESULT") ELSE UNCHANGED recorded

\* RESULT_COMPLETED announces the result again and opens Page 6; the clock has no
\* further phase.
ResultTimeout ==
    /\ timeout /\ clock = "RESULT"
    /\ announced' = announced + 1
    /\ page6' = TRUE
    /\ CheckpointResult
    /\ running' = FALSE /\ timeout' = FALSE
    /\ UNCHANGED <<server, crashes, roster, clock, awaiting, state, readied, wheel>>
    /\ UNCHANGED <<attempts, retry, winner, failed, readyOver>>

----------------------------------------------------------------------------
(* Crash and restart. *)

\* The engines live in memory, and so do the records: the next process builds a
\* new, empty store.  What was announced and shown stays a fact.
CrashGame ==
    /\ server = "up" /\ crashes < MaxCrashes
    /\ server' = "down"
    /\ crashes' = crashes + 1
    /\ clock' = "none" /\ running' = FALSE /\ timeout' = FALSE /\ awaiting' = FALSE
    /\ state' = "none" /\ readied' = {} /\ wheel' = "none"
    /\ attempts' = 0 /\ retry' = FALSE /\ winner' = FALSE /\ failed' = FALSE
    /\ recorded' = "none"
    /\ UNCHANGED <<roster, announced, page6, readyOver>>

\* recoverAll goes over the records of its store, finds none, and attaches nothing.
Restart ==
    /\ server = "down"
    /\ server' = "up"
    /\ UNCHANGED <<crashes, roster, engineVars, winnerVars, recoveryVars>>

----------------------------------------------------------------------------
Timers == PhaseTimeout \/ BrakeTimeout \/ RetryResolve \/ ResultTimeout
Inputs == \E p \in roster : Confirm(p)

GameNext == Timers \/ WheelStops \/ Inputs \/ Restart

PhasesNext == GameNext \/ CrashGame \/ \E table \in Tables : StartGame(table)

PhasesSpec == PhasesInit /\ [][PhasesNext]_phaseVars /\ WF_phaseVars(Timers)

----------------------------------------------------------------------------
PhasesTypeOK ==
    /\ server \in {"up", "down"} /\ crashes \in 0..MaxCrashes
    /\ roster \in Tables \union {{}}
    /\ {clock, state} \subseteq Phases \union {"none"}
    /\ {running, timeout, awaiting, retry, winner, failed, page6, readyOver} \subseteq BOOLEAN
    /\ readied \in SUBSET roster
    /\ wheel \in {"none", "CREATED", "RUNNING", "BRAKING", "STOPPED"}
    /\ attempts \in 0..MaxAttempts
    /\ announced \in 0..2
    /\ recorded \in {"none", "READY", "RESULT"}

\* The clock, the state and the winner agree however the timer, the ticks and the
\* retries fall: RESULT is entered by both engines together, and only once the
\* wheel stands and the winner is known. (GameStateActivation leaves that step to
\* ResultActivation.)
ResultHasWinner ==
    running => /\ state = clock
               /\ clock = "RESULT" <=> winner
               /\ winner => wheel = "STOPPED"

\* A game whose clock runs always has a timer that moves it on, or its winner was
\* given up for good: no order of brake timer, stopping wheel and retries leaves
\* the clock awaiting RESULT for nothing.
KeepsGoing == running => timeout \/ retry \/ failed

\* How far the game is: what was announced stays announced, also through a crash;
\* a game that is in no engine before that is lost.
Stage ==
    IF roster = {} THEN "before"
    ELSE IF page6 THEN "shown"
    ELSE IF announced > 0 THEN "decided"
    ELSE IF clock = "none" THEN "lost"
    ELSE IF wheel = "STOPPED" THEN "standing" ELSE "playing"

Course == INSTANCE GamePromise WITH stage <- Stage, over <- readyOver

\* Whatever the order of timers, ticks, attempts and crashes, the game takes one
\* course: started once, decided once and only on a wheel that stands after READY,
\* never back from a decision.  A crash before the decision loses it for good,
\* since the code brings no game back.
KeepsCourse == Course!Spec

\* A game whose READY checkpoint was recorded is there whenever the process is, as
\* long as READY has not run out: "ONLY durable persistence for Recovery Data
\* Contract records" (RecoveryDataPersistence.js:10), and startup "Reconstructs
\* authoritative gameplay runtime" from them (app.js:1487).
RecordedComesBack ==
    [](recorded = "READY" => [](server = "up" /\ ~readyOver => clock # "none"))
====
