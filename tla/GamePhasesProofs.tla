-------------------------- MODULE GamePhasesProofs --------------------------
(***************************************************************************)
(* Proofs about GamePhases for every roster, number of attempts and number *)
(* of crashes.  PhasesInv adds to the type invariant what each engine may  *)
(* rely on about the others: without a game in memory everything is blank  *)
(* (NoGameIsBlank), a game in memory has its clock and its wheel where the *)
(* phase wants them (PhaseFits, WheelFits), a stopped wheel without a      *)
(* winner is being retried or given up (StoppedIsRetried), and no result   *)
(* was announced before READY ran out (ResultAfterReady).                  *)
(***************************************************************************)
EXTENDS GamePhases, TLAPS

NoGameIsBlank ==
    clock = "none" => /\ state = "none" /\ wheel = "none" /\ readied = {}
                      /\ ~running /\ ~timeout /\ ~awaiting
                      /\ attempts = 0 /\ ~retry /\ ~winner /\ ~failed

NotStartedIsBlank ==
    /\ roster = {} => /\ clock = "none" /\ announced = 0 /\ ~page6
                      /\ recorded = "none" /\ ~readyOver
    /\ server = "down" => clock = "none"

PhaseFits ==
    clock # "none" =>
        /\ state = clock
        /\ winner <=> clock = "RESULT"
        /\ ~running => winner
        /\ timeout => running
        /\ running /\ clock # "BRAKE" => timeout
        /\ clock = "BRAKE" => (awaiting <=> ~timeout)
        /\ clock # "BRAKE" => ~awaiting
        /\ announced = IF ~winner THEN 0 ELSE IF running THEN 1 ELSE 2

WheelFits ==
    clock # "none" =>
        /\ clock = "PRE_GAME_READY" => wheel = "CREATED"
        /\ clock \in {"READY", "SELF_TEST", "SPEED"} => wheel = "RUNNING"
        /\ clock = "BRAKE" => wheel = "STOPPED" \/ (wheel = "BRAKING" /\ timeout)
        /\ clock = "RESULT" => wheel = "STOPPED"

StoppedIsRetried ==
    /\ wheel # "STOPPED" => attempts = 0 /\ ~retry /\ ~failed
    /\ wheel = "STOPPED" => winner \/ retry \/ failed
    /\ retry => attempts < MaxAttempts /\ ~winner /\ ~failed
    /\ winner => ~failed

ResultAfterReady ==
    /\ clock \in {"SELF_TEST", "SPEED", "BRAKE", "RESULT"} => readyOver
    /\ announced > 0 => readyOver

\* The type invariant, a variable at a time, numbers apart.
EnginesTyped ==
    /\ server \in {"up", "down"}
    /\ roster \in Tables \union {{}}
    /\ clock \in Phases \union {"none"} /\ state \in Phases \union {"none"}
    /\ running \in BOOLEAN /\ timeout \in BOOLEAN /\ awaiting \in BOOLEAN
    /\ retry \in BOOLEAN /\ winner \in BOOLEAN /\ failed \in BOOLEAN
    /\ page6 \in BOOLEAN /\ readyOver \in BOOLEAN
    /\ readied \subseteq roster
    /\ wheel \in {"none", "CREATED", "RUNNING", "BRAKING", "STOPPED"}
    /\ recorded \in {"none", "READY", "RESULT"}

Counted ==
    /\ crashes \in 0..MaxCrashes
    /\ attempts \in 0..MaxAttempts
    /\ announced \in 0..2

PhasesInv ==
    /\ EnginesTyped /\ Counted
    /\ NoGameIsBlank /\ NotStartedIsBlank
    /\ PhaseFits /\ WheelFits
    /\ StoppedIsRetried /\ ResultAfterReady

USE TablesAssumption, AttemptsAssumption, CrashesAssumption

LEMMA PhasesInvInit == PhasesInit => PhasesInv
<1> SUFFICES ASSUME PhasesInit PROVE PhasesInv
  OBVIOUS
<1>1. EnginesTyped
  BY DEF PhasesInit, EnginesTyped
<1>2. Counted
  BY DEF PhasesInit, Counted
<1>3. NoGameIsBlank /\ NotStartedIsBlank /\ PhaseFits /\ WheelFits
  BY DEF PhasesInit, NoGameIsBlank, NotStartedIsBlank, PhaseFits, WheelFits
<1>4. StoppedIsRetried /\ ResultAfterReady
  BY DEF PhasesInit, StoppedIsRetried, ResultAfterReady
<1> QED
  BY <1>1, <1>2, <1>3, <1>4 DEF PhasesInv

LEMMA ConfirmInv == ASSUME PhasesInv, NEW p \in roster, Confirm(p) PROVE PhasesInv'
<1> USE DEF Confirm, StartPhase, CheckpointReady, Persist, EnterState, DriveWheel, Follows, winnerVars, recoveryVars, PhasesInv, EnginesTyped, Phases
<1>1. EnginesTyped'
  <2>1. CASE readied \union {p} = roster /\ running /\ clock = "PRE_GAME_READY"
    BY <2>1
  <2>2. CASE ~(readied \union {p} = roster /\ running /\ clock = "PRE_GAME_READY")
    BY <2>2
  <2> QED
    BY <2>1, <2>2
<1>2. NoGameIsBlank'
  BY DEF Counted, NoGameIsBlank, NotStartedIsBlank, PhaseFits, WheelFits, StoppedIsRetried, ResultAfterReady
<1>3. NotStartedIsBlank'
  BY DEF Counted, NoGameIsBlank, NotStartedIsBlank, PhaseFits, WheelFits, StoppedIsRetried, ResultAfterReady
<1>4. PhaseFits'
  BY DEF Counted, NoGameIsBlank, NotStartedIsBlank, PhaseFits, WheelFits, StoppedIsRetried, ResultAfterReady
<1>5. WheelFits'
  BY DEF Counted, NoGameIsBlank, NotStartedIsBlank, PhaseFits, WheelFits, StoppedIsRetried, ResultAfterReady
<1>6. StoppedIsRetried'
  BY DEF Counted, NoGameIsBlank, NotStartedIsBlank, PhaseFits, WheelFits, StoppedIsRetried, ResultAfterReady
<1>8. Counted'
  BY DEF Counted, NotStartedIsBlank, NoGameIsBlank, PhaseFits, StoppedIsRetried
<1>7. ResultAfterReady'
  BY DEF Counted, NoGameIsBlank, NotStartedIsBlank, PhaseFits, WheelFits, StoppedIsRetried, ResultAfterReady
<1> QED
  BY <1>1, <1>2, <1>3, <1>4, <1>5, <1>6, <1>7, <1>8

\* What one attempt does to the Boolean variables.
LEMMA ResolvedMeans ==
    ASSUME PhasesInv, Resolved, clock = "BRAKE", running, ~winner
    PROVE  /\ winner' /\ ~retry' /\ failed' = failed /\ announced' = 1
           /\ clock' = "RESULT" /\ state' = "RESULT" /\ timeout' /\ ~awaiting'
           /\ {winner', retry', failed', timeout', awaiting'} \subseteq BOOLEAN
<1>1. announced' = 1
  BY DEF PhasesInv, EnginesTyped, Counted, PhaseFits, Resolved
<1>2. winner' /\ ~retry' /\ failed' = failed
  BY DEF Resolved
<1>3. clock' = "RESULT" /\ state' = "RESULT" /\ timeout' /\ ~awaiting'
  BY DEF Resolved, BeginResult, EnterState, PhasesInv, EnginesTyped, PhaseFits, Follows
<1>4. {winner', retry', failed', timeout', awaiting'} \subseteq BOOLEAN
  BY DEF Resolved, BeginResult, PhasesInv, EnginesTyped
<1> QED
  BY <1>1, <1>2, <1>3, <1>4

LEMMA UnresolvedMeans ==
    ASSUME PhasesInv, NEW late \in BOOLEAN, Unresolved(late), attempts' \in Nat
    PROVE  /\ retry' <=> attempts' < MaxAttempts
           /\ failed' <=> ~retry'
           /\ timeout' <=> timeout /\ ~late
           /\ awaiting' <=> awaiting \/ late
           /\ {retry', failed', timeout', awaiting'} \subseteq BOOLEAN
<1>1. (attempts' < MaxAttempts) \in BOOLEAN
  OBVIOUS
<1>2. timeout \in BOOLEAN /\ awaiting \in BOOLEAN
  BY DEF PhasesInv, EnginesTyped
<1> QED
  BY <1>1, <1>2, Zenon DEF Unresolved

\* An attempt is made in BRAKE, for a wheel that stands or is stopped with it,
\* without a winner yet.
LEMMA AttemptBegins ==
    ASSUME PhasesInv, wheel = "BRAKING" \/ retry
    PROVE  /\ clock = "BRAKE" /\ running /\ ~winner /\ ~failed
           /\ roster # {} /\ server # "down"
           /\ attempts \in 0..MaxAttempts /\ attempts < MaxAttempts
           /\ readyOver /\ announced = 0
<1> USE DEF PhasesInv
<1>1. clock # "none" /\ ~winner /\ ~failed /\ wheel \in {"BRAKING", "STOPPED"}
  <2>1. wheel \in {"BRAKING", "STOPPED"} /\ ~failed
    BY DEF StoppedIsRetried
  <2>2. clock # "none"
    BY <2>1 DEF NoGameIsBlank
  <2>3. ~winner
    BY <2>2 DEF StoppedIsRetried, WheelFits, PhaseFits
  <2> QED
    BY <2>1, <2>2, <2>3
<1>2. clock = "BRAKE" /\ running
  BY <1>1 DEF EnginesTyped, WheelFits, PhaseFits, Phases
<1>3. roster # {} /\ server # "down" /\ readyOver /\ announced = 0
  BY <1>1, <1>2 DEF NotStartedIsBlank, PhaseFits, ResultAfterReady
<1>4. attempts \in 0..MaxAttempts /\ attempts < MaxAttempts
  BY DEF Counted, StoppedIsRetried
<1> QED
  BY <1>1, <1>2, <1>3, <1>4

LEMMA AttemptInv ==
    ASSUME PhasesInv, NEW late \in BOOLEAN, Attempt(late), late => timeout,
           wheel = "BRAKING" \/ retry, wheel' = "STOPPED"
    PROVE  PhasesInv'
<1> USE DEF PhasesInv
<1>1. /\ clock = "BRAKE" /\ running /\ ~winner /\ ~failed
      /\ roster # {} /\ server # "down"
      /\ attempts \in 0..MaxAttempts /\ attempts < MaxAttempts /\ wheel' = "STOPPED"
      /\ readyOver /\ announced = 0
  BY AttemptBegins
<1>2. attempts' = attempts + 1 /\ attempts' \in 0..MaxAttempts /\ attempts' \in Nat
  BY <1>1 DEF Attempt
<1>3. CASE Resolved
  <2>1. /\ winner' /\ ~retry' /\ failed' = failed /\ announced' = 1
        /\ clock' = "RESULT" /\ state' = "RESULT" /\ timeout' /\ ~awaiting'
        /\ {winner', retry', failed', timeout', awaiting'} \subseteq BOOLEAN
    BY <1>1, <1>3, ResolvedMeans
  <2>2. EnginesTyped' /\ Counted'
    BY <1>1, <1>2, <2>1 DEF Attempt, recoveryVars, EnginesTyped, Counted, Phases
  <2>3. NoGameIsBlank' /\ NotStartedIsBlank' /\ PhaseFits' /\ WheelFits'
    BY <1>1, <2>1 DEF Attempt, recoveryVars, NoGameIsBlank, NotStartedIsBlank, PhaseFits, WheelFits
  <2>4. StoppedIsRetried' /\ ResultAfterReady'
    BY <1>1, <2>1 DEF Attempt, recoveryVars, StoppedIsRetried, ResultAfterReady
  <2> QED
    BY <2>2, <2>3, <2>4
<1>4. CASE Unresolved(late)
  <2>1. /\ retry' <=> attempts' < MaxAttempts
        /\ failed' <=> ~retry'
        /\ timeout' <=> timeout /\ ~late
        /\ awaiting' <=> awaiting \/ late
        /\ {retry', failed', timeout', awaiting'} \subseteq BOOLEAN
    BY <1>2, <1>4, UnresolvedMeans
  <2>2. UNCHANGED <<winner, announced, clock, state>>
    BY <1>4 DEF Unresolved
  <2>3. EnginesTyped' /\ Counted'
    BY <1>1, <1>2, <2>1, <2>2 DEF Attempt, recoveryVars, EnginesTyped, Counted, Phases
  <2>4. NoGameIsBlank' /\ NotStartedIsBlank' /\ WheelFits' /\ ResultAfterReady'
    BY <1>1, <2>1, <2>2
    DEF Attempt, recoveryVars, NoGameIsBlank, NotStartedIsBlank, WheelFits, ResultAfterReady
  <2>5. PhaseFits' /\ StoppedIsRetried'
    <3>1. awaiting <=> ~timeout
      BY <1>1 DEF PhaseFits
    <3>2. (awaiting <=> ~timeout)'
      BY <2>1, <3>1 DEF EnginesTyped
    <3> QED
      BY <1>1, <2>1, <2>2, <3>2 DEF Attempt, recoveryVars, PhaseFits, StoppedIsRetried
  <2> QED
    BY <2>3, <2>4, <2>5
<1> QED
  BY <1>3, <1>4 DEF Attempt

LEMMA WheelStopsInv == ASSUME PhasesInv, WheelStops PROVE PhasesInv'
  BY AttemptInv DEF WheelStops, StopWheel

LEMMA RetryResolveInv == ASSUME PhasesInv, RetryResolve PROVE PhasesInv'
  BY AttemptInv DEF RetryResolve, PhasesInv, StoppedIsRetried

LEMMA BrakeTimeoutInv == ASSUME PhasesInv, BrakeTimeout PROVE PhasesInv'
<1>1. CASE StopWheel /\ Attempt(TRUE)
  BY <1>1, AttemptInv DEF BrakeTimeout, StopWheel
<1>2. CASE /\ timeout /\ clock = "BRAKE" /\ wheel # "BRAKING"
           /\ timeout' = FALSE /\ awaiting' = TRUE
           /\ UNCHANGED <<server, crashes, roster, clock, running, state, readied, wheel>>
           /\ UNCHANGED <<winnerVars, recoveryVars>>
  <2> USE <1>2 DEF winnerVars, recoveryVars, PhasesInv
  <2>1. EnginesTyped'
    <3>1. timeout' \in BOOLEAN /\ awaiting' \in BOOLEAN
      OBVIOUS
    <3>2. UNCHANGED <<server, roster, clock, running, state, readied, wheel>>
      OBVIOUS
    <3>3. UNCHANGED <<retry, winner, failed, page6, readyOver, recorded>>
      OBVIOUS
    <3> QED
      BY <3>1, <3>2, <3>3 DEF EnginesTyped, Phases
  <2>4. Counted'
    BY DEF Counted
  <2>2. NoGameIsBlank' /\ NotStartedIsBlank' /\ PhaseFits'
    BY DEF NoGameIsBlank, NotStartedIsBlank, PhaseFits
  <2>3. WheelFits' /\ StoppedIsRetried' /\ ResultAfterReady'
    BY DEF WheelFits, StoppedIsRetried, ResultAfterReady
  <2> QED
    BY <2>1, <2>2, <2>3, <2>4
<1> QED
  BY <1>1, <1>2 DEF BrakeTimeout

LEMMA ResultTimeoutInv == ASSUME PhasesInv, ResultTimeout PROVE PhasesInv'
<1> USE DEF ResultTimeout, CheckpointResult, Persist, PhasesInv, EnginesTyped, Phases
<1>1. EnginesTyped'
  BY DEF Counted, NoGameIsBlank, NotStartedIsBlank, PhaseFits, WheelFits, StoppedIsRetried, ResultAfterReady
<1>4. Counted'
  BY DEF Counted, PhaseFits
<1>2. NoGameIsBlank' /\ NotStartedIsBlank' /\ PhaseFits' /\ WheelFits'
  BY DEF NoGameIsBlank, NotStartedIsBlank, PhaseFits, WheelFits
<1>3. StoppedIsRetried' /\ ResultAfterReady'
  BY DEF NotStartedIsBlank, PhaseFits, WheelFits, StoppedIsRetried, ResultAfterReady
<1> QED
  BY <1>1, <1>2, <1>3, <1>4

LEMMA CrashGameInv == ASSUME PhasesInv, CrashGame PROVE PhasesInv'
<1> USE DEF CrashGame, PhasesInv, EnginesTyped, Phases
<1>1. EnginesTyped'
  OBVIOUS
<1>4. Counted'
  BY DEF Counted, PhaseFits
<1>2. NoGameIsBlank' /\ NotStartedIsBlank' /\ PhaseFits' /\ WheelFits'
  BY DEF NoGameIsBlank, NotStartedIsBlank, PhaseFits, WheelFits
<1>3. StoppedIsRetried' /\ ResultAfterReady'
  BY DEF NotStartedIsBlank, PhaseFits, WheelFits, StoppedIsRetried, ResultAfterReady
<1> QED
  BY <1>1, <1>2, <1>3, <1>4

LEMMA RestartInv == ASSUME PhasesInv, Restart PROVE PhasesInv'
<1> USE DEF Restart, engineVars, winnerVars, recoveryVars, PhasesInv, EnginesTyped, Phases
<1>1. EnginesTyped' /\ Counted'
  BY DEF Counted, NoGameIsBlank, NotStartedIsBlank, PhaseFits, StoppedIsRetried
<1>2. NoGameIsBlank' /\ NotStartedIsBlank' /\ PhaseFits' /\ WheelFits'
  BY DEF NoGameIsBlank, NotStartedIsBlank, PhaseFits, WheelFits
<1>3. StoppedIsRetried' /\ ResultAfterReady'
  BY DEF StoppedIsRetried, ResultAfterReady
<1> QED
  BY <1>1, <1>2, <1>3

LEMMA PhaseTimeoutInv == ASSUME PhasesInv, PhaseTimeout PROVE PhasesInv'
<1> USE DEF PhaseTimeout, StartPhase, CheckpointReady, Persist, EnterState, DriveWheel, Follows, winnerVars, PhasesInv, EnginesTyped, Phases
<1>1. EnginesTyped' /\ Counted'
  BY DEF Counted, NoGameIsBlank, NotStartedIsBlank, PhaseFits, StoppedIsRetried
<1>2. NoGameIsBlank' /\ NotStartedIsBlank' /\ PhaseFits' /\ WheelFits'
  BY DEF NoGameIsBlank, NotStartedIsBlank, PhaseFits, WheelFits
<1>3. StoppedIsRetried' /\ ResultAfterReady'
  BY DEF NotStartedIsBlank, PhaseFits, WheelFits, StoppedIsRetried, ResultAfterReady
<1> QED
  BY <1>1, <1>2, <1>3

LEMMA StartGameInv == ASSUME PhasesInv, NEW table \in Tables, StartGame(table) PROVE PhasesInv'
<1> USE DEF StartGame, winnerVars, recoveryVars, PhasesInv, EnginesTyped, Phases
<1>1. EnginesTyped' /\ Counted'
  BY DEF Counted, NoGameIsBlank, NotStartedIsBlank, PhaseFits, StoppedIsRetried
<1>2. NoGameIsBlank' /\ NotStartedIsBlank' /\ PhaseFits' /\ WheelFits'
  BY DEF NoGameIsBlank, NotStartedIsBlank, PhaseFits, WheelFits
<1>3. StoppedIsRetried' /\ ResultAfterReady'
  BY DEF NoGameIsBlank, NotStartedIsBlank, PhaseFits, WheelFits, StoppedIsRetried, ResultAfterReady
<1> QED
  BY <1>1, <1>2, <1>3

LEMMA StutterInv == ASSUME PhasesInv, UNCHANGED phaseVars PROVE PhasesInv'
<1> USE DEF phaseVars, engineVars, winnerVars, recoveryVars, PhasesInv, EnginesTyped, Phases
<1>1. EnginesTyped' /\ Counted'
  BY DEF Counted, NoGameIsBlank, NotStartedIsBlank, PhaseFits, StoppedIsRetried
<1>2. NoGameIsBlank' /\ NotStartedIsBlank' /\ PhaseFits' /\ WheelFits'
  BY DEF NoGameIsBlank, NotStartedIsBlank, PhaseFits, WheelFits
<1>3. StoppedIsRetried' /\ ResultAfterReady'
  BY DEF NotStartedIsBlank, PhaseFits, WheelFits, StoppedIsRetried, ResultAfterReady
<1> QED
  BY <1>1, <1>2, <1>3

\* A step of the game by itself keeps the invariant.
LEMMA GameNextInv == ASSUME PhasesInv, GameNext PROVE PhasesInv'
<1>1. CASE Timers
  BY <1>1, PhaseTimeoutInv, BrakeTimeoutInv, RetryResolveInv, ResultTimeoutInv DEF Timers
<1>2. CASE WheelStops
  BY <1>2, WheelStopsInv
<1>3. CASE Restart
  BY <1>3, RestartInv
<1>4. CASE Inputs
  BY <1>4, ConfirmInv DEF Inputs
<1> QED
  BY <1>1, <1>2, <1>3, <1>4 DEF GameNext

LEMMA PhasesInvNext == PhasesInv /\ [PhasesNext]_phaseVars => PhasesInv'
<1> SUFFICES ASSUME PhasesInv, [PhasesNext]_phaseVars PROVE PhasesInv'
  OBVIOUS
<1>1. CASE GameNext
  BY <1>1, GameNextInv
<1>2. CASE CrashGame
  BY <1>2, CrashGameInv
<1>3. CASE \E table \in Tables : StartGame(table)
  BY <1>3, StartGameInv
<1>4. CASE UNCHANGED phaseVars
  BY <1>4, StutterInv
<1> QED
  BY <1>1, <1>2, <1>3, <1>4 DEF PhasesNext

LEMMA AlwaysPhasesInv == PhasesSpec => []PhasesInv
  BY PhasesInvInit, PhasesInvNext, PTL DEF PhasesSpec

LEMMA PhasesInvMeans == PhasesInv => PhasesTypeOK /\ ResultHasWinner /\ KeepsGoing
  BY DEF PhasesInv, EnginesTyped, Counted, PhasesTypeOK, NoGameIsBlank, PhaseFits, WheelFits, StoppedIsRetried,
         ResultHasWinner, KeepsGoing, Phases

----------------------------------------------------------------------------
(* The game keeps its course (GamePromise). *)

ShownWasAnnounced == page6 => announced > 0

LEMMA ShownStep ==
    ASSUME PhasesInv, ShownWasAnnounced, [PhasesNext]_phaseVars
    PROVE  ShownWasAnnounced'
<1> USE DEF phaseVars, engineVars, winnerVars, recoveryVars
<1>1. announced \in Nat
  BY DEF PhasesInv, Counted
<1>2. announced' = announced \/ announced' = announced + 1
  BY DEF PhasesNext, GameNext, Timers, Inputs, PhaseTimeout, Confirm, StartPhase, BrakeTimeout,
     WheelStops, RetryResolve, Attempt, Resolved, Unresolved, ResultTimeout, Restart, CrashGame, StartGame
<1>3. page6' = page6 \/ announced' = announced + 1
  BY DEF PhasesNext, GameNext, Timers, Inputs, PhaseTimeout, Confirm, StartPhase, BrakeTimeout,
     WheelStops, RetryResolve, Attempt, ResultTimeout, Restart, CrashGame, StartGame
<1>4. announced > 0 => announced' > 0
  BY <1>1, <1>2
<1>5. announced' = announced + 1 => announced' > 0
  BY <1>1
<1> QED
  BY <1>3, <1>4, <1>5, Zenon DEF ShownWasAnnounced

\* What happens to neither the announcements nor the wheel's stand is not seen.
LEMMA CourseQuiet ==
    ASSUME UNCHANGED <<roster, page6, announced, readyOver>>,
           clock = "none" <=> clock' = "none",
           wheel = "STOPPED" <=> wheel' = "STOPPED"
    PROVE  UNCHANGED Course!vars
  BY DEF Course!vars, Stage

\* In READY a game is being played and nothing else.
LEMMA CourseInReady ==
    ASSUME PhasesInv, ShownWasAnnounced, clock = "READY"
    PROVE  Stage = "playing"
<1>1. announced = 0 /\ ~page6 /\ roster # {} /\ wheel = "RUNNING"
  BY DEF PhasesInv, Counted, PhaseFits, WheelFits, NotStartedIsBlank, ShownWasAnnounced
<1> QED
  BY <1>1 DEF Stage

\* A game that leaves the memory is lost, unless its result was announced.
LEMMA CourseCrash ==
    ASSUME PhasesInv, CrashGame
    PROVE  [Course!Next]_(Course!vars)
<1>1. CASE roster = {} \/ page6 \/ announced > 0 \/ clock = "none"
  BY <1>1 DEF CrashGame, Course!vars, Stage
<1>2. CASE roster # {} /\ ~page6 /\ ~(announced > 0) /\ clock # "none"
  BY <1>2 DEF CrashGame, Stage, Course!Next, Course!Lose
<1> QED
  BY <1>1, <1>2

LEMMA CourseAttempt ==
    ASSUME PhasesInv, ShownWasAnnounced, NEW late, Attempt(late),
           wheel = "BRAKING" \/ retry, wheel' = "STOPPED"
    PROVE  [Course!Next]_(Course!vars)
<1>1. clock = "BRAKE" /\ roster # {} /\ readyOver /\ announced = 0 /\ ~page6
  BY AttemptBegins DEF ShownWasAnnounced
<1>2. Stage \in {"playing", "standing"} /\ UNCHANGED <<roster, page6, readyOver>>
  BY <1>1 DEF Stage, Attempt, recoveryVars
<1>3. CASE Resolved
  <2>1. Stage' = "decided"
    BY <1>1, <1>2, <1>3 DEF Stage, Resolved
  <2> QED
    BY <1>1, <1>2, <2>1 DEF Course!Next, Course!Decide
<1>4. CASE Unresolved(late)
  <2>1. Stage' = "standing"
    BY <1>1, <1>2, <1>4 DEF Stage, Unresolved
  <2> QED
    BY <1>1, <1>2, <2>1 DEF Course!Next, Course!Stand, Course!vars
<1> QED
  BY <1>3, <1>4 DEF Attempt

LEMMA CoursePhase ==
    ASSUME PhasesInv, ShownWasAnnounced, PhaseTimeout \/ \E p \in roster : Confirm(p)
    PROVE  [Course!Next]_(Course!vars)
<1>1. /\ UNCHANGED <<roster, page6, announced>>
      /\ clock # "none" /\ clock' # "none"
      /\ wheel = "STOPPED" <=> wheel' = "STOPPED"
      /\ readyOver' = readyOver \/ (readyOver' = TRUE /\ clock = "READY")
      /\ roster # {}
  BY DEF PhaseTimeout, Confirm, StartPhase, DriveWheel, Follows, winnerVars, recoveryVars,
     PhasesInv, EnginesTyped, NoGameIsBlank, NotStartedIsBlank, PhaseFits, Phases
<1>2. CASE UNCHANGED readyOver
  BY <1>1, <1>2, CourseQuiet
<1>3. CASE ~readyOver /\ readyOver' = TRUE
  <2>1. Stage = "playing" /\ Stage' = Stage
    BY <1>1, <1>3, CourseInReady DEF Stage
  <2> QED
    BY <1>3, <2>1 DEF Course!Next, Course!EndReady
<1> QED
  BY <1>1, <1>2, <1>3 DEF PhasesInv, EnginesTyped

LEMMA CourseRestart ==
    ASSUME Restart
    PROVE  UNCHANGED Course!vars
  BY CourseQuiet DEF Restart, engineVars, winnerVars, recoveryVars

\* A result that is completed is shown.
LEMMA CourseResult ==
    ASSUME PhasesInv, ShownWasAnnounced, ResultTimeout
    PROVE  [Course!Next]_(Course!vars)
<1>1. announced = 1 /\ roster # {}
  BY DEF ResultTimeout, PhasesInv, PhaseFits, NotStartedIsBlank
<1>2. page6' /\ UNCHANGED <<roster, readyOver>>
  BY DEF ResultTimeout
<1>3. Stage' = "shown" /\ Stage \in {"decided", "shown"}
  BY <1>1, <1>2 DEF Stage
<1> QED
  BY <1>2, <1>3 DEF Course!Next, Course!Show, Course!vars

LEMMA CourseGame ==
    ASSUME PhasesInv, ShownWasAnnounced, GameNext
    PROVE  [Course!Next]_(Course!vars)
<1>1. CASE PhaseTimeout \/ \E p \in roster : Confirm(p)
  BY <1>1, CoursePhase
<1>2. CASE WheelStops \/ RetryResolve
  <2>1. retry => wheel = "STOPPED"
    BY DEF PhasesInv, StoppedIsRetried
  <2> QED
    BY <1>2, <2>1, CourseAttempt DEF WheelStops, RetryResolve, StopWheel
<1>3. CASE BrakeTimeout
  <2>1. CASE StopWheel /\ Attempt(TRUE)
    BY <2>1, CourseAttempt DEF StopWheel
  <2>2. CASE UNCHANGED <<roster, clock, wheel, winnerVars, recoveryVars>>
    BY <2>2, CourseQuiet DEF winnerVars, recoveryVars
  <2> QED
    BY <1>3, <2>1, <2>2 DEF BrakeTimeout
<1> QED
  BY <1>1, <1>2, <1>3, CourseResult, CourseRestart DEF GameNext, Timers, Inputs

\* A game is started by the first step of its course.
LEMMA CourseStart ==
    ASSUME PhasesInv, NEW table, table # {}, StartGame(table)
    PROVE  [Course!Next]_(Course!vars)
<1>1. Stage = "before" /\ Stage' = "playing" /\ UNCHANGED readyOver
  BY DEF StartGame, winnerVars, recoveryVars, Stage, PhasesInv, NotStartedIsBlank
<1> QED
  BY <1>1 DEF Course!Next, Course!Start

LEMMA CourseStutter == ASSUME UNCHANGED phaseVars PROVE UNCHANGED Course!vars
  BY CourseQuiet DEF phaseVars, engineVars, winnerVars, recoveryVars

LEMMA CourseInit == PhasesInit => Course!Init /\ ShownWasAnnounced
  BY DEF PhasesInit, Course!Init, Stage, ShownWasAnnounced

LEMMA CourseStep ==
    PhasesInv /\ ShownWasAnnounced /\ [PhasesNext]_phaseVars => [Course!Next]_(Course!vars)
<1> SUFFICES ASSUME PhasesInv, ShownWasAnnounced, [PhasesNext]_phaseVars
             PROVE  [Course!Next]_(Course!vars)
  OBVIOUS
<1>1. CASE \E table \in Tables : StartGame(table)
  BY <1>1, CourseStart
<1> QED
  BY <1>1, CourseGame, CourseCrash, CourseStutter DEF PhasesNext

----------------------------------------------------------------------------
\* The variables of the game stay in their sets: at most two announcements, never
\* more attempts than the retry budget of WinnerActivation.
THEOREM PhasesTypeCorrect == PhasesSpec => []PhasesTypeOK
  BY AlwaysPhasesInv, PhasesInvMeans, PTL

\* Clock, state, wheel and winner agree about RESULT in every interleaving.
THEOREM ResultAlwaysHasWinner == PhasesSpec => []ResultHasWinner
  BY AlwaysPhasesInv, PhasesInvMeans, PTL

\* A clock that runs always has what moves it on.
THEOREM AlwaysKeepsGoing == PhasesSpec => []KeepsGoing
  BY AlwaysPhasesInv, PhasesInvMeans, PTL

\* The game implements GamePromise: started once, decided once after READY on a
\* wheel that stands, final once decided, and lost for good in a crash before.
THEOREM GameKeepsCourse == PhasesSpec => KeepsCourse
<1>1. PhasesInv /\ ShownWasAnnounced /\ [PhasesNext]_phaseVars => ShownWasAnnounced'
  BY ShownStep
<1> QED
  BY <1>1, CourseInit, CourseStep, AlwaysPhasesInv, PTL DEF PhasesSpec, KeepsCourse, Course!Spec
====
