--------------------------- MODULE RoomGameProofs ---------------------------
(***************************************************************************)
(* Proofs about a room and its game together.  RoomInv and PhasesInv hold  *)
(* of each; LinkInv says how the two fit: a game was started for the       *)
(* payers of an initialized room and for nobody else, a started room is    *)
(* locked with those players until its result was shown, and a process     *)
(* that is down means the room is gone.                                    *)
(***************************************************************************)
EXTENDS RoomGame, RoomStartProofs, GamePhasesProofs

LinkInv ==
    /\ roster # {} <=> game = "READY"
    /\ roster # {} => roster = prepared
    /\ server = "down" => ~Up /\ ~released
    /\ released => running \/ page6
    /\ running => released
    /\ SeatsKeptToTheEnd
    /\ page6 => announced = 2
    /\ game = "READY" /\ Up => released /\ phase # "none"

RoomGameInv == RoomInv /\ PhasesInv /\ LinkInv

USE RostersAssumption

LEMMA RoomGameInvInit == RoomGameInit => RoomGameInv
<1> SUFFICES ASSUME Init, PhasesInit PROVE RoomGameInv
  BY DEF RoomGameInit
<1>1. RoomInv /\ PhasesInv
  BY InitInv, PhasesInvInit
<1>2. LinkInv
  BY DEF Init, Opened, Matched, PhasesInit, LinkInv, SeatsKeptToTheEnd
<1> QED
  BY <1>1, <1>2 DEF RoomGameInv

\* A clock that runs has not yet shown its result.
LEMMA ShownMeansStopped == ASSUME RoomGameInv, page6 PROVE ~running
  BY DEF RoomGameInv, LinkInv, PhasesInv, PhaseFits, NoGameIsBlank

LEMMA RoomStepInv == ASSUME RoomGameInv, RoomStep PROVE RoomGameInv'
<1> USE DEF RoomGameInv
<1>1. RoomInv'
  BY RoomInvNext DEF RoomStep
<1>2. /\ game = "READY" => UNCHANGED <<prepared, game>>
      /\ Up' => Up
      /\ Started \/ ((released' => released) /\ (game' = "READY" => game = "READY"))
      /\ released /\ Up /\ phase # "none" => UNCHANGED <<room, seat, released, phase>>
  BY NextMeans DEF RoomStep
<1>3. CASE game' # game /\ game' = "READY"
  <2>1. Started /\ StartGame(page5')
    BY <1>2, <1>3 DEF RoomStep
  <2>2. page5' = prepared' /\ page5' # {} /\ page5' \in Tables
    <3>1. page5' = prepared' /\ game' = "READY"
      BY <2>1 DEF Started
    <3>2. prepared' # {} /\ prepared' \subseteq Players /\ Cardinality(prepared') = Capacity
      BY <1>1, <3>1 DEF RoomInv, StartedForGood, AskedOnce, Typed, StartTyped
    <3> QED
      BY <3>1, <3>2
  <2>3. PhasesInv'
    BY <2>1, <2>2, StartGameInv
  <2>4. LinkInv'
    BY <2>1, <2>2 DEF Started, StartGame, LinkInv, SeatsKeptToTheEnd, winnerVars, recoveryVars,
       PhasesInv, NotStartedIsBlank, NoGameIsBlank, Up
  <2> QED
    BY <1>1, <2>3, <2>4
<1>4. CASE ~(game' # game /\ game' = "READY")
  <2>1. UNCHANGED phaseVars
    BY <1>4 DEF RoomStep
  <2>2. PhasesInv'
    BY <2>1, StutterInv
  <2>3. UNCHANGED <<server, roster, running, page6, announced>>
    BY <2>1 DEF phaseVars, engineVars, winnerVars, recoveryVars
  <2>4. CASE game = "READY" /\ Up
    <3>1. UNCHANGED <<room, seat, released, phase, prepared, game>> /\ Up' /\ Seated' = Seated
      BY <1>2, <2>4 DEF LinkInv, Up, Seated
    <3>2. LinkInv'
      BY <2>3, <2>4, <3>1 DEF LinkInv, SeatsKeptToTheEnd
    <3> QED
      BY <1>1, <2>2, <3>2
  <2>5. CASE ~(game = "READY" /\ Up)
    <3>1. (game' = "READY" <=> game = "READY") /\ (released' => released) /\ ~(game' = "READY" /\ Up')
      BY <1>2, <1>4, <2>5 DEF Started
    <3>2. released => game = "READY" /\ page6
      BY <2>5 DEF RoomInv, StartedForGood, LinkInv, SeatsKeptToTheEnd, Up
    <3>3. running => Up
      BY <3>2, ShownMeansStopped DEF LinkInv
    <3>4. LinkInv'
      BY <1>2, <2>3, <2>5, <3>1, <3>2, <3>3, ShownMeansStopped DEF LinkInv, SeatsKeptToTheEnd
    <3> QED
      BY <1>1, <2>2, <3>4
  <2> QED
    BY <2>4, <2>5
<1> QED
  BY <1>3, <1>4

\* The engines alone: what they may do to what LinkInv speaks of.
LEMMA GameStepMeans ==
    ASSUME PhasesInv, page6 => announced = 2, GameNext
    PROVE  /\ UNCHANGED roster
           /\ server' = server \/ (server = "down" /\ server' = "up")
           /\ running => running' \/ page6'
           /\ running' => running
           /\ page6 => page6'
           /\ page6' => (page6 /\ UNCHANGED announced) \/ announced' = 2
<1> USE DEF PhasesInv, phaseVars, engineVars, winnerVars, recoveryVars
<1>1. CASE PhaseTimeout \/ \E p \in roster : Confirm(p)
  BY <1>1 DEF PhaseTimeout, Confirm, StartPhase, CheckpointReady, Persist
<1>2. CASE WheelStops \/ RetryResolve \/ BrakeTimeout
  <2>1. UNCHANGED <<server, roster, running, page6>>
    BY <1>2 DEF WheelStops, RetryResolve, BrakeTimeout, Attempt
  <2>2. wheel = "BRAKING" \/ retry => announced = 0
    <3>1. wheel = "BRAKING" \/ retry => clock # "none" /\ ~winner
      BY DEF StoppedIsRetried, NoGameIsBlank, WheelFits, PhaseFits
    <3> QED
      BY <3>1 DEF PhaseFits
  <2>3. page6 => UNCHANGED announced
    <3>1. wheel = "BRAKING" \/ retry \/ UNCHANGED announced
      BY <1>2 DEF WheelStops, RetryResolve, BrakeTimeout, StopWheel
    <3> QED
      BY <2>2, <3>1
  <2> QED
    BY <2>1, <2>3
<1>3. CASE ResultTimeout
  BY <1>3 DEF ResultTimeout, CheckpointResult, Persist, PhaseFits, NoGameIsBlank
<1>4. CASE Restart
  BY <1>4 DEF Restart
<1> QED
  BY <1>1, <1>2, <1>3, <1>4 DEF GameNext, Timers, Inputs

LEMMA GameStepInv == ASSUME RoomGameInv, GameStep PROVE RoomGameInv'
<1> USE DEF RoomGameInv
<1>1. RoomInv'
  BY RoomInvStutter DEF GameStep
<1>2. PhasesInv'
  BY GameNextInv DEF GameStep
<1>3. UNCHANGED <<game, prepared, released, phase, room, seat>> /\ Up' = Up /\ Seated' = Seated
  BY DEF GameStep, vars, roomVars, payVars, gameVars, Up, Seated
<1>4. /\ UNCHANGED roster
      /\ server' = server \/ (server = "down" /\ server' = "up")
      /\ running => running' \/ page6'
      /\ running' => running
      /\ page6 => page6'
      /\ page6' => (page6 /\ UNCHANGED announced) \/ announced' = 2
  BY GameStepMeans DEF GameStep, LinkInv
<1>5. LinkInv'
  BY <1>3, <1>4 DEF LinkInv, SeatsKeptToTheEnd
<1> QED
  BY <1>1, <1>2, <1>5

\* The steps that end a room: only once its result was shown, or in a crash.
LEMMA EndingInv == ASSUME RoomGameInv, Ending PROVE RoomGameInv' /\ page6 /\ announced = 2
<1> USE DEF RoomGameInv
<1>1. Up /\ released /\ page6 /\ UNCHANGED phaseVars
      /\ UNCHANGED <<game, prepared>>
  BY DEF Ending, ResultSessionExpires, LeaveResults, LeaveRoom, payVars
<1>2. RoomInv'
  <2>1. CASE ResultSessionExpires
    BY <2>1, CloseInv DEF ResultSessionExpires, FinishSession, payVars, RoomInv, AskedOnce,
       Typed, RoomTyped, StartTyped
  <2>2. CASE \E p \in Players : LeaveResults(p)
    BY <2>2, LeaveRoomInv DEF LeaveResults
  <2> QED
    BY <2>1, <2>2 DEF Ending
<1>3. PhasesInv'
  BY <1>1, StutterInv
<1>4. /\ released' => released
      /\ Up' => UNCHANGED <<released, phase>>
  <2>1. ASSUME NEW r, NEW members, NEW latch, NEW armed, CloseRoom(r, members, latch, armed)
        PROVE  (released' => released) /\ ~Up'
    BY <2>1, CloseEnds
  <2>2. CASE ResultSessionExpires
    BY <2>1, <2>2 DEF ResultSessionExpires, FinishSession
  <2>3. ASSUME NEW p \in Players, LeaveRoom(p)
        PROVE  (released' => released) /\ (Up' => UNCHANGED <<released, phase>>)
    <3>1. CASE Close \/ FinishSession({})
      BY <2>1, <3>1 DEF Close, FinishSession
    <3>2. CASE UNCHANGED <<mode, room, setup, alarm, released, phase, timer>>
      BY <3>2
    <3> QED
      BY <2>3, <3>1, <3>2 DEF LeaveRoom
  <2> QED
    BY <2>2, <2>3 DEF Ending, LeaveResults
<1>5. LinkInv'
  BY <1>1, <1>4, ShownMeansStopped DEF LinkInv, SeatsKeptToTheEnd, phaseVars, engineVars, winnerVars, recoveryVars
<1> QED
  BY <1>1, <1>2, <1>3, <1>5 DEF LinkInv

LEMMA CrashInv == ASSUME RoomGameInv, Crash PROVE RoomGameInv'
<1> USE DEF RoomGameInv
<1>1. /\ room' = "gone" /\ ~Up' /\ Seated' = {} /\ Roster' = Roster
      /\ seat' \in [Players -> {"none", "in", "out"}]
  BY DEF Crash, Up, Seated, Roster, RoomInv, Typed, RoomTyped
<1>2. Typed'
  BY <1>1 DEF Crash, RoomInv, Typed, RoomTyped, PagesTyped, StartTyped
<1>3. SeatsBounded'
  BY <1>1, FS_EmptySet, CapacityAssumption DEF SeatsBounded
<1>4. ClosedIsBlank' /\ ArmedUntilStarted' /\ AskedOnce' /\ StartedForGood'
  BY <1>1 DEF Crash, RoomInv, ClosedIsBlank, ArmedUntilStarted, AskedOnce, StartedForGood,
     PageFiveMeansGame
<1>5. TableWentOn'
  BY <1>1 DEF Crash, RoomInv, TableWentOn, PayersWentOn
<1>6. PhasesInv'
  BY CrashGameInv DEF Crash
<1>7. LinkInv'
  BY <1>1 DEF Crash, CrashGame, LinkInv, SeatsKeptToTheEnd
<1> QED
  BY <1>2, <1>3, <1>4, <1>5, <1>6, <1>7 DEF RoomInv

LEMMA RoomGameInvStep == RoomGameInv /\ [RoomGameNext]_allVars => RoomGameInv'
<1> SUFFICES ASSUME RoomGameInv, [RoomGameNext]_allVars PROVE RoomGameInv'
  OBVIOUS
<1>1. CASE UNCHANGED allVars
  BY <1>1, RoomInvStutter, StutterInv
  DEF RoomGameInv, LinkInv, SeatsKeptToTheEnd, allVars, vars, roomVars, payVars, gameVars,
      phaseVars, engineVars, winnerVars, recoveryVars, Up, Seated
<1> QED
  BY <1>1, RoomStepInv, GameStepInv, EndingInv, CrashInv DEF RoomGameNext

LEMMA AlwaysRoomGameInv == RoomGameSpec => []RoomGameInv
  BY RoomGameInvInit, RoomGameInvStep, PTL DEF RoomGameSpec

LEMMA LinkMeans == RoomGameInv => ClockMeansStartedRoom /\ SeatsKeptToTheEnd
  BY DEF RoomGameInv, LinkInv, ClockMeansStartedRoom, RoomInv, StartedForGood

\* Only an ended game or a crash closes a started room.
LEMMA EndsStep ==
    ASSUME RoomGameInv, [RoomGameNext]_allVars, released, Up, ~Up'
    PROVE  (page6 /\ announced = 2) \/ server' = "down"
<1>1. ~RoomStep
  BY NextMeans DEF RoomStep, RoomGameInv, LinkInv, RoomInv, StartedForGood, Up
<1>2. ~GameStep /\ ~(UNCHANGED allVars)
  BY DEF GameStep, allVars, vars, roomVars, Up
<1>3. Crash => server' = "down"
  BY DEF Crash, CrashGame
<1> QED
  BY <1>1, <1>2, <1>3, EndingInv DEF RoomGameNext

LEMMA GamePromiseStep ==
    ASSUME RoomGameInv, RoomGameInv', [RoomGameNext]_allVars
    PROVE  [Promise!Next]_Promise!vars
<1> USE DEF RoomGameInv
<1>1. CASE RoomStep
  BY <1>1, PromiseStep DEF RoomStep
<1>2. CASE GameStep \/ UNCHANGED allVars
  BY <1>2, PromiseStutter DEF GameStep, allVars
<1>3. CASE Ending \/ Crash
  <2>1. UNCHANGED <<prepared, booked, game>> /\ (Up' => Up)
    BY <1>3 DEF Ending, ResultSessionExpires, LeaveResults, LeaveRoom, Crash, payVars, Up
  <2> QED
    BY <2>1, PromiseQuiet DEF RoomInv, AskedOnce
<1> QED
  BY <1>1, <1>2, <1>3 DEF RoomGameNext

LEMMA RoomCourseStep ==
    ASSUME RoomGameInv, RoomGameInv', [RoomGameNext]_allVars
    PROVE  [Course!Next]_(Course!vars)
<1> USE DEF RoomGameInv
<1>1. ShownWasAnnounced
  BY DEF LinkInv, ShownWasAnnounced
<1>2. CASE GameStep
  BY <1>1, <1>2, CourseGame DEF GameStep
<1>3. CASE RoomStep
  <2>1. CASE game' # game /\ game' = "READY"
    <3>1. StartGame(page5') /\ page5' # {}
      BY <1>3, <2>1 DEF RoomStep, StartGame, LinkInv
    <3> QED
      BY <3>1, CourseStart
  <2>2. CASE UNCHANGED phaseVars
    BY <2>2, CourseStutter
  <2> QED
    BY <1>3, <2>1, <2>2 DEF RoomStep
<1>4. CASE Ending \/ UNCHANGED allVars
  <2>1. UNCHANGED phaseVars
    BY <1>4 DEF Ending, ResultSessionExpires, LeaveResults, allVars, phaseVars
  <2> QED
    BY <2>1, CourseStutter
<1>5. CASE Crash
  BY <1>5, CourseCrash DEF Crash
<1> QED
  BY <1>2, <1>3, <1>4, <1>5 DEF RoomGameNext

----------------------------------------------------------------------------
\* Every variable of the room and of its game stays in its set.
THEOREM RoomGameTypeCorrect == RoomGameSpec => [](TypeOK /\ PhasesTypeOK)
<1>1. RoomGameInv => TypeOK /\ PhasesTypeOK
  BY RoomInvMeans, PhasesInvMeans DEF RoomGameInv
<1> QED
  BY <1>1, AlwaysRoomGameInv, PTL

\* Whoever pays went on with the whole table, and a room that has not started is
\* never without the timer that ends it, crashes and endings of games included.
THEOREM RoomAlwaysFair == RoomGameSpec => [](PayersWentOn /\ ArmedUntilStarted)
<1>1. RoomGameInv => PayersWentOn /\ ArmedUntilStarted
  BY RoomInvMeans DEF RoomGameInv
<1> QED
  BY <1>1, AlwaysRoomGameInv, PTL

\* A started room is paid for by a full table and stays so.
THEOREM StartedAlwaysPaid == RoomGameSpec => []StartedStaysPaid
<1>1. RoomGameInv => StartedStaysPaid
  BY RoomInvMeans DEF RoomGameInv
<1> QED
  BY <1>1, AlwaysRoomGameInv, PTL

\* Page 5 is opened for such a room only.
THEOREM PageFiveAlwaysMeansGame == RoomGameSpec => []PageFiveMeansGame
<1>1. RoomGameInv => PageFiveMeansGame
  BY RoomInvMeans DEF RoomGameInv
<1> QED
  BY <1>1, AlwaysRoomGameInv, PTL

\* What holds of a game by itself holds of the game of a room.
THEOREM RoomGameKeepsGoing == RoomGameSpec => [](ResultHasWinner /\ KeepsGoing)
<1>1. RoomGameInv => ResultHasWinner /\ KeepsGoing
  BY PhasesInvMeans DEF RoomGameInv
<1> QED
  BY <1>1, AlwaysRoomGameInv, PTL

\* The clock runs for exactly the started room and its payers.
THEOREM ClockAlwaysMeansStartedRoom == RoomGameSpec => []ClockMeansStartedRoom
  BY LinkMeans, AlwaysRoomGameInv, PTL

\* The game keeps every seat until Page 6.
THEOREM SeatsAlwaysKept == RoomGameSpec => []SeatsKeptToTheEnd
  BY LinkMeans, AlwaysRoomGameInv, PTL

\* A started room is closed only after its result was shown, or by a crash.
THEOREM AlwaysEndsWithResult == RoomGameSpec => EndsWithResult
<1>1. RoomGameInv /\ [RoomGameNext]_allVars =>
        [released /\ Up /\ ~Up' => (page6 /\ announced = 2) \/ server' = "down"]_allVars
  BY EndsStep
<1> QED
  BY <1>1, AlwaysRoomGameInv, PTL DEF RoomGameSpec, EndsWithResult

\* A room with its game, endings and crashes included, implements RoomPromise.
THEOREM RoomGameKeepsPromise == RoomGameSpec => KeepsPromise
<1>1. RoomGameInit => Promise!Init
  BY PromiseInit DEF RoomGameInit
<1>2. RoomGameInv /\ RoomGameInv' /\ [RoomGameNext]_allVars => [Promise!Next]_Promise!vars
  BY GamePromiseStep
<1> QED
  BY <1>1, <1>2, AlwaysRoomGameInv, PTL DEF RoomGameSpec, KeepsPromise, Promise!Spec

\* The game of a room keeps its course whatever players do and whenever the room
\* is closed or taken by a crash.
THEOREM RoomGameKeepsCourse == RoomGameSpec => KeepsCourse
<1>1. RoomGameInit => Course!Init
  BY CourseInit DEF RoomGameInit
<1>2. RoomGameInv /\ RoomGameInv' /\ [RoomGameNext]_allVars => [Course!Next]_(Course!vars)
  BY RoomCourseStep
<1> QED
  BY <1>1, <1>2, AlwaysRoomGameInv, PTL DEF RoomGameSpec, KeepsCourse, Course!Spec
====
