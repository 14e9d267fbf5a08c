------------------------------ MODULE RoomGame ------------------------------
(***************************************************************************)
(* A room (RoomStart) and the game it starts (GamePhases), to the end: the *)
(* activation of the game starts its clock in the same step, the game runs *)
(* by itself while its players come and go, Page 6 opens the result        *)
(* session, and the room is closed by its last player or by the session's  *)
(* timer.  A crash takes the room and the game.                            *)
(***************************************************************************)
EXTENDS RoomStart, GamePhases

allVars == <<vars, phaseVars>>

\* The rosters of the games are the rooms' full tables.
ASSUME RostersAssumption ==
    Tables = {table \in SUBSET Players : Cardinality(table) = Capacity}

RoomGameInit == Init /\ PhasesInit

\* A step of the room; the one that initializes the game starts its clock.
RoomStep ==
    /\ Next
    /\ IF game' # game /\ game' = "READY" THEN StartGame(page5') ELSE UNCHANGED phaseVars

GameStep == GameNext /\ UNCHANGED vars

\* While the result session lasts (from Page 6 to the end of the room) a player
\* leaves for good, and the last one ends the session.
LeaveResults(p) ==
    /\ Up /\ released /\ page6
    /\ LeaveRoom(p)
    /\ UNCHANGED phaseVars

\* Fault: the session is over only when its players are.
ExpiresEmpty ==
    /\ Up /\ released /\ page6 /\ Seated = {}
    /\ FinishSession(Seated)
    /\ UNCHANGED <<late, payVars, game, config, page5, phaseVars>>

\* Fault: the session is counted from the first announcement of the result.
ExpiresFromWinner ==
    /\ Up /\ released /\ announced > 0
    /\ FinishSession(Seated)
    /\ UNCHANGED <<late, payVars, game, config, page5, phaseVars>>

ResultSessionExpires ==
    /\ Up /\ released /\ page6
    /\ FinishSession(Seated)
    /\ UNCHANGED <<late, payVars, game, config, page5, phaseVars>>

\* The lobby keeps nothing over a crash; the payment session and the ledger do.
\* What was initialized and who was sent to Page 5 stay facts.
Crash ==
    /\ CrashGame
    /\ room' = "gone"
    /\ seat' = [p \in Players |-> IF p \in Seated THEN "out" ELSE seat[p]]
    /\ setup' = "none" /\ alarm' = FALSE /\ released' = FALSE
    /\ profiled' = {} /\ wallets' = {} /\ profilesReady' = FALSE
    /\ confirmed' = {} /\ revealed' = FALSE
    /\ continued' = {} /\ ready' = {} /\ barrier' = FALSE
    /\ check' = "none" /\ config' = FALSE
    /\ phase' = "none" /\ timer' = FALSE
    /\ UNCHANGED <<mode, late, prepared, booked, game, page5>>

Ending == ResultSessionExpires \/ \E p \in Players : LeaveResults(p)

RoomGameNext == RoomStep \/ GameStep \/ Ending \/ Crash

\* The timers of the lobby, of the game and of the result session.
TimerFires ==
    \/ (DeadlinePasses \/ SetupExpires) /\ UNCHANGED phaseVars
    \/ Timers /\ UNCHANGED vars
    \/ ResultSessionExpires

\* Node's timers fire once they are due.
RoomGameFairness == WF_allVars(TimerFires)

RoomGameSpec == RoomGameInit /\ [][RoomGameNext]_allVars /\ RoomGameFairness

----------------------------------------------------------------------------
\* Whatever players do during the game (leave, submit, ask again), it keeps every
\* seat until Page 6. (_isActiveGameplayProtected.)
SeatsKeptToTheEnd == released /\ ~page6 => room = "locked" /\ Seated = prepared

\* The clock runs for exactly the room that was started, with the players who
\* paid for it, from the step that starts it until its result is shown.
ClockMeansStartedRoom ==
    /\ running => released /\ roster = prepared
    /\ released => running \/ page6

\* A started room is closed, by whatever means, only after its winner was
\* announced and shown; only a crash takes it before.
EndsWithResult ==
    [][released /\ Up /\ ~Up' => (page6 /\ announced = 2) \/ server' = "down"]_allVars

\* Every room is closed in the end, or its game never found a winner: nobody is
\* left in a room without a timer, from the first seat to the result session.
\* (A failed resolution does leave them: WINNER_RESOLUTION_FAILED has no subscriber.)
EveryRoomEnds == <>(~Up \/ failed)
====
