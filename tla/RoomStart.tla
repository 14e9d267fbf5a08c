----------------------------- MODULE RoomStart -----------------------------
(***************************************************************************)
(* One room from its first player to the opened game: seats and the setup  *)
(* session (Pages 1 and 2), the verification barrier (Page 3), the payment *)
(* stage with its observations of the chain (Page 4), the authorization of *)
(* the start and the activation of the game (Page 5), and every way the    *)
(* room can be closed in between.  The server handles one event at a time  *)
(* and its event bus calls subscribers synchronously, so an action is one  *)
(* handler with everything it triggers; what interleaves are the players'  *)
(* requests, the setup timer, the authorization timer and the two awaits   *)
(* of a payment check.                                                     *)
(***************************************************************************)
EXTENDS Naturals, FiniteSets

CONSTANTS
    Players,    \* everybody who may ever take a seat; nobody returns under the same id
    Creator,    \* who opens the room
    Capacity    \* maxPlayers, which the code fixes at three

ASSUME PlayersAssumption == IsFiniteSet(Players) /\ Creator \in Players
ASSUME CapacityAssumption == Capacity \in Nat \ {0, 1}

VARIABLES
    mode,          \* FRIENDS (invited, verifies on Page 3) or NO_FRIENDS (matched, goes by its options)
    room,          \* open, locked (full), destroyed (closed, but kept in memory), gone
    seat,          \* of each player: none so far, in the room, or out again
    setup,         \* state of the setup session
    alarm,         \* its expiry timer is armed
    late,          \* its expiresAt, which is the payment deadline too, has passed
    released,      \* GAME_INITIALIZED took the room out of the setup session's hands
    profiled,      \* players with a complete Page-2 profile
    wallets,       \* players whose payer address is known
    profilesReady, \* ALL_PLAYER_PROFILES_READY was emitted (once per room)
    confirmed,     \* players counted by the verification
    revealed,      \* the profiles are shown
    continued,     \* players counted by the continuation barrier
    ready,         \* NO_FRIENDS: players who chose their options
    barrier,       \* the room has entered Page 4
    prepared,      \* the payers of the room's payment session, {} without one
    booked,        \* payers whose stake is settled and in the ledger
    check,         \* the room's payment check: none, in its grace period, or observing the chain
    game,          \* none, CREATED, or READY once GAME_INITIALIZED
    config,        \* the wheel configuration is committed
    phase,         \* the latch of GameStartAuthorization: none, OPENED or FAILED
    timer,         \* its authorization timer is armed
    page5          \* players who were sent OPEN_PAGE5

roomVars == <<mode, room, seat, setup, alarm, late, released>>
pageVars == <<profiled, wallets, profilesReady, confirmed, revealed, continued, ready, barrier>>
payVars == <<prepared, booked, check>>
gameVars == <<game, config, phase, timer, page5>>
vars == <<roomVars, pageVars, payVars, gameVars>>

Seated == {p \in Players : seat[p] = "in"}
Up == room \in {"open", "locked"}
Full == Cardinality(Seated) = Capacity

----------------------------------------------------------------------------
(* The room opens with its creator, or matchmaking fills it at once.  Preparing
   the game may fail, and then the room has none. *)

Opened ==
    /\ mode = "FRIENDS"
    /\ room = "open"
    /\ seat = [p \in Players |-> IF p = Creator THEN "in" ELSE "none"]
    /\ setup = "ACTIVE"
    /\ wallets = {}
    /\ game = "none"

Matched ==
    /\ mode = "NO_FRIENDS"
    /\ room = "locked"
    /\ \E team \in SUBSET Players :
          /\ Creator \in team
          /\ Cardinality(team) = Capacity
          /\ seat = [p \in Players |-> IF p \in team THEN "in" ELSE "none"]
          /\ wallets = team
    /\ setup = "COMPLETED"
    /\ game \in {"none", "CREATED"}

Init ==
    /\ Opened \/ Matched
    /\ alarm = TRUE
    /\ late = FALSE
    /\ released = FALSE
    /\ profiled = {} /\ profilesReady = FALSE
    /\ confirmed = {} /\ revealed = FALSE
    /\ continued = {} /\ ready = {} /\ barrier = FALSE
    /\ prepared = {} /\ booked = {} /\ check = "none"
    /\ config = FALSE
    /\ phase = "none" /\ timer = FALSE /\ page5 = {}

(***************************************************************************)
(* Closing.  destroyRoom aborts the setup session; the preparation of the  *)
(* refunds may fail, and then the room stays in memory with its members,   *)
(* ROOM_DESTROYED is not emitted and its subscribers forget nothing, while *)
(* the bridge clears its own records and dismisses the players either way. *)
(* latch and armed are what GameStartAuthorization keeps in that case.     *)
(***************************************************************************)
CloseRoom(refundsPrepared, members, latch, armed) ==
    /\ room' = IF refundsPrepared THEN "gone" ELSE "destroyed"
    /\ seat' = [p \in Players |->
                  IF p \in Seated /\ (refundsPrepared \/ p \notin members)
                  THEN "out" ELSE seat[p]]
    /\ setup' = "none"
    /\ alarm' = FALSE
    /\ released' = (released /\ ~refundsPrepared)
    /\ profiled' = {} /\ wallets' = {}
    /\ profilesReady' = FALSE
    /\ confirmed' = {} /\ revealed' = FALSE
    /\ continued' = {} /\ barrier' = FALSE
    /\ ready' = IF refundsPrepared THEN {} ELSE ready
    /\ phase' = IF refundsPrepared THEN "none" ELSE latch
    /\ timer' = (armed /\ ~refundsPrepared)
    /\ UNCHANGED mode

Close == \E refundsPrepared \in BOOLEAN :
            CloseRoom(refundsPrepared, Seated, phase, timer)

\* _finishResultSession: SESSION_FINISHED first makes the authorization forget the room.
FinishSession(members) == \E refundsPrepared \in BOOLEAN :
            CloseRoom(refundsPrepared, members, "none", FALSE)

----------------------------------------------------------------------------
(* Pages 1 and 2: seats and profiles. *)

\* SETUP_SESSION_COMPLETED prepares the game, which may throw.
PrepareGame == game' \in {"none", "CREATED"}

\* ROOM_FULL completes the setup session.
CompleteSetup ==
    /\ setup' = "COMPLETED"
    /\ PrepareGame

\* The last seat fills the room, which is locked then.
Join(p) ==
    /\ room = "open"
    /\ seat[p] = "none"
    /\ seat' = [seat EXCEPT ![p] = "in"]
    /\ IF Cardinality(Seated) + 1 = Capacity
       THEN /\ room' = "locked"
            /\ CompleteSetup
       ELSE UNCHANGED <<room, setup, game>>
    /\ UNCHANGED <<mode, alarm, late, released, config, phase, timer, page5>>
    /\ UNCHANGED <<pageVars, payVars>>

\* Leaving an unstarted room: the creator closes it, anybody else frees the
\* seat, which nobody can take once the room is locked; the last one out of a
\* locked room ends the session.  What the barriers counted stays counted.
LeaveRoom(p) ==
    /\ p \in Seated
    /\ \/ /\ room = "open" /\ p = Creator
          /\ Close
       \/ /\ room = "locked" /\ Seated = {p}
          /\ FinishSession({})
       \/ /\ IF room = "open" THEN p # Creator ELSE Seated # {p}
          /\ seat' = [seat EXCEPT ![p] = "out"]
          /\ profiled' = profiled \ {p}
          /\ wallets' = wallets \ {p}
          /\ UNCHANGED <<mode, room, setup, alarm, released, phase, timer>>
          /\ UNCHANGED <<profilesReady, confirmed, revealed, continued, ready, barrier>>
    /\ UNCHANGED <<late, payVars, game, config, page5>>

\* Fault: a running game does not keep its seats.
LeaveAnyTime(p) ==
    /\ Up
    /\ LeaveRoom(p)

\* Once the game is initialized, a request to leave only marks the player offline.
Leave(p) ==
    /\ Up /\ ~released
    /\ LeaveRoom(p)

\* The wheel is configured for a prepared game; a configuration that is refused
\* (players chose different stakes) is only logged.
Configure == \E valid \in BOOLEAN : config' = (valid /\ game = "CREATED")

\* That is tried once, the first time a full room has every profile.
TakeProfile(p) ==
    /\ profiled' = profiled \union {p}
    /\ IF ~profilesReady /\ Full /\ Seated \subseteq profiled'
       THEN /\ profilesReady' = TRUE
            /\ Configure
       ELSE UNCHANGED <<profilesReady, config>>

UpdateProfile(p) ==
    /\ Up /\ p \in Seated
    /\ TakeProfile(p)
    /\ UNCHANGED <<roomVars, wallets, confirmed, revealed, continued, ready, barrier>>
    /\ UNCHANGED <<payVars, game, phase, timer, page5>>

\* Fault: the wallet can be replaced until the payment session is there.
WalletAlwaysOpen == prepared = {}

\* Page 3 gives the payer's address, until anybody has gone on from it.
WalletOpen == continued = {}

SubmitWallet(p) ==
    /\ Up /\ p \in Seated
    /\ WalletOpen
    /\ wallets' = wallets \union {p}
    /\ UNCHANGED <<roomVars, profiled, profilesReady, confirmed, revealed, continued, ready, barrier>>
    /\ UNCHANGED <<payVars, gameVars>>

----------------------------------------------------------------------------
(* Page 3: the barriers. *)

ConfirmVerify(p) ==
    /\ Up /\ p \in Seated
    /\ ~revealed
    /\ confirmed' = confirmed \union {p}
    /\ revealed' = (Cardinality(confirmed') >= Cardinality(Seated))
    /\ UNCHANGED <<roomVars, profiled, wallets, profilesReady, continued, ready, barrier>>
    /\ UNCHANGED <<payVars, gameVars>>

\* The payment session is prepared from the three identities; that may fail for
\* other reasons.
PrepareSession(profiles) ==
    \/ UNCHANGED prepared
    \/ /\ Seated \subseteq profiles \intersect wallets
       /\ ~late
       /\ prepared' = Seated

\* Fault: archiving the setup session clears its timer for good.
ArchiveUnarmed(profiles) ==
    /\ barrier' = TRUE
    /\ setup' = "ARCHIVED"
    /\ alarm' = FALSE
    /\ PrepareSession(profiles)

\* The archived setup session keeps its deadline armed.
ArchiveForPayment ==
    /\ setup' = "ARCHIVED"
    /\ alarm' = TRUE

\* Page 4 opens, and the payment session is prepared, once.
EnterPaymentStage(profiles) ==
    /\ barrier' = TRUE
    /\ ArchiveForPayment
    /\ PrepareSession(profiles)

\* The last of those present to go on takes the room to Page 4, which closes a
\* room of fewer than three.
VerifyNext(p) ==
    /\ Up /\ p \in Seated
    /\ revealed /\ p \notin continued
    /\ LET last == ~barrier /\ Cardinality(continued) + 1 >= Cardinality(Seated)
       IN  \/ /\ last /\ ~Full
              /\ Close
              /\ UNCHANGED prepared
           \/ /\ ~last \/ Full
              /\ continued' = continued \union {p}
              /\ IF last
                 THEN EnterPaymentStage(profiled)
                 ELSE UNCHANGED <<barrier, setup, alarm, prepared>>
              /\ UNCHANGED <<mode, room, seat, released, phase, timer>>
              /\ UNCHANGED <<profiled, wallets, profilesReady, confirmed, revealed, ready>>
    /\ UNCHANGED <<late, booked, check, game, config, page5>>

\* Matched players skip Page 3: their options complete the profile, and the
\* third to choose takes the room to Page 4.
OptionsNext(p) ==
    /\ mode = "NO_FRIENDS"
    /\ Up /\ p \in Seated
    /\ p \notin ready
    /\ LET last == ~barrier /\ Cardinality(ready) + 1 = Capacity
       IN  \/ /\ last /\ ~Full
              /\ Close
              /\ UNCHANGED <<prepared, config>>
           \/ /\ ~last \/ Full
              /\ TakeProfile(p)
              /\ ready' = ready \union {p}
              /\ IF last
                 THEN EnterPaymentStage(profiled')
                 ELSE UNCHANGED <<barrier, setup, alarm, prepared>>
              /\ UNCHANGED <<mode, room, seat, released, phase, timer>>
              /\ UNCHANGED <<wallets, confirmed, revealed, continued>>
    /\ UNCHANGED <<late, booked, check, game, page5>>

----------------------------------------------------------------------------
(* Page 4: a request of a seated player starts the room's one payment check. *)

RequestCheck ==
    /\ Up /\ Full /\ barrier
    /\ check = "none"
    /\ check' = "waiting"
    /\ UNCHANGED <<roomVars, pageVars, prepared, booked, gameVars>>

\* After the grace period the room must still be there, and the observation
\* budget must have a turn for it.
GraceEnds ==
    /\ check = "waiting"
    /\ \/ check' = "none"
       \/ /\ room # "gone" /\ Full /\ barrier
          /\ check' = "observing"
    /\ UNCHANGED <<roomVars, pageVars, prepared, booked, gameVars>>

\* Fault: stakes that are settled on paper are enough, booked or not.
EligibleUnbooked ==
    /\ prepared # {} /\ prepared = Seated
    /\ ~late

\* getGameStartGateStatus: a session for exactly these players, everyone's stake
\* settled and booked, before the deadline.
Eligible ==
    /\ prepared # {} /\ prepared = Seated
    /\ prepared \subseteq booked'
    /\ ~late

\* What blocks a start without being a matter of payment.
Blocked == room = "destroyed" \/ ~Full \/ game = "none"

----------------------------------------------------------------------------
(* Page 5: GameStartAuthorization and the activation of the game. *)

\* Fault: the failure is recorded under a name nobody knows.
FailUnnamed == /\ \E refundsPrepared \in BOOLEAN : CloseRoom(refundsPrepared, Seated, "BLOCKED", FALSE)
               /\ UNCHANGED <<game, config, page5>>

\* The failure latches, and the bridge closes the room.
Fail == /\ \E refundsPrepared \in BOOLEAN : CloseRoom(refundsPrepared, Seated, "FAILED", FALSE)
        /\ UNCHANGED <<game, config, page5>>

\* Fault: the setup session keeps its timer.
ActivateArmed ==
    /\ game' = "READY"
    /\ released' = TRUE
    /\ phase' = "OPENED"
    /\ timer' = FALSE
    /\ page5' = Seated
    /\ UNCHANGED <<mode, room, seat, setup, alarm, pageVars, config>>

\* GAME_INITIALIZED takes the room from the setup session and stops its timer.
Activate ==
    /\ game' = "READY"
    /\ released' = TRUE
    /\ alarm' = FALSE
    /\ phase' = "OPENED"
    /\ timer' = FALSE
    /\ page5' = Seated
    /\ UNCHANGED <<mode, room, seat, setup, pageVars, config>>

\* Fault: Page 5 is opened before the activation is known to have worked.
PageFiveFirst ==
    /\ \E refundsPrepared \in BOOLEAN : CloseRoom(refundsPrepared, Seated, "OPENED", FALSE)
    /\ page5' = Seated
    /\ UNCHANGED <<game, config>>

\* An activation that throws closes the room; if the refunds cannot be prepared
\* the authorization goes on to OPENED in a room without players.
ActivationFails ==
    /\ \E refundsPrepared \in BOOLEAN : CloseRoom(refundsPrepared, Seated, "OPENED", FALSE)
    /\ UNCHANGED <<game, config, page5>>

\* Without a committed configuration the bootstrap validation fails.
Authorize ==
    IF config THEN Activate \/ ActivationFails ELSE Fail

\* An eligible room starts; if something else blocks it, the timer decides later.
Evaluate ==
    IF phase # "none"
    THEN UNCHANGED <<mode, room, seat, setup, alarm, released, pageVars, gameVars>>
    ELSE IF Blocked
    THEN /\ timer' = TRUE
         /\ UNCHANGED <<mode, room, seat, setup, alarm, released, pageVars>>
         /\ UNCHANGED <<game, config, phase, page5>>
    ELSE Authorize

\* The observation settles and books what it finds; whatever happened to the room
\* meanwhile, an eligible roster is then reported.
ObservationEnds ==
    /\ check = "observing"
    /\ check' = "none"
    /\ \E found \in SUBSET prepared : booked' = booked \union found
    /\ IF room # "gone" /\ Eligible
       THEN Evaluate
       ELSE UNCHANGED <<mode, room, seat, setup, alarm, released, pageVars, gameVars>>
    /\ UNCHANGED <<late, prepared>>

\* The provider is unavailable, or a settlement is refused.
ObservationFails ==
    /\ check = "observing"
    /\ check' = "none"
    /\ \E found \in SUBSET prepared : booked' = booked \union found
    /\ UNCHANGED <<roomVars, pageVars, prepared, gameVars>>

\* The timer fires: whatever still blocks the start now closes the room, while
\* a missing payment is left to the setup session's deadline.
AuthorizationTimeout ==
    /\ timer
    /\ booked' = booked
    /\ IF phase # "none" \/ (~Blocked /\ ~Eligible)
       THEN /\ timer' = FALSE
            /\ UNCHANGED <<mode, room, seat, setup, alarm, released, pageVars>>
            /\ UNCHANGED <<game, config, phase, page5>>
       ELSE IF Blocked THEN Fail ELSE Authorize
    /\ UNCHANGED <<late, prepared, check>>

----------------------------------------------------------------------------
(* Time. *)

DeadlinePasses ==
    /\ ~late
    /\ late' = TRUE
    /\ UNCHANGED <<mode, room, seat, setup, alarm, released>>
    /\ UNCHANGED <<pageVars, payVars, gameVars>>

\* SETUP_SESSION_EXPIRED closes the room; if that fails, it is tried once more.
SetupExpires ==
    /\ alarm /\ late
    /\ Close
    /\ UNCHANGED <<late, payVars, game, config, page5>>

Seating == \E p \in Players : Join(p) \/ Leave(p)
Choosing == \E p \in Players : UpdateProfile(p) \/ SubmitWallet(p)
Verifying == \E p \in Players : ConfirmVerify(p) \/ VerifyNext(p) \/ OptionsNext(p)
Paying == RequestCheck \/ GraceEnds \/ ObservationEnds \/ ObservationFails
Timing == AuthorizationTimeout \/ DeadlinePasses \/ SetupExpires

Next == Seating \/ Choosing \/ Verifying \/ Paying \/ Timing

\* Node's timers fire once they are due.
Fairness == WF_vars(DeadlinePasses) /\ WF_vars(SetupExpires)

Spec == Init /\ [][Next]_vars /\ Fairness

----------------------------------------------------------------------------
TypeOK ==
    /\ mode \in {"FRIENDS", "NO_FRIENDS"}
    /\ room \in {"open", "locked", "destroyed", "gone"}
    /\ seat \in [Players -> {"none", "in", "out"}]
    /\ setup \in {"none", "ACTIVE", "COMPLETED", "ARCHIVED"}
    /\ {profiled, wallets, confirmed, continued, ready, prepared, booked, page5}
         \subseteq SUBSET Players
    /\ {alarm, late, released, profilesReady, revealed, barrier, config, timer}
         \subseteq BOOLEAN
    /\ check \in {"none", "waiting", "observing"}
    /\ game \in {"none", "CREATED", "READY"}
    /\ phase \in {"none", "OPENED", "FAILED"}

\* Nobody is asked for money before the whole table went on: although both
\* barriers count players who have left, the payers of a room that is still up
\* all pressed NEXT, or all chose their options.  (_completeVerifyBarrier, and
\* the wallet branch of _handleUpdatePlayerProfile, which keeps it true.)
PayersWentOn ==
    Up /\ prepared # {} => prepared \subseteq continued \/ prepared \subseteq ready

\* A game is initialized only for a full table that has paid, and what it was
\* started on is never undone: no late check, timer, barrier or setup deadline
\* closes the room under it or lets a stranger in.  (GAME_INITIALIZED takes the
\* room from SetupSessionLifecycle.)
StartedStaysPaid ==
    released => /\ game = "READY" /\ config
                /\ booked = prepared /\ Cardinality(prepared) = Capacity
                /\ Seated \subseteq prepared
                /\ room # "open" /\ ~alarm

\* Page 5 is opened for nobody whose game was not initialized, even when
\* activation and closure fail one after the other.
PageFiveMeansGame == page5 # {} => game = "READY" /\ page5 = prepared

\* A room that has not started always has the one timer that can end it: filling
\* it, entering Page 4, leaving players and failed starts never lose it.
ArmedUntilStarted == Up /\ ~released => alarm /\ setup # "none"

Promise == INSTANCE RoomPromise WITH
    FullTables <- {table \in SUBSET Players : Cardinality(table) = Capacity},
    stage <- IF game = "READY" THEN "playing"
             ELSE IF ~Up THEN "closed"
             ELSE IF prepared # {} THEN "asked" ELSE "gathering",
    asked <- prepared,
    paid <- booked

\* The room keeps RoomPromise: asked once, started only when all have paid, never
\* started after it was closed.
KeepsPromise == Promise!Spec
====
