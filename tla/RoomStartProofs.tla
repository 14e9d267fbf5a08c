-------------------------- MODULE RoomStartProofs ---------------------------
(***************************************************************************)
(* Proofs about RoomStart for any number of people and any capacity above  *)
(* one.  RoomInv is the inductive invariant.  Its argument in short: the   *)
(* barrier is entered once in the life of a room, when the room is full    *)
(* and locked (AskedOnce), so whoever was asked to pay stays who was       *)
(* asked; only an eligible, configured room is activated (StartedForGood); *)
(* and once anybody has gone on from Page 3 no wallet is taken any more,   *)
(* so a table that is full of known wallets is still the table that went   *)
(* on together (TableWentOn).  No part of it relies on a room that has     *)
(* started staying up, so that RoomGameProofs can use it with the steps    *)
(* that end a game.                                                        *)
(***************************************************************************)
EXTENDS RoomStart, FiniteSetTheorems, TLAPS

Roster == {p \in Players : seat[p] # "none"}

\* The type invariant, a variable at a time.
RoomTyped ==
    /\ mode \in {"FRIENDS", "NO_FRIENDS"}
    /\ room \in {"open", "locked", "destroyed", "gone"}
    /\ seat \in [Players -> {"none", "in", "out"}]
    /\ setup \in {"none", "ACTIVE", "COMPLETED", "ARCHIVED"}
    /\ alarm \in BOOLEAN /\ late \in BOOLEAN /\ released \in BOOLEAN

PagesTyped ==
    /\ profiled \subseteq Players /\ wallets \subseteq Players
    /\ confirmed \subseteq Players /\ continued \subseteq Players /\ ready \subseteq Players
    /\ profilesReady \in BOOLEAN /\ revealed \in BOOLEAN /\ barrier \in BOOLEAN

StartTyped ==
    /\ prepared \subseteq Players /\ booked \subseteq Players /\ page5 \subseteq Players
    /\ check \in {"none", "waiting", "observing"}
    /\ game \in {"none", "CREATED", "READY"}
    /\ phase \in {"none", "OPENED", "FAILED"}
    /\ config \in BOOLEAN /\ timer \in BOOLEAN

Typed == RoomTyped /\ PagesTyped /\ StartTyped

SeatsBounded ==
    /\ Cardinality(Seated) <= Capacity
    /\ room = "open" => Cardinality(Seated) < Capacity
    /\ room = "gone" => Seated = {}

ClosedIsBlank == ~Up => ~alarm /\ continued = {}

AskedOnce ==
    /\ barrier => room = "locked"
    /\ prepared # {} => room # "open" /\ Cardinality(prepared) = Capacity
    /\ prepared # {} /\ Up => barrier
    /\ booked \subseteq prepared

StartedForGood ==
    /\ released => game = "READY" /\ config /\ ~alarm /\ Seated \subseteq prepared
    /\ game = "READY" => prepared # {} /\ booked = prepared
    /\ PageFiveMeansGame
    /\ config /\ Up => profilesReady

TableWentOn ==
    /\ PayersWentOn
    /\ wallets \subseteq Seated
    /\ continued # {} /\ Full /\ Seated \subseteq wallets => continued \subseteq Seated
    /\ ready \subseteq Roster
    /\ mode = "NO_FRIENDS" => room # "open" /\ Cardinality(Roster) = Capacity

RoomInv ==
    /\ Typed
    /\ SeatsBounded /\ ClosedIsBlank
    /\ ArmedUntilStarted
    /\ AskedOnce /\ StartedForGood
    /\ TableWentOn

USE PlayersAssumption, CapacityAssumption

----------------------------------------------------------------------------
(* Seats and their number. *)

LEMMA Finite == ASSUME NEW S \in SUBSET Players
                PROVE  IsFiniteSet(S) /\ Cardinality(S) \in Nat
  BY FS_Subset, FS_CardinalityType

LEMMA JoinSeats ==
    ASSUME RoomTyped, NEW p \in Players, seat[p] = "none", seat' = [seat EXCEPT ![p] = "in"]
    PROVE  /\ Seated' = Seated \union {p} /\ p \notin Seated
           /\ Roster \subseteq Roster'
           /\ Cardinality(Seated') = Cardinality(Seated) + 1
           /\ Cardinality(Seated) \in Nat
           /\ seat' \in [Players -> {"none", "in", "out"}]
<1>1. Seated' = Seated \union {p} /\ p \notin Seated
  BY DEF Seated, RoomTyped
<1>2. Seated \in SUBSET Players
  BY DEF Seated
<1>3. Cardinality(Seated') = Cardinality(Seated) + 1 /\ Cardinality(Seated) \in Nat
  BY <1>1, <1>2, Finite, FS_AddElement
<1> QED
  BY <1>1, <1>3 DEF Roster, RoomTyped

LEMMA LeaveSeats ==
    ASSUME RoomTyped, NEW p \in Seated, seat' = [seat EXCEPT ![p] = "out"]
    PROVE  /\ Seated' = Seated \ {p}
           /\ Roster' = Roster
           /\ Cardinality(Seated') = Cardinality(Seated) - 1
           /\ Cardinality(Seated) \in Nat
           /\ seat' \in [Players -> {"none", "in", "out"}]
<1>1. Seated' = Seated \ {p}
  BY DEF Seated, RoomTyped
<1>2. Seated \in SUBSET Players
  BY DEF Seated
<1>3. Cardinality(Seated') = Cardinality(Seated) - 1 /\ Cardinality(Seated) \in Nat
  BY <1>1, <1>2, Finite, FS_RemoveElement
<1> QED
  BY <1>1, <1>3 DEF Roster, Seated, RoomTyped

LEMMA CloseSeats ==
    ASSUME RoomTyped, NEW refundsPrepared, NEW members,
           seat' = [p \in Players |->
                      IF p \in Seated /\ (refundsPrepared \/ p \notin members)
                      THEN "out" ELSE seat[p]]
    PROVE  /\ Seated' \subseteq Seated
           /\ refundsPrepared => Seated' = {}
           /\ Roster' = Roster
           /\ Cardinality(Seated') <= Cardinality(Seated)
           /\ seat' \in [Players -> {"none", "in", "out"}]
<1>1. Seated' \subseteq Seated /\ (refundsPrepared => Seated' = {}) /\ Roster' = Roster
  BY DEF Seated, Roster, RoomTyped
<1>2. Seated \in SUBSET Players
  BY DEF Seated
<1>3. Cardinality(Seated') <= Cardinality(Seated)
  BY <1>1, <1>2, Finite, FS_Subset
<1> QED
  BY <1>1, <1>3 DEF RoomTyped

\* A closed room keeps the invariant, whatever else its last step booked.
LEMMA CloseInv ==
    ASSUME RoomInv, NEW refundsPrepared \in BOOLEAN, NEW members,
           NEW latch \in {"none", "OPENED", "FAILED"}, NEW armed \in BOOLEAN,
           CloseRoom(refundsPrepared, members, latch, armed),
           late' \in BOOLEAN, check' \in {"none", "waiting", "observing"},
           UNCHANGED <<prepared, game, config, page5>>,
           booked \subseteq booked', booked' \subseteq prepared
    PROVE  RoomInv'
<1> USE DEF RoomInv, Typed
<1>1. /\ Seated' \subseteq Seated
      /\ refundsPrepared => Seated' = {}
      /\ Roster' = Roster
      /\ Cardinality(Seated') <= Cardinality(Seated)
      /\ seat' \in [Players -> {"none", "in", "out"}]
  BY CloseSeats DEF CloseRoom
<1>2. /\ room' \in {"destroyed", "gone"} /\ (room' = "gone" => refundsPrepared)
      /\ ~Up'
      /\ alarm' = FALSE /\ continued' = {} /\ barrier' = FALSE /\ wallets' = {}
      /\ released' => released
      /\ UNCHANGED mode
  BY DEF CloseRoom, Up, RoomTyped
<1>3. RoomTyped'
  BY <1>1 DEF CloseRoom, RoomTyped
<1>4. PagesTyped'
  BY DEF CloseRoom, PagesTyped
<1>5. StartTyped'
  BY DEF CloseRoom, StartTyped
<1>6. SeatsBounded'
  <2>1. Cardinality(Seated') <= Capacity
    <3>1. Seated \in SUBSET Players /\ Seated' \in SUBSET Players
      BY DEF Seated
    <3> QED
      BY <1>1, <3>1, Finite DEF SeatsBounded
  <2> QED
    BY <1>1, <1>2, <2>1 DEF SeatsBounded
<1>7. ClosedIsBlank' /\ ArmedUntilStarted' /\ AskedOnce'
  BY <1>2 DEF ClosedIsBlank, ArmedUntilStarted, AskedOnce
<1>8. StartedForGood'
  BY <1>1, <1>2 DEF StartedForGood, AskedOnce, PageFiveMeansGame
<1>9. TableWentOn'
  <2>1. ready' \subseteq Roster'
    BY <1>1 DEF CloseRoom, TableWentOn
  <2> QED
    BY <1>1, <1>2, <2>1 DEF TableWentOn, PayersWentOn
<1> QED
  BY <1>3, <1>4, <1>5, <1>6, <1>7, <1>8, <1>9

----------------------------------------------------------------------------
(* The beginning. *)

LEMMA InitInv == Init => RoomInv
<1> SUFFICES ASSUME Init PROVE RoomInv
  OBVIOUS
<1>1. Typed
  BY DEF Init, Opened, Matched, Typed, RoomTyped, PagesTyped, StartTyped
<1>2. ClosedIsBlank /\ ArmedUntilStarted /\ AskedOnce
  BY DEF Init, Opened, Matched, ClosedIsBlank, ArmedUntilStarted, AskedOnce, Up
<1>3. StartedForGood
  BY DEF Init, Opened, Matched, StartedForGood, PageFiveMeansGame
<1>4. CASE Opened
  <2>1. Seated = {Creator}
    BY <1>4 DEF Opened, Seated
  <2>2. Cardinality(Seated) = 1
    BY <2>1, FS_Singleton
  <2>3. SeatsBounded
    BY <1>4, <2>2 DEF Opened, SeatsBounded
  <2>4. TableWentOn
    BY <1>4 DEF Init, Opened, TableWentOn, PayersWentOn
  <2> QED
    BY <1>1, <1>2, <1>3, <2>3, <2>4 DEF RoomInv
<1>5. CASE Matched
  <2>1. PICK team \in SUBSET Players :
           /\ Cardinality(team) = Capacity
           /\ seat = [p \in Players |-> IF p \in team THEN "in" ELSE "none"]
           /\ wallets = team
    BY <1>5 DEF Matched
  <2>2. Seated = team /\ Roster = team
    BY <2>1 DEF Seated, Roster
  <2>3. SeatsBounded
    BY <1>5, <2>1, <2>2 DEF Matched, SeatsBounded
  <2>4. TableWentOn
    BY <1>5, <2>1, <2>2 DEF Init, Matched, TableWentOn, PayersWentOn
  <2> QED
    BY <1>1, <1>2, <1>3, <2>3, <2>4 DEF RoomInv
<1> QED
  BY <1>4, <1>5 DEF Init

----------------------------------------------------------------------------
(* Seats and profiles. *)

LEMMA JoinInv == ASSUME RoomInv, NEW p \in Players, Join(p) PROVE RoomInv'
<1> USE DEF RoomInv, Typed
<1>1. /\ Seated' = Seated \union {p} /\ p \notin Seated
      /\ Roster \subseteq Roster'
      /\ Cardinality(Seated') = Cardinality(Seated) + 1
      /\ Cardinality(Seated) \in Nat
      /\ seat' \in [Players -> {"none", "in", "out"}]
  BY JoinSeats DEF Join, CompleteSetup, PrepareGame
<1>2. /\ room = "open" /\ Up /\ room' \in {"open", "locked"} /\ Up'
      /\ room' = "open" <=> Cardinality(Seated) + 1 # Capacity
      /\ game' \in {"none", "CREATED", game}
      /\ setup' \in {"COMPLETED", setup}
      /\ UNCHANGED <<mode, alarm, late, released, config, phase, timer, page5>>
      /\ UNCHANGED <<pageVars, payVars>>
  BY DEF Join, CompleteSetup, PrepareGame, Up
<1>3. prepared = {} /\ game # "READY" /\ ~released /\ page5 = {} /\ ~barrier
  BY <1>2 DEF AskedOnce, StartedForGood, PageFiveMeansGame
<1>4. Typed'
  BY <1>1, <1>2 DEF RoomTyped, PagesTyped, StartTyped, pageVars, payVars
<1>5. SeatsBounded'
  BY <1>1, <1>2 DEF SeatsBounded
<1>6. ClosedIsBlank' /\ ArmedUntilStarted'
  BY <1>2, <1>3 DEF ArmedUntilStarted, ClosedIsBlank, RoomTyped
<1>7. AskedOnce' /\ StartedForGood'
  BY <1>2, <1>3 DEF AskedOnce, StartedForGood, PageFiveMeansGame, pageVars, payVars
<1>8. TableWentOn'
  BY <1>1, <1>2, <1>3 DEF TableWentOn, PayersWentOn, pageVars, payVars
<1> QED
  BY <1>4, <1>5, <1>6, <1>7, <1>8

\* A seat is given up, in the lobby or after the game.
LEMMA LeaveRoomInv == ASSUME RoomInv, Up, NEW p \in Players, LeaveRoom(p) PROVE RoomInv'
<1> USE DEF RoomInv, Typed
<1>1. CASE Close
  <2>1. UNCHANGED <<late, payVars, game, config, page5>>
    BY DEF LeaveRoom
  <2> QED
    BY <1>1, <2>1, CloseInv DEF Close, payVars, AskedOnce, RoomTyped, StartTyped
<1>2. CASE FinishSession({})
  BY <1>2, CloseInv DEF LeaveRoom, FinishSession, payVars, AskedOnce, RoomTyped, StartTyped
<1>3. CASE /\ seat' = [seat EXCEPT ![p] = "out"]
           /\ profiled' = profiled \ {p}
           /\ wallets' = wallets \ {p}
           /\ UNCHANGED <<mode, room, setup, alarm, released, phase, timer>>
           /\ UNCHANGED <<profilesReady, confirmed, revealed, continued, ready, barrier>>
  <2>1. p \in Seated /\ UNCHANGED <<late, payVars, game, config, page5>>
    BY DEF LeaveRoom
  <2>2. /\ Seated' = Seated \ {p}
        /\ Roster' = Roster
        /\ Cardinality(Seated') = Cardinality(Seated) - 1
        /\ Cardinality(Seated) \in Nat
        /\ seat' \in [Players -> {"none", "in", "out"}]
    BY <1>3, <2>1, LeaveSeats
  <2>3. Typed'
    BY <1>3, <2>1, <2>2 DEF RoomTyped, PagesTyped, StartTyped, payVars
  <2>4. SeatsBounded' /\ ~Full'
    BY <1>3, <2>2 DEF SeatsBounded, Full
  <2>5. ClosedIsBlank' /\ ArmedUntilStarted' /\ AskedOnce'
    BY <1>3, <2>1 DEF ClosedIsBlank, ArmedUntilStarted, AskedOnce, payVars, Up
  <2>6. StartedForGood'
    BY <1>3, <2>1, <2>2 DEF StartedForGood, PageFiveMeansGame, payVars, Up
  <2>7. TableWentOn'
    BY <1>3, <2>1, <2>2, <2>4 DEF TableWentOn, PayersWentOn, payVars, Up
  <2> QED
    BY <2>3, <2>4, <2>5, <2>6, <2>7
<1> QED
  BY <1>1, <1>2, <1>3 DEF LeaveRoom

\* Taking a profile touches nothing but the profiles and, once, the configuration.
LEMMA TakeProfileMeans ==
    ASSUME RoomInv, NEW p \in Players, TakeProfile(p)
    PROVE  /\ profiled' \subseteq Players /\ profilesReady' \in BOOLEAN /\ config' \in BOOLEAN
           /\ config /\ Up => UNCHANGED <<config, profilesReady>>
           /\ config' /\ Up => profilesReady'
<1> USE DEF RoomInv, Typed
<1>1. CASE ~profilesReady /\ Full /\ Seated \subseteq profiled'
  <2>1. profilesReady' = TRUE /\ config' \in BOOLEAN
    BY <1>1 DEF TakeProfile, Configure
  <2>2. ~(config /\ Up)
    BY <1>1 DEF StartedForGood
  <2> QED
    BY <2>1, <2>2 DEF TakeProfile, Configure, PagesTyped
<1>2. CASE ~(~profilesReady /\ Full /\ Seated \subseteq profiled')
  BY <1>2 DEF TakeProfile, Configure, PagesTyped, StartTyped, StartedForGood
<1> QED
  BY <1>1, <1>2

LEMMA UpdateProfileInv == ASSUME RoomInv, NEW p \in Players, UpdateProfile(p) PROVE RoomInv'
<1> USE DEF RoomInv, Typed
<1>1. /\ profiled' \subseteq Players /\ profilesReady' \in BOOLEAN /\ config' \in BOOLEAN
      /\ config /\ Up => UNCHANGED <<config, profilesReady>>
      /\ config' /\ Up => profilesReady'
  BY TakeProfileMeans DEF UpdateProfile
<1>2. /\ Up /\ Up' /\ Seated' = Seated /\ Roster' = Roster
      /\ UNCHANGED <<mode, room, seat, setup, alarm, late, released>>
      /\ UNCHANGED <<wallets, confirmed, revealed, continued, ready, barrier>>
      /\ UNCHANGED <<prepared, booked, check, game, phase, timer, page5>>
  BY DEF UpdateProfile, roomVars, payVars, Up, Seated, Roster
<1>3. Typed'
  BY <1>1, <1>2 DEF RoomTyped, PagesTyped, StartTyped
<1>4. SeatsBounded' /\ ClosedIsBlank' /\ ArmedUntilStarted' /\ AskedOnce'
  BY <1>2 DEF SeatsBounded, ClosedIsBlank, ArmedUntilStarted, AskedOnce
<1>5. StartedForGood'
  BY <1>1, <1>2 DEF StartedForGood, PageFiveMeansGame
<1>6. TableWentOn'
  BY <1>2 DEF TableWentOn, PayersWentOn, Full
<1> QED
  BY <1>3, <1>4, <1>5, <1>6

LEMMA SubmitWalletInv == ASSUME RoomInv, NEW p \in Players, SubmitWallet(p) PROVE RoomInv'
<1> USE DEF RoomInv, Typed
<1>1. /\ Up /\ Up' /\ Seated' = Seated /\ Roster' = Roster /\ p \in Seated
      /\ continued = {} /\ wallets' = wallets \union {p}
      /\ UNCHANGED <<mode, room, seat, setup, alarm, late, released>>
      /\ UNCHANGED <<profiled, profilesReady, confirmed, revealed, continued, ready, barrier>>
      /\ UNCHANGED <<prepared, booked, check, game, config, phase, timer, page5>>
  BY DEF SubmitWallet, WalletOpen, roomVars, payVars, gameVars, Up, Seated, Roster
<1>2. Typed'
  BY <1>1 DEF RoomTyped, PagesTyped, StartTyped
<1>3. SeatsBounded' /\ ClosedIsBlank' /\ ArmedUntilStarted' /\ AskedOnce'
  BY <1>1 DEF SeatsBounded, ClosedIsBlank, ArmedUntilStarted, AskedOnce
<1>4. StartedForGood' /\ TableWentOn'
  BY <1>1 DEF StartedForGood, PageFiveMeansGame, TableWentOn, PayersWentOn
<1> QED
  BY <1>2, <1>3, <1>4

----------------------------------------------------------------------------
(* Page 3 and the way to Page 4. *)

LEMMA ConfirmVerifyInv == ASSUME RoomInv, NEW p \in Players, ConfirmVerify(p) PROVE RoomInv'
<1> USE DEF RoomInv, Typed
<1>1. /\ Up' = Up /\ Seated' = Seated /\ Roster' = Roster
      /\ confirmed' \subseteq Players /\ revealed' \in BOOLEAN
      /\ UNCHANGED <<mode, room, seat, setup, alarm, late, released>>
      /\ UNCHANGED <<profiled, wallets, profilesReady, continued, ready, barrier>>
      /\ UNCHANGED <<prepared, booked, check, game, config, phase, timer, page5>>
  <2>1. (Cardinality(confirmed') >= Cardinality(Seated)) \in BOOLEAN
    <3>1. confirmed' \in SUBSET Players /\ Seated \in SUBSET Players
      BY DEF ConfirmVerify, PagesTyped, Seated
    <3>2. Cardinality(confirmed') \in Nat /\ Cardinality(Seated) \in Nat
      BY <3>1, Finite
    <3> QED
      BY <3>2
  <2>2. revealed' \in BOOLEAN
    BY <2>1, Zenon DEF ConfirmVerify
  <2> QED
    BY <2>2 DEF ConfirmVerify, PagesTyped, roomVars, payVars, gameVars, Up, Seated, Roster
<1>2. Typed'
  BY <1>1 DEF RoomTyped, PagesTyped, StartTyped
<1>3. SeatsBounded' /\ ClosedIsBlank' /\ ArmedUntilStarted' /\ AskedOnce'
  BY <1>1 DEF SeatsBounded, ClosedIsBlank, ArmedUntilStarted, AskedOnce
<1>4. StartedForGood' /\ TableWentOn'
  BY <1>1 DEF StartedForGood, PageFiveMeansGame, TableWentOn, PayersWentOn, Full
<1> QED
  BY <1>2, <1>3, <1>4

\* Page 4 is entered by a full room that has asked nobody yet; who is asked is
\* the whole table, and every one of them has given a wallet.
LEMMA EnterMeans ==
    ASSUME RoomInv, NEW profiles, EnterPaymentStage(profiles), Up, Full, ~barrier
    PROVE  /\ room = "locked" /\ prepared = {} /\ booked = {}
           /\ ~released /\ game # "READY" /\ page5 = {}
           /\ barrier' /\ setup' = "ARCHIVED" /\ alarm'
           /\ {barrier', alarm'} \subseteq BOOLEAN
           /\ prepared' = {} \/ (prepared' = Seated /\ Seated \subseteq wallets)
<1> USE DEF RoomInv, Typed
<1>1. room = "locked"
  BY DEF SeatsBounded, Full, Up
<1>2. prepared = {} /\ booked = {}
  BY DEF AskedOnce
<1>3. ~released /\ game # "READY" /\ page5 = {}
  BY <1>2 DEF StartedForGood, PageFiveMeansGame
<1>4. prepared' = {} \/ (prepared' = Seated /\ Seated \subseteq wallets)
  BY <1>2 DEF EnterPaymentStage, ArchiveForPayment, PrepareSession
<1> QED
  BY <1>1, <1>2, <1>3, <1>4 DEF EnterPaymentStage, ArchiveForPayment, PrepareSession

\* A barrier step that goes on to Page 4 keeps the invariant, given that the
\* table went on together.
LEMMA EnterInv ==
    ASSUME RoomInv, NEW profiles, EnterPaymentStage(profiles), Up, Full, ~barrier,
           PagesTyped', {config, config'} \subseteq BOOLEAN,
           config' => profilesReady',
           UNCHANGED <<mode, room, seat, released, late, wallets, phase, timer>>,
           UNCHANGED <<booked, check, game, page5>>,
           ready' \subseteq Roster,
           Seated \subseteq wallets =>
              continued' \subseteq Seated /\ (Seated = continued' \/ Seated = ready')
    PROVE  RoomInv'
<1> USE DEF RoomInv, Typed
<1>1. /\ room = "locked" /\ prepared = {} /\ booked = {}
      /\ ~released /\ game # "READY" /\ page5 = {}
      /\ barrier' /\ setup' = "ARCHIVED" /\ alarm'
      /\ {barrier', alarm'} \subseteq BOOLEAN
      /\ prepared' = {} \/ (prepared' = Seated /\ Seated \subseteq wallets)
  BY EnterMeans
<1>2. Up' /\ Seated' = Seated /\ Roster' = Roster /\ (Full' <=> Full)
  BY DEF Up, Seated, Roster, Full
<1>3. Typed'
  BY <1>1 DEF RoomTyped, StartTyped, Seated
<1>4. SeatsBounded' /\ ClosedIsBlank' /\ ArmedUntilStarted'
  BY <1>1, <1>2 DEF SeatsBounded, ClosedIsBlank, ArmedUntilStarted
<1>5. AskedOnce'
  BY <1>1, <1>2 DEF AskedOnce, Full
<1>6. StartedForGood'
  BY <1>1, <1>2 DEF StartedForGood, PageFiveMeansGame
<1>7. TableWentOn'
  <2>1. (prepared' # {}) => prepared' \subseteq continued' \/ prepared' \subseteq ready'
    BY <1>1
  <2> QED
    BY <1>1, <1>2, <2>1 DEF TableWentOn, PayersWentOn
<1> QED
  BY <1>3, <1>4, <1>5, <1>6, <1>7

LEMMA VerifyNextInv == ASSUME RoomInv, NEW p \in Players, VerifyNext(p) PROVE RoomInv'
<1> USE DEF RoomInv, Typed
<1> DEFINE last == ~barrier /\ Cardinality(continued) + 1 >= Cardinality(Seated)
<1>1. /\ Up /\ p \in Seated /\ p \notin continued
      /\ UNCHANGED <<late, booked, check, game, config, page5>>
  BY DEF VerifyNext
<1>2. CASE Close /\ UNCHANGED prepared
  BY <1>1, <1>2, CloseInv DEF Close, AskedOnce, RoomTyped, StartTyped
<1>3. ASSUME ~last \/ Full,
             continued' = continued \union {p},
             IF last THEN EnterPaymentStage(profiled)
                     ELSE UNCHANGED <<barrier, setup, alarm, prepared>>,
             UNCHANGED <<mode, room, seat, released, phase, timer>>,
             UNCHANGED <<profiled, wallets, profilesReady, confirmed, revealed, ready>>
      PROVE  RoomInv'
  <2>1. Seated' = Seated /\ Roster' = Roster /\ Up' /\ (Full' <=> Full)
    BY <1>1, <1>3 DEF Seated, Roster, Up, Full
  <2>2. Full /\ Seated \subseteq wallets => continued' \subseteq Seated
    BY <1>1, <1>3 DEF TableWentOn
  <2>3. CASE last
    <3>1. Seated \subseteq wallets => continued' = Seated
      <4>1. SUFFICES ASSUME Seated \subseteq wallets PROVE continued' = Seated
        OBVIOUS
      <4>2. continued' \subseteq Seated
        BY <1>3, <2>2, <2>3, <4>1
      <4>3. IsFiniteSet(continued) /\ IsFiniteSet(Seated)
            /\ Cardinality(continued) \in Nat /\ Cardinality(Seated) \in Nat
        <5>1. continued \in SUBSET Players /\ Seated \in SUBSET Players
          BY DEF PagesTyped, Seated
        <5> QED
          BY <5>1, Finite
      <4>4. Cardinality(continued') = Cardinality(continued) + 1
        BY <1>1, <1>3, <4>3, FS_AddElement
      <4>5. Cardinality(continued') >= Cardinality(Seated)
        BY <2>3, <4>4
      <4>6. Cardinality(continued') <= Cardinality(Seated)
            /\ (Cardinality(Seated) = Cardinality(continued') => Seated = continued')
        BY <4>2, <4>3, FS_Subset
      <4> QED
        BY <4>3, <4>4, <4>5, <4>6
    <3>2. EnterPaymentStage(profiled) /\ Full /\ ~barrier
      BY <1>3, <2>3
    <3>3. PagesTyped'
      BY <1>1, <1>3, <3>2 DEF PagesTyped, EnterPaymentStage, ArchiveForPayment, PrepareSession
    <3>4. config' => profilesReady'
      BY <1>1, <1>3 DEF StartedForGood
    <3>5. {config, config'} \subseteq BOOLEAN /\ ready' \subseteq Roster
      BY <1>1, <1>3 DEF StartTyped, TableWentOn
    <3> QED
      BY <1>1, <1>3, <3>1, <3>2, <3>3, <3>4, <3>5, EnterInv
  <2>4. CASE ~last
    <3>1. UNCHANGED <<barrier, setup, alarm, prepared>>
      BY <1>3, <2>4
    <3>2. Typed'
      BY <1>1, <1>3, <3>1 DEF RoomTyped, PagesTyped, StartTyped
    <3>3. SeatsBounded' /\ ClosedIsBlank' /\ ArmedUntilStarted' /\ AskedOnce'
      BY <1>1, <1>3, <2>1, <3>1 DEF SeatsBounded, ClosedIsBlank, ArmedUntilStarted, AskedOnce
    <3>4. StartedForGood' /\ TableWentOn'
      BY <1>1, <1>3, <2>1, <2>2, <3>1
      DEF StartedForGood, PageFiveMeansGame, TableWentOn, PayersWentOn
    <3> QED
      BY <3>2, <3>3, <3>4
  <2> QED
    BY <2>3, <2>4
<1> QED
  BY <1>2, <1>3 DEF VerifyNext

\* The options of three matched players: whoever chose is at the table, and a
\* full table of matched players is the table that was matched.
LEMMA OptionsNextInv == ASSUME RoomInv, NEW p \in Players, OptionsNext(p) PROVE RoomInv'
<1> USE DEF RoomInv, Typed
<1> DEFINE last == ~barrier /\ Cardinality(ready) + 1 = Capacity
<1>1. /\ mode = "NO_FRIENDS" /\ Up /\ p \in Seated /\ p \notin ready
      /\ UNCHANGED <<late, booked, check, game, page5>>
  BY DEF OptionsNext
<1>2. CASE Close /\ UNCHANGED <<prepared, config>>
  BY <1>1, <1>2, CloseInv DEF Close, AskedOnce, RoomTyped, StartTyped
<1>3. ASSUME ~last \/ Full,
             TakeProfile(p),
             ready' = ready \union {p},
             IF last THEN EnterPaymentStage(profiled')
                     ELSE UNCHANGED <<barrier, setup, alarm, prepared>>,
             UNCHANGED <<mode, room, seat, released, phase, timer>>,
             UNCHANGED <<wallets, confirmed, revealed, continued>>
      PROVE  RoomInv'
  <2>1. /\ profiled' \subseteq Players /\ profilesReady' \in BOOLEAN /\ config' \in BOOLEAN
        /\ config => UNCHANGED <<config, profilesReady>>
        /\ config' => profilesReady'
    BY <1>1, <1>3, TakeProfileMeans
  <2>2. Seated' = Seated /\ Roster' = Roster /\ Up' /\ (Full' <=> Full)
    BY <1>1, <1>3 DEF Seated, Roster, Up, Full
  <2>3. ready' \subseteq Roster /\ Seated \subseteq Roster /\ Cardinality(Roster) = Capacity
    BY <1>1, <1>3 DEF TableWentOn, Roster, Seated
  <2>4. CASE last
    <3>1. EnterPaymentStage(profiled') /\ Full /\ ~barrier
      BY <1>3, <2>4
    <3>2. IsFiniteSet(Roster) /\ IsFiniteSet(ready) /\ Cardinality(ready) \in Nat
      <4>1. Roster \in SUBSET Players /\ ready \in SUBSET Players
        BY DEF PagesTyped, Roster
      <4> QED
        BY <4>1, Finite
    <3>3. Seated = Roster
      BY <2>3, <3>1, <3>2, FS_Subset DEF Full
    <3>4. ready' = Roster
      <4>1. Cardinality(ready') = Capacity
        BY <1>1, <1>3, <2>4, <3>2, FS_AddElement
      <4> QED
        BY <2>3, <3>2, <4>1, FS_Subset
    <3>5. PagesTyped'
      BY <1>1, <1>3, <2>1, <3>1 DEF PagesTyped, EnterPaymentStage, ArchiveForPayment, PrepareSession
    <3>6. {config, config'} \subseteq BOOLEAN
      BY <2>1 DEF StartTyped
    <3>7. Seated \subseteq wallets => continued' \subseteq Seated
      BY <1>3, <3>1 DEF TableWentOn
    <3> QED
      BY <1>1, <1>3, <2>1, <2>3, <3>1, <3>3, <3>4, <3>5, <3>6, <3>7, EnterInv
  <2>5. CASE ~last
    <3>1. UNCHANGED <<barrier, setup, alarm, prepared>>
      BY <1>3, <2>5
    <3>2. Typed'
      BY <1>1, <1>3, <2>1, <3>1 DEF RoomTyped, PagesTyped, StartTyped
    <3>3. SeatsBounded' /\ ClosedIsBlank' /\ ArmedUntilStarted' /\ AskedOnce'
      BY <1>1, <1>3, <2>2, <3>1 DEF SeatsBounded, ClosedIsBlank, ArmedUntilStarted, AskedOnce
    <3>4. StartedForGood'
      BY <1>1, <1>3, <2>1, <2>2, <3>1 DEF StartedForGood, PageFiveMeansGame
    <3>5. TableWentOn'
      BY <1>1, <1>3, <2>2, <2>3, <3>1 DEF TableWentOn, PayersWentOn
    <3> QED
      BY <3>2, <3>3, <3>4, <3>5
  <2> QED
    BY <2>4, <2>5
<1> QED
  BY <1>2, <1>3 DEF OptionsNext

----------------------------------------------------------------------------
(* Page 4, Page 5 and time. *)

\* Steps that only move the payment check, or book what was found, or let time
\* pass disturb nothing.
LEMMA QuietInv ==
    ASSUME RoomInv, booked \subseteq booked', booked' \subseteq prepared,
           late' \in BOOLEAN, check' \in {"none", "waiting", "observing"},
           timer' \in BOOLEAN,
           UNCHANGED <<mode, room, seat, setup, alarm, released, pageVars, prepared>>,
           UNCHANGED <<game, config, phase, page5>>
    PROVE  RoomInv'
<1> USE DEF RoomInv, Typed, pageVars
<1>1. Up' = Up /\ Seated' = Seated /\ Roster' = Roster
  BY DEF Up, Seated, Roster
<1>2. Typed'
  BY DEF RoomTyped, PagesTyped, StartTyped
<1>3. SeatsBounded' /\ ClosedIsBlank' /\ ArmedUntilStarted' /\ AskedOnce'
  BY <1>1 DEF SeatsBounded, ClosedIsBlank, ArmedUntilStarted, AskedOnce
<1>4. StartedForGood' /\ TableWentOn'
  BY <1>1 DEF StartedForGood, PageFiveMeansGame, TableWentOn, PayersWentOn, Full
<1> QED
  BY <1>2, <1>3, <1>4

LEMMA RequestInv == ASSUME RoomInv, RequestCheck \/ GraceEnds \/ DeadlinePasses PROVE RoomInv'
<1>1. /\ late' \in BOOLEAN /\ check' \in {"none", "waiting", "observing"}
      /\ timer' \in BOOLEAN
      /\ UNCHANGED <<mode, room, seat, setup, alarm, released, pageVars, prepared>>
      /\ UNCHANGED <<game, config, phase, page5, booked>>
  BY DEF RequestCheck, GraceEnds, DeadlinePasses, roomVars, payVars, gameVars,
         RoomInv, Typed, RoomTyped, StartTyped
<1> QED
  BY <1>1, QuietInv DEF RoomInv, AskedOnce

LEMMA ObservationFailsInv == ASSUME RoomInv, ObservationFails PROVE RoomInv'
<1>1. /\ late' \in BOOLEAN /\ check' \in {"none", "waiting", "observing"}
      /\ timer' \in BOOLEAN
      /\ booked \subseteq booked' /\ booked' \subseteq prepared
      /\ UNCHANGED <<mode, room, seat, setup, alarm, released, pageVars, prepared>>
      /\ UNCHANGED <<game, config, phase, page5>>
  BY DEF ObservationFails, roomVars, gameVars, RoomInv, AskedOnce, Typed, RoomTyped, StartTyped
<1> QED
  BY <1>1, QuietInv

LEMMA SetupExpiresInv == ASSUME RoomInv, SetupExpires PROVE RoomInv'
  BY CloseInv DEF SetupExpires, Close, payVars, RoomInv, AskedOnce, Typed, RoomTyped, StartTyped

\* What an activation leaves behind.
Started ==
    /\ Up /\ room' = "locked" /\ Seated' = prepared'
    /\ game' = "READY" /\ released' /\ phase' # "none"
    /\ page5' = prepared' /\ booked' = prepared'

\* An activated room is locked, full, configured and paid for by its own players.
LEMMA ActivateInv ==
    ASSUME RoomInv, Activate, config, Full, room # "destroyed",
           prepared = Seated, prepared # {}, prepared \subseteq booked',
           booked \subseteq booked', booked' \subseteq prepared,
           check' \in {"none", "waiting", "observing"}, UNCHANGED <<late, prepared>>
    PROVE  RoomInv' /\ Started
<1> USE DEF RoomInv, Typed
<1>1. /\ game' = "READY" /\ released' = TRUE /\ alarm' = FALSE /\ phase' = "OPENED"
      /\ timer' = FALSE /\ page5' = Seated
      /\ UNCHANGED <<mode, room, seat, setup, pageVars, config>>
  BY DEF Activate
<1>2. room = "locked" /\ Up
  BY DEF SeatsBounded, Up, Full, RoomTyped
<1>3. Up' /\ Seated' = Seated /\ Roster' = Roster /\ (Full' <=> Full) /\ booked' = prepared
  BY <1>1, <1>2 DEF Up, Seated, Roster, Full
<1>4. RoomTyped' /\ StartTyped'
  BY <1>1 DEF RoomTyped, StartTyped
<1>5. PagesTyped'
  BY <1>1 DEF PagesTyped, pageVars
<1>6. SeatsBounded' /\ ClosedIsBlank' /\ ArmedUntilStarted'
  BY <1>1, <1>3 DEF SeatsBounded, ClosedIsBlank, ArmedUntilStarted, pageVars
<1>7. AskedOnce' /\ StartedForGood'
  BY <1>1, <1>2, <1>3 DEF AskedOnce, StartedForGood, PageFiveMeansGame, pageVars
<1>8. TableWentOn'
  BY <1>1, <1>2, <1>3 DEF TableWentOn, PayersWentOn, pageVars
<1> QED
  BY <1>1, <1>2, <1>3, <1>4, <1>5, <1>6, <1>7, <1>8 DEF Started

\* What Evaluate and the timer may do to an eligible room: activate it, close it,
\* arm the timer or nothing.
LEMMA AuthorizeInv ==
    ASSUME RoomInv, Authorize, ~Blocked, Eligible,
           booked \subseteq booked', booked' \subseteq prepared,
           check' \in {"none", "waiting", "observing"}, UNCHANGED <<late, prepared>>
    PROVE  /\ RoomInv'
           /\ \/ Started
              \/ ~Up' /\ (released' => released) /\ UNCHANGED <<game, page5>>
<1> USE DEF RoomInv, Typed
<1>1. CASE Activate /\ config
  BY <1>1, ActivateInv DEF Blocked, Eligible
<1>2. ASSUME NEW r \in BOOLEAN, NEW latch \in {"OPENED", "FAILED"},
             CloseRoom(r, Seated, latch, FALSE), UNCHANGED <<game, config, page5>>
      PROVE  RoomInv' /\ ~Up' /\ (released' => released) /\ UNCHANGED <<game, page5>>
  <2>1. RoomInv'
    BY <1>2, CloseInv DEF RoomTyped
  <2>2. ~Up' /\ (released' => released)
    BY <1>2 DEF CloseRoom, Up
  <2> QED
    BY <1>2, <2>1, <2>2
<1>3. CASE Fail \/ ActivationFails
  BY <1>2, <1>3 DEF Fail, ActivationFails
<1> QED
  BY <1>1, <1>3, ActivateInv DEF Authorize, Blocked, Eligible

LEMMA FailInv ==
    ASSUME RoomInv, Fail, UNCHANGED <<late, prepared, booked, check>>
    PROVE  RoomInv' /\ ~Up' /\ (released' => released) /\ UNCHANGED <<game, page5>>
<1>1. RoomInv'
  BY CloseInv DEF Fail, RoomInv, AskedOnce, Typed, RoomTyped, StartTyped
<1>2. ~Up' /\ (released' => released)
  BY DEF Fail, CloseRoom, Up
<1> QED
  BY <1>1, <1>2 DEF Fail

\* The end of a check: the room is activated, closed, or left as it is.
LEMMA ObservationEndsInv ==
    ASSUME RoomInv, ObservationEnds
    PROVE  /\ RoomInv'
           /\ booked \subseteq booked' /\ booked' \subseteq prepared /\ UNCHANGED prepared
           /\ \/ Started
              \/ ~Up' /\ (released' => released) /\ UNCHANGED <<game, page5>>
              \/ UNCHANGED <<game, page5, room, seat, released, phase>>
<1>1. /\ booked \subseteq booked' /\ booked' \subseteq prepared
      /\ check' \in {"none", "waiting", "observing"} /\ UNCHANGED <<late, prepared>>
      /\ late' \in BOOLEAN
  BY DEF ObservationEnds, RoomInv, AskedOnce, Typed, RoomTyped
<1>2. CASE room # "gone" /\ Eligible /\ phase = "none" /\ ~Blocked
  BY <1>1, <1>2, AuthorizeInv DEF ObservationEnds, Evaluate
<1>3. CASE ~(room # "gone" /\ Eligible /\ phase = "none" /\ ~Blocked)
  <2>1. /\ timer' \in BOOLEAN
        /\ UNCHANGED <<mode, room, seat, setup, alarm, released, pageVars>>
        /\ UNCHANGED <<game, config, phase, page5>>
    BY <1>3 DEF ObservationEnds, Evaluate, gameVars, RoomInv, Typed, StartTyped
  <2> QED
    BY <1>1, <2>1, QuietInv
<1> QED
  BY <1>2, <1>3

LEMMA AuthorizationTimeoutInv ==
    ASSUME RoomInv, AuthorizationTimeout
    PROVE  /\ RoomInv' /\ UNCHANGED <<booked, prepared>>
           /\ \/ Started
              \/ ~Up' /\ (released' => released) /\ UNCHANGED <<game, page5>>
              \/ UNCHANGED <<game, page5, room, seat, released, phase>>
<1>1. /\ UNCHANGED <<late, prepared, booked, check>>
      /\ late' \in BOOLEAN /\ check' \in {"none", "waiting", "observing"}
      /\ booked \subseteq booked' /\ booked' \subseteq prepared
  BY DEF AuthorizationTimeout, RoomInv, AskedOnce, Typed, RoomTyped, StartTyped
<1>2. CASE phase # "none" \/ (~Blocked /\ ~Eligible)
  <2>1. /\ timer' \in BOOLEAN
        /\ UNCHANGED <<mode, room, seat, setup, alarm, released, pageVars>>
        /\ UNCHANGED <<game, config, phase, page5>>
    BY <1>2 DEF AuthorizationTimeout
  <2> QED
    BY <1>1, <2>1, QuietInv
<1>3. CASE phase = "none" /\ Blocked
  <2>1. Fail
    BY <1>3 DEF AuthorizationTimeout
  <2> QED
    BY <1>1, <2>1, FailInv
<1>4. CASE phase = "none" /\ ~Blocked /\ Eligible
  <2>1. Authorize
    BY <1>4 DEF AuthorizationTimeout
  <2> QED
    BY <1>1, <1>4, <2>1, AuthorizeInv
<1> QED
  BY <1>2, <1>3, <1>4

LEMMA RoomInvNext == ASSUME RoomInv, Next PROVE RoomInv'
<1>1. CASE Seating
  BY <1>1, JoinInv, LeaveRoomInv DEF Seating, Leave
<1>2. CASE Choosing
  BY <1>2, UpdateProfileInv, SubmitWalletInv DEF Choosing
<1>3. CASE Verifying
  BY <1>3, ConfirmVerifyInv, VerifyNextInv, OptionsNextInv DEF Verifying
<1>4. CASE Paying
  BY <1>4, RequestInv, ObservationEndsInv, ObservationFailsInv DEF Paying
<1>5. CASE Timing
  BY <1>5, AuthorizationTimeoutInv, RequestInv, SetupExpiresInv DEF Timing
<1> QED
  BY <1>1, <1>2, <1>3, <1>4, <1>5 DEF Next

LEMMA CloseEnds ==
    ASSUME NEW r, NEW members, NEW latch, NEW armed, CloseRoom(r, members, latch, armed)
    PROVE  ~Up' /\ (released' => released)
  BY DEF CloseRoom, Up

\* A step of the room, seen by its game: who was asked and that it plays is never
\* undone, only an activation starts a game, and a started room keeps its seats.
LEMMA NextMeans ==
    ASSUME RoomInv, Next
    PROVE  /\ game = "READY" => UNCHANGED <<prepared, game>>
           /\ Up' => Up
           /\ Started \/ ((released' => released) /\ (game' = "READY" => game = "READY"))
           /\ released /\ Up /\ phase # "none" => UNCHANGED <<room, seat, released, phase>>
<1> USE DEF RoomInv
<1>1. ASSUME released, Up
      PROVE  barrier /\ room = "locked" /\ ~alarm
  BY <1>1 DEF StartedForGood, AskedOnce
<1>2. ASSUME game = "READY" PROVE room # "open" /\ (Up => barrier)
  BY <1>2 DEF StartedForGood, AskedOnce
<1>3. CASE Seating
  <2>1. ASSUME NEW p \in Players, Join(p)
        PROVE  /\ Up /\ ~released /\ game # "READY" /\ game' # "READY"
               /\ UNCHANGED <<released, prepared>>
    BY <1>1, <1>2, <2>1 DEF Join, CompleteSetup, PrepareGame, payVars, Up, StartedForGood, AskedOnce
  <2>2. ASSUME NEW p \in Players, Leave(p)
        PROVE  Up /\ ~released /\ UNCHANGED <<game, prepared>> /\ ~released'
    <3>1. Up /\ ~released /\ UNCHANGED <<game, prepared>>
      BY <2>2 DEF Leave, LeaveRoom, payVars
    <3>2. released' => released
      BY <2>2, CloseEnds DEF Leave, LeaveRoom, Close, FinishSession
    <3> QED
      BY <3>1, <3>2
  <2> QED
    BY <1>3, <2>1, <2>2 DEF Seating
<1>4. CASE Choosing \/ \E p \in Players : ConfirmVerify(p)
  BY <1>4 DEF Choosing, UpdateProfile, SubmitWallet, ConfirmVerify, roomVars, payVars, gameVars
<1>5. ASSUME NEW p \in Players, VerifyNext(p) \/ OptionsNext(p)
      PROVE  /\ Up /\ UNCHANGED game /\ (released' => released)
             /\ barrier => UNCHANGED <<room, seat, released, phase, prepared>>
  <2>1. Up /\ UNCHANGED game
    BY <1>5 DEF VerifyNext, OptionsNext
  <2>2. released' => released
    BY <1>5, CloseEnds DEF VerifyNext, OptionsNext, Close
  <2>3. barrier => UNCHANGED <<room, seat, released, phase, prepared>>
    BY <1>5 DEF VerifyNext, OptionsNext
  <2> QED
    BY <2>1, <2>2, <2>3
<1>6. CASE RequestCheck \/ GraceEnds \/ ObservationFails \/ DeadlinePasses
  BY <1>6 DEF RequestCheck, GraceEnds, ObservationFails, DeadlinePasses, roomVars, gameVars, payVars, Up
<1>7. CASE ObservationEnds
  <2>1. released /\ Up /\ phase # "none" => UNCHANGED <<room, seat, released, phase>>
    BY <1>7 DEF ObservationEnds, Evaluate, gameVars
  <2> QED
    BY <1>7, <2>1, ObservationEndsInv DEF Started, Up
<1>8. CASE AuthorizationTimeout
  <2>1. released /\ Up /\ phase # "none" => UNCHANGED <<room, seat, released, phase>>
    BY <1>8 DEF AuthorizationTimeout
  <2> QED
    BY <1>8, <2>1, AuthorizationTimeoutInv DEF Started, Up
<1>9. CASE SetupExpires
  <2>1. UNCHANGED <<game, prepared>> /\ ~Up' /\ (released' => released) /\ ~(released /\ Up)
    BY <1>1, <1>9 DEF SetupExpires, Close, CloseRoom, Up, payVars
  <2> QED
    BY <2>1
<1>10. Next => \/ Seating \/ Choosing \/ \E p \in Players : ConfirmVerify(p)
               \/ \E p \in Players : VerifyNext(p) \/ OptionsNext(p)
               \/ RequestCheck \/ GraceEnds \/ ObservationFails \/ DeadlinePasses
               \/ ObservationEnds \/ AuthorizationTimeout \/ SetupExpires
  BY DEF Next, Verifying, Paying, Timing
<1>11. CASE \E p \in Players : VerifyNext(p) \/ OptionsNext(p)
  BY <1>1, <1>2, <1>5, <1>11
<1> QED
  BY <1>3, <1>4, <1>6, <1>7, <1>8, <1>9, <1>10, <1>11

LEMMA RoomInvStutter == ASSUME RoomInv, UNCHANGED vars PROVE RoomInv'
<1>1. late' \in BOOLEAN /\ check' \in {"none", "waiting", "observing"} /\ timer' \in BOOLEAN
  BY DEF vars, roomVars, payVars, gameVars, RoomInv, Typed, RoomTyped, StartTyped
<1>2. booked \subseteq booked' /\ booked' \subseteq prepared
  BY DEF vars, payVars, RoomInv, AskedOnce
<1> QED
  BY <1>1, <1>2, QuietInv DEF vars, roomVars, payVars, gameVars

LEMMA RoomInvStep == RoomInv /\ [Next]_vars => RoomInv'
  BY RoomInvNext, RoomInvStutter

LEMMA RoomInvMeans == RoomInv => /\ TypeOK
                                 /\ ArmedUntilStarted /\ PayersWentOn
                                 /\ PageFiveMeansGame /\ StartedStaysPaid
<1> SUFFICES ASSUME RoomInv
             PROVE  /\ TypeOK /\ ArmedUntilStarted /\ PayersWentOn
                    /\ PageFiveMeansGame /\ StartedStaysPaid
  OBVIOUS
<1>1. TypeOK
  BY DEF RoomInv, Typed, RoomTyped, PagesTyped, StartTyped, TypeOK
<1>2. StartedStaysPaid
  BY DEF RoomInv, AskedOnce, StartedForGood, StartedStaysPaid
<1> QED
  BY <1>1, <1>2 DEF RoomInv, TableWentOn, StartedForGood

LEMMA AlwaysRoomInv == Spec => []RoomInv
  BY InitInv, RoomInvStep, PTL DEF Spec

----------------------------------------------------------------------------
(* The room keeps RoomPromise. *)

LEMMA PromiseInit == Init => Promise!Init
  BY DEF Init, Opened, Matched, Promise!Init, Up

\* What changes neither whether the game plays nor who is asked is at most a
\* booking, and what closes the room closes the promise.
LEMMA PromiseQuiet ==
    ASSUME RoomInv, UNCHANGED prepared,
           booked \subseteq booked', booked' \subseteq prepared,
           game' = "READY" <=> game = "READY", Up' => Up
    PROVE  [Promise!Next]_Promise!vars
<1> USE DEF Promise!Next, Promise!vars, Promise!Book, Promise!Pay, Promise!Close
<1>1. CASE Up' \/ ~Up \/ game = "READY"
  BY <1>1
<1>2. CASE Up /\ ~Up' /\ game # "READY"
  BY <1>2
<1> QED
  BY <1>1, <1>2

\* The step to Page 4 asks the full table, or, if no session can be prepared, nobody.
LEMMA PromiseAsk ==
    ASSUME RoomInv, RoomInv', NEW profiles, EnterPaymentStage(profiles), Up, Full, ~barrier,
           UNCHANGED <<room, booked, game>>
    PROVE  [Promise!Next]_Promise!vars
<1>1. prepared = {} /\ game # "READY" /\ Up'
  BY EnterMeans DEF Up
<1>2. CASE prepared' = {}
  BY <1>1, <1>2 DEF Promise!vars
<1>3. CASE prepared' # {}
  <2>1. prepared' \in SUBSET Players /\ Cardinality(prepared') = Capacity
    BY <1>3 DEF RoomInv, Typed, StartTyped, AskedOnce
  <2> QED
    BY <1>1, <1>3, <2>1 DEF Promise!Next, Promise!Ask
<1> QED
  BY <1>2, <1>3

\* The end of a check and the authorization timer: the game plays, once everyone
\* who was asked has paid, or the room is closed, or stakes are booked.
LEMMA PromiseStart ==
    ASSUME RoomInv, RoomInv', UNCHANGED prepared,
           booked \subseteq booked', booked' \subseteq prepared,
           \/ Started
           \/ ~Up' /\ (released' => released) /\ UNCHANGED <<game, page5>>
           \/ UNCHANGED <<game, page5, room, seat, released, phase>>
    PROVE  [Promise!Next]_Promise!vars
<1>1. CASE Started /\ game # "READY"
  <2>1. prepared # {}
    BY <1>1 DEF RoomInv, StartedForGood, Started
  <2> QED
    BY <1>1, <2>1 DEF Promise!Next, Promise!Play, Promise!Pay, Started
<1>2. CASE UNCHANGED game /\ (~Up' \/ UNCHANGED room)
  BY <1>2, PromiseQuiet DEF Up
<1>3. CASE Started /\ game = "READY"
  BY <1>3 DEF Started, RoomInv, StartedForGood, Promise!vars
<1> QED
  BY <1>1, <1>2, <1>3

LEMMA PromiseStep ==
    ASSUME RoomInv, RoomInv', Next
    PROVE  [Promise!Next]_Promise!vars
<1>0. booked \subseteq prepared
  BY DEF RoomInv, AskedOnce
<1>1. ASSUME NEW p \in Players, Join(p) PROVE [Promise!Next]_Promise!vars
  <2>1. room = "open" /\ Up' /\ Up /\ UNCHANGED <<prepared, booked>> /\ game' # "READY"
    <3>1. game # "READY"
      BY <1>1 DEF Join, CompleteSetup, PrepareGame, RoomInv, StartedForGood, AskedOnce
    <3> QED
      BY <1>1, <3>1 DEF Join, CompleteSetup, PrepareGame, Up, payVars
  <2>2. game # "READY"
    BY <2>1 DEF RoomInv, StartedForGood, AskedOnce
  <2> QED
    BY <1>0, <2>1, <2>2, PromiseQuiet
<1>2. CASE \/ \E p \in Players : Leave(p) \/ UpdateProfile(p) \/ SubmitWallet(p) \/ ConfirmVerify(p)
           \/ RequestCheck \/ GraceEnds \/ DeadlinePasses \/ SetupExpires
  <2>1. UNCHANGED <<prepared, booked, game>>
    BY <1>2 DEF Leave, LeaveRoom, UpdateProfile, SubmitWallet, ConfirmVerify, RequestCheck,
                GraceEnds, DeadlinePasses, SetupExpires, payVars, gameVars
  <2>2. Up' => Up
    <3>1. CASE SetupExpires
      BY <3>1 DEF SetupExpires, Close, CloseRoom, Up
    <3>2. CASE \E p \in Players : Leave(p)
      BY <3>2 DEF Leave
    <3>3. CASE ~SetupExpires /\ ~(\E p \in Players : Leave(p))
      BY <1>2, <3>3 DEF UpdateProfile, SubmitWallet, ConfirmVerify, RequestCheck,
                GraceEnds, DeadlinePasses, roomVars, Up
    <3> QED
      BY <3>1, <3>2, <3>3
  <2> QED
    BY <1>0, <2>1, <2>2, PromiseQuiet
<1>3. ASSUME NEW p \in Players, VerifyNext(p) PROVE [Promise!Next]_Promise!vars
  <2>1. Up /\ UNCHANGED <<booked, game>>
    BY <1>3 DEF VerifyNext
  <2>2. CASE UNCHANGED prepared
    BY <1>0, <2>1, <2>2, PromiseQuiet
  <2>3. CASE prepared' # prepared
    <3>1. EnterPaymentStage(profiled) /\ Full /\ ~barrier /\ UNCHANGED room
      BY <1>3, <2>3 DEF VerifyNext
    <3> QED
      BY <2>1, <3>1, PromiseAsk
  <2> QED
    BY <2>2, <2>3
<1>4. ASSUME NEW p \in Players, OptionsNext(p) PROVE [Promise!Next]_Promise!vars
  <2>1. Up /\ UNCHANGED <<booked, game>>
    BY <1>4 DEF OptionsNext
  <2>2. CASE UNCHANGED prepared
    BY <1>0, <2>1, <2>2, PromiseQuiet
  <2>3. CASE prepared' # prepared
    <3>1. EnterPaymentStage(profiled') /\ Full /\ ~barrier /\ UNCHANGED room
      BY <1>4, <2>3 DEF OptionsNext
    <3> QED
      BY <2>1, <3>1, PromiseAsk
  <2> QED
    BY <2>2, <2>3
<1>5. CASE ObservationEnds
  BY <1>5, ObservationEndsInv, PromiseStart
<1>6. CASE ObservationFails
  <2>1. /\ UNCHANGED <<prepared, game, room>>
        /\ booked \subseteq booked' /\ booked' \subseteq prepared
    BY <1>0, <1>6 DEF ObservationFails, roomVars, gameVars
  <2> QED
    BY <2>1, PromiseQuiet DEF Up
<1>7. CASE AuthorizationTimeout
  BY <1>0, <1>7, AuthorizationTimeoutInv, PromiseStart
<1> QED
  BY <1>1, <1>2, <1>3, <1>4, <1>5, <1>6, <1>7
  DEF Next, Seating, Choosing, Verifying, Paying, Timing

LEMMA PromiseStutter == ASSUME UNCHANGED vars PROVE UNCHANGED Promise!vars
  BY DEF vars, roomVars, pageVars, payVars, gameVars, Promise!vars, Up

----------------------------------------------------------------------------
\* Every variable of a room stays in its set.
THEOREM RoomTypeCorrect == Spec => []TypeOK
  BY AlwaysRoomInv, RoomInvMeans, PTL

\* A room that is up and has not started always has its setup timer.
THEOREM AlwaysArmedUntilStarted == Spec => []ArmedUntilStarted
  BY AlwaysRoomInv, RoomInvMeans, PTL

\* Nobody is asked for money before the whole table went on, although the
\* barriers count players who have left.
THEOREM PayersAlwaysWentOn == Spec => []PayersWentOn
  BY AlwaysRoomInv, RoomInvMeans, PTL

\* A room implements RoomPromise.
THEOREM RoomKeepsPromise == Spec => KeepsPromise
<1>1. Init => Promise!Init
  BY PromiseInit
<1>2. RoomInv /\ RoomInv' /\ [Next]_vars => [Promise!Next]_Promise!vars
  BY PromiseStep, PromiseStutter
<1> QED
  BY <1>1, <1>2, AlwaysRoomInv, PTL DEF Spec, KeepsPromise, Promise!Spec
====
