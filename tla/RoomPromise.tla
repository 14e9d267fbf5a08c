----------------------------- MODULE RoomPromise -----------------------------
(***************************************************************************)
(* What a room promises its players, without pages, timers, sessions and   *)
(* barriers: money is asked once, of a full table; the game starts only    *)
(* when everyone who was asked has paid; a room closed before never starts *)
(* afterwards.  A stake may still be booked when the room is closed.       *)
(***************************************************************************)
CONSTANT FullTables   \* the sets of players that make a full table

VARIABLES
    stage,   \* gathering, asked, playing, closed
    asked,   \* who was asked to pay
    paid     \* whose stake is booked

vars == <<stage, asked, paid>>

Init ==
    /\ stage = "gathering"
    /\ asked = {}
    /\ paid = {}

Ask ==
    /\ stage = "gathering" /\ stage' = "asked"
    /\ asked' \in FullTables
    /\ UNCHANGED paid

\* More of the stakes that were asked for are booked.
Pay == paid \subseteq paid' /\ paid' \subseteq asked

Book == Pay /\ UNCHANGED <<stage, asked>>

\* The last stakes may be booked in the very step that starts the game.
Play ==
    /\ stage = "asked" /\ stage' = "playing"
    /\ Pay /\ paid' = asked
    /\ UNCHANGED asked

\* So may those of a room that turns out not to be able to start.
Close ==
    /\ stage \in {"gathering", "asked"} /\ stage' = "closed"
    /\ Pay
    /\ UNCHANGED asked

Next == Ask \/ Book \/ Play \/ Close

Spec == Init /\ [][Next]_vars
====
