----------------------------- MODULE GamePromise -----------------------------
(***************************************************************************)
(* What a game promises its players, without phases, timers, ticks and     *)
(* retries: it is started once; its wheel stands and its result is decided *)
(* only after READY, the part in which nobody can steer it; a decided      *)
(* result is final; and a game lost before that stays lost.                *)
(***************************************************************************)
VARIABLES
    stage,   \* before, playing, standing, decided, shown, or lost
    over     \* READY is over

vars == <<stage, over>>

Init == stage = "before" /\ over = FALSE

Start ==
    /\ stage = "before" /\ stage' = "playing"
    /\ UNCHANGED over

EndReady ==
    /\ stage = "playing" /\ over' = TRUE
    /\ UNCHANGED stage

Stand ==
    /\ stage = "playing" /\ over
    /\ stage' = "standing"
    /\ UNCHANGED over

\* At the first attempt, when the wheel comes to stand, or at a later one.
Decide ==
    /\ stage \in {"playing", "standing"} /\ over
    /\ stage' = "decided"
    /\ UNCHANGED over

Show ==
    /\ stage = "decided" /\ stage' = "shown"
    /\ UNCHANGED over

\* The process dies with the game in its memory.
Lose ==
    /\ stage \in {"playing", "standing"} /\ stage' = "lost"
    /\ UNCHANGED over

Next == Start \/ EndReady \/ Stand \/ Decide \/ Show \/ Lose

Spec == Init /\ [][Next]_vars
====
