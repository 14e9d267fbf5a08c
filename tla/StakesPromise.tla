--------------------------- MODULE StakesPromise ----------------------------
(***************************************************************************)
(* What a room promises about every payment into its wallet, without       *)
(* intents, receipts, outcomes, observations or crashes: a payment is      *)
(* either played for, together with exactly one of each player, and won    *)
(* with them, or owed and returned; and the room gives its wallet up only  *)
(* when no payment it knows of is left in between.                         *)
(***************************************************************************)
CONSTANTS Players, Transfers, Payer

VARIABLES
    status,   \* of each payment
    wallet    \* "room", "free", or with an "other" room

vars == <<status, wallet>>

Stages == {"none", "sent", "known", "owed", "returned", "played", "won"}

Init ==
    /\ status = [t \in Transfers |-> "none"]
    /\ wallet = "room"

At(s) == {t \in Transfers : status[t] = s}

Arrive(t) ==
    /\ wallet = "room" /\ status[t] = "none"
    /\ status' = [status EXCEPT ![t] = "sent"]
    /\ UNCHANGED wallet

\* Payments are noticed, and debts made of those to be returned. What is found
\* after the release may bring the wallet back.
Book ==
    /\ status' \in [Transfers -> Stages]
    /\ \A t \in Transfers :
          \/ status'[t] = status[t]
          \/ status[t] = "sent" /\ status'[t] \in {"known", "owed"}
          \/ status[t] = "known" /\ status'[t] = "owed"
    /\ wallet' = wallet \/ (wallet = "free" /\ wallet' = "room")

Return(t) ==
    /\ wallet = "room" /\ status[t] = "owed"
    /\ status' = [status EXCEPT ![t] = "returned"]
    /\ UNCHANGED wallet

\* One stake of each player.
Play(stakes) ==
    /\ wallet = "room"
    /\ At("played") = {} /\ At("won") = {}
    /\ {Payer[t] : t \in stakes} = Players
    /\ \A t, u \in stakes : Payer[t] = Payer[u] => t = u
    /\ status' = [t \in Transfers |-> IF t \in stakes THEN "played" ELSE status[t]]
    /\ UNCHANGED wallet

Win ==
    /\ wallet = "room"
    /\ status' = [t \in Transfers |-> IF status[t] = "played" THEN "won" ELSE status[t]]
    /\ UNCHANGED wallet

Release ==
    /\ wallet = "room"
    /\ At("known") = {} /\ At("owed") = {} /\ At("played") = {}
    /\ wallet' = "free"
    /\ UNCHANGED status

OtherTakes ==
    /\ wallet = "free"
    /\ wallet' = "other"
    /\ UNCHANGED status

Next ==
    \/ \E t \in Transfers : Arrive(t) \/ Return(t)
    \/ Book
    \/ \E stakes \in SUBSET At("known") : Play(stakes)
    \/ Win \/ Release \/ OtherTakes

Spec == Init /\ [][Next]_vars
====
