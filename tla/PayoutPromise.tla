--------------------------- MODULE PayoutPromise ----------------------------
(***************************************************************************)
(* What a finished game's room promises about its prize, without files,    *)
(* intents, messages or crashes: once the prize is claimed the winner is   *)
(* paid, then the owner, each once; then the ledger settles them; and only *)
(* then is the wallet given up, for good.                                  *)
(***************************************************************************)
EXTENDS Naturals

CONSTANT Legs     \* "WINNER" and "OWNER"

VARIABLES
    claimed,      \* the prize is this room's outcome
    payments,     \* how many transfers were executed for each leg
    settled,      \* the legs the ledger has closed
    held          \* the room still has its wallet

vars == <<claimed, payments, settled, held>>

Init ==
    /\ claimed = FALSE
    /\ payments = [leg \in Legs |-> 0]
    /\ settled = {}
    /\ held = TRUE

Claim ==
    /\ ~claimed /\ held
    /\ claimed' = TRUE
    /\ UNCHANGED <<payments, settled, held>>

Pay(leg) ==
    /\ claimed /\ held
    /\ payments[leg] = 0
    /\ leg = "OWNER" => payments["WINNER"] = 1
    /\ payments' = [payments EXCEPT ![leg] = 1]
    /\ UNCHANGED <<claimed, settled, held>>

\* Both legs at once, or the winner's first.
Settle(legs) ==
    /\ \A leg \in Legs : payments[leg] = 1
    /\ "WINNER" \in legs
    /\ settled' = settled \cup legs
    /\ UNCHANGED <<claimed, payments, held>>

Release ==
    /\ settled = Legs
    /\ held' = FALSE
    /\ UNCHANGED <<claimed, payments, settled>>

Next ==
    \/ Claim
    \/ \E leg \in Legs : Pay(leg)
    \/ \E legs \in SUBSET Legs : Settle(legs)
    \/ Release

Spec == Init /\ [][Next]_vars
====
