--------------------------- MODULE RefundPromise ---------------------------
(***************************************************************************)
(* What the refund subsystem promises about each debt, without files,      *)
(* claims, providers or crashes: it is owed once, at most one transfer is  *)
(* executed for it, and it is closed by that transfer or held by hand.     *)
(***************************************************************************)
EXTENDS Naturals

CONSTANT Debts

VARIABLES
    status,     \* of each debt
    payments    \* how many transfers were executed for it

vars == <<status, payments>>

Init ==
    /\ status = [d \in Debts |-> "none"]
    /\ payments = [d \in Debts |-> 0]

Owe(d) ==
    /\ status[d] = "none"
    /\ status' = [status EXCEPT ![d] = "open"]
    /\ UNCHANGED payments

\* Only an acknowledged debt is paid, and once. A hold does not recall what is
\* already on the wire.
Pay(d) ==
    /\ status[d] \in {"open", "held"}
    /\ payments[d] = 0
    /\ payments' = [payments EXCEPT ![d] = 1]
    /\ UNCHANGED status

Close(d) ==
    /\ status[d] = "open"
    /\ payments[d] = 1
    /\ status' = [status EXCEPT ![d] = "closed"]
    /\ UNCHANGED payments

Hold(d) ==
    /\ status[d] = "open"
    /\ status' = [status EXCEPT ![d] = "held"]
    /\ UNCHANGED payments

Next == \E d \in Debts : Owe(d) \/ Pay(d) \/ Close(d) \/ Hold(d)

Spec == Init /\ [][Next]_vars
====
