------------------------ MODULE MCRefundLifecycle ------------------------
(* RefundLifecycle on two debts and two concurrent activations. *)
EXTENDS RefundLifecycle, TLC

CONSTANTS o1, o2, c1, c2

\* Two payers, or one payer with different net amounts.
Apart == o1 :> "a" @@ o2 :> "b"

\* One payer, one wallet, the same net amount: a stake and a duplicate payment.
Alike == o1 :> "a" @@ o2 :> "a"

Activations2 == Permutations({c1, c2})
====
