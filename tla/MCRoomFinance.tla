--------------------------- MODULE MCRoomFinance ---------------------------
(* RoomFinance with two players, of whom the first may pay twice. *)
EXTENDS RoomFinance, TLC

CONSTANTS alice, bob, stakeA, stakeB, again

PaidBy == stakeA :> alice @@ stakeB :> bob @@ again :> alice
====
