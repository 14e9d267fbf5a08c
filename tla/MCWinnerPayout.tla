--------------------------- MODULE MCWinnerPayout ---------------------------
(* One payout, begun by a process that replays stored messages or by one that  *)
(* cannot, which a restart may replace. A TON has 2000 parts instead of 10^9,  *)
(* which keeps the amounts in TLC's integers.                                  *)
EXTENDS WinnerPayout
====
