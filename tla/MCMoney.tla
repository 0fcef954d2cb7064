------------------------------ MODULE MCMoney ------------------------------
(* Small instances of Money for TLC. *)
EXTENDS Money

\* Amounts around the least quote (100.00), and small proposals.
ExploredMils == (99990 .. 102000) \cup (1 .. 1200)
=============================================================================
