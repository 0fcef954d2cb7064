-------------------------- MODULE MCQuotePayments --------------------------
(* Small instances of QuotePayments for TLC. *)
EXTENDS QuotePayments, TLC

CONSTANTS c1, c2, o1, o2

TwoSlots  == {c1, c2}
TwoOrders == {o1, o2}
OneOrder  == {o1}

\* Calls and orders are interchangeable (used by runs without liveness only).
Symmetric == Permutations(TwoSlots) \cup Permutations(TwoOrders)
=============================================================================
