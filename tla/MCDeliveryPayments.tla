------------------------- MODULE MCDeliveryPayments -------------------------
(* Small instances of DeliveryPayments for TLC. *)
EXTENDS DeliveryPayments, TLC

CONSTANTS c1, c2, o1, o2

TwoSlots  == {c1, c2}
TwoOrders == {o1, o2}
OneOrder  == {o1}

\* Calls and orders are interchangeable (used by the run without liveness).
Symmetric == Permutations(TwoSlots) \cup Permutations(TwoOrders)
=============================================================================
