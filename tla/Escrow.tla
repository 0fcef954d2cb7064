------------------------------- MODULE Escrow -------------------------------
(***************************************************************************)
(* What protected payment promises, order by order: the books follow the   *)
(* gateway.  Money that was never taken is never booked as held, and an    *)
(* order is booked as returned or reversed only after the gateway has      *)
(* returned or reversed the money, which it does at most once.             *)
(***************************************************************************)
CONSTANT Orders

VARIABLES
    gateway,  \* where the money of an order is
    book      \* what EditZone has written down about it

vars == <<gateway, book>>

Places == {"client", "held", "merchant", "returned", "reversed"}
Books  == {"open", "dropped", "held", "returned", "reversed"}

\* A hold on the card from before the migration may exist from the start.
Init ==
    /\ gateway \in [Orders -> {"client", "held"}]
    /\ book = [o \in Orders |->
                  IF gateway[o] = "held" THEN "held" ELSE "open"]

Move(o, from, to) ==
    /\ gateway[o] \in from
    /\ gateway' = [gateway EXCEPT ![o] = to]
    /\ UNCHANGED book

Take(o)    == Move(o, {"client", "held"}, "merchant")
Return(o)  == Move(o, {"held", "merchant"}, "returned")
Reverse(o) == Move(o, {"merchant"}, "reversed")

Write(o, from, to) ==
    /\ book[o] \in from
    /\ book' = [book EXCEPT ![o] = to]
    /\ UNCHANGED gateway

Drop(o)         == Write(o, {"open"}, "dropped")
Book(o)         == gateway[o] # "client" /\ Write(o, {"open"}, "held")
BookReturn(o)   == gateway[o] = "returned" /\ Write(o, {"held"}, "returned")
BookReversal(o) ==
    gateway[o] = "reversed" /\ Write(o, {"open", "held"}, "reversed")

Next ==
    \E o \in Orders :
        \/ Take(o) \/ Return(o) \/ Reverse(o)
        \/ Drop(o) \/ Book(o) \/ BookReturn(o) \/ BookReversal(o)

Spec == Init /\ [][Next]_vars
=============================================================================
