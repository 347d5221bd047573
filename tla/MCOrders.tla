------------------------------ MODULE MCOrders ------------------------------
(* Small shops for TLC: orders web1, web2 (storefront) and till1, till2 (till). *)
EXTENDS OrderProperties, TLC

CONSTANTS web1, web2, till1, till2, \* orders
          screen, cable, \* products
          main, hq       \* the NULL row and a branch

Interchangeable == Permutations(Requests) \cup Permutations(Checkouts)

Line(p, n) == [q \in Products |-> IF q = p THEN n ELSE 0]
AllBut(p, n, d) == [q \in Products |-> IF q = p THEN n ELSE d]

(* One order of two lines, the others of one screen. *)
MCQty == [o \in Orders |-> IF o = web1 THEN [p \in Products |-> 1] ELSE Line(screen, 1)]
MCPrice == [p \in Products |-> 1]
MCSubtotal == [o \in Orders |-> 2]
MCPosOrders == Orders \cap {till1, till2}
AllMain == [o \in Orders |-> main]
TillsAtHq == [o \in Orders |-> IF o \in {till1, till2} THEN hq ELSE main]

(* Two screens for three orders that want one, all in the NULL row. *)
ScarceOnHand == AllBut(screen, 2, 1)
ScarceInStock == [l \in Branches |-> AllBut(screen, 2, 1)]

(* A single screen. *)
OneOnHand == AllBut(screen, 1, 1)
OneInStock == [l \in Branches |-> AllBut(screen, 1, 1)]

(* One screen at the branch and one in the NULL row. *)
SplitInStock == [l \in Branches |-> [p \in Products |-> 1]]
SplitOnHand == [p \in Products |-> 2]
=============================================================================
