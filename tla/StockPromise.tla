---------------------------- MODULE StockPromise ----------------------------
(***************************************************************************)
(* What checkout promises about stock_on_hand, without requests, payments  *)
(* or reservations: an order takes its goods off the shelf once, when it   *)
(* is placed; they are sold once or go back to the shelf once; an order    *)
(* whose goods went back never takes part again.                           *)
(***************************************************************************)
EXTENDS Naturals

CONSTANTS Orders, Products, Qty, InitOnHand

VARIABLES shelf, stage

Stage == {"none", "held", "sold", "returned"}

Init == /\ shelf = InitOnHand
        /\ stage = [o \in Orders |-> "none"]

Take(o, to) ==
  /\ stage[o] = "none"
  /\ \A p \in Products : shelf[p] >= Qty[o][p]
  /\ shelf' = [p \in Products |-> shelf[p] - Qty[o][p]]
  /\ stage' = [stage EXCEPT ![o] = to]

Pay(o) ==
  /\ stage[o] = "held"
  /\ stage' = [stage EXCEPT ![o] = "sold"]
  /\ UNCHANGED shelf

Return(o) ==
  /\ stage[o] = "held"
  /\ shelf' = [p \in Products |-> shelf[p] + Qty[o][p]]
  /\ stage' = [stage EXCEPT ![o] = "returned"]

Next == \E o \in Orders : Take(o, "held") \/ Take(o, "sold") \/ Pay(o) \/ Return(o)

Spec == Init /\ [][Next]_<<shelf, stage>>
=============================================================================
