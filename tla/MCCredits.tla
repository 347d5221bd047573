------------------------------ MODULE MCCredits ------------------------------
(* A coupon for one use, a gift card that covers one order but not two. *)
EXTENDS CheckoutCredits, TLC

MCMaxUses == [c \in Coupons |-> 1]
MCCouponValue == [c \in Coupons |-> 1]
MCCardValue == [k \in Cards |-> 4]
MCSubtotal == [r \in Requests |-> 3]

Interchangeable == Permutations(Requests)
=============================================================================
