----------------------------- MODULE OrderStore -----------------------------
(***************************************************************************)
(* The order and stock tables of one shop database, and the transactions   *)
(* of server/db.ts over them.                                              *)
(*                                                                         *)
(* Stock is kept twice: products.stock_on_hand (onHand), what may still be *)
(* promised, and stock_levels (inStock, reserved), one row per product and *)
(* branch; NoBranch is the row with a NULL branch_id.  Every transaction   *)
(* below locks the order row FOR UPDATE (or is one UPDATE), so it is one   *)
(* atomic operator.  An operator states the next value of the tables only: *)
(* the request handlers of OrderRequests choose when it runs.              *)
(*                                                                         *)
(* Abstractions.  The lines of an order are Qty[o]: products the order     *)
(* does not contain have quantity 0, and repeated lines of one product are *)
(* one line.  Every product has its stock_levels rows.  Money is counted   *)
(* in whole units and orders carry no discount (CheckoutCredits has those). *)
(* stock_movements is kept per order, as the sequence of movement types    *)
(* with reference_type 'order'; the 'restock' movements of cancellations   *)
(* and refunds carry other reference types and nothing reads them.         *)
(***************************************************************************)
EXTENDS Integers, Sequences

CONSTANTS Orders,        \* order ids, each used by at most one sale
          Products,
          Branches,      \* branch ids, NoBranch among them
          NoBranch,
          PosOrders,     \* orders sold at a till; the others are storefront orders
          OrderBranch,   \* orders.branch_id, NULL for storefront orders
          Qty,           \* order_items: Qty[o][p], 0 when p is not in o
          Price,         \* order_items.price
          Subtotal,      \* orders.subtotal
          ShippingFee,   \* the county's delivery fee
          InitOnHand,    \* products.stock_on_hand at the start
          InitInStock,   \* stock_levels.quantity_in_stock at the start
          Checkouts,     \* CheckoutRequestIDs Safaricom may issue
          NoCheckout

Stock == [Products -> Nat]

ASSUME BranchAssumption   == /\ NoBranch \in Branches
                             /\ OrderBranch \in [Orders -> Branches]
                             /\ \A o \in Orders \ PosOrders : OrderBranch[o] = NoBranch
ASSUME QtyAssumption      == Qty \in [Orders -> Stock]
ASSUME MoneyAssumption    == Price \in Stock /\ Subtotal \in [Orders -> Nat] /\ ShippingFee \in Nat
ASSUME StockAssumption    == InitOnHand \in Stock /\ InitInStock \in [Branches -> Stock]
ASSUME CheckoutAssumption == NoCheckout \notin Checkouts

VARIABLES order,      \* orders, with order_items.cancelled and its movements
          onHand,     \* products.stock_on_hand
          inStock,    \* stock_levels.quantity_in_stock
          reserved    \* stock_levels.quantity_reserved

store == <<order, onHand, inStock, reserved>>

Status == {"absent", "pending", "pending_payment", "confirmed", "paid",
           "shipped", "delivered", "cancelled"}
Movement == {"reserve", "sale", "release"}

OrderRow == [status    : Status,
             paidAt    : BOOLEAN,                     \* paid_at is set
             receipt   : BOOLEAN,                     \* mpesa_receipt is set
             checkout  : Checkouts \cup {NoCheckout}, \* checkout_request_id
             fee       : Nat,                         \* shipping_fee
             refunded  : Nat,                         \* amount_refunded
             cancelled : SUBSET Products,             \* cancelled lines
             log       : Seq(Movement)]

NoOrder == [status |-> "absent", paidAt |-> FALSE, receipt |-> FALSE,
            checkout |-> NoCheckout, fee |-> 0, refunded |-> 0,
            cancelled |-> {}, log |-> <<>>]

StoreTypeOK == /\ order \in [Orders -> OrderRow]
               /\ onHand \in Stock
               /\ inStock \in [Branches -> Stock]
               /\ reserved \in [Branches -> Stock]

StoreInit == /\ order = [o \in Orders |-> NoOrder]
             /\ onHand = InitOnHand
             /\ inStock = InitInStock
             /\ reserved = [b \in Branches |-> [p \in Products |-> 0]]

-----------------------------------------------------------------------------
(* Reading the tables *)

InOrder(o) == {p \in Products : Qty[o][p] > 0}
Active(o) == InOrder(o) \ order[o].cancelled
Exists(o) == order[o].status # "absent"
PayableAgain(o) == order[o].status \in {"pending", "pending_payment", "paid"}  \* mutant
Payable(o) == order[o].status \in {"pending", "pending_payment"}
AlreadyPaid(o) == order[o].status \in {"paid", "delivered"}
Total(o) == Subtotal[o] + order[o].fee

(* HAS_OPEN_RESERVATION_SQL: a reserve with no sale or release after it. *)
OpenReservation(log) ==
  \E i \in DOMAIN log : /\ log[i] = "reserve"
                        /\ \A j \in DOMAIN log : log[j] \in {"sale", "release"} => j < i
NeverHeld(o) == FALSE                                                          \* mutant
Held(o) == OpenReservation(order[o].log)

(* isOrderPaid of a row, or of the part of a row getOrder returns: that      *)
(* leaves out paid_at and mpesa_receipt.                                     *)
IsOrderPaid(row) == row.status \in {"delivered", "paid"} \/ row.paidAt \/ row.receipt
GetOrder(o) == [order[o] EXCEPT !.paidAt = FALSE, !.receipt = FALSE]

(* The guard stock_on_hand >= quantity of every line of L. *)
NoStockCheck(o, L) == TRUE                                                     \* mutant
Enough(o, L) == \A p \in L : onHand[p] >= Qty[o][p]

(* Arithmetic on a stock column over the lines L of order o. *)
Plus(s, o, L) == [p \in Products |-> IF p \in L THEN s[p] + Qty[o][p] ELSE s[p]]
Take(s, o, L) == [p \in Products |-> IF p \in L THEN s[p] - Qty[o][p] ELSE s[p]]
Minus(s, o, L) ==                                    \* GREATEST(s - qty, 0)
  [p \in Products |-> IF p \notin L THEN s[p]
                      ELSE IF s[p] >= Qty[o][p] THEN s[p] - Qty[o][p] ELSE 0]
MinusIfEnough(s, o, L) ==                            \* ... WHERE s >= qty
  [p \in Products |-> IF p \in L /\ s[p] >= Qty[o][p] THEN s[p] - Qty[o][p] ELSE s[p]]

-----------------------------------------------------------------------------
(* Transactions *)

WriteOrder(o, row) == order' = [order EXCEPT ![o] = row]

(* createOrder, and runCheckout of the POS: the order row with its hold      *)
(* ("hold"), its immediate deduction ("deduct") or no stock effect ("none"). *)
(* A shortage of any line rolls the whole transaction back: no step.         *)
FirstMovement(mode) ==
  IF mode = "hold" THEN <<"reserve">> ELSE IF mode = "deduct" THEN <<"sale">> ELSE <<>>
CreateOrder(o, fee, mode) ==
  LET b == OrderBranch[o]  L == InOrder(o) IN
  /\ ~Exists(o)
  /\ mode # "none" => Enough(o, L)
  /\ WriteOrder(o, [order[o] EXCEPT !.status = "pending", !.fee = fee,
                                    !.log = FirstMovement(mode)])
  /\ onHand' = IF mode = "none" THEN onHand ELSE Take(onHand, o, L)
  /\ reserved' = IF mode = "hold"
                 THEN [reserved EXCEPT ![b] = Plus(@, o, L)] ELSE reserved
  /\ inStock' = IF mode = "deduct"
                THEN [inStock EXCEPT ![b] = MinusIfEnough(@, o, L)] ELSE inStock

(* deductReservedStockForOrder: every line, the cancelled ones included. *)
DeductKeepsReserved(o) ==                                                      \* mutant
  LET b == OrderBranch[o]  L == InOrder(o) IN
  /\ inStock' = [inStock EXCEPT ![b] = Minus(@, o, L)]
  /\ UNCHANGED <<onHand, reserved>>
DeductReserved(o) ==
  LET b == OrderBranch[o]  L == InOrder(o) IN
  /\ inStock' = [inStock EXCEPT ![b] = Minus(@, o, L)]
  /\ reserved' = [reserved EXCEPT ![b] = Minus(@, o, L)]
  /\ UNCHANGED onHand

(* releaseReservedStockForOrder: every line, the cancelled ones included. *)
ReleaseKeepsReserved(o) ==                                                     \* mutant
  /\ onHand' = Plus(onHand, o, InOrder(o))
  /\ UNCHANGED <<inStock, reserved>>
ReleaseReserved(o) ==
  LET b == OrderBranch[o]  L == InOrder(o) IN
  /\ onHand' = Plus(onHand, o, L)
  /\ reserved' = [reserved EXCEPT ![b] = Minus(@, o, L)]
  /\ UNCHANGED inStock

ConfirmOrderPayment(o) ==
  \/ /\ Payable(o)
     /\ DeductReserved(o)
     /\ WriteOrder(o, [order[o] EXCEPT !.status = "paid", !.paidAt = TRUE,
                                       !.log = Append(@, "sale")])
  \/ /\ ~Payable(o)
     /\ UNCHANGED store

ReleaseUnconditionally(o) ==                                                   \* mutant
  /\ ReleaseReserved(o)
  /\ WriteOrder(o, [order[o] EXCEPT !.status = "cancelled",
                                    !.log = Append(@, "release")])
ReleaseOrderHeldStock(o) ==
  \/ /\ Payable(o)
     /\ ReleaseReserved(o)
     /\ WriteOrder(o, [order[o] EXCEPT !.status = "cancelled",
                                       !.log = Append(@, "release")])
  \/ /\ ~Payable(o)
     /\ UNCHANGED store

(* updateOrderStatus(id, "cancelled"): active lines only, and the lines are *)
(* not flagged cancelled.                                                   *)
RestockOrder(o) ==
  LET b == OrderBranch[o]  L == Active(o) IN
  /\ WriteOrder(o, [order[o] EXCEPT !.status = "cancelled"])
  /\ onHand' = Plus(onHand, o, L)
  /\ reserved' = [reserved EXCEPT ![b] = Minus(@, o, L)]
  /\ inStock' = IF Held(o) THEN inStock ELSE [inStock EXCEPT ![b] = Plus(@, o, L)]
CancelAgain(o) == RestockOrder(o)                                              \* mutant
CancelOrder(o) ==
  \/ order[o].status # "cancelled" /\ RestockOrder(o)
  \/ order[o].status = "cancelled" /\ UNCHANGED store

(* updateOrderStatus(id, status): no condition on the present status. *)
UpdateOrderStatus(o, s) ==
  IF s = "cancelled" THEN CancelOrder(o)
  ELSE /\ WriteOrder(o, [order[o] EXCEPT !.status = s])
       /\ UNCHANGED <<onHand, inStock, reserved>>

(* UPDATE orders SET status = 'paid', paid_at = COALESCE(...), unconditional; *)
(* the poll's also writes back the receipt it read, unless there is one.      *)
MarkPaid(o, receipt) ==
  /\ WriteOrder(o, [order[o] EXCEPT !.status = "paid", !.paidAt = TRUE,
                                    !.receipt = @ \/ receipt])
  /\ UNCHANGED <<onHand, inStock, reserved>>

(* holdStockForOrder.  Its errors (unpayable status, nothing active, a       *)
(* shortage) abort the transaction and its only caller logs them: no change. *)
HoldStockForOrder(o) ==
  LET L == Active(o)
      holds == Payable(o) /\ ~Held(o) /\ L # {} /\ Enough(o, L) IN
  \/ /\ holds
     /\ WriteOrder(o, [order[o] EXCEPT !.log = Append(@, "reserve")])
     /\ onHand' = Take(onHand, o, L)
     /\ reserved' = [reserved EXCEPT ![NoBranch] = Plus(@, o, L)]
     /\ UNCHANGED inStock
  \/ /\ ~holds
     /\ UNCHANGED store

(* updateOrderMpesaStatus for the order whose checkout_request_id is c; the *)
(* amount must match the stored total to within 1.                          *)
MpesaSuccess(o, amount) ==
  LET matches == amount - Total(o) \in -1..1 IN
  \/ /\ matches /\ AlreadyPaid(o)
     /\ WriteOrder(o, [order[o] EXCEPT !.receipt = TRUE])
     /\ UNCHANGED <<onHand, inStock, reserved>>
  \/ /\ matches /\ Payable(o)
     /\ DeductReserved(o)
     /\ WriteOrder(o, [order[o] EXCEPT !.status = "paid", !.paidAt = TRUE,
                                       !.receipt = TRUE, !.log = Append(@, "sale")])
  \/ /\ ~matches \/ ~(AlreadyPaid(o) \/ Payable(o))
     /\ UNCHANGED store

MpesaFailure(o) ==
  \/ /\ ~AlreadyPaid(o) /\ order[o].status # "cancelled"
     /\ ReleaseReserved(o)
     /\ WriteOrder(o, [order[o] EXCEPT !.status = "cancelled",
                                       !.receipt = FALSE, !.log = Append(@, "release")])
  \/ /\ AlreadyPaid(o) \/ order[o].status = "cancelled"
     /\ UNCHANGED store

(* createRefund of amount, for the whole order or for its line p. *)
RefundOrder(o, amount) ==
  /\ Exists(o)
  /\ amount \in 1..(Total(o) - order[o].refunded)
  /\ WriteOrder(o, [order[o] EXCEPT !.refunded = @ + amount])
  /\ UNCHANGED <<onHand, inStock, reserved>>

RefundLine(o, p, amount) ==
  LET b == OrderBranch[o]  L == {p} \ order[o].cancelled IN
  /\ Exists(o) /\ p \in InOrder(o)
  /\ amount \in 1..(Total(o) - order[o].refunded)
  /\ amount <= Price[p] * Qty[o][p]
  /\ WriteOrder(o, [order[o] EXCEPT !.refunded = @ + amount,
                                    !.cancelled = @ \cup {p}])
  /\ onHand' = Plus(onHand, o, L)
  /\ inStock' = [inStock EXCEPT ![b] = Plus(@, o, L)]
  /\ reserved' = [reserved EXCEPT ![b] = Minus(@, o, L)]

(* cancelOrderItem: the flag alone. *)
CancelOrderItem(o, p) ==
  /\ Exists(o) /\ p \in InOrder(o)
  /\ WriteOrder(o, [order[o] EXCEPT !.cancelled = @ \cup {p}])
  /\ UNCHANGED <<onHand, inStock, reserved>>
=============================================================================
