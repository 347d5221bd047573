--------------------------- MODULE OrderProperties ---------------------------
(***************************************************************************)
(* What the order handlers should keep true of stock and payments.         *)
(***************************************************************************)
EXTENDS OrderRequests, Functions

(* Where an order's goods are, as StockPromise sees it. *)
Stage(row) ==
  IF row.status = "absent" THEN "none"
  ELSE IF row.status = "cancelled" THEN "returned"
  ELSE IF OpenReservation(row.log) THEN "held"
  ELSE "sold"

Promise == INSTANCE StockPromise WITH
             shelf <- onHand, stage <- [o \in Orders |-> Stage(order[o])]

QtyOf(p) == [o \in Orders |-> Qty[o][p]]
Once(log, m) == \E i \in DOMAIN log : \A j \in DOMAIN log : log[j] = m <=> j = i
Never(log, m) == \A i \in DOMAIN log : log[i] # m

-----------------------------------------------------------------------------
(* Invariants *)

(* updateOrderStatus, releaseReservedStockForOrder, deductReserved...: what  *)
(* quantity_reserved counts is exactly the open holds of live orders.        *)
ReservedIsOpenHolds ==
  \A b \in Branches, p \in Products :
    reserved[b][p] = SumFunctionOnSet(QtyOf(p),
                       {o \in Orders : OrderBranch[o] = b /\ Held(o)
                                       /\ order[o].status # "cancelled"})

(* The two stock ledgers tell the same story: what may still be promised is *)
(* what is in stock less what is reserved.                                  *)
LedgersAgree ==
  \A p \in Products :
    onHand[p] = SumFunctionOnSet([b \in Branches |-> inStock[b][p] - reserved[b][p]], Branches)

(* createOrder and the POS: the live orders whose goods were sold or held   *)
(* never amount to more than there was.                                     *)
NeverOversold ==
  \A p \in Products :
    SumFunctionOnSet(QtyOf(p), {o \in Orders : /\ order[o].log # <<>>
                                               /\ order[o].status # "cancelled"})
      <= InitOnHand[p]

(* A paid order took its goods exactly once and did not give them back,     *)
(* whatever mix of callbacks, polls and sweeps reached it.                  *)
PaidSoldOnce ==
  \A o \in Orders : AlreadyPaid(o) =>
    Once(order[o].log, "sale") /\ Never(order[o].log, "release")

(* holdStockForOrder is idempotent: between two holds of an order the first *)
(* one was sold or released.                                                *)
OneOpenReservation ==
  \A o \in Orders : \A i, j \in DOMAIN order[o].log :
    (i < j /\ order[o].log[i] = "reserve" /\ order[o].log[j] = "reserve")
      => \E k \in i..j : order[o].log[k] \in {"sale", "release"}

(* A receipt is stored only for an order some customer paid.                *)
ReceiptNeedsPayment ==
  \A o \in Orders : order[o].receipt =>
    \E c \in Checkouts : payment[c].order = o /\ payment[c].state = "ok"

-----------------------------------------------------------------------------
(* Action properties *)

(* A second cancellation of an order, by whichever path, moves no stock.    *)
DuplicateCancelIsNoop ==
  [][\A o \in Orders : order[o].status = "cancelled" =>
       order'[o].status # "cancelled" \/ order'[o].cancelled # order[o].cancelled
       \/ (\E q \in Orders : q # o /\ order'[q] # order[q])
       \/ UNCHANGED <<onHand, inStock, reserved>>]_vars

(* No callback, poll, sweep or till step takes an order out of 'cancelled'.  *)
CancelledStaysCancelled ==
  [][\A o \in Orders : order[o].status = "cancelled" => order'[o].status = "cancelled"]_vars

(* An order that has been paid for is not cancelled by the payment machinery *)
(* after it has moved on to 'shipped'.                                       *)
PaymentNeverUndone ==
  [][\A o \in Orders : IsOrderPaid(order[o]) => order'[o].status # "cancelled"]_vars

(* Checkout keeps the promise of StockPromise.                               *)
KeepsPromise == Promise!Spec

-----------------------------------------------------------------------------
(* The inductive invariant of checkout: Ops \subseteq {"storefront", "pos"}. *)

HeldLog  == <<"reserve">>
SoldLog  == <<"sale">>
PaidLog  == <<"reserve", "sale">>
FreedLog == <<"reserve", "release">>
OnceHeld == {HeldLog, PaidLog, FreedLog}

(* What each status says of the movements an order has made; only an order  *)
(* placed with a hold ever carries a checkout or is read by the timeout job. *)
RowInv(row) ==
  /\ row.cancelled = {}
  /\ \/ row.status = "absent" /\ row.log = <<>>
     \/ row.status = "pending" /\ row.log \in {HeldLog, SoldLog}
     \/ row.status = "pending_payment" /\ row.log = HeldLog
     \/ row.status = "confirmed" /\ row.log = SoldLog
     \/ row.status = "paid" /\ row.log \in {SoldLog, PaidLog}
     \/ row.status = "cancelled" /\ row.log = FreedLog
  /\ row.checkout # NoCheckout => row.log \in OnceHeld

OrderInv(o) == RowInv(order[o]) /\ (o \in drained => order[o].log \in OnceHeld)

(* Where a request may be, and what it knows of its order there.  Between a *)
(* till's transaction and its status update nobody else touches the order.  *)
RequestInv(r) ==
  LET q == req[r] IN
  /\ q.pc \in {"idle", "done", "pos_tx", "pos_status", "pos_paid", "pos_push",
              "push", "save", "release"}
  /\ q.pc \notin {"idle", "done"} => q.order \in Orders
  /\ q.pc \in {"pos_tx", "pos_status"} => q.arg \in {"hold", "deduct"}
  /\ q.pc \in {"push", "save", "release", "pos_push"} => order[q.order].log \in OnceHeld
  /\ q.pc = "save" => q.checkout \in Checkouts
  /\ q.pc = "pos_status" =>
       /\ order[q.order].status = "pending"
       /\ order[q.order].log = IF q.arg = "hold" THEN HeldLog ELSE SoldLog
       /\ order[q.order].checkout = NoCheckout
       /\ q.order \notin drained

Serving(r) == req[r].pc \notin {"idle", "done", "pos_tx"}

(* An order is served by one request at a time, and only once it exists.     *)
OneServer ==
  /\ \A r \in Requests : Serving(r) => Exists(req[r].order)
  /\ \A r, s \in Requests : Serving(r) /\ Serving(s) /\ r # s => req[r].order # req[s].order

CheckoutInv == /\ \A o \in Orders : OrderInv(o)
               /\ \A r \in Requests : RequestInv(r)
               /\ OneServer

-----------------------------------------------------------------------------
(* Liveness *)

(* Stock that is held is eventually sold or given back.                      *)
HoldsSettle ==
  \A o \in Orders : (Held(o) /\ order[o].status # "cancelled")
                      ~> (~Held(o) \/ order[o].status = "cancelled")

-----------------------------------------------------------------------------
(* Statements of comments in the code that its handlers do not keep; the    *)
(* README names the configuration in which TLC refutes each of them.        *)

(* The branch row of stock_levels follows what is sold at that branch.      *)
BranchSalesCounted ==
  \A b \in Branches, p \in Products :
    inStock[b][p] + SumFunctionOnSet(QtyOf(p), {o \in Orders : OrderBranch[o] = b
                                                       /\ ~Never(order[o].log, "sale")})
      = InitInStock[b][p]

(* Stock comes back at most once: the shelf never holds more than it did.   *)
RestockedAtMostOnce == \A p \in Products : onHand[p] <= InitOnHand[p]

(* A cancelled order holds no reservation.                                  *)
CancelledHoldsNothing == \A o \in Orders : order[o].status = "cancelled" => ~Held(o)

(* The amount asked of the customer for a payable order is its stored total. *)
PushedAmountIsTotal ==
  \A o \in Orders : (Payable(o) /\ order[o].checkout # NoCheckout) =>
    payment[order[o].checkout].amount - Total(o) \in -1..1

(* isOrderPaid: every path into 'delivered' passed through a payment.        *)
DeliveredWasPaid ==
  \A o \in Orders : order[o].status = "delivered" => order[o].paidAt

(* The confirmed-order guard relies on the paid_at marker and the receipt: an *)
(* order confirmed after its payment may ship without any grant.              *)
PaidMayShip ==
  \A o \in Orders : (order[o].status = "confirmed" /\ IsOrderPaid(order[o]))
                       => MayAdvance(o, "shipped", FALSE)

(* A payment is not lost: its callback finds the order it was made for.      *)
NoPaymentDropped == \A c \in Checkouts : ~payment[c].dropped

(* When every order is cancelled all the goods are back on the shelf.        *)
NothingStranded ==
  (\A o \in Orders : order[o].status \in {"absent", "cancelled"})
    => \A p \in Products : onHand[p] >= InitOnHand[p]

(* A customer is never charged twice for one order.                          *)
ChargedOnce ==
  \A c, d \in Checkouts : (payment[c].state = "ok" /\ payment[d].state = "ok"
                           /\ payment[c].order = payment[d].order) => c = d

(* An order that reads as paid is not cancelled.                             *)
PaidNotCancelled ==
  [][\A o \in Orders : AlreadyPaid(o) => order'[o].status # "cancelled"]_vars
=============================================================================
