---------------------------- MODULE OrderRequests ----------------------------
(***************************************************************************)
(* The request handlers of server/index.ts that move an order and its      *)
(* stock, running side by side over OrderStore, with the M-Pesa service    *)
(* and the hold-timeout job.                                               *)
(*                                                                         *)
(* A request is a process: each step is one database transaction or one    *)
(* call to Safaricom, and other requests run between its steps.  pc names  *)
(* the step that comes next; what the handler read earlier travels in the  *)
(* request's fields.  Ops selects the endpoints a configuration exercises. *)
(* Safaricom may answer, deliver, repeat, delay or lose a callback freely. *)
(* M-Pesa is configured (no SIM checkouts), as in production.              *)
(***************************************************************************)
EXTENDS OrderStore

CONSTANTS Requests,      \* one id per HTTP request of the run
          Ops,           \* the endpoints in use
          MaxCrashes,    \* bound on server restarts
          AdminStatuses    \* statuses the admin screen asks for

AllOps == {"storefront", "cart", "patch", "pos", "retry", "poll", "paycash",
           "poscancel", "admin", "refund", "item"}

ASSUME RequestAssumption == Ops \subseteq AllOps /\ MaxCrashes \in Nat
ASSUME AdminAssumption ==
  AdminStatuses \subseteq {"pending", "confirmed", "shipped", "delivered", "cancelled"}

VARIABLES req,       \* the requests
          payment,   \* Safaricom's side of every checkout
          aged,      \* orders older than the 15 minute cutoff
          drained,   \* the rows the timeout job has read and not yet released
          crashes    \* restarts so far

env == <<payment, aged, drained, crashes>>
vars == <<store, req, env>>

Pc == {"idle", "push", "save", "release", "patch_update", "patch_live", "patch_hold", "pos_tx",
       "pos_status", "pos_paid", "pos_push", "poll_query", "poll_confirm",
       "poll_paid", "cash_confirm", "cash_paid", "cancel_release",
       "set_status", "done"}

Request == [pc : Pc,
            op : AllOps \cup {"none"},
            order : Orders \cup {"none"},
            arg : Status \cup {"hold", "deduct", "receipt", "none"},
            amount : Nat,
            checkout : Checkouts \cup {NoCheckout}]

Idle == [pc |-> "idle", op |-> "none", order |-> "none", arg |-> "none",
         amount |-> 0, checkout |-> NoCheckout]
Done == [Idle EXCEPT !.pc = "done"]

(* unused -> prompt when the push is accepted -> the customer's outcome.  *)
Outcome == {"ok", "noreceipt", "fail"}
Payment == [state : {"unused", "prompt"} \cup Outcome, amount : Nat,
            order : Orders \cup {"none"},    \* the account reference
            dropped : BOOLEAN]               \* acknowledged, but no order was found

Prompt(r) == [state |-> "prompt", amount |-> req[r].amount, order |-> req[r].order,
              dropped |-> FALSE]

TypeOK == /\ StoreTypeOK
          /\ req \in [Requests -> Request]
          /\ payment \in [Checkouts -> Payment]
          /\ aged \in SUBSET Orders
          /\ drained \in SUBSET Orders
          /\ crashes \in 0..MaxCrashes

Init == /\ StoreInit
        /\ req = [r \in Requests |-> Idle]
        /\ payment = [c \in Checkouts |-> [state |-> "unused", amount |-> 0,
                                          order |-> "none", dropped |-> FALSE]]
        /\ aged = {} /\ drained = {} /\ crashes = 0

-----------------------------------------------------------------------------
(* Control of a request *)

Starts(r, op) == req[r].pc = "idle" /\ op \in Ops
At(r, pc) == req[r].pc = pc
Begin(r, op, o, pc, arg, amount) ==
  req' = [req EXCEPT ![r] = [pc |-> pc, op |-> op, order |-> o, arg |-> arg,
                             amount |-> amount, checkout |-> NoCheckout]]
Goto(r, pc) == req' = [req EXCEPT ![r].pc = pc]
Finish(r) == req' = [req EXCEPT ![r] = Done]

-----------------------------------------------------------------------------
(* Starting an STK push: shared by POST /orders, PATCH /orders and the POS *)

Push(r) ==
  /\ At(r, "push")
  /\ \E c \in Checkouts :
       /\ payment[c].state = "unused"
       /\ payment' = [payment EXCEPT ![c] = Prompt(r)]
       /\ req' = [req EXCEPT ![r].pc = "save", ![r].checkout = c]
  /\ UNCHANGED <<store, aged, drained, crashes>>

(* The storefront gives the hold back, the POS reports "failed" and leaves  *)
(* the order to the timeout job.                                            *)
GiveUp(r) ==
  IF req[r].op \in {"storefront", "patch"} THEN Goto(r, "release") ELSE Finish(r)

(* stkPush threw or returned no id; the prompt may have been sent all the same. *)
PushFails(r) ==
  /\ At(r, "push")
  /\ GiveUp(r)
  /\ UNCHANGED <<store, env>>

PushLost(r) ==
  /\ At(r, "push")
  /\ GiveUp(r)
  /\ \E c \in Checkouts : /\ payment[c].state = "unused"
                         /\ payment' = [payment EXCEPT ![c] = Prompt(r)]
  /\ UNCHANGED <<store, aged, drained, crashes>>

SaveCheckout(r) ==
  LET o == req[r].order IN
  /\ At(r, "save")
  /\ WriteOrder(o, [order[o] EXCEPT !.checkout = req[r].checkout])
  /\ Finish(r)
  /\ UNCHANGED <<onHand, inStock, reserved, env>>

ReleaseUnpushed(r) ==
  /\ At(r, "release")
  /\ ReleaseOrderHeldStock(req[r].order)
  /\ Finish(r)
  /\ UNCHANGED env

-----------------------------------------------------------------------------
(* Storefront: POST /api/orders, /create-pending and PATCH /api/orders/:id *)

Storefront(r, o, mpesa) ==
  /\ Starts(r, "storefront")
  /\ o \notin PosOrders
  /\ CreateOrder(o, ShippingFee, IF mpesa THEN "hold" ELSE "deduct")
  /\ IF mpesa THEN Begin(r, "storefront", o, "push", "none", Subtotal[o] + ShippingFee)
              ELSE Finish(r)
  /\ UNCHANGED env

CreatePending(r, o) ==
  /\ Starts(r, "cart")
  /\ o \notin PosOrders
  /\ CreateOrder(o, 0, "none")
  /\ Finish(r)
  /\ UNCHANGED env

(* The total to push is computed from the row read first. *)
PatchRead(r, o) ==
  /\ Starts(r, "patch")
  /\ order[o].status = "pending"
  /\ Begin(r, "patch", o, "patch_update", "none", Total(o))
  /\ UNCHANGED <<store, env>>

(* updateOrderDetails writes the fee of the county, if one is sent, whatever *)
(* has become of the order; the edit may also ask for an M-Pesa payment.     *)
PatchUpdate(r) ==
  LET o == req[r].order IN
  /\ At(r, "patch_update")
  /\ \E county \in BOOLEAN :
       WriteOrder(o, [order[o] EXCEPT !.fee = IF county THEN ShippingFee ELSE @])
  /\ Goto(r, "patch_live") \/ Finish(r)
  /\ UNCHANGED <<onHand, inStock, reserved, env>>

PatchLive(r) ==
  LET o == req[r].order IN
  /\ At(r, "patch_live")
  /\ IF order[o].checkout # NoCheckout /\ Payable(o) THEN Finish(r) ELSE Goto(r, "patch_hold")
  /\ UNCHANGED <<store, env>>

PatchHold(r) ==
  /\ At(r, "patch_hold")
  /\ HoldStockForOrder(req[r].order)
  /\ Goto(r, "push")
  /\ UNCHANGED env

-----------------------------------------------------------------------------
(* Point of sale: POST /api/pos/checkout and its idempotent replay *)

Available(o, p) ==
  LET b == OrderBranch[o] IN
  /\ inStock[b][p] - reserved[b][p] >= Qty[o][p]
  /\ b = NoBranch /\ onHand[p] > 0 => onHand[p] >= Qty[o][p]

PosCheck(r, o, mpesa) ==
  /\ Starts(r, "pos")
  /\ o \in PosOrders /\ ~Exists(o)
  /\ \A p \in InOrder(o) : Available(o, p)
  /\ Begin(r, "pos", o, "pos_tx", IF mpesa THEN "hold" ELSE "deduct", Subtotal[o])
  /\ UNCHANGED <<store, env>>

PosTx(r) ==
  /\ At(r, "pos_tx")
  /\ CreateOrder(req[r].order, 0, req[r].arg)
  /\ Goto(r, "pos_status")
  /\ UNCHANGED env

(* The order exists already (the idempotency key) or the stock is gone. *)
PosTxAborts(r) ==
  LET o == req[r].order IN
  /\ At(r, "pos_tx")
  /\ Exists(o) \/ ~Enough(o, InOrder(o))
  /\ Finish(r)
  /\ UNCHANGED <<store, env>>

PosStatus(r) ==
  /\ At(r, "pos_status")
  /\ UpdateOrderStatus(req[r].order,
                       IF req[r].arg = "hold" THEN "pending_payment" ELSE "confirmed")
  /\ Goto(r, IF req[r].arg = "hold" THEN "pos_push" ELSE "pos_paid")
  /\ UNCHANGED env

(* UPDATE ... SET status = 'paid' WHERE id = $1 AND status = 'confirmed'. *)
PosPaid(r) ==
  LET o == req[r].order IN
  /\ At(r, "pos_paid")
  /\ IF order[o].status = "confirmed" THEN MarkPaid(o, FALSE) ELSE UNCHANGED store
  /\ Finish(r)
  /\ UNCHANGED env

(* pushPosStk: a live checkout of a payable order is reused. *)
PosPush(r) ==
  LET o == req[r].order IN
  /\ At(r, "pos_push")
  /\ IF order[o].checkout # NoCheckout /\ Payable(o) THEN Finish(r) ELSE Goto(r, "push")
  /\ UNCHANGED <<store, env>>

(* The body of an M-Pesa sale again, with its idempotency key: a paid order *)
(* is reported, any other is pushed.                                        *)
PosRetry(r, o) ==
  /\ Starts(r, "retry")
  /\ o \in PosOrders /\ Exists(o) /\ Head(order[o].log) = "reserve"
  /\ IF AlreadyPaid(o) THEN Finish(r)
     ELSE Begin(r, "retry", o, "pos_push", "none", Subtotal[o])
  /\ UNCHANGED <<store, env>>

-----------------------------------------------------------------------------
(* The till waiting for a payment: payment-status, pay-cash, cancel *)

PollRead(r, o) ==
  /\ Starts(r, "poll")
  /\ Payable(o) /\ order[o].checkout # NoCheckout
  /\ req' = [req EXCEPT ![r] = [pc |-> "poll_query", op |-> "poll", order |-> o,
                                arg |-> IF order[o].receipt THEN "receipt" ELSE "none",
                                amount |-> 0,
                                checkout |-> order[o].checkout]]
  /\ UNCHANGED <<store, env>>

(* queryStatus: 0 is paid, > 0 failed; no answer yet ends the poll. *)
PollQuery(r) ==
  /\ At(r, "poll_query")
  /\ CASE payment[req[r].checkout].state \in {"ok", "noreceipt"} -> Goto(r, "poll_confirm")
       [] payment[req[r].checkout].state = "fail" -> Goto(r, "cancel_release")
       [] OTHER -> Finish(r)
  /\ UNCHANGED <<store, env>>

PollConfirm(r) ==
  /\ At(r, "poll_confirm")
  /\ ConfirmOrderPayment(req[r].order)
  /\ Goto(r, "poll_paid")
  /\ UNCHANGED env

PollPaid(r) ==
  /\ At(r, "poll_paid")
  /\ MarkPaid(req[r].order, req[r].arg = "receipt")
  /\ Finish(r)
  /\ UNCHANGED env

CashRead(r, o) ==
  /\ Starts(r, "paycash")
  /\ Exists(o)
  /\ Begin(r, "paycash", o, IF Payable(o) THEN "cash_confirm" ELSE "cash_paid", "none", 0)
  /\ UNCHANGED <<store, env>>

CashConfirm(r) ==
  /\ At(r, "cash_confirm")
  /\ ConfirmOrderPayment(req[r].order)
  /\ Goto(r, "cash_paid")
  /\ UNCHANGED env

CashPaid(r) ==
  /\ At(r, "cash_paid")
  /\ MarkPaid(req[r].order, FALSE)
  /\ Finish(r)
  /\ UNCHANGED env

PosCancelRead(r, o) ==
  /\ Starts(r, "poscancel")
  /\ Exists(o) /\ ~AlreadyPaid(o)
  /\ Begin(r, "poscancel", o, "cancel_release", "none", 0)
  /\ UNCHANGED <<store, env>>

(* releaseOrderHeldStock, then updateOrderStatus(id, "cancelled"): of the  *)
(* cancel button and of a poll that saw a failed payment.                  *)
CancelRelease(r) ==
  /\ At(r, "cancel_release")
  /\ ReleaseOrderHeldStock(req[r].order)
  /\ req' = [req EXCEPT ![r].pc = "set_status", ![r].arg = "cancelled"]
  /\ UNCHANGED env

-----------------------------------------------------------------------------
(* Back office: order status, refunds, item cancellation *)

(* The guard reads the order first; the owner, and who is granted the right, *)
(* may advance unpaid orders.  A provider's screen never may.                 *)
MayAdvance(o, s, granted) ==
  (order[o].status = "confirmed" /\ s \in {"shipped", "delivered"} /\ ~IsOrderPaid(GetOrder(o)))
    => granted

AdminRead(r, o, s, granted) ==
  /\ Starts(r, "admin")
  /\ Exists(o)
  /\ MayAdvance(o, s, granted)
  /\ Begin(r, "admin", o, "set_status", s, 0)
  /\ UNCHANGED <<store, env>>

SetStatus(r) ==
  /\ At(r, "set_status")
  /\ UpdateOrderStatus(req[r].order, req[r].arg)
  /\ Finish(r)
  /\ UNCHANGED env

Refund(r, o, amount) ==
  /\ Starts(r, "refund")
  /\ RefundOrder(o, amount) \/ \E p \in Products : RefundLine(o, p, amount)
  /\ Finish(r)
  /\ UNCHANGED env

CancelItem(r, o, p) ==
  /\ Starts(r, "item")
  /\ CancelOrderItem(o, p)
  /\ Finish(r)
  /\ UNCHANGED env

-----------------------------------------------------------------------------
(* Safaricom, time, the timeout job, restarts *)

CustomerAnswers(c) ==
  /\ payment[c].state = "prompt"
  /\ \E s \in Outcome : payment' = [payment EXCEPT ![c].state = s]
  /\ UNCHANGED <<store, req, aged, drained, crashes>>

(* A result code 0 that carries an MpesaReceiptNumber. *)
AnySuccess(c) == payment[c].state \in {"ok", "noreceipt"}                     \* mutant
Receipted(c) == payment[c].state = "ok"

(* POST /api/mpesa/callback for checkout c: at any time after the outcome, *)
(* any number of times.  A database error answers 500: no step.            *)
Callback(c) ==
  /\ payment[c].state \in Outcome
  /\ \E o \in Orders :
       /\ order[o].checkout = c
       /\ CASE Receipted(c)              -> MpesaSuccess(o, payment[c].amount)
            [] payment[c].state = "fail" -> MpesaFailure(o)
            [] OTHER                     -> UNCHANGED store
  /\ UNCHANGED <<req, env>>

(* A success for a checkout no order carries is acknowledged all the same,  *)
(* so Safaricom has no reason to send it again.                             *)
CallbackUnknown(c) ==
  /\ Receipted(c)
  /\ \A o \in Orders : order[o].checkout # c
  /\ payment' = [payment EXCEPT ![c].dropped = TRUE]
  /\ UNCHANGED <<store, req, aged, drained, crashes>>

Age(o) ==
  /\ Exists(o) /\ o \notin aged
  /\ aged' = aged \cup {o}
  /\ UNCHANGED <<store, req, payment, drained, crashes>>

SweepsPendingPaymentOnly(o) == o \in aged /\ order[o].status = "pending_payment"  \* mutant
Sweepable(o) ==
  /\ o \in aged
  /\ \/ order[o].status = "pending_payment"
     \/ order[o].status = "pending" /\ order[o].checkout # NoCheckout

SweepRead ==
  /\ drained = {}
  /\ \E o \in Orders : Sweepable(o)
  /\ drained' = {o \in Orders : Sweepable(o)}
  /\ UNCHANGED <<store, req, payment, aged, crashes>>

SweepRelease(o) ==
  /\ o \in drained
  /\ ReleaseOrderHeldStock(o)
  /\ drained' = drained \ {o}
  /\ UNCHANGED <<req, payment, aged, crashes>>

(* The process dies: requests in flight and the job's list are gone. *)
Crash ==
  /\ crashes < MaxCrashes
  /\ crashes' = crashes + 1
  /\ req' = [r \in Requests |-> IF req[r].pc = "idle" THEN req[r] ELSE Done]
  /\ drained' = {}
  /\ UNCHANGED <<store, payment, aged>>

-----------------------------------------------------------------------------
StartRequest(r) ==
  \E o \in Orders :
    \/ \E mpesa \in BOOLEAN : Storefront(r, o, mpesa) \/ PosCheck(r, o, mpesa)
    \/ CreatePending(r, o)
    \/ PatchRead(r, o)
    \/ PosRetry(r, o)
    \/ PollRead(r, o)
    \/ CashRead(r, o)
    \/ PosCancelRead(r, o)
    \/ \E s \in AdminStatuses, granted \in BOOLEAN : AdminRead(r, o, s, granted)
    \/ \E amount \in 1..Total(o) : Refund(r, o, amount)
    \/ \E p \in Products : CancelItem(r, o, p)

(* The next step of a request already under way. *)
Continue(r) ==
  \/ Push(r) \/ PushFails(r) \/ PushLost(r) \/ SaveCheckout(r) \/ ReleaseUnpushed(r)
  \/ PatchUpdate(r) \/ PatchLive(r) \/ PatchHold(r)
  \/ PosTx(r) \/ PosTxAborts(r) \/ PosStatus(r) \/ PosPaid(r) \/ PosPush(r)
  \/ PollQuery(r) \/ PollConfirm(r) \/ PollPaid(r)
  \/ CashConfirm(r) \/ CashPaid(r)
  \/ CancelRelease(r) \/ SetStatus(r)

Next ==
  \/ \E r \in Requests : StartRequest(r) \/ Continue(r)
  \/ \E c \in Checkouts : CustomerAnswers(c) \/ Callback(c) \/ CallbackUnknown(c)
  \/ \E o \in Orders : Age(o) \/ SweepRelease(o)
  \/ SweepRead
  \/ Crash

Spec == Init /\ [][Next]_vars

(* The job runs on an interval, requests run to their end, time passes. *)
Fairness ==
  /\ \A r \in Requests : WF_vars(Continue(r))
  /\ \A o \in Orders : WF_vars(Age(o)) /\ WF_vars(SweepRelease(o))
  /\ WF_vars(SweepRead)

FairSpec == Spec /\ Fairness
=============================================================================
