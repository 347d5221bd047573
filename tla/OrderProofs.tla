----------------------------- MODULE OrderProofs -----------------------------
(***************************************************************************)
(* Proofs about the order handlers, for every set of orders, products,     *)
(* branches, requests and checkouts, and every quantity.                   *)
(*                                                                         *)
(* With every endpoint in use: the types of the tables; that a transaction *)
(* leaves a trace in the row of the order it moves stock for (Tidy), hence *)
(* that a second cancellation moves nothing and holds do not overlap; and, *)
(* by ReceiptInv, that a receipt is the receipt of a payment.              *)
(*                                                                         *)
(* Of the checkout paths alone (storefront orders and M-Pesa or cash sales *)
(* at the till, with callbacks, the timeout job and restarts, any number   *)
(* of each) CheckoutInv is the inductive invariant; from it follow that    *)
(* checkout implements StockPromise and that a paid order took its goods   *)
(* once.  BookedInv adds the reservation counters to it, and RowAgrees the *)
(* on-hand column of a shop with one row of stock.                         *)
(***************************************************************************)
EXTENDS OrderProperties, SequenceTheorems, SumFacts, TLAPS

-----------------------------------------------------------------------------
(* The arithmetic on a stock column stays within the column's type. *)

LEMMA StockArithmetic ==
  ASSUME NEW s \in Stock, NEW o \in Orders, NEW L
  PROVE  Plus(s, o, L) \in Stock /\ Minus(s, o, L) \in Stock /\ MinusIfEnough(s, o, L) \in Stock
<1>1. \A p \in Products : s[p] \in Nat /\ Qty[o][p] \in Nat
  BY QtyAssumption DEF Stock
<1> QED BY <1>1 DEF Plus, Minus, MinusIfEnough, Stock

LEMMA TakeWithinStock ==
  ASSUME NEW o \in Orders, NEW L, onHand \in Stock, L \subseteq Products, Enough(o, L)
  PROVE  Take(onHand, o, L) \in Stock
<1>1. \A p \in Products : onHand[p] \in Nat /\ Qty[o][p] \in Nat
  BY QtyAssumption DEF Stock
<1>2. \A p \in L : onHand[p] >= Qty[o][p]
  BY DEF Enough
<1> QED BY <1>1, <1>2 DEF Take, Stock

LEMMA BranchUpdate ==
  ASSUME NEW f \in [Branches -> Stock], NEW b \in Branches, NEW s \in Stock
  PROVE  [f EXCEPT ![b] = s] \in [Branches -> Stock]
OBVIOUS

(* Writing an order row, alone or with one movement more, keeps the table typed. *)
LEMMA RowUpdate ==
  ASSUME StoreTypeOK, NEW o \in Orders, NEW row \in OrderRow, WriteOrder(o, row)
  PROVE  order' \in [Orders -> OrderRow]
BY DEF StoreTypeOK, WriteOrder

LEMMA LogUpdate ==
  ASSUME StoreTypeOK, NEW o \in Orders, NEW m \in Movement
  PROVE  order[o] \in OrderRow /\ Append(order[o].log, m) \in Seq(Movement)
BY DEF StoreTypeOK, OrderRow

LEMMA LinesAreProducts ==
  ASSUME NEW o \in Orders
  PROVE  /\ InOrder(o) \subseteq Products
         /\ Active(o) \subseteq Products
         /\ OrderBranch[o] \in Branches
BY BranchAssumption DEF InOrder, Active

-----------------------------------------------------------------------------
(* Every transaction keeps the tables well typed. *)

LEMMA CreateOrderType ==
  ASSUME StoreTypeOK, NEW o \in Orders, NEW fee \in Nat,
         NEW mode \in {"none", "hold", "deduct"}, CreateOrder(o, fee, mode)
  PROVE  StoreTypeOK'
<1> DEFINE b == OrderBranch[o]  L == InOrder(o)
<1>1. b \in Branches /\ L \subseteq Products
  BY BranchAssumption DEF InOrder
<1>2. onHand' \in Stock
  BY <1>1, TakeWithinStock DEF CreateOrder, StoreTypeOK
<1>3. reserved' \in [Branches -> Stock]
  BY <1>1, StockArithmetic, BranchUpdate DEF CreateOrder, StoreTypeOK
<1>4. inStock' \in [Branches -> Stock]
  BY <1>1, StockArithmetic, BranchUpdate DEF CreateOrder, StoreTypeOK
<1>5. FirstMovement(mode) \in Seq(Movement)
  <2>1. "reserve" \in Movement /\ "sale" \in Movement
    BY DEF Movement
  <2>2. <<"reserve">> \in Seq(Movement) /\ <<"sale">> \in Seq(Movement) /\ <<>> \in Seq(Movement)
    BY <2>1
  <2> QED BY <2>2 DEF FirstMovement
<1>6. order' \in [Orders -> OrderRow]
  BY <1>5 DEF CreateOrder, WriteOrder, StoreTypeOK, OrderRow, Status
<1> QED BY <1>2, <1>3, <1>4, <1>6 DEF StoreTypeOK

LEMMA DeductReservedType ==
  ASSUME StoreTypeOK, NEW o \in Orders, DeductReserved(o)
  PROVE  onHand' \in Stock /\ inStock' \in [Branches -> Stock] /\ reserved' \in [Branches -> Stock]
BY LinesAreProducts, StockArithmetic, BranchUpdate DEF DeductReserved, StoreTypeOK

LEMMA ReleaseReservedType ==
  ASSUME StoreTypeOK, NEW o \in Orders, ReleaseReserved(o)
  PROVE  onHand' \in Stock /\ inStock' \in [Branches -> Stock] /\ reserved' \in [Branches -> Stock]
BY LinesAreProducts, StockArithmetic, BranchUpdate DEF ReleaseReserved, StoreTypeOK

LEMMA StatusUpdate ==
  ASSUME StoreTypeOK, NEW o \in Orders, NEW s \in Status
  PROVE  [order[o] EXCEPT !.status = s] \in OrderRow
BY DEF StoreTypeOK, OrderRow

LEMMA UnchangedType ==
  ASSUME StoreTypeOK, UNCHANGED store
  PROVE  StoreTypeOK'
BY DEF StoreTypeOK, store

LEMMA ConfirmOrderPaymentType ==
  ASSUME StoreTypeOK, NEW o \in Orders, ConfirmOrderPayment(o)
  PROVE  StoreTypeOK'
<1> DEFINE row == [order[o] EXCEPT !.status = "paid", !.paidAt = TRUE, !.log = Append(@, "sale")]
<1>1. CASE Payable(o) /\ DeductReserved(o) /\ WriteOrder(o, row)
  <2>1. row \in OrderRow
    BY LogUpdate DEF OrderRow, Status, Movement
  <2> QED BY <1>1, <2>1, RowUpdate, DeductReservedType DEF StoreTypeOK
<1>2. CASE UNCHANGED store
  BY <1>2, UnchangedType
<1> QED BY <1>1, <1>2 DEF ConfirmOrderPayment

LEMMA ReleaseOrderHeldStockType ==
  ASSUME StoreTypeOK, NEW o \in Orders, ReleaseOrderHeldStock(o)
  PROVE  StoreTypeOK'
<1> DEFINE row == [order[o] EXCEPT !.status = "cancelled", !.log = Append(@, "release")]
<1>1. CASE Payable(o) /\ ReleaseReserved(o) /\ WriteOrder(o, row)
  <2>1. row \in OrderRow
    BY LogUpdate DEF OrderRow, Status, Movement
  <2> QED BY <1>1, <2>1, RowUpdate, ReleaseReservedType DEF StoreTypeOK
<1>2. CASE UNCHANGED store
  BY <1>2, UnchangedType
<1> QED BY <1>1, <1>2 DEF ReleaseOrderHeldStock

LEMMA UpdateOrderStatusType ==
  ASSUME StoreTypeOK, NEW o \in Orders, NEW s \in Status, UpdateOrderStatus(o, s)
  PROVE  StoreTypeOK'
<1>1. CASE s = "cancelled" /\ RestockOrder(o)
  <2>1. order' \in [Orders -> OrderRow]
    BY <1>1, StatusUpdate, RowUpdate DEF RestockOrder, Status
  <2>2. onHand' \in Stock /\ reserved' \in [Branches -> Stock]
    BY <1>1, LinesAreProducts, StockArithmetic, BranchUpdate DEF RestockOrder, StoreTypeOK
  <2>3. inStock' \in [Branches -> Stock]
    BY <1>1, LinesAreProducts, StockArithmetic, BranchUpdate DEF RestockOrder, StoreTypeOK
  <2> QED BY <2>1, <2>2, <2>3 DEF StoreTypeOK
<1>2. CASE s # "cancelled"
  BY <1>2, StatusUpdate, RowUpdate DEF UpdateOrderStatus, StoreTypeOK
<1>3. CASE UNCHANGED store
  BY <1>3, UnchangedType
<1> QED BY <1>1, <1>2, <1>3 DEF UpdateOrderStatus, CancelOrder

LEMMA MarkPaidType ==
  ASSUME StoreTypeOK, NEW o \in Orders, NEW receipt \in BOOLEAN, MarkPaid(o, receipt)
  PROVE  StoreTypeOK'
<1>1. [order[o] EXCEPT !.status = "paid", !.paidAt = TRUE, !.receipt = @ \/ receipt] \in OrderRow
  BY DEF StoreTypeOK, OrderRow, Status
<1> QED BY <1>1, RowUpdate DEF MarkPaid, StoreTypeOK

LEMMA HoldStockForOrderType ==
  ASSUME StoreTypeOK, NEW o \in Orders, HoldStockForOrder(o)
  PROVE  StoreTypeOK'
<1> DEFINE row == [order[o] EXCEPT !.log = Append(@, "reserve")]  L == Active(o)
<1>1. CASE /\ Enough(o, L) /\ WriteOrder(o, row)
           /\ onHand' = Take(onHand, o, L)
           /\ reserved' = [reserved EXCEPT ![NoBranch] = Plus(@, o, L)]
           /\ UNCHANGED inStock
  <2>1. row \in OrderRow
    BY LogUpdate DEF OrderRow, Movement
  <2>2. onHand' \in Stock
    BY <1>1, LinesAreProducts, TakeWithinStock DEF StoreTypeOK
  <2>3. reserved' \in [Branches -> Stock]
    BY <1>1, BranchAssumption, StockArithmetic, BranchUpdate DEF StoreTypeOK
  <2> QED BY <1>1, <2>1, <2>2, <2>3, RowUpdate DEF StoreTypeOK
<1>2. CASE UNCHANGED store
  BY <1>2, UnchangedType
<1> QED BY <1>1, <1>2 DEF HoldStockForOrder

LEMMA MpesaSuccessType ==
  ASSUME StoreTypeOK, NEW o \in Orders, NEW amount, MpesaSuccess(o, amount)
  PROVE  StoreTypeOK'
<1> DEFINE paid == [order[o] EXCEPT !.status = "paid", !.paidAt = TRUE,
                                    !.receipt = TRUE, !.log = Append(@, "sale")]
           receipted == [order[o] EXCEPT !.receipt = TRUE]
<1>1. CASE WriteOrder(o, receipted) /\ UNCHANGED <<onHand, inStock, reserved>>
  <2>1. receipted \in OrderRow
    BY DEF StoreTypeOK, OrderRow
  <2> QED BY <1>1, <2>1, RowUpdate DEF StoreTypeOK
<1>2. CASE DeductReserved(o) /\ WriteOrder(o, paid)
  <2>1. paid \in OrderRow
    BY LogUpdate DEF OrderRow, Status, Movement
  <2> QED BY <1>2, <2>1, RowUpdate, DeductReservedType DEF StoreTypeOK
<1>3. CASE UNCHANGED store
  BY <1>3, UnchangedType
<1> QED BY <1>1, <1>2, <1>3 DEF MpesaSuccess

LEMMA MpesaFailureType ==
  ASSUME StoreTypeOK, NEW o \in Orders, MpesaFailure(o)
  PROVE  StoreTypeOK'
<1> DEFINE row == [order[o] EXCEPT !.status = "cancelled", !.receipt = FALSE,
                                   !.log = Append(@, "release")]
<1>1. CASE ReleaseReserved(o) /\ WriteOrder(o, row)
  <2>1. row \in OrderRow
    BY LogUpdate DEF OrderRow, Status, Movement
  <2> QED BY <1>1, <2>1, RowUpdate, ReleaseReservedType DEF StoreTypeOK
<1>2. CASE UNCHANGED store
  BY <1>2, UnchangedType
<1> QED BY <1>1, <1>2 DEF MpesaFailure

LEMMA RefundType ==
  ASSUME StoreTypeOK, NEW o \in Orders, NEW amount \in Nat,
         RefundOrder(o, amount) \/ \E p \in Products : RefundLine(o, p, amount)
  PROVE  StoreTypeOK'
<1> DEFINE row == [order[o] EXCEPT !.refunded = @ + amount]
<1>0. order[o] \in OrderRow /\ order[o].refunded + amount \in Nat
  BY DEF StoreTypeOK, OrderRow
<1>1. CASE RefundOrder(o, amount)
  <2>1. row \in OrderRow
    BY <1>0 DEF OrderRow
  <2> QED BY <1>1, <2>1, RowUpdate DEF RefundOrder, StoreTypeOK
<1>2. ASSUME NEW p \in Products, RefundLine(o, p, amount) PROVE StoreTypeOK'
  <2> DEFINE line == [order[o] EXCEPT !.refunded = @ + amount, !.cancelled = @ \cup {p}]
  <2>1. line \in OrderRow
    BY <1>0 DEF OrderRow
  <2>2. order' \in [Orders -> OrderRow]
    BY <1>2, <2>1, RowUpdate DEF RefundLine
  <2>3. onHand' \in Stock /\ reserved' \in [Branches -> Stock] /\ inStock' \in [Branches -> Stock]
    BY <1>2, LinesAreProducts, StockArithmetic, BranchUpdate DEF RefundLine, StoreTypeOK
  <2> QED BY <2>2, <2>3 DEF StoreTypeOK
<1> QED BY <1>1, <1>2

LEMMA CancelOrderItemType ==
  ASSUME StoreTypeOK, NEW o \in Orders, NEW p \in Products, CancelOrderItem(o, p)
  PROVE  StoreTypeOK'
<1>1. [order[o] EXCEPT !.cancelled = @ \cup {p}] \in OrderRow
  BY DEF StoreTypeOK, OrderRow
<1> QED BY <1>1, RowUpdate DEF CancelOrderItem, StoreTypeOK

-----------------------------------------------------------------------------
(* Type correctness of the whole system. *)

(* An active request has an order, and an argument that suits its next step. *)
RequestShape(q) ==
  /\ q.pc \notin {"idle", "done"} => q.order \in Orders
  /\ q.pc = "pos_tx" => q.arg \in {"hold", "deduct"}
  /\ q.pc = "set_status" => q.arg \in Status

TypeInv == TypeOK /\ \A r \in Requests : RequestShape(req[r])

LEMMA BeginType ==
  ASSUME TypeInv, NEW r \in Requests, NEW op \in AllOps, NEW o \in Orders,
         NEW pc \in Pc, NEW arg \in Status \cup {"hold", "deduct", "receipt", "none"}, NEW amount \in Nat,
         Begin(r, op, o, pc, arg, amount),
         pc = "pos_tx" => arg \in {"hold", "deduct"},
         pc = "set_status" => arg \in Status
  PROVE  req' \in [Requests -> Request] /\ \A s \in Requests : RequestShape(req'[s])
<1> DEFINE q == [pc |-> pc, op |-> op, order |-> o, arg |-> arg,
                 amount |-> amount, checkout |-> NoCheckout]
<1>1. q \in Request /\ RequestShape(q)
  BY DEF Request, RequestShape
<1>2. req' = [req EXCEPT ![r] = q]
  BY DEF Begin
<1> QED BY <1>1, <1>2 DEF TypeInv, TypeOK

LEMMA GotoType ==
  ASSUME TypeInv, NEW r \in Requests, NEW pc \in Pc \ {"pos_tx", "set_status"},
         req[r].pc \notin {"idle", "done"}, Goto(r, pc)
  PROVE  req' \in [Requests -> Request] /\ \A s \in Requests : RequestShape(req'[s])
<1> DEFINE q == [req[r] EXCEPT !.pc = pc]
<1>1. q \in Request
  BY DEF TypeInv, TypeOK, Request
<1>2. q.pc = pc /\ q.order = req[r].order
  BY DEF TypeInv, TypeOK, Request
<1>3. RequestShape(q)
  BY <1>2 DEF RequestShape, TypeInv
<1> QED BY <1>1, <1>3 DEF TypeInv, TypeOK, Goto

LEMMA DoneType == Done \in Request /\ RequestShape(Done) /\ Idle \in Request /\ RequestShape(Idle)
BY DEF Done, Idle, Request, RequestShape, Pc

LEMMA FinishType ==
  ASSUME TypeInv, NEW r \in Requests, Finish(r)
  PROVE  req' \in [Requests -> Request] /\ \A s \in Requests : RequestShape(req'[s])
BY DoneType DEF TypeInv, TypeOK, Finish

LEMMA GiveUpType ==
  ASSUME TypeInv, NEW r \in Requests, GiveUp(r), req[r].pc \notin {"idle", "done"}
  PROVE  req' \in [Requests -> Request] /\ \A s \in Requests : RequestShape(req'[s])
BY GotoType, FinishType DEF GiveUp, Pc

LEMMA PromptType ==
  ASSUME TypeInv, NEW r \in Requests, req[r].order \in Orders
  PROVE  Prompt(r) \in Payment
<1>1. req[r].amount \in Nat
  BY DEF TypeInv, TypeOK, Request
<1> QED BY <1>1 DEF Prompt, Payment, Outcome

LEMMA SameRequests ==
  ASSUME TypeInv, UNCHANGED req
  PROVE  req' \in [Requests -> Request] /\ \A s \in Requests : RequestShape(req'[s])
BY DEF TypeInv, TypeOK

(* A request step that leaves Safaricom, time and the job alone. *)
LEMMA TypeFromParts ==
  ASSUME TypeInv, StoreTypeOK', UNCHANGED env,
         req' \in [Requests -> Request], \A s \in Requests : RequestShape(req'[s])
  PROVE  TypeInv'
BY DEF TypeInv, TypeOK, env

LEMMA StartTypes ==
  ASSUME TypeInv, NEW r \in Requests, StartRequest(r)
  PROVE  TypeInv'
<1> USE DEF TypeInv
<1>0. PICK o \in Orders :
        \/ \E mpesa \in BOOLEAN : Storefront(r, o, mpesa) \/ PosCheck(r, o, mpesa)
        \/ CreatePending(r, o)
        \/ PatchRead(r, o)
        \/ PosRetry(r, o) \/ PollRead(r, o) \/ CashRead(r, o) \/ PosCancelRead(r, o)
        \/ \E s \in AdminStatuses, granted \in BOOLEAN : AdminRead(r, o, s, granted)
        \/ \E amount \in 1..Total(o) : Refund(r, o, amount)
        \/ \E p \in Products : CancelItem(r, o, p)
  BY DEF StartRequest
<1>a. StoreTypeOK /\ Subtotal[o] \in Nat /\ ShippingFee \in Nat /\ order[o].fee \in Nat
  BY MoneyAssumption DEF TypeOK, StoreTypeOK, OrderRow
<1>b. Total(o) \in Nat
  BY <1>a DEF Total
<1>1. ASSUME NEW mpesa \in BOOLEAN, Storefront(r, o, mpesa) PROVE TypeInv'
  <2>1. StoreTypeOK'
    BY <1>1, <1>a, CreateOrderType DEF Storefront
  <2>2. req' \in [Requests -> Request] /\ \A s \in Requests : RequestShape(req'[s])
    <3>1. CASE Finish(r)
      BY <3>1, FinishType
    <3>2. CASE Begin(r, "storefront", o, "push", "none", Subtotal[o] + ShippingFee)
      <4>1. Subtotal[o] + ShippingFee \in Nat
        BY <1>a
      <4>2. "storefront" \in AllOps /\ "push" \in Pc
        BY DEF Pc, AllOps
      <4> QED BY <3>2, <4>1, <4>2, BeginType
    <3> QED BY <1>1, <3>1, <3>2 DEF Storefront
  <2> QED BY <1>1, <2>1, <2>2, TypeFromParts DEF Storefront
<1>2. ASSUME NEW mpesa \in BOOLEAN, PosCheck(r, o, mpesa) PROVE TypeInv'
  <2>1. StoreTypeOK'
    BY <1>2, <1>a, UnchangedType DEF PosCheck
  <2>2. req' \in [Requests -> Request] /\ \A s \in Requests : RequestShape(req'[s])
    BY <1>2, <1>a, BeginType DEF PosCheck, Pc, AllOps
  <2> QED BY <1>2, <2>1, <2>2, TypeFromParts DEF PosCheck
<1>3. CASE CreatePending(r, o)
  BY <1>3, <1>a, CreateOrderType, FinishType, TypeFromParts DEF CreatePending
<1>4. CASE PatchRead(r, o)
  <2>1. req' \in [Requests -> Request] /\ \A s \in Requests : RequestShape(req'[s])
    BY <1>4, <1>b, BeginType DEF PatchRead, Pc, AllOps
  <2> QED BY <1>4, <1>a, <2>1, UnchangedType, TypeFromParts DEF PatchRead
<1>5. CASE PosRetry(r, o)
  <2>1. req' \in [Requests -> Request] /\ \A s \in Requests : RequestShape(req'[s])
    <3>1. CASE Finish(r)
      BY <3>1, FinishType
    <3>2. CASE Begin(r, "retry", o, "pos_push", "none", Subtotal[o])
      BY <3>2, <1>a, BeginType DEF Pc, AllOps
    <3> QED BY <1>5, <3>1, <3>2 DEF PosRetry
  <2> QED BY <1>5, <1>a, <2>1, UnchangedType, TypeFromParts DEF PosRetry
<1>6. CASE PollRead(r, o)
  <2> DEFINE q == [pc |-> "poll_query", op |-> "poll", order |-> o,
                   arg |-> IF order[o].receipt THEN "receipt" ELSE "none",
                   amount |-> 0, checkout |-> order[o].checkout]
  <2>1. q \in Request /\ RequestShape(q)
    BY <1>a DEF StoreTypeOK, OrderRow, Request, RequestShape, Pc, AllOps
  <2>2. req' = [req EXCEPT ![r] = q]
    BY <1>6 DEF PollRead
  <2>3. req' \in [Requests -> Request] /\ \A s \in Requests : RequestShape(req'[s])
    BY <2>1, <2>2 DEF TypeOK
  <2> QED BY <1>6, <1>a, <2>3, UnchangedType, TypeFromParts DEF PollRead
<1>7. CASE CashRead(r, o)
  <2>1. req' \in [Requests -> Request] /\ \A s \in Requests : RequestShape(req'[s])
    BY <1>7, BeginType DEF CashRead, Pc, AllOps
  <2> QED BY <1>7, <1>a, <2>1, UnchangedType, TypeFromParts DEF CashRead
<1>8. CASE PosCancelRead(r, o)
  <2>1. req' \in [Requests -> Request] /\ \A s \in Requests : RequestShape(req'[s])
    BY <1>8, BeginType DEF PosCancelRead, Pc, AllOps
  <2> QED BY <1>8, <1>a, <2>1, UnchangedType, TypeFromParts DEF PosCancelRead
<1>9. ASSUME NEW s \in AdminStatuses, NEW granted \in BOOLEAN, AdminRead(r, o, s, granted) PROVE TypeInv'
  <2>1. s \in Status
    BY AdminAssumption DEF Status
  <2>2. req' \in [Requests -> Request] /\ \A q \in Requests : RequestShape(req'[q])
    BY <1>9, <2>1, BeginType DEF AdminRead, Pc, AllOps
  <2> QED BY <1>9, <1>a, <2>2, UnchangedType, TypeFromParts DEF AdminRead
<1>10. ASSUME NEW amount \in 1..Total(o), Refund(r, o, amount) PROVE TypeInv'
  <2>1. amount \in Nat
    BY <1>b
  <2> QED BY <1>10, <1>a, <2>1, RefundType, FinishType, TypeFromParts DEF Refund
<1>11. ASSUME NEW p \in Products, CancelItem(r, o, p) PROVE TypeInv'
  BY <1>11, <1>a, CancelOrderItemType, FinishType, TypeFromParts DEF CancelItem
<1> QED BY <1>0, <1>1, <1>2, <1>3, <1>4, <1>5, <1>6, <1>7, <1>8, <1>9, <1>10, <1>11

LEMMA ContinueTypes ==
  ASSUME TypeInv, NEW r \in Requests, Continue(r)
  PROVE  TypeInv'
<1> DEFINE o == req[r].order
<1>a. StoreTypeOK
  BY DEF TypeInv, TypeOK
<1>b. req[r].pc \notin {"idle", "done"}
  BY DEF Continue, At, Push, PushFails, PushLost, PatchUpdate, SaveCheckout, ReleaseUnpushed, PatchLive, PatchHold,
         PosTx, PosTxAborts, PosStatus, PosPaid, PosPush, PollQuery, PollConfirm, PollPaid,
         CashConfirm, CashPaid, CancelRelease, SetStatus
<1>c. o \in Orders
  BY <1>b DEF TypeInv, RequestShape
<1>1. CASE Push(r)
  <2>1. PICK c \in Checkouts : /\ payment' = [payment EXCEPT ![c] = Prompt(r)]
                               /\ req' = [req EXCEPT ![r].pc = "save", ![r].checkout = c]
    BY <1>1 DEF Push
  <2> DEFINE q == [req[r] EXCEPT !.pc = "save", !.checkout = c]
  <2>2. q \in Request /\ RequestShape(q)
    BY <1>c DEF TypeInv, TypeOK, Request, RequestShape, Pc
  <2>3. req' = [req EXCEPT ![r] = q]
    BY <2>1
  <2>4. req' \in [Requests -> Request] /\ \A s \in Requests : RequestShape(req'[s])
    BY <2>2, <2>3 DEF TypeInv, TypeOK
  <2>5. payment' \in [Checkouts -> Payment]
    BY <1>c, <2>1, PromptType DEF TypeInv, TypeOK
  <2>6. StoreTypeOK'
    BY <1>1, <1>a, UnchangedType DEF Push
  <2>7. aged' \in SUBSET Orders /\ drained' \in SUBSET Orders /\ crashes' \in 0..MaxCrashes
    BY <1>1 DEF Push, TypeInv, TypeOK
  <2> QED BY <2>4, <2>5, <2>6, <2>7 DEF TypeInv, TypeOK
<1>2. CASE PushFails(r)
  BY <1>2, <1>a, <1>b, GiveUpType, UnchangedType, TypeFromParts DEF PushFails
<1>19. CASE PushLost(r)
  <2>1. PICK c \in Checkouts : payment' = [payment EXCEPT ![c] = Prompt(r)]
    BY <1>19 DEF PushLost
  <2>2. payment' \in [Checkouts -> Payment]
    BY <1>c, <2>1, PromptType DEF TypeInv, TypeOK
  <2>3. req' \in [Requests -> Request] /\ \A s \in Requests : RequestShape(req'[s])
    BY <1>19, <1>b, GiveUpType DEF PushLost
  <2>4. StoreTypeOK'
    BY <1>19, <1>a, UnchangedType DEF PushLost
  <2>5. aged' \in SUBSET Orders /\ drained' \in SUBSET Orders /\ crashes' \in 0..MaxCrashes
    BY <1>19 DEF PushLost, TypeInv, TypeOK
  <2> QED BY <2>2, <2>3, <2>4, <2>5 DEF TypeInv, TypeOK
<1>20. CASE PatchUpdate(r)
  <2>1. PICK county \in BOOLEAN :
          WriteOrder(o, [order[o] EXCEPT !.fee = IF county THEN ShippingFee ELSE @])
    BY <1>20 DEF PatchUpdate
  <2> DEFINE row == [order[o] EXCEPT !.fee = IF county THEN ShippingFee ELSE @]
  <2>2. order[o] \in OrderRow /\ ShippingFee \in Nat
    BY <1>a, <1>c, MoneyAssumption DEF StoreTypeOK
  <2>3. row \in OrderRow
    BY <2>2 DEF OrderRow
  <2>4. StoreTypeOK'
    BY <1>20, <1>a, <1>c, <2>1, <2>3, RowUpdate DEF PatchUpdate, StoreTypeOK
  <2>5. req' \in [Requests -> Request] /\ \A s \in Requests : RequestShape(req'[s])
    BY <1>20, <1>b, GotoType, FinishType DEF PatchUpdate, Pc
  <2> QED BY <1>20, <2>4, <2>5, TypeFromParts DEF PatchUpdate
<1>3. CASE SaveCheckout(r)
  <2> DEFINE row == [order[o] EXCEPT !.checkout = req[r].checkout]
  <2>1. order[o] \in OrderRow
    BY <1>a, <1>c DEF StoreTypeOK
  <2>2. req[r].checkout \in Checkouts \cup {NoCheckout}
    BY DEF TypeInv, TypeOK, Request
  <2>3. row \in OrderRow
    BY <2>1, <2>2 DEF OrderRow
  <2>4. StoreTypeOK'
    BY <1>3, <1>a, <1>c, <2>3, RowUpdate DEF SaveCheckout, StoreTypeOK
  <2> QED BY <1>3, <2>4, FinishType, TypeFromParts DEF SaveCheckout
<1>4. CASE ReleaseUnpushed(r)
  BY <1>4, <1>a, <1>c, ReleaseOrderHeldStockType, FinishType, TypeFromParts DEF ReleaseUnpushed
<1>5. CASE PatchLive(r)
  BY <1>5, <1>a, <1>b, GotoType, FinishType, UnchangedType, TypeFromParts DEF PatchLive, Pc
<1>6. CASE PatchHold(r)
  BY <1>6, <1>a, <1>b, <1>c, HoldStockForOrderType, GotoType, TypeFromParts DEF PatchHold, Pc
<1>7. CASE PosTx(r)
  <2>1. req[r].arg \in {"none", "hold", "deduct"}
    BY <1>7 DEF PosTx, At, TypeInv, RequestShape
  <2> QED BY <1>7, <1>a, <1>b, <1>c, <2>1, CreateOrderType, GotoType, TypeFromParts DEF PosTx, Pc
<1>8. CASE PosTxAborts(r)
  BY <1>8, <1>a, FinishType, UnchangedType, TypeFromParts DEF PosTxAborts
<1>9. CASE PosStatus(r)
  BY <1>9, <1>a, <1>b, <1>c, UpdateOrderStatusType, GotoType, TypeFromParts DEF PosStatus, Pc, Status
<1>10. CASE PosPaid(r)
  <2>1. StoreTypeOK'
    BY <1>10, <1>a, <1>c, MarkPaidType, UnchangedType DEF PosPaid
  <2> QED BY <1>10, <2>1, FinishType, TypeFromParts DEF PosPaid
<1>11. CASE PosPush(r)
  BY <1>11, <1>a, <1>b, GotoType, FinishType, UnchangedType, TypeFromParts DEF PosPush, Pc
<1>12. CASE PollQuery(r)
  <2>1. Goto(r, "poll_confirm") \/ Goto(r, "cancel_release") \/ Finish(r)
    BY <1>12 DEF PollQuery
  <2> QED BY <1>12, <1>a, <1>b, <2>1, GotoType, FinishType, UnchangedType, TypeFromParts
          DEF PollQuery, Pc
<1>13. CASE PollConfirm(r)
  BY <1>13, <1>a, <1>b, <1>c, ConfirmOrderPaymentType, GotoType, TypeFromParts DEF PollConfirm, Pc
<1>14. CASE PollPaid(r)
  BY <1>14, <1>a, <1>c, MarkPaidType, FinishType, TypeFromParts DEF PollPaid
<1>15. CASE CashConfirm(r)
  BY <1>15, <1>a, <1>b, <1>c, ConfirmOrderPaymentType, GotoType, TypeFromParts DEF CashConfirm, Pc
<1>16. CASE CashPaid(r)
  BY <1>16, <1>a, <1>c, MarkPaidType, FinishType, TypeFromParts DEF CashPaid
<1>17. CASE CancelRelease(r)
  <2> DEFINE q == [req[r] EXCEPT !.pc = "set_status", !.arg = "cancelled"]
  <2>1. q \in Request /\ RequestShape(q)
    BY <1>c DEF TypeInv, TypeOK, Request, RequestShape, Pc, Status
  <2>2. req' = [req EXCEPT ![r] = q]
    BY <1>17 DEF CancelRelease
  <2>3. req' \in [Requests -> Request] /\ \A s \in Requests : RequestShape(req'[s])
    BY <2>1, <2>2 DEF TypeInv, TypeOK
  <2> QED BY <1>17, <1>a, <1>c, <2>3, ReleaseOrderHeldStockType, TypeFromParts DEF CancelRelease
<1>18. CASE SetStatus(r)
  <2>1. req[r].arg \in Status
    BY <1>18 DEF SetStatus, At, TypeInv, RequestShape
  <2> QED BY <1>18, <1>a, <1>c, <2>1, UpdateOrderStatusType, FinishType, TypeFromParts DEF SetStatus
<1> QED BY <1>1, <1>2, <1>3, <1>4, <1>5, <1>6, <1>7, <1>8, <1>9, <1>10, <1>11, <1>12, <1>13,
           <1>14, <1>15, <1>16, <1>17, <1>18, <1>19, <1>20 DEF Continue

LEMMA EnvironmentTypes ==
  ASSUME TypeInv,
         \/ \E c \in Checkouts : CustomerAnswers(c) \/ Callback(c) \/ CallbackUnknown(c)
         \/ \E o \in Orders : Age(o) \/ SweepRelease(o)
         \/ SweepRead
         \/ Crash
  PROVE  TypeInv'
<1>a. StoreTypeOK
  BY DEF TypeInv, TypeOK
<1>1. ASSUME NEW c \in Checkouts, CustomerAnswers(c) PROVE TypeInv'
  <2>1. PICK s \in Outcome : payment' = [payment EXCEPT ![c].state = s]
    BY <1>1 DEF CustomerAnswers
  <2>2. payment' \in [Checkouts -> Payment]
    BY <2>1 DEF TypeInv, TypeOK, Payment
  <2> QED BY <1>1, <1>a, <2>2, SameRequests, UnchangedType DEF CustomerAnswers, TypeInv, TypeOK
<1>2. ASSUME NEW c \in Checkouts, Callback(c) PROVE TypeInv'
  <2>1. PICK o \in Orders : \/ MpesaSuccess(o, payment[c].amount)
                            \/ MpesaFailure(o)
                            \/ UNCHANGED store
    BY <1>2 DEF Callback
  <2>2. StoreTypeOK'
    BY <1>a, <2>1, MpesaSuccessType, MpesaFailureType, UnchangedType
  <2> QED BY <1>2, <2>2, SameRequests, TypeFromParts DEF Callback
<1>3. ASSUME NEW o \in Orders, Age(o) PROVE TypeInv'
  BY <1>3, <1>a, SameRequests, UnchangedType DEF Age, TypeInv, TypeOK
<1>4. ASSUME NEW o \in Orders, SweepRelease(o) PROVE TypeInv'
  BY <1>4, <1>a, SameRequests, ReleaseOrderHeldStockType DEF SweepRelease, TypeInv, TypeOK
<1>5. CASE SweepRead
  BY <1>5, <1>a, SameRequests, UnchangedType DEF SweepRead, TypeInv, TypeOK
<1>6. CASE Crash
  <2>1. req' \in [Requests -> Request] /\ \A s \in Requests : RequestShape(req'[s])
    BY <1>6, DoneType DEF Crash, TypeInv, TypeOK
  <2>2. crashes' \in 0..MaxCrashes
    BY <1>6, RequestAssumption DEF Crash, TypeInv, TypeOK
  <2> QED BY <1>6, <1>a, <2>1, <2>2, UnchangedType DEF Crash, TypeInv, TypeOK
<1>7. ASSUME NEW c \in Checkouts, CallbackUnknown(c) PROVE TypeInv'
  <2>1. payment' = [payment EXCEPT ![c].dropped = TRUE]
    BY <1>7 DEF CallbackUnknown
  <2>2. payment' \in [Checkouts -> Payment]
    BY <2>1 DEF TypeInv, TypeOK, Payment
  <2> QED BY <1>7, <1>a, <2>2, SameRequests, UnchangedType DEF CallbackUnknown, TypeInv, TypeOK
<1> QED BY <1>1, <1>2, <1>3, <1>4, <1>5, <1>6, <1>7

LEMMA InitTypes == Init => TypeInv
<1> SUFFICES ASSUME Init PROVE TypeInv
  OBVIOUS
<1>1. NoOrder \in OrderRow
  BY DEF NoOrder, OrderRow, Status
<1>2. StoreTypeOK
  BY <1>1, StockAssumption DEF Init, StoreInit, StoreTypeOK, Stock
<1>3. [state |-> "unused", amount |-> 0, order |-> "none", dropped |-> FALSE] \in Payment
  BY DEF Payment
<1>4. crashes \in 0..MaxCrashes
  BY RequestAssumption DEF Init
<1> QED BY <1>2, <1>3, <1>4, DoneType DEF Init, TypeInv, TypeOK

LEMMA StutterTypes ==
  ASSUME TypeInv, UNCHANGED vars
  PROVE  TypeInv'
BY SameRequests, UnchangedType, TypeFromParts DEF TypeInv, TypeOK, vars

(* TypeOK of every reachable state: with every endpoint in use no column of  *)
(* the tables leaves its type; onHand, inStock and reserved stay natural.    *)
THEOREM TypeCorrect == Spec => []TypeOK
<1>1. TypeInv /\ [Next]_vars => TypeInv'
  BY StartTypes, ContinueTypes, EnvironmentTypes, StutterTypes DEF Next
<1>2. TypeInv => TypeOK
  BY DEF TypeInv
<1> QED BY InitTypes, <1>1, <1>2, PTL DEF Spec

-----------------------------------------------------------------------------
(* The movement logs a checkout can leave behind. *)

Logs == {<<>>, HeldLog, SoldLog, PaidLog, FreedLog}

LEMMA LogsDiffer ==
  /\ <<>> \notin {HeldLog, SoldLog, PaidLog, FreedLog}
  /\ HeldLog \notin {SoldLog, PaidLog, FreedLog}
  /\ SoldLog \notin {PaidLog, FreedLog}
  /\ PaidLog # FreedLog
<1>1. Len(<<>>) = 0 /\ Len(HeldLog) = 1 /\ Len(SoldLog) = 1 /\ Len(PaidLog) = 2 /\ Len(FreedLog) = 2
  BY DEF HeldLog, SoldLog, PaidLog, FreedLog
<1>2. HeldLog[1] # SoldLog[1] /\ PaidLog[2] # FreedLog[2]
  BY DEF HeldLog, SoldLog, PaidLog, FreedLog
<1> QED BY <1>1, <1>2

LEMMA LogSteps ==
  /\ Append(HeldLog, "sale") = PaidLog
  /\ Append(HeldLog, "release") = FreedLog
  /\ FirstMovement("hold") = HeldLog
  /\ FirstMovement("deduct") = SoldLog
<1>1. ASSUME NEW m \in Movement PROVE Append(<<"reserve">>, m) = <<"reserve", m>>
  <2> DEFINE s == Append(<<"reserve">>, m)  u == <<"reserve", m>>
  <2>1. "reserve" \in Movement
    BY DEF Movement
  <2>2. <<"reserve">> \in Seq(Movement) /\ Len(<<"reserve">>) = 1 /\ <<"reserve">>[1] = "reserve"
    BY <2>1
  <2>3. s \in Seq(Movement) /\ Len(s) = 2 /\ s[1] = "reserve" /\ s[2] = m
    BY <2>2, AppendProperties
  <2>4. u \in Seq(Movement) /\ Len(u) = 2 /\ u[1] = "reserve" /\ u[2] = m
    BY <2>1
  <2>5. ASSUME NEW i \in 1..Len(s) PROVE s[i] = u[i]
    <3>1. i = 1 \/ i = 2
      BY <2>3
    <3> QED BY <2>3, <2>4, <3>1
  <2> HIDE DEF s, u
  <2>6. s = u
    BY <2>3, <2>4, <2>5, SeqEqual
  <2> QED BY <2>6 DEF s, u
<1>2. FirstMovement("hold") = HeldLog
  BY DEF FirstMovement, HeldLog
<1>3. FirstMovement("deduct") = SoldLog
  BY DEF FirstMovement, SoldLog
<1>4. "sale" \in Movement /\ "release" \in Movement
  BY DEF Movement
<1>5. Append(HeldLog, "sale") = PaidLog /\ Append(HeldLog, "release") = FreedLog
  BY <1>1, <1>4 DEF HeldLog, PaidLog, FreedLog
<1> QED BY <1>2, <1>3, <1>5

LEMMA OnlyHeldIsOpen ==
  /\ OpenReservation(HeldLog)
  /\ ~OpenReservation(SoldLog)
  /\ ~OpenReservation(PaidLog)
  /\ ~OpenReservation(FreedLog)
<1>1. OpenReservation(HeldLog)
  BY DEF OpenReservation, HeldLog
<1>2. ~OpenReservation(SoldLog)
  BY DEF OpenReservation, SoldLog
<1>3. ~OpenReservation(PaidLog)
  BY DEF OpenReservation, PaidLog
<1>4. ~OpenReservation(FreedLog)
  BY DEF OpenReservation, FreedLog
<1> QED BY <1>1, <1>2, <1>3, <1>4
-----------------------------------------------------------------------------
(* Three ways a step can leave CheckoutInv true. *)

Inv == TypeInv /\ CheckoutInv

(* A request of order o writes the row of o, and nobody else serves o. *)
LEMMA ServerWrites ==
  ASSUME Inv, NEW r \in Requests, NEW o \in Orders, NEW row, NEW q,
         order' = [order EXCEPT ![o] = row], req' = [req EXCEPT ![r] = q],
         UNCHANGED drained,
         RowInv(row), row.status # "absent", o \in drained => row.log \in OnceHeld,
         \A s \in Requests : s # r /\ Serving(s) => req[s].order # o,
         RequestInv(r)', Serving(r)' => req'[r].order = o
  PROVE  CheckoutInv'
<1>1. order'[o] = row /\ \A p \in Orders \ {o} : order'[p] = order[p]
  BY DEF Inv, TypeInv, TypeOK, StoreTypeOK
<1>2. req'[r] = q /\ \A s \in Requests \ {r} : req'[s] = req[s]
  BY DEF Inv, TypeInv, TypeOK
<1>3. \A p \in Orders : OrderInv(p)'
  BY <1>1 DEF Inv, CheckoutInv, OrderInv
<1>4. ASSUME NEW s \in Requests \ {r} PROVE RequestInv(s)'
  <2>1. RequestInv(s)
    BY DEF Inv, CheckoutInv
  <2>2. Serving(s) => req[s].order \in Orders /\ order'[req[s].order] = order[req[s].order]
    BY <1>1, <2>1 DEF RequestInv, Serving
  <2> QED BY <1>2, <2>1, <2>2 DEF RequestInv, Serving
<1>5. OneServer'
  <2>1. \A s \in Requests \ {r} : Serving(s)' => Serving(s) /\ req'[s].order = req[s].order
    BY <1>2 DEF Serving
  <2>2. \A s \in Requests \ {r} : Serving(s) => Exists(req[s].order) /\ req[s].order \in Orders
    BY DEF Inv, CheckoutInv, OneServer, RequestInv, Serving
  <2>3. \A s \in Requests : Serving(s)' => order'[req'[s].order].status # "absent"
    BY <1>1, <1>2, <2>1, <2>2 DEF Exists
  <2>4. \A s, u \in Requests : Serving(s)' /\ Serving(u)' /\ s # u
                               => req'[s].order # req'[u].order
    BY <1>2, <2>1 DEF Inv, CheckoutInv, OneServer
  <2> QED BY <2>3, <2>4 DEF OneServer, Exists
<1> QED BY <1>2, <1>3, <1>4, <1>5 DEF CheckoutInv

(* A step of the service, the customer or the job writes the row of an      *)
(* order that was placed with a hold and is past its till's first steps.     *)
LEMMA OthersWrite ==
  ASSUME Inv, NEW o \in Orders, NEW row,
         order' = [order EXCEPT ![o] = row], UNCHANGED req, drained' \subseteq drained,
         RowInv(row), row.log \in OnceHeld, order[o].log \in OnceHeld,
         order[o].checkout # NoCheckout \/ o \in drained
  PROVE  CheckoutInv'
<1>1. order'[o] = row /\ \A p \in Orders \ {o} : order'[p] = order[p]
  BY DEF Inv, TypeInv, TypeOK, StoreTypeOK
<1>2. row.status # "absent"
  BY LogsDiffer DEF RowInv, OnceHeld
<1>3. \A p \in Orders : OrderInv(p)'
  BY <1>1 DEF Inv, CheckoutInv, OrderInv
<1>4. ASSUME NEW s \in Requests PROVE RequestInv(s)'
  BY <1>1 DEF Inv, CheckoutInv, RequestInv
<1>5. OneServer'
  <2>1. \A s \in Requests : Serving(s) => req[s].order \in Orders
    BY DEF Inv, CheckoutInv, RequestInv, Serving
  <2> QED BY <1>1, <1>2, <2>1 DEF Inv, CheckoutInv, OneServer, Exists, Serving
<1> QED BY <1>3, <1>4, <1>5 DEF CheckoutInv

(* A request moves on without writing its order. *)
LEMMA RequestMoves ==
  ASSUME Inv, NEW r \in Requests, NEW q, req' = [req EXCEPT ![r] = q],
         UNCHANGED <<order, drained>>, RequestInv(r)',
         Serving(r)' => Serving(r) /\ req'[r].order = req[r].order
  PROVE  CheckoutInv'
<1>1. req'[r] = q /\ \A s \in Requests \ {r} : req'[s] = req[s]
  BY DEF Inv, TypeInv, TypeOK
<1>2. \A o \in Orders : OrderInv(o)'
  BY DEF Inv, CheckoutInv, OrderInv
<1>3. \A s \in Requests \ {r} : RequestInv(s)'
  BY <1>1 DEF Inv, CheckoutInv, RequestInv
<1>4. \A s \in Requests : Serving(s)' => Serving(s) /\ req'[s].order = req[s].order
  BY <1>1 DEF Serving
<1>5. OneServer'
  BY <1>4 DEF Inv, CheckoutInv, OneServer, Exists
<1> QED BY <1>1, <1>2, <1>3, <1>5 DEF CheckoutInv

-----------------------------------------------------------------------------
(* What the transactions are in StockPromise. *)

stage == [o \in Orders |-> Stage(order[o])]
PromiseStep == [Promise!Next]_<<onHand, stage>>

LEMMA StageUpdate ==
  ASSUME Inv, NEW o \in Orders, NEW row, order' = [order EXCEPT ![o] = row]
  PROVE  stage' = [stage EXCEPT ![o] = Stage(row)]
<1>1. order'[o] = row /\ \A p \in Orders \ {o} : order'[p] = order[p]
  BY DEF Inv, TypeInv, TypeOK, StoreTypeOK
<1>2. stage' = [p \in Orders |-> Stage(order'[p])]
  BY DEF stage, Stage
<1>3. stage = [p \in Orders |-> Stage(order[p])]
  BY DEF stage
<1> QED BY <1>1, <1>2, <1>3

(* An order whose goods have neither been sold nor freed is held and payable. *)
LEMMA StillHeld ==
  ASSUME NEW row, RowInv(row), row.log \in OnceHeld, row.status \notin {"paid", "cancelled"}
  PROVE  row.log = HeldLog /\ row.status \in {"pending", "pending_payment"} /\ Stage(row) = "held"
<1>1. row.log = HeldLog /\ row.status \in {"pending", "pending_payment"}
  BY LogsDiffer DEF RowInv, OnceHeld
<1> QED BY <1>1, OnlyHeldIsOpen DEF Stage

(* The goods of an order are taken when it is placed, and then sold or given  *)
(* back once.                                                                  *)
Settles(o, to) == /\ Stage(order[o]) = "held"
                  /\ \E row : order' = [order EXCEPT ![o] = row] /\ Stage(row) = to
GoodsStep ==
  \/ UNCHANGED <<onHand, inStock, reserved>> /\ stage' = stage
  \/ \E o \in Orders : \/ \E fee : \E mode \in {"hold", "deduct"} : CreateOrder(o, fee, mode)
                       \/ Settles(o, "sold") /\ DeductReserved(o)
                       \/ Settles(o, "returned") /\ ReleaseReserved(o)

LEMMA NothingMoves ==
  ASSUME UNCHANGED store
  PROVE  GoodsStep
BY DEF GoodsStep, stage, store

LEMMA StageStays ==
  ASSUME Inv, NEW o \in Orders, NEW row, order' = [order EXCEPT ![o] = row],
         Stage(row) = Stage(order[o]), UNCHANGED <<onHand, inStock, reserved>>
  PROVE  GoodsStep
<1>1. stage' = stage
  BY StageUpdate DEF stage
<1> QED BY <1>1 DEF GoodsStep

LEMMA Placed ==
  ASSUME Inv, NEW o \in Orders, NEW fee, NEW mode \in {"hold", "deduct"},
         CreateOrder(o, fee, mode)
  PROVE  /\ stage[o] = "none" /\ \A p \in Products : onHand[p] >= Qty[o][p]
         /\ stage' = [stage EXCEPT ![o] = IF mode = "hold" THEN "held" ELSE "sold"]
<1> DEFINE row == [order[o] EXCEPT !.status = "pending", !.fee = fee, !.log = FirstMovement(mode)]
           to == IF mode = "hold" THEN "held" ELSE "sold"
<1>0. order[o] \in OrderRow
  BY DEF Inv, TypeInv, TypeOK, StoreTypeOK
<1>1. order' = [order EXCEPT ![o] = row] /\ order[o].status = "absent"
  BY DEF CreateOrder, WriteOrder, Exists
<1>2. row.status = "pending" /\ row.log = FirstMovement(mode)
  BY <1>0 DEF OrderRow
<1>3. Stage(row) = to
  <2>1. CASE mode = "hold"
    BY <1>2, <2>1, LogSteps, OnlyHeldIsOpen DEF Stage
  <2>2. CASE mode = "deduct"
    BY <1>2, <2>2, LogSteps, OnlyHeldIsOpen DEF Stage
  <2> QED BY <2>1, <2>2
<1>4. stage' = [stage EXCEPT ![o] = to]
  BY <1>1, <1>3, StageUpdate
<1>5. stage[o] = "none"
  BY <1>1 DEF stage, Stage
<1>6. \A p \in Products : onHand[p] \in Nat /\ Qty[o][p] \in Nat
  BY QtyAssumption DEF Inv, TypeInv, TypeOK, StoreTypeOK, Stock
<1>7. \A p \in InOrder(o) : onHand[p] >= Qty[o][p]
  BY DEF CreateOrder, Enough
<1>8. \A p \in Products : onHand[p] >= Qty[o][p]
  BY <1>6, <1>7 DEF InOrder
<1> QED BY <1>4, <1>5, <1>8

LEMMA Taken ==
  ASSUME Inv, NEW o \in Orders, NEW fee, NEW mode \in {"hold", "deduct"},
         CreateOrder(o, fee, mode)
  PROVE  PromiseStep
<1> DEFINE to == IF mode = "hold" THEN "held" ELSE "sold"
<1>1. /\ stage[o] = "none" /\ \A p \in Products : onHand[p] >= Qty[o][p]
      /\ stage' = [stage EXCEPT ![o] = to]
  BY Placed
<1>2. \A p \in Products : onHand[p] \in Nat /\ Qty[o][p] \in Nat
  BY QtyAssumption DEF Inv, TypeInv, TypeOK, StoreTypeOK, Stock
<1>3. onHand' = [p \in Products |-> onHand[p] - Qty[o][p]]
  <2>1. onHand' = Take(onHand, o, InOrder(o))
    BY DEF CreateOrder
  <2>2. \A p \in Products \ InOrder(o) : onHand[p] = onHand[p] - Qty[o][p]
    BY <1>2 DEF InOrder
  <2> QED BY <2>1, <2>2 DEF Take
<1>4. Promise!Take(o, to)
  BY <1>1, <1>3 DEF Promise!Take, stage
<1> QED BY <1>4 DEF PromiseStep, Promise!Next

LEMMA SettledStage ==
  ASSUME Inv, NEW o \in Orders, NEW to, Settles(o, to)
  PROVE  stage[o] = "held" /\ stage' = [stage EXCEPT ![o] = to]
BY StageUpdate DEF Settles, stage

LEMMA Returned ==
  ASSUME Inv, NEW o \in Orders, Settles(o, "returned"), ReleaseReserved(o)
  PROVE  PromiseStep
<1>1. stage[o] = "held" /\ stage' = [stage EXCEPT ![o] = "returned"]
  BY SettledStage
<1>2. \A p \in Products : onHand[p] \in Nat /\ Qty[o][p] \in Nat
  BY QtyAssumption DEF Inv, TypeInv, TypeOK, StoreTypeOK, Stock
<1>3. onHand' = [p \in Products |-> onHand[p] + Qty[o][p]]
  <2>1. \A p \in Products \ InOrder(o) : onHand[p] = onHand[p] + Qty[o][p]
    BY <1>2 DEF InOrder
  <2> QED BY <2>1 DEF ReleaseReserved, Plus
<1>4. Promise!Return(o)
  BY <1>1, <1>3 DEF Promise!Return, stage
<1> QED BY <1>4 DEF PromiseStep, Promise!Next

LEMMA GoodsKeepPromise ==
  ASSUME Inv, GoodsStep
  PROVE  PromiseStep
<1>1. CASE UNCHANGED onHand /\ stage' = stage
  BY <1>1 DEF PromiseStep
<1>2. ASSUME NEW o \in Orders, Settles(o, "sold"), DeductReserved(o) PROVE PromiseStep
  <2>1. stage[o] = "held" /\ stage' = [stage EXCEPT ![o] = "sold"]
    BY <1>2, SettledStage
  <2>2. Promise!Pay(o)
    BY <1>2, <2>1 DEF Promise!Pay, stage, DeductReserved
  <2> QED BY <2>2 DEF PromiseStep, Promise!Next
<1> QED BY <1>1, <1>2, Taken, Returned DEF GoodsStep

-----------------------------------------------------------------------------
(* The rows the transactions write. *)

(* createOrder and runCheckout of an order that does not exist yet. *)
LEMMA CreatedRow ==
  ASSUME Inv, NEW o \in Orders, NEW fee, NEW mode \in {"hold", "deduct"},
         CreateOrder(o, fee, mode)
  PROVE  \E row : /\ order' = [order EXCEPT ![o] = row]
                  /\ RowInv(row) /\ row.status = "pending" /\ row.checkout = NoCheckout
                  /\ row.log = (IF mode = "hold" THEN HeldLog ELSE SoldLog)
                  /\ o \notin drained
                  /\ \A s \in Requests : Serving(s) => req[s].order # o
<1> DEFINE row == [order[o] EXCEPT !.status = "pending", !.fee = fee, !.log = FirstMovement(mode)]
<1>1. order' = [order EXCEPT ![o] = row] /\ order[o].status = "absent"
  BY DEF CreateOrder, WriteOrder, Exists
<1>2. OrderInv(o) /\ order[o] \in OrderRow
  BY DEF Inv, CheckoutInv, TypeInv, TypeOK, StoreTypeOK
<1>3. order[o].log = <<>> /\ order[o].cancelled = {}
  BY <1>1, <1>2 DEF OrderInv, RowInv
<1>4. order[o].checkout = NoCheckout /\ o \notin drained
  BY <1>2, <1>3, LogsDiffer DEF OrderInv, RowInv, OnceHeld
<1>5. /\ row.status = "pending" /\ row.cancelled = {} /\ row.checkout = NoCheckout
      /\ row.log = FirstMovement(mode)
  BY <1>2, <1>3, <1>4 DEF OrderRow
<1>6. row.log = (IF mode = "hold" THEN HeldLog ELSE SoldLog)
  BY <1>5, LogSteps
<1>7. RowInv(row)
  BY <1>5, <1>6 DEF RowInv
<1>8. \A s \in Requests : Serving(s) => req[s].order # o
  BY <1>1 DEF Inv, CheckoutInv, OneServer, Exists
<1> HIDE DEF row
<1> QED BY <1>1, <1>4, <1>5, <1>6, <1>7, <1>8

(* releaseOrderHeldStock of an order that was placed with a hold. *)
LEMMA ReleasedRow ==
  ASSUME Inv, NEW o \in Orders, order[o].log \in OnceHeld, ReleaseOrderHeldStock(o)
  PROVE  /\ GoodsStep
         /\ \E row : /\ order' = [order EXCEPT ![o] = row]
                     /\ RowInv(row) /\ row.log \in OnceHeld /\ row.checkout = order[o].checkout
<1>0. OrderInv(o) /\ order[o] \in OrderRow
  BY DEF Inv, CheckoutInv, TypeInv, TypeOK, StoreTypeOK
<1>1. CASE UNCHANGED store
  <2>1. order' = [order EXCEPT ![o] = order[o]]
    BY <1>1 DEF Inv, TypeInv, TypeOK, StoreTypeOK, store
  <2> QED BY <1>0, <1>1, <2>1, NothingMoves DEF OrderInv, store
<1>2. CASE Payable(o) /\ ReleaseReserved(o)
           /\ WriteOrder(o, [order[o] EXCEPT !.status = "cancelled", !.log = Append(@, "release")])
  <2> DEFINE row == [order[o] EXCEPT !.status = "cancelled", !.log = Append(@, "release")]
  <2>1. order[o].log = HeldLog /\ Stage(order[o]) = "held"
    BY <1>0, <1>2, StillHeld DEF Payable, OrderInv
  <2>2. /\ row.status = "cancelled" /\ row.log = FreedLog /\ row.cancelled = {}
        /\ row.checkout = order[o].checkout
    BY <1>0, <2>1, LogSteps DEF OrderRow, OrderInv, RowInv
  <2>3. RowInv(row) /\ row.log \in OnceHeld /\ Stage(row) = "returned"
    BY <2>2 DEF RowInv, OnceHeld, Stage
  <2>4. order' = [order EXCEPT ![o] = row]
    BY <1>2 DEF WriteOrder
  <2> HIDE DEF row
  <2>5. Settles(o, "returned") /\ ReleaseReserved(o)
    BY <1>2, <2>1, <2>3, <2>4 DEF Settles
  <2> QED BY <2>2, <2>3, <2>4, <2>5 DEF GoodsStep
<1> QED BY <1>1, <1>2 DEF ReleaseOrderHeldStock

(* updateOrderMpesaStatus of an order that was placed with a hold. *)
LEMMA CallbackRow ==
  ASSUME Inv, NEW o \in Orders, order[o].log \in OnceHeld, NEW amount,
         MpesaSuccess(o, amount) \/ MpesaFailure(o)
  PROVE  /\ GoodsStep
         /\ \E row : /\ order' = [order EXCEPT ![o] = row]
                     /\ RowInv(row) /\ row.log \in OnceHeld
<1>0. OrderInv(o) /\ order[o] \in OrderRow
  BY DEF Inv, CheckoutInv, TypeInv, TypeOK, StoreTypeOK
<1>1. CASE UNCHANGED store
  <2>1. order' = [order EXCEPT ![o] = order[o]]
    BY <1>1 DEF Inv, TypeInv, TypeOK, StoreTypeOK, store
  <2> QED BY <1>0, <1>1, <2>1, NothingMoves DEF OrderInv, store
<1>2. CASE WriteOrder(o, [order[o] EXCEPT !.receipt = TRUE]) /\ UNCHANGED <<onHand, inStock, reserved>>
  <2> DEFINE row == [order[o] EXCEPT !.receipt = TRUE]
  <2>1. /\ row.status = order[o].status /\ row.log = order[o].log
        /\ row.cancelled = order[o].cancelled /\ row.checkout = order[o].checkout
    BY <1>0 DEF OrderRow
  <2>2. RowInv(row) /\ Stage(row) = Stage(order[o])
    BY <1>0, <2>1 DEF OrderInv, RowInv, Stage
  <2>3. order' = [order EXCEPT ![o] = row]
    BY <1>2 DEF WriteOrder
  <2> HIDE DEF row
  <2> QED BY <1>2, <2>1, <2>2, <2>3, StageStays
<1>3. CASE /\ Payable(o) /\ DeductReserved(o)
           /\ WriteOrder(o, [order[o] EXCEPT !.status = "paid", !.paidAt = TRUE,
                                             !.receipt = TRUE, !.log = Append(@, "sale")])
  <2> DEFINE row == [order[o] EXCEPT !.status = "paid", !.paidAt = TRUE,
                                     !.receipt = TRUE, !.log = Append(@, "sale")]
  <2>1. order[o].log = HeldLog /\ Stage(order[o]) = "held"
    BY <1>0, <1>3, StillHeld DEF Payable, OrderInv
  <2>2. row.status = "paid" /\ row.log = PaidLog /\ row.cancelled = {}
    BY <1>0, <2>1, LogSteps DEF OrderRow, OrderInv, RowInv
  <2>3. RowInv(row) /\ row.log \in OnceHeld /\ Stage(row) = "sold"
    BY <2>2, OnlyHeldIsOpen DEF RowInv, OnceHeld, Stage
  <2>4. order' = [order EXCEPT ![o] = row]
    BY <1>3 DEF WriteOrder
  <2> HIDE DEF row
  <2>5. Settles(o, "sold") /\ DeductReserved(o)
    BY <1>3, <2>1, <2>3, <2>4 DEF Settles
  <2> QED BY <2>3, <2>4, <2>5 DEF GoodsStep
<1>4. CASE /\ ~AlreadyPaid(o) /\ order[o].status # "cancelled" /\ ReleaseReserved(o)
           /\ WriteOrder(o, [order[o] EXCEPT !.status = "cancelled", !.receipt = FALSE,
                                             !.log = Append(@, "release")])
  <2> DEFINE row == [order[o] EXCEPT !.status = "cancelled", !.receipt = FALSE,
                                     !.log = Append(@, "release")]
  <2>1. order[o].log = HeldLog /\ Stage(order[o]) = "held"
    BY <1>0, <1>4, StillHeld DEF AlreadyPaid, OrderInv
  <2>2. row.status = "cancelled" /\ row.log = FreedLog /\ row.cancelled = {}
    BY <1>0, <2>1, LogSteps DEF OrderRow, OrderInv, RowInv
  <2>3. RowInv(row) /\ row.log \in OnceHeld /\ Stage(row) = "returned"
    BY <2>2 DEF RowInv, OnceHeld, Stage
  <2>4. order' = [order EXCEPT ![o] = row]
    BY <1>4 DEF WriteOrder
  <2> HIDE DEF row
  <2>5. Settles(o, "returned") /\ ReleaseReserved(o)
    BY <1>4, <2>1, <2>3, <2>4 DEF Settles
  <2> QED BY <2>3, <2>4, <2>5 DEF GoodsStep
<1> QED BY <1>1, <1>2, <1>3, <1>4 DEF MpesaSuccess, MpesaFailure

-----------------------------------------------------------------------------
(* Every step keeps the invariant and the promise. *)

StepOK == CheckoutInv' /\ GoodsStep

(* A new order by request r, which serves no order yet. *)
LEMMA CreateStep ==
  ASSUME Inv, NEW r \in Requests, NEW o \in Orders, NEW fee, NEW mode \in {"hold", "deduct"},
         CreateOrder(o, fee, mode), UNCHANGED drained, NEW q, req' = [req EXCEPT ![r] = q],
         \/ q = Done
         \/ q.pc = "push" /\ q.order = o /\ mode = "hold"
         \/ q.pc = "pos_status" /\ q.order = o /\ q.arg = mode
  PROVE  StepOK
<1>1. PICK row :
        /\ order' = [order EXCEPT ![o] = row]
        /\ RowInv(row) /\ row.status = "pending" /\ row.checkout = NoCheckout
        /\ row.log = (IF mode = "hold" THEN HeldLog ELSE SoldLog)
        /\ o \notin drained
        /\ \A s \in Requests : Serving(s) => req[s].order # o
  BY CreatedRow
<1>2. req'[r] = q /\ order'[o] = row
  BY <1>1 DEF Inv, TypeInv, TypeOK, StoreTypeOK
<1>3. RequestInv(r)' /\ (Serving(r)' => req'[r].order = o)
  <2>1. CASE q = Done
    BY <1>2, <2>1 DEF RequestInv, Serving, Done, Idle
  <2>2. CASE q.pc = "push" /\ q.order = o /\ mode = "hold"
    BY <1>1, <1>2, <2>2 DEF RequestInv, Serving, OnceHeld
  <2>3. CASE q.pc = "pos_status" /\ q.order = o /\ q.arg = mode
    BY <1>1, <1>2, <2>3 DEF RequestInv, Serving
  <2> QED BY <2>1, <2>2, <2>3
<1>4. CheckoutInv'
  BY <1>1, <1>3, ServerWrites
<1>5. GoodsStep
  BY DEF GoodsStep
<1> QED BY <1>4, <1>5 DEF StepOK

LEMMA StartStep ==
  ASSUME Inv, NEW r \in Requests, StartRequest(r), Ops \subseteq {"storefront", "pos"}
  PROVE  StepOK
<1>1. PICK o \in Orders, mpesa \in BOOLEAN : Storefront(r, o, mpesa) \/ PosCheck(r, o, mpesa)
  BY DEF StartRequest, CreatePending, PatchRead, PosRetry, PollRead, CashRead, PosCancelRead,
         AdminRead, Refund, CancelItem, Starts
<1>2. CASE Storefront(r, o, mpesa)
  <2>1. CASE mpesa
    <3> DEFINE q == [pc |-> "push", op |-> "storefront", order |-> o, arg |-> "none",
                     amount |-> Subtotal[o] + ShippingFee, checkout |-> NoCheckout]
    <3>1. q.pc = "push" /\ q.order = o /\ req' = [req EXCEPT ![r] = q]
      BY <1>2, <2>1 DEF Storefront, Begin
    <3>2. CreateOrder(o, ShippingFee, "hold") /\ UNCHANGED drained
      BY <1>2, <2>1 DEF Storefront, env
    <3> HIDE DEF q
    <3> QED BY <3>1, <3>2, CreateStep
  <2>2. CASE ~mpesa
    <3>1. CreateOrder(o, ShippingFee, "deduct") /\ UNCHANGED drained
          /\ req' = [req EXCEPT ![r] = Done]
      BY <1>2, <2>2 DEF Storefront, env, Finish
    <3> QED BY <3>1, CreateStep
  <2> QED BY <2>1, <2>2
<1>3. CASE PosCheck(r, o, mpesa)
  <2> DEFINE mode == IF mpesa THEN "hold" ELSE "deduct"
             q == [pc |-> "pos_tx", op |-> "pos", order |-> o, arg |-> mode,
                   amount |-> Subtotal[o], checkout |-> NoCheckout]
  <2>1. req' = [req EXCEPT ![r] = q] /\ UNCHANGED <<store, drained>>
    BY <1>3 DEF PosCheck, Begin, env
  <2>2. req'[r] = q
    BY <2>1 DEF Inv, TypeInv, TypeOK
  <2>3. RequestInv(r)' /\ ~Serving(r)'
    BY <2>2 DEF RequestInv, Serving
  <2> QED BY <2>1, <2>3, RequestMoves, NothingMoves DEF StepOK, store
<1> QED BY <1>1, <1>2, <1>3

(* A request ends, or goes to step pc of the same order. *)
LEMMA FinishStep ==
  ASSUME Inv, NEW r \in Requests, Finish(r), UNCHANGED <<store, drained>>
  PROVE  StepOK
<1>1. req' = [req EXCEPT ![r] = Done]
  BY DEF Finish
<1>2. req'[r] = Done
  BY <1>1 DEF Inv, TypeInv, TypeOK
<1>3. RequestInv(r)' /\ ~Serving(r)'
  BY <1>2 DEF RequestInv, Serving, Done, Idle
<1> QED BY <1>1, <1>3, RequestMoves, NothingMoves DEF StepOK, store

LEMMA GotoStep ==
  ASSUME Inv, NEW r \in Requests, NEW pc \in {"release", "push"}, Goto(r, pc),
         UNCHANGED <<store, drained>>, req[r].pc \in {"push", "pos_push"}
  PROVE  StepOK
<1> DEFINE q == [req[r] EXCEPT !.pc = pc]
<1>1. req' = [req EXCEPT ![r] = q] /\ req[r] \in Request
  BY DEF Goto, Inv, TypeInv, TypeOK
<1>2. req'[r] = q
  BY <1>1 DEF Inv, TypeInv, TypeOK
<1>3. q.pc = pc /\ q.order = req[r].order
  BY <1>1 DEF Request
<1> HIDE DEF q
<1>4. RequestInv(r) /\ UNCHANGED order
  BY DEF Inv, CheckoutInv, store
<1>5. RequestInv(r)' /\ Serving(r) /\ req'[r].order = req[r].order
  BY <1>2, <1>3, <1>4 DEF RequestInv, Serving
<1> QED BY <1>1, <1>5, RequestMoves, NothingMoves DEF StepOK, store

(* The request of order o writes its row and ends, or goes to a later step. *)
LEMMA ServeStep ==
  ASSUME Inv, NEW r \in Requests, Serving(r), NEW row, NEW q,
         order' = [order EXCEPT ![req[r].order] = row], req' = [req EXCEPT ![r] = q],
         UNCHANGED drained, GoodsStep,
         RowInv(row), order[req[r].order].log \in OnceHeld => row.log \in OnceHeld,
         row.status # "absent",
         q = Done \/ (q.order = req[r].order /\ RequestInv(r)')
  PROVE  StepOK
<1> DEFINE o == req[r].order
<1>1. o \in Orders /\ OrderInv(o)
  BY DEF Inv, CheckoutInv, RequestInv, Serving
<1>2. req'[r] = q
  BY DEF Inv, TypeInv, TypeOK
<1>3. RequestInv(r)' /\ (Serving(r)' => req'[r].order = o)
  BY <1>2 DEF RequestInv, Serving, Done, Idle
<1>4. o \in drained => row.log \in OnceHeld
  BY <1>1 DEF OrderInv
<1>5. \A s \in Requests : s # r /\ Serving(s) => req[s].order # o
  BY DEF Inv, CheckoutInv, OneServer
<1> HIDE DEF o
<1>6. order' = [order EXCEPT ![o] = row]
  BY DEF o
<1>7. CheckoutInv'
  BY <1>1, <1>3, <1>4, <1>5, <1>6, ServerWrites
<1> QED BY <1>7 DEF StepOK

LEMMA ContinueStep ==
  ASSUME Inv, NEW r \in Requests, Continue(r)
  PROVE  StepOK
<1> DEFINE o == req[r].order
<1>0. RequestInv(r) /\ req[r] \in Request
  BY DEF Inv, CheckoutInv, TypeInv, TypeOK
<1>a. ASSUME Serving(r)
      PROVE  o \in Orders /\ OrderInv(o) /\ order[o] \in OrderRow /\ Exists(o)
  BY <1>0, <1>a DEF RequestInv, Serving, Inv, CheckoutInv, OneServer, TypeInv, TypeOK, StoreTypeOK
<1>1. CASE Push(r)
  <2>1. PICK c \in Checkouts : req' = [req EXCEPT ![r].pc = "save", ![r].checkout = c]
    BY <1>1 DEF Push
  <2> DEFINE q == [req[r] EXCEPT !.pc = "save", !.checkout = c]
  <2>2. req' = [req EXCEPT ![r] = q] /\ req'[r] = q /\ Serving(r)
    BY <1>1, <2>1 DEF Inv, TypeInv, TypeOK, Push, At, Serving
  <2>3. q.pc = "save" /\ q.order = o /\ q.checkout \in Checkouts
    BY <1>0 DEF Request
  <2> HIDE DEF q
  <2>4. UNCHANGED <<store, order, drained>> /\ req[r].pc = "push"
    BY <1>1 DEF Push, store, At
  <2>5. RequestInv(r)'
    BY <1>0, <2>2, <2>3, <2>4 DEF RequestInv
  <2> QED BY <2>2, <2>3, <2>4, <2>5, RequestMoves, NothingMoves DEF StepOK
<1>2. CASE PushFails(r)
  BY <1>2, FinishStep, GotoStep DEF PushFails, GiveUp, At, env
<1>10. CASE PushLost(r)
  BY <1>10, FinishStep, GotoStep DEF PushLost, GiveUp, At
<1>3. CASE SaveCheckout(r)
  <2> DEFINE row == [order[o] EXCEPT !.checkout = req[r].checkout]
  <2>1. Serving(r) /\ order[o].log \in OnceHeld
    BY <1>0, <1>3 DEF SaveCheckout, At, Serving, RequestInv
  <2>2. row.status = order[o].status /\ row.log = order[o].log /\ row.cancelled = order[o].cancelled
    BY <1>a, <2>1 DEF OrderRow
  <2>3. RowInv(row) /\ row.status # "absent" /\ Stage(row) = Stage(order[o])
    BY <1>a, <2>1, <2>2 DEF OrderInv, RowInv, Exists, Stage
  <2>4. order' = [order EXCEPT ![o] = row] /\ req' = [req EXCEPT ![r] = Done]
        /\ UNCHANGED <<onHand, inStock, reserved, drained>>
    BY <1>3 DEF SaveCheckout, WriteOrder, Finish, env
  <2> HIDE DEF row
  <2>5. GoodsStep
    BY <1>a, <2>1, <2>3, <2>4, StageStays
  <2> QED BY <2>1, <2>2, <2>3, <2>4, <2>5, ServeStep
<1>4. CASE ReleaseUnpushed(r)
  <2>1. Serving(r) /\ order[o].log \in OnceHeld
    BY <1>0, <1>4 DEF ReleaseUnpushed, At, Serving, RequestInv
  <2>2. ReleaseOrderHeldStock(o) /\ UNCHANGED drained /\ req' = [req EXCEPT ![r] = Done]
    BY <1>4 DEF ReleaseUnpushed, env, Finish
  <2>3. PICK row : /\ order' = [order EXCEPT ![o] = row]
                   /\ RowInv(row) /\ row.log \in OnceHeld
    BY <1>a, <2>1, <2>2, ReleasedRow
  <2>4. GoodsStep
    BY <1>a, <2>1, <2>2, ReleasedRow
  <2>5. row.status # "absent"
    BY <2>3, LogsDiffer DEF RowInv, OnceHeld
  <2> QED BY <2>1, <2>2, <2>3, <2>4, <2>5, ServeStep
<1>5. CASE PosTx(r)
  <2> DEFINE q == [req[r] EXCEPT !.pc = "pos_status"]
  <2>1. o \in Orders /\ req[r].arg \in {"hold", "deduct"}
    BY <1>0, <1>5 DEF RequestInv, PosTx, At
  <2>2. /\ CreateOrder(o, 0, req[r].arg) /\ UNCHANGED drained
        /\ req' = [req EXCEPT ![r] = q]
    BY <1>5 DEF PosTx, Goto, env, Inv, TypeInv, TypeOK
  <2>3. q.pc = "pos_status" /\ q.order = o /\ q.arg = req[r].arg
    BY <1>0 DEF Request
  <2> HIDE DEF q
  <2> QED BY <2>1, <2>2, <2>3, CreateStep
<1>6. CASE PosTxAborts(r)
  BY <1>6, FinishStep DEF PosTxAborts, env
<1>7. CASE PosStatus(r)
  <2> DEFINE s == IF req[r].arg = "hold" THEN "pending_payment" ELSE "confirmed"
             row == [order[o] EXCEPT !.status = s]
             q == [req[r] EXCEPT !.pc = IF req[r].arg = "hold" THEN "pos_push" ELSE "pos_paid"]
  <2>1. /\ Serving(r) /\ req[r].arg \in {"hold", "deduct"}
        /\ order[o].status = "pending" /\ order[o].checkout = NoCheckout
        /\ order[o].log = IF req[r].arg = "hold" THEN HeldLog ELSE SoldLog
    BY <1>0, <1>7 DEF PosStatus, At, Serving, RequestInv
  <2>2. /\ order' = [order EXCEPT ![o] = row] /\ req' = [req EXCEPT ![r] = q]
        /\ UNCHANGED <<onHand, inStock, reserved, drained>>
    BY <1>7 DEF PosStatus, UpdateOrderStatus, WriteOrder, Goto, env, Inv, TypeInv, TypeOK
  <2>3. /\ row.status = s /\ row.log = order[o].log
        /\ row.cancelled = {} /\ row.checkout = NoCheckout
    BY <1>a, <2>1 DEF OrderRow, OrderInv, RowInv
  <2>4. q.pc = (IF req[r].arg = "hold" THEN "pos_push" ELSE "pos_paid") /\ q.order = o
    BY <1>0 DEF Request
  <2>5. order'[o] = row /\ req'[r] = q
    BY <1>a, <2>1, <2>2 DEF Inv, TypeInv, TypeOK, StoreTypeOK
  <2> HIDE DEF row, q
  <2>6. RowInv(row) /\ row.status # "absent" /\ Stage(row) = Stage(order[o])
    BY <2>1, <2>3 DEF RowInv, Stage
  <2>7. RequestInv(r)'
    BY <1>a, <2>1, <2>3, <2>4, <2>5 DEF RequestInv, OnceHeld
  <2>8. GoodsStep
    BY <1>a, <2>1, <2>2, <2>6, StageStays
  <2> QED BY <2>1, <2>2, <2>3, <2>4, <2>6, <2>7, <2>8, ServeStep
<1>8. CASE PosPaid(r)
  <2>1. Serving(r) /\ req' = [req EXCEPT ![r] = Done] /\ UNCHANGED drained
    BY <1>8 DEF PosPaid, At, Serving, Finish, env
  <2>2. CASE order[o].status = "confirmed" /\ MarkPaid(o, FALSE)
    <3> DEFINE row == [order[o] EXCEPT !.status = "paid", !.paidAt = TRUE, !.receipt = @ \/ FALSE]
    <3>1. order[o].log = SoldLog
      BY <1>a, <2>1, <2>2 DEF OrderInv, RowInv
    <3>2. /\ row.status = "paid" /\ row.log = SoldLog
          /\ row.cancelled = {} /\ row.checkout = order[o].checkout
      BY <1>a, <2>1, <3>1 DEF OrderRow, OrderInv, RowInv
    <3>3. order' = [order EXCEPT ![o] = row] /\ UNCHANGED <<onHand, inStock, reserved>>
      BY <2>2 DEF MarkPaid, WriteOrder
    <3> HIDE DEF row
    <3>4. RowInv(row) /\ Stage(row) = Stage(order[o])
      BY <1>a, <2>1, <2>2, <3>1, <3>2 DEF OrderInv, RowInv, Stage
    <3>5. GoodsStep
      BY <1>a, <2>1, <3>3, <3>4, StageStays
    <3> QED BY <2>1, <3>1, <3>2, <3>3, <3>4, <3>5, ServeStep
  <2>3. CASE UNCHANGED store
    BY <2>1, <2>3, FinishStep DEF Finish
  <2> QED BY <1>8, <2>2, <2>3 DEF PosPaid
<1>9. CASE PosPush(r)
  BY <1>9, FinishStep, GotoStep DEF PosPush, At, env
<1> QED
  BY <1>0, <1>1, <1>2, <1>3, <1>4, <1>5, <1>6, <1>7, <1>8, <1>9, <1>10
     DEF Continue, RequestInv, At, PatchUpdate, PatchLive, PatchHold, PollQuery, PollConfirm, PollPaid,
         CashConfirm, CashPaid, CancelRelease, SetStatus

LEMMA EnvironmentStep ==
  ASSUME Inv,
         \/ \E c \in Checkouts : CustomerAnswers(c) \/ Callback(c) \/ CallbackUnknown(c)
         \/ \E o \in Orders : Age(o) \/ SweepRelease(o)
         \/ SweepRead
         \/ Crash
  PROVE  StepOK
<1>1. CASE UNCHANGED <<store, req, drained>>
  BY <1>1, NothingMoves
     DEF StepOK, store, Inv, CheckoutInv, OrderInv, RequestInv, OneServer, Serving, Exists
<1>2. ASSUME NEW c \in Checkouts, Callback(c) PROVE StepOK
  <2>1. PICK o \in Orders :
          /\ order[o].checkout = c
          /\ MpesaSuccess(o, payment[c].amount) \/ MpesaFailure(o) \/ UNCHANGED store
    BY <1>2 DEF Callback
  <2>2. order[o].log \in OnceHeld /\ order[o].checkout # NoCheckout
    BY <2>1, CheckoutAssumption DEF Inv, CheckoutInv, OrderInv, RowInv
  <2>3. UNCHANGED <<req, drained>>
    BY <1>2 DEF Callback, env
  <2>4. CASE UNCHANGED store
    BY <1>1, <2>3, <2>4 DEF store
  <2>5. CASE MpesaSuccess(o, payment[c].amount) \/ MpesaFailure(o)
    <3>1. PICK row : order' = [order EXCEPT ![o] = row] /\ RowInv(row) /\ row.log \in OnceHeld
      BY <2>2, <2>5, CallbackRow
    <3>2. CheckoutInv'
      BY <2>2, <2>3, <3>1, OthersWrite
    <3> QED BY <2>2, <2>5, <3>2, CallbackRow DEF StepOK
  <2> QED BY <2>1, <2>4, <2>5
<1>3. ASSUME NEW o \in Orders, SweepRelease(o) PROVE StepOK
  <2>1. o \in drained /\ order[o].log \in OnceHeld
    BY <1>3 DEF SweepRelease, Inv, CheckoutInv, OrderInv
  <2>2. ReleaseOrderHeldStock(o) /\ UNCHANGED req /\ drained' \subseteq drained
    BY <1>3 DEF SweepRelease
  <2>3. PICK row : order' = [order EXCEPT ![o] = row] /\ RowInv(row) /\ row.log \in OnceHeld
    BY <2>1, <2>2, ReleasedRow
  <2>4. CheckoutInv'
    BY <2>1, <2>2, <2>3, OthersWrite
  <2> QED BY <2>1, <2>2, <2>4, ReleasedRow DEF StepOK
<1>4. CASE SweepRead
  <2>1. UNCHANGED <<store, order, req>> /\ drained' = {o \in Orders : Sweepable(o)}
    BY <1>4 DEF SweepRead, store
  <2>2. ASSUME NEW o \in Orders, Sweepable(o) PROVE order[o].log \in OnceHeld
    BY <2>2 DEF Sweepable, Inv, CheckoutInv, OrderInv, RowInv, OnceHeld
  <2>3. \A o \in Orders : OrderInv(o)'
    BY <2>1, <2>2 DEF Inv, CheckoutInv, OrderInv
  <2>4. ASSUME NEW r \in Requests PROVE RequestInv(r)'
    BY <2>1 DEF Inv, CheckoutInv, RequestInv, Sweepable
  <2>5. OneServer'
    BY <2>1 DEF Inv, CheckoutInv, OneServer, Serving, Exists
  <2> QED BY <2>1, <2>3, <2>4, <2>5, NothingMoves DEF StepOK, CheckoutInv
<1>5. CASE Crash
  <2>1. UNCHANGED <<store, order>> /\ drained' = {}
    BY <1>5 DEF Crash, store
  <2>2. \A r \in Requests : req'[r].pc \in {"idle", "done"}
    BY <1>5 DEF Crash, Done, Idle
  <2>3. \A o \in Orders : OrderInv(o)'
    BY <2>1 DEF Inv, CheckoutInv, OrderInv
  <2>4. \A r \in Requests : RequestInv(r)' /\ ~Serving(r)'
    BY <2>2 DEF RequestInv, Serving
  <2>5. OneServer'
    BY <2>4 DEF OneServer
  <2> QED BY <2>1, <2>3, <2>4, <2>5, NothingMoves DEF StepOK, CheckoutInv
<1>6. ASSUME NEW c \in Checkouts, CustomerAnswers(c) PROVE StepOK
  BY <1>1, <1>6 DEF CustomerAnswers, store
<1>7. ASSUME NEW o \in Orders, Age(o) PROVE StepOK
  BY <1>1, <1>7 DEF Age, store
<1>8. ASSUME NEW c \in Checkouts, CallbackUnknown(c) PROVE StepOK
  BY <1>1, <1>8 DEF CallbackUnknown, store
<1> QED BY <1>2, <1>3, <1>4, <1>5, <1>6, <1>7, <1>8

LEMMA CheckoutStep ==
  ASSUME Inv, [Next]_vars, Ops \subseteq {"storefront", "pos"}
  PROVE  Inv' /\ GoodsStep
<1>1. TypeInv'
  BY StartTypes, ContinueTypes, EnvironmentTypes, StutterTypes DEF Next, Inv
<1>2. ASSUME UNCHANGED vars PROVE StepOK
  BY <1>2, NothingMoves
     DEF StepOK, Inv, CheckoutInv, OrderInv, RequestInv, OneServer, Serving, Exists, vars, store, env
<1>3. ASSUME Next PROVE StepOK
  BY <1>3, StartStep, ContinueStep, EnvironmentStep DEF Next
<1> QED BY <1>1, <1>2, <1>3 DEF Inv, StepOK

LEMMA CheckoutInit == Init => Inv /\ Promise!Init
<1> SUFFICES ASSUME Init PROVE Inv /\ Promise!Init
  OBVIOUS
<1>1. \A o \in Orders : OrderInv(o) /\ Stage(order[o]) = "none"
  BY DEF Init, StoreInit, NoOrder, OrderInv, RowInv, Stage
<1>2. \A r \in Requests : RequestInv(r) /\ ~Serving(r)
  BY DEF Init, Idle, RequestInv, Serving
<1>3. Inv
  BY <1>1, <1>2, InitTypes DEF Inv, CheckoutInv, OneServer
<1>4. Promise!Init
  BY <1>1 DEF Promise!Init, Init, StoreInit
<1> QED BY <1>3, <1>4

-----------------------------------------------------------------------------
(* createOrder, pushPosStk, updateOrderMpesaStatus, releaseOrderHeldStock    *)
(* and the timeout job together keep the status, the movements and the       *)
(* checkout of every order consistent, and never serve an order twice.       *)
THEOREM CheckoutInvariant ==
  ASSUME Ops \subseteq {"storefront", "pos"}
  PROVE  Spec => []CheckoutInv
<1>1. Inv /\ [Next]_vars => Inv'
  BY CheckoutStep
<1>2. Inv => CheckoutInv
  BY DEF Inv
<1> QED BY CheckoutInit, <1>1, <1>2, PTL DEF Spec

(* Checkout, with all its requests, callbacks, sweeps and restarts, is an     *)
(* implementation of StockPromise: goods leave stock_on_hand once, when the   *)
(* order is placed, and are sold once or come back once.                      *)
THEOREM CheckoutKeepsPromise ==
  ASSUME Ops \subseteq {"storefront", "pos"}
  PROVE  Spec => KeepsPromise
<1>1. Inv /\ [Next]_vars => Inv' /\ PromiseStep
  BY CheckoutStep, GoodsKeepPromise
<1>2. PromiseStep => [Promise!Next]_<<onHand, [o \in Orders |-> Stage(order[o])]>>
  BY DEF PromiseStep, stage
<1> QED BY CheckoutInit, <1>1, <1>2, PTL DEF Spec, KeepsPromise, Promise!Spec

(* A paid order has exactly one sale movement and no release: no mix of        *)
(* callbacks, sweeps and restarts sells its goods twice or gives them back.    *)
THEOREM CheckoutPaidSoldOnce ==
  ASSUME Ops \subseteq {"storefront", "pos"}
  PROVE  Spec => []PaidSoldOnce
<1>1. Once(SoldLog, "sale") /\ Never(SoldLog, "release")
  BY DEF Once, Never, SoldLog
<1>2. Once(PaidLog, "sale") /\ Never(PaidLog, "release")
  <2>1. DOMAIN PaidLog = 1..2 /\ PaidLog[1] = "reserve" /\ PaidLog[2] = "sale"
    BY DEF PaidLog
  <2> QED BY <2>1 DEF Once, Never
<1>3. CheckoutInv => PaidSoldOnce
  BY <1>1, <1>2 DEF CheckoutInv, OrderInv, RowInv, PaidSoldOnce, AlreadyPaid
<1> QED BY CheckoutInvariant, <1>3, PTL

-----------------------------------------------------------------------------
(* What a transaction may do to the row it writes, with every endpoint in use. *)

(* The movements grow by one at most, and a hold is only added when none is open. *)
LogStep(o, row) ==
  \/ row.log = order[o].log
  \/ \E mode : row.log = FirstMovement(mode)
  \/ \E m \in {"sale", "release"} : row.log = Append(order[o].log, m)
  \/ row.log = Append(order[o].log, "reserve") /\ ~Held(o)

(* Stock never moves without a trace in the row, and not on behalf of a      *)
(* cancelled order unless a line is cancelled with it.                       *)
StockStep(o, row) ==
  \/ UNCHANGED <<onHand, inStock, reserved>>
  \/ /\ row # order[o]
     /\ order[o].status = "cancelled" => row.cancelled # order[o].cancelled

Tidy(o, row) == order' = [order EXCEPT ![o] = row] /\ LogStep(o, row) /\ StockStep(o, row)
Kept(o, row) == row.checkout = order[o].checkout /\ (row.receipt => order[o].receipt)
TidyWrite(o) == \E row : Tidy(o, row) /\ Kept(o, row)

LEMMA NoWrite ==
  ASSUME StoreTypeOK, NEW o \in Orders, UNCHANGED store
  PROVE  TidyWrite(o)
<1>1. Tidy(o, order[o]) /\ Kept(o, order[o])
  BY DEF Tidy, LogStep, StockStep, Kept, StoreTypeOK, store
<1> QED BY <1>1 DEF TidyWrite

(* A write to the order row alone. *)
LEMMA RowOnly ==
  ASSUME NEW o \in Orders, NEW row, WriteOrder(o, row), UNCHANGED <<onHand, inStock, reserved>>,
         row.log = order[o].log
  PROVE  Tidy(o, row)
BY DEF Tidy, WriteOrder, LogStep, StockStep

LEMMA CreateTidy ==
  ASSUME StoreTypeOK, NEW o \in Orders, NEW fee, NEW mode, CreateOrder(o, fee, mode)
  PROVE  TidyWrite(o)
<1> DEFINE row == [order[o] EXCEPT !.status = "pending", !.fee = fee, !.log = FirstMovement(mode)]
<1>1. order' = [order EXCEPT ![o] = row] /\ order[o].status = "absent" /\ order[o] \in OrderRow
  BY DEF CreateOrder, WriteOrder, Exists, StoreTypeOK
<1>2. /\ row.status = "pending" /\ row.log = FirstMovement(mode)
      /\ row.checkout = order[o].checkout /\ row.receipt = order[o].receipt
  BY <1>1 DEF OrderRow
<1> HIDE DEF row
<1>3. LogStep(o, row) /\ StockStep(o, row) /\ Kept(o, row)
  BY <1>1, <1>2 DEF LogStep, StockStep, Kept
<1> QED BY <1>1, <1>3 DEF TidyWrite, Tidy

(* A payment or a release of an order that is not cancelled. *)
LEMMA SettleTidy ==
  ASSUME StoreTypeOK, NEW o \in Orders, NEW row, WriteOrder(o, row),
         NEW m \in {"sale", "release"}, row.log = Append(order[o].log, m),
         order[o].status # "cancelled"
  PROVE  Tidy(o, row)
<1>1. order[o].log \in Seq(Movement) /\ m \in Movement
  BY DEF StoreTypeOK, OrderRow, Movement
<1>2. Len(row.log) = Len(order[o].log) + 1 /\ Len(order[o].log) \in Nat
  BY <1>1, AppendProperties
<1>3. row # order[o]
  BY <1>2
<1> QED BY <1>3 DEF Tidy, WriteOrder, LogStep, StockStep

LEMMA ConfirmTidy ==
  ASSUME StoreTypeOK, NEW o \in Orders, ConfirmOrderPayment(o)
  PROVE  TidyWrite(o)
<1>1. CASE UNCHANGED store
  BY <1>1, NoWrite
<1>2. CASE /\ Payable(o)
           /\ WriteOrder(o, [order[o] EXCEPT !.status = "paid", !.paidAt = TRUE,
                                             !.log = Append(@, "sale")])
  <2> DEFINE row == [order[o] EXCEPT !.status = "paid", !.paidAt = TRUE, !.log = Append(@, "sale")]
  <2>1. /\ row.log = Append(order[o].log, "sale") /\ row.checkout = order[o].checkout
        /\ row.receipt = order[o].receipt
    BY DEF StoreTypeOK, OrderRow
  <2>2. WriteOrder(o, row) /\ order[o].status # "cancelled"
    BY <1>2 DEF Payable
  <2> HIDE DEF row
  <2>3. Tidy(o, row)
    BY <2>1, <2>2, SettleTidy
  <2> QED BY <2>1, <2>3 DEF TidyWrite, Kept
<1> QED BY <1>1, <1>2 DEF ConfirmOrderPayment

LEMMA ReleaseTidy ==
  ASSUME StoreTypeOK, NEW o \in Orders, ReleaseOrderHeldStock(o)
  PROVE  TidyWrite(o)
<1>1. CASE UNCHANGED store
  BY <1>1, NoWrite
<1>2. CASE /\ Payable(o)
           /\ WriteOrder(o, [order[o] EXCEPT !.status = "cancelled", !.log = Append(@, "release")])
  <2> DEFINE row == [order[o] EXCEPT !.status = "cancelled", !.log = Append(@, "release")]
  <2>1. /\ row.log = Append(order[o].log, "release") /\ row.checkout = order[o].checkout
        /\ row.receipt = order[o].receipt
    BY DEF StoreTypeOK, OrderRow
  <2>2. WriteOrder(o, row) /\ order[o].status # "cancelled"
    BY <1>2 DEF Payable
  <2> HIDE DEF row
  <2>3. Tidy(o, row)
    BY <2>1, <2>2, SettleTidy
  <2> QED BY <2>1, <2>3 DEF TidyWrite, Kept
<1> QED BY <1>1, <1>2 DEF ReleaseOrderHeldStock

LEMMA StatusTidy ==
  ASSUME StoreTypeOK, NEW o \in Orders, NEW s, UpdateOrderStatus(o, s)
  PROVE  TidyWrite(o)
<1> DEFINE row == [order[o] EXCEPT !.status = s]
<1>1. /\ row.status = s /\ row.log = order[o].log /\ row.checkout = order[o].checkout
      /\ row.receipt = order[o].receipt
  BY DEF StoreTypeOK, OrderRow
<1> HIDE DEF row
<1>2. CASE UNCHANGED store
  BY <1>2, NoWrite
<1>3. CASE s = "cancelled" /\ order[o].status # "cancelled" /\ RestockOrder(o)
  <2>1. order' = [order EXCEPT ![o] = row]
    BY <1>3 DEF RestockOrder, WriteOrder, row
  <2> QED BY <1>1, <1>3, <2>1 DEF TidyWrite, Tidy, Kept, LogStep, StockStep
<1>4. CASE WriteOrder(o, row) /\ UNCHANGED <<onHand, inStock, reserved>>
  BY <1>1, <1>4, RowOnly DEF TidyWrite, Kept
<1> QED BY <1>2, <1>3, <1>4 DEF UpdateOrderStatus, CancelOrder, row

LEMMA HoldTidy ==
  ASSUME StoreTypeOK, NEW o \in Orders, HoldStockForOrder(o)
  PROVE  TidyWrite(o)
<1>1. CASE UNCHANGED store
  BY <1>1, NoWrite
<1>2. CASE Payable(o) /\ ~Held(o) /\ WriteOrder(o, [order[o] EXCEPT !.log = Append(@, "reserve")])
  <2> DEFINE row == [order[o] EXCEPT !.log = Append(@, "reserve")]
  <2>1. /\ row.log = Append(order[o].log, "reserve") /\ row.checkout = order[o].checkout
        /\ row.receipt = order[o].receipt /\ order[o].log \in Seq(Movement)
    BY DEF StoreTypeOK, OrderRow
  <2>2. order' = [order EXCEPT ![o] = row]
    BY <1>2 DEF WriteOrder
  <2> HIDE DEF row
  <2>3. "reserve" \in Movement
    BY DEF Movement
  <2>4. Len(row.log) = Len(order[o].log) + 1 /\ Len(order[o].log) \in Nat
    BY <2>1, <2>3, AppendProperties
  <2>5. row # order[o] /\ order[o].status # "cancelled"
    BY <1>2, <2>4 DEF Payable
  <2> QED BY <1>2, <2>1, <2>2, <2>5 DEF TidyWrite, Tidy, Kept, LogStep, StockStep
<1> QED BY <1>1, <1>2 DEF HoldStockForOrder

LEMMA FailureTidy ==
  ASSUME StoreTypeOK, NEW o \in Orders, MpesaFailure(o)
  PROVE  TidyWrite(o)
<1>1. CASE UNCHANGED store
  BY <1>1, NoWrite
<1>2. CASE /\ order[o].status # "cancelled"
           /\ WriteOrder(o, [order[o] EXCEPT !.status = "cancelled", !.receipt = FALSE,
                                             !.log = Append(@, "release")])
  <2> DEFINE row == [order[o] EXCEPT !.status = "cancelled", !.receipt = FALSE,
                                     !.log = Append(@, "release")]
  <2>1. /\ row.log = Append(order[o].log, "release") /\ row.checkout = order[o].checkout
        /\ row.receipt = FALSE
    BY DEF StoreTypeOK, OrderRow
  <2>2. WriteOrder(o, row)
    BY <1>2
  <2> HIDE DEF row
  <2>3. Tidy(o, row)
    BY <1>2, <2>1, <2>2, SettleTidy
  <2> QED BY <2>1, <2>3 DEF TidyWrite, Kept
<1> QED BY <1>1, <1>2 DEF MpesaFailure

(* A callback with a receipt: the row is as before but for its payment. *)
LEMMA SuccessTidy ==
  ASSUME StoreTypeOK, NEW o \in Orders, NEW amount, MpesaSuccess(o, amount)
  PROVE  \E row : Tidy(o, row) /\ row.checkout = order[o].checkout
<1>1. CASE UNCHANGED store
  BY <1>1, NoWrite DEF TidyWrite, Kept
<1>2. CASE WriteOrder(o, [order[o] EXCEPT !.receipt = TRUE]) /\ UNCHANGED <<onHand, inStock, reserved>>
  <2> DEFINE row == [order[o] EXCEPT !.receipt = TRUE]
  <2>1. row.log = order[o].log /\ row.checkout = order[o].checkout
    BY DEF StoreTypeOK, OrderRow
  <2>2. WriteOrder(o, row)
    BY <1>2
  <2> HIDE DEF row
  <2> QED BY <1>2, <2>1, <2>2, RowOnly
<1>3. CASE /\ Payable(o)
           /\ WriteOrder(o, [order[o] EXCEPT !.status = "paid", !.paidAt = TRUE,
                                             !.receipt = TRUE, !.log = Append(@, "sale")])
  <2> DEFINE row == [order[o] EXCEPT !.status = "paid", !.paidAt = TRUE,
                                     !.receipt = TRUE, !.log = Append(@, "sale")]
  <2>1. row.log = Append(order[o].log, "sale") /\ row.checkout = order[o].checkout
    BY DEF StoreTypeOK, OrderRow
  <2>2. WriteOrder(o, row) /\ order[o].status # "cancelled"
    BY <1>3 DEF Payable
  <2> HIDE DEF row
  <2> QED BY <2>1, <2>2, SettleTidy
<1> QED BY <1>1, <1>2, <1>3 DEF MpesaSuccess

(* UPDATE ... SET status = 'paid': stores a receipt only if it is given one. *)
LEMMA PaidTidy ==
  ASSUME StoreTypeOK, NEW o \in Orders, NEW receipt \in BOOLEAN, MarkPaid(o, receipt)
  PROVE  \E row : /\ Tidy(o, row) /\ row.checkout = order[o].checkout
                  /\ row.receipt => order[o].receipt \/ receipt
<1> DEFINE row == [order[o] EXCEPT !.status = "paid", !.paidAt = TRUE, !.receipt = @ \/ receipt]
<1>1. /\ row.log = order[o].log /\ row.checkout = order[o].checkout
      /\ row.receipt = (order[o].receipt \/ receipt)
  BY DEF StoreTypeOK, OrderRow
<1>2. WriteOrder(o, row) /\ UNCHANGED <<onHand, inStock, reserved>>
  BY DEF MarkPaid
<1> HIDE DEF row
<1> QED BY <1>1, <1>2, RowOnly

LEMMA RefundTidy ==
  ASSUME StoreTypeOK, NEW o \in Orders, NEW amount,
         RefundOrder(o, amount) \/ \E p \in Products : RefundLine(o, p, amount)
  PROVE  TidyWrite(o)
<1>0. order[o] \in OrderRow /\ order[o].refunded \in Nat
  BY DEF StoreTypeOK, OrderRow
<1>1. CASE RefundOrder(o, amount)
  <2> DEFINE row == [order[o] EXCEPT !.refunded = @ + amount]
  <2>1. /\ row.log = order[o].log /\ row.checkout = order[o].checkout
        /\ row.receipt = order[o].receipt
    BY <1>0 DEF OrderRow
  <2>2. WriteOrder(o, row) /\ UNCHANGED <<onHand, inStock, reserved>>
    BY <1>1 DEF RefundOrder
  <2> HIDE DEF row
  <2> QED BY <2>1, <2>2, RowOnly DEF TidyWrite, Kept
<1>2. ASSUME NEW p \in Products, RefundLine(o, p, amount) PROVE TidyWrite(o)
  <2> DEFINE row == [order[o] EXCEPT !.refunded = @ + amount, !.cancelled = @ \cup {p}]
             L == {p} \ order[o].cancelled
  <2>1. /\ row.log = order[o].log /\ row.checkout = order[o].checkout
        /\ row.receipt = order[o].receipt /\ row.refunded = order[o].refunded + amount
        /\ row.cancelled = order[o].cancelled \cup {p}
    BY <1>0 DEF OrderRow
  <2>2. /\ WriteOrder(o, row) /\ amount \in 1..(Total(o) - order[o].refunded)
        /\ onHand' = Plus(onHand, o, L)
        /\ inStock' = [inStock EXCEPT ![OrderBranch[o]] = Plus(@, o, L)]
        /\ reserved' = [reserved EXCEPT ![OrderBranch[o]] = Minus(@, o, L)]
    BY <1>2 DEF RefundLine
  <2> HIDE DEF row
  <2>3. row # order[o]
    BY <1>0, <2>1, <2>2
  <2>4. CASE p \notin order[o].cancelled
    BY <2>1, <2>2, <2>3, <2>4 DEF TidyWrite, Tidy, Kept, LogStep, StockStep, WriteOrder
  <2>5. CASE p \in order[o].cancelled
    <3>1. \A s \in Stock : Plus(s, o, {}) = s /\ Minus(s, o, {}) = s
      BY DEF Plus, Minus, Stock
    <3>2. onHand \in Stock /\ inStock \in [Branches -> Stock] /\ reserved \in [Branches -> Stock]
          /\ OrderBranch[o] \in Branches /\ L = {}
      BY <2>5, BranchAssumption DEF StoreTypeOK
    <3>3. UNCHANGED <<onHand, inStock, reserved>>
      <4>1. onHand' = onHand
        BY <2>2, <3>1, <3>2
      <4>2. inStock' = inStock
        BY <2>2, <3>1, <3>2
      <4>3. reserved' = reserved
        BY <2>2, <3>1, <3>2
      <4> QED BY <4>1, <4>2, <4>3
    <3> QED BY <2>1, <2>2, <3>3, RowOnly DEF TidyWrite, Kept
  <2> QED BY <2>4, <2>5
<1> QED BY <1>1, <1>2

(* The other writes of one row alone. *)
LEMMA ItemTidy ==
  ASSUME StoreTypeOK, NEW o \in Orders, NEW p, CancelOrderItem(o, p)
  PROVE  TidyWrite(o)
<1> DEFINE row == [order[o] EXCEPT !.cancelled = @ \cup {p}]
<1>1. /\ row.log = order[o].log /\ row.checkout = order[o].checkout
      /\ row.receipt = order[o].receipt
  BY DEF StoreTypeOK, OrderRow
<1>2. WriteOrder(o, row) /\ UNCHANGED <<onHand, inStock, reserved>>
  BY DEF CancelOrderItem
<1> HIDE DEF row
<1> QED BY <1>1, <1>2, RowOnly DEF TidyWrite, Kept

LEMMA DetailsTidy ==
  ASSUME StoreTypeOK, NEW r \in Requests, req[r].order \in Orders, PatchUpdate(r)
  PROVE  TidyWrite(req[r].order)
<1> DEFINE o == req[r].order
<1>1. PICK fee : /\ WriteOrder(o, [order[o] EXCEPT !.fee = fee])
                 /\ UNCHANGED <<onHand, inStock, reserved>>
  <2>1. PICK county \in BOOLEAN :
          /\ WriteOrder(o, [order[o] EXCEPT !.fee = IF county THEN ShippingFee ELSE @])
          /\ UNCHANGED <<onHand, inStock, reserved>>
    BY DEF PatchUpdate
  <2> DEFINE f == IF county THEN ShippingFee ELSE order[o].fee
  <2>2. WriteOrder(o, [order[o] EXCEPT !.fee = f])
    BY <2>1
  <2> HIDE DEF f
  <2> QED BY <2>1, <2>2
<1> DEFINE row == [order[o] EXCEPT !.fee = fee]
<1>2. /\ row.log = order[o].log /\ row.checkout = order[o].checkout
      /\ row.receipt = order[o].receipt
  BY DEF StoreTypeOK, OrderRow
<1>3. WriteOrder(o, row)
  BY <1>1
<1> HIDE DEF row
<1> QED BY <1>1, <1>2, <1>3, RowOnly DEF TidyWrite, Kept

LEMMA SaveTidy ==
  ASSUME StoreTypeOK, NEW r \in Requests, req[r].order \in Orders, SaveCheckout(r)
  PROVE  \E row : /\ Tidy(req[r].order, row) /\ row.checkout = req[r].checkout
                  /\ row.receipt = order[req[r].order].receipt
<1> DEFINE o == req[r].order
           row == [order[o] EXCEPT !.checkout = req[r].checkout]
<1>1. /\ row.log = order[o].log /\ row.checkout = req[r].checkout
      /\ row.receipt = order[o].receipt
  BY DEF StoreTypeOK, OrderRow
<1>2. WriteOrder(o, row) /\ UNCHANGED <<onHand, inStock, reserved>>
  BY DEF SaveCheckout
<1> HIDE DEF row
<1> QED BY <1>1, <1>2, RowOnly
-----------------------------------------------------------------------------
(* Where receipts come from.  A checkout that an order carries, or that a    *)
(* request is about to store, was issued for that order; the outcome of a    *)
(* checkout is final; and a poll that read a receipt read a true one.        *)

Issued(c, o) == c \in Checkouts /\ payment[c].order = o /\ payment[c].state # "unused"
Funded(o) == \E c \in Checkouts : payment[c].order = o /\ payment[c].state = "ok"

RowTrue(o) == /\ order[o].receipt => Funded(o)
              /\ order[o].checkout # NoCheckout => Issued(order[o].checkout, o)
KnowsTruth(r) == /\ req[r].pc = "save" => Issued(req[r].checkout, req[r].order)
                 /\ req[r].arg = "receipt" => Funded(req[r].order)

ReceiptInv == /\ TypeInv
              /\ \A o \in Orders : RowTrue(o)
              /\ \A r \in Requests : KnowsTruth(r)

(* What Safaricom knows of a checkout does not change any more. *)
OutcomesStay ==
  \A c \in Checkouts : payment[c].state # "unused" =>
    /\ payment'[c].order = payment[c].order /\ payment'[c].state # "unused"
    /\ payment[c].state = "ok" => payment'[c].state = "ok"

(* No request learns of a checkout or a receipt. *)
Learns(r, q) == /\ q.pc = "save" => q = req[r]
                /\ q.arg = "receipt" => req[r].arg = "receipt" /\ q.order = req[r].order
Quiet == \A r \in Requests : Learns(r, req'[r])

PlainStore == UNCHANGED store \/ \E o \in Orders : TidyWrite(o)
PlainStep == PlainStore /\ Quiet /\ OutcomesStay

LEMMA PaymentsStay ==
  ASSUME UNCHANGED payment
  PROVE  OutcomesStay
BY DEF OutcomesStay

LEMMA RequestsStay ==
  ASSUME UNCHANGED req
  PROVE  Quiet
BY DEF Quiet, Learns

LEMMA OneLearns ==
  ASSUME TypeInv, NEW r \in Requests, NEW q, req' = [req EXCEPT ![r] = q], Learns(r, q)
  PROVE  Quiet
BY DEF TypeInv, TypeOK, Quiet, Learns

LEMMA FinishQuiet ==
  ASSUME TypeInv, NEW r \in Requests, Finish(r)
  PROVE  Quiet
<1>1. Learns(r, Done)
  BY DEF Learns, Done, Idle
<1> QED BY <1>1, OneLearns DEF Finish

LEMMA GotoQuiet ==
  ASSUME TypeInv, NEW r \in Requests, NEW pc, pc # "save", Goto(r, pc)
  PROVE  Quiet
<1> DEFINE q == [req[r] EXCEPT !.pc = pc]
<1>1. q.pc = pc /\ q.arg = req[r].arg /\ q.order = req[r].order
  BY DEF TypeInv, TypeOK, Request
<1>2. req' = [req EXCEPT ![r] = q]
  BY DEF Goto
<1> HIDE DEF q
<1>3. Learns(r, q)
  BY <1>1 DEF Learns
<1> QED BY <1>2, <1>3, OneLearns

LEMMA BeginQuiet ==
  ASSUME TypeInv, NEW r \in Requests, NEW op, NEW o, NEW pc, NEW arg, NEW amount,
         Begin(r, op, o, pc, arg, amount), pc # "save", arg # "receipt"
  PROVE  Quiet
<1> DEFINE q == [pc |-> pc, op |-> op, order |-> o, arg |-> arg,
                 amount |-> amount, checkout |-> NoCheckout]
<1>1. Learns(r, q)
  BY DEF Learns
<1>2. req' = [req EXCEPT ![r] = q]
  BY DEF Begin
<1> HIDE DEF q
<1> QED BY <1>1, <1>2, OneLearns

LEMMA StartPlain ==
  ASSUME TypeInv, NEW r \in Requests, NEW o \in Orders,
         \/ \E mpesa \in BOOLEAN : Storefront(r, o, mpesa) \/ PosCheck(r, o, mpesa)
         \/ CreatePending(r, o)
         \/ PatchRead(r, o)
         \/ PosRetry(r, o)
         \/ CashRead(r, o)
         \/ PosCancelRead(r, o)
         \/ \E s \in AdminStatuses, granted \in BOOLEAN : AdminRead(r, o, s, granted)
         \/ \E amount \in 1..Total(o) : Refund(r, o, amount)
         \/ \E p \in Products : CancelItem(r, o, p)
  PROVE  PlainStep
<1>0. StoreTypeOK
  BY DEF TypeInv, TypeOK
<1>1. UNCHANGED env
  BY DEF Storefront, PosCheck, CreatePending, PatchRead, PosRetry, CashRead, PosCancelRead,
         AdminRead, Refund, CancelItem
<1>2. OutcomesStay
  BY <1>1, PaymentsStay DEF env
<1>3. PlainStore
  <2>1. ASSUME NEW mpesa \in BOOLEAN, Storefront(r, o, mpesa) PROVE TidyWrite(o)
    BY <1>0, <2>1, CreateTidy DEF Storefront
  <2>2. CASE CreatePending(r, o)
    BY <1>0, <2>2, CreateTidy DEF CreatePending, PlainStore
  <2>3. ASSUME NEW amount, Refund(r, o, amount) PROVE TidyWrite(o)
    BY <1>0, <2>3, RefundTidy DEF Refund
  <2>4. ASSUME NEW p, CancelItem(r, o, p) PROVE TidyWrite(o)
    BY <1>0, <2>4, ItemTidy DEF CancelItem
  <2> QED
    BY <2>1, <2>2, <2>3, <2>4
       DEF PlainStore, PosCheck, PatchRead, PosRetry, CashRead, PosCancelRead, AdminRead
<1>4. Quiet
  <2>1. ASSUME NEW mpesa \in BOOLEAN, Storefront(r, o, mpesa) PROVE Quiet
    <3>1. CASE mpesa
      BY <2>1, <3>1, BeginQuiet DEF Storefront
    <3>2. CASE ~mpesa
      BY <2>1, <3>2, FinishQuiet DEF Storefront
    <3> QED BY <3>1, <3>2
  <2>2. ASSUME NEW mpesa \in BOOLEAN, PosCheck(r, o, mpesa) PROVE Quiet
    <3>1. PICK arg : arg # "receipt" /\ Begin(r, "pos", o, "pos_tx", arg, Subtotal[o])
      BY <2>2 DEF PosCheck
    <3> QED BY <3>1, BeginQuiet
  <2>3. CASE PatchRead(r, o)
    BY <2>3, BeginQuiet DEF PatchRead
  <2>4. CASE PosRetry(r, o)
    BY <2>4, BeginQuiet, FinishQuiet DEF PosRetry
  <2>5. CASE CashRead(r, o)
    <3>1. PICK pc : pc # "save" /\ Begin(r, "paycash", o, pc, "none", 0)
      BY <2>5 DEF CashRead
    <3> QED BY <3>1, BeginQuiet
  <2>6. CASE PosCancelRead(r, o)
    BY <2>6, BeginQuiet DEF PosCancelRead
  <2>7. ASSUME NEW s \in AdminStatuses, NEW granted, AdminRead(r, o, s, granted) PROVE Quiet
    BY <2>7, AdminAssumption, BeginQuiet DEF AdminRead
  <2>8. CASE CreatePending(r, o)
    BY <2>8, FinishQuiet DEF CreatePending
  <2>9. ASSUME NEW amount, Refund(r, o, amount) PROVE Quiet
    BY <2>9, FinishQuiet DEF Refund
  <2>10. ASSUME NEW p, CancelItem(r, o, p) PROVE Quiet
    BY <2>10, FinishQuiet DEF CancelItem
  <2> QED BY <2>1, <2>2, <2>3, <2>4, <2>5, <2>6, <2>7, <2>8, <2>9, <2>10
<1> QED BY <1>2, <1>3, <1>4 DEF PlainStep

LEMMA ContinuePlain ==
  ASSUME TypeInv, NEW r \in Requests,
         \/ PushFails(r) \/ PushLost(r) \/ ReleaseUnpushed(r)
         \/ PatchUpdate(r) \/ PatchLive(r) \/ PatchHold(r)
         \/ PosTx(r) \/ PosTxAborts(r) \/ PosStatus(r) \/ PosPaid(r) \/ PosPush(r)
         \/ PollQuery(r) \/ PollConfirm(r)
         \/ CashConfirm(r) \/ CashPaid(r)
         \/ CancelRelease(r) \/ SetStatus(r)
  PROVE  PlainStep
<1> DEFINE o == req[r].order
<1>0. StoreTypeOK /\ o \in Orders
  BY DEF TypeInv, TypeOK, RequestShape, PushFails, PushLost, ReleaseUnpushed, PatchUpdate, PatchLive,
         PatchHold, PosTx, PosTxAborts, PosStatus, PosPaid, PosPush, PollQuery, PollConfirm,
         CashConfirm, CashPaid, CancelRelease, SetStatus, At
<1>1. ASSUME UNCHANGED env PROVE OutcomesStay
  BY <1>1, PaymentsStay DEF env
<1>2. ASSUME PushLost(r) PROVE OutcomesStay
  <2>1. PICK c \in Checkouts : payment[c].state = "unused" /\ payment' = [payment EXCEPT ![c] = Prompt(r)]
    BY <1>2 DEF PushLost
  <2> QED BY <2>1 DEF OutcomesStay, TypeInv, TypeOK
<1>3. OutcomesStay
  BY <1>1, <1>2
     DEF env, PushFails, ReleaseUnpushed, PatchUpdate, PatchLive, PatchHold, PosTx, PosTxAborts,
         PosStatus, PosPaid, PosPush, PollQuery, PollConfirm, CashConfirm, CashPaid, CancelRelease,
         SetStatus
<1>4. PlainStore
  <2>1. CASE UNCHANGED store
    BY <2>1 DEF PlainStore
  <2>2. CASE ReleaseUnpushed(r) \/ CancelRelease(r)
    BY <1>0, <2>2, ReleaseTidy DEF PlainStore, ReleaseUnpushed, CancelRelease
  <2>3. CASE PatchUpdate(r)
    BY <1>0, <2>3, DetailsTidy DEF PlainStore
  <2>4. CASE PatchHold(r)
    BY <1>0, <2>4, HoldTidy DEF PlainStore, PatchHold
  <2>5. CASE PosTx(r)
    BY <1>0, <2>5, CreateTidy DEF PlainStore, PosTx
  <2>6. CASE PosStatus(r) \/ SetStatus(r)
    BY <1>0, <2>6, StatusTidy DEF PlainStore, PosStatus, SetStatus
  <2>7. CASE MarkPaid(o, FALSE)
    BY <1>0, <2>7, PaidTidy DEF PlainStore, TidyWrite, Kept
  <2>8. CASE PollConfirm(r) \/ CashConfirm(r)
    BY <1>0, <2>8, ConfirmTidy DEF PlainStore, PollConfirm, CashConfirm
  <2> QED
    BY <2>1, <2>2, <2>3, <2>4, <2>5, <2>6, <2>7, <2>8
       DEF PushFails, PushLost, PatchLive, PosTxAborts, PosPaid, PosPush, PollQuery, CashPaid
<1>5. Quiet
  <2>1. CASE Finish(r)
    BY <2>1, FinishQuiet
  <2>2. ASSUME NEW pc, pc # "save", Goto(r, pc) PROVE Quiet
    BY <2>2, GotoQuiet
  <2>3. CASE CancelRelease(r)
    <3> DEFINE q == [req[r] EXCEPT !.pc = "set_status", !.arg = "cancelled"]
    <3>1. q.pc = "set_status" /\ q.arg = "cancelled"
      BY DEF TypeInv, TypeOK, Request
    <3>2. req' = [req EXCEPT ![r] = q]
      BY <2>3 DEF CancelRelease, TypeInv, TypeOK
    <3> HIDE DEF q
    <3>3. Learns(r, q)
      BY <3>1 DEF Learns
    <3> QED BY <3>2, <3>3, OneLearns
  <2>4. CASE PosStatus(r)
    <3>1. PICK pc \in {"pos_push", "pos_paid"} : Goto(r, pc)
      BY <2>4 DEF PosStatus
    <3> QED BY <2>2, <3>1
  <2>5. CASE PollQuery(r)
    <3>1. (\E pc \in {"poll_confirm", "cancel_release"} : Goto(r, pc)) \/ Finish(r)
      BY <2>5 DEF PollQuery
    <3> QED BY <2>1, <2>2, <3>1
  <2> QED
    BY <2>1, <2>2, <2>3, <2>4, <2>5
       DEF PushFails, PushLost, GiveUp, ReleaseUnpushed, PatchUpdate, PatchLive, PatchHold, PosTx,
           PosTxAborts, PosPaid, PosPush, PollConfirm, CashConfirm, CashPaid, SetStatus
<1> QED BY <1>3, <1>4, <1>5 DEF PlainStep

LEMMA EnvironmentPlain ==
  ASSUME TypeInv,
         \/ \E c \in Checkouts : \/ CustomerAnswers(c) \/ CallbackUnknown(c)
                                 \/ Callback(c) /\ ~Receipted(c)
         \/ \E o \in Orders : Age(o) \/ SweepRelease(o)
         \/ SweepRead
         \/ Crash
  PROVE  PlainStep
<1>0. StoreTypeOK /\ payment \in [Checkouts -> Payment]
  BY DEF TypeInv, TypeOK
<1>1. ASSUME NEW c \in Checkouts, CustomerAnswers(c) PROVE PlainStep
  <2>1. PICK s \in Outcome : payment' = [payment EXCEPT ![c].state = s]
    BY <1>1 DEF CustomerAnswers
  <2>2. OutcomesStay
    BY <1>0, <1>1, <2>1 DEF OutcomesStay, CustomerAnswers, Outcome, Payment
  <2>3. UNCHANGED <<store, req>>
    BY <1>1 DEF CustomerAnswers
  <2> QED BY <2>2, <2>3, RequestsStay DEF PlainStep, PlainStore
<1>2. ASSUME NEW c \in Checkouts, CallbackUnknown(c) PROVE PlainStep
  <2>1. payment' = [payment EXCEPT ![c].dropped = TRUE] /\ UNCHANGED <<store, req>>
    BY <1>2 DEF CallbackUnknown
  <2>2. OutcomesStay
    BY <1>0, <2>1 DEF OutcomesStay, Payment
  <2> QED BY <2>1, <2>2, RequestsStay DEF PlainStep, PlainStore
<1>3. ASSUME NEW c \in Checkouts, Callback(c), ~Receipted(c) PROVE PlainStep
  <2>1. PICK o \in Orders : MpesaFailure(o) \/ UNCHANGED store
    BY <1>3 DEF Callback
  <2>2. UNCHANGED <<payment, req>>
    BY <1>3 DEF Callback, env
  <2>3. PlainStore
    BY <1>0, <2>1, FailureTidy DEF PlainStore
  <2> QED BY <2>2, <2>3, RequestsStay, PaymentsStay DEF PlainStep
<1>4. ASSUME NEW o \in Orders, SweepRelease(o) PROVE PlainStep
  <2>1. PlainStore
    BY <1>0, <1>4, ReleaseTidy DEF PlainStore, SweepRelease
  <2> QED BY <1>4, <2>1, RequestsStay, PaymentsStay DEF PlainStep, SweepRelease
<1>5. ASSUME NEW o \in Orders, Age(o) PROVE PlainStep
  BY <1>5, RequestsStay, PaymentsStay DEF PlainStep, PlainStore, Age
<1>6. CASE SweepRead
  BY <1>6, RequestsStay, PaymentsStay DEF PlainStep, PlainStore, SweepRead
<1>7. CASE Crash
  <2>1. \A r \in Requests : req'[r] = req[r] \/ req'[r] = Done
    BY <1>7 DEF Crash
  <2>2. Quiet
    BY <2>1 DEF Quiet, Learns, Done, Idle
  <2> QED BY <1>7, <2>2, PaymentsStay DEF PlainStep, PlainStore, Crash
<1> QED BY <1>1, <1>2, <1>3, <1>4, <1>5, <1>6, <1>7

(* Every step is plain but for five: a push that is accepted, the update     *)
(* that stores its checkout, a callback with a receipt, and the read and the *)
(* write of a poll.                                                          *)
LEMMA StepsArePlain ==
  ASSUME TypeInv, [Next]_vars
  PROVE  \/ PlainStep
         \/ \E r \in Requests : Push(r) \/ SaveCheckout(r) \/ PollPaid(r)
         \/ \E r \in Requests, o \in Orders : PollRead(r, o)
         \/ \E c \in Checkouts : Callback(c) /\ Receipted(c)
<1>1. CASE UNCHANGED vars
  BY <1>1, RequestsStay, PaymentsStay DEF PlainStep, PlainStore, vars, env
<1>2. ASSUME NEW r \in Requests, StartRequest(r), ~\E o \in Orders : PollRead(r, o)
      PROVE  PlainStep
  BY <1>2, StartPlain DEF StartRequest
<1>3. ASSUME NEW r \in Requests, Continue(r), ~(Push(r) \/ SaveCheckout(r) \/ PollPaid(r))
      PROVE  PlainStep
  BY <1>3, ContinuePlain DEF Continue
<1> QED BY <1>1, <1>2, <1>3, EnvironmentPlain DEF Next
LEMMA EveryWriteIsTidy ==
  ASSUME TypeInv, [Next]_vars
  PROVE  UNCHANGED store \/ \E o \in Orders : \E row : Tidy(o, row)
<1>0. StoreTypeOK
  BY DEF TypeInv, TypeOK
<1>1. CASE PlainStep
  BY <1>1 DEF PlainStep, PlainStore, TidyWrite
<1>2. ASSUME NEW r \in Requests, Push(r) PROVE UNCHANGED store
  BY <1>2 DEF Push
<1>3. ASSUME NEW r \in Requests, SaveCheckout(r) PROVE \E o \in Orders : \E row : Tidy(o, row)
  BY <1>0, <1>3, SaveTidy DEF SaveCheckout, At, TypeInv, RequestShape
<1>4. ASSUME NEW r \in Requests, PollPaid(r) PROVE \E o \in Orders : \E row : Tidy(o, row)
  <2>1. req[r].order \in Orders /\ MarkPaid(req[r].order, req[r].arg = "receipt")
    BY <1>4 DEF PollPaid, At, TypeInv, RequestShape
  <2>2. (req[r].arg = "receipt") \in BOOLEAN
    OBVIOUS
  <2> QED BY <1>0, <2>1, <2>2, PaidTidy
<1>5. ASSUME NEW r \in Requests, NEW o \in Orders, PollRead(r, o) PROVE UNCHANGED store
  BY <1>5 DEF PollRead
<1>6. ASSUME NEW c \in Checkouts, Callback(c), Receipted(c)
      PROVE  \E o \in Orders : \E row : Tidy(o, row)
  <2>1. PICK o \in Orders : MpesaSuccess(o, payment[c].amount)
    BY <1>6 DEF Callback, Receipted
  <2> QED BY <1>0, <2>1, SuccessTidy
<1> QED BY <1>1, <1>2, <1>3, <1>4, <1>5, <1>6, StepsArePlain

-----------------------------------------------------------------------------
(* Cancelling an order twice, by whatever paths, gives its goods back once:   *)
(* stock moves only in a transaction that leaves a trace in the row of the    *)
(* order it moves it for.                                                     *)
THEOREM SecondCancelMovesNothing == Spec => DuplicateCancelIsNoop
<1> DEFINE Noop(o) == order[o].status = "cancelled" =>
       order'[o].status # "cancelled" \/ order'[o].cancelled # order[o].cancelled
       \/ (\E q \in Orders : q # o /\ order'[q] # order[q])
       \/ UNCHANGED <<onHand, inStock, reserved>>
<1>1. ASSUME TypeInv, [Next]_vars, NEW o \in Orders PROVE Noop(o)
  <2>1. CASE UNCHANGED store
    BY <2>1 DEF store
  <2>2. ASSUME NEW u \in Orders, NEW row, Tidy(u, row) PROVE Noop(o)
    <3>1. order'[u] = row
      BY <1>1, <2>2 DEF Tidy, TypeInv, TypeOK, StoreTypeOK
    <3> QED BY <2>2, <3>1 DEF Tidy, StockStep
  <2> QED BY <1>1, <2>1, <2>2, EveryWriteIsTidy
<1>2. TypeInv /\ [Next]_vars => TypeInv'
  BY StartTypes, ContinueTypes, EnvironmentTypes, StutterTypes DEF Next
<1>3. TypeInv /\ [Next]_vars => [\A o \in Orders : Noop(o)]_vars
  BY <1>1
<1> QED BY InitTypes, <1>2, <1>3, PTL DEF Spec, DuplicateCancelIsNoop

-----------------------------------------------------------------------------
(* A hold is added only when none is open *)

Separate(log) == \A i, j \in DOMAIN log :
  (i < j /\ log[i] = "reserve" /\ log[j] = "reserve")
    => \E k \in i..j : log[k] \in {"sale", "release"}

LEMMA AppendSeparate ==
  ASSUME NEW log \in Seq(Movement), Separate(log), NEW m \in Movement,
         m = "reserve" => ~OpenReservation(log)
  PROVE  Separate(Append(log, m))
<1> DEFINE s == Append(log, m)  n == Len(log) + 1
<1>1. /\ s \in Seq(Movement) /\ DOMAIN s = 1..n /\ s[n] = m /\ DOMAIN log = 1..(n - 1) /\ n \in Nat \ {0}
      /\ \A i \in 1..(n - 1) : s[i] = log[i]
  BY AppendProperties
<1> HIDE DEF s, n
<1> SUFFICES ASSUME NEW i \in 1..n, NEW j \in 1..n, i < j, s[i] = "reserve", s[j] = "reserve"
             PROVE  \E k \in i..j : s[k] \in {"sale", "release"}
  BY <1>1 DEF Separate, s
<1>2. i \in 1..(n - 1) /\ log[i] = "reserve"
  BY <1>1
<1>3. CASE j < n
  <2>1. j \in 1..(n - 1) /\ log[j] = "reserve"
    BY <1>1, <1>3
  <2>2. PICK k \in i..j : log[k] \in {"sale", "release"}
    BY <1>1, <1>2, <2>1 DEF Separate
  <2>3. k \in 1..(n - 1)
    BY <1>1, <1>2, <2>1
  <2> QED BY <1>1, <2>2, <2>3
<1>4. CASE j = n
  <2>1. ~OpenReservation(log)
    BY <1>1, <1>4
  <2>2. PICK k \in DOMAIN log : log[k] \in {"sale", "release"} /\ ~(k < i)
    BY <1>1, <1>2, <2>1 DEF OpenReservation
  <2>3. k \in i..j /\ k \in 1..(n - 1)
    BY <1>1, <1>2, <1>4, <2>2
  <2> QED BY <1>1, <2>2, <2>3
<1> QED BY <1>1, <1>3, <1>4

(* holdStockForOrder is idempotent, with every endpoint in use: between two   *)
(* holds of an order the first one was sold or released.                      *)
THEOREM HoldsAreSeparate == Spec => []OneOpenReservation
<1>1. OneOpenReservation <=> \A o \in Orders : Separate(order[o].log)
  BY DEF OneOpenReservation, Separate
<1>2. Init => OneOpenReservation
  BY DEF Init, StoreInit, NoOrder, OneOpenReservation
<1>3. ASSUME TypeInv, OneOpenReservation, [Next]_vars PROVE OneOpenReservation'
  <2>1. CASE UNCHANGED store
    BY <1>3, <2>1 DEF OneOpenReservation, store
  <2>2. ASSUME NEW u \in Orders, NEW row, Tidy(u, row) PROVE OneOpenReservation'
    <3>1. order'[u] = row /\ \A o \in Orders \ {u} : order'[o] = order[o]
      BY <1>3, <2>2 DEF Tidy, TypeInv, TypeOK, StoreTypeOK
    <3>2. order[u].log \in Seq(Movement) /\ Separate(order[u].log)
      BY <1>1, <1>3 DEF TypeInv, TypeOK, StoreTypeOK, OrderRow
    <3>3. Separate(row.log)
      <4>1. CASE row.log = order[u].log
        BY <3>2, <4>1
      <4>2. ASSUME NEW mode, row.log = FirstMovement(mode) PROVE Separate(row.log)
        <5>1. row.log \in {<<>>, <<"reserve">>, <<"sale">>}
          BY <4>2 DEF FirstMovement
        <5> QED BY <5>1 DEF Separate
      <4>3. ASSUME NEW m \in {"sale", "release"}, row.log = Append(order[u].log, m)
            PROVE  Separate(row.log)
        BY <3>2, <4>3, AppendSeparate DEF Movement
      <4>4. CASE row.log = Append(order[u].log, "reserve") /\ ~Held(u)
        BY <3>2, <4>4, AppendSeparate DEF Movement, Held
      <4> QED BY <2>2, <4>1, <4>2, <4>3, <4>4 DEF Tidy, LogStep
    <3>4. \A o \in Orders : Separate(order'[o].log)
      BY <1>1, <1>3, <3>1, <3>3
    <3> QED BY <3>4 DEF OneOpenReservation, Separate
  <2> QED BY <1>3, <2>1, <2>2, EveryWriteIsTidy
<1>4. TypeInv /\ [Next]_vars => TypeInv'
  BY StartTypes, ContinueTypes, EnvironmentTypes, StutterTypes DEF Next
<1> QED BY InitTypes, <1>2, <1>3, <1>4, PTL DEF Spec

-----------------------------------------------------------------------------
(* Receipts are paid for *)

LEMMA TruthStays ==
  ASSUME OutcomesStay, NEW o, Funded(o)
  PROVE  Funded(o)'
BY DEF OutcomesStay, Funded

LEMMA IssueStays ==
  ASSUME OutcomesStay, NEW c, NEW o, Issued(c, o)
  PROVE  Issued(c, o)'
BY DEF OutcomesStay, Issued

(* The requests keep what they know when none learns anything, and the rows    *)
(* keep their truth when nobody writes them.                                   *)
LEMMA QuietKeeps ==
  ASSUME ReceiptInv, Quiet, OutcomesStay, NEW r \in Requests
  PROVE  KnowsTruth(r)'
<1>1. Learns(r, req'[r]) /\ KnowsTruth(r)
  BY DEF Quiet, ReceiptInv
<1>2. PICK q : q = req'[r]
  OBVIOUS
<1>3. q.pc = "save" => Issued(q.checkout, q.order)
  BY <1>1, <1>2 DEF Learns, KnowsTruth
<1>4. q.arg = "receipt" => Funded(q.order)
  BY <1>1, <1>2 DEF Learns, KnowsTruth
<1>5. (q.pc = "save" => Issued(q.checkout, q.order)') /\ (q.arg = "receipt" => Funded(q.order)')
  BY <1>3, <1>4, IssueStays, TruthStays
<1> QED BY <1>2, <1>5 DEF KnowsTruth, Issued, Funded

LEMMA RowKeeps ==
  ASSUME OutcomesStay, NEW o \in Orders, NEW row, order'[o] = row,
         row.receipt => Funded(o),
         row.checkout # NoCheckout => Issued(row.checkout, o)
  PROVE  RowTrue(o)'
<1>1. row.receipt => Funded(o)'
  BY TruthStays
<1>2. row.checkout # NoCheckout => Issued(row.checkout, o)'
  BY IssueStays
<1> QED BY <1>1, <1>2 DEF RowTrue, Issued, Funded

(* The row of u is written; its checkout and its receipt are known to be right. *)
LEMMA RowKnown ==
  ASSUME ReceiptInv, TypeInv', Quiet, OutcomesStay, NEW u \in Orders, NEW row,
         order' = [order EXCEPT ![u] = row],
         row.receipt => Funded(u),
         row.checkout # NoCheckout => Issued(row.checkout, u)
  PROVE  ReceiptInv'
<1>1. order'[u] = row /\ \A o \in Orders \ {u} : order'[o] = order[o]
  BY DEF ReceiptInv, TypeInv, TypeOK, StoreTypeOK
<1>2. RowTrue(u)'
  BY <1>1, RowKeeps
<1>3. ASSUME NEW o \in Orders, o # u PROVE RowTrue(o)'
  <2>1. PICK x : x = order[o]
    OBVIOUS
  <2>2. /\ order'[o] = x /\ (x.receipt => Funded(o))
        /\ x.checkout # NoCheckout => Issued(x.checkout, o)
    BY <1>1, <1>3, <2>1 DEF ReceiptInv, RowTrue
  <2> QED BY <2>2, RowKeeps
<1> QED BY <1>2, <1>3, QuietKeeps DEF ReceiptInv

LEMMA RowsKept ==
  ASSUME ReceiptInv, OutcomesStay, UNCHANGED order, NEW o \in Orders
  PROVE  RowTrue(o)'
<1>1. PICK x : x = order[o]
  OBVIOUS
<1>2. /\ order'[o] = x /\ (x.receipt => Funded(o))
      /\ x.checkout # NoCheckout => Issued(x.checkout, o)
  BY <1>1 DEF ReceiptInv, RowTrue
<1> QED BY <1>2, RowKeeps

LEMMA ReceiptsKept ==
  ASSUME ReceiptInv, [Next]_vars
  PROVE  ReceiptInv'
<1>0. TypeInv /\ StoreTypeOK /\ payment \in [Checkouts -> Payment] /\ req \in [Requests -> Request]
  BY DEF ReceiptInv, TypeInv, TypeOK
<1>1. TypeInv'
  BY <1>0, StartTypes, ContinueTypes, EnvironmentTypes, StutterTypes DEF Next
<1>2. CASE PlainStep
  <2>1. CASE UNCHANGED store
    BY <1>1, <1>2, <2>1, RowsKept, QuietKeeps DEF PlainStep, ReceiptInv, store
  <2>2. ASSUME NEW o \in Orders, TidyWrite(o) PROVE ReceiptInv'
    <3>1. PICK row : Tidy(o, row) /\ Kept(o, row)
      BY <2>2 DEF TidyWrite
    <3> QED BY <1>1, <1>2, <3>1, RowKnown DEF PlainStep, Tidy, Kept, ReceiptInv, RowTrue
  <2> QED BY <1>2, <2>1, <2>2 DEF PlainStep, PlainStore
<1>3. ASSUME NEW r \in Requests, Push(r) PROVE ReceiptInv'
  <2>1. PICK c \in Checkouts : /\ payment[c].state = "unused"
                               /\ payment' = [payment EXCEPT ![c] = Prompt(r)]
                               /\ req' = [req EXCEPT ![r].pc = "save", ![r].checkout = c]
    BY <1>3 DEF Push
  <2>2. OutcomesStay /\ UNCHANGED order
    BY <1>0, <1>3, <2>1 DEF OutcomesStay, Push, store
  <2>3. ASSUME NEW s \in Requests PROVE KnowsTruth(s)'
    <3>1. /\ req'[s].order = req[s].order /\ req'[s].arg = req[s].arg
          /\ s = r => req'[s].checkout = c
          /\ s # r => req'[s] = req[s]
      BY <1>0, <2>1 DEF Request
    <3>2. PICK o, d : o = req[s].order /\ d = req[s].checkout
      OBVIOUS
    <3>3. req'[s].arg = "receipt" => Funded(o)'
      BY <2>2, <3>1, <3>2, TruthStays DEF ReceiptInv, KnowsTruth
    <3>4. CASE s = r
      <4>1. payment'[c] = Prompt(r) /\ req[r].order = o
        BY <1>0, <2>1, <3>2, <3>4
      <4>2. payment'[c].order = o /\ payment'[c].state = "prompt"
        BY <4>1 DEF Prompt
      <4> QED BY <3>1, <3>2, <3>3, <3>4, <4>2 DEF KnowsTruth, Issued, Funded
    <3>5. CASE s # r
      <4>1. req'[s].pc = "save" => Issued(d, o)'
        BY <2>2, <3>1, <3>2, <3>5, IssueStays DEF ReceiptInv, KnowsTruth
      <4> QED BY <3>1, <3>2, <3>3, <3>5, <4>1 DEF KnowsTruth, Issued, Funded
    <3> QED BY <3>4, <3>5
  <2> QED BY <1>1, <2>2, <2>3, RowsKept DEF ReceiptInv
<1>4. ASSUME NEW r \in Requests, SaveCheckout(r) PROVE ReceiptInv'
  <2>1. req[r].order \in Orders /\ req[r].pc = "save" /\ Finish(r) /\ UNCHANGED payment
    BY <1>0, <1>4 DEF SaveCheckout, At, TypeInv, RequestShape, env
  <2>2. Quiet /\ OutcomesStay
    BY <1>0, <2>1, FinishQuiet, PaymentsStay
  <2>3. PICK row : /\ Tidy(req[r].order, row) /\ row.checkout = req[r].checkout
                   /\ row.receipt = order[req[r].order].receipt
    BY <1>0, <1>4, <2>1, SaveTidy
  <2> QED BY <1>1, <2>1, <2>2, <2>3, RowKnown DEF Tidy, ReceiptInv, RowTrue, KnowsTruth
<1>5. ASSUME NEW r \in Requests, PollPaid(r) PROVE ReceiptInv'
  <2>1. /\ req[r].order \in Orders /\ MarkPaid(req[r].order, req[r].arg = "receipt")
        /\ Finish(r) /\ UNCHANGED payment
    BY <1>0, <1>5 DEF PollPaid, At, TypeInv, RequestShape, env
  <2>2. (req[r].arg = "receipt") \in BOOLEAN
    OBVIOUS
  <2>3. Quiet /\ OutcomesStay
    BY <1>0, <2>1, FinishQuiet, PaymentsStay
  <2>4. PICK row : /\ Tidy(req[r].order, row) /\ row.checkout = order[req[r].order].checkout
                   /\ row.receipt => order[req[r].order].receipt \/ req[r].arg = "receipt"
    BY <1>0, <2>1, <2>2, PaidTidy
  <2> QED BY <1>1, <2>1, <2>3, <2>4, RowKnown DEF Tidy, ReceiptInv, RowTrue, KnowsTruth
<1>6. ASSUME NEW r \in Requests, NEW o \in Orders, PollRead(r, o) PROVE ReceiptInv'
  <2>1. UNCHANGED <<order, payment>>
    BY <1>6 DEF PollRead, env, store
  <2> DEFINE q == [pc |-> "poll_query", op |-> "poll", order |-> o,
                   arg |-> IF order[o].receipt THEN "receipt" ELSE "none",
                   amount |-> 0, checkout |-> order[o].checkout]
  <2>2. req' = [req EXCEPT ![r] = q]
    BY <1>6 DEF PollRead
  <2>3. q.pc = "poll_query" /\ q.order = o /\ (q.arg = "receipt" => Funded(o))
    BY DEF ReceiptInv, RowTrue
  <2> HIDE DEF q
  <2>4. OutcomesStay
    BY <2>1, PaymentsStay
  <2>5. ASSUME NEW s \in Requests PROVE KnowsTruth(s)'
    <3>1. CASE s = r
      <4>1. req'[s] = q
        BY <1>0, <2>2, <3>1
      <4> QED BY <2>1, <2>3, <4>1 DEF KnowsTruth, Funded
    <3>2. CASE s # r
      <4>1. req'[s] = req[s]
        BY <1>0, <2>2, <3>2
      <4> QED BY <2>1, <4>1 DEF ReceiptInv, KnowsTruth, Issued, Funded
    <3> QED BY <3>1, <3>2
  <2> QED BY <1>1, <2>1, <2>4, <2>5, RowsKept DEF ReceiptInv
<1>7. ASSUME NEW c \in Checkouts, Callback(c), Receipted(c) PROVE ReceiptInv'
  <2>1. PICK o \in Orders : order[o].checkout = c /\ MpesaSuccess(o, payment[c].amount)
    BY <1>7 DEF Callback, Receipted
  <2>2. UNCHANGED <<req, payment>>
    BY <1>7 DEF Callback, env
  <2>3. PICK row : Tidy(o, row) /\ row.checkout = order[o].checkout
    BY <1>0, <2>1, SuccessTidy
  <2>4. Issued(c, o) /\ Funded(o)
    BY <1>7, <2>1, CheckoutAssumption DEF ReceiptInv, RowTrue, Issued, Funded, Receipted
  <2> QED BY <1>1, <2>1, <2>2, <2>3, <2>4, RowKnown, RequestsStay, PaymentsStay DEF Tidy
<1> QED BY <1>0, <1>2, <1>3, <1>4, <1>5, <1>6, <1>7, StepsArePlain

(* A receipt is stored only for an order some customer paid, with every       *)
(* endpoint in use, lost pushes, repeated and late callbacks, and polls that  *)
(* write back what they read before.                                          *)
THEOREM ReceiptsArePaid == Spec => []ReceiptNeedsPayment
<1>1. Init => ReceiptInv
  BY InitTypes DEF Init, StoreInit, NoOrder, Idle, ReceiptInv, RowTrue, KnowsTruth
<1>2. ReceiptInv => ReceiptNeedsPayment
  BY DEF ReceiptInv, RowTrue, ReceiptNeedsPayment, Funded
<1> QED BY <1>1, <1>2, ReceiptsKept, PTL DEF Spec
-----------------------------------------------------------------------------
(* What is reserved at a branch is what its held orders wait for.              *)

HeldAt(b) == {o \in Orders : OrderBranch[o] = b /\ Held(o) /\ order[o].status # "cancelled"}
Booked(b) == /\ IsFiniteSet(HeldAt(b))
             /\ \A p \in Products : reserved[b][p] = SumFunctionOnSet(QtyOf(p), HeldAt(b))
BookedInv == Inv /\ \A b \in Branches : Booked(b)

LEMMA HeldAreStaged ==
  ASSUME Inv, NEW b
  PROVE  HeldAt(b) = {o \in Orders : OrderBranch[o] = b /\ stage[o] = "held"}
<1>1. ASSUME NEW o \in Orders
      PROVE  stage[o] = "held" <=> Held(o) /\ order[o].status # "cancelled"
  <2>1. CASE order[o].status = "absent"
    <3>1. order[o].log = <<>>
      BY <2>1 DEF Inv, CheckoutInv, OrderInv, RowInv
    <3> QED BY <2>1, <3>1 DEF stage, Stage, Held, OpenReservation
  <2>2. CASE order[o].status # "absent"
    BY <2>2 DEF stage, Stage, Held
  <2> QED BY <2>1, <2>2
<1> QED BY <1>1 DEF HeldAt

LEMMA HeldAreStagedNext ==
  ASSUME Inv', NEW b
  PROVE  HeldAt(b)' = {o \in Orders : OrderBranch[o] = b /\ stage'[o] = "held"}
<1>1. ASSUME NEW o \in Orders
      PROVE  stage'[o] = "held" <=> (Held(o) /\ order[o].status # "cancelled")'
  <2>1. CASE order'[o].status = "absent"
    <3>1. order'[o].log = <<>>
      BY <2>1 DEF Inv, CheckoutInv, OrderInv, RowInv
    <3> QED BY <2>1, <3>1 DEF stage, Stage, Held, OpenReservation
  <2>2. CASE order'[o].status # "absent"
    BY <2>2 DEF stage, Stage, Held
  <2> QED BY <2>1, <2>2
<1> QED BY <1>1 DEF HeldAt

(* An order joins the held ones of its branch, or leaves them. *)
LEMMA HeldJoin ==
  ASSUME Inv, Inv', NEW o \in Orders, NEW to,
         stage' = [stage EXCEPT ![o] = to], stage[o] # "held", NEW b
  PROVE  /\ o \notin HeldAt(b)
         /\ HeldAt(b)' = IF to = "held" /\ b = OrderBranch[o] THEN HeldAt(b) \cup {o} ELSE HeldAt(b)
<1>1. HeldAt(b) = {u \in Orders : OrderBranch[u] = b /\ stage[u] = "held"}
  BY HeldAreStaged
<1>2. HeldAt(b)' = {u \in Orders : OrderBranch[u] = b /\ stage'[u] = "held"}
  BY HeldAreStagedNext
<1>3. stage'[o] = to /\ \A u \in Orders \ {o} : stage'[u] = stage[u]
  BY DEF stage
<1> QED BY <1>1, <1>2, <1>3

LEMMA HeldLeave ==
  ASSUME Inv, Inv', NEW o \in Orders, NEW to, to # "held",
         stage' = [stage EXCEPT ![o] = to], stage[o] = "held", NEW b
  PROVE  /\ HeldAt(b)' = HeldAt(b) \ {o}
         /\ o \in HeldAt(b) <=> b = OrderBranch[o]
<1>1. HeldAt(b) = {u \in Orders : OrderBranch[u] = b /\ stage[u] = "held"}
  BY HeldAreStaged
<1>2. HeldAt(b)' = {u \in Orders : OrderBranch[u] = b /\ stage'[u] = "held"}
  BY HeldAreStagedNext
<1>3. stage'[o] = to /\ \A u \in Orders \ {o} : stage'[u] = stage[u]
  BY DEF stage
<1> QED BY <1>1, <1>2, <1>3

LEMMA QtyIsNat ==
  ASSUME NEW p \in Products
  PROVE  \A o \in Orders : QtyOf(p)[o] = Qty[o][p] /\ Qty[o][p] \in Nat
BY QtyAssumption DEF QtyOf, Stock

(* What the lines of an order do to a column, line by line. *)
LEMMA PlusLine ==
  ASSUME NEW s \in Stock, NEW o \in Orders, NEW p \in Products
  PROVE  Plus(s, o, InOrder(o))[p] = s[p] + Qty[o][p]
<1>1. s[p] \in Nat /\ Qty[o][p] \in Nat
  BY QtyIsNat DEF Stock
<1>2. p \notin InOrder(o) => Qty[o][p] = 0
  BY <1>1 DEF InOrder
<1> QED BY <1>1, <1>2 DEF Plus

LEMMA MinusLine ==
  ASSUME NEW s \in Stock, NEW o \in Orders, NEW p \in Products, Qty[o][p] <= s[p]
  PROVE  /\ Minus(s, o, InOrder(o))[p] = s[p] - Qty[o][p]
         /\ MinusIfEnough(s, o, InOrder(o))[p] = s[p] - Qty[o][p]
         /\ Take(s, o, InOrder(o))[p] = s[p] - Qty[o][p]
<1>1. s[p] \in Nat /\ Qty[o][p] \in Nat
  BY QtyIsNat DEF Stock
<1>2. p \notin InOrder(o) => Qty[o][p] = 0
  BY <1>1 DEF InOrder
<1> QED BY <1>1, <1>2 DEF Minus, MinusIfEnough, Take

(* A held order's goods are among those reserved at its branch. *)
LEMMA HeldIsReserved ==
  ASSUME BookedInv, NEW o \in Orders, o \in HeldAt(OrderBranch[o]), NEW p \in Products
  PROVE  LET b == OrderBranch[o] IN
         /\ reserved[b][p] = Qty[o][p] + SumFunctionOnSet(QtyOf(p), HeldAt(b) \ {o})
         /\ SumFunctionOnSet(QtyOf(p), HeldAt(b) \ {o}) \in Nat
         /\ Qty[o][p] <= reserved[b][p]
<1> DEFINE b == OrderBranch[o]  H == HeldAt(b)  f == QtyOf(p)
<1>1. b \in Branches
  BY BranchAssumption
<1>2. IsFiniteSet(H) /\ reserved[b][p] = SumFunctionOnSet(f, H)
  BY <1>1 DEF BookedInv, Booked
<1>3. H \subseteq Orders
  BY DEF HeldAt
<1>4. \A u \in H : f[u] = Qty[u][p] /\ f[u] \in Nat
  BY <1>3, QtyIsNat
<1> HIDE DEF H, f
<1>5. SumFunctionOnSet(f, H) = f[o] + SumFunctionOnSet(f, H \ {o})
  BY <1>2, <1>4, SumRemove DEF H
<1>6. SumFunctionOnSet(f, H \ {o}) \in Nat
  BY <1>2, <1>4, FS_RemoveElement, SumNat
<1>7. f[o] = Qty[o][p] /\ f[o] \in Nat
  BY <1>4 DEF H
<1> QED BY <1>2, <1>5, <1>6, <1>7 DEF H, f

LEMMA BookedStays ==
  ASSUME NEW b \in Branches, Booked(b), HeldAt(b)' = HeldAt(b),
         \A p \in Products : reserved'[b][p] = reserved[b][p]
  PROVE  Booked(b)'
BY DEF Booked, QtyOf

LEMMA GoodsBooked ==
  ASSUME BookedInv, Inv', GoodsStep, NEW b \in Branches
  PROVE  Booked(b)'
<1>0. Booked(b) /\ Inv /\ reserved \in [Branches -> Stock]
  BY DEF BookedInv, Inv, TypeInv, TypeOK, StoreTypeOK
<1>1. CASE UNCHANGED <<onHand, inStock, reserved>> /\ stage' = stage
  <2>1. HeldAt(b)' = {o \in Orders : OrderBranch[o] = b /\ stage'[o] = "held"}
    BY HeldAreStagedNext
  <2>2. HeldAt(b)' = HeldAt(b)
    BY <1>0, <1>1, <2>1, HeldAreStaged
  <2> QED BY <1>0, <1>1, <2>2, BookedStays
<1>2. ASSUME NEW o \in Orders, NEW fee, NEW mode \in {"hold", "deduct"}, CreateOrder(o, fee, mode)
      PROVE  Booked(b)'
  <2> DEFINE to == IF mode = "hold" THEN "held" ELSE "sold"
  <2>1. stage[o] = "none" /\ stage' = [stage EXCEPT ![o] = to]
    BY <1>0, <1>2, Placed
  <2>2. /\ o \notin HeldAt(b)
        /\ HeldAt(b)' = IF to = "held" /\ b = OrderBranch[o] THEN HeldAt(b) \cup {o} ELSE HeldAt(b)
    BY <1>0, <2>1, HeldJoin
  <2>3. CASE mode = "hold" /\ b = OrderBranch[o]
    <3>1. HeldAt(b)' = HeldAt(b) \cup {o} /\ IsFiniteSet(HeldAt(b)')
      BY <1>0, <2>2, <2>3, FS_AddElement DEF Booked
    <3>2. ASSUME NEW p \in Products
          PROVE  reserved'[b][p] = SumFunctionOnSet(QtyOf(p), HeldAt(b)')
      <4> DEFINE f == QtyOf(p)
      <4>1. reserved'[b] = Plus(reserved[b], o, InOrder(o)) /\ reserved[b] \in Stock
        BY <1>0, <1>2, <2>3 DEF CreateOrder
      <4>2. reserved'[b][p] = reserved[b][p] + Qty[o][p]
        BY <4>1, PlusLine
      <4>3. \A u \in HeldAt(b) \cup {o} : f[u] \in Int
        BY QtyIsNat DEF HeldAt
      <4>4. f[o] = Qty[o][p] /\ f[o] \in Nat /\ reserved[b][p] \in Nat
        BY <4>1, QtyIsNat DEF Stock
      <4> HIDE DEF f
      <4>5. SumFunctionOnSet(f, HeldAt(b) \cup {o}) = f[o] + SumFunctionOnSet(f, HeldAt(b))
        BY <1>0, <2>2, <4>3, SumAdd DEF Booked
      <4>6. reserved[b][p] = SumFunctionOnSet(f, HeldAt(b))
        BY <1>0 DEF Booked, f
      <4>7. reserved'[b][p] = SumFunctionOnSet(f, HeldAt(b)')
        BY <3>1, <4>2, <4>4, <4>5, <4>6
      <4> QED BY <4>7 DEF f
    <3> QED BY <3>1, <3>2 DEF Booked, QtyOf
  <2>4. CASE ~(mode = "hold" /\ b = OrderBranch[o])
    <3>1. HeldAt(b)' = HeldAt(b)
      BY <2>2, <2>4
    <3>2. reserved'[b] = reserved[b]
      BY <1>0, <1>2, <2>4 DEF CreateOrder
    <3> QED BY <1>0, <3>1, <3>2, BookedStays
  <2> QED BY <2>3, <2>4
<1>3. ASSUME NEW o \in Orders, NEW to \in {"sold", "returned"}, Settles(o, to),
             reserved' = [reserved EXCEPT ![OrderBranch[o]] = Minus(@, o, InOrder(o))]
      PROVE  Booked(b)'
  <2>1. stage[o] = "held" /\ stage' = [stage EXCEPT ![o] = to]
    BY <1>0, <1>3, SettledStage
  <2>2. HeldAt(b)' = HeldAt(b) \ {o} /\ (o \in HeldAt(b) <=> b = OrderBranch[o])
    BY <1>0, <2>1, HeldLeave
  <2>3. CASE b = OrderBranch[o]
    <3>1. IsFiniteSet(HeldAt(b)')
      BY <1>0, <2>2, FS_RemoveElement DEF Booked
    <3>2. ASSUME NEW p \in Products
          PROVE  reserved'[b][p] = SumFunctionOnSet(QtyOf(p), HeldAt(b)')
      <4>1. /\ reserved[b][p] = Qty[o][p] + SumFunctionOnSet(QtyOf(p), HeldAt(b) \ {o})
            /\ SumFunctionOnSet(QtyOf(p), HeldAt(b) \ {o}) \in Nat
            /\ Qty[o][p] <= reserved[b][p]
        BY <2>2, <2>3, HeldIsReserved
      <4>2. reserved'[b] = Minus(reserved[b], o, InOrder(o)) /\ reserved[b] \in Stock
        BY <1>0, <1>3, <2>3
      <4>3. reserved'[b][p] = reserved[b][p] - Qty[o][p]
        BY <4>1, <4>2, MinusLine
      <4>4. reserved[b][p] \in Nat /\ Qty[o][p] \in Nat
        BY <4>2, QtyIsNat DEF Stock
      <4> QED BY <2>2, <4>1, <4>3, <4>4
    <3> QED BY <3>1, <3>2 DEF Booked, QtyOf
  <2>4. CASE b # OrderBranch[o]
    <3>1. HeldAt(b)' = HeldAt(b)
      BY <2>2, <2>4
    <3>2. reserved'[b] = reserved[b]
      BY <1>0, <1>3, <2>4
    <3> QED BY <1>0, <3>1, <3>2, BookedStays
  <2> QED BY <2>3, <2>4
<1> QED BY <1>1, <1>2, <1>3 DEF GoodsStep, DeductReserved, ReleaseReserved

(* quantity_reserved counts exactly the open holds of live orders, at every   *)
(* branch, whatever requests, callbacks, sweeps and restarts overlap.         *)
THEOREM ReservedIsHeld ==
  ASSUME Ops \subseteq {"storefront", "pos"}
  PROVE  Spec => []ReservedIsOpenHolds
<1>1. Init => BookedInv
  <2> SUFFICES ASSUME Init PROVE BookedInv
    OBVIOUS
  <2>1. ASSUME NEW b \in Branches PROVE Booked(b)
    <3>1. HeldAt(b) = {}
      BY DEF Init, StoreInit, NoOrder, HeldAt, Held, OpenReservation
    <3>2. \A p \in Products : reserved[b][p] = 0
      BY DEF Init, StoreInit
    <3> QED BY <3>1, <3>2, SumEmpty, FS_EmptySet DEF Booked
  <2> QED BY <2>1, CheckoutInit DEF BookedInv
<1>2. BookedInv /\ [Next]_vars => BookedInv'
  BY CheckoutStep, GoodsBooked DEF BookedInv
<1>3. BookedInv => ReservedIsOpenHolds
  BY DEF BookedInv, Booked, ReservedIsOpenHolds, HeldAt
<1> QED BY <1>1, <1>2, <1>3, PTL DEF Spec

-----------------------------------------------------------------------------
(* One row of stock *)

RowAgrees == \A p \in Products : onHand[p] = inStock[NoBranch][p] - reserved[NoBranch][p]

LEMMA OneRow ==
  ASSUME Branches = {NoBranch}, NEW f \in [Branches -> Int]
  PROVE  SumFunctionOnSet(f, Branches) = f[NoBranch]
<1>1. SumFunctionOnSet(f, {} \cup {NoBranch}) = f[NoBranch] + SumFunctionOnSet(f, {})
  BY FS_EmptySet, SumAdd
<1>2. SumFunctionOnSet(f, {}) = 0 /\ Branches = {} \cup {NoBranch} /\ f[NoBranch] \in Int
  BY SumEmpty
<1> QED BY <1>1, <1>2

LEMMA GoodsAgree ==
  ASSUME BookedInv, Inv', GoodsStep, RowAgrees, Branches = {NoBranch}
  PROVE  RowAgrees'
<1>0. /\ onHand \in Stock /\ inStock \in [Branches -> Stock] /\ reserved \in [Branches -> Stock]
      /\ Inv /\ NoBranch \in Branches
  BY DEF BookedInv, Inv, TypeInv, TypeOK, StoreTypeOK
<1>1. CASE UNCHANGED <<onHand, inStock, reserved>>
  BY <1>1 DEF RowAgrees
<1>a. ASSUME NEW o \in Orders PROVE OrderBranch[o] = NoBranch
  BY BranchAssumption
<1> DEFINE i == inStock[NoBranch]  v == reserved[NoBranch]
<1>b. i \in Stock /\ v \in Stock /\ \A p \in Products : onHand[p] = i[p] - v[p]
  BY <1>0 DEF RowAgrees
<1>2. ASSUME NEW o \in Orders, NEW fee, NEW mode \in {"hold", "deduct"}, CreateOrder(o, fee, mode)
      PROVE  RowAgrees'
  <2>1. /\ onHand' = Take(onHand, o, InOrder(o))
        /\ reserved' = IF mode = "hold" THEN [reserved EXCEPT ![NoBranch] = Plus(@, o, InOrder(o))]
                       ELSE reserved
        /\ inStock' = IF mode = "deduct"
                      THEN [inStock EXCEPT ![NoBranch] = MinusIfEnough(@, o, InOrder(o))] ELSE inStock
    BY <1>2, <1>a DEF CreateOrder
  <2>2. SUFFICES ASSUME NEW p \in Products
                 PROVE  onHand'[p] = inStock'[NoBranch][p] - reserved'[NoBranch][p]
    BY DEF RowAgrees
  <2>3. onHand[p] \in Nat /\ i[p] \in Nat /\ v[p] \in Nat /\ Qty[o][p] \in Nat
    BY <1>0, <1>b, QtyIsNat DEF Stock
  <2>4. Qty[o][p] <= onHand[p]
    BY <1>0, <1>2, <2>3, Placed
  <2>5. onHand'[p] = onHand[p] - Qty[o][p]
    BY <1>0, <2>1, <2>4, MinusLine
  <2>6. CASE mode = "hold"
    <3>1. reserved'[NoBranch] = Plus(v, o, InOrder(o)) /\ inStock' = inStock
      BY <1>0, <2>1, <2>6
    <3>2. reserved'[NoBranch][p] = v[p] + Qty[o][p]
      BY <1>b, <3>1, PlusLine
    <3> QED BY <1>b, <2>3, <2>5, <3>1, <3>2
  <2>7. CASE mode = "deduct"
    <3>1. inStock'[NoBranch] = MinusIfEnough(i, o, InOrder(o)) /\ reserved' = reserved
      BY <1>0, <2>1, <2>7
    <3>2. Qty[o][p] <= i[p]
      BY <1>b, <2>3, <2>4
    <3>3. inStock'[NoBranch][p] = i[p] - Qty[o][p]
      BY <1>b, <3>1, <3>2, MinusLine
    <3> QED BY <1>b, <2>3, <2>5, <3>1, <3>3
  <2> QED BY <2>6, <2>7
<1>3. ASSUME NEW o \in Orders, NEW to \in {"sold", "returned"}, Settles(o, to), NEW p \in Products
      PROVE  /\ Qty[o][p] <= v[p] /\ Qty[o][p] <= i[p]
             /\ onHand[p] \in Nat /\ i[p] \in Nat /\ v[p] \in Nat /\ Qty[o][p] \in Nat
  <2>1. o \in HeldAt(NoBranch)
    BY <1>0, <1>3, <1>a, SettledStage, HeldAreStaged
  <2>2. Qty[o][p] <= v[p]
    BY <1>a, <2>1, HeldIsReserved
  <2>3. onHand[p] \in Nat /\ i[p] \in Nat /\ v[p] \in Nat /\ Qty[o][p] \in Nat
    BY <1>0, <1>b, QtyIsNat DEF Stock
  <2>4. onHand[p] = i[p] - v[p]
    BY <1>b
  <2> QED BY <2>2, <2>3, <2>4
<1>4. ASSUME NEW o \in Orders, Settles(o, "sold"), DeductReserved(o) PROVE RowAgrees'
  <2>1. /\ inStock'[NoBranch] = Minus(i, o, InOrder(o)) /\ onHand' = onHand
        /\ reserved'[NoBranch] = Minus(v, o, InOrder(o))
    BY <1>0, <1>4, <1>a DEF DeductReserved
  <2>2. SUFFICES ASSUME NEW p \in Products
                 PROVE  onHand'[p] = inStock'[NoBranch][p] - reserved'[NoBranch][p]
    BY DEF RowAgrees
  <2>3. /\ inStock'[NoBranch][p] = i[p] - Qty[o][p]
        /\ reserved'[NoBranch][p] = v[p] - Qty[o][p]
    BY <1>3, <1>4, <1>b, <2>1, MinusLine
  <2> QED BY <1>3, <1>4, <1>b, <2>1, <2>3
<1>5. ASSUME NEW o \in Orders, Settles(o, "returned"), ReleaseReserved(o) PROVE RowAgrees'
  <2>1. /\ inStock' = inStock /\ onHand' = Plus(onHand, o, InOrder(o))
        /\ reserved'[NoBranch] = Minus(v, o, InOrder(o))
    BY <1>0, <1>5, <1>a DEF ReleaseReserved
  <2>2. SUFFICES ASSUME NEW p \in Products
                 PROVE  onHand'[p] = inStock'[NoBranch][p] - reserved'[NoBranch][p]
    BY DEF RowAgrees
  <2>3. /\ onHand'[p] = onHand[p] + Qty[o][p]
        /\ reserved'[NoBranch][p] = v[p] - Qty[o][p]
    BY <1>0, <1>3, <1>5, <1>b, <2>1, MinusLine, PlusLine
  <2> QED BY <1>3, <1>5, <1>b, <2>1, <2>3
<1> QED BY <1>1, <1>2, <1>4, <1>5 DEF GoodsStep

(* In a shop whose stock is one row that starts in step with stock_on_hand,   *)
(* the two stock ledgers never disagree: what may still be promised is what   *)
(* is in stock less what is reserved.  (With several rows a sale at one       *)
(* branch may be promised from another's goods; BranchSalesCounted.)          *)
THEOREM OneRowAgrees ==
  ASSUME Ops \subseteq {"storefront", "pos"}, Branches = {NoBranch},
         InitOnHand = InitInStock[NoBranch]
  PROVE  Spec => []LedgersAgree
<1> DEFINE I == BookedInv /\ RowAgrees
<1>1. Init => I
  <2> SUFFICES ASSUME Init PROVE I
    OBVIOUS
  <2>1. ASSUME NEW b \in Branches PROVE Booked(b)
    <3>1. HeldAt(b) = {}
      BY DEF Init, StoreInit, NoOrder, HeldAt, Held, OpenReservation
    <3>2. \A p \in Products : reserved[b][p] = 0
      BY DEF Init, StoreInit
    <3> QED BY <3>1, <3>2, SumEmpty, FS_EmptySet DEF Booked
  <2>2. RowAgrees
    BY StockAssumption DEF Init, StoreInit, RowAgrees, Stock
  <2> QED BY <2>1, <2>2, CheckoutInit DEF BookedInv
<1>2. I /\ [Next]_vars => I'
  BY CheckoutStep, GoodsBooked, GoodsAgree DEF BookedInv
<1>3. I => LedgersAgree
  <2> SUFFICES ASSUME I, NEW p \in Products
               PROVE  onHand[p] = SumFunctionOnSet([b \in Branches |-> inStock[b][p] - reserved[b][p]],
                                                   Branches)
    BY DEF LedgersAgree
  <2> DEFINE f == [b \in Branches |-> inStock[b][p] - reserved[b][p]]
  <2>1. inStock \in [Branches -> Stock] /\ reserved \in [Branches -> Stock]
    BY DEF BookedInv, Inv, TypeInv, TypeOK, StoreTypeOK
  <2>2. f \in [Branches -> Int] /\ f[NoBranch] = inStock[NoBranch][p] - reserved[NoBranch][p]
    BY <2>1 DEF Stock
  <2> HIDE DEF f
  <2>3. SumFunctionOnSet(f, Branches) = f[NoBranch]
    BY <2>2, OneRow
  <2> QED BY <2>2, <2>3 DEF RowAgrees, f
<1> HIDE DEF I
<1> QED BY <1>1, <1>2, <1>3, PTL DEF Spec
=============================================================================
