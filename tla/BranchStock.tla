------------------------------ MODULE BranchStock ------------------------------
(***************************************************************************)
(* One product in the branches: transfers between them, and goods received *)
(* from and sent back to suppliers (server/db.ts).  Each handler is one or *)
(* more PostgreSQL transactions.  A transaction is modelled by the row     *)
(* locks it takes, in the order it takes them, with what it reads under    *)
(* them, and by its COMMIT, which makes its writes and gives the locks     *)
(* back.                                                                   *)
(***************************************************************************)
EXTENDS Integers, FiniteSets, FiniteSetsExt, Functions

CONSTANTS Requests, Transfers, Branches,
          Purchases,    \* purchase orders, of one line each
          Kinds,        \* what requests do
          Global,       \* the row of stock_levels without a branch
          MaxQuantity, Ordered, MaxReceived, MaxFaults,   \* bounds
          NoOne

Places == Branches \cup {Global}
Rows == Transfers \cup Purchases \cup Places

AllKinds == {"transfer", "receive", "all", "recall", "delete", "patch"}

ASSUME StockAssumption ==
  /\ Kinds \subseteq AllKinds
  /\ {MaxQuantity, Ordered, MaxReceived, MaxFaults} \subseteq Nat
  /\ Global \notin Branches /\ NoOne \notin Requests
  /\ Transfers \cap (Purchases \cup Places) = {} /\ Purchases \cap Places = {}

VARIABLES stock,     \* quantity_in_stock
          rows,      \* the places with a row in stock_levels
          transfer,  \* stock_transfers
          order,     \* purchase_orders and their line
          net,       \* what movements say was received for a purchase order
          bought,    \* what movements say was received at a place
          lock, req, faults

tables == <<stock, rows, transfer, order, net, bought>>
vars == <<tables, lock, req, faults>>

Quantities == 1..MaxQuantity
Idle == [pc |-> "idle", kind |-> "none", of |-> NoOne, place |-> Global, qty |-> 0, delta |-> 0]

TypeOK ==
  /\ stock \in [Places -> Nat] /\ rows \subseteq Places
  /\ transfer \in [Transfers -> [status : {"none", "pending", "completed", "rejected"},
                                 from : Places, to : Places, qty : Nat]]
  /\ order \in [Purchases -> [status : {"open", "cancelled"}, deleted : BOOLEAN, received : Nat]]
  /\ net \in [Purchases -> Int] /\ bought \in [Places -> Nat]
  /\ lock \in [Rows -> Requests \cup {NoOne}]
  /\ faults \in 0..MaxFaults

Init ==
  /\ stock = [p \in Places |-> 0] /\ rows = {}
  /\ transfer = [t \in Transfers |-> [status |-> "none", from |-> Global, to |-> Global, qty |-> 0]]
  /\ order = [o \in Purchases |-> [status |-> "open", deleted |-> FALSE, received |-> 0]]
  /\ net = [o \in Purchases |-> 0] /\ bought = [p \in Places |-> 0]
  /\ lock = [l \in Rows |-> NoOne]
  /\ req = [r \in Requests |-> Idle] /\ faults = 0

At(r, pc) == req[r].pc = pc
Goes(r, pc) == req' = [req EXCEPT ![r].pc = pc]
Ends(r) == req' = [req EXCEPT ![r] = Idle]
Begins(r, kind, pc, o, p, q) ==
  /\ req[r].pc = "idle" /\ kind \in Kinds
  /\ req' = [req EXCEPT ![r] = [pc |-> pc, kind |-> kind, of |-> o, place |-> p,
                                qty |-> q, delta |-> 0]]

Takes(r, l) == lock[l] = NoOne /\ lock' = [lock EXCEPT ![l] = r]
GivesBack(r) == lock' = [l \in Rows |-> IF lock[l] = r THEN NoOne ELSE lock[l]]

-----------------------------------------------------------------------------
(* POST /api/stock-transfers *)
CreateTransfer(t) ==
  /\ transfer[t].status = "none"
  /\ \E from, to \in Branches, q \in Quantities :
       /\ from # to
       /\ transfer' = [transfer EXCEPT ![t] = [status |-> "pending", from |-> from, to |-> to,
                                              qty |-> q]]
  /\ UNCHANGED <<stock, rows, order, net, bought, lock, req>>

(* completeStockTransfer *)
ReadTransfer(r) ==
  /\ \E t \in Transfers : transfer[t].status # "none"
                          /\ Begins(r, "transfer", "transfer", t, transfer[t].to, transfer[t].qty)
  /\ UNCHANGED <<tables, lock>>

NotRejected(t) == transfer[t].status # "rejected"                              \* mutant
NotCompleted(t) == transfer[t].status # "completed"                            \* mutant
Pending(t) == transfer[t].status = "pending"

LockTransfer(r) ==
  LET t == req[r].of IN
  /\ At(r, "transfer") /\ lock[t] = NoOne
  /\ \/ Pending(t) /\ Takes(r, t) /\ Goes(r, "source")
     \/ ~Pending(t) /\ Ends(r) /\ GivesBack(r)
  /\ UNCHANGED tables

ReadsSource(r, p) == lock[p] = NoOne /\ UNCHANGED lock                         \* mutant
TakesSource(r, p) == Takes(r, p)

LockSource(r) ==
  LET t == req[r].of
      from == transfer[t].from
      enough == from \in rows /\ stock[from] >= transfer[t].qty
  IN /\ At(r, "source")
     /\ from \in rows => lock[from] = NoOne
     /\ \/ enough /\ TakesSource(r, from) /\ Goes(r, "dest")
        \/ ~enough /\ Ends(r) /\ GivesBack(r)
     /\ UNCHANGED tables

(* SELECT ... FOR UPDATE locks no row that is missing; the INSERT that follows fails *)
(* if another transaction has inserted the row meanwhile.                            *)
LockDestination(r) ==
  LET to == req[r].place IN
  /\ At(r, "dest")
  /\ \/ to \in rows /\ Takes(r, to) /\ Goes(r, "move")
     \/ to \notin rows /\ UNCHANGED lock /\ Goes(r, "insert")
  /\ UNCHANGED tables
InsertDestination(r) ==
  LET to == req[r].place IN
  /\ At(r, "insert") /\ lock[to] = NoOne
  /\ \/ to \notin rows /\ Takes(r, to) /\ Goes(r, "move")
     \/ to \in rows /\ Ends(r) /\ GivesBack(r)
  /\ UNCHANGED tables

CommitTransfer(r) ==
  LET t == req[r].of
      q == transfer[t].qty
  IN /\ At(r, "move")
     /\ stock' = [stock EXCEPT ![transfer[t].from] = @ - q, ![req[r].place] = @ + q]
     /\ rows' = rows \cup {req[r].place}
     /\ transfer' = [transfer EXCEPT ![t].status = "completed"]
     /\ Ends(r) /\ GivesBack(r)
     /\ UNCHANGED <<order, net, bought>>

(* rejectStockTransfer, one statement *)
RejectTransfer(t) ==
  /\ lock[t] = NoOne /\ Pending(t)
  /\ transfer' = [transfer EXCEPT ![t].status = "rejected"]
  /\ UNCHANGED <<stock, rows, order, net, bought, lock, req>>

-----------------------------------------------------------------------------
(* POST /api/purchases/items/:itemId/receive, and receive-all, which passes what it *)
(* found to be missing as the quantity received                                     *)
RequestReceive(r) ==
  /\ SumFunctionOnSet(bought, Places) < MaxReceived
  /\ \E o \in Purchases :
       \/ \E p \in Places, q \in Quantities : Begins(r, "receive", "item", o, p, q)
       \/ LET q == Max({Ordered - order[o].received, 0}) IN
          /\ order[o].status # "cancelled"
          /\ Begins(r, "all", IF q > 0 THEN "item" ELSE "status", o, Global, q)
  /\ UNCHANGED <<tables, lock>>

Received(r) == IF req[r].kind = "all" THEN Goes(r, "status") ELSE Ends(r)

ReadsItem(r, o) == lock[o] = NoOne /\ UNCHANGED lock                           \* mutant
TakesItem(r, o) == Takes(r, o)

LockItem(r) ==
  LET o == req[r].of IN
  /\ At(r, "item") /\ TakesItem(r, o)
  /\ req' = [req EXCEPT ![r].pc = "level", ![r].delta = req[r].qty - order[o].received]
  /\ UNCHANGED tables

(* The upsert of the stock row waits for the row, or for its key. *)
LockLevel(r) ==
  /\ At(r, "level")
  /\ IF req[r].delta > 0 THEN Takes(r, req[r].place) ELSE UNCHANGED lock
  /\ Goes(r, "receive") /\ UNCHANGED tables

CommitReceive(r) ==
  LET o == req[r].of
      p == req[r].place
      delta == Max({req[r].delta, 0})
  IN /\ At(r, "receive")
     /\ order' = [order EXCEPT ![o].received = req[r].qty]
     /\ net' = [net EXCEPT ![o] = @ + delta]
     /\ stock' = [stock EXCEPT ![p] = @ + delta] /\ bought' = [bought EXCEPT ![p] = @ + delta]
     /\ rows' = IF delta > 0 THEN rows \cup {p} ELSE rows
     /\ Received(r) /\ GivesBack(r)
     /\ UNCHANGED transfer

-----------------------------------------------------------------------------
(* recallPurchaseOrder and DELETE /api/purchases/:id.  Bound: one at a time. *)
RequestReverse(r) ==
  /\ \A u \in Requests : req[u].kind \notin {"recall", "delete"}
  /\ \E o \in Purchases :
       \/ ~order[o].deleted /\ Begins(r, "recall", "read", o, Global, 0)
       \/ Begins(r, "delete", "read", o, Global, 0)
  /\ UNCHANGED <<tables, lock>>

(* reversePurchaseOrderReceive reads the lines without a lock. *)
ReadReceived(r) ==
  LET q == order[req[r].of].received IN
  /\ At(r, "read")
  /\ IF q > 0 THEN req' = [req EXCEPT ![r].pc = "global", ![r].qty = q]
     ELSE IF req[r].kind = "recall" THEN Ends(r) ELSE Goes(r, "delete")
  /\ UNCHANGED <<tables, lock>>
LockGlobal(r) ==
  /\ At(r, "global")
  /\ IF Global \in rows THEN Takes(r, Global) ELSE UNCHANGED lock
  /\ Goes(r, "reset") /\ UNCHANGED tables
LockReset(r) ==
  /\ At(r, "reset") /\ Takes(r, req[r].of) /\ Goes(r, "reverse") /\ UNCHANGED tables

CommitReverse(r) ==
  LET o == req[r].of
      q == req[r].qty
  IN /\ At(r, "reverse")
     /\ stock' = IF lock[Global] = r THEN [stock EXCEPT ![Global] = Max({@ - q, 0})] ELSE stock
     /\ net' = [net EXCEPT ![o] = @ - q]
     /\ order' = [order EXCEPT ![o].received = 0]
     /\ Goes(r, "status") /\ GivesBack(r)
     /\ UNCHANGED <<rows, transfer, bought>>

(* updatePurchaseOrderStatus after a receive-all or a reversal, and softDelete *)
SetStatus(r) ==
  /\ At(r, "status")
  /\ order' = [order EXCEPT ![req[r].of].status = IF req[r].qty > 0 \/ req[r].kind = "all"
                                                  THEN "open" ELSE @]
  /\ IF req[r].kind = "delete" THEN Goes(r, "delete") ELSE Ends(r)
  /\ UNCHANGED <<stock, rows, transfer, net, bought, lock>>
SoftDelete(r) ==
  /\ At(r, "delete") /\ order' = [order EXCEPT ![req[r].of].deleted = TRUE] /\ Ends(r)
  /\ UNCHANGED <<stock, rows, transfer, net, bought, lock>>
PatchOrder(o) ==
  /\ "patch" \in Kinds
  /\ \/ \E s \in {"open", "cancelled"} : order' = [order EXCEPT ![o].status = s]
     \/ order' = [order EXCEPT ![o].deleted = FALSE]
  /\ UNCHANGED <<stock, rows, transfer, net, bought, lock, req>>
-----------------------------------------------------------------------------
(* ROLLBACK: after an error or a lost connection, or as the victim PostgreSQL picks *)
(* among transactions that wait for each other.                                     *)
Rollback(r) == Ends(r) /\ GivesBack(r) /\ UNCHANGED tables

WaitsFor(r) ==
  CASE At(r, "transfer") \/ At(r, "item") \/ At(r, "reset") -> {req[r].of}
    [] At(r, "source") -> {transfer[req[r].of].from} \cap rows
    [] At(r, "dest") -> {req[r].place} \cap rows
    [] At(r, "insert") -> {req[r].place}
    [] At(r, "level") -> IF req[r].delta > 0 THEN {req[r].place} ELSE {}
    [] At(r, "global") -> {Global} \cap rows
    [] OTHER -> {}
Deadlocked(S) == \A r \in S : \E l \in WaitsFor(r) : lock[l] \in S
DeadlockVictim(r) == (\E S \in SUBSET Requests : r \in S /\ Deadlocked(S)) /\ Rollback(r)

Fail(r) ==
  /\ req[r].pc # "idle" /\ faults < MaxFaults /\ faults' = faults + 1
  /\ Rollback(r)

Starts(r) == ReadTransfer(r) \/ RequestReceive(r) \/ RequestReverse(r)
Step(r) ==
  \/ LockTransfer(r) \/ LockSource(r) \/ LockDestination(r) \/ InsertDestination(r)
  \/ CommitTransfer(r) \/ LockItem(r) \/ LockLevel(r) \/ CommitReceive(r)
  \/ ReadReceived(r) \/ LockGlobal(r) \/ LockReset(r) \/ CommitReverse(r)
  \/ SetStatus(r) \/ SoftDelete(r) \/ DeadlockVictim(r)

Next ==
  \/ \E r \in Requests : (Starts(r) \/ Step(r)) /\ UNCHANGED faults
  \/ \E r \in Requests : Fail(r)
  \/ \E t \in Transfers : (CreateTransfer(t) \/ RejectTransfer(t)) /\ UNCHANGED faults
  \/ \E o \in Purchases : PatchOrder(o) /\ UNCHANGED faults

Spec == Init /\ [][Next]_vars

(* PostgreSQL serves the transactions that wait for a row in the order they came, and *)
(* ends one of those that wait for each other; a handler that got its rows goes on.   *)
FairSpec == Spec /\ \A r \in Requests : SF_vars(Step(r) /\ UNCHANGED faults)

-----------------------------------------------------------------------------
(* A branch has what was received there, and what the completed transfers moved, *)
(* each of them once: completions that overlap, rejections, deadlocks and errors *)
(* neither lose nor double goods.                                                *)
Sum(T) == SumFunctionOnSet([t \in Transfers |-> transfer[t].qty], T)
Completed == {t \in Transfers : transfer[t].status = "completed"}
BranchLedger ==
  \A b \in Branches :
    stock[b] = bought[b] + Sum({t \in Completed : transfer[t].to = b})
                         - Sum({t \in Completed : transfer[t].from = b})

(* "Concurrent receives cannot lose stock": what a line shows as received went   *)
(* into the stock, whatever receipts and a reversal overlap.                     *)
ReceivedIsStocked == \A o \in Purchases : order[o].received <= net[o]

(* A transfer that was rejected moves no goods and one that was completed is not *)
(* taken back, though the request that completes it, the one that repeats it and  *)
(* the rejection all found it pending on their screens.                           *)
DecidedIsFinal ==
  [][\A t \in Transfers : transfer[t].status \in {"completed", "rejected"} =>
                             transfer'[t].status = transfer[t].status]_vars

(* Opposite transfers, and a receipt and its reversal, lock the same rows in      *)
(* opposite orders: whoever waits, every request comes to its end, by COMMIT or   *)
(* by a ROLLBACK that lets the others go on.                                      *)
RequestsEnd == \A r \in Requests : req[r].pc # "idle" ~> req[r].pc = "idle"
==============================================================================
