------------------------------ MODULE StockProofs ------------------------------
(***************************************************************************)
(* What holds of BranchStock for any requests, transfers, branches and     *)
(* purchase orders.  By IInv, stock is never negative and what was         *)
(* received was stocked; by LedgerInv, which adds that a locked transfer   *)
(* is pending until its request completes it, a branch has what receipts   *)
(* and completed transfers say, and a decided transfer stays decided.      *)
(***************************************************************************)
EXTENDS BranchStock, SumFacts, TLAPS

Pcs == {"idle", "transfer", "source", "dest", "insert", "move", "item", "level", "receive",
        "read", "global", "reset", "reverse", "status", "delete"}
Request == [pc : Pcs, kind : {"none", "transfer", "receive", "all", "recall", "delete"},
            of : Transfers \cup Purchases \cup {NoOne}, place : Places, qty : Nat, delta : Int]
ReqTypeOK == req \in [Requests -> Request]

(* Created transfers go from one branch to another.                          *)
Endpoints ==
  \A t \in Transfers : transfer[t].status # "none" =>
    /\ transfer[t].from \in Branches /\ transfer[t].to \in Branches
    /\ transfer[t].from # transfer[t].to

(* A transfer that found enough goods keeps them until it commits.           *)
TransferHeld(r) ==
  LET t == req[r].of IN
  /\ req[r].pc \in {"transfer", "source", "dest", "insert", "move"} =>
       t \in Transfers /\ transfer[t].status # "none" /\ req[r].place = transfer[t].to
  /\ req[r].pc \in {"dest", "insert", "move"} =>
       lock[transfer[t].from] = r /\ transfer[t].qty <= stock[transfer[t].from]
TransfersHeld == \A r \in Requests : TransferHeld(r)

(* The line a receipt read under its lock is as it was read; what a reversal *)
(* read is no more than the movements say.                                   *)
PurchaseHeld(r) ==
  LET o == req[r].of IN
  /\ req[r].pc \in {"item", "level", "receive", "read", "global", "reset", "reverse",
                     "status", "delete"} => o \in Purchases
  /\ req[r].pc \in {"level", "receive"} =>
       lock[o] = r /\ req[r].delta = req[r].qty - order[o].received
  /\ req[r].pc \in {"read", "global", "reset", "reverse"} => req[r].kind \in {"recall", "delete"}
  /\ req[r].pc \in {"global", "reset", "reverse"} => req[r].qty <= net[o]
  /\ req[r].pc = "reverse" => lock[o] = r
PurchasesHeld == \A r \in Requests : PurchaseHeld(r)

OneReversal ==
  \A r, u \in Requests :
    req[r].kind \in {"recall", "delete"} /\ req[u].kind \in {"recall", "delete"} => r = u

(* Only a transaction under way holds locks.                                 *)
InTransaction == {"source", "dest", "insert", "move", "level", "receive", "reset", "reverse"}
LocksOwned == \A l \in Rows : lock[l] # NoOne => req[lock[l]].pc \in InTransaction

IInv == /\ TypeOK /\ ReqTypeOK /\ Endpoints /\ TransfersHeld /\ PurchasesHeld
        /\ OneReversal /\ ReceivedIsStocked /\ LocksOwned

LEMMA MaxIsFloor ==
  ASSUME NEW n \in Int
  PROVE  Max({n, 0}) \in Nat /\ Max({n, 0}) >= n
<1>1. \E x \in {n, 0} : \A y \in {n, 0} : x >= y
  <2>1. n >= 0 \/ 0 >= n
    OBVIOUS
  <2>2. QED BY <2>1
<1>2. Max({n, 0}) \in {n, 0} /\ \A y \in {n, 0} : Max({n, 0}) >= y
  BY <1>1 DEF Max
<1>3. QED BY <1>2

-----------------------------------------------------------------------------
(* What a step of request r does to the requests and the locks.              *)
Reversing(k) == k \in {"recall", "delete"}
Moves(r) ==
  /\ \E n \in Request : req' = [req EXCEPT ![r] = n]
  /\ lock' \in [Rows -> Requests \cup {NoOne}]
  /\ \A l \in Rows : lock'[l] # lock[l] => lock[l] \in {r, NoOne} /\ lock'[l] \in {r, NoOne}
  /\ \A l \in Rows : lock'[l] = r => req'[r].pc \in InTransaction
  /\ Reversing(req'[r].kind) =>
       Reversing(req[r].kind) \/ \A u \in Requests : ~Reversing(req[u].kind)

LEMMA MovesKeep ==
  ASSUME IInv, NEW r \in Requests, Moves(r)
  PROVE  ReqTypeOK' /\ LocksOwned' /\ OneReversal'
<1> USE StockAssumption DEF IInv, Moves
<1>1. ReqTypeOK'
  BY DEF ReqTypeOK
<1>2. \A u \in Requests \ {r} : req'[u] = req[u]
  BY DEF ReqTypeOK
<1>3. LocksOwned'
  BY <1>2 DEF LocksOwned, TypeOK
<1>4. OneReversal'
  BY <1>2 DEF OneReversal, Reversing
<1> QED BY <1>1, <1>3, <1>4

(* A step that moves no goods keeps the invariant, as far as r itself does.  *)
LEMMA NoGoodsMoved ==
  ASSUME IInv, NEW r \in Requests, Moves(r), faults' \in 0..MaxFaults,
         UNCHANGED <<stock, rows, transfer, net, bought>>, TypeOK',
         \A o \in Purchases : order'[o].received = order[o].received,
         TransferHeld(r)', PurchaseHeld(r)'
  PROVE  IInv'
<1> USE StockAssumption DEF IInv
<1>1. ReqTypeOK' /\ LocksOwned' /\ OneReversal'
  BY MovesKeep
<1>2. \A u \in Requests \ {r} : req'[u] = req[u]
  BY DEF ReqTypeOK, Moves
<1>3. Endpoints' /\ ReceivedIsStocked'
  BY DEF Endpoints, ReceivedIsStocked
<1>4. ASSUME NEW u \in Requests, u # r PROVE TransferHeld(u)'
  <2>1. req'[u] = req[u] /\ TransferHeld(u)
    BY <1>2, <1>4 DEF TransfersHeld
  <2>2. \A l \in Rows : lock[l] = u => lock'[l] = u
    BY <1>4 DEF Moves
  <2>3. QED BY <2>1, <2>2 DEF TransferHeld, TypeOK, Rows
<1>5. ASSUME NEW u \in Requests, u # r PROVE PurchaseHeld(u)'
  <2>1. req'[u] = req[u] /\ PurchaseHeld(u)
    BY <1>2, <1>5 DEF PurchasesHeld
  <2>2. \A l \in Rows : lock[l] = u => lock'[l] = u
    BY <1>5 DEF Moves
  <2>3. QED BY <2>1, <2>2 DEF PurchaseHeld, Rows
<1> QED BY <1>1, <1>3, <1>4, <1>5 DEF TransfersHeld, PurchasesHeld

LEMMA Starting ==
  ASSUME IInv, NEW r \in Requests, NEW kind, NEW pc, NEW o, NEW p, NEW q,
         Begins(r, kind, pc, o, p, q), UNCHANGED lock,
         [pc |-> pc, kind |-> kind, of |-> o, place |-> p, qty |-> q, delta |-> 0] \in Request,
         Reversing(kind) => \A u \in Requests : ~Reversing(req[u].kind)
  PROVE  /\ Moves(r)
         /\ req'[r] = [pc |-> pc, kind |-> kind, of |-> o, place |-> p, qty |-> q, delta |-> 0]
<1> DEFINE n == [pc |-> pc, kind |-> kind, of |-> o, place |-> p, qty |-> q, delta |-> 0]
<1>1. req' = [req EXCEPT ![r] = n] /\ req[r].pc = "idle"
  BY DEF Begins
<1>2. req'[r] = n
  BY <1>1 DEF IInv, ReqTypeOK
<1>3. \A l \in Rows : lock[l] # r
  BY <1>1, StockAssumption DEF IInv, LocksOwned, InTransaction
<1>4. req'[r].kind = kind
  BY <1>2
<1> QED BY <1>1, <1>2, <1>3, <1>4 DEF Moves, IInv, TypeOK

LEMMA Going ==
  ASSUME IInv, NEW r \in Requests, NEW pc \in Pcs, Goes(r, pc)
  PROVE  /\ \E n \in Request : req' = [req EXCEPT ![r] = n]
         /\ req'[r].pc = pc /\ req'[r].kind = req[r].kind /\ req'[r].of = req[r].of
         /\ req'[r].place = req[r].place /\ req'[r].qty = req[r].qty
         /\ req'[r].delta = req[r].delta
<1> DEFINE n == [req[r] EXCEPT !.pc = pc]
<1>1. req[r] \in Request
  BY DEF IInv, ReqTypeOK
<1>2. /\ n \in Request /\ n.pc = pc /\ n.kind = req[r].kind /\ n.of = req[r].of
      /\ n.place = req[r].place /\ n.qty = req[r].qty /\ n.delta = req[r].delta
  BY <1>1 DEF Request
<1>3. req' = [req EXCEPT ![r] = n] /\ req'[r] = n
  BY DEF Goes, IInv, ReqTypeOK
<1> QED BY <1>2, <1>3

LEMMA Ending ==
  ASSUME IInv, NEW r \in Requests, Ends(r)
  PROVE  /\ req' = [req EXCEPT ![r] = Idle] /\ req'[r] = Idle /\ Idle \in Request
         /\ \A u \in Requests \ {r} : req'[u] = req[u]
BY DEF IInv, ReqTypeOK, Ends, Request, Idle, Pcs, Places

LEMMA IdleHeld ==
  ASSUME NEW r \in Requests, req'[r] = Idle
  PROVE  TransferHeld(r)' /\ PurchaseHeld(r)'
BY DEF Idle, TransferHeld, PurchaseHeld

LEMMA LocksTyped ==
  ASSUME IInv, NEW r \in Requests,
         UNCHANGED lock \/ GivesBack(r) \/ \E l \in Rows : Takes(r, l)
  PROVE  /\ lock' \in [Rows -> Requests \cup {NoOne}]
         /\ \A l \in Rows : lock'[l] # lock[l] => lock[l] \in {r, NoOne} /\ lock'[l] \in {r, NoOne}
BY DEF IInv, TypeOK, GivesBack, Takes

(* A rollback, or a COMMIT that changes nothing, ends r.                     *)
LEMMA RollbackKeeps ==
  ASSUME IInv, NEW r \in Requests, Rollback(r), faults' \in 0..MaxFaults
  PROVE  IInv'
<1>1. Ends(r) /\ GivesBack(r) /\ UNCHANGED tables
  BY DEF Rollback
<1>2. Moves(r)
  BY <1>1, Ending, LocksTyped, StockAssumption DEF Moves, GivesBack, Idle, Reversing
<1>3. TypeOK'
  BY <1>1, LocksTyped DEF IInv, TypeOK, tables
<1> QED BY <1>1, <1>2, <1>3, Ending, IdleHeld, NoGoodsMoved DEF tables

(* A transaction that takes a lock, or waits for none, and goes on.          *)
LEMMA ProceedKeeps ==
  ASSUME IInv, NEW r \in Requests, NEW pc \in Pcs, Goes(r, pc), UNCHANGED tables,
         UNCHANGED lock \/ \E l \in Rows : Takes(r, l),
         pc \in InTransaction \/ (UNCHANGED lock /\ req[r].pc \notin InTransaction),
         TransferHeld(r)', PurchaseHeld(r)', faults' \in 0..MaxFaults
  PROVE  IInv'
<1>1. Moves(r)
  <2>1. \A l \in Rows : lock'[l] = r => req'[r].pc \in InTransaction
    BY Going, StockAssumption DEF IInv, LocksOwned
  <2>2. ~Reversing(req'[r].kind) \/ Reversing(req[r].kind)
    BY Going
  <2>3. QED BY <2>1, <2>2, Going, LocksTyped DEF Moves
<1>2. TypeOK'
  BY LocksTyped DEF IInv, TypeOK, tables
<1> QED BY <1>1, <1>2, NoGoodsMoved DEF tables

-----------------------------------------------------------------------------
(* Transfers                                                                 *)
LEMMA ReadTransferKeeps ==
  ASSUME IInv, NEW r \in Requests, ReadTransfer(r), faults' \in 0..MaxFaults
  PROVE  IInv'
<1>1. PICK t \in Transfers :
        transfer[t].status # "none"
        /\ Begins(r, "transfer", "transfer", t, transfer[t].to, transfer[t].qty)
  BY DEF ReadTransfer
<1>2. [pc |-> "transfer", kind |-> "transfer", of |-> t, place |-> transfer[t].to,
       qty |-> transfer[t].qty, delta |-> 0] \in Request
  BY DEF IInv, TypeOK, Request, Pcs, Places
<1>3. UNCHANGED <<tables, lock>>
  BY DEF ReadTransfer
<1>4. /\ Moves(r)
      /\ req'[r] = [pc |-> "transfer", kind |-> "transfer", of |-> t, place |-> transfer[t].to,
                    qty |-> transfer[t].qty, delta |-> 0]
  BY <1>1, <1>2, <1>3, Starting DEF Reversing
<1>5. TransferHeld(r)' /\ PurchaseHeld(r)'
  BY <1>1, <1>3, <1>4 DEF TransferHeld, PurchaseHeld, tables
<1>6. TypeOK'
  BY <1>3 DEF IInv, TypeOK, tables
<1> QED BY <1>3, <1>4, <1>5, <1>6, NoGoodsMoved DEF tables

LEMMA LockTransferKeeps ==
  ASSUME IInv, NEW r \in Requests, LockTransfer(r), faults' \in 0..MaxFaults
  PROVE  IInv'
<1> DEFINE t == req[r].of
<1>1. req[r].pc = "transfer" /\ UNCHANGED tables
  BY DEF LockTransfer, At
<1>2. TransferHeld(r)
  BY DEF IInv, TransfersHeld
<1>3. CASE Takes(r, t) /\ Goes(r, "source")
  <2>1. /\ req'[r].pc = "source" /\ req'[r].of = t /\ req'[r].place = req[r].place
        /\ "source" \in Pcs
    BY <1>3, Going DEF Pcs
  <2>2. TransferHeld(r)' /\ PurchaseHeld(r)'
    BY <1>1, <1>2, <2>1 DEF TransferHeld, PurchaseHeld, tables
  <2>3. QED BY <1>1, <1>2, <1>3, <2>1, <2>2, ProceedKeeps DEF InTransaction, TransferHeld, Rows
<1>4. CASE Ends(r) /\ GivesBack(r)
  BY <1>1, <1>4, RollbackKeeps DEF Rollback
<1> QED BY <1>3, <1>4 DEF LockTransfer

LEMMA LockSourceKeeps ==
  ASSUME IInv, NEW r \in Requests, LockSource(r), faults' \in 0..MaxFaults
  PROVE  IInv'
<1> DEFINE t == req[r].of
           from == transfer[t].from
<1>1. req[r].pc = "source" /\ UNCHANGED tables
  BY DEF LockSource, At
<1>2. TransferHeld(r)
  BY DEF IInv, TransfersHeld
<1>3. CASE stock[from] >= transfer[t].qty /\ Takes(r, from) /\ Goes(r, "dest")
  <2>1. /\ req'[r].pc = "dest" /\ req'[r].of = t /\ req'[r].place = req[r].place
        /\ "dest" \in Pcs
    BY <1>3, Going DEF Pcs
  <2>2. t \in Transfers /\ from \in Places /\ transfer[t].qty \in Nat /\ stock[from] \in Nat
    BY <1>1, <1>2 DEF TransferHeld, IInv, TypeOK
  <2>3. lock'[from] = r
    BY <1>3, <2>2 DEF Takes, IInv, TypeOK, Rows
  <2>4. TransferHeld(r)'
    BY <1>1, <1>2, <1>3, <2>1, <2>2, <2>3 DEF TransferHeld, tables
  <2>5. PurchaseHeld(r)'
    BY <2>1 DEF PurchaseHeld
  <2>6. QED BY <1>1, <1>3, <2>1, <2>2, <2>4, <2>5, ProceedKeeps DEF InTransaction, Rows
<1>4. CASE Ends(r) /\ GivesBack(r)
  BY <1>1, <1>4, RollbackKeeps DEF Rollback
<1> QED BY <1>3, <1>4 DEF LockSource, TakesSource

(* The destination's row or key is taken, or there is no row to take.        *)
LEMMA TowardsMove ==
  ASSUME IInv, NEW r \in Requests, req[r].pc \in {"dest", "insert"}, UNCHANGED tables,
         NEW pc \in {"insert", "move"}, Goes(r, pc),
         UNCHANGED lock \/ Takes(r, req[r].place), faults' \in 0..MaxFaults
  PROVE  IInv'
<1>1. TransferHeld(r) /\ req[r].place \in Rows
  BY DEF IInv, TransfersHeld, ReqTypeOK, Request, Rows
<1>2. req'[r].pc = pc /\ req'[r].of = req[r].of /\ req'[r].place = req[r].place /\ pc \in Pcs
  BY Going DEF Pcs
<1>3. \A l \in Rows : lock[l] = r => lock'[l] = r
  BY <1>1 DEF Takes, IInv, TypeOK
<1>4. TransferHeld(r)'
  BY <1>1, <1>2, <1>3 DEF TransferHeld, IInv, tables, TypeOK, Rows
<1>5. PurchaseHeld(r)'
  BY <1>2 DEF PurchaseHeld
<1> QED BY <1>1, <1>2, <1>4, <1>5, ProceedKeeps DEF InTransaction

LEMMA DestinationKeeps ==
  ASSUME IInv, NEW r \in Requests, LockDestination(r) \/ InsertDestination(r),
         faults' \in 0..MaxFaults
  PROVE  IInv'
<1>1. CASE LockDestination(r)
  BY <1>1, TowardsMove DEF LockDestination, At
<1>2. CASE InsertDestination(r)
  BY <1>2, TowardsMove, RollbackKeeps DEF InsertDestination, At, Rollback
<1> QED BY <1>1, <1>2

LEMMA CommitTransferKeeps ==
  ASSUME IInv, NEW r \in Requests, CommitTransfer(r), faults' \in 0..MaxFaults
  PROVE  IInv'
<1> DEFINE t == req[r].of
           q == transfer[t].qty
           from == transfer[t].from
           to == req[r].place
<1>1. /\ req[r].pc = "move" /\ Ends(r) /\ GivesBack(r) /\ UNCHANGED <<order, net, bought>>
      /\ stock' = [stock EXCEPT ![from] = @ - q, ![to] = @ + q]
      /\ rows' = rows \cup {to} /\ transfer' = [transfer EXCEPT ![t].status = "completed"]
  BY DEF CommitTransfer, At
<1>2. /\ t \in Transfers /\ transfer[t].status # "none" /\ to = transfer[t].to
      /\ lock[from] = r /\ q <= stock[from]
  BY <1>1 DEF IInv, TransfersHeld, TransferHeld
<1>3. from \in Branches /\ to \in Branches /\ from # to /\ q \in Nat
  BY <1>2 DEF IInv, Endpoints, TypeOK
<1>4. from \in Places /\ to \in Places /\ stock \in [Places -> Nat]
  BY <1>3 DEF Places, IInv, TypeOK
<1>5. /\ stock'[from] = stock[from] - q /\ stock'[to] = stock[to] + q
      /\ \A p \in Places \ {from, to} : stock'[p] = stock[p]
      /\ stock' \in [Places -> Nat]
  <2>1. stock[from] - q \in Nat /\ stock[to] + q \in Nat
    BY <1>2, <1>3, <1>4
  <2>2. stock'[from] = stock[from] - q /\ stock'[to] = stock[to] + q
    BY <1>1, <1>3, <1>4
  <2>3. QED BY <1>1, <1>3, <1>4, <2>1, <2>2
<1>6. Moves(r)
  BY <1>1, Ending, LocksTyped, StockAssumption DEF Moves, GivesBack, Idle, Reversing
<1>7. TypeOK'
  <2>1. transfer' \in [Transfers -> [status : {"none", "pending", "completed", "rejected"},
                                     from : Places, to : Places, qty : Nat]]
    BY <1>1, <1>2 DEF IInv, TypeOK
  <2>2. rows' \subseteq Places
    BY <1>1, <1>4 DEF IInv, TypeOK
  <2>3. QED BY <1>1, <1>5, <2>1, <2>2, LocksTyped DEF IInv, TypeOK
<1>8. ReqTypeOK' /\ LocksOwned' /\ OneReversal'
  BY <1>6, MovesKeep
<1>9. \A u \in Transfers : /\ transfer'[u].from = transfer[u].from
                           /\ transfer'[u].to = transfer[u].to /\ transfer'[u].qty = transfer[u].qty
                           /\ transfer[u].status # "none" => transfer'[u].status # "none"
                           /\ transfer'[u].status # "none" => transfer[u].status # "none"
  BY <1>1, <1>2 DEF IInv, TypeOK
<1>10. Endpoints' /\ ReceivedIsStocked'
  BY <1>1, <1>9 DEF IInv, Endpoints, ReceivedIsStocked
<1>11. ASSUME NEW u \in Requests, u # r PROVE TransferHeld(u)' /\ PurchaseHeld(u)'
  <2>1. req'[u] = req[u] /\ TransferHeld(u) /\ PurchaseHeld(u)
    BY <1>1, <1>11, Ending DEF IInv, TransfersHeld, PurchasesHeld
  <2>2. \A l \in Rows : lock[l] = u => lock'[l] = u
    BY <1>6, <1>11, StockAssumption DEF Moves
  <2>3. \A p \in Places : lock[p] = u => stock[p] <= stock'[p]
    <3>1. ASSUME NEW p \in Places, lock[p] = u PROVE stock[p] <= stock'[p]
      <4>1. stock[p] \in Nat /\ p # from
        BY <1>2, <1>4, <1>11, <3>1
      <4>2. stock'[p] = stock[p] \/ stock'[p] = stock[p] + q
        BY <1>5, <4>1
      <4>3. QED BY <1>3, <4>1, <4>2
    <3>2. QED BY <3>1
  <2>4. TransferHeld(u)'
    <3> DEFINE v == req[u].of
    <3>1. CASE req[u].pc \in {"dest", "insert", "move"}
      <4>1. v \in Transfers /\ transfer[v].from \in Places /\ lock[transfer[v].from] = u
            /\ transfer[v].qty <= stock[transfer[v].from]
        BY <2>1, <3>1 DEF TransferHeld, IInv, TypeOK
      <4>2. lock'[transfer[v].from] = u /\ transfer[v].qty <= stock'[transfer[v].from]
        BY <2>2, <2>3, <4>1, <1>4, <1>5 DEF IInv, TypeOK, Rows
      <4>3. QED BY <1>9, <2>1, <3>1, <4>1, <4>2 DEF TransferHeld
    <3>2. CASE req[u].pc \notin {"dest", "insert", "move"}
      BY <1>9, <2>1, <3>2 DEF TransferHeld
    <3>3. QED BY <3>1, <3>2
  <2>5. PurchaseHeld(u)'
    BY <1>1, <2>1, <2>2 DEF PurchaseHeld, Rows
  <2>6. QED BY <2>4, <2>5
<1>12. TransferHeld(r)' /\ PurchaseHeld(r)'
  BY <1>1, Ending, IdleHeld
<1> QED BY <1>7, <1>8, <1>10, <1>11, <1>12 DEF IInv, TransfersHeld, PurchasesHeld

LEMMA CreateOrRejectKeeps ==
  ASSUME IInv, NEW t \in Transfers, CreateTransfer(t) \/ RejectTransfer(t),
         faults' \in 0..MaxFaults
  PROVE  IInv'
<1>1. /\ UNCHANGED <<stock, rows, order, net, bought, lock, req>>
      /\ \A u \in Transfers \ {t} : transfer'[u] = transfer[u]
  BY DEF CreateTransfer, RejectTransfer, IInv, TypeOK
<1>2. transfer' \in [Transfers -> [status : {"none", "pending", "completed", "rejected"},
                                   from : Places, to : Places, qty : Nat]]
  <2>1. CASE RejectTransfer(t)
    BY <2>1 DEF RejectTransfer, IInv, TypeOK
  <2>2. CASE CreateTransfer(t)
    <3>1. PICK from \in Branches, to \in Branches, q \in Quantities :
            transfer' = [transfer EXCEPT ![t] = [status |-> "pending", from |-> from, to |-> to,
                                                 qty |-> q]]
      BY <2>2 DEF CreateTransfer
    <3>2. q \in Nat /\ from \in Places /\ to \in Places
      BY StockAssumption DEF Quantities, Places
    <3>3. QED BY <3>1, <3>2 DEF IInv, TypeOK
  <2>3. QED BY <2>1, <2>2
<1>3. transfer[t].status = "none" \/
        (/\ transfer[t].status # "none" /\ transfer'[t].status = "rejected"
         /\ transfer'[t].from = transfer[t].from /\ transfer'[t].to = transfer[t].to
         /\ transfer'[t].qty = transfer[t].qty)
  BY DEF CreateTransfer, RejectTransfer, Pending, IInv, TypeOK
<1>4. transfer[t].status = "none" => /\ transfer'[t].from \in Branches
                                     /\ transfer'[t].to \in Branches
                                     /\ transfer'[t].from # transfer'[t].to
  BY DEF CreateTransfer, RejectTransfer, Pending, IInv, TypeOK
<1>5. Endpoints'
  BY <1>1, <1>3, <1>4 DEF IInv, Endpoints
<1>6. TransfersHeld'
  BY <1>1, <1>3 DEF IInv, TransfersHeld, TransferHeld
<1>7. PurchasesHeld' /\ OneReversal' /\ ReceivedIsStocked' /\ LocksOwned' /\ ReqTypeOK'
  BY <1>1 DEF IInv, PurchasesHeld, PurchaseHeld, OneReversal, ReceivedIsStocked, LocksOwned,
              ReqTypeOK
<1>8. TypeOK'
  BY <1>1, <1>2 DEF IInv, TypeOK
<1> QED BY <1>5, <1>6, <1>7, <1>8 DEF IInv

-----------------------------------------------------------------------------
(* Purchase orders                                                           *)
LEMMA RequestPurchaseKeeps ==
  ASSUME IInv, NEW r \in Requests, RequestReceive(r) \/ RequestReverse(r),
         faults' \in 0..MaxFaults
  PROVE  IInv'
<1>1. UNCHANGED <<tables, lock>>
  BY DEF RequestReceive, RequestReverse
<1>2. PICK o \in Purchases, p \in Places, q \in Nat,
           kind \in {"receive", "all", "recall", "delete"}, pc \in {"item", "status", "read"} :
        /\ Begins(r, kind, pc, o, p, q)
        /\ pc = "item" => kind \in {"receive", "all"}
        /\ pc = "read" => kind \in {"recall", "delete"}
        /\ Reversing(kind) => \A u \in Requests : ~Reversing(req[u].kind)
  <2>1. CASE RequestReverse(r)
    BY <2>1 DEF RequestReverse, Reversing, Places
  <2>2. CASE RequestReceive(r)
    <3>1. PICK o \in Purchases :
            \/ \E p \in Places, q \in Quantities : Begins(r, "receive", "item", o, p, q)
            \/ LET q == Max({Ordered - order[o].received, 0})
               IN  Begins(r, "all", IF q > 0 THEN "item" ELSE "status", o, Global, q)
      BY <2>2 DEF RequestReceive
    <3>2. Max({Ordered - order[o].received, 0}) \in Nat
      BY MaxIsFloor, StockAssumption DEF IInv, TypeOK
    <3>3. QED BY <3>1, <3>2, StockAssumption DEF Reversing, Quantities, Places
  <2>3. QED BY <2>1, <2>2
<1>3. [pc |-> pc, kind |-> kind, of |-> o, place |-> p, qty |-> q, delta |-> 0] \in Request
  BY DEF Request, Pcs
<1>4. /\ Moves(r)
      /\ req'[r] = [pc |-> pc, kind |-> kind, of |-> o, place |-> p, qty |-> q, delta |-> 0]
  BY <1>1, <1>2, <1>3, Starting
<1>5. TransferHeld(r)' /\ PurchaseHeld(r)'
  BY <1>2, <1>4 DEF TransferHeld, PurchaseHeld
<1>6. TypeOK'
  BY <1>1 DEF IInv, TypeOK, tables
<1> QED BY <1>1, <1>4, <1>5, <1>6, NoGoodsMoved DEF tables

LEMMA LockItemKeeps ==
  ASSUME IInv, NEW r \in Requests, LockItem(r), faults' \in 0..MaxFaults
  PROVE  IInv'
<1> DEFINE o == req[r].of
           n == [req[r] EXCEPT !.pc = "level", !.delta = req[r].qty - order[o].received]
<1>1. /\ req[r].pc = "item" /\ lock[o] = NoOne /\ lock' = [lock EXCEPT ![o] = r]
      /\ UNCHANGED tables
      /\ req' = [req EXCEPT ![r].pc = "level", ![r].delta = req[r].qty - order[o].received]
  BY DEF LockItem, At, TakesItem, Takes
<1>2. o \in Purchases /\ PurchaseHeld(r) /\ o \in Rows
  BY <1>1 DEF IInv, PurchasesHeld, PurchaseHeld, Rows
<1>3. n \in Request /\ req' = [req EXCEPT ![r] = n] /\ req'[r] = n
  <2>1. req[r] \in Request /\ order[o].received \in Nat
    BY <1>2 DEF IInv, ReqTypeOK, TypeOK
  <2>2. req[r].qty - order[o].received \in Int /\ "level" \in Pcs
    BY <2>1 DEF Request, Pcs
  <2>3. n \in Request
    BY <2>1, <2>2 DEF Request
  <2>4. QED BY <1>1, <2>3 DEF IInv, ReqTypeOK
<1>4. req'[r].pc = "level" /\ req'[r].kind = req[r].kind /\ req'[r].of = o
      /\ req'[r].qty = req[r].qty /\ req'[r].delta = req[r].qty - order[o].received
  BY <1>3 DEF IInv, ReqTypeOK, Request
<1>5. lock'[o] = r
  BY <1>1, <1>2 DEF IInv, TypeOK
<1>6. Moves(r)
  BY <1>1, <1>2, <1>3, <1>4, LocksTyped DEF Moves, InTransaction, Takes
<1>7. TransferHeld(r)'
  BY <1>4 DEF TransferHeld
<1>8. PurchaseHeld(r)'
  BY <1>1, <1>2, <1>4, <1>5 DEF PurchaseHeld, tables
<1>9. TypeOK'
  BY <1>1, <1>6 DEF IInv, TypeOK, tables, Moves
<1> QED BY <1>1, <1>6, <1>7, <1>8, <1>9, NoGoodsMoved DEF tables

LEMMA LockStockKeeps ==
  ASSUME IInv, NEW r \in Requests, LockLevel(r) \/ LockGlobal(r), faults' \in 0..MaxFaults
  PROVE  IInv'
<1>1. PICK pc \in {"receive", "reset"} :
        /\ Goes(r, pc) 
        /\ pc = "receive" => req[r].pc = "level"
        /\ pc = "reset" => req[r].pc = "global"
  BY DEF LockLevel, LockGlobal, At, IInv, ReqTypeOK, Request, Places
<1>2. PurchaseHeld(r) /\ UNCHANGED tables
  BY DEF IInv, PurchasesHeld, LockLevel, LockGlobal
<1>3. /\ req'[r].pc = pc /\ req'[r].kind = req[r].kind /\ req'[r].of = req[r].of
      /\ req'[r].qty = req[r].qty /\ req'[r].delta = req[r].delta /\ pc \in Pcs
  BY <1>1, Going DEF Pcs
<1>4. UNCHANGED lock \/ \E l \in Places : Takes(r, l)
  BY DEF LockLevel, LockGlobal, IInv, ReqTypeOK, Request, Places
<1>5. \A l \in Rows : lock[l] = r => lock'[l] = r
  BY <1>4 DEF Takes, IInv, TypeOK
<1>6. TransferHeld(r)' /\ PurchaseHeld(r)'
  BY <1>1, <1>2, <1>3, <1>5 DEF TransferHeld, PurchaseHeld, tables, Rows
<1> QED BY <1>1, <1>2, <1>3, <1>4, <1>6, ProceedKeeps DEF InTransaction, Rows

LEMMA LockResetKeeps ==
  ASSUME IInv, NEW r \in Requests, LockReset(r), faults' \in 0..MaxFaults
  PROVE  IInv'
<1>1. req[r].pc = "reset" /\ Takes(r, req[r].of) /\ Goes(r, "reverse") /\ UNCHANGED tables
  BY DEF LockReset, At
<1>2. PurchaseHeld(r) /\ req[r].of \in Purchases /\ req[r].of \in Rows
  BY <1>1 DEF IInv, PurchasesHeld, PurchaseHeld, Rows
<1>3. /\ req'[r].pc = "reverse" /\ req'[r].kind = req[r].kind /\ req'[r].of = req[r].of
      /\ req'[r].qty = req[r].qty /\ "reverse" \in Pcs
  BY <1>1, Going DEF Pcs
<1>4. lock'[req[r].of] = r
  BY <1>1, <1>2 DEF Takes, IInv, TypeOK
<1>5. TransferHeld(r)' /\ PurchaseHeld(r)'
  BY <1>1, <1>2, <1>3, <1>4 DEF TransferHeld, PurchaseHeld, tables
<1> QED BY <1>1, <1>2, <1>3, <1>5, ProceedKeeps DEF InTransaction

LEMMA ReadReceivedKeeps ==
  ASSUME IInv, NEW r \in Requests, ReadReceived(r), faults' \in 0..MaxFaults
  PROVE  IInv'
<1> DEFINE o == req[r].of
           q == order[o].received
<1>1. req[r].pc = "read" /\ UNCHANGED <<tables, lock>>
  BY DEF ReadReceived, At
<1>2. o \in Purchases /\ PurchaseHeld(r) /\ q \in Nat /\ q <= net[o]
  BY <1>1 DEF IInv, PurchasesHeld, PurchaseHeld, ReceivedIsStocked, TypeOK
<1>3. \A l \in Rows : lock[l] # r
  BY <1>1, StockAssumption DEF IInv, LocksOwned, InTransaction
<1>4. TypeOK'
  BY <1>1 DEF IInv, TypeOK, tables
<1>5. CASE req' = [req EXCEPT ![r].pc = "global", ![r].qty = q]
  <2> DEFINE n == [req[r] EXCEPT !.pc = "global", !.qty = q]
  <2>1. n \in Request /\ req' = [req EXCEPT ![r] = n] /\ req'[r] = n
    BY <1>2, <1>5 DEF IInv, ReqTypeOK, Request, Pcs
  <2>2. req'[r].pc = "global" /\ req'[r].kind = req[r].kind /\ req'[r].of = o /\ req'[r].qty = q
    BY <2>1 DEF IInv, ReqTypeOK, Request
  <2>3. Moves(r)
    BY <1>1, <1>3, <2>1, <2>2, LocksTyped DEF Moves
  <2>4. TransferHeld(r)' /\ PurchaseHeld(r)'
    BY <1>1, <1>2, <2>2 DEF TransferHeld, PurchaseHeld, tables
  <2>5. QED BY <1>1, <1>4, <2>3, <2>4, NoGoodsMoved DEF tables
<1>6. CASE Goes(r, "delete")
  <2>1. req'[r].pc = "delete" /\ req'[r].of = o /\ "delete" \in Pcs
    BY <1>6, Going DEF Pcs
  <2>2. TransferHeld(r)' /\ PurchaseHeld(r)'
    BY <1>2, <2>1 DEF TransferHeld, PurchaseHeld
  <2>3. QED BY <1>1, <1>6, <2>1, <2>2, ProceedKeeps DEF InTransaction
<1>7. CASE Ends(r)
  <2>1. GivesBack(r)
    BY <1>1, <1>3 DEF GivesBack, IInv, TypeOK
  <2>2. QED BY <1>1, <1>7, <2>1, RollbackKeeps DEF Rollback
<1> QED BY <1>5, <1>6, <1>7 DEF ReadReceived

LEMMA CommitReceiveKeeps ==
  ASSUME IInv, NEW r \in Requests, CommitReceive(r), faults' \in 0..MaxFaults
  PROVE  IInv'
<1> DEFINE o == req[r].of
           p == req[r].place
           q == req[r].qty
           delta == Max({req[r].delta, 0})
<1>1. /\ req[r].pc = "receive" /\ GivesBack(r) /\ UNCHANGED transfer
      /\ Goes(r, "status") \/ Ends(r)
      /\ order' = [order EXCEPT ![o].received = q] /\ net' = [net EXCEPT ![o] = @ + delta]
      /\ stock' = [stock EXCEPT ![p] = @ + delta] /\ bought' = [bought EXCEPT ![p] = @ + delta]
      /\ rows' \in {rows, rows \cup {p}}
  BY DEF CommitReceive, At, Received
<1>2. /\ o \in Purchases /\ lock[o] = r /\ req[r].delta = q - order[o].received
      /\ p \in Places /\ q \in Nat /\ req[r].delta \in Int
  BY <1>1 DEF IInv, PurchasesHeld, PurchaseHeld, ReqTypeOK, Request
<1>3. delta \in Nat /\ delta >= q - order[o].received
  BY <1>2, MaxIsFloor
<1>4. /\ order[o].received \in Nat /\ net[o] \in Int /\ order[o].received <= net[o]
  BY <1>2 DEF IInv, TypeOK, ReceivedIsStocked
<1>5. /\ net'[o] = net[o] + delta /\ order'[o].received = q
      /\ \A v \in Purchases \ {o} : net'[v] = net[v] /\ order'[v] = order[v]
  BY <1>1, <1>2 DEF IInv, TypeOK
<1>6. \A s \in Places : stock'[s] >= stock[s]
  BY <1>1, <1>2, <1>3 DEF IInv, TypeOK
<1>7. Moves(r)
  <2>1. CASE Ends(r)
    BY <1>1, <2>1, Ending, LocksTyped, StockAssumption DEF Moves, GivesBack, Idle, Reversing
  <2>2. CASE Goes(r, "status")
    BY <1>1, <2>2, Going, LocksTyped, StockAssumption DEF Moves, GivesBack, Pcs
  <2>3. QED BY <1>1, <2>1, <2>2
<1>8. TypeOK'
  <2>1. order' \in [Purchases -> [status : {"open", "cancelled"}, deleted : BOOLEAN,
                                  received : Nat]]
    BY <1>1, <1>2 DEF IInv, TypeOK
  <2>2. stock' \in [Places -> Nat] /\ bought' \in [Places -> Nat] /\ net' \in [Purchases -> Int]
    BY <1>1, <1>2, <1>3 DEF IInv, TypeOK
  <2>3. QED BY <1>1, <1>2, <1>7, <2>1, <2>2 DEF IInv, TypeOK, Moves
<1>9. ReqTypeOK' /\ LocksOwned' /\ OneReversal'
  BY <1>7, MovesKeep
<1>10. Endpoints'
  BY <1>1 DEF IInv, Endpoints
<1>11. ReceivedIsStocked'
  BY <1>2, <1>3, <1>4, <1>5 DEF IInv, ReceivedIsStocked
<1>12. ASSUME NEW u \in Requests, u # r PROVE TransferHeld(u)' /\ PurchaseHeld(u)'
  <2>1. req'[u] = req[u] /\ TransferHeld(u) /\ PurchaseHeld(u)
    BY <1>1, <1>12, Going, Ending DEF IInv, TransfersHeld, PurchasesHeld, ReqTypeOK, Goes
  <2>2. \A l \in Rows : lock[l] = u => lock'[l] = u
    BY <1>7, <1>12, StockAssumption DEF Moves
  <2>3. TransferHeld(u)'
    <3> DEFINE v == req[u].of
    <3>1. CASE req[u].pc \in {"dest", "insert", "move"}
      <4>1. v \in Transfers /\ transfer[v].from \in Places /\ transfer[v].qty \in Nat
            /\ lock[transfer[v].from] = u /\ transfer[v].qty <= stock[transfer[v].from]
        BY <2>1, <3>1 DEF TransferHeld, IInv, TypeOK
      <4>2. stock[transfer[v].from] \in Nat /\ stock'[transfer[v].from] \in Nat
        BY <1>8, <4>1 DEF IInv, TypeOK
      <4>3. lock'[transfer[v].from] = u /\ transfer[v].qty <= stock'[transfer[v].from]
        BY <1>6, <2>2, <4>1, <4>2 DEF Rows
      <4>4. QED BY <1>1, <2>1, <3>1, <4>1, <4>3 DEF TransferHeld
    <3>2. CASE req[u].pc \notin {"dest", "insert", "move"}
      BY <1>1, <2>1, <3>2 DEF TransferHeld
    <3>3. QED BY <3>1, <3>2
  <2>4. \A v \in Purchases : lock[v] = u => order'[v] = order[v]
    BY <1>2, <1>5, <1>12
  <2>5. \A v \in Purchases : net'[v] \in Int /\ net'[v] >= net[v]
    BY <1>3, <1>5, <1>8 DEF TypeOK, IInv
  <2>6. PurchaseHeld(u)'
    BY <2>1, <2>2, <2>4, <2>5 DEF PurchaseHeld, Rows, IInv, TypeOK, ReqTypeOK, Request
  <2>7. QED BY <2>3, <2>6
<1>13. TransferHeld(r)' /\ PurchaseHeld(r)'
  <2>1. CASE Ends(r)
    BY <2>1, Ending, IdleHeld
  <2>2. CASE Goes(r, "status")
    BY <1>2, <2>2, Going DEF Pcs, TransferHeld, PurchaseHeld
  <2>3. QED BY <1>1, <2>1, <2>2
<1> QED BY <1>8, <1>9, <1>10, <1>11, <1>12, <1>13 DEF IInv, TransfersHeld, PurchasesHeld

LEMMA CommitReverseKeeps ==
  ASSUME IInv, NEW r \in Requests, CommitReverse(r), faults' \in 0..MaxFaults
  PROVE  IInv'
<1> DEFINE o == req[r].of
           q == req[r].qty
<1>1. /\ req[r].pc = "reverse" /\ GivesBack(r) /\ Goes(r, "status")
      /\ UNCHANGED <<rows, transfer, bought>>
      /\ order' = [order EXCEPT ![o].received = 0] /\ net' = [net EXCEPT ![o] = @ - q]
      /\ stock' \in {stock, [stock EXCEPT ![Global] = Max({@ - q, 0})]}
  BY DEF CommitReverse, At
<1>2. /\ o \in Purchases /\ lock[o] = r /\ Reversing(req[r].kind) /\ q \in Nat
      /\ net[o] \in Int /\ q <= net[o]
  BY <1>1 DEF IInv, PurchasesHeld, PurchaseHeld, Reversing, ReqTypeOK, Request, TypeOK
<1>3. Max({stock[Global] - q, 0}) \in Nat
  <2>1. stock[Global] - q \in Int
    BY <1>2 DEF IInv, TypeOK, Places
  <2>2. QED BY <2>1, MaxIsFloor
<1>4. /\ net'[o] = net[o] - q /\ order'[o].received = 0
      /\ \A v \in Purchases \ {o} : net'[v] = net[v] /\ order'[v] = order[v]
  BY <1>1, <1>2 DEF IInv, TypeOK
<1>5. \A b \in Branches : stock'[b] = stock[b]
  BY <1>1, StockAssumption DEF IInv, TypeOK, Places
<1>6. Moves(r)
  BY <1>1, Going, LocksTyped, StockAssumption DEF Moves, GivesBack, Pcs
<1>7. TypeOK'
  <2>1. order' \in [Purchases -> [status : {"open", "cancelled"}, deleted : BOOLEAN,
                                  received : Nat]]
    BY <1>1, <1>2 DEF IInv, TypeOK
  <2>2. stock' \in [Places -> Nat] /\ net' \in [Purchases -> Int]
    BY <1>1, <1>2, <1>3 DEF IInv, TypeOK
  <2>3. QED BY <1>1, <1>6, <2>1, <2>2 DEF IInv, TypeOK, Moves
<1>8. ReqTypeOK' /\ LocksOwned' /\ OneReversal'
  BY <1>6, MovesKeep
<1>9. Endpoints'
  BY <1>1 DEF IInv, Endpoints
<1>10. ReceivedIsStocked'
  BY <1>2, <1>4 DEF IInv, ReceivedIsStocked
<1>11. ASSUME NEW u \in Requests, u # r PROVE TransferHeld(u)' /\ PurchaseHeld(u)'
  <2>1. req'[u] = req[u] /\ TransferHeld(u) /\ PurchaseHeld(u)
    BY <1>1, <1>11 DEF IInv, TransfersHeld, PurchasesHeld, ReqTypeOK, Goes
  <2>2. \A l \in Rows : lock[l] = u => lock'[l] = u
    BY <1>6, <1>11, StockAssumption DEF Moves
  <2>3. TransferHeld(u)'
    BY <1>1, <1>5, <2>1, <2>2 DEF TransferHeld, IInv, TypeOK, Endpoints, Rows, Places
  <2>4. \A v \in Purchases : lock[v] = u => order'[v] = order[v]
    BY <1>2, <1>4, <1>11
  <2>5. ~Reversing(req[u].kind)
    BY <1>2, <1>11 DEF IInv, OneReversal, Reversing
  <2>6. PurchaseHeld(u)'
    BY <2>1, <2>2, <2>4, <2>5 DEF PurchaseHeld, Reversing, Rows
  <2>7. QED BY <2>3, <2>6
<1>12. TransferHeld(r)' /\ PurchaseHeld(r)'
  BY <1>1, <1>2, Going DEF Pcs, TransferHeld, PurchaseHeld
<1> QED BY <1>7, <1>8, <1>9, <1>10, <1>11, <1>12 DEF IInv, TransfersHeld, PurchasesHeld

(* The steps that write purchase_orders                                      *)
LEMMA OrderRowKeeps ==
  ASSUME IInv, NEW r \in Requests, SetStatus(r) \/ SoftDelete(r), faults' \in 0..MaxFaults
  PROVE  IInv'
<1>1. /\ req[r].pc \in {"status", "delete"}
      /\ Goes(r, "delete") \/ Ends(r)
      /\ UNCHANGED <<stock, rows, transfer, net, bought, lock>>
  BY DEF SetStatus, SoftDelete, At
<1>2. req[r].of \in Purchases
  BY <1>1 DEF IInv, PurchasesHeld, PurchaseHeld
<1>3. /\ order' \in [Purchases -> [status : {"open", "cancelled"}, deleted : BOOLEAN,
                                   received : Nat]]
      /\ \A o \in Purchases : order'[o].received = order[o].received
  <2>1. PICK o \in Purchases, row \in [status : {"open", "cancelled"}, deleted : BOOLEAN,
                                         received : Nat] :
          order' = [order EXCEPT ![o] = row] /\ row.received = order[o].received
    <3> DEFINE old == order[req[r].of]
    <3>1. old \in [status : {"open", "cancelled"}, deleted : BOOLEAN, received : Nat]
      BY <1>2 DEF IInv, TypeOK
    <3>2. CASE SetStatus(r)
      <4>1. PICK st \in {"open", old.status} :
              order' = [order EXCEPT ![req[r].of] = [old EXCEPT !.status = st]]
        BY <3>2 DEF SetStatus
      <4>2. [old EXCEPT !.status = st] \in [status : {"open", "cancelled"}, deleted : BOOLEAN,
                                            received : Nat]
            /\ [old EXCEPT !.status = st].received = old.received
        BY <3>1
      <4>3. QED BY <1>2, <4>1, <4>2
    <3>3. CASE SoftDelete(r)
      <4>1. order' = [order EXCEPT ![req[r].of] = [old EXCEPT !.deleted = TRUE]]
        BY <3>3 DEF SoftDelete
      <4>2. [old EXCEPT !.deleted = TRUE] \in [status : {"open", "cancelled"},
                                               deleted : BOOLEAN, received : Nat]
            /\ [old EXCEPT !.deleted = TRUE].received = old.received
        BY <3>1
      <4>3. QED BY <1>2, <4>1, <4>2
    <3>4. QED BY <3>2, <3>3
  <2>2. QED BY <2>1 DEF IInv, TypeOK
<1>4. \A l \in Rows : lock[l] # r
  BY <1>1, StockAssumption DEF IInv, LocksOwned, InTransaction
<1>5. TypeOK'
  BY <1>1, <1>3 DEF IInv, TypeOK
<1>6. Moves(r) /\ TransferHeld(r)' /\ PurchaseHeld(r)'
  <2>1. CASE Ends(r)
    BY <1>1, <1>4, <2>1, Ending, IdleHeld, LocksTyped DEF Moves, Idle, Reversing
  <2>2. CASE Goes(r, "delete")
    BY <1>1, <1>2, <1>4, <2>2, Going, LocksTyped
       DEF Moves, Pcs, TransferHeld, PurchaseHeld
  <2>3. QED BY <1>1, <2>1, <2>2
<1> QED BY <1>1, <1>3, <1>5, <1>6, NoGoodsMoved

LEMMA PatchOrderKeeps ==
  ASSUME IInv, NEW o \in Purchases, PatchOrder(o), faults' \in 0..MaxFaults
  PROVE  IInv'
<1>1. UNCHANGED <<stock, rows, transfer, net, bought, lock, req>>
  BY DEF PatchOrder
<1>2. /\ order' \in [Purchases -> [status : {"open", "cancelled"}, deleted : BOOLEAN,
                                   received : Nat]]
      /\ \A v \in Purchases : order'[v].received = order[v].received
  <2>1. PICK row \in [status : {"open", "cancelled"}, deleted : BOOLEAN, received : Nat] :
          order' = [order EXCEPT ![o] = row] /\ row.received = order[o].received
    <3>1. order[o] \in [status : {"open", "cancelled"}, deleted : BOOLEAN, received : Nat]
      BY DEF IInv, TypeOK
    <3>2. QED BY <3>1 DEF PatchOrder
  <2>2. QED BY <2>1 DEF IInv, TypeOK
<1>3. TypeOK' /\ ReqTypeOK' /\ Endpoints' /\ LocksOwned' /\ OneReversal'
  BY <1>1, <1>2 DEF IInv, TypeOK, ReqTypeOK, Endpoints, LocksOwned, OneReversal
<1>4. TransfersHeld' /\ PurchasesHeld' /\ ReceivedIsStocked'
  BY <1>1, <1>2 DEF IInv, TransfersHeld, TransferHeld, PurchasesHeld, PurchaseHeld,
                    ReceivedIsStocked
<1> QED BY <1>3, <1>4 DEF IInv

-----------------------------------------------------------------------------
LEMMA InitIInv == Init => IInv
<1> SUFFICES ASSUME Init PROVE IInv
  OBVIOUS
<1>1. TypeOK
  BY StockAssumption DEF Init, TypeOK, Places
<1>2. ReqTypeOK
  BY DEF Init, ReqTypeOK, Request, Idle, Pcs, Places
<1>3. Endpoints /\ ReceivedIsStocked
  BY DEF Init, Endpoints, ReceivedIsStocked
<1>4. TransfersHeld /\ PurchasesHeld /\ OneReversal
  BY DEF Init, Idle, TransfersHeld, TransferHeld, PurchasesHeld, PurchaseHeld, OneReversal
<1>5. LocksOwned
  BY DEF Init, LocksOwned
<1> QED BY <1>1, <1>2, <1>3, <1>4, <1>5 DEF IInv

LEMMA NextIInv == IInv /\ [Next]_vars => IInv'
<1> SUFFICES ASSUME IInv, [Next]_vars PROVE IInv'
  OBVIOUS
<1>1. faults \in 0..MaxFaults
  BY DEF IInv, TypeOK
<1>2. ASSUME NEW r \in Requests, Starts(r) \/ Step(r), UNCHANGED faults PROVE IInv'
  <2>1. CASE Starts(r)
    BY <1>1, <1>2, <2>1, ReadTransferKeeps, RequestPurchaseKeeps DEF Starts
  <2>2. CASE \/ LockTransfer(r) \/ LockSource(r) \/ LockDestination(r)
             \/ InsertDestination(r) \/ CommitTransfer(r)
    BY <1>1, <1>2, <2>2, LockTransferKeeps, LockSourceKeeps, DestinationKeeps,
       CommitTransferKeeps
  <2>3. CASE \/ LockItem(r) \/ LockLevel(r) \/ CommitReceive(r) \/ SetStatus(r) \/ SoftDelete(r)
    BY <1>1, <1>2, <2>3, LockItemKeeps, LockStockKeeps, CommitReceiveKeeps, OrderRowKeeps
  <2>4. CASE ReadReceived(r) \/ LockGlobal(r) \/ LockReset(r) \/ CommitReverse(r)
    BY <1>1, <1>2, <2>4, ReadReceivedKeeps, LockStockKeeps, LockResetKeeps, CommitReverseKeeps
  <2>5. CASE DeadlockVictim(r)
    BY <1>1, <1>2, <2>5, RollbackKeeps DEF DeadlockVictim
  <2>6. QED BY <1>2, <2>1, <2>2, <2>3, <2>4, <2>5 DEF Step
<1>3. ASSUME NEW r \in Requests, Fail(r) PROVE IInv'
  <2>1. faults' \in 0..MaxFaults
    BY <1>1, <1>3, StockAssumption DEF Fail
  <2>2. QED BY <1>3, <2>1, RollbackKeeps DEF Fail
<1>4. ASSUME NEW t \in Transfers, CreateTransfer(t) \/ RejectTransfer(t), UNCHANGED faults
      PROVE  IInv'
  BY <1>1, <1>4, CreateOrRejectKeeps
<1>5. ASSUME NEW o \in Purchases, PatchOrder(o), UNCHANGED faults PROVE IInv'
  BY <1>1, <1>5, PatchOrderKeeps
<1>6. CASE UNCHANGED vars
  BY <1>6 DEF vars, tables, IInv, TypeOK, ReqTypeOK, Endpoints, TransfersHeld, TransferHeld,
              PurchasesHeld, PurchaseHeld, OneReversal, ReceivedIsStocked, LocksOwned
<1> QED BY <1>2, <1>3, <1>4, <1>5, <1>6 DEF Next

(* Transfers that race for the same goods never take more than there are: no *)
(* count of stock is negative, for any number of branches and requests.      *)
THEOREM StockNeverNegative == Spec => []TypeOK
<1>1. IInv => TypeOK
  BY DEF IInv
<1> QED BY <1>1, InitIInv, NextIInv, PTL DEF Spec

(* What a purchase order shows as received was put into the stock.           *)
THEOREM ReceiptsStocked == Spec => []ReceivedIsStocked
<1>1. IInv => ReceivedIsStocked
  BY DEF IInv
<1> QED BY <1>1, InitIInv, NextIInv, PTL DEF Spec

-----------------------------------------------------------------------------
(* A transfer that a request has locked is pending until that request        *)
(* completes it.                                                             *)
Locked(r) ==
  req[r].pc \in {"source", "dest", "insert", "move"} =>
    lock[req[r].of] = r /\ transfer[req[r].of].status = "pending"

In(b) == {t \in Completed : transfer[t].to = b}
Out(b) == {t \in Completed : transfer[t].from = b}
Ledger(b) == stock[b] = bought[b] + Sum(In(b)) - Sum(Out(b))

(* The set of transfers need not be finite: only those that were completed   *)
(* are summed, and each of them was completed by a step.                     *)
LedgerInv == /\ IInv /\ \A r \in Requests : Locked(r)
             /\ IsFiniteSet(Completed) /\ \A b \in Branches : Ledger(b)

LEMMA LockedTransfer ==
  ASSUME IInv, NEW r \in Requests, req[r].pc \in {"source", "dest", "insert", "move"}
  PROVE  req[r].of \in Transfers /\ req[r].of \in Rows /\ req[r].place = transfer[req[r].of].to
BY DEF IInv, TransfersHeld, TransferHeld, Rows

Acts(r) == Starts(r) \/ Step(r) \/ Fail(r)

(* A request takes and gives back only its own locks.                        *)
LEMMA ActsAlone ==
  ASSUME IInv, NEW r \in Requests, Acts(r)
  PROVE  /\ \A u \in Requests \ {r} : req'[u] = req[u]
         /\ UNCHANGED lock \/ GivesBack(r) \/ \E l : Takes(r, l)
<1>1. CASE Starts(r)
  BY <1>1 DEF Starts, ReadTransfer, RequestReceive, RequestReverse, Begins, IInv, ReqTypeOK
<1>2. CASE LockTransfer(r) \/ LockSource(r) \/ LockDestination(r) \/ InsertDestination(r)
  BY <1>2 DEF LockTransfer, LockSource, TakesSource, LockDestination, InsertDestination,
              Goes, Ends, IInv, ReqTypeOK
<1>3. CASE CommitTransfer(r) \/ CommitReceive(r) \/ CommitReverse(r)
  BY <1>3 DEF CommitTransfer, CommitReceive, Received, CommitReverse, Goes, Ends, IInv, ReqTypeOK
<1>4. CASE LockItem(r) \/ LockLevel(r) \/ LockGlobal(r) \/ LockReset(r)
  BY <1>4 DEF LockItem, TakesItem, LockLevel, LockGlobal, LockReset, Goes, Ends, IInv, ReqTypeOK
<1>5. CASE ReadReceived(r) \/ SetStatus(r) \/ SoftDelete(r)
  BY <1>5 DEF ReadReceived, SetStatus, SoftDelete, Goes, Ends, IInv, ReqTypeOK
<1>6. CASE DeadlockVictim(r) \/ Fail(r)
  BY <1>6 DEF DeadlockVictim, Fail, Rollback, Ends, IInv, ReqTypeOK
<1> QED BY <1>1, <1>2, <1>3, <1>4, <1>5, <1>6 DEF Acts, Step

LEMMA OthersKeepLocks ==
  ASSUME IInv, NEW r \in Requests, Acts(r), NEW u \in Requests, u # r,
         NEW l \in Rows, lock[l] = u
  PROVE  lock'[l] = u
BY ActsAlone, StockAssumption DEF GivesBack, Takes, IInv, TypeOK

(* Only CommitTransfer writes a transfer on behalf of a request.             *)
LEMMA TransfersStay ==
  ASSUME NEW r \in Requests, Acts(r), ~CommitTransfer(r)
  PROVE  UNCHANGED transfer
<1>1. CASE Starts(r)
  BY <1>1 DEF Starts, ReadTransfer, RequestReceive, RequestReverse, tables
<1>2. CASE LockTransfer(r) \/ LockSource(r) \/ LockDestination(r) \/ InsertDestination(r)
  BY <1>2 DEF LockTransfer, LockSource, LockDestination, InsertDestination, tables
<1>3. CASE CommitReceive(r) \/ CommitReverse(r) \/ SetStatus(r) \/ SoftDelete(r)
  BY <1>3 DEF CommitReceive, CommitReverse, SetStatus, SoftDelete
<1>4. CASE LockItem(r) \/ LockLevel(r) \/ LockGlobal(r) \/ LockReset(r) \/ ReadReceived(r)
  BY <1>4 DEF LockItem, LockLevel, LockGlobal, LockReset, ReadReceived, tables
<1>5. CASE DeadlockVictim(r) \/ Fail(r)
  BY <1>5 DEF DeadlockVictim, Fail, Rollback, tables
<1> QED BY <1>1, <1>2, <1>3, <1>4, <1>5 DEF Acts, Step

LEMMA OwnLock ==
  ASSUME IInv, NEW r \in Requests, Acts(r), Locked(r)
  PROVE  Locked(r)'
<1>1. CASE Starts(r)
  <2>1. \E kind, pc, o, p, q : Begins(r, kind, pc, o, p, q)
                              /\ pc \in {"transfer", "item", "status", "read"}
    <3>1. CASE ReadTransfer(r)
      BY <3>1 DEF ReadTransfer
    <3>2. CASE RequestReceive(r)
      <4>1. PICK o \in Purchases :
              \/ \E p \in Places, q \in Quantities : Begins(r, "receive", "item", o, p, q)
              \/ \E q : Begins(r, "all", IF q > 0 THEN "item" ELSE "status", o, Global, q)
        BY <3>2 DEF RequestReceive
      <4>2. CASE \E q : Begins(r, "all", IF q > 0 THEN "item" ELSE "status", o, Global, q)
        <5>1. PICK q : Begins(r, "all", IF q > 0 THEN "item" ELSE "status", o, Global, q)
          BY <4>2
        <5>2. PICK pc : pc = IF q > 0 THEN "item" ELSE "status"
          OBVIOUS
        <5>3. Begins(r, "all", pc, o, Global, q) /\ pc \in {"item", "status"}
          BY <5>1, <5>2
        <5> QED BY <5>3
      <4> QED BY <4>1, <4>2
    <3>3. CASE RequestReverse(r)
      BY <3>3 DEF RequestReverse
    <3> QED BY <1>1, <3>1, <3>2, <3>3 DEF Starts
  <2>2. PICK kind, pc, o, p, q : Begins(r, kind, pc, o, p, q)
                                 /\ pc \in {"transfer", "item", "status", "read"}
    BY <2>1
  <2>3. req'[r].pc \notin {"source", "dest", "insert", "move"}
    BY <2>2 DEF Begins, IInv, ReqTypeOK
  <2> QED BY <2>3 DEF Locked
<1>2. CASE Ends(r)
  BY <1>2, Ending DEF Locked, Idle
<1>3. ASSUME NEW pc \in Pcs \ {"source", "dest", "insert", "move"}, Goes(r, pc) PROVE Locked(r)'
  BY <1>3, Going DEF Locked
<1>4. CASE Pending(req[r].of) /\ Takes(r, req[r].of) /\ Goes(r, "source") /\ UNCHANGED transfer
           /\ At(r, "transfer")
  <2>1. req[r].of \in Rows
    BY <1>4 DEF At, IInv, TransfersHeld, TransferHeld, Rows
  <2>2. req'[r].of = req[r].of
    BY <1>4, Going DEF Pcs
  <2>3. lock'[req[r].of] = r
    BY <1>4, <2>1 DEF Takes, IInv, TypeOK
  <2> QED BY <1>4, <2>2, <2>3 DEF Locked, Pending
<1>5. CASE /\ req[r].pc \in {"source", "dest", "insert"} /\ UNCHANGED transfer
           /\ UNCHANGED lock \/ \E l : Takes(r, l)
           /\ \E pc \in {"dest", "insert", "move"} : Goes(r, pc)
  <2>1. req[r].of \in Rows /\ lock[req[r].of] = r /\ transfer[req[r].of].status = "pending"
    BY <1>5, LockedTransfer DEF Locked
  <2>2. lock'[req[r].of] = r
    BY <1>5, <2>1 DEF Takes, IInv, TypeOK
  <2>3. req'[r].of = req[r].of
    BY <1>5, Going DEF Pcs
  <2> QED BY <1>5, <2>1, <2>2, <2>3 DEF Locked
<1>6. CASE LockTransfer(r)
  BY <1>2, <1>4, <1>6 DEF LockTransfer, tables
<1>7. CASE LockSource(r)
  BY <1>2, <1>5, <1>7 DEF LockSource, TakesSource, tables, At
<1>8. CASE LockDestination(r) \/ InsertDestination(r)
  BY <1>2, <1>5, <1>8 DEF LockDestination, InsertDestination, tables, At
<1>9. CASE \/ CommitTransfer(r) \/ CommitReceive(r) \/ CommitReverse(r)
           \/ ReadReceived(r) \/ SetStatus(r) \/ SoftDelete(r)
  <2>1. Ends(r) \/ Goes(r, "status") \/ Goes(r, "delete")
        \/ req' = [req EXCEPT ![r].pc = "global", ![r].qty = order[req[r].of].received]
    BY <1>9 DEF CommitTransfer, CommitReceive, Received, CommitReverse, ReadReceived, SetStatus,
                SoftDelete
  <2>2. CASE req' = [req EXCEPT ![r].pc = "global", ![r].qty = order[req[r].of].received]
    <3>1. req'[r].pc = "global"
      BY <2>2 DEF IInv, ReqTypeOK, Request
    <3> QED BY <3>1 DEF Locked
  <2> QED BY <1>2, <1>3, <2>1, <2>2 DEF Pcs
<1>10. CASE LockItem(r)
  <2>1. req'[r].pc = "level"
    BY <1>10 DEF LockItem, IInv, ReqTypeOK, Request
  <2> QED BY <2>1 DEF Locked
<1>11. CASE LockLevel(r) \/ LockGlobal(r) \/ LockReset(r)
  <2>1. \E pc \in {"receive", "reset", "reverse"} : Goes(r, pc)
    BY <1>11 DEF LockLevel, LockGlobal, LockReset
  <2> QED BY <1>3, <2>1 DEF Pcs
<1>12. CASE DeadlockVictim(r) \/ Fail(r)
  BY <1>2, <1>12 DEF DeadlockVictim, Fail, Rollback
<1> QED BY <1>1, <1>6, <1>7, <1>8, <1>9, <1>10, <1>11, <1>12 DEF Acts, Step

LEMMA LockedStays ==
  ASSUME LedgerInv, [Next]_vars, NEW u \in Requests
  PROVE  Locked(u)'
<1>0. IInv /\ Locked(u)
  BY DEF LedgerInv
<1>1. ASSUME NEW r \in Requests, Acts(r) PROVE Locked(u)'
  <2>1. CASE u = r
    BY <1>0, <1>1, <2>1, OwnLock
  <2>2. CASE u # r /\ req[u].pc \in {"source", "dest", "insert", "move"}
    <3>1. req'[u] = req[u]
      BY <1>0, <1>1, <2>2, ActsAlone
    <3>2. /\ req[u].of \in Transfers /\ req[u].of \in Rows
          /\ lock[req[u].of] = u /\ transfer[req[u].of].status = "pending"
      BY <1>0, <2>2, LockedTransfer DEF Locked
    <3>3. lock'[req[u].of] = u
      BY <1>0, <1>1, <2>2, <3>2, OthersKeepLocks
    <3>4. transfer'[req[u].of] = transfer[req[u].of]
      <4>1. CASE CommitTransfer(r)
        <5>1. req[r].pc = "move" /\ transfer' = [transfer EXCEPT ![req[r].of].status = "completed"]
          BY <4>1 DEF CommitTransfer, At
        <5>2. lock[req[r].of] = r
          BY <5>1 DEF LedgerInv, Locked
        <5> QED BY <1>0, <2>2, <3>2, <5>1, <5>2 DEF IInv, TypeOK
      <4>2. CASE ~CommitTransfer(r)
        BY <1>1, <4>2, TransfersStay
      <4> QED BY <4>1, <4>2
    <3> QED BY <3>1, <3>2, <3>3, <3>4 DEF Locked
  <2>3. CASE u # r /\ req[u].pc \notin {"source", "dest", "insert", "move"}
    <3>1. req'[u] = req[u]
      BY <1>0, <1>1, <2>3, ActsAlone
    <3> QED BY <2>3, <3>1 DEF Locked
  <2> QED BY <2>1, <2>2, <2>3
<1>2. ASSUME NEW t \in Transfers, CreateTransfer(t) \/ RejectTransfer(t) PROVE Locked(u)'
  <2>1. /\ UNCHANGED <<req, lock>> /\ \A x \in Transfers \ {t} : transfer'[x] = transfer[x]
        /\ transfer[t].status = "none" \/ lock[t] = NoOne
    BY <1>0, <1>2 DEF CreateTransfer, RejectTransfer, IInv, TypeOK
  <2>2. req[u].pc \in {"source", "dest", "insert", "move"} => req[u].of \in Transfers \ {t}
    BY <1>0, <2>1, LockedTransfer, StockAssumption DEF Locked
  <2> QED BY <1>0, <2>1, <2>2 DEF Locked
<1>3. CASE UNCHANGED vars \/ \E o \in Purchases : PatchOrder(o)
  <2>1. UNCHANGED <<req, lock, transfer>>
    BY <1>3 DEF vars, tables, PatchOrder
  <2> QED BY <1>0, <2>1 DEF Locked
<1> QED BY <1>1, <1>2, <1>3 DEF Next, Acts

-----------------------------------------------------------------------------
LEMMA SumsAreNat ==
  ASSUME TypeOK, IsFiniteSet(Completed), NEW b
  PROVE  /\ IsFiniteSet(In(b)) /\ IsFiniteSet(Out(b))
         /\ Sum(In(b)) \in Nat /\ Sum(Out(b)) \in Nat
<1> DEFINE f == [t \in Transfers |-> transfer[t].qty]
<1>1. In(b) \subseteq Completed /\ Out(b) \subseteq Completed /\ Completed \subseteq Transfers
  BY DEF In, Out, Completed
<1>2. IsFiniteSet(In(b)) /\ IsFiniteSet(Out(b))
  BY <1>1, FS_Subset
<1>3. \A t \in Transfers : f[t] \in Nat
  BY DEF TypeOK
<1> HIDE DEF f
<1>4. SumFunctionOnSet(f, In(b)) \in Nat /\ SumFunctionOnSet(f, Out(b)) \in Nat
  BY <1>1, <1>2, <1>3, SumNat
<1> QED BY <1>2, <1>4 DEF Sum, f

(* Goods that come and go by no transfer come in with a receipt.             *)
LEMMA NothingMoved ==
  ASSUME LedgerInv, TypeOK', NEW b \in Branches, stock'[b] - bought'[b] = stock[b] - bought[b],
         \A t \in Transfers : /\ transfer'[t].status = "completed" <=> transfer[t].status = "completed"
                              /\ transfer[t].status = "completed" => transfer'[t] = transfer[t]
  PROVE  Completed' = Completed /\ Ledger(b)'
<1> DEFINE f == [t \in Transfers |-> transfer[t].qty]
           g == [t \in Transfers |-> transfer'[t].qty]
<1>1. Completed' = Completed
  BY DEF Completed
<1>2. In(b)' = In(b) /\ Out(b)' = Out(b)
  BY DEF Completed, In, Out
<1>3. TypeOK /\ IsFiniteSet(Completed) /\ Ledger(b)
  BY DEF LedgerInv, IInv
<1>4. IsFiniteSet(In(b)) /\ IsFiniteSet(Out(b)) /\ Sum(In(b)) \in Nat /\ Sum(Out(b)) \in Nat
  BY <1>3, SumsAreNat
<1>5. \A t \in In(b) \cup Out(b) : f[t] = g[t]
  BY DEF In, Out, Completed
<1> HIDE DEF f, g
<1>6. /\ SumFunctionOnSet(f, In(b)) = SumFunctionOnSet(g, In(b))
      /\ SumFunctionOnSet(f, Out(b)) = SumFunctionOnSet(g, Out(b))
  BY <1>4, <1>5, SumSame
<1>7. /\ SumFunctionOnSet(g, In(b)') = Sum(In(b)) /\ SumFunctionOnSet(g, Out(b)') = Sum(Out(b))
  BY <1>2, <1>6 DEF Sum, f
<1>8. /\ stock[b] \in Nat /\ stock'[b] \in Nat /\ bought[b] \in Nat /\ bought'[b] \in Nat
  BY <1>3 DEF TypeOK, Places
<1>9. stock'[b] = bought'[b] + Sum(In(b)) - Sum(Out(b))
  BY <1>3, <1>4, <1>8 DEF Ledger
<1> QED BY <1>1, <1>7, <1>9 DEF Ledger, Sum, g

(* What one completion adds to one of the sums. *)
LEMMA CompletionAdds ==
  ASSUME NEW f, NEW g, NEW S, IsFiniteSet(S), NEW t, t \notin S,
         \A x \in S \cup {t} : f[x] \in Nat /\ g[x] = f[x]
  PROVE  /\ SumFunctionOnSet(g, S \cup {t}) = f[t] + SumFunctionOnSet(f, S)
         /\ SumFunctionOnSet(g, S) = SumFunctionOnSet(f, S)
<1>1. SumFunctionOnSet(g, S) = SumFunctionOnSet(f, S)
  BY SumSame
<1>2. \A x \in S \cup {t} : g[x] \in Int
  OBVIOUS
<1>3. SumFunctionOnSet(g, S \cup {t}) = g[t] + SumFunctionOnSet(g, S)
  BY <1>2, SumAdd
<1> QED BY <1>1, <1>3

LEMMA TransferBooked ==
  ASSUME LedgerInv, NEW r \in Requests, CommitTransfer(r)
  PROVE  IsFiniteSet(Completed)' /\ \A b \in Branches : Ledger(b)'
<1> DEFINE t == req[r].of  q == transfer[t].qty  from == transfer[t].from  to == transfer[t].to
           f == [x \in Transfers |-> transfer[x].qty]
           g == [x \in Transfers |-> transfer'[x].qty]
<1>1. /\ IInv /\ TypeOK /\ IsFiniteSet(Completed) /\ \A b \in Branches : Ledger(b)
      /\ req[r].pc = "move" /\ Locked(r)
  BY DEF LedgerInv, IInv, CommitTransfer, At
<1>2. t \in Transfers /\ transfer[t].status = "pending" /\ req[r].place = to
  BY <1>1, LockedTransfer DEF Locked
<1>3. /\ from \in Branches /\ to \in Branches /\ from # to /\ q \in Nat
  BY <1>1, <1>2 DEF IInv, Endpoints, TypeOK
<1>4. /\ stock' = [stock EXCEPT ![from] = @ - q, ![to] = @ + q] /\ bought' = bought
      /\ transfer' = [transfer EXCEPT ![t].status = "completed"]
  BY <1>2 DEF CommitTransfer
<1>5. /\ \A x \in Transfers \ {t} : transfer'[x] = transfer[x]
      /\ transfer'[t].status = "completed" /\ transfer'[t].from = from
      /\ transfer'[t].to = to /\ transfer'[t].qty = q
  BY <1>1, <1>2, <1>4 DEF TypeOK
<1>6. Completed' = Completed \cup {t} /\ t \notin Completed
  BY <1>2, <1>5 DEF Completed
<1>7. IsFiniteSet(Completed)'
  BY <1>1, <1>6, FS_AddElement
<1>8. \A x \in Transfers : f[x] \in Nat /\ g[x] = f[x]
  BY <1>1, <1>5 DEF TypeOK
<1>9. f[t] = q
  BY <1>2
<1> HIDE DEF f, g
<1>10. ASSUME NEW b \in Branches PROVE Ledger(b)'
  <2>1. /\ In(b)' = IF b = to THEN In(b) \cup {t} ELSE In(b)
        /\ Out(b)' = IF b = from THEN Out(b) \cup {t} ELSE Out(b)
    BY <1>2, <1>5, <1>6 DEF In, Out, Completed
  <2>2. /\ IsFiniteSet(In(b)) /\ IsFiniteSet(Out(b)) /\ Sum(In(b)) \in Nat /\ Sum(Out(b)) \in Nat
    BY <1>1, SumsAreNat
  <2>3. /\ t \notin In(b) /\ t \notin Out(b)
        /\ In(b) \cup {t} \subseteq Transfers /\ Out(b) \cup {t} \subseteq Transfers
    BY <1>2, <1>6 DEF In, Out, Completed
  <2>4. /\ SumFunctionOnSet(g, In(b) \cup {t}) = q + SumFunctionOnSet(f, In(b))
        /\ SumFunctionOnSet(g, In(b)) = SumFunctionOnSet(f, In(b))
    <3>1. PICK S, i, u, v : S = In(b) /\ i = t /\ u = f /\ v = g
      OBVIOUS
    <3>2. IsFiniteSet(S) /\ i \notin S /\ \A x \in S \cup {i} : u[x] \in Nat /\ v[x] = u[x]
      BY <1>8, <2>2, <2>3, <3>1
    <3>3. /\ SumFunctionOnSet(v, S \cup {i}) = u[i] + SumFunctionOnSet(u, S)
          /\ SumFunctionOnSet(v, S) = SumFunctionOnSet(u, S)
      BY <3>2, CompletionAdds
    <3> QED BY <1>9, <3>1, <3>3
  <2>5. /\ SumFunctionOnSet(g, Out(b) \cup {t}) = q + SumFunctionOnSet(f, Out(b))
        /\ SumFunctionOnSet(g, Out(b)) = SumFunctionOnSet(f, Out(b))
    <3>1. PICK S, i, u, v : S = Out(b) /\ i = t /\ u = f /\ v = g
      OBVIOUS
    <3>2. IsFiniteSet(S) /\ i \notin S /\ \A x \in S \cup {i} : u[x] \in Nat /\ v[x] = u[x]
      BY <1>8, <2>2, <2>3, <3>1
    <3>3. /\ SumFunctionOnSet(v, S \cup {i}) = u[i] + SumFunctionOnSet(u, S)
          /\ SumFunctionOnSet(v, S) = SumFunctionOnSet(u, S)
      BY <3>2, CompletionAdds
    <3> QED BY <1>9, <3>1, <3>3
  <2>6. /\ SumFunctionOnSet(g, In(b)') = IF b = to THEN q + Sum(In(b)) ELSE Sum(In(b))
        /\ SumFunctionOnSet(g, Out(b)') = IF b = from THEN q + Sum(Out(b)) ELSE Sum(Out(b))
    BY <2>1, <2>4, <2>5 DEF Sum, f
  <2>7. /\ stock[b] \in Nat /\ bought[b] \in Nat /\ stock[b] = bought[b] + Sum(In(b)) - Sum(Out(b))
        /\ stock \in [Places -> Nat] /\ b \in Places /\ from \in Places /\ to \in Places
    BY <1>1, <1>3 DEF TypeOK, Places, Ledger
  <2>8. stock'[b] = IF b = to THEN stock[b] + q ELSE IF b = from THEN stock[b] - q ELSE stock[b]
    BY <1>3, <1>4, <2>7
  <2>9. stock'[b] = bought'[b] + SumFunctionOnSet(g, In(b)') - SumFunctionOnSet(g, Out(b)')
    <3> DEFINE si == SumFunctionOnSet(g, In(b)')  so == SumFunctionOnSet(g, Out(b)')
    <3>1. CASE b = to
      <4>1. /\ si = q + Sum(In(b)) /\ so = Sum(Out(b)) /\ stock'[b] = stock[b] + q
            /\ bought'[b] = bought[b]
        BY <1>3, <1>4, <2>6, <2>8, <3>1
      <4> HIDE DEF si, so
      <4>2. stock'[b] = bought'[b] + si - so
        BY <1>3, <2>2, <2>7, <4>1
      <4> QED BY <4>2 DEF si, so
    <3>2. CASE b = from
      <4>1. /\ si = Sum(In(b)) /\ so = q + Sum(Out(b)) /\ stock'[b] = stock[b] - q
            /\ bought'[b] = bought[b]
        BY <1>3, <1>4, <2>6, <2>8, <3>2
      <4> HIDE DEF si, so
      <4>2. stock'[b] = bought'[b] + si - so
        BY <1>3, <2>2, <2>7, <4>1
      <4> QED BY <4>2 DEF si, so
    <3>3. CASE b # to /\ b # from
      BY <1>4, <2>6, <2>7, <2>8, <3>3
    <3> QED BY <3>1, <3>2, <3>3
  <2> QED BY <2>9 DEF Ledger, Sum, g
<1> QED BY <1>7, <1>10

(* Every other step of a request: a receipt adds what it says was bought, a  *)
(* reversal takes from the row without a branch.                             *)
LEMMA OtherStepsBooked ==
  ASSUME LedgerInv, NEW r \in Requests, Acts(r), ~CommitTransfer(r), NEW b \in Branches
  PROVE  stock'[b] - bought'[b] = stock[b] - bought[b]
<1>0. IInv /\ TypeOK /\ b \in Places /\ b # Global
  BY StockAssumption DEF LedgerInv, IInv, Places
<1>a. stock \in [Places -> Nat] /\ bought \in [Places -> Nat]
  BY <1>0 DEF TypeOK
<1>1. CASE CommitReceive(r)
  <2> DEFINE d == Max({req[r].delta, 0})
  <2>1. d \in Nat
    BY <1>0, MaxIsFloor DEF IInv, ReqTypeOK, Request
  <2>2. /\ stock' = [stock EXCEPT ![req[r].place] = @ + d]
        /\ bought' = [bought EXCEPT ![req[r].place] = @ + d]
    BY <1>1 DEF CommitReceive
  <2> HIDE DEF d
  <2>3. stock'[b] = IF b = req[r].place THEN stock[b] + d ELSE stock[b]
    BY <1>0, <1>a, <2>2
  <2>4. bought'[b] = IF b = req[r].place THEN bought[b] + d ELSE bought[b]
    BY <1>0, <1>a, <2>2
  <2> QED BY <1>0, <1>a, <2>1, <2>3, <2>4
<1>2. CASE CommitReverse(r)
  <2>1. stock'[b] = stock[b] /\ bought' = bought
    BY <1>0, <1>a, <1>2 DEF CommitReverse
  <2> QED BY <2>1
<1>3. CASE ~CommitReceive(r) /\ ~CommitReverse(r)
  <2>1. UNCHANGED <<stock, bought>>
    <3>1. CASE Starts(r)
      BY <3>1 DEF Starts, ReadTransfer, RequestReceive, RequestReverse, tables
    <3>2. CASE LockTransfer(r) \/ LockSource(r) \/ LockDestination(r) \/ InsertDestination(r)
      BY <3>2 DEF LockTransfer, LockSource, LockDestination, InsertDestination, tables
    <3>3. CASE LockItem(r) \/ LockLevel(r) \/ LockGlobal(r) \/ LockReset(r) \/ ReadReceived(r)
      BY <3>3 DEF LockItem, LockLevel, LockGlobal, LockReset, ReadReceived, tables
    <3>4. CASE SetStatus(r) \/ SoftDelete(r)
      BY <3>4 DEF SetStatus, SoftDelete
    <3>5. CASE DeadlockVictim(r) \/ Fail(r)
      BY <3>5 DEF DeadlockVictim, Fail, Rollback, tables
    <3> QED BY <1>3, <3>1, <3>2, <3>3, <3>4, <3>5 DEF Acts, Step
  <2> QED BY <2>1
<1> QED BY <1>1, <1>2, <1>3

LEMMA LedgerStep ==
  ASSUME LedgerInv, [Next]_vars
  PROVE  LedgerInv'
<1>0. IInv /\ IInv' /\ TypeOK /\ TypeOK' /\ IsFiniteSet(Completed)
  BY NextIInv DEF LedgerInv, IInv
<1>1. IsFiniteSet(Completed)' /\ \A b \in Branches : Ledger(b)'
  <2>1. ASSUME NEW r \in Requests, CommitTransfer(r)
        PROVE  IsFiniteSet(Completed)' /\ \A b \in Branches : Ledger(b)'
    BY <2>1, TransferBooked
  <2>2. ASSUME \/ \E r \in Requests : Acts(r) /\ ~CommitTransfer(r)
               \/ \E t \in Transfers : CreateTransfer(t) \/ RejectTransfer(t)
               \/ UNCHANGED vars \/ \E o \in Purchases : PatchOrder(o)
        PROVE  /\ \A b \in Branches : stock'[b] - bought'[b] = stock[b] - bought[b]
               /\ \A t \in Transfers :
                    /\ transfer'[t].status = "completed" <=> transfer[t].status = "completed"
                    /\ transfer[t].status = "completed" => transfer'[t] = transfer[t]
    <3>1. ASSUME NEW r \in Requests, Acts(r), ~CommitTransfer(r)
          PROVE  /\ UNCHANGED transfer
                 /\ \A b \in Branches : stock'[b] - bought'[b] = stock[b] - bought[b]
      BY <3>1, TransfersStay, OtherStepsBooked
    <3>2. ASSUME NEW t \in Transfers, CreateTransfer(t) \/ RejectTransfer(t)
          PROVE  /\ UNCHANGED <<stock, bought>>
                 /\ \A x \in Transfers \ {t} : transfer'[x] = transfer[x]
                 /\ transfer[t].status # "completed" /\ transfer'[t].status # "completed"
      <4>1. /\ UNCHANGED <<stock, bought>> /\ transfer[t].status \in {"none", "pending"}
        BY <3>2 DEF CreateTransfer, RejectTransfer, Pending
      <4>2. PICK row : transfer' = [transfer EXCEPT ![t] = row] /\ row.status # "completed"
        <5>1. CASE CreateTransfer(t)
          BY <5>1 DEF CreateTransfer
        <5>2. CASE RejectTransfer(t)
          <6>1. transfer' = [transfer EXCEPT ![t] = [transfer[t] EXCEPT !.status = "rejected"]]
            BY <5>2 DEF RejectTransfer
          <6>2. [transfer[t] EXCEPT !.status = "rejected"].status = "rejected"
            BY <1>0 DEF TypeOK
          <6> QED BY <6>1, <6>2
        <5> QED BY <3>2, <5>1, <5>2
      <4> QED BY <1>0, <4>1, <4>2 DEF TypeOK
    <3>3. CASE UNCHANGED vars \/ \E o \in Purchases : PatchOrder(o)
      BY <3>3 DEF vars, tables, PatchOrder
    <3> QED BY <2>2, <3>1, <3>2, <3>3
  <2>3. ASSUME /\ \A b \in Branches : stock'[b] - bought'[b] = stock[b] - bought[b]
               /\ \A t \in Transfers :
                    /\ transfer'[t].status = "completed" <=> transfer[t].status = "completed"
                    /\ transfer[t].status = "completed" => transfer'[t] = transfer[t]
        PROVE  IsFiniteSet(Completed)' /\ \A b \in Branches : Ledger(b)'
    <3>1. Completed' = Completed
      BY <2>3 DEF Completed
    <3> QED BY <1>0, <2>3, <3>1, NothingMoved
  <2> QED BY <2>1, <2>2, <2>3 DEF Next, Acts
<1> QED BY <1>0, <1>1, LockedStays DEF LedgerInv

LEMMA LedgerStarts ==
  ASSUME Init
  PROVE  LedgerInv
<1>1. Completed = {}
  BY DEF Init, Completed
<1>2. ASSUME NEW b \in Branches PROVE Ledger(b)
  <2>1. In(b) = {} /\ Out(b) = {}
    BY <1>1 DEF In, Out
  <2>2. stock[b] = 0 /\ bought[b] = 0
    BY DEF Init, Places
  <2> QED BY <2>1, <2>2, SumEmpty DEF Ledger, Sum
<1>3. \A r \in Requests : Locked(r)
  BY DEF Init, Idle, Locked
<1> QED BY <1>1, <1>2, <1>3, InitIInv, FS_EmptySet DEF LedgerInv

(* A branch has what was received there and what the completed transfers     *)
(* moved, each of them once, for any number of branches, transfers and       *)
(* requests whose transactions overlap, wait for each other and fail.        *)
THEOREM BranchesKeepLedger == Spec => []BranchLedger
<1>1. Init => LedgerInv
  BY LedgerStarts
<1>2. LedgerInv => BranchLedger
  BY DEF LedgerInv, Ledger, In, Out, BranchLedger
<1>3. LedgerInv /\ [Next]_vars => LedgerInv'
  BY LedgerStep
<1> QED BY <1>1, <1>2, <1>3, PTL DEF Spec

(* Whoever decides a transfer finds it pending, and pending since the lock   *)
(* was taken: the second of two completions, or a completion that was on its *)
(* way when the transfer was rejected, does not decide it again.             *)
LEMMA DecidedStays ==
  ASSUME LedgerInv, [Next]_vars,
         NEW t \in Transfers, transfer[t].status \in {"completed", "rejected"}
  PROVE  transfer'[t].status = transfer[t].status
<1>0. IInv /\ TypeOK
  BY DEF LedgerInv, IInv
<1>1. ASSUME NEW r \in Requests, CommitTransfer(r)
      PROVE  transfer'[t].status = transfer[t].status
  <2>1. req[r].pc = "move" /\ transfer' = [transfer EXCEPT ![req[r].of].status = "completed"]
    BY <1>1 DEF CommitTransfer, At
  <2>2. transfer[req[r].of].status = "pending"
    BY <2>1 DEF LedgerInv, Locked
  <2> QED BY <1>0, <2>1, <2>2 DEF TypeOK
<1>2. ASSUME NEW r \in Requests, Acts(r), ~CommitTransfer(r)
      PROVE  transfer'[t].status = transfer[t].status
  BY <1>2, TransfersStay
<1>3. ASSUME NEW x \in Transfers, CreateTransfer(x) \/ RejectTransfer(x)
      PROVE  transfer'[t].status = transfer[t].status
  <2>1. x # t
    BY <1>3 DEF CreateTransfer, RejectTransfer, Pending
  <2>2. transfer'[t] = transfer[t]
    BY <1>0, <1>3, <2>1 DEF CreateTransfer, RejectTransfer, TypeOK
  <2> QED BY <2>2
<1>4. CASE UNCHANGED vars \/ \E o \in Purchases : PatchOrder(o)
  BY <1>4 DEF vars, tables, PatchOrder
<1> QED BY <1>1, <1>2, <1>3, <1>4 DEF Next, Acts

(* A transfer that was completed or rejected stays so, whatever completions  *)
(* and rejections of it overlap, for any number of requests.                 *)
THEOREM DecisionsAreFinal == Spec => DecidedIsFinal
<1> DEFINE Stays == \A t \in Transfers : transfer[t].status \in {"completed", "rejected"} =>
                      transfer'[t].status = transfer[t].status
<1>1. Init => LedgerInv
  BY LedgerStarts
<1>2. LedgerInv /\ [Next]_vars => LedgerInv' /\ [Stays]_vars
  BY LedgerStep, DecidedStays
<1>3. QED BY <1>1, <1>2, PTL DEF Spec, DecidedIsFinal
==============================================================================
