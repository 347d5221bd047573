--------------------------- MODULE FinancingProofs ---------------------------
(***************************************************************************)
(* Financing, for any terms, amounts, staff, payments and callbacks: what  *)
(* holds of receipts and of a cancelled agreement (Inv), and what holds of *)
(* the schedule and the money on it (LedgerInv).                           *)
(*                                                                         *)
(* LedgerInv adds to the tables what each request under way knows of them: *)
(* a transaction that has written its rows holds them, so that what it     *)
(* wrote them from still shows when it commits, and no other transaction   *)
(* holds the same rows or the same payment.                                *)
(*                                                                         *)
(* AccountInv (no reversals), ClosedInv (no waiver against a reversal) and *)
(* TotalsInv (one writing transaction of staff at a time) add what the     *)
(* rows and the totals of a request may lag behind.                        *)
(***************************************************************************)
EXTENDS Financing, SumFacts, TLAPS

PayRow == [status : {"absent", "initiated", "pending", "succeeded", "failed", "reversed"},
           amount : PayAmounts \cup {0},
           receipt : Payments \cup {NoPayment},
           outcome : {"none", "exact", "mismatch", "failure"}]

(* A request that will insert a payment holds an amount and a receipt.       *)
RequestsInsertRows ==
  /\ req = [s \in Staff |-> req[s]]
  /\ \A s \in Staff : req[s].pc = "write" /\ req[s].kind = "record" =>
       req[s].amount \in PayAmounts /\ req[s].receipt \in Payments \cup {NoPayment}

(* No two rows of financing_payments hold one receipt, whatever their status. *)
ReceiptsDiffer ==
  \A p, q \in Payments : p # q /\ pay[p].receipt # NoPayment => pay[p].receipt # pay[q].receipt

Inv == pay \in [Payments -> PayRow] /\ RequestsInsertRows /\ ReceiptsDiffer

-----------------------------------------------------------------------------
(* No step takes a cancelled agreement out of that status.                   *)
LEMMA ApplyKeepsCancelled ==
  ASSUME NEW p, NEW pays, Apply(p, pays), status = "cancelled"
  PROVE  status' = "cancelled"
BY DEF Apply, Completes

LEMMA StepKeepsCancelled ==
  ASSUME [Next]_vars, status = "cancelled"
  PROVE  status' = "cancelled"
<1>1. ASSUME NEW s \in Staff, Request(s) PROVE status' = "cancelled"
  <2>1. CASE RecordPayment(s)
    BY <2>1, ApplyKeepsCancelled DEF RecordPayment, agreement
  <2>2. CASE ApproveApplication(s)
    BY <2>2 DEF ApproveApplication, AgreementExists, agreement
  <2>3. CASE Commit(s)
    BY <2>3 DEF Commit
  <2>4. CASE \/ ReadDraft(s) \/ EditApplication(s) \/ SubmitApplication(s)
             \/ ReviewApplication(s) \/ RejectApplication(s) \/ ReadTerms(s)
    BY <2>4 DEF ReadDraft, EditApplication, SubmitApplication, ReviewApplication,
                RejectApplication, ReadTerms, agreement
  <2>5. CASE \/ ReadPayable(s) \/ InitiateMpesaPayment(s) \/ ReadAgreement(s)
             \/ ReleaseProduct(s) \/ CancelAgreement(s)
    BY <2>5 DEF ReadPayable, InitiateMpesaPayment, ReadAgreement, ReleaseProduct,
                CancelAgreement, agreement
  <2>6. CASE ReadSchedules(s) \/ WriteWaiver(s) \/ Adjust(s) \/ WriteReversal(s) \/ Abort(s)
    BY <2>6 DEF ReadSchedules, WriteWaiver, Adjust, WriteReversal, Abort, agreement
  <2>7. QED BY <1>1, <2>1, <2>2, <2>3, <2>4, <2>5, <2>6 DEF Request
<1>2. ASSUME NEW s \in Staff, ReadPayment(s) PROVE status' = "cancelled"
  BY <1>2 DEF ReadPayment, agreement
<1>3. ASSUME NEW p \in Payments, Callback(p) PROVE status' = "cancelled"
  BY <1>3, ApplyKeepsCancelled
     DEF Callback, CallbackFails, CallbackMismatch, StoreReceipt, ApplyCallback, agreement
<1>4. CASE RefreshOverdueStatuses
  BY <1>4 DEF RefreshOverdueStatuses, agreement
<1>5. CASE UNCHANGED vars
  BY <1>5 DEF vars
<1>6. QED BY <1>1, <1>2, <1>3, <1>4, <1>5 DEF Next

(* A cancelled agreement is never active or completed again, however late a  *)
(* callback, a reversal or an approval comes.                                *)
THEOREM CancelledIsFinal == Spec => CancelledStaysCancelled
<1>1. [Next]_vars => [status = "cancelled" => status' = "cancelled"]_vars
  BY StepKeepsCancelled
<1>2. QED BY <1>1, PTL DEF Spec, CancelledStaysCancelled

-----------------------------------------------------------------------------
(* A step that replaces one row keeps the receipts apart when the row's new  *)
(* receipt is none, its old one, or one that no row holds.                   *)
LEMMA OneRowWritten ==
  ASSUME pay \in [Payments -> PayRow], ReceiptsDiffer,
         NEW p \in Payments, NEW row \in PayRow, pay' = [pay EXCEPT ![p] = row],
         \/ row.receipt \in {NoPayment, pay[p].receipt}
         \/ \A q \in Payments : pay[q].receipt # row.receipt
  PROVE  pay' \in [Payments -> PayRow] /\ ReceiptsDiffer'
<1>1. pay' \in [Payments -> PayRow]
  OBVIOUS
<1>2. pay'[p] = row /\ \A q \in Payments \ {p} : pay'[q] = pay[q]
  OBVIOUS
<1>3. ASSUME NEW a \in Payments, NEW b \in Payments, a # b, pay'[a].receipt # NoPayment
      PROVE  pay'[a].receipt # pay'[b].receipt
  <2>1. CASE a # p /\ b # p
    BY <1>2, <1>3, <2>1 DEF ReceiptsDiffer
  <2>2. CASE a = p
    BY <1>2, <1>3, <2>2 DEF ReceiptsDiffer
  <2>3. CASE b = p
    BY <1>2, <1>3, <2>3 DEF ReceiptsDiffer
  <2>4. QED BY <2>1, <2>2, <2>3
<1>4. QED BY <1>1, <1>3 DEF ReceiptsDiffer

(* applySucceededPayment changes nothing of payments but the status of one.  *)
LEMMA ApplyWritesStatus ==
  ASSUME NEW p \in Payments, NEW pays, Apply(p, pays)
  PROVE  pay' = [pays EXCEPT ![p].status = "succeeded"]
BY DEF Apply

LEMMA InitInv == Init => Inv
<1> SUFFICES ASSUME Init PROVE Inv
  OBVIOUS
<1>1. pay \in [Payments -> PayRow]
  BY DEF Init, PayRow
<1>2. RequestsInsertRows
  BY DEF Init, RequestsInsertRows, NotStarted
<1>3. ReceiptsDiffer
  BY DEF Init, ReceiptsDiffer
<1>4. QED BY <1>1, <1>2, <1>3 DEF Inv

(* A step of one request keeps the others' rows.                             *)
LEMMA RequestMoves ==
  ASSUME RequestsInsertRows, NEW s \in Staff, NEW r, req' = [req EXCEPT ![s] = r],
         r.pc = "write" /\ r.kind = "record" =>
           r.amount \in PayAmounts /\ r.receipt \in Payments \cup {NoPayment}
  PROVE  RequestsInsertRows'
<1>1. req' = [u \in Staff |-> req'[u]]
  BY DEF RequestsInsertRows
<1>2. req'[s] = r /\ \A u \in Staff \ {s} : req'[u] = req[u]
  BY DEF RequestsInsertRows
<1>3. ASSUME NEW u \in Staff, req'[u].pc = "write", req'[u].kind = "record"
      PROVE  req'[u].amount \in PayAmounts /\ req'[u].receipt \in Payments \cup {NoPayment}
  BY <1>2, <1>3 DEF RequestsInsertRows
<1>4. QED BY <1>1, <1>3 DEF RequestsInsertRows

LEMMA RequestKeepsRows ==
  ASSUME RequestsInsertRows, NEW s \in Staff, Request(s) \/ ReadPayment(s)
  PROVE  RequestsInsertRows'
<1>0. NotStarted.pc = "idle" /\ NotStarted.kind = "none"
  BY DEF NotStarted
<1>1. ASSUME NEW pc, NEW kind, Goto(s, pc, kind), kind # "record" PROVE RequestsInsertRows'
  <2> DEFINE r == [NotStarted EXCEPT !.pc = pc, !.kind = kind]
  <2>1. r.kind = kind
    BY DEF NotStarted
  <2>2. req' = [req EXCEPT ![s] = r]
    BY <1>1 DEF Goto
  <2> HIDE DEF r
  <2>3. QED BY <1>1, <2>1, <2>2, RequestMoves
<1>2. ASSUME Done(s) PROVE RequestsInsertRows'
  BY <1>0, <1>2, RequestMoves DEF Done
<1>3. ASSUME NEW r, req' = [req EXCEPT ![s] = r], r.kind # "record" PROVE RequestsInsertRows'
  BY <1>3, RequestMoves
<1>4. CASE ReadDraft(s)
  BY <1>4, <1>1 DEF ReadDraft
<1>5. CASE EditApplication(s) \/ RejectApplication(s) \/ ApproveApplication(s)
           \/ RecordPayment(s) \/ ReleaseProduct(s) \/ CancelAgreement(s) \/ Commit(s) \/ Abort(s)
  BY <1>5, <1>2 DEF EditApplication, RejectApplication, ApproveApplication, RecordPayment,
                    ReleaseProduct, CancelAgreement, Commit, Abort
<1>6. CASE SubmitApplication(s)
  BY <1>6, <1>1, <1>2 DEF SubmitApplication
<1>7. CASE ReviewApplication(s)
  BY <1>7, <1>1 DEF ReviewApplication
<1>8. CASE ReadAgreement(s)
  BY <1>8, <1>1 DEF ReadAgreement
<1>9. CASE ReadTerms(s)
  <2> DEFINE new == [NotStarted EXCEPT !.pc = "approve", !.plan = app.plan]
  <2>1. new.kind = "none"
    BY DEF NotStarted
  <2>2. req' = [req EXCEPT ![s] = new]
    BY <1>9 DEF ReadTerms
  <2> HIDE DEF new
  <2>3. QED BY <2>1, <2>2, RequestMoves
<1>10. CASE InitiateMpesaPayment(s)
  BY <1>10 DEF InitiateMpesaPayment, RequestsInsertRows
<1>11. CASE ReadPayable(s)
  <2>1. PICK amount \in PayAmounts,
             r \in {NoPayment} \cup {q \in Payments : pay[q].outcome \in {"exact", "mismatch"}} :
               req' = [req EXCEPT ![s] = [NotStarted EXCEPT !.pc = "write", !.kind = "record",
                                                            !.amount = amount, !.receipt = r]]
    BY <1>11 DEF ReadPayable
  <2> DEFINE new == [NotStarted EXCEPT !.pc = "write", !.kind = "record",
                                       !.amount = amount, !.receipt = r]
  <2>2. new.amount = amount /\ new.receipt = r
    BY DEF NotStarted
  <2>3. req' = [req EXCEPT ![s] = new]
    BY <2>1
  <2>4. amount \in PayAmounts /\ r \in Payments \cup {NoPayment}
    BY <2>1
  <2> HIDE DEF new
  <2>5. QED BY <2>2, <2>3, <2>4, RequestMoves
<1>12. CASE ReadSchedules(s)
  <2>1. PICK amount : req' = [req EXCEPT ![s] = [NotStarted EXCEPT !.pc = "transaction",
                                     !.kind = "waive", !.amount = amount, !.rows = inst]]
    BY <1>12 DEF ReadSchedules
  <2> DEFINE new == [NotStarted EXCEPT !.pc = "transaction", !.kind = "waive",
                                       !.amount = amount, !.rows = inst]
  <2>2. new.kind = "waive"
    BY DEF NotStarted
  <2>3. req' = [req EXCEPT ![s] = new]
    BY <2>1
  <2> HIDE DEF new
  <2>4. QED BY <2>2, <2>3, RequestMoves
<1>13. ASSUME NEW kind, NEW p, NEW rows, NEW locks, NEW pays,
              Wrote(s, kind, p, rows, locks, pays), kind # "record"
       PROVE  RequestsInsertRows'
  <2> DEFINE new == [NotStarted EXCEPT !.pc = "commit", !.kind = kind, !.pay = p,
                                  !.rows = rows, !.locks = locks, !.totals = Recalc(rows, pays)]
  <2>1. new.kind = kind
    BY DEF NotStarted
  <2>2. req' = [req EXCEPT ![s] = new]
    BY <1>13 DEF Wrote
  <2> HIDE DEF new
  <2>3. QED BY <1>13, <2>1, <2>2, <1>3
<1>14. CASE WriteWaiver(s)
  BY <1>14, <1>13 DEF WriteWaiver
<1>15. CASE Adjust(s)
  BY <1>15, <1>13 DEF Adjust
<1>16. CASE WriteReversal(s)
  BY <1>16, <1>13 DEF WriteReversal
<1>17. CASE ReadPayment(s)
  <2>1. PICK p : req' = [req EXCEPT ![s] = [NotStarted EXCEPT !.pc = "transaction",
                                                              !.kind = "reverse", !.pay = p]]
    BY <1>17 DEF ReadPayment
  <2> DEFINE new == [NotStarted EXCEPT !.pc = "transaction", !.kind = "reverse", !.pay = p]
  <2>2. new.kind = "reverse"
    BY DEF NotStarted
  <2>3. req' = [req EXCEPT ![s] = new]
    BY <2>1
  <2> HIDE DEF new
  <2>4. QED BY <2>2, <2>3, RequestMoves
<1>18. QED
  BY <1>4, <1>5, <1>6, <1>7, <1>8, <1>9, <1>10, <1>11, <1>12, <1>14, <1>15, <1>16, <1>17
     DEF Request

(* A status changes, and nothing else of the row.                            *)
LEMMA StatusWritten ==
  ASSUME pay \in [Payments -> PayRow], ReceiptsDiffer, NEW p \in Payments,
         NEW st \in {"initiated", "pending", "succeeded", "failed", "reversed"},
         pay' = [pay EXCEPT ![p].status = st]
  PROVE  pay' \in [Payments -> PayRow] /\ ReceiptsDiffer'
<1> DEFINE row == [pay[p] EXCEPT !.status = st]
<1>1. row \in PayRow /\ row.receipt = pay[p].receipt
  BY DEF PayRow
<1>2. pay' = [pay EXCEPT ![p] = row]
  OBVIOUS
<1> HIDE DEF row
<1>3. QED BY <1>1, <1>2, OneRowWritten

LEMMA RecordKeepsReceipts ==
  ASSUME Inv, NEW s \in Staff, RecordPayment(s)
  PROVE  pay' \in [Payments -> PayRow] /\ ReceiptsDiffer'
<1>1. CASE UNCHANGED pay
  BY <1>1 DEF Inv, ReceiptsDiffer
<1>2. CASE ~ReceiptTaken(req[s].receipt)
  <2> DEFINE row == [status |-> "pending", amount |-> req[s].amount,
                     receipt |-> req[s].receipt, outcome |-> "none"]
             new == [status |-> "succeeded", amount |-> req[s].amount,
                     receipt |-> req[s].receipt, outcome |-> "none"]
  <2>1. CASE \A p \in Payments : ~Apply(p, Inserted(p, row))
    BY <1>1, <2>1 DEF RecordPayment
  <2>2. ASSUME NEW p \in Payments, Apply(p, Inserted(p, row))
        PROVE  pay' \in [Payments -> PayRow] /\ ReceiptsDiffer'
    <3>1. pay' = [Inserted(p, row) EXCEPT ![p].status = "succeeded"]
      BY <2>2, ApplyWritesStatus
    <3>2. pay' = [pay EXCEPT ![p] = [row EXCEPT !.status = "succeeded"]]
      BY <3>1 DEF Inv, Inserted
    <3>3. [row EXCEPT !.status = "succeeded"] = new
      OBVIOUS
    <3>4. req[s].amount \in PayAmounts /\ req[s].receipt \in Payments \cup {NoPayment}
      BY DEF Inv, RequestsInsertRows, RecordPayment, At
    <3>5. new \in PayRow /\ new.receipt = req[s].receipt
      BY <3>4 DEF PayRow
    <3>6. req[s].receipt = NoPayment \/ \A q \in Payments : pay[q].receipt # req[s].receipt
      BY <1>2 DEF ReceiptTaken, HoldsReceipt
    <3> HIDE DEF row, new
    <3>7. pay' = [pay EXCEPT ![p] = new]
      BY <3>2, <3>3
    <3>8. QED BY <3>5, <3>6, <3>7, OneRowWritten DEF Inv
  <2>3. QED BY <2>1, <2>2
<1>3. QED BY <1>1, <1>2 DEF RecordPayment

LEMMA CallbackKeepsReceipts ==
  ASSUME Inv, NEW p \in Payments, Callback(p)
  PROVE  pay' \in [Payments -> PayRow] /\ ReceiptsDiffer'
<1>1. CASE CallbackFails(p)
  BY <1>1, StatusWritten DEF CallbackFails, Inv
<1>2. CASE CallbackMismatch(p)
  <2> DEFINE row == [pay[p] EXCEPT !.status = "pending", !.receipt = p]
  <2>1. row \in PayRow /\ row.receipt = p
    BY DEF Inv, PayRow
  <2>2. pay' = [pay EXCEPT ![p] = row]
    BY <1>2 DEF CallbackMismatch, Inv
  <2>3. p = pay[p].receipt \/ p = NoPayment \/ \A q \in Payments : pay[q].receipt # p
    BY <1>2 DEF CallbackMismatch, ReceiptTaken, HoldsReceipt
  <2> HIDE DEF row
  <2>4. QED BY <2>1, <2>2, <2>3, OneRowWritten DEF Inv
<1>3. CASE StoreReceipt(p)
  <2> DEFINE row == [pay[p] EXCEPT !.receipt = p]
  <2>1. row \in PayRow /\ row.receipt = p
    BY DEF Inv, PayRow
  <2>2. pay' = [pay EXCEPT ![p] = row]
    BY <1>3 DEF StoreReceipt, Inv
  <2>3. p = NoPayment \/ \A q \in Payments : pay[q].receipt # p
    BY <1>3 DEF StoreReceipt, ReceiptTaken, HoldsReceipt
  <2> HIDE DEF row
  <2>4. QED BY <2>1, <2>2, <2>3, OneRowWritten DEF Inv
<1>4. CASE ApplyCallback(p)
  <2>1. pay' = [pay EXCEPT ![p].status = "succeeded"]
    BY <1>4, ApplyWritesStatus DEF ApplyCallback
  <2>2. QED BY <2>1, StatusWritten DEF Inv
<1>5. QED BY <1>1, <1>2, <1>3, <1>4 DEF Callback

LEMMA RequestKeepsReceipts ==
  ASSUME Inv, NEW s \in Staff, Request(s)
  PROVE  pay' \in [Payments -> PayRow] /\ ReceiptsDiffer'
<1>1. CASE UNCHANGED pay
  BY <1>1 DEF Inv, ReceiptsDiffer
<1>2. CASE RecordPayment(s)
  BY <1>2, RecordKeepsReceipts
<1>3. CASE InitiateMpesaPayment(s)
  <2>1. PICK p \in Payments, amount \in PayAmounts,
             outcome \in {"exact", "mismatch", "failure"} :
               pay' = Inserted(p, [status |-> "initiated", amount |-> amount,
                                   receipt |-> NoPayment, outcome |-> outcome])
    BY <1>3 DEF InitiateMpesaPayment
  <2> DEFINE row == [status |-> "initiated", amount |-> amount,
                     receipt |-> NoPayment, outcome |-> outcome]
  <2>2. row \in PayRow /\ row.receipt = NoPayment
    BY DEF PayRow
  <2>3. pay' = [pay EXCEPT ![p] = row]
    BY <2>1 DEF Inserted
  <2> HIDE DEF row
  <2>4. QED BY <2>2, <2>3, OneRowWritten DEF Inv
<1>4. CASE Commit(s)
  <2>1. CASE req[s].pay \in Payments /\ pay' = [pay EXCEPT ![req[s].pay].status = "reversed"]
    BY <2>1, StatusWritten DEF Inv
  <2>2. CASE req[s].pay \notin Payments /\ pay' = [pay EXCEPT ![req[s].pay].status = "reversed"]
    BY <2>2, <1>1 DEF Inv
  <2>3. QED BY <1>1, <1>4, <2>1, <2>2 DEF Commit
<1>5. CASE \/ ReadDraft(s) \/ EditApplication(s) \/ SubmitApplication(s)
           \/ ReviewApplication(s) \/ RejectApplication(s) \/ ReadTerms(s) \/ ApproveApplication(s)
  BY <1>1, <1>5 DEF ReadDraft, EditApplication, SubmitApplication, ReviewApplication,
                    RejectApplication, ReadTerms, ApproveApplication
<1>6. CASE ReadPayable(s) \/ ReadAgreement(s) \/ ReleaseProduct(s) \/ CancelAgreement(s)
  BY <1>1, <1>6 DEF ReadPayable, ReadAgreement, ReleaseProduct, CancelAgreement
<1>7. CASE ReadSchedules(s) \/ WriteWaiver(s) \/ Adjust(s) \/ WriteReversal(s) \/ Abort(s)
  BY <1>1, <1>7 DEF ReadSchedules, WriteWaiver, Adjust, WriteReversal, Abort
<1>8. QED BY <1>2, <1>3, <1>4, <1>5, <1>6, <1>7 DEF Request

LEMMA StepInv == Inv /\ [Next]_vars => Inv'
<1> SUFFICES ASSUME Inv, [Next]_vars PROVE Inv'
  OBVIOUS
<1>1. ASSUME NEW s \in Staff, Request(s) PROVE Inv'
  BY <1>1, RequestKeepsRows, RequestKeepsReceipts DEF Inv
<1>2. ASSUME NEW s \in Staff, ReadPayment(s) PROVE Inv'
  <2>1. RequestsInsertRows'
    BY <1>2, RequestKeepsRows DEF Inv
  <2>2. UNCHANGED pay
    BY <1>2 DEF ReadPayment
  <2>3. QED BY <2>1, <2>2 DEF Inv, ReceiptsDiffer
<1>3. ASSUME NEW p \in Payments, Callback(p) PROVE Inv'
  <2>1. UNCHANGED req
    BY <1>3 DEF Callback, CallbackFails, CallbackMismatch, StoreReceipt, ApplyCallback
  <2>2. RequestsInsertRows'
    BY <2>1 DEF Inv, RequestsInsertRows
  <2>3. QED BY <1>3, <2>2, CallbackKeepsReceipts DEF Inv
<1>4. CASE RefreshOverdueStatuses
  BY <1>4 DEF RefreshOverdueStatuses, Inv, RequestsInsertRows, ReceiptsDiffer
<1>5. CASE UNCHANGED vars
  BY <1>5 DEF vars, Inv, RequestsInsertRows, ReceiptsDiffer
<1>6. QED BY <1>1, <1>2, <1>3, <1>4, <1>5 DEF Next

(* A receipt of Safaricom counts once, whichever of callbacks and desks       *)
(* bring it, and in whatever order.                                           *)
THEOREM ReceiptsCountOnce == Spec => []ReceiptCountsOnce
<1>1. Inv => ReceiptCountsOnce
  BY DEF Inv, ReceiptsDiffer, ReceiptCountsOnce, Succeeded
<1>2. QED BY InitInv, StepInv, <1>1, PTL DEF Spec

-----------------------------------------------------------------------------
(* The schedule, its payments and the requests that change them.             *)

Row == [paid : Nat, waived : Nat, status : {"pending", "partially_paid", "overdue", "paid"}]
Totals == [paid : Nat, outstanding : Nat, credit : Nat]
Application == [status : {"draft", "submitted", "approved", "rejected"},
                plan : Plans, consent : BOOLEAN]

(* The instalments of the agreement, once it is made *)
Index == IF status = "none" THEN {} ELSE 1..plan.terms

TablesTyped ==
  /\ app \in Application
  /\ status \in {"none", "active", "completed", "cancelled"}
  /\ IF status = "none" THEN plan = NoPlan ELSE plan \in Plans
  /\ owner \in {"seller", "transferred"} /\ released \in BOOLEAN
  /\ totals \in Totals /\ inst \in [Index -> Row]
  /\ alloc \in [Payments -> [Index -> Nat]]
  /\ reversals \in 0..MaxReversals

(* A transaction that has written its rows holds them, and they still show    *)
(* what it wrote them from.                                                   *)
Holds(r) ==
  /\ r.locks \subseteq Index /\ r.rows \in [Index -> Row] /\ r.totals \in Totals
  /\ r.kind # "reverse" =>
       r.pay = NoPayment /\ \A i \in r.locks : r.rows[i].paid = inst[i].paid
  /\ r.kind = "reverse" =>
       /\ r.pay \in Payments
       /\ \A i \in Index : i \in r.locks <=> alloc[r.pay][i] > 0
       /\ \A i \in r.locks : r.rows[i].paid = AtLeast0(inst[i].paid - alloc[r.pay][i])

(* What a request r knows of the tables is still so.                          *)
Fits(r) ==
  /\ r.pc \in Pc
  /\ r.pc = "approve" => r.plan \in Plans
  /\ r.pc = "write" /\ r.kind \in {"record", "release", "cancel"} => status # "none"
  /\ r.pc = "transaction" =>
       /\ status # "none"
       /\ r.kind = "waive" => r.amount \in Nat /\ r.rows \in [Index -> Row]
       /\ r.kind = "reverse" => r.pay \in Payments
  /\ r.pc # "commit" => r.locks = {}
  /\ r.pc = "commit" => status # "none" /\ Holds(r)
RequestsFit == \A s \in Staff : Fits(req[s])

(* Two transactions hold different rows and different payments.               *)
Apart(r, q) == /\ r.locks \cap q.locks = {}
               /\ r.pc = "commit" /\ q.pc = "commit" => r.pay = NoPayment \/ r.pay # q.pay
LocksApart == \A s, u \in Staff : s # u => Apart(req[s], req[u])

Blank(row) == row.status = "absent" /\ row.amount = 0 /\ row.outcome = "none"
AbsentIsBlank ==
  \A p \in Payments : status = "none" \/ pay[p].status = "absent" => Blank(pay[p])

(* What payments that count have allocated to instalment i                    *)
Pool(i) == SumFunctionOnSet([p \in Payments |-> alloc[p][i]], Succeeded(pay))
WithinPool == \A i \in Index : inst[i].paid <= Amount(plan, i) /\ inst[i].paid <= Pool(i)

LedgerInv == /\ Inv /\ TablesTyped /\ RequestsFit /\ LocksApart /\ AbsentIsBlank
             /\ IsFiniteSet(Succeeded(pay)) /\ WithinPool

-----------------------------------------------------------------------------
(* The terms and the waterfall                                               *)

LEMMA AmountIsNat ==
  ASSUME NEW t \in Plans
  PROVE  Financed(t) \in Nat /\ t.terms \in Nat \ {0} /\ \A i : Amount(t, i) \in Nat
<1>1. t.cash \in Nat /\ t.deposit \in Nat /\ t.charge \in Nat /\ t.terms \in Nat \ {0}
      /\ t.deposit <= t.cash
  BY FinancingAssumption DEF Plan
<1>2. Financed(t) \in Nat
  BY <1>1 DEF Financed
<1>3. Instalment(t) \in Nat /\ Instalment(t) * t.terms <= Financed(t)
  <2>1. PICK n \in Nat, m \in Nat \ {0} : n = Financed(t) /\ m = t.terms
    BY <1>1, <1>2
  <2>2. n \div m \in Nat /\ (n \div m) * m <= n
    BY <2>1
  <2> QED BY <2>1, <2>2 DEF Instalment
<1>4. Instalment(t) + Financed(t) - Instalment(t) * t.terms \in Nat
  <2>1. PICK n \in Nat, m \in Nat \ {0}, k \in Nat : n = Financed(t) /\ m = t.terms /\ k = Instalment(t)
    BY <1>1, <1>2, <1>3
  <2>2. PICK x \in Nat : x = k * m
    BY <2>1
  <2>3. x <= n
    BY <1>3, <2>1, <2>2
  <2> QED BY <2>1, <2>2, <2>3
<1> QED BY <1>1, <1>2, <1>3, <1>4 DEF Amount

LEMMA WaterfallBounds ==
  ASSUME NEW D, IsFiniteSet(D), NEW due \in [D -> Nat], NEW total \in Nat
  PROVE  /\ Waterfall(due, total) \in [D -> Nat]
         /\ \A i \in D : Waterfall(due, total)[i] <= due[i]
<1>1. ASSUME NEW i \in D
      PROVE  SumFunctionOnSet(due, {j \in D : j < i}) \in Nat
  BY FS_Subset, SumNat
<1>2. ASSUME NEW i \in D
      PROVE  /\ Waterfall(due, total)[i] \in Nat /\ Waterfall(due, total)[i] <= due[i]
             /\ Waterfall(due, total) = [x \in D |-> Waterfall(due, total)[x]]
  <2>1. PICK n \in Nat : n = SumFunctionOnSet(due, {j \in D : j < i})
    BY <1>1
  <2>2. Waterfall(due, total)[i] = Lesser(due[i], AtLeast0(total - n))
    BY <2>1 DEF Waterfall
  <2>3. AtLeast0(total - n) \in Nat /\ due[i] \in Nat
    BY DEF AtLeast0
  <2> QED BY <2>2, <2>3 DEF Lesser, Waterfall
<1>3. Waterfall(due, total) = [x \in D |-> Waterfall(due, total)[x]]
  BY DEF Waterfall
<1> QED BY <1>2, <1>3

LEMMA IndexIsFinite ==
  ASSUME TablesTyped
  PROVE  IsFiniteSet(Index) /\ (status # "none" => plan \in Plans /\ Index = 1..plan.terms)
<1>1. CASE status = "none"
  BY <1>1, FS_EmptySet DEF Index
<1>2. CASE status # "none"
  <2>1. plan \in Plans /\ Index = 1..plan.terms
    BY <1>2 DEF TablesTyped, Index
  <2>2. PICK n \in Nat : n = plan.terms
    BY <2>1, AmountIsNat
  <2>3. IsFiniteSet(1..n)
    BY FS_Interval
  <2> QED BY <2>1, <2>2, <2>3
<1> QED BY <1>1, <1>2

LEMMA FloorIsNat ==
  ASSUME NEW n \in Int
  PROVE  AtLeast0(n) \in Nat /\ AtLeast0(n) >= n /\ (n >= 0 => AtLeast0(n) = n)
                             /\ (n <= 0 => AtLeast0(n) = 0)
BY DEF AtLeast0

LEMMA RowSums ==
  ASSUME NEW D, IsFiniteSet(D), NEW rows \in [D -> Row]
  PROVE  Paid(rows) \in Nat /\ Waived(rows) \in Nat
<1> DEFINE f == [i \in D |-> rows[i].paid]  g == [i \in D |-> rows[i].waived]
<1>1. (\A i \in D : f[i] \in Nat /\ g[i] \in Nat) /\ DOMAIN f = D /\ DOMAIN g = D
  BY DEF Row
<1>2. Paid(rows) = SumFunctionOnSet(f, D) /\ Waived(rows) = SumFunctionOnSet(g, D)
  BY DEF Paid, Waived, SumFunction
<1> HIDE DEF f, g
<1> QED BY <1>1, <1>2, SumNat

LEMMA ReceivedIsNat ==
  ASSUME NEW pays \in [Payments -> PayRow], IsFiniteSet(Succeeded(pays))
  PROVE  Received(pays) \in Nat
<1> DEFINE f == [p \in Payments |-> pays[p].amount]
<1>1. \A p \in Succeeded(pays) : f[p] \in Nat
  <2>1. \A x \in PayAmounts \cup {0} : x \in Nat
    BY FinancingAssumption
  <2>2. \A p \in Payments : pays[p] \in PayRow /\ pays[p].amount \in PayAmounts \cup {0}
    BY DEF PayRow
  <2> QED BY <2>1, <2>2 DEF Succeeded
<1> HIDE DEF f
<1>2. SumFunctionOnSet(f, Succeeded(pays)) \in Nat
  BY <1>1, SumNat
<1> QED BY <1>2 DEF Received, f

LEMMA RecalcTyped ==
  ASSUME plan \in Plans, NEW D, IsFiniteSet(D), NEW rows \in [D -> Row],
         NEW pays \in [Payments -> PayRow], IsFiniteSet(Succeeded(pays))
  PROVE  Recalc(rows, pays) \in Totals
<1>1. Paid(rows) \in Nat /\ Waived(rows) \in Nat /\ Received(pays) \in Nat /\ Financed(plan) \in Nat
  BY RowSums, ReceivedIsNat, AmountIsNat
<1>2. Credit(rows, pays) \in Nat /\ AtLeast0(Financed(plan) - Paid(rows) - Waived(rows)) \in Nat
  BY <1>1, FloorIsNat DEF Credit
<1> QED BY <1>1, <1>2 DEF Recalc, Totals

LEMMA AmountsNat == \A x \in PayAmounts \cup {0} : x \in Nat
BY FinancingAssumption

LEMMA AmountsAreNat ==
  ASSUME Inv, NEW p \in Payments
  PROVE  pay[p] \in PayRow /\ pay[p].amount \in Nat
<1>1. pay[p] \in PayRow /\ pay[p].amount \in PayAmounts \cup {0}
  BY DEF Inv, PayRow
<1> QED BY <1>1, AmountsNat

-----------------------------------------------------------------------------
(* What a step leaves true of the requests                                   *)

FitsNext(r) == Fits(r)'

LEMMA FitsKept ==
  ASSUME NEW r, Fits(r), Index' = Index, status # "none" => status' # "none",
         r.pc = "commit" => \A i \in r.locks : inst'[i].paid = inst[i].paid,
         r.pc = "commit" /\ r.kind = "reverse" => alloc'[r.pay] = alloc[r.pay]
  PROVE  FitsNext(r)
<1> USE DEF Fits, FitsNext
<1>1. Holds(r) /\ r.pc = "commit" => Holds(r)'
  BY DEF Holds
<1> QED BY <1>1

LEMMA FitsStay ==
  ASSUME NEW r, Fits(r), UNCHANGED <<status, plan, inst, alloc>>
  PROVE  FitsNext(r)
<1>1. Index' = Index
  BY DEF Index
<1> QED BY <1>1, FitsKept

(* One request moves on; the others know what they knew. *)
LEMMA OneMoves ==
  ASSUME LedgerInv, NEW s \in Staff, NEW r, req' = [req EXCEPT ![s] = r], FitsNext(r),
         \A u \in Staff \ {s} : Apart(r, req[u]) /\ Apart(req[u], r),
         \A u \in Staff \ {s} : FitsNext(req[u])
  PROVE  RequestsFit' /\ LocksApart'
<1>1. req'[s] = r /\ \A u \in Staff \ {s} : req'[u] = req[u]
  BY DEF LedgerInv, Inv, RequestsInsertRows
<1>2. ASSUME NEW u \in Staff PROVE Fits(req[u])'
  <2>1. PICK q : q = req'[u]
    OBVIOUS
  <2>2. FitsNext(q)
    BY <1>1, <2>1
  <2> QED BY <2>1, <2>2 DEF FitsNext, Fits, Holds
<1>3. ASSUME NEW u \in Staff, NEW v \in Staff, u # v PROVE Apart(req[u], req[v])'
  BY <1>1, <1>3 DEF Apart, LedgerInv, LocksApart
<1> QED BY <1>2, <1>3 DEF RequestsFit, LocksApart

LEMMA NoneMoves ==
  ASSUME LedgerInv, UNCHANGED req, \A u \in Staff : FitsNext(req[u])
  PROVE  RequestsFit' /\ LocksApart'
<1>1. ASSUME NEW u \in Staff PROVE Fits(req[u])'
  <2>1. PICK q : q = req[u]
    OBVIOUS
  <2>2. FitsNext(q) /\ req'[u] = q
    BY <2>1
  <2> QED BY <2>1, <2>2 DEF FitsNext, Fits, Holds
<1> QED BY <1>1 DEF RequestsFit, LocksApart, Apart, LedgerInv

(* A request that holds no rows is apart from every other. *)
LEMMA FreeIsApart ==
  ASSUME LedgerInv, NEW r, r.locks = {}, r.pc # "commit"
  PROVE  \A u \in Staff : Apart(r, req[u]) /\ Apart(req[u], r)
BY DEF Apart

LEMMA DoneIsFree ==
  ASSUME NEW s \in Staff, Done(s)
  PROVE  /\ req' = [req EXCEPT ![s] = NotStarted] /\ FitsNext(NotStarted)
         /\ NotStarted.locks = {} /\ NotStarted.pc # "commit"
BY DEF Done, NotStarted, FitsNext, Fits, Pc

(* The tables but for the application are as they were, and so is the sum.   *)
LEMMA TablesKept ==
  ASSUME LedgerInv, UNCHANGED <<plan, inst, pay, alloc>>,
         status' \in {"none", "active", "completed", "cancelled"},
         status' = "none" <=> status = "none",
         app' \in Application, owner' \in {"seller", "transferred"}, released' \in BOOLEAN,
         totals' \in Totals, reversals' \in 0..MaxReversals
  PROVE  /\ TablesTyped' /\ AbsentIsBlank' /\ IsFiniteSet(Succeeded(pay))' /\ WithinPool'
         /\ Index' = Index
<1>1. Index' = Index
  BY DEF Index
<1>2. TablesTyped'
  BY <1>1 DEF LedgerInv, TablesTyped
<1>3. AbsentIsBlank' /\ IsFiniteSet(Succeeded(pay))'
  BY DEF LedgerInv, AbsentIsBlank, Blank, Succeeded
<1>4. ASSUME NEW i PROVE Pool(i)' = Pool(i)
  BY DEF Pool, Succeeded
<1>5. WithinPool'
  BY <1>1, <1>4 DEF LedgerInv, WithinPool, Amount, Instalment, Financed
<1> QED BY <1>1, <1>2, <1>3, <1>5

(* A step that writes a request and, it may be, the application, the status  *)
(* or the possession of the goods.                                           *)
LEMMA RequestOnly ==
  ASSUME LedgerInv, Inv', NEW s \in Staff, NEW r, req' = [req EXCEPT ![s] = r], Fits(r),
         \A u \in Staff \ {s} : Apart(r, req[u]) /\ Apart(req[u], r),
         UNCHANGED <<plan, owner, totals, inst, pay, alloc>>,
         status' \in {"none", "active", "completed", "cancelled"},
         status' = "none" <=> status = "none",
         app' \in Application, released' \in BOOLEAN, reversals' \in 0..MaxReversals
  PROVE  LedgerInv'
<1>1. /\ TablesTyped' /\ AbsentIsBlank' /\ IsFiniteSet(Succeeded(pay))' /\ WithinPool'
      /\ Index' = Index
  BY TablesKept DEF LedgerInv, TablesTyped
<1>2. \A q : Fits(q) => FitsNext(q)
  BY <1>1, FitsKept
<1>3. RequestsFit' /\ LocksApart'
  BY <1>2, OneMoves DEF LedgerInv, RequestsFit
<1> QED BY <1>1, <1>3 DEF LedgerInv

(* The same for a request that holds nothing. *)
LEMMA FreeRequest ==
  ASSUME LedgerInv, Inv', NEW s \in Staff, NEW r, req' = [req EXCEPT ![s] = r], Fits(r),
         r.locks = {}, r.pc # "commit",
         UNCHANGED <<plan, owner, totals, inst, pay, alloc>>,
         status' \in {"none", "active", "completed", "cancelled"},
         status' = "none" <=> status = "none",
         app' \in Application, released' \in BOOLEAN, reversals' \in 0..MaxReversals
  PROVE  LedgerInv'
BY FreeIsApart, RequestOnly

-----------------------------------------------------------------------------
(* Steps that write requests, applications or one row of payments            *)

LEMMA Shapes ==
  /\ NotStarted.pc = "idle" /\ NotStarted.kind = "none" /\ NotStarted.locks = {}
  /\ \A pc, kind : LET r == [NotStarted EXCEPT !.pc = pc, !.kind = kind] IN
                     r.pc = pc /\ r.kind = kind /\ r.locks = {}
BY DEF NotStarted

LEMMA ApplicationKeeps ==
  ASSUME LedgerInv, Inv', NEW s \in Staff, UNCHANGED reversals,
         \/ ReadDraft(s) \/ EditApplication(s) \/ SubmitApplication(s)
         \/ ReviewApplication(s) \/ RejectApplication(s) \/ ReadTerms(s)
  PROVE  LedgerInv'
<1>0. /\ app \in Application /\ status \in {"none", "active", "completed", "cancelled"}
      /\ released \in BOOLEAN /\ reversals \in 0..MaxReversals
  BY DEF LedgerInv, TablesTyped
<1>1. UNCHANGED <<agreement, totals, inst, pay, alloc>>
  BY DEF ReadDraft, EditApplication, SubmitApplication, ReviewApplication, RejectApplication, ReadTerms
<1>2. app' \in Application
  BY <1>0 DEF ReadDraft, EditApplication, SubmitApplication, ReviewApplication, RejectApplication,
              ReadTerms, Application
<1>3. \E r : /\ req' = [req EXCEPT ![s] = r] /\ Fits(r) /\ r.locks = {} /\ r.pc # "commit"
  <2>1. ASSUME NEW pc \in {"write", "review"}, NEW kind \in {"edit", "submit", "approve", "reject"},
               Goto(s, pc, kind)
        PROVE  \E r : req' = [req EXCEPT ![s] = r] /\ Fits(r) /\ r.locks = {} /\ r.pc # "commit"
    <3> DEFINE r == [NotStarted EXCEPT !.pc = pc, !.kind = kind]
    <3>1. r.pc = pc /\ r.kind = kind /\ r.locks = {}
      BY Shapes
    <3>2. req' = [req EXCEPT ![s] = r]
      BY <2>1 DEF Goto
    <3> HIDE DEF r
    <3> QED BY <3>1, <3>2 DEF Fits, Pc
  <2>2. ASSUME Done(s)
        PROVE  \E r : req' = [req EXCEPT ![s] = r] /\ Fits(r) /\ r.locks = {} /\ r.pc # "commit"
    BY <2>2, Shapes DEF Done, Fits, Pc
  <2>3. ASSUME ReadTerms(s)
        PROVE  \E r : req' = [req EXCEPT ![s] = r] /\ Fits(r) /\ r.locks = {} /\ r.pc # "commit"
    <3> DEFINE r == [NotStarted EXCEPT !.pc = "approve", !.plan = app.plan]
    <3>1. r.pc = "approve" /\ r.kind = "none" /\ r.locks = {} /\ r.plan \in Plans
      BY <1>0 DEF NotStarted, Application
    <3>2. req' = [req EXCEPT ![s] = r]
      BY <2>3 DEF ReadTerms
    <3> HIDE DEF r
    <3> QED BY <3>1, <3>2 DEF Fits, Pc
  <2> QED
    BY <2>1, <2>2, <2>3 DEF ReadDraft, EditApplication, SubmitApplication, ReviewApplication,
                            RejectApplication
<1> QED BY <1>0, <1>1, <1>2, <1>3, FreeRequest DEF agreement

LEMMA ReadsKeep ==
  ASSUME LedgerInv, Inv', NEW s \in Staff,
         \/ /\ ReadPayable(s) \/ ReadAgreement(s) \/ ReadSchedules(s) \/ Abort(s)
            /\ UNCHANGED reversals
         \/ ReadPayment(s)
  PROVE  LedgerInv'
<1>0. /\ app \in Application /\ status \in {"none", "active", "completed", "cancelled"}
      /\ released \in BOOLEAN /\ reversals \in 0..MaxReversals /\ inst \in [Index -> Row]
  BY DEF LedgerInv, TablesTyped
<1>1. UNCHANGED <<app, agreement, totals, inst, pay, alloc>> /\ reversals' \in 0..MaxReversals
  <2>1. CASE ReadPayment(s)
    <3>1. /\ reversals' = reversals + 1 /\ reversals < MaxReversals
          /\ UNCHANGED <<app, agreement, totals, inst, pay, alloc>>
      BY <2>1 DEF ReadPayment
    <3> QED BY <1>0, <3>1, FinancingAssumption
  <2>2. CASE ~ReadPayment(s)
    <3>1. UNCHANGED <<app, agreement, totals, inst, pay, alloc>>
      BY <2>2 DEF ReadPayable, ReadAgreement, ReadSchedules, Abort
    <3> QED BY <1>0, <2>2, <3>1
  <2> QED BY <2>1, <2>2
<1> DEFINE Free == \E r : req' = [req EXCEPT ![s] = r] /\ Fits(r) /\ r.locks = {} /\ r.pc # "commit"
<1>2. ASSUME ReadPayable(s) PROVE Free
  <2>1. PICK amount, r :
          req' = [req EXCEPT ![s] = [NotStarted EXCEPT !.pc = "write", !.kind = "record",
                                                       !.amount = amount, !.receipt = r]]
    BY <1>2 DEF ReadPayable
  <2> DEFINE new == [NotStarted EXCEPT !.pc = "write", !.kind = "record",
                                       !.amount = amount, !.receipt = r]
  <2>2. new.pc = "write" /\ new.locks = {} /\ status # "none"
    BY <1>2 DEF NotStarted, ReadPayable
  <2>3. req' = [req EXCEPT ![s] = new]
    BY <2>1
  <2> HIDE DEF new
  <2> QED BY <2>2, <2>3 DEF Fits, Pc
<1>3. ASSUME ReadAgreement(s) PROVE Free
  <2>1. ASSUME NEW kind \in {"release", "cancel"}, Goto(s, "write", kind) PROVE Free
    <3> DEFINE r == [NotStarted EXCEPT !.pc = "write", !.kind = kind]
    <3>1. r.pc = "write" /\ r.kind = kind /\ r.locks = {} /\ status # "none"
      BY <1>3, Shapes DEF ReadAgreement
    <3>2. req' = [req EXCEPT ![s] = r]
      BY <2>1 DEF Goto
    <3> HIDE DEF r
    <3> QED BY <3>1, <3>2 DEF Fits, Pc
  <2> QED BY <1>3, <2>1 DEF ReadAgreement
<1>4. ASSUME ReadSchedules(s) PROVE Free
  <2>1. PICK amount \in WaiverAmounts :
          req' = [req EXCEPT ![s] = [NotStarted EXCEPT !.pc = "transaction", !.kind = "waive",
                                                       !.amount = amount, !.rows = inst]]
    BY <1>4 DEF ReadSchedules
  <2> DEFINE new == [NotStarted EXCEPT !.pc = "transaction", !.kind = "waive",
                                       !.amount = amount, !.rows = inst]
  <2>2. /\ new.pc = "transaction" /\ new.kind = "waive" /\ new.locks = {} /\ status # "none"
        /\ new.amount \in Nat /\ new.rows \in [Index -> Row]
    BY <1>0, <1>4, FinancingAssumption DEF NotStarted, ReadSchedules
  <2>3. req' = [req EXCEPT ![s] = new]
    BY <2>1
  <2> HIDE DEF new
  <2> QED BY <2>2, <2>3 DEF Fits, Pc
<1>5. ASSUME Abort(s) PROVE Free
  BY <1>5, Shapes DEF Abort, Done, Fits, Pc
<1>6. ASSUME ReadPayment(s) PROVE Free
  <2>1. PICK p \in Payments :
          /\ pay[p].status = "succeeded"
          /\ req' = [req EXCEPT ![s] = [NotStarted EXCEPT !.pc = "transaction",
                                                          !.kind = "reverse", !.pay = p]]
    BY <1>6 DEF ReadPayment
  <2> DEFINE new == [NotStarted EXCEPT !.pc = "transaction", !.kind = "reverse", !.pay = p]
  <2>2. new.pc = "transaction" /\ new.kind = "reverse" /\ new.locks = {} /\ new.pay = p
    BY DEF NotStarted
  <2>3. req' = [req EXCEPT ![s] = new] /\ status # "none"
    BY <2>1 DEF LedgerInv, AbsentIsBlank, Blank
  <2> HIDE DEF new
  <2> QED BY <2>2, <2>3 DEF Fits, Pc
<1>7. Free
  BY <1>2, <1>3, <1>4, <1>5, <1>6
<1> QED BY <1>0, <1>1, <1>7, FreeRequest DEF agreement

LEMMA AgreementKeeps ==
  ASSUME LedgerInv, Inv', NEW s \in Staff, ReleaseProduct(s) \/ CancelAgreement(s),
         UNCHANGED reversals
  PROVE  LedgerInv'
<1>1. /\ app \in Application /\ status \in {"none", "active", "completed", "cancelled"}
      /\ released \in BOOLEAN /\ reversals \in 0..MaxReversals /\ Fits(req[s])
  BY DEF LedgerInv, TablesTyped, RequestsFit
<1>2. status # "none" /\ req' = [req EXCEPT ![s] = NotStarted]
  BY <1>1 DEF ReleaseProduct, CancelAgreement, At, Done, Fits
<1>3. /\ UNCHANGED <<app, plan, owner, totals, inst, pay, alloc>>
      /\ status' \in {status, "cancelled"} /\ released' \in {released, TRUE}
  BY DEF ReleaseProduct, CancelAgreement
<1> QED BY <1>1, <1>2, <1>3, FreeRequest, Shapes DEF Fits, Pc

(* A row of payments that does not count, before or after. *)
LEMMA RowKeeps ==
  ASSUME LedgerInv, Inv', UNCHANGED <<app, agreement, totals, inst, alloc, req, reversals>>,
         NEW p \in Payments, NEW row \in PayRow, pay' = [pay EXCEPT ![p] = row],
         status # "none", pay[p].status # "succeeded", row.status \notin {"absent", "succeeded"}
  PROVE  LedgerInv'
<1>1. pay'[p] = row /\ \A q \in Payments \ {p} : pay'[q] = pay[q]
  BY DEF LedgerInv, Inv
<1>2. Succeeded(pay)' = Succeeded(pay)
  BY <1>1 DEF Succeeded
<1>3. AbsentIsBlank'
  BY <1>1 DEF LedgerInv, AbsentIsBlank, Blank, agreement
<1>4. Index' = Index
  BY DEF Index, agreement
<1>5. TablesTyped'
  BY <1>4 DEF LedgerInv, TablesTyped, agreement
<1>6. ASSUME NEW i PROVE Pool(i)' = Pool(i)
  BY <1>2 DEF Pool
<1>7. WithinPool'
  BY <1>4, <1>6 DEF LedgerInv, WithinPool, Amount, Instalment, Financed, agreement
<1>8. \A r : Fits(r) => FitsNext(r)
  BY FitsStay DEF agreement
<1>9. RequestsFit' /\ LocksApart'
  BY <1>8, NoneMoves DEF LedgerInv, RequestsFit
<1> QED BY <1>2, <1>3, <1>5, <1>7, <1>9 DEF LedgerInv

LEMMA PaymentRowsKeep ==
  ASSUME LedgerInv, Inv', UNCHANGED reversals,
         \/ \E s \in Staff : InitiateMpesaPayment(s)
         \/ \E p \in Payments : CallbackFails(p) \/ CallbackMismatch(p) \/ StoreReceipt(p)
  PROVE  LedgerInv'
<1>0. pay \in [Payments -> PayRow] /\ \A p \in Payments : pay[p].outcome # "none" =>
                                         status # "none" /\ pay[p].status # "absent"
  BY DEF LedgerInv, Inv, AbsentIsBlank, Blank
<1>1. ASSUME NEW s \in Staff, InitiateMpesaPayment(s) PROVE LedgerInv'
  <2>1. PICK p \in Payments, amount \in PayAmounts, outcome \in {"exact", "mismatch", "failure"} :
          /\ pay[p].status = "absent"
          /\ pay' = Inserted(p, [status |-> "initiated", amount |-> amount,
                                 receipt |-> NoPayment, outcome |-> outcome])
    BY <1>1 DEF InitiateMpesaPayment
  <2> DEFINE row == [status |-> "initiated", amount |-> amount,
                     receipt |-> NoPayment, outcome |-> outcome]
  <2>2. row \in PayRow /\ row.status = "initiated"
    BY DEF PayRow
  <2>3. pay' = [pay EXCEPT ![p] = row]
    BY <2>1 DEF Inserted
  <2> HIDE DEF row
  <2> QED BY <1>1, <2>1, <2>2, <2>3, RowKeeps DEF InitiateMpesaPayment
<1>2. ASSUME NEW p \in Payments, CallbackFails(p) PROVE LedgerInv'
  <2> DEFINE row == [pay[p] EXCEPT !.status = "failed"]
  <2>1. row \in PayRow /\ row.status = "failed" /\ pay' = [pay EXCEPT ![p] = row]
    BY <1>0, <1>2 DEF PayRow, CallbackFails
  <2> HIDE DEF row
  <2> QED BY <1>0, <1>2, <2>1, RowKeeps DEF CallbackFails
<1>3. ASSUME NEW p \in Payments, CallbackMismatch(p) PROVE LedgerInv'
  <2> DEFINE row == [pay[p] EXCEPT !.status = "pending", !.receipt = p]
  <2>1. row \in PayRow /\ row.status = "pending" /\ pay' = [pay EXCEPT ![p] = row]
    BY <1>0, <1>3 DEF PayRow, CallbackMismatch
  <2> HIDE DEF row
  <2> QED BY <1>0, <1>3, <2>1, RowKeeps DEF CallbackMismatch
<1>4. ASSUME NEW p \in Payments, StoreReceipt(p) PROVE LedgerInv'
  <2> DEFINE row == [pay[p] EXCEPT !.receipt = p]
  <2>1. row \in PayRow /\ row.status = pay[p].status /\ pay' = [pay EXCEPT ![p] = row]
    BY <1>0, <1>4 DEF PayRow, StoreReceipt
  <2>2. pay[p].outcome = "exact" /\ pay[p].status # "succeeded"
    BY <1>4 DEF StoreReceipt, Unapplied
  <2> HIDE DEF row
  <2> QED BY <1>0, <1>4, <2>1, <2>2, RowKeeps DEF StoreReceipt
<1> QED BY <1>1, <1>2, <1>3, <1>4

-----------------------------------------------------------------------------
(* Transactions that write their rows, and wait to commit                    *)

LEMMA Writes ==
  ASSUME LedgerInv, Inv', NEW s \in Staff, UNCHANGED <<app, agreement, totals, inst, pay, alloc>>,
         UNCHANGED reversals, status # "none",
         NEW kind, NEW p, NEW rows \in [Index -> Row], NEW locks \in SUBSET Index,
         NEW pays \in [Payments -> PayRow], IsFiniteSet(Succeeded(pays)),
         Wrote(s, kind, p, rows, locks, pays),
         kind # "reverse" => p = NoPayment /\ \A i \in locks : rows[i].paid = inst[i].paid,
         kind = "reverse" =>
           /\ p \in Payments /\ \A i \in Index : i \in locks <=> alloc[p][i] > 0
           /\ \A i \in locks : rows[i].paid = AtLeast0(inst[i].paid - alloc[p][i])
  PROVE  LedgerInv'
<1> DEFINE new == [NotStarted EXCEPT !.pc = "commit", !.kind = kind, !.pay = p,
                                     !.rows = rows, !.locks = locks, !.totals = Recalc(rows, pays)]
<1>1. /\ new.pc = "commit" /\ new.kind = kind /\ new.pay = p /\ new.rows = rows
      /\ new.locks = locks /\ new.totals = Recalc(rows, pays)
  BY DEF NotStarted
<1>2. /\ req' = [req EXCEPT ![s] = new] /\ locks \cap Locks = {}
      /\ p = NoPayment \/ p \notin PayLocks
  BY DEF Wrote
<1> HIDE DEF new
<1>3. Recalc(rows, pays) \in Totals
  BY IndexIsFinite, RecalcTyped DEF LedgerInv
<1>4. Fits(new)
  BY <1>1, <1>3 DEF Fits, Holds, Pc
<1>5. ASSUME NEW u \in Staff \ {s} PROVE Apart(new, req[u]) /\ Apart(req[u], new)
  <2>1. locks \cap req[u].locks = {}
    BY <1>2 DEF Locks
  <2>2. req[u].pc = "commit" => p = NoPayment \/ p # req[u].pay
    BY <1>2 DEF PayLocks
  <2> QED BY <1>1, <2>1, <2>2 DEF Apart
<1>6. /\ app \in Application /\ status \in {"none", "active", "completed", "cancelled"}
      /\ released \in BOOLEAN /\ reversals \in 0..MaxReversals
  BY DEF LedgerInv, TablesTyped
<1> QED BY <1>2, <1>4, <1>5, <1>6, RequestOnly DEF agreement

LEMMA WaiverKeeps ==
  ASSUME LedgerInv, Inv', NEW s \in Staff, WriteWaiver(s), UNCHANGED reversals
  PROVE  LedgerInv'
<1> DEFINE seen == req[s].rows
           due == [i \in DOMAIN seen |-> AtLeast0(Amount(plan, i) - seen[i].paid - seen[i].waived)]
           take == Waterfall(due, req[s].amount)
           row(i) == [inst[i] EXCEPT
                        !.waived = seen[i].waived + take[i],
                        !.status = IF seen[i].paid + seen[i].waived + take[i] >= Amount(plan, i)
                                     THEN "paid" ELSE seen[i].status]
           locks == {i \in DOMAIN inst : take[i] > 0}
           rows == [i \in DOMAIN inst |-> IF i \in locks THEN row(i) ELSE inst[i]]
<1>1. /\ status # "none" /\ req[s].amount \in Nat /\ seen \in [Index -> Row]
      /\ inst \in [Index -> Row] /\ plan \in Plans /\ IsFiniteSet(Index)
      /\ pay \in [Payments -> PayRow] /\ IsFiniteSet(Succeeded(pay))
  BY IndexIsFinite DEF LedgerInv, Inv, RequestsFit, Fits, TablesTyped, WriteWaiver, At
<1>2. due \in [Index -> Nat]
  <2>1. ASSUME NEW i \in Index
        PROVE  AtLeast0(Amount(plan, i) - seen[i].paid - seen[i].waived) \in Nat
    <3>1. Amount(plan, i) \in Nat /\ seen[i].paid \in Nat /\ seen[i].waived \in Nat
      BY <1>1, AmountIsNat DEF Row
    <3> QED BY <3>1, FloorIsNat
  <2> QED BY <1>1, <2>1
<1>3. Wrote(s, "waive", NoPayment, rows, locks, pay) /\ UNCHANGED <<app, agreement, totals, inst, pay, alloc>>
  BY DEF WriteWaiver
<1>4. take \in [Index -> Nat]
  <2> HIDE DEF due
  <2> QED BY <1>1, <1>2, WaterfallBounds
<1> HIDE DEF take
<1>5. ASSUME NEW i \in Index PROVE row(i) \in Row /\ row(i).paid = inst[i].paid
  <2>1. inst[i] \in Row /\ seen[i] \in Row /\ take[i] \in Nat
    BY <1>1, <1>4
  <2> HIDE DEF seen
  <2>2. seen[i].waived + take[i] \in Nat
    BY <2>1 DEF Row
  <2> QED BY <2>1, <2>2 DEF Row
<1> HIDE DEF row
<1>6. locks \subseteq Index /\ rows \in [Index -> Row] /\ \A i \in locks : rows[i].paid = inst[i].paid
  BY <1>1, <1>5
<1> HIDE DEF locks, rows
<1> QED BY <1>1, <1>3, <1>6, Writes

LEMMA AdjustKeeps ==
  ASSUME LedgerInv, Inv', NEW s \in Staff, Adjust(s), UNCHANGED reversals
  PROVE  LedgerInv'
<1>1. /\ Wrote(s, "adjust", NoPayment, inst, {}, pay) /\ status # "none"
      /\ UNCHANGED <<app, agreement, totals, inst, pay, alloc>>
  BY DEF Adjust
<1>2. inst \in [Index -> Row] /\ pay \in [Payments -> PayRow] /\ IsFiniteSet(Succeeded(pay))
  BY DEF LedgerInv, TablesTyped, Inv
<1> QED BY <1>1, <1>2, Writes

LEMMA ReversalKeeps ==
  ASSUME LedgerInv, Inv', NEW s \in Staff, WriteReversal(s), UNCHANGED reversals
  PROVE  LedgerInv'
<1> DEFINE p == req[s].pay
           row(i) == [inst[i] EXCEPT !.paid = PaidWithout(i, p),
                                     !.status = ReversedStatus(i, PaidWithout(i, p))]
           locks == {i \in DOMAIN inst : alloc[p][i] > 0}
           rows == [i \in DOMAIN inst |-> IF i \in locks THEN row(i) ELSE inst[i]]
           pays == [pay EXCEPT ![p].status = "reversed"]
<1>1. /\ status # "none" /\ p \in Payments
      /\ inst \in [Index -> Row] /\ alloc[p] \in [Index -> Nat]
      /\ pay \in [Payments -> PayRow] /\ IsFiniteSet(Succeeded(pay))
  BY DEF LedgerInv, Inv, RequestsFit, Fits, TablesTyped, WriteReversal, At
<1>2. Wrote(s, "reverse", p, rows, locks, pays) /\ UNCHANGED <<app, agreement, totals, inst, pay, alloc>>
  BY DEF WriteReversal
<1>3. pays \in [Payments -> PayRow] /\ Succeeded(pays) \subseteq Succeeded(pay)
  BY <1>1 DEF PayRow, Succeeded
<1>4. IsFiniteSet(Succeeded(pays))
  BY <1>1, <1>3, FS_Subset
<1>5. ASSUME NEW i \in Index
      PROVE  row(i) \in Row /\ row(i).paid = AtLeast0(inst[i].paid - alloc[p][i])
  <2>1. inst[i] \in Row /\ inst[i].paid - alloc[p][i] \in Int
    BY <1>1 DEF Row
  <2>2. PaidWithout(i, p) \in Nat /\ PaidWithout(i, p) = AtLeast0(inst[i].paid - alloc[p][i])
    BY <2>1, FloorIsNat DEF PaidWithout
  <2>3. ReversedStatus(i, PaidWithout(i, p)) \in {"paid", "partially_paid", "pending"}
    BY DEF ReversedStatus
  <2> QED BY <2>1, <2>2, <2>3 DEF Row
<1> HIDE DEF row
<1>6. /\ locks \subseteq Index /\ rows \in [Index -> Row]
      /\ \A i \in Index : i \in locks <=> alloc[p][i] > 0
      /\ \A i \in locks : rows[i].paid = AtLeast0(inst[i].paid - alloc[p][i])
  BY <1>1, <1>5
<1> HIDE DEF locks, rows, pays, p
<1> QED BY <1>1, <1>2, <1>3, <1>4, <1>6, Writes

-----------------------------------------------------------------------------
(* The agreement is made.                                                    *)
LEMMA ApproveKeeps ==
  ASSUME LedgerInv, Inv', NEW s \in Staff, ApproveApplication(s), UNCHANGED reversals
  PROVE  LedgerInv'
<1> DEFINE t == req[s].plan
<1>0. /\ app \in Application /\ status \in {"none", "active", "completed", "cancelled"}
      /\ owner \in {"seller", "transferred"} /\ released \in BOOLEAN
      /\ reversals \in 0..MaxReversals /\ t \in Plans /\ req' = [req EXCEPT ![s] = NotStarted]
      /\ UNCHANGED pay
  BY DEF LedgerInv, TablesTyped, RequestsFit, Fits, ApproveApplication, Done
<1>1. CASE AgreementExists /\ UNCHANGED <<app, agreement, totals, inst, alloc>>
  BY <1>0, <1>1, FreeRequest, Shapes DEF Fits, Pc, agreement
<1>2. CASE /\ ~AgreementExists
           /\ plan' = t /\ status' = "active"
           /\ totals' = [paid |-> 0, outstanding |-> Financed(t), credit |-> 0]
           /\ inst' = [i \in 1..t.terms |-> [paid |-> 0, waived |-> 0, status |-> "pending"]]
           /\ alloc' = [p \in Payments |-> [i \in 1..t.terms |-> 0]]
           /\ app' = [app EXCEPT !.status = "approved"]
           /\ UNCHANGED <<owner, released>>
  <2>1. status = "none" /\ Index' = 1..t.terms
    BY <1>2 DEF AgreementExists, Index
  <2>2. t # NoPlan /\ Financed(t) \in Nat /\ \A i : Amount(t, i) \in Nat
    BY <1>0, AmountIsNat, FinancingAssumption
  <2>3. TablesTyped'
    <3>1. app' \in Application /\ totals' \in Totals
      BY <1>0, <1>2, <2>2 DEF Application, Totals
    <3>2. inst' \in [Index' -> Row] /\ alloc' \in [Payments -> [Index' -> Nat]]
      BY <1>2, <2>1 DEF Row
    <3> QED BY <1>0, <1>2, <3>1, <3>2 DEF TablesTyped
  <2>4. \A p \in Payments : pay[p].status = "absent" /\ Blank(pay[p])
    BY <2>1 DEF LedgerInv, AbsentIsBlank, Blank
  <2>5. AbsentIsBlank' /\ Succeeded(pay)' = {}
    BY <1>0, <2>4 DEF AbsentIsBlank, Blank, Succeeded
  <2>6. IsFiniteSet(Succeeded(pay))'
    BY <2>5, FS_EmptySet
  <2>7. WithinPool'
    <3>1. ASSUME NEW i PROVE Pool(i)' = 0
      BY <2>5, SumEmpty DEF Pool
    <3>2. \A i \in Index' : inst'[i].paid = 0 /\ Amount(plan, i)' \in Nat
      BY <1>2, <2>1, <2>2 DEF Amount, Instalment, Financed
    <3> QED BY <3>1, <3>2 DEF WithinPool
  <2>8. ASSUME NEW q, Fits(q) PROVE FitsNext(q)
    BY <1>2, <2>1, <2>8 DEF Fits, FitsNext
  <2>9. RequestsFit' /\ LocksApart'
    <3>1. FitsNext(NotStarted)
      BY Shapes DEF FitsNext, Fits, Pc
    <3>2. \A u \in Staff \ {s} : FitsNext(req[u])
      BY <2>8 DEF LedgerInv, RequestsFit
    <3>3. \A u \in Staff \ {s} : Apart(NotStarted, req[u]) /\ Apart(req[u], NotStarted)
      BY FreeIsApart, Shapes
    <3> QED BY <1>0, <3>1, <3>2, <3>3, OneMoves
  <2> QED BY <2>3, <2>5, <2>6, <2>7, <2>9 DEF LedgerInv
<1> QED BY <1>1, <1>2 DEF ApproveApplication

LEMMA RefreshKeeps ==
  ASSUME LedgerInv, Inv', RefreshOverdueStatuses, UNCHANGED reversals
  PROVE  LedgerInv'
<1>1. /\ inst \in [Index -> Row] /\ UNCHANGED <<app, agreement, totals, pay, alloc, req>>
  BY DEF LedgerInv, TablesTyped, RefreshOverdueStatuses
<1>2. Index' = Index
  BY <1>1 DEF Index, agreement
<1>3. inst' \in [Index -> Row] /\ \A i \in Index : inst'[i].paid = inst[i].paid
  <2>1. PICK late : inst' = [i \in Index |-> IF i \in late THEN [inst[i] EXCEPT !.status = "overdue"]
                                             ELSE inst[i]]
    BY <1>1 DEF RefreshOverdueStatuses
  <2>2. \A i \in Index : /\ [inst[i] EXCEPT !.status = "overdue"] \in Row
                         /\ [inst[i] EXCEPT !.status = "overdue"].paid = inst[i].paid
    BY <1>1 DEF Row
  <2> QED BY <1>1, <2>1, <2>2
<1>4. TablesTyped'
  BY <1>1, <1>2, <1>3 DEF LedgerInv, TablesTyped, agreement
<1>5. AbsentIsBlank' /\ IsFiniteSet(Succeeded(pay))'
  BY <1>1 DEF LedgerInv, AbsentIsBlank, Blank, Succeeded, agreement
<1>6. ASSUME NEW i PROVE Pool(i)' = Pool(i)
  BY <1>1 DEF Pool, Succeeded
<1>7. WithinPool'
  BY <1>1, <1>2, <1>3, <1>6 DEF LedgerInv, WithinPool, Amount, Instalment, Financed, agreement
<1>8. ASSUME NEW q, Fits(q) PROVE FitsNext(q)
  <2>1. q.pc = "commit" => q.locks \subseteq Index
    BY <1>8 DEF Fits, Holds
  <2> QED BY <1>1, <1>2, <1>3, <1>8, <2>1, FitsKept DEF agreement
<1>9. RequestsFit' /\ LocksApart'
  BY <1>1, <1>8, NoneMoves DEF LedgerInv, RequestsFit
<1> QED BY <1>4, <1>5, <1>7, <1>9 DEF LedgerInv

-----------------------------------------------------------------------------
(* Commit of what a transaction wrote                                        *)

(* The pool without a payment that no longer counts *)
LEMMA PoolWithout ==
  ASSUME LedgerInv, NEW i \in Index, NEW p \in Payments
  PROVE  LET f == [q \in Payments |-> alloc[q][i]] IN
         /\ Pool(i) \in Nat /\ alloc[p][i] \in Nat
         /\ SumFunctionOnSet(f, Succeeded(pay) \ {p}) \in Nat
         /\ Pool(i) = IF p \in Succeeded(pay)
                        THEN alloc[p][i] + SumFunctionOnSet(f, Succeeded(pay) \ {p})
                        ELSE SumFunctionOnSet(f, Succeeded(pay) \ {p})
<1> DEFINE f == [q \in Payments |-> alloc[q][i]]  S == Succeeded(pay)
<1>1. IsFiniteSet(S) /\ IsFiniteSet(S \ {p}) /\ S \subseteq Payments
  BY FS_RemoveElement DEF LedgerInv, Succeeded
<1>2. \A q \in Payments : f[q] \in Nat
  BY DEF LedgerInv, TablesTyped
<1>3. f[p] = alloc[p][i]
  OBVIOUS
<1> HIDE DEF f, S
<1>4. \A q \in S : f[q] \in Int
  BY <1>1, <1>2
<1>5. SumFunctionOnSet(f, S) \in Nat /\ SumFunctionOnSet(f, S \ {p}) \in Nat
  BY <1>1, <1>2, SumNat
<1>6. p \in S => SumFunctionOnSet(f, S) = f[p] + SumFunctionOnSet(f, S \ {p})
  BY <1>1, <1>4, SumRemove
<1>7. p \notin S => S \ {p} = S
  OBVIOUS
<1>8. Pool(i) = SumFunctionOnSet(f, S)
  BY DEF Pool, f, S
<1> QED BY <1>2, <1>3, <1>5, <1>6, <1>7, <1>8 DEF S, f

LEMMA CommitKeeps ==
  ASSUME LedgerInv, Inv', NEW s \in Staff, Commit(s), UNCHANGED reversals
  PROVE  LedgerInv'
<1>1. PICK r : r = req[s]
  OBVIOUS
<1>2. /\ r.pc = "commit" /\ status # "none" /\ Holds(r)
      /\ inst \in [Index -> Row] /\ totals \in Totals /\ alloc \in [Payments -> [Index -> Nat]]
      /\ pay \in [Payments -> PayRow]
  BY <1>1 DEF Commit, LedgerInv, Inv, RequestsFit, Fits, TablesTyped
<1>3. /\ inst' = [i \in Index |-> IF i \in r.locks THEN r.rows[i] ELSE inst[i]]
      /\ \/ /\ r.kind = "reverse" /\ pay' = [pay EXCEPT ![r.pay].status = "reversed"]
            /\ totals' = r.totals
            /\ status' = IF status = "completed" THEN "active" ELSE status
            /\ owner' = OwnerAfter(r.totals)
         \/ /\ r.kind # "reverse"
            /\ totals' = [r.totals EXCEPT !.credit = totals.credit]
            /\ UNCHANGED <<pay, status, owner>>
      /\ req' = [req EXCEPT ![s] = NotStarted] /\ UNCHANGED <<app, plan, released, alloc>>
  BY <1>1, <1>2 DEF Commit, Done
<1>4. Index' = Index /\ status' # "none"
  BY <1>2, <1>3 DEF Index
<1>5. inst' \in [Index -> Row]
  BY <1>2, <1>3 DEF Holds
<1>6. TablesTyped'
  <2>1. totals' \in Totals
    BY <1>2, <1>3 DEF Holds, Totals
  <2>2. owner' \in {owner, "seller"} /\ status' \in {status, "active"}
    BY <1>3 DEF OwnerAfter
  <2> QED BY <1>2, <1>3, <1>4, <1>5, <2>1, <2>2 DEF LedgerInv, TablesTyped
<1>7. ASSUME NEW q, Fits(q), Apart(q, r) PROVE FitsNext(q)
  <2>1. q.pc = "commit" => \A i \in q.locks : i \in Index /\ i \notin r.locks
    BY <1>7 DEF Fits, Holds, Apart
  <2>2. q.pc = "commit" => \A i \in q.locks : inst'[i].paid = inst[i].paid
    BY <1>3, <2>1
  <2> QED BY <1>3, <1>4, <1>7, <2>2, FitsKept
<1>8. RequestsFit' /\ LocksApart'
  <2>1. FitsNext(NotStarted)
    BY Shapes DEF FitsNext, Fits, Pc
  <2>2. \A u \in Staff \ {s} : FitsNext(req[u])
    BY <1>1, <1>7 DEF LedgerInv, RequestsFit, LocksApart
  <2>3. \A u \in Staff \ {s} : Apart(NotStarted, req[u]) /\ Apart(req[u], NotStarted)
    BY FreeIsApart, Shapes
  <2> QED BY <1>3, <2>1, <2>2, <2>3, OneMoves
<1>9. AbsentIsBlank' /\ IsFiniteSet(Succeeded(pay))' /\ WithinPool'
  <2>1. CASE r.kind = "reverse"
    <3> DEFINE p == r.pay  S == Succeeded(pay)
    <3>1. /\ p \in Payments /\ \A i \in Index : i \in r.locks <=> alloc[p][i] > 0
          /\ \A i \in r.locks : r.rows[i].paid = AtLeast0(inst[i].paid - alloc[p][i])
      BY <1>2, <2>1 DEF Holds
    <3>2. pay'[p].status = "reversed" /\ \A q \in Payments \ {p} : pay'[q] = pay[q]
      BY <1>2, <1>3, <2>1, <3>1 DEF PayRow
    <3>3. Succeeded(pay)' = S \ {p}
      BY <3>1, <3>2 DEF Succeeded
    <3>4. IsFiniteSet(Succeeded(pay))'
      BY <3>3, FS_RemoveElement DEF LedgerInv
    <3>5. AbsentIsBlank'
      BY <1>4, <3>1, <3>2 DEF LedgerInv, AbsentIsBlank, Blank
    <3>6. ASSUME NEW i \in Index
          PROVE  inst'[i].paid <= Amount(plan, i) /\ inst'[i].paid <= Pool(i)'
      <4> DEFINE f == [q \in Payments |-> alloc[q][i]]
      <4>1. PICK a, n, m, k, x :
              /\ a = alloc[p][i] /\ n = Pool(i) /\ m = SumFunctionOnSet(f, S \ {p})
              /\ k = inst[i].paid /\ x = Amount(plan, i)
        OBVIOUS
      <4>2. /\ a \in Nat /\ n \in Nat /\ m \in Nat
            /\ p \in S => n = a + m
            /\ p \notin S => n = m
        BY <3>1, <4>1, PoolWithout
      <4>3. k \in Nat /\ x \in Nat /\ k <= x /\ k <= n
        <5>1. plan \in Plans
          BY <1>2 DEF LedgerInv, TablesTyped
        <5> QED BY <1>2, <4>1, <5>1, AmountIsNat DEF LedgerInv, WithinPool, Row
      <4>4. Pool(i)' = m
        BY <1>3, <3>3, <4>1 DEF Pool
      <4>5. inst'[i].paid = AtLeast0(k - a)
        <5>1. CASE i \in r.locks
          BY <1>3, <3>1, <4>1, <5>1
        <5>2. CASE i \notin r.locks
          <6>1. a = 0
            BY <3>1, <4>1, <4>2, <5>2
          <6> QED BY <1>3, <4>1, <4>3, <5>2, <6>1, FloorIsNat
        <5> QED BY <5>1, <5>2
      <4>6. AtLeast0(k - a) <= x /\ AtLeast0(k - a) <= m
        BY <4>2, <4>3 DEF AtLeast0
      <4> QED BY <4>1, <4>4, <4>5, <4>6
    <3>7. \A i : Amount(plan, i)' = Amount(plan, i)
      BY <1>3 DEF Amount, Instalment, Financed
    <3>8. WithinPool'
      BY <1>4, <3>6, <3>7 DEF WithinPool
    <3> QED BY <3>4, <3>5, <3>8
  <2>2. CASE r.kind # "reverse"
    <3>1. /\ \A i \in Index : inst'[i].paid = inst[i].paid
          /\ UNCHANGED <<pay, status>>
      BY <1>2, <1>3, <2>2 DEF Holds
    <3>2. ASSUME NEW i PROVE Pool(i)' = Pool(i)
      BY <1>3, <3>1 DEF Pool, Succeeded
    <3>3. WithinPool'
      BY <1>3, <1>4, <3>1, <3>2 DEF LedgerInv, WithinPool, Amount, Instalment, Financed
    <3> QED BY <3>1, <3>3 DEF LedgerInv, AbsentIsBlank, Blank, Succeeded
  <2> QED BY <2>1, <2>2
<1> QED BY <1>6, <1>8, <1>9 DEF LedgerInv

-----------------------------------------------------------------------------
(* A payment is applied.                                                     *)

LEMMA TakeBounds ==
  ASSUME LedgerInv, status # "none", NEW amount \in Nat
  PROVE  /\ Take(amount) \in [Index -> Nat]
         /\ \A i \in Index : inst[i].paid + Take(amount)[i] <= Amount(plan, i)
<1> DEFINE due == [i \in DOMAIN inst |-> Due(i)]
<1>1. inst \in [Index -> Row] /\ IsFiniteSet(Index) /\ plan \in Plans
  BY IndexIsFinite DEF LedgerInv, TablesTyped
<1>2. ASSUME NEW i \in Index PROVE Due(i) \in Nat /\ inst[i].paid + Due(i) <= Amount(plan, i)
  <2>1. PICK x, w, k : x = Amount(plan, i) /\ w = inst[i].waived /\ k = inst[i].paid
    OBVIOUS
  <2>2. x \in Nat /\ w \in Nat /\ k \in Nat /\ k <= x
    BY <1>1, <2>1, AmountIsNat DEF Row, LedgerInv, WithinPool
  <2>3. AtLeast0(AtLeast0(x - w) - k) \in Nat /\ k + AtLeast0(AtLeast0(x - w) - k) <= x
    BY <2>2 DEF AtLeast0
  <2>4. Due(i) = 0 \/ Due(i) = AtLeast0(AtLeast0(x - w) - k)
    BY <2>1 DEF Due, Collectible
  <2> QED BY <2>1, <2>2, <2>3, <2>4
<1>3. due \in [Index -> Nat] /\ \A i \in Index : due[i] = Due(i)
  BY <1>1, <1>2
<1>4. Take(amount) = Waterfall(due, amount)
  BY DEF Take
<1> HIDE DEF due
<1>5. /\ Take(amount) \in [Index -> Nat]
      /\ \A i \in Index : Take(amount)[i] <= due[i]
  BY <1>1, <1>3, <1>4, WaterfallBounds
<1>6. ASSUME NEW i \in Index PROVE inst[i].paid + Take(amount)[i] <= Amount(plan, i)
  <2>1. PICK x, k, d, n : /\ x = Amount(plan, i) /\ k = inst[i].paid /\ d = Due(i)
                          /\ n = Take(amount)[i]
    OBVIOUS
  <2>2. x \in Nat /\ k \in Nat /\ d \in Nat /\ n \in Nat /\ n <= d /\ k + d <= x
    BY <1>1, <1>2, <1>3, <1>5, <2>1, AmountIsNat DEF Row
  <2> QED BY <2>1, <2>2
<1> QED BY <1>5, <1>6

LEMMA AllocatedRows ==
  ASSUME LedgerInv, NEW take \in [Index -> Nat]
  PROVE  /\ Allocated(take) \in [Index -> Row]
         /\ \A i \in Index : Allocated(take)[i].paid = inst[i].paid + take[i]
<1>1. inst \in [Index -> Row]
  BY DEF LedgerInv, TablesTyped
<1>2. ASSUME NEW i \in Index
      PROVE  Allocated(take)[i] \in Row /\ Allocated(take)[i].paid = inst[i].paid + take[i]
  <2>1. inst[i] \in Row /\ take[i] \in Nat /\ inst[i].paid + take[i] \in Nat
    BY <1>1 DEF Row
  <2>2. CASE take[i] = 0
    BY <1>1, <2>1, <2>2 DEF Allocated, Row
  <2>3. CASE take[i] # 0
    <3>1. PICK st \in {"paid", "partially_paid"} :
            Allocated(take)[i] = [inst[i] EXCEPT !.paid = @ + take[i], !.status = st]
      BY <1>1, <2>3 DEF Allocated
    <3> QED BY <2>1, <3>1 DEF Row
  <2> QED BY <2>2, <2>3
<1>3. Allocated(take) = [i \in Index |-> Allocated(take)[i]]
  BY <1>1 DEF Allocated
<1> QED BY <1>2, <1>3

(* pays is the table as the transaction has it: p's row is written first.    *)
LEMMA ApplyTables ==
  ASSUME LedgerInv, status # "none", NEW p \in Payments, NEW pays \in [Payments -> PayRow],
         Apply(p, pays), pay[p].status # "succeeded", pays[p].status # "succeeded",
         \A q \in Payments \ {p} : pays[q] = pay[q], reversals' = reversals
  PROVE  /\ TablesTyped' /\ AbsentIsBlank' /\ IsFiniteSet(Succeeded(pay))' /\ WithinPool'
         /\ \A q : Fits(q) /\ (\E u \in Staff : q = req[u]) => FitsNext(q)
<1> DEFINE take == Take(pays[p].amount + totals.credit)
           done == [pays EXCEPT ![p].status = "succeeded"]
           t == Recalc(Allocated(take), done)
           S == Succeeded(pay)
<1>1. /\ inst \in [Index -> Row] /\ totals \in Totals /\ plan \in Plans /\ IsFiniteSet(Index)
      /\ alloc \in [Payments -> [Index -> Nat]] /\ IsFiniteSet(S) /\ S \subseteq Payments
  BY IndexIsFinite DEF LedgerInv, TablesTyped, Succeeded
<1>2. /\ Locks = {} /\ p \notin PayLocks
      /\ inst' = Allocated(take) /\ pay' = done /\ totals' = t
      /\ alloc' = [alloc EXCEPT ![p] = [i \in DOMAIN inst |-> @[i] + take[i]]]
      /\ status' = IF Completes(t) THEN "completed" ELSE status
      /\ owner' = IF t.outstanding = 0 THEN "transferred" ELSE owner
      /\ UNCHANGED <<app, plan, released>>
  BY DEF Apply
<1>3. pays[p].amount + totals.credit \in Nat
  <2>1. pays[p].amount \in PayAmounts \cup {0} /\ totals.credit \in Nat
    BY <1>1 DEF PayRow, Totals
  <2>2. pays[p].amount \in Nat
    BY <2>1, AmountsNat
  <2> QED BY <2>1, <2>2
<1>4. take \in [Index -> Nat] /\ \A i \in Index : inst[i].paid + take[i] <= Amount(plan, i)
  BY <1>3, TakeBounds
<1> HIDE DEF take
<1>5. inst' \in [Index -> Row] /\ \A i \in Index : inst'[i].paid = inst[i].paid + take[i]
  BY <1>2, <1>4, AllocatedRows
<1>6. done \in [Payments -> PayRow] /\ done[p].status = "succeeded"
      /\ \A q \in Payments \ {p} : done[q] = pay[q]
  BY DEF PayRow
<1>7. Succeeded(done) = S \cup {p} /\ p \notin S
  BY <1>6 DEF Succeeded
<1>8. IsFiniteSet(Succeeded(done))
  <2>1. PICK B : B = S
    OBVIOUS
  <2>2. IsFiniteSet(B \cup {p})
    BY <1>1, <2>1, FS_AddElement
  <2> QED BY <1>7, <2>1, <2>2
<1> HIDE DEF done
<1>9. t \in Totals
  BY <1>1, <1>2, <1>5, <1>6, <1>8, RecalcTyped
<1>10. Index' = Index /\ status' # "none"
  BY <1>2 DEF Index
<1>11. /\ alloc' \in [Payments -> [Index -> Nat]]
       /\ \A i \in Index : alloc'[p][i] = alloc[p][i] + take[i]
       /\ \A q \in Payments \ {p} : alloc'[q] = alloc[q]
  <2>1. [i \in DOMAIN inst |-> alloc[p][i] + take[i]] \in [Index -> Nat]
    BY <1>1, <1>4
  <2> QED BY <1>1, <1>2, <2>1
<1> HIDE DEF t
<1>12. TablesTyped'
  BY <1>1, <1>2, <1>5, <1>9, <1>10, <1>11 DEF LedgerInv, TablesTyped
<1>13. AbsentIsBlank'
  BY <1>2, <1>6, <1>10 DEF LedgerInv, AbsentIsBlank, Blank
<1>14. Succeeded(pay)' = S \cup {p}
  BY <1>2, <1>7 DEF Succeeded
<1>15. ASSUME NEW i \in Index PROVE inst'[i].paid <= Amount(plan, i) /\ inst'[i].paid <= Pool(i)'
  <2> DEFINE f == [q \in Payments |-> alloc[q][i]]  g == [q \in Payments |-> alloc'[q][i]]
  <2>1. /\ \A q \in S : f[q] = g[q]
        /\ \A q \in S \cup {p} : g[q] \in Int
        /\ g[p] = alloc[p][i] + take[i] /\ Pool(i)' = SumFunctionOnSet(g, S \cup {p})
        /\ Pool(i) = SumFunctionOnSet(f, S)
    BY <1>1, <1>7, <1>11, <1>14 DEF Pool
  <2> HIDE DEF f, g, S
  <2>2. SumFunctionOnSet(g, S) = SumFunctionOnSet(f, S)
    BY <1>1, <2>1, SumSame
  <2>3. PICK v, B, x : v = g /\ B = S /\ x = p
    OBVIOUS
  <2>4. SumFunctionOnSet(v, B \cup {x}) = v[x] + SumFunctionOnSet(v, B)
    BY <1>1, <1>7, <2>1, <2>3, SumAdd
  <2>5. Pool(i)' = alloc[p][i] + take[i] + Pool(i)
    BY <2>1, <2>2, <2>3, <2>4
  <2>6. /\ Pool(i) \in Nat /\ alloc[p][i] \in Nat /\ take[i] \in Nat /\ inst[i].paid \in Nat
        /\ inst[i].paid <= Pool(i)
    BY <1>1, <1>4, PoolWithout DEF Row, LedgerInv, WithinPool
  <2>7. inst[i].paid + take[i] <= alloc[p][i] + take[i] + Pool(i)
    BY <2>6
  <2> QED BY <1>4, <1>5, <2>5, <2>7
<1>16. WithinPool'
  BY <1>2, <1>10, <1>15 DEF WithinPool, Amount, Instalment, Financed
<1>17. ASSUME NEW q, Fits(q), \E u \in Staff : q = req[u] PROVE FitsNext(q)
  <2>1. q.locks = {}
    BY <1>2, <1>17 DEF Locks
  <2>2. q.pc = "commit" => q.pay # p
    BY <1>2, <1>17 DEF PayLocks
  <2>3. q.pc = "commit" /\ q.kind = "reverse" => alloc'[q.pay] = alloc[q.pay]
    BY <1>11, <1>17, <2>2 DEF Fits, Holds
  <2> QED BY <1>10, <1>17, <2>1, <2>3, FitsKept
<1> QED BY <1>2, <1>8, <1>12, <1>13, <1>16, <1>17

LEMMA RecordKeeps ==
  ASSUME LedgerInv, Inv', NEW s \in Staff, RecordPayment(s), UNCHANGED reversals
  PROVE  LedgerInv'
<1>1. /\ status # "none" /\ req' = [req EXCEPT ![s] = NotStarted]
      /\ app \in Application /\ status \in {"none", "active", "completed", "cancelled"}
      /\ released \in BOOLEAN /\ reversals \in 0..MaxReversals /\ pay \in [Payments -> PayRow]
      /\ req[s].amount \in PayAmounts /\ req[s].receipt \in Payments \cup {NoPayment}
  BY DEF LedgerInv, Inv, RequestsInsertRows, TablesTyped, RequestsFit, Fits, RecordPayment, At, Done
<1>2. CASE UNCHANGED <<app, agreement, totals, inst, pay, alloc>>
  BY <1>1, <1>2, FreeRequest, Shapes DEF Fits, Pc, agreement
<1>3. CASE \E p \in Payments :
             /\ pay[p].status = "absent"
             /\ Apply(p, Inserted(p, [status |-> "pending", amount |-> req[s].amount,
                                      receipt |-> req[s].receipt, outcome |-> "none"]))
  <2>1. PICK p \in Payments :
             /\ pay[p].status = "absent"
             /\ Apply(p, Inserted(p, [status |-> "pending", amount |-> req[s].amount,
                                      receipt |-> req[s].receipt, outcome |-> "none"]))
    BY <1>3
  <2> DEFINE pays == Inserted(p, [status |-> "pending", amount |-> req[s].amount,
                                  receipt |-> req[s].receipt, outcome |-> "none"])
  <2>2. pays \in [Payments -> PayRow] /\ pays[p].status # "succeeded"
        /\ \A q \in Payments \ {p} : pays[q] = pay[q]
    BY <1>1 DEF Inserted, PayRow
  <2>3. Apply(p, pays)
    BY <2>1
  <2> HIDE DEF pays
  <2>4. /\ TablesTyped' /\ AbsentIsBlank' /\ IsFiniteSet(Succeeded(pay))' /\ WithinPool'
        /\ \A q : Fits(q) /\ (\E u \in Staff : q = req[u]) => FitsNext(q)
    BY <1>1, <2>1, <2>2, <2>3, ApplyTables
  <2>5. RequestsFit' /\ LocksApart'
    <3>1. FitsNext(NotStarted)
      BY Shapes DEF FitsNext, Fits, Pc
    <3>2. \A u \in Staff \ {s} : FitsNext(req[u])
      BY <2>4 DEF LedgerInv, RequestsFit
    <3>3. \A u \in Staff \ {s} : Apart(NotStarted, req[u]) /\ Apart(req[u], NotStarted)
      BY FreeIsApart, Shapes
    <3> QED BY <1>1, <3>1, <3>2, <3>3, OneMoves
  <2> QED BY <2>4, <2>5 DEF LedgerInv
<1> QED BY <1>2, <1>3 DEF RecordPayment

LEMMA CallbackApplies ==
  ASSUME LedgerInv, Inv', NEW p \in Payments, ApplyCallback(p), UNCHANGED reversals
  PROVE  LedgerInv'
<1>1. /\ pay[p].outcome = "exact" /\ pay[p].status # "succeeded" /\ Apply(p, pay) /\ UNCHANGED req
      /\ pay \in [Payments -> PayRow]
  BY DEF ApplyCallback, Unapplied, LedgerInv, Inv
<1>2. status # "none"
  BY <1>1 DEF LedgerInv, AbsentIsBlank, Blank
<1>3. /\ TablesTyped' /\ AbsentIsBlank' /\ IsFiniteSet(Succeeded(pay))' /\ WithinPool'
      /\ \A q : Fits(q) /\ (\E u \in Staff : q = req[u]) => FitsNext(q)
  BY <1>1, <1>2, ApplyTables
<1>4. RequestsFit' /\ LocksApart'
  BY <1>1, <1>3, NoneMoves DEF LedgerInv, RequestsFit
<1> QED BY <1>3, <1>4 DEF LedgerInv

-----------------------------------------------------------------------------
LEMMA InitLedger == Init => LedgerInv
<1> SUFFICES ASSUME Init PROVE LedgerInv
  OBVIOUS
<1>1. Index = {} /\ status = "none" /\ plan = NoPlan /\ owner = "seller" /\ released = FALSE
  BY DEF Init, Index
<1>2. inst \in [{} -> Row] /\ \A p \in Payments : alloc[p] \in [{} -> Nat]
  <2>1. inst = <<>> /\ alloc = [p \in Payments |-> <<>>]
    BY DEF Init
  <2>2. << >> \in [{} -> Row] /\ << >> \in [{} -> Nat]
    OBVIOUS
  <2> QED BY <2>1, <2>2
<1>3. alloc \in [Payments -> [Index -> Nat]]
  BY <1>1, <1>2 DEF Init
<1>4. totals \in Totals
  BY DEF Init, NotStarted, Totals
<1>5. reversals \in 0..MaxReversals /\ app \in Application
  <2>1. MaxReversals \in Nat /\ Consents \subseteq BOOLEAN
    BY FinancingAssumption
  <2> QED BY <2>1 DEF Init, Application
<1>6. TablesTyped
  BY <1>1, <1>2, <1>3, <1>4, <1>5 DEF TablesTyped
<1>7. \A s \in Staff : req[s] = NotStarted
  BY DEF Init
<1>8. Fits(NotStarted) /\ Apart(NotStarted, NotStarted)
  BY DEF NotStarted, Fits, Apart, Pc
<1>9. RequestsFit /\ LocksApart
  BY <1>7, <1>8 DEF RequestsFit, LocksApart
<1>10. AbsentIsBlank /\ Succeeded(pay) = {}
  BY DEF Init, AbsentIsBlank, Blank, Succeeded
<1>11. WithinPool
  BY <1>1 DEF WithinPool
<1> QED BY <1>6, <1>9, <1>10, <1>11, InitInv, FS_EmptySet DEF LedgerInv

(* Nothing moves, but perhaps time. *)
LEMMA StutterKeeps ==
  ASSUME LedgerInv, Inv', UNCHANGED vars
  PROVE  LedgerInv'
<1>1. TablesTyped' /\ AbsentIsBlank' /\ IsFiniteSet(Succeeded(pay))' /\ WithinPool'
  <2>1. status \in {"none", "active", "completed", "cancelled"} /\ app \in Application
        /\ owner \in {"seller", "transferred"} /\ released \in BOOLEAN
        /\ totals \in Totals /\ reversals \in 0..MaxReversals
    BY DEF LedgerInv, TablesTyped
  <2> QED BY <2>1, TablesKept DEF vars, agreement
<1>2. \A u \in Staff : FitsNext(req[u])
  BY FitsStay DEF LedgerInv, RequestsFit, vars, agreement
<1>3. RequestsFit' /\ LocksApart'
  BY <1>2, NoneMoves DEF vars
<1> QED BY <1>1, <1>3 DEF LedgerInv

LEMMA LedgerStep == LedgerInv /\ [Next]_vars => LedgerInv'
<1> SUFFICES ASSUME LedgerInv, [Next]_vars PROVE LedgerInv'
  OBVIOUS
<1>1. Inv'
  BY StepInv DEF LedgerInv
<1>2. ASSUME NEW s \in Staff, Request(s), UNCHANGED reversals PROVE LedgerInv'
  <2>1. CASE \/ ReadDraft(s) \/ EditApplication(s) \/ SubmitApplication(s)
             \/ ReviewApplication(s) \/ RejectApplication(s) \/ ReadTerms(s)
    BY <1>1, <1>2, <2>1, ApplicationKeeps
  <2>2. CASE ApproveApplication(s)
    BY <1>1, <1>2, <2>2, ApproveKeeps
  <2>3. CASE ReadPayable(s) \/ ReadAgreement(s) \/ ReadSchedules(s) \/ Abort(s)
    BY <1>1, <1>2, <2>3, ReadsKeep
  <2>4. CASE RecordPayment(s)
    BY <1>1, <1>2, <2>4, RecordKeeps
  <2>5. CASE InitiateMpesaPayment(s)
    BY <1>1, <1>2, <2>5, PaymentRowsKeep
  <2>6. CASE ReleaseProduct(s) \/ CancelAgreement(s)
    BY <1>1, <1>2, <2>6, AgreementKeeps
  <2>7. CASE WriteWaiver(s)
    BY <1>1, <1>2, <2>7, WaiverKeeps
  <2>8. CASE Adjust(s)
    BY <1>1, <1>2, <2>8, AdjustKeeps
  <2>9. CASE WriteReversal(s)
    BY <1>1, <1>2, <2>9, ReversalKeeps
  <2>10. CASE Commit(s)
    BY <1>1, <1>2, <2>10, CommitKeeps
  <2> QED BY <1>2, <2>1, <2>2, <2>3, <2>4, <2>5, <2>6, <2>7, <2>8, <2>9, <2>10 DEF Request
<1>3. ASSUME NEW s \in Staff, ReadPayment(s) PROVE LedgerInv'
  BY <1>1, <1>3, ReadsKeep
<1>4. ASSUME NEW p \in Payments, Callback(p), UNCHANGED reversals PROVE LedgerInv'
  <2>1. CASE CallbackFails(p) \/ CallbackMismatch(p) \/ StoreReceipt(p)
    BY <1>1, <1>4, <2>1, PaymentRowsKeep
  <2>2. CASE ApplyCallback(p)
    BY <1>1, <1>4, <2>2, CallbackApplies
  <2> QED BY <1>4, <2>1, <2>2 DEF Callback
<1>5. ASSUME RefreshOverdueStatuses, UNCHANGED reversals PROVE LedgerInv'
  BY <1>1, <1>5, RefreshKeeps
<1>6. ASSUME UNCHANGED vars PROVE LedgerInv'
  BY <1>1, <1>6, StutterKeeps
<1> QED BY <1>2, <1>3, <1>4, <1>5, <1>6 DEF Next

LEMMA LedgerHolds == Spec => []LedgerInv
BY InitLedger, LedgerStep, PTL DEF Spec

(* Every table keeps its shape: an instalment never goes below zero, a        *)
(* payment only ever covers instalments of the agreement it belongs to.       *)
THEOREM SchedulesTyped == Spec => []TypeOK
<1>1. ASSUME LedgerInv PROVE TypeOK
  <2>1. DOMAIN inst = Index /\ \A i \in DOMAIN inst : inst[i] \in Row
    BY <1>1 DEF LedgerInv, TablesTyped
  <2>2. \A p \in Payments : alloc[p] \in [DOMAIN inst -> Nat]
    BY <1>1, <2>1 DEF LedgerInv, TablesTyped
  <2>3. plan \in Plans \cup {NoPlan}
    BY <1>1 DEF LedgerInv, TablesTyped
  <2>4. \A s \in Staff : req[s].pc \in Pc
    BY <1>1 DEF LedgerInv, RequestsFit, Fits
  <2>5. pay \in [Payments -> PayRow]
    BY <1>1 DEF LedgerInv, Inv
  <2> QED BY <1>1, <2>1, <2>2, <2>3, <2>4, <2>5
          DEF LedgerInv, TablesTyped, TypeOK, Row, Totals, Application, PayRow
<1> QED BY <1>1, LedgerHolds, PTL

(* However many desks and callbacks write at once, no instalment takes more   *)
(* than it asks for, and none shows money that no payment allocated to it.    *)
THEOREM PaidIsCovered == Spec => []PaidIsAllocated
<1>1. ASSUME LedgerInv PROVE PaidIsAllocated
  <2>1. DOMAIN inst = Index
    BY <1>1 DEF LedgerInv, TablesTyped
  <2> QED BY <1>1, <2>1 DEF LedgerInv, WithinPool, Pool, PaidIsAllocated
<1> QED BY <1>1, LedgerHolds, PTL

-----------------------------------------------------------------------------
(* What is received is accounted for, while nothing is reversed.             *)

(* A waterfall takes all of the total, or all that is due.                   *)
LEMMA WaterfallTakes ==
  ASSUME NEW n \in Nat, NEW due \in [1..n -> Nat], NEW total \in Nat
  PROVE  SumFunctionOnSet(Waterfall(due, total), 1..n) = Lesser(SumFunctionOnSet(due, 1..n), total)
<1> DEFINE w == Waterfall(due, total)
           D(k) == SumFunctionOnSet(due, 1..k)
           W(k) == SumFunctionOnSet(w, 1..k)
           Bad == {k \in 0..n : W(k) # Lesser(D(k), total)}
<1> SUFFICES ASSUME Bad # {} PROVE FALSE
  OBVIOUS
<1>1. PICK k \in Bad : \A m \in Bad : k <= m
  <2> HIDE DEF W, D
  <2>1. Bad \in SUBSET Nat
    OBVIOUS
  <2> QED BY <2>1, LeastNumber
<1>2. k \in 0..n /\ W(k) # Lesser(D(k), total)
  OBVIOUS
<1>3. k # 0
  <2>1. 1..0 = {}
    OBVIOUS
  <2>2. W(0) = 0 /\ D(0) = 0
    BY <2>1, SumEmpty
  <2> QED BY <1>2, <2>2 DEF Lesser
<1>4. IsFiniteSet(1..n)
  BY FS_Interval
<1>5. w \in [1..n -> Nat]
  BY <1>4, WaterfallBounds
<1>6. PICK h : h = k - 1
  OBVIOUS
<1>7. /\ h \in 0..n /\ h < k /\ k \in 1..n /\ 1..k = 1..h \cup {k} /\ k \notin 1..h
      /\ 1..k \subseteq 1..n /\ {j \in 1..n : j < k} = 1..h
  BY <1>2, <1>3, <1>6
<1>8. IsFiniteSet(1..h) /\ \A j \in 1..h \cup {k} : due[j] \in Int /\ w[j] \in Int
  <2>1. 1..h \subseteq 1..n
    BY <1>7
  <2>2. IsFiniteSet(1..h)
    BY <1>4, <2>1, FS_Subset
  <2> QED BY <1>5, <1>7, <2>2
<1>9. D(h) \in Nat /\ due[k] \in Nat
  <2>1. \A j \in 1..h : due[j] \in Nat
    BY <1>7
  <2> QED BY <1>7, <1>8, <2>1, SumNat
<1>10. W(h) = Lesser(D(h), total)
  <2> HIDE DEF W, D
  <2> QED BY <1>1, <1>2, <1>7
<1>11. w[k] = Lesser(due[k], AtLeast0(total - D(h)))
  BY <1>7 DEF Waterfall
<1> HIDE DEF w
<1>12. W(k) = w[k] + W(h) /\ D(k) = due[k] + D(h)
  <2>1. PICK A : A = 1..h
    OBVIOUS
  <2>2. /\ SumFunctionOnSet(w, A \cup {k}) = w[k] + SumFunctionOnSet(w, A)
        /\ SumFunctionOnSet(due, A \cup {k}) = due[k] + SumFunctionOnSet(due, A)
    BY <1>7, <1>8, <2>1, SumAdd
  <2> QED BY <1>7, <2>1, <2>2
<1> HIDE DEF W, D
<1>13. PICK a, b, c : a = D(h) /\ b = due[k] /\ c = total
  OBVIOUS
<1>14. Lesser(b, AtLeast0(c - a)) + Lesser(a, c) = Lesser(b + a, c)
  BY <1>9, <1>13 DEF Lesser, AtLeast0
<1> QED BY <1>2, <1>10, <1>11, <1>12, <1>13, <1>14

LEMMA PaidPlus ==
  ASSUME NEW D, IsFiniteSet(D), NEW f \in [D -> Row], NEW g \in [D -> Row],
         NEW take \in [D -> Nat], \A i \in D : g[i].paid = f[i].paid + take[i]
  PROVE  Paid(g) = Paid(f) + SumFunctionOnSet(take, D)
<1> DEFINE a == [i \in D |-> f[i].paid]  b == [i \in D |-> g[i].paid]
<1>1. /\ Paid(f) = SumFunctionOnSet(a, D) /\ Paid(g) = SumFunctionOnSet(b, D)
      /\ \A i \in D : a[i] \in Int /\ take[i] \in Int /\ b[i] = a[i] + take[i]
  BY DEF Paid, SumFunction, Row
<1> HIDE DEF a, b
<1> QED BY <1>1, SumPlus

LEMMA PaidSame ==
  ASSUME NEW D, IsFiniteSet(D), NEW f \in [D -> Row], NEW g \in [D -> Row],
         \A i \in D : f[i].paid = g[i].paid
  PROVE  Paid(f) = Paid(g)
BY DEF Paid

LEMMA ReceivedSame ==
  ASSUME NEW f \in [Payments -> PayRow], NEW g \in [Payments -> PayRow],
         IsFiniteSet(Succeeded(f)), Succeeded(g) = Succeeded(f),
         \A p \in Succeeded(f) : g[p].amount = f[p].amount
  PROVE  Received(g) = Received(f)
<1> DEFINE a == [p \in Payments |-> f[p].amount]  b == [p \in Payments |-> g[p].amount]
           S == Succeeded(f)
<1>1. /\ Received(f) = SumFunctionOnSet(a, S) /\ Received(g) = SumFunctionOnSet(b, S)
      /\ \A p \in S : a[p] = b[p]
  BY DEF Received, Succeeded
<1> HIDE DEF a, b, S
<1>2. IsFiniteSet(S)
  BY DEF S
<1> QED BY <1>1, <1>2, SumSame

LEMMA ReceivedPlus ==
  ASSUME NEW f \in [Payments -> PayRow], NEW g \in [Payments -> PayRow],
         IsFiniteSet(Succeeded(f)), NEW p \in Payments, p \notin Succeeded(f),
         Succeeded(g) = Succeeded(f) \cup {p},
         \A q \in Succeeded(f) : g[q].amount = f[q].amount
  PROVE  Received(g) = Received(f) + g[p].amount
<1> DEFINE a == [q \in Payments |-> f[q].amount]  b == [q \in Payments |-> g[q].amount]
           S == Succeeded(f)
<1>1. /\ Received(f) = SumFunctionOnSet(a, S) /\ Received(g) = SumFunctionOnSet(b, S \cup {p})
      /\ (\A q \in S : a[q] = b[q]) /\ b[p] = g[p].amount /\ p \notin S
  BY DEF Received, Succeeded
<1>2. \A q \in Payments : a[q] \in Nat /\ b[q] \in Nat
  BY AmountsNat DEF PayRow
<1>3. IsFiniteSet(S) /\ S \subseteq Payments
  BY DEF Succeeded
<1> HIDE DEF a, b, S
<1>4. \A q \in S \cup {p} : a[q] \in Nat /\ b[q] \in Nat
  BY <1>2, <1>3
<1>5. SumFunctionOnSet(a, S) = SumFunctionOnSet(b, S)
  BY <1>1, <1>3, SumSame
<1>6. SumFunctionOnSet(b, S \cup {p}) = b[p] + SumFunctionOnSet(b, S)
  BY <1>1, <1>3, <1>4, SumAdd
<1>7. SumFunctionOnSet(b, S) \in Nat
  BY <1>3, <1>4, SumNat
<1> QED BY <1>1, <1>4, <1>5, <1>6, <1>7

(* A request does what Kinds allows; submitting may approve at once.         *)
KindsAsked == \A s \in Staff : req[s].kind \in Kinds \cup {"none", "approve"}

(* Before there is an agreement nothing is owed back.                        *)
AccountInv == /\ LedgerInv /\ KindsAsked
              /\ status = "none" => totals.credit = 0
              /\ ReceivedIsAccounted

(* A step of one request *)
LEMMA OthersRest ==
  ASSUME LedgerInv, NEW s \in Staff, Request(s) \/ ReadPayment(s)
  PROVE  \A u \in Staff \ {s} : req'[u] = req[u]
<1> USE DEF LedgerInv, Inv, RequestsInsertRows
<1>1. CASE \E r : req' = [req EXCEPT ![s] = r]
  BY <1>1
<1>2. CASE UNCHANGED req
  BY <1>2
<1>3. ASSUME NEW pc, NEW kind, Goto(s, pc, kind) PROVE \E r : req' = [req EXCEPT ![s] = r]
  BY <1>3 DEF Goto
<1>4. ASSUME Done(s) PROVE \E r : req' = [req EXCEPT ![s] = r]
  BY <1>4 DEF Done
<1>5. ASSUME NEW kind, NEW p, NEW rows, NEW locks, NEW pays, Wrote(s, kind, p, rows, locks, pays)
      PROVE  \E r : req' = [req EXCEPT ![s] = r]
  BY <1>5 DEF Wrote
<1>6. CASE ReadDraft(s) \/ SubmitApplication(s) \/ ReviewApplication(s) \/ ReadAgreement(s)
  BY <1>1, <1>3, <1>4, <1>6 DEF ReadDraft, SubmitApplication, ReviewApplication, ReadAgreement
<1>7. CASE \/ EditApplication(s) \/ RejectApplication(s) \/ ApproveApplication(s)
           \/ RecordPayment(s) \/ ReleaseProduct(s) \/ CancelAgreement(s) \/ Commit(s) \/ Abort(s)
  BY <1>1, <1>4, <1>7 DEF EditApplication, RejectApplication, ApproveApplication, RecordPayment,
                    ReleaseProduct, CancelAgreement, Commit, Abort
<1>8. CASE ReadTerms(s) \/ ReadPayable(s) \/ ReadSchedules(s) \/ ReadPayment(s)
  BY <1>8 DEF ReadTerms, ReadPayable, ReadSchedules, ReadPayment
<1>9. CASE InitiateMpesaPayment(s)
  BY <1>2, <1>9 DEF InitiateMpesaPayment
<1>10. CASE WriteWaiver(s) \/ Adjust(s) \/ WriteReversal(s)
  BY <1>1, <1>5, <1>10 DEF WriteWaiver, Adjust, WriteReversal
<1> QED BY <1>6, <1>7, <1>8, <1>9, <1>10 DEF Request

(* Whether a request waits with a schedule it read or wrote *)
Waits(r) == r.pc = "commit" \/ (r.pc = "transaction" /\ r.kind = "waive")
Free(r) == ~Waits(r)

LEMMA NextKind ==
  ASSUME LedgerInv, NEW s \in Staff, Request(s) \/ ReadPayment(s), KindsAsked
  PROVE  /\ req'[s].kind \in Kinds \cup {"none", "approve"}
         /\ \/ ReadSchedules(s) \/ WriteWaiver(s) \/ Adjust(s) \/ WriteReversal(s)
            \/ UNCHANGED req \/ Free(req'[s])
<1> USE DEF LedgerInv, Inv, RequestsInsertRows, Free, Waits
<1>1. NotStarted.kind = "none" /\ NotStarted.pc = "idle"
      /\ \A pc, kind : LET r == [NotStarted EXCEPT !.pc = pc, !.kind = kind] IN
                       r.pc = pc /\ r.kind = kind
  BY DEF NotStarted
<1>2. ASSUME Done(s) PROVE req'[s].kind = "none" /\ req'[s].pc = "idle"
  BY <1>1, <1>2 DEF Done
<1>3. ASSUME NEW pc, NEW kind, Goto(s, pc, kind) PROVE req'[s].kind = kind /\ req'[s].pc = pc
  <2> DEFINE r == [NotStarted EXCEPT !.pc = pc, !.kind = kind]
  <2>1. r.pc = pc /\ r.kind = kind /\ req' = [req EXCEPT ![s] = r]
    BY <1>1, <1>3 DEF Goto
  <2> HIDE DEF r
  <2> QED BY <2>1
<1>4. CASE ReadDraft(s) \/ SubmitApplication(s) \/ ReviewApplication(s) \/ ReadAgreement(s)
  <2>1. \E pc \in {"write", "review"}, kind \in Kinds \cup {"none", "approve"} : Goto(s, pc, kind) \/ Done(s)
    BY <1>4 DEF ReadDraft, SubmitApplication, ReviewApplication, ReadAgreement, Starts
  <2> QED BY <1>2, <1>3, <2>1
<1>5. CASE \/ EditApplication(s) \/ RejectApplication(s) \/ ApproveApplication(s)
           \/ RecordPayment(s) \/ ReleaseProduct(s) \/ CancelAgreement(s) \/ Commit(s) \/ Abort(s)
  BY <1>2, <1>5 DEF EditApplication, RejectApplication, ApproveApplication, RecordPayment,
                    ReleaseProduct, CancelAgreement, Commit, Abort
<1>6. CASE ReadTerms(s)
  <2> DEFINE r == [NotStarted EXCEPT !.pc = "approve", !.plan = app.plan]
  <2>1. r.kind = "none" /\ r.pc = "approve"
    BY DEF NotStarted
  <2>2. req' = [req EXCEPT ![s] = r]
    BY <1>6 DEF ReadTerms
  <2> HIDE DEF r
  <2> QED BY <2>1, <2>2
<1>7. CASE ReadPayable(s)
  <2>1. PICK amount, q : req' = [req EXCEPT ![s] = [NotStarted EXCEPT
                           !.pc = "write", !.kind = "record", !.amount = amount, !.receipt = q]]
    BY <1>7 DEF ReadPayable
  <2> DEFINE r == [NotStarted EXCEPT
                     !.pc = "write", !.kind = "record", !.amount = amount, !.receipt = q]
  <2>2. r.kind = "record" /\ r.pc = "write" /\ req' = [req EXCEPT ![s] = r]
    BY <2>1 DEF NotStarted
  <2> HIDE DEF r
  <2> QED BY <1>7, <2>2 DEF ReadPayable, Starts
<1>8. CASE ReadSchedules(s)
  <2>1. PICK amount : req' = [req EXCEPT ![s] = [NotStarted EXCEPT
                        !.pc = "transaction", !.kind = "waive", !.amount = amount, !.rows = inst]]
    BY <1>8 DEF ReadSchedules
  <2> DEFINE r == [NotStarted EXCEPT
                     !.pc = "transaction", !.kind = "waive", !.amount = amount, !.rows = inst]
  <2>2. r.kind = "waive" /\ req' = [req EXCEPT ![s] = r]
    BY <2>1 DEF NotStarted
  <2> HIDE DEF r
  <2> QED BY <1>8, <2>2 DEF ReadSchedules, Starts
<1>9. CASE ReadPayment(s)
  <2>1. PICK p : req' = [req EXCEPT ![s] = [NotStarted EXCEPT
                        !.pc = "transaction", !.kind = "reverse", !.pay = p]]
    BY <1>9 DEF ReadPayment
  <2> DEFINE r == [NotStarted EXCEPT !.pc = "transaction", !.kind = "reverse", !.pay = p]
  <2>2. r.kind = "reverse" /\ r.pc = "transaction" /\ req' = [req EXCEPT ![s] = r]
    BY <2>1 DEF NotStarted
  <2> HIDE DEF r
  <2> QED BY <1>9, <2>2 DEF ReadPayment, Starts
<1>10. CASE InitiateMpesaPayment(s)
  BY <1>10 DEF InitiateMpesaPayment, KindsAsked
<1>11. CASE WriteWaiver(s) \/ Adjust(s) \/ WriteReversal(s)
  <2>1. ASSUME NEW kind, NEW p, NEW rows, NEW locks, NEW pays, Wrote(s, kind, p, rows, locks, pays)
        PROVE  req'[s].kind = kind
    BY <2>1 DEF Wrote, NotStarted
  <2>2. req'[s].kind \in Kinds \cup {"none", "approve"}
    BY <1>11, <2>1 DEF WriteWaiver, Adjust, WriteReversal, At, Starts, KindsAsked
  <2> QED BY <1>11, <2>2
<1> QED BY <1>4, <1>5, <1>6, <1>7, <1>8, <1>9, <1>10, <1>11 DEF Request

LEMMA StepKinds ==
  ASSUME LedgerInv, KindsAsked, [Next]_vars
  PROVE  KindsAsked'
<1>1. ASSUME NEW s \in Staff, Request(s) \/ ReadPayment(s) PROVE KindsAsked'
  BY <1>1, OthersRest, NextKind DEF KindsAsked
<1>2. CASE UNCHANGED req
  BY <1>2 DEF KindsAsked
<1>3. ASSUME NEW p \in Payments, Callback(p) PROVE UNCHANGED req
  BY <1>3 DEF Callback, CallbackFails, CallbackMismatch, StoreReceipt, ApplyCallback
<1> QED BY <1>1, <1>2, <1>3 DEF Next, vars, RefreshOverdueStatuses

(* An applied payment goes to instalments, and the rest becomes credit.      *)
LEMMA ApplyAccounts ==
  ASSUME AccountInv, status # "none", NEW p \in Payments, NEW pays \in [Payments -> PayRow],
         Apply(p, pays), pay[p].status # "succeeded", pays[p].status # "succeeded",
         \A q \in Payments \ {p} : pays[q] = pay[q]
  PROVE  ReceivedIsAccounted'
<1> DEFINE take == Take(pays[p].amount + totals.credit)
           due == [i \in DOMAIN inst |-> Due(i)]
           done == [pays EXCEPT ![p].status = "succeeded"]
           S == Succeeded(pay)
<1>1. /\ inst \in [Index -> Row] /\ totals \in Totals /\ plan \in Plans /\ Index = 1..plan.terms
      /\ IsFiniteSet(Index) /\ IsFiniteSet(S) /\ LedgerInv
  BY IndexIsFinite DEF AccountInv, LedgerInv, TablesTyped
<1>2. /\ inst' = Allocated(take) /\ pay' = done /\ totals' = Recalc(Allocated(take), done)
  BY DEF Apply
<1>3. pays[p].amount \in Nat /\ totals.credit \in Nat /\ pays[p].amount + totals.credit \in Nat
  BY <1>1, AmountsNat DEF PayRow, Totals
<1>4. take \in [Index -> Nat]
  BY <1>1, <1>3, TakeBounds
<1>5. SumFunctionOnSet(take, Index) <= pays[p].amount + totals.credit
  <2>1. due \in [Index -> Nat]
    <3>1. ASSUME NEW i \in Index PROVE Due(i) \in Nat
      <4>1. Amount(plan, i) \in Nat /\ inst[i].waived \in Nat /\ inst[i].paid \in Nat
        BY <1>1, AmountIsNat DEF Row
      <4> QED BY <4>1 DEF Due, Collectible, AtLeast0
    <3> QED BY <1>1, <3>1
  <2>2. PICK n \in Nat, total \in Nat : n = plan.terms /\ total = pays[p].amount + totals.credit
    BY <1>1, <1>3, AmountIsNat
  <2>3. PICK d : d = due
    OBVIOUS
  <2>4. SumFunctionOnSet(Waterfall(d, total), 1..n) = Lesser(SumFunctionOnSet(d, 1..n), total)
    BY <1>1, <2>1, <2>2, <2>3, WaterfallTakes
  <2>5. SumFunctionOnSet(d, 1..n) \in Nat
    BY <1>1, <2>1, <2>2, <2>3, SumNat
  <2>6. take = Waterfall(d, total)
    BY <2>2, <2>3 DEF Take
  <2>7. Lesser(SumFunctionOnSet(d, 1..n), total) <= total
    BY <2>5 DEF Lesser
  <2> QED BY <1>1, <2>2, <2>4, <2>6, <2>7
<1> HIDE DEF take, due
<1>6. SumFunctionOnSet(take, Index) \in Nat
  BY <1>1, <1>4, SumNat
<1>7. Allocated(take) \in [Index -> Row]
      /\ Paid(Allocated(take)) = Paid(inst) + SumFunctionOnSet(take, Index)
  <2>1. PICK rows, old, D : rows = Allocated(take) /\ old = inst /\ D = Index
    OBVIOUS
  <2>2. rows \in [D -> Row] /\ \A i \in D : rows[i].paid = old[i].paid + take[i]
    BY <1>1, <1>4, <2>1, AllocatedRows
  <2>3. PICK f : f = take
    OBVIOUS
  <2>4. IsFiniteSet(D) /\ old \in [D -> Row] /\ f \in [D -> Nat]
        /\ \A i \in D : rows[i].paid = old[i].paid + f[i]
    BY <1>1, <1>4, <2>1, <2>2, <2>3
  <2>5. Paid(rows) = Paid(old) + SumFunctionOnSet(f, D)
    BY <2>2, <2>4, PaidPlus
  <2> QED BY <2>1, <2>2, <2>3, <2>5
<1>8. Received(done) = Received(pay) + pays[p].amount
  <2>1. /\ done \in [Payments -> PayRow] /\ done[p].amount = pays[p].amount
        /\ done[p].status = "succeeded" /\ \A q \in Payments \ {p} : done[q] = pay[q]
    BY DEF PayRow
  <2>2. pay \in [Payments -> PayRow] /\ S \subseteq Payments
    BY <1>1 DEF LedgerInv, Inv, Succeeded
  <2> HIDE DEF done
  <2>3. Succeeded(done) = S \cup {p} /\ p \notin S
    BY <2>1 DEF Succeeded
  <2>4. PICK f, g : f = pay /\ g = done
    OBVIOUS
  <2>5. Received(g) = Received(f) + g[p].amount
    BY <1>1, <2>1, <2>2, <2>3, <2>4, ReceivedPlus
  <2> QED BY <2>1, <2>4, <2>5
<1>9. PICK r, k, a, c, n : /\ r = Received(pay) /\ k = Paid(inst) /\ a = pays[p].amount
                           /\ c = totals.credit /\ n = SumFunctionOnSet(take, Index)
  OBVIOUS
<1>10. r \in Nat /\ k \in Nat /\ a \in Nat /\ c \in Nat /\ n \in Nat /\ n <= a + c /\ r = k + c
  BY <1>1, <1>3, <1>5, <1>6, <1>9, RowSums, ReceivedIsNat
     DEF AccountInv, ReceivedIsAccounted, LedgerInv, Inv
<1>11. totals'.credit = AtLeast0((r + a) - (k + n))
  BY <1>2, <1>7, <1>8, <1>9 DEF Recalc, Credit
<1>12. r + a = (k + n) + AtLeast0((r + a) - (k + n))
  BY <1>10 DEF AtLeast0
<1> QED BY <1>2, <1>7, <1>8, <1>9, <1>11, <1>12 DEF ReceivedIsAccounted

(* A step that moves no money *)
LEMMA NoMoney ==
  ASSUME AccountInv, LedgerInv', totals'.credit = totals.credit, Index' = Index,
         \A i \in Index : inst'[i].paid = inst[i].paid,
         Succeeded(pay)' = Succeeded(pay),
         \A p \in Succeeded(pay) : pay'[p].amount = pay[p].amount
  PROVE  ReceivedIsAccounted'
<1>1. PICK f, g, D : f = inst /\ g = inst' /\ D = Index
  OBVIOUS
<1>2. f \in [D -> Row] /\ g \in [D -> Row] /\ IsFiniteSet(D)
  <2>1. inst \in [Index -> Row] /\ IsFiniteSet(Index)
    BY IndexIsFinite DEF AccountInv, LedgerInv, TablesTyped
  <2>2. inst' \in [Index' -> Row]
    BY DEF LedgerInv, TablesTyped, Row
  <2> QED BY <1>1, <2>1, <2>2
<1>3. Paid(g) = Paid(f)
  BY <1>1, <1>2, PaidSame
<1>4. PICK h, k : h = pay /\ k = pay'
  OBVIOUS
<1>5. h \in [Payments -> PayRow] /\ k \in [Payments -> PayRow]
      /\ IsFiniteSet(Succeeded(h)) /\ Succeeded(k) = Succeeded(h)
  BY <1>4 DEF AccountInv, LedgerInv, Inv, Succeeded, PayRow
<1>6. Received(k) = Received(h)
  BY <1>4, <1>5, ReceivedSame
<1> QED BY <1>1, <1>3, <1>4, <1>6 DEF AccountInv, ReceivedIsAccounted

LEMMA MadeIsAccounted ==
  ASSUME AccountInv, LedgerInv', NEW s \in Staff, ApproveApplication(s)
  PROVE  ReceivedIsAccounted' /\ (status' = "none" => totals'.credit = 0)
<1> DEFINE t == req[s].plan
<1>1. UNCHANGED pay
  BY DEF ApproveApplication
<1>2. CASE AgreementExists /\ UNCHANGED <<app, agreement, totals, inst, alloc>>
  <2>1. Index' = Index
    BY <1>2 DEF Index, agreement
  <2> QED BY <1>1, <1>2, <2>1, NoMoney DEF AccountInv, agreement, Succeeded
<1>3. CASE /\ ~AgreementExists /\ status' = "active"
           /\ totals' = [paid |-> 0, outstanding |-> Financed(t), credit |-> 0]
           /\ inst' = [i \in 1..t.terms |-> [paid |-> 0, waived |-> 0, status |-> "pending"]]
  <2>1. Succeeded(pay) = {}
    BY <1>3 DEF AgreementExists, AccountInv, LedgerInv, AbsentIsBlank, Blank, Succeeded
  <2>2. Received(pay') = 0
    BY <1>1, <2>1, SumEmpty DEF Received
  <2>3. PICK g : g = [i \in 1..t.terms |-> inst'[i].paid]
    OBVIOUS
  <2>4. IsFiniteSet(1..t.terms) /\ DOMAIN g = 1..t.terms /\ \A i \in 1..t.terms : g[i] = 0
    <3>1. t \in Plans
      BY DEF ApproveApplication, AccountInv, LedgerInv, RequestsFit, Fits
    <3>2. PICK n \in Nat : n = t.terms
      BY <3>1, AmountIsNat
    <3>3. IsFiniteSet(1..n)
      BY FS_Interval
    <3> QED BY <1>3, <2>3, <3>2, <3>3
  <2>5. SumFunctionOnSet(g, 1..t.terms) = 0
    BY <2>4, SumZero
  <2>6. Paid(inst') = 0
    <3>1. DOMAIN inst' = 1..t.terms
      BY <1>3
    <3> QED BY <2>3, <2>4, <2>5, <3>1 DEF Paid, SumFunction
  <2> QED BY <1>3, <2>2, <2>6 DEF ReceivedIsAccounted
<1> QED BY <1>2, <1>3 DEF ApproveApplication

LEMMA RequestAccounts ==
  ASSUME AccountInv, LedgerInv', "reverse" \notin Kinds, NEW s \in Staff, Request(s)
  PROVE  ReceivedIsAccounted' /\ (status' = "none" => totals'.credit = 0)
<1>1. LedgerInv /\ KindsAsked /\ (status = "none" => totals.credit = 0) /\ Fits(req[s])
  BY DEF AccountInv, LedgerInv, RequestsFit
<1>2. CASE /\ \/ ReadDraft(s) \/ EditApplication(s) \/ SubmitApplication(s)
              \/ ReviewApplication(s) \/ RejectApplication(s) \/ ReadTerms(s)
              \/ ReadPayable(s) \/ ReadAgreement(s) \/ ReadSchedules(s) \/ Abort(s)
              \/ ReleaseProduct(s) \/ CancelAgreement(s) \/ WriteWaiver(s) \/ Adjust(s)
  <2>1. UNCHANGED <<plan, totals, inst, pay>>
    BY <1>2 DEF ReadDraft, EditApplication, SubmitApplication, ReviewApplication,
       RejectApplication, ReadTerms, ReadPayable, ReadAgreement, ReadSchedules, Abort,
       ReleaseProduct, CancelAgreement, WriteWaiver, Adjust, agreement
  <2>2. status' = "none" <=> status = "none"
    <3>1. CASE CancelAgreement(s)
      BY <1>1, <3>1 DEF CancelAgreement, At, Fits
    <3>2. CASE ~CancelAgreement(s)
      BY <1>2, <3>2 DEF ReadDraft, EditApplication, SubmitApplication, ReviewApplication,
         RejectApplication, ReadTerms, ReadPayable, ReadAgreement, ReadSchedules, Abort,
         ReleaseProduct, WriteWaiver, Adjust, agreement
    <3> QED BY <3>1, <3>2
  <2>3. Index' = Index
    BY <2>1, <2>2 DEF Index
  <2> QED BY <1>1, <2>1, <2>2, <2>3, NoMoney DEF Succeeded
<1>3. CASE ApproveApplication(s)
  BY <1>3, MadeIsAccounted
<1>4. CASE RecordPayment(s)
  <2>1. status # "none" /\ pay \in [Payments -> PayRow]
        /\ req[s].amount \in PayAmounts /\ req[s].receipt \in Payments \cup {NoPayment}
    BY <1>1, <1>4 DEF RecordPayment, At, Fits, LedgerInv, Inv, RequestsInsertRows
  <2>2. CASE UNCHANGED <<app, agreement, totals, inst, pay, alloc>>
    <3>1. Index' = Index
      BY <2>2 DEF Index, agreement
    <3> QED BY <1>1, <2>2, <3>1, NoMoney DEF Succeeded, agreement
  <2>3. ASSUME NEW p \in Payments, pay[p].status = "absent",
               Apply(p, Inserted(p, [status |-> "pending", amount |-> req[s].amount,
                                     receipt |-> req[s].receipt, outcome |-> "none"]))
        PROVE  ReceivedIsAccounted' /\ status' # "none"
    <3> DEFINE pays == Inserted(p, [status |-> "pending", amount |-> req[s].amount,
                                    receipt |-> req[s].receipt, outcome |-> "none"])
    <3>1. pays \in [Payments -> PayRow] /\ pays[p].status # "succeeded"
          /\ \A q \in Payments \ {p} : pays[q] = pay[q]
      BY <2>1 DEF Inserted, PayRow
    <3>2. Apply(p, pays)
      BY <2>3
    <3> HIDE DEF pays
    <3>3. status' # "none"
      BY <2>1, <3>2 DEF Apply
    <3>4. ReceivedIsAccounted'
      BY <2>1, <2>3, <3>1, <3>2, ApplyAccounts
    <3> QED BY <3>3, <3>4
  <2> QED BY <1>4, <2>2, <2>3 DEF RecordPayment
<1>5. CASE InitiateMpesaPayment(s)
  <2>1. PICK p \in Payments :
          /\ pay[p].status = "absent" /\ pay'[p].status # "succeeded"
          /\ \A q \in Payments \ {p} : pay'[q] = pay[q]
    BY <1>1, <1>5 DEF InitiateMpesaPayment, Inserted, LedgerInv, Inv
  <2>2. UNCHANGED <<status, plan, totals, inst>>
    BY <1>5 DEF InitiateMpesaPayment, agreement
  <2>3. Succeeded(pay)' = Succeeded(pay) /\ p \notin Succeeded(pay) /\ Index' = Index
    BY <2>1, <2>2 DEF Succeeded, Index
  <2>4. \A q \in Succeeded(pay) : pay'[q].amount = pay[q].amount
    BY <2>1, <2>3 DEF Succeeded
  <2> QED BY <1>1, <2>2, <2>3, <2>4, NoMoney
<1>6. CASE Commit(s)
  <2>1. /\ req[s].kind # "reverse" /\ status # "none" /\ Holds(req[s])
        /\ inst \in [Index -> Row] /\ totals \in Totals
    BY <1>1, <1>6 DEF KindsAsked, Commit, Fits, LedgerInv, TablesTyped
  <2>2. UNCHANGED <<pay, status, plan>> /\ totals'.credit = totals.credit
    BY <1>6, <2>1 DEF Commit, Holds, Totals
  <2>3. \A i \in Index : inst'[i].paid = inst[i].paid
    BY <1>6, <2>1 DEF Commit, Holds
  <2>4. Index' = Index
    BY <2>2 DEF Index
  <2> QED BY <2>1, <2>2, <2>3, <2>4, NoMoney DEF Succeeded
<1>7. ~WriteReversal(s)
  BY <1>1 DEF WriteReversal, At, KindsAsked
<1> QED BY <1>2, <1>3, <1>4, <1>5, <1>6, <1>7 DEF Request

LEMMA CallbackAccounts ==
  ASSUME AccountInv, LedgerInv', NEW p \in Payments, Callback(p)
  PROVE  ReceivedIsAccounted' /\ (status' = "none" => totals'.credit = 0)
<1>1. /\ pay \in [Payments -> PayRow] /\ (status = "none" => totals.credit = 0)
      /\ pay[p].outcome # "none" => status # "none"
  BY DEF AccountInv, LedgerInv, Inv, AbsentIsBlank, Blank
<1>2. CASE CallbackFails(p) \/ CallbackMismatch(p) \/ StoreReceipt(p)
  <2>1. /\ pay[p].status # "succeeded" /\ pay'[p].status # "succeeded"
        /\ \A q \in Payments \ {p} : pay'[q] = pay[q]
        /\ UNCHANGED <<status, plan, totals, inst>>
    <3>1. CASE CallbackFails(p)
      BY <1>1, <3>1 DEF CallbackFails, agreement, PayRow
    <3>2. CASE CallbackMismatch(p)
      BY <1>1, <3>2 DEF CallbackMismatch, agreement, PayRow
    <3>3. CASE StoreReceipt(p)
      BY <1>1, <3>3 DEF StoreReceipt, Unapplied, agreement, PayRow
    <3> QED BY <1>2, <3>1, <3>2, <3>3
  <2>2. Succeeded(pay)' = Succeeded(pay) /\ Index' = Index
    BY <2>1 DEF Succeeded, Index
  <2>3. \A q \in Succeeded(pay) : pay'[q].amount = pay[q].amount
    BY <2>1 DEF Succeeded
  <2> QED BY <1>1, <2>1, <2>2, <2>3, NoMoney
<1>3. CASE ApplyCallback(p)
  <2>1. /\ pay[p].outcome = "exact" /\ pay[p].status # "succeeded" /\ Apply(p, pay)
    BY <1>3 DEF ApplyCallback, Unapplied
  <2>2. status # "none" /\ status' # "none"
    BY <1>1, <2>1 DEF Apply
  <2>3. ReceivedIsAccounted'
    BY <1>1, <2>1, <2>2, ApplyAccounts
  <2> QED BY <2>2, <2>3
<1> QED BY <1>2, <1>3 DEF Callback

LEMMA AccountStep ==
  ASSUME "reverse" \notin Kinds
  PROVE  AccountInv /\ [Next]_vars => AccountInv'
<1> SUFFICES ASSUME AccountInv, [Next]_vars PROVE AccountInv'
  OBVIOUS
<1>1. LedgerInv /\ LedgerInv' /\ KindsAsked /\ KindsAsked' /\ (status = "none" => totals.credit = 0)
  BY LedgerStep, StepKinds DEF AccountInv
<1>2. ASSUME NEW s \in Staff, Request(s) PROVE AccountInv'
  BY <1>1, <1>2, RequestAccounts DEF AccountInv
<1>3. ASSUME NEW s \in Staff, ReadPayment(s) PROVE AccountInv'
  BY <1>3 DEF ReadPayment, Starts
<1>4. ASSUME NEW p \in Payments, Callback(p) PROVE AccountInv'
  BY <1>1, <1>4, CallbackAccounts DEF AccountInv
<1>5. CASE RefreshOverdueStatuses
  <2>1. UNCHANGED <<app, agreement, totals, pay, alloc, req>> /\ inst \in [Index -> Row]
    BY <1>1, <1>5 DEF RefreshOverdueStatuses, LedgerInv, TablesTyped
  <2>2. Index' = Index
    BY <2>1 DEF Index, agreement
  <2>3. \A i \in Index : inst'[i].paid = inst[i].paid
    <3>1. PICK late : inst' = [i \in Index |-> IF i \in late THEN [inst[i] EXCEPT !.status = "overdue"]
                                               ELSE inst[i]]
      BY <1>5, <2>1 DEF RefreshOverdueStatuses
    <3>2. \A i \in Index : [inst[i] EXCEPT !.status = "overdue"].paid = inst[i].paid
      BY <2>1 DEF Row
    <3> QED BY <3>1, <3>2
  <2>4. ReceivedIsAccounted'
    BY <1>1, <2>1, <2>2, <2>3, NoMoney DEF Succeeded
  <2> QED BY <1>1, <2>1, <2>4 DEF AccountInv, agreement
<1>6. CASE UNCHANGED vars
  <2>1. Index' = Index
    BY <1>6 DEF vars, agreement, Index
  <2>2. ReceivedIsAccounted'
    BY <1>1, <1>6, <2>1, NoMoney DEF vars, agreement, Succeeded
  <2> QED BY <1>1, <1>6, <2>2 DEF AccountInv, vars, agreement
<1> QED BY <1>2, <1>3, <1>4, <1>5, <1>6 DEF Next

(* Whatever staff and callbacks do at the same time, short of reversals, every *)
(* shilling received is on the schedule or is the customer's credit.           *)
THEOREM EveryShillingAccounted ==
  ASSUME "reverse" \notin Kinds
  PROVE  Spec => []ReceivedIsAccounted
<1>1. Init => AccountInv
  <2> SUFFICES ASSUME Init PROVE AccountInv
    OBVIOUS
  <2>1. KindsAsked /\ totals.credit = 0
    BY DEF Init, KindsAsked, NotStarted
  <2>2. Received(pay) = 0
    <3>1. Succeeded(pay) = {}
      BY DEF Init, Succeeded
    <3> QED BY <3>1, SumEmpty DEF Received
  <2>3. Paid(inst) = 0
    <3>1. DOMAIN inst = {}
      BY DEF Init
    <3>2. DOMAIN [i \in DOMAIN inst |-> inst[i].paid] = {}
      BY <3>1
    <3> QED BY <3>1, <3>2, SumEmpty DEF Paid, SumFunction
  <2> QED BY <2>1, <2>2, <2>3, InitLedger DEF AccountInv, ReceivedIsAccounted
<1>2. AccountInv => ReceivedIsAccounted
  BY DEF AccountInv
<1>3. AccountInv /\ [Next]_vars => AccountInv'
  BY AccountStep
<1> QED BY <1>1, <1>2, <1>3, PTL DEF Spec

-----------------------------------------------------------------------------
(* A closed instalment is covered, unless staff waive and reverse at once.    *)

Covered(row, i) == row.status = "paid" => row.paid + row.waived >= Amount(plan, i)

(* A waiver was closed by what still shows; what a transaction wrote is covered. *)
RowsCovered(r) ==
  /\ r.pc = "transaction" /\ r.kind = "waive" =>
       \A i \in Index : Covered(r.rows[i], i) /\ r.rows[i].paid <= inst[i].paid
  /\ r.pc = "commit" => \A i \in r.locks : Covered(r.rows[i], i)

ClosedInv == LedgerInv /\ KindsAsked /\ ClosedIsCovered /\ \A s \in Staff : RowsCovered(req[s])

RowsCoveredNext(r) == RowsCovered(r)'

LEMMA FreeIsCovered ==
  ASSUME NEW r, Free(r)
  PROVE  RowsCovered(r) /\ RowsCoveredNext(r)
BY DEF Free, Waits, RowsCovered, RowsCoveredNext

(* The terms stay once there is an agreement. *)
LEMMA TermsStay ==
  ASSUME LedgerInv, [Next]_vars, status # "none"
  PROVE  plan' = plan /\ Index' = Index /\ status' # "none"
<1>1. plan' = plan /\ status' # "none"
  <2>1. ASSUME NEW s \in Staff, Request(s) PROVE plan' = plan /\ status' # "none"
    <3>1. CASE RecordPayment(s)
      BY <3>1 DEF RecordPayment, Apply, agreement
    <3>2. CASE ApproveApplication(s)
      BY <3>2 DEF ApproveApplication, AgreementExists, agreement
    <3>3. CASE Commit(s)
      BY <3>3 DEF Commit
    <3> QED BY <2>1, <3>1, <3>2, <3>3 DEF Request, ReadDraft, EditApplication, SubmitApplication,
         ReviewApplication, RejectApplication, ReadTerms, ReadPayable, InitiateMpesaPayment, ReadAgreement,
         ReleaseProduct, CancelAgreement, ReadSchedules, WriteWaiver, Adjust, WriteReversal, Abort, agreement
  <2>2. ASSUME NEW s \in Staff, ReadPayment(s) PROVE plan' = plan /\ status' # "none"
    BY <2>2 DEF ReadPayment, agreement
  <2>3. ASSUME NEW p \in Payments, Callback(p) PROVE plan' = plan /\ status' # "none"
    BY <2>3 DEF Callback, CallbackFails, CallbackMismatch, StoreReceipt, ApplyCallback, Apply, agreement
  <2>4. CASE RefreshOverdueStatuses \/ UNCHANGED vars
    BY <2>4 DEF RefreshOverdueStatuses, vars, agreement
  <2> QED BY <2>1, <2>2, <2>3, <2>4 DEF Next
<1> QED BY <1>1 DEF Index

(* What becomes of the schedule in a step.                                   *)
Grows == \A i \in Index : inst'[i].paid >= inst[i].paid /\ inst'[i].waived = inst[i].waived
KeepsCover == \A i \in Index : Covered(inst[i], i) => Covered(inst'[i], i)

LEMMA ApplyGrows ==
  ASSUME LedgerInv, status # "none", NEW p \in Payments, NEW pays \in [Payments -> PayRow], Apply(p, pays)
  PROVE  Grows /\ KeepsCover /\ Locks = {}
<1> DEFINE take == Take(pays[p].amount + totals.credit)
<1>1. /\ inst \in [Index -> Row] /\ totals \in Totals /\ plan \in Plans /\ inst' = Allocated(take)
      /\ Locks = {}
  BY IndexIsFinite DEF LedgerInv, TablesTyped, Apply
<1>2. pays[p].amount \in Nat /\ totals.credit \in Nat /\ pays[p].amount + totals.credit \in Nat
  BY <1>1, AmountsNat DEF PayRow, Totals
<1>3. take \in [Index -> Nat]
  BY <1>2, TakeBounds
<1> HIDE DEF take
<1>4. ASSUME NEW i \in Index
      PROVE  /\ inst'[i].paid >= inst[i].paid /\ inst'[i].waived = inst[i].waived
             /\ Covered(inst[i], i) => Covered(inst'[i], i)
  <2>1. inst[i] \in Row /\ take[i] \in Nat /\ inst[i].paid \in Nat /\ inst[i].waived \in Nat
        /\ Amount(plan, i) \in Nat
    BY <1>1, <1>3, AmountIsNat DEF Row
  <2>2. CASE take[i] = 0
    <3>1. inst'[i] = inst[i]
      BY <1>1, <2>2 DEF Allocated
    <3> QED BY <2>1, <3>1
  <2>3. CASE take[i] # 0
    <3> DEFINE st == IF inst[i].paid + take[i] >= Collectible(i) THEN "paid" ELSE "partially_paid"
    <3>1. inst'[i] = [inst[i] EXCEPT !.paid = @ + take[i], !.status = st]
      BY <1>1, <2>3 DEF Allocated
    <3>2. inst'[i].paid = inst[i].paid + take[i] /\ inst'[i].waived = inst[i].waived
          /\ inst'[i].status = st
      BY <2>1, <3>1 DEF Row
    <3>3. PICK a, w, k, n : a = Amount(plan, i) /\ w = inst[i].waived /\ k = inst[i].paid /\ n = take[i]
      OBVIOUS
    <3>4. k + n >= AtLeast0(a - w) => k + n + w >= a
      BY <2>1, <3>3 DEF AtLeast0
    <3>5. st = "paid" => k + n >= AtLeast0(a - w)
      BY <3>3 DEF Collectible
    <3> HIDE DEF st
    <3> QED BY <2>1, <3>2, <3>3, <3>4, <3>5 DEF Covered
  <2> QED BY <2>2, <2>3
<1> QED BY <1>1, <1>4 DEF Grows, KeepsCover

LEMMA RefreshGrows ==
  ASSUME LedgerInv, RefreshOverdueStatuses
  PROVE  Grows /\ KeepsCover
<1>1. inst \in [Index -> Row]
  BY DEF LedgerInv, TablesTyped
<1>2. PICK late : inst' = [i \in Index |-> IF i \in late THEN [inst[i] EXCEPT !.status = "overdue"]
                                           ELSE inst[i]]
  BY <1>1 DEF RefreshOverdueStatuses
<1>3. ASSUME NEW i \in Index
      PROVE  /\ inst'[i].paid = inst[i].paid /\ inst'[i].waived = inst[i].waived
             /\ inst'[i].status \in {inst[i].status, "overdue"} /\ inst[i].paid \in Nat
  BY <1>1, <1>2 DEF Row
<1> QED BY <1>3 DEF Grows, KeepsCover, Covered

(* The steps that write no instalment, but for Commit and the approval        *)
LEMMA RestOfSteps ==
  ASSUME LedgerInv, [Next]_vars
  PROVE  \/ \E s \in Staff : Commit(s) \/ ApproveApplication(s)
         \/ status # "none" /\ Grows /\ KeepsCover /\ Locks = {} /\ \E p \in Payments : \E pays \in [Payments -> PayRow] : Apply(p, pays)
         \/ status # "none" /\ Grows /\ KeepsCover /\ UNCHANGED <<totals, owner, status>>
         \/ UNCHANGED <<inst, totals, owner>> /\ status' \in {status, "cancelled"}
<1>0. status = "none" \/ status # "none"
  OBVIOUS
<1>1. ASSUME NEW s \in Staff, Request(s), ~Commit(s), ~ApproveApplication(s), ~RecordPayment(s)
      PROVE  UNCHANGED <<inst, totals, owner>> /\ status' \in {status, "cancelled"}
  BY <1>1 DEF Request, ReadDraft, EditApplication, SubmitApplication,
     ReviewApplication, RejectApplication, ReadTerms, ReadPayable, InitiateMpesaPayment, ReadAgreement,
     ReleaseProduct, CancelAgreement, ReadSchedules, WriteWaiver, Adjust, WriteReversal, Abort, agreement
<1>2. ASSUME NEW s \in Staff, RecordPayment(s)
      PROVE  \/ status # "none" /\ Grows /\ KeepsCover /\ Locks = {} /\ \E p \in Payments : \E pays \in [Payments -> PayRow] : Apply(p, pays)
             \/ UNCHANGED <<inst, totals, owner, status>>
  <2>1. status # "none" /\ pay \in [Payments -> PayRow]
        /\ req[s].amount \in PayAmounts /\ req[s].receipt \in Payments \cup {NoPayment}
    BY <1>2 DEF RecordPayment, At, LedgerInv, Inv, RequestsInsertRows, RequestsFit, Fits
  <2>2. ASSUME NEW p \in Payments,
               Apply(p, Inserted(p, [status |-> "pending", amount |-> req[s].amount,
                                     receipt |-> req[s].receipt, outcome |-> "none"]))
        PROVE  Grows /\ KeepsCover /\ Locks = {} /\ \E pays \in [Payments -> PayRow] : Apply(p, pays)
    <3> DEFINE pays == Inserted(p, [status |-> "pending", amount |-> req[s].amount,
                                    receipt |-> req[s].receipt, outcome |-> "none"])
    <3>1. pays \in [Payments -> PayRow]
      BY <2>1 DEF Inserted, PayRow
    <3>2. Apply(p, pays)
      BY <2>2
    <3> HIDE DEF pays
    <3> QED BY <2>1, <3>1, <3>2, ApplyGrows
  <2>3. \/ UNCHANGED <<inst, totals, owner, status>>
        \/ \E p \in Payments : Apply(p, Inserted(p, [status |-> "pending", amount |-> req[s].amount,
                                     receipt |-> req[s].receipt, outcome |-> "none"]))
    BY <1>2 DEF RecordPayment, agreement
  <2> QED BY <2>1, <2>2, <2>3
<1>3. ASSUME NEW s \in Staff, ReadPayment(s) PROVE UNCHANGED <<inst, totals, owner, status>>
  BY <1>3 DEF ReadPayment, agreement
<1>4. ASSUME NEW p \in Payments, Callback(p)
      PROVE  \/ status # "none" /\ Grows /\ KeepsCover /\ Locks = {} /\ \E pays \in [Payments -> PayRow] : Apply(p, pays)
             \/ UNCHANGED <<inst, totals, owner, status>>
  <2>1. CASE ApplyCallback(p)
    <3>1. pay[p].outcome = "exact" /\ Apply(p, pay) /\ pay \in [Payments -> PayRow]
      BY <2>1 DEF ApplyCallback, LedgerInv, Inv
    <3>2. status # "none"
      BY <3>1 DEF LedgerInv, AbsentIsBlank, Blank
    <3> QED BY <3>1, <3>2, ApplyGrows
  <2>2. CASE ~ApplyCallback(p)
    BY <1>4, <2>2 DEF Callback, CallbackFails, CallbackMismatch, StoreReceipt, agreement
  <2> QED BY <2>1, <2>2
<1>5. CASE RefreshOverdueStatuses
  <2>1. status # "none" /\ UNCHANGED <<totals, owner, status>>
    BY <1>5 DEF RefreshOverdueStatuses, agreement
  <2> QED BY <1>5, <2>1, RefreshGrows
<1>6. CASE UNCHANGED vars
  BY <1>6 DEF vars, agreement
<1> QED BY <1>1, <1>2, <1>3, <1>4, <1>5, <1>6 DEF Next

LEMMA CoverKept ==
  ASSUME LedgerInv, [Next]_vars, NEW q, RowsCovered(q), Fits(q),
         q.pc = "transaction" /\ q.kind = "waive" => \A i \in Index : inst'[i].paid >= inst[i].paid
  PROVE  RowsCoveredNext(q)
<1>1. CASE Free(q)
  BY <1>1, FreeIsCovered
<1>2. CASE q.pc = "transaction" /\ q.kind = "waive"
  <2>1. status # "none" /\ q.rows \in [Index -> Row] /\ inst \in [Index -> Row]
    BY <1>2 DEF Fits, LedgerInv, TablesTyped
  <2>2. plan' = plan /\ Index' = Index
    BY <2>1, TermsStay
  <2>3. inst' \in [Index -> Row]
    BY <2>2, LedgerStep DEF LedgerInv, TablesTyped, Row
  <2>4. ASSUME NEW i \in Index
        PROVE  (q.rows[i].status = "paid" => q.rows[i].paid + q.rows[i].waived >= Amount(plan, i))
               /\ q.rows[i].paid <= inst'[i].paid
    <3>1. q.rows[i].paid \in Nat /\ inst[i].paid \in Nat /\ inst'[i].paid \in Nat
          /\ q.rows[i].paid <= inst[i].paid /\ inst'[i].paid >= inst[i].paid
      BY <1>2, <2>1, <2>3 DEF RowsCovered, Row
    <3> QED BY <1>2, <3>1 DEF RowsCovered, Covered
  <2> QED BY <1>2, <2>2, <2>4 DEF RowsCoveredNext, RowsCovered, Covered, Amount, Instalment, Financed
<1>3. CASE q.pc = "commit"
  <2>1. plan' = plan
    BY <1>3, TermsStay DEF Fits
  <2> QED BY <1>3, <2>1 DEF RowsCoveredNext, RowsCovered, Covered, Amount, Instalment, Financed
<1> QED BY <1>1, <1>2, <1>3 DEF Free, Waits

(* A commit of anything but a reversal leaves what was paid.                 *)
LEMMA CommitRows ==
  ASSUME LedgerInv, NEW s \in Staff, Commit(s)
  PROVE  /\ status # "none" /\ Holds(req[s]) /\ req[s].locks \subseteq Index /\ req[s].pc = "commit"
         /\ inst' = [i \in Index |-> IF i \in req[s].locks THEN req[s].rows[i] ELSE inst[i]]
         /\ inst \in [Index -> Row] /\ inst' \in [Index -> Row]
         /\ req[s].kind # "reverse" => \A i \in Index : inst'[i].paid = inst[i].paid
<1>1. /\ status # "none" /\ Holds(req[s]) /\ req[s].locks \subseteq Index /\ inst \in [Index -> Row]
      /\ req[s].rows \in [Index -> Row] /\ req[s].pc = "commit"
  BY DEF LedgerInv, RequestsFit, Fits, Commit, Holds, TablesTyped
<1>2. inst' = [i \in Index |-> IF i \in req[s].locks THEN req[s].rows[i] ELSE inst[i]]
  BY <1>1 DEF Commit
<1>3. inst' \in [Index -> Row]
  BY <1>1, <1>2
<1>4. req[s].kind # "reverse" => \A i \in Index : inst'[i].paid = inst[i].paid
  BY <1>1, <1>2 DEF Holds
<1> QED BY <1>1, <1>2, <1>3, <1>4

LEMMA WaiverCovered ==
  ASSUME ClosedInv, [Next]_vars, NEW s \in Staff, WriteWaiver(s), NEW q, q = req'[s]
  PROVE  RowsCoveredNext(q)
<1> DEFINE seen == req[s].rows
           due == [i \in DOMAIN seen |-> AtLeast0(Amount(plan, i) - seen[i].paid - seen[i].waived)]
           take == Waterfall(due, req[s].amount)
           row(i) == [inst[i] EXCEPT
                        !.waived = seen[i].waived + take[i],
                        !.status = IF seen[i].paid + seen[i].waived + take[i] >= Amount(plan, i)
                                     THEN "paid" ELSE seen[i].status]
           locks == {i \in DOMAIN inst : take[i] > 0}
           rows == [i \in DOMAIN inst |-> IF i \in locks THEN row(i) ELSE inst[i]]
<1>1. /\ status # "none" /\ req[s].amount \in Nat /\ seen \in [Index -> Row]
      /\ inst \in [Index -> Row] /\ plan \in Plans /\ IsFiniteSet(Index)
      /\ \A i \in Index : Covered(seen[i], i) /\ seen[i].paid <= inst[i].paid
      /\ plan' = plan /\ Index' = Index /\ inst' = inst
      /\ req \in [Staff -> {req[u] : u \in Staff}]
  <2>1. LedgerInv /\ RowsCovered(req[s]) /\ Fits(req[s]) /\ req[s].pc = "transaction" /\ req[s].kind = "waive"
    BY DEF ClosedInv, LedgerInv, RequestsFit, WriteWaiver, At
  <2>2. status # "none" /\ req[s].amount \in Nat /\ seen \in [Index -> Row]
    BY <2>1 DEF Fits
  <2>3. \A i \in Index : Covered(seen[i], i) /\ seen[i].paid <= inst[i].paid
    BY <2>1 DEF RowsCovered
  <2>4. inst \in [Index -> Row] /\ plan \in Plans /\ IsFiniteSet(Index)
    BY <2>1, <2>2, IndexIsFinite DEF LedgerInv, TablesTyped
  <2>5. plan' = plan /\ Index' = Index /\ inst' = inst
    BY <2>1, <2>2, TermsStay DEF WriteWaiver
  <2>6. req = [u \in Staff |-> req[u]]
    BY <2>1 DEF LedgerInv, Inv, RequestsInsertRows
  <2> QED BY <2>2, <2>3, <2>4, <2>5, <2>6
<1>2. due \in [Index -> Nat]
  <2>1. ASSUME NEW i \in Index
        PROVE  AtLeast0(Amount(plan, i) - seen[i].paid - seen[i].waived) \in Nat
    <3>1. Amount(plan, i) \in Nat /\ seen[i].paid \in Nat /\ seen[i].waived \in Nat
      BY <1>1, AmountIsNat DEF Row
    <3> QED BY <3>1, FloorIsNat
  <2> QED BY <1>1, <2>1
<1>3. take \in [Index -> Nat] /\ \A i \in Index : take[i] <= due[i]
  BY <1>1, <1>2, WaterfallBounds
<1>4. Wrote(s, "waive", NoPayment, rows, locks, pay)
  BY DEF WriteWaiver
<1>5. ASSUME NEW i \in locks PROVE Covered(rows[i], i)
  <2>1. i \in Index /\ rows[i] = row(i) /\ inst[i] \in Row /\ seen[i] \in Row
    BY <1>1
  <2>2. PICK a, k, n, w, t : /\ a = Amount(plan, i) /\ k = seen[i].paid /\ n = inst[i].paid
                             /\ w = seen[i].waived /\ t = take[i]
    OBVIOUS
  <2>3. a \in Nat /\ k \in Nat /\ n \in Nat /\ w \in Nat /\ t \in Nat /\ k <= n /\ t > 0
    BY <1>1, <1>3, <2>1, <2>2, AmountIsNat DEF Row
  <2>4. t <= AtLeast0(a - k - w)
    BY <1>1, <1>3, <2>1, <2>2
  <2>5. seen[i].status # "paid"
    <3>1. seen[i].status = "paid" => k + w >= a
      BY <1>1, <2>1, <2>2 DEF Covered
    <3> QED BY <2>3, <2>4, <3>1 DEF AtLeast0
  <2>6. /\ row(i).paid = n /\ row(i).waived = w + t
        /\ row(i).status = IF k + w + t >= a THEN "paid" ELSE seen[i].status
    BY <2>1, <2>2 DEF Row
  <2> HIDE DEF row, rows
  <2>7. rows[i].status = "paid" => k + w + t >= a
    BY <2>1, <2>5, <2>6
  <2> QED BY <2>1, <2>2, <2>3, <2>6, <2>7 DEF Covered
<1> HIDE DEF rows, locks
<1>6. q.pc = "commit" /\ q.rows = rows /\ q.locks = locks
  BY <1>1, <1>4 DEF Wrote, NotStarted
<1> QED BY <1>1, <1>5, <1>6 DEF RowsCoveredNext, RowsCovered, Covered, Amount, Instalment, Financed

LEMMA ReversalCovered ==
  ASSUME ClosedInv, [Next]_vars, NEW s \in Staff, WriteReversal(s), NEW q, q = req'[s]
  PROVE  RowsCoveredNext(q)
<1> DEFINE p == req[s].pay
           row(i) == [inst[i] EXCEPT !.paid = PaidWithout(i, p),
                                     !.status = ReversedStatus(i, PaidWithout(i, p))]
           locks == {i \in DOMAIN inst : alloc[p][i] > 0}
           rows == [i \in DOMAIN inst |-> IF i \in locks THEN row(i) ELSE inst[i]]
           pays == [pay EXCEPT ![p].status = "reversed"]
<1>1. /\ LedgerInv /\ status # "none" /\ p \in Payments /\ inst \in [Index -> Row] /\ plan \in Plans
      /\ alloc \in [Payments -> [Index -> Nat]] /\ req = [u \in Staff |-> req[u]]
  BY IndexIsFinite DEF ClosedInv, LedgerInv, Inv, RequestsInsertRows, RequestsFit, Fits, TablesTyped, WriteReversal, At
<1>2. plan' = plan
  BY <1>1, TermsStay
<1>3. Wrote(s, "reverse", p, rows, locks, pays)
  BY DEF WriteReversal
<1>4. ASSUME NEW i \in locks PROVE Covered(rows[i], i)
  <2>1. i \in Index /\ rows[i] = row(i) /\ inst[i] \in Row
    BY <1>1
  <2>2. PICK a, n, w : a = Amount(plan, i) /\ n = PaidWithout(i, p) /\ w = inst[i].waived
    OBVIOUS
  <2>3. a \in Nat /\ n \in Nat /\ w \in Nat
    BY <1>1, <2>1, <2>2, AmountIsNat, FloorIsNat DEF PaidWithout, Row
  <2>4. row(i).paid = n /\ row(i).waived = w /\ row(i).status = ReversedStatus(i, n)
    BY <2>1, <2>2 DEF Row
  <2>5. ReversedStatus(i, n) = "paid" => n >= a
    BY <2>2, <2>3 DEF ReversedStatus
  <2> HIDE DEF row, rows
  <2> QED BY <2>1, <2>2, <2>3, <2>4, <2>5 DEF Covered
<1> HIDE DEF rows, locks, pays
<1>5. q.pc = "commit" /\ q.rows = rows /\ q.locks = locks
  BY <1>1, <1>3 DEF Wrote, NotStarted
<1> QED BY <1>2, <1>4, <1>5 DEF RowsCoveredNext, RowsCovered, Covered, Amount, Instalment, Financed

(* The request that moves *)
LEMMA MoverCovered ==
  ASSUME ClosedInv, [Next]_vars, NEW s \in Staff, Request(s) \/ ReadPayment(s),
         NEW q, q = req'[s], q # req[s]
  PROVE  RowsCoveredNext(q)
<1>1. LedgerInv /\ KindsAsked /\ inst \in [Index -> Row] /\ req = [u \in Staff |-> req[u]]
  BY DEF ClosedInv, LedgerInv, TablesTyped, Inv, RequestsInsertRows
<1>2. CASE Free(q)
  BY <1>2, FreeIsCovered
<1>3. CASE ReadSchedules(s)
  <2>1. PICK amount : req' = [req EXCEPT ![s] = [NotStarted EXCEPT
                        !.pc = "transaction", !.kind = "waive", !.amount = amount, !.rows = inst]]
    BY <1>3 DEF ReadSchedules
  <2> DEFINE r == [NotStarted EXCEPT
                     !.pc = "transaction", !.kind = "waive", !.amount = amount, !.rows = inst]
  <2>2. r.pc = "transaction" /\ r.rows = inst /\ req' = [req EXCEPT ![s] = r]
    BY <2>1 DEF NotStarted
  <2> HIDE DEF r
  <2>3. q.rows = inst /\ q.pc = "transaction" /\ inst' = inst /\ status # "none"
    BY <1>1, <1>3, <2>2 DEF ReadSchedules
  <2>4. plan' = plan /\ Index' = Index
    BY <1>1, <2>3, TermsStay
  <2>5. \A i \in Index : inst[i].paid \in Nat /\ Covered(inst[i], i)
    BY <1>1 DEF ClosedInv, ClosedIsCovered, Covered, Row
  <2> QED BY <2>3, <2>4, <2>5 DEF RowsCoveredNext, RowsCovered, Covered, Amount, Instalment, Financed
<1>4. CASE WriteWaiver(s)
  BY <1>4, WaiverCovered
<1>5. CASE Adjust(s)
  <2>1. q.locks = {} /\ q.pc = "commit"
    BY <1>1, <1>5 DEF Adjust, Wrote, NotStarted
  <2> QED BY <2>1 DEF RowsCoveredNext, RowsCovered
<1>6. CASE WriteReversal(s)
  BY <1>6, ReversalCovered
<1> QED BY <1>1, <1>2, <1>3, <1>4, <1>5, <1>6, NextKind

(* Staff do not waive and reverse at the same time.                          *)
WaivesApart == \/ \A s, u \in Staff : s = u
               \/ "waive" \notin Kinds
               \/ "reverse" \notin Kinds

LEMMA ApprovalRows ==
  ASSUME LedgerInv, NEW s \in Staff, ApproveApplication(s)
  PROVE  \/ status # "none" /\ UNCHANGED <<app, agreement, totals, inst, alloc>>
         \/ /\ status = "none" /\ plan' \in Plans /\ UNCHANGED owner /\ status' = "active"
            /\ totals' = [paid |-> 0, outstanding |-> Financed(plan'), credit |-> 0]
            /\ inst' = [i \in 1..plan'.terms |-> [paid |-> 0, waived |-> 0, status |-> "pending"]]
<1>1. req[s].plan \in Plans
  BY DEF ApproveApplication, LedgerInv, RequestsFit, Fits
<1> QED BY <1>1 DEF ApproveApplication, AgreementExists

LEMMA OwnPaid ==
  ASSUME WaivesApart, ClosedInv, [Next]_vars, NEW u \in Staff, NEW i \in Index,
         req[u].pc = "transaction", req[u].kind = "waive"
  PROVE  inst'[i].paid >= inst[i].paid
<1>1. LedgerInv /\ status # "none" /\ inst[i].paid \in Nat /\ KindsAsked
  BY DEF ClosedInv, LedgerInv, RequestsFit, Fits, TablesTyped, Row
<1>2. ASSUME NEW s \in Staff, Commit(s) PROVE inst'[i].paid = inst[i].paid
  <2>1. s # u /\ req[s].pc = "commit"
    BY <1>2 DEF Commit
  <2>2. req[s].kind # "reverse"
    BY <1>1, <2>1 DEF WaivesApart, KindsAsked
  <2> QED BY <1>1, <1>2, <2>2, CommitRows
<1>3. ASSUME NEW s \in Staff, ApproveApplication(s) PROVE inst' = inst
  BY <1>1, <1>3, ApprovalRows
<1> QED BY <1>1, <1>2, <1>3, RestOfSteps DEF Grows

LEMMA ClosedStep ==
  ASSUME WaivesApart
  PROVE  ClosedInv /\ [Next]_vars => ClosedInv'
<1> SUFFICES ASSUME ClosedInv, [Next]_vars PROVE ClosedInv'
  OBVIOUS
<1>1. LedgerInv /\ LedgerInv' /\ KindsAsked /\ KindsAsked'
  BY LedgerStep, StepKinds DEF ClosedInv
<1>2. DOMAIN inst = Index /\ DOMAIN inst' = Index' /\ \A i \in Index : Covered(inst[i], i)
  BY <1>1 DEF LedgerInv, TablesTyped, ClosedInv, ClosedIsCovered, Covered
<1>3. ClosedIsCovered'
  <2>1. ASSUME status # "none", \A i \in Index : Covered(inst'[i], i) PROVE ClosedIsCovered'
    <3>1. plan' = plan /\ Index' = Index
      BY <1>1, <2>1, TermsStay
    <3> QED BY <1>2, <2>1, <3>1 DEF ClosedIsCovered, Covered, Amount, Instalment, Financed
  <2>2. ASSUME NEW s \in Staff, Commit(s) PROVE ClosedIsCovered'
    <3>1. /\ status # "none" /\ req[s].locks \subseteq Index /\ req[s].pc = "commit"
          /\ inst' = [i \in Index |-> IF i \in req[s].locks THEN req[s].rows[i] ELSE inst[i]]
      BY <1>1, <2>2, CommitRows
    <3>2. \A i \in req[s].locks : Covered(req[s].rows[i], i)
      BY <3>1 DEF ClosedInv, RowsCovered
    <3>3. \A i \in Index : Covered(inst'[i], i)
      BY <1>2, <3>1, <3>2
    <3> QED BY <2>1, <3>1, <3>3
  <2>3. ASSUME NEW s \in Staff, ApproveApplication(s) PROVE ClosedIsCovered'
    <3>1. CASE status # "none" /\ inst' = inst
      BY <1>2, <2>1, <3>1
    <3>2. CASE inst' = [i \in 1..plan'.terms |-> [paid |-> 0, waived |-> 0, status |-> "pending"]]
      BY <3>2 DEF ClosedIsCovered
    <3> QED BY <1>1, <2>3, <3>1, <3>2, ApprovalRows
  <2>4. CASE status # "none" /\ KeepsCover
    BY <1>2, <2>1, <2>4 DEF KeepsCover
  <2>5. CASE UNCHANGED inst
    <3>1. CASE status = "none"
      BY <1>2, <2>5, <3>1 DEF Index, ClosedIsCovered
    <3>2. CASE status # "none"
      BY <1>2, <2>1, <2>5, <3>2
    <3> QED BY <3>1, <3>2
  <2> QED BY <1>1, <2>2, <2>3, <2>4, <2>5, RestOfSteps
<1>4. ASSUME NEW u \in Staff PROVE RowsCovered(req[u])'
  <2>1. PICK q : q = req'[u]
    OBVIOUS
  <2>2. RowsCoveredNext(q)
    <3>1. CASE q = req[u]
      <4>1. RowsCovered(q) /\ Fits(q)
        BY <1>1, <3>1 DEF ClosedInv, LedgerInv, RequestsFit
      <4>2. q.pc = "transaction" /\ q.kind = "waive" => \A i \in Index : inst'[i].paid >= inst[i].paid
        BY <3>1, OwnPaid
      <4> QED BY <1>1, <4>1, <4>2, CoverKept
    <3>2. CASE q # req[u]
      <4>1. Request(u) \/ ReadPayment(u)
        <5>1. ASSUME NEW p \in Payments, Callback(p) PROVE UNCHANGED req
          BY <5>1 DEF Callback, CallbackFails, CallbackMismatch, StoreReceipt, ApplyCallback
        <5>2. PICK s \in Staff : Request(s) \/ ReadPayment(s)
          BY <2>1, <3>2, <5>1 DEF Next, vars, RefreshOverdueStatuses
        <5>3. s = u
          BY <1>1, <2>1, <3>2, <5>2, OthersRest
        <5> QED BY <5>2, <5>3
      <4> QED BY <2>1, <3>2, <4>1, MoverCovered
    <3> QED BY <3>1, <3>2
  <2> QED BY <2>1, <2>2 DEF RowsCoveredNext, RowsCovered, Covered
<1> QED BY <1>1, <1>3, <1>4 DEF ClosedInv

(* An instalment that is closed to payments has nothing left to pay, as long   *)
(* as no waiver is entered from a schedule that a reversal then lowers.        *)
THEOREM ClosedHasNothingLeft ==
  ASSUME WaivesApart
  PROVE  Spec => []ClosedIsCovered
<1>1. Init => ClosedInv
  <2> SUFFICES ASSUME Init PROVE ClosedInv
    OBVIOUS
  <2>1. KindsAsked /\ \A s \in Staff : req[s] = NotStarted
    BY DEF Init, KindsAsked, NotStarted
  <2>2. Free(NotStarted)
    BY Shapes DEF Free, Waits
  <2>3. \A s \in Staff : RowsCovered(req[s])
    BY <2>1, <2>2, FreeIsCovered
  <2>4. DOMAIN inst = {}
    BY DEF Init
  <2> QED BY <2>1, <2>3, <2>4, InitLedger DEF ClosedInv, ClosedIsCovered
<1>2. ClosedInv /\ [Next]_vars => ClosedInv'
  BY ClosedStep
<1>3. ClosedInv => ClosedIsCovered
  BY DEF ClosedInv
<1> QED BY <1>1, <1>2, <1>3, PTL DEF Spec

-----------------------------------------------------------------------------
(* Totals never run ahead of the schedule, and ownership follows it, while    *)
(* staff who write instalments do so one at a time.                           *)
OneAtATime == \/ \A s, u \in Staff : s = u
              \/ "waive" \notin Kinds /\ "reverse" \notin Kinds

Owed(rows) == AtLeast0(Financed(plan) - Paid(rows) - Waived(rows))

(* What a transaction read or summed, the schedule has at least.             *)
Lags(r) ==
  /\ r.pc = "transaction" /\ r.kind = "waive" =>
       \A i \in Index : inst[i].waived <= r.rows[i].waived
  /\ r.pc = "commit" =>
       /\ r.totals.paid = Paid(r.rows) /\ r.totals.outstanding = Owed(r.rows)
       /\ \A i \in Index \ r.locks : r.rows[i].paid <= inst[i].paid /\ r.rows[i].waived <= inst[i].waived
       /\ r.kind # "reverse" => \A i \in r.locks : inst[i].waived <= r.rows[i].waived

TotalsInv == /\ LedgerInv /\ KindsAsked /\ TotalsNotAhead /\ OwnedIsSettled
             /\ status = "none" => owner = "seller"
             /\ \A s \in Staff : Lags(req[s])

LagsNext(r) == Lags(r)'

LEMMA FreeLags ==
  ASSUME NEW r, Free(r)
  PROVE  Lags(r) /\ LagsNext(r)
BY DEF Free, Waits, Lags, LagsNext

LEMMA SumGrows ==
  ASSUME NEW f, NEW g, NEW S, IsFiniteSet(S), \A x \in S : f[x] \in Nat /\ g[x] \in Nat /\ f[x] <= g[x]
  PROVE  SumFunctionOnSet(f, S) <= SumFunctionOnSet(g, S)
<1>1. PICK d : d = [x \in S |-> g[x] - f[x]]
  OBVIOUS
<1>2. \A x \in S : d[x] \in Nat /\ d[x] \in Int /\ f[x] \in Int /\ g[x] = f[x] + d[x]
  BY <1>1
<1>3. SumFunctionOnSet(g, S) = SumFunctionOnSet(f, S) + SumFunctionOnSet(d, S)
  BY <1>2, SumPlus
<1>4. SumFunctionOnSet(f, S) \in Nat /\ SumFunctionOnSet(d, S) \in Nat
  BY <1>2, SumNat
<1> QED BY <1>3, <1>4

LEMMA RowsGrow ==
  ASSUME NEW D, IsFiniteSet(D), NEW f \in [D -> Row], NEW g \in [D -> Row],
         \A i \in D : f[i].paid <= g[i].paid /\ f[i].waived <= g[i].waived
  PROVE  /\ Paid(f) <= Paid(g) /\ Waived(f) <= Waived(g)
         /\ Paid(f) \in Nat /\ Paid(g) \in Nat /\ Waived(f) \in Nat /\ Waived(g) \in Nat
<1> DEFINE a == [i \in D |-> f[i].paid]  b == [i \in D |-> g[i].paid]
           c == [i \in D |-> f[i].waived]  d == [i \in D |-> g[i].waived]
<1>1. /\ \A i \in D : a[i] \in Nat /\ b[i] \in Nat /\ a[i] <= b[i]
      /\ \A i \in D : c[i] \in Nat /\ d[i] \in Nat /\ c[i] <= d[i]
  BY DEF Row
<1>2. /\ Paid(f) = SumFunctionOnSet(a, D) /\ Paid(g) = SumFunctionOnSet(b, D)
      /\ Waived(f) = SumFunctionOnSet(c, D) /\ Waived(g) = SumFunctionOnSet(d, D)
  BY DEF Paid, Waived, SumFunction
<1> HIDE DEF a, b, c, d
<1>3. SumFunctionOnSet(a, D) <= SumFunctionOnSet(b, D) /\ SumFunctionOnSet(c, D) <= SumFunctionOnSet(d, D)
  BY <1>1, SumGrows
<1> QED BY <1>2, <1>3, RowSums

(* A schedule on which more was paid and waived owes no more.                *)
LEMMA OwesLess ==
  ASSUME plan \in Plans, NEW D, IsFiniteSet(D), NEW f \in [D -> Row], NEW g \in [D -> Row],
         \A i \in D : f[i].paid <= g[i].paid /\ f[i].waived <= g[i].waived
  PROVE  /\ Paid(f) <= Paid(g) /\ Owed(g) <= Owed(f) /\ Owed(f) \in Nat /\ Owed(g) \in Nat
         /\ Paid(f) \in Nat /\ Paid(g) \in Nat
         /\ Paid(f) + Waived(f) >= Financed(plan) => Paid(g) + Waived(g) >= Financed(plan)
         /\ Owed(f) = 0 => Paid(f) + Waived(f) >= Financed(plan)
<1>1. PICK x, a, b, c, d : /\ x = Financed(plan) /\ a = Paid(f) /\ b = Paid(g)
                           /\ c = Waived(f) /\ d = Waived(g)
  OBVIOUS
<1>2. /\ x \in Nat /\ a \in Nat /\ b \in Nat /\ c \in Nat /\ d \in Nat /\ a <= b /\ c <= d
  BY <1>1, AmountIsNat, RowsGrow
<1>3. Owed(f) = AtLeast0(x - a - c) /\ Owed(g) = AtLeast0(x - b - d)
  BY <1>1 DEF Owed
<1> QED BY <1>1, <1>2, <1>3 DEF AtLeast0

(* A request keeps up with a schedule that grows around its own rows.        *)
LEMMA LagsKept ==
  ASSUME LedgerInv, [Next]_vars, NEW q, Lags(q), Fits(q),
         Waits(q) => \A i \in Index : /\ inst[i].paid <= inst'[i].paid
                                      /\ inst[i].waived <= inst'[i].waived,
         q.pc = "transaction" /\ q.kind = "waive" => \A i \in Index : inst'[i].waived = inst[i].waived,
         q.pc = "commit" => \A i \in q.locks : inst'[i].waived = inst[i].waived
  PROVE  LagsNext(q)
<1>1. CASE Free(q)
  BY <1>1, FreeLags
<1>2. CASE Waits(q)
  <2>1. status # "none" /\ inst \in [Index -> Row]
    BY <1>2 DEF Waits, Fits, LedgerInv, TablesTyped
  <2>2. plan' = plan /\ Index' = Index
    BY <2>1, TermsStay
  <2>3. inst' \in [Index -> Row]
    BY <2>2, LedgerStep DEF LedgerInv, TablesTyped, Row
  <2>4. CASE q.pc = "transaction" /\ q.kind = "waive"
    BY <2>2, <2>4 DEF LagsNext, Lags
  <2>5. CASE q.pc = "commit"
    <3>1. q.rows \in [Index -> Row] /\ q.locks \subseteq Index
      BY <2>5 DEF Fits, Holds
    <3>2. ASSUME NEW i \in Index \ q.locks
          PROVE  q.rows[i].paid <= inst'[i].paid /\ q.rows[i].waived <= inst'[i].waived
      <4>1. /\ q.rows[i].paid \in Nat /\ inst[i].paid \in Nat /\ inst'[i].paid \in Nat
            /\ q.rows[i].waived \in Nat /\ inst[i].waived \in Nat /\ inst'[i].waived \in Nat
        BY <2>1, <2>3, <3>1 DEF Row
      <4>2. /\ q.rows[i].paid <= inst[i].paid /\ inst[i].paid <= inst'[i].paid
            /\ q.rows[i].waived <= inst[i].waived /\ inst[i].waived <= inst'[i].waived
        BY <1>2, <2>5 DEF Lags
      <4> QED BY <4>1, <4>2
    <3>3. q.totals.paid = Paid(q.rows) /\ q.totals.outstanding = Owed(q.rows)
      BY <2>5 DEF Lags
    <3>4. q.kind # "reverse" => \A i \in q.locks : inst'[i].waived <= q.rows[i].waived
      BY <2>5 DEF Lags
    <3> QED BY <2>2, <2>5, <3>2, <3>3, <3>4 DEF LagsNext, Lags, Owed, Financed, Paid, Waived
  <2> QED BY <1>2, <2>4, <2>5 DEF Waits
<1> QED BY <1>1, <1>2 DEF Free

(* What was summed when a transaction wrote its rows *)
LEMMA WroteLags ==
  ASSUME LedgerInv, [Next]_vars, NEW s \in Staff, status # "none", inst' = inst,
         NEW kind, NEW p, NEW rows \in [Index -> Row], NEW locks, NEW pays,
         Wrote(s, kind, p, rows, locks, pays),
         \A i \in Index \ locks : rows[i] = inst[i],
         kind # "reverse" => \A i \in locks : inst[i].waived <= rows[i].waived,
         NEW q, q = req'[s]
  PROVE  LagsNext(q)
<1>1. plan' = plan /\ Index' = Index /\ inst \in [Index -> Row] /\ req = [u \in Staff |-> req[u]]
  BY TermsStay DEF LedgerInv, Inv, RequestsInsertRows, TablesTyped
<1>2. PICK t : t = Recalc(rows, pays)
  OBVIOUS
<1>3. /\ q.pc = "commit" /\ q.rows = rows /\ q.locks = locks /\ q.totals = t /\ q.kind = kind
  BY <1>1, <1>2 DEF Wrote, NotStarted
<1>4. t.paid = Paid(rows) /\ t.outstanding = Owed(rows)
  BY <1>2 DEF Recalc, Owed
<1>5. \A i \in Index \ locks : rows[i].paid <= inst[i].paid /\ rows[i].waived <= inst[i].waived
  BY <1>1 DEF Row
<1> QED BY <1>1, <1>3, <1>4, <1>5 DEF LagsNext, Lags, Owed, Financed

LEMMA WaiverLags ==
  ASSUME TotalsInv, [Next]_vars, NEW s \in Staff, WriteWaiver(s), NEW q, q = req'[s]
  PROVE  LagsNext(q)
<1> DEFINE seen == req[s].rows
           due == [i \in DOMAIN seen |-> AtLeast0(Amount(plan, i) - seen[i].paid - seen[i].waived)]
           take == Waterfall(due, req[s].amount)
           row(i) == [inst[i] EXCEPT
                        !.waived = seen[i].waived + take[i],
                        !.status = IF seen[i].paid + seen[i].waived + take[i] >= Amount(plan, i)
                                     THEN "paid" ELSE seen[i].status]
           locks == {i \in DOMAIN inst : take[i] > 0}
           rows == [i \in DOMAIN inst |-> IF i \in locks THEN row(i) ELSE inst[i]]
<1>1. /\ LedgerInv /\ status # "none" /\ req[s].amount \in Nat /\ seen \in [Index -> Row]
      /\ inst \in [Index -> Row] /\ plan \in Plans /\ IsFiniteSet(Index) /\ inst' = inst
      /\ \A i \in Index : inst[i].waived <= seen[i].waived
  <2>1. LedgerInv /\ Lags(req[s]) /\ Fits(req[s]) /\ req[s].pc = "transaction" /\ req[s].kind = "waive"
    BY DEF TotalsInv, LedgerInv, RequestsFit, WriteWaiver, At
  <2>2. inst \in [Index -> Row] /\ plan \in Plans /\ IsFiniteSet(Index)
    BY <2>1, IndexIsFinite DEF Fits, LedgerInv, TablesTyped
  <2> QED BY <2>1, <2>2 DEF Fits, Lags, WriteWaiver
<1>2. due \in [Index -> Nat]
  <2>1. ASSUME NEW i \in Index
        PROVE  AtLeast0(Amount(plan, i) - seen[i].paid - seen[i].waived) \in Nat
    <3>1. Amount(plan, i) \in Nat /\ seen[i].paid \in Nat /\ seen[i].waived \in Nat
      BY <1>1, AmountIsNat DEF Row
    <3> QED BY <3>1, FloorIsNat
  <2> QED BY <1>1, <2>1
<1>3. take \in [Index -> Nat]
  BY <1>1, <1>2, WaterfallBounds
<1>4. Wrote(s, "waive", NoPayment, rows, locks, pay)
  BY DEF WriteWaiver
<1> HIDE DEF take
<1>5. ASSUME NEW i \in Index
      PROVE  rows[i] \in Row /\ (i \notin locks => rows[i] = inst[i])
             /\ (i \in locks => inst[i].waived <= rows[i].waived)
  <2>1. inst[i] \in Row /\ seen[i] \in Row /\ take[i] \in Nat /\ inst[i].waived <= seen[i].waived
    BY <1>1, <1>3
  <2>2. rows[i] = IF i \in locks THEN row(i) ELSE inst[i]
    BY <1>1
  <2>3. row(i) \in Row /\ row(i).waived = seen[i].waived + take[i]
    <3>1. PICK w, st : /\ w = seen[i].waived + take[i]
                       /\ st = IF seen[i].paid + seen[i].waived + take[i] >= Amount(plan, i)
                                 THEN "paid" ELSE seen[i].status
      OBVIOUS
    <3>2. w \in Nat /\ st \in {"pending", "partially_paid", "overdue", "paid"}
      BY <2>1, <3>1 DEF Row
    <3>3. row(i) = [inst[i] EXCEPT !.waived = w, !.status = st]
      BY <3>1
    <3> HIDE DEF row
    <3> QED BY <2>1, <3>1, <3>2, <3>3 DEF Row
  <2>4. inst[i].waived \in Nat /\ seen[i].waived \in Nat
    BY <2>1 DEF Row
  <2> HIDE DEF row, rows, locks
  <2> QED BY <2>1, <2>2, <2>3, <2>4
<1>6. rows = [i \in Index |-> rows[i]] /\ locks \subseteq Index
  BY <1>1
<1> HIDE DEF rows, locks
<1>7. rows \in [Index -> Row]
  BY <1>5, <1>6
<1> QED BY <1>1, <1>4, <1>5, <1>6, <1>7, WroteLags

LEMMA ReversalLags ==
  ASSUME TotalsInv, [Next]_vars, NEW s \in Staff, WriteReversal(s), NEW q, q = req'[s]
  PROVE  LagsNext(q)
<1> DEFINE p == req[s].pay
           row(i) == [inst[i] EXCEPT !.paid = PaidWithout(i, p),
                                     !.status = ReversedStatus(i, PaidWithout(i, p))]
           locks == {i \in DOMAIN inst : alloc[p][i] > 0}
           rows == [i \in DOMAIN inst |-> IF i \in locks THEN row(i) ELSE inst[i]]
           pays == [pay EXCEPT ![p].status = "reversed"]
<1>1. /\ LedgerInv /\ status # "none" /\ p \in Payments /\ inst \in [Index -> Row]
      /\ alloc \in [Payments -> [Index -> Nat]] /\ inst' = inst
  BY DEF TotalsInv, LedgerInv, RequestsFit, Fits, TablesTyped, WriteReversal, At
<1>2. Wrote(s, "reverse", p, rows, locks, pays)
  BY DEF WriteReversal
<1>3. ASSUME NEW i \in Index PROVE rows[i] \in Row /\ (i \notin locks => rows[i] = inst[i])
  <2>1. PaidWithout(i, p) \in Nat /\ inst[i] \in Row
    <3>1. inst[i].paid \in Nat /\ alloc[p][i] \in Nat
      BY <1>1 DEF Row
    <3> QED BY <1>1, <3>1, FloorIsNat DEF PaidWithout
  <2>2. ReversedStatus(i, PaidWithout(i, p)) \in {"paid", "partially_paid", "pending"}
    BY DEF ReversedStatus
  <2>3. row(i) \in Row
    BY <2>1, <2>2 DEF Row
  <2>4. rows[i] = IF i \in locks THEN row(i) ELSE inst[i]
    BY <1>1
  <2> HIDE DEF row, rows, locks
  <2> QED BY <2>1, <2>3, <2>4
<1>4. rows = [i \in Index |-> rows[i]]
  BY <1>1
<1> HIDE DEF rows, locks, pays
<1>5. rows \in [Index -> Row]
  BY <1>3, <1>4
<1> QED BY <1>1, <1>2, <1>3, <1>5, WroteLags

LEMMA MoverLags ==
  ASSUME TotalsInv, [Next]_vars, NEW s \in Staff, Request(s) \/ ReadPayment(s),
         NEW q, q = req'[s], q # req[s]
  PROVE  LagsNext(q)
<1>1. LedgerInv /\ KindsAsked /\ inst \in [Index -> Row] /\ req = [u \in Staff |-> req[u]]
  BY DEF TotalsInv, LedgerInv, TablesTyped, Inv, RequestsInsertRows
<1>2. CASE Free(q)
  BY <1>2, FreeLags
<1>3. CASE ReadSchedules(s)
  <2>1. PICK amount : req' = [req EXCEPT ![s] = [NotStarted EXCEPT
                        !.pc = "transaction", !.kind = "waive", !.amount = amount, !.rows = inst]]
    BY <1>3 DEF ReadSchedules
  <2> DEFINE r == [NotStarted EXCEPT
                     !.pc = "transaction", !.kind = "waive", !.amount = amount, !.rows = inst]
  <2>2. r.pc = "transaction" /\ r.rows = inst /\ req' = [req EXCEPT ![s] = r]
    BY <2>1 DEF NotStarted
  <2> HIDE DEF r
  <2>3. q.rows = inst /\ q.pc = "transaction" /\ inst' = inst /\ status # "none"
    BY <1>1, <1>3, <2>2 DEF ReadSchedules
  <2>4. Index' = Index
    BY <1>1, <2>3, TermsStay
  <2>5. \A i \in Index : inst[i].waived \in Nat
    BY <1>1 DEF Row
  <2> QED BY <2>3, <2>4, <2>5 DEF LagsNext, Lags
<1>4. CASE WriteWaiver(s)
  BY <1>4, WaiverLags
<1>5. CASE Adjust(s)
  <2>1. status # "none" /\ inst' = inst /\ Wrote(s, "adjust", NoPayment, inst, {}, pay)
    BY <1>5 DEF Adjust
  <2>2. PICK rows : rows = inst
    OBVIOUS
  <2>3. rows \in [Index -> Row] /\ Wrote(s, "adjust", NoPayment, rows, {}, pay)
    BY <1>1, <2>1, <2>2
  <2> QED BY <1>1, <2>1, <2>2, <2>3, WroteLags
<1>6. CASE WriteReversal(s)
  BY <1>6, ReversalLags
<1> QED BY <1>1, <1>2, <1>3, <1>4, <1>5, <1>6, NextKind

(* The schedule around a request that waits only grows.                      *)
LEMMA OthersGrow ==
  ASSUME OneAtATime, TotalsInv, [Next]_vars, NEW u \in Staff, Waits(req[u]), req'[u] = req[u]
  PROVE  /\ \A i \in Index : inst[i].paid <= inst'[i].paid /\ inst[i].waived <= inst'[i].waived
         /\ req[u].pc = "transaction" /\ req[u].kind = "waive" =>
              \A i \in Index : inst'[i].waived = inst[i].waived
         /\ req[u].pc = "commit" => \A i \in req[u].locks : inst'[i].waived = inst[i].waived
<1>1. /\ LedgerInv /\ KindsAsked /\ status # "none" /\ inst \in [Index -> Row] /\ Fits(req[u])
      /\ req = [v \in Staff |-> req[v]]
  BY DEF TotalsInv, Waits, LedgerInv, Inv, RequestsInsertRows, RequestsFit, Fits, TablesTyped
<1>2. \A i \in Index : inst[i].paid \in Nat /\ inst[i].waived \in Nat
  BY <1>1 DEF Row
<1>3. req[u].pc = "commit" => req[u].locks \subseteq Index
  BY <1>1 DEF Fits, Holds
<1>4. ASSUME Grows PROVE \A i \in Index : /\ inst[i].paid <= inst'[i].paid
                                          /\ inst[i].waived <= inst'[i].waived
                                          /\ inst'[i].waived = inst[i].waived
  BY <1>2, <1>4 DEF Grows
<1>5. ASSUME inst' = inst PROVE \A i \in Index : /\ inst[i].paid <= inst'[i].paid
                                                /\ inst[i].waived <= inst'[i].waived
                                                /\ inst'[i].waived = inst[i].waived
  BY <1>2, <1>5
<1>6. ASSUME NEW s \in Staff, ApproveApplication(s) PROVE inst' = inst
  BY <1>1, <1>6, ApprovalRows
<1>7. ASSUME NEW s \in Staff, Commit(s)
      PROVE  /\ \A i \in Index : inst[i].paid <= inst'[i].paid /\ inst[i].waived <= inst'[i].waived
             /\ \A i \in req[u].locks : i \in Index => inst'[i].waived = inst[i].waived
             /\ "waive" \notin Kinds
  <2>1. s # u
    <3>1. NotStarted.pc = "idle"
      BY DEF NotStarted
    <3>2. req'[s].pc = "idle" /\ req[s].pc = "commit"
      BY <1>1, <1>7, <3>1 DEF Commit, Done
    <3> QED BY <3>2
  <2>2. "waive" \notin Kinds /\ "reverse" \notin Kinds
    BY <2>1 DEF OneAtATime
  <2>3. req[s].kind # "reverse"
    BY <1>1, <2>2 DEF KindsAsked
  <2>4. /\ inst' = [i \in Index |-> IF i \in req[s].locks THEN req[s].rows[i] ELSE inst[i]]
        /\ req[s].locks \subseteq Index /\ req[s].pc = "commit"
        /\ \A i \in Index : inst'[i].paid = inst[i].paid
    BY <1>1, <1>7, <2>3, CommitRows
  <2>5. \A i \in req[s].locks : inst[i].waived <= req[s].rows[i].waived
    BY <2>3, <2>4 DEF TotalsInv, Lags
  <2>6. req[u].locks \cap req[s].locks = {}
    BY <1>1, <2>1 DEF LedgerInv, LocksApart, Apart
  <2> QED BY <1>2, <2>2, <2>4, <2>5, <2>6
<1>8. req[u].kind = "waive" => "waive" \in Kinds
  BY <1>1 DEF KindsAsked
<1> QED BY <1>1, <1>3, <1>4, <1>5, <1>6, <1>7, <1>8, RestOfSteps

(* Totals that were summed of rows f do not run ahead of what f has grown to. *)
LEMMA TotalsFollow ==
  ASSUME LedgerInv, [Next]_vars, status # "none", NEW f \in [Index -> Row],
         \A i \in Index : f[i].paid <= inst'[i].paid /\ f[i].waived <= inst'[i].waived
  PROVE  /\ totals'.paid <= Paid(f) /\ totals'.outstanding >= Owed(f) => TotalsNotAhead'
         /\ Paid(f) + Waived(f) >= Financed(plan) => Settled'
         /\ Owed(f) = 0 => Settled'
<1>1. plan' = plan /\ Index' = Index /\ LedgerInv'
  BY TermsStay, LedgerStep
<1>2. plan \in Plans /\ IsFiniteSet(Index) /\ inst' \in [Index -> Row] /\ totals' \in Totals
  <2>1. inst' \in [Index -> Row] /\ totals' \in Totals
    BY <1>1 DEF LedgerInv, TablesTyped, Row, Totals
  <2>2. plan \in Plans /\ IsFiniteSet(Index)
    BY IndexIsFinite DEF LedgerInv, TablesTyped
  <2> QED BY <2>1, <2>2
<1>3. PICK g : g = inst'
  OBVIOUS
<1>4. g \in [Index -> Row] /\ \A i \in Index : f[i].paid <= g[i].paid /\ f[i].waived <= g[i].waived
  BY <1>2, <1>3
<1>5. /\ Paid(f) <= Paid(g) /\ Owed(g) <= Owed(f) /\ Owed(f) \in Nat /\ Owed(g) \in Nat
      /\ Paid(f) \in Nat /\ Paid(g) \in Nat
      /\ Paid(f) + Waived(f) >= Financed(plan) => Paid(g) + Waived(g) >= Financed(plan)
      /\ Owed(f) = 0 => Paid(f) + Waived(f) >= Financed(plan)
  BY <1>2, <1>4, OwesLess
<1>6. totals'.paid \in Nat /\ totals'.outstanding \in Nat
  BY <1>2 DEF Totals
<1>7. totals'.paid <= Paid(f) /\ totals'.outstanding >= Owed(f) =>
        totals'.paid <= Paid(g) /\ totals'.outstanding >= Owed(g)
  <2>1. PICK a, b, c, x, y, z : /\ a = totals'.paid /\ b = Paid(f) /\ c = Paid(g)
                                /\ x = totals'.outstanding /\ y = Owed(f) /\ z = Owed(g)
    OBVIOUS
  <2> QED BY <1>5, <1>6, <2>1
<1>8. TotalsNotAhead' <=> totals'.paid <= Paid(g) /\ (status' # "none" => totals'.outstanding >= Owed(g))
  BY <1>1, <1>3 DEF TotalsNotAhead, Owed
<1>9. Settled' <=> Paid(g) + Waived(g) >= Financed(plan)
  BY <1>1, <1>3 DEF Settled
<1> QED BY <1>5, <1>7, <1>8, <1>9

(* What the step leaves of the totals and of the ownership                   *)
TotalsGood == /\ TotalsNotAhead /\ OwnedIsSettled
              /\ status = "none" => owner = "seller"

LEMMA GrownTotals ==
  ASSUME TotalsInv, [Next]_vars, status # "none",
         \A i \in Index : inst[i].paid <= inst'[i].paid /\ inst[i].waived <= inst'[i].waived
  PROVE  /\ Settled => Settled'
         /\ UNCHANGED totals => TotalsNotAhead'
<1>1. LedgerInv /\ TotalsNotAhead
  BY DEF TotalsInv
<1>2. PICK f : f = inst
  OBVIOUS
<1>3. f \in [Index -> Row] /\ \A i \in Index : f[i].paid <= inst'[i].paid /\ f[i].waived <= inst'[i].waived
  BY <1>1, <1>2 DEF LedgerInv, TablesTyped
<1>4. /\ totals'.paid <= Paid(f) /\ totals'.outstanding >= Owed(f) => TotalsNotAhead'
      /\ Paid(f) + Waived(f) >= Financed(plan) => Settled'
  BY <1>1, <1>3, TotalsFollow
<1> QED BY <1>1, <1>2, <1>4 DEF Settled, TotalsNotAhead, Owed

LEMMA CommitTotals ==
  ASSUME TotalsInv, [Next]_vars, NEW s \in Staff, Commit(s)
  PROVE  TotalsGood'
<1>1. LedgerInv
  BY DEF TotalsInv
<1>2. /\ status # "none" /\ Holds(req[s]) /\ req[s].locks \subseteq Index /\ req[s].pc = "commit"
      /\ inst' = [i \in Index |-> IF i \in req[s].locks THEN req[s].rows[i] ELSE inst[i]]
      /\ inst \in [Index -> Row]
      /\ req[s].kind # "reverse" => \A i \in Index : inst'[i].paid = inst[i].paid
  BY <1>1, CommitRows
<1>3. status' # "none"
  BY <1>1, <1>2, TermsStay
<1>4. PICK f : f = req[s].rows
  OBVIOUS
<1>5. /\ f \in [Index -> Row] /\ req[s].totals \in Totals
      /\ req[s].totals.paid = Paid(f) /\ req[s].totals.outstanding = Owed(f)
      /\ \A i \in Index \ req[s].locks : f[i].paid <= inst[i].paid /\ f[i].waived <= inst[i].waived
      /\ req[s].kind # "reverse" => \A i \in req[s].locks : inst[i].waived <= f[i].waived
  BY <1>2, <1>4 DEF TotalsInv, Lags, Holds
<1>6. \A i \in Index : f[i].paid <= inst'[i].paid /\ f[i].waived <= inst'[i].waived
  BY <1>2, <1>4, <1>5 DEF Row
<1>7. /\ totals'.paid <= Paid(f) /\ totals'.outstanding >= Owed(f) => TotalsNotAhead'
      /\ Owed(f) = 0 => Settled'
  BY <1>1, <1>2, <1>5, <1>6, TotalsFollow
<1>8. Paid(f) \in Nat /\ Owed(f) \in Nat
  BY <1>5 DEF Totals
<1>9. totals'.paid = Paid(f) /\ totals'.outstanding = Owed(f)
  BY <1>5 DEF Commit, Totals
<1>10. TotalsNotAhead'
  BY <1>7, <1>8, <1>9
<1>11. CASE req[s].kind = "reverse"
  <2>1. status' # "completed" /\ owner' = OwnerAfter(req[s].totals)
    BY <1>11 DEF Commit
  <2>2. owner' = "transferred" => Owed(f) = 0
    BY <1>5, <1>8, <2>1 DEF OwnerAfter
  <2> QED BY <1>3, <1>7, <1>10, <2>1, <2>2 DEF TotalsGood, OwnedIsSettled
<1>12. CASE req[s].kind # "reverse"
  <2>1. UNCHANGED <<owner, status>>
    BY <1>12 DEF Commit
  <2>2. \A i \in Index : inst[i].paid <= inst'[i].paid /\ inst[i].waived <= inst'[i].waived
    BY <1>2, <1>4, <1>5, <1>12 DEF Row
  <2>3. Settled => Settled'
    BY <1>2, <2>2, GrownTotals
  <2> QED BY <1>3, <1>10, <2>1, <2>3 DEF TotalsGood, OwnedIsSettled, TotalsInv
<1> QED BY <1>11, <1>12

LEMMA ApplyTotals ==
  ASSUME TotalsInv, [Next]_vars, status # "none", Grows,
         NEW p \in Payments, NEW pays, Apply(p, pays)
  PROVE  TotalsGood'
<1>1. LedgerInv /\ LedgerInv' /\ OwnedIsSettled /\ inst \in [Index -> Row] /\ plan' = plan
      /\ Index' = Index /\ status' # "none"
  BY LedgerStep, TermsStay DEF TotalsInv, LedgerInv, TablesTyped
<1>2. PICK f, t : f = inst' /\ t = totals'
  OBVIOUS
<1>3. f \in [Index -> Row]
  BY <1>1, <1>2 DEF LedgerInv, TablesTyped, Row
<1>4. t.paid = Paid(f) /\ t.outstanding = Owed(f) /\ t.paid \in Nat /\ t.outstanding \in Nat
  <2>1. t = Recalc(f, pay')
    BY <1>2 DEF Apply
  <2>2. t \in Totals
    BY <1>1, <1>2 DEF LedgerInv, TablesTyped, Totals
  <2> QED BY <2>1, <2>2 DEF Recalc, Owed, Totals
<1>5. \A i \in Index : f[i].paid <= inst'[i].paid /\ f[i].waived <= inst'[i].waived
  BY <1>2, <1>3 DEF Row
<1>6. /\ totals'.paid <= Paid(f) /\ totals'.outstanding >= Owed(f) => TotalsNotAhead'
      /\ Owed(f) = 0 => Settled'
  BY <1>1, <1>3, <1>5, TotalsFollow
<1>7. TotalsNotAhead' /\ (t.outstanding = 0 => Settled')
  BY <1>2, <1>4, <1>6
<1>8. Settled => Settled'
  <2>1. \A i \in Index : inst[i].paid <= inst'[i].paid /\ inst[i].waived <= inst'[i].waived
    BY <1>1, <1>2, <1>3 DEF Grows, Row
  <2> QED BY <2>1, GrownTotals
<1>9. owner' = "transferred" \/ status' = "completed" =>
        t.outstanding = 0 \/ owner = "transferred" \/ status = "completed"
  BY <1>2 DEF Apply, Completes
<1> QED BY <1>1, <1>7, <1>8, <1>9 DEF TotalsGood, OwnedIsSettled

LEMMA ApprovalTotals ==
  ASSUME TotalsInv, [Next]_vars, NEW s \in Staff, ApproveApplication(s), status = "none"
  PROVE  TotalsGood'
<1>1. /\ plan' \in Plans /\ UNCHANGED owner /\ status' = "active" /\ LedgerInv'
      /\ totals' = [paid |-> 0, outstanding |-> Financed(plan'), credit |-> 0] /\ owner = "seller"
  BY ApprovalRows, LedgerStep DEF TotalsInv
<1>2. PICK D, f, t, w : D = 1..t.terms /\ f = inst' /\ t = plan' /\ w = Waived(f)
  OBVIOUS
<1>3. t \in Plans /\ f \in [D -> Row] /\ IsFiniteSet(D)
  <2>1. Index' = D
    BY <1>1, <1>2 DEF Index
  <2>2. f \in [D -> Row]
    BY <1>1, <1>2, <2>1 DEF LedgerInv, TablesTyped, Row
  <2>3. t.terms \in Nat
    BY <1>1, <1>2, FinancingAssumption DEF Plan
  <2> QED BY <1>1, <1>2, <2>2, <2>3, FS_Interval
<1>4. Paid(f) \in Nat /\ w \in Nat
  BY <1>2, <1>3, RowSums
<1>5. Financed(t) \in Nat
  BY <1>3, FinancingAssumption DEF Financed, Plan
<1>6. Financed(t) >= AtLeast0(Financed(t) - Paid(f) - w)
  BY <1>4, <1>5 DEF AtLeast0
<1> QED BY <1>1, <1>2, <1>4, <1>5, <1>6 DEF TotalsGood, TotalsNotAhead, OwnedIsSettled

LEMMA TotalsStep ==
  ASSUME OneAtATime
  PROVE  TotalsInv /\ [Next]_vars => TotalsInv'
<1> SUFFICES ASSUME TotalsInv, [Next]_vars PROVE TotalsInv'
  OBVIOUS
<1>1. LedgerInv /\ LedgerInv' /\ KindsAsked /\ KindsAsked' /\ TotalsGood
  BY LedgerStep, StepKinds DEF TotalsInv, TotalsGood
<1>2. TotalsGood'
  <2>1. ASSUME UNCHANGED <<inst, totals, owner>>, status' \in {status, "cancelled"} PROVE TotalsGood'
    <3>1. CASE status # "none"
      <4>1. plan' = plan /\ status' # "none"
        BY <1>1, <3>1, TermsStay
      <4> QED BY <1>1, <2>1, <3>1, <4>1 DEF TotalsGood, TotalsNotAhead, OwnedIsSettled, Settled
    <3>2. CASE status = "none"
      <4>1. status' = "none"
        <5> SUFFICES ASSUME status' # "none" PROVE FALSE
          OBVIOUS
        <5>1. DOMAIN inst' = {}
          BY <1>1, <2>1, <3>2 DEF LedgerInv, TablesTyped, Index
        <5>2. DOMAIN inst' = Index' /\ plan' \in Plans
          BY <1>1 DEF LedgerInv, TablesTyped
        <5>3. PICK n : n = plan'.terms
          OBVIOUS
        <5>4. n \in Nat \ {0}
          BY <5>2, <5>3, FinancingAssumption DEF Plan
        <5>5. 1 \in 1..n
          BY <5>4
        <5> QED BY <5>1, <5>2, <5>3, <5>5 DEF Index
      <4> QED BY <1>1, <2>1, <3>2, <4>1 DEF TotalsGood, TotalsNotAhead, OwnedIsSettled
    <3> QED BY <3>1, <3>2
  <2>2. ASSUME status # "none", Grows, UNCHANGED <<totals, owner, status>> PROVE TotalsGood'
    <3>1. \A i \in Index : inst[i].paid <= inst'[i].paid /\ inst[i].waived <= inst'[i].waived
      <4>1. Index' = Index
        BY <1>1, <2>2, TermsStay
      <4>2. \A i \in Index : /\ inst[i].paid \in Nat /\ inst[i].waived \in Nat
                             /\ inst'[i].paid \in Nat
        BY <1>1, <4>1 DEF LedgerInv, TablesTyped, Row
      <4> QED BY <2>2, <4>2 DEF Grows
    <3>2. TotalsNotAhead' /\ (Settled => Settled')
      BY <2>2, <3>1, GrownTotals
    <3> QED BY <1>1, <2>2, <3>2 DEF TotalsGood, OwnedIsSettled
  <2>3. ASSUME NEW s \in Staff, ApproveApplication(s) PROVE TotalsGood'
    <3>1. CASE status = "none"
      BY <2>3, <3>1, ApprovalTotals
    <3>2. CASE status # "none"
      <4>1. UNCHANGED <<inst, totals, owner>> /\ status' \in {status, "cancelled"}
        BY <1>1, <2>3, <3>2, ApprovalRows DEF agreement
      <4> QED BY <2>1, <4>1
    <3> QED BY <3>1, <3>2
  <2>4. ASSUME NEW s \in Staff, Commit(s) PROVE TotalsGood'
    BY <2>4, CommitTotals
  <2>5. ASSUME status # "none", Grows, NEW p \in Payments, NEW pays \in [Payments -> PayRow],
               Apply(p, pays)
        PROVE  TotalsGood'
    BY <2>5, ApplyTotals
  <2> QED BY <1>1, <2>1, <2>2, <2>3, <2>4, <2>5, RestOfSteps
<1>3. ASSUME NEW u \in Staff PROVE Lags(req[u])'
  <2>1. PICK q : q = req'[u]
    OBVIOUS
  <2>2. LagsNext(q)
    <3>1. CASE q = req[u]
      <4>1. Lags(q) /\ Fits(q)
        BY <1>1, <3>1 DEF TotalsInv, LedgerInv, RequestsFit
      <4>2. Waits(q) => /\ \A i \in Index : inst[i].paid <= inst'[i].paid /\ inst[i].waived <= inst'[i].waived
                        /\ q.pc = "transaction" /\ q.kind = "waive" =>
                             \A i \in Index : inst'[i].waived = inst[i].waived
                        /\ q.pc = "commit" => \A i \in q.locks : inst'[i].waived = inst[i].waived
        BY <2>1, <3>1, OthersGrow
      <4> QED BY <1>1, <4>1, <4>2, LagsKept DEF Waits
    <3>2. CASE q # req[u]
      <4>1. Request(u) \/ ReadPayment(u)
        <5>1. ASSUME NEW p \in Payments, Callback(p) PROVE UNCHANGED req
          BY <5>1 DEF Callback, CallbackFails, CallbackMismatch, StoreReceipt, ApplyCallback
        <5>2. PICK s \in Staff : Request(s) \/ ReadPayment(s)
          BY <2>1, <3>2, <5>1 DEF Next, vars, RefreshOverdueStatuses
        <5>3. s = u
          BY <1>1, <2>1, <3>2, <5>2, OthersRest
        <5> QED BY <5>2, <5>3
      <4> QED BY <2>1, <3>2, <4>1, MoverLags
    <3> QED BY <3>1, <3>2
  <2> QED BY <2>1, <2>2 DEF LagsNext, Lags, Owed
<1> QED BY <1>1, <1>2, <1>3 DEF TotalsInv, TotalsGood

LEMMA InitTotals == Init => TotalsInv
<1> SUFFICES ASSUME Init PROVE TotalsInv
  OBVIOUS
<1>1. /\ KindsAsked /\ \A s \in Staff : req[s] = NotStarted
      /\ status = "none" /\ owner = "seller" /\ totals.paid = 0
  BY DEF Init, KindsAsked, NotStarted
<1>2. Free(NotStarted)
  BY Shapes DEF Free, Waits
<1>3. \A s \in Staff : Lags(req[s])
  BY <1>1, <1>2, FreeLags
<1>4. Paid(inst) \in Nat
  <2>1. IsFiniteSet({}) /\ inst \in [{} -> Row]
    BY FS_EmptySet DEF Init
  <2> QED BY <2>1, RowSums
<1> QED BY <1>1, <1>3, <1>4, InitLedger DEF TotalsInv, TotalsNotAhead, OwnedIsSettled

LEMMA TotalsHold ==
  ASSUME OneAtATime
  PROVE  Spec => []TotalsInv
<1>1. TotalsInv /\ [Next]_vars => TotalsInv'
  BY TotalsStep
<1> QED BY <1>1, InitTotals, PTL DEF Spec

(* The agreement's totals lag behind its schedule and never run ahead, as long *)
(* as staff who write instalments do so one at a time.                         *)
THEOREM TotalsTrail ==
  ASSUME OneAtATime
  PROVE  Spec => []TotalsNotAhead
<1>1. Spec => []TotalsInv
  BY TotalsHold
<1>2. TotalsInv => TotalsNotAhead
  BY DEF TotalsInv
<1> QED BY <1>1, <1>2, PTL

(* Goods become the customer's, and an agreement complete, only by money and   *)
(* waivers on the schedule, under the same condition.                          *)
THEOREM OwnersHaveSettled ==
  ASSUME OneAtATime
  PROVE  Spec => []OwnedIsSettled
<1>1. Spec => []TotalsInv
  BY TotalsHold
<1>2. TotalsInv => OwnedIsSettled
  BY DEF TotalsInv
<1> QED BY <1>1, <1>2, PTL
==============================================================================
