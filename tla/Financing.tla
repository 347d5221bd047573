------------------------------- MODULE Financing -------------------------------
(***************************************************************************)
(* Hire purchase ("lipa mdogo mdogo", server/financing): one application,  *)
(* the agreement it becomes, its instalments, and the payments, waivers    *)
(* and reversals that staff and M-Pesa callbacks apply to them.            *)
(*                                                                         *)
(* A step is one read, or one transaction up to where it waits for no      *)
(* lock.  applySucceededPayment locks the agreement and every instalment   *)
(* first and is one step.  Waivers and reversals lock only the rows they   *)
(* write, and waivers and adjustments the agreement's key against payments:*)
(* what they write shows when they commit, and the totals they then write  *)
(* were summed before.  A transaction that deadlocks is aborted.  Amounts  *)
(* are small whole numbers.                                                *)
(***************************************************************************)
EXTENDS Integers, FiniteSets, Functions

CONSTANTS Plans,          \* terms an application can ask for
          Payments, PayAmounts, WaiverAmounts,
          Staff,          \* staff requests at a time
          Kinds,          \* what staff requests do
          ManualApproval, \* financing_config.manualApproval
          Consents,       \* whether the customer's consent was ticked: {TRUE} or BOOLEAN
          MaxReversals,   \* bound on reversals begun
          NoPlan, NoPayment

Plan == [cash : Nat, deposit : Nat, charge : Nat, terms : Nat \ {0},
         possession : {"immediate", "threshold", "on_full_payment"}, threshold : Nat]
AllKinds == {"edit", "submit", "approve", "reject", "release", "cancel",
             "record", "push", "adjust", "waive", "reverse", "refresh"}

ASSUME FinancingAssumption == /\ \A t \in Plans : t \in Plan /\ t.deposit <= t.cash
                              /\ PayAmounts \subseteq Nat \ {0}
                              /\ WaiverAmounts \subseteq Nat \ {0}
                              /\ Kinds \subseteq AllKinds
                              /\ ManualApproval \in BOOLEAN
                              /\ Consents \subseteq BOOLEAN
                              /\ MaxReversals \in Nat
                              /\ NoPlan \notin Plans
                              /\ NoPayment \notin Payments

VARIABLES app,      \* financing_applications
          plan,     \* the agreement's terms, fixed when it is made
          status,   \* financing_agreements.status, "none" before it is made
          owner,    \* ownership_status
          released, \* possession_status = 'released'
          totals,   \* total_paid_cents, outstanding_cents, credit_cents
          inst,     \* financing_schedules
          pay,      \* financing_payments
          alloc,    \* financing_payment_allocations, summed per payment and instalment
          req,      \* the staff requests under way
          reversals

agreement == <<plan, status, owner, released>>
vars == <<app, plan, status, owner, released, totals, inst, pay, alloc, req, reversals>>

Pc == {"idle", "review", "approve", "write", "transaction", "commit"}

TypeOK ==
  /\ app \in [status : {"draft", "submitted", "approved", "rejected"},
              plan : Plans, consent : BOOLEAN]
  /\ plan \in Plans \cup {NoPlan}
  /\ status \in {"none", "active", "completed", "cancelled"}
  /\ owner \in {"seller", "transferred"}
  /\ released \in BOOLEAN
  /\ totals \in [paid : Nat, outstanding : Nat, credit : Nat]
  /\ \A i \in DOMAIN inst :
       inst[i] \in [paid : Nat, waived : Nat,
                    status : {"pending", "partially_paid", "overdue", "paid"}]
  /\ pay \in [Payments -> [status : {"absent", "initiated", "pending", "succeeded", "failed",
                                     "reversed"},
                           amount : PayAmounts \cup {0},
                           receipt : Payments \cup {NoPayment},
                           outcome : {"none", "exact", "mismatch", "failure"}]]
  /\ \A p \in Payments : alloc[p] \in [DOMAIN inst -> Nat]
  /\ \A s \in Staff : req[s].pc \in Pc
  /\ reversals \in 0..MaxReversals

-----------------------------------------------------------------------------
(* calculateFinancing *)
Financed(t) == t.cash + t.charge - t.deposit
Instalment(t) == Financed(t) \div t.terms
Amount(t, i) == IF i = t.terms
                  THEN Instalment(t) + Financed(t) - Instalment(t) * t.terms
                  ELSE Instalment(t)

AtLeast0(n) == IF n < 0 THEN 0 ELSE n
Lesser(m, n) == IF m < n THEN m ELSE n

(* The oldest-first waterfall of allocatePayment and of a waiver. *)
Waterfall(due, total) ==
  [i \in DOMAIN due |->
     Lesser(due[i], AtLeast0(total - SumFunctionOnSet(due, {j \in DOMAIN due : j < i})))]

Paid(rows) == SumFunction([i \in DOMAIN rows |-> rows[i].paid])
Waived(rows) == SumFunction([i \in DOMAIN rows |-> rows[i].waived])
Succeeded(pays) == {p \in Payments : pays[p].status = "succeeded"}
Received(pays) == SumFunctionOnSet([p \in Payments |-> pays[p].amount], Succeeded(pays))

Credit(rows, pays) == AtLeast0(Received(pays) - Paid(rows))

RecalcBefore(rows, pays) ==                                                    \* mutant
  [paid |-> Paid(inst), credit |-> Credit(inst, pays),
   outstanding |-> AtLeast0(Financed(plan) - Paid(inst) - Waived(inst))]

(* recalcAgreement *)
Recalc(rows, pays) ==
  [paid |-> Paid(rows),
   outstanding |-> AtLeast0(Financed(plan) - Paid(rows) - Waived(rows)),
   credit |-> Credit(rows, pays)]

(* What of instalment i a payment may cover *)
Collectible(i) == AtLeast0(Amount(plan, i) - inst[i].waived)
Due(i) == IF inst[i].status = "paid" THEN 0 ELSE AtLeast0(Collectible(i) - inst[i].paid)

Locks == UNION {req[s].locks : s \in Staff}
PayLocks == {req[s].pay : s \in {u \in Staff : req[u].pc = "commit"}}
(* The row of a waiver or an adjustment refers to the agreement: until it commits *)
(* it shares the agreement's key, and nobody locks the agreement to pay.          *)
AgreementShared == \E s \in Staff : req[s].kind \in {"waive", "adjust"}

-----------------------------------------------------------------------------
NotStarted == [pc |-> "idle", kind |-> "none", plan |-> NoPlan, pay |-> NoPayment,
               amount |-> 0, receipt |-> NoPayment, rows |-> <<>>, locks |-> {},
               totals |-> [paid |-> 0, outstanding |-> 0, credit |-> 0]]
Starts(s, kind) == req[s].pc = "idle" /\ kind \in Kinds
At(s, pc, kind) == req[s].pc = pc /\ req[s].kind = kind
Goto(s, pc, kind) == req' = [req EXCEPT ![s] = [NotStarted EXCEPT !.pc = pc, !.kind = kind]]
Done(s) == req' = [req EXCEPT ![s] = NotStarted]

Init ==
  /\ app \in [status : {"draft", "submitted"}, plan : Plans, consent : Consents]
  /\ plan = NoPlan /\ status = "none" /\ owner = "seller" /\ released = FALSE
  /\ totals = NotStarted.totals
  /\ inst = <<>>
  /\ pay = [p \in Payments |-> [status |-> "absent", amount |-> 0, receipt |-> NoPayment,
                                outcome |-> "none"]]
  /\ alloc = [p \in Payments |-> <<>>]
  /\ req = [s \in Staff |-> NotStarted]
  /\ reversals = 0

-----------------------------------------------------------------------------
(* Applications.  createApplication is Init: a draft, or 'submitted' when the *)
(* customer applies online.                                                   *)
ReadDraft(s) ==
  /\ app.status = "draft"
  /\ \/ Starts(s, "edit") /\ Goto(s, "write", "edit")
     \/ Starts(s, "submit") /\ app.consent /\ Goto(s, "write", "submit")
  /\ UNCHANGED <<app, agreement, totals, inst, pay, alloc>>

(* updateApplication *)
EditApplication(s) ==
  /\ At(s, "write", "edit")
  /\ \E t \in Plans : app' = [app EXCEPT !.plan = t]
  /\ Done(s)
  /\ UNCHANGED <<agreement, totals, inst, pay, alloc>>

SubmitApplication(s) ==
  /\ At(s, "write", "submit")
  /\ app' = [app EXCEPT !.status = IF ManualApproval THEN "submitted" ELSE "approved"]
  /\ IF ManualApproval THEN Done(s) ELSE Goto(s, "review", "approve")
  /\ UNCHANGED <<agreement, totals, inst, pay, alloc>>

ReviewApplication(s) ==
  /\ app.status \in {"draft", "submitted"}
  /\ \/ Starts(s, "approve") /\ Goto(s, "review", "approve")
     \/ Starts(s, "reject") /\ Goto(s, "write", "reject")
  /\ UNCHANGED <<app, agreement, totals, inst, pay, alloc>>

RejectApplication(s) ==
  /\ At(s, "write", "reject")
  /\ app' = [app EXCEPT !.status = "rejected"]
  /\ Done(s)
  /\ UNCHANGED <<agreement, totals, inst, pay, alloc>>

(* approveApplication reads the terms, then makes the agreement of them. *)
ReadTerms(s) ==
  /\ At(s, "review", "approve")
  /\ req' = [req EXCEPT ![s] = [NotStarted EXCEPT !.pc = "approve", !.plan = app.plan]]
  /\ UNCHANGED <<app, agreement, totals, inst, pay, alloc>>

AgreementExists == status # "none"

ApproveApplication(s) ==
  LET t == req[s].plan IN
  /\ req[s].pc = "approve"
  /\ \/ AgreementExists /\ UNCHANGED <<app, agreement, totals, inst, alloc>>
     \/ /\ ~AgreementExists
        /\ plan' = t /\ status' = "active"
        /\ totals' = [paid |-> 0, outstanding |-> Financed(t), credit |-> 0]
        /\ inst' = [i \in 1..t.terms |-> [paid |-> 0, waived |-> 0, status |-> "pending"]]
        /\ alloc' = [p \in Payments |-> [i \in 1..t.terms |-> 0]]
        /\ app' = [app EXCEPT !.status = "approved"]
        /\ UNCHANGED <<owner, released>>
  /\ Done(s)
  /\ UNCHANGED pay

-----------------------------------------------------------------------------
(* applySucceededPayment, for a row of payments as pays has it *)
AlwaysApplies(pays, p) == TRUE                                                 \* mutant
Unapplied(pays, p) == pays[p].status # "succeeded"

CompletesAny(t) == t.outstanding = 0                                           \* mutant
Completes(t) == t.outstanding = 0 /\ status = "active"

Take(amount) == Waterfall([i \in DOMAIN inst |-> Due(i)], amount)

(* applyAllocations *)
Allocated(take) ==
  [i \in DOMAIN inst |->
     IF take[i] = 0 THEN inst[i]
     ELSE [inst[i] EXCEPT !.paid = @ + take[i],
                          !.status = IF inst[i].paid + take[i] >= Collectible(i)
                                       THEN "paid" ELSE "partially_paid"]]

Apply(p, pays) ==
  LET take == Take(pays[p].amount + totals.credit)
      done == [pays EXCEPT ![p].status = "succeeded"]
      t    == Recalc(Allocated(take), done)
  IN /\ Locks = {} /\ ~AgreementShared /\ p \notin PayLocks
     /\ inst' = Allocated(take) /\ pay' = done /\ totals' = t
     /\ alloc' = [alloc EXCEPT ![p] = [i \in DOMAIN inst |-> @[i] + take[i]]]
     /\ status' = IF Completes(t) THEN "completed" ELSE status
     /\ owner' = IF t.outstanding = 0 THEN "transferred" ELSE owner
     /\ UNCHANGED <<app, plan, released>>

Inserted(p, row) == [pay EXCEPT ![p] = row]
HoldsReceipt(r) == r # NoPayment /\ \E q \in Payments : pay[q].receipt = r
AnyReceipt(r) == FALSE                                                         \* mutant
ReceiptTaken(r) == HoldsReceipt(r)

(* recordPayment: cash, or a payment of M-Pesa that staff enter by its receipt; *)
(* a receipt that is stored already returns the row that has it.               *)
ReadPayable(s) ==
  /\ Starts(s, "record") /\ status \notin {"none", "cancelled"}
  /\ \E amount \in PayAmounts :
       \E r \in {NoPayment} \cup {q \in Payments : pay[q].outcome \in {"exact", "mismatch"}} :
         /\ r # NoPayment => amount = pay[r].amount
         /\ req' = [req EXCEPT ![s] = [NotStarted EXCEPT !.pc = "write", !.kind = "record",
                                                         !.amount = amount, !.receipt = r]]
  /\ UNCHANGED <<app, agreement, totals, inst, pay, alloc>>

RecordPayment(s) ==
  /\ At(s, "write", "record")
  /\ \/ /\ ReceiptTaken(req[s].receipt)
        /\ UNCHANGED <<app, agreement, totals, inst, pay, alloc>>
     \/ /\ ~ReceiptTaken(req[s].receipt)
        /\ \E p \in Payments :
             /\ pay[p].status = "absent"
             /\ Apply(p, Inserted(p, [status |-> "pending", amount |-> req[s].amount,
                                      receipt |-> req[s].receipt, outcome |-> "none"]))
  /\ Done(s)

(* initiateMpesaPayment; what becomes of the push is settled here. *)
InitiateMpesaPayment(s) ==
  /\ Starts(s, "push") /\ status \notin {"none", "cancelled"}
  /\ \E p \in Payments, amount \in PayAmounts, outcome \in {"exact", "mismatch", "failure"} :
       /\ pay[p].status = "absent"
       /\ pay' = Inserted(p, [status |-> "initiated", amount |-> amount,
                              receipt |-> NoPayment, outcome |-> outcome])
  /\ UNCHANGED <<app, agreement, totals, inst, alloc, req>>

(* applyMpesaCallback, delivered any number of times.  The receipt is stored  *)
(* before the transaction that applies the payment.                           *)
CallbackFails(p) ==
  /\ pay[p].outcome = "failure" /\ pay[p].status # "succeeded"
  /\ pay' = [pay EXCEPT ![p].status = "failed"]
  /\ UNCHANGED <<app, agreement, totals, inst, alloc, req>>

CallbackMismatch(p) ==
  /\ pay[p].outcome = "mismatch" /\ pay[p].status # "succeeded"
  /\ ~ReceiptTaken(p) \/ pay[p].receipt = p
  /\ pay' = [pay EXCEPT ![p].status = "pending", ![p].receipt = p]
  /\ UNCHANGED <<app, agreement, totals, inst, alloc, req>>

StoreReceipt(p) ==
  /\ pay[p].outcome = "exact" /\ Unapplied(pay, p)
  /\ ~ReceiptTaken(p)
  /\ p \notin PayLocks
  /\ pay' = [pay EXCEPT ![p].receipt = p]
  /\ UNCHANGED <<app, agreement, totals, inst, alloc, req>>

ApplyCallback(p) ==
  /\ pay[p].outcome = "exact" /\ pay[p].receipt = p
  /\ Unapplied(pay, p)
  /\ Apply(p, pay)
  /\ UNCHANGED req

-----------------------------------------------------------------------------
(* releaseProduct *)
MayRelease == CASE plan.possession = "immediate" -> TRUE
                [] plan.possession = "threshold" -> totals.paid >= plan.threshold
                [] plan.possession = "on_full_payment" -> totals.outstanding = 0

(* releaseProduct and cancelAgreement read the agreement, then write it. *)
ReadAgreement(s) ==
  /\ status # "none"
  /\ \/ Starts(s, "release") /\ ~released /\ MayRelease /\ Goto(s, "write", "release")
     \/ Starts(s, "cancel") /\ status # "completed" /\ Goto(s, "write", "cancel")
  /\ UNCHANGED <<app, agreement, totals, inst, pay, alloc>>

ReleaseProduct(s) ==
  /\ At(s, "write", "release")
  /\ released' = TRUE
  /\ Done(s)
  /\ UNCHANGED <<app, plan, status, owner, totals, inst, pay, alloc>>

CancelAgreement(s) ==
  /\ At(s, "write", "cancel")
  /\ status' = "cancelled"
  /\ Done(s)
  /\ UNCHANGED <<app, plan, owner, released, totals, inst, pay, alloc>>

(* refreshOverdueStatuses, on a day when the first k instalments are late *)
RefreshOverdueStatuses ==
  /\ "refresh" \in Kinds /\ status = "active"
  /\ \E k \in DOMAIN inst :
       LET late == {i \in 1..k : inst[i].status \in {"pending", "partially_paid"}} IN
         /\ late # {} /\ late \cap Locks = {}
         /\ inst' = [i \in DOMAIN inst |->
                       IF i \in late THEN [inst[i] EXCEPT !.status = "overdue"] ELSE inst[i]]
  /\ UNCHANGED <<app, agreement, totals, pay, alloc, req>>

-----------------------------------------------------------------------------
(* recordAdjustment.  Only a waiver writes instalments: of the rows it read.  *)
ReadSchedules(s) ==
  /\ Starts(s, "waive") /\ status # "none"
  /\ \E amount \in WaiverAmounts :
       req' = [req EXCEPT ![s] = [NotStarted EXCEPT !.pc = "transaction", !.kind = "waive",
                                                    !.amount = amount, !.rows = inst]]
  /\ UNCHANGED <<app, agreement, totals, inst, pay, alloc>>

(* The transaction of s has written rows i \in locks as rows[i], and payment p, *)
(* and has summed the totals; it holds those rows until it commits.             *)
Wrote(s, kind, p, rows, locks, pays) ==
  /\ locks \cap Locks = {}
  /\ p = NoPayment \/ p \notin PayLocks
  /\ req' = [req EXCEPT ![s] = [NotStarted EXCEPT !.pc = "commit", !.kind = kind, !.pay = p,
                                  !.rows = rows, !.locks = locks, !.totals = Recalc(rows, pays)]]

WriteWaiver(s) ==
  LET seen == req[s].rows
      take == Waterfall([i \in DOMAIN seen |->
                           AtLeast0(Amount(plan, i) - seen[i].paid - seen[i].waived)],
                        req[s].amount)
      row(i) == [inst[i] EXCEPT
                   !.waived = seen[i].waived + take[i],
                   !.status = IF seen[i].paid + seen[i].waived + take[i] >= Amount(plan, i)
                                THEN "paid" ELSE seen[i].status]
      locks == {i \in DOMAIN inst : take[i] > 0}
  IN /\ At(s, "transaction", "waive")
     /\ Wrote(s, "waive", NoPayment,
              [i \in DOMAIN inst |-> IF i \in locks THEN row(i) ELSE inst[i]], locks, pay)
     /\ UNCHANGED <<app, agreement, totals, inst, pay, alloc>>

Adjust(s) ==
  /\ Starts(s, "adjust") /\ status # "none"
  /\ Wrote(s, "adjust", NoPayment, inst, {}, pay)
  /\ UNCHANGED <<app, agreement, totals, inst, pay, alloc>>

(* reversePayment: the status is checked before the transaction. *)
ReadPayment(s) ==
  /\ Starts(s, "reverse") /\ reversals < MaxReversals
  /\ reversals' = reversals + 1
  /\ \E p \in Payments :
       /\ pay[p].status = "succeeded"
       /\ req' = [req EXCEPT ![s] = [NotStarted EXCEPT !.pc = "transaction",
                                                       !.kind = "reverse", !.pay = p]]
  /\ UNCHANGED <<app, agreement, totals, inst, pay, alloc>>

Unfloored(i, p) == inst[i].paid - alloc[p][i]                                  \* mutant
SparesClosed(i, p) == IF inst[i].status = "paid" THEN inst[i].paid             \* mutant
                      ELSE AtLeast0(inst[i].paid - alloc[p][i])
PaidWithout(i, p) == AtLeast0(inst[i].paid - alloc[p][i])

KeepsStatus(i, paid) == inst[i].status                                         \* mutant
ReversedStatus(i, paid) == CASE paid >= Amount(plan, i) -> "paid"
                             [] 0 < paid /\ paid < Amount(plan, i) -> "partially_paid"
                             [] OTHER -> "pending"

WriteReversal(s) ==
  LET p == req[s].pay
      row(i) == [inst[i] EXCEPT !.paid = PaidWithout(i, p),
                                !.status = ReversedStatus(i, PaidWithout(i, p))]
      locks == {i \in DOMAIN inst : alloc[p][i] > 0}
  IN /\ At(s, "transaction", "reverse")
     /\ Wrote(s, "reverse", p, [i \in DOMAIN inst |-> IF i \in locks THEN row(i) ELSE inst[i]],
              locks, [pay EXCEPT ![p].status = "reversed"])
     /\ UNCHANGED <<app, agreement, totals, inst, pay, alloc>>

KeepsOwner(t) == owner                                                         \* mutant
OwnerAfter(t) == IF t.outstanding > 0 THEN "seller" ELSE owner

Commit(s) ==
  LET r == req[s] IN
  /\ r.pc = "commit"
  /\ inst' = [i \in DOMAIN inst |-> IF i \in r.locks THEN r.rows[i] ELSE inst[i]]
  /\ \/ /\ r.kind = "reverse"
        /\ pay' = [pay EXCEPT ![r.pay].status = "reversed"]
        /\ totals' = r.totals
        /\ status' = IF status = "completed" THEN "active" ELSE status
        /\ owner' = OwnerAfter(r.totals)
     \/ /\ r.kind \in {"adjust", "waive"}
        /\ totals' = [r.totals EXCEPT !.credit = totals.credit]
        /\ UNCHANGED <<pay, status, owner>>
  /\ Done(s)
  /\ UNCHANGED <<app, plan, released, alloc>>

(* A deadlock, a database error or a restart. *)
Abort(s) ==
  /\ req[s].pc \in {"transaction", "commit"}
  /\ Done(s)
  /\ UNCHANGED <<app, agreement, totals, inst, pay, alloc>>

-----------------------------------------------------------------------------
Request(s) == \/ ReadDraft(s) \/ EditApplication(s) \/ SubmitApplication(s)
              \/ ReviewApplication(s) \/ RejectApplication(s)
              \/ ReadTerms(s) \/ ApproveApplication(s)
              \/ ReadPayable(s) \/ RecordPayment(s) \/ InitiateMpesaPayment(s)
              \/ ReadAgreement(s) \/ ReleaseProduct(s) \/ CancelAgreement(s)
              \/ ReadSchedules(s) \/ WriteWaiver(s) \/ Adjust(s)
              \/ WriteReversal(s) \/ Commit(s) \/ Abort(s)

Callback(p) == CallbackFails(p) \/ CallbackMismatch(p) \/ StoreReceipt(p) \/ ApplyCallback(p)

Next == \/ \E s \in Staff : Request(s) /\ UNCHANGED reversals
        \/ \E s \in Staff : ReadPayment(s)
        \/ \E p \in Payments : Callback(p) /\ UNCHANGED reversals
        \/ RefreshOverdueStatuses /\ UNCHANGED reversals

Spec == Init /\ [][Next]_vars

-----------------------------------------------------------------------------
Settled == Paid(inst) + Waived(inst) >= Financed(plan)

(* Goods become the customer's, and an agreement complete, only by money and *)
(* waivers that are on the schedule, whatever was reversed meanwhile.        *)
OwnedIsSettled == owner = "transferred" \/ status = "completed" => Settled

(* No instalment takes more than it asks for, and none shows money that no   *)
(* payment was allocated to it.                                              *)
PaidIsAllocated ==
  \A i \in DOMAIN inst :
    /\ inst[i].paid <= Amount(plan, i)
    /\ inst[i].paid <= SumFunctionOnSet([p \in Payments |-> alloc[p][i]], Succeeded(pay))

(* An instalment that is closed to payments has nothing left to pay.         *)
ClosedIsCovered ==
  \A i \in DOMAIN inst : inst[i].status = "paid" =>
                           inst[i].paid + inst[i].waived >= Amount(plan, i)

(* The agreement's totals may lag behind its schedule, and never run ahead.  *)
TotalsNotAhead == totals.paid <= Paid(inst) /\
                  (status # "none" =>
                     totals.outstanding >= AtLeast0(Financed(plan) - Paid(inst) - Waived(inst)))

(* Every shilling received is on the schedule or is the customer's credit.   *)
ReceivedIsAccounted == Received(pay) = Paid(inst) + totals.credit

(* A receipt of Safaricom, by its callback or typed in, counts once.         *)
ReceiptCountsOnce ==
  \A p, q \in Succeeded(pay) : p # q /\ pay[p].receipt # NoPayment =>
                                 pay[p].receipt # pay[q].receipt

(* A late callback, or a reversal, does not bring a cancelled agreement back. *)
CancelledStaysCancelled == [][status = "cancelled" => status' = "cancelled"]_vars

(* "When the outstanding balance reaches zero the agreement is automatically  *)
(* marked completed and ownership transferred."                               *)
SettledIsCompleted ==
  status # "none" /\ totals.outstanding = 0 => status # "active" /\ owner = "transferred"

(* "a Safaricom receipt and a checkout request may each only ever be applied  *)
(* once": a payment that was reversed is not applied again.                   *)
ReversedStaysReversed ==
  [][\A p \in Payments : pay[p].status = "reversed" => pay'[p].status # "succeeded"]_vars

(* "reversing a payment must drop its overpayment": the schedule never shows  *)
(* more than was received.                                                    *)
PaidIsReceived == Paid(inst) <= Received(pay)

(* A rejected application has no agreement.                                   *)
RejectedHasNoAgreement == app.status = "rejected" => status = "none"

(* "Customer consent is required"                                             *)
AgreedWithConsent == status # "none" => app.consent
=============================================================================
