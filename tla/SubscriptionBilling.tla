-------------------------- MODULE SubscriptionBilling --------------------------
(***************************************************************************)
(* How the control plane bills one client (control-plane/server/index.ts): *)
(* invoices live in the client's own database, behind its HTTP service;    *)
(* M-Pesa attempts, payments, follow-ups and the subscription live in the  *)
(* control plane's.  Nothing spans the two, so every handler is a sequence *)
(* of HTTP calls and statements, and rows it read may be out of date when  *)
(* it writes them back.                                                    *)
(*                                                                         *)
(* A step is one HTTP call or one statement.  Time is counted in days.     *)
(***************************************************************************)
EXTENDS Integers, FiniteSets, FiniteSetsExt

CONSTANTS Invoices, Attempts, Requests,
          Ops,          \* what requests do
          Period,       \* days an invoice pays for
          WarnAfter,    \* PROFORMA_WARNING_DAYS
          Grace,        \* PROFORMA_SUSPENSION_GRACE_DAYS
          LapseGrace,   \* SUSPEND_GRACE_DAYS
          RenewWindow,  \* windowDays of isRenewalDateInWindow
          Extension,    \* days of an extension
          FirstExpiry,  \* subscription_expires at the start
          MaxDay, MaxGranted, MaxFaults,   \* bounds
          NoInvoice, NoAttempt

AllOps == {"push", "callback", "pay", "record", "generate", "delete", "extend",
           "suspend", "resume", "renew", "enforce", "owner"}
ByHand == {"reconciled", "manual", "recorded"}   \* payment_method of rows without a receipt

ASSUME BillingAssumption ==
  /\ {Period, WarnAfter, Grace, LapseGrace, RenewWindow, Extension} \subseteq Nat
  /\ {FirstExpiry, MaxDay, MaxGranted, MaxFaults} \subseteq Nat
  /\ Ops \subseteq AllOps
  /\ NoInvoice \notin Invoices /\ NoAttempt \notin Attempts /\ Attempts \cap ByHand = {}

VARIABLES day,
          client,   \* the row of clients; next_payment_date is the day of its expiry
          store,    \* the client's service: open, closed to its shop, or paused by its host
          invoice,  \* invoices of the client's database; pending and overdue are "open"
          payments, \* client_payments
          attempt,  \* mpesa_payment_attempts, and what Safaricom will call back
          follow,   \* proforma_followups
          req,      \* the requests under way
          sweep,    \* the run of processProformaFollowups, if one is active
          granted,  \* days of extensions granted so far
          faults    \* errors and restarts so far

tables == <<client, store, invoice, payments, attempt, follow>>
vars == <<day, tables, req, sweep, granted, faults>>

NoDay == -1
Days == Nat \cup {NoDay}
Tracked == {"warning_pending", "warning_sending", "warned", "suspending"}
Active == {"initiating", "pending", "payment_confirmed", "initiation_unknown", "needs_review"}

TypeOK ==
  /\ day \in 0..MaxDay
  /\ client \in [status : {"active", "suspended"}, expires : Nat]
  /\ store \in {"open", "closed", "paused"}
  /\ invoice \in [Invoices -> [status : {"none", "open", "paid", "deleted"},
                               key : Days, created : Nat, end : Nat]]
  /\ payments \subseteq [invoice : Invoices, by : Attempts \cup ByHand]
  /\ attempt \in [Attempts -> [status : Active \cup {"absent", "complete", "failed"},
                               invoice : Invoices \cup {NoInvoice},
                               result : {"none", "success", "mismatch", "failure"}]]
  /\ follow \in [Invoices -> [status : Tracked \cup {"none", "suspended", "paid", "cancelled"},
                              warnAt : Days, sentAt : Days, suspendAt : Days, extension : Nat]]
  /\ granted \in 0..MaxGranted /\ faults \in 0..MaxFaults
  /\ \A a, b \in Attempts : attempt[a].status \in Active /\ attempt[b].status \in Active
                            /\ attempt[a].invoice = attempt[b].invoice => a = b

-----------------------------------------------------------------------------
NoRow == [status |-> "active", expires |-> 0]
Idle == [pc |-> "idle", kind |-> "none", invoice |-> NoInvoice, attempt |-> NoAttempt,
         row |-> NoRow]
NoSweep == [pc |-> "idle", now |-> 0, row |-> NoRow, rows |-> <<>>, i |-> NoInvoice]

Init ==
  /\ day = 0
  /\ client = [status |-> "active", expires |-> FirstExpiry] /\ store = "open"
  /\ invoice = [i \in Invoices |-> [status |-> "none", key |-> NoDay,
                                   created |-> 0, end |-> 0]]
  /\ payments = {}
  /\ attempt = [a \in Attempts |-> [status |-> "absent", invoice |-> NoInvoice, result |-> "none"]]
  /\ follow = [i \in Invoices |-> [status |-> "none", warnAt |-> NoDay, sentAt |-> NoDay,
                                   suspendAt |-> NoDay, extension |-> 0]]
  /\ req = [r \in Requests |-> Idle] /\ sweep = NoSweep
  /\ granted = 0 /\ faults = 0

Starts(r, kind) == req[r].pc = "idle" /\ kind \in Ops
At(r, pc) == req[r].pc = pc
Goes(r, pc) == req' = [req EXCEPT ![r].pc = pc]
Done(r) == req' = [req EXCEPT ![r] = Idle]
Begins(r, kind, pc, i) ==
  req' = [req EXCEPT ![r] = [Idle EXCEPT !.pc = pc, !.kind = kind, !.invoice = i, !.row = client]]

Later(d, e) == IF d < e THEN e ELSE d
(* An expiry from which the subscription goes on: the row's, or today. *)
Base(row) == Later(row.expires, day)
(* The end of the invoice's period when it is later, as paidProformaRenewal and the *)
(* pay endpoint have it; or the base and a period.                                  *)
RenewedTo(row, i) ==
  IF invoice[i].end > Base(row) THEN invoice[i].end ELSE Base(row) + Period

OpenInvoice(i) == invoice[i].status = "open"
PaidTo(e) == client' = [client EXCEPT !.expires = e]
Settles(i, from, to) ==
  follow' = [follow EXCEPT ![i].status = IF @ \in from THEN to ELSE @]
Unsettled == Tracked \cup {"suspended"}

(* A shop that is closed by its own flag still answers the control plane; a service *)
(* that its host has paused answers nobody.                                         *)
Answers == store # "paused"
(* Suspension asks both and is content with one; resumption asks the host, then the *)
(* shop, which may not have started yet.                                            *)
Closes == store' \in IF Answers THEN {"closed", "paused"} ELSE {"paused"}
Opens == store' \in IF Answers THEN {"open"} ELSE {"closed", "open"}

(* resumeClientRecord for a row that was suspended when it was read *)
ThenResume(r) == IF req[r].row.status = "suspended" THEN Goes(r, "activate") ELSE Done(r)

-----------------------------------------------------------------------------
(* Suspension closes the service first and records it then; resumption records it *)
(* first.                                                                         *)
SuspendApp(r) ==
  /\ At(r, "close") /\ Closes /\ Goes(r, "mark")
  /\ UNCHANGED <<client, invoice, payments, attempt, follow>>
MarkSuspended(r) ==
  /\ At(r, "mark") /\ client' = [client EXCEPT !.status = "suspended"] /\ Done(r)
  /\ UNCHANGED <<store, invoice, payments, attempt, follow>>
MarkActive(r) ==
  /\ At(r, "activate") /\ client' = [client EXCEPT !.status = "active"] /\ Goes(r, "open")
  /\ UNCHANGED <<store, invoice, payments, attempt, follow>>
ResumeApp(r) ==
  /\ At(r, "open") /\ Opens /\ Done(r)
  /\ UNCHANGED <<client, invoice, payments, attempt, follow>>

SuspendOrResume(r) ==
  /\ \/ Starts(r, "suspend") /\ Begins(r, "suspend", "close", NoInvoice)
     \/ Starts(r, "resume") /\ Begins(r, "resume", "activate", NoInvoice)
  /\ UNCHANGED tables

(* enforceSubscriptionPayments *)
EnforceSubscriptionPayments(r) ==
  /\ Starts(r, "enforce")
  /\ client.status = "active" /\ client.expires + LapseGrace < day
  /\ \A i \in Invoices : follow[i].status \notin Tracked
  /\ Begins(r, "enforce", "close", NoInvoice)
  /\ UNCHANGED tables

-----------------------------------------------------------------------------
(* Invoices: generated in the client's database, and followed up here. *)
Generated(i, key, start) ==
  invoice' = [invoice EXCEPT ![i] = [status |-> "open", key |-> key, created |-> day,
                                     end |-> start + Period]]

GenerateInvoice(r) ==
  /\ Starts(r, "generate") /\ Answers
  /\ \E i \in Invoices :
       /\ invoice[i].status = "none"
       /\ Generated(i, NoDay, day) /\ Begins(r, "generate", "track", i)
  /\ UNCHANGED <<client, store, payments, attempt, follow>>

TrackProformaFollowup(r) ==
  LET i == req[r].invoice IN
  /\ At(r, "track")
  /\ follow' = IF follow[i].status # "none" THEN follow
               ELSE [follow EXCEPT ![i] = [@ EXCEPT !.status = "warning_pending",
                                             !.warnAt = invoice[i].created + WarnAfter]]
  /\ Done(r)
  /\ UNCHANGED <<client, store, invoice, payments, attempt>>

(* generateUpcomingClientInvoices, one run at a time *)
ReadRenewal(r) ==
  /\ Starts(r, "renew") /\ \A u \in Requests : req[u].kind # "renew"
  /\ client.status = "active" /\ client.expires \in day..(day + RenewWindow)
  /\ Begins(r, "renew", "list", NoInvoice)
  /\ UNCHANGED tables
ListInvoices(r) ==
  /\ At(r, "list") /\ Answers
  /\ IF \E i \in Invoices : OpenInvoice(i) THEN Done(r) ELSE Goes(r, "generate")
  /\ UNCHANGED tables

KeyTaken(key) == \E i \in Invoices : invoice[i].key = key /\ invoice[i].status # "deleted"

GenerateRenewal(r) ==
  LET due == req[r].row.expires IN
  /\ At(r, "generate") /\ req[r].kind = "renew" /\ Answers
  /\ \/ KeyTaken(due) /\ Done(r) /\ UNCHANGED invoice
     \/ /\ ~KeyTaken(due)
        /\ \E i \in Invoices : /\ invoice[i].status = "none" /\ Generated(i, due, due)
                               /\ req' = [req EXCEPT ![r].pc = "track", ![r].invoice = i]
  /\ UNCHANGED <<client, store, payments, attempt, follow>>

(* DELETE /api/clients/:id/invoices/:invId *)
CheckDelete(r) ==
  /\ Starts(r, "delete")
  /\ \E i \in Invoices : /\ invoice[i].status # "none"
                         /\ \A p \in payments : p.invoice # i
                         /\ \A a \in Attempts : attempt[a].invoice # i
                         /\ Begins(r, "delete", "delete", i)
  /\ UNCHANGED tables

DeletesAny(i) == TRUE                                                          \* mutant
Deletable(i) == OpenInvoice(i)

DeleteInvoice(r) ==
  LET i == req[r].invoice IN
  /\ At(r, "delete") /\ Answers
  /\ \/ Deletable(i) /\ Goes(r, "cancel")
        /\ invoice' = [invoice EXCEPT ![i].status = IF @ = "open" THEN "deleted" ELSE @]
     \/ ~Deletable(i) /\ Done(r) /\ UNCHANGED invoice
  /\ UNCHANGED <<client, store, payments, attempt, follow>>
CancelFollowup(r) ==
  /\ At(r, "cancel") /\ Settles(req[r].invoice, Unsettled, "cancelled") /\ Done(r)
  /\ UNCHANGED <<client, store, invoice, payments, attempt>>

-----------------------------------------------------------------------------
(* The client's owner marks an invoice paid in their own shop. *)
OwnerPays(i) ==
  /\ "owner" \in Ops /\ store = "open" /\ OpenInvoice(i)
  /\ invoice' = [invoice EXCEPT ![i].status = "paid"]
  /\ UNCHANGED <<client, store, payments, attempt, follow, req>>

(* The pay and the record-payment endpoints *)
ReadClient(r) ==
  /\ \/ Starts(r, "pay") /\ \E i \in Invoices : /\ invoice[i].status # "none"
                                               /\ Begins(r, "pay", "pay", i)
     \/ Starts(r, "record") /\ Begins(r, "record", "generate", NoInvoice)
     \/ /\ Starts(r, "extend") /\ Begins(r, "extend", "write", NoInvoice)
        /\ granted + Extension * (1 + Cardinality({u \in Requests : req[u].kind = "extend"}))
             <= MaxGranted
  /\ UNCHANGED tables
GenerateRecorded(r) ==
  /\ At(r, "generate") /\ req[r].kind = "record" /\ Answers
  /\ \E i \in Invoices : /\ invoice[i].status = "none" /\ Generated(i, NoDay, day)
                         /\ req' = [req EXCEPT ![r].pc = "pay", ![r].invoice = i]
  /\ UNCHANGED <<client, store, payments, attempt, follow>>

Payable(i) == OpenInvoice(i)                          \* markInvoicePaid
Unchecked(r) == Goes(r, "write")                                               \* mutant
Refused(r) == IF req[r].kind = "callback" THEN Goes(r, "review") ELSE Done(r)

PayInvoice(r) ==
  LET i == req[r].invoice IN
  /\ At(r, "pay") /\ Answers
  /\ \/ Payable(i) /\ Goes(r, "write") /\ invoice' = [invoice EXCEPT ![i].status = "paid"]
     \/ ~Payable(i) /\ Refused(r) /\ UNCHANGED invoice
  /\ UNCHANGED <<client, store, payments, attempt, follow>>

Paid(i, by) == payments' = payments \cup {[invoice |-> i, by |-> by]}

WritePayment(r) ==
  LET i == req[r].invoice IN
  /\ At(r, "write") /\ req[r].kind = "pay"
  /\ PaidTo(RenewedTo(req[r].row, i)) /\ Paid(i, "manual")
  /\ Settles(i, Unsettled, "paid")
  /\ ThenResume(r)
  /\ UNCHANGED <<store, invoice, attempt>>

RecordExtension(r) ==
  /\ At(r, "write") /\ req[r].kind = "record"
  /\ Settles(req[r].invoice, Unsettled, "paid")
  /\ PaidTo(Base(req[r].row) + Period) /\ Goes(r, "payment")
  /\ UNCHANGED <<store, invoice, payments, attempt>>
RecordPayment(r) ==
  /\ At(r, "payment") /\ Paid(req[r].invoice, "recorded") /\ ThenResume(r)
  /\ UNCHANGED <<client, store, invoice, attempt, follow>>

(* POST /api/clients/:id/extend-usage *)
ExtendUsage(r) ==
  /\ At(r, "write") /\ req[r].kind = "extend"
  /\ granted' = granted + Extension
  /\ PaidTo(Base(req[r].row) + Extension)
  /\ follow' = [i \in Invoices |->
                  IF follow[i].status \notin Tracked THEN follow[i]
                  ELSE [follow[i] EXCEPT
                          !.extension = @ + Extension,
                          !.status = IF @ = "suspending" THEN "warned" ELSE @,
                          !.suspendAt = IF @ = NoDay THEN NoDay ELSE @ + Extension]]
  /\ Done(r)
  /\ UNCHANGED <<store, invoice, payments, attempt>>

-----------------------------------------------------------------------------
(* POST /api/clients/:id/invoices/:invoiceId/mpesa *)
PendingFor(i) ==                                                               \* mutant
  \E a \in Attempts : attempt[a].invoice = i /\ attempt[a].status = "pending"
ActiveFor(i) == \E a \in Attempts : attempt[a].invoice = i /\ attempt[a].status \in Active

ReadInvoice(r) ==
  /\ Starts(r, "push") /\ Answers
  /\ \E i \in Invoices : OpenInvoice(i) /\ ~ActiveFor(i) /\ Begins(r, "push", "insert", i)
  /\ UNCHANGED tables

(* The unique index refuses a second active attempt. *)
InsertAttempt(r) ==
  LET i == req[r].invoice IN
  /\ At(r, "insert")
  /\ \/ ActiveFor(i) /\ Done(r) /\ UNCHANGED attempt
     \/ /\ ~ActiveFor(i)
        /\ \E a \in Attempts :
             /\ attempt[a].status = "absent"
             /\ attempt' = [attempt EXCEPT ![a] = [@ EXCEPT !.status = "initiating",
                                                           !.invoice = i]]
             /\ req' = [req EXCEPT ![r].pc = "prompt", ![r].attempt = a]
  /\ UNCHANGED <<client, store, invoice, payments, follow>>

(* initiateSandboxStkPush: Safaricom may accept what it does not confirm.  What the *)
(* customer will answer is settled here.                                            *)
Prompt(r) ==
  /\ At(r, "prompt")
  /\ \/ /\ \E result \in {"success", "mismatch", "failure"} :
             attempt' = [attempt EXCEPT ![req[r].attempt].result = result]
        /\ Goes(r, "pending") \/ Goes(r, "unknown")
     \/ UNCHANGED attempt /\ Goes(r, "unknown")
  /\ UNCHANGED <<client, store, invoice, payments, follow>>

SavePush(r) ==
  /\ At(r, "pending") \/ At(r, "unknown")
  /\ attempt' = [attempt EXCEPT ![req[r].attempt].status =
                   IF req[r].pc = "pending" THEN "pending" ELSE "initiation_unknown"]
  /\ Done(r)
  /\ UNCHANGED <<client, store, invoice, payments, follow>>

(* POST /api/mpesa/stk-callback/:token, any number of times.  An attempt whose ids *)
(* are not known takes them from the callback; one that is still "initiating"      *)
(* answers 404.                                                                    *)
BindCallback(r) ==
  /\ Starts(r, "callback")
  /\ \E a \in Attempts :
       /\ attempt[a].result # "none" /\ attempt[a].status \in {"initiation_unknown", "pending"}
       /\ attempt' = [attempt EXCEPT ![a].status = "pending"]
       /\ req' = [req EXCEPT ![r] = [Idle EXCEPT !.pc = "claim", !.kind = "callback",
                                       !.attempt = a, !.invoice = attempt[a].invoice]]
  /\ UNCHANGED <<client, store, invoice, payments, follow>>

Claimable(a) == attempt[a].status = "pending"

ClaimAttempt(r) ==
  LET a == req[r].attempt
      result == attempt[a].result
      to == CASE result = "failure" -> "failed"
              [] result = "mismatch" -> "needs_review"
              [] OTHER -> "payment_confirmed"
  IN /\ At(r, "claim")
     /\ \/ ~Claimable(a) /\ Done(r) /\ UNCHANGED attempt
        \/ /\ Claimable(a) /\ attempt' = [attempt EXCEPT ![a].status = to]
           /\ IF result = "success" THEN Goes(r, "client") ELSE Done(r)
     /\ UNCHANGED <<client, store, invoice, payments, follow>>

LoadClient(r) ==
  /\ At(r, "client") /\ req' = [req EXCEPT ![r].pc = "verify", ![r].row = client]
  /\ UNCHANGED tables

VerifyInvoice(r) ==
  /\ At(r, "verify") /\ Answers
  /\ \/ OpenInvoice(req[r].invoice) /\ Goes(r, "pay") /\ UNCHANGED attempt
     \/ /\ ~OpenInvoice(req[r].invoice) /\ Done(r)
        /\ attempt' = [attempt EXCEPT ![req[r].attempt].status = "needs_review"]
  /\ UNCHANGED <<client, store, invoice, payments, follow>>

(* PayInvoice, then: *)
RecordReceipt(r) ==
  /\ At(r, "write") /\ req[r].kind = "callback"
  /\ Paid(req[r].invoice, req[r].attempt) /\ Goes(r, "renew")
  /\ UNCHANGED <<client, store, invoice, attempt, follow>>
RenewSubscription(r) ==
  /\ At(r, "renew") /\ PaidTo(Base(req[r].row) + Period) /\ Goes(r, "complete")
  /\ UNCHANGED <<store, invoice, payments, attempt, follow>>
Confirmed(a, to) ==
  attempt' = [attempt EXCEPT ![a].status = IF @ = "payment_confirmed" THEN to ELSE @]
CompleteAttempt(r) ==
  /\ At(r, "complete") /\ Confirmed(req[r].attempt, "complete") /\ Goes(r, "settle")
  /\ UNCHANGED <<client, store, invoice, payments, follow>>
SettleFollowup(r) ==
  /\ At(r, "settle") /\ Settles(req[r].invoice, Unsettled, "paid") /\ ThenResume(r)
  /\ UNCHANGED <<client, store, invoice, payments, attempt>>
(* The catch of the callback: an error leaves the attempt to an operator. *)
ReviewAttempt(r) ==
  /\ At(r, "review") /\ Confirmed(req[r].attempt, "needs_review") /\ Done(r)
  /\ UNCHANGED <<client, store, invoice, payments, follow>>

-----------------------------------------------------------------------------
(* processProformaFollowups: claims left by a restart are taken back, the rows that *)
(* are due, or were not looked at lately, are read, and handled one after the other.*)
Recovered(status) ==
  CASE status = "warning_sending" -> "warning_pending"
    [] status = "suspending" -> "warned"
    [] OTHER -> status
Abandoned(status) == status                                                    \* mutant
Recover(status) == Recovered(status)

DueOn(f) == f.warnAt <= day \/ (f.suspendAt # NoDay /\ f.suspendAt <= day)

SweepStart(stale, skipped) ==
  LET f == [i \in Invoices |-> [follow[i] EXCEPT !.status = IF i \in stale THEN Recover(@) ELSE @]]
      rows == {i \in Invoices : f[i].status \in {"warning_pending", "warned"}
                                /\ (DueOn(f[i]) \/ i \notin skipped)}
  IN /\ sweep.pc = "idle" /\ rows # {}
     /\ follow' = f
     /\ sweep' = [NoSweep EXCEPT !.pc = "next", !.now = day, !.row = client,
                                 !.rows = [i \in rows |-> f[i]]]
     /\ UNCHANGED <<client, store, invoice, payments, attempt>>

Row == sweep.rows[sweep.i]
SweepAt(pc) == sweep.pc = pc
SweepGoes(pc) == sweep' = [sweep EXCEPT !.pc = pc]
(* On with the other rows *)
SweepDone ==
  LET rest == DOMAIN sweep.rows \ {sweep.i} IN
  sweep' = IF rest = {} THEN NoSweep
           ELSE [sweep EXCEPT !.pc = "next", !.i = NoInvoice,
                              !.rows = [j \in rest |-> sweep.rows[j]]]

Waits(f) == IF f.status = "warning_pending" THEN f.warnAt > sweep.now
            ELSE f.suspendAt = NoDay \/ f.suspendAt > sweep.now

(* getTrackedInvoice, and what is to be done about the row *)
LookUpInvoice ==
  /\ SweepAt("next")
  /\ \E i \in DOMAIN sweep.rows :
       LET to == IF ~Answers THEN "catch"
                 ELSE CASE invoice[i].status = "paid" -> "reconcile"
                        [] OpenInvoice(i) -> IF Waits(sweep.rows[i]) THEN "skip" ELSE "claim"
                        [] OTHER -> "cancel"
       IN sweep' = [sweep EXCEPT !.pc = to, !.i = i]
  /\ UNCHANGED tables
SkipRow == SweepAt("skip") /\ SweepDone /\ UNCHANGED tables

Claim == IF Row.status = "warned" THEN "suspending" ELSE "warning_sending"

ClaimRow ==
  /\ SweepAt("claim")
  /\ \/ follow[sweep.i].status = Row.status /\ SweepGoes("recheck")
     \/ follow[sweep.i].status # Row.status /\ SweepDone
  /\ Settles(sweep.i, {Row.status}, Claim)
  /\ UNCHANGED <<client, store, invoice, payments, attempt>>

(* "Verify payment again after claiming." *)
RecheckInvoice ==
  /\ SweepAt("recheck")
  /\ SweepGoes(IF ~Answers THEN "catch"
               ELSE CASE invoice[sweep.i].status = "paid" -> "unclaim"
                      [] OpenInvoice(sweep.i) -> "confirm"
                      [] OTHER -> "drop")
  /\ UNCHANGED tables
UnclaimPaid ==
  /\ SweepAt("unclaim") /\ Settles(sweep.i, {Claim}, "warned") /\ SweepGoes("reconcile")
  /\ UNCHANGED <<client, store, invoice, payments, attempt>>
CancelRow ==
  /\ \/ SweepAt("cancel") /\ Settles(sweep.i, {"warning_pending", "warned"}, "cancelled")
     \/ SweepAt("drop") /\ Settles(sweep.i, {Claim}, "cancelled")
  /\ SweepDone
  /\ UNCHANGED <<client, store, invoice, payments, attempt>>
(* The catch of a row: its claim is taken back, and the next one is looked up. *)
CatchRow ==
  /\ SweepAt("catch")
  /\ follow' = [follow EXCEPT ![sweep.i].status = Recovered(@)] /\ SweepDone
  /\ UNCHANGED <<client, store, invoice, payments, attempt>>
ConfirmClaim ==
  /\ SweepAt("confirm")
  /\ IF follow[sweep.i].status # Claim THEN SweepDone
     ELSE IF Claim = "warning_sending" THEN SweepGoes("warn")
     ELSE IF sweep.row.status = "suspended" THEN SweepGoes("suspended")
     ELSE SweepGoes("close")
  /\ UNCHANGED tables

FromCreation(i) == follow[i].warnAt + Grace                                    \* mutant
SuspendDue(i) == day + Grace + follow[i].extension

SendWarning ==
  LET i == sweep.i IN
  /\ SweepAt("warn")
  /\ follow' = IF follow[i].status # "warning_sending" THEN follow
               ELSE [follow EXCEPT ![i] = [@ EXCEPT !.status = "warned", !.sentAt = day,
                                                    !.suspendAt = SuspendDue(i)]]
  /\ SweepDone
  /\ UNCHANGED <<client, store, invoice, payments, attempt>>

SweepSuspendsApp ==
  /\ SweepAt("close") /\ Closes /\ SweepGoes("mark")
  /\ UNCHANGED <<client, invoice, payments, attempt, follow>>
SweepMarksSuspended ==
  /\ SweepAt("mark") /\ client' = [client EXCEPT !.status = "suspended"]
  /\ SweepGoes("suspended")
  /\ UNCHANGED <<store, invoice, payments, attempt, follow>>
FinishSuspension ==
  /\ SweepAt("suspended") /\ Settles(sweep.i, {"suspending"}, "suspended") /\ SweepDone
  /\ UNCHANGED <<client, store, invoice, payments, attempt>>

NeverRecorded(i) == [invoice |-> i, by |-> "reconciled"] \notin payments        \* mutant
Unrecorded(i) == \A p \in payments : p.invoice # i

(* reconcilePaidProforma *)
Reconcile ==
  LET i == sweep.i IN
  /\ SweepAt("reconcile")
  /\ IF Unrecorded(i) THEN Paid(i, "reconciled") /\ PaidTo(RenewedTo(sweep.row, i))
     ELSE UNCHANGED <<payments, client>>
  /\ Settles(i, {"warning_pending", "warned"}, "paid")
  /\ IF sweep.row.status = "suspended" THEN SweepGoes("activate") ELSE SweepDone
  /\ UNCHANGED <<store, invoice, attempt>>
SweepMarksActive ==
  /\ SweepAt("activate") /\ client' = [client EXCEPT !.status = "active"] /\ SweepGoes("open")
  /\ UNCHANGED <<store, invoice, payments, attempt, follow>>
SweepResumesApp ==
  /\ SweepAt("open") /\ Opens /\ SweepDone
  /\ UNCHANGED <<client, invoice, payments, attempt, follow>>

-----------------------------------------------------------------------------
(* Errors and restarts.  A call that times out may have been done, so a handler  *)
(* fails before or after any step.                                               *)
ConfirmedPcs == {"client", "verify", "pay", "write", "renew", "complete", "settle"}
Fail(r) ==
  /\ req[r].pc \notin {"idle", "prompt", "review"}
  /\ IF req[r].kind = "callback" /\ req[r].pc \in ConfirmedPcs THEN Goes(r, "review")
     ELSE IF req[r].pc = "pending" THEN Goes(r, "unknown") ELSE Done(r)
  /\ UNCHANGED <<tables, sweep>>
SweepFails ==
  /\ sweep.pc \notin {"idle", "next", "skip"}
  /\ IF SweepAt("catch") THEN SweepDone ELSE SweepGoes("catch")
  /\ UNCHANGED <<tables, req>>
(* A paused service: no request gets an answer from it, as long as it is paused. *)
Unanswered(r) ==
  /\ ~Answers /\ req[r].pc \in {"list", "generate", "delete", "pay", "verify"}
  /\ Fail(r)
Restart ==
  /\ req' = [r \in Requests |-> Idle] /\ sweep' = NoSweep
  /\ UNCHANGED tables
Fault ==
  \/ /\ faults < MaxFaults /\ faults' = faults + 1
     /\ (\E r \in Requests : Fail(r)) \/ SweepFails \/ Restart
  \/ UNCHANGED faults /\ \E r \in Requests : Unanswered(r)

Tick == day < MaxDay /\ day' = day + 1

Request(r) ==
  \/ SuspendApp(r) \/ MarkSuspended(r) \/ MarkActive(r) \/ ResumeApp(r) \/ SuspendOrResume(r)
  \/ EnforceSubscriptionPayments(r) \/ GenerateInvoice(r) \/ TrackProformaFollowup(r)
  \/ ReadRenewal(r) \/ ListInvoices(r) \/ GenerateRenewal(r)
  \/ CheckDelete(r) \/ DeleteInvoice(r) \/ CancelFollowup(r)
  \/ ReadClient(r) \/ GenerateRecorded(r) \/ PayInvoice(r) \/ WritePayment(r)
  \/ RecordExtension(r) \/ RecordPayment(r)
  \/ ReadInvoice(r) \/ InsertAttempt(r) \/ Prompt(r) \/ SavePush(r)
  \/ BindCallback(r) \/ ClaimAttempt(r) \/ LoadClient(r) \/ VerifyInvoice(r)
  \/ RecordReceipt(r) \/ RenewSubscription(r) \/ CompleteAttempt(r) \/ SettleFollowup(r)
  \/ ReviewAttempt(r)

SweepStep ==
  \/ LookUpInvoice \/ SkipRow \/ ClaimRow \/ RecheckInvoice \/ UnclaimPaid \/ CancelRow
  \/ CatchRow \/ ConfirmClaim \/ SendWarning \/ SweepSuspendsApp \/ SweepMarksSuspended
  \/ FinishSuspension \/ Reconcile \/ SweepMarksActive \/ SweepResumesApp

Next ==
  \/ \E r \in Requests : Request(r) /\ UNCHANGED <<day, sweep, granted, faults>>
  \/ \E r \in Requests : ExtendUsage(r) /\ UNCHANGED <<day, sweep, faults>>
  \/ \E i \in Invoices : OwnerPays(i) /\ UNCHANGED <<day, sweep, granted, faults>>
  \/ \E stale, skipped \in SUBSET Invoices :
       SweepStart(stale, skipped) /\ UNCHANGED <<day, req, granted, faults>>
  \/ SweepStep /\ UNCHANGED <<day, req, granted, faults>>
  \/ Fault /\ UNCHANGED <<day, granted>>
  \/ Tick /\ UNCHANGED <<tables, req, sweep, granted, faults>>

Spec == Init /\ [][Next]_vars

(* The timer of 5 minutes starts sweeps for ever.  A row is passed over for the 5   *)
(* minutes after a look at it and a claim for the 15 after it was made, so again   *)
(* and again one of them takes every row and every abandoned claim (strong         *)
(* fairness: sweeps that pass over some disable it only while they run); a sweep   *)
(* that has begun goes on to its end.                                              *)
FairSpec ==
  /\ Spec
  /\ SF_vars(SweepStart(Invoices, {}) /\ UNCHANGED <<day, req, granted, faults>>)
  /\ WF_vars(SweepStep /\ UNCHANGED <<day, req, granted, faults>>)

-----------------------------------------------------------------------------
(* A completed attempt is money for an invoice that is paid, with its receipt on  *)
(* record; no invoice completes two of them.                                      *)
CompletedIsPaid ==
  \A a \in Attempts : attempt[a].status = "complete" =>
    /\ invoice[attempt[a].invoice].status = "paid"
    /\ [invoice |-> attempt[a].invoice, by |-> a] \in payments
    /\ \A b \in Attempts \ {a} : attempt[b].status = "complete" =>
                                   attempt[b].invoice # attempt[a].invoice

(* Callbacks, endpoints and sweeps that record one invoice together never give    *)
(* the client more days than were paid for or granted.                            *)
NoFreeTime ==
  client.expires <= Later(FirstExpiry, day)
                    + Period * Cardinality({i \in Invoices : invoice[i].status = "paid"}) + granted

(* A follow-up is settled as paid, or given up, only when its invoice was: no     *)
(* debt is forgotten and no payment is dunned for ever.                           *)
SettledIsTrue ==
  \A i \in Invoices : /\ follow[i].status = "paid" => invoice[i].status = "paid"
                      /\ follow[i].status = "cancelled" => invoice[i].status = "deleted"

(* "Please arrange payment within three days of this notice": a follow-up that    *)
(* comes to suspend the client was announced that long before.                    *)
WarnedBefore ==
  \A i \in Invoices : follow[i].status \in {"suspending", "suspended"} =>
                        follow[i].sentAt # NoDay /\ day >= follow[i].sentAt + Grace

(* "Recover claims left behind by a process crash": a paid invoice that is still  *)
(* followed up is recorded and settled, unless its follow-up came to suspend the  *)
(* client or the client's service is paused; if it is resumed for good, the       *)
(* property asks for the record again, whoever had paused it.                     *)
PaidIsRecorded ==
  \A i \in Invoices :
    (follow[i].status \in Tracked /\ invoice[i].status = "paid")
      ~> (\/ follow[i].status = "suspended" \/ store = "paused"
          \/ follow[i].status = "paid" /\ \E p \in payments : p.invoice = i)

(* "Recording a Payment resumes a suspended client"                               *)
PaidIsServed ==
  (\A r \in Requests : req[r].pc = "idle") /\ sweep.pc = "idle"
  /\ (\E i \in Invoices : follow[i].status = "paid")
  /\ (\A i \in Invoices : invoice[i].status # "open")
    => client.status = "active"
=============================================================================
