# A TLA+ model of Gears&Glitch

Gears&Glitch is a shop system for an electronics store: a storefront, tills, stock per branch, M-Pesa
payments, repairs, financing, notifications by e-mail and WhatsApp, and a control plane that manages several
shops.  One Express process (`server/index.ts`) serves one shop's PostgreSQL database (`server/db.ts`,
`server/schema.sql`); background jobs run on timers of the same process.  This directory holds a formal model of
the parts of it where the order of events decides what is true of stock, money, debts, subscriptions and messages.

To check a module: `tlc -config checkout.cfg MCOrders.tla`, and likewise for the other runs; to check the proofs:
`tlapm OrderProofs.tla`, and `CreditsProofs`, `WebhookProofs`, `QueueProofs`, `FinancingProofs`, `StockProofs`, `BillingProofs`, `SumFacts`.
`FinancingProofs` and `BillingProofs` take several minutes each.

Contents: [inventory](#inventory), [modules](#modules-and-how-they-correspond-to-the-code), [runs](#runs),
[divergences](#what-the-code-does-otherwise-than-it-says), [abstractions](#abstractions-and-bounds),
[proofs](#what-is-proved), [not modelled](#not-modelled).

## Inventory

| Component | State it keeps | Operations | What is hard | What makes it correct |
|---|---|---|---|---|
| Orders, stock, M-Pesa | `orders`, `order_items`, `products.stock_on_hand`, `stock_levels`, `stock_movements` | checkout, edit, STK push, callback, poll, cash, cancel, status, refund, timeout job | several requests per order, callbacks late, lost or twice, a restart between hold and push | goods leave once and come back once, the two stock ledgers agree, paid stays paid, holds settle |
| Checkout credits | `coupons`, `gift_cards`, `gift_card_redemptions`, the credit columns of `orders` | validate, grant, count, redeem | validation before, debit after the order is committed | nothing is spent twice, balance equals its log |
| WhatsApp webhooks | `webhook_events` (status, token, lease) and what an event writes | claim, process, complete, fail, answer | redelivery, two workers, leases that lapse, errors between writes | nothing acknowledged that was not done, nothing lost |
| Notification queue | `notification_deliveries`, `notification_log`, `drainLock` | enrol, drain, send, settle, retry | overlapping drains, a crash between send and settlement | no endless retry, no unexplained copy, settled stays settled |
| Customer notifications, invoices by message | none of their own | compose | none: wording | - |
| Financing (lipa mdogo mdogo) | `financing_applications`, `_agreements`, `_schedules`, `_payments`, `_payment_allocations` | apply, approve, pay, push, call back, waive, adjust, reverse, release, cancel, overdue job | staff read before they write, callbacks between their steps, reversals of money that was a credit | goods are owned when they are settled, every shilling is on the schedule or a credit, a receipt counts once |
| Transfers, purchasing, stock take | `stock_levels`, `stock_transfers`, `purchase_orders` and their lines | create, complete, reject, receive, recall, delete, count | row locks in different orders, rows that are missing yet, receipts that overlap | goods move once, receipts are stocked, a deadlock costs nothing |
| Serial numbers | `product_serials` | assign, sell, return | follow order transitions | one serial, one owner |
| Invoice numbers, subscription invoices | sequence, period | draw, generate | two generators at a time | no number twice, one invoice a period |
| Sign-in and sessions | users, tokens, OAuth links | sign in, refresh, invite | expiry, links | - |
| Permissions, features, branches | rules | decide | none: pure | decisions match the table |
| Repairs, warranty | jobs, parts, warranties | status, parts, sweep | status machine, parts come from stock | parts leave stock once |
| Migrations | `schema_migrations` | apply | a restart halfway | each applied once |
| WhatsApp consent | `whatsapp_consent` | grant, opt out | order of arrival | the latest word counts |
| E-mail transports, uploads, secrets, reports, pages, helpers, health | - | I/O, formatting, queries | - | - |
| Control plane: billing | `clients`, `client_payments`, `mpesa_payment_attempts`, `proforma_followups`; invoices in the client's own database | generate, push, call back, pay, record, extend, renew, delete, warn, suspend, resume | nothing spans the two databases; callbacks, endpoints and the sweep settle the same invoice; crashes leave claims | no days for nothing, follow-ups end as invoices did, no suspension without its notice |
| Control plane: provisioning | hosting accounts | create, configure | calls to hosting services | - |
| Front end | none that lasts | calls the endpoints | - | - |

How they interact.  Every request reads and writes PostgreSQL directly; a transaction locks the rows it works on
(`SELECT ... FOR UPDATE`).  Between the `await`s of one handler any other request, timer or callback may run, so
what a handler read may be out of date when it acts.  Safaricom is called by `server/mpesa.ts` and calls back
`POST /api/mpesa/callback`; Meta calls `POST /api/webhooks/whatsapp` and repeats what is not answered with 200;
the notification queue is filled by the handlers and drained by a timer and by them.  Financing shares `POST /api/mpesa/callback` with
the orders.  The control plane is a process of its own; it reads and pays a client's invoices through that client's HTTP service, which it also
closes and opens, and Safaricom calls it back at `POST /api/mpesa/stk-callback/:token`.

The hazards, each at its line with the properties that watch over it, are listed in `PROJECT.json`.

## Modules and how they correspond to the code

| Module | Models |
|---|---|
| `OrderStore` | the order and stock tables and the transactions of `server/db.ts`: `createOrder`, `deductReservedStockForOrder`, `releaseReservedStockForOrder`, `confirmOrderPayment`, `releaseOrderHeldStock`, `updateOrderStatus`, `holdStockForOrder`, `updateOrderMpesaStatus`, `createRefund`, `cancelOrderItem` |
| `OrderRequests` | the handlers of `server/index.ts` that run over it, Safaricom, the customer, the hold-timeout job and restarts |
| `StockPromise` | the abstract specification: an order takes its goods off the shelf once; they are sold once or returned once |
| `OrderProperties` | invariants, action properties, the liveness property, the refinement mapping to `StockPromise` and the inductive invariant `CheckoutInv` |
| `MCOrders` | small shops for TLC |
| `OrderProofs` | theorems about the above |
| `CheckoutCredits`, `MCCredits`, `CreditsProofs` | coupons and gift cards in `POST /api/orders` |
| `WebhookLedger`, `MCWebhooks`, `WebhookProofs` | `claimWebhookEvent` and its kin in `server/integrations-store.ts`, `handleWhatsAppWebhook` |
| `NotificationQueue`, `QueueProofs` | `server/notification-service.ts`: enrolment, `drainNotificationQueueOnce`, `processPendingDelivery`, settlement |
| `Financing`, `MCFinancing`, `FinancingProofs` | `server/financing/service.ts`, `allocation.ts`, `calculator.ts`: one application, its agreement, its payments |
| `BranchStock`, `MCStock`, `StockProofs` | `completeStockTransfer`, `receivePurchaseOrderItem`, `reversePurchaseOrderReceive` and what calls them, lock by lock |
| `SubscriptionBilling`, `MCBilling`, `BillingProofs` | `control-plane/server/index.ts`: billing, following up, suspending and resuming one client |
| `SumFacts` | nothing of the code: lemmas about sums over finite sets that four of the proof modules cite |

**OrderStore** has one variable per table column the properties need: `order` (status, `paid_at`, receipt,
`checkout_request_id`, delivery fee, refunded amount, cancelled lines, movements), `onHand`
(`products.stock_on_hand`), `inStock` and `reserved` (`stock_levels`).  A transaction of `db.ts` locks the order row
and is one atomic operator; its early returns are disjuncts.  `GREATEST(x - q, 0)` is `Minus`, the
`WHERE quantity_in_stock >= q` of the till is `MinusIfEnough`.

**OrderRequests** makes each handler a process.  `req[r].pc` names its next database transaction or Safaricom call, and
the other fields hold what it read before: `POST /api/orders` is `Storefront`, `Push` (or `PushFails`, `PushLost`),
`SaveCheckout` or `ReleaseUnpushed`; `PATCH /api/orders/:id` is `PatchRead`, `PatchUpdate`, `PatchLive`, `PatchHold`, then the push;
`POST /api/pos/checkout` is `PosCheck`, `PosTx`, `PosStatus`, `PosPaid` or `PosPush`, with `PosRetry` for its replay; the till's poll, cash and
cancel buttons, the back office's status, refund and item endpoints follow.  `Callback`, `CallbackUnknown`, `CustomerAnswers` are
the other side of M-Pesa; `Age`, `SweepRead`, `SweepRelease` are the job `releaseTimedOut`; `Crash` loses the requests and the
job's list and keeps the tables.  `Ops` selects the endpoints of a configuration.

**CheckoutCredits** is the same handler seen from its credits: `ValidateCoupon`, `ValidateGiftCard` read, `CreateOrder` commits what was
granted, `RecordCouponUsage` and `RedeemGiftCard` count and debit after it; administrators switch, time expires.

**WebhookLedger** has a process per delivery of a payload: `Claim`/`ClaimLost`/`ReadLost` are the three statements of
`claimWebhookEvent`, `DoWrite` the writes of `processInboundMessage` one after the other, `Complete` and `Fail` the fenced updates, `Respond` the
status code.  `Throw` and `Abort` are errors inside and outside the `try`, `Lapse` a lease that runs out.

**NotificationQueue** has the rows, the log, the number of copies each recipient got, the lock and the drains.  `Send` calls the provider,
`Settle`/`LogSent` follow a success, `FailDelivery` an error; `TryThrows` and `CatchThrows` are database errors at either level, and the second ends
the drain with its batch, as in the code.

**Financing** has the application, the agreement (`status`, `owner`, `released`, `totals`), its instalments, the payments and what each was allocated.
`Waterfall` is `allocatePayment`, `Recalc` is `recalcAgreement`, `Apply` is `applySucceededPayment`.  A member of staff is a process: `ReadX` is the read before a
handler's writes, `WriteWaiver`/`Adjust` and `WriteReversal`/`Commit` are the two halves of `recordAdjustment` and `reversePayment`, whose transactions lock only the rows they
update, so another waiver or reversal may run between them.  Payments and callbacks lock the agreement first: they wait for a waiver or an adjustment, whose row refers to the agreement and shares its key until
the commit (`AgreementShared`), and for a reversal that has written an instalment.  `StoreReceipt` and `ApplyCallback` are the two statements of `applyMpesaCallback`, `RefreshOverdueStatuses` the overdue job.

**BranchStock** follows each transaction lock by lock: `LockTransfer`, `LockSource`, `LockDestination` or `InsertDestination`, `CommitTransfer` for a transfer;
`LockItem`, `LockLevel`, `CommitReceive` for a receipt; `ReadReceived`, `LockGlobal`, `LockReset`, `CommitReverse` for a recall or a deletion.  The writes of a transaction
become visible at its COMMIT; COMMIT and ROLLBACK free its locks (`GivesBack`), as the database does.  Transactions that wait for each other are found by `Deadlocked`, and PostgreSQL rolls one of them back.
`Kinds` selects the requests of a configuration.

**SubscriptionBilling** has a request for each HTTP call the control plane is serving and `sweep` for the run of `processProformaFollowups`, which reads its rows once and works
through them with the copies it read.  `SuspendApp`/`MarkSuspended` and `MarkActive`/`ResumeApp` are the two halves of suspension and resumption, `BindCallback` to `SettleFollowup`
the M-Pesa callback, `LookUpInvoice` to `FinishSuspension` the sweep, `Reconcile` is `reconcilePaidProforma`.  `Fail`, `SweepFails` and `Restart` are an error
before or after any step and a restart of the control plane.  `store` is the client's service: `open`, `closed` (its suspension flag is set, and it answers the control plane) or `paused` by its host, when it
answers nobody (`Answers`).  While it is paused the sweep's look-ups fail into `CatchRow`, which takes the claim back, handlers that ask it stay without an answer (`Unanswered`), and nothing is paid there.

`PROJECT.json` maps every definition to its lines.  Definitions marked `\* mutant` are single-line bugs used to show that each property can fail; no
action uses them.

## Runs

| Run | Instance | Shows |
|---|---|---|
| `checkout` | 3 orders (2 storefront, 1 till), 2 products, two screens for three that want one, 3 requests, 2 M-Pesa checkouts, 1 restart; endpoints `storefront`, `pos` | `TypeOK`, `LedgersAgree`, `ReservedIsOpenHolds`, `PaidSoldOnce`, and `KeepsPromise`: checkout implements `StockPromise` |
| `counter` | 1 till order, all endpoints, all statuses of the admin screen, 3 requests, 2 checkouts, 1 restart | `ReceiptNeedsPayment`, `OneOpenReservation`, `DuplicateCancelIsNoop` under edits, replays and cancellations |
| `holds_settle` | 2 orders, 2 requests, no restart, `FairSpec`; endpoints `storefront`, `cart`, `pos` | `HoldsSettle`: every hold ends in a sale or a release |
| `credits` | 3 checkouts, a coupon for one use, a card that covers one order but not two | `TypeOK`, `BalanceIsLedger`, `UsedWithinLimit`, `RedeemedAsShown` |
| `webhooks` | 2 payloads that share an opt-out, 2 deliveries at a time, 2 faults, `FairSpec` | `AckedIsProcessed`, `ProcessedIsDone`, `RepeatsAreRetries`, `ProcessedIsFinal`, and `EventuallyAcked` |
| `queue` | 2 deliveries, 2 drains, 3 attempts, batches of 2, 2 faults, a provider that may report an error for what it sent, `FairSpec` | `CopiesAreAttempts`, `SentWasDelivered`, `SettledIsFinal`, `EventuallySettled` |
| `financing` | an agreement of three shillings in two instalments, 2 payments by cash or M-Pesa of 1 or 2, waivers, adjustments, 2 reversals, cancellation, the overdue job; one member of staff, callbacks between the steps | `TypeOK`, `OwnedIsSettled`, `PaidIsAllocated`, `ClosedIsCovered`, `TotalsNotAhead`, `CancelledStaysCancelled` |
| `financing_desks` | two plans, 2 members of staff at a time, from the edit of the application to payments and waivers, 2 payments | `ReceivedIsAccounted`, `ReceiptCountsOnce` |
| `billing` | 1 invoice, 2 attempts, 2 requests at a time, the sweep, the owner, extensions, 3 days, 1 error or restart | `TypeOK`, `CompletedIsPaid`, `NoFreeTime`, `SettledIsTrue`, `WarnedBefore` |
| `billing_settles` | 2 invoices, payments by hand and by the owner, renewals, enforcement, suspension and resumption, a service that may be paused, 1 error or restart, `FairSpec` | `PaidIsRecorded`: an invoice that is followed up and paid is recorded, unless its follow-up ended in a suspension or the client's service is paused; once it answers again the property asks for the record again |
| `paid_suspended` | 1 invoice, the pay endpoint and the sweep, no error | TLC refutes `PaidIsServed`: see below |
| `branch_stock` | 2 transfers, 1 purchase order of 2, 2 branches, 2 requests at a time, at most 2 units bought, 1 error | `TypeOK`, `BranchLedger`, `ReceivedIsStocked`, `DecidedIsFinal` |

Why the bounds are enough.  Two orders that compete for one item, with a third that fits, give every outcome of a shortage; a request of each
kind on the same order plus one more gives every pair of handlers, and three a bystander; two checkouts are a live prompt and an abandoned one; one restart separates
any two steps, and after it the state is that of a fresh start with other tables.  Two deliveries of one payload are a worker and its rival; a first fault
lets a lease lapse or a write fail, a second one makes the retry fail too.  Two instalments have an order, and payments of one and two shillings cover one, both, neither or more than both.  One invoice
is all that two requests and the sweep can quarrel about; a second one matters to the sweep, which handles several rows with what it read at first, and is in `billing_settles`.  Two transfers between two branches run in the same and
in opposite directions, against each other or against a receipt, and take each other's locks in every order.  Symmetry is used over values that nothing orders
and never in a run that checks liveness (`holds_settle`, `webhooks`, `queue`, `billing_settles`).

`CHECK_DEADLOCK FALSE` is set where a finite supply (requests, deliveries, payments, days) lets the system come to rest.

Fairness.  `OrderRequests`: a request runs on to its end (Node runs its continuations), time passes, and `setInterval` repeats the job.
`WebhookLedger`: workers run on, leases run out, and Meta repeats what is not acknowledged; this is strong fairness only because the
model has a fixed number of request slots, and a repeat must find one free now and then.  `NotificationQueue`: the 15 second timer starts drains, a drain runs
on, backoff runs out.  `SubscriptionBilling`: a sweep that has begun runs on, and the timer of 5 minutes starts sweeps for ever.  A sweep passes over rows it looked at less than 5 minutes ago and claims
less than 15 minutes old, so which rows it takes is a choice in the model (`skipped`, `stale`); strong fairness says that again and again one takes every row and every abandoned claim.  Requests need no fairness
there: what they leave undone is the sweep's to finish.  Nor is anybody assumed to resume a client whose service is paused.  `BranchStock` (`FairSpec`, see the end of this section): PostgreSQL serves the transactions that wait for a row in the order they came and
ends one of those that wait for each other, and a handler that has its rows goes on; since the row may be taken by others in between, this is strong fairness of a request's next step.  No fairness is assumed of customers, callbacks, administrators, faults or restarts anywhere.

Beyond the runs.  `RequestsEnd` of `BranchStock`, that whoever waits for a row comes to an end although requests lock rows in opposite orders, holds on two instances that are no runs of their own: take `branch_stock.cfg` with
`SPECIFICATION FairSpec` and `PROPERTIES RequestsEnd`, without invariants and symmetry, and either `Kinds = {"transfer", "receive"}`, `Purchases = {o1, o2}`, `MaxFaults = 0` (opposite transfers) or `Transfers = {}`,
`Branches = {b1}`, `MaxQuantity = 2`, `Kinds` without `"patch"` (a receipt and a reversal).  TLC reaches the deadlock in both.  It refutes `RequestsEnd` when a rollback keeps its locks.

## What the code does otherwise than it says

The run `paid_suspended` checks `PaidIsServed`, "Recording a Payment resumes a suspended client" (`control-plane/README.md:424`).  TLC finds that a payment recorded between the
sweep's last look at the invoice and the suspension leaves the client suspended with nothing unpaid: the pay endpoint read the client when it was active and does not
resume it, and the follow-up is settled, so no later sweep finds it.

The following statements fail in the same way.  They are not runs of their own: put the statement in the place of the `INVARIANTS` and `PROPERTIES`
of the configuration named here (those marked A are `PROPERTIES`), and TLC prints the behaviour.

| Statement | Configuration | Behaviour | The code says |
|---|---|---|---|
| `CancelledStaysCancelled` A | `counter.cfg`, `Ops = {"pos", "poll"}`, `AdminStatuses = {}` | the till's poll marks an order paid that the timeout job cancelled meanwhile | `index.ts:2922` |
| `PaymentNeverUndone` A | `counter.cfg`, `Orders = {web2}`, `Ops = {"storefront", "paycash", "admin"}`, `AdminStatuses = {"shipped"}` | a late failure callback cancels an order paid in cash and shipped | `db.ts:2959` |
| `PaidNotCancelled` A | `counter.cfg`, `Ops = {"pos", "poscancel"}` | the till cancels an order that was paid since it read it | `index.ts:2975` |
| `HoldsSettle` A | `holds_settle.cfg`, `MaxCrashes = 1` | a restart before the checkout id is saved leaves a hold the job never finds | `index.ts:8846` |
| `NeverOversold` | `counter.cfg`, `Orders = {web2, till1}`, `Ops = {"cart", "patch", "pos"}`, `AdminStatuses = {}`, `InitOnHand <- OneOnHand`, `InitInStock <- OneInStock` | a push goes out although the hold failed, and its payment deducts what another order holds | `index.ts:3436` |
| `RestockedAtMostOnce` | `counter.cfg`, `Orders = {web2}` | cancelling returns goods that never left, and again after a reopening | `db.ts:2760` |
| `CancelledHoldsNothing` | `counter.cfg`, `Orders = {web2}` | the movement of a cancellation is not one the hold query looks for | `db.ts:2727` |
| `ReservedIsOpenHolds` | `counter.cfg` | cancelling lowers `quantity_reserved` whatever the order held | `db.ts:2773` |
| `PushedAmountIsTotal` | `counter.cfg`, `Orders = {web2}` | an edit pushes the total from before its own delivery fee | `db.ts:2922` |
| `ChargedOnce` | `counter.cfg` | two replays of a sale push twice | `index.ts:2585` |
| `DeliveredWasPaid` | `counter.cfg` | a pending order is delivered without payment | `db.ts:2748` |
| `PaidMayShip` | `counter.cfg` | the guard reads an object without `paid_at` and receipt | `db.ts:2745` |
| `NoPaymentDropped` | `checkout.cfg` | a callback faster than the saved checkout id is acknowledged and forgotten | `index.ts:1195` |
| `NothingStranded` | `counter.cfg`, `Orders = {web2}`, `Ops = {"storefront", "patch"}` | a deducted order that is edited to M-Pesa is held on top, and only one of the two is released | `index.ts:3436` |
| `BranchSalesCounted` | `checkout.cfg` with `Orders = {till1, till2}`, `Products = {screen}`, `Branches = {main, hq}`, `OrderBranch <- TillsAtHq`, `InitOnHand <- SplitOnHand`, `InitInStock <- SplitInStock` | a till sells another branch's goods and its own row does not move | `index.ts:2798` |
| `CardSpentOnce` | `credits.cfg` | two orders keep a gift amount the card covers once | `index.ts:3312` |
| `CouponGrantedWithinLimit` | `credits.cfg` | more orders keep the discount than the coupon has uses | `db.ts:2307` |
| `StatusLoggedOnce` | `webhooks.cfg` | a delivery status is logged again when its claim could not be completed | `whatsapp.ts:449` |
| `NeverDuplicated` | `queue.cfg`, `Honest = TRUE` | a message whose settlement failed is sent again | `0018_integrations.sql:15` |
| `SettledIsCompleted` | `financing.cfg` | a waiver brings the balance to zero and neither completes the agreement nor transfers the goods | `LIPA_MDOGO_MDOGO.md:149` |
| `ReversedStaysReversed` A | `financing.cfg` | a callback applies a payment again that was reversed | `0023_financing.sql:148` |
| `PaidIsReceived` | `financing.cfg`, `Payments = {p1, p2, p3}` | reversing a payment whose surplus was the credit leaves more on the schedule than was received | `service.ts:566` |
| `RejectedHasNoAgreement` | `financing_desks.cfg`, `Kinds` with `"reject"`, `ManualApproval = TRUE` | two members of staff approve and reject one application | `service.ts:302` |
| `AgreedWithConsent` | `financing_desks.cfg`, `Consents = {TRUE, FALSE}` | `reviewApplication` (`service.ts:300`) approves a draft without looking at the consent, which only `submitApplication` asks for | `service.ts:288` |
| `OwnedIsSettled`, `ClosedIsCovered`, `TotalsNotAhead` | `financing.cfg`, `Staff = {s1, s2}` | two reversals, or a reversal and a waiver, work from the same schedule | `service.ts:803` |

`DuplicateCancelIsNoop` and `OneOpenReservation` are the other side of `RestockedAtMostOnce` and `NothingStranded`: the guards that are there do hold.

Of the billing code, reading and modelling showed further that: a payment is recorded twice when the callback and the sweep both find none (`client_payments` then has two rows, the days are added once or
twice as `NoFreeTime` allows); an expiry written from a row read before it loses an extension granted meanwhile (`index.ts:2228`); an extension does not resume a client that is suspended already; a callback that comes
while its attempt is still `initiating` is answered with 404; a confirmed attempt stays `payment_confirmed` if the process stops before it is completed; recording a payment settles the follow-up of the invoice it
generates, not of the one that was open.  Of the stock code: receive-all after a partial receipt sets the line to the remainder (`db.ts:3472`); a receipt into a branch is reversed from the row without a branch (`db.ts:3433`); two
reversals that overlap take the goods away twice; a quantity lowered and raised again is stocked twice (`db.ts:3371`); a transfer of some units moves every serial number in stock; a stock take writes a level it counted before other sales.

## Abstractions and bounds

Orders and stock.  Lines of one product are one line and every product has its `stock_levels` rows.  Orders carry no discount; credits are
`CheckoutCredits`.  Movements are ordered by the lock order of their transactions, although the code compares `NOW()`, the start of the transaction.
M-Pesa is configured (the simulated checkouts of a shop without it are left out), and a callback that succeeds carries its amount.
A till sale without a phone number is a push that fails.  The job's runs do not overlap: they are 5 minutes apart (`index.ts:8871`), and an order's 15 minutes are `aged`.  A database error is a restart or no step.
The read that `POST .../refunds` does before its transaction is part of it.  Serial numbers, invoice numbers, warranties, notifications and audit rows of the same handlers are left out.

Credits.  A coupon is worth a fixed amount of a subtotal, which a percentage of that subtotal is too.  Edits of `max_uses` and balances and deletions are left out,
and so are loyalty points: no code calls `earnLoyaltyPoints`.

Webhooks.  A claim token is random, so it is named by the request that drew it.  Attachments are left out: a failed download is not an error.  Writing the conversation and
mirroring the message is one write.  `MaxFaults` bounds errors, restarts and workers that outlive their lease.

Queue.  One process, so one `drainLock`.  A delivery is due or not; `max_attempts` is the same for all.  Preferences and targets are resolved
before the model starts: a delivery is (event, channel, recipient).  A row that is given up keeps its due date in the code; nothing reads it.

Financing.  Amounts are shillings of a plan with flat charges; percentages, dates, documents, reminders and configuration are left out, and an instalment falls overdue when the job
says so.  One application; a payment is an M-Pesa push or one taken at the counter, with a receipt typed in or not.  `MaxReversals` bounds reversals, `Staff` the requests at a time.
A reversal writes all its instalments in one step; one that has none to write shares nothing of the agreement, as in the code.

Stock.  One product, purchase orders of one line, no serial numbers.  Stock comes only from receipts (sales are in `OrderStore`).  Bounds: transfers and receipts of at most `MaxQuantity`; new receipts only while fewer than
`MaxReceived` units were bought; one recall or deletion at a time, because two that overlap take the goods away twice (see above).  A transaction's writes appear at its COMMIT: what others may see of them earlier
is hidden by the locks, and `ReadReceived`, which takes none, reads what was committed.

Billing.  One client, one control-plane process.  Amounts are left out: a payment pays an invoice, and the callback's check of the amount is the result `mismatch`.  The period is the same for all invoices, and a next date typed in with a recorded payment
is left out.  The hosting service and the flag in the client's shop are one variable, `store` (open, closed, paused).  A suspension sets the flag and asks the host to pause and is content with
one of the two; a resumption asks the host and then the shop, which may not have started yet.  A failure of either is one of the bounded errors.  `MaxDay`, `MaxGranted` and `MaxFaults` bound days, extensions and errors.  An UPDATE that fails while a push is saved
leaves the attempt as any other error does; that it is done and its acknowledgement lost, after which `initiation_unknown` is written over an attempt its callback may have moved on (`index.ts:2109`), is left out.

## What is proved

Every safety invariant and action property that a passing run checks is also a theorem, for every value of the constants that satisfies the named assumptions of the modules
(`BranchAssumption`, `QtyAssumption`, ..., `PayloadAssumption`, `QueueAssumption`, `FinancingAssumption`, `StockAssumption`, `BillingAssumption`).  Sets of orders, payments, requests and the like need not be
finite: at any time only finitely many of them were used, and where a sum or a count needs that, the invariant says so.  A theorem that holds under a further condition states it as an `ASSUME` of its own;
these conditions are listed at the end of this section, each with the behaviour that makes it necessary.

**Orders** (`OrderProofs`)

* All endpoints.  `TypeCorrect`: every table and request stays well typed and no stock column goes below zero.  Each transaction of `OrderStore` has a lemma; the
  inductive invariant adds the shape of a request at each step to `TypeOK`, because what a request writes was read several steps earlier.
  `SecondCancelMovesNothing`: whatever moves stock leaves a trace in the row of the order it moves it for (`Tidy`), so a cancelled order whose row stays as it was is not restocked.
  `HoldsAreSeparate`: between two holds in a log lies a sale or a release (`Separate`); what is appended depends on the last hold.  `ReceiptsArePaid`: `ReceiptInv` follows a payment from the customer's
  answer through the callback, the row and the copies that polls and screens read, which may write a receipt back late but never make one up.
* Checkout alone, `Ops \subseteq {"storefront", "pos"}`.  `CheckoutInvariant`, `CheckoutPaidSoldOnce`, `CheckoutKeepsPromise`: the statuses and the movements
  of an order match (`RowInv`), requests know where their order is (`RequestInv`), and one request serves an order (`OneServer`).  `PaidSoldOnce` alone is not
  inductive: it needs to know that a payable order holds its goods, and that needs `OneServer`, because a till's order is briefly pending before its status is set.  Every step is one of
  three kinds (`ServerWrites`, `OthersWrite`, `RequestMoves`); `StageUpdate` turns its effect on `Stage` into a step or a stutter of `StockPromise`.
  `ReservedIsHeld` adds the counter to that invariant (`BookedInv`): it is the sum over the orders with an open hold, of which there are finitely many, and each step adds or removes one of them.
  `OneRowAgrees`: with one row of stock, the two ledgers move by the same amount in each transaction.

**Credits** (`CreditsProofs`): `CreditsTyped`, `CouponsWithinLimit`, `RedemptionsAsShown`, `BalancesAreLedgers` from one invariant.  A request at the counting step stands for an order that carries the coupon and is not counted yet, so
`used_count` and these requests together never outnumber the orders; a card's balance and what the orders that name it redeemed add up to its value, and a debit changes one term of that sum.

**Webhooks** (`WebhookProofs`): `TypeCorrect`, `ProcessedStaysProcessed`, `AcknowledgedIsProcessed`, `ProcessedEventsAreDone`, `EveryRepeatIsARetry`.  `AckedIsProcessed` needs
`SeenIsProcessed`, that a delivery which has nothing to report so far has seen every earlier event processed; `ProcessedIsDone` needs that a worker has
made every write behind its step; `RepeatsAreRetries` needs that the copies of a write and the workers who have it still ahead never outnumber the claims (`ClaimInv`).

**Queue** (`QueueProofs`): `TypeCorrect`, `SentReachedRecipient`, `SettledStaysSettled`, `CopiesAccounted`.  The lock leaves one drain at work (`OneDrain`); its rows
stay open with the attempts it read (`DrainInv`), since only a drain settles a row.

**Financing** (`FinancingProofs`)

* `CancelledIsFinal`, an action property of every handler and callback; and `ReceiptsCountOnce`, whose invariant (`Inv`) is that no two rows hold one receipt, whatever their
  status, and that a request about to insert a row holds an amount and a receipt of the right kind.
* `SchedulesTyped`, `PaidIsCovered`, for any number of staff.  `LedgerInv` says what a transaction between its writes and its commit may rely on (`Holds`): the rows it locked still show what it read, two transactions hold different rows and
  different payments (`LocksApart`), and what an instalment shows is within what the payments that count allocated to it (`WithinPool`).  That a reversal floors at zero, and takes out its own allocation only, is what keeps the last of these.
* `EveryShillingAccounted`, if nothing is reversed: `WaterfallTakes` shows that a waterfall takes the whole amount or all that is due, so what a payment leaves over is the new credit (`AccountInv`).
* `ClosedHasNothingLeft` (`ClosedInv`): what a transaction is about to write is covered, and a waiver computed its rows from a schedule that has at least what it read.
* `TotalsTrail`, `OwnersHaveSettled` (`TotalsInv`): totals are those of the rows the transaction summed, and the schedule around its own rows has only grown since (`OthersGrow`); so they lag, and a balance of zero was settled.

**Branch stock** (`StockProofs`): `StockNeverNegative`, `ReceiptsStocked`.  The inductive invariant says which locks a transaction holds at each of its steps, and what it read under them still holds: the
source has enough until the transfer commits, and the difference a receipt will add is the quantity it sets less the quantity on the line.  `BranchesKeepLedger` adds that a transfer which is locked is pending (`LedgerInv`), so the
commit moves its quantity from one sum of completed transfers to the other once, and `DecisionsAreFinal` follows from the same: who decides a transfer finds it pending, up to his commit.

**Billing** (`BillingProofs`)

* `WarningsPrecede`: the invariant `NoticeInv` ties the rows a sweep copied to the follow-ups they were copied from.  A copy that was warned tells of the notice that is still the last one, since
  a notice is only sent for a row that is being warned; so the day of suspension the sweep compares lies a grace period after it, and extensions only move it further.
* `FollowUpsEndTruly`: an invoice that was paid or deleted stays so (`InvoicesStay`), and whoever is about to settle a follow-up was told first (`RequestsTold`, `SweepTold`): a request at
  a step behind the payment holds a paid invoice, one that cancels a deleted one, and the sweep reconciles only what it saw paid.  A row that is followed up belongs to an invoice that was generated, so the sweep's last case, neither open nor paid, is a deletion.
* `RowsTyped`, `CompletionsArePaid`: requests and the sweep have their attempts to themselves (`Standing`), although callbacks rebind, claim and fail them, and a claimed attempt's invoice is paid before the attempt is completed.
* `NoTimeIsFree`: `FreeTimeInv` bounds every expiry that is written or may still be written by somebody who computed it, and leaves room for the paid invoices the sweep has yet to record; `StandingInv` bounds what requests may still grant.

Sums and counts.  The provers cannot instantiate the library's induction theorems, which take an operator.  `SumFacts` goes another way: `SumFunctionOnSet` folds over a set in an order of `CHOOSE`'s, and that adding an element adds its value is
shown by taking a smallest set for which it would not (`WFMin` over the cardinalities).  `WaterfallTakes` is proved by a least counterexample too.

Conditions.  They are not assumptions about the shop; where they fail, the code fails the property, and TLC shows how (the table above).

| Theorem | Condition | Without it |
|---|---|---|
| `CheckoutInvariant`, `CheckoutPaidSoldOnce`, `CheckoutKeepsPromise`, `ReservedIsHeld`, `OneRowAgrees` | storefront and till checkout only | edits, cancellations and admin statuses restock, hold and release on other terms |
| `OneRowAgrees` | one row of stock that starts equal to `stock_on_hand` | a till sells another branch's goods (`BranchSalesCounted`) |
| `EveryShillingAccounted` | nothing is reversed | a reversal leaves a credit that was spent (`PaidIsReceived`) |
| `ClosedHasNothingLeft` | one staff request at a time, or no waivers, or no reversals | a waiver closes an instalment from a schedule that a reversal lowers |
| `TotalsTrail`, `OwnersHaveSettled` | one staff request at a time, or neither waivers nor reversals | two transactions each sum the other's rows as they were |

Only model-checked: liveness (`HoldsSettle`, `EventuallyAcked`, `EventuallySettled`, `PaidIsRecorded`, `RequestsEnd`), which needs fairness and `ENABLED`; and the refuted statements above, which TLC's behaviours settle.

## Not modelled

`PROJECT.json` lists every component with its status.

* Serial numbers, invoice numbers, warranties: columns and rows that follow the transitions modelled here (sale, receipt, cancellation) by one more statement of the same transaction.
* Stock takes and manual levels: an absolute overwrite after an unlocked read.  They keep no property of the ledgers, which is said above.
* Repairs: a table of allowed transitions, checked against a row read before its UPDATE; parts and costs are single rows.
* Sign-in, sessions, permissions, features, branch access: decisions without a history; the repository tests them entry by entry.
* WhatsApp consent: upserts in the order `WebhookLedger` delivers them.  Dispatch of one event to several recipients, and two server processes with a `drainLock` each, are not in `NotificationQueue`.
* Provisioning: a sequence of calls to hosting services, with no state here but the last step reached.
* Page rendering, PDF, uploads, encryption, reports, e-mail transports, the front end: I/O, formatting and queries, with no behaviour that depends on the order of events.
