---------------------------- MODULE WebhookLedger ----------------------------
(***************************************************************************)
(* The durable ledger of inbound WhatsApp webhooks (webhook_events in      *)
(* server/integrations-store.ts) and handleWhatsAppWebhook of              *)
(* server/whatsapp.ts, which claims every event of a payload before it     *)
(* works on it.                                                            *)
(*                                                                         *)
(* A request serves one delivery of a payload, event after event; each     *)
(* step is one statement of the database.  Meta repeats a payload as often *)
(* as it likes, and has to until it is acknowledged.  A claim token is     *)
(* random and held by one request at a time, so it is named by the request *)
(* that drew it.  Attachments of messages are left out.                    *)
(***************************************************************************)
EXTENDS Naturals, Sequences

CONSTANTS Events,        \* message:<id> and status:<id>:<value>
          StatusEvents,  \* the delivery statuses among them
          StopEvents,    \* the messages that are an opt-out keyword
          Bodies,        \* the payloads Meta posts
          Payload,       \* the events of each, in order
          Requests,      \* bound on deliveries served at a time
          Nobody,
          MaxFaults      \* bound on database errors, restarts and slow workers

ASSUME EventAssumption == /\ StatusEvents \subseteq Events
                          /\ StopEvents \subseteq Events \ StatusEvents
ASSUME PayloadAssumption == Payload \in [Bodies -> Seq(Events)]
ASSUME OwnerAssumption == Nobody \notin Requests /\ MaxFaults \in Nat

VARIABLES ledger,   \* webhook_events
          copies,   \* how often each write of an event was made
          lost,     \* how many claims of an event ended without its completion
          req,      \* the deliveries being served
          acked,    \* payloads answered with 200
          faults    \* database errors, restarts and slow workers so far

vars == <<ledger, copies, lost, req, acked, faults>>

(* A row: its claim_token, and whether lease_expires_at lies ahead.  Only   *)
(* an event that is being processed has either.                            *)
Row == {row \in [status : {"absent", "processing", "processed", "failed"},
                 owner  : Requests \cup {Nobody},
                 live   : BOOLEAN] :
          /\ row.status = "processing" <=> row.owner # Nobody
          /\ row.live => row.status = "processing"}

(* What processing an event writes: the message log, the opt-out, and the  *)
(* conversation with its mirrored message.                                 *)
Write == {"log", "optout", "thread"}
Pc == Write \cup {"idle", "claim", "lost", "complete", "fail", "respond"}

Request == [pc : Pc, body : Bodies, i : Nat \ {0}, ok : BOOLEAN]

TypeOK == /\ ledger \in [Events -> Row]
          /\ copies \in [Events -> [Write -> Nat]]
          /\ lost \in [Events -> Nat]
          /\ req \in [Requests -> Request]
          /\ acked \in SUBSET Bodies
          /\ faults \in 0..MaxFaults

Init == /\ ledger = [e \in Events |-> [status |-> "absent", owner |-> Nobody, live |-> FALSE]]
        /\ copies = [e \in Events |-> [w \in Write |-> 0]]
        /\ lost = [e \in Events |-> 0]
        /\ req \in [Requests -> [pc : {"idle"}, body : Bodies, i : {1}, ok : {TRUE}]]
        /\ acked = {}
        /\ faults = 0

-----------------------------------------------------------------------------
Event(r) == Payload[req[r].body][req[r].i]
At(r, pc) == req[r].pc = pc
Goto(r, pc) == req' = [req EXCEPT ![r].pc = pc]
Working(r) == req[r].pc \in Write \cup {"complete", "fail"}

(* The step for position i of body b: the loop's next event, or the answer. *)
StepAt(b, i) == IF i <= Len(Payload[b]) THEN "claim" ELSE "respond"
NextEvent(r, ok) ==
  LET b == req[r].body  i == req[r].i + 1 IN
  req' = [req EXCEPT ![r] = [pc |-> StepAt(b, i), body |-> b, i |-> i,
                             ok |-> req[r].ok /\ ok]]

WritesOf(e) == IF e \in StatusEvents THEN {"log"}
               ELSE IF e \in StopEvents THEN Write ELSE {"log", "thread"}
Following(e, w) == IF w = "log" /\ "optout" \in WritesOf(e) THEN "optout"
                   ELSE IF w # "thread" /\ "thread" \in WritesOf(e) THEN "thread"
                   ELSE "complete"

-----------------------------------------------------------------------------
Deliver(r, b) ==
  /\ At(r, "idle")
  /\ req' = [req EXCEPT ![r] = [pc |-> StepAt(b, 1), body |-> b, i |-> 1, ok |-> TRUE]]
  /\ UNCHANGED <<ledger, copies, lost, acked, faults>>

(* claimWebhookEvent: the row is inserted, or taken over when it is not     *)
(* processed and no lease protects it.                                      *)
ClaimableWhenNew(e) == ledger[e].status = "absent"                             \* mutant
ClaimableAnyTime(e) == ledger[e].status # "processed"                          \* mutant
Claimable(e) == ledger[e].status # "processed" /\ ~ledger[e].live

Claim(r) ==
  LET e == Event(r) IN
  /\ At(r, "claim") /\ Claimable(e)
  /\ ledger' = [ledger EXCEPT ![e] = [status |-> "processing", owner |-> r, live |-> TRUE]]
  /\ Goto(r, "log")
  /\ UNCHANGED <<copies, lost, acked, faults>>

ClaimLost(r) ==
  /\ At(r, "claim") /\ ~Claimable(Event(r))
  /\ Goto(r, "lost")
  /\ UNCHANGED <<ledger, copies, lost, acked, faults>>

(* The row read again: a duplicate is skipped, anything else is deferred.   *)
IgnoresDeferral(r) == TRUE                                                     \* mutant
IsDuplicate(r) == ledger[Event(r)].status = "processed"

ReadLost(r) ==
  /\ At(r, "lost")
  /\ NextEvent(r, IsDuplicate(r))
  /\ UNCHANGED <<ledger, copies, lost, acked, faults>>

(* processInboundMessage, or the log row of a delivery status. *)
DoWrite(r) ==
  LET e == Event(r)  w == req[r].pc IN
  /\ w \in Write
  /\ copies' = [copies EXCEPT ![e][w] = @ + 1]
  /\ Goto(r, Following(e, w))
  /\ UNCHANGED <<ledger, lost, acked, faults>>

(* completeWebhookClaim and failWebhookClaim are fenced by the token: one   *)
(* whose claim was taken over changes nothing and does not report success.  *)
Unfenced(r) == TRUE                                                            \* mutant
Owns(r) == ledger[Event(r)].owner = r

Settled(s) == [status |-> s, owner |-> Nobody, live |-> FALSE]

Complete(r) ==
  /\ At(r, "complete")
  /\ ledger' = IF Owns(r) THEN [ledger EXCEPT ![Event(r)] = Settled("processed")] ELSE ledger
  /\ NextEvent(r, Owns(r))
  /\ UNCHANGED <<copies, lost, acked, faults>>

Fail(r) ==
  /\ At(r, "fail")
  /\ IF Owns(r) THEN /\ ledger' = [ledger EXCEPT ![Event(r)] = Settled("failed")]
                     /\ lost' = [lost EXCEPT ![Event(r)] = @ + 1]
                ELSE UNCHANGED <<ledger, lost>>
  /\ NextEvent(r, FALSE)
  /\ UNCHANGED <<copies, acked, faults>>

(* whatsAppWebhookHttpStatus: 200 unless an event failed or was deferred. *)
Respond(r) ==
  /\ At(r, "respond")
  /\ acked' = IF req[r].ok THEN acked \cup {req[r].body} ELSE acked
  /\ Goto(r, "idle")
  /\ UNCHANGED <<ledger, copies, lost, faults>>

-----------------------------------------------------------------------------
(* Faults *)

Fault == /\ faults < MaxFaults
         /\ faults' = faults + 1

(* A write, or the completion, throws and is caught. *)
SwallowsError(r) == Goto(r, "complete")                                        \* mutant
Caught(r) == Goto(r, "fail")

Throw(r) ==
  /\ req[r].pc \in Write \cup {"complete"}
  /\ Fault
  /\ Caught(r)
  /\ UNCHANGED <<ledger, copies, lost, acked>>

(* The claim or failWebhookClaim throws: nobody catches it but the route,   *)
(* which answers 500; the rest of the payload is not looked at.             *)
Abort(r) ==
  /\ req[r].pc \in {"claim", "lost", "fail"}
  /\ Fault
  /\ Goto(r, "idle")
  /\ UNCHANGED <<ledger, copies, lost, acked>>

Crash ==
  /\ Fault
  /\ req' = [r \in Requests |-> [req[r] EXCEPT !.pc = "idle"]]
  /\ UNCHANGED <<ledger, copies, lost, acked>>

(* A lease runs out.  Under a worker that is still busy that is a fault.    *)
Orphaned(e) == \A r \in Requests : Working(r) => Event(r) # e
Lapse(e) ==
  /\ ledger[e].live
  /\ ledger' = [ledger EXCEPT ![e].live = FALSE]
  /\ lost' = [lost EXCEPT ![e] = @ + 1]
  /\ UNCHANGED <<copies, req, acked>>
  /\ IF Orphaned(e) THEN UNCHANGED faults ELSE Fault

-----------------------------------------------------------------------------
Continue(r) == \/ Claim(r) \/ ClaimLost(r) \/ ReadLost(r) \/ DoWrite(r)
               \/ Complete(r) \/ Fail(r) \/ Respond(r)

Next == \/ \E r \in Requests : \/ Continue(r) \/ Throw(r) \/ Abort(r)
                               \/ \E b \in Bodies : Deliver(r, b)
        \/ Crash
        \/ \E e \in Events : Lapse(e)

Spec == Init /\ [][Next]_vars

Redeliver(b) == b \notin acked /\ \E r \in Requests : Deliver(r, b)

(* Requests run on, leases run out, and Meta repeats what is not acknowledged *)
(* (strongly fair only because the number of Requests is ours).              *)
Fairness == /\ \A r \in Requests : WF_vars(Continue(r))
            /\ \A e \in Events : WF_vars(Orphaned(e) /\ Lapse(e))
            /\ \A b \in Bodies : SF_vars(Redeliver(b))

FairSpec == Spec /\ Fairness

-----------------------------------------------------------------------------
EventsOf(b) == {Payload[b][i] : i \in 1..Len(Payload[b])}

(* An acknowledged payload was processed to the last event: whoever deferred, *)
(* failed or lost its lease on the way did not answer 200.                    *)
AckedIsProcessed == \A b \in acked : \A e \in EventsOf(b) : ledger[e].status = "processed"

(* No event is lost: one that counts as processed has made all its writes.    *)
ProcessedIsDone ==
  \A e \in Events : ledger[e].status = "processed" => \A w \in WritesOf(e) : copies[e][w] > 0

(* Redelivery alone repeats nothing: a write is made once, and once more for  *)
(* every claim that failed or ran out of its lease.                           *)
RepeatsAreRetries == \A e \in Events, w \in Write : copies[e][w] <= 1 + lost[e]

(* Processed is final: a late worker can neither fail nor reopen the event.   *)
ProcessedIsFinal == [][\A e \in Events : ledger[e].status = "processed"
                                            => ledger'[e] = ledger[e]]_vars

(* "A delivery status is processed exactly once": it is logged at most once.  *)
StatusLoggedOnce == \A e \in StatusEvents : copies[e]["log"] <= 1

(* As long as Meta repeats it, every payload is acknowledged in the end.      *)
EventuallyAcked == \A b \in Bodies : <>(b \in acked)
=============================================================================
