-------------------------- MODULE NotificationQueue --------------------------
(***************************************************************************)
(* The durable outbound queue of server/notification-service.ts over       *)
(* notification_deliveries: a business event enrols one row per channel    *)
(* and recipient; drains, started by the timer or kicked by an enrolment,  *)
(* send what is due and settle each row.                                   *)
(*                                                                         *)
(* All drains run in one process and share drainLock.  A step is one       *)
(* statement of the database or one call of a provider.  Unless Honest, a  *)
(* provider may report an error for a message it did send.                 *)
(* next_attempt_at is due or not; every row has MaxAttempts.               *)
(***************************************************************************)
EXTENDS Naturals, FiniteSets

CONSTANTS Deliveries,   \* (event_id, channel, recipient)
          Drains,       \* calls of drainNotificationQueueOnce at a time
          MaxAttempts,
          Limit,        \* rows a drain lists
          NoDelivery,
          Honest,       \* whether an error of the provider means nothing was sent
          MaxFaults     \* bound on database errors and restarts

ASSUME QueueAssumption == /\ MaxAttempts \in Nat \ {0}
                          /\ Limit \in Nat \ {0}
                          /\ MaxFaults \in Nat
                          /\ NoDelivery \notin Deliveries
                          /\ Honest \in BOOLEAN

VARIABLES row,       \* notification_deliveries
          sentLog,   \* deliveries with a 'sent' row in notification_log
          inbox,     \* how often the recipient got the message
          unsettled, \* how many sends of a row were never settled
          lock,      \* drainLock
          drain,     \* the drains under way
          faults

vars == <<row, sentLog, inbox, unsettled, lock, drain, faults>>

Row == [status : {"absent", "pending", "failed", "sent", "dead"},
        attempts : 0..MaxAttempts, due : BOOLEAN]
Pc == {"idle", "next", "send", "settle", "log", "fail"}
Drain == [pc : Pc, batch : SUBSET Deliveries, cur : Deliveries \cup {NoDelivery},
          attempts : 0..MaxAttempts,    \* row.attempts as it was listed
          giveUp : BOOLEAN,             \* blocked: a retry cannot help
          caught : BOOLEAN]             \* in the catch of processPendingDelivery

TypeOK == /\ row \in [Deliveries -> Row]
          /\ sentLog \in SUBSET Deliveries
          /\ inbox \in [Deliveries -> Nat]
          /\ unsettled \in [Deliveries -> Nat]
          /\ lock \in BOOLEAN
          /\ drain \in [Drains -> Drain]
          /\ faults \in 0..MaxFaults

Working(pc, batch, d, attempts) ==
  [pc |-> pc, batch |-> batch, cur |-> d, attempts |-> attempts,
   giveUp |-> FALSE, caught |-> FALSE]
Idle == Working("idle", {}, NoDelivery, 0)

Init == /\ row = [d \in Deliveries |-> [status |-> "absent", attempts |-> 0, due |-> FALSE]]
        /\ sentLog = {}
        /\ inbox = [d \in Deliveries |-> 0]
        /\ unsettled = [d \in Deliveries |-> 0]
        /\ lock = FALSE
        /\ drain = [w \in Drains |-> Idle]
        /\ faults = 0

At(w, pc) == drain[w].pc = pc
Goto(w, pc) == drain' = [drain EXCEPT ![w].pc = pc]

-----------------------------------------------------------------------------
(* enrollNotification and enqueueOrderInvoiceDelivery: the unique row decides *)
(* whether an event dispatched again is new.  The sent log enrollNotification *)
(* looks at first only spares it the insert.                                  *)
EnrolAgain(d) == TRUE                                                          \* mutant
NotEnrolled(d) == row[d].status = "absent"

Enroll(d) ==
  /\ NotEnrolled(d)
  /\ row' = [row EXCEPT ![d] = [status |-> "pending", attempts |-> 0, due |-> TRUE]]
  /\ UNCHANGED <<sentLog, inbox, unsettled, lock, drain, faults>>

(* listPendingDeliveries *)
Pending(d) == row[d].status \in {"pending", "failed"} /\ row[d].due
PendingRows == {d \in Deliveries : Pending(d)}

IgnoresLock == FALSE                                                           \* mutant
Locked == lock

StartDrain(w) ==
  /\ At(w, "idle") /\ ~Locked
  /\ PendingRows # {}
  /\ lock' = TRUE
  /\ \E batch \in SUBSET PendingRows :
       /\ Cardinality(batch) = IF Cardinality(PendingRows) <= Limit
                                 THEN Cardinality(PendingRows) ELSE Limit
       /\ drain' = [drain EXCEPT ![w] = Working("next", batch, NoDelivery, 0)]
  /\ UNCHANGED <<row, sentLog, inbox, unsettled, faults>>

(* Only drains write attempts, so what was listed is what the row holds now. *)
TakeRow(w) ==
  /\ At(w, "next")
  /\ \E d \in drain[w].batch :
       drain' = [drain EXCEPT ![w] = Working("send", drain[w].batch \ {d}, d,
                                             row[d].attempts)]
  /\ UNCHANGED <<row, sentLog, inbox, unsettled, lock, faults>>

Finish(w) ==
  /\ At(w, "next") /\ drain[w].batch = {}
  /\ lock' = FALSE
  /\ drain' = [drain EXCEPT ![w] = Idle]
  /\ UNCHANGED <<row, sentLog, inbox, unsettled, faults>>

-----------------------------------------------------------------------------
(* processPendingDelivery: the provider is called first, the row is settled  *)
(* after it.                                                                 *)
Delivers(w) == inbox' = [inbox EXCEPT ![drain[w].cur] = @ + 1]

Send(w) ==
  /\ At(w, "send")
  /\ \/ Delivers(w) /\ Goto(w, "settle")
     \/ /\ (~Honest /\ Delivers(w)) \/ UNCHANGED inbox
        /\ \E caught \in BOOLEAN :    \* an answer, or an exception
             drain' = [drain EXCEPT ![w].pc = "fail", ![w].caught = caught]
     \/ /\ drain' = [drain EXCEPT ![w].pc = "fail", ![w].giveUp = TRUE]   \* blocked
        /\ UNCHANGED inbox
  /\ UNCHANGED <<row, sentLog, unsettled, lock, faults>>

(* settleDelivery *)
Settle(w) ==
  LET d == drain[w].cur IN
  /\ At(w, "settle")
  /\ row' = [row EXCEPT ![d] = [status |-> "sent", attempts |-> row[d].attempts + 1,
                                 due |-> row[d].due]]
  /\ Goto(w, "log")
  /\ UNCHANGED <<sentLog, inbox, unsettled, lock, faults>>

LogSent(w) ==
  /\ At(w, "log")
  /\ sentLog' = sentLog \cup {drain[w].cur}
  /\ Goto(w, "next")
  /\ UNCHANGED <<row, inbox, unsettled, lock, faults>>

(* failDelivery and markDeliveryAttempt *)
Terminal(w) == drain[w].giveUp \/ drain[w].attempts + 1 >= MaxAttempts

CountsInMemory(w) == [status |-> IF Terminal(w) THEN "dead" ELSE "failed",     \* mutant
                      attempts |-> drain[w].attempts, due |-> FALSE]
Marked(w) == [status |-> IF Terminal(w) THEN "dead" ELSE "failed",
              attempts |-> row[drain[w].cur].attempts + 1, due |-> FALSE]

FailDelivery(w) ==
  /\ At(w, "fail")
  /\ row' = [row EXCEPT ![drain[w].cur] = Marked(w)]
  /\ Goto(w, "next")
  /\ UNCHANGED <<sentLog, inbox, unsettled, lock, faults>>

BecomeDue(d) ==
  /\ row[d].status = "failed" /\ ~row[d].due
  /\ row' = [row EXCEPT ![d].due = TRUE]
  /\ UNCHANGED <<sentLog, inbox, unsettled, lock, drain, faults>>

-----------------------------------------------------------------------------
(* Faults *)
Fault == /\ faults < MaxFaults
         /\ faults' = faults + 1

(* What throws inside the try is a failed attempt for the catch, the          *)
(* settlement of a message that was sent and a verdict to give up included.   *)
TryThrows(w) ==
  /\ At(w, "settle") \/ (At(w, "fail") /\ ~drain[w].caught)
  /\ Fault
  /\ drain' = [drain EXCEPT ![w].pc = "fail", ![w].giveUp = FALSE, ![w].caught = TRUE]
  /\ UNCHANGED <<row, sentLog, inbox, unsettled, lock>>

(* markDeliveryAttempt throws in the catch: the drain ends, and its batch. *)
CatchThrows(w) ==
  /\ At(w, "fail") /\ drain[w].caught /\ Fault
  /\ drain' = [drain EXCEPT ![w] = Idle]
  /\ lock' = FALSE
  /\ unsettled' = [unsettled EXCEPT ![drain[w].cur] = @ + 1]
  /\ UNCHANGED <<row, sentLog, inbox>>

Crash ==
  /\ Fault
  /\ drain' = [w \in Drains |-> Idle]
  /\ lock' = FALSE
  /\ unsettled' = [d \in Deliveries |->
                     IF \E w \in Drains : drain[w].cur = d /\ drain[w].pc \in {"settle", "fail"}
                       THEN unsettled[d] + 1 ELSE unsettled[d]]
  /\ UNCHANGED <<row, sentLog, inbox>>

-----------------------------------------------------------------------------
Work(w) == TakeRow(w) \/ Finish(w) \/ Send(w) \/ Settle(w) \/ LogSent(w) \/ FailDelivery(w)

Next == \/ \E d \in Deliveries : Enroll(d) \/ BecomeDue(d)
        \/ \E w \in Drains : StartDrain(w) \/ Work(w) \/ TryThrows(w) \/ CatchThrows(w)
        \/ Crash

Spec == Init /\ [][Next]_vars

(* The timer starts a drain every 15 seconds, a drain runs on, and backoff   *)
(* runs out.                                                                 *)
Fairness == /\ \A w \in Drains : WF_vars(Work(w))
            /\ WF_vars(\E w \in Drains : StartDrain(w))
            /\ \A d \in Deliveries : WF_vars(BecomeDue(d))

FairSpec == Spec /\ Fairness

-----------------------------------------------------------------------------
(* The lock and the settlements: every copy of a message that reaches the     *)
(* recipient belongs to one attempt, to a send that a fault left unsettled,   *)
(* or to the send under way.                                                  *)
InFlight(d) == \E w \in Drains : drain[w].cur = d /\ drain[w].pc \in {"settle", "fail"}
CopiesAreAttempts ==
  \A d \in Deliveries :
    inbox[d] <= row[d].attempts + unsettled[d] + (IF InFlight(d) THEN 1 ELSE 0)

(* What the log or the row calls sent did reach its recipient, and the log,   *)
(* which the next dispatch trusts, never knows more than the row.             *)
SentWasDelivered ==
  \A d \in Deliveries : /\ row[d].status = "sent" => inbox[d] > 0
                        /\ d \in sentLog => row[d].status = "sent"

(* A settled row stays settled: no overlapping drain or later dispatch        *)
(* reopens it.                                                                *)
SettledIsFinal ==
  [][\A d \in Deliveries : row[d].status \in {"sent", "dead"} => row'[d] = row[d]]_vars

(* "Retries never duplicate messages."                                        *)
NeverDuplicated == \A d \in Deliveries : inbox[d] <= 1

(* Nothing is retried for ever: every enrolled delivery is sent or given up.  *)
EventuallySettled ==
  \A d \in Deliveries : row[d].status # "absent" ~> row[d].status \in {"sent", "dead"}
=============================================================================
