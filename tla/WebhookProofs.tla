---------------------------- MODULE WebhookProofs ----------------------------
(***************************************************************************)
(* Proofs about WebhookLedger, for any payloads, any number of deliveries   *)
(* and any number of faults.                                                *)
(*                                                                          *)
(* TypeOK alone is not inductive: an event is the element of a payload at   *)
(* the position of a request, so requests have to stay inside their         *)
(* payloads.  An acknowledgement is right because a request that reports    *)
(* success has only events behind it that are processed, and processed is   *)
(* final.  A write is repeated only when a claim was lost: the copies there *)
(* are and the writes still ahead of somebody never outnumber the claims.   *)
(***************************************************************************)
EXTENDS WebhookLedger, FiniteSetTheorems, TLAPS

Busy == Pc \ {"idle", "respond"}

(* A request at work stands at an event of its payload; one that is about   *)
(* to answer stands past the last.                                          *)
InPayload ==
  \A r \in Requests :
    /\ req[r].pc \in Busy => req[r].i \in 1..Len(Payload[req[r].body])
    /\ req[r].pc = "respond" => req[r].i = Len(Payload[req[r].body]) + 1

TypeInv == TypeOK /\ InPayload

(* While a request reports success, the events behind it are processed.     *)
Clean(r) == req[r].pc # "idle" /\ req[r].ok
SeenIsProcessed ==
  \A r \in Requests : Clean(r) =>
    \A k \in 1..(req[r].i - 1) : ledger[Payload[req[r].body][k]].status = "processed"

(* The writes a request has behind it were made.                            *)
Before(e, pc) == CASE pc = "optout" -> {"log"}
                   [] pc = "thread" -> WritesOf(e) \ {"thread"}
                   [] pc = "complete" -> WritesOf(e)
                   [] OTHER -> {}
MadeBehind ==
  \A r \in Requests : req[r].pc \in Write \cup {"complete"} =>
    \A w \in Before(Event(r), req[r].pc) : copies[Event(r)][w] > 0

-----------------------------------------------------------------------------
(* Facts about single steps *)

LEMMA EventIsEvent ==
  ASSUME TypeInv, NEW r \in Requests, req[r].pc \in Busy
  PROVE  Event(r) \in Events
BY PayloadAssumption DEF TypeInv, TypeOK, InPayload, Event, Request

LEMMA StepAtType ==
  ASSUME NEW b \in Bodies, NEW i \in Nat \ {0}, i <= Len(Payload[b]) + 1
  PROVE  /\ StepAt(b, i) \in Pc
         /\ StepAt(b, i) \in Busy => i \in 1..Len(Payload[b])
         /\ StepAt(b, i) = "respond" => i = Len(Payload[b]) + 1
         /\ StepAt(b, i) \in {"claim", "respond"}
BY PayloadAssumption DEF StepAt, Busy, Pc, Write

(* A step that only moves the request's pc keeps the requests in order.     *)
LEMMA GotoKeeps ==
  ASSUME TypeInv, NEW r \in Requests, NEW pc \in Pc, Goto(r, pc),
         pc \in Busy => req[r].pc \in Busy,
         pc # "respond"
  PROVE  req' \in [Requests -> Request] /\ InPayload'
BY DEF TypeInv, TypeOK, InPayload, Goto, Request

LEMMA NextEventKeeps ==
  ASSUME TypeInv, NEW r \in Requests, NEW ok \in BOOLEAN, NextEvent(r, ok),
         req[r].pc \in Busy
  PROVE  req' \in [Requests -> Request] /\ InPayload'
<1> DEFINE b == req[r].body
           i == req[r].i + 1
<1>1. req[r] \in Request /\ req \in [Requests -> Request]
  BY DEF TypeInv, TypeOK
<1>2. b \in Bodies /\ i \in Nat \ {0} /\ req[r].ok \in BOOLEAN
  BY <1>1 DEF Request
<1>3. i <= Len(Payload[b]) + 1
  BY <1>1, <1>2, PayloadAssumption DEF TypeInv, InPayload, Request
<1>4. req' = [req EXCEPT ![r] = [pc |-> StepAt(b, i), body |-> b, i |-> i,
                                 ok |-> req[r].ok /\ ok]]
  BY DEF NextEvent
<1>5. /\ StepAt(b, i) \in Pc
      /\ StepAt(b, i) \in Busy => i \in 1..Len(Payload[b])
      /\ StepAt(b, i) = "respond" => i = Len(Payload[b]) + 1
  BY <1>2, <1>3, StepAtType
<1> HIDE DEF b, i
<1>6. (req[r].ok /\ ok) \in BOOLEAN
  OBVIOUS
<1>7. req' \in [Requests -> Request]
  BY <1>1, <1>2, <1>4, <1>5, <1>6 DEF Request
<1>8. InPayload'
  BY <1>1, <1>2, <1>4, <1>5 DEF TypeInv, InPayload
<1> QED
  BY <1>7, <1>8

-----------------------------------------------------------------------------
(* The type invariant, with requests inside their payloads, is inductive.   *)

LEMMA InitTypeInv == Init => TypeInv
<1> SUFFICES ASSUME Init PROVE TypeInv
  OBVIOUS
<1>1. ledger \in [Events -> Row]
  BY OwnerAssumption DEF Init, Row
<1>2. req \in [Requests -> Request]
  <2>1. req \in [Requests -> [pc : {"idle"}, body : Bodies, i : {1}, ok : {TRUE}]]
    BY DEF Init
  <2>2. ASSUME NEW r \in Requests
        PROVE  req[r] \in Request
    <3>1. req[r] \in [pc : {"idle"}, body : Bodies, i : {1}, ok : {TRUE}]
      BY <2>1
    <3>2. /\ req[r].body \in Bodies
          /\ req[r] = [pc |-> "idle", body |-> req[r].body, i |-> 1, ok |-> TRUE]
      BY <3>1
    <3>3. "idle" \in Pc /\ 1 \in Nat \ {0} /\ TRUE \in BOOLEAN
      BY DEF Pc
    <3> DEFINE b == req[r].body
    <3>4. b \in Bodies /\ req[r] = [pc |-> "idle", body |-> b, i |-> 1, ok |-> TRUE]
      BY <3>2
    <3> HIDE DEF b
    <3>5. [pc |-> "idle", body |-> b, i |-> 1, ok |-> TRUE] \in Request
      BY <3>3, <3>4 DEF Request
    <3> QED
      BY <3>4, <3>5
  <2> QED
    BY <2>1, <2>2
<1>3. InPayload
  BY DEF Init, InPayload, Busy
<1>4. copies \in [Events -> [Write -> Nat]]
  BY DEF Init
<1>5. lost \in [Events -> Nat] /\ acked \in SUBSET Bodies /\ faults \in 0..MaxFaults
  BY OwnerAssumption DEF Init
<1> QED
  BY <1>1, <1>2, <1>3, <1>4, <1>5 DEF TypeInv, TypeOK

LEMMA RowTypes ==
  /\ \A r \in Requests : [status |-> "processing", owner |-> r, live |-> TRUE] \in Row
  /\ Settled("processed") \in Row /\ Settled("failed") \in Row
  /\ \A row \in Row : [row EXCEPT !.live = FALSE] \in Row
<1>1. \A r \in Requests : [status |-> "processing", owner |-> r, live |-> TRUE] \in Row
  BY OwnerAssumption DEF Row
<1>2. Settled("processed") \in Row /\ Settled("failed") \in Row
  BY OwnerAssumption DEF Row, Settled
<1>3. ASSUME NEW row \in Row
      PROVE  [row EXCEPT !.live = FALSE] \in Row
  <2> DEFINE new == [row EXCEPT !.live = FALSE]
             Fields == [status : {"absent", "processing", "processed", "failed"},
                        owner  : Requests \cup {Nobody},
                        live   : BOOLEAN]
  <2>1. row \in Fields /\ (row.status = "processing" <=> row.owner # Nobody)
    BY DEF Row
  <2>2. new \in Fields
    BY <2>1
  <2>3. new.status = row.status /\ new.owner = row.owner /\ new.live = FALSE
    BY <2>1
  <2> HIDE DEF new
  <2> QED
    BY <2>1, <2>2, <2>3 DEF Row
<1> QED
  BY <1>1, <1>2, <1>3

LEMMA StepKeepsTypeInv ==
  ASSUME TypeInv, Next
  PROVE  TypeInv'
<1>0. TypeOK /\ InPayload
  BY DEF TypeInv
<1>1. ASSUME NEW r \in Requests, NEW b \in Bodies, Deliver(r, b)
      PROVE  TypeInv'
  <2>1. 1 \in Nat \ {0} /\ 1 <= Len(Payload[b]) + 1
    BY PayloadAssumption
  <2>2. /\ StepAt(b, 1) \in Pc
        /\ StepAt(b, 1) \in Busy => 1 \in 1..Len(Payload[b])
        /\ StepAt(b, 1) = "respond" => 1 = Len(Payload[b]) + 1
    BY <2>1, StepAtType
  <2>3. req' = [req EXCEPT ![r] = [pc |-> StepAt(b, 1), body |-> b, i |-> 1, ok |-> TRUE]]
    BY <1>1 DEF Deliver
  <2>4. req' \in [Requests -> Request]
    BY <1>0, <2>1, <2>2, <2>3 DEF TypeOK, Request
  <2>5. InPayload'
    BY <1>0, <2>2, <2>3 DEF TypeOK, InPayload
  <2> QED
    BY <1>0, <1>1, <2>4, <2>5 DEF Deliver, TypeInv, TypeOK
<1>2. ASSUME NEW r \in Requests, Claim(r)
      PROVE  TypeInv'
  <2>1. Event(r) \in Events /\ req[r].pc \in Busy
    BY <1>2, EventIsEvent DEF Claim, At, Busy, Pc
  <2>2. req' \in [Requests -> Request] /\ InPayload'
    BY <1>2, <2>1, GotoKeeps DEF Claim, Pc, Write
  <2>3. ledger' \in [Events -> Row]
    BY <1>0, <1>2, <2>1, RowTypes DEF Claim, TypeOK
  <2> QED
    BY <1>0, <1>2, <2>2, <2>3 DEF Claim, TypeInv, TypeOK
<1>3. ASSUME NEW r \in Requests, ClaimLost(r)
      PROVE  TypeInv'
  <2>1. req[r].pc \in Busy
    BY <1>3 DEF ClaimLost, At, Busy, Pc
  <2>2. req' \in [Requests -> Request] /\ InPayload'
    BY <1>3, <2>1, GotoKeeps DEF ClaimLost, Pc
  <2> QED
    BY <1>0, <1>3, <2>2 DEF ClaimLost, TypeInv, TypeOK
<1>4. ASSUME NEW r \in Requests, ReadLost(r)
      PROVE  TypeInv'
  <2>1. req[r].pc \in Busy
    BY <1>4 DEF ReadLost, At, Busy, Pc
  <2>2. req' \in [Requests -> Request] /\ InPayload'
    BY <1>4, <2>1, NextEventKeeps DEF ReadLost, IsDuplicate
  <2> QED
    BY <1>0, <1>4, <2>2 DEF ReadLost, TypeInv, TypeOK
<1>5. ASSUME NEW r \in Requests, DoWrite(r)
      PROVE  TypeInv'
  <2>1. req[r].pc \in Busy /\ req[r].pc \in Write
    BY <1>5 DEF DoWrite, Busy, Pc, Write
  <2>2. Event(r) \in Events
    BY <2>1, EventIsEvent
  <2>3. Following(Event(r), req[r].pc) \in Pc /\ Following(Event(r), req[r].pc) # "respond"
    BY DEF Following, Pc, Write
  <2>4. req' \in [Requests -> Request] /\ InPayload'
    BY <1>5, <2>1, <2>3, GotoKeeps DEF DoWrite
  <2>5. copies' \in [Events -> [Write -> Nat]]
    BY <1>0, <1>5, <2>1, <2>2 DEF DoWrite, TypeOK
  <2> QED
    BY <1>0, <1>5, <2>4, <2>5 DEF DoWrite, TypeInv, TypeOK
<1>6. ASSUME NEW r \in Requests, Complete(r)
      PROVE  TypeInv'
  <2>1. Event(r) \in Events /\ req[r].pc \in Busy
    BY <1>6, EventIsEvent DEF Complete, At, Busy, Pc
  <2>2. req' \in [Requests -> Request] /\ InPayload'
    BY <1>6, <2>1, NextEventKeeps DEF Complete, Owns
  <2>3. ledger' \in [Events -> Row]
    BY <1>0, <1>6, <2>1, RowTypes DEF Complete, TypeOK
  <2> QED
    BY <1>0, <1>6, <2>2, <2>3 DEF Complete, TypeInv, TypeOK
<1>7. ASSUME NEW r \in Requests, Fail(r)
      PROVE  TypeInv'
  <2>1. Event(r) \in Events /\ req[r].pc \in Busy
    BY <1>7, EventIsEvent DEF Fail, At, Busy, Pc
  <2>2. req' \in [Requests -> Request] /\ InPayload'
    BY <1>7, <2>1, NextEventKeeps DEF Fail
  <2>3. ledger' \in [Events -> Row] /\ lost' \in [Events -> Nat]
    <3>1. CASE Owns(r)
      <4>1. ledger' = [ledger EXCEPT ![Event(r)] = Settled("failed")]
        BY <1>7, <3>1 DEF Fail
      <4>2. lost' = [lost EXCEPT ![Event(r)] = @ + 1]
        BY <1>7, <3>1 DEF Fail
      <4> QED
        BY <1>0, <2>1, <4>1, <4>2, RowTypes DEF TypeOK
    <3>2. CASE ~Owns(r)
      BY <1>0, <1>7, <3>2 DEF Fail, TypeOK
    <3> QED
      BY <3>1, <3>2
  <2> QED
    BY <1>0, <1>7, <2>2, <2>3 DEF Fail, TypeInv, TypeOK
<1>8. ASSUME NEW r \in Requests, Respond(r)
      PROVE  TypeInv'
  <2>1. req' \in [Requests -> Request] /\ InPayload'
    BY <1>8, GotoKeeps DEF Respond, Pc, Busy
  <2>2. acked' \in SUBSET Bodies
    BY <1>0, <1>8 DEF Respond, TypeOK, Request
  <2> QED
    BY <1>0, <1>8, <2>1, <2>2 DEF Respond, TypeInv, TypeOK
<1>9. ASSUME NEW r \in Requests, Throw(r)
      PROVE  TypeInv'
  <2>1. req[r].pc \in Busy
    BY <1>9 DEF Throw, Busy, Pc, Write
  <2>2. req' \in [Requests -> Request] /\ InPayload'
    BY <1>9, <2>1, GotoKeeps DEF Throw, Caught, Pc
  <2> QED
    BY <1>0, <1>9, <2>2, OwnerAssumption DEF Throw, Fault, TypeInv, TypeOK
<1>10. ASSUME NEW r \in Requests, Abort(r)
       PROVE  TypeInv'
  <2>1. req' \in [Requests -> Request] /\ InPayload'
    BY <1>10, GotoKeeps DEF Abort, Pc, Busy
  <2> QED
    BY <1>0, <1>10, <2>1, OwnerAssumption DEF Abort, Fault, TypeInv, TypeOK
<1>11. CASE Crash
  <2>1. req' \in [Requests -> Request]
    BY <1>0, <1>11 DEF Crash, TypeOK, Request, Pc
  <2>2. InPayload'
    BY <1>0, <1>11 DEF Crash, InPayload, TypeOK, Request, Busy
  <2> QED
    BY <1>0, <1>11, <2>1, <2>2, OwnerAssumption DEF Crash, Fault, TypeInv, TypeOK
<1>12. ASSUME NEW e \in Events, Lapse(e)
       PROVE  TypeInv'
  <2>1. ledger' \in [Events -> Row]
    BY <1>0, <1>12, RowTypes DEF Lapse, TypeOK
  <2>2. lost' \in [Events -> Nat] /\ faults' \in 0..MaxFaults
    BY <1>0, <1>12, OwnerAssumption DEF Lapse, Fault, TypeOK
  <2> QED
    BY <1>0, <1>12, <2>1, <2>2 DEF Lapse, TypeInv, TypeOK, InPayload
<1> QED
  BY <1>1, <1>2, <1>3, <1>4, <1>5, <1>6, <1>7, <1>8, <1>9, <1>10, <1>11, <1>12
     DEF Next, Continue

LEMMA TypeInvariance == Spec => []TypeInv
<1>1. ASSUME TypeInv, [Next]_vars
      PROVE  TypeInv'
  <2>1. CASE Next
    BY <1>1, <2>1, StepKeepsTypeInv
  <2>2. CASE UNCHANGED vars
    BY <1>1, <2>2 DEF vars, TypeInv, TypeOK, InPayload
  <2> QED
    BY <1>1, <2>1, <2>2
<1> QED
  BY <1>1, InitTypeInv, PTL DEF Spec

(* Ledger, counters and requests keep their types: in particular, only an   *)
(* event that is being processed has an owner or a lease.                   *)
THEOREM TypeCorrect == Spec => []TypeOK
<1>1. TypeInv => TypeOK
  BY DEF TypeInv
<1> QED
  BY <1>1, TypeInvariance, PTL

-----------------------------------------------------------------------------
(* Processed is final *)

LEMMA StepIsFinal ==
  ASSUME TypeInv, Next, NEW e \in Events, ledger[e].status = "processed"
  PROVE  ledger'[e] = ledger[e]
<1>1. ledger \in [Events -> Row]
  BY DEF TypeInv, TypeOK
<1>2. ledger[e].owner = Nobody /\ ~ledger[e].live
  BY <1>1 DEF Row
<1>3. ASSUME NEW r \in Requests, Claim(r)
      PROVE  ledger'[e] = ledger[e]
  BY <1>1, <1>3 DEF Claim, Claimable
<1>4. ASSUME NEW r \in Requests, Complete(r)
      PROVE  ledger'[e] = ledger[e]
  BY <1>1, <1>2, <1>4, OwnerAssumption DEF Complete, Owns
<1>5. ASSUME NEW r \in Requests, Fail(r)
      PROVE  ledger'[e] = ledger[e]
  <2>1. CASE Owns(r)
    <3>1. Event(r) # e
      BY <1>2, <2>1, OwnerAssumption DEF Owns
    <3>2. ledger' = [ledger EXCEPT ![Event(r)] = Settled("failed")]
      BY <1>5, <2>1 DEF Fail
    <3> QED
      BY <1>1, <3>1, <3>2
  <2>2. CASE ~Owns(r)
    BY <1>5, <2>2 DEF Fail
  <2> QED
    BY <2>1, <2>2
<1>6. ASSUME NEW l \in Events, Lapse(l)
      PROVE  ledger'[e] = ledger[e]
  BY <1>1, <1>2, <1>6 DEF Lapse
<1>7. ASSUME NEW r \in Requests,
             \/ ClaimLost(r) \/ ReadLost(r) \/ DoWrite(r) \/ Respond(r)
             \/ Throw(r) \/ Abort(r) \/ \E b \in Bodies : Deliver(r, b)
      PROVE  ledger'[e] = ledger[e]
  BY <1>7 DEF ClaimLost, ReadLost, DoWrite, Respond, Throw, Abort, Deliver
<1>8. CASE Crash
  BY <1>8 DEF Crash
<1> QED
  BY <1>3, <1>4, <1>5, <1>6, <1>7, <1>8 DEF Next, Continue

(* A processed event is never failed, claimed or completed again, by a      *)
(* worker that lost its lease or by anybody else.                           *)
THEOREM ProcessedStaysProcessed == Spec => ProcessedIsFinal
<1> DEFINE Final == \A e \in Events : ledger[e].status = "processed"
                                         => ledger'[e] = ledger[e]
<1>1. ASSUME TypeInv, [Next]_vars
      PROVE  [Final]_vars
  BY <1>1, StepIsFinal
<1> QED
  BY <1>1, TypeInvariance, PTL DEF Spec, ProcessedIsFinal

-----------------------------------------------------------------------------
(* An acknowledged payload is processed *)

AckInv == TypeInv /\ SeenIsProcessed /\ AckedIsProcessed

LEMMA InitAckInv == Init => AckInv
<1>1. Init => SeenIsProcessed
  BY DEF Init, SeenIsProcessed, Clean
<1> QED
  BY <1>1, InitTypeInv DEF Init, AckInv, AckedIsProcessed

LEMMA PayloadEvent ==
  ASSUME NEW b \in Bodies, NEW k \in 1..Len(Payload[b])
  PROVE  Payload[b][k] \in Events
BY PayloadAssumption

LEMMA AckedStays ==
  ASSUME AckInv, Next, acked' = acked
  PROVE  AckedIsProcessed'
<1> SUFFICES ASSUME NEW b \in acked, NEW k \in 1..Len(Payload[b])
             PROVE  ledger'[Payload[b][k]].status = "processed"
  BY DEF AckedIsProcessed, EventsOf
<1>1. b \in Bodies
  BY DEF AckInv, TypeInv, TypeOK
<1>2. Payload[b][k] \in Events
  BY <1>1, PayloadEvent
<1>3. ledger[Payload[b][k]].status = "processed"
  BY DEF AckInv, AckedIsProcessed, EventsOf
<1> QED
  BY <1>2, <1>3, StepIsFinal DEF AckInv

(* What a request has seen processed stays so while the request stays put.  *)
LEMMA SeenStays ==
  ASSUME AckInv, Next, NEW r \in Requests, Clean(r),
         NEW k \in 1..(req[r].i - 1)
  PROVE  ledger'[Payload[req[r].body][k]].status = "processed"
<1>1. req[r] \in Request /\ InPayload
  BY DEF AckInv, TypeInv, TypeOK
<1>2. req[r].pc \in Busy \/ req[r].pc = "respond"
  BY <1>1 DEF Clean, Busy, Request
<1>3. req[r].body \in Bodies /\ k \in 1..Len(Payload[req[r].body])
  BY <1>1, <1>2, PayloadAssumption DEF InPayload, Request
<1>4. Payload[req[r].body][k] \in Events
  BY <1>3, PayloadEvent
<1>5. ledger[Payload[req[r].body][k]].status = "processed"
  BY DEF AckInv, SeenIsProcessed
<1> QED
  BY <1>4, <1>5, StepIsFinal DEF AckInv

(* A step after which every busy request stands where it stood, or at the   *)
(* start of its payload.                                                    *)
LEMMA SeenAtRest ==
  ASSUME AckInv, Next,
         \A r \in Requests : req'[r].pc # "idle" =>
           \/ req'[r].i = 1
           \/ /\ req[r].pc # "idle"
              /\ req'[r].body = req[r].body /\ req'[r].i = req[r].i /\ req'[r].ok = req[r].ok
  PROVE  SeenIsProcessed'
<1> SUFFICES ASSUME NEW r \in Requests, Clean(r)', NEW k \in 1..(req'[r].i - 1)
             PROVE  ledger'[Payload[req'[r].body][k]].status = "processed"
  BY DEF SeenIsProcessed
<1>1. req'[r].pc # "idle" /\ req'[r].ok
  BY DEF Clean
<1>2. CASE req'[r].i = 1
  BY <1>2
<1>3. CASE /\ req[r].pc # "idle"
           /\ req'[r].body = req[r].body /\ req'[r].i = req[r].i /\ req'[r].ok = req[r].ok
  <2>1. Clean(r) /\ k \in 1..(req[r].i - 1)
    BY <1>1, <1>3 DEF Clean
  <2> QED
    BY <1>3, <2>1, SeenStays
<1> QED
  BY <1>1, <1>2, <1>3

(* A request goes on in good standing only from an event that is processed. *)
LEMMA SeenAfterEvent ==
  ASSUME AckInv, Next, NEW r \in Requests, NEW ok \in BOOLEAN, NextEvent(r, ok),
         req[r].pc \in Busy,
         ok => ledger'[Event(r)].status = "processed"
  PROVE  SeenIsProcessed'
<1> SUFFICES ASSUME NEW s \in Requests, Clean(s)', NEW k \in 1..(req'[s].i - 1)
             PROVE  ledger'[Payload[req'[s].body][k]].status = "processed"
  BY DEF SeenIsProcessed
<1>1. req \in [Requests -> Request] /\ req[r] \in Request /\ req[s] \in Request
  BY DEF AckInv, TypeInv, TypeOK
<1>2. CASE s # r
  <2>1. req'[s] = req[s]
    BY <1>1, <1>2 DEF NextEvent
  <2>2. Clean(s) /\ k \in 1..(req[s].i - 1)
    BY <2>1 DEF Clean
  <2> QED
    BY <2>1, <2>2, SeenStays
<1>3. CASE s = r
  <2>1. /\ req'[r].body = req[r].body
        /\ req'[r].i = req[r].i + 1
        /\ req'[r].ok = (req[r].ok /\ ok)
    BY <1>1 DEF NextEvent
  <2>2. req'[r].ok
    BY <1>3 DEF Clean
  <2>3. Clean(r) /\ ok
    BY <2>1, <2>2 DEF Clean, Busy
  <2>4. CASE k = req[r].i
    BY <1>3, <2>1, <2>3, <2>4 DEF Event
  <2>5. CASE k # req[r].i
    <3>1. k \in 1..(req[r].i - 1)
      BY <1>1, <1>3, <2>1, <2>5 DEF Request
    <3> QED
      BY <1>3, <2>1, <2>3, <3>1, SeenStays
  <2> QED
    BY <2>4, <2>5
<1> QED
  BY <1>2, <1>3

LEMMA StepKeepsAckInv ==
  ASSUME AckInv, Next
  PROVE  AckInv'
<1>0. TypeInv /\ SeenIsProcessed /\ req \in [Requests -> Request] /\ ledger \in [Events -> Row]
  BY DEF AckInv, TypeInv, TypeOK
<1>1. TypeInv'
  BY <1>0, StepKeepsTypeInv
<1>2. SeenIsProcessed'
  <2>1. ASSUME NEW r \in Requests, NEW b \in Bodies, Deliver(r, b)
        PROVE  SeenIsProcessed'
    BY <1>0, <2>1, SeenAtRest DEF Deliver
  <2>2. ASSUME NEW r \in Requests, NEW pc \in Pc, Goto(r, pc), req[r].pc # "idle"
        PROVE  SeenIsProcessed'
    BY <1>0, <2>2, SeenAtRest DEF Goto
  <2>3. ASSUME NEW r \in Requests, Claim(r)
        PROVE  SeenIsProcessed'
    BY <2>2, <2>3 DEF Claim, At, Pc, Write
  <2>4. ASSUME NEW r \in Requests, ClaimLost(r)
        PROVE  SeenIsProcessed'
    BY <2>2, <2>4 DEF ClaimLost, At, Pc
  <2>5. ASSUME NEW r \in Requests, ReadLost(r)
        PROVE  SeenIsProcessed'
    <3>1. req[r].pc \in Busy
      BY <2>5 DEF ReadLost, At, Busy, Pc
    <3> QED
      BY <2>5, <3>1, SeenAfterEvent DEF ReadLost, IsDuplicate
  <2>6. ASSUME NEW r \in Requests, DoWrite(r)
        PROVE  SeenIsProcessed'
    BY <2>2, <2>6 DEF DoWrite, Following, Pc, Write
  <2>7. ASSUME NEW r \in Requests, Complete(r)
        PROVE  SeenIsProcessed'
    <3>1. Event(r) \in Events /\ req[r].pc \in Busy
      BY <1>0, <2>7, EventIsEvent DEF Complete, At, Busy, Pc
    <3>2. Owns(r) => ledger'[Event(r)].status = "processed"
      BY <1>0, <2>7, <3>1 DEF Complete, Settled
    <3> QED
      BY <2>7, <3>1, <3>2, SeenAfterEvent DEF Complete, Owns
  <2>8. ASSUME NEW r \in Requests, Fail(r)
        PROVE  SeenIsProcessed'
    <3>1. req[r].pc \in Busy
      BY <2>8 DEF Fail, At, Busy, Pc
    <3> QED
      BY <2>8, <3>1, SeenAfterEvent DEF Fail
  <2>9. ASSUME NEW r \in Requests, Respond(r)
        PROVE  SeenIsProcessed'
    BY <2>2, <2>9 DEF Respond, At, Pc
  <2>10. ASSUME NEW r \in Requests, Throw(r)
         PROVE  SeenIsProcessed'
    BY <2>2, <2>10 DEF Throw, Caught, Pc, Write
  <2>11. ASSUME NEW r \in Requests, Abort(r)
         PROVE  SeenIsProcessed'
    BY <2>2, <2>11 DEF Abort, Pc
  <2>12. CASE Crash
    <3>1. ASSUME NEW r \in Requests
          PROVE  req'[r].pc = "idle"
      <4>1. req[r] \in Request
        BY <1>0
      <4> QED
        BY <2>12, <4>1 DEF Crash, Request
    <3> QED
      BY <3>1, SeenAtRest
  <2>13. ASSUME NEW e \in Events, Lapse(e)
         PROVE  SeenIsProcessed'
    BY <1>0, <2>13, SeenAtRest DEF Lapse
  <2> QED
    BY <2>1, <2>3, <2>4, <2>5, <2>6, <2>7, <2>8, <2>9, <2>10, <2>11, <2>12, <2>13
       DEF Next, Continue
<1>3. AckedIsProcessed'
  <2>1. CASE acked' = acked
    BY <2>1, AckedStays
  <2>2. CASE acked' # acked
    <3>1. PICK r \in Requests : Respond(r)
      BY <2>2 DEF Next, Continue, Deliver, Claim, ClaimLost, ReadLost, DoWrite, Complete,
                  Fail, Throw, Abort, Crash, Lapse
    <3>2. req[r].ok /\ acked' = acked \cup {req[r].body}
      BY <2>2, <3>1 DEF Respond
    <3>3. ledger' = ledger
      BY <3>1 DEF Respond
    <3>4. req[r].i = Len(Payload[req[r].body]) + 1
      BY <1>0, <3>1 DEF Respond, At, TypeInv, InPayload
    <3>5. \A k \in 1..Len(Payload[req[r].body]) :
            ledger[Payload[req[r].body][k]].status = "processed"
      <4>1. Clean(r) /\ req[r].body \in Bodies
        BY <1>0, <3>1, <3>2 DEF Respond, At, Clean, Request
      <4>2. Len(Payload[req[r].body]) \in Nat
        BY <4>1, PayloadAssumption
      <4> QED
        BY <1>0, <3>4, <4>1, <4>2 DEF SeenIsProcessed
    <3> QED
      BY <3>2, <3>3, <3>5 DEF AckInv, AckedIsProcessed, EventsOf
  <2> QED
    BY <2>1, <2>2
<1> QED
  BY <1>1, <1>2, <1>3 DEF AckInv

(* The 200 that stops Meta from repeating a payload is only sent when every *)
(* event of it is processed, and stays true afterwards.                     *)
THEOREM AcknowledgedIsProcessed == Spec => []AckedIsProcessed
<1>1. ASSUME AckInv, [Next]_vars
      PROVE  AckInv'
  <2>1. CASE Next
    BY <1>1, <2>1, StepKeepsAckInv
  <2>2. CASE UNCHANGED vars
    BY <1>1, <2>2 DEF vars, AckInv, TypeInv, TypeOK, InPayload, SeenIsProcessed, Clean,
                      AckedIsProcessed
  <2> QED
    BY <1>1, <2>1, <2>2
<1>2. AckInv => AckedIsProcessed
  BY DEF AckInv
<1> QED
  BY <1>1, <1>2, InitAckInv, PTL DEF Spec

-----------------------------------------------------------------------------
(* A processed event has made its writes *)

DoneInv == TypeInv /\ MadeBehind /\ ProcessedIsDone

LEMMA StepKeepsDoneInv ==
  ASSUME DoneInv, Next
  PROVE  DoneInv'
<1>0. /\ TypeInv /\ MadeBehind /\ ProcessedIsDone
      /\ req \in [Requests -> Request] /\ ledger \in [Events -> Row]
      /\ copies \in [Events -> [Write -> Nat]]
  BY DEF DoneInv, TypeInv, TypeOK
<1>1. TypeInv'
  BY <1>0, StepKeepsTypeInv
<1>2. \A e \in Events : WritesOf(e) \subseteq Write
  BY DEF WritesOf, Write
<1>3. \A e \in Events, w \in Write : copies[e][w] > 0 => copies'[e][w] > 0
  <2>1. ASSUME NEW r \in Requests, DoWrite(r)
        PROVE  \A e \in Events, w \in Write : copies[e][w] > 0 => copies'[e][w] > 0
    BY <1>0, <2>1 DEF DoWrite
  <2>2. CASE copies' = copies
    BY <2>2
  <2> QED
    BY <2>1, <2>2 DEF Next, Continue, Deliver, Claim, ClaimLost, ReadLost, Complete, Fail,
                      Respond, Throw, Abort, Crash, Lapse
(* It is enough to look at a request that a step brings to a new write. *)
<1>4. ASSUME \A r \in Requests :
               req'[r].pc \in Write \cup {"complete"} =>
                 \/ req'[r] = req[r]
                 \/ Before(Event(r)', req'[r].pc) = {}
      PROVE  MadeBehind'
  <2> SUFFICES ASSUME NEW r \in Requests, req'[r].pc \in Write \cup {"complete"},
                      NEW w \in Before(Event(r)', req'[r].pc)
               PROVE  copies'[Event(r)'][w] > 0
    BY DEF MadeBehind
  <2>1. req'[r] = req[r]
    BY <1>4
  <2>2. Event(r)' = Event(r)
    BY <2>1 DEF Event
  <2>3. Event(r) \in Events
    BY <1>0, <2>1, EventIsEvent DEF Busy, Pc, Write
  <2>4. w \in Write
    BY <1>2, <2>2, <2>3 DEF Before, Write
  <2> QED
    BY <1>0, <1>3, <2>1, <2>2, <2>3, <2>4 DEF MadeBehind
<1>5. MadeBehind'
  <2>1. ASSUME NEW r \in Requests, NEW pc \in {"idle", "log", "lost", "fail"}, Goto(r, pc)
        PROVE  MadeBehind'
    BY <1>0, <1>4, <2>1 DEF Goto, Before, Write
  <2>2. ASSUME NEW r \in Requests, NEW ok, NextEvent(r, ok)
        PROVE  MadeBehind'
    BY <1>0, <1>4, <2>2 DEF NextEvent, StepAt, Write
  <2>3. ASSUME NEW r \in Requests, NEW b \in Bodies, Deliver(r, b)
        PROVE  MadeBehind'
    BY <1>0, <1>4, <2>3 DEF Deliver, StepAt, Write
  <2>4. ASSUME NEW r \in Requests, DoWrite(r)
        PROVE  MadeBehind'
    <3> DEFINE e == Event(r)
               w == req[r].pc
    <3>1. w \in Write /\ e \in Events
      BY <1>0, <2>4, EventIsEvent DEF DoWrite, Busy, Pc, Write
    <3>2. /\ copies'[e][w] > 0
          /\ req' = [req EXCEPT ![r].pc = Following(e, w)]
      BY <1>0, <2>4, <3>1 DEF DoWrite, Goto
    <3>3. \A v \in Before(e, w) : copies'[e][v] > 0
      BY <1>0, <1>2, <1>3, <3>1 DEF MadeBehind, Before, Write
    <3>4. Before(e, Following(e, w)) \subseteq Before(e, w) \cup {w}
      BY <3>1 DEF Before, Following, WritesOf, Write
    <3>5. ASSUME NEW s \in Requests, req'[s].pc \in Write \cup {"complete"},
                 NEW v \in Before(Event(s)', req'[s].pc)
          PROVE  copies'[Event(s)'][v] > 0
      <4>1. CASE s = r
        <5>1. req'[s].pc = Following(e, w) /\ Event(s)' = e
          BY <1>0, <3>2, <4>1 DEF Event
        <5> QED
          BY <3>2, <3>3, <3>4, <5>1
      <4>2. CASE s # r
        <5>1. req'[s] = req[s] /\ Event(s)' = Event(s)
          BY <1>0, <3>2, <4>2 DEF Event
        <5>2. Event(s) \in Events
          BY <1>0, <3>5, <5>1, EventIsEvent DEF Busy, Pc, Write
        <5>3. v \in Write
          BY <1>2, <3>5, <5>1, <5>2 DEF Before, Write
        <5> QED
          BY <1>0, <1>3, <3>5, <5>1, <5>2, <5>3 DEF MadeBehind
      <4> QED
        BY <4>1, <4>2
    <3> QED
      BY <3>5 DEF MadeBehind
  <2>5. ASSUME NEW r \in Requests, Respond(r)
        PROVE  MadeBehind'
    BY <2>1, <2>5 DEF Respond
  <2>6. CASE Crash
    <3>1. ASSUME NEW r \in Requests
          PROVE  req'[r].pc = "idle"
      <4>1. req[r] \in Request
        BY <1>0
      <4> QED
        BY <2>6, <4>1 DEF Crash, Request
    <3> QED
      BY <1>4, <3>1 DEF Write
  <2>7. ASSUME NEW e \in Events, Lapse(e)
        PROVE  MadeBehind'
    BY <1>4, <2>7 DEF Lapse
  <2> QED
    BY <2>1, <2>2, <2>3, <2>4, <2>5, <2>6, <2>7
       DEF Next, Continue, Claim, ClaimLost, ReadLost, Complete, Fail, Throw, Caught, Abort
<1>6. ProcessedIsDone'
  <2> SUFFICES ASSUME NEW e \in Events, ledger'[e].status = "processed",
                      NEW w \in WritesOf(e)
               PROVE  copies'[e][w] > 0
    BY DEF ProcessedIsDone
  <2>1. CASE ledger[e].status = "processed"
    BY <1>0, <1>2, <1>3, <2>1 DEF ProcessedIsDone
  <2>2. CASE ledger[e].status # "processed"
    <3>1. PICK r \in Requests : Complete(r) /\ Event(r) = e
      <4>1. ASSUME NEW l \in Events, Lapse(l)
            PROVE  FALSE
        BY <1>0, <2>2, <4>1 DEF Lapse
      <4>2. ASSUME NEW r \in Requests, Claim(r)
            PROVE  FALSE
        BY <1>0, <2>2, <4>2 DEF Claim
      <4>3. ASSUME NEW r \in Requests, Fail(r)
            PROVE  FALSE
        <5>1. CASE Owns(r)
          <6>1. ledger' = [ledger EXCEPT ![Event(r)] = Settled("failed")]
            BY <4>3, <5>1 DEF Fail
          <6> QED
            BY <1>0, <2>2, <6>1 DEF Settled
        <5>2. CASE ~Owns(r)
          BY <2>2, <4>3, <5>2 DEF Fail
        <5> QED
          BY <5>1, <5>2
      <4>4. ASSUME NEW r \in Requests, Complete(r), Event(r) # e
            PROVE  FALSE
        BY <1>0, <2>2, <4>4 DEF Complete
      <4> QED
        BY <2>2, <4>1, <4>2, <4>3, <4>4
           DEF Next, Continue, Deliver, ClaimLost, ReadLost, DoWrite, Respond, Throw,
               Abort, Crash
    <3>2. copies[e][w] > 0
      BY <1>0, <3>1 DEF Complete, At, MadeBehind, Before
    <3> QED
      BY <1>2, <1>3, <3>2
  <2> QED
    BY <2>1, <2>2
<1> QED
  BY <1>1, <1>5, <1>6 DEF DoneInv

(* An event only counts as processed once its log row, its opt-out and its  *)
(* conversation were written: a crash or a lost lease never skips one.      *)
THEOREM ProcessedEventsAreDone == Spec => []ProcessedIsDone
<1>1. Init => DoneInv
  <2>1. Init => MadeBehind
    BY DEF Init, MadeBehind, Write
  <2>2. Init => ProcessedIsDone
    BY DEF Init, ProcessedIsDone
  <2> QED
    BY <2>1, <2>2, InitTypeInv DEF DoneInv
<1>2. ASSUME DoneInv, [Next]_vars
      PROVE  DoneInv'
  <2>1. CASE Next
    BY <1>2, <2>1, StepKeepsDoneInv
  <2>2. CASE UNCHANGED vars
    BY <1>2, <2>2 DEF vars, DoneInv, TypeInv, TypeOK, InPayload, MadeBehind, Event,
                      ProcessedIsDone
  <2> QED
    BY <1>2, <2>1, <2>2
<1>3. DoneInv => ProcessedIsDone
  BY DEF DoneInv
<1> QED
  BY <1>1, <1>2, <1>3, PTL DEF Spec

-----------------------------------------------------------------------------
(* Every write past the first was paid for with a claim that was lost       *)

(* The writes a request has ahead of it, and who still has write w of event *)
(* e ahead: together with the copies there are they never outnumber the     *)
(* claims of e, of which all but a live or a completed one were lost.       *)
Ahead(pc) == CASE pc = "log" -> Write
               [] pc = "optout" -> {"optout", "thread"}
               [] pc = "thread" -> {"thread"}
               [] OTHER -> {}
Pending(e, w) == {r \in Requests : req[r].pc \in Write /\ Event(r) = e /\ w \in Ahead(req[r].pc)}
Claims(e) == IF ledger[e].live \/ ledger[e].status = "processed" THEN lost[e] + 1 ELSE lost[e]
Covered(e, w) == /\ IsFiniteSet(Pending(e, w))
                 /\ copies[e][w] + Cardinality(Pending(e, w)) <= Claims(e)

ClaimInv == TypeInv /\ \A e \in Events, w \in Write : Covered(e, w)

LEMMA ClaimsType ==
  ASSUME TypeOK, NEW e \in Events
  PROVE  Claims(e) \in Nat /\ Claims(e) <= lost[e] + 1 /\ lost[e] <= Claims(e)
BY DEF TypeOK, Claims

(* A step by which nobody gets work and no claim is forgotten.              *)
LEMMA CoveredStays ==
  ASSUME ClaimInv, NEW e \in Events, NEW w \in Write, TypeOK',
         Pending(e, w)' \subseteq Pending(e, w), copies'[e][w] = copies[e][w],
         Claims(e) <= Claims(e)'
  PROVE  Covered(e, w)'
<1>1. /\ IsFiniteSet(Pending(e, w))
      /\ copies[e][w] + Cardinality(Pending(e, w)) <= Claims(e)
  BY DEF ClaimInv, Covered
<1>2. /\ IsFiniteSet(Pending(e, w)') /\ Cardinality(Pending(e, w)') \in Nat
      /\ Cardinality(Pending(e, w)) \in Nat
      /\ Cardinality(Pending(e, w)') <= Cardinality(Pending(e, w))
  BY <1>1, FS_Subset, FS_CardinalityType
<1>3. copies[e][w] \in Nat /\ Claims(e) \in Nat
  BY ClaimsType DEF ClaimInv, TypeInv, TypeOK
<1>4. Claims(e)' \in Nat
  BY DEF TypeOK, Claims
<1>5. copies'[e][w] + Cardinality(Pending(e, w)') <= Claims(e)'
  BY <1>1, <1>2, <1>3, <1>4
<1> QED
  BY <1>2, <1>5 DEF Covered

(* Requests that are not at a write after a step have none pending.         *)
LEMMA PendingShrinks ==
  ASSUME NEW e, NEW w,
         \A r \in Requests : req'[r] = req[r] \/ req'[r].pc \notin Write
  PROVE  Pending(e, w)' \subseteq Pending(e, w)
BY DEF Pending, Event

LEMMA LeavesWork ==
  ASSUME TypeInv, NEW r \in Requests,
         \/ \E pc \in Pc \ Write : Goto(r, pc)
         \/ \E ok \in BOOLEAN : NextEvent(r, ok)
         \/ \E b \in Bodies : req' = [req EXCEPT ![r] = [pc |-> StepAt(b, 1), body |-> b,
                                                         i |-> 1, ok |-> TRUE]]
  PROVE  \A s \in Requests : req'[s] = req[s] \/ req'[s].pc \notin Write
<1>1. \A b, i : StepAt(b, i) \notin Write
  BY DEF StepAt, Write
<1>2. req \in [Requests -> Request]
  BY DEF TypeInv, TypeOK
<1>3. CASE \E pc \in Pc \ Write : Goto(r, pc)
  BY <1>2, <1>3 DEF Goto, Request
<1>4. CASE \E ok \in BOOLEAN : NextEvent(r, ok)
  BY <1>1, <1>2, <1>4 DEF NextEvent
<1>5. CASE \E b \in Bodies : req' = [req EXCEPT ![r] = [pc |-> StepAt(b, 1), body |-> b,
                                                        i |-> 1, ok |-> TRUE]]
  BY <1>1, <1>2, <1>5
<1> QED
  BY <1>3, <1>4, <1>5

LEMMA ClaimCovers ==
  ASSUME ClaimInv, TypeOK', NEW r \in Requests, Claim(r), NEW e \in Events, NEW w \in Write
  PROVE  Covered(e, w)'
<1>1. /\ req[r].pc = "claim" /\ Event(r) \in Events /\ Claimable(Event(r))
      /\ ledger' = [ledger EXCEPT ![Event(r)] = [status |-> "processing", owner |-> r, live |-> TRUE]]
      /\ req' = [req EXCEPT ![r].pc = "log"] /\ UNCHANGED <<copies, lost>>
      /\ ledger \in [Events -> Row] /\ req \in [Requests -> Request]
  BY EventIsEvent DEF Claim, At, Goto, ClaimInv, TypeInv, TypeOK, Busy, Pc
<1>2. \A s \in Requests \ {r} : req'[s] = req[s]
  BY <1>1
<1>3. Event(r)' = Event(r)
  BY <1>1 DEF Event, Request
<1>4. CASE e # Event(r)
  <2>1. Pending(e, w)' \subseteq Pending(e, w)
    BY <1>2, <1>3, <1>4 DEF Pending, Event
  <2>2. Claims(e)' = Claims(e)
    BY <1>1, <1>4 DEF Claims
  <2> QED
    BY <1>1, <2>1, <2>2, ClaimsType, CoveredStays DEF ClaimInv, TypeInv
<1>5. CASE e = Event(r)
  <2>1. Pending(e, w)' \subseteq Pending(e, w) \cup {r}
    BY <1>2 DEF Pending, Event
  <2>2. r \notin Pending(e, w)
    BY <1>1 DEF Pending, Write
  <2>3. /\ IsFiniteSet(Pending(e, w)) /\ Cardinality(Pending(e, w)) \in Nat
        /\ copies[e][w] + Cardinality(Pending(e, w)) <= Claims(e)
    BY FS_CardinalityType DEF ClaimInv, Covered
  <2>4. /\ IsFiniteSet(Pending(e, w) \cup {r})
        /\ Cardinality(Pending(e, w) \cup {r}) = Cardinality(Pending(e, w)) + 1
    BY <2>2, <2>3, FS_AddElement
  <2>5. /\ IsFiniteSet(Pending(e, w)') /\ Cardinality(Pending(e, w)') \in Nat
        /\ Cardinality(Pending(e, w)') <= Cardinality(Pending(e, w)) + 1
    BY <2>1, <2>4, FS_Subset, FS_CardinalityType
  <2>6. Claims(e) = lost[e] /\ Claims(e)' = lost[e] + 1 /\ lost[e] \in Nat
    BY <1>1, <1>5 DEF Claims, Claimable, ClaimInv, TypeInv, TypeOK
  <2>7. copies[e][w] \in Nat
    BY DEF ClaimInv, TypeInv, TypeOK
  <2>8. copies'[e][w] + Cardinality(Pending(e, w)') <= Claims(e)'
    BY <1>1, <2>3, <2>5, <2>6, <2>7
  <2> QED
    BY <2>5, <2>8 DEF Covered
<1> QED
  BY <1>4, <1>5

LEMMA WriteCovers ==
  ASSUME ClaimInv, TypeOK', NEW r \in Requests, DoWrite(r), NEW e \in Events, NEW w \in Write
  PROVE  Covered(e, w)'
<1> DEFINE x == req[r].pc
<1>1. /\ x \in Write /\ Event(r) \in Events
      /\ copies' = [copies EXCEPT ![Event(r)][x] = @ + 1]
      /\ req' = [req EXCEPT ![r].pc = Following(Event(r), x)]
      /\ UNCHANGED <<ledger, lost>>
      /\ copies \in [Events -> [Write -> Nat]] /\ req \in [Requests -> Request]
  BY EventIsEvent DEF DoWrite, Goto, ClaimInv, TypeInv, TypeOK, Busy, Pc, Write
<1>2. \A s \in Requests \ {r} : req'[s] = req[s]
  BY <1>1
<1>3. Event(r)' = Event(r) /\ req'[r].pc = Following(Event(r), x)
  BY <1>1 DEF Event, Request
<1>4. /\ Ahead(Following(Event(r), x)) \subseteq Ahead(x) \ {x}
      /\ x \in Ahead(x)
  BY <1>1 DEF Following, Ahead, Write
<1>5. Pending(e, w)' \subseteq Pending(e, w)
  BY <1>1, <1>2, <1>3, <1>4 DEF Pending, Event
<1>6. Claims(e)' = Claims(e)
  BY <1>1 DEF Claims
<1> HIDE DEF x
<1>7. CASE e # Event(r) \/ w # x
  <2>1. copies'[e][w] = copies[e][w]
    BY <1>1, <1>7
  <2> QED
    BY <1>5, <1>6, <2>1, ClaimsType, CoveredStays DEF ClaimInv, TypeInv
<1>8. CASE e = Event(r) /\ w = x
  <2>1. copies'[e][w] = copies[e][w] + 1 /\ copies[e][w] \in Nat
    BY <1>1, <1>8
  <2>2. r \in Pending(e, w)
    BY <1>1, <1>4, <1>8 DEF Pending, x
  <2>3. r \notin Pending(e, w)'
    BY <1>3, <1>4, <1>8 DEF Pending
  <2>4. /\ IsFiniteSet(Pending(e, w)) /\ Cardinality(Pending(e, w)) \in Nat
        /\ copies[e][w] + Cardinality(Pending(e, w)) <= Claims(e)
    BY FS_CardinalityType DEF ClaimInv, Covered
  <2>5. Pending(e, w)' \subseteq Pending(e, w) \ {r}
    BY <1>5, <2>3
  <2>6. /\ IsFiniteSet(Pending(e, w) \ {r})
        /\ Cardinality(Pending(e, w) \ {r}) = Cardinality(Pending(e, w)) - 1
    BY <2>2, <2>4, FS_RemoveElement
  <2>7. /\ IsFiniteSet(Pending(e, w)') /\ Cardinality(Pending(e, w)') \in Nat
        /\ Cardinality(Pending(e, w)') <= Cardinality(Pending(e, w)) - 1
    BY <2>5, <2>6, FS_Subset, FS_CardinalityType
  <2>8. Claims(e) \in Nat
    BY ClaimsType DEF ClaimInv, TypeInv
  <2>9. copies'[e][w] + Cardinality(Pending(e, w)') <= Claims(e)'
    BY <1>6, <2>1, <2>4, <2>7, <2>8
  <2> QED
    BY <2>7, <2>9 DEF Covered
<1> QED
  BY <1>7, <1>8

LEMMA StepKeepsClaimInv ==
  ASSUME ClaimInv, [Next]_vars
  PROVE  ClaimInv'
<1>1. TypeInv /\ TypeInv' /\ TypeOK'
  <2>1. CASE Next
    BY <2>1, StepKeepsTypeInv DEF ClaimInv, TypeInv
  <2>2. CASE UNCHANGED vars
    BY <2>2 DEF ClaimInv, vars, TypeInv, TypeOK, InPayload
  <2> QED
    BY <2>1, <2>2
<1> SUFFICES ASSUME NEW e \in Events, NEW w \in Write
             PROVE  Covered(e, w)'
  BY <1>1 DEF ClaimInv
<1>2. lost[e] \in Nat /\ ledger \in [Events -> Row] /\ lost \in [Events -> Nat]
  BY <1>1 DEF TypeInv, TypeOK
<1>3. ASSUME UNCHANGED copies, Claims(e) <= Claims(e)',
             \A s \in Requests : req'[s] = req[s] \/ req'[s].pc \notin Write
      PROVE  Covered(e, w)'
  BY <1>1, <1>3, CoveredStays, PendingShrinks
<1>4. ASSUME UNCHANGED <<ledger, lost>> PROVE Claims(e) <= Claims(e)'
  <2>1. Claims(e)' = Claims(e)
    BY <1>4 DEF Claims
  <2> QED
    BY <1>1, <2>1, ClaimsType DEF TypeInv
<1>5. ASSUME NEW r \in Requests, Continue(r) \/ Throw(r) \/ Abort(r) \/ \E b \in Bodies : Deliver(r, b)
      PROVE  Covered(e, w)'
  <2>1. CASE Claim(r)
    BY <1>1, <2>1, ClaimCovers
  <2>2. CASE DoWrite(r)
    BY <1>1, <2>2, WriteCovers
  <2>3. CASE Complete(r)
    <3>1. \A s \in Requests : req'[s] = req[s] \/ req'[s].pc \notin Write
      BY <1>1, <2>3, LeavesWork DEF Complete, Owns
    <3>2. Claims(e) <= Claims(e)'
      <4>1. CASE Owns(r) /\ e = Event(r)
        <5>1. ledger'[e].status = "processed" /\ UNCHANGED lost
          BY <1>2, <2>3, <4>1 DEF Complete, Settled
        <5>2. Claims(e)' = lost[e] + 1
          BY <5>1 DEF Claims
        <5> QED
          BY <1>1, <5>2, ClaimsType DEF TypeInv
      <4>2. CASE ~(Owns(r) /\ e = Event(r))
        <5>1. ledger'[e] = ledger[e] /\ lost' = lost
          BY <1>2, <2>3, <4>2 DEF Complete
        <5> QED
          BY <1>2, <5>1 DEF Claims
      <4> QED
        BY <4>1, <4>2
    <3> QED
      BY <1>3, <2>3, <3>1, <3>2 DEF Complete
  <2>4. CASE Fail(r)
    <3>1. \A s \in Requests : req'[s] = req[s] \/ req'[s].pc \notin Write
      BY <1>1, <2>4, LeavesWork DEF Fail
    <3>2. Claims(e) <= Claims(e)'
      <4>1. CASE Owns(r) /\ e = Event(r)
        <5>1. lost'[e] = lost[e] + 1
          BY <1>2, <2>4, <4>1 DEF Fail
        <5> QED
          BY <1>2, <5>1 DEF Claims
      <4>2. CASE ~(Owns(r) /\ e = Event(r))
        <5>1. ledger'[e] = ledger[e] /\ lost'[e] = lost[e]
          BY <1>2, <2>4, <4>2 DEF Fail
        <5> QED
          BY <1>2, <5>1 DEF Claims
      <4> QED
        BY <4>1, <4>2
    <3> QED
      BY <1>3, <2>4, <3>1, <3>2 DEF Fail
  <2>5. CASE ReadLost(r)
    <3>1. \A s \in Requests : req'[s] = req[s] \/ req'[s].pc \notin Write
      BY <1>1, <2>5, LeavesWork DEF ReadLost, IsDuplicate
    <3> QED
      BY <1>3, <1>4, <2>5, <3>1 DEF ReadLost
  <2>6. CASE ClaimLost(r) \/ Respond(r) \/ Throw(r) \/ Abort(r)
    <3>1. PICK pc \in {"lost", "idle", "fail"} : Goto(r, pc)
      BY <2>6 DEF ClaimLost, Respond, Throw, Abort, Caught
    <3>2. pc \in Pc \ Write
      BY DEF Pc, Write
    <3>3. \A s \in Requests : req'[s] = req[s] \/ req'[s].pc \notin Write
      BY <1>1, <3>1, <3>2, LeavesWork
    <3> QED
      BY <1>3, <1>4, <2>6, <3>3 DEF ClaimLost, Respond, Throw, Abort
  <2>7. CASE \E b \in Bodies : Deliver(r, b)
    <3>1. \A s \in Requests : req'[s] = req[s] \/ req'[s].pc \notin Write
      BY <1>1, <2>7, LeavesWork DEF Deliver
    <3> QED
      BY <1>3, <1>4, <2>7, <3>1 DEF Deliver
  <2> QED
    BY <1>5, <2>1, <2>2, <2>3, <2>4, <2>5, <2>6, <2>7 DEF Continue
<1>6. CASE Crash
  <2>1. \A s \in Requests : req'[s].pc = "idle"
    BY <1>1, <1>6 DEF Crash, TypeInv, TypeOK, Request
  <2> QED
    BY <1>3, <1>4, <1>6, <2>1 DEF Crash, Write
<1>7. ASSUME NEW l \in Events, Lapse(l) PROVE Covered(e, w)'
  <2>1. Claims(e) <= Claims(e)'
    <3>1. CASE e = l
      <4>1. lost'[e] = lost[e] + 1
        BY <1>2, <1>7, <3>1 DEF Lapse
      <4> QED
        BY <1>2, <4>1 DEF Claims
    <3>2. CASE e # l
      <4>1. ledger'[e] = ledger[e] /\ lost'[e] = lost[e]
        BY <1>2, <1>7, <3>2 DEF Lapse
      <4> QED
        BY <1>2, <4>1 DEF Claims
    <3> QED
      BY <3>1, <3>2
  <2> QED
    BY <1>3, <1>7, <2>1 DEF Lapse
<1>8. CASE UNCHANGED vars
  BY <1>3, <1>4, <1>8 DEF vars
<1> QED
  BY <1>5, <1>6, <1>7, <1>8 DEF Next

(* Redelivery alone writes nothing twice: an event has a second copy of a   *)
(* write only if a claim of it failed or outlived its lease.                *)
THEOREM EveryRepeatIsARetry == Spec => []RepeatsAreRetries
<1>1. Init => ClaimInv
  <2> SUFFICES ASSUME Init PROVE ClaimInv
    OBVIOUS
  <2>1. ASSUME NEW e \in Events, NEW w \in Write PROVE Covered(e, w)
    <3>1. Pending(e, w) = {}
      BY DEF Init, Pending, Write
    <3>2. copies[e][w] = 0 /\ Claims(e) = 0
      BY DEF Init, Claims
    <3> QED
      BY <3>1, <3>2, FS_EmptySet DEF Covered
  <2> QED
    BY <2>1, InitTypeInv DEF ClaimInv
<1>2. ClaimInv => RepeatsAreRetries
  <2> SUFFICES ASSUME ClaimInv, NEW e \in Events, NEW w \in Write
               PROVE  copies[e][w] <= 1 + lost[e]
    BY DEF RepeatsAreRetries
  <2>1. /\ Cardinality(Pending(e, w)) \in Nat
        /\ copies[e][w] + Cardinality(Pending(e, w)) <= Claims(e)
    BY FS_CardinalityType DEF ClaimInv, Covered
  <2>2. copies[e][w] \in Nat /\ lost[e] \in Nat
    BY DEF ClaimInv, TypeInv, TypeOK
  <2>3. Claims(e) \in Nat /\ Claims(e) <= lost[e] + 1
    BY ClaimsType DEF ClaimInv, TypeInv
  <2> QED
    BY <2>1, <2>2, <2>3
<1> QED
  BY <1>1, <1>2, StepKeepsClaimInv, PTL DEF Spec
=============================================================================
