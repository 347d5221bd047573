----------------------------- MODULE QueueProofs -----------------------------
(***************************************************************************)
(* Proofs about NotificationQueue, for any number of deliveries, drains,    *)
(* attempts and faults.                                                     *)
(*                                                                          *)
(* The lock leaves one drain at work; the rows it has listed and the row it *)
(* works on stay open, with the attempts it read, because only a drain      *)
(* settles a row.  That is what keeps attempts in range, settled rows       *)
(* settled and every copy of a message accounted for.                       *)
(***************************************************************************)
EXTENDS NotificationQueue, TLAPS

Open(d) == row[d].status \in {"pending", "failed"}

OneDrain ==
  \A w, x \in Drains : drain[w].pc # "idle" /\ drain[x].pc # "idle" => w = x

(* An open row has attempts left. *)
AttemptsLeft == \A d \in Deliveries : Open(d) => row[d].attempts < MaxAttempts

(* What a drain knows of the rows it listed and of the one it works on. *)
DrainInv(w) ==
  LET q == drain[w] IN
  /\ IF q.pc = "idle" THEN q.batch = {} ELSE lock
  /\ q.cur \notin q.batch
  /\ \A d \in q.batch : Open(d)
  /\ q.pc \in {"send", "settle", "fail", "log"} => q.cur \in Deliveries
  /\ q.pc \in {"send", "settle", "fail"} => Open(q.cur) /\ row[q.cur].attempts = q.attempts
  /\ q.pc = "settle" => inbox[q.cur] > 0
  /\ q.pc = "log" => row[q.cur].status = "sent"

QueueInv == /\ TypeOK
            /\ OneDrain
            /\ AttemptsLeft
            /\ \A w \in Drains : DrainInv(w)
            /\ SentWasDelivered

LEMMA InitQueueInv == Init => QueueInv
<1> SUFFICES ASSUME Init PROVE QueueInv
  OBVIOUS
<1>1. Idle \in Drain
  BY QueueAssumption DEF Idle, Working, Drain, Pc
<1>2. TypeOK
  <2>1. [status |-> "absent", attempts |-> 0, due |-> FALSE] \in Row
    BY QueueAssumption DEF Row
  <2>2. row \in [Deliveries -> Row]
    BY <2>1 DEF Init
  <2>3. drain \in [Drains -> Drain]
    BY <1>1 DEF Init
  <2>4. inbox \in [Deliveries -> Nat] /\ unsettled \in [Deliveries -> Nat]
    BY DEF Init
  <2>5. sentLog = {} /\ lock = FALSE /\ faults \in 0..MaxFaults
    BY QueueAssumption DEF Init
  <2> QED
    BY <2>2, <2>3, <2>4, <2>5 DEF TypeOK
<1>3. OneDrain /\ AttemptsLeft /\ SentWasDelivered
  BY DEF Init, Idle, Working, OneDrain, AttemptsLeft, Open, SentWasDelivered
<1>4. \A w \in Drains : DrainInv(w)
  BY DEF Init, Idle, Working, DrainInv
<1> QED
  BY <1>2, <1>3, <1>4 DEF QueueInv

-----------------------------------------------------------------------------
(* A drain that moves on while the rows stay as they are *)

LEMMA OneDrainKept ==
  ASSUME QueueInv, NEW w \in Drains, NEW q \in Drain, drain' = [drain EXCEPT ![w] = q],
         drain[w].pc # "idle" \/ q.pc = "idle"
  PROVE  OneDrain' /\ \A x \in Drains \ {w} : drain'[x] = drain[x]
BY DEF QueueInv, TypeOK, OneDrain

LEMMA OthersIdle ==
  ASSUME QueueInv, NEW w \in Drains, drain[w].pc # "idle",
         NEW x \in Drains \ {w}
  PROVE  drain[x].pc = "idle" /\ drain[x].batch = {}
BY DEF QueueInv, OneDrain, DrainInv

(* After a step of the drain at work, only that drain needs a look.         *)
LEMMA WorkStep ==
  ASSUME QueueInv, NEW w \in Drains, drain[w].pc # "idle",
         NEW q \in Drain, drain' = [drain EXCEPT ![w] = q],
         TypeOK', AttemptsLeft', SentWasDelivered', DrainInv(w)'
  PROVE  QueueInv'
<1>1. OneDrain' /\ \A x \in Drains \ {w} : drain'[x] = drain[x]
  BY OneDrainKept
<1>2. ASSUME NEW x \in Drains \ {w}
      PROVE  DrainInv(x)'
  BY <1>1, <1>2, OthersIdle DEF DrainInv
<1> QED
  BY <1>1, <1>2 DEF QueueInv

(* The record a Goto leaves in its place. *)
LEMMA GotoRecord ==
  ASSUME QueueInv, NEW w \in Drains, NEW pc \in Pc, Goto(w, pc)
  PROVE  \E q \in Drain : /\ drain' = [drain EXCEPT ![w] = q]
                          /\ q.pc = pc
                          /\ q.batch = drain[w].batch /\ q.cur = drain[w].cur
                          /\ q.attempts = drain[w].attempts
<1>1. drain \in [Drains -> Drain] /\ drain[w] \in Drain
  BY DEF QueueInv, TypeOK
<1> DEFINE q == [drain[w] EXCEPT !.pc = pc]
<1>2. q \in Drain /\ q.pc = pc /\ q.batch = drain[w].batch /\ q.cur = drain[w].cur
      /\ q.attempts = drain[w].attempts
  BY <1>1 DEF Drain
<1>3. drain' = [drain EXCEPT ![w] = q]
  BY DEF Goto
<1> QED
  BY <1>2, <1>3

LEMMA RowsKept ==
  ASSUME QueueInv, row' = row, inbox' = inbox, sentLog' = sentLog
  PROVE  AttemptsLeft' /\ SentWasDelivered' /\ \A d \in Deliveries : Open(d)' <=> Open(d)
BY DEF QueueInv, AttemptsLeft, SentWasDelivered, Open

-----------------------------------------------------------------------------
(* The steps of a drain *)

LEMMA TakeRowKeeps ==
  ASSUME QueueInv, NEW w \in Drains, TakeRow(w)
  PROVE  QueueInv'
<1>1. TypeOK /\ DrainInv(w) /\ drain[w] \in Drain
  BY DEF QueueInv, TypeOK
<1>2. PICK d \in drain[w].batch :
        drain' = [drain EXCEPT ![w] = Working("send", drain[w].batch \ {d}, d,
                                              row[d].attempts)]
  BY DEF TakeRow
<1> DEFINE q == [pc |-> "send", batch |-> drain[w].batch \ {d}, cur |-> d,
                 attempts |-> row[d].attempts, giveUp |-> FALSE, caught |-> FALSE]
<1>3. drain' = [drain EXCEPT ![w] = q]
  BY <1>2 DEF Working
<1>4. d \in Deliveries /\ row[d].attempts \in 0..MaxAttempts
  BY <1>1, <1>2 DEF Drain, TypeOK, Row
<1>5. q \in Drain
  BY <1>1, <1>4 DEF Drain, Pc
<1>6. drain[w].pc # "idle"
  BY DEF TakeRow, At
<1>7. TypeOK'
  BY <1>1, <1>3, <1>5 DEF TakeRow, TypeOK
<1>8. DrainInv(w)'
  <2>1. drain'[w] = q
    BY <1>1, <1>3 DEF TypeOK
  <2>2. \A e \in drain[w].batch : Open(e)'
    BY <1>1 DEF DrainInv, Open, TakeRow
  <2>3. lock' /\ row' = row
    BY <1>1, <1>6 DEF DrainInv, TakeRow
  <2>4. Open(d)' /\ d \in Deliveries
    BY <1>2, <1>4, <2>2
  <2>5. q.pc = "send" /\ q.cur = d /\ q.batch = drain[w].batch \ {d}
        /\ q.attempts = row[d].attempts
    OBVIOUS
  <2> HIDE DEF q
  <2> QED
    BY <2>1, <2>2, <2>3, <2>4, <2>5 DEF DrainInv, Open
<1> QED
  BY <1>3, <1>5, <1>6, <1>7, <1>8, RowsKept, WorkStep DEF TakeRow

LEMMA FinishKeeps ==
  ASSUME QueueInv, NEW w \in Drains, Finish(w)
  PROVE  QueueInv'
<1>1. TypeOK /\ drain[w].pc # "idle"
  BY DEF QueueInv, Finish, At
<1>2. Idle \in Drain /\ Idle.pc = "idle" /\ Idle.batch = {} /\ Idle.cur = NoDelivery
  BY QueueAssumption DEF Idle, Working, Drain, Pc
<1>3. TypeOK'
  BY <1>1, <1>2 DEF Finish, TypeOK
<1>4. drain' = [drain EXCEPT ![w] = Idle] /\ drain'[w] = Idle
  BY <1>1 DEF Finish, TypeOK
<1>5. DrainInv(w)'
  BY <1>2, <1>4 DEF DrainInv
<1> QED
  BY <1>1, <1>2, <1>3, <1>4, <1>5, RowsKept, WorkStep DEF Finish

LEMMA SendKeeps ==
  ASSUME QueueInv, NEW w \in Drains, Send(w)
  PROVE  QueueInv'
<1>1. TypeOK /\ DrainInv(w) /\ SentWasDelivered /\ drain \in [Drains -> Drain]
      /\ drain[w] \in Drain /\ drain[w].pc = "send"
  BY DEF QueueInv, TypeOK, Send, At
<1>2. drain[w].cur \in Deliveries /\ Open(drain[w].cur) /\ lock
      /\ row[drain[w].cur].attempts = drain[w].attempts
  BY <1>1 DEF DrainInv
<1>3. /\ inbox' \in [Deliveries -> Nat]
      /\ \A d \in Deliveries : inbox[d] > 0 => inbox'[d] > 0
  BY <1>1, <1>2 DEF Send, Delivers, TypeOK
<1>4. PICK q \in Drain : /\ drain' = [drain EXCEPT ![w] = q]
                         /\ q.pc \in {"settle", "fail"}
                         /\ q.pc = "settle" => Delivers(w)
                         /\ q.batch = drain[w].batch /\ q.cur = drain[w].cur
                         /\ q.attempts = drain[w].attempts
  <2>1. CASE Delivers(w) /\ Goto(w, "settle")
    BY <2>1, GotoRecord DEF Pc
  <2>2. ASSUME NEW caught \in BOOLEAN,
               drain' = [drain EXCEPT ![w].pc = "fail", ![w].caught = caught]
        PROVE  \E q \in Drain : /\ drain' = [drain EXCEPT ![w] = q] /\ q.pc = "fail"
                                /\ q.batch = drain[w].batch /\ q.cur = drain[w].cur
                                /\ q.attempts = drain[w].attempts
    <3> DEFINE q == [drain[w] EXCEPT !.pc = "fail", !.caught = caught]
    <3>1. q \in Drain /\ q.pc = "fail" /\ q.batch = drain[w].batch
          /\ q.cur = drain[w].cur /\ q.attempts = drain[w].attempts
      BY <1>1 DEF Drain, Pc
    <3>2. drain' = [drain EXCEPT ![w] = q]
      BY <1>1, <2>2
    <3> QED
      BY <3>1, <3>2
  <2>3. ASSUME drain' = [drain EXCEPT ![w].pc = "fail", ![w].giveUp = TRUE]
        PROVE  \E q \in Drain : /\ drain' = [drain EXCEPT ![w] = q] /\ q.pc = "fail"
                                /\ q.batch = drain[w].batch /\ q.cur = drain[w].cur
                                /\ q.attempts = drain[w].attempts
    <3> DEFINE q == [drain[w] EXCEPT !.pc = "fail", !.giveUp = TRUE]
    <3>1. q \in Drain /\ q.pc = "fail" /\ q.batch = drain[w].batch
          /\ q.cur = drain[w].cur /\ q.attempts = drain[w].attempts
      BY <1>1 DEF Drain, Pc
    <3>2. drain' = [drain EXCEPT ![w] = q]
      BY <1>1, <2>3
    <3> QED
      BY <3>1, <3>2
  <2> QED
    BY <2>1, <2>2, <2>3 DEF Send
<1>5. TypeOK'
  BY <1>1, <1>3, <1>4 DEF Send, TypeOK
<1>6. AttemptsLeft' /\ SentWasDelivered'
  BY <1>1, <1>3 DEF QueueInv, Send, AttemptsLeft, SentWasDelivered, Open
<1>7. DrainInv(w)'
  <2>1. drain'[w] = q
    BY <1>1, <1>4
  <2>2. q.pc = "settle" => inbox'[q.cur] > 0
    BY <1>1, <1>2, <1>4 DEF Delivers, TypeOK
  <2>3. \A d \in q.batch : Open(d)'
    BY <1>1, <1>4 DEF DrainInv, Open, Send
  <2>4. q.cur \notin q.batch
    BY <1>1, <1>4 DEF DrainInv
  <2>5. Open(q.cur)' /\ row'[q.cur].attempts = q.attempts /\ lock' /\ q.cur \in Deliveries
    BY <1>2, <1>4 DEF Open, Send
  <2> QED
    BY <1>4, <2>1, <2>2, <2>3, <2>4, <2>5 DEF DrainInv
<1> QED
  BY <1>1, <1>4, <1>5, <1>6, <1>7, WorkStep

(* A drain writes the row it works on, and leaves the others of its batch.  *)
LEMMA RowWritten ==
  ASSUME QueueInv, NEW w \in Drains, drain[w].cur \in Deliveries,
         NEW r \in Row, row' = [row EXCEPT ![drain[w].cur] = r]
  PROVE  /\ row' \in [Deliveries -> Row]
         /\ row'[drain[w].cur] = r
         /\ \A d \in Deliveries \ {drain[w].cur} : row'[d] = row[d]
         /\ \A d \in drain[w].batch : Open(d)'
<1>1. row \in [Deliveries -> Row] /\ DrainInv(w) /\ drain[w].batch \subseteq Deliveries
  BY DEF QueueInv, TypeOK, Drain
<1>2. /\ row' \in [Deliveries -> Row]
      /\ row'[drain[w].cur] = r
      /\ \A d \in Deliveries \ {drain[w].cur} : row'[d] = row[d]
  BY <1>1
<1>3. ASSUME NEW d \in drain[w].batch PROVE Open(d)'
  <2>1. d \in Deliveries \ {drain[w].cur} /\ Open(d)
    BY <1>1 DEF DrainInv
  <2> QED
    BY <1>2, <2>1 DEF Open
<1> QED
  BY <1>2, <1>3

LEMMA SettleKeeps ==
  ASSUME QueueInv, NEW w \in Drains, Settle(w)
  PROVE  QueueInv'
<1> DEFINE d == drain[w].cur
           r == [status |-> "sent", attempts |-> row[d].attempts + 1, due |-> row[d].due]
<1>1. TypeOK /\ AttemptsLeft /\ SentWasDelivered /\ DrainInv(w) /\ drain[w] \in Drain
      /\ drain[w].pc = "settle"
  BY DEF QueueInv, TypeOK, Settle, At
<1>2. d \in Deliveries /\ Open(d) /\ inbox[d] > 0 /\ lock
  BY <1>1 DEF DrainInv
<1>3. r \in Row /\ row' = [row EXCEPT ![d] = r]
  <2>1. row[d] \in Row /\ row[d].attempts < MaxAttempts
    BY <1>1, <1>2 DEF TypeOK, AttemptsLeft
  <2>2. row[d].attempts + 1 \in 0..MaxAttempts /\ row[d].due \in BOOLEAN
    BY <2>1, QueueAssumption DEF Row
  <2> QED
    BY <2>2 DEF Row, Settle
<1> HIDE DEF d
<1>4. PICK q \in Drain : /\ drain' = [drain EXCEPT ![w] = q]
                         /\ q.pc = "log"
                         /\ q.batch = drain[w].batch /\ q.cur = d
  BY GotoRecord DEF Settle, Pc, d
<1>5. /\ row' \in [Deliveries -> Row]
      /\ row'[d] = r
      /\ \A e \in Deliveries \ {d} : row'[e] = row[e]
      /\ \A e \in drain[w].batch : Open(e)'
  BY <1>2, <1>3, RowWritten DEF d
<1>6. TypeOK'
  BY <1>1, <1>4, <1>5 DEF Settle, TypeOK
<1>7. AttemptsLeft' /\ SentWasDelivered'
  BY <1>1, <1>2, <1>5 DEF Settle, AttemptsLeft, SentWasDelivered, Open
<1>8. DrainInv(w)'
  <2>1. drain'[w] = q /\ lock'
    BY <1>1, <1>2, <1>4 DEF TypeOK, Settle
  <2>2. q.cur \notin q.batch
    BY <1>1, <1>4 DEF DrainInv, d
  <2> QED
    BY <1>2, <1>4, <1>5, <2>1, <2>2 DEF DrainInv, Open
<1> QED
  BY <1>1, <1>4, <1>6, <1>7, <1>8, WorkStep

LEMMA LogSentKeeps ==
  ASSUME QueueInv, NEW w \in Drains, LogSent(w)
  PROVE  QueueInv'
<1>1. TypeOK /\ AttemptsLeft /\ SentWasDelivered /\ DrainInv(w) /\ drain[w].pc = "log"
  BY DEF QueueInv, LogSent, At
<1>2. drain[w].cur \in Deliveries /\ row[drain[w].cur].status = "sent" /\ lock
  BY <1>1 DEF DrainInv
<1>3. PICK q \in Drain : /\ drain' = [drain EXCEPT ![w] = q]
                         /\ q.pc = "next"
                         /\ q.batch = drain[w].batch /\ q.cur = drain[w].cur
  BY GotoRecord DEF LogSent, Pc
<1>4. TypeOK'
  BY <1>1, <1>2, <1>3 DEF LogSent, TypeOK
<1>5. AttemptsLeft' /\ SentWasDelivered'
  BY <1>1, <1>2 DEF LogSent, AttemptsLeft, SentWasDelivered, Open
<1>6. DrainInv(w)'
  <2>1. drain'[w] = q /\ lock'
    BY <1>1, <1>2, <1>3 DEF TypeOK, LogSent
  <2> QED
    BY <1>1, <1>3, <2>1 DEF DrainInv, Open, LogSent
<1> QED
  BY <1>1, <1>3, <1>4, <1>5, <1>6, WorkStep

LEMMA FailDeliveryKeeps ==
  ASSUME QueueInv, NEW w \in Drains, FailDelivery(w)
  PROVE  QueueInv'
<1> DEFINE d == drain[w].cur
<1>1. TypeOK /\ AttemptsLeft /\ SentWasDelivered /\ DrainInv(w) /\ drain[w] \in Drain
      /\ drain[w].pc = "fail"
  BY DEF QueueInv, TypeOK, FailDelivery, At
<1>2. d \in Deliveries /\ Open(d) /\ lock /\ row[d].attempts = drain[w].attempts
  BY <1>1 DEF DrainInv
<1>3. row[d].attempts \in Nat /\ row[d].attempts < MaxAttempts
  BY <1>1, <1>2, QueueAssumption DEF TypeOK, AttemptsLeft, Row
<1>4. /\ Marked(w) \in Row
      /\ Marked(w).status \in {"dead", "failed"}
      /\ Marked(w).status = "failed" => Marked(w).attempts < MaxAttempts
  BY <1>2, <1>3, QueueAssumption DEF Marked, Terminal, Row
<1>5. row' = [row EXCEPT ![d] = Marked(w)]
  BY DEF FailDelivery
<1> HIDE DEF d
<1>6. PICK q \in Drain : /\ drain' = [drain EXCEPT ![w] = q]
                         /\ q.pc = "next"
                         /\ q.batch = drain[w].batch /\ q.cur = d
  BY GotoRecord DEF FailDelivery, Pc, d
<1>7. /\ row' \in [Deliveries -> Row]
      /\ row'[d] = Marked(w)
      /\ \A e \in Deliveries \ {d} : row'[e] = row[e]
      /\ \A e \in drain[w].batch : Open(e)'
  BY <1>2, <1>4, <1>5, RowWritten DEF d
<1>8. TypeOK'
  BY <1>1, <1>6, <1>7 DEF FailDelivery, TypeOK
<1>9. AttemptsLeft' /\ SentWasDelivered'
  BY <1>1, <1>2, <1>4, <1>7 DEF FailDelivery, AttemptsLeft, SentWasDelivered, Open
<1>10. DrainInv(w)'
  <2>1. drain'[w] = q /\ lock'
    BY <1>1, <1>2, <1>6 DEF TypeOK, FailDelivery
  <2>2. q.cur \notin q.batch
    BY <1>1, <1>6 DEF DrainInv, d
  <2> QED
    BY <1>6, <1>7, <2>1, <2>2 DEF DrainInv
<1> QED
  BY <1>1, <1>6, <1>8, <1>9, <1>10, WorkStep

LEMMA FaultCounts ==
  ASSUME QueueInv, Fault
  PROVE  faults' \in 0..MaxFaults
BY QueueAssumption DEF QueueInv, TypeOK, Fault

LEMMA TryThrowsKeeps ==
  ASSUME QueueInv, NEW w \in Drains, TryThrows(w)
  PROVE  QueueInv'
<1>1. TypeOK /\ DrainInv(w) /\ drain[w] \in Drain /\ drain[w].pc \in {"settle", "fail"}
  BY DEF QueueInv, TypeOK, TryThrows, At
<1> DEFINE q == [drain[w] EXCEPT !.pc = "fail", !.giveUp = FALSE, !.caught = TRUE]
<1>2. q \in Drain /\ q.pc = "fail" /\ q.batch = drain[w].batch /\ q.cur = drain[w].cur
      /\ q.attempts = drain[w].attempts
  BY <1>1 DEF Drain, Pc
<1>3. drain' = [drain EXCEPT ![w] = q]
  BY <1>1 DEF TryThrows, TypeOK
<1> HIDE DEF q
<1>4. TypeOK'
  <2>1. faults' \in 0..MaxFaults
    BY FaultCounts DEF TryThrows
  <2> QED
    BY <1>1, <1>2, <1>3, <2>1 DEF TryThrows, TypeOK
<1>5. DrainInv(w)'
  <2>1. drain'[w] = q
    BY <1>1, <1>3 DEF TypeOK
  <2> QED
    BY <1>1, <1>2, <2>1 DEF DrainInv, Open, TryThrows
<1> QED
  BY <1>1, <1>2, <1>3, <1>4, <1>5, RowsKept, WorkStep DEF TryThrows

LEMMA CatchThrowsKeeps ==
  ASSUME QueueInv, NEW w \in Drains, CatchThrows(w)
  PROVE  QueueInv'
<1>1. TypeOK /\ DrainInv(w) /\ drain[w].pc = "fail"
  BY DEF QueueInv, CatchThrows, At
<1>2. Idle \in Drain /\ Idle.pc = "idle" /\ Idle.batch = {} /\ Idle.cur = NoDelivery
  BY QueueAssumption DEF Idle, Working, Drain, Pc
<1>3. drain' = [drain EXCEPT ![w] = Idle] /\ drain'[w] = Idle
  BY <1>1 DEF CatchThrows, TypeOK
<1>4. unsettled' \in [Deliveries -> Nat]
  <2>1. unsettled[drain[w].cur] + 1 \in Nat
    BY <1>1 DEF DrainInv, TypeOK
  <2> QED
    BY <1>1, <2>1 DEF CatchThrows, TypeOK
<1>5. TypeOK'
  <2>1. faults' \in 0..MaxFaults
    BY FaultCounts DEF CatchThrows
  <2> QED
    BY <1>1, <1>2, <1>3, <1>4, <2>1 DEF CatchThrows, TypeOK
<1>6. DrainInv(w)'
  BY <1>2, <1>3 DEF DrainInv
<1> QED
  BY <1>1, <1>2, <1>3, <1>5, <1>6, RowsKept, WorkStep DEF CatchThrows

-----------------------------------------------------------------------------
(* The steps around the drains *)

LEMMA CrashKeeps ==
  ASSUME QueueInv, Crash
  PROVE  QueueInv'
<1>1. TypeOK
  BY DEF QueueInv
<1>2. Idle \in Drain /\ Idle.pc = "idle" /\ Idle.batch = {} /\ Idle.cur = NoDelivery
  BY QueueAssumption DEF Idle, Working, Drain, Pc
<1>3. \A w \in Drains : drain'[w] = Idle
  BY DEF Crash
<1>4. drain' \in [Drains -> Drain]
  BY <1>2 DEF Crash
<1>5. unsettled' \in [Deliveries -> Nat]
  BY <1>1 DEF Crash, TypeOK
<1>6. TypeOK'
  <2>1. faults' \in 0..MaxFaults
    BY FaultCounts DEF Crash
  <2> QED
    BY <1>1, <1>4, <1>5, <2>1 DEF Crash, TypeOK
<1>7. OneDrain' /\ \A w \in Drains : DrainInv(w)'
  BY <1>2, <1>3 DEF OneDrain, DrainInv
<1> QED
  BY <1>6, <1>7, RowsKept DEF Crash, QueueInv

LEMMA StartDrainKeeps ==
  ASSUME QueueInv, NEW w \in Drains, StartDrain(w)
  PROVE  QueueInv'
<1>1. TypeOK /\ drain \in [Drains -> Drain]
  BY DEF QueueInv, TypeOK
<1>2. \A x \in Drains : drain[x].pc = "idle" /\ drain[x].batch = {}
  BY DEF QueueInv, DrainInv, StartDrain, Locked
<1>3. PICK batch \in SUBSET PendingRows :
        drain' = [drain EXCEPT ![w] = Working("next", batch, NoDelivery, 0)]
  BY DEF StartDrain
<1> DEFINE q == [pc |-> "next", batch |-> batch, cur |-> NoDelivery, attempts |-> 0,
                 giveUp |-> FALSE, caught |-> FALSE]
<1>4. q \in Drain
  BY QueueAssumption DEF Drain, Pc, PendingRows
<1>5. drain' = [drain EXCEPT ![w] = q]
  BY <1>3 DEF Working
<1>6. TypeOK'
  BY <1>1, <1>4, <1>5 DEF StartDrain, TypeOK
<1>7. drain'[w] = q /\ \A x \in Drains \ {w} : drain'[x] = drain[x]
  BY <1>1, <1>5
<1>8. OneDrain'
  BY <1>2, <1>7 DEF OneDrain
<1>9. DrainInv(w)'
  <2>1. \A d \in batch : Open(d)' /\ d \in Deliveries
    BY DEF PendingRows, Pending, Open, StartDrain
  <2> QED
    BY <1>7, <2>1, QueueAssumption DEF DrainInv, StartDrain
<1>10. ASSUME NEW x \in Drains \ {w} PROVE DrainInv(x)'
  BY <1>2, <1>7, <1>10 DEF DrainInv
<1> QED
  BY <1>6, <1>8, <1>9, <1>10, RowsKept DEF QueueInv, StartDrain

(* Enroll and BecomeDue write a row no drain works on, or leave it as open   *)
(* as it was.                                                                *)
LEMMA OtherRowsKeep ==
  ASSUME QueueInv, NEW d \in Deliveries, NEW r \in Row,
         row' = [row EXCEPT ![d] = r],
         UNCHANGED <<sentLog, inbox, unsettled, lock, drain, faults>>,
         row[d].status # "sent", d \notin sentLog,
         r.status \in {"pending", "failed"}, r.attempts < MaxAttempts,
         Open(d) => r.attempts = row[d].attempts
  PROVE  QueueInv'
<1>1. TypeOK /\ AttemptsLeft /\ SentWasDelivered /\ row \in [Deliveries -> Row]
      /\ drain \in [Drains -> Drain]
  BY DEF QueueInv, TypeOK
<1>2. row'[d] = r /\ \A e \in Deliveries \ {d} : row'[e] = row[e]
  BY <1>1
<1>3. TypeOK'
  BY <1>1 DEF TypeOK
<1>4. OneDrain' /\ AttemptsLeft' /\ SentWasDelivered'
  BY <1>1, <1>2 DEF QueueInv, OneDrain, AttemptsLeft, SentWasDelivered, Open
<1>5. ASSUME NEW w \in Drains PROVE DrainInv(w)'
  <2>1. DrainInv(w) /\ drain[w].batch \subseteq Deliveries
    BY <1>1 DEF QueueInv, Drain
  <2>2. \A e \in Deliveries : Open(e) => Open(e)' /\ row'[e].attempts = row[e].attempts
    BY <1>2 DEF Open
  <2>3. \A e \in Deliveries : row[e].status = "sent" => row'[e].status = "sent"
    BY <1>2
  <2> QED
    BY <2>1, <2>2, <2>3 DEF DrainInv, Open
<1> QED
  BY <1>3, <1>4, <1>5 DEF QueueInv

LEMMA EnrollKeeps ==
  ASSUME QueueInv, NEW d \in Deliveries, Enroll(d)
  PROVE  QueueInv'
<1> DEFINE r == [status |-> "pending", attempts |-> 0, due |-> TRUE]
<1>1. r \in Row /\ r.status = "pending" /\ r.attempts < MaxAttempts
  BY QueueAssumption DEF Row
<1>2. row[d].status = "absent" /\ d \notin sentLog /\ ~Open(d)
  BY DEF Enroll, NotEnrolled, Open, QueueInv, SentWasDelivered
<1> QED
  BY <1>1, <1>2, OtherRowsKeep DEF Enroll

LEMMA BecomeDueKeeps ==
  ASSUME QueueInv, NEW d \in Deliveries, BecomeDue(d)
  PROVE  QueueInv'
<1>1. row \in [Deliveries -> Row] /\ row[d] \in Row /\ row[d].status = "failed"
  BY DEF QueueInv, TypeOK, BecomeDue
<1> DEFINE r == [row[d] EXCEPT !.due = TRUE]
<1>2. r \in Row /\ r.status = "failed" /\ r.attempts = row[d].attempts
  BY <1>1 DEF Row
<1>3. r.attempts < MaxAttempts /\ d \notin sentLog
  BY <1>1, <1>2 DEF QueueInv, AttemptsLeft, SentWasDelivered, Open
<1>4. row' = [row EXCEPT ![d] = r]
  BY <1>1 DEF BecomeDue
<1> HIDE DEF r
<1> QED
  BY <1>1, <1>2, <1>3, <1>4, OtherRowsKeep DEF BecomeDue

-----------------------------------------------------------------------------
(* Theorems *)

LEMMA QueueInvInvariant == Spec => []QueueInv
<1>1. QueueInv /\ [Next]_vars => QueueInv'
  <2> SUFFICES ASSUME QueueInv, [Next]_vars PROVE QueueInv'
    OBVIOUS
  <2>1. CASE Next
    <3>1. ASSUME NEW d \in Deliveries, Enroll(d) \/ BecomeDue(d) PROVE QueueInv'
      BY <3>1, EnrollKeeps, BecomeDueKeeps
    <3>2. ASSUME NEW w \in Drains,
                 StartDrain(w) \/ Work(w) \/ TryThrows(w) \/ CatchThrows(w)
          PROVE  QueueInv'
      BY <3>2, StartDrainKeeps, TakeRowKeeps, FinishKeeps, SendKeeps, SettleKeeps,
         LogSentKeeps, FailDeliveryKeeps, TryThrowsKeeps, CatchThrowsKeeps DEF Work
    <3>3. CASE Crash
      BY <3>3, CrashKeeps
    <3> QED
      BY <2>1, <3>1, <3>2, <3>3 DEF Next
  <2>2. CASE UNCHANGED vars
    BY <2>2 DEF vars, QueueInv, TypeOK, OneDrain, AttemptsLeft, Open, DrainInv,
                SentWasDelivered
  <2> QED
    BY <2>1, <2>2
<1> QED
  BY InitQueueInv, <1>1, PTL DEF Spec

(* However drains, enrolments, faults and restarts interleave, every row     *)
(* keeps its attempts between 0 and max_attempts.                            *)
THEOREM TypeCorrect == Spec => []TypeOK
<1>1. QueueInv => TypeOK
  BY DEF QueueInv
<1> QED
  BY <1>1, QueueInvInvariant, PTL

(* What the log or a row calls sent did reach its recipient: settleDelivery  *)
(* only runs after the provider took the message, and logNotification after  *)
(* settleDelivery.                                                           *)
THEOREM SentReachedRecipient == Spec => []SentWasDelivered
<1>1. QueueInv => SentWasDelivered
  BY DEF QueueInv
<1> QED
  BY <1>1, QueueInvInvariant, PTL

(* A row that was sent or given up never changes again: drainLock keeps a    *)
(* second drain from settling what the first has settled, and no dispatch    *)
(* enrols it anew.                                                           *)
THEOREM SettledStaysSettled == Spec => SettledIsFinal
<1> DEFINE Final == \A d \in Deliveries :
                      row[d].status \in {"sent", "dead"} => row'[d] = row[d]
<1>1. QueueInv /\ [Next]_vars => [Final]_vars
  <2> SUFFICES ASSUME QueueInv, Next PROVE Final
    OBVIOUS
  <2>1. row \in [Deliveries -> Row]
    BY DEF QueueInv, TypeOK
  <2>2. ASSUME NEW e \in Deliveries, Enroll(e) \/ BecomeDue(e) PROVE Final
    BY <2>1, <2>2 DEF Enroll, NotEnrolled, BecomeDue
  <2>3. ASSUME NEW w \in Drains, Settle(w) \/ FailDelivery(w) PROVE Final
    <3>1. drain[w].cur \in Deliveries /\ Open(drain[w].cur)
      BY <2>3 DEF QueueInv, DrainInv, Settle, FailDelivery, At
    <3> QED
      BY <2>1, <2>3, <3>1 DEF Settle, FailDelivery, Open
  <2>4. ASSUME NEW w \in Drains,
               StartDrain(w) \/ TakeRow(w) \/ Finish(w) \/ Send(w) \/ LogSent(w)
               \/ TryThrows(w) \/ CatchThrows(w)
        PROVE  Final
    BY <2>4 DEF StartDrain, TakeRow, Finish, Send, LogSent, TryThrows, CatchThrows
  <2>5. CASE Crash
    BY <2>5 DEF Crash
  <2> QED
    BY <2>2, <2>3, <2>4, <2>5 DEF Next, Work
<1> QED
  BY QueueInvInvariant, <1>1, PTL DEF Spec, SettledIsFinal

-----------------------------------------------------------------------------
(* Copies *)

AbsentUntried == \A d \in Deliveries : row[d].status = "absent" => row[d].attempts = 0

Copies(d) == inbox[d] <= row[d].attempts + unsettled[d] + (IF InFlight(d) THEN 1 ELSE 0)

(* Only the drain at work has a send in flight. *)
LEMMA Flight ==
  ASSUME QueueInv, NEW w \in Drains, drain[w].pc # "idle",
         \A x \in Drains \ {w} : drain'[x] = drain[x], NEW d
  PROVE  /\ InFlight(d) <=> drain[w].cur = d /\ drain[w].pc \in {"settle", "fail"}
         /\ InFlight(d)' <=> drain'[w].cur = d /\ drain'[w].pc \in {"settle", "fail"}
<1>1. \A x \in Drains \ {w} : drain'[x].pc = "idle" /\ drain[x].pc = "idle"
  BY OthersIdle
<1> QED
  BY <1>1 DEF InFlight

LEMMA Counts ==
  ASSUME QueueInv, NEW d \in Deliveries
  PROVE  inbox[d] \in Nat /\ unsettled[d] \in Nat /\ row[d].attempts \in Nat
BY QueueAssumption DEF QueueInv, TypeOK, Row

LEMMA WorkCopies ==
  ASSUME QueueInv, QueueInv', CopiesAreAttempts, NEW w \in Drains,
         Work(w) \/ TryThrows(w) \/ CatchThrows(w), NEW d \in Deliveries
  PROVE  Copies(d)'
<1>1. /\ inbox[d] \in Nat /\ unsettled[d] \in Nat /\ row[d].attempts \in Nat
      /\ Copies(d)
  BY Counts DEF CopiesAreAttempts, Copies
<1>2. /\ row \in [Deliveries -> Row] /\ inbox \in [Deliveries -> Nat]
      /\ unsettled \in [Deliveries -> Nat]
      /\ drain \in [Drains -> Drain] /\ drain[w] \in Drain
  BY DEF QueueInv, TypeOK
<1>3. \A x \in Drains \ {w} : drain'[x] = drain[x]
  BY <1>2 DEF Work, TakeRow, Finish, Send, Settle, LogSent, FailDelivery, TryThrows,
              CatchThrows, Goto
<1>4. drain[w].pc # "idle"
  BY DEF Work, TakeRow, Finish, Send, Settle, LogSent, FailDelivery, TryThrows,
         CatchThrows, At
<1>5. /\ InFlight(d) <=> drain[w].cur = d /\ drain[w].pc \in {"settle", "fail"}
      /\ InFlight(d)' <=> drain'[w].cur = d /\ drain'[w].pc \in {"settle", "fail"}
  BY <1>3, <1>4, Flight
<1>6. CASE TakeRow(w) \/ Finish(w) \/ LogSent(w)
  <2>1. drain[w].pc \in {"next", "log"} /\ UNCHANGED <<row, inbox, unsettled>>
    BY <1>6 DEF TakeRow, Finish, LogSent, At
  <2> QED
    BY <1>1, <1>5, <2>1 DEF Copies
<1>7. CASE Send(w)
  <2>1. drain[w].pc = "send" /\ UNCHANGED <<row, unsettled>>
    BY <1>7 DEF Send, At
  <2>2. inbox'[d] = inbox[d] \/ (d = drain[w].cur /\ inbox'[d] = inbox[d] + 1)
    BY <1>2, <1>7 DEF Send, Delivers
  <2>3. drain'[w].pc \in {"settle", "fail"} /\ drain'[w].cur = drain[w].cur
    BY <1>2, <1>7 DEF Send, Goto, Drain
  <2> QED
    BY <1>1, <1>5, <2>1, <2>2, <2>3 DEF Copies
<1>8. CASE Settle(w) \/ FailDelivery(w)
  <2>1. drain[w].pc \in {"settle", "fail"} /\ UNCHANGED <<inbox, unsettled>>
    BY <1>8 DEF Settle, FailDelivery, At
  <2>2. IF d = drain[w].cur THEN row'[d].attempts = row[d].attempts + 1
                            ELSE row'[d] = row[d]
    BY <1>2, <1>8 DEF Settle, FailDelivery, Marked
  <2> QED
    BY <1>1, <1>5, <2>1, <2>2 DEF Copies
<1>9. CASE TryThrows(w)
  <2>1. drain[w].pc \in {"settle", "fail"} /\ UNCHANGED <<row, inbox, unsettled>>
    BY <1>9 DEF TryThrows, At
  <2>2. drain'[w].pc = "fail" /\ drain'[w].cur = drain[w].cur
    BY <1>2, <1>9 DEF TryThrows, Drain
  <2> QED
    BY <1>1, <1>5, <2>1, <2>2 DEF Copies
<1>10. CASE CatchThrows(w)
  <2>1. drain[w].pc = "fail" /\ UNCHANGED <<row, inbox>>
    BY <1>10 DEF CatchThrows, At
  <2>2. IF d = drain[w].cur THEN unsettled'[d] = unsettled[d] + 1
                            ELSE unsettled'[d] = unsettled[d]
    BY <1>2, <1>10 DEF CatchThrows
  <2>3. unsettled'[d] \in Nat
    BY <1>1, <2>2
  <2> QED
    BY <1>1, <1>5, <2>1, <2>2, <2>3 DEF Copies
<1> QED
  BY <1>6, <1>7, <1>8, <1>9, <1>10 DEF Work

LEMMA OtherCopies ==
  ASSUME QueueInv, CopiesAreAttempts, AbsentUntried, NEW d \in Deliveries,
         Crash \/ (\E w \in Drains : StartDrain(w))
               \/ (\E e \in Deliveries : Enroll(e) \/ BecomeDue(e))
  PROVE  Copies(d)'
<1>1. /\ inbox[d] \in Nat /\ unsettled[d] \in Nat /\ row[d].attempts \in Nat
      /\ Copies(d) /\ row \in [Deliveries -> Row] /\ drain \in [Drains -> Drain]
  BY Counts DEF CopiesAreAttempts, Copies, QueueInv, TypeOK
<1>2. CASE Crash
  <2>1. ~InFlight(d)'
    BY <1>2 DEF Crash, InFlight, Idle, Working
  <2>2. UNCHANGED <<row, inbox>>
        /\ unsettled'[d] = IF InFlight(d) THEN unsettled[d] + 1 ELSE unsettled[d]
    BY <1>2 DEF Crash, InFlight
  <2> QED
    BY <1>1, <2>1, <2>2 DEF Copies
<1>3. ASSUME NEW w \in Drains, StartDrain(w)
      PROVE  Copies(d)'
  <2>1. UNCHANGED <<row, inbox, unsettled>> /\ drain[w].pc = "idle"
    BY <1>3 DEF StartDrain, At
  <2>2. drain'[w].pc = "next" /\ \A x \in Drains \ {w} : drain'[x] = drain[x]
    BY <1>1, <1>3 DEF StartDrain, Working
  <2>3. InFlight(d)' <=> InFlight(d)
    BY <2>1, <2>2 DEF InFlight
  <2> QED
    BY <1>1, <2>1, <2>3 DEF Copies
<1>4. ASSUME NEW e \in Deliveries, Enroll(e) \/ BecomeDue(e)
      PROVE  Copies(d)'
  <2>1. UNCHANGED <<inbox, unsettled, drain>>
    BY <1>4 DEF Enroll, BecomeDue
  <2>2. row'[d].attempts = row[d].attempts
    BY <1>1, <1>4 DEF Enroll, NotEnrolled, BecomeDue, AbsentUntried, Row
  <2> QED
    BY <1>1, <2>1, <2>2 DEF Copies, InFlight
<1> QED
  BY <1>2, <1>3, <1>4

LEMMA AbsentKept ==
  ASSUME QueueInv, AbsentUntried, Next
  PROVE  AbsentUntried'
<1>1. row \in [Deliveries -> Row]
  BY DEF QueueInv, TypeOK
<1>2. ASSUME NEW d \in Deliveries, row'[d].status = "absent"
      PROVE  row'[d] = row[d]
  <2>1. ASSUME NEW e \in Deliveries, Enroll(e) \/ BecomeDue(e) PROVE row'[d] = row[d]
    BY <1>1, <1>2, <2>1 DEF Enroll, BecomeDue, Row
  <2>2. ASSUME NEW w \in Drains, Settle(w) \/ FailDelivery(w) PROVE row'[d] = row[d]
    BY <1>1, <1>2, <2>2 DEF Settle, FailDelivery, Marked
  <2> QED
    BY <2>1, <2>2 DEF Next, Work, StartDrain, TakeRow, Finish, Send, LogSent, TryThrows,
                      CatchThrows, Crash
<1> QED
  BY <1>2 DEF AbsentUntried

(* Every copy of a message the recipient gets is accounted for: by an        *)
(* attempt on its row, by a send a fault left unsettled, or by the send      *)
(* under way.  Overlapping drains never send outside that account.           *)
THEOREM CopiesAccounted == Spec => []CopiesAreAttempts
<1> DEFINE CopiesInv == CopiesAreAttempts /\ AbsentUntried
<1>1. Init => CopiesInv
  BY DEF Init, CopiesAreAttempts, AbsentUntried, InFlight, Idle, Working
<1>2. QueueInv /\ QueueInv' /\ CopiesInv /\ [Next]_vars => CopiesInv'
  <2> SUFFICES ASSUME QueueInv, QueueInv', CopiesInv, [Next]_vars
               PROVE  CopiesInv'
    OBVIOUS
  <2>1. CASE Next
    <3>1. ASSUME NEW d \in Deliveries PROVE Copies(d)'
      BY <2>1, WorkCopies, OtherCopies DEF Next
    <3> QED
      BY <2>1, <3>1, AbsentKept DEF CopiesAreAttempts, Copies
  <2>2. CASE UNCHANGED vars
    BY <2>2 DEF vars, CopiesAreAttempts, AbsentUntried, InFlight
  <2> QED
    BY <2>1, <2>2
<1>3. CopiesInv => CopiesAreAttempts
  OBVIOUS
<1> QED
  BY QueueInvInvariant, <1>1, <1>2, <1>3, PTL DEF Spec
=============================================================================
