----------------------------- MODULE BillingProofs -----------------------------
(***************************************************************************)
(* Every safety invariant of SubscriptionBilling but the refuted one, for  *)
(* any invoices, attempts, requests and faults.  Five inductive invariants *)
(* build on each other:                                                    *)
(*   NoticeInv    no suspension comes without its notice;                  *)
(*   SettledInv   follow-ups end as their invoices did;                    *)
(*   Standing     rows and requests keep their types, and requests their   *)
(*                attempts to themselves: an attempt completes for an      *)
(*                invoice that is paid, and only one attempt does;         *)
(*   StandingInv  and what requests may still grant stays within bounds;   *)
(*   FreeTimeInv  and whatever expiry may still be written leaves room for *)
(*                the paid invoices that a sweep has yet to record.        *)
(***************************************************************************)
EXTENDS SubscriptionBilling, FiniteSetTheorems, TLAPS

-----------------------------------------------------------------------------
(* Notices: what the follow-ups, and the sweep's copies of them, say.        *)
FollowRow(f) ==
  /\ f = [status |-> f.status, warnAt |-> f.warnAt, sentAt |-> f.sentAt,
          suspendAt |-> f.suspendAt, extension |-> f.extension]
  /\ f.sentAt \in Days /\ f.suspendAt \in Days /\ f.extension \in Nat

(* A day of suspension lies a grace period after the notice.                 *)
Noticed(f) ==
  /\ f.suspendAt # NoDay => f.sentAt # NoDay /\ f.suspendAt >= f.sentAt + Grace
  /\ f.status \in {"suspending", "suspended"} => f.sentAt # NoDay /\ day >= f.sentAt + Grace
FollowsNoticed ==
  /\ follow = [i \in Invoices |-> follow[i]]
  /\ \A i \in Invoices : FollowRow(follow[i]) /\ Noticed(follow[i])

Unwarned == {"none", "warning_pending", "warning_sending"}
(* Once a row was warned no other notice moves its day of suspension, so the *)
(* copy a sweep read still tells when the notice was sent.                   *)
CopyTrue(i) ==
  LET row == sweep.rows[i] IN
  /\ row.suspendAt \in Days /\ row.status \in {"warning_pending", "warned"}
  /\ row.status = "warned" =>
       /\ follow[i].status \notin Unwarned
       /\ row.suspendAt # NoDay => /\ follow[i].sentAt # NoDay
                                   /\ row.suspendAt >= follow[i].sentAt + Grace
SweepTrue ==
  /\ sweep = [pc |-> sweep.pc, now |-> sweep.now, row |-> sweep.row, rows |-> sweep.rows,
              i |-> sweep.i]
  /\ sweep.now \in Nat /\ sweep.now <= day
  /\ DOMAIN sweep.rows \subseteq Invoices
  /\ \A i \in DOMAIN sweep.rows : CopyTrue(i)
  /\ sweep.pc \notin {"idle", "next"} => sweep.i \in DOMAIN sweep.rows
  /\ sweep.pc = "claim" /\ Row.status = "warned" =>
       Row.suspendAt # NoDay /\ Row.suspendAt <= sweep.now

NoticeInv == day \in Nat /\ FollowsNoticed /\ SweepTrue

(* What no step takes back                                                   *)
Keeps(j) == /\ follow'[j].sentAt = follow[j].sentAt
            /\ follow[j].status \notin Unwarned => follow'[j].status \notin Unwarned

(* The status of one follow-up is written.                                   *)
Sets(i, s) == follow' = [follow EXCEPT ![i].status = s]

LEMMA StatusSet ==
  ASSUME NoticeInv, UNCHANGED day, NEW i, NEW s, Sets(i, s),
         i \in Invoices =>
           \/ s \notin {"suspending", "suspended"}
           \/ follow[i].sentAt # NoDay /\ day >= follow[i].sentAt + Grace
  PROVE  /\ FollowsNoticed'
         /\ \A j \in Invoices : /\ follow'[j].sentAt = follow[j].sentAt
                                /\ follow'[j].status \in {s, follow[j].status}
                                /\ j # i => follow'[j].status = follow[j].status
<1>1. follow' = [j \in Invoices |-> follow'[j]]
  BY DEF Sets, NoticeInv, FollowsNoticed
<1>2. ASSUME NEW j \in Invoices
      PROVE  /\ FollowRow(follow'[j]) /\ Noticed(follow[j])
             /\ follow'[j].sentAt = follow[j].sentAt /\ follow'[j].suspendAt = follow[j].suspendAt
             /\ follow'[j].status = IF j = i THEN s ELSE follow[j].status
  BY DEF Sets, NoticeInv, FollowsNoticed, FollowRow
<1>3. ASSUME NEW j \in Invoices PROVE Noticed(follow[j])'
  BY <1>2 DEF Noticed
<1> QED BY <1>1, <1>2, <1>3 DEF FollowsNoticed

LEMMA CopiesStayTrue ==
  ASSUME NoticeInv, \A j \in Invoices : Keeps(j),
         DOMAIN sweep'.rows \subseteq DOMAIN sweep.rows,
         \A j \in DOMAIN sweep'.rows : sweep'.rows[j] = sweep.rows[j]
  PROVE  \A j \in DOMAIN sweep'.rows : CopyTrue(j)'
BY DEF NoticeInv, SweepTrue, CopyTrue, Keeps

Plain == {"warned", "paid", "cancelled"}

(* Steps of requests *)
LEMMA OutsideSweep ==
  ASSUME NoticeInv, UNCHANGED <<day, sweep>>, FollowsNoticed', \A j \in Invoices : Keeps(j)
  PROVE  NoticeInv'
<1>1. \A j \in DOMAIN sweep.rows : CopyTrue(j)'
  BY CopiesStayTrue
<1> QED BY <1>1 DEF NoticeInv, SweepTrue, Row

LEMMA SettlesOutside ==
  ASSUME NoticeInv, UNCHANGED <<day, sweep>>, NEW i, NEW from, NEW to \in {"paid", "cancelled"},
         Settles(i, from, to)
  PROVE  NoticeInv'
<1>1. PICK s : /\ Sets(i, s)
               /\ s = IF follow[i].status \in from THEN to ELSE follow[i].status
  BY DEF Settles, Sets
<1>2. i \in Invoices => \/ s \notin {"suspending", "suspended"}
                        \/ follow[i].sentAt # NoDay /\ day >= follow[i].sentAt + Grace
  BY <1>1 DEF NoticeInv, FollowsNoticed, Noticed
<1>3. UNCHANGED day
  OBVIOUS
<1>4. /\ FollowsNoticed'
      /\ \A j \in Invoices : /\ follow'[j].sentAt = follow[j].sentAt
                             /\ follow'[j].status \in {s, follow[j].status}
                             /\ j # i => follow'[j].status = follow[j].status
  BY <1>1, <1>2, <1>3, StatusSet
<1>5. \A j \in Invoices : Keeps(j)
  BY <1>1, <1>4 DEF Keeps, Unwarned
<1> QED BY <1>4, <1>5, OutsideSweep

(* Steps of the sweep between its rows *)
LEMMA SweepMoves ==
  ASSUME NoticeInv, UNCHANGED day, FollowsNoticed', \A j \in Invoices : Keeps(j),
         sweep.pc \notin {"idle", "next"},
         SweepDone \/ \E pc : pc # "claim" /\ SweepGoes(pc)
  PROVE  NoticeInv'
<1>1. CASE \E pc : pc # "claim" /\ SweepGoes(pc)
  <2>1. PICK pc : pc # "claim" /\ sweep' = [sweep EXCEPT !.pc = pc]
    BY <1>1 DEF SweepGoes
  <2>2. sweep' = [pc |-> pc, now |-> sweep.now, row |-> sweep.row, rows |-> sweep.rows,
                  i |-> sweep.i]
    BY <2>1 DEF NoticeInv, SweepTrue
  <2>3. \A j \in DOMAIN sweep'.rows : CopyTrue(j)'
    BY <2>2, CopiesStayTrue
  <2> QED BY <2>1, <2>2, <2>3 DEF NoticeInv, SweepTrue
<1>2. CASE SweepDone
  <2> DEFINE rest == DOMAIN sweep.rows \ {sweep.i}
  <2>1. CASE rest = {}
    <3>1. sweep' = NoSweep
      BY <1>2, <2>1 DEF SweepDone
    <3>2. DOMAIN sweep'.rows = {}
      BY <3>1 DEF NoSweep
    <3> QED BY <3>1, <3>2 DEF NoticeInv, SweepTrue, NoSweep
  <2>2. CASE rest # {}
    <3>1. sweep' = [pc |-> "next", now |-> sweep.now, row |-> sweep.row,
                    rows |-> [j \in rest |-> sweep.rows[j]], i |-> NoInvoice]
      BY <1>2, <2>2 DEF SweepDone, NoticeInv, SweepTrue
    <3>2. \A j \in DOMAIN sweep'.rows : CopyTrue(j)'
      BY <3>1, CopiesStayTrue
    <3> QED BY <3>1, <3>2 DEF NoticeInv, SweepTrue
  <2> QED BY <2>1, <2>2
<1> QED BY <1>1, <1>2

(* A claim, or what gives one back, sets the status of the row at hand.      *)
LEMMA SetsAtHand ==
  ASSUME NoticeInv, UNCHANGED day, sweep.pc \notin {"idle", "next"}, NEW s,
         Sets(sweep.i, s),
         \/ s \notin {"suspending", "suspended"}
         \/ follow[sweep.i].sentAt # NoDay /\ day >= follow[sweep.i].sentAt + Grace,
         follow[sweep.i].status \notin Unwarned => s \notin Unwarned,
         SweepDone \/ \E pc : pc # "claim" /\ SweepGoes(pc)
  PROVE  NoticeInv'
<1>1. /\ FollowsNoticed'
      /\ \A j \in Invoices : /\ follow'[j].sentAt = follow[j].sentAt
                             /\ follow'[j].status \in {s, follow[j].status}
                             /\ j # sweep.i => follow'[j].status = follow[j].status
  BY StatusSet
<1>2. \A j \in Invoices : Keeps(j)
  BY <1>1 DEF Keeps
<1> QED BY <1>1, <1>2, SweepMoves

LEMMA SameFollows ==
  ASSUME NoticeInv, UNCHANGED <<day, follow>>
  PROVE  FollowsNoticed' /\ \A j \in Invoices : Keeps(j)
BY DEF NoticeInv, FollowsNoticed, FollowRow, Noticed, Keeps

LEMMA SettledStatus ==
  ASSUME NoticeInv, NEW i \in Invoices
  PROVE  \/ follow[i].status \notin {"suspending", "suspended"}
         \/ follow[i].sentAt # NoDay /\ day >= follow[i].sentAt + Grace
BY DEF NoticeInv, FollowsNoticed, Noticed

LEMMA ClaimKeepsNotice ==
  ASSUME NoticeInv, ClaimRow, UNCHANGED day
  PROVE  NoticeInv'
<1> DEFINE i == sweep.i
           s == IF follow[i].status \in {Row.status} THEN Claim ELSE follow[i].status
<1>1. /\ sweep.pc = "claim" /\ Sets(i, s)
      /\ SweepDone \/ SweepGoes("recheck")
  BY DEF ClaimRow, SweepAt, Settles, Sets
<1>2. i \in Invoices /\ i \in DOMAIN sweep.rows /\ CopyTrue(i)
  BY <1>1 DEF NoticeInv, SweepTrue
<1>3. follow[i].sentAt \in Days /\ day \in Nat /\ sweep.now \in Nat /\ sweep.now <= day
      /\ Row.suspendAt \in Days
  BY <1>2 DEF NoticeInv, FollowsNoticed, FollowRow, SweepTrue, CopyTrue, Row
<1>4. CASE follow[i].status = Row.status
  <2>1. CASE Row.status = "warned"
    <3>1. s = "suspending"
      BY <1>4, <2>1 DEF Claim
    <3>2. Row.suspendAt # NoDay /\ Row.suspendAt <= sweep.now
      BY <1>1, <2>1 DEF NoticeInv, SweepTrue
    <3>3. follow[i].sentAt # NoDay /\ Row.suspendAt >= follow[i].sentAt + Grace
      BY <1>2, <2>1, <3>2 DEF CopyTrue, Row
    <3>4. day >= follow[i].sentAt + Grace
      BY <1>3, <3>2, <3>3, BillingAssumption DEF Days, NoDay
    <3> QED BY <1>1, <3>1, <3>3, <3>4, SetsAtHand DEF Unwarned
  <2>2. CASE Row.status # "warned"
    <3>1. s = "warning_sending"
      BY <1>4, <2>2 DEF Claim
    <3>2. follow[i].status = "warning_pending"
      BY <1>2, <1>4, <2>2 DEF CopyTrue, Row
    <3> QED BY <1>1, <3>1, <3>2, SetsAtHand DEF Unwarned
  <2> QED BY <2>1, <2>2
<1>5. CASE follow[i].status # Row.status
  BY <1>1, <1>2, <1>5, SettledStatus, SetsAtHand
<1> QED BY <1>4, <1>5

LEMMA SettleKeepsNotice ==
  ASSUME NoticeInv, UNCHANGED day, sweep.pc \notin {"idle", "next"},
         NEW from, NEW to \in Plain \cup {"suspended"}, Settles(sweep.i, from, to),
         to = "suspended" => from = {"suspending"},
         SweepDone \/ \E pc : pc # "claim" /\ SweepGoes(pc)
  PROVE  NoticeInv'
<1> DEFINE i == sweep.i
           s == IF follow[i].status \in from THEN to ELSE follow[i].status
<1>1. Sets(i, s) /\ i \in Invoices
  BY DEF Settles, Sets, NoticeInv, SweepTrue
<1>2. \/ s \notin {"suspending", "suspended"}
      \/ follow[i].sentAt # NoDay /\ day >= follow[i].sentAt + Grace
  BY <1>1, SettledStatus DEF Plain
<1>3. follow[i].status \notin Unwarned => s \notin Unwarned
  BY DEF Unwarned, Plain
<1> QED BY <1>1, <1>2, <1>3, SetsAtHand

LEMMA StartKeepsNotice ==
  ASSUME NoticeInv, UNCHANGED day, NEW stale, NEW skipped, SweepStart(stale, skipped)
  PROVE  NoticeInv'
<1> DEFINE rows == DOMAIN sweep'.rows
<1>1. /\ follow' = [i \in Invoices |-> follow'[i]]
      /\ \A i \in Invoices : /\ FollowRow(follow'[i])
                             /\ follow'[i].sentAt = follow[i].sentAt
                             /\ follow'[i].suspendAt = follow[i].suspendAt
                             /\ follow'[i].status \in {"suspending", "suspended"} =>
                                  follow'[i].status = follow[i].status
  <2> DEFINE s(i) == IF i \in stale THEN Recover(follow[i].status) ELSE follow[i].status
  <2>1. follow' = [i \in Invoices |-> [follow[i] EXCEPT !.status = s(i)]]
    BY DEF SweepStart
  <2>2. \A i \in Invoices : s(i) \in {"suspending", "suspended"} => s(i) = follow[i].status
    BY DEF Recover, Recovered
  <2> HIDE DEF s
  <2>3. ASSUME NEW i \in Invoices
        PROVE  follow'[i] = [status |-> s(i), warnAt |-> follow[i].warnAt,
                             sentAt |-> follow[i].sentAt, suspendAt |-> follow[i].suspendAt,
                             extension |-> follow[i].extension]
    BY <2>1 DEF NoticeInv, FollowsNoticed, FollowRow
  <2>4. \A i \in Invoices : FollowRow(follow[i])
    BY DEF NoticeInv, FollowsNoticed
  <2> QED BY <2>1, <2>2, <2>3, <2>4 DEF FollowRow
<1>2. \A i \in Invoices : Noticed(follow[i])'
  BY <1>1 DEF Noticed, NoticeInv, FollowsNoticed
<1>3. /\ sweep' = [pc |-> "next", now |-> day, row |-> client, rows |-> sweep'.rows,
                   i |-> NoInvoice]
      /\ rows \subseteq Invoices
      /\ \A i \in rows : /\ sweep'.rows[i] = follow'[i]
                         /\ follow'[i].status \in {"warning_pending", "warned"}
  BY DEF SweepStart, NoSweep
<1>4. \A i \in rows : CopyTrue(i)'
  BY <1>1, <1>2, <1>3 DEF CopyTrue, Noticed, Unwarned, FollowRow
<1> QED BY <1>1, <1>2, <1>3, <1>4 DEF NoticeInv, FollowsNoticed, SweepTrue

LEMMA LookUpKeepsNotice ==
  ASSUME NoticeInv, LookUpInvoice, UNCHANGED day
  PROVE  NoticeInv'
<1> DEFINE to(i) == IF ~Answers THEN "catch"
                    ELSE CASE invoice[i].status = "paid" -> "reconcile"
                           [] OpenInvoice(i) -> IF Waits(sweep.rows[i]) THEN "skip" ELSE "claim"
                           [] OTHER -> "cancel"
<1>1. PICK i \in DOMAIN sweep.rows : sweep' = [sweep EXCEPT !.pc = to(i), !.i = i]
  BY DEF LookUpInvoice
<1>2. to(i) = "claim" => ~Waits(sweep.rows[i])
  OBVIOUS
<1> HIDE DEF to
<1>6. sweep' = [pc |-> to(i), now |-> sweep.now, row |-> sweep.row, rows |-> sweep.rows, i |-> i]
  BY <1>1 DEF NoticeInv, SweepTrue
<1>3. UNCHANGED follow /\ FollowsNoticed' /\ \A j \in Invoices : Keeps(j)
  BY SameFollows DEF LookUpInvoice, tables
<1>4. \A j \in DOMAIN sweep'.rows : CopyTrue(j)'
  BY <1>3, <1>6, CopiesStayTrue
<1>5. to(i) = "claim" /\ sweep.rows[i].status = "warned" =>
        sweep.rows[i].suspendAt # NoDay /\ sweep.rows[i].suspendAt <= sweep.now
  BY <1>1, <1>2 DEF Waits, NoticeInv, SweepTrue, CopyTrue, Days, NoDay
<1> QED BY <1>1, <1>3, <1>4, <1>5, <1>6 DEF NoticeInv, SweepTrue, Row

LEMMA NoticeRow ==
  ASSUME NEW f, FollowRow(f), NEW d, NEW e
  PROVE  [f EXCEPT !.status = "warned", !.sentAt = d, !.suspendAt = e]
           = [status |-> "warned", warnAt |-> f.warnAt, sentAt |-> d, suspendAt |-> e,
              extension |-> f.extension]
<1> DEFINE g == [f EXCEPT !.status = "warned", !.sentAt = d, !.suspendAt = e]
<1>1. DOMAIN f = {"status", "warnAt", "sentAt", "suspendAt", "extension"}
  BY DEF FollowRow
<1>2. DOMAIN g = {"status", "warnAt", "sentAt", "suspendAt", "extension"}
  BY <1>1
<1>3. g = [x \in DOMAIN g |-> g[x]]
  OBVIOUS
<1>4. g.status = "warned" /\ g.sentAt = d /\ g.suspendAt = e
  BY <1>1
<1>5. g.warnAt = f.warnAt /\ g.extension = f.extension
  BY <1>1
<1> HIDE DEF g
<1>6. g = [status |-> "warned", warnAt |-> f.warnAt, sentAt |-> d, suspendAt |-> e,
              extension |-> f.extension]
  BY <1>2, <1>3, <1>4, <1>5
<1> QED BY <1>6 DEF g

LEMMA TrackedRow ==
  ASSUME NEW f, FollowRow(f), NEW w
  PROVE  [f EXCEPT !.status = "warning_pending", !.warnAt = w]
           = [status |-> "warning_pending", warnAt |-> w, sentAt |-> f.sentAt, suspendAt |-> f.suspendAt,
              extension |-> f.extension]
<1> DEFINE g == [f EXCEPT !.status = "warning_pending", !.warnAt = w]
<1>1. DOMAIN f = {"status", "warnAt", "sentAt", "suspendAt", "extension"}
  BY DEF FollowRow
<1>2. DOMAIN g = {"status", "warnAt", "sentAt", "suspendAt", "extension"}
  BY <1>1
<1>3. g = [x \in DOMAIN g |-> g[x]]
  OBVIOUS
<1>4. g.status = "warning_pending" /\ g.warnAt = w
  BY <1>1
<1>5. g.sentAt = f.sentAt /\ g.suspendAt = f.suspendAt /\ g.extension = f.extension
  BY <1>1
<1> HIDE DEF g
<1>6. g = [status |-> "warning_pending", warnAt |-> w, sentAt |-> f.sentAt, suspendAt |-> f.suspendAt,
              extension |-> f.extension]
  BY <1>2, <1>3, <1>4, <1>5
<1> QED BY <1>6 DEF g

Extended(f, x, s, d) == [f EXCEPT !.extension = x, !.status = s, !.suspendAt = d]
LEMMA ExtendedRow ==
  ASSUME NEW f, FollowRow(f), NEW x, NEW s, NEW d
  PROVE  Extended(f, x, s, d)
           = [status |-> s, warnAt |-> f.warnAt, sentAt |-> f.sentAt, suspendAt |-> d,
              extension |-> x]
<1> DEFINE g == [f EXCEPT !.extension = x, !.status = s, !.suspendAt = d]
<1>1. DOMAIN f = {"status", "warnAt", "sentAt", "suspendAt", "extension"}
  BY DEF FollowRow
<1>2. DOMAIN g = {"status", "warnAt", "sentAt", "suspendAt", "extension"}
  BY <1>1
<1>3. g = [y \in DOMAIN g |-> g[y]]
  OBVIOUS
<1>4. g.extension = x /\ g.status = s /\ g.suspendAt = d
  BY <1>1
<1>5. g.warnAt = f.warnAt /\ g.sentAt = f.sentAt
  BY <1>1
<1> HIDE DEF g
<1>6. g = [status |-> s, warnAt |-> f.warnAt, sentAt |-> f.sentAt, suspendAt |-> d,
              extension |-> x]
  BY <1>2, <1>3, <1>4, <1>5
<1> QED BY <1>6 DEF g, Extended

(* A notice is sent for a follow-up whose copy tells of none.                *)
LEMMA WarningKeepsNotice ==
  ASSUME NoticeInv, SendWarning, UNCHANGED day
  PROVE  NoticeInv'
<1>1. /\ sweep.pc = "warn" /\ SweepDone /\ sweep.i \in Invoices /\ day \in Nat
  BY DEF SendWarning, SweepAt, NoticeInv, SweepTrue
<1>2. CASE follow[sweep.i].status # "warning_sending"
  <2>1. FollowsNoticed' /\ \A j \in Invoices : Keeps(j)
    BY <1>2, SameFollows DEF SendWarning
  <2> QED BY <1>1, <2>1, SweepMoves
<1>3. CASE follow[sweep.i].status = "warning_sending"
  <2>1. PICK i \in Invoices : i = sweep.i
    BY <1>1
  <2> DEFINE rest == DOMAIN sweep.rows \ {i}
             w == [status |-> "warned", warnAt |-> follow[i].warnAt, sentAt |-> day,
                   suspendAt |-> SuspendDue(i), extension |-> follow[i].extension]
             e == [follow[i] EXCEPT !.status = "warned", !.sentAt = day,
                                    !.suspendAt = SuspendDue(i)]
  <2>2. FollowRow(follow[i]) /\ follow = [j \in Invoices |-> follow[j]]
    BY DEF NoticeInv, FollowsNoticed
  <2>3. e = w
    BY <2>2, NoticeRow
  <2>4. follow' = [follow EXCEPT ![i] = e]
    BY <1>3, <2>1 DEF SendWarning
  <2> HIDE DEF w, e
  <2>5. /\ follow' = [j \in Invoices |-> follow'[j]] /\ follow'[i] = w
        /\ \A j \in Invoices \ {i} : follow'[j] = follow[j]
    BY <2>2, <2>3, <2>4
  <2>6. SuspendDue(i) \in Nat /\ SuspendDue(i) >= day + Grace /\ Grace \in Nat
    BY <1>1, <2>2, BillingAssumption DEF SuspendDue, FollowRow
  <2>7. FollowRow(follow'[i]) /\ Noticed(follow[i])'
    <3>1. w.status = "warned" /\ w.sentAt = day /\ w.suspendAt = SuspendDue(i)
      BY DEF w
    <3>2. FollowRow(w)
      BY <1>1, <2>2, <2>6 DEF FollowRow, Days, w
    <3> QED BY <1>1, <2>5, <2>6, <3>1, <3>2 DEF Noticed, NoDay
  <2>8. \A j \in Invoices \ {i} : FollowRow(follow'[j]) /\ Noticed(follow[j])'
    BY <2>5 DEF NoticeInv, FollowsNoticed, Noticed
  <2>9. FollowsNoticed'
    BY <2>5, <2>7, <2>8 DEF FollowsNoticed
  <2>10. CASE rest = {}
    <3>1. sweep' = NoSweep
      BY <1>1, <2>1, <2>10 DEF SweepDone
    <3> QED BY <1>1, <2>9, <3>1 DEF NoticeInv, SweepTrue, NoSweep
  <2>11. CASE rest # {}
    <3>1. sweep' = [pc |-> "next", now |-> sweep.now, row |-> sweep.row,
                    rows |-> [j \in rest |-> sweep.rows[j]], i |-> NoInvoice]
      BY <1>1, <2>1, <2>11 DEF SweepDone, NoticeInv, SweepTrue
    <3>2. \A j \in rest : CopyTrue(j) /\ follow'[j] = follow[j]
      BY <2>5 DEF NoticeInv, SweepTrue
    <3>3. \A j \in rest : CopyTrue(j)'
      BY <3>1, <3>2 DEF CopyTrue
    <3> QED BY <2>9, <3>1, <3>3 DEF NoticeInv, SweepTrue
  <2> QED BY <2>10, <2>11
<1> QED BY <1>2, <1>3

LEMMA TrackKeepsNotice ==
  ASSUME NoticeInv, NEW r, TrackProformaFollowup(r), UNCHANGED <<day, sweep>>
  PROVE  NoticeInv'
<1> DEFINE i == req[r].invoice
           w == invoice[i].created + WarnAfter
<1>1. /\ \/ follow' = follow
         \/ /\ follow[i].status = "none"
            /\ follow' = [follow EXCEPT ![i] = [follow[i] EXCEPT !.status = "warning_pending",
                                                              !.warnAt = w]]
  BY DEF TrackProformaFollowup
<1>2. FollowsNoticed' /\ \A j \in Invoices : Keeps(j)
  <2>1. CASE follow' = follow
    BY <2>1, SameFollows
  <2>2. CASE follow' # follow
    <3> HIDE DEF w
    <3>1. PICK k : k = i
      OBVIOUS
    <3>2. /\ follow = [j \in Invoices |-> follow[j]]
          /\ \A j \in Invoices : FollowRow(follow[j]) /\ Noticed(follow[j])
      BY DEF NoticeInv, FollowsNoticed
    <3>3. follow' = [follow EXCEPT ![k] = [follow[k] EXCEPT !.status = "warning_pending",
                                                           !.warnAt = w]]
      BY <1>1, <2>2, <3>1
    <3>4. ASSUME NEW j \in Invoices PROVE FollowRow(follow'[j]) /\ Noticed(follow[j])' /\ Keeps(j)
      <4>1. CASE j # k
        <5>1. follow'[j] = follow[j]
          BY <3>2, <3>3, <4>1
        <5> QED BY <3>2, <5>1 DEF Noticed, Keeps
      <4>2. CASE j = k
        <5> DEFINE f == follow[j]
        <5>1. follow'[j] = [f EXCEPT !.status = "warning_pending", !.warnAt = w]
          BY <3>2, <3>3, <4>2
        <5>2. FollowRow(f) /\ Noticed(f) /\ f.status = "none"
          BY <1>1, <2>2, <3>1, <3>2, <4>2
        <5>3. follow'[j] = [status |-> "warning_pending", warnAt |-> w, sentAt |-> f.sentAt,
                            suspendAt |-> f.suspendAt, extension |-> f.extension]
          BY <5>1, <5>2, TrackedRow
        <5> HIDE DEF f
        <5>4. FollowRow(follow'[j])
          BY <5>2, <5>3 DEF FollowRow
        <5>5. Noticed(follow[j])'
          BY <5>2, <5>3 DEF Noticed
        <5>6. Keeps(j)
          BY <5>2, <5>3 DEF Keeps, Unwarned, f
        <5> QED BY <5>4, <5>5, <5>6
      <4> QED BY <4>1, <4>2
    <3>5. follow' = [j \in Invoices |-> follow'[j]]
      BY <3>2, <3>3
    <3> QED BY <3>4, <3>5 DEF FollowsNoticed
  <2> QED BY <2>1, <2>2
<1> QED BY <1>2, OutsideSweep

LEMMA ExtensionKeepsNotice ==
  ASSUME NoticeInv, NEW r, ExtendUsage(r), UNCHANGED <<day, sweep>>
  PROVE  NoticeInv'
<1> DEFINE s(i) == IF follow[i].status = "suspending" THEN "warned" ELSE follow[i].status
           d(i) == IF follow[i].suspendAt = NoDay THEN NoDay ELSE follow[i].suspendAt + Extension
<1>1. /\ follow' = [i \in Invoices |->
                     IF follow[i].status \notin Tracked THEN follow[i]
                     ELSE [follow[i] EXCEPT !.extension = follow[i].extension + Extension,
                                            !.status = s(i), !.suspendAt = d(i)]]
  BY DEF ExtendUsage
<1>2. /\ Extension \in Nat
      /\ \A i \in Invoices : FollowRow(follow[i]) /\ Noticed(follow[i])
  BY BillingAssumption DEF NoticeInv, FollowsNoticed
<1>3. ASSUME NEW i \in Invoices
      PROVE  /\ s(i) \in {"suspending", "suspended"} => s(i) = follow[i].status
             /\ follow[i].status \notin Unwarned => s(i) \notin Unwarned
             /\ d(i) \in Days
             /\ d(i) # NoDay => follow[i].suspendAt # NoDay /\ d(i) >= follow[i].suspendAt
  <2>1. follow[i].suspendAt \in Days
    BY <1>2 DEF FollowRow
  <2>2. d(i) \in Days /\ (d(i) # NoDay => follow[i].suspendAt # NoDay /\ d(i) >= follow[i].suspendAt)
    BY <1>2, <2>1 DEF Days, NoDay
  <2>3. s(i) \in {"suspending", "suspended"} => s(i) = follow[i].status
    OBVIOUS
  <2>4. follow[i].status \notin Unwarned => s(i) \notin Unwarned
    BY DEF Unwarned
  <2> QED BY <2>2, <2>3, <2>4
<1> HIDE DEF s, d
<1>4. ASSUME NEW i \in Invoices, follow[i].status \in Tracked
      PROVE  follow'[i] = [status |-> s(i), warnAt |-> follow[i].warnAt,
                           sentAt |-> follow[i].sentAt, suspendAt |-> d(i),
                           extension |-> follow[i].extension + Extension]
  <2>1. follow'[i] = [follow[i] EXCEPT !.extension = follow[i].extension + Extension,
                                       !.status = s(i), !.suspendAt = d(i)]
    BY <1>1, <1>4
  <2>2. follow'[i] = Extended(follow[i], follow[i].extension + Extension, s(i), d(i))
    BY <2>1 DEF Extended
  <2> QED BY <1>2, <2>2, ExtendedRow
<1>5. ASSUME NEW i \in Invoices PROVE FollowRow(follow'[i]) /\ Noticed(follow[i])' /\ Keeps(i)
  <2>1. CASE follow[i].status \notin Tracked
    <3>1. follow'[i] = follow[i]
      BY <1>1, <2>1
    <3> QED BY <1>2, <3>1 DEF Noticed, Keeps
  <2>2. CASE follow[i].status \in Tracked
    <3>1. /\ follow[i].extension \in Nat /\ follow[i].sentAt \in Days
          /\ follow[i].suspendAt \in Days /\ Grace \in Nat
      BY <1>2, BillingAssumption DEF FollowRow
    <3>0. follow'[i] = [status |-> s(i), warnAt |-> follow[i].warnAt,
                        sentAt |-> follow[i].sentAt, suspendAt |-> d(i),
                        extension |-> follow[i].extension + Extension]
      BY <1>4, <2>2
    <3>2. /\ follow'[i].status = s(i) /\ follow'[i].sentAt = follow[i].sentAt
          /\ follow'[i].suspendAt = d(i)
      BY <3>0
    <3>3. FollowRow(follow'[i])
      <4>1. follow[i].extension + Extension \in Nat /\ d(i) \in Days
        BY <1>2, <1>3, <3>1
      <4> QED BY <3>0, <3>1, <4>1 DEF FollowRow
    <3>4. follow[i].suspendAt # NoDay =>
            follow[i].sentAt # NoDay /\ follow[i].suspendAt >= follow[i].sentAt + Grace
      BY <1>2 DEF Noticed
    <3>5. d(i) # NoDay => follow[i].sentAt # NoDay /\ d(i) >= follow[i].sentAt + Grace
      BY <1>3, <3>1, <3>4 DEF Days, NoDay
    <3>6. Noticed(follow[i])'
      BY <1>2, <1>3, <3>2, <3>5 DEF Noticed
    <3> QED BY <1>3, <3>2, <3>3, <3>6 DEF Keeps
  <2> QED BY <2>1, <2>2
<1>6. FollowsNoticed'
  BY <1>1, <1>5 DEF FollowsNoticed
<1> QED BY <1>5, <1>6, OutsideSweep

(* The catch of a row gives its claim back. *)
LEMMA CatchKeepsNotice ==
  ASSUME NoticeInv, CatchRow, UNCHANGED day
  PROVE  NoticeInv'
<1> DEFINE s == Recovered(follow[sweep.i].status)
<1>1. sweep.pc \notin {"idle", "next"} /\ Sets(sweep.i, s) /\ SweepDone
  BY DEF CatchRow, Sets, SweepAt
<1>2. sweep.i \in Invoices
  BY <1>1 DEF NoticeInv, SweepTrue
<1>3. s \in {"suspending", "suspended"} => s = follow[sweep.i].status
  BY DEF Recovered
<1>4. follow[sweep.i].status \notin Unwarned => s \notin Unwarned
  BY DEF Recovered, Unwarned
<1> HIDE DEF s
<1>5. \/ s \notin {"suspending", "suspended"}
      \/ follow[sweep.i].sentAt # NoDay /\ day >= follow[sweep.i].sentAt + Grace
  BY <1>2, <1>3, SettledStatus
<1> QED BY <1>1, <1>4, <1>5, SetsAtHand

LEMMA RequestsKeepNotice ==
  ASSUME NoticeInv, NEW r, Request(r), UNCHANGED <<day, sweep>>
  PROVE  NoticeInv'
<1>1. CASE CancelFollowup(r)
  BY <1>1, SettlesOutside DEF CancelFollowup
<1>2. CASE WritePayment(r) \/ RecordExtension(r) \/ SettleFollowup(r)
  BY <1>2, SettlesOutside DEF WritePayment, RecordExtension, SettleFollowup
<1>3. CASE TrackProformaFollowup(r)
  BY <1>3, TrackKeepsNotice
<1>4. CASE \/ SuspendApp(r) \/ MarkSuspended(r) \/ MarkActive(r) \/ ResumeApp(r)
           \/ SuspendOrResume(r) \/ EnforceSubscriptionPayments(r) \/ GenerateInvoice(r)
           \/ ReadRenewal(r) \/ ListInvoices(r) \/ GenerateRenewal(r)
           \/ CheckDelete(r) \/ DeleteInvoice(r) \/ ReadClient(r) \/ GenerateRecorded(r)
           \/ PayInvoice(r) \/ RecordPayment(r) \/ ReadInvoice(r) \/ InsertAttempt(r)
           \/ Prompt(r) \/ SavePush(r) \/ BindCallback(r) \/ ClaimAttempt(r) \/ LoadClient(r)
           \/ VerifyInvoice(r) \/ RecordReceipt(r) \/ RenewSubscription(r)
           \/ CompleteAttempt(r) \/ ReviewAttempt(r)
  <2>1. UNCHANGED follow
    BY <1>4 DEF tables, SuspendApp, MarkSuspended, MarkActive, ResumeApp, SuspendOrResume,
       EnforceSubscriptionPayments, GenerateInvoice, ReadRenewal, ListInvoices, GenerateRenewal,
       CheckDelete, DeleteInvoice, ReadClient, GenerateRecorded, PayInvoice, RecordPayment,
       ReadInvoice, InsertAttempt, Prompt, SavePush, BindCallback, ClaimAttempt, LoadClient,
       VerifyInvoice, RecordReceipt, RenewSubscription, CompleteAttempt, ReviewAttempt
  <2> QED BY <2>1, SameFollows, OutsideSweep
<1> QED BY <1>1, <1>2, <1>3, <1>4 DEF Request

LEMMA SweepKeepsNotice ==
  ASSUME NoticeInv, SweepStep, UNCHANGED day
  PROVE  NoticeInv'
<1>1. CASE LookUpInvoice
  BY <1>1, LookUpKeepsNotice
<1>2. CASE ClaimRow
  BY <1>2, ClaimKeepsNotice
<1>3. CASE SendWarning
  BY <1>3, WarningKeepsNotice
<1>4. CASE UnclaimPaid
  <2>1. Settles(sweep.i, {Claim}, "warned") /\ SweepGoes("reconcile") /\ sweep.pc = "unclaim"
    BY <1>4 DEF UnclaimPaid, SweepAt
  <2> QED BY <2>1, SettleKeepsNotice DEF Plain
<1>5. CASE CancelRow
  <2>1. PICK from : /\ Settles(sweep.i, from, "cancelled") /\ SweepDone
                    /\ sweep.pc \in {"cancel", "drop"}
    BY <1>5 DEF CancelRow, SweepAt
  <2> QED BY <2>1, SettleKeepsNotice DEF Plain
<1>6. CASE FinishSuspension
  <2>1. /\ Settles(sweep.i, {"suspending"}, "suspended") /\ SweepDone /\ sweep.pc = "suspended"
    BY <1>6 DEF FinishSuspension, SweepAt
  <2> QED BY <2>1, SettleKeepsNotice DEF Plain
<1>7. CASE Reconcile
  <2>1. /\ Settles(sweep.i, {"warning_pending", "warned"}, "paid") /\ sweep.pc = "reconcile"
        /\ SweepDone \/ SweepGoes("activate")
    BY <1>7 DEF Reconcile, SweepAt
  <2> QED BY <2>1, SettleKeepsNotice DEF Plain
<1>8. CASE \/ SkipRow \/ RecheckInvoice \/ ConfirmClaim \/ SweepSuspendsApp
           \/ SweepMarksSuspended \/ SweepMarksActive \/ SweepResumesApp
  <2>1. UNCHANGED follow /\ sweep.pc \notin {"idle", "next"}
    BY <1>8 DEF tables, SkipRow, RecheckInvoice, ConfirmClaim, SweepSuspendsApp,
       SweepMarksSuspended, SweepMarksActive, SweepResumesApp, SweepAt
  <2>2. SweepDone \/ \E pc : pc # "claim" /\ SweepGoes(pc)
    BY <1>8 DEF SkipRow, RecheckInvoice, ConfirmClaim, SweepSuspendsApp,
       SweepMarksSuspended, SweepMarksActive, SweepResumesApp
  <2> QED BY <2>1, <2>2, SameFollows, SweepMoves
<1>9. CASE CatchRow
  BY <1>9, CatchKeepsNotice
<1> QED BY <1>1, <1>2, <1>3, <1>4, <1>5, <1>6, <1>7, <1>8, <1>9 DEF SweepStep

LEMMA FaultsKeepNotice ==
  ASSUME NoticeInv, Fault, UNCHANGED day
  PROVE  NoticeInv'
<1>1. CASE \E r \in Requests : Fail(r)
  <2>1. UNCHANGED <<follow, sweep>>
    BY <1>1 DEF Fail, tables
  <2> QED BY <2>1, SameFollows, OutsideSweep
<1>2. CASE SweepFails
  <2>1. UNCHANGED follow /\ sweep.pc \notin {"idle", "next"}
    BY <1>2 DEF SweepFails, tables
  <2>2. SweepDone \/ \E pc : pc # "claim" /\ SweepGoes(pc)
    BY <1>2 DEF SweepFails
  <2> QED BY <2>1, <2>2, SameFollows, SweepMoves
<1>3. CASE Restart
  <2>1. UNCHANGED follow /\ sweep' = NoSweep
    BY <1>3 DEF Restart, tables
  <2>2. DOMAIN sweep'.rows = {} /\ FollowsNoticed'
    BY <2>1, SameFollows DEF NoSweep
  <2> QED BY <2>1, <2>2 DEF NoticeInv, SweepTrue, NoSweep
<1> QED BY <1>1, <1>2, <1>3 DEF Fault, Unanswered

LEMMA TimeKeepsNotice ==
  ASSUME NoticeInv, day' = day + 1, UNCHANGED <<follow, sweep>>
  PROVE  NoticeInv'
<1>1. day' \in Nat /\ day' >= day /\ day \in Nat
  BY DEF NoticeInv
<1>2. ASSUME NEW i \in Invoices PROVE FollowRow(follow'[i]) /\ Noticed(follow[i])'
  <2>1. FollowRow(follow[i]) /\ Noticed(follow[i]) /\ follow'[i] = follow[i]
    BY DEF NoticeInv, FollowsNoticed
  <2>2. follow[i].sentAt \in Days /\ Grace \in Nat
    BY <2>1, BillingAssumption DEF FollowRow
  <2>3. \A n \in Int : day >= n => day' >= n
    BY <1>1
  <2>4. day >= follow[i].sentAt + Grace => day' >= follow[i].sentAt + Grace
    BY <2>2, <2>3 DEF Days, NoDay
  <2> QED BY <2>1, <2>4 DEF Noticed
<1>3. FollowsNoticed'
  BY <1>2 DEF FollowsNoticed, NoticeInv
<1>4. SweepTrue'
  <2>1. sweep.now \in Nat /\ sweep.now <= day'
    BY <1>1 DEF NoticeInv, SweepTrue
  <2>2. \A i \in DOMAIN sweep.rows : CopyTrue(i)'
    BY DEF NoticeInv, SweepTrue, CopyTrue
  <2> QED BY <2>1, <2>2 DEF NoticeInv, SweepTrue, Row
<1> QED BY <1>1, <1>3, <1>4 DEF NoticeInv

LEMMA NoticesKept ==
  ASSUME NoticeInv, [Next]_vars
  PROVE  NoticeInv'
<1>1. CASE \E r \in Requests : Request(r) /\ UNCHANGED <<day, sweep, granted, faults>>
  BY <1>1, RequestsKeepNotice
<1>2. CASE \E r \in Requests : ExtendUsage(r) /\ UNCHANGED <<day, sweep, faults>>
  BY <1>2, ExtensionKeepsNotice
<1>3. CASE \E i \in Invoices : OwnerPays(i) /\ UNCHANGED <<day, sweep, granted, faults>>
  <2>1. UNCHANGED <<day, sweep, follow>>
    BY <1>3 DEF OwnerPays
  <2> QED BY <2>1, SameFollows, OutsideSweep
<1>4. CASE \E stale, skipped \in SUBSET Invoices :
             SweepStart(stale, skipped) /\ UNCHANGED <<day, req, granted, faults>>
  BY <1>4, StartKeepsNotice
<1>5. CASE SweepStep /\ UNCHANGED <<day, req, granted, faults>>
  BY <1>5, SweepKeepsNotice
<1>6. CASE Fault /\ UNCHANGED <<day, granted>>
  BY <1>6, FaultsKeepNotice
<1>7. CASE Tick /\ UNCHANGED <<tables, req, sweep, granted, faults>>
  BY <1>7, TimeKeepsNotice DEF Tick, tables
<1>8. CASE UNCHANGED vars
  <2>1. UNCHANGED <<day, sweep, follow>>
    BY <1>8 DEF vars, tables
  <2> QED BY <2>1, SameFollows, OutsideSweep
<1> QED BY <1>1, <1>2, <1>3, <1>4, <1>5, <1>6, <1>7, <1>8 DEF Next

LEMMA NoticesStart ==
  ASSUME Init
  PROVE  NoticeInv
<1>1. FollowsNoticed
  BY DEF Init, FollowsNoticed, FollowRow, Noticed, Days, NoDay
<1>2. DOMAIN sweep.rows = {} /\ sweep = NoSweep
  BY DEF Init, NoSweep
<1> QED BY <1>1, <1>2 DEF NoticeInv, SweepTrue, NoSweep, Init

(* A follow-up that suspends the client was announced a grace period before, *)
(* whatever extensions, sweeps, failures and restarts come between: what the *)
(* suspension in processProformaFollowups relies on.                         *)
THEOREM WarningsPrecede == Spec => []WarnedBefore
<1>1. NoticeInv => WarnedBefore
  BY DEF NoticeInv, FollowsNoticed, Noticed, WarnedBefore
<1> QED BY <1>1, NoticesStart, NoticesKept, PTL DEF Spec

-----------------------------------------------------------------------------
(* Ends: an invoice that was paid or deleted stays so, and whoever settles a *)
(* follow-up was told first.                                                 *)
InvoiceRow(v) ==
  /\ v = [status |-> v.status, key |-> v.key, created |-> v.created, end |-> v.end]
  /\ v.status \in {"none", "open", "paid", "deleted"}
RequestRow(q) ==
  q = [pc |-> q.pc, kind |-> q.kind, invoice |-> q.invoice, attempt |-> q.attempt, row |-> q.row]

PaidPcs == {"write", "payment", "renew", "complete", "settle"}
Told(pc, i) ==
  i \in Invoices => /\ pc \in PaidPcs => invoice[i].status = "paid"
                    /\ pc = "cancel" => invoice[i].status = "deleted"
                    /\ pc = "track" => invoice[i].status # "none"
Informed == {"write", "payment", "renew", "complete", "settle", "cancel", "track"}

InvoicesTrue == /\ invoice = [i \in Invoices |-> invoice[i]]
                /\ \A i \in Invoices : InvoiceRow(invoice[i])
RequestsTold == /\ req = [r \in Requests |-> req[r]]
                /\ \A r \in Requests : RequestRow(req[r]) /\ Told(req[r].pc, req[r].invoice)
FollowTrue(i) == /\ follow[i].status = "paid" => invoice[i].status = "paid"
                 /\ follow[i].status = "cancelled" => invoice[i].status = "deleted"
                 /\ follow[i].status # "none" => invoice[i].status # "none"
FollowsTrue == \A i \in Invoices : FollowTrue(i)
SweepTold ==
  /\ \A i \in DOMAIN sweep.rows : invoice[i].status # "none"
  /\ sweep.pc \in {"reconcile", "unclaim"} => invoice[sweep.i].status = "paid"
  /\ sweep.pc \in {"cancel", "drop"} => invoice[sweep.i].status = "deleted"

SettledInv == NoticeInv /\ InvoicesTrue /\ RequestsTold /\ FollowsTrue /\ SweepTold

(* What no step takes back *)
Stays(i) == /\ invoice[i].status \in {"paid", "deleted"} => invoice'[i].status = invoice[i].status
            /\ invoice[i].status # "none" => invoice'[i].status # "none"
InvoicesStay == InvoicesTrue' /\ \A i \in Invoices : Stays(i)

InvoiceSet(i, s) == invoice' = [invoice EXCEPT ![i].status = s]
InvoiceNew(i, v) == invoice' = [invoice EXCEPT ![i] = v]

LEMMA SameInvoices ==
  ASSUME SettledInv, UNCHANGED invoice
  PROVE  InvoicesStay
BY DEF SettledInv, InvoicesTrue, InvoicesStay, Stays

LEMMA InvoiceEnds ==
  ASSUME SettledInv, NEW i, NEW s \in {"paid", "deleted"}, OpenInvoice(i), InvoiceSet(i, s)
  PROVE  InvoicesStay /\ (i \in Invoices => invoice'[i].status = s)
<1>1. invoice' = [j \in Invoices |-> invoice'[j]]
  BY DEF InvoiceSet, SettledInv, InvoicesTrue
<1>2. ASSUME NEW j \in Invoices
      PROVE  /\ InvoiceRow(invoice'[j])
             /\ invoice'[j].status = IF j = i THEN s ELSE invoice[j].status
  BY DEF InvoiceSet, SettledInv, InvoicesTrue, InvoiceRow
<1>3. ASSUME NEW j \in Invoices PROVE Stays(j)
  BY <1>2 DEF Stays, OpenInvoice
<1> QED BY <1>1, <1>2, <1>3 DEF InvoicesStay, InvoicesTrue

LEMMA InvoiceMade ==
  ASSUME SettledInv, NEW i \in Invoices, invoice[i].status = "none", NEW v, InvoiceRow(v),
         v.status = "open", InvoiceNew(i, v)
  PROVE  InvoicesStay /\ invoice'[i].status # "none"
<1>1. invoice' = [j \in Invoices |-> invoice'[j]]
  BY DEF InvoiceNew, SettledInv, InvoicesTrue
<1>2. \A j \in Invoices : invoice'[j] = IF j = i THEN v ELSE invoice[j]
  BY DEF InvoiceNew, SettledInv, InvoicesTrue
<1>3. ASSUME NEW j \in Invoices PROVE InvoiceRow(invoice'[j]) /\ Stays(j)
  BY <1>2 DEF Stays, SettledInv, InvoicesTrue
<1> QED BY <1>1, <1>2, <1>3 DEF InvoicesStay, InvoicesTrue

LEMMA ToldStays ==
  ASSUME InvoicesStay, NEW pc, NEW i, Told(pc, i)
  PROVE  Told(pc, i)'
BY DEF InvoicesStay, Stays, Told

(* One request moves to a step it may be at. *)
LEMMA OneRequest ==
  ASSUME SettledInv, InvoicesStay, NEW r, NEW q, RequestRow(q), NEW pc, NEW i,
         q.pc = pc, q.invoice = i, Told(pc, i)', req' = [req EXCEPT ![r] = q]
  PROVE  RequestsTold'
<1>1. /\ req' = [u \in Requests |-> req'[u]]
      /\ \A u \in Requests : req'[u] = IF u = r THEN q ELSE req[u]
  BY DEF SettledInv, RequestsTold
<1>2. ASSUME NEW u \in Requests PROVE RequestRow(req'[u]) /\ Told(req[u].pc, req[u].invoice)'
  <2>1. CASE u = r
    BY <1>1, <2>1 DEF Told
  <2>2. CASE u # r
    <3>1. req'[u] = req[u] /\ RequestRow(req[u]) /\ Told(req[u].pc, req[u].invoice)
      BY <1>1, <2>2 DEF SettledInv, RequestsTold
    <3>2. PICK p, j : p = req[u].pc /\ j = req[u].invoice
      OBVIOUS
    <3>3. Told(p, j)'
      BY <3>1, <3>2, ToldStays
    <3> QED BY <3>1, <3>2, <3>3 DEF Told
  <2> QED BY <2>1, <2>2
<1> QED BY <1>1, <1>2 DEF RequestsTold

LEMMA GoesOn ==
  ASSUME SettledInv, InvoicesStay, NEW r \in Requests, NEW pc, NEW i, i = req[r].invoice,
         Goes(r, pc), Told(pc, i)'
  PROVE  RequestsTold'
<1> DEFINE q == [req[r] EXCEPT !.pc = pc]
<1>1. RequestRow(req[r])
  BY DEF SettledInv, RequestsTold
<1>2. RequestRow(q) /\ q.pc = pc /\ q.invoice = i
  BY <1>1 DEF RequestRow
<1>3. req' = [req EXCEPT ![r] = q]
  BY DEF Goes
<1> HIDE DEF q
<1> QED BY <1>2, <1>3, OneRequest

LEMMA GoesFreely ==
  ASSUME SettledInv, InvoicesStay, NEW r \in Requests, NEW pc, pc \notin Informed, Goes(r, pc)
  PROVE  RequestsTold'
<1>1. PICK i : i = req[r].invoice
  OBVIOUS
<1>2. Told(pc, i)'
  BY DEF Told, Informed, PaidPcs
<1> QED BY <1>1, <1>2, GoesOn

LEMMA GoesPaid ==
  ASSUME SettledInv, InvoicesStay, NEW r \in Requests, req[r].pc \in PaidPcs,
         NEW pc \in PaidPcs, Goes(r, pc)
  PROVE  RequestsTold'
<1>1. PICK i : i = req[r].invoice
  OBVIOUS
<1>2. Told(req[r].pc, i)
  BY <1>1 DEF SettledInv, RequestsTold
<1>3. Told(pc, i)
  BY <1>2 DEF Told, PaidPcs
<1> QED BY <1>1, <1>3, ToldStays, GoesOn

LEMMA Finishes ==
  ASSUME SettledInv, InvoicesStay, NEW r, Done(r)
  PROVE  RequestsTold'
<1>1. RequestRow(Idle) /\ Idle.pc = "idle" /\ Idle.invoice = NoInvoice
  BY DEF Idle, RequestRow
<1>2. Told("idle", NoInvoice)'
  BY DEF Told, PaidPcs
<1> QED BY <1>1, <1>2, OneRequest DEF Done

LEMMA BeginsWell ==
  ASSUME SettledInv, InvoicesStay, NEW r, NEW kind, NEW pc, NEW i, Begins(r, kind, pc, i),
         pc \notin Informed \/ Told(pc, i)'
  PROVE  RequestsTold'
<1> DEFINE q == [Idle EXCEPT !.pc = pc, !.kind = kind, !.invoice = i, !.row = client]
<1>1. RequestRow(q) /\ q.pc = pc /\ q.invoice = i
  <2>1. DOMAIN Idle = {"pc", "kind", "invoice", "attempt", "row"}
    BY DEF Idle
  <2>2. q.pc = pc /\ q.invoice = i
    BY <2>1
  <2>3. DOMAIN q = {"pc", "kind", "invoice", "attempt", "row"} /\ q = [x \in DOMAIN q |-> q[x]]
    BY <2>1
  <2> HIDE DEF q
  <2> QED BY <2>2, <2>3 DEF RequestRow
<1>2. req' = [req EXCEPT ![r] = q]
  BY DEF Begins
<1>3. Told(pc, i)'
  BY DEF Told, Informed, PaidPcs
<1> HIDE DEF q
<1> QED BY <1>1, <1>2, <1>3, OneRequest

LEMMA FollowsStay ==
  ASSUME SettledInv, InvoicesStay,
         \A j \in Invoices :
           \/ follow'[j].status = follow[j].status
           \/ follow'[j].status = "paid" /\ invoice'[j].status = "paid"
           \/ follow'[j].status = "cancelled" /\ invoice'[j].status = "deleted"
           \/ follow'[j].status \notin {"paid", "cancelled"} /\ invoice[j].status # "none"
  PROVE  FollowsTrue'
<1>1. ASSUME NEW j \in Invoices PROVE FollowTrue(j)'
  BY DEF SettledInv, FollowsTrue, FollowTrue, InvoicesStay, Stays
<1> QED BY <1>1 DEF FollowsTrue

LEMMA SettlingTrue ==
  ASSUME SettledInv, InvoicesStay, NEW i, NEW from, NEW to, Settles(i, from, to),
         i \in Invoices => \/ to = "paid" /\ invoice'[i].status = "paid"
                           \/ to = "cancelled" /\ invoice'[i].status = "deleted"
                           \/ to \notin {"paid", "cancelled"} /\ invoice[i].status # "none"
  PROVE  FollowsTrue'
<1>1. PICK s : Sets(i, s) /\ s = IF follow[i].status \in from THEN to ELSE follow[i].status
  BY DEF Settles, Sets
<1>2. ASSUME NEW j \in Invoices
      PROVE  follow'[j].status = IF j = i THEN s ELSE follow[j].status
  BY <1>1 DEF Sets, SettledInv, NoticeInv, FollowsNoticed, FollowRow
<1> QED BY <1>1, <1>2, FollowsStay

(* The sweep as the steps of requests leave it *)
LEMMA SweepUntouched ==
  ASSUME SettledInv, InvoicesStay, UNCHANGED sweep
  PROVE  SweepTold'
BY DEF SettledInv, NoticeInv, SweepTrue, SweepTold, InvoicesStay, Stays

LEMMA TwiceMoved ==
  ASSUME NEW q, RequestRow(q), NEW pc, NEW i
  PROVE  [[q EXCEPT !.pc = pc] EXCEPT !.invoice = i]
           = [pc |-> pc, kind |-> q.kind, invoice |-> i, attempt |-> q.attempt, row |-> q.row]
<1> DEFINE g == [[q EXCEPT !.pc = pc] EXCEPT !.invoice = i]
<1>1. DOMAIN q = {"pc", "kind", "invoice", "attempt", "row"}
  BY DEF RequestRow
<1>2. DOMAIN g = {"pc", "kind", "invoice", "attempt", "row"} /\ g = [x \in DOMAIN g |-> g[x]]
  BY <1>1
<1>3. g.pc = pc /\ g.invoice = i /\ g.kind = q.kind /\ g.attempt = q.attempt /\ g.row = q.row
  BY <1>1
<1> HIDE DEF g
<1>4. g = [pc |-> pc, kind |-> q.kind, invoice |-> i, attempt |-> q.attempt, row |-> q.row]
  BY <1>2, <1>3
<1> QED BY <1>4 DEF g

(* Steps of requests, by what they write                                     *)
LEMMA WritesInvoices ==
  ASSUME SettledInv, NEW r \in Requests,
         GenerateInvoice(r) \/ GenerateRenewal(r) \/ DeleteInvoice(r) \/ GenerateRecorded(r)
           \/ PayInvoice(r)
  PROVE  InvoicesStay /\ RequestsTold' /\ UNCHANGED follow
<1>0. UNCHANGED follow
  BY DEF GenerateInvoice, GenerateRenewal, DeleteInvoice, GenerateRecorded, PayInvoice
<1>1. ASSUME NEW i \in Invoices, NEW key, NEW start, invoice[i].status = "none",
             Generated(i, key, start)
      PROVE  InvoicesStay /\ invoice'[i].status # "none"
  <2> DEFINE v == [status |-> "open", key |-> key, created |-> day, end |-> start + Period]
  <2>1. InvoiceRow(v) /\ v.status = "open"
    BY DEF InvoiceRow
  <2>2. InvoiceNew(i, v)
    BY <1>1 DEF Generated, InvoiceNew
  <2> HIDE DEF v
  <2> QED BY <1>1, <2>1, <2>2, InvoiceMade
<1>2. ASSUME NEW pc, NEW i \in Invoices, InvoicesStay, invoice'[i].status # "none",
             pc \in {"track", "pay"}, req' = [req EXCEPT ![r].pc = pc, ![r].invoice = i]
      PROVE  RequestsTold'
  <2> DEFINE q == [pc |-> pc, kind |-> req[r].kind, invoice |-> i, attempt |-> req[r].attempt,
                   row |-> req[r].row]
  <2>1. RequestRow(q) /\ q.pc = pc /\ q.invoice = i
    BY DEF RequestRow
  <2>2. RequestRow(req[r])
    BY DEF SettledInv, RequestsTold
  <2>3. [[req[r] EXCEPT !.pc = pc] EXCEPT !.invoice = i] = q
    BY <2>2, TwiceMoved
  <2>4. req' = [req EXCEPT ![r] = [[req[r] EXCEPT !.pc = pc] EXCEPT !.invoice = i]]
    BY <1>2 DEF SettledInv, RequestsTold
  <2>5. req' = [req EXCEPT ![r] = q]
    BY <2>3, <2>4
  <2>6. Told(pc, i)'
    BY <1>2 DEF Told, PaidPcs
  <2> HIDE DEF q
  <2> QED BY <1>2, <2>1, <2>5, <2>6, OneRequest
<1>3. CASE GenerateInvoice(r)
  <2>1. PICK i \in Invoices : /\ invoice[i].status = "none" /\ Generated(i, NoDay, day)
                              /\ Begins(r, "generate", "track", i)
    BY <1>3 DEF GenerateInvoice
  <2>2. InvoicesStay /\ invoice'[i].status # "none"
    BY <1>1, <2>1
  <2>3. Told("track", i)'
    BY <2>2 DEF Told, PaidPcs
  <2> QED BY <1>0, <2>1, <2>2, <2>3, BeginsWell
<1>4. CASE GenerateRenewal(r)
  <2>1. CASE Done(r) /\ UNCHANGED invoice
    BY <1>0, <2>1, SameInvoices, Finishes
  <2>2. CASE \E i \in Invoices : /\ invoice[i].status = "none"
                                 /\ Generated(i, req[r].row.expires, req[r].row.expires)
                                 /\ req' = [req EXCEPT ![r].pc = "track", ![r].invoice = i]
    BY <1>0, <1>1, <1>2, <2>2
  <2> QED BY <1>4, <2>1, <2>2 DEF GenerateRenewal
<1>5. CASE GenerateRecorded(r)
  <2>1. PICK i \in Invoices : /\ invoice[i].status = "none" /\ Generated(i, NoDay, day)
                              /\ req' = [req EXCEPT ![r].pc = "pay", ![r].invoice = i]
    BY <1>5 DEF GenerateRecorded
  <2> QED BY <1>0, <1>1, <1>2, <2>1
<1>6. CASE DeleteInvoice(r)
  <2>1. PICK i : i = req[r].invoice
    OBVIOUS
  <2>2. CASE /\ Deletable(i) /\ Goes(r, "cancel")
             /\ invoice' = [invoice EXCEPT ![i].status = IF @ = "open" THEN "deleted" ELSE @]
    <3>1. OpenInvoice(i) /\ InvoiceSet(i, "deleted")
      BY <2>2 DEF Deletable, OpenInvoice, InvoiceSet
    <3>2. InvoicesStay /\ (i \in Invoices => invoice'[i].status = "deleted")
      BY <3>1, InvoiceEnds
    <3>3. Told("cancel", i)'
      BY <3>2 DEF Told, PaidPcs
    <3> QED BY <1>0, <2>1, <2>2, <3>2, <3>3, GoesOn
  <2>3. CASE Done(r) /\ UNCHANGED invoice
    BY <1>0, <2>3, SameInvoices, Finishes
  <2> QED BY <1>6, <2>1, <2>2, <2>3 DEF DeleteInvoice
<1>7. CASE PayInvoice(r)
  <2>1. PICK i : i = req[r].invoice
    OBVIOUS
  <2>2. CASE Payable(i) /\ Goes(r, "write") /\ invoice' = [invoice EXCEPT ![i].status = "paid"]
    <3>1. OpenInvoice(i) /\ InvoiceSet(i, "paid")
      BY <2>2 DEF Payable, InvoiceSet
    <3>2. InvoicesStay /\ (i \in Invoices => invoice'[i].status = "paid")
      BY <3>1, InvoiceEnds
    <3>3. Told("write", i)'
      BY <3>2 DEF Told, PaidPcs
    <3> QED BY <1>0, <2>1, <2>2, <3>2, <3>3, GoesOn
  <2>3. CASE Refused(r) /\ UNCHANGED invoice
    <3>1. Goes(r, "review") \/ Done(r)
      BY <2>3 DEF Refused
    <3>2. "review" \notin Informed
      BY DEF Informed
    <3> QED BY <1>0, <2>3, <3>1, <3>2, SameInvoices, Finishes, GoesFreely
  <2> QED BY <1>7, <2>1, <2>2, <2>3 DEF PayInvoice
<1> QED BY <1>3, <1>4, <1>5, <1>6, <1>7

LEMMA WritesFollows ==
  ASSUME SettledInv, NEW r \in Requests,
         TrackProformaFollowup(r) \/ CancelFollowup(r) \/ WritePayment(r) \/ RecordExtension(r)
           \/ SettleFollowup(r) \/ ExtendUsage(r)
  PROVE  UNCHANGED invoice /\ RequestsTold' /\ FollowsTrue'
<1>0. UNCHANGED invoice /\ InvoicesStay
  BY SameInvoices DEF TrackProformaFollowup, CancelFollowup, WritePayment, RecordExtension,
     SettleFollowup, ExtendUsage
<1>1. PICK i, pc : i = req[r].invoice /\ pc = req[r].pc
  OBVIOUS
<1>2. Told(pc, i)
  BY <1>1 DEF SettledInv, RequestsTold
<1>3. "activate" \notin Informed /\ (ThenResume(r) => Goes(r, "activate") \/ Done(r))
  BY DEF Informed, ThenResume
<1>4. ThenResume(r) \/ Done(r) => RequestsTold'
  BY <1>0, <1>3, GoesFreely, Finishes
<1>5. CASE TrackProformaFollowup(r)
  <2>1. pc = "track" /\ Done(r)
    BY <1>1, <1>5 DEF TrackProformaFollowup, At
  <2>2. i \in Invoices => invoice[i].status # "none"
    BY <1>2, <2>1 DEF Told
  <2>3. CASE UNCHANGED follow
    <3>1. \A j \in Invoices : follow'[j].status = follow[j].status
      BY <2>3
    <3> QED BY <1>0, <1>4, <2>1, <3>1, FollowsStay
  <2>4. CASE follow' = [follow EXCEPT ![i] = [@ EXCEPT !.status = "warning_pending",
                                                !.warnAt = invoice[i].created + WarnAfter]]
    <3> DEFINE w == invoice[i].created + WarnAfter
               g == [follow[i] EXCEPT !.status = "warning_pending", !.warnAt = w]
    <3>1. follow' = [follow EXCEPT ![i] = g]
      BY <2>4
    <3>2. i \in Invoices => g.status = "warning_pending"
      <4> HIDE DEF w
      <4>1. i \in Invoices => FollowRow(follow[i])
        BY DEF SettledInv, NoticeInv, FollowsNoticed
      <4> QED BY <4>1, TrackedRow
    <3> HIDE DEF g
    <3>3. \A j \in Invoices : follow'[j] = IF j = i THEN g ELSE follow[j]
      BY <3>1 DEF SettledInv, NoticeInv, FollowsNoticed
    <3>4. \A j \in Invoices : j # i => follow'[j].status = follow[j].status
      BY <3>3
    <3>5. i \in Invoices => follow'[i].status = "warning_pending"
      BY <3>2, <3>3
    <3> QED BY <1>0, <1>4, <2>1, <2>2, <3>4, <3>5, FollowsStay
  <2> QED BY <1>1, <1>5, <2>3, <2>4 DEF TrackProformaFollowup
<1>6. CASE CancelFollowup(r)
  <2>1. pc = "cancel" /\ Done(r) /\ Settles(i, Unsettled, "cancelled")
    BY <1>1, <1>6 DEF CancelFollowup, At
  <2>2. i \in Invoices => invoice'[i].status = "deleted"
    BY <1>0, <1>2, <2>1 DEF Told
  <2> QED BY <1>0, <1>4, <2>1, <2>2, SettlingTrue
<1>7. CASE WritePayment(r) \/ RecordExtension(r) \/ SettleFollowup(r)
  <2>1. pc \in PaidPcs /\ Settles(i, Unsettled, "paid")
    BY <1>1, <1>7 DEF WritePayment, RecordExtension, SettleFollowup, At, PaidPcs
  <2>2. i \in Invoices => invoice'[i].status = "paid"
    BY <1>0, <1>2, <2>1 DEF Told
  <2>3. FollowsTrue'
    BY <1>0, <2>1, <2>2, SettlingTrue
  <2>4. ThenResume(r) \/ Goes(r, "payment")
    BY <1>7 DEF WritePayment, RecordExtension, SettleFollowup
  <2>5. Goes(r, "payment") => RequestsTold'
    BY <1>0, <1>1, <2>1, GoesPaid DEF PaidPcs
  <2> QED BY <1>0, <1>4, <2>3, <2>4, <2>5
<1>8. CASE ExtendUsage(r)
  <2>1. Done(r)
    BY <1>8 DEF ExtendUsage
  <2>2. ASSUME NEW j \in Invoices
        PROVE  \/ follow'[j].status = follow[j].status
               \/ follow'[j].status = "warned" /\ follow[j].status = "suspending"
    <3>1. follow[j] = [status |-> follow[j].status, warnAt |-> follow[j].warnAt,
                       sentAt |-> follow[j].sentAt, suspendAt |-> follow[j].suspendAt,
                       extension |-> follow[j].extension]
      BY DEF SettledInv, NoticeInv, FollowsNoticed, FollowRow
    <3>2. CASE follow[j].status \notin Tracked
      BY <1>8, <3>2 DEF ExtendUsage
    <3>3. CASE follow[j].status \in Tracked
      <4> DEFINE s == IF follow[j].status = "suspending" THEN "warned" ELSE follow[j].status
      <4>1. follow'[j].status = s
        BY <1>8, <3>1, <3>3 DEF ExtendUsage
      <4> QED BY <4>1
    <3> QED BY <3>2, <3>3
  <2>3. \A j \in Invoices : follow[j].status = "suspending" => invoice[j].status # "none"
    BY DEF SettledInv, FollowsTrue, FollowTrue
  <2>4. FollowsTrue'
    BY <1>0, <2>2, <2>3, FollowsStay
  <2> QED BY <1>0, <1>4, <2>1, <2>4
<1> QED BY <1>5, <1>6, <1>7, <1>8
LEMMA FreeRequest ==
  ASSUME SettledInv, InvoicesStay, NEW r, NEW q, RequestRow(q), q.pc \notin Informed,
         req' = [req EXCEPT ![r] = q]
  PROVE  RequestsTold'
<1>1. PICK pc, i : pc = q.pc /\ i = q.invoice
  OBVIOUS
<1>2. Told(pc, i)'
  BY <1>1 DEF Told, Informed, PaidPcs
<1> QED BY <1>1, <1>2, OneRequest

LEMMA MovedWithAttempt ==
  ASSUME NEW q, RequestRow(q), NEW pc, NEW v
  PROVE  LET g == [[q EXCEPT !.pc = pc] EXCEPT !.attempt = v] IN RequestRow(g) /\ g.pc = pc
<1> DEFINE g == [[q EXCEPT !.pc = pc] EXCEPT !.attempt = v]
<1>1. DOMAIN q = {"pc", "kind", "invoice", "attempt", "row"}
  BY DEF RequestRow
<1>2. /\ g.pc = pc /\ g = [x \in DOMAIN g |-> g[x]]
      /\ DOMAIN g = {"pc", "kind", "invoice", "attempt", "row"}
  BY <1>1
<1> HIDE DEF g
<1>3. RequestRow(g)
  BY <1>2 DEF RequestRow
<1> QED BY <1>2, <1>3 DEF g

LEMMA MovedWithRow ==
  ASSUME NEW q, RequestRow(q), NEW pc, NEW v
  PROVE  LET g == [[q EXCEPT !.pc = pc] EXCEPT !.row = v] IN RequestRow(g) /\ g.pc = pc
<1> DEFINE g == [[q EXCEPT !.pc = pc] EXCEPT !.row = v]
<1>1. DOMAIN q = {"pc", "kind", "invoice", "attempt", "row"}
  BY DEF RequestRow
<1>2. /\ g.pc = pc /\ g = [x \in DOMAIN g |-> g[x]]
      /\ DOMAIN g = {"pc", "kind", "invoice", "attempt", "row"}
  BY <1>1
<1> HIDE DEF g
<1>3. RequestRow(g)
  BY <1>2 DEF RequestRow
<1> QED BY <1>2, <1>3 DEF g

LEMMA BindsRequest ==
  ASSUME NEW a, NEW i
  PROVE  LET q == [Idle EXCEPT !.pc = "claim", !.kind = "callback", !.attempt = a, !.invoice = i]
         IN RequestRow(q) /\ q.pc = "claim"
<1> DEFINE q == [Idle EXCEPT !.pc = "claim", !.kind = "callback", !.attempt = a, !.invoice = i]
<1>1. DOMAIN Idle = {"pc", "kind", "invoice", "attempt", "row"}
  BY DEF Idle
<1>2. /\ q.pc = "claim"
      /\ DOMAIN q = {"pc", "kind", "invoice", "attempt", "row"} /\ q = [x \in DOMAIN q |-> q[x]]
  BY <1>1
<1> HIDE DEF q
<1>3. RequestRow(q)
  BY <1>2 DEF RequestRow
<1> QED BY <1>2, <1>3 DEF q

(* Steps of requests that write neither invoices nor follow-ups              *)
LEMMA WritesElsewhere ==
  ASSUME SettledInv, UNCHANGED invoice, NEW r \in Requests,
         \/ SuspendApp(r) \/ MarkSuspended(r) \/ MarkActive(r) \/ ResumeApp(r)
         \/ SuspendOrResume(r) \/ EnforceSubscriptionPayments(r)
         \/ ReadRenewal(r) \/ ListInvoices(r) \/ CheckDelete(r) \/ ReadClient(r)
         \/ RecordPayment(r) \/ ReadInvoice(r) \/ InsertAttempt(r)
         \/ Prompt(r) \/ SavePush(r) \/ BindCallback(r) \/ ClaimAttempt(r) \/ LoadClient(r)
         \/ VerifyInvoice(r) \/ RecordReceipt(r) \/ RenewSubscription(r)
         \/ CompleteAttempt(r) \/ ReviewAttempt(r)
  PROVE  RequestsTold'
<1>0. InvoicesStay
  BY SameInvoices
<1>1. RequestRow(req[r]) /\ req = [u \in Requests |-> req[u]]
  BY DEF SettledInv, RequestsTold
<1>2. CASE \/ SuspendOrResume(r) \/ EnforceSubscriptionPayments(r) \/ ReadRenewal(r)
           \/ CheckDelete(r) \/ ReadClient(r) \/ ReadInvoice(r)
  <2>1. \E kind, pc, i : /\ Begins(r, kind, pc, i)
                         /\ pc \in {"close", "activate", "list", "delete", "pay", "generate",
                                    "insert"} \/ i = NoInvoice
    BY <1>2 DEF SuspendOrResume, EnforceSubscriptionPayments, ReadRenewal, CheckDelete, ReadClient,
       ReadInvoice
  <2>2. PICK kind, pc, i : /\ Begins(r, kind, pc, i)
                           /\ pc \in {"close", "activate", "list", "delete", "pay", "generate",
                                      "insert"} \/ i = NoInvoice
    BY <2>1
  <2>3. pc \notin Informed \/ Told(pc, i)'
    BY <2>2, BillingAssumption DEF Informed, Told
  <2> QED BY <1>0, <2>2, <2>3, BeginsWell
<1>3. CASE \/ SuspendApp(r) \/ MarkSuspended(r) \/ MarkActive(r) \/ ResumeApp(r)
           \/ ListInvoices(r) \/ RecordPayment(r) \/ Prompt(r) \/ SavePush(r)
           \/ ClaimAttempt(r) \/ VerifyInvoice(r) \/ ReviewAttempt(r)
  <2>1. Done(r) \/ \E pc \in {"mark", "open", "generate", "activate", "pending", "unknown",
                              "client", "pay"} : Goes(r, pc)
    BY <1>3 DEF SuspendApp, MarkSuspended, MarkActive, ResumeApp, ListInvoices, RecordPayment,
       Prompt, SavePush, ClaimAttempt, VerifyInvoice, ReviewAttempt, ThenResume
  <2>2. \A pc \in {"mark", "open", "generate", "activate", "pending", "unknown",
                   "client", "pay"} : pc \notin Informed
    BY DEF Informed
  <2> QED BY <1>0, <2>1, <2>2, Finishes, GoesFreely
<1>4. CASE RecordReceipt(r) \/ RenewSubscription(r) \/ CompleteAttempt(r)
  <2>1. req[r].pc \in PaidPcs /\ \E pc \in PaidPcs : Goes(r, pc)
    BY <1>4 DEF RecordReceipt, RenewSubscription, CompleteAttempt, At, PaidPcs
  <2> QED BY <1>0, <2>1, GoesPaid
<1>5. CASE InsertAttempt(r)
  <2>1. CASE Done(r)
    BY <1>0, <2>1, Finishes
  <2>2. CASE \E a \in Attempts : req' = [req EXCEPT ![r].pc = "prompt", ![r].attempt = a]
    <3>1. PICK a : req' = [req EXCEPT ![r].pc = "prompt", ![r].attempt = a]
      BY <2>2
    <3> DEFINE q == [[req[r] EXCEPT !.pc = "prompt"] EXCEPT !.attempt = a]
    <3>2. req' = [req EXCEPT ![r] = q]
      BY <1>1, <3>1
    <3>3. RequestRow(q) /\ q.pc = "prompt"
      <4>1. PICK w : w = req[r]
        OBVIOUS
      <4> QED BY <1>1, <4>1, MovedWithAttempt
    <3> HIDE DEF q
    <3> QED BY <1>0, <3>2, <3>3, FreeRequest DEF Informed
  <2> QED BY <1>5, <2>1, <2>2 DEF InsertAttempt
<1>6. CASE LoadClient(r)
  <2>1. req' = [req EXCEPT ![r].pc = "verify", ![r].row = client]
    BY <1>6 DEF LoadClient
  <2> DEFINE q == [[req[r] EXCEPT !.pc = "verify"] EXCEPT !.row = client]
  <2>2. req' = [req EXCEPT ![r] = q]
    BY <1>1, <2>1
  <2>3. RequestRow(q) /\ q.pc = "verify"
    <3>1. PICK w, v : w = req[r] /\ v = client
      OBVIOUS
    <3> QED BY <1>1, <3>1, MovedWithRow
  <2> HIDE DEF q
  <2> QED BY <1>0, <2>2, <2>3, FreeRequest DEF Informed
<1>7. CASE BindCallback(r)
  <2>1. PICK a : req' = [req EXCEPT ![r] = [Idle EXCEPT !.pc = "claim", !.kind = "callback",
                                              !.attempt = a, !.invoice = attempt[a].invoice]]
    BY <1>7 DEF BindCallback
  <2> DEFINE q == [Idle EXCEPT !.pc = "claim", !.kind = "callback",
                                              !.attempt = a, !.invoice = attempt[a].invoice]
  <2>2. req' = [req EXCEPT ![r] = q]
    BY <2>1
  <2>3. RequestRow(q) /\ q.pc = "claim"
    BY BindsRequest
  <2> HIDE DEF q
  <2> QED BY <1>0, <2>2, <2>3, FreeRequest DEF Informed
<1> QED BY <1>2, <1>3, <1>4, <1>5, <1>6, <1>7

LEMMA SameFollowsTrue ==
  ASSUME SettledInv, InvoicesStay, UNCHANGED follow
  PROVE  FollowsTrue'
BY FollowsStay

LEMMA RequestsEndTruly ==
  ASSUME SettledInv, NoticeInv', NEW r \in Requests, Request(r) \/ ExtendUsage(r), UNCHANGED sweep
  PROVE  SettledInv'
<1>1. CASE GenerateInvoice(r) \/ GenerateRenewal(r) \/ DeleteInvoice(r) \/ GenerateRecorded(r)
           \/ PayInvoice(r)
  <2>1. InvoicesStay /\ RequestsTold' /\ UNCHANGED follow
    BY <1>1, WritesInvoices
  <2> QED BY <2>1, SameFollowsTrue, SweepUntouched DEF SettledInv, InvoicesStay
<1>2. CASE TrackProformaFollowup(r) \/ CancelFollowup(r) \/ WritePayment(r) \/ RecordExtension(r)
           \/ SettleFollowup(r) \/ ExtendUsage(r)
  <2>1. UNCHANGED invoice /\ RequestsTold' /\ FollowsTrue'
    BY <1>2, WritesFollows
  <2> QED BY <2>1, SameInvoices, SweepUntouched DEF SettledInv, InvoicesStay
<1>3. CASE \/ SuspendApp(r) \/ MarkSuspended(r) \/ MarkActive(r) \/ ResumeApp(r)
           \/ SuspendOrResume(r) \/ EnforceSubscriptionPayments(r)
           \/ ReadRenewal(r) \/ ListInvoices(r) \/ CheckDelete(r) \/ ReadClient(r)
           \/ RecordPayment(r) \/ ReadInvoice(r) \/ InsertAttempt(r)
           \/ Prompt(r) \/ SavePush(r) \/ BindCallback(r) \/ ClaimAttempt(r) \/ LoadClient(r)
           \/ VerifyInvoice(r) \/ RecordReceipt(r) \/ RenewSubscription(r)
           \/ CompleteAttempt(r) \/ ReviewAttempt(r)
  <2>1. UNCHANGED <<invoice, follow>>
    BY <1>3 DEF tables, SuspendApp, MarkSuspended, MarkActive, ResumeApp, SuspendOrResume,
       EnforceSubscriptionPayments, ReadRenewal, ListInvoices, CheckDelete, ReadClient,
       RecordPayment, ReadInvoice, InsertAttempt, Prompt, SavePush, BindCallback, ClaimAttempt,
       LoadClient, VerifyInvoice, RecordReceipt, RenewSubscription, CompleteAttempt, ReviewAttempt
  <2>2. RequestsTold'
    BY <1>3, <2>1, WritesElsewhere
  <2> QED BY <2>1, <2>2, SameInvoices, SameFollowsTrue, SweepUntouched DEF SettledInv, InvoicesStay
<1> QED BY <1>1, <1>2, <1>3 DEF Request

(* Steps of the sweep                                                        *)
LEMMA SweepMovesTold ==
  ASSUME SettledInv, InvoicesStay, NEW i, i = sweep.i, i \in Invoices,
         \/ SweepDone
         \/ \E pc : /\ SweepGoes(pc)
                    /\ pc \in {"reconcile", "unclaim"} => invoice[i].status = "paid"
                    /\ pc \in {"cancel", "drop"} => invoice[i].status = "deleted"
  PROVE  SweepTold'
<1>0. sweep = [pc |-> sweep.pc, now |-> sweep.now, row |-> sweep.row, rows |-> sweep.rows,
               i |-> sweep.i]
      /\ DOMAIN sweep.rows \subseteq Invoices
      /\ \A j \in DOMAIN sweep.rows : invoice[j].status # "none"
  BY DEF SettledInv, NoticeInv, SweepTrue, SweepTold
<1>1. \A j \in DOMAIN sweep.rows : invoice'[j].status # "none"
  BY <1>0 DEF InvoicesStay, Stays
<1>2. CASE SweepDone
  <2> DEFINE rest == DOMAIN sweep.rows \ {sweep.i}
  <2>1. CASE rest = {}
    <3>1. sweep' = NoSweep
      BY <1>2, <2>1 DEF SweepDone
    <3>2. DOMAIN sweep'.rows = {} /\ sweep'.pc = "idle"
      BY <3>1 DEF NoSweep
    <3> QED BY <3>2 DEF SweepTold
  <2>2. CASE rest # {}
    <3>1. sweep' = [pc |-> "next", now |-> sweep.now, row |-> sweep.row,
                    rows |-> [j \in rest |-> sweep.rows[j]], i |-> NoInvoice]
      BY <1>0, <1>2, <2>2 DEF SweepDone
    <3>2. DOMAIN sweep'.rows = rest /\ sweep'.pc = "next"
      BY <3>1
    <3> QED BY <1>1, <3>2 DEF SweepTold
  <2> QED BY <2>1, <2>2
<1>3. CASE \E pc : /\ SweepGoes(pc)
                   /\ pc \in {"reconcile", "unclaim"} => invoice[i].status = "paid"
                   /\ pc \in {"cancel", "drop"} => invoice[i].status = "deleted"
  <2>1. PICK pc : /\ SweepGoes(pc)
                  /\ pc \in {"reconcile", "unclaim"} => invoice[i].status = "paid"
                  /\ pc \in {"cancel", "drop"} => invoice[i].status = "deleted"
    BY <1>3
  <2>2. sweep' = [pc |-> pc, now |-> sweep.now, row |-> sweep.row, rows |-> sweep.rows,
                  i |-> i]
    BY <1>0, <2>1 DEF SweepGoes
  <2>3. /\ pc \in {"reconcile", "unclaim"} => invoice'[i].status = "paid"
        /\ pc \in {"cancel", "drop"} => invoice'[i].status = "deleted"
    BY <2>1 DEF InvoicesStay, Stays
  <2> QED BY <1>1, <2>2, <2>3 DEF SweepTold
<1> QED BY <1>2, <1>3

LEMMA RequestsUntouched ==
  ASSUME SettledInv, InvoicesStay, UNCHANGED req
  PROVE  RequestsTold'
<1>1. ASSUME NEW u \in Requests PROVE RequestRow(req'[u]) /\ Told(req[u].pc, req[u].invoice)'
  <2>1. RequestRow(req[u]) /\ Told(req[u].pc, req[u].invoice)
    BY DEF SettledInv, RequestsTold
  <2>2. PICK p, j : p = req[u].pc /\ j = req[u].invoice
    OBVIOUS
  <2>3. Told(p, j)'
    BY <2>1, <2>2, ToldStays
  <2> QED BY <2>1, <2>2, <2>3
<1> QED BY <1>1 DEF RequestsTold, SettledInv

LEMMA LookUpEndsTruly ==
  ASSUME SettledInv, LookUpInvoice
  PROVE  SweepTold' /\ UNCHANGED <<invoice, follow>>
<1> DEFINE to(i) == IF ~Answers THEN "catch"
                    ELSE CASE invoice[i].status = "paid" -> "reconcile"
                           [] OpenInvoice(i) -> IF Waits(sweep.rows[i]) THEN "skip" ELSE "claim"
                           [] OTHER -> "cancel"
<1>1. PICK i \in DOMAIN sweep.rows : sweep' = [sweep EXCEPT !.pc = to(i), !.i = i]
  BY DEF LookUpInvoice
<1>2. invoice[i].status \in {"open", "paid", "deleted"}
  BY DEF SettledInv, SweepTold, NoticeInv, SweepTrue, InvoicesTrue, InvoiceRow
<1>3. /\ to(i) \in {"reconcile", "unclaim"} => invoice[i].status = "paid"
      /\ to(i) \in {"cancel", "drop"} => invoice[i].status = "deleted"
  BY <1>2 DEF OpenInvoice
<1> HIDE DEF to
<1>4. sweep' = [pc |-> to(i), now |-> sweep.now, row |-> sweep.row, rows |-> sweep.rows, i |-> i]
  BY <1>1 DEF SettledInv, NoticeInv, SweepTrue
<1>5. UNCHANGED <<invoice, follow>>
  BY DEF LookUpInvoice, tables
<1> QED BY <1>3, <1>4, <1>5 DEF SettledInv, SweepTold

(* A step at a row tells the truth of its invoice when it settles the row.   *)
LEMMA RowEndsTruly ==
  ASSUME SettledInv, SweepStep, ~LookUpInvoice
  PROVE  SweepTold' /\ FollowsTrue' /\ UNCHANGED invoice
<1>1. UNCHANGED invoice /\ sweep.pc \notin {"idle", "next"}
  BY DEF tables, SweepStep, SkipRow, ClaimRow, RecheckInvoice, UnclaimPaid, CancelRow, CatchRow,
     ConfirmClaim, SendWarning, SweepSuspendsApp, SweepMarksSuspended, FinishSuspension,
     Reconcile, SweepMarksActive, SweepResumesApp, SweepAt
<1>2. InvoicesStay
  BY <1>1, SameInvoices
<1>3. PICK i : i = sweep.i
  OBVIOUS
<1>4. i \in Invoices /\ invoice[i].status \in {"open", "paid", "deleted"}
  BY <1>1, <1>3 DEF SettledInv, SweepTold, NoticeInv, SweepTrue, InvoicesTrue, InvoiceRow
<1>5. /\ sweep.pc \in {"reconcile", "unclaim"} => invoice[i].status = "paid"
      /\ sweep.pc \in {"cancel", "drop"} => invoice[i].status = "deleted"
  BY <1>3 DEF SettledInv, SweepTold
<1>6. SweepDone => SweepTold'
  BY <1>2, <1>3, <1>4, SweepMovesTold
<1>7. UNCHANGED follow => FollowsTrue'
  BY <1>2, SameFollowsTrue
<1>8. ASSUME NEW pc, SweepGoes(pc), pc \notin {"reconcile", "unclaim", "cancel", "drop"} PROVE SweepTold'
  BY <1>2, <1>3, <1>4, <1>8, SweepMovesTold
<1>9. ASSUME NEW from, NEW to, Settles(i, from, to), to \notin {"paid", "cancelled"}
      PROVE  FollowsTrue'
  BY <1>2, <1>4, <1>9, SettlingTrue
<1>10. CASE SkipRow \/ SweepResumesApp
  <2>1. SweepDone /\ UNCHANGED follow
    BY <1>10 DEF SkipRow, SweepResumesApp, tables
  <2> QED BY <1>1, <1>6, <1>7, <2>1
<1>11. CASE ConfirmClaim \/ SweepSuspendsApp \/ SweepMarksSuspended \/ SweepMarksActive
  <2>1. UNCHANGED follow
    BY <1>11 DEF ConfirmClaim, SweepSuspendsApp, SweepMarksSuspended, SweepMarksActive, tables
  <2>2. SweepDone \/ \E pc \in {"warn", "suspended", "close", "mark", "open"} : SweepGoes(pc)
    BY <1>11 DEF ConfirmClaim, SweepSuspendsApp, SweepMarksSuspended, SweepMarksActive
  <2> QED BY <1>1, <1>6, <1>7, <1>8, <2>1, <2>2
<1>12. CASE ClaimRow
  <2>1. Settles(i, {Row.status}, Claim) /\ Claim \notin {"paid", "cancelled"}
    BY <1>3, <1>12 DEF ClaimRow, Claim
  <2>2. SweepDone \/ SweepGoes("recheck")
    BY <1>12 DEF ClaimRow
  <2> QED BY <1>1, <1>6, <1>8, <1>9, <2>1, <2>2
<1>13. CASE RecheckInvoice
  <2> DEFINE to == IF ~Answers THEN "catch"
                   ELSE CASE invoice[i].status = "paid" -> "unclaim"
                          [] OpenInvoice(i) -> "confirm"
                          [] OTHER -> "drop"
  <2>1. SweepGoes(to) /\ UNCHANGED follow
    BY <1>3, <1>13 DEF RecheckInvoice, tables
  <2>2. /\ to \in {"reconcile", "unclaim"} => invoice[i].status = "paid"
        /\ to \in {"cancel", "drop"} => invoice[i].status = "deleted"
    BY <1>4 DEF OpenInvoice
  <2> HIDE DEF to
  <2> QED BY <1>1, <1>2, <1>3, <1>4, <1>7, <2>1, <2>2, SweepMovesTold
<1>14. CASE UnclaimPaid
  <2>1. Settles(i, {Claim}, "warned") /\ SweepGoes("reconcile") /\ invoice[i].status = "paid"
    BY <1>3, <1>5, <1>14 DEF UnclaimPaid, SweepAt
  <2>2. SweepTold'
    BY <1>2, <1>3, <1>4, <2>1, SweepMovesTold
  <2> QED BY <1>1, <1>9, <2>1, <2>2
<1>15. CASE CancelRow
  <2>1. PICK from : /\ Settles(i, from, "cancelled") /\ SweepDone
                    /\ invoice'[i].status = "deleted"
    BY <1>1, <1>3, <1>5, <1>15 DEF CancelRow, SweepAt
  <2> QED BY <1>1, <1>2, <1>6, <2>1, SettlingTrue
<1>16. CASE SendWarning
  <2>1. SweepDone
    BY <1>16 DEF SendWarning
  <2>2. CASE UNCHANGED follow
    BY <1>1, <1>6, <1>7, <2>1, <2>2
  <2>3. CASE ~UNCHANGED follow
    <3> DEFINE d == SuspendDue(i)
               g == [follow[i] EXCEPT !.status = "warned", !.sentAt = day, !.suspendAt = d]
    <3>1. follow' = [follow EXCEPT ![i] = g]
      BY <1>3, <1>16, <2>3 DEF SendWarning
    <3>2. g.status = "warned"
      <4>1. FollowRow(follow[i])
        BY <1>4 DEF SettledInv, NoticeInv, FollowsNoticed
      <4> HIDE DEF d
      <4> QED BY <4>1, NoticeRow
    <3> HIDE DEF g
    <3>3. \A j \in Invoices : follow'[j].status = IF j = i THEN "warned" ELSE follow[j].status
      BY <3>1, <3>2 DEF SettledInv, NoticeInv, FollowsNoticed
    <3>4. FollowsTrue'
      BY <1>2, <1>4, <3>3, FollowsStay
    <3> QED BY <1>1, <1>6, <2>1, <3>4
  <2> QED BY <2>2, <2>3
<1>17. CASE FinishSuspension
  <2>1. Settles(i, {"suspending"}, "suspended") /\ SweepDone
    BY <1>3, <1>17 DEF FinishSuspension
  <2> QED BY <1>1, <1>6, <1>9, <2>1
<1>18. CASE Reconcile
  <2>1. /\ Settles(i, {"warning_pending", "warned"}, "paid") /\ invoice'[i].status = "paid"
        /\ SweepGoes("activate") \/ SweepDone
    BY <1>1, <1>3, <1>5, <1>18 DEF Reconcile, SweepAt
  <2>2. FollowsTrue'
    BY <1>2, <2>1, SettlingTrue
  <2> QED BY <1>1, <1>6, <1>8, <2>1, <2>2
<1>19. CASE CatchRow
  <2>1. PICK s : s = Recovered(follow[i].status) /\ Sets(i, s)
    BY <1>3, <1>19 DEF CatchRow, Sets
  <2>2. \/ s = follow[i].status
        \/ s \notin {"paid", "cancelled"} /\ follow[i].status # "none"
    BY <2>1 DEF Recovered
  <2>3. \A j \in Invoices : follow'[j].status = IF j = i THEN s ELSE follow[j].status
    BY <1>4, <2>1 DEF Sets, SettledInv, NoticeInv, FollowsNoticed, FollowRow
  <2>4. invoice[i].status # "none" \/ follow[i].status = "none"
    BY <1>4 DEF SettledInv, FollowsTrue, FollowTrue
  <2>5. FollowsTrue'
    BY <1>2, <1>4, <2>2, <2>3, <2>4, FollowsStay
  <2>6. SweepDone
    BY <1>19 DEF CatchRow
  <2> QED BY <1>1, <1>6, <2>5, <2>6
<1> QED BY <1>10, <1>11, <1>12, <1>13, <1>14, <1>15, <1>16, <1>17, <1>18, <1>19 DEF SweepStep

LEMMA StartEndsTruly ==
  ASSUME SettledInv, NEW stale, NEW skipped, SweepStart(stale, skipped)
  PROVE  SweepTold' /\ FollowsTrue' /\ UNCHANGED invoice
<1> DEFINE s(i) == IF i \in stale THEN Recover(follow[i].status) ELSE follow[i].status
<1>1. follow' = [i \in Invoices |-> [follow[i] EXCEPT !.status = s(i)]] /\ UNCHANGED invoice
  BY DEF SweepStart
<1>2. \A i \in Invoices :
        \/ s(i) = follow[i].status
        \/ s(i) \notin {"paid", "cancelled", "none"} /\ follow[i].status # "none"
  BY DEF Recover, Recovered
<1> HIDE DEF s
<1>3. ASSUME NEW i \in Invoices PROVE follow'[i].status = s(i)
  BY <1>1 DEF SettledInv, NoticeInv, FollowsNoticed, FollowRow
<1>4. InvoicesStay
  BY <1>1, SameInvoices
<1>5. \A i \in Invoices : follow[i].status # "none" => invoice[i].status # "none"
  BY DEF SettledInv, FollowsTrue, FollowTrue
<1>6. FollowsTrue'
  BY <1>2, <1>3, <1>4, <1>5, FollowsStay
<1>7. /\ sweep'.pc = "next"
      /\ \A i \in DOMAIN sweep'.rows :
           i \in Invoices /\ follow'[i].status \in {"warning_pending", "warned"}
  BY DEF SweepStart, NoSweep
<1>8. \A i \in DOMAIN sweep'.rows : invoice'[i].status # "none"
  BY <1>6, <1>7 DEF FollowsTrue, FollowTrue
<1> QED BY <1>1, <1>6, <1>7, <1>8 DEF SweepTold

LEMMA FaultsEndTruly ==
  ASSUME SettledInv, NoticeInv', Fault
  PROVE  SettledInv'
<1>1. UNCHANGED invoice
  BY DEF Fault, Fail, Unanswered, SweepFails, Restart, tables
<1>2. InvoicesStay
  BY <1>1, SameInvoices
<1>3. CASE \E r \in Requests : Fail(r)
  <2>1. UNCHANGED <<follow, sweep>>
    BY <1>3 DEF Fail, tables
  <2>2. \E r \in Requests : Done(r) \/ \E pc \in {"review", "unknown"} : Goes(r, pc)
    BY <1>3 DEF Fail
  <2>3. RequestsTold'
    BY <1>2, <2>2, Finishes, GoesFreely DEF Informed
  <2> QED BY <1>2, <2>1, <2>3, SameFollowsTrue, SweepUntouched DEF SettledInv, InvoicesStay
<1>4. CASE SweepFails
  <2>1. PICK i : i = sweep.i
    OBVIOUS
  <2>2. i \in Invoices
    BY <1>4, <2>1 DEF SweepFails, SettledInv, NoticeInv, SweepTrue
  <2>3. UNCHANGED <<follow, req>> /\ (SweepDone \/ SweepGoes("catch"))
    BY <1>4 DEF SweepFails, tables
  <2>4. SweepTold'
    BY <1>2, <2>1, <2>2, <2>3, SweepMovesTold
  <2>5. RequestsTold'
    BY <1>2, <2>3, RequestsUntouched
  <2> QED BY <1>2, <2>3, <2>4, <2>5, SameFollowsTrue DEF SettledInv, InvoicesStay
<1>5. CASE Restart
  <2>1. req' = [r \in Requests |-> Idle] /\ sweep' = NoSweep /\ UNCHANGED follow
    BY <1>5 DEF Restart, tables
  <2>2. RequestsTold'
    BY <2>1, BillingAssumption DEF RequestsTold, RequestRow, Told, Idle, PaidPcs
  <2>3. DOMAIN sweep'.rows = {} /\ sweep'.pc = "idle"
    BY <2>1 DEF NoSweep
  <2> QED BY <1>2, <2>1, <2>2, <2>3, SameFollowsTrue DEF SettledInv, InvoicesStay, SweepTold
<1> QED BY <1>3, <1>4, <1>5 DEF Fault, Unanswered

LEMMA EndsKept ==
  ASSUME SettledInv, [Next]_vars
  PROVE  SettledInv'
<1>0. NoticeInv'
  BY NoticesKept DEF SettledInv
<1>1. CASE \E r \in Requests : /\ Request(r) \/ ExtendUsage(r)
                               /\ UNCHANGED sweep
  BY <1>0, <1>1, RequestsEndTruly
<1>2. CASE \E i \in Invoices : OwnerPays(i) /\ UNCHANGED <<day, sweep, granted, faults>>
  <2>1. PICK i \in Invoices : OpenInvoice(i) /\ InvoiceSet(i, "paid")
    BY <1>2 DEF OwnerPays, InvoiceSet
  <2>2. InvoicesStay
    BY <2>1, InvoiceEnds
  <2>3. UNCHANGED <<follow, req, sweep>>
    BY <1>2 DEF OwnerPays
  <2> QED BY <1>0, <2>2, <2>3, SameFollowsTrue, RequestsUntouched, SweepUntouched
          DEF SettledInv, InvoicesStay
<1>3. CASE \E stale, skipped \in SUBSET Invoices :
             SweepStart(stale, skipped) /\ UNCHANGED <<day, req, granted, faults>>
  <2>1. SweepTold' /\ FollowsTrue' /\ UNCHANGED <<invoice, req>>
    BY <1>3, StartEndsTruly
  <2> QED BY <1>0, <2>1, SameInvoices, RequestsUntouched DEF SettledInv, InvoicesStay
<1>4. CASE SweepStep /\ UNCHANGED <<day, req, granted, faults>>
  <2>1. CASE LookUpInvoice
    <3>1. SweepTold' /\ UNCHANGED <<invoice, follow, req>>
      BY <1>4, <2>1, LookUpEndsTruly
    <3> QED BY <1>0, <3>1, SameInvoices, SameFollowsTrue, RequestsUntouched
            DEF SettledInv, InvoicesStay
  <2>2. CASE ~LookUpInvoice
    <3>1. SweepTold' /\ FollowsTrue' /\ UNCHANGED <<invoice, req>>
      BY <1>4, <2>2, RowEndsTruly
    <3> QED BY <1>0, <3>1, SameInvoices, RequestsUntouched DEF SettledInv, InvoicesStay
  <2> QED BY <2>1, <2>2
<1>5. CASE Fault
  BY <1>0, <1>5, FaultsEndTruly
<1>6. CASE UNCHANGED <<tables, req, sweep>>
  <2>1. UNCHANGED <<invoice, follow, req, sweep>>
    BY <1>6 DEF tables
  <2> QED BY <1>0, <2>1, SameInvoices, SameFollowsTrue, RequestsUntouched, SweepUntouched
          DEF SettledInv, InvoicesStay
<1> QED BY <1>1, <1>2, <1>3, <1>4, <1>5, <1>6 DEF Next, vars

(* Whatever callbacks, endpoints, the owner's own marking, sweeps, errors    *)
(* and restarts come between, a follow-up is settled as paid only for a paid *)
(* invoice and given up only for a deleted one.                              *)
THEOREM FollowUpsEndTruly == Spec => []SettledIsTrue
<1>1. Init => SettledInv
  <2> SUFFICES ASSUME Init PROVE SettledInv
    OBVIOUS
  <2>1. NoticeInv
    BY NoticesStart
  <2>2. InvoicesTrue
    BY DEF Init, InvoicesTrue, InvoiceRow
  <2>3. RequestsTold
    BY BillingAssumption DEF Init, RequestsTold, RequestRow, Told, Idle, PaidPcs
  <2>4. FollowsTrue
    BY DEF Init, FollowsTrue, FollowTrue
  <2>5. DOMAIN sweep.rows = {} /\ sweep.pc = "idle"
    BY DEF Init, NoSweep
  <2> QED BY <2>1, <2>2, <2>3, <2>4, <2>5 DEF SettledInv, SweepTold
<1>2. SettledInv => SettledIsTrue
  BY DEF SettledInv, FollowsTrue, FollowTrue, SettledIsTrue
<1> QED BY <1>1, <1>2, EndsKept, PTL DEF Spec

-----------------------------------------------------------------------------
(* What a step of one request leaves in its place                            *)
At5(pc, kind, i, a, row) ==
  [pc |-> pc, kind |-> kind, invoice |-> i, attempt |-> a, row |-> row]
Only(r, q) == req' = [u \in Requests |-> IF u = r THEN q ELSE req[u]]
Shaped == req = [r \in Requests |-> req[r]] /\ \A r \in Requests : RequestRow(req[r])

LEMMA GoesOnly ==
  ASSUME Shaped, NEW r \in Requests, NEW pc, Goes(r, pc)
  PROVE  Only(r, At5(pc, req[r].kind, req[r].invoice, req[r].attempt, req[r].row))
<1> DEFINE q == [req[r] EXCEPT !.pc = pc]
<1>1. RequestRow(req[r])
  BY DEF Shaped
<1>2. q = At5(pc, req[r].kind, req[r].invoice, req[r].attempt, req[r].row)
  BY <1>1 DEF RequestRow, At5
<1>3. req' = [req EXCEPT ![r] = q]
  BY DEF Goes
<1> HIDE DEF q
<1> QED BY <1>2, <1>3 DEF Only, Shaped

LEMMA DoneOnly ==
  ASSUME Shaped, NEW r \in Requests, Done(r)
  PROVE  Only(r, At5("idle", "none", NoInvoice, NoAttempt, NoRow))
BY DEF Only, Shaped, Done, Idle, At5

LEMMA BeginsOnly ==
  ASSUME Shaped, NEW r \in Requests, NEW kind, NEW pc, NEW i, Begins(r, kind, pc, i)
  PROVE  Only(r, At5(pc, kind, i, NoAttempt, client))
<1> DEFINE q == [Idle EXCEPT !.pc = pc, !.kind = kind, !.invoice = i, !.row = client]
<1>1. DOMAIN Idle = {"pc", "kind", "invoice", "attempt", "row"} /\ Idle.attempt = NoAttempt
  BY DEF Idle
<1>2. /\ q.pc = pc /\ q.kind = kind /\ q.invoice = i /\ q.row = client /\ q.attempt = NoAttempt
      /\ DOMAIN q = {"pc", "kind", "invoice", "attempt", "row"} /\ q = [x \in DOMAIN q |-> q[x]]
  BY <1>1
<1>3. req' = [req EXCEPT ![r] = q]
  BY DEF Begins
<1> HIDE DEF q
<1>4. q = At5(pc, kind, i, NoAttempt, client)
  BY <1>2 DEF At5
<1> QED BY <1>3, <1>4 DEF Only, Shaped

LEMMA MakesOnly ==
  ASSUME Shaped, NEW r \in Requests, NEW pc, NEW i,
         req' = [req EXCEPT ![r].pc = pc, ![r].invoice = i]
  PROVE  Only(r, At5(pc, req[r].kind, i, req[r].attempt, req[r].row))
<1> DEFINE q == [[req[r] EXCEPT !.pc = pc] EXCEPT !.invoice = i]
<1>1. req' = [req EXCEPT ![r] = q]
  BY DEF Shaped
<1>2. PICK w : w = req[r]
  OBVIOUS
<1>3. q = At5(pc, w.kind, i, w.attempt, w.row)
  BY <1>2, TwiceMoved DEF At5, Shaped
<1> HIDE DEF q
<1> QED BY <1>1, <1>2, <1>3 DEF Only, Shaped

LEMMA AttemptOnly ==
  ASSUME Shaped, NEW r \in Requests, NEW pc, NEW a,
         req' = [req EXCEPT ![r].pc = pc, ![r].attempt = a]
  PROVE  Only(r, At5(pc, req[r].kind, req[r].invoice, a, req[r].row))
<1> DEFINE q == [[req[r] EXCEPT !.pc = pc] EXCEPT !.attempt = a]
<1>1. req' = [req EXCEPT ![r] = q]
  BY DEF Shaped
<1>2. DOMAIN req[r] = {"pc", "kind", "invoice", "attempt", "row"}
  BY DEF Shaped, RequestRow
<1>3. /\ q.pc = pc /\ q.attempt = a /\ q.kind = req[r].kind /\ q.invoice = req[r].invoice
      /\ q.row = req[r].row
      /\ DOMAIN q = {"pc", "kind", "invoice", "attempt", "row"} /\ q = [x \in DOMAIN q |-> q[x]]
  BY <1>2
<1> HIDE DEF q
<1>4. q = At5(pc, req[r].kind, req[r].invoice, a, req[r].row)
  BY <1>3 DEF At5
<1> QED BY <1>1, <1>4 DEF Only, Shaped

LEMMA RowOnly ==
  ASSUME Shaped, NEW r \in Requests, NEW pc, NEW v,
         req' = [req EXCEPT ![r].pc = pc, ![r].row = v]
  PROVE  Only(r, At5(pc, req[r].kind, req[r].invoice, req[r].attempt, v))
<1> DEFINE q == [[req[r] EXCEPT !.pc = pc] EXCEPT !.row = v]
<1>1. req' = [req EXCEPT ![r] = q]
  BY DEF Shaped
<1>2. DOMAIN req[r] = {"pc", "kind", "invoice", "attempt", "row"}
  BY DEF Shaped, RequestRow
<1>3. /\ q.pc = pc /\ q.row = v /\ q.kind = req[r].kind /\ q.invoice = req[r].invoice
      /\ q.attempt = req[r].attempt
      /\ DOMAIN q = {"pc", "kind", "invoice", "attempt", "row"} /\ q = [x \in DOMAIN q |-> q[x]]
  BY <1>2
<1> HIDE DEF q
<1>4. q = At5(pc, req[r].kind, req[r].invoice, req[r].attempt, v)
  BY <1>3 DEF At5
<1> QED BY <1>1, <1>4 DEF Only, Shaped

LEMMA BindsOnly ==
  ASSUME Shaped, NEW r \in Requests, NEW a, NEW i,
         req' = [req EXCEPT ![r] = [Idle EXCEPT !.pc = "claim", !.kind = "callback",
                                      !.attempt = a, !.invoice = i]]
  PROVE  Only(r, At5("claim", "callback", i, a, NoRow))
<1> DEFINE q == [Idle EXCEPT !.pc = "claim", !.kind = "callback", !.attempt = a, !.invoice = i]
<1>1. DOMAIN Idle = {"pc", "kind", "invoice", "attempt", "row"} /\ Idle.row = NoRow
  BY DEF Idle
<1>2. /\ q.pc = "claim" /\ q.kind = "callback" /\ q.invoice = i /\ q.attempt = a /\ q.row = NoRow
      /\ DOMAIN q = {"pc", "kind", "invoice", "attempt", "row"} /\ q = [x \in DOMAIN q |-> q[x]]
  BY <1>1
<1> HIDE DEF q
<1>4. q = At5("claim", "callback", i, a, NoRow)
  BY <1>2 DEF At5
<1> QED BY <1>4 DEF Only, Shaped, q

-----------------------------------------------------------------------------
(* Types, of the requests' and the sweep's own rows too                      *)
ClientRow == [status : {"active", "suspended"}, expires : Nat]
InvoiceRows == [Invoices -> [status : {"none", "open", "paid", "deleted"},
                             key : Days, created : Nat, end : Nat]]
PaymentRow == [invoice : Invoices, by : Attempts \cup ByHand]
AttemptRows == [Attempts -> [status : Active \cup {"absent", "complete", "failed"},
                             invoice : Invoices \cup {NoInvoice},
                             result : {"none", "success", "mismatch", "failure"}]]
FollowStatus == Tracked \cup {"none", "suspended", "paid", "cancelled"}
FollowRows == [Invoices -> [status : FollowStatus,
                            warnAt : Days, sentAt : Days, suspendAt : Days, extension : Nat]]

(* The steps a request of a kind goes through                                *)
Course(kind, pc) ==
  \/ kind = "none" /\ pc = "idle"
  \/ kind = "push" /\ pc \in {"insert", "prompt", "pending", "unknown"}
  \/ kind = "callback" /\ pc \in {"claim", "client", "verify", "pay", "write", "renew",
                                  "complete", "settle", "review", "activate", "open"}
  \/ kind = "pay" /\ pc \in {"pay", "write", "activate", "open"}
  \/ kind = "record" /\ pc \in {"generate", "pay", "write", "payment", "activate", "open"}
  \/ kind = "generate" /\ pc = "track"
  \/ kind = "renew" /\ pc \in {"list", "generate", "track"}
  \/ kind = "delete" /\ pc \in {"delete", "cancel"}
  \/ kind = "extend" /\ pc = "write"
  \/ kind \in {"suspend", "enforce"} /\ pc \in {"close", "mark"}
  \/ kind = "resume" /\ pc \in {"activate", "open"}

Freestanding == {"idle", "generate", "list", "close", "mark", "activate", "open"}
RequestTyped(q) ==
  /\ Course(q.kind, q.pc) /\ q.row \in ClientRow
  /\ q.invoice \in Invoices \/ q.pc \in Freestanding \/ q.kind = "extend"
  /\ q.kind = "callback" \/ q.pc \in {"prompt", "pending", "unknown"} => q.attempt \in Attempts

AttemptsAimed == \A a \in Attempts : attempt[a].status # "absent" => attempt[a].invoice \in Invoices
RequestsTyped == Shaped /\ \A r \in Requests : RequestTyped(req[r])
Typed ==
  /\ day \in 0..MaxDay /\ faults \in 0..MaxFaults
  /\ client \in ClientRow /\ store \in {"open", "closed", "paused"}
  /\ invoice \in InvoiceRows /\ payments \subseteq PaymentRow
  /\ attempt \in AttemptRows
  /\ follow \in FollowRows
  /\ RequestsTyped /\ sweep.row \in ClientRow

LEMMA OneTyped ==
  ASSUME RequestsTyped, NEW r \in Requests, NEW q, RequestRow(q), RequestTyped(q), Only(r, q)
  PROVE  RequestsTyped'
BY DEF RequestsTyped, Shaped, Only

LEMMA GoesTyped ==
  ASSUME RequestsTyped, NEW r \in Requests, NEW pc, Goes(r, pc),
         Course(req[r].kind, pc),
         req[r].invoice \in Invoices \/ pc \in Freestanding \/ req[r].kind = "extend",
         req[r].kind = "callback" \/ pc \in {"prompt", "pending", "unknown"}
           => req[r].attempt \in Attempts
  PROVE  RequestsTyped'
<1> DEFINE q == At5(pc, req[r].kind, req[r].invoice, req[r].attempt, req[r].row)
<1>1. Only(r, q)
  BY GoesOnly DEF RequestsTyped
<1>2. /\ RequestRow(q) /\ q.pc = pc /\ q.kind = req[r].kind /\ q.invoice = req[r].invoice
      /\ q.attempt = req[r].attempt /\ q.row = req[r].row
  BY DEF At5, RequestRow
<1> HIDE DEF q
<1>3. RequestTyped(q)
  BY <1>2 DEF RequestsTyped, RequestTyped
<1> QED BY <1>1, <1>2, <1>3, OneTyped

LEMMA DoneTyped ==
  ASSUME RequestsTyped, NEW r \in Requests, Done(r)
  PROVE  RequestsTyped'
<1> DEFINE q == At5("idle", "none", NoInvoice, NoAttempt, NoRow)
<1>1. Only(r, q)
  BY DoneOnly DEF RequestsTyped
<1>2. RequestRow(q) /\ RequestTyped(q)
  BY DEF At5, RequestRow, RequestTyped, Course, Freestanding, NoRow, ClientRow
<1> HIDE DEF q
<1> QED BY <1>1, <1>2, OneTyped

LEMMA BeginsTyped ==
  ASSUME RequestsTyped, client \in ClientRow, NEW r \in Requests, NEW kind, NEW pc, NEW i,
         Begins(r, kind, pc, i), Course(kind, pc), kind # "callback",
         pc \notin {"prompt", "pending", "unknown"},
         i \in Invoices \/ pc \in Freestanding \/ kind = "extend"
  PROVE  RequestsTyped'
<1> DEFINE q == At5(pc, kind, i, NoAttempt, client)
<1>1. Only(r, q)
  BY BeginsOnly DEF RequestsTyped
<1>2. /\ RequestRow(q) /\ q.pc = pc /\ q.kind = kind /\ q.invoice = i /\ q.row = client
  BY DEF At5, RequestRow
<1> HIDE DEF q
<1>3. RequestTyped(q)
  BY <1>2 DEF RequestTyped
<1> QED BY <1>1, <1>2, <1>3, OneTyped

(* The requests, as each kind of step leaves them                            *)
LEMMA StepsTyped ==
  ASSUME Typed, AttemptsAimed, NEW r \in Requests, Request(r) \/ ExtendUsage(r)
  PROVE  RequestsTyped'
<1>1. PICK q : q = req[r] /\ RequestTyped(q)
  BY DEF Typed, RequestsTyped
<1>2. RequestsTyped /\ client \in ClientRow /\ Shaped
  BY DEF Typed, RequestsTyped
<1>3. Done(r) => RequestsTyped'
  BY <1>2, DoneTyped
<1>4. ASSUME NEW pc, Goes(r, pc), Course(q.kind, pc),
             q.pc \in Freestanding => pc \in Freestanding,
             pc \in {"prompt", "pending", "unknown"} => q.pc \in {"prompt", "pending", "unknown"}
      PROVE  RequestsTyped'
  BY <1>1, <1>2, <1>4, GoesTyped DEF RequestTyped
<1>5. ASSUME ThenResume(r), q.kind \in {"callback", "pay", "record"} PROVE RequestsTyped'
  <2>1. Goes(r, "activate") \/ Done(r)
    BY <1>5 DEF ThenResume
  <2>2. Course(q.kind, "activate") /\ "activate" \in Freestanding
    BY <1>5 DEF Course, Freestanding
  <2> QED BY <1>3, <1>4, <2>1, <2>2
<1>6. CASE \/ SuspendOrResume(r) \/ EnforceSubscriptionPayments(r) \/ ReadRenewal(r)
           \/ CheckDelete(r) \/ ReadClient(r) \/ ReadInvoice(r) \/ GenerateInvoice(r)
  <2>1. \E kind, pc, i :
          /\ Begins(r, kind, pc, i)
          /\ \/ <<kind, pc>> \in {<<"suspend", "close">>, <<"resume", "activate">>,
                                  <<"enforce", "close">>, <<"renew", "list">>,
                                  <<"record", "generate">>, <<"extend", "write">>}
             \/ /\ <<kind, pc>> \in {<<"delete", "delete">>, <<"pay", "pay">>,
                                     <<"push", "insert">>, <<"generate", "track">>}
                /\ i \in Invoices
    BY <1>6 DEF SuspendOrResume, EnforceSubscriptionPayments, ReadRenewal, CheckDelete, ReadClient,
       ReadInvoice, GenerateInvoice
  <2>2. PICK kind, pc, i :
          /\ Begins(r, kind, pc, i)
          /\ \/ <<kind, pc>> \in {<<"suspend", "close">>, <<"resume", "activate">>,
                                  <<"enforce", "close">>, <<"renew", "list">>,
                                  <<"record", "generate">>, <<"extend", "write">>}
             \/ /\ <<kind, pc>> \in {<<"delete", "delete">>, <<"pay", "pay">>,
                                     <<"push", "insert">>, <<"generate", "track">>}
                /\ i \in Invoices
    BY <2>1
  <2>3. /\ Course(kind, pc) /\ kind # "callback" /\ pc \notin {"prompt", "pending", "unknown"}
        /\ i \in Invoices \/ pc \in Freestanding \/ kind = "extend"
    BY <2>2 DEF Course, Freestanding
  <2> QED BY <1>2, <2>2, <2>3, BeginsTyped
<1>7. CASE \/ SuspendApp(r) \/ MarkSuspended(r) \/ MarkActive(r) \/ ResumeApp(r)
           \/ ListInvoices(r) \/ TrackProformaFollowup(r) \/ CancelFollowup(r) \/ ExtendUsage(r)
           \/ DeleteInvoice(r)
  <2>1. Done(r) \/ \E pc : /\ Goes(r, pc)
                           /\ \/ q.pc = "close" /\ pc = "mark"
                              \/ q.pc = "activate" /\ pc = "open"
                              \/ q.pc = "list" /\ pc = "generate"
                              \/ q.pc = "delete" /\ pc = "cancel"
    BY <1>1, <1>7 DEF SuspendApp, MarkSuspended, MarkActive, ResumeApp, ListInvoices,
       TrackProformaFollowup, CancelFollowup, ExtendUsage, DeleteInvoice, At
  <2>2. ASSUME NEW pc, \/ q.pc = "close" /\ pc = "mark"
                       \/ q.pc = "activate" /\ pc = "open"
                       \/ q.pc = "list" /\ pc = "generate"
                       \/ q.pc = "delete" /\ pc = "cancel"
        PROVE  /\ Course(q.kind, pc) /\ pc \notin {"prompt", "pending", "unknown"}
               /\ q.pc \in Freestanding => pc \in Freestanding
    BY <1>1, <2>2 DEF RequestTyped, Course, Freestanding
  <2> QED BY <1>3, <1>4, <2>1, <2>2
<1>8. CASE GenerateRenewal(r) \/ GenerateRecorded(r)
  <2>1. Done(r) \/ \E pc, i : /\ req' = [req EXCEPT ![r].pc = pc, ![r].invoice = i]
                              /\ i \in Invoices
                              /\ <<q.kind, pc>> \in {<<"renew", "track">>, <<"record", "pay">>}
    BY <1>1, <1>8 DEF GenerateRenewal, GenerateRecorded
  <2>2. ASSUME NEW pc, NEW i, req' = [req EXCEPT ![r].pc = pc, ![r].invoice = i],
               i \in Invoices, <<q.kind, pc>> \in {<<"renew", "track">>, <<"record", "pay">>}
        PROVE  RequestsTyped'
    <3> DEFINE p == At5(pc, q.kind, i, q.attempt, q.row)
    <3>1. Only(r, p)
      BY <1>1, <1>2, <2>2, MakesOnly
    <3>2. /\ RequestRow(p) /\ p.pc = pc /\ p.kind = q.kind /\ p.invoice = i /\ p.row = q.row
      BY DEF At5, RequestRow
    <3> HIDE DEF p
    <3>3. Course(p.kind, p.pc) /\ p.kind # "callback" /\ p.pc \notin {"prompt", "pending", "unknown"}
      BY <2>2, <3>2 DEF Course
    <3>4. RequestTyped(p)
      BY <1>1, <2>2, <3>2, <3>3 DEF RequestTyped
    <3> QED BY <1>2, <3>1, <3>2, <3>4, OneTyped
  <2> QED BY <1>3, <2>1, <2>2
<1>9. CASE \/ PayInvoice(r) \/ WritePayment(r) \/ RecordExtension(r) \/ RecordPayment(r)
           \/ SettleFollowup(r)
  <2>1. /\ q.kind \in {"callback", "pay", "record"}
        /\ \/ Done(r) \/ ThenResume(r)
           \/ q.kind = "callback" /\ Goes(r, "review")
           \/ q.kind = "record" /\ Goes(r, "payment")
           \/ q.pc = "pay" /\ Goes(r, "write")
    BY <1>1, <1>9 DEF PayInvoice, WritePayment, RecordExtension, RecordPayment, SettleFollowup,
       At, Refused, RequestTyped, Course
  <2>2. q.pc \in Freestanding => FALSE
    BY <1>1, <1>9 DEF PayInvoice, WritePayment, RecordExtension, RecordPayment, SettleFollowup,
       At, Freestanding
  <2>3. /\ Course(q.kind, "write")
        /\ q.kind = "callback" => Course(q.kind, "review")
        /\ q.kind = "record" => Course(q.kind, "payment")
    BY <2>1 DEF Course
  <2> QED BY <1>3, <1>4, <1>5, <2>1, <2>2, <2>3
<1>10. CASE InsertAttempt(r)
  <2>1. CASE Done(r)
    BY <1>3, <2>1
  <2>2. CASE ~Done(r)
    <3>1. PICK a \in Attempts : req' = [req EXCEPT ![r].pc = "prompt", ![r].attempt = a]
      BY <1>10, <2>2 DEF InsertAttempt
    <3> DEFINE p == At5("prompt", q.kind, q.invoice, a, q.row)
    <3>2. Only(r, p)
      BY <1>1, <1>2, <3>1, AttemptOnly
    <3>3. RequestRow(p) /\ p.pc = "prompt" /\ p.kind = q.kind /\ p.invoice = q.invoice
          /\ p.row = q.row /\ p.attempt = a
      BY DEF At5, RequestRow
    <3> HIDE DEF p
    <3>4. q.kind = "push" /\ q.invoice \in Invoices
      BY <1>1, <1>10 DEF InsertAttempt, At, RequestTyped, Course, Freestanding
    <3>5. RequestTyped(p)
      BY <1>1, <3>3, <3>4 DEF RequestTyped, Course
    <3> QED BY <1>2, <3>2, <3>3, <3>5, OneTyped
  <2> QED BY <2>1, <2>2
<1>11. CASE Prompt(r) \/ SavePush(r)
  <2>1. /\ q.pc \in {"prompt", "pending", "unknown"}
        /\ Done(r) \/ \E pc \in {"pending", "unknown"} : Goes(r, pc)
    BY <1>1, <1>11 DEF Prompt, SavePush, At
  <2>2. \A pc \in {"pending", "unknown"} : Course(q.kind, pc)
    BY <1>1, <2>1 DEF RequestTyped, Course
  <2>3. q.pc \notin Freestanding
    BY <2>1 DEF Freestanding
  <2> QED BY <1>3, <1>4, <2>1, <2>2, <2>3
<1>12. CASE BindCallback(r)
  <2>1. PICK a \in Attempts :
          /\ attempt[a].status \in {"initiation_unknown", "pending"}
          /\ req' = [req EXCEPT ![r] = [Idle EXCEPT !.pc = "claim", !.kind = "callback",
                                          !.attempt = a, !.invoice = attempt[a].invoice]]
    BY <1>12 DEF BindCallback
  <2>2. PICK i : i = attempt[a].invoice
    OBVIOUS
  <2> DEFINE p == At5("claim", "callback", i, a, NoRow)
  <2>3. Only(r, p)
    BY <1>2, <2>1, <2>2, BindsOnly
  <2>4. RequestRow(p) /\ p.pc = "claim" /\ p.kind = "callback" /\ p.invoice = i
        /\ p.row = NoRow /\ p.attempt = a
    BY DEF At5, RequestRow
  <2> HIDE DEF p
  <2>5. RequestTyped(p)
    BY <2>1, <2>2, <2>4 DEF RequestTyped, Course, Typed, AttemptsAimed, NoRow, ClientRow
  <2> QED BY <1>2, <2>3, <2>4, <2>5, OneTyped
<1>13. CASE LoadClient(r)
  <2> DEFINE p == At5("verify", q.kind, q.invoice, q.attempt, client)
  <2>1. Only(r, p)
    BY <1>1, <1>2, <1>13, RowOnly DEF LoadClient
  <2>2. RequestRow(p) /\ p.pc = "verify" /\ p.kind = q.kind /\ p.invoice = q.invoice
        /\ p.row = client /\ p.attempt = q.attempt
    BY DEF At5, RequestRow
  <2> HIDE DEF p
  <2>3. RequestTyped(p)
    BY <1>1, <1>2, <1>13, <2>2 DEF RequestTyped, Course, LoadClient, At, Freestanding
  <2> QED BY <1>2, <2>1, <2>2, <2>3, OneTyped
<1>14. CASE \/ ClaimAttempt(r) \/ VerifyInvoice(r) \/ RecordReceipt(r) \/ RenewSubscription(r)
            \/ CompleteAttempt(r) \/ ReviewAttempt(r)
  <2>1. /\ q.kind = "callback"
        /\ Done(r) \/ \E pc \in {"client", "pay", "renew", "complete", "settle"} : Goes(r, pc)
    BY <1>1, <1>14 DEF ClaimAttempt, VerifyInvoice, RecordReceipt, RenewSubscription,
       CompleteAttempt, ReviewAttempt, At, RequestTyped, Course
  <2>2. \A pc \in {"client", "pay", "renew", "complete", "settle"} : Course("callback", pc)
    BY DEF Course
  <2>3. q.pc \notin Freestanding
    BY <1>1, <1>14 DEF ClaimAttempt, VerifyInvoice, RecordReceipt, RenewSubscription,
       CompleteAttempt, ReviewAttempt, At, Freestanding
  <2> QED BY <1>3, <1>4, <2>1, <2>2, <2>3
<1> QED BY <1>6, <1>7, <1>8, <1>9, <1>10, <1>11, <1>12, <1>13, <1>14 DEF Request

LEMMA LaterIsNat ==
  ASSUME NEW d \in Nat, NEW e \in Nat
  PROVE  Later(d, e) \in Nat /\ Later(d, e) >= d /\ Later(d, e) >= e
         /\ (Later(d, e) = d \/ Later(d, e) = e)
BY DEF Later

LEMMA RenewedIsNat ==
  ASSUME Typed, NEW row \in ClientRow
  PROVE  /\ Base(row) \in Nat
         /\ \A i \in Invoices : RenewedTo(row, i) \in Nat
<1>1. day \in Nat /\ row.expires \in Nat /\ Period \in Nat
  BY BillingAssumption DEF Typed, ClientRow
<1>2. Base(row) \in Nat
  BY <1>1, LaterIsNat DEF Base
<1>3. \A i \in Invoices : invoice[i].end \in Nat
  BY DEF Typed, InvoiceRows
<1> QED BY <1>1, <1>2, <1>3 DEF RenewedTo

(* A request or the sweep writes the client's row in one of these ways.      *)
LEMMA ClientTyped ==
  ASSUME Typed, NoticeInv, Next
  PROVE  client' \in ClientRow
<1>1. client \in ClientRow
  BY DEF Typed
<1>2. ASSUME NEW e \in Nat, PaidTo(e) PROVE client' \in ClientRow
  BY <1>1, <1>2 DEF PaidTo, ClientRow
<1>3. ASSUME NEW s \in {"active", "suspended"}, client' = [client EXCEPT !.status = s]
      PROVE  client' \in ClientRow
  BY <1>1, <1>3 DEF ClientRow
<1>4. ASSUME NEW r \in Requests, Request(r) \/ ExtendUsage(r) PROVE client' \in ClientRow
  <2>1. PICK q : q = req[r] /\ q.row \in ClientRow /\ RequestTyped(q)
    BY DEF Typed, RequestsTyped, RequestTyped
  <2>2. /\ Base(q.row) + Period \in Nat /\ Base(q.row) + Extension \in Nat
        /\ q.invoice \in Invoices => RenewedTo(q.row, q.invoice) \in Nat
    BY <2>1, RenewedIsNat, BillingAssumption
  <2>3. CASE WritePayment(r)
    <3>1. q.invoice \in Invoices
      BY <2>1, <2>3 DEF WritePayment, At, RequestTyped, Freestanding
    <3> QED BY <1>2, <2>1, <2>2, <2>3, <3>1 DEF WritePayment
  <2>4. CASE RecordExtension(r) \/ RenewSubscription(r) \/ ExtendUsage(r)
    BY <1>2, <2>1, <2>2, <2>4 DEF RecordExtension, RenewSubscription, ExtendUsage
  <2>5. CASE MarkSuspended(r) \/ MarkActive(r)
    BY <1>3, <2>5 DEF MarkSuspended, MarkActive
  <2>6. CASE ~(\/ WritePayment(r) \/ RecordExtension(r) \/ RenewSubscription(r) \/ ExtendUsage(r)
               \/ MarkSuspended(r) \/ MarkActive(r))
    <3>1. UNCHANGED client
      BY <1>4, <2>6 DEF tables, Request, SuspendApp, ResumeApp, SuspendOrResume,
         EnforceSubscriptionPayments, GenerateInvoice, TrackProformaFollowup, ReadRenewal,
         ListInvoices, GenerateRenewal, CheckDelete, DeleteInvoice, CancelFollowup, ReadClient,
         GenerateRecorded, PayInvoice, RecordPayment, ReadInvoice, InsertAttempt, Prompt, SavePush,
         BindCallback, ClaimAttempt, LoadClient, VerifyInvoice, RecordReceipt, CompleteAttempt,
         SettleFollowup, ReviewAttempt
    <3> QED BY <1>1, <3>1
  <2> QED BY <2>3, <2>4, <2>5, <2>6
<1>5. CASE SweepStep
  <2>1. CASE Reconcile
    <3>1. sweep.i \in Invoices /\ sweep.row \in ClientRow
      BY <2>1 DEF Reconcile, SweepAt, NoticeInv, SweepTrue, Typed
    <3>2. RenewedTo(sweep.row, sweep.i) \in Nat
      BY <3>1, RenewedIsNat
    <3>3. UNCHANGED client \/ PaidTo(RenewedTo(sweep.row, sweep.i))
      BY <2>1 DEF Reconcile
    <3> QED BY <1>1, <1>2, <3>2, <3>3
  <2>2. CASE SweepMarksSuspended \/ SweepMarksActive
    BY <1>3, <2>2 DEF SweepMarksSuspended, SweepMarksActive
  <2>3. CASE ~(Reconcile \/ SweepMarksSuspended \/ SweepMarksActive)
    <3>1. UNCHANGED client
      BY <1>5, <2>3 DEF tables, SweepStep, LookUpInvoice, SkipRow, ClaimRow, RecheckInvoice,
         UnclaimPaid, CancelRow, CatchRow, ConfirmClaim, SendWarning, SweepSuspendsApp, FinishSuspension,
         SweepResumesApp
    <3> QED BY <1>1, <3>1
  <2> QED BY <2>1, <2>2, <2>3
<1>6. CASE ~SweepStep /\ ~\E r \in Requests : Request(r) \/ ExtendUsage(r)
  <2>1. UNCHANGED client
    BY <1>6 DEF Next, OwnerPays, SweepStart, Fault, Fail, Unanswered, SweepFails, Restart, tables
  <2> QED BY <1>1, <2>1
<1> QED BY <1>4, <1>5, <1>6

(* The steps that write invoices, and how                                    *)
InvoiceStep(r) ==
  \/ UNCHANGED invoice
  \/ \E i \in Invoices : OpenInvoice(i) /\ InvoiceSet(i, "paid") /\ i = req[r].invoice /\ PayInvoice(r)
  \/ \E i \in Invoices : OpenInvoice(i) /\ InvoiceSet(i, "deleted") /\ DeleteInvoice(r)
  \/ \E i \in Invoices, key \in Days, start \in Nat :
       /\ invoice[i].status = "none" /\ Generated(i, key, start)
       /\ start = day \/ (req[r].pc = "generate" /\ start = req[r].row.expires)
LEMMA RequestsWriteInvoices ==
  ASSUME Typed, NEW r \in Requests, Request(r) \/ ExtendUsage(r)
  PROVE  InvoiceStep(r)
<1>1. PICK q : q = req[r] /\ RequestTyped(q) /\ q.row.expires \in Nat
  BY DEF Typed, RequestsTyped, RequestTyped, ClientRow
<1>2. day \in Nat /\ NoDay \in Days /\ Nat \subseteq Days
  BY BillingAssumption DEF Typed, Days
<1>3. CASE PayInvoice(r) \/ DeleteInvoice(r)
  <2>1. q.invoice \in Invoices
    BY <1>1, <1>3 DEF PayInvoice, DeleteInvoice, At, RequestTyped, Freestanding, Course
  <2> QED BY <1>1, <1>3, <2>1 DEF PayInvoice, DeleteInvoice, Payable, Deletable, OpenInvoice,
             InvoiceSet, InvoiceStep
<1>4. CASE GenerateInvoice(r) \/ GenerateRecorded(r)
  <2>1. UNCHANGED invoice \/ \E i \in Invoices : invoice[i].status = "none" /\ Generated(i, NoDay, day)
    BY <1>4 DEF GenerateInvoice, GenerateRecorded
  <2> QED BY <1>2, <2>1 DEF InvoiceStep
<1>5. CASE GenerateRenewal(r)
  <2>1. \/ UNCHANGED invoice
        \/ q.pc = "generate" /\ \E i \in Invoices : invoice[i].status = "none"
                                     /\ Generated(i, q.row.expires, q.row.expires)
    BY <1>1, <1>5 DEF GenerateRenewal, At
  <2> QED BY <1>1, <1>2, <2>1 DEF InvoiceStep
<1>6. CASE ~(\/ PayInvoice(r) \/ DeleteInvoice(r) \/ GenerateInvoice(r) \/ GenerateRecorded(r)
             \/ GenerateRenewal(r))
  BY <1>6 DEF InvoiceStep, tables, Request, SuspendApp, ResumeApp, SuspendOrResume,
     MarkSuspended, MarkActive, EnforceSubscriptionPayments, TrackProformaFollowup, ReadRenewal,
     ListInvoices, CheckDelete, CancelFollowup, ReadClient, WritePayment, RecordExtension,
     RecordPayment, ReadInvoice, InsertAttempt, Prompt, SavePush, RenewSubscription, ExtendUsage,
     BindCallback, ClaimAttempt, LoadClient, VerifyInvoice, RecordReceipt, CompleteAttempt,
     SettleFollowup, ReviewAttempt
<1> QED BY <1>3, <1>4, <1>5, <1>6

LEMMA InvoicesTyped ==
  ASSUME Typed, Next
  PROVE  invoice' \in InvoiceRows
<1>1. invoice \in InvoiceRows /\ Period \in Nat /\ day \in Nat
  BY BillingAssumption DEF Typed
<1>2. ASSUME NEW i \in Invoices, NEW s \in {"paid", "deleted"}, InvoiceSet(i, s)
      PROVE  invoice' \in InvoiceRows
  BY <1>1, <1>2 DEF InvoiceSet, InvoiceRows
<1>3. ASSUME NEW i \in Invoices, NEW key \in Days, NEW start \in Nat, Generated(i, key, start)
      PROVE  invoice' \in InvoiceRows
  <2> DEFINE v == [status |-> "open", key |-> key, created |-> day, end |-> start + Period]
  <2>1. v \in [status : {"none", "open", "paid", "deleted"},
                             key : Days, created : Nat, end : Nat]
    BY <1>1
  <2>2. invoice' = [invoice EXCEPT ![i] = v]
    BY <1>3 DEF Generated
  <2> HIDE DEF v
  <2> QED BY <1>1, <2>1, <2>2 DEF InvoiceRows
<1>4. CASE \E r \in Requests : Request(r) \/ ExtendUsage(r)
  BY <1>1, <1>2, <1>3, <1>4, RequestsWriteInvoices DEF InvoiceStep
<1>5. CASE \E i \in Invoices : OwnerPays(i)
  BY <1>2, <1>5 DEF OwnerPays, InvoiceSet
<1>6. CASE ~(\E r \in Requests : Request(r) \/ ExtendUsage(r)) /\ ~(\E i \in Invoices : OwnerPays(i))
  <2>1. UNCHANGED invoice
    BY <1>6 DEF Next, SweepStart, Fault, Fail, Unanswered, SweepFails, Restart, tables, SweepStep,
       LookUpInvoice, SkipRow, ClaimRow, RecheckInvoice, Reconcile, SweepMarksActive,
       SweepMarksSuspended, UnclaimPaid, CancelRow, CatchRow, ConfirmClaim, SendWarning, SweepSuspendsApp,
       FinishSuspension, SweepResumesApp
  <2> QED BY <1>1, <2>1
<1> QED BY <1>4, <1>5, <1>6

(* Payments are only added, each for an invoice and by somebody.             *)
LEMMA PaymentsTyped ==
  ASSUME Typed, NoticeInv, Next
  PROVE  payments' \subseteq PaymentRow /\ payments \subseteq payments'
<1>1. payments \subseteq PaymentRow
  BY DEF Typed
<1>2. ASSUME NEW i \in Invoices, NEW by \in Attempts \cup ByHand, Paid(i, by)
      PROVE  payments' \subseteq PaymentRow /\ payments \subseteq payments'
  BY <1>1, <1>2 DEF Paid, PaymentRow
<1>3. ASSUME NEW r \in Requests, Request(r) \/ ExtendUsage(r)
      PROVE  payments' \subseteq PaymentRow /\ payments \subseteq payments'
  <2>1. PICK q : q = req[r] /\ RequestTyped(q)
    BY DEF Typed, RequestsTyped
  <2>2. CASE WritePayment(r) \/ RecordPayment(r) \/ RecordReceipt(r)
    <3>1. q.invoice \in Invoices
      BY <2>1, <2>2 DEF WritePayment, RecordPayment, RecordReceipt, At, RequestTyped, Freestanding,
         Course
    <3>2. \E by \in Attempts \cup ByHand : Paid(q.invoice, by)
      BY <2>1, <2>2 DEF WritePayment, RecordPayment, RecordReceipt, At, RequestTyped, ByHand
    <3> QED BY <1>2, <3>1, <3>2
  <2>3. CASE ~(WritePayment(r) \/ RecordPayment(r) \/ RecordReceipt(r))
    <3>1. UNCHANGED payments
      BY <1>3, <2>3 DEF tables, Request, SuspendApp, ResumeApp, SuspendOrResume,
         MarkSuspended, MarkActive, EnforceSubscriptionPayments, TrackProformaFollowup, ReadRenewal,
         ListInvoices, CheckDelete, CancelFollowup, ReadClient, RecordExtension,
         ReadInvoice, InsertAttempt, Prompt, SavePush, RenewSubscription, ExtendUsage,
         BindCallback, ClaimAttempt, LoadClient, VerifyInvoice, CompleteAttempt,
         SettleFollowup, ReviewAttempt, PayInvoice, DeleteInvoice, GenerateInvoice,
         GenerateRecorded, GenerateRenewal
    <3> QED BY <1>1, <3>1
  <2> QED BY <2>2, <2>3
<1>4. CASE Reconcile
  <2>1. sweep.i \in Invoices
    BY <1>4 DEF Reconcile, SweepAt, NoticeInv, SweepTrue
  <2>2. UNCHANGED payments \/ Paid(sweep.i, "reconciled")
    BY <1>4 DEF Reconcile
  <2> QED BY <1>1, <1>2, <2>1, <2>2 DEF ByHand
<1>5. CASE ~(\E r \in Requests : Request(r) \/ ExtendUsage(r)) /\ ~Reconcile
  <2>1. UNCHANGED payments
    BY <1>5 DEF Next, OwnerPays, SweepStart, Fault, Fail, Unanswered, SweepFails, Restart, tables, SweepStep,
       LookUpInvoice, SkipRow, ClaimRow, RecheckInvoice, SweepMarksActive,
       SweepMarksSuspended, UnclaimPaid, CancelRow, CatchRow, ConfirmClaim, SendWarning, SweepSuspendsApp,
       FinishSuspension, SweepResumesApp
  <2> QED BY <1>1, <2>1
<1> QED BY <1>3, <1>4, <1>5

LEMMA InsertedRow ==
  ASSUME NEW v, NEW i, DOMAIN v = {"status", "invoice", "result"}
  PROVE  [v EXCEPT !.status = "initiating", !.invoice = i]
           = [status |-> "initiating", invoice |-> i, result |-> v.result]
<1> DEFINE g == [v EXCEPT !.status = "initiating", !.invoice = i]
<1>1. /\ g.status = "initiating" /\ g.invoice = i /\ g.result = v.result
      /\ DOMAIN g = {"status", "invoice", "result"} /\ g = [x \in DOMAIN g |-> g[x]]
  OBVIOUS
<1> HIDE DEF g
<1>2. g = [status |-> "initiating", invoice |-> i, result |-> v.result]
  BY <1>1
<1> QED BY <1>2 DEF g

(* What a step of a request does to the attempts                             *)
AttemptSet(a, s) == attempt' = [attempt EXCEPT ![a].status = s]
AttemptAnswered(a, v) == attempt' = [attempt EXCEPT ![a].result = v]
AttemptMade(a, i) ==
  attempt' = [attempt EXCEPT ![a] = [status |-> "initiating", invoice |-> i,
                                     result |-> attempt[a].result]]
AttemptStep(r) ==
  LET a == req[r].attempt IN
  \/ UNCHANGED attempt
  \/ SavePush(r) /\ \E s \in {"pending", "initiation_unknown"} : AttemptSet(a, s)
  \/ ClaimAttempt(r) /\ Claimable(a)
     /\ \E s \in {"failed", "needs_review", "payment_confirmed"} :
          /\ AttemptSet(a, s)
          /\ Goes(r, "client") => s = "payment_confirmed"
  \/ VerifyInvoice(r) /\ AttemptSet(a, "needs_review")
  \/ CompleteAttempt(r) /\ attempt[a].status = "payment_confirmed" /\ AttemptSet(a, "complete")
  \/ ReviewAttempt(r) /\ attempt[a].status = "payment_confirmed" /\ AttemptSet(a, "needs_review")
  \/ Prompt(r) /\ \E v \in {"success", "mismatch", "failure"} : AttemptAnswered(a, v)
  \/ BindCallback(r)
     /\ \E b \in Attempts : /\ attempt[b].status \in {"initiation_unknown", "pending"}
                            /\ AttemptSet(b, "pending")
  \/ InsertAttempt(r)
     /\ \E b \in Attempts : /\ attempt[b].status = "absent" /\ ~ActiveFor(req[r].invoice)
                            /\ AttemptMade(b, req[r].invoice)
                            /\ req' = [req EXCEPT ![r].pc = "prompt", ![r].attempt = b]

LEMMA InsertMakes ==
  ASSUME attempt \in AttemptRows, NEW r, InsertAttempt(r), NEW i, i = req[r].invoice
  PROVE  \/ Done(r) /\ UNCHANGED attempt
         \/ \E b \in Attempts : /\ attempt[b].status = "absent" /\ ~ActiveFor(i)
                               /\ AttemptMade(b, i)
                               /\ req' = [req EXCEPT ![r].pc = "prompt", ![r].attempt = b]
<1>1. CASE Done(r) /\ UNCHANGED attempt
  BY <1>1
<1>2. CASE ~(Done(r) /\ UNCHANGED attempt)
  <2>1. PICK b \in Attempts :
          /\ attempt[b].status = "absent" /\ ~ActiveFor(i)
          /\ attempt' = [attempt EXCEPT ![b] = [@ EXCEPT !.status = "initiating", !.invoice = i]]
          /\ req' = [req EXCEPT ![r].pc = "prompt", ![r].attempt = b]
    BY <1>2 DEF InsertAttempt
  <2>2. DOMAIN attempt[b] = {"status", "invoice", "result"}
    BY DEF AttemptRows
  <2>3. PICK v : v = attempt[b]
    OBVIOUS
  <2>4. attempt' = [attempt EXCEPT ![b] = [v EXCEPT !.status = "initiating", !.invoice = i]]
    BY <2>1, <2>3
  <2>5. AttemptMade(b, i)
    BY <2>2, <2>3, <2>4, InsertedRow DEF AttemptMade
  <2> QED BY <2>1, <2>5
<1> QED BY <1>1, <1>2

LEMMA SameStatus ==
  ASSUME NEW a, attempt \in AttemptRows, AttemptSet(a, attempt[a].status)
  PROVE  UNCHANGED attempt
<1>1. CASE a \in Attempts
  BY <1>1 DEF AttemptSet, AttemptRows
<1>2. CASE a \notin Attempts
  BY <1>2 DEF AttemptSet, AttemptRows
<1> QED BY <1>1, <1>2

LEMMA RequestsWriteAttempts ==
  ASSUME Typed, NEW r \in Requests, Request(r) \/ ExtendUsage(r)
  PROVE  AttemptStep(r)
<1>1. PICK a : a = req[r].attempt
  OBVIOUS
<1>2. attempt \in AttemptRows
  BY DEF Typed
<1>3. CASE SavePush(r)
  BY <1>1, <1>3 DEF SavePush, AttemptStep, AttemptSet
<1>4. CASE ClaimAttempt(r)
  <2> DEFINE to == CASE attempt[a].result = "failure" -> "failed"
                     [] attempt[a].result = "mismatch" -> "needs_review"
                     [] OTHER -> "payment_confirmed"
  <2>1. \/ UNCHANGED attempt
        \/ /\ Claimable(a) /\ AttemptSet(a, to)
           /\ IF attempt[a].result = "success" THEN Goes(r, "client") ELSE Done(r)
    BY <1>1, <1>4 DEF ClaimAttempt, AttemptSet
  <2>2. to \in {"failed", "needs_review", "payment_confirmed"}
        /\ (attempt[a].result = "success" => to = "payment_confirmed")
    OBVIOUS
  <2> HIDE DEF to
  <2>3. Goes(r, "client") /\ Done(r) => FALSE
    <3> SUFFICES ASSUME Goes(r, "client"), Done(r) PROVE FALSE
      OBVIOUS
    <3> DEFINE p == At5("client", req[r].kind, req[r].invoice, req[r].attempt, req[r].row)
               q == At5("idle", "none", NoInvoice, NoAttempt, NoRow)
    <3>1. Only(r, p) /\ Only(r, q)
      BY GoesOnly, DoneOnly DEF Typed, RequestsTyped
    <3>2. p.pc = "client" /\ q.pc = "idle"
      BY DEF At5
    <3> HIDE DEF p, q
    <3> QED BY <3>1, <3>2 DEF Only
  <2> QED BY <1>1, <1>4, <2>1, <2>2, <2>3 DEF AttemptStep
<1>5. CASE VerifyInvoice(r)
  BY <1>5 DEF VerifyInvoice, AttemptStep, AttemptSet
<1>6. CASE CompleteAttempt(r) \/ ReviewAttempt(r)
  <2>1. \/ CompleteAttempt(r) /\ Confirmed(a, "complete")
        \/ ReviewAttempt(r) /\ Confirmed(a, "needs_review")
    BY <1>1, <1>6 DEF CompleteAttempt, ReviewAttempt
  <2>2. CASE attempt[a].status = "payment_confirmed"
    <3>1. \A to : Confirmed(a, to) => AttemptSet(a, to)
      BY <2>2 DEF Confirmed, AttemptSet
    <3> QED BY <1>1, <2>1, <2>2, <3>1 DEF AttemptStep
  <2>3. CASE attempt[a].status # "payment_confirmed"
    <3>1. \A to : Confirmed(a, to) => AttemptSet(a, attempt[a].status)
      BY <2>3 DEF Confirmed, AttemptSet
    <3> QED BY <1>2, <2>1, <3>1, SameStatus DEF AttemptStep
  <2> QED BY <2>2, <2>3
<1>7. CASE Prompt(r)
  BY <1>7 DEF Prompt, AttemptStep, AttemptAnswered
<1>8. CASE BindCallback(r)
  BY <1>8 DEF BindCallback, AttemptStep, AttemptSet
<1>9. CASE InsertAttempt(r)
  <2>1. PICK i : i = req[r].invoice
    OBVIOUS
  <2> QED BY <1>2, <1>9, <2>1, InsertMakes DEF AttemptStep
<1>10. CASE ~(\/ SavePush(r) \/ ClaimAttempt(r) \/ VerifyInvoice(r) \/ CompleteAttempt(r)
              \/ ReviewAttempt(r) \/ Prompt(r) \/ BindCallback(r) \/ InsertAttempt(r))
  BY <1>10 DEF AttemptStep, tables, Request, SuspendApp, ResumeApp, SuspendOrResume,
     MarkSuspended, MarkActive, EnforceSubscriptionPayments, TrackProformaFollowup, ReadRenewal,
     ListInvoices, CheckDelete, CancelFollowup, ReadClient, WritePayment, RecordExtension,
     RecordPayment, ReadInvoice, RenewSubscription, ExtendUsage,
     LoadClient, RecordReceipt, SettleFollowup, PayInvoice, DeleteInvoice, GenerateInvoice,
     GenerateRecorded, GenerateRenewal
<1> QED BY <1>3, <1>4, <1>5, <1>6, <1>7, <1>8, <1>9, <1>10

(* A step that only reports on an attempt has one.                           *)
LEMMA AttemptAtHand ==
  ASSUME Typed, NEW r \in Requests,
         \/ SavePush(r) \/ ClaimAttempt(r) \/ VerifyInvoice(r) \/ CompleteAttempt(r)
         \/ ReviewAttempt(r) \/ Prompt(r)
  PROVE  req[r].attempt \in Attempts
<1>1. RequestTyped(req[r])
  BY DEF Typed, RequestsTyped
<1> QED BY <1>1 DEF SavePush, ClaimAttempt, VerifyInvoice, CompleteAttempt, ReviewAttempt, Prompt, At,
           RequestTyped, Course

LEMMA OthersLeaveAttempts ==
  ASSUME Next
  PROVE  UNCHANGED attempt \/ \E r \in Requests : Request(r)
<1> SUFFICES ASSUME ~\E r \in Requests : Request(r) PROVE UNCHANGED attempt
  OBVIOUS
<1> QED BY DEF Next, OwnerPays, SweepStart, Fault, Fail, Unanswered, SweepFails, Restart, tables, SweepStep,
       LookUpInvoice, SkipRow, ClaimRow, RecheckInvoice, SweepMarksActive, Reconcile,
       SweepMarksSuspended, UnclaimPaid, CancelRow, CatchRow, ConfirmClaim, SendWarning, SweepSuspendsApp,
       FinishSuspension, SweepResumesApp, ExtendUsage

StatusOfAttempts == Active \cup {"absent", "complete", "failed"}

(* One attempt changes at a time, and keeps its invoice once it has one.     *)
AttemptsMoved(a) ==
  /\ attempt' \in AttemptRows
  /\ \A b \in Attempts : /\ b # a => attempt'[b] = attempt[b]
                         /\ attempt[b].status # "absent" => attempt'[b].invoice = attempt[b].invoice
LEMMA SetMoves ==
  ASSUME attempt \in AttemptRows, NEW a \in Attempts, NEW s \in StatusOfAttempts, AttemptSet(a, s)
  PROVE  AttemptsMoved(a) /\ attempt'[a].status = s /\ attempt'[a].invoice = attempt[a].invoice
BY DEF AttemptSet, AttemptRows, StatusOfAttempts, AttemptsMoved
LEMMA AnswerMoves ==
  ASSUME attempt \in AttemptRows, NEW a \in Attempts, NEW v \in {"success", "mismatch", "failure"},
         AttemptAnswered(a, v)
  PROVE  AttemptsMoved(a) /\ attempt'[a].status = attempt[a].status
         /\ attempt'[a].invoice = attempt[a].invoice
BY DEF AttemptAnswered, AttemptRows, AttemptsMoved
LEMMA MadeMoves ==
  ASSUME attempt \in AttemptRows, NEW a \in Attempts, NEW i \in Invoices,
         attempt[a].status = "absent", AttemptMade(a, i)
  PROVE  AttemptsMoved(a) /\ attempt'[a].status = "initiating" /\ attempt'[a].invoice = i
<1> DEFINE v == [status |-> "initiating", invoice |-> i, result |-> attempt[a].result]
<1>1. v \in [status : Active \cup {"absent", "complete", "failed"},
                             invoice : Invoices \cup {NoInvoice},
                             result : {"none", "success", "mismatch", "failure"}]
  BY DEF AttemptRows, Active
<1>2. v.status = "initiating" /\ v.invoice = i
  OBVIOUS
<1>3. attempt' = [attempt EXCEPT ![a] = v]
  BY DEF AttemptMade
<1> HIDE DEF v
<1> QED BY <1>1, <1>2, <1>3 DEF AttemptRows, AttemptsMoved

-----------------------------------------------------------------------------
(* Invoices that ended stay as they are, whatever step is taken.             *)
LEMMA StepsKeepInvoices ==
  ASSUME Typed, Next
  PROVE  \A i \in Invoices : Stays(i)
<1>1. invoice \in InvoiceRows
  BY DEF Typed
<1>2. ASSUME NEW i \in Invoices, NEW s \in {"paid", "deleted"}, OpenInvoice(i), InvoiceSet(i, s)
      PROVE  \A j \in Invoices : Stays(j)
  BY <1>1, <1>2 DEF InvoiceSet, InvoiceRows, OpenInvoice, Stays
<1>3. ASSUME NEW i \in Invoices, NEW key, NEW start, invoice[i].status = "none",
             Generated(i, key, start)
      PROVE  \A j \in Invoices : Stays(j)
  <2> DEFINE v == [status |-> "open", key |-> key, created |-> day, end |-> start + Period]
  <2>1. invoice' = [invoice EXCEPT ![i] = v] /\ v.status = "open"
    BY <1>3 DEF Generated
  <2> HIDE DEF v
  <2> QED BY <1>1, <1>3, <2>1 DEF InvoiceRows, Stays
<1>4. CASE \E r \in Requests : Request(r) \/ ExtendUsage(r)
  <2>1. PICK r \in Requests : InvoiceStep(r)
    BY <1>4, RequestsWriteInvoices
  <2> QED BY <1>2, <1>3, <2>1 DEF InvoiceStep, Stays
<1>5. CASE \E i \in Invoices : OwnerPays(i)
  BY <1>2, <1>5 DEF OwnerPays, InvoiceSet
<1>6. CASE ~(\E r \in Requests : Request(r) \/ ExtendUsage(r)) /\ ~(\E i \in Invoices : OwnerPays(i))
  <2>1. UNCHANGED invoice
    BY <1>6 DEF Next, SweepStart, Fault, Fail, Unanswered, SweepFails, Restart, tables, SweepStep,
       LookUpInvoice, SkipRow, ClaimRow, RecheckInvoice, Reconcile, SweepMarksActive,
       SweepMarksSuspended, UnclaimPaid, CancelRow, CatchRow, ConfirmClaim, SendWarning, SweepSuspendsApp,
       FinishSuspension, SweepResumesApp
  <2> QED BY <2>1 DEF Stays
<1> QED BY <1>4, <1>5, <1>6

-----------------------------------------------------------------------------
(* Attempts: who works on which.  A push has its attempt to itself until it   *)
(* saved it; whoever claimed a callback has the attempt to itself to the end, *)
(* and whoever paid an invoice has the invoice.                               *)
Pushing(q) == q.pc \in {"prompt", "pending", "unknown"}
Called(q) == q.kind = "callback"
Works(q) == Called(q) /\ q.pc \in {"client", "verify", "pay", "write", "renew", "complete", "settle",
                                   "review"}
Holds(q) == Called(q) /\ q.pc \in {"write", "renew", "complete", "settle"}
Receipted(q) == Called(q) /\ q.pc \in {"renew", "complete"}

Aimed(q) ==
  LET a == q.attempt IN
  /\ Pushing(q) => attempt[a].status = "initiating"
  /\ Called(q) => /\ attempt[a].status \notin {"absent", "initiating"}
                  /\ attempt[a].invoice = q.invoice
  /\ Works(q) => \/ attempt[a].status = "payment_confirmed"
                 \/ q.pc \in {"settle", "review"} /\ attempt[a].status = "complete"
  /\ Holds(q) => \A b \in Attempts \ {a} :
                   attempt[b].status = "complete" => attempt[b].invoice # q.invoice
  /\ Receipted(q) => [invoice |-> q.invoice, by |-> a] \in payments
Apart(p, q) ==
  /\ Pushing(p) /\ Pushing(q) => p.attempt # q.attempt
  /\ Works(p) /\ Works(q) => p.attempt # q.attempt
  /\ Holds(p) /\ Holds(q) => p.invoice # q.invoice
RequestsAimed == /\ \A r \in Requests : Aimed(req[r])
                 /\ \A r, u \in Requests : r # u => Apart(req[r], req[u])
ActiveOnce ==
  \A a, b \in Attempts : attempt[a].status \in Active /\ attempt[b].status \in Active
                         /\ attempt[a].invoice = attempt[b].invoice => a = b
AttemptInv == AttemptsAimed /\ RequestsAimed /\ ActiveOnce /\ CompletedIsPaid

(* A request that does not work on the attempt a step moves                  *)
LEMMA BystanderAimed ==
  ASSUME NEW a, NEW p, Aimed(p), RequestTyped(p), AttemptsMoved(a), payments \subseteq payments',
         Pushing(p) \/ Works(p) => p.attempt # a \/ attempt'[a] = attempt[a],
         attempt[a].status \notin {"absent", "initiating"}
           => attempt'[a].status \notin {"absent", "initiating"},
         \/ attempt'[a].status # "complete" \/ attempt'[a] = attempt[a]
         \/ Holds(p) => attempt'[a].invoice # p.invoice
  PROVE  Aimed(p)'
<1>1. Called(p) \/ Pushing(p) => p.attempt \in Attempts
  BY DEF RequestTyped, Called, Pushing
<1>2. /\ Pushing(p) => attempt'[p.attempt].status = "initiating"
      /\ Called(p) => /\ attempt'[p.attempt].status \notin {"absent", "initiating"}
                      /\ attempt'[p.attempt].invoice = p.invoice
      /\ Works(p) => \/ attempt'[p.attempt].status = "payment_confirmed"
                     \/ p.pc \in {"settle", "review"} /\ attempt'[p.attempt].status = "complete"
  BY <1>1 DEF Aimed, AttemptsMoved, Works
<1>3. ASSUME Holds(p), NEW b \in Attempts \ {p.attempt}, attempt'[b].status = "complete"
      PROVE  attempt'[b].invoice # p.invoice
  BY <1>3 DEF Aimed, AttemptsMoved
<1>4. Receipted(p) => [invoice |-> p.invoice, by |-> p.attempt] \in payments'
  BY DEF Aimed
<1> QED BY <1>2, <1>3, <1>4 DEF Aimed

LEMMA StepAims ==
  ASSUME RequestsAimed, RequestsTyped, NEW r \in Requests, NEW q, Only(r, q), NEW a,
         AttemptsMoved(a), payments \subseteq payments',
         Aimed(q)', \A u \in Requests \ {r} : Apart(q, req[u]),
         attempt[a].status \notin {"absent", "initiating"}
           => attempt'[a].status \notin {"absent", "initiating"},
         \A u \in Requests \ {r} :
           /\ Pushing(req[u]) \/ Works(req[u]) => req[u].attempt # a \/ attempt'[a] = attempt[a]
           /\ \/ attempt'[a].status # "complete" \/ attempt'[a] = attempt[a]
              \/ Holds(req[u]) => attempt'[a].invoice # req[u].invoice
  PROVE  RequestsAimed'
<1>1. ASSUME NEW u \in Requests PROVE Aimed(req[u])'
  <2>1. CASE u = r
    <3>1. req'[u] = q
      BY <2>1 DEF Only
    <3> QED BY <3>1 DEF Aimed
  <2>2. CASE u # r
    <3>1. PICK p : p = req[u]
      OBVIOUS
    <3>2. req'[u] = p /\ Aimed(p) /\ RequestTyped(p)
      BY <2>2, <3>1 DEF Only, RequestsAimed, RequestsTyped
    <3>3. /\ Pushing(p) \/ Works(p) => p.attempt # a \/ attempt'[a] = attempt[a]
          /\ \/ attempt'[a].status # "complete" \/ attempt'[a] = attempt[a]
             \/ Holds(p) => attempt'[a].invoice # p.invoice
      BY <2>2, <3>1
    <3>4. Aimed(p)'
      BY <3>2, <3>3, BystanderAimed
    <3> QED BY <3>2, <3>4 DEF Aimed
  <2> QED BY <2>1, <2>2
<1>2. ASSUME NEW u \in Requests, NEW v \in Requests, u # v PROVE Apart(req'[u], req'[v])
  <2>1. \A w \in Requests : req'[w] = IF w = r THEN q ELSE req[w]
    BY DEF Only
  <2>2. u # r /\ v # r => Apart(req[u], req[v])
    BY <1>2 DEF RequestsAimed
  <2>3. \A w \in Requests \ {r} : Apart(q, req[w]) /\ Apart(req[w], q)
    BY DEF Apart
  <2> QED BY <1>2, <2>1, <2>2, <2>3
<1> QED BY <1>1, <1>2 DEF RequestsAimed

(* Steps that leave the attempts alone                                       *)
LEMMA QuietAims ==
  ASSUME RequestsAimed, RequestsTyped, attempt \in AttemptRows, NEW r \in Requests, NEW q, Only(r, q),
         UNCHANGED attempt, payments \subseteq payments',
         Aimed(q)', \A u \in Requests \ {r} : Apart(q, req[u])
  PROVE  RequestsAimed'
<1>1. PICK a : a = 0
  OBVIOUS
<1>2. AttemptsMoved(a)
  BY DEF AttemptsMoved
<1>3. attempt'[a] = attempt[a]
  OBVIOUS
<1> QED BY <1>2, <1>3, StepAims

LEMMA FreshAims ==
  ASSUME RequestsAimed, RequestsTyped, attempt \in AttemptRows, NEW r \in Requests, NEW q, Only(r, q),
         UNCHANGED attempt, payments \subseteq payments', ~Pushing(q), ~Called(q)
  PROVE  RequestsAimed'
<1>1. Aimed(q)' /\ \A u \in Requests : Apart(q, req[u])
  BY DEF Aimed, Apart, Works, Holds, Receipted
<1> QED BY <1>1, QuietAims

(* A request goes on with the attempt and the invoice it has.                *)
LEMMA OnwardAims ==
  ASSUME RequestsAimed, RequestsTyped, RequestsTold, CompletedIsPaid, attempt \in AttemptRows,
         NEW r \in Requests, NEW pc, NEW row,
         Only(r, At5(pc, req[r].kind, req[r].invoice, req[r].attempt, row)),
         UNCHANGED attempt, payments \subseteq payments',
         pc \in {"prompt", "pending", "unknown"} => Pushing(req[r]),
         Called(req[r]) =>
           \/ pc \in {"activate", "open"}
           \/ Works(req[r]) /\ pc = "review"
           \/ req[r].pc = "client" /\ pc = "verify"
           \/ req[r].pc = "verify" /\ pc = "pay"
           \/ req[r].pc = "pay" /\ pc = "write" /\ OpenInvoice(req[r].invoice)
           \/ req[r].pc = "write" /\ pc = "renew"
              /\ [invoice |-> req[r].invoice, by |-> req[r].attempt] \in payments'
           \/ req[r].pc = "renew" /\ pc = "complete"
  PROVE  RequestsAimed'
<1>0. PICK q : q = At5(pc, req[r].kind, req[r].invoice, req[r].attempt, row)
  OBVIOUS
<1>1. PICK p : p = req[r] /\ Aimed(p) /\ RequestTyped(p)
  BY DEF RequestsAimed, RequestsTyped
<1>2. q.pc = pc /\ q.kind = p.kind /\ q.invoice = p.invoice /\ q.attempt = p.attempt
  BY <1>0, <1>1 DEF At5
<1>3. Only(r, q)
  BY <1>0
<1>4. CASE ~Called(p)
  <2>1. Aimed(q)'
    BY <1>1, <1>2, <1>4 DEF Aimed, Works, Holds, Receipted, Pushing, Called
  <2>2. \A u \in Requests \ {r} : Apart(q, req[u])
    <3>1. \A u \in Requests \ {r} : Apart(p, req[u])
      BY <1>1 DEF RequestsAimed
    <3> QED BY <1>1, <1>2, <1>4, <3>1 DEF Apart, Works, Holds, Called, Pushing
  <2> QED BY <1>3, <2>1, <2>2, QuietAims
<1>5. CASE Called(p)
  <2>1. ~Pushing(p)
    BY <1>1, <1>5 DEF RequestTyped, Course, Called, Pushing
  <2>2. /\ ~Pushing(q) /\ Called(q) /\ (Works(q) => Works(p))
        /\ Holds(q) => Holds(p) \/ OpenInvoice(p.invoice)
        /\ Works(q) /\ p.pc \in {"settle", "review"} => q.pc = "review"
        /\ Receipted(q) => Receipted(p) \/ [invoice |-> p.invoice, by |-> p.attempt] \in payments'
    BY <1>1, <1>2, <1>5, <2>1 DEF Pushing, Called, Works, Holds, Receipted
  <2>3. p.invoice \in Invoices \/ ~Holds(q)
    BY <1>1, <1>2, <1>5 DEF RequestTyped, Freestanding, Holds, Called
  <2>4. ASSUME Holds(q), OpenInvoice(p.invoice), NEW b \in Attempts, attempt[b].status = "complete"
        PROVE  attempt[b].invoice # p.invoice
    BY <2>3, <2>4 DEF CompletedIsPaid, OpenInvoice
  <2>5. Aimed(q)'
    <3>1. /\ attempt[p.attempt].status \notin {"absent", "initiating"}
          /\ attempt[p.attempt].invoice = p.invoice
          /\ Works(q) => \/ attempt[p.attempt].status = "payment_confirmed"
                         \/ q.pc \in {"settle", "review"} /\ attempt[p.attempt].status = "complete"
      BY <1>1, <1>5, <2>2 DEF Aimed
    <3>2. ASSUME Holds(q), NEW b \in Attempts \ {p.attempt}, attempt[b].status = "complete"
          PROVE  attempt[b].invoice # p.invoice
      BY <1>1, <2>2, <2>4, <3>2 DEF Aimed
    <3>3. Receipted(q) => [invoice |-> p.invoice, by |-> p.attempt] \in payments'
      BY <1>1, <2>2 DEF Aimed
    <3> QED BY <1>2, <2>2, <3>1, <3>2, <3>3 DEF Aimed
  <2>6. ASSUME NEW u \in Requests \ {r} PROVE Apart(q, req[u])
    <3>1. PICK w : w = req[u] /\ Apart(p, w)
      BY <1>1 DEF RequestsAimed
    <3>2. Holds(w) => invoice[w.invoice].status = "paid" \/ w.invoice \notin Invoices
      BY <3>1 DEF RequestsTold, Told, PaidPcs, Holds
    <3>3. Holds(q) /\ Holds(w) => p.invoice # w.invoice
      BY <2>2, <2>3, <3>1, <3>2 DEF Apart, OpenInvoice
    <3> QED BY <1>2, <2>2, <3>1, <3>3 DEF Apart
  <2> QED BY <1>3, <2>5, <2>6, QuietAims
<1> QED BY <1>4, <1>5

Quiet == UNCHANGED attempt /\ payments \subseteq payments'
Standing == Typed /\ SettledInv /\ AttemptInv

LEMMA DoneAims ==
  ASSUME Standing, NEW r \in Requests, Done(r), Quiet
  PROVE  RequestsAimed'
<1>1. PICK q : q = At5("idle", "none", NoInvoice, NoAttempt, NoRow)
  OBVIOUS
<1>2. ~Pushing(q) /\ ~Called(q)
  BY <1>1 DEF At5, Pushing, Called
<1>3. Only(r, q)
  BY <1>1, DoneOnly DEF Standing, Typed, RequestsTyped
<1> QED BY <1>2, <1>3, FreshAims DEF Standing, Typed, AttemptInv, Quiet

LEMMA GoesAims ==
  ASSUME Standing, NEW r \in Requests, NEW pc, Goes(r, pc), Quiet,
         pc \in {"prompt", "pending", "unknown"} => Pushing(req[r]),
         Called(req[r]) =>
           \/ pc \in {"activate", "open"}
           \/ Works(req[r]) /\ pc = "review"
           \/ req[r].pc = "client" /\ pc = "verify"
           \/ req[r].pc = "verify" /\ pc = "pay"
           \/ req[r].pc = "pay" /\ pc = "write" /\ OpenInvoice(req[r].invoice)
           \/ req[r].pc = "write" /\ pc = "renew"
              /\ [invoice |-> req[r].invoice, by |-> req[r].attempt] \in payments'
           \/ req[r].pc = "renew" /\ pc = "complete"
  PROVE  RequestsAimed'
<1>1. PICK row : row = req[r].row
  OBVIOUS
<1>2. Only(r, At5(pc, req[r].kind, req[r].invoice, req[r].attempt, row))
  BY <1>1, GoesOnly DEF Standing, Typed, RequestsTyped
<1> QED BY <1>2, OnwardAims DEF Standing, Typed, AttemptInv, SettledInv, Quiet

LEMMA BeginsAims ==
  ASSUME Standing, NEW r \in Requests, Quiet, NEW kind, NEW pc, NEW i, Begins(r, kind, pc, i),
         kind # "callback", pc \notin {"prompt", "pending", "unknown"}
  PROVE  RequestsAimed'
<1>1. PICK q : q = At5(pc, kind, i, NoAttempt, client)
  OBVIOUS
<1>2. ~Pushing(q) /\ ~Called(q)
  BY <1>1 DEF At5, Pushing, Called
<1>3. Only(r, q)
  BY <1>1, BeginsOnly DEF Standing, Typed, RequestsTyped
<1> QED BY <1>2, <1>3, FreshAims DEF Standing, Typed, AttemptInv, Quiet

(* Steps of requests that leave the attempts alone                           *)
LEMMA QuietSteps ==
  ASSUME Standing, NEW r \in Requests, Request(r) \/ ExtendUsage(r), Quiet,
         ~(\/ SavePush(r) \/ ClaimAttempt(r) \/ VerifyInvoice(r) \/ CompleteAttempt(r)
           \/ ReviewAttempt(r) \/ Prompt(r) \/ BindCallback(r) \/ InsertAttempt(r))
  PROVE  RequestsAimed'
<1>1. PICK q : q = req[r] /\ RequestTyped(q)
  BY DEF Standing, Typed, RequestsTyped
<1>2. Done(r) => RequestsAimed'
  BY DoneAims
<1>3. ASSUME NEW pc, Goes(r, pc), pc \notin {"prompt", "pending", "unknown"},
             \/ pc \in {"activate", "open"} \/ ~Called(q)
             \/ Works(q) /\ pc = "review"
             \/ q.pc = "client" /\ pc = "verify"
             \/ q.pc = "verify" /\ pc = "pay"
             \/ q.pc = "pay" /\ pc = "write" /\ OpenInvoice(q.invoice)
             \/ q.pc = "write" /\ pc = "renew"
                /\ [invoice |-> q.invoice, by |-> q.attempt] \in payments'
             \/ q.pc = "renew" /\ pc = "complete"
      PROVE  RequestsAimed'
  BY <1>1, <1>3, GoesAims
<1>4. ThenResume(r) => RequestsAimed'
  BY <1>2, <1>3 DEF ThenResume
<1>6. CASE \/ SuspendOrResume(r) \/ EnforceSubscriptionPayments(r) \/ ReadRenewal(r)
           \/ CheckDelete(r) \/ ReadClient(r) \/ ReadInvoice(r) \/ GenerateInvoice(r)
  <2>1. \E kind, pc, i :
          /\ Begins(r, kind, pc, i)
          /\ kind # "callback" /\ pc \notin {"prompt", "pending", "unknown"}
    BY <1>6 DEF SuspendOrResume, EnforceSubscriptionPayments, ReadRenewal, CheckDelete, ReadClient,
       ReadInvoice, GenerateInvoice
  <2> QED BY <2>1, BeginsAims
<1>7. CASE \/ SuspendApp(r) \/ MarkSuspended(r) \/ MarkActive(r) \/ ResumeApp(r)
           \/ ListInvoices(r) \/ TrackProformaFollowup(r) \/ CancelFollowup(r) \/ ExtendUsage(r)
           \/ DeleteInvoice(r) \/ WritePayment(r) \/ RecordExtension(r) \/ RecordPayment(r)
           \/ SettleFollowup(r)
  <2>1. \/ Done(r) \/ ThenResume(r) \/ Goes(r, "open")
        \/ /\ q.pc \in {"close", "list", "delete"} \/ q.kind = "record"
           /\ \E pc \in {"mark", "generate", "cancel", "payment"} : Goes(r, pc)
    BY <1>1, <1>7 DEF SuspendApp, MarkSuspended, MarkActive, ResumeApp, ListInvoices,
       TrackProformaFollowup, CancelFollowup, ExtendUsage, DeleteInvoice, At, WritePayment,
       RecordExtension, RecordPayment, SettleFollowup
  <2>2. q.pc \in {"close", "list", "delete"} \/ q.kind = "record" => ~Called(q)
    BY <1>1 DEF RequestTyped, Course, Called
  <2> QED BY <1>2, <1>3, <1>4, <2>1, <2>2
<1>8. CASE GenerateRenewal(r) \/ GenerateRecorded(r)
  <2>1. Done(r) \/ \E pc \in {"track", "pay"} : \E i :
                      req' = [req EXCEPT ![r].pc = pc, ![r].invoice = i]
    BY <1>8 DEF GenerateRenewal, GenerateRecorded
  <2>2. ASSUME NEW pc \in {"track", "pay"}, NEW i,
               req' = [req EXCEPT ![r].pc = pc, ![r].invoice = i]
        PROVE  RequestsAimed'
    <3>1. PICK p : p = At5(pc, q.kind, i, q.attempt, q.row)
      OBVIOUS
    <3>2. Only(r, p)
      BY <1>1, <2>2, <3>1, MakesOnly DEF Standing, Typed, RequestsTyped
    <3>3. q.kind # "callback"
      BY <1>1, <1>8 DEF GenerateRenewal, GenerateRecorded, At, RequestTyped, Course
    <3>4. ~Pushing(p) /\ ~Called(p)
      BY <3>1, <3>3 DEF At5, Pushing, Called
    <3> QED BY <3>2, <3>4, FreshAims DEF Standing, Typed, AttemptInv, Quiet
  <2> QED BY <1>2, <2>1, <2>2
<1>9. CASE PayInvoice(r)
  <2>1. /\ q.pc = "pay"
        /\ \/ Done(r)
           \/ Called(q) /\ Goes(r, "review")
           \/ OpenInvoice(q.invoice) /\ Goes(r, "write")
    <3>1. \/ Payable(q.invoice) /\ Goes(r, "write")
          \/ Refused(r)
      BY <1>1, <1>9 DEF PayInvoice
    <3>2. q.pc = "pay"
      BY <1>1, <1>9 DEF PayInvoice, At
    <3>3. Refused(r) => \/ Done(r)
                        \/ Called(q) /\ Goes(r, "review")
      BY <1>1 DEF Refused, Called
    <3> QED BY <3>1, <3>2, <3>3 DEF Payable
  <2>2. Called(q) => Works(q)
    BY <2>1 DEF Works
  <2> QED BY <1>2, <1>3, <2>1, <2>2
<1>10. CASE LoadClient(r)
  <2>1. PICK row : row = client
    OBVIOUS
  <2>2. Only(r, At5("verify", req[r].kind, req[r].invoice, req[r].attempt, row))
    BY <1>10, <2>1, RowOnly DEF LoadClient, Standing, Typed, RequestsTyped
  <2>3. req[r].pc = "client"
    BY <1>10 DEF LoadClient, At
  <2>4. /\ RequestsAimed /\ RequestsTyped /\ RequestsTold /\ CompletedIsPaid
        /\ attempt \in AttemptRows /\ UNCHANGED attempt /\ payments \subseteq payments'
    BY DEF Standing, Typed, AttemptInv, SettledInv, Quiet
  <2>5. PICK pc : pc = "verify"
    OBVIOUS
  <2>6. Only(r, At5(pc, req[r].kind, req[r].invoice, req[r].attempt, row))
    BY <2>2, <2>5
  <2>7. pc \notin {"prompt", "pending", "unknown"}
    BY <2>5
  <2>8. \/ req[r].pc = "client" /\ pc = "verify"
        \/ req[r].pc = "verify" /\ pc = "pay"
    BY <2>3, <2>5
  <2> QED BY <2>4, <2>6, <2>7, <2>8, OnwardAims
<1>11. CASE RecordReceipt(r)
  <2>1. /\ q.pc = "write" /\ Goes(r, "renew")
        /\ [invoice |-> q.invoice, by |-> q.attempt] \in payments'
    BY <1>1, <1>11 DEF RecordReceipt, At, Paid
  <2> QED BY <1>3, <2>1
<1>12. CASE RenewSubscription(r)
  <2>1. q.pc = "renew" /\ Goes(r, "complete")
    BY <1>1, <1>12 DEF RenewSubscription, At
  <2> QED BY <1>3, <2>1
<1> QED BY <1>6, <1>7, <1>8, <1>9, <1>10, <1>11, <1>12 DEF Request

(* Nobody else works on the attempt at hand.                                 *)
LEMMA OthersApart ==
  ASSUME Standing, NEW r \in Requests, NEW a,
         \/ a = req[r].attempt /\ (Pushing(req[r]) \/ Works(req[r]))
         \/ attempt[a].status \in {"absent", "pending", "initiation_unknown"},
         NEW u \in Requests \ {r}, Pushing(req[u]) \/ Works(req[u])
  PROVE  req[u].attempt # a
<1>1. PICK p, q : p = req[r] /\ q = req[u] /\ Aimed(p) /\ Aimed(q) /\ Apart(p, q)
  BY DEF Standing, AttemptInv, RequestsAimed
<1>2. CASE attempt[a].status \in {"absent", "pending", "initiation_unknown"}
  BY <1>1, <1>2 DEF Aimed
<1>3. CASE a = p.attempt /\ (Pushing(p) \/ Works(p))
  BY <1>1, <1>3 DEF Aimed, Apart
<1> QED BY <1>1, <1>2, <1>3

LEMMA SetAims ==
  ASSUME Standing, NEW r \in Requests, NEW a \in Attempts,
         \/ a = req[r].attempt /\ (Pushing(req[r]) \/ Works(req[r]))
         \/ attempt[a].status \in {"absent", "pending", "initiation_unknown"},
         AttemptsMoved(a), payments \subseteq payments', NEW q, Only(r, q),
         attempt'[a].status # "complete",
         attempt'[a].status \in {"absent", "initiating"} => attempt[a].status \in {"absent", "initiating"},
         Aimed(q)', \A u \in Requests \ {r} : Apart(q, req[u])
  PROVE  RequestsAimed'
<1>1. \A u \in Requests \ {r} : Pushing(req[u]) \/ Works(req[u]) => req[u].attempt # a
  BY OthersApart
<1>2. RequestsAimed /\ RequestsTyped
  BY DEF Standing, Typed, AttemptInv
<1> QED BY <1>1, <1>2, StepAims

LEMMA IdleAims ==
  ASSUME Standing, NEW r \in Requests, Done(r)
  PROVE  \E q : Only(r, q) /\ Aimed(q)' /\ \A u \in Requests \ {r} : Apart(q, req[u])
<1>1. PICK q : q = At5("idle", "none", NoInvoice, NoAttempt, NoRow)
  OBVIOUS
<1>2. ~Pushing(q) /\ ~Called(q)
  BY <1>1 DEF At5, Pushing, Called
<1>3. Only(r, q)
  BY <1>1, DoneOnly DEF Standing, Typed, RequestsTyped
<1>4. Aimed(q)' /\ \A u \in Requests : Apart(q, req[u])
  BY <1>2 DEF Aimed, Apart, Works, Holds, Receipted
<1> QED BY <1>3, <1>4

(* An attempt is answered for by the one who ends its work with it.          *)
LEMMA EndsWork ==
  ASSUME Standing, NEW r \in Requests, UNCHANGED payments,
         \/ SavePush(r) \/ (ClaimAttempt(r) /\ Done(r)) \/ (VerifyInvoice(r) /\ Done(r))
         \/ ReviewAttempt(r)
  PROVE  RequestsAimed'
<1>1. PICK q : q = req[r] /\ RequestTyped(q)
  BY DEF Standing, Typed, RequestsTyped
<1>2. PICK a : a = q.attempt
  OBVIOUS
<1>3. Done(r) /\ a \in Attempts /\ attempt \in AttemptRows
  BY <1>1, <1>2, AttemptAtHand DEF SavePush, ReviewAttempt, Standing, Typed
<1>4. CASE UNCHANGED attempt
  BY <1>3, <1>4, DoneAims DEF Quiet
<1>5. CASE ~UNCHANGED attempt
  <2>1. /\ \E s \in {"pending", "initiation_unknown", "failed", "needs_review", "payment_confirmed"} :
             AttemptSet(a, s)
        /\ Pushing(q) \/ Works(q) \/ attempt[a].status = "pending"
    <3>1. AttemptStep(r)
      BY RequestsWriteAttempts DEF Standing, Request
    <3>2. CASE SavePush(r)
      BY <1>1, <1>2, <3>2 DEF SavePush, AttemptSet, At, Pushing
    <3>3. CASE ReviewAttempt(r)
      <4>1. Confirmed(a, "needs_review") /\ q.pc = "review"
        BY <1>1, <1>2, <3>3 DEF ReviewAttempt, At
      <4>2. Works(q)
        BY <1>1, <4>1 DEF Works, Called, RequestTyped, Course
      <4>3. attempt[a].status = "payment_confirmed"
        <5> SUFFICES ASSUME attempt[a].status # "payment_confirmed" PROVE FALSE
          OBVIOUS
        <5>1. AttemptSet(a, attempt[a].status)
          BY <4>1 DEF Confirmed, AttemptSet
        <5> QED BY <1>3, <1>5, <5>1, SameStatus
      <4>4. AttemptSet(a, "needs_review")
        BY <4>1, <4>3 DEF Confirmed, AttemptSet
      <4> QED BY <4>2, <4>4
    <3>4. CASE VerifyInvoice(r)
      <4>1. AttemptSet(a, "needs_review") /\ q.pc = "verify"
        BY <1>1, <1>2, <1>5, <3>4 DEF VerifyInvoice, AttemptSet, At
      <4>2. Works(q)
        BY <1>1, <4>1 DEF Works, Called, RequestTyped, Course
      <4> QED BY <4>1, <4>2
    <3>5. CASE ClaimAttempt(r)
      <4> DEFINE to == CASE attempt[a].result = "failure" -> "failed"
                         [] attempt[a].result = "mismatch" -> "needs_review"
                         [] OTHER -> "payment_confirmed"
      <4>1. AttemptSet(a, to) /\ Claimable(a)
        BY <1>1, <1>2, <1>5, <3>5 DEF ClaimAttempt, AttemptSet
      <4>2. to \in {"failed", "needs_review", "payment_confirmed"}
        OBVIOUS
      <4> HIDE DEF to
      <4> QED BY <4>1, <4>2 DEF Claimable
    <3> QED BY <3>2, <3>3, <3>4, <3>5
  <2>2. PICK s \in {"pending", "initiation_unknown", "failed", "needs_review", "payment_confirmed"} :
             AttemptSet(a, s)
    BY <2>1
  <2>3. AttemptsMoved(a) /\ attempt'[a].status = s
    BY <1>3, <2>2, SetMoves DEF StatusOfAttempts, Active
  <2>4. PICK p : Only(r, p) /\ Aimed(p)' /\ \A u \in Requests \ {r} : Apart(p, req[u])
    BY <1>3, IdleAims
  <2>5. \/ a = req[r].attempt /\ (Pushing(req[r]) \/ Works(req[r]))
        \/ attempt[a].status \in {"absent", "pending", "initiation_unknown"}
    BY <1>1, <1>2, <2>1
  <2> QED BY <1>3, <2>3, <2>4, <2>5, SetAims
<1> QED BY <1>4, <1>5

LEMMA ClaimAims ==
  ASSUME Standing, NEW r \in Requests, ClaimAttempt(r), ~Done(r), UNCHANGED payments
  PROVE  RequestsAimed'
<1>1. PICK q, a : q = req[r] /\ RequestTyped(q) /\ Aimed(q) /\ a = q.attempt
  BY DEF Standing, Typed, RequestsTyped, AttemptInv, RequestsAimed
<1>2. /\ a \in Attempts /\ attempt \in AttemptRows
      /\ Called(q)
  BY <1>1, AttemptAtHand DEF Standing, Typed, ClaimAttempt, At, RequestTyped, Course, Called
<1>3. /\ AttemptSet(a, "payment_confirmed") /\ attempt[a].status = "pending"
      /\ Goes(r, "client")
  BY <1>1 DEF ClaimAttempt, AttemptSet, Claimable
<1>4. AttemptsMoved(a) /\ attempt'[a].status = "payment_confirmed"
  BY <1>2, <1>3, SetMoves DEF StatusOfAttempts, Active
<1>5. PICK p : p = At5("client", q.kind, q.invoice, q.attempt, q.row)
  OBVIOUS
<1>6. Only(r, p)
  BY <1>1, <1>3, <1>5, GoesOnly DEF Standing, Typed, RequestsTyped
<1>7. /\ p.pc = "client" /\ Called(p) /\ Works(p) /\ ~Holds(p) /\ ~Receipted(p) /\ ~Pushing(p)
      /\ p.attempt = a /\ p.invoice = q.invoice
  BY <1>1, <1>2, <1>5 DEF At5, Called, Works, Holds, Receipted, Pushing
<1>8. attempt'[a].invoice = q.invoice
  BY <1>1, <1>2, <1>4 DEF Aimed, AttemptsMoved
<1>9. Aimed(p)'
  BY <1>4, <1>7, <1>8 DEF Aimed
<1>10. \A u \in Requests \ {r} : Apart(p, req[u])
  BY <1>3, <1>7, OthersApart DEF Apart
<1> QED BY <1>2, <1>3, <1>4, <1>6, <1>9, <1>10, SetAims

LEMMA PromptAims ==
  ASSUME Standing, NEW r \in Requests, Prompt(r), UNCHANGED payments
  PROVE  RequestsAimed'
<1>1. PICK q, a : q = req[r] /\ RequestTyped(q) /\ Aimed(q) /\ a = q.attempt
  BY DEF Standing, Typed, RequestsTyped, AttemptInv, RequestsAimed
<1>2. /\ a \in Attempts /\ attempt \in AttemptRows /\ q.pc = "prompt" /\ ~Called(q)
  BY <1>1, AttemptAtHand DEF Standing, Typed, Prompt, At, RequestTyped, Course, Called
<1>3. PICK pc \in {"pending", "unknown"} : Goes(r, pc)
  BY DEF Prompt
<1>4. AttemptsMoved(a) /\ attempt'[a].status = attempt[a].status
  <2>1. CASE UNCHANGED attempt
    BY <1>2, <2>1 DEF AttemptsMoved
  <2>2. CASE \E v \in {"success", "mismatch", "failure"} : AttemptAnswered(a, v)
    BY <1>2, <2>2, AnswerMoves
  <2> QED BY <1>1, <2>1, <2>2 DEF Prompt, AttemptAnswered
<1>5. PICK p : p = At5(pc, q.kind, q.invoice, q.attempt, q.row)
  OBVIOUS
<1>6. Only(r, p)
  BY <1>1, <1>3, <1>5, GoesOnly DEF Standing, Typed, RequestsTyped
<1>7. /\ Pushing(p) /\ Pushing(q) /\ p.attempt = a /\ ~Called(p)
  BY <1>1, <1>2, <1>3, <1>5 DEF At5, Called, Pushing
<1>8. Aimed(p)'
  BY <1>1, <1>4, <1>7 DEF Aimed, Works, Holds, Receipted
<1>9. \A u \in Requests \ {r} : Apart(p, req[u])
  BY <1>1, <1>7, OthersApart DEF Apart, Works, Holds
<1>10. attempt'[a].status = "initiating"
  BY <1>1, <1>4, <1>7 DEF Aimed
<1>11. a = req[r].attempt /\ Pushing(req[r])
  BY <1>1, <1>7
<1>12. attempt[a].status = "initiating"
  BY <1>4, <1>10
<1> QED BY <1>2, <1>4, <1>6, <1>8, <1>9, <1>10, <1>11, <1>12, SetAims

LEMMA BindAims ==
  ASSUME Standing, NEW r \in Requests, BindCallback(r), UNCHANGED payments
  PROVE  RequestsAimed'
<1>1. PICK a \in Attempts :
        /\ attempt[a].status \in {"initiation_unknown", "pending"}
        /\ AttemptSet(a, "pending")
        /\ req' = [req EXCEPT ![r] = [Idle EXCEPT !.pc = "claim", !.kind = "callback",
                                        !.attempt = a, !.invoice = attempt[a].invoice]]
  BY DEF BindCallback, AttemptSet
<1>2. PICK i, p : i = attempt[a].invoice /\ p = At5("claim", "callback", i, a, NoRow)
  OBVIOUS
<1>3. Only(r, p)
  BY <1>1, <1>2, BindsOnly DEF Standing, Typed, RequestsTyped
<1>4. AttemptsMoved(a) /\ attempt'[a].status = "pending" /\ attempt'[a].invoice = i
  BY <1>1, <1>2, SetMoves DEF StatusOfAttempts, Active, Standing, Typed
<1>5. /\ ~Pushing(p) /\ Called(p) /\ ~Works(p) /\ ~Holds(p) /\ ~Receipted(p)
      /\ p.attempt = a /\ p.invoice = i
  BY <1>2 DEF At5, Called, Works, Holds, Receipted, Pushing
<1>6. Aimed(p)' /\ \A u \in Requests \ {r} : Apart(p, req[u])
  BY <1>4, <1>5 DEF Aimed, Apart
<1> QED BY <1>1, <1>3, <1>4, <1>6, SetAims

LEMMA InsertAims ==
  ASSUME Standing, NEW r \in Requests, InsertAttempt(r), UNCHANGED payments
  PROVE  RequestsAimed'
<1>1. PICK q : q = req[r] /\ RequestTyped(q)
  BY DEF Standing, Typed, RequestsTyped
<1>2. q.invoice \in Invoices /\ ~Called(q)
  BY <1>1 DEF InsertAttempt, At, RequestTyped, Course, Freestanding, Called
<1>3. CASE Done(r) /\ UNCHANGED attempt
  BY <1>3, DoneAims DEF Quiet
<1>4. CASE ~(Done(r) /\ UNCHANGED attempt)
  <2>1. PICK i : i = req[r].invoice
    OBVIOUS
  <2>2. PICK b \in Attempts :
          /\ attempt[b].status = "absent" /\ AttemptMade(b, i)
          /\ req' = [req EXCEPT ![r].pc = "prompt", ![r].attempt = b]
    BY <1>4, <2>1, InsertMakes DEF Standing, Typed
  <2>3. PICK p : p = At5("prompt", q.kind, i, b, q.row)
    OBVIOUS
  <2>4. Only(r, p)
    BY <1>1, <2>1, <2>2, <2>3, AttemptOnly DEF Standing, Typed, RequestsTyped
  <2>5. AttemptsMoved(b) /\ attempt'[b].status = "initiating"
    BY <1>1, <1>2, <2>1, <2>2, MadeMoves DEF Standing, Typed
  <2>6. Pushing(p) /\ p.attempt = b /\ ~Called(p)
    BY <1>2, <2>3 DEF At5, Pushing, Called
  <2>7. Aimed(p)'
    BY <2>5, <2>6 DEF Aimed, Works, Holds, Receipted
  <2>8. \A u \in Requests \ {r} : Apart(p, req[u])
    BY <2>2, <2>6, OthersApart DEF Apart, Works, Holds
  <2> QED BY <2>2, <2>4, <2>5, <2>7, <2>8, SetAims
<1> QED BY <1>3, <1>4

(* The payer of an invoice completes its attempt.                            *)
LEMMA CompleteAims ==
  ASSUME Standing, NEW r \in Requests, CompleteAttempt(r), UNCHANGED payments
  PROVE  /\ RequestsAimed'
         /\ AttemptSet(req[r].attempt, "complete") /\ Holds(req[r]) /\ Receipted(req[r])
<1>1. PICK q, a : q = req[r] /\ RequestTyped(q) /\ Aimed(q) /\ a = q.attempt
  BY DEF Standing, Typed, RequestsTyped, AttemptInv, RequestsAimed
<1>2. /\ a \in Attempts /\ attempt \in AttemptRows /\ q.pc = "complete" /\ Called(q)
      /\ q.invoice \in Invoices /\ Confirmed(a, "complete") /\ Goes(r, "settle")
  BY <1>1, AttemptAtHand DEF Standing, Typed, CompleteAttempt, At, RequestTyped, Course, Called,
     Freestanding
<1>3. Works(q) /\ Holds(q) /\ Receipted(q)
  BY <1>2 DEF Works, Holds, Receipted
<1>4. attempt[a].status = "payment_confirmed" /\ AttemptSet(a, "complete")
  BY <1>1, <1>2, <1>3 DEF Aimed, Confirmed, AttemptSet
<1>5. AttemptsMoved(a) /\ attempt'[a].status = "complete" /\ attempt'[a].invoice = q.invoice
  <2>1. attempt[a].invoice = q.invoice
    BY <1>1, <1>2 DEF Aimed
  <2> QED BY <1>2, <1>4, <2>1, SetMoves DEF StatusOfAttempts
<1>6. PICK p : p = At5("settle", q.kind, q.invoice, q.attempt, q.row)
  OBVIOUS
<1>7. Only(r, p)
  BY <1>1, <1>2, <1>6, GoesOnly DEF Standing, Typed, RequestsTyped
<1>8. /\ Called(p) /\ Works(p) /\ Holds(p) /\ ~Receipted(p) /\ ~Pushing(p) /\ p.pc = "settle"
      /\ p.attempt = a /\ p.invoice = q.invoice
  BY <1>1, <1>2, <1>6 DEF At5, Called, Works, Holds, Receipted, Pushing
<1>9. ASSUME NEW b \in Attempts \ {a}, attempt'[b].status = "complete"
      PROVE  attempt'[b].invoice # q.invoice
  BY <1>1, <1>3, <1>5, <1>9 DEF Aimed, AttemptsMoved
<1>10. Aimed(p)'
  BY <1>5, <1>8, <1>9 DEF Aimed
<1>11. \A u \in Requests \ {r} : Apart(p, req[u]) /\ Apart(q, req[u])
  BY <1>1, <1>3, <1>8 DEF Standing, AttemptInv, RequestsAimed, Apart
<1>12. \A u \in Requests \ {r} : /\ Pushing(req[u]) \/ Works(req[u]) => req[u].attempt # a
                                 /\ Holds(req[u]) => attempt'[a].invoice # req[u].invoice
  BY <1>1, <1>3, <1>5, <1>11, OthersApart DEF Apart
<1>13. RequestsAimed'
  BY <1>5, <1>7, <1>10, <1>11, <1>12, StepAims DEF Standing, Typed, AttemptInv
<1> QED BY <1>1, <1>3, <1>4, <1>13

(* Every step of a request                                                   *)
LEMMA RequestsAim ==
  ASSUME Standing, NEW r \in Requests, Request(r) \/ ExtendUsage(r), payments \subseteq payments'
  PROVE  RequestsAimed'
<1>1. CASE SavePush(r) \/ ClaimAttempt(r) \/ VerifyInvoice(r) \/ ReviewAttempt(r)
  <2>1. UNCHANGED payments
    BY <1>1 DEF SavePush, ClaimAttempt, VerifyInvoice, ReviewAttempt
  <2>2. CASE Done(r)
    BY <1>1, <2>1, <2>2, EndsWork
  <2>3. CASE ~Done(r)
    <3>1. ClaimAttempt(r) \/ VerifyInvoice(r)
      BY <1>1, <2>3 DEF SavePush, ReviewAttempt
    <3>2. CASE VerifyInvoice(r)
      <4>1. Goes(r, "pay") /\ UNCHANGED attempt /\ req[r].pc = "verify"
        BY <2>3, <3>2 DEF VerifyInvoice, At
      <4> QED BY <2>1, <4>1, GoesAims DEF Quiet
    <3> QED BY <2>1, <2>3, <3>1, <3>2, ClaimAims
  <2> QED BY <2>2, <2>3
<1>2. CASE Prompt(r) \/ BindCallback(r) \/ InsertAttempt(r) \/ CompleteAttempt(r)
  <2>1. UNCHANGED payments
    BY <1>2 DEF Prompt, BindCallback, InsertAttempt, CompleteAttempt
  <2> QED BY <1>2, <2>1, PromptAims, BindAims, InsertAims, CompleteAims
<1>3. CASE ~(\/ SavePush(r) \/ ClaimAttempt(r) \/ VerifyInvoice(r) \/ CompleteAttempt(r)
             \/ ReviewAttempt(r) \/ Prompt(r) \/ BindCallback(r) \/ InsertAttempt(r))
  <2>1. UNCHANGED attempt
    BY <1>3 DEF tables, Request, SuspendApp, ResumeApp, SuspendOrResume,
     MarkSuspended, MarkActive, EnforceSubscriptionPayments, TrackProformaFollowup, ReadRenewal,
     ListInvoices, CheckDelete, CancelFollowup, ReadClient, WritePayment, RecordExtension,
     RecordPayment, ReadInvoice, RenewSubscription, ExtendUsage,
     LoadClient, RecordReceipt, SettleFollowup, PayInvoice, DeleteInvoice, GenerateInvoice,
     GenerateRecorded, GenerateRenewal
  <2> QED BY <1>3, <2>1, QuietSteps DEF Quiet
<1> QED BY <1>1, <1>2, <1>3

(* An attempt moves while it is active, or starts for an invoice without one. *)
AttemptMoves(r, a) ==
  /\ AttemptsMoved(a)
  /\ \/ /\ attempt[a].status \in Active /\ attempt'[a].status # "absent"
        /\ attempt'[a].status = "complete" =>
             CompleteAttempt(r) /\ a = req[r].attempt
     \/ /\ attempt[a].status = "absent" /\ attempt'[a].status = "initiating"
        /\ attempt'[a].invoice \in Invoices /\ ~ActiveFor(attempt'[a].invoice)
LEMMA MovesOneAttempt ==
  ASSUME Standing, NEW r \in Requests, Request(r)
  PROVE  UNCHANGED attempt \/ \E a \in Attempts : AttemptMoves(r, a)
<1>1. PICK q, a : q = req[r] /\ RequestTyped(q) /\ Aimed(q) /\ a = q.attempt
  BY DEF Standing, Typed, RequestsTyped, AttemptInv, RequestsAimed
<1>2. AttemptStep(r) /\ attempt \in AttemptRows
  BY RequestsWriteAttempts DEF Standing, Typed
<1>3. ASSUME NEW b \in Attempts, NEW s \in StatusOfAttempts, AttemptSet(b, s), s # "absent",
             attempt[b].status \in Active, s = "complete" => CompleteAttempt(r) /\ b = a
      PROVE  AttemptMoves(r, b)
  BY <1>1, <1>2, <1>3, SetMoves DEF AttemptMoves
<1>4. CASE SavePush(r) \/ VerifyInvoice(r) \/ Prompt(r)
  <2>1. a \in Attempts
    BY <1>1, <1>4, AttemptAtHand DEF Standing
  <2>2. attempt[a].status \in Active
    <3>1. Pushing(q) \/ (Works(q) /\ q.pc = "verify")
      BY <1>1, <1>4 DEF SavePush, VerifyInvoice, Prompt, At, Pushing, Works, Called, RequestTyped,
         Course
    <3> QED BY <1>1, <3>1 DEF Aimed, Active
  <2>3. CASE Prompt(r)
    <3>1. UNCHANGED attempt \/ \E v \in {"success", "mismatch", "failure"} : AttemptAnswered(a, v)
      BY <1>1, <2>3 DEF Prompt, AttemptAnswered
    <3>2. ASSUME NEW v \in {"success", "mismatch", "failure"}, AttemptAnswered(a, v)
          PROVE  AttemptMoves(r, a)
      BY <1>2, <2>1, <2>2, <3>2, AnswerMoves DEF AttemptMoves, Active
    <3> QED BY <2>1, <3>1, <3>2
  <2>4. CASE SavePush(r) \/ VerifyInvoice(r)
    <3>1. \/ UNCHANGED attempt
          \/ \E s \in {"pending", "initiation_unknown", "needs_review"} : AttemptSet(a, s)
      BY <1>1, <2>4 DEF SavePush, VerifyInvoice, AttemptSet
    <3> QED BY <1>3, <2>1, <2>2, <3>1 DEF StatusOfAttempts, Active
  <2> QED BY <1>4, <2>3, <2>4
<1>5. CASE ~UNCHANGED attempt /\ (ClaimAttempt(r) \/ ReviewAttempt(r) \/ CompleteAttempt(r))
  <2>1. a \in Attempts
    BY <1>1, <1>5, AttemptAtHand DEF Standing
  <2>2. CASE CompleteAttempt(r)
    <3>1. Confirmed(a, "complete")
      BY <1>1, <2>2 DEF CompleteAttempt
    <3>2. AttemptSet(a, "complete") /\ attempt[a].status = "payment_confirmed"
      <4>1. CASE attempt[a].status = "payment_confirmed"
        BY <3>1, <4>1 DEF Confirmed, AttemptSet
      <4>2. CASE attempt[a].status # "payment_confirmed"
        BY <1>2, <1>5, <3>1, <4>2, SameStatus DEF Confirmed, AttemptSet
      <4> QED BY <4>1, <4>2
    <3> QED BY <1>3, <2>1, <2>2, <3>2 DEF StatusOfAttempts, Active
  <2>3. CASE ReviewAttempt(r)
    <3>1. Confirmed(a, "needs_review")
      BY <1>1, <2>3 DEF ReviewAttempt
    <3>2. AttemptSet(a, "needs_review") /\ attempt[a].status = "payment_confirmed"
      <4>1. CASE attempt[a].status = "payment_confirmed"
        BY <3>1, <4>1 DEF Confirmed, AttemptSet
      <4>2. CASE attempt[a].status # "payment_confirmed"
        BY <1>2, <1>5, <3>1, <4>2, SameStatus DEF Confirmed, AttemptSet
      <4> QED BY <4>1, <4>2
    <3> QED BY <1>3, <2>1, <3>2 DEF StatusOfAttempts, Active
  <2>4. CASE ClaimAttempt(r)
    <3> DEFINE to == CASE attempt[a].result = "failure" -> "failed"
                       [] attempt[a].result = "mismatch" -> "needs_review"
                       [] OTHER -> "payment_confirmed"
    <3>1. AttemptSet(a, to) /\ attempt[a].status = "pending"
      BY <1>1, <1>5, <2>4 DEF ClaimAttempt, AttemptSet, Claimable
    <3>2. to \in {"failed", "needs_review", "payment_confirmed"}
      OBVIOUS
    <3>3. PICK s \in {"failed", "needs_review", "payment_confirmed"} : AttemptSet(a, s)
      BY <3>1, <3>2
    <3> HIDE DEF to
    <3> QED BY <1>3, <2>1, <3>1, <3>3 DEF StatusOfAttempts, Active
  <2> QED BY <1>5, <2>2, <2>3, <2>4
<1>6. CASE BindCallback(r)
  <2>1. PICK b \in Attempts : /\ attempt[b].status \in {"initiation_unknown", "pending"}
                              /\ AttemptSet(b, "pending")
    BY <1>6 DEF BindCallback, AttemptSet
  <2> QED BY <1>3, <2>1 DEF StatusOfAttempts, Active
<1>7. CASE InsertAttempt(r)
  <2>1. PICK i : i = q.invoice /\ i \in Invoices
    BY <1>1, <1>7 DEF InsertAttempt, At, RequestTyped, Course, Freestanding
  <2>2. \/ UNCHANGED attempt
        \/ \E b \in Attempts : /\ attempt[b].status = "absent" /\ ~ActiveFor(i)
                               /\ AttemptMade(b, i)
    BY <1>1, <1>2, <1>7, <2>1, InsertMakes
  <2>3. ASSUME NEW b \in Attempts, attempt[b].status = "absent", ~ActiveFor(i), AttemptMade(b, i)
        PROVE  AttemptMoves(r, b)
    BY <1>2, <2>1, <2>3, MadeMoves DEF AttemptMoves
  <2> QED BY <2>2, <2>3
<1> QED BY <1>2, <1>4, <1>5, <1>6, <1>7 DEF AttemptStep

LEMMA AttemptsStayAimed ==
  ASSUME Standing, Next, payments \subseteq payments'
  PROVE  attempt' \in AttemptRows /\ AttemptsAimed' /\ ActiveOnce' /\ CompletedIsPaid'
<1>0. /\ attempt \in AttemptRows /\ AttemptsAimed /\ ActiveOnce /\ CompletedIsPaid
      /\ \A i \in Invoices : Stays(i)
  BY StepsKeepInvoices DEF Standing, Typed, AttemptInv
<1>1. CASE UNCHANGED attempt
  <2>1. ASSUME NEW a \in Attempts, attempt[a].status = "complete"
        PROVE  /\ invoice'[attempt[a].invoice].status = "paid"
               /\ [invoice |-> attempt[a].invoice, by |-> a] \in payments'
    <3>1. attempt[a].invoice \in Invoices
      BY <1>0, <2>1 DEF AttemptsAimed
    <3> QED BY <1>0, <2>1, <3>1 DEF CompletedIsPaid, Stays
  <2> QED BY <1>0, <1>1, <2>1 DEF AttemptsAimed, ActiveOnce, CompletedIsPaid
<1>2. ASSUME NEW r \in Requests, Request(r), NEW a \in Attempts, AttemptMoves(r, a)
      PROVE  attempt' \in AttemptRows /\ AttemptsAimed' /\ ActiveOnce' /\ CompletedIsPaid'
  <2>1. /\ attempt' \in AttemptRows
        /\ \A b \in Attempts :
             /\ b # a => attempt'[b] = attempt[b]
             /\ attempt[b].status # "absent" => attempt'[b].invoice = attempt[b].invoice
    BY <1>2 DEF AttemptMoves, AttemptsMoved
  <2>2. attempt[a].status = "absent" => attempt'[a].invoice \in Invoices
    BY <1>2 DEF AttemptMoves, Active
  <2>3. AttemptsAimed'
    BY <1>0, <2>1, <2>2 DEF AttemptsAimed
  <2>4. ActiveOnce'
    <3>1. CASE attempt[a].status \in Active
      BY <1>0, <2>1, <3>1 DEF ActiveOnce, Active
    <3>2. CASE ~ActiveFor(attempt'[a].invoice)
      BY <1>0, <2>1, <3>2 DEF ActiveOnce, ActiveFor
    <3> QED BY <1>2, <3>1, <3>2 DEF AttemptMoves
  <2>5. CASE attempt'[a].status # "complete"
    <3>1. ASSUME NEW b \in Attempts, attempt'[b].status = "complete"
          PROVE  /\ invoice'[attempt'[b].invoice].status = "paid"
                 /\ [invoice |-> attempt'[b].invoice, by |-> b] \in payments'
                 /\ attempt'[b] = attempt[b] /\ b # a
      <4>1. b # a /\ attempt'[b] = attempt[b]
        BY <2>1, <2>5, <3>1
      <4>2. attempt[b].invoice \in Invoices
        BY <1>0, <3>1, <4>1 DEF AttemptsAimed
      <4> QED BY <1>0, <3>1, <4>1, <4>2 DEF CompletedIsPaid, Stays
    <3>2. ASSUME NEW b \in Attempts, NEW c \in Attempts \ {b}, attempt'[b].status = "complete",
                 attempt'[c].status = "complete"
          PROVE  attempt'[c].invoice # attempt'[b].invoice
      <4>1. attempt'[b] = attempt[b] /\ attempt'[c] = attempt[c]
        BY <3>1, <3>2
      <4> QED BY <1>0, <3>2, <4>1 DEF CompletedIsPaid
    <3>3. CompletedIsPaid'
      BY <3>1, <3>2 DEF CompletedIsPaid
    <3> QED BY <2>1, <2>3, <2>4, <3>3
  <2>6. CASE attempt'[a].status = "complete"
    <3>1. /\ CompleteAttempt(r) /\ a = req[r].attempt /\ attempt[a].status # "absent"
      BY <1>2, <2>6 DEF AttemptMoves, Active
    <3>2. UNCHANGED <<payments, invoice>> /\ Holds(req[r]) /\ Receipted(req[r])
      <4>1. UNCHANGED <<payments, invoice>>
        BY <3>1 DEF CompleteAttempt
      <4> QED BY <3>1, <4>1, CompleteAims
    <3>3. PICK q : q = req[r] /\ RequestTyped(q) /\ Aimed(q) /\ Told(q.pc, q.invoice)
      BY DEF Standing, Typed, RequestsTyped, AttemptInv, RequestsAimed, SettledInv, RequestsTold
    <3>4. /\ q.invoice \in Invoices /\ invoice[q.invoice].status = "paid"
          /\ attempt'[a].invoice = q.invoice
          /\ [invoice |-> q.invoice, by |-> a] \in payments
      BY <2>1, <3>1, <3>2, <3>3 DEF Holds, Receipted, Told, PaidPcs, Aimed, RequestTyped, Called,
         Freestanding
    <3>5. \A b \in Attempts \ {a} : attempt[b].status = "complete" => attempt[b].invoice # q.invoice
      BY <3>1, <3>2, <3>3 DEF Aimed
    <3>6. ASSUME NEW b \in Attempts, attempt'[b].status = "complete"
          PROVE  /\ invoice'[attempt'[b].invoice].status = "paid"
                 /\ [invoice |-> attempt'[b].invoice, by |-> b] \in payments'
                 /\ b # a => attempt'[b] = attempt[b]
      BY <1>0, <2>1, <3>2, <3>4, <3>6 DEF CompletedIsPaid
    <3>7. CompletedIsPaid'
      BY <1>0, <2>1, <3>4, <3>5, <3>6 DEF CompletedIsPaid
    <3> QED BY <2>1, <2>3, <2>4, <3>7
  <2> QED BY <2>5, <2>6
<1> QED BY <1>1, <1>2, MovesOneAttempt, OthersLeaveAttempts

-----------------------------------------------------------------------------
(* The requests when it is not a request's turn                              *)
LEMMA FaultTyped ==
  ASSUME RequestsTyped, Fault
  PROVE  RequestsTyped'
<1>1. CASE \E r \in Requests : Fail(r)
  <2>1. PICK r \in Requests : Fail(r)
    BY <1>1
  <2>2. PICK q : q = req[r] /\ RequestTyped(q)
    BY DEF RequestsTyped
  <2>3. CASE Done(r)
    BY <2>3, DoneTyped
  <2>4. CASE q.kind = "callback" /\ q.pc \in ConfirmedPcs /\ Goes(r, "review")
    BY <2>2, <2>4, GoesTyped DEF RequestTyped, Course, ConfirmedPcs, Freestanding
  <2>5. CASE q.pc = "pending" /\ Goes(r, "unknown")
    BY <2>2, <2>5, GoesTyped DEF RequestTyped, Course, Freestanding
  <2> QED BY <2>1, <2>2, <2>3, <2>4, <2>5 DEF Fail
<1>2. CASE SweepFails
  BY <1>2 DEF SweepFails, RequestsTyped, Shaped
<1>3. CASE Restart
  <2>1. req' = [r \in Requests |-> Idle]
    BY <1>3 DEF Restart
  <2>2. RequestRow(Idle) /\ RequestTyped(Idle)
    BY DEF Idle, RequestRow, RequestTyped, Course, Freestanding, NoRow, ClientRow
  <2> QED BY <2>1, <2>2 DEF RequestsTyped, Shaped
<1> QED BY <1>1, <1>2, <1>3 DEF Fault, Unanswered

LEMMA FaultAims ==
  ASSUME Standing, Fault
  PROVE  RequestsAimed'
<1>1. UNCHANGED <<attempt, payments>>
  BY DEF Fault, Fail, Unanswered, SweepFails, Restart, tables
<1>2. CASE \E r \in Requests : Fail(r)
  <2>1. PICK r \in Requests : Fail(r)
    BY <1>2
  <2>2. PICK q : q = req[r] /\ RequestTyped(q)
    BY DEF Standing, Typed, RequestsTyped
  <2>3. CASE Done(r)
    BY <1>1, <2>3, DoneAims DEF Quiet
  <2>4. CASE q.kind = "callback" /\ q.pc \in ConfirmedPcs /\ Goes(r, "review")
    <3>1. Works(q)
      BY <2>4 DEF Works, Called, ConfirmedPcs
    <3> QED BY <1>1, <2>2, <2>4, <3>1, GoesAims DEF Quiet
  <2>5. CASE q.pc = "pending" /\ Goes(r, "unknown")
    <3>1. Pushing(q) /\ ~Called(q)
      BY <2>2, <2>5 DEF Pushing, Called, RequestTyped, Course
    <3> QED BY <1>1, <2>2, <2>5, <3>1, GoesAims DEF Quiet
  <2> QED BY <2>1, <2>2, <2>3, <2>4, <2>5 DEF Fail
<1>3. CASE SweepFails
  BY <1>1, <1>3 DEF SweepFails, Standing, AttemptInv, RequestsAimed, Aimed
<1>4. CASE Restart
  <2>1. req' = [r \in Requests |-> Idle]
    BY <1>4 DEF Restart
  <2>2. ~Pushing(Idle) /\ ~Called(Idle)
    BY DEF Idle, Pushing, Called
  <2> QED BY <2>1, <2>2 DEF RequestsAimed, Aimed, Apart, Works, Holds, Receipted, Pushing, Called
<1> QED BY <1>2, <1>3, <1>4 DEF Fault, Unanswered

LEMMA AimsKept ==
  ASSUME Standing, Next
  PROVE  AttemptInv' /\ RequestsTyped' /\ attempt' \in AttemptRows
<1>1. payments \subseteq payments'
  BY PaymentsTyped DEF Standing, SettledInv
<1>2. RequestsTyped /\ RequestsAimed /\ AttemptsAimed
  BY DEF Standing, Typed, AttemptInv
<1>3. RequestsTyped' /\ RequestsAimed'
  <2>1. CASE \E r \in Requests : Request(r) \/ ExtendUsage(r)
    BY <1>1, <1>2, <2>1, StepsTyped, RequestsAim DEF Standing
  <2>2. CASE Fault
    BY <1>2, <2>2, FaultTyped, FaultAims
  <2>3. CASE ~(\E r \in Requests : Request(r) \/ ExtendUsage(r)) /\ ~Fault
    <3>1. UNCHANGED <<req, attempt>>
      <4>1. UNCHANGED req
        BY <2>3 DEF Next, OwnerPays
      <4>2. UNCHANGED attempt
        BY <2>3, OthersLeaveAttempts
      <4> QED BY <4>1, <4>2
    <3> QED BY <1>1, <1>2, <3>1 DEF RequestsTyped, Shaped, RequestsAimed, Aimed
  <2> QED BY <2>1, <2>2, <2>3
<1> QED BY <1>1, <1>3, AttemptsStayAimed DEF AttemptInv

-----------------------------------------------------------------------------
(* How a request stands after its step                                       *)
Finished(q) == q.kind = "none" /\ q.pc = "idle"
Beginning ==
  {<<"suspend", "close">>, <<"resume", "activate">>, <<"enforce", "close">>, <<"renew", "list">>,
   <<"delete", "delete">>, <<"pay", "pay">>, <<"record", "generate">>, <<"push", "insert">>,
   <<"generate", "track">>, <<"extend", "write">>}
Begun(q) == <<q.kind, q.pc>> \in Beginning /\ q.row = client
Following ==
  {<<"close", "mark">>, <<"activate", "open">>, <<"list", "generate">>, <<"delete", "cancel">>,
   <<"insert", "prompt">>, <<"prompt", "pending">>, <<"prompt", "unknown">>, <<"claim", "client">>,
   <<"verify", "pay">>, <<"pay", "write">>, <<"pay", "review">>, <<"write", "renew">>,
   <<"write", "payment">>, <<"renew", "complete">>, <<"complete", "settle">>}
Gone(p, q) ==
  /\ q.kind = p.kind /\ q.invoice = p.invoice /\ q.row = p.row
  /\ <<p.pc, q.pc>> \in Following \/ q.pc = "activate"
Made(p, q) ==
  /\ q.kind = p.kind /\ q.row = p.row /\ p.pc = "generate"
  /\ <<q.kind, q.pc>> \in {<<"renew", "track">>, <<"record", "pay">>}
Loaded(p, q) ==
  q.kind = p.kind /\ q.invoice = p.invoice /\ q.row = client /\ p.pc = "client" /\ q.pc = "verify"
Bounded(q) == q.kind = "callback" /\ q.pc = "claim"

Turned(r, q) ==
  /\ Only(r, q)
  /\ \/ Finished(q)
     \/ Begun(q) /\ req[r].pc = "idle"
     \/ Gone(req[r], q) \/ Made(req[r], q) \/ Loaded(req[r], q) \/ Bounded(q)

LEMMA GoesTurned ==
  ASSUME Shaped, NEW r \in Requests, NEW pc, Goes(r, pc),
         <<req[r].pc, pc>> \in Following \/ pc = "activate"
  PROVE  \E q : Turned(r, q) /\ q.pc = pc /\ Gone(req[r], q)
<1>1. PICK q : q = At5(pc, req[r].kind, req[r].invoice, req[r].attempt, req[r].row)
  OBVIOUS
<1>2. Only(r, q)
  BY <1>1, GoesOnly
<1>3. q.pc = pc /\ q.kind = req[r].kind /\ q.invoice = req[r].invoice /\ q.row = req[r].row
  BY <1>1 DEF At5
<1> QED BY <1>2, <1>3 DEF Turned, Gone

LEMMA DoneTurned ==
  ASSUME Shaped, NEW r \in Requests, Done(r)
  PROVE  \E q : Turned(r, q) /\ Finished(q)
<1>1. PICK q : q = At5("idle", "none", NoInvoice, NoAttempt, NoRow)
  OBVIOUS
<1>2. Only(r, q) /\ Finished(q)
  BY <1>1, DoneOnly DEF Finished, At5
<1> QED BY <1>2 DEF Turned

LEMMA BeginsTurned ==
  ASSUME Shaped, NEW r \in Requests, NEW kind, NEW pc, NEW i, Begins(r, kind, pc, i),
         <<kind, pc>> \in Beginning, req[r].pc = "idle"
  PROVE  \E q : Turned(r, q) /\ q.kind = kind
<1>1. PICK q : q = At5(pc, kind, i, NoAttempt, client)
  OBVIOUS
<1>2. Only(r, q) /\ q.kind = kind /\ Begun(q)
  BY <1>1, BeginsOnly DEF Begun, At5
<1> QED BY <1>2 DEF Turned

LEMMA RequestTurns ==
  ASSUME Shaped, NEW r \in Requests, Request(r) \/ ExtendUsage(r)
  PROVE  \E q : /\ Turned(r, q)
                /\ q.kind = "extend" => ReadClient(r) \/ q.kind = req[r].kind
                /\ ExtendUsage(r) => Finished(q)
<1>1. Done(r) => \E q : Turned(r, q) /\ Finished(q)
  BY DoneTurned
<1>2. ASSUME NEW pc, Goes(r, pc), <<req[r].pc, pc>> \in Following \/ pc = "activate"
      PROVE  \E q : Turned(r, q) /\ q.kind = req[r].kind
  BY <1>2, GoesTurned DEF Gone
<1>3. ThenResume(r) => (\E q : Turned(r, q) /\ Finished(q))
                       \/ (\E q : Turned(r, q) /\ q.kind = req[r].kind)
  BY <1>1, <1>2 DEF ThenResume
<1>4. CASE ExtendUsage(r)
  BY <1>1, <1>4 DEF ExtendUsage, Finished
<1>5. CASE /\ ~ExtendUsage(r)
           /\ \/ SuspendOrResume(r) \/ EnforceSubscriptionPayments(r) \/ ReadRenewal(r)
              \/ CheckDelete(r) \/ ReadClient(r) \/ ReadInvoice(r) \/ GenerateInvoice(r)
  <2>1. req[r].pc = "idle"
    BY <1>5 DEF SuspendOrResume, EnforceSubscriptionPayments, ReadRenewal, CheckDelete, ReadClient,
       ReadInvoice, GenerateInvoice, Starts
  <2>2. CASE ReadClient(r)
    <3>1. \E kind, pc, i : Begins(r, kind, pc, i) /\ <<kind, pc>> \in Beginning
      BY <2>2 DEF ReadClient, Beginning
    <3> QED BY <1>5, <2>1, <2>2, <3>1, BeginsTurned
  <2>3. CASE ~ReadClient(r)
    <3>1. \E kind, pc, i : Begins(r, kind, pc, i) /\ <<kind, pc>> \in Beginning /\ kind # "extend"
      BY <1>5, <2>3 DEF SuspendOrResume, EnforceSubscriptionPayments, ReadRenewal, CheckDelete,
         ReadInvoice, GenerateInvoice, Beginning
    <3> QED BY <1>5, <2>1, <3>1, BeginsTurned
  <2> QED BY <2>2, <2>3
<1>6. CASE /\ ~ExtendUsage(r)
           /\ \/ SuspendApp(r) \/ MarkSuspended(r) \/ MarkActive(r) \/ ResumeApp(r)
              \/ ListInvoices(r) \/ TrackProformaFollowup(r) \/ CancelFollowup(r)
              \/ DeleteInvoice(r) \/ WritePayment(r) \/ RecordExtension(r) \/ RecordPayment(r)
              \/ SettleFollowup(r) \/ PayInvoice(r)
  <2>1. \/ Done(r) \/ ThenResume(r)
        \/ \E pc : Goes(r, pc) /\ <<req[r].pc, pc>> \in Following
    BY <1>6 DEF SuspendApp, MarkSuspended, MarkActive, ResumeApp, ListInvoices,
       TrackProformaFollowup, CancelFollowup, DeleteInvoice, At, WritePayment,
       RecordExtension, RecordPayment, SettleFollowup, PayInvoice, Refused, Following
  <2> QED BY <1>1, <1>2, <1>3, <1>6, <2>1 DEF Finished
<1>7. CASE /\ ~ExtendUsage(r)
           /\ \/ Prompt(r) \/ SavePush(r) \/ ClaimAttempt(r) \/ VerifyInvoice(r)
              \/ RecordReceipt(r) \/ RenewSubscription(r) \/ CompleteAttempt(r)
              \/ ReviewAttempt(r)
  <2>1. Done(r) \/ \E pc : Goes(r, pc) /\ <<req[r].pc, pc>> \in Following
    BY <1>7 DEF Prompt, SavePush, ClaimAttempt, VerifyInvoice, RecordReceipt, RenewSubscription,
       CompleteAttempt, ReviewAttempt, At, Following
  <2> QED BY <1>1, <1>2, <1>7, <2>1 DEF Finished
<1>8. CASE ~ExtendUsage(r) /\ (GenerateRenewal(r) \/ GenerateRecorded(r))
  <2>1. Done(r) \/ \E pc, i : /\ req' = [req EXCEPT ![r].pc = pc, ![r].invoice = i]
                              /\ req[r].pc = "generate"
                              /\ <<req[r].kind, pc>> \in {<<"renew", "track">>, <<"record", "pay">>}
    BY <1>8 DEF GenerateRenewal, GenerateRecorded, At
  <2>2. ASSUME NEW pc, NEW i, req' = [req EXCEPT ![r].pc = pc, ![r].invoice = i],
               req[r].pc = "generate",
               <<req[r].kind, pc>> \in {<<"renew", "track">>, <<"record", "pay">>}
        PROVE  \E q : Turned(r, q) /\ q.kind # "extend"
    <3>1. PICK q : q = At5(pc, req[r].kind, i, req[r].attempt, req[r].row)
      OBVIOUS
    <3>2. Only(r, q)
      BY <2>2, <3>1, MakesOnly
    <3>3. Made(req[r], q) /\ q.kind # "extend"
      BY <2>2, <3>1 DEF At5, Made
    <3> QED BY <3>2, <3>3 DEF Turned
  <2> QED BY <1>1, <1>8, <2>1, <2>2 DEF Finished
<1>9. CASE ~ExtendUsage(r) /\ InsertAttempt(r)
  <2>1. CASE Done(r)
    BY <1>1, <1>9, <2>1 DEF Finished
  <2>2. CASE \E a \in Attempts : req' = [req EXCEPT ![r].pc = "prompt", ![r].attempt = a]
    <3>1. PICK a : req' = [req EXCEPT ![r].pc = "prompt", ![r].attempt = a]
      BY <2>2
    <3>2. PICK q : q = At5("prompt", req[r].kind, req[r].invoice, a, req[r].row)
      OBVIOUS
    <3>3. Only(r, q)
      BY <3>1, <3>2, AttemptOnly
    <3>4. Gone(req[r], q)
      BY <1>9, <3>2 DEF At5, Gone, InsertAttempt, At, Following
    <3> QED BY <1>9, <3>3, <3>4 DEF Turned, Gone
  <2> QED BY <1>9, <2>1, <2>2 DEF InsertAttempt
<1>10. CASE ~ExtendUsage(r) /\ LoadClient(r)
  <2>1. PICK row : row = client
    OBVIOUS
  <2>2. PICK q : q = At5("verify", req[r].kind, req[r].invoice, req[r].attempt, row)
    OBVIOUS
  <2>3. Only(r, q)
    BY <1>10, <2>1, <2>2, RowOnly DEF LoadClient
  <2>4. Loaded(req[r], q)
    BY <1>10, <2>1, <2>2 DEF At5, Loaded, LoadClient, At
  <2> QED BY <1>10, <2>3, <2>4 DEF Turned, Loaded
<1>11. CASE ~ExtendUsage(r) /\ BindCallback(r)
  <2>1. PICK a : req' = [req EXCEPT ![r] = [Idle EXCEPT !.pc = "claim", !.kind = "callback",
                                        !.attempt = a, !.invoice = attempt[a].invoice]]
    BY <1>11 DEF BindCallback
  <2>2. PICK i, q : i = attempt[a].invoice /\ q = At5("claim", "callback", i, a, NoRow)
    OBVIOUS
  <2>3. Only(r, q)
    BY <2>1, <2>2, BindsOnly
  <2>4. Bounded(q)
    BY <2>2 DEF At5, Bounded
  <2> QED BY <1>11, <2>3, <2>4 DEF Turned, Bounded
<1> QED BY <1>4, <1>5, <1>6, <1>7, <1>8, <1>9, <1>10, <1>11 DEF Request

FollowSet == [status : FollowStatus, warnAt : Days, sentAt : Days, suspendAt : Days, extension : Nat]

LEMMA StatusTyped ==
  ASSUME follow \in FollowRows, NEW i, NEW s \in FollowStatus, Sets(i, s)
  PROVE  follow' \in FollowRows /\ \A j \in Invoices : follow'[j].status = IF j = i THEN s ELSE follow[j].status
BY DEF Sets, FollowRows, FollowStatus

LEMMA SettlesTyped ==
  ASSUME follow \in FollowRows, NEW i, NEW from, NEW to \in FollowStatus, Settles(i, from, to)
  PROVE  /\ follow' \in FollowRows
         /\ to # "none" => \A j \in Invoices : follow'[j].status # "none" <=> (follow[j].status # "none"
                                         \/ (j = i /\ follow[i].status \in from))
<1>1. CASE i \in Invoices
  <2>1. PICK s : Sets(i, s) /\ s = IF follow[i].status \in from THEN to ELSE follow[i].status
    BY DEF Settles, Sets
  <2>2. s \in FollowStatus
    BY <1>1, <2>1 DEF FollowRows
  <2> QED BY <1>1, <2>1, <2>2, StatusTyped
<1>2. CASE i \notin Invoices
  BY <1>2 DEF Settles, FollowRows
<1> QED BY <1>1, <1>2

(* Follow-ups: what steps make of them; none that is made is unmade.         *)
LEMMA RowSetTyped ==
  ASSUME follow \in FollowRows, NEW i, NEW v, i \in Invoices => v \in FollowSet,
         follow' = [follow EXCEPT ![i] = v]
  PROVE  follow' \in FollowRows /\ \A j \in Invoices : follow'[j] = IF j = i THEN v ELSE follow[j]
BY DEF FollowRows, FollowSet

(* Nothing is followed up that was not, but what a request is about to track; *)
(* and nothing ceases to be.                                                 *)
Unopened == \A j \in Invoices :
  /\ follow'[j].status # "none" =>
       \/ follow[j].status # "none"
       \/ \E r \in Requests : req[r].pc = "track" /\ req[r].invoice = j
  /\ follow[j].status # "none" => follow'[j].status # "none"

LEMMA RequestsFollowTyped ==
  ASSUME Typed, SettledInv, NEW r \in Requests, Request(r) \/ ExtendUsage(r)
  PROVE  follow' \in FollowRows /\ Unopened
<1>1. PICK q : q = req[r] /\ RequestTyped(q) /\ follow \in FollowRows
  BY DEF Typed, RequestsTyped
<1>2. CASE CancelFollowup(r) \/ WritePayment(r) \/ RecordExtension(r) \/ SettleFollowup(r)
  <2>1. \E to \in {"cancelled", "paid"} : Settles(q.invoice, Unsettled, to)
    BY <1>1, <1>2 DEF CancelFollowup, WritePayment, RecordExtension, SettleFollowup
  <2>2. follow' \in FollowRows
        /\ \A j \in Invoices : follow'[j].status # "none" <=> (follow[j].status # "none"
                                         \/ (j = q.invoice /\ follow[j].status \in Unsettled))
    BY <1>1, <2>1, SettlesTyped DEF FollowStatus
  <2> QED BY <2>2 DEF Unopened, Unsettled, Tracked
<1>3. CASE TrackProformaFollowup(r)
  <2> DEFINE i == q.invoice
             w == invoice[i].created + WarnAfter
             v == [follow[i] EXCEPT !.status = "warning_pending", !.warnAt = w]
  <2>1. i \in Invoices /\ q.pc = "track"
    BY <1>1, <1>3 DEF TrackProformaFollowup, At, RequestTyped, Course, Freestanding
  <2>2. w \in Nat
    BY <2>1, BillingAssumption DEF Typed, InvoiceRows
  <2>3. v = [status |-> "warning_pending", warnAt |-> w, sentAt |-> follow[i].sentAt,
             suspendAt |-> follow[i].suspendAt, extension |-> follow[i].extension]
    <3>1. FollowRow(follow[i])
      BY <2>1 DEF SettledInv, NoticeInv, FollowsNoticed
    <3> HIDE DEF w
    <3> QED BY <3>1, TrackedRow
  <2>4. v \in FollowSet
    BY <1>1, <2>1, <2>2, <2>3 DEF FollowRows, FollowSet, FollowStatus, Tracked, Days
  <2>5. UNCHANGED follow \/ follow' = [follow EXCEPT ![i] = v]
    BY <1>1, <1>3 DEF TrackProformaFollowup
  <2>6. /\ follow' \in FollowRows
        /\ \A j \in Invoices : follow'[j] = follow[j] \/ (j = i /\ follow'[j].status # "none")
    <3>1. v.status # "none"
      BY <2>3
    <3> HIDE DEF v
    <3> QED BY <1>1, <2>4, <2>5, <3>1, RowSetTyped
  <2> QED BY <1>1, <2>1, <2>6 DEF Unopened
<1>4. CASE ExtendUsage(r)
  <2> DEFINE g(j) == IF follow[j].status \notin Tracked THEN follow[j]
                     ELSE [follow[j] EXCEPT
                             !.extension = @ + Extension,
                             !.status = IF @ = "suspending" THEN "warned" ELSE @,
                             !.suspendAt = IF @ = NoDay THEN NoDay ELSE @ + Extension]
  <2>1. follow' = [j \in Invoices |-> g(j)]
    BY <1>4 DEF ExtendUsage
  <2>2. ASSUME NEW j \in Invoices
        PROVE  g(j) \in FollowSet /\ (g(j).status # "none" <=> follow[j].status # "none")
    <3>1. follow[j] \in FollowSet /\ FollowRow(follow[j])
      BY <1>1 DEF FollowRows, FollowSet, SettledInv, NoticeInv, FollowsNoticed
    <3>2. CASE follow[j].status \notin Tracked
      BY <3>1, <3>2
    <3>3. CASE follow[j].status \in Tracked
      <4>1. PICK f, x, s, d :
              /\ f = follow[j] /\ x = f.extension + Extension
              /\ s = IF f.status = "suspending" THEN "warned" ELSE f.status
              /\ d = IF f.suspendAt = NoDay THEN NoDay ELSE f.suspendAt + Extension
        OBVIOUS
      <4>2. x \in Nat /\ s \in FollowStatus /\ d \in Days
        BY <3>1, <4>1, BillingAssumption DEF FollowSet, FollowStatus, Tracked, Days, NoDay
      <4>3. g(j) = Extended(f, x, s, d)
        BY <3>3, <4>1 DEF Extended
      <4>4. g(j) = [status |-> s, warnAt |-> f.warnAt, sentAt |-> f.sentAt, suspendAt |-> d,
                    extension |-> x]
        BY <3>1, <4>1, <4>3, ExtendedRow
      <4>5. f.warnAt \in Days /\ f.sentAt \in Days
        BY <3>1, <4>1 DEF FollowSet
      <4>6. follow[j].status # "none" /\ s # "none"
        BY <3>3, <4>1 DEF Tracked
      <4> HIDE DEF g
      <4>7. g(j).status = s
        BY <4>4
      <4> QED BY <4>2, <4>4, <4>5, <4>6, <4>7 DEF FollowSet
    <3> QED BY <3>2, <3>3
  <2> HIDE DEF g
  <2> QED BY <2>1, <2>2 DEF FollowRows, FollowSet, Unopened
<1>5. CASE ~(CancelFollowup(r) \/ WritePayment(r) \/ RecordExtension(r) \/ SettleFollowup(r)
             \/ TrackProformaFollowup(r) \/ ExtendUsage(r))
  <2>1. UNCHANGED follow
    BY <1>5 DEF tables, Request, SuspendApp, ResumeApp, SuspendOrResume,
     MarkSuspended, MarkActive, EnforceSubscriptionPayments, ReadRenewal,
     ListInvoices, CheckDelete, ReadClient, SavePush, ClaimAttempt, VerifyInvoice, CompleteAttempt,
     ReviewAttempt, Prompt, BindCallback, InsertAttempt,
     RecordPayment, ReadInvoice, RenewSubscription,
     LoadClient, RecordReceipt, PayInvoice, DeleteInvoice, GenerateInvoice,
     GenerateRecorded, GenerateRenewal
  <2> QED BY <1>1, <2>1 DEF Unopened
<1> QED BY <1>2, <1>3, <1>4, <1>5

LEMMA RecoveredTyped ==
  ASSUME NEW s \in FollowStatus
  PROVE  Recovered(s) \in FollowStatus /\ (Recovered(s) # "none" <=> s # "none")
BY DEF Recovered, FollowStatus, Tracked

LEMMA SweepFollowTyped ==
  ASSUME Typed, SettledInv,
         SweepStep \/ SweepFails \/ \E stale, skipped \in SUBSET Invoices : SweepStart(stale, skipped)
  PROVE  follow' \in FollowRows /\ Unopened
<1>1. PICK i : i = sweep.i
  OBVIOUS
<1>2. follow \in FollowRows /\ day \in Nat
  BY BillingAssumption DEF Typed
<1>3. ASSUME NEW from, NEW to \in FollowStatus \ {"none"}, Settles(i, from, to), "none" \notin from
      PROVE  follow' \in FollowRows /\ Unopened
  BY <1>2, <1>3, SettlesTyped DEF Unopened
<1>4. CASE UnclaimPaid \/ CancelRow \/ FinishSuspension \/ Reconcile \/ ClaimRow
  <2>1. Claim \in {"suspending", "warning_sending"}
    BY DEF Claim
  <2>2. CASE ClaimRow
    <3>1. Row.status # "none"
      BY <2>2 DEF ClaimRow, SweepAt, SettledInv, NoticeInv, SweepTrue, CopyTrue, Row
    <3>2. Settles(i, {Row.status}, Claim)
      BY <1>1, <2>2 DEF ClaimRow
    <3> QED BY <1>3, <2>1, <3>1, <3>2 DEF FollowStatus, Tracked
  <2>3. CASE ~ClaimRow
    <3>1. \E from, to : /\ Settles(i, from, to) /\ to \in {"warned", "cancelled", "suspended", "paid"}
                        /\ "none" \notin from
      BY <1>1, <1>4, <2>1, <2>3 DEF UnclaimPaid, CancelRow, FinishSuspension, Reconcile
    <3> QED BY <1>3, <3>1 DEF FollowStatus, Tracked
  <2> QED BY <2>2, <2>3
<1>5. CASE SendWarning
  <2> DEFINE d == SuspendDue(i)
             v == [follow[i] EXCEPT !.status = "warned", !.sentAt = day, !.suspendAt = d]
  <2>1. i \in Invoices
    BY <1>1, <1>5 DEF SendWarning, SweepAt, SettledInv, NoticeInv, SweepTrue
  <2>2. d \in Nat
    BY <1>2, <2>1, BillingAssumption DEF SuspendDue, FollowRows
  <2>3. v = [status |-> "warned", warnAt |-> follow[i].warnAt, sentAt |-> day,
             suspendAt |-> d, extension |-> follow[i].extension]
    <3>1. FollowRow(follow[i])
      BY <2>1 DEF SettledInv, NoticeInv, FollowsNoticed
    <3> HIDE DEF d
    <3> QED BY <3>1, NoticeRow
  <2>4. v \in FollowSet
    BY <1>2, <2>1, <2>2, <2>3 DEF FollowRows, FollowSet, FollowStatus, Tracked, Days
  <2>5. \/ UNCHANGED follow
        \/ follow' = [follow EXCEPT ![i] = v] /\ follow[i].status = "warning_sending"
    BY <1>1, <1>5 DEF SendWarning
  <2>6. /\ follow' \in FollowRows
        /\ \A j \in Invoices : \/ follow'[j] = follow[j]
                               \/ j = i /\ follow'[j].status # "none" /\ follow[j].status # "none"
    <3>1. v.status # "none"
      BY <2>3
    <3> HIDE DEF v
    <3> QED BY <1>2, <2>4, <2>5, <3>1, RowSetTyped
  <2> QED BY <2>6 DEF Unopened
<1>6. CASE CatchRow
  <2>1. i \in Invoices
    BY <1>1, <1>6 DEF CatchRow, SweepAt, SettledInv, NoticeInv, SweepTrue
  <2>2. PICK s : s = Recovered(follow[i].status) /\ Sets(i, s)
    BY <1>1, <1>6 DEF CatchRow, Sets
  <2>3. s \in FollowStatus /\ (s # "none" <=> follow[i].status # "none")
    BY <1>2, <2>1, <2>2, RecoveredTyped DEF FollowRows
  <2> QED BY <1>2, <2>2, <2>3, StatusTyped DEF Unopened
<1>7. CASE \E stale, skipped \in SUBSET Invoices : SweepStart(stale, skipped)
  <2>1. PICK stale : follow' = [j \in Invoices |->
                       [follow[j] EXCEPT !.status = IF j \in stale THEN Recover(@) ELSE @]]
    BY <1>7 DEF SweepStart
  <2>2. ASSUME NEW j \in Invoices
        PROVE  /\ follow'[j] \in FollowSet
               /\ follow'[j].status # "none" <=> follow[j].status # "none"
    <3>1. PICK s : s = IF j \in stale THEN Recover(follow[j].status) ELSE follow[j].status
      OBVIOUS
    <3>2. follow'[j] = [follow[j] EXCEPT !.status = s]
      BY <2>1, <3>1
    <3>3. follow[j] \in FollowSet
      BY <1>2 DEF FollowRows, FollowSet
    <3>4. s \in FollowStatus /\ (s # "none" <=> follow[j].status # "none")
      BY <3>1, <3>3, RecoveredTyped DEF FollowSet, Recover
    <3> QED BY <3>2, <3>3, <3>4 DEF FollowSet
  <2>3. follow' = [j \in Invoices |-> follow'[j]]
    BY <2>1
  <2> QED BY <2>2, <2>3 DEF FollowRows, FollowSet, Unopened
<1>8. CASE \/ SweepFails
           \/ /\ SweepStep /\ ~(UnclaimPaid \/ CancelRow \/ FinishSuspension \/ Reconcile \/ ClaimRow)
              /\ ~SendWarning /\ ~CatchRow
  <2>1. UNCHANGED follow
    BY <1>8 DEF SweepFails, SweepStep, LookUpInvoice, SkipRow, RecheckInvoice, SweepMarksActive,
       SweepMarksSuspended, ConfirmClaim, SweepSuspendsApp, SweepResumesApp, tables
  <2> QED BY <1>2, <2>1 DEF Unopened
<1> QED BY <1>4, <1>5, <1>6, <1>7, <1>8

LEMMA FollowsTyped ==
  ASSUME Typed, SettledInv, Next
  PROVE  follow' \in FollowRows /\ Unopened
<1>1. CASE \E r \in Requests : Request(r) \/ ExtendUsage(r)
  BY <1>1, RequestsFollowTyped
<1>2. CASE SweepStep \/ SweepFails \/ \E stale, skipped \in SUBSET Invoices : SweepStart(stale, skipped)
  BY <1>2, SweepFollowTyped
<1>3. CASE /\ ~\E r \in Requests : Request(r) \/ ExtendUsage(r)
           /\ ~(SweepStep \/ SweepFails \/ \E stale, skipped \in SUBSET Invoices : SweepStart(stale, skipped))
  <2>1. UNCHANGED follow
    BY <1>3 DEF Next, OwnerPays, Fault, Fail, Unanswered, Restart, tables
  <2> QED BY <2>1 DEF Typed, Unopened
<1> QED BY <1>1, <1>2, <1>3

-----------------------------------------------------------------------------
(* Days granted: what was granted and what requests will still grant.        *)
Extenders == {u \in Requests : req[u].kind = "extend"}
GrantInv ==
  /\ granted \in Nat /\ IsFiniteSet(Extenders)
  /\ granted + Extension * Cardinality(Extenders) <= MaxGranted

LEMMA TimesNext ==
  ASSUME NEW e \in Nat, NEW n \in Nat
  PROVE  e * (n + 1) = e * n + e /\ e * n \in Nat
OBVIOUS
LEMMA TimesMore ==
  ASSUME NEW e \in Nat, NEW m \in Nat, NEW n \in Nat, m <= n
  PROVE  e * m <= e * n /\ e * m \in Nat /\ e * n \in Nat
<1>1. PICK d \in Nat : n = m + d
  <2>1. n - m \in Nat /\ n = m + (n - m)
    OBVIOUS
  <2> QED BY <2>1
<1>2. e * n = e * m + e * d /\ e * d \in Nat /\ e * m \in Nat
  BY <1>1
<1> QED BY <1>2

(* Fewer requests that extend, and nothing granted meanwhile                 *)
LEMMA FewerExtenders ==
  ASSUME GrantInv, Extenders' \subseteq Extenders, granted' = granted
  PROVE  GrantInv'
<1>1. /\ IsFiniteSet(Extenders') /\ Cardinality(Extenders') \in Nat
      /\ Cardinality(Extenders) \in Nat /\ Cardinality(Extenders') <= Cardinality(Extenders)
  BY FS_Subset, FS_CardinalityType DEF GrantInv
<1>2. PICK m, n : m = Cardinality(Extenders') /\ n = Cardinality(Extenders)
  OBVIOUS
<1>3. Extension * m <= Extension * n /\ Extension * m \in Nat /\ Extension * n \in Nat
  BY <1>1, <1>2, TimesMore, BillingAssumption
<1>4. granted \in Nat /\ MaxGranted \in Nat /\ granted + Extension * n <= MaxGranted
  BY <1>2, BillingAssumption DEF GrantInv
<1>5. granted' + Extension * m <= MaxGranted
  BY <1>3, <1>4
<1> QED BY <1>1, <1>2, <1>4, <1>5 DEF GrantInv

LEMMA RequestsGrant ==
  ASSUME GrantInv, RequestsTyped, NEW r \in Requests,
         (Request(r) /\ granted' = granted) \/ ExtendUsage(r)
  PROVE  GrantInv'
<1>1. PICK q : /\ Turned(r, q)
               /\ q.kind = "extend" => ReadClient(r) \/ q.kind = req[r].kind
               /\ ExtendUsage(r) => Finished(q)
  BY RequestTurns DEF RequestsTyped
<1>2. \A u \in Requests : req'[u] = IF u = r THEN q ELSE req[u]
  BY <1>1 DEF Turned, Only
<1>3. Extenders' = IF q.kind = "extend" THEN Extenders \cup {r} ELSE Extenders \ {r}
  BY <1>2 DEF Extenders
<1>4. PICK n \in Nat : n = Cardinality(Extenders)
  BY FS_CardinalityType DEF GrantInv
<1>5. {Extension, MaxGranted, granted} \subseteq Nat
  BY BillingAssumption DEF GrantInv
<1>6. CASE ExtendUsage(r)
  <2>1. q.kind # "extend" /\ r \in Extenders /\ granted' = granted + Extension
    BY <1>1, <1>6 DEF Finished, ExtendUsage, Extenders
  <2>2. /\ IsFiniteSet(Extenders') /\ Cardinality(Extenders') \in Nat
        /\ n = Cardinality(Extenders') + 1
    <3>1. Extenders' = Extenders \ {r}
      BY <1>3, <2>1
    <3>2. IsFiniteSet(Extenders \ {r}) /\ Cardinality(Extenders \ {r}) = n - 1
      BY <1>4, <2>1, FS_RemoveElement DEF GrantInv
    <3>3. Cardinality(Extenders \ {r}) \in Nat
      BY <3>2, FS_CardinalityType
    <3> QED BY <1>4, <3>1, <3>2, <3>3
  <2>3. PICK m \in Nat : m = Cardinality(Extenders')
    BY <2>2
  <2>4. Extension * (m + 1) = Extension * m + Extension /\ Extension * m \in Nat
    BY <1>5, TimesNext
  <2>5. granted + Extension * (m + 1) <= MaxGranted
    BY <1>4, <2>2, <2>3 DEF GrantInv
  <2>6. granted + Extension + Extension * m <= MaxGranted
    BY <1>5, <2>4, <2>5
  <2> QED BY <1>5, <2>1, <2>2, <2>3, <2>6 DEF GrantInv
<1>7. CASE ~ExtendUsage(r)
  <2>1. CASE q.kind # "extend" \/ q.kind = req[r].kind
    <3>1. Extenders' \subseteq Extenders
      BY <1>3, <2>1 DEF Extenders
    <3> QED BY <1>7, <3>1, FewerExtenders
  <2>2. CASE q.kind = "extend" /\ q.kind # req[r].kind
    <3>1. ReadClient(r) /\ r \notin Extenders
      BY <1>1, <2>2 DEF Extenders
    <3>2. /\ Begins(r, "extend", "write", NoInvoice)
          /\ granted + Extension * (1 + n) <= MaxGranted
      <4>1. ASSUME NEW kind, NEW pc, NEW i, Begins(r, kind, pc, i) PROVE kind = "extend"
        <5>1. Only(r, At5(pc, kind, i, NoAttempt, client))
          BY <4>1, BeginsOnly DEF RequestsTyped
        <5>2. req'[r].kind = kind
          BY <5>1 DEF Only, At5
        <5> QED BY <1>2, <2>2, <5>2
      <4>2. ~\E i : Begins(r, "pay", "pay", i)
        <5>1. ASSUME NEW i, Begins(r, "pay", "pay", i) PROVE FALSE
          <6>1. "pay" = "extend"
            BY <4>1, <5>1
          <6> QED BY <6>1
        <5> QED BY <5>1
      <4>3. ~Begins(r, "record", "generate", NoInvoice)
        <5>1. ASSUME Begins(r, "record", "generate", NoInvoice) PROVE FALSE
          <6>1. "record" = "extend"
            BY <4>1, <5>1
          <6> QED BY <6>1
        <5> QED BY <5>1
      <4> QED BY <1>4, <3>1, <4>2, <4>3 DEF ReadClient, Extenders
    <3>3. IsFiniteSet(Extenders') /\ Cardinality(Extenders') = n + 1
      BY <1>3, <1>4, <2>2, <3>1, FS_AddElement DEF GrantInv
    <3>4. granted + Extension * (n + 1) <= MaxGranted
      BY <3>2
    <3> QED BY <1>5, <1>7, <3>3, <3>4 DEF GrantInv
  <2> QED BY <2>1, <2>2
<1> QED BY <1>6, <1>7

LEMMA GrantsKept ==
  ASSUME GrantInv, RequestsTyped, Next
  PROVE  GrantInv'
<1>1. CASE \E r \in Requests : (Request(r) /\ granted' = granted) \/ ExtendUsage(r)
  BY <1>1, RequestsGrant
<1>2. CASE Fault /\ granted' = granted
  <2>1. CASE \E r \in Requests : Fail(r)
    <3>1. PICK r \in Requests : Fail(r)
      BY <2>1
    <3>2. Done(r) \/ \E pc : Goes(r, pc)
      BY <3>1 DEF Fail
    <3>3. Extenders' \subseteq Extenders
      <4>1. CASE Done(r)
        BY <4>1 DEF Done, Idle, Extenders, RequestsTyped, Shaped
      <4>2. CASE \E pc : Goes(r, pc)
        <5>1. PICK pc : Goes(r, pc)
          BY <4>2
        <5>2. Only(r, At5(pc, req[r].kind, req[r].invoice, req[r].attempt, req[r].row))
          BY <5>1, GoesOnly DEF RequestsTyped
        <5> QED BY <5>2 DEF Only, At5, Extenders
      <4> QED BY <3>2, <4>1, <4>2
    <3> QED BY <1>2, <3>3, FewerExtenders
  <2>2. CASE SweepFails \/ Restart
    <3>1. Extenders' \subseteq Extenders
      BY <2>2 DEF SweepFails, Restart, Idle, Extenders
    <3> QED BY <1>2, <3>1, FewerExtenders
  <2> QED BY <1>2, <2>1, <2>2 DEF Fault, Unanswered
<1>3. CASE UNCHANGED <<req, granted>>
  <2>1. Extenders' \subseteq Extenders
    BY <1>3 DEF Extenders
  <2> QED BY <1>3, <2>1, FewerExtenders
<1> QED BY <1>1, <1>2, <1>3 DEF Next, OwnerPays

-----------------------------------------------------------------------------
(* The type invariant, as an inductive one                                   *)
LEMMA TypedKept ==
  ASSUME Standing, Next
  PROVE  Typed'
<1>1. Typed /\ NoticeInv /\ SettledInv
  BY DEF Standing, SettledInv
<1>2. client' \in ClientRow /\ invoice' \in InvoiceRows /\ payments' \subseteq PaymentRow
  BY <1>1, ClientTyped, InvoicesTyped, PaymentsTyped
<1>3. RequestsTyped' /\ attempt' \in AttemptRows /\ follow' \in FollowRows
  BY <1>1, AimsKept, FollowsTyped
<1>4. day' \in 0..MaxDay /\ faults' \in 0..MaxFaults
  BY <1>1, BillingAssumption DEF Typed, Next, Tick, Fault
<1>5. store' \in {"open", "closed", "paused"}
  <2>1. \/ store' \in {"open", "closed", "paused"} \/ store' = store
    BY DEF Next, Request, SuspendApp, MarkSuspended, MarkActive, ResumeApp, SuspendOrResume,
       EnforceSubscriptionPayments, GenerateInvoice, TrackProformaFollowup, ReadRenewal,
       ListInvoices, GenerateRenewal, CheckDelete, DeleteInvoice, CancelFollowup, ReadClient,
       GenerateRecorded, PayInvoice, WritePayment, RecordExtension, RecordPayment, ReadInvoice,
       InsertAttempt, Prompt, SavePush, BindCallback, ClaimAttempt, LoadClient, VerifyInvoice,
       RecordReceipt, RenewSubscription, CompleteAttempt, SettleFollowup, ReviewAttempt,
       ExtendUsage, OwnerPays, SweepStart, SweepStep, LookUpInvoice, SkipRow, ClaimRow,
       RecheckInvoice, UnclaimPaid, CancelRow, CatchRow, ConfirmClaim, SendWarning, SweepSuspendsApp,
       SweepMarksSuspended, FinishSuspension, Reconcile, SweepMarksActive, SweepResumesApp,
       Fault, Fail, Unanswered, SweepFails, Restart, Tick, tables, Closes, Opens
  <2> QED BY <1>1, <2>1 DEF Typed
<1>6. sweep'.row \in ClientRow
  <2>1. sweep = [pc |-> sweep.pc, now |-> sweep.now, row |-> sweep.row, rows |-> sweep.rows,
                 i |-> sweep.i]
    BY <1>1 DEF NoticeInv, SweepTrue
  <2>2. client \in ClientRow /\ sweep.row \in ClientRow /\ NoSweep.row \in ClientRow
    BY <1>1 DEF Typed, NoSweep, NoRow, ClientRow
  <2>3. SweepDone => sweep'.row \in ClientRow
    BY <2>1, <2>2 DEF SweepDone
  <2>4. ASSUME NEW pc, SweepGoes(pc) PROVE sweep'.row \in ClientRow
    BY <2>1, <2>2, <2>4 DEF SweepGoes
  <2>5. CASE \E stale, skipped \in SUBSET Invoices : SweepStart(stale, skipped)
    <3>1. PICK rows : sweep' = [NoSweep EXCEPT !.pc = "next", !.now = day, !.row = client,
                                               !.rows = rows]
      BY <2>5 DEF SweepStart
    <3> QED BY <2>2, <3>1 DEF NoSweep
  <2>6. CASE LookUpInvoice
    <3>1. PICK to, i : sweep' = [sweep EXCEPT !.pc = to, !.i = i]
      BY <2>6 DEF LookUpInvoice
    <3> QED BY <2>1, <2>2, <3>1
  <2>7. CASE SweepStep /\ ~LookUpInvoice
    <3>1. SweepDone \/ \E pc : SweepGoes(pc)
      BY <2>7 DEF SweepStep, SkipRow, ClaimRow, RecheckInvoice, UnclaimPaid, CancelRow, CatchRow,
         ConfirmClaim, SendWarning, SweepSuspendsApp, SweepMarksSuspended, FinishSuspension,
         Reconcile, SweepMarksActive, SweepResumesApp
    <3> QED BY <2>3, <2>4, <3>1
  <2>8. CASE Fault
    BY <2>2, <2>3, <2>4, <2>8 DEF Fault, Fail, Unanswered, SweepFails, Restart
  <2> QED BY <2>2, <2>5, <2>6, <2>7, <2>8 DEF Next
<1> QED BY <1>2, <1>3, <1>4, <1>5, <1>6 DEF Typed

StandingInv == Standing /\ GrantInv

LEMMA StandingStarts ==
  ASSUME Init
  PROVE  StandingInv
<1>1. NoticeInv /\ InvoicesTrue /\ RequestsTold /\ FollowsTrue /\ SweepTold
  <2>1. RequestsTold
    BY BillingAssumption DEF Init, RequestsTold, RequestRow, Told, Idle, PaidPcs
  <2>2. DOMAIN sweep.rows = {} /\ sweep.pc = "idle"
    BY DEF Init, NoSweep
  <2> QED BY <2>1, <2>2, NoticesStart
          DEF Init, InvoicesTrue, InvoiceRow, FollowsTrue, FollowTrue, SweepTold
<1>2. Typed
  <2>1. RequestsTyped
    <3>1. RequestRow(Idle) /\ RequestTyped(Idle)
      BY DEF Idle, RequestRow, RequestTyped, Course, Freestanding, NoRow, ClientRow
    <3> QED BY <3>1 DEF Init, RequestsTyped, Shaped
  <2>2. client \in ClientRow /\ store \in {"open", "closed", "paused"} /\ sweep.row \in ClientRow
    BY BillingAssumption DEF Init, ClientRow, NoSweep, NoRow
  <2>3. invoice \in InvoiceRows /\ payments \subseteq PaymentRow
    BY DEF Init, InvoiceRows, Days, NoDay
  <2>4. attempt \in AttemptRows
    BY DEF Init, AttemptRows
  <2>5. follow \in FollowRows
    BY DEF Init, FollowRows, FollowStatus, Days, NoDay
  <2> QED BY <2>1, <2>2, <2>3, <2>4, <2>5, BillingAssumption DEF Init, Typed
<1>3. AttemptInv
  <2>1. ~Pushing(Idle) /\ ~Called(Idle)
    BY DEF Idle, Pushing, Called
  <2>2. \A a \in Attempts : attempt[a].status = "absent"
    BY DEF Init
  <2>3. "absent" \notin Active
    BY DEF Active
  <2> QED BY <2>1, <2>2, <2>3 DEF Init, AttemptInv, AttemptsAimed, RequestsAimed, Aimed, Apart,
          Works, Holds, Receipted, Pushing, Called, ActiveOnce, CompletedIsPaid
<1>4. GrantInv
  <2>1. Extenders = {}
    BY DEF Init, Extenders, Idle
  <2>2. IsFiniteSet(Extenders) /\ Cardinality(Extenders) = 0
    BY <2>1, FS_EmptySet
  <2> QED BY <2>2, BillingAssumption DEF Init, GrantInv
<1> QED BY <1>1, <1>2, <1>3, <1>4 DEF StandingInv, Standing, SettledInv

LEMMA StandingKept ==
  ASSUME StandingInv, [Next]_vars
  PROVE  StandingInv'
<1>1. CASE Next
  <2>1. Typed'
    BY <1>1, TypedKept DEF StandingInv
  <2>2. AttemptInv'
    BY <1>1, AimsKept DEF StandingInv
  <2>3. SettledInv'
    BY <1>1, EndsKept DEF StandingInv, Standing
  <2>4. GrantInv'
    BY <1>1, GrantsKept DEF StandingInv, Standing, Typed
  <2> QED BY <2>1, <2>2, <2>3, <2>4 DEF StandingInv, Standing
<1>2. CASE UNCHANGED vars
  <2>1. SettledInv'
    BY <1>2, EndsKept DEF StandingInv, Standing
  <2>2. UNCHANGED <<day, client, store, invoice, payments, attempt, follow, req, sweep, granted, faults>>
    BY <1>2 DEF vars, tables
  <2>3. Typed'
    BY <2>2 DEF StandingInv, Standing, Typed, RequestsTyped, Shaped
  <2>4. AttemptInv'
    BY <2>2 DEF StandingInv, Standing, AttemptInv, AttemptsAimed, RequestsAimed, Aimed,
       ActiveOnce, CompletedIsPaid
  <2>5. GrantInv'
    BY <2>2 DEF StandingInv, GrantInv, Extenders
  <2> QED BY <2>1, <2>3, <2>4, <2>5 DEF StandingInv, Standing
<1> QED BY <1>1, <1>2

(* Every row and request keeps its type whatever calls, callbacks, sweeps,   *)
(* errors and restarts interleave; no two attempts at one invoice are active *)
(* at a time, whatever callbacks rebind, claim and fail (the unique index of *)
(* mpesa_payment_attempts guards their insertion only).                      *)
THEOREM RowsTyped == Spec => []TypeOK
<1>1. StandingInv => TypeOK
  <2> SUFFICES ASSUME StandingInv PROVE TypeOK
    OBVIOUS
  <2>1. granted \in 0..MaxGranted
    <3>1. PICK n \in Nat : n = Cardinality(Extenders)
      BY FS_CardinalityType DEF StandingInv, GrantInv
    <3>2. Extension * n \in Nat
      BY <3>1, TimesNext, BillingAssumption
    <3> QED BY <3>1, <3>2, BillingAssumption DEF StandingInv, GrantInv
  <2> QED BY <2>1 DEF StandingInv, Standing, Typed, AttemptInv, ActiveOnce, TypeOK, ClientRow,
       InvoiceRows, PaymentRow, AttemptRows, FollowRows, FollowStatus
<1> QED BY <1>1, StandingStarts, StandingKept, PTL DEF Spec

(* Callbacks repeated, late or racing with operators, sweeps and restarts    *)
(* complete an attempt only for an invoice that is paid, with its receipt on *)
(* record, and complete no second one for it.                                *)
THEOREM CompletionsArePaid == Spec => []CompletedIsPaid
<1>1. StandingInv => CompletedIsPaid
  BY DEF StandingInv, Standing, AttemptInv
<1> QED BY <1>1, StandingStarts, StandingKept, PTL DEF Spec

-----------------------------------------------------------------------------
(* Days paid for.  A paid invoice that is followed up and has no payment on  *)
(* record is still to be recorded by a sweep: Owed.  Whatever expiry may     *)
(* still be written leaves room under the bound for the invoices owed; the   *)
(* row a payment will write, for all but its own.                            *)
PaidSet == {i \in Invoices : invoice[i].status = "paid"}
Bound == Later(FirstExpiry, day) + Period * Cardinality(PaidSet) + granted
Followable(i) == \/ follow[i].status # "none"
                 \/ \E r \in Requests : req[r].pc = "track" /\ req[r].invoice = i
Owed == {i \in PaidSet : Followable(i) /\ Unrecorded(i)}
Fits(e) == e + Period * Cardinality(Owed) <= Bound
FitsBut(e, i) == e + Period * Cardinality(Owed \ {i}) <= Bound

LEMMA Counts ==
  ASSUME NEW N, NEW O, IsFiniteSet(N), O \subseteq N, NEW i
  PROVE  /\ Cardinality(N) \in Nat /\ Cardinality(O) \in Nat /\ Cardinality(O \ {i}) \in Nat
         /\ IsFiniteSet(O) /\ IsFiniteSet(O \ {i})
         /\ Cardinality(O) <= Cardinality(N) /\ Cardinality(O \ {i}) <= Cardinality(O)
         /\ i \in O => Cardinality(O) = Cardinality(O \ {i}) + 1
         /\ i \notin O => O \ {i} = O
         /\ i \in N => Cardinality(O \ {i}) + 1 <= Cardinality(N)
<1>1. IsFiniteSet(O) /\ Cardinality(O) <= Cardinality(N)
  BY FS_Subset
<1>2. IsFiniteSet(O \ {i}) /\ Cardinality(O \ {i}) <= Cardinality(O)
  BY <1>1, FS_Subset
<1>3. Cardinality(N) \in Nat /\ Cardinality(O) \in Nat /\ Cardinality(O \ {i}) \in Nat
  BY <1>1, <1>2, FS_CardinalityType
<1>4. i \in O => Cardinality(O) = Cardinality(O \ {i}) + 1
  <2>1. i \in O => Cardinality(O \ {i}) = Cardinality(O) - 1
    BY <1>1, FS_RemoveElement
  <2> QED BY <1>3, <2>1
<1>5. ASSUME i \in N PROVE Cardinality(O \ {i}) + 1 <= Cardinality(N)
  <2>1. O \ {i} \subseteq N \ {i} /\ IsFiniteSet(N \ {i}) /\ Cardinality(N \ {i}) = Cardinality(N) - 1
    BY <1>5, FS_RemoveElement
  <2>2. Cardinality(O \ {i}) <= Cardinality(N \ {i})
    BY <2>1, FS_Subset
  <2> QED BY <1>3, <2>1, <2>2
<1>6. i \notin O => O \ {i} = O
  OBVIOUS
<1> QED BY <1>1, <1>2, <1>3, <1>4, <1>5, <1>6

BoundTyped == /\ IsFiniteSet(PaidSet) /\ day \in Nat /\ granted \in Nat

(* What fits for all fits for all but one, and the other way when that one is *)
(* not owed; the day itself always fits.                                      *)
LEMMA Fitting ==
  ASSUME BoundTyped, NEW e \in Int, NEW i
  PROVE  /\ Fits(e) => FitsBut(e, i)
         /\ i \notin Owed => (FitsBut(e, i) <=> Fits(e))
         /\ i \in Owed => (Fits(e) => FitsBut(e + Period, i))
         /\ Fits(day)
         /\ i \in PaidSet => FitsBut(day + Period, i)
<1>1. PICK n, k, b : n = Cardinality(PaidSet) /\ k = Cardinality(Owed) /\ b = Cardinality(Owed \ {i})
  OBVIOUS
<1>2. Owed \subseteq PaidSet
  BY DEF Owed
<1>3. /\ n \in Nat /\ k \in Nat /\ b \in Nat /\ k <= n /\ b <= k
      /\ i \in Owed => k = b + 1
      /\ i \notin Owed => b = k
      /\ i \in PaidSet => b + 1 <= n
  BY <1>1, <1>2, Counts DEF BoundTyped
<1>4. Period \in Nat /\ FirstExpiry \in Nat /\ day \in Nat /\ granted \in Nat
  BY BillingAssumption DEF BoundTyped
<1>5. /\ Period * b <= Period * k /\ Period * k <= Period * n /\ Period * (b + 1) = Period * b + Period
      /\ Period * b \in Nat /\ Period * k \in Nat /\ Period * n \in Nat
      /\ i \in PaidSet => Period * (b + 1) <= Period * n
  BY <1>3, <1>4, TimesMore, TimesNext
<1>6. PICK l : l = Later(FirstExpiry, day) /\ l \in Nat /\ l >= day
  BY <1>4, LaterIsNat
<1>7. Bound = l + Period * n + granted
  BY <1>1, <1>6 DEF Bound
<1>8. PICK pb, pk, pn : pb = Period * b /\ pk = Period * k /\ pn = Period * n
  OBVIOUS
<1>9. /\ pb \in Nat /\ pk \in Nat /\ pn \in Nat /\ pb <= pk /\ pk <= pn
      /\ i \in Owed => pk = pb + Period
      /\ i \notin Owed => pb = pk
      /\ i \in PaidSet => pb + Period <= pn
  BY <1>3, <1>5, <1>8
<1>10. /\ Fits(e) <=> e + pk <= l + pn + granted
       /\ FitsBut(e, i) <=> e + pb <= l + pn + granted
       /\ FitsBut(e + Period, i) <=> e + Period + pb <= l + pn + granted
       /\ Fits(day) <=> day + pk <= l + pn + granted
       /\ FitsBut(day + Period, i) <=> day + Period + pb <= l + pn + granted
  BY <1>1, <1>7, <1>8 DEF Fits, FitsBut
<1> QED BY <1>4, <1>6, <1>9, <1>10

(* The base of a renewal fits where the row it was read from does.           *)
LEMMA BaseFits ==
  ASSUME BoundTyped, NEW row \in ClientRow, NEW i
  PROVE  /\ Base(row) \in Nat
         /\ Fits(row.expires) => Fits(Base(row))
         /\ i \in PaidSet /\ FitsBut(row.expires + Period, i) => FitsBut(Base(row) + Period, i)
<1>1. row.expires \in Nat /\ day \in Nat
  BY DEF ClientRow, BoundTyped
<1>2. Base(row) \in Nat /\ (Base(row) = row.expires \/ Base(row) = day)
  BY <1>1, LaterIsNat DEF Base
<1>3. Fits(day) /\ (i \in PaidSet => FitsBut(day + Period, i))
  BY <1>1, Fitting
<1> QED BY <1>2, <1>3

-----------------------------------------------------------------------------
(* A step that pays at most one invoice, and makes no other one owed         *)
Forward(X) ==
  /\ X = {} \/ \E i \in Invoices \ PaidSet : X = {i}
  /\ PaidSet' = PaidSet \cup X /\ Owed' \subseteq Owed \cup X
  /\ day' \in Nat /\ day' >= day /\ granted' \in Nat /\ granted' >= granted

LEMMA ForwardCounts ==
  ASSUME BoundTyped, NEW X, Forward(X)
  PROVE  /\ BoundTyped'
         /\ \E x \in {0, 1} :
              /\ Cardinality(PaidSet') = Cardinality(PaidSet) + x
              /\ Cardinality(Owed') <= Cardinality(Owed) + x
              /\ \A i : Cardinality(Owed' \ {i}) <= Cardinality(Owed \ {i}) + x
              /\ X = {} => x = 0
              /\ \A i : X = {i} => x = 1 /\ Cardinality(Owed' \ {i}) <= Cardinality(Owed)
<1>1. Owed \subseteq PaidSet /\ Owed' \subseteq PaidSet' /\ IsFiniteSet(PaidSet)
  BY DEF Owed, BoundTyped
<1>2. CASE X = {}
  <2>1. PaidSet' = PaidSet /\ Owed' \subseteq Owed /\ BoundTyped'
    BY <1>2 DEF Forward, BoundTyped
  <2>2. /\ IsFiniteSet(Owed) /\ Cardinality(Owed') <= Cardinality(Owed) + 0
        /\ Cardinality(PaidSet') = Cardinality(PaidSet) + 0
    <3>1. IsFiniteSet(Owed) /\ Cardinality(Owed) \in Nat /\ Cardinality(PaidSet) \in Nat
      BY <1>1, Counts
    <3>2. Cardinality(Owed') <= Cardinality(Owed) /\ Cardinality(Owed') \in Nat
      BY <2>1, <3>1, FS_Subset, FS_CardinalityType
    <3> QED BY <2>1, <3>1, <3>2
  <2>3. ASSUME NEW i PROVE Cardinality(Owed' \ {i}) <= Cardinality(Owed \ {i}) + 0
    <3>1. IsFiniteSet(Owed \ {i}) /\ Owed' \ {i} \subseteq Owed \ {i}
      BY <1>1, <2>1, Counts
    <3>2. /\ Cardinality(Owed' \ {i}) <= Cardinality(Owed \ {i}) /\ Cardinality(Owed' \ {i}) \in Nat
          /\ Cardinality(Owed \ {i}) \in Nat
      BY <3>1, FS_Subset, FS_CardinalityType
    <3> QED BY <3>2
  <2>4. \A i : X # {i}
    BY <1>2
  <2> QED BY <1>2, <2>1, <2>2, <2>3, <2>4
<1>3. CASE \E i \in Invoices \ PaidSet : X = {i}
  <2>1. PICK i \in Invoices \ PaidSet : X = {i}
    BY <1>3
  <2>2. /\ IsFiniteSet(PaidSet') /\ Cardinality(PaidSet') = Cardinality(PaidSet) + 1
        /\ PaidSet' = PaidSet \cup {i} /\ Owed' \subseteq Owed \cup {i}
    BY <1>1, <2>1, FS_AddElement DEF Forward
  <2>3. i \notin Owed /\ IsFiniteSet(Owed) /\ Cardinality(Owed) \in Nat
    BY <1>1, <2>1, Counts
  <2>4. Cardinality(Owed') <= Cardinality(Owed) + 1
    <3>1. IsFiniteSet(Owed \cup {i}) /\ Cardinality(Owed \cup {i}) = Cardinality(Owed) + 1
      BY <2>3, FS_AddElement
    <3> QED BY <2>2, <3>1, FS_Subset
  <2>5. ASSUME NEW j PROVE Cardinality(Owed' \ {j}) <= Cardinality(Owed \ {j}) + 1
    <3>1. IsFiniteSet(Owed \ {j}) /\ Cardinality(Owed \ {j}) \in Nat /\ i \notin Owed \ {j}
      BY <1>1, <2>3, Counts
    <3>2. /\ IsFiniteSet((Owed \ {j}) \cup {i})
          /\ Cardinality((Owed \ {j}) \cup {i}) = Cardinality(Owed \ {j}) + 1
      BY <3>1, FS_AddElement
    <3>3. Owed' \ {j} \subseteq (Owed \ {j}) \cup {i}
      BY <2>2
    <3> QED BY <3>2, <3>3, FS_Subset
  <2>6. Cardinality(Owed' \ {i}) <= Cardinality(Owed)
    <3>1. Owed' \ {i} \subseteq Owed
      BY <2>2
    <3> QED BY <2>3, <3>1, FS_Subset
  <2>7. X # {} /\ (\A j : X = {j} => j = i)
    BY <2>1
  <2>8. BoundTyped'
    BY <2>2 DEF BoundTyped, Forward
  <2> QED BY <2>2, <2>4, <2>5, <2>6, <2>7, <2>8
<1> QED BY <1>2, <1>3 DEF Forward

LEMMA ForwardFits ==
  ASSUME BoundTyped, NEW X, Forward(X), NEW e \in Int, NEW i
  PROVE  /\ Fits(e) => Fits(e)'
         /\ FitsBut(e, i) => FitsBut(e, i)'
         /\ X = {i} /\ Fits(e) => FitsBut(e + Period, i)'
         /\ Fits(e) /\ granted' = granted + Extension => Fits(e + Extension)'
<1>1. PICK x \in {0, 1} :
              /\ Cardinality(PaidSet') = Cardinality(PaidSet) + x
              /\ Cardinality(Owed') <= Cardinality(Owed) + x
              /\ Cardinality(Owed' \ {i}) <= Cardinality(Owed \ {i}) + x
              /\ X = {i} => x = 1 /\ Cardinality(Owed' \ {i}) <= Cardinality(Owed)
  BY ForwardCounts
<1>2. PICK n, k, b, n2, k2, b2 :
        /\ n = Cardinality(PaidSet) /\ k = Cardinality(Owed) /\ b = Cardinality(Owed \ {i})
        /\ n2 = Cardinality(PaidSet') /\ k2 = Cardinality(Owed') /\ b2 = Cardinality(Owed' \ {i})
  OBVIOUS
<1>3. {n, k, b, n2, k2, b2} \subseteq Nat
  <2>1. Owed \subseteq PaidSet /\ Owed' \subseteq PaidSet'
    BY DEF Owed
  <2>2. IsFiniteSet(PaidSet) /\ IsFiniteSet(PaidSet')
    BY ForwardCounts DEF BoundTyped
  <2>3. n \in Nat /\ k \in Nat /\ b \in Nat
    BY <1>2, <2>1, <2>2, Counts
  <2>4. n2 \in Nat /\ k2 \in Nat /\ b2 \in Nat
    BY <1>2, <2>1, <2>2, Counts
  <2> QED BY <2>3, <2>4
<1>4. /\ n2 = n + x /\ k2 <= k + x /\ b2 <= b + x
      /\ X = {i} => x = 1 /\ b2 <= k
  BY <1>1, <1>2
<1>5. /\ {Period, Extension, FirstExpiry, day, granted, day', granted'} \subseteq Nat
      /\ day' >= day /\ granted' >= granted
  BY BillingAssumption DEF BoundTyped, Forward
<1>6. PICK l, l2 : /\ l = Later(FirstExpiry, day) /\ l2 = Later(FirstExpiry, day')
                   /\ l \in Nat /\ l2 \in Nat /\ l2 >= l
  <2>1. /\ Later(FirstExpiry, day) \in Nat /\ Later(FirstExpiry, day') \in Nat
        /\ Later(FirstExpiry, day') >= Later(FirstExpiry, day)
    BY <1>5 DEF Later
  <2> QED BY <2>1
<1>7. PICK p \in {0, Period} : p = Period * x /\ (x = 1 => p = Period)
  BY <1>5
<1>8. PICK pn, pk, pb, pn2, pk2, pb2 :
        /\ pn = Period * n /\ pk = Period * k /\ pb = Period * b
        /\ pn2 = Period * n2 /\ pk2 = Period * k2 /\ pb2 = Period * b2
  OBVIOUS
<1>9. Period * (n + x) = pn + p /\ Period * (k + x) = pk + p /\ Period * (b + x) = pb + p
  BY <1>3, <1>5, <1>7, <1>8, TimesNext
<1>10. /\ {pn, pk, pb, pn2, pk2, pb2} \subseteq Nat
       /\ pn2 = pn + p /\ pk2 <= pk + p /\ pb2 <= pb + p
       /\ X = {i} => p = Period /\ pb2 <= pk
  <2>1. /\ Period * k2 <= Period * (k + x) /\ Period * b2 <= Period * (b + x)
        /\ {Period * n, Period * n2, Period * k, Period * k2, Period * b, Period * b2} \subseteq Nat
        /\ b2 <= k => Period * b2 <= Period * k
    <3>1. k + x \in Nat /\ b + x \in Nat
      BY <1>3
    <3> QED BY <1>3, <1>4, <1>5, <3>1, TimesMore
  <2> QED BY <1>4, <1>7, <1>8, <1>9, <2>1
<1>11. /\ Fits(e) <=> e + pk <= l + pn + granted
       /\ FitsBut(e, i) <=> e + pb <= l + pn + granted
  BY <1>2, <1>6, <1>8 DEF Fits, FitsBut, Bound
<1>12. /\ Fits(e)' <=> e + pk2 <= l2 + pn2 + granted'
       /\ Fits(e + Extension)' <=> e + Extension + pk2 <= l2 + pn2 + granted'
       /\ FitsBut(e, i)' <=> e + pb2 <= l2 + pn2 + granted'
       /\ FitsBut(e + Period, i)' <=> e + Period + pb2 <= l2 + pn2 + granted'
  BY <1>2, <1>6, <1>8 DEF Fits, FitsBut, Bound, Later
<1> QED BY <1>5, <1>6, <1>7, <1>10, <1>11, <1>12

(* What is recorded is owed no longer.                                       *)
LEMMA RecordedFits ==
  ASSUME BoundTyped, Forward({}), NEW e \in Int, NEW i, i \notin Owed', FitsBut(e, i)
  PROVE  Fits(e)'
<1>1. FitsBut(e, i)'
  BY ForwardFits
<1>2. BoundTyped'
  BY ForwardCounts
<1>3. Owed' \ {i} = Owed'
  OBVIOUS
<1> QED BY <1>1, <1>3 DEF Fits, FitsBut

RowFits(q) ==
  /\ q.pc \in {"generate", "list", "pay", "verify"} \/ (q.pc = "write" /\ q.kind = "extend") =>
       Fits(q.row.expires)
  /\ (q.pc = "write" /\ q.kind # "extend") \/ q.pc = "renew" =>
       q.invoice \in PaidSet /\ FitsBut(q.row.expires + Period, q.invoice)
  /\ q.kind = "record" /\ q.pc \in {"pay", "write"} =>
       ~Followable(q.invoice) /\ invoice[q.invoice].status # "none"
  /\ q.pc = "renew" => ~Unrecorded(q.invoice)
InvoiceFits(i) ==
  /\ invoice[i].status = "open" => Fits(invoice[i].end - Period)
  /\ invoice[i].status = "paid" => FitsBut(invoice[i].end, i)
SweepFits ==
  /\ sweep.pc # "idle" => Fits(sweep.row.expires)
  /\ \A i \in DOMAIN sweep.rows : follow[i].status # "none"
BoundInv ==
  /\ IsFiniteSet(PaidSet)
  /\ Fits(client.expires) /\ SweepFits
  /\ \A r \in Requests : RowFits(req[r])
  /\ \A i \in Invoices : InvoiceFits(i)

FreeTimeInv == StandingInv /\ BoundInv

LEMMA FreeTimeTyped ==
  ASSUME FreeTimeInv
  PROVE  /\ BoundTyped /\ Typed /\ SettledInv /\ NoticeInv /\ RequestsTyped /\ Shaped /\ Standing
         /\ GrantInv
BY BillingAssumption DEF FreeTimeInv, StandingInv, Standing, BoundInv, BoundTyped, Typed, GrantInv,
   RequestsTyped, SettledInv

-----------------------------------------------------------------------------
(* Where a request stands tells which step it takes.                         *)
LEMMA ActsAt ==
  ASSUME NEW r \in Requests, Request(r) \/ ExtendUsage(r)
  PROVE  /\ req[r].pc = "pay" => PayInvoice(r)
         /\ req[r].pc = "write" =>
              WritePayment(r) \/ RecordExtension(r) \/ RecordReceipt(r) \/ ExtendUsage(r)
         /\ req[r].pc = "generate" => GenerateRenewal(r) \/ GenerateRecorded(r)
         /\ req[r].pc = "idle" =>
              \/ SuspendOrResume(r) \/ EnforceSubscriptionPayments(r) \/ ReadRenewal(r)
              \/ CheckDelete(r) \/ ReadClient(r) \/ ReadInvoice(r) \/ GenerateInvoice(r)
              \/ BindCallback(r)
BY DEF Request, SuspendApp, MarkSuspended, MarkActive, ResumeApp, SuspendOrResume,
       EnforceSubscriptionPayments, GenerateInvoice, TrackProformaFollowup, ReadRenewal,
       ListInvoices, GenerateRenewal, CheckDelete, DeleteInvoice, CancelFollowup, ReadClient,
       GenerateRecorded, PayInvoice, WritePayment, RecordExtension, RecordPayment, ReadInvoice,
       InsertAttempt, Prompt, SavePush, BindCallback, ClaimAttempt, LoadClient, VerifyInvoice,
       RecordReceipt, RenewSubscription, CompleteAttempt, SettleFollowup, ReviewAttempt,
       ExtendUsage, At, Starts

LEMMA BeginsKind ==
  ASSUME Shaped, NEW r \in Requests, NEW kind, NEW pc, NEW i, Begins(r, kind, pc, i)
  PROVE  req'[r].kind = kind /\ req'[r].pc = pc /\ req'[r].invoice = i
<1>1. PICK q : q = At5(pc, kind, i, NoAttempt, client)
  OBVIOUS
<1>2. Only(r, q) /\ q.kind = kind /\ q.pc = pc /\ q.invoice = i
  BY <1>1, BeginsOnly DEF At5
<1> QED BY <1>2 DEF Only

(* Only a generated invoice is tracked, right after.                         *)
LEMMA TracksNew ==
  ASSUME Shaped, RequestsTyped, NEW r \in Requests, Request(r) \/ ExtendUsage(r),
         req'[r].pc = "track"
  PROVE  invoice[req'[r].invoice].status = "none"
<1>1. PICK q : Turned(r, q)
  BY RequestTurns
<1>2. req'[r] = q
  BY <1>1 DEF Turned, Only
<1>3. \/ Begun(q) /\ req[r].pc = "idle" /\ q.kind = "generate"
      \/ Made(req[r], q) /\ q.kind = "renew"
  BY <1>1, <1>2 DEF Turned, Finished, Begun, Beginning, Gone, Following, Made, Loaded, Bounded
<1>4. CASE Begun(q) /\ req[r].pc = "idle" /\ q.kind = "generate"
  <2>1. GenerateInvoice(r)
    <3>1. ASSUME NEW kind, NEW pc, NEW i, Begins(r, kind, pc, i) PROVE kind = "generate"
      BY <1>2, <1>4, <3>1, BeginsKind
    <3>2. ASSUME \/ SuspendOrResume(r) \/ EnforceSubscriptionPayments(r) \/ ReadRenewal(r)
                 \/ CheckDelete(r) \/ ReadClient(r) \/ ReadInvoice(r)
          PROVE  \E kind, pc, i : Begins(r, kind, pc, i) /\ kind # "generate"
      <4>1. ReadClient(r) => \E kind, pc, i : Begins(r, kind, pc, i) /\ kind # "generate"
        BY DEF ReadClient
      <4>2. CheckDelete(r) \/ ReadInvoice(r)
              => \E kind, pc, i : Begins(r, kind, pc, i) /\ kind # "generate"
        BY DEF CheckDelete, ReadInvoice
      <4>3. SuspendOrResume(r) \/ EnforceSubscriptionPayments(r) \/ ReadRenewal(r)
              => \E kind, pc, i : Begins(r, kind, pc, i) /\ kind # "generate"
        BY DEF SuspendOrResume, EnforceSubscriptionPayments, ReadRenewal
      <4> QED BY <3>2, <4>1, <4>2, <4>3
    <3>3. ASSUME BindCallback(r) PROVE FALSE
      <4>1. PICK a : req' = [req EXCEPT ![r] = [Idle EXCEPT !.pc = "claim", !.kind = "callback",
                                          !.attempt = a, !.invoice = attempt[a].invoice]]
        BY <3>3 DEF BindCallback
      <4>2. PICK i, p : i = attempt[a].invoice /\ p = At5("claim", "callback", i, a, NoRow)
        OBVIOUS
      <4>3. Only(r, p) /\ p.pc = "claim"
        BY <4>1, <4>2, BindsOnly DEF At5
      <4> QED BY <4>3 DEF Only
    <3> QED BY <1>4, <3>1, <3>2, <3>3, ActsAt
  <2>2. PICK i \in Invoices : invoice[i].status = "none" /\ Begins(r, "generate", "track", i)
    BY <2>1 DEF GenerateInvoice
  <2>3. req'[r].invoice = i
    BY <2>2, BeginsKind
  <2> QED BY <2>2, <2>3
<1>5. CASE Made(req[r], q) /\ q.kind = "renew"
  <2>1. GenerateRenewal(r)
    BY <1>5, ActsAt DEF Made, GenerateRecorded
  <2>2. ~Done(r)
    <3>1. ASSUME Done(r) PROVE FALSE
      <4>1. PICK p : p = At5("idle", "none", NoInvoice, NoAttempt, NoRow)
        OBVIOUS
      <4>2. Only(r, p) /\ p.pc = "idle"
        BY <3>1, <4>1, DoneOnly DEF At5
      <4> QED BY <4>2 DEF Only
    <3> QED BY <3>1
  <2>3. PICK i \in Invoices : invoice[i].status = "none"
                              /\ req' = [req EXCEPT ![r].pc = "track", ![r].invoice = i]
    BY <2>1, <2>2 DEF GenerateRenewal
  <2>4. req'[r].invoice = i
    <3>1. PICK p : p = At5("track", req[r].kind, i, req[r].attempt, req[r].row)
      OBVIOUS
    <3>2. Only(r, p) /\ p.invoice = i
      BY <2>3, <3>1, MakesOnly DEF At5
    <3> QED BY <3>2 DEF Only
  <2> QED BY <2>3, <2>4
<1> QED BY <1>3, <1>4, <1>5

(* A follow-up can only be opened for an invoice just generated.             *)
LEMMA FollowableGrows ==
  ASSUME FreeTimeInv, Next, NEW j \in Invoices, Followable(j)'
  PROVE  Followable(j) \/ invoice[j].status = "none"
<1>1. Typed /\ SettledInv /\ RequestsTyped /\ Shaped
  BY FreeTimeTyped
<1>2. CASE follow'[j].status # "none"
  BY <1>1, <1>2, FollowsTyped DEF Unopened, Followable
<1>3. CASE \E u \in Requests : req'[u].pc = "track" /\ req'[u].invoice = j
  <2>1. PICK u \in Requests : req'[u].pc = "track" /\ req'[u].invoice = j
    BY <1>3
  <2>2. CASE \E r \in Requests : Request(r) \/ ExtendUsage(r)
    <3>1. PICK r \in Requests : Request(r) \/ ExtendUsage(r)
      BY <2>2
    <3>2. PICK q : Turned(r, q)
      BY <1>1, <3>1, RequestTurns
    <3>3. u # r => req'[u] = req[u]
      BY <3>2 DEF Turned, Only
    <3> QED BY <1>1, <2>1, <3>1, <3>3, TracksNew DEF Followable
  <2>3. CASE Fault
    <3>1. req'[u] = req[u]
      <4>1. ASSUME NEW r \in Requests, NEW q, Only(r, q), q.pc # "track" PROVE req'[u] = req[u]
        BY <2>1, <4>1 DEF Only
      <4>2. CASE \E r \in Requests : Fail(r)
        <5>1. PICK r \in Requests : Fail(r)
          BY <4>2
        <5>2. CASE Done(r)
          <6>1. PICK q : q = At5("idle", "none", NoInvoice, NoAttempt, NoRow)
            OBVIOUS
          <6> QED BY <1>1, <4>1, <5>2, <6>1, DoneOnly DEF At5
        <5>3. CASE \E pc \in {"review", "unknown"} : Goes(r, pc)
          <6>1. PICK pc \in {"review", "unknown"} : Goes(r, pc)
            BY <5>3
          <6>2. PICK q : q = At5(pc, req[r].kind, req[r].invoice, req[r].attempt, req[r].row)
            OBVIOUS
          <6>3. Only(r, q) /\ q.pc # "track"
            BY <1>1, <6>1, <6>2, GoesOnly DEF At5
          <6> QED BY <4>1, <6>3
        <5> QED BY <5>1, <5>2, <5>3 DEF Fail
      <4>3. CASE SweepFails
        BY <4>3 DEF SweepFails
      <4>4. CASE Restart
        BY <2>1, <4>4 DEF Restart, Idle
      <4> QED BY <2>3, <4>2, <4>3, <4>4 DEF Fault, Unanswered
    <3> QED BY <2>1, <3>1 DEF Followable
  <2>4. CASE UNCHANGED req
    BY <2>1, <2>4 DEF Followable
  <2> QED BY <2>2, <2>3, <2>4 DEF Next, OwnerPays
<1> QED BY <1>2, <1>3 DEF Followable

-----------------------------------------------------------------------------
(* What a step makes of the invoices                                         *)
NewEnd(e) ==
  \E start \in Nat : /\ e = start + Period
                     /\ \/ start = day
                        \/ \E r \in Requests : req[r].pc = "generate" /\ start = req[r].row.expires
InvoiceGoes(i) ==
  \/ invoice[i].status = "open" /\ invoice'[i].status \in {"paid", "deleted"}
     /\ invoice'[i].end = invoice[i].end
  \/ invoice[i].status = "none" /\ invoice'[i].status = "open" /\ NewEnd(invoice'[i].end)
InvoicesGo ==
  UNCHANGED invoice \/ \E i \in Invoices : /\ InvoiceGoes(i)
                                           /\ \A j \in Invoices \ {i} : invoice'[j] = invoice[j]

LEMMA StepInvoices ==
  ASSUME Typed, Next
  PROVE  InvoicesGo
<1>1. invoice \in InvoiceRows
  BY DEF Typed
<1>2. ASSUME NEW i \in Invoices, NEW s \in {"paid", "deleted"}, OpenInvoice(i), InvoiceSet(i, s)
      PROVE  InvoicesGo
  BY <1>1, <1>2 DEF InvoiceSet, InvoiceRows, OpenInvoice, InvoicesGo, InvoiceGoes
<1>3. ASSUME NEW i \in Invoices, NEW key, NEW start \in Nat, invoice[i].status = "none",
             Generated(i, key, start),
             start = day \/ \E r \in Requests : req[r].pc = "generate" /\ start = req[r].row.expires
      PROVE  InvoicesGo
  <2> DEFINE v == [status |-> "open", key |-> key, created |-> day, end |-> start + Period]
  <2>1. invoice' = [invoice EXCEPT ![i] = v] /\ v.status = "open" /\ v.end = start + Period
    BY <1>3 DEF Generated
  <2> HIDE DEF v
  <2>2. invoice'[i] = v /\ \A j \in Invoices \ {i} : invoice'[j] = invoice[j]
    BY <1>1, <2>1 DEF InvoiceRows
  <2>3. NewEnd(v.end)
    BY <1>3, <2>1 DEF NewEnd
  <2> QED BY <1>3, <2>1, <2>2, <2>3 DEF InvoicesGo, InvoiceGoes
<1>4. CASE \E r \in Requests : Request(r) \/ ExtendUsage(r)
  <2>1. PICK r \in Requests : InvoiceStep(r)
    BY <1>4, RequestsWriteInvoices
  <2> QED BY <1>2, <1>3, <2>1 DEF InvoiceStep, InvoicesGo
<1>5. CASE \E i \in Invoices : OwnerPays(i)
  BY <1>2, <1>5 DEF OwnerPays, InvoiceSet
<1>6. CASE ~(\E r \in Requests : Request(r) \/ ExtendUsage(r)) /\ ~(\E i \in Invoices : OwnerPays(i))
  <2>1. UNCHANGED invoice
    BY <1>6 DEF Next, SweepStart, Fault, Fail, Unanswered, SweepFails, Restart, tables, SweepStep,
       LookUpInvoice, SkipRow, ClaimRow, RecheckInvoice, Reconcile, SweepMarksActive,
       SweepMarksSuspended, UnclaimPaid, CancelRow, CatchRow, ConfirmClaim, SendWarning, SweepSuspendsApp,
       FinishSuspension, SweepResumesApp
  <2> QED BY <2>1 DEF InvoicesGo
<1> QED BY <1>4, <1>5, <1>6

(* Every step goes forward.                                                  *)
LEMMA StepsForward ==
  ASSUME FreeTimeInv, Next
  PROVE  \E X : /\ Forward(X)
                /\ X = {i \in Invoices : invoice[i].status # "paid" /\ invoice'[i].status = "paid"}
<1>1. /\ BoundTyped /\ Typed /\ SettledInv /\ NoticeInv /\ Standing /\ GrantInv /\ RequestsTyped
  BY FreeTimeTyped
<1>2. PICK X : X = {i \in Invoices : invoice[i].status # "paid" /\ invoice'[i].status = "paid"}
  OBVIOUS
<1>3. X = {} \/ \E i \in Invoices \ PaidSet : X = {i}
  <2>1. InvoicesGo
    BY <1>1, StepInvoices
  <2>2. CASE UNCHANGED invoice
    BY <1>2, <2>2
  <2>3. ASSUME NEW i \in Invoices, \A j \in Invoices \ {i} : invoice'[j] = invoice[j]
        PROVE  X = {} \/ (X = {i} /\ i \notin PaidSet)
    BY <1>2, <2>3 DEF PaidSet
  <2> QED BY <2>1, <2>2, <2>3 DEF InvoicesGo
<1>4. PaidSet' = PaidSet \cup X
  <2>1. \A i \in Invoices : Stays(i)
    BY <1>1, StepsKeepInvoices
  <2> QED BY <1>2, <2>1 DEF Stays, PaidSet
<1>5. Owed' \subseteq Owed \cup X
  <2> SUFFICES ASSUME NEW j \in Owed', j \notin X PROVE j \in Owed
    OBVIOUS
  <2>1. j \in Invoices /\ j \in PaidSet /\ Followable(j)' /\ Unrecorded(j)'
    BY <1>4 DEF Owed, PaidSet
  <2>2. Followable(j)
    BY <2>1, FollowableGrows DEF PaidSet
  <2>3. Unrecorded(j)
    BY <1>1, <2>1, PaymentsTyped DEF Unrecorded
  <2> QED BY <2>1, <2>2, <2>3 DEF Owed
<1>6. day' \in Nat /\ day' >= day
  BY <1>1 DEF BoundTyped, Next, Tick
<1>7. granted' \in Nat /\ granted' >= granted
  <2>1. granted' \in Nat
    BY <1>1, GrantsKept DEF GrantInv
  <2>2. granted' = granted \/ granted' = granted + Extension
    BY DEF Next, ExtendUsage
  <2> QED BY <1>1, <2>1, <2>2, BillingAssumption DEF GrantInv
<1> QED BY <1>2, <1>3, <1>4, <1>5, <1>6, <1>7 DEF Forward

-----------------------------------------------------------------------------
(* The steps that write the expiry, each from a row it read before           *)
LEMMA ExpiryWritten ==
  ASSUME Typed, Next
  PROVE  \/ client'.expires = client.expires
         \/ \E r \in Requests : \/ WritePayment(r) \/ RecordExtension(r)
                                \/ RenewSubscription(r) \/ ExtendUsage(r)
         \/ Reconcile /\ Unrecorded(sweep.i)
<1>1. client \in ClientRow
  BY DEF Typed
<1>2. ASSUME NEW s, client' = [client EXCEPT !.status = s] PROVE client'.expires = client.expires
  BY <1>1, <1>2 DEF ClientRow
<1>3. ASSUME NEW r \in Requests, Request(r),
             ~(WritePayment(r) \/ RecordExtension(r) \/ RenewSubscription(r))
      PROVE  client'.expires = client.expires
  <2>1. CASE MarkSuspended(r) \/ MarkActive(r)
    BY <1>2, <2>1 DEF MarkSuspended, MarkActive
  <2>2. CASE ~(MarkSuspended(r) \/ MarkActive(r))
    <3>1. UNCHANGED client
      BY <1>3, <2>2 DEF tables, Request, SuspendApp, ResumeApp, SuspendOrResume,
         EnforceSubscriptionPayments, GenerateInvoice, TrackProformaFollowup, ReadRenewal,
         ListInvoices, GenerateRenewal, CheckDelete, DeleteInvoice, CancelFollowup, ReadClient,
         GenerateRecorded, PayInvoice, RecordPayment, ReadInvoice, InsertAttempt, Prompt, SavePush,
         BindCallback, ClaimAttempt, LoadClient, VerifyInvoice, RecordReceipt, CompleteAttempt,
         SettleFollowup, ReviewAttempt
    <3> QED BY <3>1
  <2> QED BY <2>1, <2>2
<1>4. ASSUME SweepStep, ~(Reconcile /\ Unrecorded(sweep.i)) PROVE client'.expires = client.expires
  <2>1. CASE SweepMarksSuspended \/ SweepMarksActive
    BY <1>2, <2>1 DEF SweepMarksSuspended, SweepMarksActive
  <2>2. CASE ~(SweepMarksSuspended \/ SweepMarksActive)
    <3>1. UNCHANGED client
      BY <1>4, <2>2 DEF tables, SweepStep, LookUpInvoice, SkipRow, ClaimRow, RecheckInvoice,
         UnclaimPaid, CancelRow, CatchRow, ConfirmClaim, SendWarning, SweepSuspendsApp, FinishSuspension,
         SweepResumesApp, Reconcile
    <3> QED BY <3>1
  <2> QED BY <2>1, <2>2
<1>5. CASE ~SweepStep /\ ~\E r \in Requests : Request(r) \/ ExtendUsage(r)
  BY <1>5 DEF Next, OwnerPays, SweepStart, Fault, Fail, Unanswered, SweepFails, Restart, tables
<1> QED BY <1>3, <1>4, <1>5

LEMMA PaymentRecords ==
  ASSUME NEW i, NEW by, Paid(i, by)
  PROVE  i \notin Owed' /\ ~Unrecorded(i)'
<1>1. PICK p : p = [invoice |-> i, by |-> by]
  OBVIOUS
<1>2. p \in payments' /\ p.invoice = i
  BY <1>1 DEF Paid
<1>3. ~Unrecorded(i)'
  BY <1>2 DEF Unrecorded
<1> QED BY <1>3 DEF Owed

LEMMA StaysFit ==
  ASSUME BoundTyped, NEW X, Forward(X), NEW e \in Int, Fits(e)
  PROVE  Fits(e)'
<1>1. \A i : Fits(e) => Fits(e)'
  BY ForwardFits
<1> QED BY <1>1

LEMMA ClientFits ==
  ASSUME FreeTimeInv, Next
  PROVE  Fits(client.expires)'
<1>1. /\ BoundTyped /\ Typed /\ SettledInv /\ NoticeInv /\ Standing /\ GrantInv /\ RequestsTyped
      /\ BoundInv
  BY FreeTimeTyped DEF FreeTimeInv
<1>2. PICK X : /\ Forward(X)
               /\ X = {i \in Invoices : invoice[i].status # "paid" /\ invoice'[i].status = "paid"}
  BY StepsForward
<1>3. PICK c : c = client'.expires /\ c \in Nat
  BY <1>1, ClientTyped DEF ClientRow
<1>4. Period \in Nat /\ Extension \in Nat
  BY BillingAssumption
<1>5. SUFFICES Fits(c)'
  BY <1>3 DEF Fits
<1>6. ASSUME UNCHANGED invoice PROVE X = {}
  BY <1>2, <1>6
<1>7. CASE c = client.expires
  BY <1>1, <1>2, <1>7, <1>3, ForwardFits DEF BoundInv
<1>8. ASSUME NEW r \in Requests,
             WritePayment(r) \/ RecordExtension(r) \/ RenewSubscription(r) \/ ExtendUsage(r)
      PROVE  Fits(c)'
  <2>1. PICK q, i : q = req[r] /\ i = q.invoice /\ RequestTyped(q) /\ RowFits(q)
    BY <1>1 DEF RequestsTyped, BoundInv
  <2>2. q.row \in ClientRow /\ Base(q.row) \in Nat /\ q.row.expires \in Nat
    BY <1>1, <2>1, BaseFits DEF RequestTyped, ClientRow
  <2>3. PICK b : b = Base(q.row) /\ b \in Nat
    BY <2>2
  <2>4. (q.pc = "write" /\ q.kind # "extend") \/ q.pc = "renew" =>
          i \in PaidSet /\ i \in Invoices /\ FitsBut(b + Period, i)
    <3>1. ASSUME (q.pc = "write" /\ q.kind # "extend") \/ q.pc = "renew"
          PROVE  i \in PaidSet /\ FitsBut(q.row.expires + Period, i)
      BY <2>1, <3>1 DEF RowFits
    <3> QED BY <1>1, <2>2, <2>3, <3>1, BaseFits DEF PaidSet
  <2>5. CASE WritePayment(r)
    <3>1. q.pc = "write" /\ q.kind = "pay" /\ UNCHANGED invoice /\ Paid(i, "manual")
          /\ PaidTo(RenewedTo(q.row, i))
      BY <2>1, <2>5 DEF WritePayment, At
    <3>2. c = RenewedTo(q.row, i)
      BY <1>1, <1>3, <3>1 DEF PaidTo, Typed, ClientRow
    <3>3. FitsBut(c, i)
      <4>1. FitsBut(invoice[i].end, i)
        BY <1>1, <2>4, <3>1 DEF BoundInv, InvoiceFits, PaidSet
      <4> QED BY <2>3, <2>4, <3>1, <3>2, <4>1 DEF RenewedTo
    <3>4. i \notin Owed'
      BY <3>1, PaymentRecords
    <3> QED BY <1>1, <1>2, <1>3, <1>6, <3>1, <3>3, <3>4, RecordedFits
  <2>6. CASE RecordExtension(r) \/ RenewSubscription(r)
    <3>1. /\ (q.pc = "write" /\ q.kind = "record") \/ q.pc = "renew"
          /\ PaidTo(b + Period)
      BY <2>1, <2>3, <2>6 DEF RecordExtension, RenewSubscription, At
    <3>2. c = b + Period
      BY <1>1, <1>3, <3>1 DEF PaidTo, Typed, ClientRow
    <3>3. i \notin Owed
      BY <2>1, <3>1 DEF RowFits, Owed
    <3>4. FitsBut(c, i)
      BY <2>4, <3>1, <3>2
    <3>5. Fits(c)
      BY <1>1, <1>3, <3>3, <3>4, Fitting
    <3> QED BY <1>1, <1>2, <1>3, <3>5, ForwardFits
  <2>7. CASE ExtendUsage(r)
    <3>1. q.pc = "write" /\ q.kind = "extend" /\ PaidTo(b + Extension)
          /\ granted' = granted + Extension
      BY <2>1, <2>3, <2>7 DEF ExtendUsage, At
    <3>2. c = b + Extension
      BY <1>1, <1>3, <3>1 DEF PaidTo, Typed, ClientRow
    <3>3. Fits(b)
      BY <1>1, <2>1, <2>2, <2>3, <3>1, BaseFits DEF RowFits
    <3> QED BY <1>1, <1>2, <2>3, <3>1, <3>2, <3>3, ForwardFits
  <2> QED BY <1>8, <2>5, <2>6, <2>7
<1>9. CASE Reconcile /\ Unrecorded(sweep.i)
  <2>1. PICK i, row : i = sweep.i /\ row = sweep.row /\ row \in ClientRow
    BY <1>1 DEF Typed
  <2>2. /\ i \in DOMAIN sweep.rows /\ i \in Invoices /\ invoice[i].status = "paid"
        /\ sweep.pc # "idle"
    BY <1>1, <1>9, <2>1 DEF Reconcile, SweepAt, SettledInv, SweepTold, NoticeInv, SweepTrue
  <2>3. i \in Owed
    BY <1>1, <1>9, <2>1, <2>2 DEF BoundInv, SweepFits, Owed, PaidSet, Followable
  <2>4. PICK b : b = Base(row) /\ b \in Nat /\ Fits(b)
    BY <1>1, <2>1, <2>2, BaseFits DEF BoundInv, SweepFits
  <2>5. FitsBut(b + Period, i)
    BY <1>1, <2>3, <2>4, Fitting
  <2>6. PaidTo(RenewedTo(row, i)) /\ Paid(i, "reconciled") /\ UNCHANGED invoice
    BY <1>9, <2>1 DEF Reconcile
  <2>7. c = RenewedTo(row, i)
    BY <1>1, <1>3, <2>6 DEF PaidTo, Typed, ClientRow
  <2>8. FitsBut(c, i)
    <3>1. FitsBut(invoice[i].end, i)
      BY <1>1, <2>2 DEF BoundInv, InvoiceFits
    <3> QED BY <2>4, <2>5, <2>7, <3>1 DEF RenewedTo
  <2>9. i \notin Owed'
    BY <2>6, PaymentRecords
  <2> QED BY <1>1, <1>2, <1>3, <1>6, <2>6, <2>8, <2>9, RecordedFits
<1> QED BY <1>1, <1>3, <1>7, <1>8, <1>9, ExpiryWritten

(* The ends of open invoices leave room for their own payment.               *)
LEMMA InvoicesFit ==
  ASSUME FreeTimeInv, Next, NEW j \in Invoices
  PROVE  InvoiceFits(j)'
<1>1. BoundTyped /\ Typed /\ BoundInv /\ RequestsTyped
  BY FreeTimeTyped DEF FreeTimeInv
<1>2. PICK X : /\ Forward(X)
               /\ X = {i \in Invoices : invoice[i].status # "paid" /\ invoice'[i].status = "paid"}
  BY StepsForward
<1>3. PICK e : e = invoice[j].end /\ e \in Nat
  BY <1>1 DEF Typed, InvoiceRows
<1>4. Period \in Nat /\ e - Period \in Int /\ (e - Period) + Period = e /\ InvoiceFits(j)
  BY <1>1, <1>3, BillingAssumption DEF BoundInv
<1>5. InvoicesGo
  BY <1>1, StepInvoices
<1>6. CASE invoice'[j] = invoice[j]
  <2>1. /\ invoice'[j].status = "open" => Fits(e - Period)
        /\ invoice'[j].status = "paid" => FitsBut(e, j)
    BY <1>3, <1>4, <1>6 DEF InvoiceFits
  <2>2. /\ Fits(e - Period) => Fits(e - Period)'
        /\ FitsBut(e, j) => FitsBut(e, j)'
    BY <1>1, <1>2, <1>3, <1>4, ForwardFits
  <2>3. e = invoice'[j].end
    BY <1>3, <1>6
  <2> QED BY <2>1, <2>2, <2>3 DEF InvoiceFits, Fits, FitsBut
<1>7. CASE /\ \A i \in Invoices \ {j} : invoice'[i] = invoice[i]
           /\ invoice[j].status = "open" /\ invoice'[j].status \in {"paid", "deleted"}
           /\ invoice'[j].end = invoice[j].end
  <2>1. invoice'[j].status = "paid" => X = {j}
    BY <1>2, <1>7
  <2>2. Fits(e - Period)
    BY <1>3, <1>4, <1>7 DEF InvoiceFits
  <2>3. X = {j} => FitsBut(e, j)'
    <3>1. X = {j} => FitsBut((e - Period) + Period, j)'
      BY <1>1, <1>2, <1>4, <2>2, ForwardFits
    <3> QED BY <1>4, <3>1
  <2> QED BY <1>3, <1>7, <2>1, <2>3 DEF InvoiceFits, FitsBut
<1>8. CASE invoice'[j].status = "open" /\ NewEnd(invoice'[j].end)
  <2>1. PICK start \in Nat : /\ invoice'[j].end = start + Period
                             /\ start = day \/ \E r \in Requests : req[r].pc = "generate"
                                                                /\ start = req[r].row.expires
    BY <1>8 DEF NewEnd
  <2>2. Fits(start)
    <3>1. Fits(day)
      BY <1>1, Fitting
    <3>2. ASSUME NEW r \in Requests, req[r].pc = "generate" PROVE Fits(req[r].row.expires)
      BY <1>1, <3>2 DEF BoundInv, RowFits
    <3> QED BY <2>1, <3>1, <3>2
  <2>3. Fits(start)'
    BY <1>1, <1>2, <2>2, ForwardFits
  <2>4. invoice'[j].end - Period = start
    BY <1>4, <2>1
  <2> QED BY <1>8, <2>3, <2>4 DEF InvoiceFits, Fits
<1> QED BY <1>5, <1>6, <1>7, <1>8 DEF InvoicesGo, InvoiceGoes

(* A sweep keeps the client's row and the rows it read to its end.           *)
LEMMA SweepRowsGo ==
  ASSUME NoticeInv, Next
  PROVE  \/ UNCHANGED sweep
         \/ sweep'.pc = "idle" /\ DOMAIN sweep'.rows = {}
         \/ /\ sweep.pc # "idle" /\ sweep'.row = sweep.row
            /\ DOMAIN sweep'.rows \subseteq DOMAIN sweep.rows
         \/ \E stale, skipped \in SUBSET Invoices : SweepStart(stale, skipped)
<1>1. sweep = [pc |-> sweep.pc, now |-> sweep.now, row |-> sweep.row, rows |-> sweep.rows,
               i |-> sweep.i]
  BY DEF NoticeInv, SweepTrue
<1>2. NoSweep.pc = "idle" /\ DOMAIN NoSweep.rows = {}
  BY DEF NoSweep
<1>3. ASSUME SweepDone
      PROVE  \/ sweep' = NoSweep
             \/ sweep'.row = sweep.row /\ DOMAIN sweep'.rows \subseteq DOMAIN sweep.rows
  BY <1>1, <1>3 DEF SweepDone
<1>4. ASSUME NEW pc, SweepGoes(pc)
      PROVE  sweep'.row = sweep.row /\ DOMAIN sweep'.rows \subseteq DOMAIN sweep.rows
  BY <1>1, <1>4 DEF SweepGoes
<1>5. CASE SweepStep
  <2>1. sweep.pc # "idle"
    BY <1>5 DEF SweepStep, LookUpInvoice, SkipRow, ClaimRow, RecheckInvoice, UnclaimPaid, CancelRow, CatchRow,
       ConfirmClaim, SendWarning, SweepSuspendsApp, SweepMarksSuspended, FinishSuspension,
       Reconcile, SweepMarksActive, SweepResumesApp, SweepAt
  <2>2. CASE LookUpInvoice
    <3>1. PICK to, i : sweep' = [sweep EXCEPT !.pc = to, !.i = i]
      BY <2>2 DEF LookUpInvoice
    <3>2. sweep'.row = sweep.row /\ sweep'.rows = sweep.rows
      BY <1>1, <3>1
    <3> QED BY <2>1, <3>2
  <2>3. CASE ~LookUpInvoice
    <3>1. SweepDone \/ \E pc : SweepGoes(pc)
      BY <1>5, <2>3 DEF SweepStep, SkipRow, ClaimRow, RecheckInvoice, UnclaimPaid, CancelRow, CatchRow,
         ConfirmClaim, SendWarning, SweepSuspendsApp, SweepMarksSuspended, FinishSuspension,
         Reconcile, SweepMarksActive, SweepResumesApp
    <3> QED BY <1>2, <1>3, <1>4, <2>1, <3>1
  <2> QED BY <2>2, <2>3
<1>6. CASE Fault
  BY <1>2, <1>3, <1>4, <1>6 DEF Fault, Fail, Unanswered, SweepFails, Restart
<1> QED BY <1>5, <1>6 DEF Next

LEMMA SweepStaysFit ==
  ASSUME FreeTimeInv, Next
  PROVE  SweepFits'
<1>1. BoundTyped /\ Typed /\ BoundInv /\ SettledInv /\ NoticeInv
  BY FreeTimeTyped DEF FreeTimeInv
<1>2. PICK X : Forward(X)
  BY StepsForward
<1>3. \A i \in Invoices : follow[i].status # "none" => follow'[i].status # "none"
  BY <1>1, FollowsTyped DEF Unopened
<1>4. DOMAIN sweep.rows \subseteq Invoices
  BY <1>1 DEF NoticeInv, SweepTrue
<1>5. PICK e, c : /\ e = sweep.row.expires /\ c = client.expires /\ e \in Nat /\ c \in Nat
  BY <1>1 DEF Typed, ClientRow
<1>6. ASSUME sweep.pc # "idle" PROVE Fits(e)'
  <2>1. Fits(e)
    BY <1>1, <1>5, <1>6 DEF BoundInv, SweepFits
  <2> QED BY <1>1, <1>2, <1>5, <2>1, StaysFit
<1>7. CASE UNCHANGED sweep
  <2>1. sweep.pc # "idle" => Fits(sweep.row.expires)'
    BY <1>5, <1>6, <1>7 DEF Fits
  <2> QED BY <1>1, <1>3, <1>4, <1>7, <2>1 DEF BoundInv, SweepFits
<1>8. CASE sweep'.pc = "idle" /\ DOMAIN sweep'.rows = {}
  BY <1>8 DEF SweepFits
<1>9. CASE /\ sweep.pc # "idle" /\ sweep'.row = sweep.row
           /\ DOMAIN sweep'.rows \subseteq DOMAIN sweep.rows
  <2>1. Fits(sweep.row.expires)'
    BY <1>5, <1>6, <1>9 DEF Fits
  <2> QED BY <1>1, <1>3, <1>4, <1>9, <2>1 DEF BoundInv, SweepFits
<1>10. CASE \E stale, skipped \in SUBSET Invoices : SweepStart(stale, skipped)
  <2>1. PICK stale, skipped \in SUBSET Invoices : SweepStart(stale, skipped)
    BY <1>10
  <2>2. PICK f : f = [i \in Invoices |->
                       [follow[i] EXCEPT !.status = IF i \in stale THEN Recover(@) ELSE @]]
    OBVIOUS
  <2>3. PICK rows : rows = {i \in Invoices : f[i].status \in {"warning_pending", "warned"}
                                             /\ (DueOn(f[i]) \/ i \notin skipped)}
    OBVIOUS
  <2>4. follow' = f /\ sweep' = [NoSweep EXCEPT !.pc = "next", !.now = day, !.row = client,
                                                !.rows = [i \in rows |-> f[i]]]
    BY <2>1, <2>2, <2>3 DEF SweepStart
  <2>5. sweep'.row = client /\ DOMAIN sweep'.rows = rows
    BY <2>4 DEF NoSweep
  <2>6. \A i \in rows : follow'[i].status # "none"
    BY <2>3, <2>4
  <2>7. Fits(c)'
    BY <1>1, <1>2, <1>5, StaysFit DEF BoundInv
  <2> QED BY <1>5, <2>5, <2>6, <2>7 DEF SweepFits, Fits
<1> QED BY <1>1, <1>7, <1>8, <1>9, <1>10, SweepRowsGo

-----------------------------------------------------------------------------
(* The rows requests hold fit after any step, their own or another's.        *)
LEMMA HeldRowFits ==
  ASSUME FreeTimeInv, Next, NEW q, RequestTyped(q), RowFits(q)
  PROVE  RowFits(q)'
<1>1. BoundTyped /\ Typed /\ SettledInv /\ NoticeInv
  BY FreeTimeTyped
<1>2. PICK X : Forward(X)
  BY StepsForward
<1>3. PICK e, i : e = q.row.expires /\ i = q.invoice /\ e \in Nat
  BY DEF RequestTyped, ClientRow
<1>4. Period \in Nat /\ e + Period \in Int
  BY <1>3, BillingAssumption
<1>5. /\ Fits(e) => Fits(e)'
      /\ FitsBut(e + Period, i) => FitsBut(e + Period, i)'
  <2>1. FitsBut(e + Period, i) => FitsBut(e + Period, i)'
    BY <1>1, <1>2, <1>4, ForwardFits
  <2> QED BY <1>1, <1>2, <1>3, <2>1, StaysFit
<1>6. i \in PaidSet => i \in PaidSet'
  BY <1>2 DEF Forward
<1>7. ASSUME i \in Invoices, ~Followable(i), invoice[i].status # "none"
      PROVE  ~Followable(i)' /\ invoice'[i].status # "none"
  BY <1>1, <1>7, FollowableGrows, StepsKeepInvoices DEF Stays
<1>8. q.kind = "record" /\ q.pc \in {"pay", "write"} => i \in Invoices
  BY <1>3 DEF RequestTyped, Freestanding
<1>9. ~Unrecorded(i) => ~Unrecorded(i)'
  BY <1>1, PaymentsTyped DEF Unrecorded
<1> QED BY <1>3, <1>5, <1>6, <1>7, <1>8, <1>9 DEF RowFits

(* A payment that goes through makes room for the period it buys.            *)
LEMMA PayingFits ==
  ASSUME FreeTimeInv, Next, NEW r \in Requests, PayInvoice(r), NEW q, Only(r, q),
         q.pc = "write", q.kind = req[r].kind, q.invoice = req[r].invoice, q.row = req[r].row
  PROVE  RowFits(q)'
<1>1. BoundTyped /\ Typed /\ RequestsTyped /\ Shaped /\ BoundInv
  BY FreeTimeTyped DEF FreeTimeInv
<1>2. PICK X : /\ Forward(X)
               /\ X = {i \in Invoices : invoice[i].status # "paid" /\ invoice'[i].status = "paid"}
  BY StepsForward
<1>3. PICK p, i, e : /\ p = req[r] /\ i = p.invoice /\ e = p.row.expires /\ p.pc = "pay"
                     /\ RequestTyped(p) /\ RowFits(p) /\ e \in Nat
  BY <1>1 DEF RequestsTyped, BoundInv, PayInvoice, At, RequestTyped, ClientRow
<1>4. i \in Invoices /\ p.kind # "extend"
  BY <1>3 DEF RequestTyped, Freestanding, Course
<1>5. OpenInvoice(i) /\ InvoiceSet(i, "paid")
  <2>1. ASSUME NEW w, Only(r, w) PROVE w.pc = "write"
    BY <2>1 DEF Only
  <2>2. ASSUME Refused(r) PROVE FALSE
    <3>1. CASE Done(r)
      <4>1. PICK w : w = At5("idle", "none", NoInvoice, NoAttempt, NoRow)
        OBVIOUS
      <4>2. Only(r, w) /\ w.pc = "idle"
        BY <1>1, <3>1, <4>1, DoneOnly DEF At5
      <4> QED BY <2>1, <4>2
    <3>2. CASE Goes(r, "review")
      <4>1. PICK w : w = At5("review", req[r].kind, req[r].invoice, req[r].attempt, req[r].row)
        OBVIOUS
      <4>2. Only(r, w) /\ w.pc = "review"
        BY <1>1, <3>2, <4>1, GoesOnly DEF At5
      <4> QED BY <2>1, <4>2
    <3> QED BY <2>2, <3>1, <3>2 DEF Refused
  <2> QED BY <1>3, <2>2 DEF PayInvoice, Payable, InvoiceSet
<1>6. /\ invoice'[i].status = "paid" /\ invoice[i].status = "open"
      /\ \A j \in Invoices \ {i} : invoice'[j] = invoice[j]
  BY <1>1, <1>4, <1>5 DEF InvoiceSet, OpenInvoice, Typed, InvoiceRows
<1>7. X = {i}
  BY <1>2, <1>4, <1>6
<1>8. Fits(e)
  BY <1>3 DEF RowFits
<1>9. FitsBut(e + Period, i)'
  BY <1>1, <1>2, <1>3, <1>7, <1>8, ForwardFits
<1>10. i \in PaidSet'
  BY <1>4, <1>6 DEF PaidSet
<1>11. ASSUME p.kind = "record" PROVE ~Followable(i)' /\ invoice'[i].status # "none"
  BY <1>3, <1>4, <1>6, <1>11, FollowableGrows DEF RowFits
<1>12. q.kind = p.kind /\ q.invoice = i /\ q.row.expires = e
  BY <1>3
<1> QED BY <1>4, <1>9, <1>10, <1>11, <1>12 DEF RowFits

(* The invoice of a recorded payment is nobody's to follow up.               *)
LEMMA RecordedRowFits ==
  ASSUME FreeTimeInv, Next, NEW r \in Requests, GenerateRecorded(r), NEW q, Only(r, q),
         q.pc = "pay", q.kind = "record", q.row = req[r].row
  PROVE  RowFits(q)'
<1>1. BoundTyped /\ Typed /\ RequestsTyped /\ Shaped /\ BoundInv /\ SettledInv
  BY FreeTimeTyped DEF FreeTimeInv
<1>2. PICK X : Forward(X)
  BY StepsForward
<1>3. PICK i \in Invoices : /\ invoice[i].status = "none" /\ Generated(i, NoDay, day)
                            /\ req' = [req EXCEPT ![r].pc = "pay", ![r].invoice = i]
  BY DEF GenerateRecorded
<1>4. q.invoice = i
  <2>1. PICK p : p = At5("pay", req[r].kind, i, req[r].attempt, req[r].row)
    OBVIOUS
  <2>2. Only(r, p) /\ p.invoice = i
    BY <1>1, <1>3, <2>1, MakesOnly DEF At5
  <2> QED BY <2>2 DEF Only
<1>5. PICK e : e = q.row.expires /\ e \in Nat /\ Fits(e)
  BY <1>1 DEF RequestsTyped, RequestTyped, ClientRow, BoundInv, RowFits, GenerateRecorded, At
<1>6. Fits(e)'
  BY <1>1, <1>2, <1>5, StaysFit
<1>7. ~Followable(i)
  <2>1. follow[i].status = "none"
    BY <1>1, <1>3 DEF SettledInv, FollowsTrue, FollowTrue
  <2>2. \A u \in Requests : ~(req[u].pc = "track" /\ req[u].invoice = i)
    BY <1>1, <1>3 DEF SettledInv, RequestsTold, Told
  <2> QED BY <2>1, <2>2 DEF Followable
<1>8. ~Followable(i)'
  <2>1. UNCHANGED follow
    BY DEF GenerateRecorded
  <2>2. \A u \in Requests : ~(req'[u].pc = "track" /\ req'[u].invoice = i)
    BY <1>7 DEF Only, Followable
  <2> QED BY <1>7, <2>1, <2>2 DEF Followable
<1>9. invoice'[i].status = "open"
  <2>1. PICK v : v = [status |-> "open", key |-> NoDay, created |-> day, end |-> day + Period]
    OBVIOUS
  <2>2. invoice' = [invoice EXCEPT ![i] = v] /\ v.status = "open"
    BY <1>3, <2>1 DEF Generated
  <2> QED BY <1>1, <1>3, <2>2 DEF Typed, InvoiceRows
<1> QED BY <1>4, <1>5, <1>6, <1>8, <1>9 DEF RowFits

LEMMA SteppingFits ==
  ASSUME FreeTimeInv, Next, NEW r \in Requests, Request(r) \/ ExtendUsage(r)
  PROVE  \A u \in Requests : RowFits(req[u])'
<1>1. BoundTyped /\ Typed /\ RequestsTyped /\ Shaped /\ BoundInv /\ Standing /\ SettledInv
  BY FreeTimeTyped DEF FreeTimeInv
<1>2. PICK q : Turned(r, q)
  BY <1>1, RequestTurns
<1>3. Only(r, q) /\ req'[r] = q
  BY <1>2 DEF Turned, Only
<1>4. RequestTyped(q)
  <2>1. RequestsTyped'
    BY <1>1, AimsKept
  <2> QED BY <1>3, <2>1 DEF RequestsTyped
<1>5. PICK p : p = req[r] /\ RequestTyped(p) /\ RowFits(p)
  BY <1>1 DEF RequestsTyped, BoundInv
<1>6. RowFits(q)'
  <2>1. CASE Finished(q) \/ Bounded(q)
    BY <1>1, <1>4, <2>1, HeldRowFits DEF Finished, Bounded, RowFits
  <2>2. CASE Begun(q)
    <3>1. q.pc # "renew" /\ (q.pc = "write" => q.kind = "extend")
          /\ (q.kind = "record" => q.pc = "generate")
      BY <2>2 DEF Begun, Beginning
    <3>2. Fits(q.row.expires)
      BY <1>1, <2>2 DEF Begun, BoundInv
    <3>3. RowFits(q)
      BY <3>1, <3>2 DEF RowFits
    <3> QED BY <1>4, <3>3, HeldRowFits
  <2>3. CASE Loaded(p, q)
    <3>1. q.pc = "verify" /\ Fits(q.row.expires)
      BY <1>1, <2>3 DEF Loaded, BoundInv
    <3> QED BY <1>4, <3>1, HeldRowFits DEF RowFits
  <2>4. CASE Made(p, q)
    <3>1. CASE q.pc = "track"
      <4>1. RowFits(q)
        BY <3>1 DEF RowFits
      <4> QED BY <1>4, <4>1, HeldRowFits
    <3>2. CASE q.pc = "pay" /\ q.kind = "record"
      <4>1. p.pc = "generate" /\ p.kind = "record" /\ q.row = req[r].row
        BY <1>5, <2>4, <3>2 DEF Made
      <4>2. GenerateRecorded(r)
        BY <1>5, <4>1, ActsAt DEF GenerateRenewal
      <4> QED BY <1>3, <3>2, <4>1, <4>2, RecordedRowFits
    <3> QED BY <2>4, <3>1, <3>2 DEF Made
  <2>5. CASE Gone(p, q)
    <3>1. q.kind = p.kind /\ q.invoice = p.invoice /\ q.row = p.row
      BY <2>5 DEF Gone
    <3>2. CASE p.pc = "pay" /\ q.pc = "write"
      <4>1. PayInvoice(r)
        BY <1>5, <3>2, ActsAt
      <4> QED BY <1>3, <1>5, <3>1, <3>2, <4>1, PayingFits
    <3>3. CASE p.pc = "write" /\ q.pc = "renew"
      <4>1. q.kind = "callback"
        BY <1>4, <3>3 DEF RequestTyped, Course
      <4>2. RecordReceipt(r)
        <5>1. p.kind = "callback" /\ req[r].kind = "callback" /\ req[r].pc = "write"
          BY <1>5, <3>1, <3>3, <4>1
        <5> QED BY <5>1, ActsAt DEF WritePayment, RecordExtension, ExtendUsage
      <4>3. Paid(q.invoice, req[r].attempt)
        BY <1>5, <3>1, <4>2 DEF RecordReceipt
      <4>4. PICK i, a, e : i = q.invoice /\ a = req[r].attempt /\ e = q.row.expires
        OBVIOUS
      <4>5. ~Unrecorded(i)'
        BY <4>3, <4>4, PaymentRecords
      <4>6. i \in PaidSet /\ FitsBut(e + Period, i) /\ e \in Nat
        BY <1>4, <1>5, <3>1, <3>3, <4>1, <4>4 DEF RowFits, RequestTyped, ClientRow
      <4>7. PICK X : Forward(X)
        BY StepsForward
      <4>8. i \in PaidSet' /\ FitsBut(e + Period, i)'
        <5>1. e + Period \in Int
          BY <4>6, BillingAssumption
        <5> QED BY <1>1, <4>6, <4>7, <5>1, ForwardFits DEF Forward
      <4> QED BY <3>3, <4>4, <4>5, <4>8 DEF RowFits
    <3>4. CASE ~(p.pc = "pay" /\ q.pc = "write") /\ ~(p.pc = "write" /\ q.pc = "renew")
      <4>1. /\ q.pc \notin {"write", "renew", "list"}
            /\ q.pc = "pay" => p.pc = "verify"
            /\ q.pc = "generate" => p.pc = "list"
            /\ q.pc # "verify"
        BY <2>5, <3>4 DEF Gone, Following
      <4>2. q.pc \in {"pay", "generate"} => Fits(q.row.expires)
        BY <1>5, <3>1, <4>1 DEF RowFits
      <4>3. ~(q.kind = "record" /\ q.pc = "pay")
        BY <1>5, <3>1, <4>1 DEF RequestTyped, Course
      <4>4. RowFits(q)
        BY <4>1, <4>2, <4>3 DEF RowFits
      <4> QED BY <1>4, <4>4, HeldRowFits
    <3> QED BY <3>2, <3>3, <3>4
  <2> QED BY <1>2, <1>5, <2>1, <2>2, <2>3, <2>4, <2>5 DEF Turned
<1>7. ASSUME NEW u \in Requests PROVE RowFits(req[u])'
  <2>1. CASE u = r
    BY <1>3, <1>6, <2>1 DEF RowFits
  <2>2. CASE u # r
    <3>1. PICK w : w = req[u] /\ RequestTyped(w) /\ RowFits(w)
      BY <1>1 DEF RequestsTyped, BoundInv
    <3>2. RowFits(w)'
      BY <3>1, HeldRowFits
    <3>3. req'[u] = w
      BY <1>3, <2>2, <3>1 DEF Only
    <3> QED BY <3>2, <3>3 DEF RowFits
  <2> QED BY <2>1, <2>2
<1> QED BY <1>7

LEMMA RequestsFit ==
  ASSUME FreeTimeInv, Next
  PROVE  \A u \in Requests : RowFits(req[u])'
<1>1. RequestsTyped /\ Shaped /\ BoundInv
  BY FreeTimeTyped DEF FreeTimeInv
<1>2. ASSUME NEW u \in Requests, req'[u] = req[u] PROVE RowFits(req[u])'
  <2>1. PICK w : w = req[u] /\ RequestTyped(w) /\ RowFits(w)
    BY <1>1 DEF RequestsTyped, BoundInv
  <2>2. RowFits(w)'
    BY <2>1, HeldRowFits
  <2> QED BY <1>2, <2>1, <2>2 DEF RowFits
<1>3. ASSUME NEW u \in Requests, req'[u].pc \in {"idle", "review", "unknown"}
      PROVE  RowFits(req[u])'
  BY <1>3 DEF RowFits
<1>4. CASE \E r \in Requests : Request(r) \/ ExtendUsage(r)
  BY <1>4, SteppingFits
<1>5. CASE Fault
  <2>1. ASSUME NEW u \in Requests
        PROVE  req'[u] = req[u] \/ req'[u].pc \in {"idle", "review", "unknown"}
    <3>1. CASE \E r \in Requests : Fail(r)
      <4>1. PICK r \in Requests : Fail(r)
        BY <3>1
      <4>2. ASSUME NEW q, Only(r, q), q.pc \in {"idle", "review", "unknown"}
            PROVE  req'[u] = req[u] \/ req'[u].pc \in {"idle", "review", "unknown"}
        BY <4>2 DEF Only
      <4>3. CASE Done(r)
        <5>1. PICK q : q = At5("idle", "none", NoInvoice, NoAttempt, NoRow)
          OBVIOUS
        <5>2. Only(r, q) /\ q.pc = "idle"
          BY <1>1, <4>3, <5>1, DoneOnly DEF At5
        <5> QED BY <4>2, <5>2
      <4>4. CASE \E pc \in {"review", "unknown"} : Goes(r, pc)
        <5>1. PICK pc \in {"review", "unknown"} : Goes(r, pc)
          BY <4>4
        <5>2. PICK q : q = At5(pc, req[r].kind, req[r].invoice, req[r].attempt, req[r].row)
          OBVIOUS
        <5>3. Only(r, q) /\ q.pc = pc
          BY <1>1, <5>1, <5>2, GoesOnly DEF At5
        <5> QED BY <4>2, <5>1, <5>3
      <4> QED BY <4>1, <4>3, <4>4 DEF Fail
    <3>2. CASE SweepFails
      BY <3>2 DEF SweepFails
    <3>3. CASE Restart
      BY <3>3 DEF Restart, Idle
    <3> QED BY <1>5, <3>1, <3>2, <3>3 DEF Fault, Unanswered
  <2> QED BY <1>2, <1>3, <2>1
<1>6. CASE UNCHANGED req
  BY <1>2, <1>6
<1> QED BY <1>4, <1>5, <1>6 DEF Next, OwnerPays

LEMMA FreeTimeKept ==
  ASSUME FreeTimeInv, [Next]_vars
  PROVE  FreeTimeInv'
<1>1. StandingInv'
  BY StandingKept DEF FreeTimeInv
<1>2. CASE Next
  <2>1. IsFiniteSet(PaidSet')
    <3>1. PICK X : Forward(X)
      BY <1>2, StepsForward
    <3> QED BY <3>1, FreeTimeTyped, ForwardCounts DEF BoundTyped
  <2>2. Fits(client.expires)' /\ SweepFits'
    BY <1>2, ClientFits, SweepStaysFit
  <2>3. \A r \in Requests : RowFits(req[r])'
    BY <1>2, RequestsFit
  <2>4. \A i \in Invoices : InvoiceFits(i)'
    BY <1>2, InvoicesFit
  <2>5. BoundInv'
    BY <2>1, <2>2, <2>3, <2>4 DEF BoundInv
  <2> QED BY <1>1, <2>5 DEF FreeTimeInv
<1>3. CASE UNCHANGED vars
  <2>1. UNCHANGED <<day, client, invoice, payments, follow, req, sweep, granted>>
    BY <1>3 DEF vars, tables
  <2>2. Owed' = Owed /\ PaidSet' = PaidSet /\ Bound' = Bound
    BY <2>1 DEF Owed, PaidSet, Followable, Unrecorded, Bound, Later
  <2>3. (\A e : Fits(e)' = Fits(e)) /\ (\A e, i : FitsBut(e, i)' = FitsBut(e, i))
    BY <2>2 DEF Fits, FitsBut
  <2>4. SweepFits'
    BY <2>1, <2>3 DEF SweepFits, FreeTimeInv, BoundInv, Fits
  <2>5. \A r \in Requests : RowFits(req[r])'
    BY <2>1, <2>2 DEF RowFits, FreeTimeInv, BoundInv, Fits, FitsBut, Followable, Unrecorded
  <2>6. \A i \in Invoices : InvoiceFits(i)'
    BY <2>1, <2>2 DEF InvoiceFits, FreeTimeInv, BoundInv, Fits, FitsBut
  <2>7. Fits(client.expires)'
    BY <2>1, <2>2 DEF FreeTimeInv, BoundInv, Fits
  <2> QED BY <1>1, <2>2, <2>4, <2>5, <2>6, <2>7 DEF FreeTimeInv, BoundInv
<1> QED BY <1>2, <1>3

LEMMA FreeTimeStarts ==
  ASSUME Init
  PROVE  FreeTimeInv
<1>1. StandingInv
  BY StandingStarts
<1>2. PaidSet = {} /\ Owed = {}
  BY DEF Init, PaidSet, Owed
<1>3. IsFiniteSet(PaidSet) /\ Cardinality(PaidSet) = 0 /\ Cardinality(Owed) = 0
  BY <1>2, FS_EmptySet
<1>4. Fits(client.expires)
  <2>1. Later(FirstExpiry, 0) \in Nat /\ Later(FirstExpiry, 0) >= FirstExpiry /\ Period * 0 = 0
    BY LaterIsNat, BillingAssumption
  <2>2. client.expires = FirstExpiry /\ day = 0 /\ granted = 0
    BY DEF Init
  <2> QED BY <1>3, <2>1, <2>2, BillingAssumption DEF Fits, Bound
<1>5. SweepFits /\ (\A i \in Invoices : InvoiceFits(i)) /\ \A r \in Requests : RowFits(req[r])
  BY DEF Init, SweepFits, NoSweep, InvoiceFits, RowFits, Idle
<1> QED BY <1>1, <1>3, <1>4, <1>5 DEF FreeTimeInv, BoundInv

(* No interleaving of callbacks, endpoints, the owner's own marking, sweeps, *)
(* errors and restarts gives the client a day that nobody paid for or        *)
(* granted: what the order of paying, recording and settling in              *)
(* reconcilePaidProforma, the pay and the callback handlers is for.          *)
THEOREM NoTimeIsFree == Spec => []NoFreeTime
<1>1. FreeTimeInv => NoFreeTime
  <2> SUFFICES ASSUME FreeTimeInv PROVE NoFreeTime
    OBVIOUS
  <2>1. PICK k, b : k = Cardinality(Owed) /\ b = Bound
    OBVIOUS
  <2>2. BoundTyped /\ Typed
    BY FreeTimeTyped
  <2>3. k \in Nat /\ Cardinality(PaidSet) \in Nat
    BY <2>1, <2>2, Counts DEF Owed, BoundTyped
  <2>4. Period * k \in Nat /\ Period * Cardinality(PaidSet) \in Nat
    BY <2>3, TimesNext, BillingAssumption
  <2>5. b \in Nat
    BY <2>1, <2>2, <2>4, LaterIsNat, BillingAssumption DEF Bound, BoundTyped
  <2>6. client.expires \in Nat /\ client.expires + Period * k <= b
    BY <2>1, <2>2 DEF FreeTimeInv, BoundInv, Fits, Typed, ClientRow
  <2>7. client.expires <= b
    BY <2>4, <2>5, <2>6
  <2> QED BY <2>1, <2>7 DEF NoFreeTime, Bound, PaidSet
<1> QED BY <1>1, FreeTimeStarts, FreeTimeKept, PTL DEF Spec
=============================================================================
