---------------------------- MODULE CreditsProofs ----------------------------
(***************************************************************************)
(* The safety invariants of CheckoutCredits that hold, for any coupons,    *)
(* cards, limits, values and number of checkouts (the others are refuted). *)
(* No set is assumed finite: only finitely many orders were placed so far. *)
(***************************************************************************)
EXTENDS CheckoutCredits, SumFacts

-----------------------------------------------------------------------------
(* What a checkout holds at each of its steps: its order shows the credits   *)
(* it was granted, and nothing is redeemed before the last step.             *)
Unplaced == {"coupon", "card", "place"}
Placed(r) == /\ order[r].placed
             /\ order[r].coupon = req[r].coupon /\ order[r].discount = req[r].discount
             /\ order[r].card = req[r].card /\ order[r].gift = req[r].gift
InStep(r) ==
  /\ req[r].pc \in Unplaced => ~order[r].placed
  /\ req[r].pc \in {"count", "redeem"} => Placed(r)
  /\ req[r].pc # "done" => redeemed[r] = 0
  /\ redeemed[r] # 0 => order[r].placed /\ redeemed[r] = order[r].gift
Uncounted(c) == {r \in Requests : req[r].pc = "count" /\ req[r].coupon = c}
CouponTrue(c) ==
  /\ IsFiniteSet(CouponOrders(c))
  /\ MaxUses[c] > 0 => coupon[c].used <= MaxUses[c]
  /\ coupon[c].used + Cardinality(Uncounted(c)) <= Cardinality(CouponOrders(c))
CardTrue(k) ==
  /\ IsFiniteSet(OrdersWith(k))
  /\ card[k].balance + SumFunctionOnSet(redeemed, OrdersWith(k)) = CardValue[k]
CreditsInv == /\ TypeOK
              /\ \A r \in Requests : InStep(r)
              /\ \A c \in Coupons : CouponTrue(c)
              /\ \A k \in Cards : CardTrue(k)

LEMMA CreditsStart ==
  ASSUME Init
  PROVE  CreditsInv
<1>1. TypeOK
  BY CreditAssumption DEF Init, TypeOK, Coupon, Card, Order, Request, Pc
<1>2. \A r \in Requests : InStep(r)
  BY DEF Init, InStep, Unplaced
<1>3. ASSUME NEW c \in Coupons PROVE CouponTrue(c)
  <2>1. CouponOrders(c) = {} /\ Uncounted(c) = {} /\ coupon[c].used = 0
    BY DEF Init, CouponOrders, Uncounted
  <2>2. IsFiniteSet({}) /\ Cardinality({}) = 0
    BY FS_EmptySet
  <2> QED BY <2>1, <2>2, CreditAssumption DEF CouponTrue
<1>4. ASSUME NEW k \in Cards PROVE CardTrue(k)
  <2>1. OrdersWith(k) = {} /\ card[k].balance = CardValue[k]
    BY DEF Init, OrdersWith
  <2>2. IsFiniteSet({}) /\ SumFunctionOnSet(redeemed, {}) = 0
    BY FS_EmptySet, SumEmpty
  <2> QED BY <2>1, <2>2, CreditAssumption DEF CardTrue
<1> QED BY <1>1, <1>2, <1>3, <1>4 DEF CreditsInv

-----------------------------------------------------------------------------
(* How a request moves                                                       *)
Moves(r, q) == /\ req' = [req EXCEPT ![r] = q]
               /\ q \in Request
LEMMA GotoMoves ==
  ASSUME TypeOK, NEW r \in Requests, NEW pc \in Pc, Goto(r, pc)
  PROVE  \E q : /\ Moves(r, q) /\ q.pc = pc
                /\ q.coupon = req[r].coupon /\ q.discount = req[r].discount
                /\ q.card = req[r].card /\ q.gift = req[r].gift
<1>1. PICK q : q = [req[r] EXCEPT !.pc = pc]
  OBVIOUS
<1>2. req[r] \in Request
  BY DEF TypeOK
<1>3. q \in Request /\ q.pc = pc /\ q.coupon = req[r].coupon /\ q.discount = req[r].discount
      /\ q.card = req[r].card /\ q.gift = req[r].gift
  BY <1>1, <1>2 DEF Request
<1> QED BY <1>1, <1>3 DEF Goto, Moves

(* Steps that leave the rows of credits and orders alone                     *)
LEMMA Validating ==
  ASSUME CreditsInv, NEW r \in Requests, NEW q, Moves(r, q),
         req[r].pc \in Unplaced, q.pc \in Unplaced \cup {"done"},
         UNCHANGED <<coupon, card, order, redeemed>>
  PROVE  CreditsInv'
<1>1. /\ req' \in [Requests -> Request] /\ req'[r] = q
      /\ \A u \in Requests : u # r => req'[u] = req[u]
  BY DEF Moves, CreditsInv, TypeOK
<1>2. TypeOK'
  BY <1>1 DEF CreditsInv, TypeOK
<1>3. ASSUME NEW u \in Requests PROVE InStep(u)'
  <2>1. CASE u = r
    BY <1>1, <2>1 DEF CreditsInv, InStep, Unplaced
  <2>2. CASE u # r
    BY <1>1, <2>2 DEF CreditsInv, InStep, Placed
  <2> QED BY <2>1, <2>2
<1>4. \A c \in Coupons : Uncounted(c)' = Uncounted(c)
  BY <1>1 DEF Uncounted, Unplaced
<1>5. (\A c \in Coupons : CouponTrue(c)') /\ \A k \in Cards : CardTrue(k)'
  BY <1>4 DEF CreditsInv, CouponTrue, CouponOrders, CardTrue, OrdersWith
<1> QED BY <1>2, <1>3, <1>5 DEF CreditsInv

LEMMA AtMostIsLess ==
  ASSUME NEW m \in Nat, NEW n \in Nat
  PROVE  AtMost(m, n) \in Nat /\ AtMost(m, n) <= n
BY DEF AtMost

(* What a coupon takes off is at most the subtotal, so that the card pays a  *)
(* natural number.                                                           *)
Affordable == \A r \in Requests : req[r].discount <= Subtotal[r]

LEMMA ValidatesCoupon ==
  ASSUME CreditsInv, Affordable, NEW r \in Requests, ValidateCoupon(r)
  PROVE  CreditsInv' /\ Affordable'
<1>1. TypeOK /\ req[r].pc \in Unplaced /\ UNCHANGED <<coupon, card, order, redeemed>>
  BY DEF CreditsInv, ValidateCoupon, At, Unplaced
<1>2. \E q : Moves(r, q) /\ q.pc = "card" /\ q.discount <= Subtotal[r]
  <2>1. CASE Goto(r, "card")
    <3>1. "card" \in Pc
      BY DEF Pc
    <3> QED BY <1>1, <2>1, <3>1, GotoMoves DEF Affordable
  <2>2. CASE \E c \in Coupons :
               req' = [req EXCEPT ![r] = [pc |-> "card", coupon |-> c,
                                        discount |-> AtMost(CouponValue[c], Subtotal[r]),
                                        card |-> NoCredit, gift |-> 0]]
    <3>1. PICK c \in Coupons :
               req' = [req EXCEPT ![r] = [pc |-> "card", coupon |-> c,
                                        discount |-> AtMost(CouponValue[c], Subtotal[r]),
                                        card |-> NoCredit, gift |-> 0]]
      BY <2>2
    <3>2. PICK d : d = AtMost(CouponValue[c], Subtotal[r]) /\ d \in Nat /\ d <= Subtotal[r]
      BY AtMostIsLess, CreditAssumption
    <3>3. PICK q : q = [pc |-> "card", coupon |-> c, discount |-> d, card |-> NoCredit, gift |-> 0]
      OBVIOUS
    <3>4. q \in Request /\ q.pc = "card" /\ q.discount = d
      BY <3>2, <3>3 DEF Request, Pc
    <3> QED BY <3>1, <3>2, <3>3, <3>4 DEF Moves
  <2> QED BY <2>1, <2>2 DEF ValidateCoupon
<1>3. PICK q : Moves(r, q) /\ q.pc = "card" /\ q.discount <= Subtotal[r]
  BY <1>2
<1>4. CreditsInv'
  BY <1>1, <1>3, Validating DEF Unplaced
<1>5. Affordable'
  BY <1>1, <1>3 DEF Moves, Affordable, TypeOK
<1> QED BY <1>4, <1>5

LEMMA ValidatesCard ==
  ASSUME CreditsInv, Affordable, NEW r \in Requests, ValidateGiftCard(r)
  PROVE  CreditsInv' /\ Affordable'
<1>1. TypeOK /\ req[r].pc \in Unplaced /\ UNCHANGED <<coupon, card, order, redeemed>>
  BY DEF CreditsInv, ValidateGiftCard, At, Unplaced
<1>2. \E q : Moves(r, q) /\ q.pc = "place" /\ q.discount = req[r].discount
  <2>1. CASE Goto(r, "place")
    <3>1. "place" \in Pc
      BY DEF Pc
    <3> QED BY <1>1, <2>1, <3>1, GotoMoves
  <2>2. CASE \E k \in Cards :
               req' = [req EXCEPT ![r] = [@ EXCEPT
                       !.pc = "place", !.card = k,
                       !.gift = AtMost(card[k].balance, Subtotal[r] - req[r].discount)]]
    <3>1. PICK k \in Cards :
               req' = [req EXCEPT ![r] = [@ EXCEPT
                       !.pc = "place", !.card = k,
                       !.gift = AtMost(card[k].balance, Subtotal[r] - req[r].discount)]]
      BY <2>2
    <3>2. req[r] \in Request /\ card[k].balance \in Nat
      BY <1>1 DEF TypeOK, Card
    <3>3. Subtotal[r] - req[r].discount \in Nat
      BY <3>2, CreditAssumption DEF Affordable, Request
    <3>4. PICK g \in Nat : g = AtMost(card[k].balance, Subtotal[r] - req[r].discount)
      BY <3>2, <3>3, AtMostIsLess
    <3>5. PICK p, q : p = req[r] /\ q = [p EXCEPT !.pc = "place", !.card = k, !.gift = g]
      OBVIOUS
    <3>6. req' = [req EXCEPT ![r] = q]
      BY <1>1, <3>1, <3>4, <3>5 DEF TypeOK
    <3>7. q \in Request /\ q.pc = "place" /\ q.discount = req[r].discount
      BY <3>2, <3>5 DEF Request, Pc
    <3> QED BY <3>6, <3>7 DEF Moves
  <2> QED BY <2>1, <2>2 DEF ValidateGiftCard
<1>3. PICK q : Moves(r, q) /\ q.pc = "place" /\ q.discount = req[r].discount
  BY <1>2
<1>4. CreditsInv'
  BY <1>1, <1>3, Validating DEF Unplaced
<1>5. Affordable'
  BY <1>1, <1>3 DEF Moves, Affordable, TypeOK
<1> QED BY <1>4, <1>5

LEMMA RunsOut ==
  ASSUME CreditsInv, Affordable, NEW r \in Requests, OutOfStock(r)
  PROVE  CreditsInv' /\ Affordable'
<1>1. "done" \in Pc /\ TypeOK /\ req[r].pc \in Unplaced
  BY DEF Pc, CreditsInv, OutOfStock, At, Unplaced
<1>2. PICK q : Moves(r, q) /\ q.pc = "done" /\ q.discount = req[r].discount
  BY <1>1, GotoMoves DEF OutOfStock
<1>3. CreditsInv'
  BY <1>1, <1>2, Validating DEF OutOfStock
<1> QED BY <1>1, <1>2, <1>3 DEF Moves, Affordable, TypeOK

(* An order placed has redeemed nothing yet, and its coupon is to be counted. *)
LEMMA Places ==
  ASSUME CreditsInv, Affordable, NEW r \in Requests, CreateOrder(r)
  PROVE  CreditsInv' /\ Affordable'
<1>1. TypeOK /\ req[r].pc = "place" /\ ~order[r].placed /\ redeemed[r] = 0 /\ "count" \in Pc
  BY DEF CreditsInv, CreateOrder, At, InStep, Unplaced, Pc
<1>2. PICK q : /\ Moves(r, q) /\ q.pc = "count"
               /\ q.coupon = req[r].coupon /\ q.discount = req[r].discount
               /\ q.card = req[r].card /\ q.gift = req[r].gift
  BY <1>1, GotoMoves DEF CreateOrder
<1>3. req'[r] = q /\ (\A u \in Requests : u # r => req'[u] = req[u]) /\ req' \in [Requests -> Request]
  BY <1>1, <1>2 DEF Moves, TypeOK
<1>4. PICK o : /\ o = [placed |-> TRUE, coupon |-> q.coupon, discount |-> q.discount,
                       card |-> q.card, gift |-> q.gift]
               /\ order' = [order EXCEPT ![r] = o]
  BY <1>2 DEF CreateOrder
<1>5. o \in Order
  BY <1>2, <1>4 DEF Moves, Request, Order
<1>6. /\ order'[r] = o /\ (\A u \in Requests : u # r => order'[u] = order[u])
      /\ order' \in [Requests -> Order] /\ UNCHANGED <<coupon, card, redeemed>>
  BY <1>1, <1>4, <1>5 DEF TypeOK, CreateOrder
<1>7. TypeOK'
  BY <1>1, <1>3, <1>6 DEF TypeOK
<1>8. ASSUME NEW u \in Requests PROVE InStep(u)'
  <2>1. CASE u = r
    BY <1>1, <1>2, <1>3, <1>4, <1>6, <2>1 DEF InStep, Placed, Unplaced
  <2>2. CASE u # r
    BY <1>3, <1>6, <2>2 DEF CreditsInv, InStep, Placed
  <2> QED BY <2>1, <2>2
<1>9. ASSUME NEW c \in Coupons PROVE CouponTrue(c)'
  <2>1. CouponTrue(c) /\ coupon[c].used \in Nat
    BY <1>1 DEF CreditsInv, TypeOK, Coupon
  <2>2. CASE q.coupon # c
    <3>1. CouponOrders(c)' = CouponOrders(c) /\ Uncounted(c)' = Uncounted(c)
      BY <1>1, <1>3, <1>4, <1>6, <2>2 DEF CouponOrders, Uncounted
    <3> QED BY <1>6, <2>1, <3>1 DEF CouponTrue
  <2>3. CASE q.coupon = c
    <3>1. /\ CouponOrders(c)' = CouponOrders(c) \cup {r} /\ r \notin CouponOrders(c)
          /\ Uncounted(c)' = Uncounted(c) \cup {r} /\ r \notin Uncounted(c)
      BY <1>1, <1>2, <1>3, <1>4, <1>6, <2>3 DEF CouponOrders, Uncounted
    <3>2. Uncounted(c) \subseteq CouponOrders(c)
      BY DEF CreditsInv, InStep, Placed, Uncounted, CouponOrders
    <3>3. IsFiniteSet(CouponOrders(c)) /\ IsFiniteSet(Uncounted(c))
      BY <2>1, <3>2, FS_Subset DEF CouponTrue
    <3>4. /\ IsFiniteSet(CouponOrders(c) \cup {r})
          /\ Cardinality(CouponOrders(c) \cup {r}) = Cardinality(CouponOrders(c)) + 1
          /\ Cardinality(Uncounted(c) \cup {r}) = Cardinality(Uncounted(c)) + 1
          /\ Cardinality(CouponOrders(c)) \in Nat /\ Cardinality(Uncounted(c)) \in Nat
      BY <3>1, <3>3, FS_AddElement, FS_CardinalityType
    <3> QED BY <1>6, <2>1, <3>1, <3>4 DEF CouponTrue
  <2> QED BY <2>2, <2>3
<1>10. ASSUME NEW k \in Cards PROVE CardTrue(k)'
  <2>1. CardTrue(k) /\ \A u \in Requests : redeemed[u] \in Int
    BY <1>1 DEF CreditsInv, TypeOK
  <2>2. CASE q.card # k
    <3>1. OrdersWith(k)' = OrdersWith(k)
      BY <1>1, <1>4, <1>6, <2>2 DEF OrdersWith
    <3> QED BY <1>6, <2>1, <3>1 DEF CardTrue
  <2>3. CASE q.card = k
    <3>1. OrdersWith(k)' = OrdersWith(k) \cup {r} /\ r \notin OrdersWith(k)
          /\ OrdersWith(k) \subseteq Requests
      BY <1>1, <1>4, <1>6, <2>3 DEF OrdersWith
    <3>2. IsFiniteSet(OrdersWith(k)) /\ IsFiniteSet(OrdersWith(k) \cup {r})
      BY <2>1, FS_AddElement DEF CardTrue
    <3>3. /\ SumFunctionOnSet(redeemed, OrdersWith(k) \cup {r})
               = redeemed[r] + SumFunctionOnSet(redeemed, OrdersWith(k))
          /\ SumFunctionOnSet(redeemed, OrdersWith(k)) \in Int
      BY <2>1, <3>1, <3>2, SumAdd, SumInt
    <3> QED BY <1>1, <1>6, <2>1, <3>1, <3>2, <3>3 DEF CardTrue
  <2> QED BY <2>2, <2>3
<1>11. Affordable'
  BY <1>2, <1>3 DEF Affordable
<1> QED BY <1>7, <1>8, <1>9, <1>10, <1>11 DEF CreditsInv

(* Its coupon is counted once, within its limit, or not at all.              *)
LEMMA Counts ==
  ASSUME CreditsInv, Affordable, NEW r \in Requests, RecordCouponUsage(r)
  PROVE  CreditsInv' /\ Affordable'
<1>1. TypeOK /\ req[r].pc = "count" /\ "redeem" \in Pc /\ UNCHANGED <<card, order, redeemed>>
  BY DEF CreditsInv, RecordCouponUsage, At, Pc
<1>2. PICK q : /\ Moves(r, q) /\ q.pc = "redeem"
               /\ q.coupon = req[r].coupon /\ q.discount = req[r].discount
               /\ q.card = req[r].card /\ q.gift = req[r].gift
  BY <1>1, GotoMoves DEF RecordCouponUsage
<1>3. req'[r] = q /\ (\A u \in Requests : u # r => req'[u] = req[u]) /\ req' \in [Requests -> Request]
  BY <1>1, <1>2 DEF Moves, TypeOK
<1>4. PICK b : b = req[r].coupon
  OBVIOUS
<1>5. b = NoCredit \/ b \in Coupons
  BY <1>1, <1>4 DEF TypeOK, Request
<1>6. \/ UNCHANGED coupon
      \/ b \in Coupons /\ UsesLeft(b) /\ coupon' = [coupon EXCEPT ![b].used = @ + 1]
  BY <1>4, <1>5 DEF RecordCouponUsage
<1>7. ASSUME NEW c \in Coupons
      PROVE  /\ coupon'[c] \in Coupon
             /\ coupon'[c].used = coupon[c].used
                \/ (c = b /\ UsesLeft(c) /\ coupon'[c].used = coupon[c].used + 1)
  BY <1>1, <1>6 DEF TypeOK, Coupon
<1>8. TypeOK'
  BY <1>1, <1>3, <1>6, <1>7 DEF TypeOK
<1>9. ASSUME NEW u \in Requests PROVE InStep(u)'
  <2>1. InStep(u)
    BY DEF CreditsInv
  <2>2. CASE u = r
    BY <1>1, <1>2, <1>3, <2>1, <2>2 DEF InStep, Placed, Unplaced
  <2>3. CASE u # r
    BY <1>1, <1>3, <2>1, <2>3 DEF InStep, Placed
  <2> QED BY <2>2, <2>3
<1>10. ASSUME NEW c \in Coupons PROVE CouponTrue(c)'
  <2>1. CouponTrue(c) /\ coupon[c].used \in Nat /\ MaxUses[c] \in Nat
        /\ CouponOrders(c)' = CouponOrders(c)
    BY <1>1, CreditAssumption DEF CreditsInv, TypeOK, Coupon, CouponOrders
  <2>2. IsFiniteSet(Uncounted(c)) /\ IsFiniteSet(CouponOrders(c))
    <3>1. Uncounted(c) \subseteq CouponOrders(c)
      BY DEF CreditsInv, InStep, Placed, Uncounted, CouponOrders
    <3> QED BY <2>1, <3>1, FS_Subset DEF CouponTrue
  <2>3. PICK m, n : m = Cardinality(Uncounted(c)) /\ n = Cardinality(CouponOrders(c))
                    /\ m \in Nat /\ n \in Nat
    BY <2>2, FS_CardinalityType
  <2>4. CASE c = b
    <3>1. Uncounted(c)' = Uncounted(c) \ {r} /\ r \in Uncounted(c)
      BY <1>1, <1>2, <1>3, <1>4, <2>4 DEF Uncounted
    <3>2. Cardinality(Uncounted(c)') = m - 1
      BY <2>2, <2>3, <3>1, FS_RemoveElement
    <3>3. MaxUses[c] > 0 => coupon'[c].used <= MaxUses[c]
      BY <1>7, <2>1 DEF UsesLeft, CouponTrue
    <3>4. coupon'[c].used + (m - 1) <= n
      BY <1>7, <2>1, <2>3 DEF CouponTrue
    <3> QED BY <2>1, <2>3, <3>2, <3>3, <3>4 DEF CouponTrue
  <2>5. CASE c # b
    <3>1. Uncounted(c)' = Uncounted(c)
      BY <1>1, <1>2, <1>3, <1>4, <2>5 DEF Uncounted
    <3> QED BY <1>7, <2>1, <2>5, <3>1 DEF CouponTrue
  <2> QED BY <2>4, <2>5
<1>11. \A k \in Cards : CardTrue(k)'
  BY <1>1 DEF CreditsInv, CardTrue, OrdersWith
<1>12. Affordable'
  BY <1>2, <1>3 DEF Affordable
<1> QED BY <1>8, <1>9, <1>10, <1>11, <1>12 DEF CreditsInv

(* The debit and the log of it are one step.                                 *)
LEMMA Redeems ==
  ASSUME CreditsInv, Affordable, NEW r \in Requests, RedeemGiftCard(r)
  PROVE  CreditsInv' /\ Affordable'
<1>1. TypeOK /\ req[r].pc = "redeem" /\ "done" \in Pc /\ UNCHANGED <<coupon, order>>
      /\ redeemed[r] = 0 /\ Placed(r)
  BY DEF CreditsInv, RedeemGiftCard, At, Pc, InStep
<1>2. PICK q : /\ Moves(r, q) /\ q.pc = "done" /\ q.discount = req[r].discount
  BY <1>1, GotoMoves DEF RedeemGiftCard
<1>3. req'[r] = q /\ (\A u \in Requests : u # r => req'[u] = req[u]) /\ req' \in [Requests -> Request]
  BY <1>1, <1>2 DEF Moves, TypeOK
<1>4. PICK k, n : k = req[r].card /\ n = req[r].gift /\ n \in Nat /\ k \in Cards \cup {NoCredit}
  BY <1>1 DEF TypeOK, Request
<1>5. \/ UNCHANGED <<card, redeemed>>
      \/ /\ k \in Cards /\ Covers(k, n) /\ card' = [card EXCEPT ![k].balance = @ - n]
         /\ redeemed' = [redeemed EXCEPT ![r] = n]
  BY <1>4 DEF RedeemGiftCard, Debit
<1>6. ASSUME NEW j \in Cards
      PROVE  /\ card'[j] \in Card
             /\ \/ card'[j] = card[j] /\ (j = k => UNCHANGED redeemed)
                \/ j = k /\ card'[j].balance = card[j].balance - n /\ redeemed'[r] = n
  BY <1>1, <1>4, <1>5 DEF TypeOK, Card, Covers
<1>7. /\ redeemed' \in [Requests -> Nat] /\ (\A u \in Requests : u # r => redeemed'[u] = redeemed[u])
      /\ redeemed'[r] \in {0, n}
  BY <1>1, <1>4, <1>5 DEF TypeOK
<1>8. TypeOK'
  <2>1. card' \in [Cards -> Card]
    BY <1>1, <1>5, <1>6 DEF TypeOK
  <2> QED BY <1>1, <1>3, <1>7, <2>1 DEF TypeOK
<1>9. ASSUME NEW u \in Requests PROVE InStep(u)'
  <2>1. CASE u = r
    BY <1>1, <1>2, <1>3, <1>4, <1>7, <2>1 DEF InStep, Placed, Unplaced
  <2>2. CASE u # r
    BY <1>1, <1>3, <1>7, <2>2 DEF CreditsInv, InStep, Placed
  <2> QED BY <2>1, <2>2
<1>10. ASSUME NEW c \in Coupons PROVE CouponTrue(c)'
  <2>1. Uncounted(c)' = Uncounted(c) /\ CouponOrders(c)' = CouponOrders(c)
    BY <1>1, <1>2, <1>3 DEF Uncounted, CouponOrders
  <2> QED BY <1>1, <2>1 DEF CreditsInv, CouponTrue
<1>11. ASSUME NEW j \in Cards PROVE CardTrue(j)'
  <2>1. /\ OrdersWith(j)' = OrdersWith(j) /\ CardTrue(j) /\ card[j].balance \in Nat
        /\ OrdersWith(j) \subseteq Requests /\ CardValue[j] \in Nat
    BY <1>1, CreditAssumption DEF CreditsInv, OrdersWith, TypeOK, Card
  <2>2. \A u \in OrdersWith(j) : redeemed[u] \in Int /\ redeemed'[u] \in Int
    BY <1>1, <1>7, <2>1 DEF TypeOK
  <2>3. PICK s, t : /\ s = SumFunctionOnSet(redeemed, OrdersWith(j))
                    /\ t = SumFunctionOnSet(redeemed', OrdersWith(j)) /\ s \in Int /\ t \in Int
    BY <2>1, <2>2, SumInt DEF CardTrue
  <2>4. CASE UNCHANGED redeemed /\ card'[j] = card[j]
    BY <2>1, <2>4 DEF CardTrue
  <2>5. CASE j # k /\ card'[j] = card[j]
    <3>1. r \notin OrdersWith(j)
      BY <1>1, <1>4, <2>5 DEF OrdersWith, Placed
    <3>2. \A u \in OrdersWith(j) : redeemed[u] = redeemed'[u]
      BY <1>7, <2>1, <3>1
    <3>3. s = t
      BY <2>1, <2>3, <3>2, SumSame DEF CardTrue
    <3> QED BY <2>1, <2>3, <2>5, <3>3 DEF CardTrue
  <2>6. CASE j = k /\ card'[j].balance = card[j].balance - n /\ redeemed'[r] = n
    <3>1. r \in OrdersWith(j)
      BY <1>1, <1>4, <2>6 DEF OrdersWith, Placed
    <3>2. \A u \in OrdersWith(j) \ {r} : redeemed[u] = redeemed'[u]
      BY <1>7, <2>1
    <3>3. t = s - redeemed[r] + redeemed'[r]
      BY <2>1, <2>2, <2>3, <3>1, <3>2, SumChange DEF CardTrue
    <3>4. card[j].balance + s = CardValue[j]
      BY <2>1, <2>3 DEF CardTrue
    <3>5. (card[j].balance - n) + t = CardValue[j]
      BY <1>1, <1>4, <2>1, <2>3, <2>6, <3>3, <3>4
    <3> QED BY <2>1, <2>3, <2>6, <3>5 DEF CardTrue
  <2> QED BY <1>6, <2>4, <2>5, <2>6
<1>12. Affordable'
  BY <1>2, <1>3 DEF Affordable
<1> QED BY <1>8, <1>9, <1>10, <1>11, <1>12 DEF CreditsInv

(* Switching, expiry and restarts move no number.                            *)
LEMMA Unmoved ==
  ASSUME CreditsInv, Affordable, UNCHANGED <<order, redeemed>>, TypeOK',
         \A c \in Coupons : coupon'[c].used = coupon[c].used,
         \A k \in Cards : card'[k].balance = card[k].balance,
         \A r \in Requests : req'[r] = req[r] \/ req'[r] = [req[r] EXCEPT !.pc = "done"]
  PROVE  CreditsInv' /\ Affordable'
<1>1. ASSUME NEW r \in Requests
      PROVE  /\ req'[r].pc = req[r].pc \/ req'[r].pc = "done"
             /\ req'[r].coupon = req[r].coupon /\ req'[r].discount = req[r].discount
             /\ req'[r].card = req[r].card /\ req'[r].gift = req[r].gift
  BY DEF CreditsInv, TypeOK, Request
<1>2. ASSUME NEW r \in Requests PROVE InStep(r)'
  BY <1>1 DEF CreditsInv, InStep, Placed, Unplaced
<1>3. ASSUME NEW c \in Coupons PROVE CouponTrue(c)'
  <2>1. CouponOrders(c)' = CouponOrders(c) /\ CouponTrue(c) /\ coupon[c].used \in Nat
    BY DEF CouponOrders, CreditsInv, TypeOK, Coupon
  <2>2. Uncounted(c)' \subseteq Uncounted(c) /\ Uncounted(c) \subseteq CouponOrders(c)
    BY <1>1 DEF Uncounted, CouponOrders, CreditsInv, InStep, Placed
  <2>3. IsFiniteSet(Uncounted(c)) /\ IsFiniteSet(CouponOrders(c))
    BY <2>1, <2>2, FS_Subset DEF CouponTrue
  <2>4. /\ Cardinality(Uncounted(c)') <= Cardinality(Uncounted(c))
        /\ Cardinality(Uncounted(c)) \in Nat /\ Cardinality(CouponOrders(c)) \in Nat
        /\ Cardinality(Uncounted(c)') \in Nat
    BY <2>2, <2>3, FS_Subset, FS_CardinalityType
  <2> QED BY <2>1, <2>4 DEF CouponTrue
<1>4. ASSUME NEW k \in Cards PROVE CardTrue(k)'
  BY DEF CreditsInv, CardTrue, OrdersWith
<1>5. Affordable'
  BY <1>1 DEF Affordable
<1> QED BY <1>2, <1>3, <1>4, <1>5 DEF CreditsInv

LEMMA CreditsKept ==
  ASSUME CreditsInv, Affordable, [Next]_vars
  PROVE  CreditsInv' /\ Affordable'
<1>1. TypeOK
  BY DEF CreditsInv
<1>2. CASE \E r \in Requests : \/ ValidateCoupon(r) \/ ValidateGiftCard(r)
                               \/ CreateOrder(r) \/ OutOfStock(r)
                               \/ RecordCouponUsage(r) \/ RedeemGiftCard(r)
  BY <1>2, ValidatesCoupon, ValidatesCard, Places, RunsOut, Counts, Redeems
<1>3. CASE \E c \in Coupons : SwitchCoupon(c)
  <2>1. PICK c \in Coupons : SwitchCoupon(c)
    BY <1>3
  <2>2. coupon' \in [Coupons -> Coupon] /\ \A d \in Coupons : coupon'[d].used = coupon[d].used
    BY <1>1, <2>1 DEF SwitchCoupon, TypeOK, Coupon
  <2> QED BY <1>1, <2>1, <2>2, Unmoved DEF SwitchCoupon, TypeOK
<1>4. CASE \E k \in Cards : SwitchCard(k)
  <2>1. PICK k \in Cards : SwitchCard(k)
    BY <1>4
  <2>2. card' \in [Cards -> Card] /\ \A j \in Cards : card'[j].balance = card[j].balance
    BY <1>1, <2>1 DEF SwitchCard, TypeOK, Card
  <2> QED BY <1>1, <2>1, <2>2, Unmoved DEF SwitchCard, TypeOK
<1>5. CASE Expire
  <2>1. CASE \E c \in Coupons : coupon' = [coupon EXCEPT ![c].expired = TRUE] /\ UNCHANGED card
    <3>1. PICK c \in Coupons : coupon' = [coupon EXCEPT ![c].expired = TRUE] /\ UNCHANGED card
      BY <2>1
    <3>2. coupon \in [Coupons -> Coupon]
      BY <1>1 DEF TypeOK
    <3>3. ASSUME NEW d \in Coupons
          PROVE  coupon'[d] \in Coupon /\ coupon'[d].used = coupon[d].used
      <4>1. coupon[d] \in Coupon
        BY <3>2
      <4>2. CASE d = c
        <5>1. coupon'[d] = [coupon[d] EXCEPT !.expired = TRUE]
          BY <3>1, <3>2, <4>2
        <5> QED BY <4>1, <5>1 DEF Coupon
      <4>3. CASE d # c
        BY <3>1, <3>2, <4>1, <4>3
      <4> QED BY <4>2, <4>3
    <3>4. coupon' \in [Coupons -> Coupon]
      <4>1. coupon' = [d \in Coupons |-> coupon'[d]]
        BY <3>1, <3>2
      <4> QED BY <3>3, <4>1
    <3>5. TypeOK'
      BY <1>1, <1>5, <3>1, <3>4 DEF Expire, TypeOK
    <3> QED BY <1>5, <3>1, <3>3, <3>5, Unmoved DEF Expire
  <2>2. CASE \E k \in Cards : card' = [card EXCEPT ![k].expired = TRUE] /\ UNCHANGED coupon
    <3>1. PICK k \in Cards : card' = [card EXCEPT ![k].expired = TRUE] /\ UNCHANGED coupon
      BY <2>2
    <3>2. card \in [Cards -> Card]
      BY <1>1 DEF TypeOK
    <3>3. ASSUME NEW d \in Cards
          PROVE  card'[d] \in Card /\ card'[d].balance = card[d].balance
      <4>1. card[d] \in Card
        BY <3>2
      <4>2. CASE d = k
        <5>1. card'[d] = [card[d] EXCEPT !.expired = TRUE]
          BY <3>1, <3>2, <4>2
        <5> QED BY <4>1, <5>1 DEF Card
      <4>3. CASE d # k
        BY <3>1, <3>2, <4>1, <4>3
      <4> QED BY <4>2, <4>3
    <3>4. card' \in [Cards -> Card]
      <4>1. card' = [d \in Cards |-> card'[d]]
        BY <3>1, <3>2
      <4> QED BY <3>3, <4>1
    <3>5. TypeOK'
      BY <1>1, <1>5, <3>1, <3>4 DEF Expire, TypeOK
    <3> QED BY <1>5, <3>1, <3>3, <3>5, Unmoved DEF Expire
  <2> QED BY <1>5, <2>1, <2>2 DEF Expire
<1>6. CASE Crash
  <2>1. /\ \A r \in Requests : req'[r] = [req[r] EXCEPT !.pc = "done"]
        /\ UNCHANGED <<coupon, card, order, redeemed>> /\ req' = [r \in Requests |-> req'[r]]
    BY <1>6 DEF Crash
  <2>2. ASSUME NEW r \in Requests PROVE req'[r] \in Request
    <3>1. req[r] \in Request /\ "done" \in Pc
      BY <1>1 DEF TypeOK, Pc
    <3>2. req'[r] = [req[r] EXCEPT !.pc = "done"]
      BY <2>1
    <3> QED BY <3>1, <3>2 DEF Request
  <2> QED BY <1>1, <2>1, <2>2, Unmoved DEF TypeOK
<1>7. CASE UNCHANGED vars
  BY <1>1, <1>7, Unmoved DEF vars, TypeOK
<1> QED BY <1>2, <1>3, <1>4, <1>5, <1>6, <1>7 DEF Next

LEMMA CreditsAlways == Spec => [](CreditsInv /\ Affordable)
<1>1. Init => Affordable
  BY CreditAssumption DEF Init, Affordable
<1> QED BY <1>1, CreditsStart, CreditsKept, PTL DEF Spec

-----------------------------------------------------------------------------
(* Rows keep their types: no balance, discount or gift amount goes below     *)
(* zero, whatever checkouts overlap.                                         *)
THEOREM CreditsTyped == Spec => []TypeOK
<1>1. CreditsInv => TypeOK
  BY DEF CreditsInv
<1> QED BY <1>1, CreditsAlways, PTL

(* The guard in recordCouponUsage keeps used_count within max_uses, and it   *)
(* counts no order that does not carry the coupon.                           *)
THEOREM CouponsWithinLimit == Spec => []UsedWithinLimit
<1>1. CreditsInv => UsedWithinLimit
  <2> SUFFICES ASSUME CreditsInv, NEW c \in Coupons
               PROVE  /\ MaxUses[c] > 0 => coupon[c].used <= MaxUses[c]
                      /\ coupon[c].used <= Cardinality(CouponOrders(c))
    BY DEF UsedWithinLimit
  <2>1. CouponTrue(c) /\ coupon[c].used \in Nat
    BY DEF CreditsInv, TypeOK, Coupon
  <2>2. Uncounted(c) \subseteq CouponOrders(c)
    BY DEF CreditsInv, InStep, Placed, Uncounted, CouponOrders
  <2>3. Cardinality(Uncounted(c)) \in Nat /\ Cardinality(CouponOrders(c)) \in Nat
    BY <2>1, <2>2, FS_Subset, FS_CardinalityType DEF CouponTrue
  <2> QED BY <2>1, <2>3 DEF CouponTrue
<1> QED BY <1>1, CreditsAlways, PTL

(* redeemGiftCard charges an order the whole gift amount it shows, or        *)
(* nothing.                                                                  *)
THEOREM RedemptionsAsShown == Spec => []RedeemedAsShown
<1>1. CreditsInv => RedeemedAsShown
  BY DEF CreditsInv, InStep, RedeemedAsShown
<1> QED BY <1>1, CreditsAlways, PTL

(* A card's balance is its value less what its orders redeemed, for any      *)
(* number of overlapping checkouts.                                          *)
THEOREM BalancesAreLedgers == Spec => []BalanceIsLedger
<1>1. CreditsInv => BalanceIsLedger
  BY DEF CreditsInv, CardTrue, BalanceIsLedger
<1> QED BY <1>1, CreditsAlways, PTL
=============================================================================
