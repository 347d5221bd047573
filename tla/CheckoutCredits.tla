--------------------------- MODULE CheckoutCredits ---------------------------
(***************************************************************************)
(* Coupons and gift cards at storefront checkout (POST /api/orders): what  *)
(* the customer is granted is read before the order is committed, and      *)
(* counted or debited after it.                                            *)
(*                                                                         *)
(* A request places at most one order and names it.  Its steps are the     *)
(* statements of the handler; redeemGiftCard is one transaction under the  *)
(* lock of the card row.  A coupon is worth CouponValue[c] of any subtotal *)
(* that reaches it.  Changes an administrator makes to max_uses or to a    *)
(* balance, and deletions, are left out.                                   *)
(***************************************************************************)
EXTENDS Naturals, FiniteSets, Functions

CONSTANTS Coupons, Cards, NoCredit,
          MaxUses,      \* coupons.max_uses, 0 for no limit
          CouponValue,
          CardValue,    \* gift_cards.initial_value
          Requests,     \* checkouts, each of one order
          Subtotal

ASSUME CreditAssumption == /\ NoCredit \notin Coupons \cup Cards
                           /\ MaxUses \in [Coupons -> Nat]
                           /\ CouponValue \in [Coupons -> Nat]
                           /\ CardValue \in [Cards -> Nat]
                           /\ Subtotal \in [Requests -> Nat]

VARIABLES coupon,     \* coupons
          card,       \* gift_cards
          order,      \* orders: the credits an order was placed with
          redeemed,   \* gift_card_redemptions.amount of each order
          req         \* the checkouts

vars == <<coupon, card, order, redeemed, req>>

Coupon == [used : Nat, active : BOOLEAN, expired : BOOLEAN]
Card == [balance : Nat, active : BOOLEAN, expired : BOOLEAN]
Order == [placed : BOOLEAN, coupon : Coupons \cup {NoCredit}, discount : Nat,
          card : Cards \cup {NoCredit}, gift : Nat]
Pc == {"coupon", "card", "place", "count", "redeem", "done"}
Request == [pc : Pc, coupon : Coupons \cup {NoCredit}, discount : Nat,
            card : Cards \cup {NoCredit}, gift : Nat]

TypeOK == /\ coupon \in [Coupons -> Coupon]
          /\ card \in [Cards -> Card]
          /\ order \in [Requests -> Order]
          /\ redeemed \in [Requests -> Nat]
          /\ req \in [Requests -> Request]

Init ==
  /\ coupon = [c \in Coupons |-> [used |-> 0, active |-> TRUE, expired |-> FALSE]]
  /\ card = [k \in Cards |-> [balance |-> CardValue[k], active |-> TRUE, expired |-> FALSE]]
  /\ order = [r \in Requests |-> [placed |-> FALSE, coupon |-> NoCredit, discount |-> 0,
                                  card |-> NoCredit, gift |-> 0]]
  /\ redeemed = [r \in Requests |-> 0]
  /\ req = [r \in Requests |-> [pc |-> "coupon", coupon |-> NoCredit, discount |-> 0,
                                card |-> NoCredit, gift |-> 0]]

At(r, pc) == req[r].pc = pc
Goto(r, pc) == req' = [req EXCEPT ![r].pc = pc]
AtMost(m, n) == IF m <= n THEN m ELSE n

-----------------------------------------------------------------------------
(* validateCoupon *)
Uncapped(c) == TRUE                                                            \* mutant
UsesLeft(c) == MaxUses[c] = 0 \/ coupon[c].used < MaxUses[c]
Usable(row) == row.active /\ ~row.expired

ValidateCoupon(r) ==
  /\ At(r, "coupon")
  /\ \/ Goto(r, "card")
     \/ \E c \in Coupons :
          /\ Usable(coupon[c]) /\ UsesLeft(c)
          /\ req' = [req EXCEPT ![r] = [pc |-> "card", coupon |-> c,
                                        discount |-> AtMost(CouponValue[c], Subtotal[r]),
                                        card |-> NoCredit, gift |-> 0]]
  /\ UNCHANGED <<coupon, card, order, redeemed>>

(* validateGiftCard, for what the coupon left to pay *)
ValidateGiftCard(r) ==
  /\ At(r, "card")
  /\ \/ Goto(r, "place")
     \/ \E k \in Cards :
          /\ Usable(card[k]) /\ card[k].balance > 0
          /\ req' = [req EXCEPT ![r] = [@ EXCEPT
                       !.pc = "place", !.card = k,
                       !.gift = AtMost(card[k].balance, Subtotal[r] - req[r].discount)]]
  /\ UNCHANGED <<coupon, card, order, redeemed>>

(* createOrder commits the order with its credits, or runs out of stock. *)
CreateOrder(r) ==
  /\ At(r, "place")
  /\ order' = [order EXCEPT ![r] = [placed |-> TRUE, coupon |-> req[r].coupon,
                                    discount |-> req[r].discount,
                                    card |-> req[r].card, gift |-> req[r].gift]]
  /\ Goto(r, "count")
  /\ UNCHANGED <<coupon, card, redeemed>>

OutOfStock(r) ==
  /\ At(r, "place")
  /\ Goto(r, "done")
  /\ UNCHANGED <<coupon, card, order, redeemed>>

(* recordCouponUsage: guarded by is_active and max_uses; nobody looks at    *)
(* what it returns.                                                         *)
RecordCouponUsage(r) ==
  LET c == req[r].coupon IN
  /\ At(r, "count")
  /\ coupon' = IF c # NoCredit /\ coupon[c].active /\ UsesLeft(c)
                 THEN [coupon EXCEPT ![c].used = @ + 1] ELSE coupon
  /\ Goto(r, "redeem")
  /\ UNCHANGED <<card, order, redeemed>>

(* redeemGiftCard: checks, debits and logs together, or does nothing; the   *)
(* order keeps its gift amount either way.                                  *)
LiveCard(k, n) == Usable(card[k])                                              \* mutant
Covers(k, n) == Usable(card[k]) /\ card[k].balance >= n

DebitOnly(r, k, n) ==                                                          \* mutant
  /\ card' = [card EXCEPT ![k].balance = @ - n]
  /\ UNCHANGED redeemed
DebitFull(r, k, n) ==                                                          \* mutant
  /\ card' = [card EXCEPT ![k].balance = 0]
  /\ redeemed' = [redeemed EXCEPT ![r] = card[k].balance]
Debit(r, k, n) ==
  /\ card' = [card EXCEPT ![k].balance = @ - n]
  /\ redeemed' = [redeemed EXCEPT ![r] = n]

RedeemGiftCard(r) ==
  LET k == req[r].card  n == req[r].gift IN
  /\ At(r, "redeem")
  /\ IF k # NoCredit /\ n > 0 /\ Covers(k, n)
       THEN Debit(r, k, n) ELSE UNCHANGED <<card, redeemed>>
  /\ Goto(r, "done")
  /\ UNCHANGED <<coupon, order>>

-----------------------------------------------------------------------------
(* PUT /api/admin/coupons/:id and gift-cards/:id switch is_active; expires_at *)
(* goes by; the server may stop in the middle of a checkout.                  *)
SwitchCoupon(c) == /\ coupon' = [coupon EXCEPT ![c].active = ~@]
                   /\ UNCHANGED <<card, order, redeemed, req>>
SwitchCard(k) == /\ card' = [card EXCEPT ![k].active = ~@]
                 /\ UNCHANGED <<coupon, order, redeemed, req>>
Expire == /\ \/ \E c \in Coupons : coupon' = [coupon EXCEPT ![c].expired = TRUE] /\ UNCHANGED card
             \/ \E k \in Cards : card' = [card EXCEPT ![k].expired = TRUE] /\ UNCHANGED coupon
          /\ UNCHANGED <<order, redeemed, req>>
Crash == /\ req' = [r \in Requests |-> [req[r] EXCEPT !.pc = "done"]]
         /\ UNCHANGED <<coupon, card, order, redeemed>>

Next == \/ \E r \in Requests : \/ ValidateCoupon(r) \/ ValidateGiftCard(r)
                               \/ CreateOrder(r) \/ OutOfStock(r)
                               \/ RecordCouponUsage(r) \/ RedeemGiftCard(r)
        \/ \E c \in Coupons : SwitchCoupon(c)
        \/ \E k \in Cards : SwitchCard(k)
        \/ Expire
        \/ Crash

Spec == Init /\ [][Next]_vars

-----------------------------------------------------------------------------
OrdersWith(k) == {r \in Requests : order[r].placed /\ order[r].card = k}
CouponOrders(c) == {r \in Requests : order[r].placed /\ order[r].coupon = c}

(* redeemGiftCard: whatever checkouts overlap, the balance of a card is its  *)
(* value less what the log says was redeemed from it.                        *)
BalanceIsLedger ==
  \A k \in Cards :
    card[k].balance + SumFunctionOnSet(redeemed, OrdersWith(k)) = CardValue[k]

(* recordCouponUsage: used_count never passes max_uses, and never counts an  *)
(* order that does not carry the coupon.                                     *)
UsedWithinLimit ==
  \A c \in Coupons : /\ MaxUses[c] > 0 => coupon[c].used <= MaxUses[c]
                     /\ coupon[c].used <= Cardinality(CouponOrders(c))

(* An order is charged to its card either not at all or for exactly the gift *)
(* amount it shows.                                                          *)
RedeemedAsShown ==
  \A r \in Requests : redeemed[r] # 0 => order[r].placed /\ redeemed[r] = order[r].gift

(* "The same balance can never be spent twice": the orders placed with a     *)
(* card are not worth more of it than it held.                               *)
CardSpentOnce ==
  \A k \in Cards :
    SumFunctionOnSet([r \in Requests |-> order[r].gift], OrdersWith(k)) <= CardValue[k]

(* "Never exceed max_uses": no more orders carry the coupon than it allows.  *)
CouponGrantedWithinLimit ==
  \A c \in Coupons : MaxUses[c] > 0 => Cardinality(CouponOrders(c)) <= MaxUses[c]
=============================================================================
