SPECIFICATION Spec
INVARIANTS TypeOK BalanceIsLedger UsedWithinLimit RedeemedAsShown
SYMMETRY Interchangeable
CHECK_DEADLOCK FALSE
CONSTANTS
  Coupons = {tenoff}
  Cards = {gift}
  NoCredit = NoCredit
  MaxUses <- MCMaxUses
  CouponValue <- MCCouponValue
  CardValue <- MCCardValue
  Requests = {r1, r2, r3}
  Subtotal <- MCSubtotal
