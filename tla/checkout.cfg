SPECIFICATION Spec
INVARIANTS TypeOK LedgersAgree ReservedIsOpenHolds PaidSoldOnce
PROPERTIES KeepsPromise
SYMMETRY Interchangeable
CHECK_DEADLOCK FALSE
CONSTANTS
  web1 = web1
  web2 = web2
  till1 = till1
  till2 = till2
  screen = screen
  cable = cable
  main = main
  hq = hq
  Orders = {web1, web2, till1}
  Products = {screen, cable}
  Branches = {main}
  NoBranch = main
  PosOrders <- MCPosOrders
  OrderBranch <- AllMain
  Qty <- MCQty
  Price <- MCPrice
  Subtotal <- MCSubtotal
  ShippingFee = 2
  InitOnHand <- ScarceOnHand
  InitInStock <- ScarceInStock
  Checkouts = {c1, c2}
  NoCheckout = NoCheckout
  Requests = {r1, r2, r3}
  Ops = {"storefront", "pos"}
  MaxCrashes = 1
  AdminStatuses = {}
