SPECIFICATION Spec
INVARIANTS ReceivedIsAccounted ReceiptCountsOnce
SYMMETRY Interchangeable
CHECK_DEADLOCK FALSE
CONSTANTS
  Plans <- BothTerms
  Payments = {p1, p2}
  PayAmounts = {1, 2}
  WaiverAmounts = {1}
  Staff = {s1, s2}
  Kinds = {"edit", "submit", "approve", "cancel", "record", "push", "waive"}
  ManualApproval = FALSE
  Consents = {TRUE}
  MaxReversals = 0
  NoPlan = NoPlan
  NoPayment = NoPayment
