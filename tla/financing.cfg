SPECIFICATION Spec
INVARIANTS TypeOK OwnedIsSettled PaidIsAllocated ClosedIsCovered TotalsNotAhead
PROPERTIES CancelledStaysCancelled
SYMMETRY Interchangeable
CHECK_DEADLOCK FALSE
CONSTANTS
  Plans <- OneTerms
  Payments = {p1, p2}
  PayAmounts = {1, 2}
  WaiverAmounts = {1, 2}
  Staff = {s1}
  Kinds = {"approve", "reject", "release", "cancel", "record", "push", "adjust", "waive", "reverse", "refresh"}
  ManualApproval = TRUE
  Consents = {TRUE}
  MaxReversals = 2
  NoPlan = NoPlan
  NoPayment = NoPayment
