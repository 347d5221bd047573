SPECIFICATION Spec
INVARIANTS TypeOK BranchLedger ReceivedIsStocked
PROPERTIES DecidedIsFinal
SYMMETRY Interchangeable
CHECK_DEADLOCK FALSE
CONSTANTS
  Requests = {r1, r2}
  Transfers = {t1, t2}
  Branches = {b1, b2}
  Purchases = {o1}
  Kinds = {"transfer", "receive", "all", "recall", "delete", "patch"}
  Global = Global
  MaxQuantity = 1
  Ordered = 2
  MaxReceived = 2
  MaxFaults = 1
  NoOne = NoOne
