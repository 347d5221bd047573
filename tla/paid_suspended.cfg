SPECIFICATION Spec
INVARIANTS PaidIsServed
SYMMETRY Interchangeable
CHECK_DEADLOCK FALSE
CONSTANTS
  Invoices = {i1}
  Attempts = {a1}
  Requests = {r1}
  Ops = {"pay", "generate"}
  Period = 3
  WarnAfter = 1
  Grace = 1
  LapseGrace = 1
  RenewWindow = 1
  Extension = 1
  FirstExpiry = 2
  MaxDay = 3
  MaxGranted = 0
  MaxFaults = 0
  NoInvoice = NoInvoice
  NoAttempt = NoAttempt
