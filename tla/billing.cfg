SPECIFICATION Spec
INVARIANTS TypeOK CompletedIsPaid NoFreeTime SettledIsTrue WarnedBefore
SYMMETRY Interchangeable
CHECK_DEADLOCK FALSE
CONSTANTS
  Invoices = {i1}
  Attempts = {a1, a2}
  Requests = {r1, r2}
  Ops = {"push", "callback", "pay", "generate", "delete", "extend", "owner"}
  Period = 3
  WarnAfter = 1
  Grace = 1
  LapseGrace = 1
  RenewWindow = 1
  Extension = 1
  FirstExpiry = 2
  MaxDay = 2
  MaxGranted = 1
  MaxFaults = 1
  NoInvoice = NoInvoice
  NoAttempt = NoAttempt
