SPECIFICATION FairSpec
PROPERTIES PaidIsRecorded
CHECK_DEADLOCK FALSE
CONSTANTS
  Invoices = {i1, i2}
  Attempts = {a1}
  Requests = {r1}
  Ops = {"record", "renew", "enforce", "suspend", "resume", "owner"}
  Period = 2
  WarnAfter = 1
  Grace = 1
  LapseGrace = 0
  RenewWindow = 1
  Extension = 1
  FirstExpiry = 1
  MaxDay = 2
  MaxGranted = 1
  MaxFaults = 1
  NoInvoice = NoInvoice
  NoAttempt = NoAttempt
