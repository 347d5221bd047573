SPECIFICATION FairSpec
INVARIANTS CopiesAreAttempts SentWasDelivered
PROPERTIES SettledIsFinal EventuallySettled
CHECK_DEADLOCK FALSE
CONSTANTS
  Deliveries = {m1, m2}
  Drains = {w1, w2}
  MaxAttempts = 3
  Limit = 2
  NoDelivery = NoDelivery
  MaxFaults = 2
  Honest = FALSE
