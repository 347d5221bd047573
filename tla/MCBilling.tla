------------------------------- MODULE MCBilling -------------------------------
(* A period of three days, a warning after one, and one day of grace.         *)
EXTENDS SubscriptionBilling, TLC

Interchangeable == Permutations(Attempts) \cup Permutations(Requests)
=============================================================================
