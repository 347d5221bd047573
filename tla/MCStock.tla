-------------------------------- MODULE MCStock --------------------------------
(* Two transfers between two branches, and one purchase order.                *)
EXTENDS BranchStock, TLC

Interchangeable == Permutations(Requests) \cup Permutations(Transfers) \cup Permutations(Branches)
=============================================================================
