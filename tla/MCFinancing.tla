----------------------------- MODULE MCFinancing -----------------------------
(* Three shillings in two instalments, one and two; or two at once.           *)
EXTENDS Financing, TLC

InTwo == [cash |-> 4, deposit |-> 2, charge |-> 1, terms |-> 2,
          possession |-> "on_full_payment", threshold |-> 0]
AtOnce == [cash |-> 2, deposit |-> 0, charge |-> 0, terms |-> 1,
           possession |-> "threshold", threshold |-> 1]
OneTerms == {InTwo}
BothTerms == {InTwo, AtOnce}

Interchangeable == Permutations(Payments) \cup Permutations(Staff)
=============================================================================
