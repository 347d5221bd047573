------------------------------- MODULE SumFacts -------------------------------
(***************************************************************************)
(* Sums over finite sets: what SumFunctionOnSet gives when an element is   *)
(* added, left out or changes its value.  Its definition folds over the    *)
(* set in an order of CHOOSE's; that it does not depend on that order is   *)
(* shown by way of a smallest set for which it would.                      *)
(***************************************************************************)
EXTENDS Integers, FiniteSets, Functions, FiniteSetTheorems, WellFoundedInduction, TLAPS

LEMMA LeastNumber ==
  ASSUME NEW T \in SUBSET Nat, T # {}
  PROVE  \E n \in T : \A m \in T : n <= m
<1>1. PICK n \in T : \A m \in T : ~(<<m, n>> \in OpToRel(<, Nat))
  BY WFMin, NatLessThanWellFounded
<1>2. \A m \in T : ~(m < n)
  BY <1>1 DEF OpToRel
<1>3. n \in Nat /\ \A m \in T : m \in Nat
  OBVIOUS
<1> QED BY <1>2, <1>3

-----------------------------------------------------------------------------
(* The function that the definition folds with                               *)
Pick(s) == CHOOSE x \in s : TRUE
Fold(fun, f, s) == IF s = {} THEN 0 ELSE fun[Pick(s)] + f[s \ {Pick(s)}]
Folds(fun, f, S) == f = [s \in SUBSET S |-> Fold(fun, f, s)]

LEMMA SumIsFold ==
  ASSUME NEW fun, NEW S, NEW f, Folds(fun, f, S)
  PROVE  \E g : Folds(fun, g, S) /\ SumFunctionOnSet(fun, S) = g[S]
<1> DEFINE h == CHOOSE iter : iter = [s \in SUBSET S |->
                  IF s = {} THEN 0 ELSE fun[CHOOSE x \in s : TRUE]
                                        + iter[s \ {CHOOSE x \in s : TRUE}]]
<1>1. SumFunctionOnSet(fun, S) = h[S]
  BY DEF SumFunctionOnSet, FoldFunctionOnSet, MapThenFoldSet
<1>2. f = [s \in SUBSET S |-> IF s = {} THEN 0 ELSE fun[CHOOSE x \in s : TRUE]
                                        + f[s \ {CHOOSE x \in s : TRUE}]]
  BY Zenon DEF Folds, Fold, Pick
<1>3. h = [s \in SUBSET S |-> IF s = {} THEN 0 ELSE fun[CHOOSE x \in s : TRUE]
                                        + h[s \ {CHOOSE x \in s : TRUE}]]
  BY <1>2, Zenon
<1>4. Folds(fun, h, S)
  BY <1>3, Zenon DEF Folds, Fold, Pick
<1> HIDE DEF h
<1> QED BY <1>1, <1>4
(* A pick is an element, and what is left is smaller.                        *)
LEMMA PickLeaves ==
  ASSUME NEW s, IsFiniteSet(s), s # {}
  PROVE  /\ Pick(s) \in s /\ s \ {Pick(s)} \subseteq s /\ IsFiniteSet(s \ {Pick(s)})
         /\ Cardinality(s) \in Nat \ {0}
         /\ Cardinality(s \ {Pick(s)}) = Cardinality(s) - 1
<1>1. Pick(s) \in s
  BY DEF Pick
<1>2. /\ IsFiniteSet(s \ {Pick(s)}) /\ Cardinality(s \ {Pick(s)}) = Cardinality(s) - 1
      /\ Cardinality(s) \in Nat
  BY <1>1, FS_RemoveElement, FS_CardinalityType
<1>3. Cardinality(s) # 0
  BY FS_EmptySet
<1> QED BY <1>1, <1>2, <1>3

LEMMA Smaller ==
  ASSUME NEW s, IsFiniteSet(s), NEW x \in s
  PROVE  ~(Cardinality(s) <= Cardinality(s \ {x}))
<1>1. Cardinality(s \ {x}) = Cardinality(s) - 1 /\ Cardinality(s) \in Nat
  BY FS_RemoveElement, FS_CardinalityType
<1> QED BY <1>1

(* Such a function exists for every finite set: for the subsets of n elements *)
(* it extends the one for the smaller subsets.                                *)
Small(S, n) == {s \in SUBSET S : Cardinality(s) <= n}
LEMMA FoldExists ==
  ASSUME NEW fun, NEW S, IsFiniteSet(S)
  PROVE  \E f : Folds(fun, f, S)
<1> DEFINE Has(n) == \E f : f = [s \in Small(S, n) |-> Fold(fun, f, s)]
           T == {n \in Nat : ~Has(n)}
<1>1. \A s \in SUBSET S : IsFiniteSet(s) /\ Cardinality(s) \in Nat /\ Cardinality(s) <= Cardinality(S)
  BY FS_Subset, FS_CardinalityType
<1>2. Has(0)
  <2>1. \A s \in Small(S, 0) : s = {}
    BY <1>1, FS_EmptySet DEF Small
  <2>2. PICK f : f = [s \in Small(S, 0) |-> 0]
    OBVIOUS
  <2>3. f = [s \in Small(S, 0) |-> Fold(fun, f, s)]
    BY <2>1, <2>2 DEF Fold
  <2> QED BY <2>3
<1>3. ASSUME NEW n \in Nat, Has(n) PROVE Has(n + 1)
  <2>1. PICK f : f = [s \in Small(S, n) |-> Fold(fun, f, s)]
    BY <1>3
  <2>2. PICK g : g = [s \in Small(S, n + 1) |-> IF s \in Small(S, n) THEN f[s] ELSE Fold(fun, f, s)]
    OBVIOUS
  <2>3. ASSUME NEW s \in Small(S, n + 1), s # {}
        PROVE  s \ {Pick(s)} \in Small(S, n) /\ s \ {Pick(s)} \in Small(S, n + 1)
    <3>1. s \in SUBSET S /\ Cardinality(s) <= n + 1
      BY DEF Small
    <3>2. s \ {Pick(s)} \in SUBSET S /\ Cardinality(s \ {Pick(s)}) = Cardinality(s) - 1
          /\ Cardinality(s) \in Nat
      BY <1>1, <2>3, <3>1, PickLeaves
    <3> QED BY <3>1, <3>2 DEF Small
  <2>4. ASSUME NEW s \in Small(S, n + 1) PROVE g[s] = Fold(fun, g, s)
    <3>1. g[s] = Fold(fun, f, s)
      BY <2>1, <2>2
    <3>2. s # {} => g[s \ {Pick(s)}] = f[s \ {Pick(s)}]
      BY <2>2, <2>3
    <3> QED BY <3>1, <3>2 DEF Fold
  <2>5. g = [s \in Small(S, n + 1) |-> g[s]]
    BY <2>2
  <2>6. g = [s \in Small(S, n + 1) |-> Fold(fun, g, s)]
    BY <2>4, <2>5
  <2> QED BY <2>6
<1>4. T = {}
  <2> SUFFICES ASSUME T # {} PROVE FALSE
    OBVIOUS
  <2>1. PICK n \in T : \A m \in T : n <= m
    <3> HIDE DEF Has
    <3>1. T \in SUBSET Nat
      OBVIOUS
    <3> QED BY <3>1, LeastNumber
  <2> HIDE DEF Has
  <2>2. n \in Nat /\ ~Has(n) /\ n # 0
    BY <1>2, <2>1
  <2>3. n - 1 \in Nat /\ ~(n <= n - 1)
    BY <2>2
  <2>4. Has(n - 1)
    BY <2>1, <2>3
  <2>5. Has((n - 1) + 1)
    BY <1>3, <2>3, <2>4
  <2>6. (n - 1) + 1 = n
    BY <2>2
  <2> QED BY <2>2, <2>5, <2>6
<1>5. Cardinality(S) \in Nat
  BY FS_CardinalityType
<1>6. Small(S, Cardinality(S)) = SUBSET S
  BY <1>1 DEF Small
<1>7. Has(Cardinality(S))
  <2> HIDE DEF Has
  <2> QED BY <1>4, <1>5
<1> QED BY <1>6, <1>7 DEF Folds

(* What holds of a sum whenever it holds of the sum of what is left           *)
(* cannot fail of a smallest set; LeastSet gives that set.                    *)
LEMMA LeastSet ==
  ASSUME NEW S, IsFiniteSet(S), NEW B \in SUBSET (SUBSET S), B # {}
  PROVE  \E s \in B : \A t \in B : Cardinality(s) <= Cardinality(t)
<1> DEFINE T == {Cardinality(s) : s \in B}
<1>1. T \in SUBSET Nat /\ T # {}
  BY FS_Subset, FS_CardinalityType
<1>2. PICK n \in T : \A m \in T : n <= m
  <2> HIDE DEF T
  <2> QED BY <1>1, LeastNumber
<1>3. PICK s \in B : n = Cardinality(s)
  OBVIOUS
<1>4. \A t \in B : Cardinality(t) \in T
  OBVIOUS
<1> QED BY <1>2, <1>3, <1>4

(* Functions that fold over S and over a part of it agree on the part.       *)
LEMMA FoldsAgree ==
  ASSUME NEW fun, NEW S, IsFiniteSet(S), NEW R \in SUBSET S, NEW f, NEW g,
         Folds(fun, f, S), Folds(fun, g, R)
  PROVE  \A s \in SUBSET R : f[s] = g[s]
<1> DEFINE B == {s \in SUBSET R : f[s] # g[s]}
<1> SUFFICES ASSUME B # {} PROVE FALSE
  OBVIOUS
<1>1. B \in SUBSET (SUBSET R) /\ IsFiniteSet(R)
  BY FS_Subset
<1>2. PICK s \in B : \A t \in B : Cardinality(s) <= Cardinality(t)
  <2> HIDE DEF B
  <2> QED BY <1>1, LeastSet
<1>3. s \in SUBSET R /\ IsFiniteSet(s) /\ s \in SUBSET S /\ f[s] # g[s]
  BY <1>1, FS_Subset
<1>4. f[s] = Fold(fun, f, s) /\ g[s] = Fold(fun, g, s)
  BY <1>3 DEF Folds
<1>5. s # {}
  BY <1>3, <1>4 DEF Fold
<1>6. PICK t : t = s \ {Pick(s)}
  OBVIOUS
<1>7. t \in SUBSET R /\ ~(Cardinality(s) <= Cardinality(t))
  BY <1>3, <1>5, <1>6, Smaller DEF Pick
<1>8. f[t] = g[t]
  BY <1>2, <1>7
<1> QED BY <1>3, <1>4, <1>5, <1>6, <1>8 DEF Fold

LEMMA SumOfFold ==
  ASSUME NEW fun, NEW S, IsFiniteSet(S), NEW R \in SUBSET S, NEW f, Folds(fun, f, S)
  PROVE  SumFunctionOnSet(fun, R) = f[R]
<1>1. IsFiniteSet(R)
  BY FS_Subset
<1>2. PICK h : Folds(fun, h, R)
  BY <1>1, FoldExists
<1>3. PICK g : Folds(fun, g, R) /\ SumFunctionOnSet(fun, R) = g[R]
  BY <1>2, SumIsFold
<1> QED BY <1>3, FoldsAgree

-----------------------------------------------------------------------------
(* Sums                                                                      *)
LEMMA SumEmpty ==
  ASSUME NEW fun
  PROVE  SumFunctionOnSet(fun, {}) = 0
<1>1. IsFiniteSet({})
  BY FS_EmptySet
<1>2. PICK f : Folds(fun, f, {})
  BY <1>1, FoldExists
<1>3. SumFunctionOnSet(fun, {}) = f[{}]
  BY <1>1, <1>2, SumOfFold
<1> QED BY <1>2, <1>3 DEF Folds, Fold

LEMMA SumPick ==
  ASSUME NEW fun, NEW S, IsFiniteSet(S), S # {}
  PROVE  SumFunctionOnSet(fun, S) = fun[Pick(S)] + SumFunctionOnSet(fun, S \ {Pick(S)})
<1>1. PICK f : Folds(fun, f, S)
  BY FoldExists
<1>2. SumFunctionOnSet(fun, S) = f[S] /\ SumFunctionOnSet(fun, S \ {Pick(S)}) = f[S \ {Pick(S)}]
  BY <1>1, SumOfFold
<1>3. f[S] = Fold(fun, f, S)
  BY <1>1 DEF Folds
<1> QED BY <1>2, <1>3 DEF Fold

LEMMA SumInt ==
  ASSUME NEW fun, NEW S, IsFiniteSet(S), \A x \in S : fun[x] \in Int
  PROVE  \A s \in SUBSET S : SumFunctionOnSet(fun, s) \in Int
<1> DEFINE B == {s \in SUBSET S : SumFunctionOnSet(fun, s) \notin Int}
<1> SUFFICES ASSUME B # {} PROVE FALSE
  OBVIOUS
<1>1. PICK s \in B : \A t \in B : Cardinality(s) <= Cardinality(t)
  BY LeastSet
<1>2. s \in SUBSET S /\ IsFiniteSet(s) /\ SumFunctionOnSet(fun, s) \notin Int
  BY FS_Subset
<1>3. s # {}
  BY <1>2, SumEmpty
<1>4. PICK x, t : x = Pick(s) /\ t = s \ {x}
  OBVIOUS
<1>5. x \in S /\ t \in SUBSET S /\ ~(Cardinality(s) <= Cardinality(t))
  BY <1>2, <1>3, <1>4, Smaller DEF Pick
<1>6. SumFunctionOnSet(fun, t) \in Int
  BY <1>1, <1>5
<1>7. SumFunctionOnSet(fun, s) = fun[x] + SumFunctionOnSet(fun, t)
  BY <1>2, <1>3, <1>4, SumPick
<1> QED BY <1>2, <1>5, <1>6, <1>7

LEMMA SumNat ==
  ASSUME NEW fun, NEW S, IsFiniteSet(S), \A x \in S : fun[x] \in Nat
  PROVE  SumFunctionOnSet(fun, S) \in Nat
<1> DEFINE B == {s \in SUBSET S : SumFunctionOnSet(fun, s) \notin Nat}
<1> SUFFICES ASSUME B # {} PROVE FALSE
  OBVIOUS
<1>1. PICK s \in B : \A t \in B : Cardinality(s) <= Cardinality(t)
  BY LeastSet
<1>2. s \in SUBSET S /\ IsFiniteSet(s) /\ SumFunctionOnSet(fun, s) \notin Nat
  BY FS_Subset
<1>3. s # {}
  BY <1>2, SumEmpty
<1>4. PICK x, t : x = Pick(s) /\ t = s \ {x}
  OBVIOUS
<1>5. x \in S /\ t \in SUBSET S /\ ~(Cardinality(s) <= Cardinality(t))
  BY <1>2, <1>3, <1>4, Smaller DEF Pick
<1>6. SumFunctionOnSet(fun, t) \in Nat
  BY <1>1, <1>5
<1>7. SumFunctionOnSet(fun, s) = fun[x] + SumFunctionOnSet(fun, t)
  BY <1>2, <1>3, <1>4, SumPick
<1> QED BY <1>2, <1>5, <1>6, <1>7

(* The sum depends on nothing but the values at the elements.                *)
LEMMA SumSame ==
  ASSUME NEW fun, NEW gun, NEW S, IsFiniteSet(S), \A x \in S : fun[x] = gun[x]
  PROVE  SumFunctionOnSet(fun, S) = SumFunctionOnSet(gun, S)
<1> DEFINE B == {s \in SUBSET S : SumFunctionOnSet(fun, s) # SumFunctionOnSet(gun, s)}
<1> SUFFICES ASSUME B # {} PROVE FALSE
  OBVIOUS
<1>1. PICK s \in B : \A t \in B : Cardinality(s) <= Cardinality(t)
  BY LeastSet
<1>2. s \in SUBSET S /\ IsFiniteSet(s) /\ SumFunctionOnSet(fun, s) # SumFunctionOnSet(gun, s)
  BY FS_Subset
<1>3. s # {}
  BY <1>2, SumEmpty
<1>4. PICK x, t : x = Pick(s) /\ t = s \ {x}
  OBVIOUS
<1>5. x \in S /\ t \in SUBSET S /\ ~(Cardinality(s) <= Cardinality(t))
  BY <1>2, <1>3, <1>4, Smaller DEF Pick
<1>6. SumFunctionOnSet(fun, t) = SumFunctionOnSet(gun, t)
  BY <1>1, <1>5
<1>7. /\ SumFunctionOnSet(fun, s) = fun[x] + SumFunctionOnSet(fun, t)
      /\ SumFunctionOnSet(gun, s) = gun[x] + SumFunctionOnSet(gun, t)
  BY <1>2, <1>3, <1>4, SumPick
<1> QED BY <1>2, <1>5, <1>6, <1>7

(* Any element may be taken out first.                                       *)
LEMMA SumRemove ==
  ASSUME NEW fun, NEW S, IsFiniteSet(S), \A x \in S : fun[x] \in Int, NEW i \in S
  PROVE  SumFunctionOnSet(fun, S) = fun[i] + SumFunctionOnSet(fun, S \ {i})
<1> DEFINE Good(s) == \A j \in s : SumFunctionOnSet(fun, s) = fun[j] + SumFunctionOnSet(fun, s \ {j})
           B == {s \in SUBSET S : ~Good(s)}
<1> SUFFICES ASSUME B # {} PROVE FALSE
  OBVIOUS
<1>1. PICK s \in B : \A t \in B : Cardinality(s) <= Cardinality(t)
  <2> HIDE DEF Good
  <2> QED BY LeastSet
<1>2. s \in SUBSET S /\ IsFiniteSet(s)
  BY FS_Subset
<1>3. PICK j \in s : SumFunctionOnSet(fun, s) # fun[j] + SumFunctionOnSet(fun, s \ {j})
  OBVIOUS
<1>4. PICK x, t, u, w : x = Pick(s) /\ t = s \ {x} /\ u = s \ {j} /\ w = t \ {j}
  OBVIOUS
<1>5. x \in s
  BY <1>3, <1>4 DEF Pick
<1>6. SumFunctionOnSet(fun, s) = fun[x] + SumFunctionOnSet(fun, t)
  BY <1>2, <1>3, <1>4, SumPick
<1>7. x # j
  BY <1>3, <1>4, <1>6
<1>8. j \in t /\ x \in u /\ w = u \ {x} /\ {t, u, w} \subseteq SUBSET S
  BY <1>2, <1>3, <1>4, <1>5, <1>7
<1>9. ~(Cardinality(s) <= Cardinality(t)) /\ ~(Cardinality(s) <= Cardinality(u))
  BY <1>2, <1>3, <1>4, <1>5, Smaller
<1>10. Good(t) /\ Good(u)
  <2> HIDE DEF Good
  <2> QED BY <1>1, <1>8, <1>9
<1>11. /\ SumFunctionOnSet(fun, t) = fun[j] + SumFunctionOnSet(fun, w)
       /\ SumFunctionOnSet(fun, u) = fun[x] + SumFunctionOnSet(fun, w)
  BY <1>4, <1>8, <1>10
<1>12. fun[x] \in Int /\ fun[j] \in Int /\ SumFunctionOnSet(fun, w) \in Int
  BY <1>2, <1>3, <1>5, <1>8, SumInt
<1> QED BY <1>3, <1>4, <1>6, <1>11, <1>12

LEMMA SumAdd ==
  ASSUME NEW fun, NEW S, IsFiniteSet(S), NEW i, i \notin S, \A x \in S \cup {i} : fun[x] \in Int
  PROVE  SumFunctionOnSet(fun, S \cup {i}) = fun[i] + SumFunctionOnSet(fun, S)
<1>1. IsFiniteSet(S \cup {i}) /\ (S \cup {i}) \ {i} = S
  BY FS_AddElement
<1> QED BY <1>1, SumRemove

(* One value changes.                                                        *)
LEMMA SumChange ==
  ASSUME NEW fun, NEW gun, NEW S, IsFiniteSet(S), NEW i \in S,
         \A x \in S : fun[x] \in Int /\ gun[x] \in Int,
         \A x \in S \ {i} : fun[x] = gun[x]
  PROVE  SumFunctionOnSet(gun, S) = SumFunctionOnSet(fun, S) - fun[i] + gun[i]
<1>1. IsFiniteSet(S \ {i})
  BY FS_RemoveElement
<1>2. SumFunctionOnSet(fun, S \ {i}) = SumFunctionOnSet(gun, S \ {i})
  BY <1>1, SumSame
<1>3. /\ SumFunctionOnSet(fun, S) = fun[i] + SumFunctionOnSet(fun, S \ {i})
      /\ SumFunctionOnSet(gun, S) = gun[i] + SumFunctionOnSet(gun, S \ {i})
  BY SumRemove
<1>4. SumFunctionOnSet(fun, S \ {i}) \in Int
  BY SumInt
<1> QED BY <1>2, <1>3, <1>4

(* Elements of value 0 do not count.                                         *)
LEMMA SumZero ==
  ASSUME NEW fun, NEW S, IsFiniteSet(S), \A x \in S : fun[x] = 0
  PROVE  SumFunctionOnSet(fun, S) = 0
<1> DEFINE B == {s \in SUBSET S : SumFunctionOnSet(fun, s) # 0}
<1> SUFFICES ASSUME B # {} PROVE FALSE
  OBVIOUS
<1>1. PICK s \in B : \A t \in B : Cardinality(s) <= Cardinality(t)
  BY LeastSet
<1>2. s \in SUBSET S /\ IsFiniteSet(s) /\ SumFunctionOnSet(fun, s) # 0
  BY FS_Subset
<1>3. s # {}
  BY <1>2, SumEmpty
<1>4. PICK x, t : x = Pick(s) /\ t = s \ {x}
  OBVIOUS
<1>5. x \in S /\ t \in SUBSET S /\ ~(Cardinality(s) <= Cardinality(t))
  BY <1>2, <1>3, <1>4, Smaller DEF Pick
<1>6. SumFunctionOnSet(fun, t) = 0
  BY <1>1, <1>5
<1>7. SumFunctionOnSet(fun, s) = fun[x] + SumFunctionOnSet(fun, t)
  BY <1>2, <1>3, <1>4, SumPick
<1> QED BY <1>2, <1>5, <1>6, <1>7

(* Sums are added element by element.                                        *)
LEMMA SumPlus ==
  ASSUME NEW fun, NEW gun, NEW both, NEW S, IsFiniteSet(S),
         \A x \in S : fun[x] \in Int /\ gun[x] \in Int /\ both[x] = fun[x] + gun[x]
  PROVE  SumFunctionOnSet(both, S) = SumFunctionOnSet(fun, S) + SumFunctionOnSet(gun, S)
<1> DEFINE Good(s) == SumFunctionOnSet(both, s) = SumFunctionOnSet(fun, s) + SumFunctionOnSet(gun, s)
           B == {s \in SUBSET S : ~Good(s)}
<1> SUFFICES ASSUME B # {} PROVE FALSE
  OBVIOUS
<1>1. PICK s \in B : \A t \in B : Cardinality(s) <= Cardinality(t)
  <2> HIDE DEF Good
  <2> QED BY LeastSet
<1>2. s \in SUBSET S /\ IsFiniteSet(s) /\ ~Good(s)
  BY FS_Subset
<1>3. s # {}
  <2>1. Good({})
    <3>1. /\ SumFunctionOnSet(fun, {}) = 0 /\ SumFunctionOnSet(gun, {}) = 0
          /\ SumFunctionOnSet(both, {}) = 0
      BY SumEmpty
    <3> QED BY <3>1
  <2> HIDE DEF Good
  <2> QED BY <1>2, <2>1
<1>4. PICK x, t : x = Pick(s) /\ t = s \ {x}
  OBVIOUS
<1>5. x \in S /\ t \in SUBSET S /\ ~(Cardinality(s) <= Cardinality(t))
  BY <1>2, <1>3, <1>4, Smaller DEF Pick
<1>6. Good(t)
  BY <1>1, <1>5
<1>7. /\ SumFunctionOnSet(fun, s) = fun[x] + SumFunctionOnSet(fun, t)
      /\ SumFunctionOnSet(gun, s) = gun[x] + SumFunctionOnSet(gun, t)
      /\ SumFunctionOnSet(both, s) = both[x] + SumFunctionOnSet(both, t)
  BY <1>2, <1>3, <1>4, SumPick
<1>8. SumFunctionOnSet(fun, t) \in Int /\ SumFunctionOnSet(gun, t) \in Int
  BY <1>5, SumInt
<1> QED BY <1>2, <1>5, <1>6, <1>7, <1>8
===============================================================================
