----------------------------- MODULE SumProofs ------------------------------
(***************************************************************************)
(* What the proofs about recursive definitions rest on: induction over the *)
(* natural numbers, as a statement about sets of them, and the sums of     *)
(* Functions, which take the elements of a finite set in any order.        *)
(***************************************************************************)
EXTENDS Integers, Functions, FiniteSetTheorems, WellFoundedInduction, TLAPS

(* A set of natural numbers has a least element. *)
LEMMA LeastNatural ==
    ASSUME NEW T, T \subseteq Nat, T # {}
    PROVE  \E x \in T : \A y \in T : x <= y
<1>1. PICK x \in T : \A y \in T : <<y, x>> \notin OpToRel(<, Nat)
  BY NatLessThanWellFounded, WFMin, Zenon
<1>2. \A y \in T : ~(y < x)
  BY <1>1 DEF OpToRel
<1>3. QED
  BY <1>2

(* A set that has 0 and the successors of its members has every number. *)
LEMMA SetInduction ==
    ASSUME NEW T, 0 \in T, \A n \in Nat : n \in T => n + 1 \in T
    PROVE  \A n \in Nat : n \in T
<1>1. SUFFICES ASSUME Nat \ T # {} PROVE FALSE
  OBVIOUS
<1>2. PICK x \in Nat \ T : \A y \in Nat \ T : x <= y
  BY <1>1, LeastNatural
<1>3. x # 0 /\ x - 1 \in Nat /\ x - 1 \notin Nat \ T
  BY <1>2
<1>4. QED
  BY <1>2, <1>3
-----------------------------------------------------------------------------
(* The recursion that SumFunctionOnSet is defined by. *)
Picked(s) == CHOOSE x \in s : TRUE

Sums(h, f, S) ==
    h = [s \in SUBSET S |-> IF s = {} THEN 0 ELSE f[Picked(s)] + h[s \ {Picked(s)}]]

LEMMA PickedIsIn ==
    ASSUME NEW s, s # {}
    PROVE  Picked(s) \in s
BY DEF Picked

(* The subsets of a finite set, by their size. *)
LEMMA SmallerSubset ==
    ASSUME NEW S, IsFiniteSet(S), NEW s \in SUBSET S, s # {}
    PROVE  /\ s \ {Picked(s)} \in SUBSET S /\ IsFiniteSet(s)
           /\ Cardinality(s) \in Nat /\ Cardinality(s) > 0
           /\ Cardinality(s \ {Picked(s)}) = Cardinality(s) - 1
<1>1. Picked(s) \in s
  BY PickedIsIn
<1>2. IsFiniteSet(s)
  BY FS_Subset
<1>3. Cardinality(s) \in Nat /\ Cardinality(s) # 0
  BY <1>2, FS_CardinalityType, FS_EmptySet
<1>4. Cardinality(s \ {Picked(s)}) = Cardinality(s) - 1
  BY <1>1, <1>2, FS_RemoveElement
<1>5. QED
  BY <1>2, <1>3, <1>4

LEMMA SumsUnique ==
    ASSUME NEW f, NEW S, IsFiniteSet(S), NEW g, NEW h, Sums(g, f, S), Sums(h, f, S)
    PROVE  \A s \in SUBSET S : g[s] = h[s]
<1> DEFINE T == {n \in Nat : \A s \in SUBSET S : Cardinality(s) = n => g[s] = h[s]}
<1>a. \A s \in SUBSET S : IsFiniteSet(s) /\ Cardinality(s) \in Nat
  BY FS_Subset, FS_CardinalityType
<1>1. 0 \in T
  <2>1. ASSUME NEW s \in SUBSET S, Cardinality(s) = 0 PROVE g[s] = h[s]
    <3>1. s = {}
      BY <1>a, <2>1, FS_EmptySet
    <3>2. QED
      BY <3>1 DEF Sums
  <2>2. QED
    BY <2>1
<1>2. ASSUME NEW n \in Nat, n \in T PROVE n + 1 \in T
  <2>1. ASSUME NEW s \in SUBSET S, Cardinality(s) = n + 1 PROVE g[s] = h[s]
    <3>1. s # {}
      BY <2>1, FS_EmptySet
    <3>2. s \ {Picked(s)} \in SUBSET S /\ Cardinality(s \ {Picked(s)}) = n
      BY <2>1, <3>1, SmallerSubset
    <3>3. g[s \ {Picked(s)}] = h[s \ {Picked(s)}]
      BY <1>2, <3>2
    <3>4. QED
      BY <3>1, <3>3 DEF Sums
  <2>2. QED
    BY <2>1
<1>3. \A n \in Nat : n \in T
  <2> HIDE DEF T
  <2>1. QED
    BY <1>1, <1>2, SetInduction
<1>4. QED
  BY <1>a, <1>3

LEMMA SumsExist ==
    ASSUME NEW f, NEW S, IsFiniteSet(S)
    PROVE  \E h : Sums(h, f, S)
<1> DEFINE Body(h, s) == IF s = {} THEN 0 ELSE f[Picked(s)] + h[s \ {Picked(s)}]
           Upto(h, n) == \A s \in SUBSET S : Cardinality(s) <= n => h[s] = Body(h, s)
           T == {n \in Nat : \E h : Upto(h, n)}
<1>a. \A s \in SUBSET S : IsFiniteSet(s) /\ Cardinality(s) \in Nat
  BY FS_Subset, FS_CardinalityType
<1>b. \A s \in SUBSET S : s # {} =>
        /\ s \ {Picked(s)} \in SUBSET S /\ Cardinality(s) > 0
        /\ Cardinality(s \ {Picked(s)}) = Cardinality(s) - 1
  BY SmallerSubset
<1>1. 0 \in T
  <2>1. ASSUME NEW s \in SUBSET S, Cardinality(s) <= 0 PROVE s = {}
    <3>1. IsFiniteSet(s) /\ Cardinality(s) = 0
      BY <1>a, <2>1
    <3>2. QED
      BY <3>1, FS_EmptySet
  <2>2. Upto([s \in SUBSET S |-> 0], 0)
    BY <2>1
  <2>3. QED
    BY <2>2
<1>2. ASSUME NEW n \in Nat, n \in T PROVE n + 1 \in T
  <2>1. PICK h : Upto(h, n)
    BY <1>2
  <2> DEFINE g == [s \in SUBSET S |-> IF Cardinality(s) <= n THEN h[s] ELSE Body(h, s)]
  <2>2. ASSUME NEW s \in SUBSET S, Cardinality(s) <= n + 1 PROVE g[s] = Body(g, s)
    <3>1. CASE s = {}
      BY <2>1, <3>1
    <3>2. CASE s # {}
      <4>1. s \ {Picked(s)} \in SUBSET S /\ Cardinality(s \ {Picked(s)}) <= n
        BY <1>a, <1>b, <2>2, <3>2
      <4>2. g[s \ {Picked(s)}] = h[s \ {Picked(s)}]
        BY <4>1
      <4>3. g[s] = Body(h, s)
        BY <2>1
      <4>4. QED
        BY <3>2, <4>2, <4>3
    <3>3. QED
      BY <3>1, <3>2
  <2>3. Upto(g, n + 1)
    BY <2>2
  <2> HIDE DEF Upto, g
  <2>4. QED
    BY <2>3
<1>3. Cardinality(S) \in T
  <2>1. Cardinality(S) \in Nat
    BY <1>a
  <2> HIDE DEF T
  <2>2. QED
    BY <1>1, <1>2, <2>1, SetInduction
<1>4. PICK h : Upto(h, Cardinality(S))
  BY <1>3
<1>5. \A s \in SUBSET S : Cardinality(s) <= Cardinality(S)
  BY FS_Subset
<1>6. Sums([s \in SUBSET S |-> h[s]], f, S)
  BY <1>4, <1>5 DEF Sums
<1>7. QED
  BY <1>6

(* A sum over a finite set is what its recursion gives. *)
LEMMA SumIsSums ==
    ASSUME NEW f, NEW S, IsFiniteSet(S), NEW h, Sums(h, f, S)
    PROVE  SumFunctionOnSet(f, S) = h[S]
<1> DEFINE iter == CHOOSE g : Sums(g, f, S)
<1>1. Sums(iter, f, S)
  BY SumsExist, Zenon
<1>2. SumFunctionOnSet(f, S) = iter[S]
  BY Zenon DEF SumFunctionOnSet, FoldFunctionOnSet, MapThenFoldSet, Sums, Picked
<1> HIDE DEF iter
<1>3. QED
  BY <1>1, <1>2, SumsUnique

(* Sums over subsets of one set satisfy one recursion. *)
LEMMA SumsOfSubset ==
    ASSUME NEW f, NEW S, IsFiniteSet(S), NEW h, Sums(h, f, S), NEW s \in SUBSET S
    PROVE  SumFunctionOnSet(f, s) = h[s]
<1> DEFINE g == [t \in SUBSET s |-> h[t]]
<1>1. IsFiniteSet(s)
  BY FS_Subset
<1>2. \A t \in SUBSET s : t # {} => Picked(t) \in t
  BY PickedIsIn
<1>3. Sums(g, f, s)
  BY <1>2 DEF Sums
<1>4. QED
  BY <1>1, <1>3, SumIsSums

LEMMA SumEmpty ==
    ASSUME NEW f
    PROVE  SumFunctionOnSet(f, {}) = 0
BY DEF SumFunctionOnSet, FoldFunctionOnSet, MapThenFoldSet

LEMMA SumPicked ==
    ASSUME NEW f, NEW S, IsFiniteSet(S), S # {}
    PROVE  SumFunctionOnSet(f, S)
             = f[Picked(S)] + SumFunctionOnSet(f, S \ {Picked(S)})
<1>1. PICK h : Sums(h, f, S)
  BY SumsExist
<1>2. SumFunctionOnSet(f, S) = h[S]
  BY <1>1, SumIsSums
<1>3. SumFunctionOnSet(f, S \ {Picked(S)}) = h[S \ {Picked(S)}]
  BY <1>1, SumsOfSubset
<1>4. h[S] = f[Picked(S)] + h[S \ {Picked(S)}]
  BY <1>1 DEF Sums
<1>5. QED
  BY <1>2, <1>3, <1>4

(* Functions that agree on a set have the same sum over it. *)
LEMMA SumAgrees ==
    ASSUME NEW f, NEW g, NEW S, IsFiniteSet(S), \A x \in S : f[x] = g[x]
    PROVE  SumFunctionOnSet(f, S) = SumFunctionOnSet(g, S)
<1>1. PICK h : Sums(h, f, S)
  BY SumsExist
<1>2. \A s \in SUBSET S : s # {} => f[Picked(s)] = g[Picked(s)]
  BY PickedIsIn
<1>3. h = [s \in SUBSET S |-> IF s = {} THEN 0 ELSE f[Picked(s)] + h[s \ {Picked(s)}]]
  BY <1>1 DEF Sums
<1>4. Sums(h, g, S)
  BY <1>2, <1>3 DEF Sums
<1>5. QED
  BY <1>1, <1>4, SumIsSums

(* A sum of natural numbers is one. *)
LEMMA SumNatural ==
    ASSUME NEW f, NEW S, IsFiniteSet(S), \A x \in S : f[x] \in Nat
    PROVE  SumFunctionOnSet(f, S) \in Nat
<1> DEFINE Sum(s) == SumFunctionOnSet(f, s)
           T == {n \in Nat : \A s \in SUBSET S : Cardinality(s) = n => Sum(s) \in Nat}
<1>a. \A s \in SUBSET S : IsFiniteSet(s) /\ Cardinality(s) \in Nat
  BY FS_Subset, FS_CardinalityType
<1>1. 0 \in T
  <2>1. ASSUME NEW s \in SUBSET S, Cardinality(s) = 0 PROVE Sum(s) \in Nat
    <3>1. s = {}
      BY <1>a, <2>1, FS_EmptySet
    <3>2. QED
      BY <3>1, SumEmpty
  <2>2. QED
    BY <2>1
<1>2. ASSUME NEW n \in Nat, n \in T PROVE n + 1 \in T
  <2>1. ASSUME NEW s \in SUBSET S, Cardinality(s) = n + 1 PROVE Sum(s) \in Nat
    <3>1. s # {} /\ IsFiniteSet(s)
      BY <1>a, <2>1, FS_EmptySet
    <3>2. s \ {Picked(s)} \in SUBSET S /\ Cardinality(s \ {Picked(s)}) = n
      BY <2>1, <3>1, SmallerSubset
    <3>3. Sum(s \ {Picked(s)}) \in Nat
      BY <1>2, <3>2
    <3>4. f[Picked(s)] \in Nat
      BY <3>1, PickedIsIn
    <3>5. Sum(s) = f[Picked(s)] + Sum(s \ {Picked(s)})
      BY <3>1, SumPicked
    <3>6. QED
      BY <3>3, <3>4, <3>5
  <2>2. QED
    BY <2>1
<1>3. Cardinality(S) \in T
  <2>1. Cardinality(S) \in Nat
    BY <1>a
  <2> HIDE DEF T
  <2>2. QED
    BY <1>1, <1>2, <2>1, SetInduction
<1>4. QED
  BY <1>3

LEMMA SumZero ==
    ASSUME NEW f, NEW S, IsFiniteSet(S), \A x \in S : f[x] = 0
    PROVE  SumFunctionOnSet(f, S) = 0
<1> DEFINE h == [s \in SUBSET S |-> 0]
<1>1. \A s \in SUBSET S : s # {} => f[Picked(s)] = 0
  BY PickedIsIn
<1>2. Sums(h, f, S)
  BY <1>1 DEF Sums
<1>3. SumFunctionOnSet(f, S) = h[S]
  BY <1>2, SumIsSums
<1>4. QED
  BY <1>3

(* The element taken first does not matter. *)
LEMMA SumWithout ==
    ASSUME NEW f, NEW S, IsFiniteSet(S), \A x \in S : f[x] \in Nat, NEW y \in S
    PROVE  SumFunctionOnSet(f, S) = f[y] + SumFunctionOnSet(f, S \ {y})
<1> DEFINE Sum(s) == SumFunctionOnSet(f, s)
           Law(s) == \A x \in s : Sum(s) = f[x] + Sum(s \ {x})
           T      == {n \in Nat : \A s \in SUBSET S : Cardinality(s) = n => Law(s)}
<1>a. \A s \in SUBSET S : IsFiniteSet(s) /\ Cardinality(s) \in Nat
  BY FS_Subset, FS_CardinalityType
<1>b. \A s \in SUBSET S : Sum(s) \in Nat
  <2>1. ASSUME NEW s \in SUBSET S PROVE Sum(s) \in Nat
    BY <1>a, SumNatural
  <2>2. QED
    BY <2>1
<1>1. 0 \in T
  <2>1. ASSUME NEW s \in SUBSET S, Cardinality(s) = 0 PROVE Law(s)
    <3>1. s = {}
      BY <1>a, <2>1, FS_EmptySet
    <3>2. QED
      BY <3>1
  <2> HIDE DEF Law
  <2>2. QED
    BY <2>1
<1>2. ASSUME NEW n \in Nat, n \in T PROVE n + 1 \in T
  <2>0. ASSUME NEW s \in SUBSET S, Cardinality(s) = n PROVE Law(s)
    <3> HIDE DEF Law
    <3>1. QED
      BY <1>2, <2>0
  <2>1. ASSUME NEW s \in SUBSET S, Cardinality(s) = n + 1, NEW x \in s
        PROVE  Sum(s) = f[x] + Sum(s \ {x})
    <3>1. s # {} /\ IsFiniteSet(s)
      BY <1>a, <2>1
    <3>2. PICK p \in s : p = Picked(s)
      BY <3>1, PickedIsIn
    <3>3. \A z \in s : Cardinality(s \ {z}) = n
      <4>1. ASSUME NEW z \in s PROVE Cardinality(s \ {z}) = Cardinality(s) - 1
        BY <3>1, FS_RemoveElement
      <4>2. QED
        BY <2>1, <4>1
    <3>4. Law(s \ {x}) /\ Law(s \ {p})
      <4> HIDE DEF Law
      <4>1. QED
        BY <2>0, <3>3
    <3>5. Sum(s) = f[p] + Sum(s \ {p})
      BY <3>1, <3>2, SumPicked
    <3>6. CASE x = p
      BY <3>5, <3>6
    <3>7. CASE x # p
      <4> HIDE DEF Sum
      <4>1. PICK q \in Nat : q = Sum(s \ {p, x})
        BY <1>b
      <4>2. (s \ {p}) \ {x} = s \ {p, x} /\ (s \ {x}) \ {p} = s \ {p, x}
        OBVIOUS
      <4>3. Sum(s \ {p}) = f[x] + q
        BY <3>4, <3>7, <4>1, <4>2
      <4>4. Sum(s \ {x}) = f[p] + q
        BY <3>4, <3>7, <4>1, <4>2
      <4>5. f[x] \in Nat /\ f[p] \in Nat
        OBVIOUS
      <4>6. QED
        BY <3>5, <4>3, <4>4, <4>5
    <3>8. QED
      BY <3>6, <3>7
  <2>2. ASSUME NEW s \in SUBSET S, Cardinality(s) = n + 1 PROVE Law(s)
    BY <2>1, <2>2
  <2> HIDE DEF Law
  <2>3. QED
    BY <2>2
<1>3. Cardinality(S) \in T
  <2>1. Cardinality(S) \in Nat
    BY <1>a
  <2> HIDE DEF T
  <2>2. QED
    BY <1>1, <1>2, <2>1, SetInduction
<1>4. Law(S)
  <2> HIDE DEF Law
  <2>1. QED
    BY <1>3
<1>5. QED
  BY <1>4
-----------------------------------------------------------------------------
(* The sum of a whole function, and of one that is changed at a point. *)
LEMMA SumChanged ==
    ASSUME NEW S, IsFiniteSet(S), NEW f, NEW g, NEW y \in S,
           \A x \in S : f[x] \in Nat /\ g[x] \in Nat,
           \A x \in S \ {y} : g[x] = f[x]
    PROVE  SumFunctionOnSet(g, S) = SumFunctionOnSet(f, S) - f[y] + g[y]
<1>1. PICK q \in Nat : q = SumFunctionOnSet(f, S \ {y})
  BY FS_RemoveElement, SumNatural
<1>2. SumFunctionOnSet(g, S \ {y}) = q
  BY <1>1, FS_RemoveElement, SumAgrees
<1>3. SumFunctionOnSet(f, S) = f[y] + q
  BY <1>1, SumWithout
<1>4. SumFunctionOnSet(g, S) = g[y] + q
  BY <1>2, SumWithout
<1>5. QED
  BY <1>3, <1>4

(* The sum of the first numbers of a sequence, one more. *)
LEMMA SumNext ==
    ASSUME NEW k \in Nat, NEW f, \A i \in 1..(k + 1) : f[i] \in Nat
    PROVE  SumFunctionOnSet(f, 1..(k + 1)) = SumFunctionOnSet(f, 1..k) + f[k + 1]
<1>1. IsFiniteSet(1..(k + 1)) /\ IsFiniteSet(1..k)
  BY FS_Interval
<1>2. k + 1 \in 1..(k + 1) /\ (1..(k + 1)) \ {k + 1} = 1..k
  OBVIOUS
<1>3. SumFunctionOnSet(f, 1..(k + 1)) = f[k + 1] + SumFunctionOnSet(f, 1..k)
  BY <1>1, <1>2, SumWithout
<1>4. SumFunctionOnSet(f, 1..k) \in Nat
  BY <1>1, SumNatural
<1>5. QED
  BY <1>2, <1>3, <1>4
=============================================================================
