----------------------------- MODULE SumsAndFolds -----------------------------
(***************************************************************************)
(* What the proofs need of sums, folds and orders.  A sum over a finite set, *)
(* as the caches count their bytes, does not depend on the order in which    *)
(* MapThenSumSet takes the elements, so it grows by what is added and        *)
(* shrinks by what is removed; a fold along a sequence passes through one    *)
(* value per element; a finite set under a strict order has ranks.           *)
(***************************************************************************)
EXTENDS SequencesExt, SequenceTheorems, FiniteSetTheorems, WellFoundedInduction, TLAPS

SumOver(w, S) == MapThenSumSet(LAMBDA x : w[x], S)

(* A set of naturals has a least element.                                   *)
LEMMA LeastNatural ==
  ASSUME NEW T, T \subseteq Nat, T # {}
  PROVE  \E n \in T : \A m \in T : n <= m
<1>1. PICK x \in T : \A y \in T : ~(<<y, x>> \in OpToRel(<, Nat))
  BY NatLessThanWellFounded, WFMin
<1>2. \A y \in T : ~(y < x)
  BY <1>1 DEF OpToRel
<1> QED BY <1>2

(* Induction over how many elements there are.                              *)
LEMMA EveryNatural ==
  ASSUME NEW G, 0 \in G, \A n \in Nat : n \in G => n + 1 \in G
  PROVE  Nat \subseteq G
<1> DEFINE Rest == {n \in Nat : n \notin G}
<1>1. ASSUME Rest # {} PROVE FALSE
  <2>1. PICK n \in Rest : \A m \in Rest : n <= m
    <3>1. Rest \subseteq Nat
      OBVIOUS
    <3> HIDE DEF Rest
    <3> QED BY <1>1, <3>1, LeastNatural
  <2>2. n \in Nat /\ n # 0
    OBVIOUS
  <2>3. n - 1 \in Nat /\ ~(n - 1 \in Rest)
    BY <2>1, <2>2
  <2> QED BY <2>2, <2>3
<1> QED BY <1>1

-----------------------------------------------------------------------------
(* The recursion behind a sum: an element is taken away at a time.          *)
One(s) == CHOOSE x \in s : TRUE
Added(w, f, s) == IF s = {} THEN 0 ELSE w[One(s)] + f[s \ {One(s)}]
Adds(w, f, S) == \A s \in SUBSET S : f[s] = Added(w, f, s)
Naturals(w, S) == \A x \in S : w[x] \in Nat
Integers(w, S) == \A x \in S : w[x] \in Int
Named(name, S) == {name[x] : x \in S}
Injects(name, S) == \A x, y \in S : name[x] = name[y] => x = y
Small(S, n) == {s \in SUBSET S : Cardinality(s) <= n}

(* The element that is taken first is one of the set.                       *)
LEMMA OneIsIn == \A s : s # {} => One(s) \in s
BY DEF One

(* A set without one of its elements is smaller.                            *)
LEMMA SmallerIsSmall ==
  ASSUME NEW S, IsFiniteSet(S), NEW n \in Nat, NEW s \in Small(S, n + 1), NEW x \in s
  PROVE  s \ {x} \in Small(S, n)
<1>1. IsFiniteSet(s) /\ Cardinality(s) \in Nat
  BY FS_Subset, FS_CardinalityType DEF Small
<1>2. Cardinality(s \ {x}) = Cardinality(s) - 1
  BY <1>1, FS_RemoveElement
<1> QED BY <1>1, <1>2 DEF Small

(* Of no elements there is the empty set.                                   *)
LEMMA SmallestIsEmpty ==
  ASSUME NEW S, IsFiniteSet(S), NEW s \in Small(S, 0)
  PROVE  s = {}
<1>1. IsFiniteSet(s) /\ Cardinality(s) \in Nat
  BY FS_Subset, FS_CardinalityType DEF Small
<1> QED BY <1>1, FS_EmptySet DEF Small

(* Every set is as small as itself.                                         *)
LEMMA AllAreSmall ==
  ASSUME NEW S, IsFiniteSet(S)
  PROVE  Cardinality(S) \in Nat /\ SUBSET S = Small(S, Cardinality(S))
BY FS_Subset, FS_CardinalityType DEF Small

(* Some function adds up, on sets of ever more elements.                    *)
LEMMA SomeAdds ==
  ASSUME NEW w, NEW S, IsFiniteSet(S)
  PROVE  \E f : Adds(w, f, S)
<1> DEFINE Good == {n \in Nat : \E f : \A s \in Small(S, n) : f[s] = Added(w, f, s)}
<1>1. 0 \in Good
  <2> DEFINE f == [s \in {{}} |-> 0]
  <2>1. \A s \in Small(S, 0) : f[s] = Added(w, f, s)
    BY SmallestIsEmpty DEF Added
  <2> QED BY <2>1
<1>2. ASSUME NEW n \in Nat, n \in Good PROVE n + 1 \in Good
  <2>1. PICK f : \A s \in Small(S, n) : f[s] = Added(w, f, s)
    BY <1>2
  <2> DEFINE g == [s \in Small(S, n + 1) |-> Added(w, f, s)]
  <2>2. Small(S, n) \subseteq Small(S, n + 1)
    BY FS_Subset, FS_CardinalityType DEF Small
  <2>3. \A s \in Small(S, n) : g[s] = f[s]
    BY <2>1, <2>2
  <2>4. \A s \in Small(S, n + 1) : Added(w, f, s) = Added(w, g, s)
    <3> TAKE s \in Small(S, n + 1)
    <3>1. CASE s = {}
      BY <3>1 DEF Added
    <3>2. CASE s # {}
      <4>1. s \ {One(s)} \in Small(S, n)
        BY <3>2, OneIsIn, SmallerIsSmall
      <4>2. g[s \ {One(s)}] = f[s \ {One(s)}]
        BY <2>3, <4>1
      <4> HIDE DEF g
      <4> QED BY <3>2, <4>2 DEF Added
    <3> QED BY <3>1, <3>2
  <2>5. \A s \in Small(S, n + 1) : g[s] = Added(w, g, s)
    BY <2>4
  <2>6. \E h : \A s \in Small(S, n + 1) : h[s] = Added(w, h, s)
    <3> HIDE DEF g
    <3> QED BY <2>5
  <2> QED BY <2>6
<1>3. Nat \subseteq Good
  <2> HIDE DEF Good
  <2> QED BY <1>1, <1>2, EveryNatural
<1>4. Cardinality(S) \in Good /\ SUBSET S = Small(S, Cardinality(S))
  <2> HIDE DEF Good
  <2> QED BY <1>3, AllAreSmall
<1>5. PICK f : \A s \in Small(S, Cardinality(S)) : f[s] = Added(w, f, s)
  BY <1>4
<1> QED BY <1>4, <1>5 DEF Adds

(* Any function that adds up has integers, and may take any element first.   *)
LEMMA AddsAnyOrder ==
  ASSUME NEW w, NEW S, IsFiniteSet(S), Integers(w, S), NEW f, Adds(w, f, S)
  PROVE  \A s \in SUBSET S : f[s] \in Int /\ \A x \in s : f[s] = w[x] + f[s \ {x}]
<1> DEFINE Sound(s) == f[s] \in Int /\ \A x \in s : f[s] = w[x] + f[s \ {x}]
           Good == {n \in Nat : \A s \in Small(S, n) : Sound(s)}
<1>0. Sound({})
  <2>1. f[{}] = Added(w, f, {})
    BY DEF Adds
  <2> QED BY <2>1 DEF Added
<1> HIDE DEF Sound
<1>1. 0 \in Good
  BY <1>0, SmallestIsEmpty
<1>2. ASSUME NEW n \in Nat, n \in Good PROVE n + 1 \in Good
  <2> SUFFICES ASSUME NEW s \in Small(S, n + 1), s # {} PROVE Sound(s)
    BY <1>0
  <2> USE DEF Sound
  <2> DEFINE y == One(s)
  <2>1. y \in s /\ s \in SUBSET S /\ s \ {y} \in Small(S, n)
    BY OneIsIn, SmallerIsSmall DEF Small
  <2>2. f[s] = w[y] + f[s \ {y}]
    BY <2>1 DEF Adds, Added
  <2>3. f[s] \in Int
    BY <1>2, <2>1, <2>2 DEF Integers
  <2>4. ASSUME NEW x \in s, x # y PROVE f[s] = w[x] + f[s \ {x}]
    <3> HIDE DEF y
    <3>1. s \ {x} \in Small(S, n)
      BY SmallerIsSmall
    <3>2. f[s \ {y}] = w[x] + f[(s \ {y}) \ {x}]
      BY <1>2, <2>1, <2>4
    <3>3. f[s \ {x}] = w[y] + f[(s \ {x}) \ {y}]
      BY <1>2, <2>1, <2>4, <3>1
    <3>4. (s \ {y}) \ {x} = (s \ {x}) \ {y}
      OBVIOUS
    <3>5. w[x] \in Int /\ w[y] \in Int
      BY <2>1 DEF Integers
    <3>6. f[(s \ {x}) \ {y}] \in Int
      <4>1. (s \ {x}) \ {y} \in Small(S, n)
        <5>1. s \ {x} \in Small(S, n + 1)
          BY <3>1, FS_Subset, FS_CardinalityType DEF Small
        <5> QED BY <2>1, <2>4, <5>1, SmallerIsSmall
      <4> QED BY <1>2, <4>1
    <3> DEFINE r == f[(s \ {x}) \ {y}]
    <3>7. f[s] = w[y] + (w[x] + r) /\ f[s \ {x}] = w[y] + r
      BY <2>2, <3>2, <3>3, <3>4
    <3>8. r \in Int
      BY <3>6
    <3> HIDE DEF r
    <3>9. w[y] + (w[x] + r) = w[x] + (w[y] + r)
      BY <3>5, <3>8
    <3> QED BY <3>7, <3>9
  <2> QED BY <2>2, <2>3, <2>4
<1>3. Nat \subseteq Good
  <2> HIDE DEF Good
  <2> QED BY <1>1, <1>2, EveryNatural
<1>4. Cardinality(S) \in Good /\ SUBSET S = Small(S, Cardinality(S))
  <2> HIDE DEF Good
  <2> QED BY <1>3, AllAreSmall
<1>5. \A s \in SUBSET S : Sound(s)
  BY <1>4
<1> QED BY <1>5 DEF Sound

(* It has naturals if all are.                                              *)
LEMMA AddsNaturals ==
  ASSUME NEW w, NEW S, IsFiniteSet(S), Naturals(w, S), NEW f, Adds(w, f, S)
  PROVE  \A s \in SUBSET S : f[s] \in Nat
<1> DEFINE Good == {n \in Nat : \A s \in Small(S, n) : f[s] \in Nat}
<1>1. 0 \in Good
  BY SmallestIsEmpty DEF Adds, Added
<1>2. ASSUME NEW n \in Nat, n \in Good PROVE n + 1 \in Good
  <2> SUFFICES ASSUME NEW s \in Small(S, n + 1) PROVE f[s] \in Nat
    OBVIOUS
  <2>1. s \in SUBSET S
    BY DEF Small
  <2>2. CASE s = {}
    BY <2>1, <2>2 DEF Adds, Added
  <2>3. CASE s # {}
    <3>1. One(s) \in S /\ f[s \ {One(s)}] \in Nat
      BY <1>2, <2>1, <2>3, OneIsIn, SmallerIsSmall
    <3> QED BY <2>1, <2>3, <3>1 DEF Adds, Added, Naturals
  <2> QED BY <2>2, <2>3
<1>3. Nat \subseteq Good
  <2> HIDE DEF Good
  <2> QED BY <1>1, <1>2, EveryNatural
<1>4. Cardinality(S) \in Good /\ SUBSET S = Small(S, Cardinality(S))
  <2> HIDE DEF Good
  <2> QED BY <1>3, AllAreSmall
<1> QED BY <1>4

(* There is one function that adds up.                                      *)
LEMMA AddsOnce ==
  ASSUME NEW w, NEW S, IsFiniteSet(S), NEW f, Adds(w, f, S), NEW g, Adds(w, g, S)
  PROVE  \A s \in SUBSET S : f[s] = g[s]
<1> DEFINE Good == {n \in Nat : \A s \in Small(S, n) : f[s] = g[s]}
<1>1. 0 \in Good
  BY SmallestIsEmpty DEF Adds, Added
<1>2. ASSUME NEW n \in Nat, n \in Good PROVE n + 1 \in Good
  <2> SUFFICES ASSUME NEW s \in Small(S, n + 1) PROVE f[s] = g[s]
    OBVIOUS
  <2>1. s \in SUBSET S
    BY DEF Small
  <2>2. CASE s = {}
    BY <2>1, <2>2 DEF Adds, Added
  <2>3. CASE s # {}
    <3>1. f[s \ {One(s)}] = g[s \ {One(s)}]
      BY <1>2, <2>3, OneIsIn, SmallerIsSmall
    <3> QED BY <2>1, <2>3, <3>1 DEF Adds, Added
  <2> QED BY <2>2, <2>3
<1>3. Nat \subseteq Good
  <2> HIDE DEF Good
  <2> QED BY <1>1, <1>2, EveryNatural
<1>4. Cardinality(S) \in Good /\ SUBSET S = Small(S, Cardinality(S))
  <2> HIDE DEF Good
  <2> QED BY <1>3, AllAreSmall
<1> QED BY <1>4

(* MapThenSumSet is that function.                                          *)
LEMMA SumAdds ==
  ASSUME NEW w, NEW S, IsFiniteSet(S), NEW f, Adds(w, f, S)
  PROVE  SumOver(w, S) = f[S]
<1> DEFINE Equation(h) ==
             h = [s \in SUBSET S |-> IF s = {} THEN 0 ELSE LET x == CHOOSE x \in s : TRUE IN w[x] + h[s \ {x}]]
           iter == CHOOSE h : Equation(h)
<1>1. SumOver(w, S) = iter[S]
  BY DEF SumOver, MapThenSumSet, MapThenFoldSet
<1>2. Equation([s \in SUBSET S |-> f[s]])
  <2> DEFINE h == [s \in SUBSET S |-> f[s]]
  <2>1. \A s \in SUBSET S : h[s] = Added(w, h, s)
    <3> TAKE s \in SUBSET S
    <3>1. f[s] = Added(w, f, s)
      BY DEF Adds
    <3>2. s \ {One(s)} \in SUBSET S
      OBVIOUS
    <3>3. Added(w, f, s) = Added(w, h, s)
      BY <3>2 DEF Added
    <3> QED BY <3>1, <3>3
  <2>2. h = [s \in SUBSET S |-> Added(w, h, s)]
    BY <2>1
  <2> QED BY <2>2 DEF Added, One
<1>3. Equation(iter)
  BY <1>2
<1> HIDE DEF iter
<1>4. Adds(w, iter, S)
  BY <1>3 DEF Adds, Added, One
<1> QED BY <1>1, <1>4, AddsOnce

-----------------------------------------------------------------------------
(* The sum of nothing is zero.                                              *)
THEOREM SumEmpty == \A w : SumOver(w, {}) = 0
<1> SUFFICES ASSUME NEW w PROVE SumOver(w, {}) = 0
  OBVIOUS
<1>1. IsFiniteSet({})
  BY FS_EmptySet
<1>2. PICK f : Adds(w, f, {})
  BY <1>1, SomeAdds
<1>3. SumOver(w, {}) = f[{}]
  BY <1>1, <1>2, SumAdds
<1> QED BY <1>2, <1>3 DEF Adds, Added

(* A sum is an element and the sum of the others, whichever element it is.   *)
THEOREM IntegerSumSplits ==
  ASSUME NEW w, NEW S, IsFiniteSet(S), Integers(w, S)
  PROVE  SumOver(w, S) \in Int /\ \A x \in S : SumOver(w, S) = w[x] + SumOver(w, S \ {x})
<1>1. PICK f : Adds(w, f, S)
  BY SomeAdds
<1>2. SumOver(w, S) = f[S]
  BY <1>1, SumAdds
<1>3. \A x \in S : SumOver(w, S \ {x}) = f[S \ {x}]
  <2> TAKE x \in S
  <2>1. IsFiniteSet(S \ {x})
    BY FS_RemoveElement
  <2>2. Adds(w, f, S \ {x})
    BY <1>1 DEF Adds
  <2> QED BY <2>1, <2>2, SumAdds
<1>4. \A s \in SUBSET S : f[s] \in Int /\ \A x \in s : f[s] = w[x] + f[s \ {x}]
  BY <1>1, AddsAnyOrder
<1> QED BY <1>2, <1>3, <1>4

(* Of naturals it is a natural.                                             *)
THEOREM SumSplits ==
  ASSUME NEW w, NEW S, IsFiniteSet(S), Naturals(w, S)
  PROVE  SumOver(w, S) \in Nat /\ \A x \in S : SumOver(w, S) = w[x] + SumOver(w, S \ {x})
<1>1. PICK f : Adds(w, f, S)
  BY SomeAdds
<1>2. SumOver(w, S) = f[S]
  BY <1>1, SumAdds
<1>3. SumOver(w, S) \in Nat
  BY <1>1, <1>2, AddsNaturals
<1>4. Integers(w, S)
  BY DEF Integers, Naturals
<1> QED BY <1>3, <1>4, IntegerSumSplits

(* The elements may be renamed, as long as no two get one name.              *)
THEOREM SumRenamed ==
  ASSUME NEW w, NEW v, NEW S, IsFiniteSet(S), Integers(w, S), NEW name,
         Injects(name, S), \A x \in S : v[name[x]] = w[x]
  PROVE  SumOver(v, Named(name, S)) = SumOver(w, S)
<1> DEFINE Good == {n \in Nat : \A s \in Small(S, n) : SumOver(v, Named(name, s)) = SumOver(w, s)}
<1>1. 0 \in Good
  <2> SUFFICES ASSUME NEW s \in Small(S, 0) PROVE SumOver(v, Named(name, s)) = SumOver(w, s)
    OBVIOUS
  <2>1. s = {}
    BY SmallestIsEmpty
  <2>2. Named(name, s) = {}
    BY <2>1 DEF Named
  <2> QED BY <2>1, <2>2, SumEmpty
<1>2. ASSUME NEW n \in Nat, n \in Good PROVE n + 1 \in Good
  <2> SUFFICES ASSUME NEW s \in Small(S, n + 1) PROVE SumOver(v, Named(name, s)) = SumOver(w, s)
    OBVIOUS
  <2>1. CASE s = {}
    <3>1. Named(name, s) = {}
      BY <2>1 DEF Named
    <3> QED BY <2>1, <3>1, SumEmpty
  <2>2. CASE s # {}
    <3>1. PICK x \in s : TRUE
      BY <2>2
    <3>2. s \subseteq S /\ s \ {x} \in Small(S, n)
      BY SmallerIsSmall DEF Small
    <3>3. IsFiniteSet(s) /\ IsFiniteSet(Named(name, s))
      <4>1. IsFiniteSet(s)
        BY <3>2, FS_Subset
      <4> DEFINE named == [y \in s |-> name[y]]
      <4>2. named \in Surjection(s, Named(name, s))
        BY DEF Surjection, Named
      <4> HIDE DEF named
      <4> QED BY <4>1, <4>2, FS_Surjection
    <3>4. Integers(w, s) /\ Integers(v, Named(name, s))
      BY <3>2 DEF Integers, Named
    <3>5. SumOver(w, s) = w[x] + SumOver(w, s \ {x})
      BY <3>3, <3>4, IntegerSumSplits
    <3>6. name[x] \in Named(name, s) /\ Named(name, s) \ {name[x]} = Named(name, s \ {x})
      BY <3>1, <3>2 DEF Named, Injects
    <3>7. SumOver(v, Named(name, s)) = v[name[x]] + SumOver(v, Named(name, s) \ {name[x]})
      BY <3>3, <3>4, <3>6, IntegerSumSplits
    <3>8. SumOver(v, Named(name, s \ {x})) = SumOver(w, s \ {x})
      BY <1>2, <3>2
    <3> QED BY <3>2, <3>5, <3>6, <3>7, <3>8
  <2> QED BY <2>1, <2>2
<1>3. Nat \subseteq Good
  <2> HIDE DEF Good
  <2> QED BY <1>1, <1>2, EveryNatural
<1>4. Cardinality(S) \in Good /\ S \in Small(S, Cardinality(S))
  <2> HIDE DEF Good
  <2> QED BY <1>3, AllAreSmall
<1> QED BY <1>4

(* The sum of two sets that share nothing is that of one and of the other.   *)
THEOREM SumUnion ==
  ASSUME NEW w, NEW S, IsFiniteSet(S), NEW T, IsFiniteSet(T), S \cap T = {}, Integers(w, S), Integers(w, T)
  PROVE  SumOver(w, S \cup T) = SumOver(w, S) + SumOver(w, T)
<1> DEFINE Good == {n \in Nat : \A t \in Small(T, n) : SumOver(w, S \cup t) = SumOver(w, S) + SumOver(w, t)}
<1>1. SumOver(w, S) \in Int
  BY IntegerSumSplits
<1>2. 0 \in Good
  <2>1. \A t \in Small(T, 0) : SumOver(w, S \cup t) = SumOver(w, S) + SumOver(w, t)
    <3> TAKE t \in Small(T, 0)
    <3>1. t = {} /\ S \cup t = S
      BY SmallestIsEmpty
    <3> QED BY <1>1, <3>1, SumEmpty
  <2> QED BY <2>1
<1>3. ASSUME NEW n \in Nat, n \in Good PROVE n + 1 \in Good
  <2> SUFFICES ASSUME NEW t \in Small(T, n + 1)
               PROVE  SumOver(w, S \cup t) = SumOver(w, S) + SumOver(w, t)
    OBVIOUS
  <2>1. CASE t = {}
    BY <1>1, <2>1, SumEmpty
  <2>2. CASE t # {}
    <3>1. PICK x \in t : TRUE
      BY <2>2
    <3>2. t \subseteq T /\ t \ {x} \in Small(T, n)
      BY SmallerIsSmall DEF Small
    <3>3. IsFiniteSet(t) /\ IsFiniteSet(S \cup t) /\ IsFiniteSet(t \ {x})
      BY <3>2, FS_Subset, FS_Union, FS_RemoveElement
    <3>4. Integers(w, t) /\ Integers(w, S \cup t) /\ Integers(w, t \ {x})
      BY <3>2 DEF Integers
    <3>5. SumOver(w, S \cup t) = w[x] + SumOver(w, (S \cup t) \ {x})
      BY <3>3, <3>4, IntegerSumSplits
    <3>6. (S \cup t) \ {x} = S \cup (t \ {x})
      BY <3>2
    <3>7. SumOver(w, S \cup (t \ {x})) = SumOver(w, S) + SumOver(w, t \ {x})
      BY <1>3, <3>2
    <3>8. SumOver(w, t) = w[x] + SumOver(w, t \ {x}) /\ SumOver(w, t \ {x}) \in Int /\ w[x] \in Int
      <4>1. SumOver(w, t \ {x}) \in Int
        BY <3>3, <3>4, IntegerSumSplits
      <4>2. SumOver(w, t) = w[x] + SumOver(w, t \ {x})
        BY <3>3, <3>4, IntegerSumSplits
      <4> QED BY <3>4, <4>1, <4>2 DEF Integers
    <3> DEFINE a == SumOver(w, S)
               b == SumOver(w, t \ {x})
               y == w[x]
    <3>9. SumOver(w, S \cup t) = y + (a + b) /\ SumOver(w, t) = y + b
      BY <3>5, <3>6, <3>7, <3>8
    <3>10. a \in Int /\ b \in Int /\ y \in Int
      BY <1>1, <3>8
    <3>11. SumOver(w, S) = a
      OBVIOUS
    <3> HIDE DEF a, b, y
    <3>12. y + (a + b) = a + (y + b)
      BY <3>10
    <3> QED BY <3>9, <3>11, <3>12
  <2> QED BY <2>1, <2>2
<1>4. Nat \subseteq Good
  <2> HIDE DEF Good
  <2> QED BY <1>2, <1>3, EveryNatural
<1>5. Cardinality(T) \in Good /\ T \in Small(T, Cardinality(T))
  <2> HIDE DEF Good
  <2> QED BY <1>4, AllAreSmall
<1> QED BY <1>5

(* What is taken away is taken from the sum.                                *)
THEOREM SumDifference ==
  ASSUME NEW w, NEW S, IsFiniteSet(S), NEW T, T \subseteq S, Naturals(w, S)
  PROVE  /\ SumOver(w, S \ T) = SumOver(w, S) - SumOver(w, T)
         /\ SumOver(w, T) \in Nat /\ SumOver(w, S \ T) \in Nat /\ SumOver(w, S) \in Nat
<1>1. IsFiniteSet(T) /\ IsFiniteSet(S \ T) /\ T \cap (S \ T) = {} /\ T \cup (S \ T) = S
  BY FS_Subset
<1>2. Naturals(w, T) /\ Naturals(w, S \ T)
  BY DEF Naturals
<1>3. SumOver(w, T \cup (S \ T)) = SumOver(w, T) + SumOver(w, S \ T)
  BY <1>1, <1>2, SumUnion DEF Integers, Naturals
<1>4. SumOver(w, T) \in Nat /\ SumOver(w, S \ T) \in Nat /\ SumOver(w, S) \in Nat
  BY <1>1, <1>2, SumSplits
<1> QED BY <1>1, <1>3, <1>4

-----------------------------------------------------------------------------
(* Along a sequence *)

SumAlong(q) == SumOver(q, DOMAIN q)

(* The recursion behind a FoldLeft that adds up: the last index first.       *)
ByMax(w, D, h) == h = [s \in SUBSET D |-> IF s = {} THEN 0 ELSE h[s \ {Max(s)}] + w[Max(s)]]

(* A set of indices has a last one.                                         *)
LEMMA LastIndex ==
  ASSUME NEW n \in Nat, NEW s, s \subseteq 1..n, s # {}
  PROVE  Max(s) \in s
<1> DEFINE back == {n - x : x \in s}
<1>0. \A x \in s : x \in Int /\ n - x \in Nat
  <2>1. \A x \in 1..n : x \in Int /\ n - x \in Nat
    OBVIOUS
  <2> QED BY <2>1
<1>1. back \subseteq Nat /\ back # {}
  BY <1>0
<1>2. PICK b \in back : \A c \in back : b <= c
  <2> HIDE DEF back
  <2> QED BY <1>1, LeastNatural
<1>3. PICK x \in s : b = n - x
  OBVIOUS
<1>4. \A y \in s : n - x <= n - y
  BY <1>2, <1>3
<1>5. \A y \in s : x \in Int /\ y \in Int
  BY <1>0
<1>6. \A y \in s : x >= y
  BY <1>4, <1>5
<1> QED BY <1>6 DEF Max

(* Adding up by last indices is the sum.                                    *)
THEOREM SumByMax ==
  ASSUME NEW n \in Nat, NEW w, Integers(w, 1..n)
  PROVE  /\ \E h : ByMax(w, 1..n, h)
         /\ \A h : ByMax(w, 1..n, h) => h[1..n] = SumOver(w, 1..n)
<1>1. IsFiniteSet(1..n)
  BY FS_Interval
<1>2. ASSUME NEW s \in SUBSET (1..n), s # {}
      PROVE  /\ Max(s) \in s /\ SumOver(w, s) = SumOver(w, s \ {Max(s)}) + w[Max(s)]
  <2>1. Max(s) \in s
    BY <1>2, LastIndex
  <2>2. /\ IsFiniteSet(s) /\ IsFiniteSet(s \ {Max(s)})
        /\ Integers(w, s) /\ Integers(w, s \ {Max(s)})
    BY <1>1, FS_Subset DEF Integers
  <2>3. SumOver(w, s) = w[Max(s)] + SumOver(w, s \ {Max(s)})
    BY <2>1, <2>2, IntegerSumSplits
  <2>4. SumOver(w, s \ {Max(s)}) \in Int /\ w[Max(s)] \in Int
    BY <2>1, <2>2, IntegerSumSplits DEF Integers
  <2> QED BY <2>1, <2>3, <2>4
<1>3. \E h : ByMax(w, 1..n, h)
  <2> DEFINE h == [s \in SUBSET (1..n) |-> SumOver(w, s)]
  <2>1. \A s \in SUBSET (1..n) : h[s] = IF s = {} THEN 0 ELSE h[s \ {Max(s)}] + w[Max(s)]
    BY <1>2, SumEmpty
  <2>2. h = [s \in SUBSET (1..n) |-> IF s = {} THEN 0 ELSE h[s \ {Max(s)}] + w[Max(s)]]
    BY <2>1
  <2> HIDE DEF h
  <2> QED BY <2>2 DEF ByMax
<1>4. ASSUME NEW h, ByMax(w, 1..n, h) PROVE h[1..n] = SumOver(w, 1..n)
  <2>1. \A s \in SUBSET (1..n) : h[s] = IF s = {} THEN 0 ELSE h[s \ {Max(s)}] + w[Max(s)]
    BY <1>4 DEF ByMax
  <2> DEFINE Good == {k \in Nat : \A s \in Small(1..n, k) : h[s] = SumOver(w, s)}
  <2>2. 0 \in Good
    BY <1>1, <2>1, SmallestIsEmpty, SumEmpty
  <2>3. ASSUME NEW k \in Nat, k \in Good PROVE k + 1 \in Good
    <3> SUFFICES ASSUME NEW s \in Small(1..n, k + 1) PROVE h[s] = SumOver(w, s)
      OBVIOUS
    <3>1. s \in SUBSET (1..n)
      BY DEF Small
    <3>2. CASE s = {}
      BY <2>1, <3>2, SumEmpty
    <3>3. CASE s # {}
      <4>1. Max(s) \in s
        BY <1>2, <3>1, <3>3
      <4>2. s \ {Max(s)} \in Small(1..n, k)
        BY <1>1, <4>1, SmallerIsSmall
      <4>3. h[s \ {Max(s)}] = SumOver(w, s \ {Max(s)})
        BY <2>3, <4>2
      <4> QED BY <1>2, <2>1, <3>1, <3>3, <4>3
    <3> QED BY <3>2, <3>3
  <2>4. Nat \subseteq Good
    <3> HIDE DEF Good
    <3> QED BY <2>2, <2>3, EveryNatural
  <2>5. Cardinality(1..n) \in Good /\ (1..n) \in Small(1..n, Cardinality(1..n))
    <3> HIDE DEF Good
    <3> QED BY <1>1, <2>4, AllAreSmall
  <2> QED BY <2>5
<1> QED BY <1>3, <1>4

(* The sum along two sequences, one after the other, is that of both.        *)
THEOREM SumAlongConcat ==
  ASSUME NEW q \in Seq(Int), NEW r \in Seq(Int)
  PROVE  /\ SumAlong(q \o r) = SumAlong(q) + SumAlong(r)
         /\ SumAlong(q) \in Int /\ SumAlong(r) \in Int
<1> DEFINE m == Len(q)
           n == Len(r)
           both == q \o r
           later == {m + i : i \in 1..n}
<1>1. /\ m \in Nat /\ n \in Nat /\ DOMAIN q = 1..m /\ DOMAIN r = 1..n
      /\ \A i \in 1..m : q[i] \in Int
      /\ \A i \in 1..n : r[i] \in Int
  OBVIOUS
<1>2. /\ both \in Seq(Int) /\ Len(both) = m + n /\ DOMAIN both = 1..(m + n)
      /\ \A i \in 1..m : both[i] = q[i]
      /\ \A i \in 1..n : both[m + i] = r[i]
  OBVIOUS
<1> HIDE DEF both, m, n
<1>3. /\ IsFiniteSet(1..m) /\ IsFiniteSet(1..n) /\ IsFiniteSet(1..(m + n))
  BY <1>1, FS_Interval
<1>4. 1..(m + n) = (1..m) \cup later /\ (1..m) \cap later = {}
  <2>1. \A i \in 1..(m + n) : i \in 1..m \/ (i = m + (i - m) /\ i - m \in 1..n)
    BY <1>1
  <2>2. \A i \in 1..n : m + i \in 1..(m + n) /\ m + i \notin 1..m
    BY <1>1
  <2>3. \A i \in 1..m : i \in 1..(m + n)
    BY <1>1
  <2> QED BY <2>1, <2>2, <2>3
<1>5. Integers(q, 1..m) /\ Integers(r, 1..n) /\ Integers(both, 1..m) /\ Integers(both, later)
  BY <1>1, <1>2 DEF Integers
<1>6. IsFiniteSet(later)
  BY <1>3, <1>4, FS_Subset
<1> HIDE DEF later
<1>7. SumOver(both, 1..(m + n)) = SumOver(both, 1..m) + SumOver(both, later)
  <2>1. SumOver(both, (1..m) \cup later) = SumOver(both, 1..m) + SumOver(both, later)
    BY <1>3, <1>4, <1>5, <1>6, SumUnion
  <2> QED BY <1>4, <2>1
<1>8. SumOver(both, 1..m) = SumOver(q, 1..m)
  <2> DEFINE name == [i \in 1..m |-> i]
  <2>1. Named(name, 1..m) = 1..m
    BY DEF Named
  <2>2. /\ Injects(name, 1..m)
        /\ \A x \in 1..m : both[name[x]] = q[x]
    BY <1>2 DEF Injects
  <2> HIDE DEF name
  <2>3. SumOver(both, Named(name, 1..m)) = SumOver(q, 1..m)
    <3> DEFINE D == 1..m
    <3>1. IsFiniteSet(D) /\ Integers(q, D) /\ Injects(name, D) /\ \A x \in D : both[name[x]] = q[x]
      BY <1>3, <1>5, <2>2
    <3> HIDE DEF D
    <3>2. SumOver(both, Named(name, D)) = SumOver(q, D)
      BY <3>1, SumRenamed
    <3> QED BY <3>2 DEF D
  <2> QED BY <2>1, <2>3
<1>9. SumOver(both, later) = SumOver(r, 1..n)
  <2> DEFINE name == [i \in 1..n |-> m + i]
  <2>1. Named(name, 1..n) = later
    BY DEF later, Named
  <2>2. /\ Injects(name, 1..n)
        /\ \A x \in 1..n : both[name[x]] = r[x]
    BY <1>1, <1>2 DEF Injects
  <2> HIDE DEF name
  <2>3. SumOver(both, Named(name, 1..n)) = SumOver(r, 1..n)
    <3> DEFINE D == 1..n
    <3>1. IsFiniteSet(D) /\ Integers(r, D) /\ Injects(name, D) /\ \A x \in D : both[name[x]] = r[x]
      BY <1>3, <1>5, <2>2
    <3> HIDE DEF D
    <3>2. SumOver(both, Named(name, D)) = SumOver(r, D)
      BY <3>1, SumRenamed
    <3> QED BY <3>2 DEF D
  <2> QED BY <2>1, <2>3
<1>10. SumOver(q, 1..m) \in Int /\ SumOver(r, 1..n) \in Int
  BY <1>3, <1>5, IntegerSumSplits
<1> QED BY <1>1, <1>2, <1>7, <1>8, <1>9, <1>10 DEF SumAlong, both

(* Along nothing it is zero, and along one number that number.               *)
THEOREM SumAlongOne ==
  /\ SumAlong(<<>>) = 0
  /\ \A x \in Int : SumAlong(<<x>>) = x
<1>1. SumAlong(<<>>) = 0
  <2>1. DOMAIN <<>> = {}
    OBVIOUS
  <2> QED BY <2>1, SumEmpty DEF SumAlong
<1>2. ASSUME NEW x \in Int PROVE SumAlong(<<x>>) = x
  <2> DEFINE q == <<x>>
  <2>1. DOMAIN q = {1} /\ q[1] = x
    OBVIOUS
  <2> HIDE DEF q
  <2>2. IsFiniteSet({1}) /\ Integers(q, {1}) /\ {1} \ {1} = {}
    BY <2>1, FS_Singleton DEF Integers
  <2>3. SumOver(q, {1}) = q[1] + SumOver(q, {1} \ {1})
    BY <2>2, IntegerSumSplits
  <2>4. SumOver(q, {1}) = x + 0
    BY <2>1, <2>2, <2>3, SumEmpty
  <2>5. SumAlong(q) = x
    BY <2>1, <2>4 DEF SumAlong
  <2> QED BY <2>5 DEF q
<1> QED BY <1>1, <1>2

-----------------------------------------------------------------------------
(* Along a sequence, step by step *)

(* Every sequence is made by appending.                                     *)
LEMMA EverySequence ==
  ASSUME NEW X, NEW G, <<>> \in G, \A s \in Seq(X) : s \in G => \A x \in X : Append(s, x) \in G
  PROVE  Seq(X) \subseteq G
<1> DEFINE Good == {n \in Nat : \A s \in Seq(X) : Len(s) = n => s \in G}
<1>1. 0 \in Good
  <2>1. \A s \in Seq(X) : Len(s) = 0 => s = <<>>
    OBVIOUS
  <2> QED BY <2>1
<1>2. ASSUME NEW n \in Nat, n \in Good PROVE n + 1 \in Good
  <2> SUFFICES ASSUME NEW s \in Seq(X), Len(s) = n + 1 PROVE s \in G
    OBVIOUS
  <2> DEFINE before == SubSeq(s, 1, n)
             x == s[n + 1]
  <2>1. before \in Seq(X) /\ Len(before) = n /\ x \in X /\ s = Append(before, x)
    OBVIOUS
  <2>2. before \in G
    BY <1>2, <2>1
  <2> HIDE DEF before, x
  <2> QED BY <2>1, <2>2
<1>3. Nat \subseteq Good
  <2> HIDE DEF Good
  <2> QED BY <1>1, <1>2, EveryNatural
<1>4. \A s \in Seq(X) : Len(s) \in Good
  <2> HIDE DEF Good
  <2> QED BY <1>3
<1> QED BY <1>4

IsStep(step, A, X) == step \in [A \X X -> A]

IsRun(r, step, base, q) ==
  r[0] = base /\ \A k \in Nat : k < Len(q) => r[k + 1] = step[<<r[k], q[k + 1]>>]

(* What a step function makes of a sequence, from its first element on.      *)
Result(A, step, base, q) == (CHOOSE r \in [0..Len(q) -> A] : IsRun(r, step, base, q))[Len(q)]

LEMMA SomeRun ==
  ASSUME NEW A, NEW X, NEW step, IsStep(step, A, X), NEW base \in A, NEW q \in Seq(X)
  PROVE  \E r \in [0..Len(q) -> A] : IsRun(r, step, base, q)
<1> DEFINE G == {s \in Seq(X) : \E r \in [0..Len(s) -> A] : IsRun(r, step, base, s)}
<1>1. <<>> \in G
  <2> DEFINE r == [k \in {0} |-> base]
  <2>1. r \in [0..Len(<<>>) -> A] /\ IsRun(r, step, base, <<>>)
    BY DEF IsRun
  <2>2. <<>> \in Seq(X)
    OBVIOUS
  <2> HIDE DEF r
  <2> QED BY <2>1, <2>2
<1>2. ASSUME NEW s \in Seq(X), s \in G, NEW x \in X PROVE Append(s, x) \in G
  <2>1. PICK r \in [0..Len(s) -> A] : IsRun(r, step, base, s)
    BY <1>2
  <2> DEFINE n == Len(s)
             t == Append(s, x)
             r2 == [k \in 0..(n + 1) |-> IF k = n + 1 THEN step[<<r[n], x>>] ELSE r[k]]
  <2>2. n \in Nat /\ t \in Seq(X) /\ Len(t) = n + 1 /\ t[n + 1] = x /\ \A k \in 1..n : t[k] = s[k]
    OBVIOUS
  <2>3. \A k \in 0..n : r[k] \in A
    BY <2>1
  <2>4. step[<<r[n], x>>] \in A
    BY <2>2, <2>3 DEF IsStep
  <2> DEFINE y == step[<<r[n], x>>]
  <2>5. /\ r2[0] = r[0] /\ r2[n + 1] = y
        /\ \A k \in 0..n : r2[k] = r[k]
    BY <2>2
  <2>6. r2 \in [0..(n + 1) -> A]
    BY <2>2, <2>3, <2>4
  <2> HIDE DEF r2
  <2>7. \A k \in Nat : k < n + 1 => r2[k + 1] = step[<<r2[k], t[k + 1]>>]
    <3> TAKE k \in Nat
    <3>1. CASE k < n
      <4>1. r[k + 1] = step[<<r[k], s[k + 1]>>]
        BY <2>1, <3>1 DEF IsRun
      <4>2. k \in 0..n /\ k + 1 \in 0..n /\ k + 1 \in 1..n
        BY <2>2, <3>1
      <4> QED BY <2>2, <2>5, <4>1, <4>2
    <3>2. CASE k = n
      <4>1. r2[n + 1] = step[<<r2[n], x>>]
        <5>1. n \in 0..n
          BY <2>2
        <5>2. r2[n] = r[n]
          BY <2>5, <5>1
        <5> QED BY <2>5, <5>2
      <4> HIDE DEF t
      <4> QED BY <2>2, <3>2, <4>1
    <3>3. n \in Nat
      OBVIOUS
    <3> HIDE DEF t, n
    <3>4. k < n + 1 => k < n \/ k = n
      BY <3>3
    <3> QED BY <3>1, <3>2, <3>4
  <2>8. r2[0] = base
    BY <2>1, <2>5 DEF IsRun
  <2> HIDE DEF t, n
  <2>9. IsRun(r2, step, base, t) /\ r2 \in [0..Len(t) -> A]
    BY <2>2, <2>6, <2>7, <2>8 DEF IsRun
  <2> QED BY <2>2, <2>9 DEF t
<1>3. q \in G
  <2> HIDE DEF G
  <2>1. Seq(X) \subseteq G
    BY <1>1, <1>2, EverySequence
  <2> QED BY <2>1
<1> QED BY <1>3

(* Two runs along a sequence, or along one that goes on, are the same.       *)
LEMMA RunsAgree ==
  ASSUME NEW step, NEW base, NEW q, NEW t, NEW n \in Nat, n <= Len(q), n <= Len(t),
         Len(q) \in Nat, Len(t) \in Nat,
         \A k \in 1..n : q[k] = t[k],
         NEW r, IsRun(r, step, base, q), NEW u, IsRun(u, step, base, t)
  PROVE  r[n] = u[n]
<1> DEFINE Good == {k \in Nat : k <= n => r[k] = u[k]}
<1>1. 0 \in Good
  BY DEF IsRun
<1>2. ASSUME NEW k \in Nat, k \in Good PROVE k + 1 \in Good
  <2> SUFFICES ASSUME k + 1 <= n PROVE r[k + 1] = u[k + 1]
    OBVIOUS
  <2>1. k < Len(q) /\ k < Len(t) /\ k + 1 \in 1..n /\ k <= n
    OBVIOUS
  <2>2. r[k + 1] = step[<<r[k], q[k + 1]>>] /\ u[k + 1] = step[<<u[k], t[k + 1]>>]
    BY <2>1 DEF IsRun
  <2>3. r[k] = u[k] /\ q[k + 1] = t[k + 1]
    BY <1>2, <2>1
  <2> QED BY <2>2, <2>3
<1>3. n \in Good
  <2> HIDE DEF Good
  <2> QED BY <1>1, <1>2, EveryNatural
<1> QED BY <1>3

THEOREM ResultIsOfRun ==
  ASSUME NEW A, NEW X, NEW step, IsStep(step, A, X), NEW base \in A, NEW q \in Seq(X)
  PROVE  /\ Result(A, step, base, q) \in A
         /\ \A r : IsRun(r, step, base, q) => Result(A, step, base, q) = r[Len(q)]
<1> DEFINE c == CHOOSE r \in [0..Len(q) -> A] : IsRun(r, step, base, q)
<1>1. c \in [0..Len(q) -> A] /\ IsRun(c, step, base, q)
  BY SomeRun
<1>2. Result(A, step, base, q) = c[Len(q)]
  BY DEF Result
<1> HIDE DEF c
<1>3. Len(q) \in Nat /\ Len(q) \in 0..Len(q) /\ Len(q) <= Len(q)
  OBVIOUS
<1>4. \A r : IsRun(r, step, base, q) => c[Len(q)] = r[Len(q)]
  <2> DEFINE n == Len(q)
  <2>1. n \in Nat /\ n <= n /\ \A k \in 1..n : q[k] = q[k]
    OBVIOUS
  <2> SUFFICES ASSUME NEW r, IsRun(r, step, base, q) PROVE c[n] = r[n]
    OBVIOUS
  <2> QED BY <1>1, <1>3, <2>1, RunsAgree
<1> QED BY <1>1, <1>2, <1>3, <1>4

(* Of nothing it is what there was; of one element more it is a step more.    *)
THEOREM ResultSteps ==
  ASSUME NEW A, NEW X, NEW step, IsStep(step, A, X), NEW base \in A
  PROVE  /\ Result(A, step, base, <<>>) = base
         /\ \A q \in Seq(X) : \A x \in X :
              Result(A, step, base, Append(q, x)) = step[<<Result(A, step, base, q), x>>]
<1>1. Result(A, step, base, <<>>) = base
  <2>1. <<>> \in Seq(X) /\ Len(<<>>) = 0
    OBVIOUS
  <2>2. PICK r \in [0..0 -> A] : IsRun(r, step, base, <<>>)
    BY <2>1, SomeRun
  <2>3. Result(A, step, base, <<>>) = r[0]
    BY <2>1, <2>2, ResultIsOfRun
  <2> QED BY <2>2, <2>3 DEF IsRun
<1>2. ASSUME NEW q \in Seq(X), NEW x \in X
      PROVE  Result(A, step, base, Append(q, x)) = step[<<Result(A, step, base, q), x>>]
  <2> DEFINE n == Len(q)
             t == Append(q, x)
  <2>1. n \in Nat /\ t \in Seq(X) /\ Len(t) = n + 1 /\ t[n + 1] = x /\ \A k \in 1..n : t[k] = q[k]
    OBVIOUS
  <2> HIDE DEF t
  <2>2. PICK r : IsRun(r, step, base, t)
    BY <2>1, SomeRun
  <2>3. IsRun(r, step, base, q)
    <3> HIDE DEF n
    <3>1. \A k \in Nat : k < n => k < n + 1 /\ k + 1 \in 1..n
      BY <2>1
    <3>2. \A k \in Nat : k < n => r[k + 1] = step[<<r[k], q[k + 1]>>]
      BY <2>1, <2>2, <3>1 DEF IsRun
    <3> QED BY <2>2, <3>2 DEF IsRun, n
  <2>4. Result(A, step, base, t) = r[n + 1] /\ Result(A, step, base, q) = r[n]
    BY <2>1, <2>2, <2>3, ResultIsOfRun
  <2>5. r[n + 1] = step[<<r[n], t[n + 1]>>]
    <3>1. n < n + 1 /\ n < Len(t)
      BY <2>1
    <3> QED BY <2>1, <2>2, <3>1 DEF IsRun
  <2> QED BY <2>1, <2>4, <2>5 DEF t
<1> QED BY <1>1, <1>2

LEMMA AppendedConcat ==
  ASSUME NEW X, NEW p \in Seq(X), NEW s \in Seq(X), NEW x \in X
  PROVE  /\ p \o s \in Seq(X) /\ Append(s, x) \in Seq(X)
         /\ p \o Append(s, x) = Append(p \o s, x)
<1>1. p \o s \in Seq(X) /\ Append(s, x) \in Seq(X)
  OBVIOUS
<1> DEFINE a == p \o Append(s, x)
           b == Append(p \o s, x)
<1>2. a \in Seq(X) /\ b \in Seq(X) /\ Len(a) = Len(b) /\ Len(a) \in Nat
  OBVIOUS
<1>3. \A i \in 1..Len(a) : a[i] = b[i]
  OBVIOUS
<1> HIDE DEF a, b
<1>4. a = b
  BY <1>2, <1>3
<1> QED BY <1>1, <1>4 DEF a, b

(* What holds of the base, and after each step if it held before, holds of it. *)
THEOREM ResultKeeps ==
  ASSUME NEW A, NEW X, NEW step, IsStep(step, A, X), NEW base \in A, NEW q \in Seq(X), NEW G,
         <<0, base>> \in G,
         \A k \in 0..(Len(q) - 1) : \A a \in A : <<k, a>> \in G => <<k + 1, step[<<a, q[k + 1]>>]>> \in G
  PROVE  <<Len(q), Result(A, step, base, q)>> \in G
<1>1. PICK r \in [0..Len(q) -> A] : IsRun(r, step, base, q)
  BY SomeRun
<1>2. Result(A, step, base, q) = r[Len(q)]
  BY <1>1, ResultIsOfRun
<1>3. Len(q) \in Nat
  OBVIOUS
<1> DEFINE Good == {k \in Nat : k <= Len(q) => <<k, r[k]>> \in G}
<1>4. 0 \in Good
  BY <1>1 DEF IsRun
<1>5. ASSUME NEW k \in Nat, k \in Good PROVE k + 1 \in Good
  <2> SUFFICES ASSUME k + 1 <= Len(q) PROVE <<k + 1, r[k + 1]>> \in G
    OBVIOUS
  <2>0. k \in 0..(Len(q) - 1) /\ k < Len(q) /\ k <= Len(q) /\ k \in 0..Len(q)
    BY <1>3
  <2>1. k \in 0..(Len(q) - 1) /\ k < Len(q) /\ r[k] \in A /\ <<k, r[k]>> \in G
    BY <1>1, <1>5, <2>0
  <2>2. r[k + 1] = step[<<r[k], q[k + 1]>>]
    BY <1>1, <2>1 DEF IsRun
  <2> QED BY <2>1, <2>2
<1>6. Len(q) \in Good
  <2> HIDE DEF Good
  <2> QED BY <1>3, <1>4, <1>5, EveryNatural
<1> QED BY <1>2, <1>3, <1>6

(* Of two sequences, it goes on with the second from what it is of the first. *)
THEOREM ResultConcat ==
  ASSUME NEW A, NEW X, NEW step, IsStep(step, A, X), NEW base \in A, NEW p \in Seq(X), NEW q \in Seq(X)
  PROVE  Result(A, step, base, p \o q) = Result(A, step, Result(A, step, base, p), q)
<1> DEFINE mid == Result(A, step, base, p)
           G == {s \in Seq(X) : Result(A, step, base, p \o s) = Result(A, step, mid, s)}
<1>1. mid \in A
  BY ResultIsOfRun
<1> HIDE DEF mid
<1>2. <<>> \in G
  <2>1. p \o <<>> = p /\ <<>> \in Seq(X)
    OBVIOUS
  <2>2. Result(A, step, mid, <<>>) = mid
    BY <1>1, ResultSteps
  <2> QED BY <2>1, <2>2 DEF mid
<1>3. ASSUME NEW s \in Seq(X), s \in G, NEW x \in X PROVE Append(s, x) \in G
  <2>1. p \o s \in Seq(X) /\ Append(s, x) \in Seq(X) /\ p \o Append(s, x) = Append(p \o s, x)
    BY AppendedConcat
  <2>2. Result(A, step, base, Append(p \o s, x)) = step[<<Result(A, step, base, p \o s), x>>]
    <3> DEFINE u == p \o s
    <3>1. u \in Seq(X)
      BY <2>1
    <3> HIDE DEF u
    <3>2. Result(A, step, base, Append(u, x)) = step[<<Result(A, step, base, u), x>>]
      BY <3>1, ResultSteps
    <3> QED BY <3>2 DEF u
  <2>3. Result(A, step, mid, Append(s, x)) = step[<<Result(A, step, mid, s), x>>]
    BY <1>1, ResultSteps
  <2>4. Result(A, step, base, p \o s) = Result(A, step, mid, s)
    BY <1>3
  <2> QED BY <2>1, <2>2, <2>3, <2>4
<1>4. q \in G
  <2> HIDE DEF G
  <2>1. Seq(X) \subseteq G
    BY <1>2, <1>3, EverySequence
  <2> QED BY <2>1
<1> QED BY <1>4 DEF mid

-----------------------------------------------------------------------------
(* FoldLeft takes the last index away first: its recursion is over sets of    *)
(* indices, and follows a step function where what it has is of its domain.   *)
FoldsBy(h, A, step, base, q) ==
  /\ h[{}] = base
  /\ \A s \in SUBSET (DOMAIN q) :
       s # {} /\ h[s \ {Max(s)}] \in A => h[s] = step[<<h[s \ {Max(s)}], q[Max(s)]>>]

LEMMA MaxOfInterval == \A k \in Nat : Max(1..(k + 1)) = k + 1
<1> SUFFICES ASSUME NEW k \in Nat PROVE Max(1..(k + 1)) = k + 1
  OBVIOUS
<1> DEFINE T == 1..(k + 1)
<1>1. k + 1 \in T /\ \A y \in T : k + 1 >= y
  OBVIOUS
<1>2. \A x \in T : (\A y \in T : x >= y) => x = k + 1
  OBVIOUS
<1> HIDE DEF T
<1>3. Max(T) = k + 1
  BY <1>1, <1>2 DEF Max
<1> QED BY <1>3 DEF T

(* What FoldLeft gives is the result of the steps.                           *)
THEOREM FoldIsResult ==
  ASSUME NEW A, NEW X, NEW step, IsStep(step, A, X), NEW base \in A, NEW q \in Seq(X),
         NEW h, FoldsBy(h, A, step, base, q)
  PROVE  h[DOMAIN q] = Result(A, step, base, q)
<1> DEFINE n == Len(q)
<1>0. n \in Nat /\ DOMAIN q = 1..n /\ \A k \in 1..n : q[k] \in X
  OBVIOUS
<1>1. PICK r \in [0..n -> A] : IsRun(r, step, base, q)
  BY SomeRun
<1> HIDE DEF n
<1> DEFINE Goods == {k \in Nat : k <= n => h[1..k] = r[k]}
<1>2. 0 \in Goods
  <2>1. 1..0 = {}
    OBVIOUS
  <2>2. h[1..0] = base
    BY <2>1 DEF FoldsBy
  <2> QED BY <1>1, <2>2 DEF IsRun
<1>3. ASSUME NEW k \in Nat, k \in Goods PROVE k + 1 \in Goods
  <2> SUFFICES ASSUME k + 1 <= n PROVE h[1..(k + 1)] = r[k + 1]
    OBVIOUS
  <2> DEFINE s == 1..(k + 1)
  <2>1. s \in SUBSET (1..n) /\ s # {} /\ s \ {k + 1} = 1..k
    <3>0. n \in Nat
      BY <1>0
    <3>1. \A i \in 1..(k + 1) : i \in 1..n /\ (i # k + 1 => i \in 1..k)
      BY <3>0
    <3>2. \A i \in 1..k : i \in 1..(k + 1) /\ i # k + 1
      OBVIOUS
    <3>3. k + 1 \in 1..(k + 1)
      OBVIOUS
    <3> QED BY <3>1, <3>2, <3>3
  <2>2. Max(s) = k + 1
    BY MaxOfInterval
  <2> HIDE DEF s
  <2>3. h[1..k] = r[k] /\ r[k] \in A
    BY <1>0, <1>1, <1>3
  <2>4. h[s] = step[<<h[1..k], q[k + 1]>>]
    BY <1>0, <2>1, <2>2, <2>3 DEF FoldsBy
  <2>5. k < Len(q)
    BY <1>0 DEF n
  <2>6. r[k + 1] = step[<<r[k], q[k + 1]>>]
    BY <1>1, <2>5 DEF IsRun
  <2> QED BY <2>3, <2>4, <2>6 DEF s
<1>4. n \in Goods
  <2> HIDE DEF Goods
  <2> QED BY <1>0, <1>2, <1>3, EveryNatural
<1>5. h[1..n] = r[n]
  BY <1>0, <1>4
<1>6. Result(A, step, base, q) = r[n]
  BY <1>1, ResultIsOfRun DEF n
<1> QED BY <1>0, <1>5, <1>6

(* There is a recursion like that.                                          *)
Recurs(h, A, step, base, q) ==
  /\ h \in [SUBSET (DOMAIN q) -> A]
  /\ \A s \in SUBSET (DOMAIN q) :
       h[s] = IF s = {} THEN base ELSE step[<<h[s \ {Max(s)}], q[Max(s)]>>]

THEOREM SomeFold ==
  ASSUME NEW A, NEW X, NEW step, IsStep(step, A, X), NEW base \in A, NEW q \in Seq(X)
  PROVE  /\ \E h : Recurs(h, A, step, base, q)
         /\ \A s \in SUBSET (DOMAIN q) : s # {} => q[Max(s)] \in X
<1> DEFINE n == Len(q)
           S == 1..n
           Taken(h, s) == IF s = {} THEN base ELSE step[<<h[s \ {Max(s)}], q[Max(s)]>>]
           Good == {k \in Nat : \E h \in [Small(S, k) -> A] : \A s \in Small(S, k) : h[s] = Taken(h, s)}
<1>0. n \in Nat /\ DOMAIN q = S /\ IsFiniteSet(S) /\ \A i \in S : q[i] \in X
  BY FS_Interval
<1>a. \A s \in SUBSET S : s # {} => Max(s) \in s
  BY <1>0, LastIndex
<1> HIDE DEF n, S
<1>1. 0 \in Good
  <2> DEFINE h == [s \in Small(S, 0) |-> base]
  <2>1. \A s \in Small(S, 0) : h[s] = Taken(h, s)
    BY <1>0, SmallestIsEmpty
  <2>2. h \in [Small(S, 0) -> A]
    OBVIOUS
  <2> HIDE DEF h
  <2> QED BY <2>1, <2>2
<1>2. ASSUME NEW k \in Nat, k \in Good PROVE k + 1 \in Good
  <2>1. PICK h \in [Small(S, k) -> A] : \A s \in Small(S, k) : h[s] = Taken(h, s)
    BY <1>2
  <2> DEFINE g == [s \in Small(S, k + 1) |-> Taken(h, s)]
  <2>2. Small(S, k) \subseteq Small(S, k + 1)
    BY <1>0, FS_Subset, FS_CardinalityType DEF Small
  <2>3. \A s \in Small(S, k) : g[s] = h[s]
    BY <2>1, <2>2
  <2>4. ASSUME NEW s \in Small(S, k + 1), s # {}
        PROVE  /\ s \ {Max(s)} \in Small(S, k) /\ q[Max(s)] \in X
    <3>1. Max(s) \in s /\ s \in SUBSET S
      BY <1>a, <2>4 DEF Small
    <3> QED BY <1>0, <3>1, SmallerIsSmall
  <2>5. ASSUME NEW s \in Small(S, k + 1) PROVE Taken(h, s) = Taken(g, s) /\ Taken(h, s) \in A
    <3>1. CASE s = {}
      BY <3>1
    <3>2. CASE s # {}
      <4> DEFINE x == s \ {Max(s)}
      <4>1. g[x] = h[x] /\ h[x] \in A /\ q[Max(s)] \in X
        <5>1. x \in Small(S, k)
          BY <2>4, <3>2
        <5> HIDE DEF g, x
        <5> QED BY <2>1, <2>3, <2>4, <3>2, <5>1
      <4> HIDE DEF g
      <4>2. step[<<h[x], q[Max(s)]>>] \in A
        BY <4>1 DEF IsStep
      <4> QED BY <3>2, <4>1, <4>2
    <3> QED BY <3>1, <3>2
  <2>6. g \in [Small(S, k + 1) -> A] /\ \A s \in Small(S, k + 1) : g[s] = Taken(g, s)
    <3>1. \A s \in Small(S, k + 1) : g[s] = Taken(h, s)
      OBVIOUS
    <3>2. g \in [Small(S, k + 1) -> A]
      <4> HIDE DEF Taken
      <4> QED BY <2>5
    <3> HIDE DEF g, Taken
    <3> QED BY <2>5, <3>1, <3>2
  <2>7. \E f \in [Small(S, k + 1) -> A] : \A s \in Small(S, k + 1) : f[s] = Taken(f, s)
    <3> HIDE DEF g, Taken
    <3> QED BY <2>6
  <2> HIDE DEF Taken
  <2> QED BY <2>7
<1>3. Nat \subseteq Good
  <2> HIDE DEF Good
  <2> QED BY <1>1, <1>2, EveryNatural
<1>4. Cardinality(S) \in Good /\ SUBSET S = Small(S, Cardinality(S))
  <2> HIDE DEF Good
  <2> QED BY <1>0, <1>3, AllAreSmall
<1>5. \E h \in [SUBSET S -> A] : \A s \in SUBSET S : h[s] = Taken(h, s)
  <2> HIDE DEF Taken
  <2> QED BY <1>4
<1>6. \E h : Recurs(h, A, step, base, q)
  BY <1>0, <1>5 DEF Recurs
<1>7. \A s \in SUBSET S : s # {} => q[Max(s)] \in X
  BY <1>0, <1>a
<1> QED BY <1>0, <1>6, <1>7

-----------------------------------------------------------------------------
(* FlattenSeq puts one sequence after the other.                            *)
FlattensTo(f, qs) == f = [i \in 1..Len(qs) |-> IF i = 1 THEN qs[i] ELSE f[i - 1] \o qs[i]]

LEMMA SomeFlattening ==
  ASSUME NEW X, NEW qs \in Seq(Seq(X))
  PROVE  \E f : FlattensTo(f, qs)
<1> DEFINE Y == Seq(X)
           G == {s \in Seq(Y) : \E f \in [1..Len(s) -> Y] : FlattensTo(f, s)}
<1>1. <<>> \in G
  <2> DEFINE f == [i \in 1..0 |-> <<>>]
  <2>0. <<>> \in Seq(Y) /\ Len(<<>>) = 0
    OBVIOUS
  <2>1. f \in [1..0 -> Y] /\ f = [i \in 1..0 |-> IF i = 1 THEN <<>>[i] ELSE f[i - 1] \o <<>>[i]]
    <3>1. 1..0 = {}
      OBVIOUS
    <3> QED BY <3>1
  <2> HIDE DEF f
  <2>2. FlattensTo(f, <<>>)
    BY <2>0, <2>1 DEF FlattensTo
  <2> QED BY <2>0, <2>1, <2>2
<1>2. ASSUME NEW s \in Seq(Y), s \in G, NEW x \in Y PROVE Append(s, x) \in G
  <2>1. PICK f \in [1..Len(s) -> Y] : FlattensTo(f, s)
    BY <1>2
  <2> DEFINE n == Len(s)
             t == Append(s, x)
             last == IF n = 0 THEN x ELSE f[n] \o x
             g == [i \in 1..(n + 1) |-> IF i = n + 1 THEN last ELSE f[i]]
  <2>2. n \in Nat /\ t \in Seq(Y) /\ Len(t) = n + 1 /\ t[n + 1] = x /\ \A k \in 1..n : t[k] = s[k]
    <3> HIDE DEF Y
    <3> QED OBVIOUS
  <2> HIDE DEF t
  <2>3. last \in Y
    <3>1. n # 0 => f[n] \in Y
      <4> HIDE DEF Y
      <4>1. n # 0 => n \in 1..n
        BY <2>2
      <4> QED BY <2>1, <4>1
    <3> QED BY <3>1
  <2>4. \A i \in 1..n : f[i] \in Y /\ f[i] = IF i = 1 THEN s[i] ELSE f[i - 1] \o s[i]
    BY <2>1 DEF FlattensTo
  <2> HIDE DEF n, last
  <2>5. g \in [1..(n + 1) -> Y]
    BY <2>2, <2>3, <2>4
  <2>6. \A i \in 1..(n + 1) : g[i] = IF i = 1 THEN t[i] ELSE g[i - 1] \o t[i]
    <3> TAKE i \in 1..(n + 1)
    <3>1. CASE i \in 1..n
      <4>1. i # n + 1 /\ g[i] = f[i] /\ t[i] = s[i]
        BY <2>2, <3>1
      <4>2. i # 1 => i - 1 \in 1..(n + 1) /\ i - 1 # n + 1
        BY <2>2, <3>1
      <4>3. i # 1 => g[i - 1] = f[i - 1]
        BY <4>2
      <4>4. f[i] = IF i = 1 THEN s[i] ELSE f[i - 1] \o s[i]
        BY <2>4, <3>1
      <4> HIDE DEF g
      <4> QED BY <4>1, <4>3, <4>4
    <3>2. CASE i = n + 1
      <4>1. g[i] = last /\ t[i] = x
        BY <2>2, <3>2
      <4>2. n # 0 => n \in 1..(n + 1) /\ n # n + 1
        BY <2>2
      <4>3. n # 0 => g[n] = f[n]
        BY <4>2
      <4> HIDE DEF g
      <4>4. CASE n = 0
        BY <3>2, <4>1, <4>4 DEF last
      <4>5. CASE n # 0
        <5>1. i # 1 /\ i - 1 = n
          BY <2>2, <3>2, <4>5
        <5> QED BY <4>1, <4>3, <4>5, <5>1 DEF last
      <4> QED BY <4>4, <4>5
    <3> QED BY <2>2, <3>1, <3>2
  <2>7. g = [i \in 1..(n + 1) |-> IF i = 1 THEN t[i] ELSE g[i - 1] \o t[i]]
    <3>1. g = [i \in 1..(n + 1) |-> g[i]]
      OBVIOUS
    <3> HIDE DEF g
    <3> QED BY <2>6, <3>1
  <2> HIDE DEF g
  <2>8. FlattensTo(g, t) /\ g \in [1..Len(t) -> Y]
    BY <2>2, <2>5, <2>7 DEF FlattensTo
  <2> QED BY <2>2, <2>8 DEF t
<1>3. qs \in G
  <2> HIDE DEF G
  <2>1. Seq(Y) \subseteq G
    BY <1>1, <1>2, EverySequence
  <2> QED BY <2>1
<1> QED BY <1>3

(* What FlattenSeq takes is such a function, and they all agree.            *)
LEMMA FlattenIsOf ==
  ASSUME NEW X, NEW qs \in Seq(Seq(X)), qs # <<>>, NEW f, FlattensTo(f, qs)
  PROVE  FlattenSeq(qs) = f[Len(qs)]
<1> DEFINE c == CHOOSE g : FlattensTo(g, qs)
           n == Len(qs)
           Good == {k \in Nat : k \in 1..n => c[k] = f[k]}
<1>1. FlattensTo(c, qs)
  OBVIOUS
<1>2. n \in Nat /\ n # 0
  OBVIOUS
<1>3. FlattenSeq(qs) = c[n]
  BY <1>2 DEF FlattenSeq, FlattensTo
<1> HIDE DEF c
<1>4. \A i \in 1..n : /\ c[i] = IF i = 1 THEN qs[i] ELSE c[i - 1] \o qs[i]
                      /\ f[i] = IF i = 1 THEN qs[i] ELSE f[i - 1] \o qs[i]
  BY <1>1 DEF FlattensTo
<1> HIDE DEF n
<1>5. 0 \in Good
  OBVIOUS
<1>6. ASSUME NEW k \in Nat, k \in Good PROVE k + 1 \in Good
  <2> SUFFICES ASSUME k + 1 \in 1..n PROVE c[k + 1] = f[k + 1]
    OBVIOUS
  <2>1. CASE k = 0
    BY <1>4, <2>1
  <2>2. CASE k # 0
    <3>1. k + 1 # 1 /\ (k + 1) - 1 = k /\ k \in 1..n
      BY <1>2, <2>2
    <3>2. c[k] = f[k]
      BY <1>6, <3>1
    <3> QED BY <1>4, <3>1, <3>2
  <2> QED BY <2>1, <2>2
<1>7. n \in Good
  <2> HIDE DEF Good
  <2> QED BY <1>2, <1>5, <1>6, EveryNatural
<1>8. n \in 1..n
  BY <1>2
<1> QED BY <1>3, <1>7, <1>8 DEF n

THEOREM FlattenSteps ==
  ASSUME NEW X
  PROVE  /\ FlattenSeq(<<>>) = <<>>
         /\ \A qs \in Seq(Seq(X)) : \A s \in Seq(X) : FlattenSeq(Append(qs, s)) = FlattenSeq(qs) \o s
         /\ \A qs \in Seq(Seq(X)) : FlattenSeq(qs) \in Seq(X)
<1> DEFINE Y == Seq(X)
           G == {qs \in Seq(Y) : FlattenSeq(qs) \in Y}
<1>1. FlattenSeq(<<>>) = <<>>
  <2>1. Len(<<>>) = 0
    OBVIOUS
  <2> QED BY <2>1 DEF FlattenSeq
<1>2. ASSUME NEW qs \in Seq(Y), NEW s \in Y
      PROVE  FlattenSeq(Append(qs, s)) = IF qs = <<>> THEN s ELSE FlattenSeq(qs) \o s
  <2> DEFINE n == Len(qs)
             t == Append(qs, s)
  <2>1. n \in Nat /\ t \in Seq(Y) /\ Len(t) = n + 1 /\ t # <<>> /\ t[n + 1] = s /\ \A k \in 1..n : t[k] = qs[k]
    <3> HIDE DEF Y
    <3> QED OBVIOUS
  <2>a. n = 0 <=> qs = <<>>
    OBVIOUS
  <2> HIDE DEF t
  <2>2. PICK g : FlattensTo(g, t)
    BY <2>1, SomeFlattening
  <2>3. FlattenSeq(t) = g[n + 1]
    BY <2>1, <2>2, FlattenIsOf
  <2>4. \A i \in 1..(n + 1) : g[i] = IF i = 1 THEN t[i] ELSE g[i - 1] \o t[i]
    BY <2>1, <2>2 DEF FlattensTo
  <2>5. CASE qs = <<>>
    <3>1. n = 0 /\ 1 \in 1..(n + 1)
      BY <2>a, <2>5
    <3> QED BY <2>1, <2>3, <2>4, <2>5, <3>1 DEF t
  <2>6. CASE qs # <<>>
    <3> DEFINE f == [i \in 1..n |-> g[i]]
    <3>1. FlattensTo(f, qs)
      <4>1. \A i \in 1..n : f[i] = IF i = 1 THEN qs[i] ELSE f[i - 1] \o qs[i]
        <5> TAKE i \in 1..n
        <5>1. i \in 1..(n + 1) /\ (i # 1 => i - 1 \in 1..n)
          BY <2>1
        <5>2. f[i] = g[i] /\ t[i] = qs[i]
          BY <2>1
        <5>3. i # 1 => f[i - 1] = g[i - 1]
          BY <5>1
        <5>4. g[i] = IF i = 1 THEN t[i] ELSE g[i - 1] \o t[i]
          BY <2>4, <5>1
        <5> HIDE DEF f
        <5> QED BY <5>2, <5>3, <5>4
      <4>2. f = [i \in 1..n |-> f[i]]
        OBVIOUS
      <4> HIDE DEF f
      <4>3. f = [i \in 1..n |-> IF i = 1 THEN qs[i] ELSE f[i - 1] \o qs[i]]
        BY <4>1, <4>2
      <4> QED BY <4>3 DEF FlattensTo
    <3>2. n # 0
      BY <2>6, <2>a
    <3>3. f[n] = g[n]
      BY <2>1, <3>2
    <3> HIDE DEF f
    <3>4. FlattenSeq(qs) = f[n]
      BY <2>6, <3>1, FlattenIsOf
    <3>5. n + 1 # 1 /\ (n + 1) - 1 = n /\ n + 1 \in 1..(n + 1)
      BY <2>1, <3>2
    <3>6. g[n + 1] = g[n] \o t[n + 1]
      BY <2>4, <3>5
    <3> QED BY <2>1, <2>3, <2>6, <3>3, <3>4, <3>6 DEF t
  <2> QED BY <2>5, <2>6
<1>3. ASSUME NEW qs \in Seq(Y), qs \in G, NEW s \in Y PROVE Append(qs, s) \in G
  <2>1. Append(qs, s) \in Seq(Y)
    OBVIOUS
  <2> DEFINE y == FlattenSeq(qs)
  <2>2. y \in Y
    BY <1>3
  <2> HIDE DEF y
  <2>3. y \o s \in Y
    BY <2>2
  <2> QED BY <1>2, <2>1, <2>3 DEF y
<1>4. Seq(Y) \subseteq G
  <2>1. <<>> \in G
    <3>1. <<>> \in Seq(Y) /\ <<>> \in Y
      OBVIOUS
    <3> QED BY <1>1, <3>1
  <2> HIDE DEF G
  <2> QED BY <1>3, <2>1, EverySequence
<1>5. ASSUME NEW qs \in Seq(Y), NEW s \in Y PROVE FlattenSeq(Append(qs, s)) = FlattenSeq(qs) \o s
  <2>1. CASE qs = <<>>
    <3>1. <<>> \o s = s
      OBVIOUS
    <3> QED BY <1>1, <1>2, <2>1, <3>1
  <2> QED BY <1>2, <2>1
<1> QED BY <1>1, <1>4, <1>5

-----------------------------------------------------------------------------
(* Places in an order                                                        *)

(* A strict order on a finite set: every place from the first to the last is    *)
(* that of one element.                                                      *)
Below(R, D, i) == {j \in D : <<j, i>> \in R}
IsOrder(R, D) ==
  /\ \A i, j \in D : <<i, j>> \in R => <<j, i>> \notin R
  /\ \A i, j \in D : i # j => <<i, j>> \in R \/ <<j, i>> \in R
  /\ \A i, j, k \in D : <<i, j>> \in R /\ <<j, k>> \in R => <<i, k>> \in R

LEMMA BelowGrows ==
  ASSUME NEW R, NEW D, IsFiniteSet(D), IsOrder(R, D), NEW i \in D
  PROVE  /\ IsFiniteSet(Below(R, D, i)) /\ i \notin Below(R, D, i)
         /\ Cardinality(Below(R, D, i)) \in Nat /\ Cardinality(D) \in Nat
         /\ Cardinality(Below(R, D, i)) + 1 <= Cardinality(D)
         /\ \A j \in D : <<j, i>> \in R => Cardinality(Below(R, D, j)) + 1 <= Cardinality(Below(R, D, i))
<1>1. i \notin Below(R, D, i)
  BY DEF Below, IsOrder
<1>2. \A j \in D : Below(R, D, j) \in SUBSET D
  BY DEF Below
<1>3. \A j \in D : IsFiniteSet(Below(R, D, j)) /\ Cardinality(Below(R, D, j)) \in Nat
  BY <1>2, FS_Subset, FS_CardinalityType
<1>4. Cardinality(D) \in Nat
  BY FS_CardinalityType
<1>5. ASSUME NEW A \in SUBSET D, NEW x \in D, IsFiniteSet(A), x \notin A, NEW B, IsFiniteSet(B), A \cup {x} \subseteq B
      PROVE  Cardinality(A) + 1 <= Cardinality(B)
  <2>1. Cardinality(A \cup {x}) = Cardinality(A) + 1
    BY <1>5, FS_AddElement
  <2>2. Cardinality(A \cup {x}) <= Cardinality(B)
    BY <1>5, FS_Subset
  <2> QED BY <2>1, <2>2
<1>6. Cardinality(Below(R, D, i)) + 1 <= Cardinality(D)
  <2>1. Below(R, D, i) \cup {i} \subseteq D
    BY <1>2
  <2> QED BY <1>1, <1>2, <1>3, <1>5, <2>1
<1>7. ASSUME NEW j \in D, <<j, i>> \in R
      PROVE  Cardinality(Below(R, D, j)) + 1 <= Cardinality(Below(R, D, i))
  <2>1. j \notin Below(R, D, j)
    BY DEF Below, IsOrder
  <2>2. Below(R, D, j) \cup {j} \subseteq Below(R, D, i)
    BY <1>7 DEF Below, IsOrder
  <2> QED BY <1>2, <1>3, <1>5, <2>1, <2>2
<1> QED BY <1>1, <1>3, <1>4, <1>6, <1>7

THEOREM EveryPlaceIsTaken ==
  ASSUME NEW R, NEW D, IsFiniteSet(D), IsOrder(R, D)
  PROVE  /\ \A p \in 1..Cardinality(D) : \E i \in D : 1 + Cardinality(Below(R, D, i)) = p
         /\ \A i \in D : 1 + Cardinality(Below(R, D, i)) \in 1..Cardinality(D)
         /\ \A i, j \in D : Cardinality(Below(R, D, i)) = Cardinality(Below(R, D, j)) => i = j
<1> DEFINE n == Cardinality(D)
           f == [i \in D |-> 1 + Cardinality(Below(R, D, i))]
<1>1. n \in Nat
  BY FS_CardinalityType
<1>2. \A i \in D : 1 + Cardinality(Below(R, D, i)) \in 1..n
  BY <1>1, BelowGrows
<1>3. \A i, j \in D : Cardinality(Below(R, D, i)) = Cardinality(Below(R, D, j)) => i = j
  <2> SUFFICES ASSUME NEW i \in D, NEW j \in D, Cardinality(Below(R, D, i)) = Cardinality(Below(R, D, j)), i # j
               PROVE  FALSE
    OBVIOUS
  <2>1. Cardinality(Below(R, D, i)) \in Nat
    BY BelowGrows
  <2>2. <<i, j>> \in R \/ <<j, i>> \in R
    BY DEF IsOrder
  <2>3. <<i, j>> \in R => Cardinality(Below(R, D, i)) + 1 <= Cardinality(Below(R, D, j))
    BY BelowGrows
  <2>4. <<j, i>> \in R => Cardinality(Below(R, D, j)) + 1 <= Cardinality(Below(R, D, i))
    BY BelowGrows
  <2> QED BY <2>1, <2>2, <2>3, <2>4
<1>4. f \in [D -> 1..n]
  BY <1>2
<1>5. \A i, j \in D : f[i] = f[j] => i = j
  <2>1. \A i \in D : f[i] = 1 + Cardinality(Below(R, D, i)) /\ Cardinality(Below(R, D, i)) \in Nat
    BY BelowGrows
  <2> HIDE DEF f
  <2> QED BY <1>3, <2>1
<1>6. f \in Surjection(D, 1..n)
  <2> HIDE DEF f
  <2>1. f \in Injection(D, 1..n)
    BY <1>4, <1>5 DEF Injection, IsInjective
  <2>2. IsFiniteSet(1..n) /\ Cardinality(1..n) = n
    BY <1>1, FS_Interval
  <2> QED BY <2>1, <2>2, FS_Injection
<1>7. \A p \in 1..n : \E i \in D : f[i] = p
  <2> HIDE DEF f
  <2> QED BY <1>6 DEF Surjection
<1> QED BY <1>2, <1>3, <1>7


(* The n-th of a set of numbers has n of them up to it.                       *)
Ranked(S, n) == CHOOSE i \in S : Cardinality({j \in S : j <= i}) = n

LEMMA RankedOfSet ==
  ASSUME NEW S, IsFiniteSet(S), S \subseteq Int
  PROVE  /\ \A n \in 1..Cardinality(S) :
              Ranked(S, n) \in S /\ Cardinality({j \in S : j <= Ranked(S, n)}) = n
         /\ \A i \in S : \E n \in 1..Cardinality(S) : Ranked(S, n) = i
         /\ \A m, n \in 1..Cardinality(S) : m < n => Ranked(S, m) < Ranked(S, n)
<1> DEFINE R == {p \in S \X S : p[1] < p[2]}
           upTo(i) == {j \in S : j <= i}
<1>1. IsOrder(R, S)
  <2>1. \A i, j \in S : <<i, j>> \in R <=> i < j
    OBVIOUS
  <2> HIDE DEF R
  <2> QED BY <2>1 DEF IsOrder
<1>2. ASSUME NEW i \in S
      PROVE  Cardinality(upTo(i)) = 1 + Cardinality(Below(R, S, i)) /\ Cardinality(Below(R, S, i)) \in Nat
  <2>1. \A j \in S : <<j, i>> \in R <=> j < i
    OBVIOUS
  <2> HIDE DEF R
  <2>2. upTo(i) = Below(R, S, i) \cup {i}
    <3>1. \A j \in S : j <= i <=> j < i \/ j = i
      OBVIOUS
    <3>2. \A j \in S : j \in upTo(i) <=> j \in Below(R, S, i) \/ j = i
      BY <2>1, <3>1 DEF Below
    <3>3. upTo(i) \subseteq S /\ Below(R, S, i) \subseteq S
      BY DEF Below
    <3> HIDE DEF upTo
    <3> QED BY <3>2, <3>3
  <2>3. IsFiniteSet(Below(R, S, i)) /\ i \notin Below(R, S, i) /\ Cardinality(Below(R, S, i)) \in Nat
    BY <1>1, BelowGrows
  <2> HIDE DEF upTo
  <2>4. Cardinality(Below(R, S, i) \cup {i}) = Cardinality(Below(R, S, i)) + 1
    BY <2>3, FS_AddElement
  <2> QED BY <2>2, <2>3, <2>4
<1>3. /\ \A p \in 1..Cardinality(S) : \E i \in S : 1 + Cardinality(Below(R, S, i)) = p
      /\ \A i \in S : 1 + Cardinality(Below(R, S, i)) \in 1..Cardinality(S)
      /\ \A i, j \in S : Cardinality(Below(R, S, i)) = Cardinality(Below(R, S, j)) => i = j
  BY <1>1, EveryPlaceIsTaken
<1>a. \A i, j \in S : i < j => Cardinality(Below(R, S, i)) + 1 <= Cardinality(Below(R, S, j))
  <2>1. \A i, j \in S : i < j => <<i, j>> \in R
    OBVIOUS
  <2> HIDE DEF R
  <2> QED BY <1>1, <2>1, BelowGrows
<1> HIDE DEF R, upTo
<1>4. \A n \in 1..Cardinality(S) : \E i \in S : Cardinality(upTo(i)) = n
  BY <1>2, <1>3
<1>5. \A n : Ranked(S, n) = CHOOSE i \in S : Cardinality(upTo(i)) = n
  BY DEF Ranked, upTo
<1>6. \A n \in 1..Cardinality(S) : Ranked(S, n) \in S /\ Cardinality(upTo(Ranked(S, n))) = n
  BY <1>4, <1>5
<1>7. ASSUME NEW i \in S PROVE \E n \in 1..Cardinality(S) : Ranked(S, n) = i
  <2> DEFINE n == Cardinality(upTo(i))
  <2>1. n \in 1..Cardinality(S)
    BY <1>2, <1>3
  <2>2. Ranked(S, n) \in S /\ Cardinality(upTo(Ranked(S, n))) = n
    BY <1>6, <2>1
  <2> DEFINE j == Ranked(S, n)
  <2> HIDE DEF j
  <2>3. Cardinality(Below(R, S, Ranked(S, n))) = Cardinality(Below(R, S, i))
    <3>1. j \in S /\ Cardinality(upTo(j)) = Cardinality(upTo(i))
      BY <2>2 DEF j
    <3>2. Cardinality(Below(R, S, j)) = Cardinality(Below(R, S, i))
      BY <1>2, <3>1
    <3> QED BY <3>2 DEF j
  <2>4. Ranked(S, n) = i
    BY <1>3, <2>2, <2>3
  <2> QED BY <2>1, <2>4
<1>8. ASSUME NEW m \in 1..Cardinality(S), NEW n \in 1..Cardinality(S), m < n
      PROVE  Ranked(S, m) < Ranked(S, n)
  <2> DEFINE a == Ranked(S, m)
             b == Ranked(S, n)
  <2>1. a \in S /\ b \in S /\ Cardinality(upTo(a)) = m /\ Cardinality(upTo(b)) = n
    BY <1>6
  <2> HIDE DEF a, b
  <2>2. 1 + Cardinality(Below(R, S, a)) = m /\ 1 + Cardinality(Below(R, S, b)) = n
    BY <1>2, <2>1
  <2>3. a # b /\ ~(b < a)
    BY <1>2, <1>8, <1>a, <2>1, <2>2
  <2>4. a < b
    BY <2>1, <2>3
  <2> QED BY <2>4 DEF a, b
<1> QED BY <1>6, <1>7, <1>8 DEF upTo
=============================================================================
