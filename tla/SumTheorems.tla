---------------------------- MODULE SumTheorems -----------------------------
(***************************************************************************)
(* Facts about SumFunctionOnSet(f, S), the sum of f[x] over a finite set   *)
(* S: what adding, removing or changing one summand does to it.  The       *)
(* totals a market keeps (open interest, shares, in-flight lots, margin)   *)
(* are such sums, and their exactness rests on these facts.                *)
(*                                                                         *)
(* Induction is used in first-order form: a set of naturals has a least    *)
(* element, so a set of subsets of S that contains every set all of whose  *)
(* proper subsets it contains is all of SUBSET S.                          *)
(***************************************************************************)
EXTENDS Integers, FiniteSets, FiniteSetsExt, Functions, FiniteSetTheorems, SequenceTheorems,
        WellFoundedInduction, TLAPS

(* A nonempty set of naturals has a least element.                         *)
LEMMA SmallestNat ==
    ASSUME NEW T \in SUBSET Nat, T # {}
    PROVE  \E m \in T : \A k \in T : m <= k
<1> DEFINE R == OpToRel(<, Nat)
<1>1. IsWellFoundedOn(R, Nat)
  BY NatLessThanWellFounded
<1>2. \A x, y \in Nat : x < y => <<x, y>> \in R
  BY DEF OpToRel
<1> HIDE DEF R
<1>3. PICK m \in T : \A y \in T : ~ (<<y, m>> \in R)
  BY <1>1, WFMin
<1>4. \A k \in T : ~ (k < m)
  BY <1>2, <1>3
<1>5. \A k \in T : k \in Nat /\ m \in Nat
  OBVIOUS
<1>6. \A k \in T : m <= k
  BY <1>4, <1>5
<1> QED BY <1>6

(* Induction over the natural numbers.                                     *)
LEMMA NatInduct ==
    ASSUME NEW G, 0 \in G, \A n \in Nat : n \in G => n + 1 \in G
    PROVE  Nat \subseteq G
<1> SUFFICES ASSUME Nat \ G # {} PROVE FALSE
  OBVIOUS
<1>1. PICK m \in Nat \ G : \A k \in Nat \ G : m <= k
  BY SmallestNat
<1>2. m # 0 /\ m - 1 \in Nat /\ (m - 1) + 1 = m
  OBVIOUS
<1>3. m - 1 \in G
  BY <1>1, <1>2
<1> QED BY <1>2, <1>3

(* Induction over the subsets of a finite set.                             *)
LEMMA SubsetInduct ==
    ASSUME NEW S, IsFiniteSet(S), NEW G,
           \A A \in SUBSET S : (\A B \in SUBSET A : B # A => B \in G) => A \in G
    PROVE  SUBSET S \subseteq G
<1> DEFINE bad == {A \in SUBSET S : A \notin G}
           T == {Cardinality(A) : A \in bad}
<1> SUFFICES ASSUME bad # {} PROVE FALSE
  OBVIOUS
<1>1. \A A \in SUBSET S : IsFiniteSet(A) /\ Cardinality(A) \in Nat
  BY FS_Subset, FS_CardinalityType
<1>2. T \in SUBSET Nat /\ T # {}
  BY <1>1
<1> HIDE DEF T
<1>3. PICK m \in T : \A k \in T : m <= k
  BY <1>2, SmallestNat
<1>4. PICK A \in bad : m = Cardinality(A)
  BY DEF T
<1>5. \A B \in SUBSET A : B # A => B \in G
  <2> SUFFICES ASSUME NEW B \in SUBSET A, B # A, B \notin G PROVE FALSE
    OBVIOUS
  <2>1. B \in bad
    OBVIOUS
  <2>2. m <= Cardinality(B)
    BY <1>3, <2>1 DEF T
  <2>3. Cardinality(B) <= Cardinality(A) /\ Cardinality(A) # Cardinality(B)
    BY <1>1, FS_Subset
  <2>4. Cardinality(A) \in Nat /\ Cardinality(B) \in Nat
    BY <1>1, <2>1
  <2> QED BY <1>4, <2>2, <2>3, <2>4
<1> QED BY <1>5

-----------------------------------------------------------------------------
(* The element the fold takes next, and the function it computes.          *)
Pick(s) == CHOOSE x \in s : TRUE
Iterates(f, S, it) ==
    it = [s \in SUBSET S |-> IF s = {} THEN 0 ELSE f[Pick(s)] + it[s \ {Pick(s)}]]
Iteration(f, S) == CHOOSE it : Iterates(f, S, it)

LEMMA SumIsIteration ==
    ASSUME NEW f, NEW S
    PROVE  SumFunctionOnSet(f, S) = Iteration(f, S)[S]
BY DEF SumFunctionOnSet, FoldFunctionOnSet, MapThenFoldSet, Iteration, Iterates, Pick

(* What the fold computes: the empty sum is zero, another takes one        *)
(* summand after the other.                                                *)
LEMMA SumUnfolds ==
    ASSUME NEW f, NEW S, IsFiniteSet(S)
    PROVE  SumFunctionOnSet(f, S) =
             IF S = {} THEN 0
             ELSE f[Pick(S)] + SumFunctionOnSet(f, S \ {Pick(S)})
<1> DEFINE Sum(A) == SumFunctionOnSet(f, A)
           Unfolds(A) == Sum(A) = IF A = {} THEN 0 ELSE f[Pick(A)] + Sum(A \ {Pick(A)})
           G == {A \in SUBSET S : Unfolds(A)}
<1>0. \A s : s # {} => Pick(s) \in s
  BY DEF Pick
<1>1. ASSUME NEW A \in SUBSET S, \A B \in SUBSET A : B # A => B \in G
      PROVE  Unfolds(A)
  <2>0. \A B \in SUBSET A : B # A => Unfolds(B)
    BY <1>1
  <2> HIDE DEF Unfolds, G, Sum
  <2> DEFINE g == [s \in SUBSET A |-> IF s = {} THEN 0 ELSE f[Pick(s)] + Sum(s \ {Pick(s)})]
             it == Iteration(f, A)
  <2>1. \A t \in SUBSET A : t # A => g[t] = Sum(t)
    BY <2>0 DEF Unfolds
  <2>2. Iterates(f, A, g)
    <3>1. \A s \in SUBSET A : s # {} => g[s \ {Pick(s)}] = Sum(s \ {Pick(s)})
      <4> SUFFICES ASSUME NEW s \in SUBSET A, s # {}
                   PROVE  g[s \ {Pick(s)}] = Sum(s \ {Pick(s)})
        OBVIOUS
      <4>1. s \ {Pick(s)} \in SUBSET A /\ s \ {Pick(s)} # A
        BY <1>0
      <4> QED BY <2>1, <4>1
    <3> QED BY <3>1 DEF Iterates
  <2>3. Iterates(f, A, it)
    BY <2>2 DEF Iteration
  <2>4. \A s \in SUBSET A : it[s] = IF s = {} THEN 0 ELSE f[Pick(s)] + it[s \ {Pick(s)}]
    BY <2>3 DEF Iterates
  <2>5. Sum(A) = it[A]
    BY SumIsIteration DEF Sum
  <2> HIDE DEF it, g
  <2> DEFINE H == {C \in SUBSET A : C # A => it[C] = Sum(C)}
  <2>6. SUBSET A \subseteq H
    <3>1. IsFiniteSet(A)
      BY FS_Subset
    <3>2. ASSUME NEW C \in SUBSET A, \A B \in SUBSET C : B # C => B \in H
          PROVE  C \in H
      <4>1. CASE C = A
        BY <4>1
      <4>2. CASE C # A /\ C = {}
        BY <2>0, <2>4, <4>2 DEF Unfolds
      <4>3. CASE C # A /\ C # {}
        <5>1. C \ {Pick(C)} \in SUBSET C /\ C \ {Pick(C)} # C
          BY <1>0, <4>3
        <5>2. C \ {Pick(C)} # A
          BY <5>1
        <5>3. it[C \ {Pick(C)}] = Sum(C \ {Pick(C)})
          BY <3>2, <5>1, <5>2
        <5>4. it[C] = f[Pick(C)] + it[C \ {Pick(C)}]
          BY <2>4, <4>3
        <5>5. Sum(C) = f[Pick(C)] + Sum(C \ {Pick(C)})
          BY <2>0, <4>3 DEF Unfolds
        <5> QED BY <5>3, <5>4, <5>5
      <4> QED BY <4>1, <4>2, <4>3
    <3> HIDE DEF H
    <3> QED BY <3>1, <3>2, SubsetInduct
  <2>7. CASE A = {}
    BY <2>4, <2>5, <2>7 DEF Unfolds
  <2>8. CASE A # {}
    <3>1. A \ {Pick(A)} \in SUBSET A /\ A \ {Pick(A)} # A
      BY <1>0, <2>8
    <3>2. it[A \ {Pick(A)}] = Sum(A \ {Pick(A)})
      BY <2>6, <3>1
    <3> QED BY <2>4, <2>5, <2>8, <3>2 DEF Unfolds
  <2> QED BY <2>7, <2>8
<1>2. \A A \in SUBSET S : (\A B \in SUBSET A : B # A => B \in G) => A \in G
  BY <1>1
<1>3. SUBSET S \subseteq G
  <2> HIDE DEF G
  <2> QED BY <1>2, SubsetInduct
<1> QED BY <1>3

-----------------------------------------------------------------------------
LEMMA SumEmpty == ASSUME NEW f PROVE SumFunctionOnSet(f, {}) = 0
BY SumUnfolds, FS_EmptySet

(* A sum of integers is an integer, of naturals a natural.                 *)
LEMMA SumInt ==
    ASSUME NEW S, IsFiniteSet(S), NEW f, \A x \in S : f[x] \in Int
    PROVE  SumFunctionOnSet(f, S) \in Int
<1> DEFINE G == {A \in SUBSET S : SumFunctionOnSet(f, A) \in Int}
<1>1. ASSUME NEW A \in SUBSET S, \A B \in SUBSET A : B # A => B \in G
      PROVE  A \in G
  <2>1. IsFiniteSet(A)
    BY FS_Subset
  <2>2. CASE A = {}
    BY <2>2, SumEmpty
  <2>3. CASE A # {}
    <3>1. Pick(A) \in A
      BY <2>3 DEF Pick
    <3>2. A \ {Pick(A)} \in SUBSET A /\ A \ {Pick(A)} # A
      BY <3>1
    <3>3. SumFunctionOnSet(f, A) = f[Pick(A)] + SumFunctionOnSet(f, A \ {Pick(A)})
      BY <2>1, <2>3, SumUnfolds
    <3>4. SumFunctionOnSet(f, A \ {Pick(A)}) \in Int /\ f[Pick(A)] \in Int
      BY <1>1, <3>1, <3>2
    <3> QED BY <3>3, <3>4
  <2> QED BY <2>2, <2>3
<1> HIDE DEF G
<1>2. SUBSET S \subseteq G
  BY <1>1, SubsetInduct
<1> QED BY <1>2 DEF G

(* Any summand can be taken first.                                         *)
LEMMA SumRemove ==
    ASSUME NEW S, IsFiniteSet(S), NEW f, \A x \in S : f[x] \in Int, NEW x \in S
    PROVE  SumFunctionOnSet(f, S) = f[x] + SumFunctionOnSet(f, S \ {x})
<1> DEFINE Sum(A) == SumFunctionOnSet(f, A)
           G == {A \in SUBSET S : \A y \in A : Sum(A) = f[y] + Sum(A \ {y})}
<1>0. \A A \in SUBSET S : IsFiniteSet(A) /\ Sum(A) \in Int
  BY SumInt, FS_Subset
<1>0a. \A A \in SUBSET S : A # {} =>
          Pick(A) \in A /\ Sum(A) = f[Pick(A)] + Sum(A \ {Pick(A)})
  <2>1. \A A : A # {} => Pick(A) \in A
    BY DEF Pick
  <2> QED BY <1>0, <2>1, SumUnfolds
<1>1. ASSUME NEW A \in SUBSET S, \A B \in SUBSET A : B # A => B \in G
      PROVE  A \in G
  <2> HIDE DEF Sum
  <2> SUFFICES ASSUME NEW y \in A PROVE Sum(A) = f[y] + Sum(A \ {y})
    OBVIOUS
  <2> DEFINE z == Pick(A)
  <2>1. z \in A /\ Sum(A) = f[z] + Sum(A \ {z})
    BY <1>0a
  <2> HIDE DEF z
  <2>2. CASE y = z
    BY <2>1, <2>2
  <2>3. CASE y # z
    <3>1. Sum(A \ {z}) = f[y] + Sum((A \ {z}) \ {y})
      <4>1. A \ {z} \in SUBSET A /\ A \ {z} # A /\ y \in A \ {z}
        BY <2>1, <2>3
      <4> QED BY <1>1, <4>1
    <3>2. Sum(A \ {y}) = f[z] + Sum((A \ {y}) \ {z})
      <4>1. A \ {y} \in SUBSET A /\ A \ {y} # A /\ z \in A \ {y}
        BY <2>1, <2>3
      <4> QED BY <1>1, <4>1
    <3>3. (A \ {y}) \ {z} = (A \ {z}) \ {y}
      OBVIOUS
    <3>4. Sum((A \ {z}) \ {y}) \in Int
      BY <1>0
    <3>5. f[y] \in Int /\ f[z] \in Int
      BY <2>1
    <3>6. Sum(A) = f[z] + (f[y] + Sum((A \ {z}) \ {y}))
      BY <2>1, <3>1
    <3>7. f[y] + Sum(A \ {y}) = f[y] + (f[z] + Sum((A \ {z}) \ {y}))
      BY <3>2, <3>3
    <3> QED BY <3>4, <3>5, <3>6, <3>7
  <2> QED BY <2>2, <2>3
<1> HIDE DEF G
<1>2. SUBSET S \subseteq G
  BY <1>1, SubsetInduct
<1> QED BY <1>2 DEF G

(* A sum depends on the summands only.                                     *)
LEMMA SumCongruent ==
    ASSUME NEW S, IsFiniteSet(S), NEW f, NEW g, \A x \in S : f[x] = g[x]
    PROVE  SumFunctionOnSet(f, S) = SumFunctionOnSet(g, S)
<1> DEFINE G == {A \in SUBSET S : SumFunctionOnSet(f, A) = SumFunctionOnSet(g, A)}
<1>1. ASSUME NEW A \in SUBSET S, \A B \in SUBSET A : B # A => B \in G
      PROVE  A \in G
  <2>1. IsFiniteSet(A)
    BY FS_Subset
  <2>2. CASE A = {}
    BY <2>2, SumEmpty
  <2>3. CASE A # {}
    <3>1. Pick(A) \in A
      BY <2>3 DEF Pick
    <3>2. A \ {Pick(A)} \in SUBSET A /\ A \ {Pick(A)} # A
      BY <3>1
    <3>3. /\ SumFunctionOnSet(f, A) = f[Pick(A)] + SumFunctionOnSet(f, A \ {Pick(A)})
          /\ SumFunctionOnSet(g, A) = g[Pick(A)] + SumFunctionOnSet(g, A \ {Pick(A)})
      BY <2>1, <2>3, SumUnfolds
    <3>4. SumFunctionOnSet(f, A \ {Pick(A)}) = SumFunctionOnSet(g, A \ {Pick(A)})
      BY <1>1, <3>2
    <3>5. f[Pick(A)] = g[Pick(A)]
      BY <3>1
    <3> QED BY <3>3, <3>4, <3>5
  <2> QED BY <2>2, <2>3
<1> HIDE DEF G
<1>2. SUBSET S \subseteq G
  BY <1>1, SubsetInduct
<1> QED BY <1>2 DEF G

(* Changing one summand changes the sum by as much.                        *)
LEMMA SumUpdate ==
    ASSUME NEW S, IsFiniteSet(S), NEW f, NEW g, NEW x \in S,
           \A y \in S : f[y] \in Int, g[x] \in Int, \A y \in S \ {x} : g[y] = f[y]
    PROVE  SumFunctionOnSet(g, S) = SumFunctionOnSet(f, S) - f[x] + g[x]
<1>1. IsFiniteSet(S \ {x})
  BY FS_RemoveElement
<1>2. SumFunctionOnSet(g, S \ {x}) = SumFunctionOnSet(f, S \ {x})
  BY <1>1, SumCongruent
<1>3. SumFunctionOnSet(f, S) = f[x] + SumFunctionOnSet(f, S \ {x})
  BY SumRemove
<1>4. \A y \in S : g[y] \in Int
  OBVIOUS
<1>5. SumFunctionOnSet(g, S) = g[x] + SumFunctionOnSet(g, S \ {x})
  BY <1>4, SumRemove
<1>6. SumFunctionOnSet(f, S \ {x}) \in Int
  BY <1>1, SumInt
<1>7. f[x] \in Int /\ g[x] \in Int
  OBVIOUS
<1> QED BY <1>2, <1>3, <1>5, <1>6, <1>7

(* Adding a new summand.                                                   *)
LEMMA SumAdd ==
    ASSUME NEW S, IsFiniteSet(S), NEW f, NEW x, x \notin S,
           \A y \in S \cup {x} : f[y] \in Int
    PROVE  SumFunctionOnSet(f, S \cup {x}) = SumFunctionOnSet(f, S) + f[x]
<1>1. IsFiniteSet(S \cup {x})
  BY FS_AddElement
<1>2. (S \cup {x}) \ {x} = S /\ x \in S \cup {x}
  OBVIOUS
<1>3. SumFunctionOnSet(f, S \cup {x}) = f[x] + SumFunctionOnSet(f, S)
  BY <1>1, <1>2, SumRemove
<1>4. SumFunctionOnSet(f, S) \in Int /\ f[x] \in Int
  BY SumInt
<1> QED BY <1>3, <1>4

LEMMA SumWith ==
    ASSUME NEW S, IsFiniteSet(S), NEW f, NEW x, x \notin S, NEW T, T = S \cup {x},
           \A y \in T : f[y] \in Int
    PROVE  SumFunctionOnSet(f, T) = SumFunctionOnSet(f, S) + f[x]
BY SumAdd

(* A sum of naturals is a natural no smaller than any of its summands.     *)
LEMMA SumNat ==
    ASSUME NEW S, IsFiniteSet(S), NEW f, \A x \in S : f[x] \in Nat
    PROVE  /\ SumFunctionOnSet(f, S) \in Nat
           /\ \A x \in S : f[x] <= SumFunctionOnSet(f, S)
<1> DEFINE G == {A \in SUBSET S : SumFunctionOnSet(f, A) \in Nat}
<1>1. ASSUME NEW A \in SUBSET S, \A B \in SUBSET A : B # A => B \in G
      PROVE  A \in G
  <2>1. IsFiniteSet(A)
    BY FS_Subset
  <2>2. CASE A = {}
    BY <2>2, SumEmpty
  <2>3. CASE A # {}
    <3>1. Pick(A) \in A
      BY <2>3 DEF Pick
    <3>2. A \ {Pick(A)} \in SUBSET A /\ A \ {Pick(A)} # A
      BY <3>1
    <3>3. SumFunctionOnSet(f, A) = f[Pick(A)] + SumFunctionOnSet(f, A \ {Pick(A)})
      BY <2>1, <2>3, SumUnfolds
    <3>4. SumFunctionOnSet(f, A \ {Pick(A)}) \in Nat /\ f[Pick(A)] \in Nat
      BY <1>1, <3>1, <3>2
    <3> QED BY <3>3, <3>4
  <2> QED BY <2>2, <2>3
<1> HIDE DEF G
<1>2. SUBSET S \subseteq G
  BY <1>1, SubsetInduct
<1>3. \A A \in SUBSET S : SumFunctionOnSet(f, A) \in Nat
  BY <1>2 DEF G
<1>4. ASSUME NEW x \in S PROVE f[x] <= SumFunctionOnSet(f, S)
  <2>1. SumFunctionOnSet(f, S) = f[x] + SumFunctionOnSet(f, S \ {x})
    BY SumRemove
  <2>2. SumFunctionOnSet(f, S \ {x}) \in Nat /\ f[x] \in Nat
    BY <1>3
  <2> QED BY <2>1, <2>2
<1> QED BY <1>3, <1>4

(* Changing two summands; and a sum of naturals is at least any two.       *)
LEMMA SumUpdateTwo ==
    ASSUME NEW S, IsFiniteSet(S), NEW f, NEW g, NEW a \in S, NEW b \in S, a # b,
           \A y \in S : f[y] \in Int, g[a] \in Int, g[b] \in Int,
           \A y \in S \ {a, b} : g[y] = f[y]
    PROVE  SumFunctionOnSet(g, S) = SumFunctionOnSet(f, S) - f[a] - f[b] + g[a] + g[b]
<1> DEFINE h == [y \in S |-> IF y = a THEN g[a] ELSE f[y]]
<1>1. h[a] = g[a] /\ h[b] = f[b] /\ (\A y \in S : h[y] \in Int)
      /\ (\A y \in S \ {a} : h[y] = f[y]) /\ (\A y \in S \ {b} : g[y] = h[y])
  OBVIOUS
<1> HIDE DEF h
<1>2. SumFunctionOnSet(h, S) = SumFunctionOnSet(f, S) - f[a] + h[a]
  BY <1>1, SumUpdate
<1>3. SumFunctionOnSet(g, S) = SumFunctionOnSet(h, S) - h[b] + g[b]
  BY <1>1, SumUpdate
<1>4. SumFunctionOnSet(f, S) \in Int
  BY SumInt
<1>5. f[a] \in Int /\ f[b] \in Int
  OBVIOUS
<1> QED BY <1>1, <1>2, <1>3, <1>4, <1>5

LEMMA SumOfTwo ==
    ASSUME NEW S, IsFiniteSet(S), NEW f, \A x \in S : f[x] \in Nat, NEW a \in S, NEW b \in S, a # b
    PROVE  f[a] + f[b] <= SumFunctionOnSet(f, S)
<1>1. IsFiniteSet(S \ {a})
  BY FS_RemoveElement
<1>2. \A x \in S \ {a} : f[x] \in Nat
  OBVIOUS
<1>3. f[b] <= SumFunctionOnSet(f, S \ {a}) /\ SumFunctionOnSet(f, S \ {a}) \in Nat
  BY <1>1, <1>2, SumNat
<1>4. \A x \in S : f[x] \in Int
  OBVIOUS
<1>5. SumFunctionOnSet(f, S) = f[a] + SumFunctionOnSet(f, S \ {a})
  BY <1>4, SumRemove
<1>6. f[a] \in Nat /\ f[b] \in Nat
  OBVIOUS
<1> QED BY <1>3, <1>5, <1>6

(* A sum of zeros is zero.                                                 *)
LEMMA SumZero ==
    ASSUME NEW S, IsFiniteSet(S), NEW f, \A x \in S : f[x] = 0
    PROVE  SumFunctionOnSet(f, S) = 0
<1> DEFINE G == {A \in SUBSET S : SumFunctionOnSet(f, A) = 0}
<1>1. ASSUME NEW A \in SUBSET S, \A B \in SUBSET A : B # A => B \in G
      PROVE  A \in G
  <2>1. IsFiniteSet(A)
    BY FS_Subset
  <2>2. CASE A = {}
    BY <2>2, SumEmpty
  <2>3. CASE A # {}
    <3>1. Pick(A) \in A
      BY <2>3 DEF Pick
    <3>2. A \ {Pick(A)} \in SUBSET A /\ A \ {Pick(A)} # A
      BY <3>1
    <3>3. SumFunctionOnSet(f, A) = f[Pick(A)] + SumFunctionOnSet(f, A \ {Pick(A)})
      BY <2>1, <2>3, SumUnfolds
    <3> QED BY <1>1, <3>1, <3>2, <3>3
  <2> QED BY <2>2, <2>3
<1> HIDE DEF G
<1>2. SUBSET S \subseteq G
  BY <1>1, SubsetInduct
<1> QED BY <1>2 DEF G

-----------------------------------------------------------------------------
(* Sums along a sequence, that is over 1..n.                               *)
LEMMA SumNext ==
    ASSUME NEW n \in Nat, NEW f, \A i \in 1..(n + 1) : f[i] \in Int
    PROVE  SumFunctionOnSet(f, 1..(n + 1)) = SumFunctionOnSet(f, 1..n) + f[n + 1]
<1>1. 1..(n + 1) = (1..n) \cup {n + 1} /\ n + 1 \notin 1..n
  OBVIOUS
<1>2. IsFiniteSet(1..n)
  BY FS_Interval
<1>3. \A y \in (1..n) \cup {n + 1} : f[y] \in Int
  BY <1>1
<1> DEFINE S == 1..n
           x == n + 1
<1>4. IsFiniteSet(S) /\ x \notin S /\ (\A y \in S \cup {x} : f[y] \in Int)
  BY <1>1, <1>2, <1>3
<1> HIDE DEF S, x
<1>5. SumFunctionOnSet(f, S \cup {x}) = SumFunctionOnSet(f, S) + f[x]
  BY <1>4, SumAdd
<1> QED BY <1>1, <1>5 DEF S, x

(* Taking the first summand off shifts the others by one.                  *)
LEMMA SumShift ==
    ASSUME NEW n \in Nat, NEW f, NEW g, \A i \in 1..(n + 1) : f[i] \in Int,
           \A i \in 1..n : g[i] = f[i + 1]
    PROVE  SumFunctionOnSet(f, 1..(n + 1)) = f[1] + SumFunctionOnSet(g, 1..n)
<1> DEFINE F(k) == SumFunctionOnSet(f, 1..k)
           H(k) == SumFunctionOnSet(g, 1..k)
           G == {k \in Nat : k <= n => F(k + 1) = f[1] + H(k)}
<1>1. 0 \in G
  <2>1. F(0 + 1) = F(0) + f[0 + 1]
    <3>1. \A i \in 1..(0 + 1) : f[i] \in Int
      OBVIOUS
    <3> QED BY <3>1, SumNext
  <2>2. F(0) = 0 /\ H(0) = 0
    <3>1. 1..0 = {}
      OBVIOUS
    <3> QED BY <3>1, SumEmpty
  <2>3. f[1] \in Int
    OBVIOUS
  <2> HIDE DEF F, H
  <2> QED BY <2>1, <2>2, <2>3
<1>2. ASSUME NEW k \in Nat, k \in G PROVE k + 1 \in G
  <2> SUFFICES ASSUME k + 1 <= n PROVE F((k + 1) + 1) = f[1] + H(k + 1)
    OBVIOUS
  <2>1. F(k + 1) = f[1] + H(k)
    BY <1>2
  <2>2. F((k + 1) + 1) = F(k + 1) + f[(k + 1) + 1]
    <3>1. k + 1 \in Nat /\ \A i \in 1..((k + 1) + 1) : f[i] \in Int
      OBVIOUS
    <3> QED BY <3>1, SumNext
  <2>3. H(k + 1) = H(k) + g[k + 1]
    <3>1. \A i \in 1..(k + 1) : g[i] \in Int
      <4> SUFFICES ASSUME NEW i \in 1..(k + 1) PROVE g[i] \in Int
        OBVIOUS
      <4>1. i \in 1..n /\ i + 1 \in 1..(n + 1)
        OBVIOUS
      <4> QED BY <4>1
    <3> QED BY <3>1, SumNext
  <2>4. g[k + 1] = f[(k + 1) + 1]
    OBVIOUS
  <2>5. H(k) \in Int
    <3>1. IsFiniteSet(1..k)
      BY FS_Interval
    <3>2. \A i \in 1..k : g[i] \in Int
      <4> SUFFICES ASSUME NEW i \in 1..k PROVE g[i] \in Int
        OBVIOUS
      <4>1. i \in 1..n /\ i + 1 \in 1..(n + 1)
        OBVIOUS
      <4> QED BY <4>1
    <3> QED BY <3>1, <3>2, SumInt
  <2>6. f[1] \in Int /\ f[(k + 1) + 1] \in Int
    OBVIOUS
  <2> HIDE DEF F, H
  <2> QED BY <2>1, <2>2, <2>3, <2>4, <2>5, <2>6
<1>3. Nat \subseteq G
  <2> HIDE DEF G
  <2> QED BY <1>1, <1>2, NatInduct
<1> QED BY <1>3

(* A sum along a concatenation.                                            *)
Continues(h, n, g, m, t) ==
    /\ n \in Nat /\ m \in Nat /\ t = n + m
    /\ \A i \in 1..t : h[i] \in Int
    /\ \A j \in 1..m : g[j] = h[n + j]

LEMMA SumAlong ==
    ASSUME NEW n \in Nat, NEW m \in Nat, NEW t, t = n + m, NEW h, NEW g,
           \A i \in 1..t : h[i] \in Int, \A j \in 1..m : g[j] = h[n + j]
    PROVE  SumFunctionOnSet(h, 1..t) = SumFunctionOnSet(h, 1..n) + SumFunctionOnSet(g, 1..m)
<1> DEFINE S(k) == SumFunctionOnSet(h, 1..k)
           H(k) == SumFunctionOnSet(g, 1..k)
           G == {k \in Nat : k <= m => S(n + k) = S(n) + H(k)}
<1>0. \A j \in 1..m : n + j \in 1..t /\ g[j] \in Int
  OBVIOUS
<1>1. S(n) \in Int
  <2>1. \A i \in 1..n : h[i] \in Int
    OBVIOUS
  <2>2. IsFiniteSet(1..n)
    BY FS_Interval
  <2> QED BY <2>1, <2>2, SumInt
<1>2. 0 \in G
  <2>1. H(0) = 0
    <3>1. 1..0 = {}
      OBVIOUS
    <3> QED BY <3>1, SumEmpty
  <2>2. n + 0 = n
    OBVIOUS
  <2> HIDE DEF H, S
  <2> QED BY <1>1, <2>1, <2>2
<1>3. ASSUME NEW k \in Nat, k \in G PROVE k + 1 \in G
  <2> SUFFICES ASSUME k + 1 <= m PROVE S(n + (k + 1)) = S(n) + H(k + 1)
    OBVIOUS
  <2>1. S(n + k) = S(n) + H(k)
    BY <1>3
  <2>2. S((n + k) + 1) = S(n + k) + h[(n + k) + 1]
    <3>1. n + k \in Nat /\ \A i \in 1..((n + k) + 1) : h[i] \in Int
      OBVIOUS
    <3> QED BY <3>1, SumNext
  <2>3. H(k + 1) = H(k) + g[k + 1]
    <3>1. \A i \in 1..(k + 1) : g[i] \in Int
      BY <1>0
    <3> QED BY <3>1, SumNext
  <2>4. (n + k) + 1 = n + (k + 1) /\ h[n + (k + 1)] = g[k + 1] /\ g[k + 1] \in Int
    BY <1>0
  <2>5. H(k) \in Int
    <3>1. IsFiniteSet(1..k) /\ \A i \in 1..k : g[i] \in Int
      BY <1>0, FS_Interval
    <3> QED BY <3>1, SumInt
  <2> HIDE DEF S, H
  <2> QED BY <1>1, <2>1, <2>2, <2>3, <2>4, <2>5
<1>4. Nat \subseteq G
  <2> HIDE DEF G
  <2> QED BY <1>2, <1>3, NatInduct
<1> QED BY <1>4

LEMMA SumConcat ==
    ASSUME NEW n, NEW m, NEW t, NEW h, NEW g, Continues(h, n, g, m, t)
    PROVE  SumFunctionOnSet(h, 1..t) = SumFunctionOnSet(h, 1..n) + SumFunctionOnSet(g, 1..m)
<1>1. /\ n \in Nat /\ m \in Nat /\ t = n + m
      /\ \A i \in 1..t : h[i] \in Int
      /\ \A j \in 1..m : g[j] = h[n + j]
  BY DEF Continues
<1> QED BY <1>1, SumAlong

-----------------------------------------------------------------------------
(* Integer arithmetic that the provers do not find by themselves: how      *)
(* rounding division and multiplication order numbers.                     *)
LEMMA DivBounds ==
    ASSUME NEW a \in Int, NEW b \in Nat \ {0}
    PROVE  /\ a \div b \in Int
           /\ b * (a \div b) <= a
           /\ a < b * (a \div b) + b
OBVIOUS

LEMMA MulMonotone ==
    ASSUME NEW x \in Int, NEW y \in Int, NEW c \in Nat, x <= y
    PROVE  x * c <= y * c /\ c * x <= c * y
OBVIOUS

LEMMA MulCancel ==
    ASSUME NEW x \in Int, NEW y \in Int, NEW c \in Nat \ {0}, c * x <= c * y
    PROVE  x <= y
OBVIOUS

LEMMA DivNat ==
    ASSUME NEW a \in Nat, NEW b \in Nat \ {0}
    PROVE  a \div b \in Nat /\ a \div b <= a
OBVIOUS

LEMMA DivFacts ==
    ASSUME NEW p \in Nat, NEW b \in Nat \ {0}, NEW q, q = p \div b
    PROVE  q \in Nat /\ b * q <= p
BY DivNat, DivBounds

LEMMA DivExact ==
    ASSUME NEW a \in Int, NEW b \in Nat \ {0}
    PROVE  (a * b) \div b = a
OBVIOUS


(* A quotient is at least any number whose product fits.                   *)
LEMMA DivAtLeast ==
    ASSUME NEW k \in Int, NEW p \in Int, NEW b \in Nat \ {0}, k * b <= p
    PROVE  p \div b >= k
<1> DEFINE q == p \div b
<1>1. q \in Int /\ p < b * q + b
  BY DivBounds
<1> HIDE DEF q
<1>2. k * b = b * k /\ b * (q + 1) = b * q + b /\ b * q \in Int /\ b * k \in Int
  BY <1>1
<1>3. ~(b * (q + 1) <= b * k)
  BY <1>1, <1>2
<1>4. ~(q + 1 <= k)
  <2>1. q + 1 \in Int
    BY <1>1
  <2> QED BY <1>3, <2>1, MulMonotone
<1> QED BY <1>1, <1>4 DEF q

(* The larger and the smaller of two numbers.                              *)
LEMMA MaxOfTwo ==
    ASSUME NEW a \in Int, NEW b \in Int
    PROVE  Max({a, b}) = IF a >= b THEN a ELSE b
<1>1. CASE a >= b
  <2>1. a \in {a, b} /\ \A y \in {a, b} : a >= y
    BY <1>1
  <2>2. \A x \in {a, b} : (\A y \in {a, b} : x >= y) => x = a
    BY <1>1
  <2> QED BY <1>1, <2>1, <2>2 DEF Max
<1>2. CASE ~(a >= b)
  <2>1. b \in {a, b} /\ \A y \in {a, b} : b >= y
    BY <1>2
  <2>2. \A x \in {a, b} : (\A y \in {a, b} : x >= y) => x = b
    BY <1>2
  <2> QED BY <1>2, <2>1, <2>2 DEF Max
<1> QED BY <1>1, <1>2

LEMMA MinOfTwo ==
    ASSUME NEW a \in Int, NEW b \in Int
    PROVE  Min({a, b}) = IF a <= b THEN a ELSE b
<1>1. CASE a <= b
  <2>1. a \in {a, b} /\ \A y \in {a, b} : a <= y
    BY <1>1
  <2>2. \A x \in {a, b} : (\A y \in {a, b} : x <= y) => x = a
    BY <1>1
  <2> QED BY <1>1, <2>1, <2>2 DEF Min
<1>2. CASE ~(a <= b)
  <2>1. b \in {a, b} /\ \A y \in {a, b} : b <= y
    BY <1>2
  <2>2. \A x \in {a, b} : (\A y \in {a, b} : x <= y) => x = b
    BY <1>2
  <2> QED BY <1>2, <2>1, <2>2 DEF Min
<1> QED BY <1>1, <1>2

-----------------------------------------------------------------------------
(* A function on 1..n is a sequence.                                       *)
LEMMA FunctionSeq ==
    ASSUME NEW n \in Nat, NEW S, NEW f \in [1..n -> S]
    PROVE  f \in Seq(S) /\ Len(f) = n
<1>1. f \in Seq(S)
  BY SeqDef
<1>2. Len(f) \in Nat /\ 1..Len(f) = 1..n
  BY <1>1, LenProperties
<1> QED BY <1>1, <1>2

(* The sign of a product.                                                  *)
LEMMA SignOfProduct ==
    ASSUME NEW x \in Int, NEW y \in Int
    PROVE  /\ x * y > 0 <=> (x > 0 /\ y > 0) \/ (x < 0 /\ y < 0)
           /\ x * y < 0 <=> (x > 0 /\ y < 0) \/ (x < 0 /\ y > 0)
           /\ x * y = 0 <=> x = 0 \/ y = 0
           /\ x * y \in Int
OBVIOUS

(* Closing a position l at e with n lots at px, whole or in part.          *)
LEMMA ClosingCost ==
    ASSUME NEW l \in Int, NEW e \in Int, NEW n \in Int, NEW px \in Int
    PROVE  /\ (l + n) * px = l * e + n * px + l * (px - e)
           /\ (l + n) * e = l * e + n * px + (-n) * (px - e)
OBVIOUS

(* Rounding a division up.                                                 *)
LEMMA CeilFacts ==
    ASSUME NEW p \in Nat, NEW b \in Nat \ {0}, NEW q, q = (p + b - 1) \div b
    PROVE  q \in Nat /\ b * q >= p
<1>1. p + b - 1 \in Nat
  OBVIOUS
<1>2. q \in Nat
  BY <1>1, DivNat
<1>3. p + b - 1 < b * q + b
  BY <1>1, DivBounds
<1>4. b * q \in Int
  BY <1>2
<1> QED BY <1>2, <1>3, <1>4
=============================================================================
