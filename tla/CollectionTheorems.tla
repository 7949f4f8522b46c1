------------------------- MODULE CollectionTheorems -------------------------
(***************************************************************************)
(* Facts about naturals, sums over finite sets, and sequences that the     *)
(* proofs about the components share.  There is no induction rule to cite, *)
(* so a proof by induction looks at a least counterexample.                *)
(***************************************************************************)
EXTENDS Integers, Positions, FiniteSetsExt, FiniteSetTheorems, SequenceTheorems,
        WellFoundedInduction, TLAPS

-----------------------------------------------------------------------------
(* Numbers.                                                                 *)

\* A set of naturals has a least element, and a bounded one a greatest.
LEMMA LeastNatural ==
    ASSUME NEW S \in SUBSET Nat, S # {}
    PROVE  Min(S) \in S /\ \A y \in S : Min(S) =< y
<1> DEFINE R == {ss \in Nat \X Nat : ss[1] < ss[2]}
<1>1. IsWellFoundedOn(R, Nat)
  BY NatLessThanWellFounded DEF OpToRel
<1>2. \E x \in S : \A y \in S : ~(<<y, x>> \in R)
  <2> HIDE DEF R
  <2> QED
    BY <1>1, WFMin
<1>3. \E x \in S : \A y \in S : x =< y
  <2> SUFFICES ASSUME NEW x \in S, \A y \in S : ~(<<y, x>> \in R)
               PROVE  \A y \in S : x =< y
    BY <1>2
  <2> TAKE y \in S
  <2>1. x \in Nat /\ y \in Nat /\ <<y, x>> \in Nat \X Nat
    OBVIOUS
  <2>2. ~(<<y, x>>[1] < <<y, x>>[2])
    BY <2>1
  <2> QED
    BY <2>1, <2>2
<1> QED
  BY <1>3 DEF Min

LEMMA GreatestNatural ==
    ASSUME NEW n \in Nat, NEW S \in SUBSET (1..n), S # {}
    PROVE  Max(S) \in S /\ \A y \in S : Max(S) >= y
<1> DEFINE D == {n - x : x \in S}
<1>1. D \in SUBSET Nat /\ D # {}
  <2>1. \A x \in S : x \in 1..n /\ n - x \in Nat
    OBVIOUS
  <2> QED
    BY <2>1
<1>2. Min(D) \in D /\ \A y \in D : Min(D) =< y
  BY <1>1, LeastNatural
<1>3. \E x \in S : Min(D) = n - x
  BY <1>2
<1>4. \E x \in S : \A y \in S : x >= y
  <2>1. PICK x \in S : Min(D) = n - x
    BY <1>3
  <2>2. \A y \in S : n - y \in D
    OBVIOUS
  <2>3. \A y \in S : n - x =< n - y
    BY <1>2, <2>1, <2>2
  <2> QED
    BY <2>3
<1> QED
  BY <1>4 DEF Max

\* A set of finite sets that is not empty has a member of the least size.
LEMMA SmallestSet ==
    ASSUME NEW F, F # {}, \A s \in F : IsFiniteSet(s)
    PROVE  \E s \in F : \A t \in F : Cardinality(s) =< Cardinality(t)
<1> DEFINE N == {Cardinality(s) : s \in F}
<1>1. N \in SUBSET Nat /\ N # {}
  BY FS_CardinalityType
<1>2. Min(N) \in N /\ \A y \in N : Min(N) =< y
  <2> HIDE DEF N
  <2> QED
    BY <1>1, LeastNatural
<1> QED
  BY <1>2

\* A finite set of integers has a greatest element.
LEMMA GreatestInteger ==
    ASSUME NEW S \in SUBSET Int, IsFiniteSet(S), S # {}
    PROVE  \E x \in S : \A y \in S : y =< x
<1> DEFINE above(x) == {y \in S : x < y}
           F == {above(x) : x \in S}
<1>1. F # {} /\ \A s \in F : IsFiniteSet(s)
  <2>1. \A x \in S : above(x) \in SUBSET S
    OBVIOUS
  <2> HIDE DEF above
  <2>2. \A x \in S : IsFiniteSet(above(x))
    BY <2>1, FS_Subset
  <2> QED
    BY <2>2
<1>2. PICK s \in F : \A t \in F : Cardinality(s) =< Cardinality(t)
  <2> HIDE DEF F
  <2> QED
    BY <1>1, SmallestSet
<1>3. PICK x \in S : s = above(x)
  BY <1>2
<1>4. ASSUME NEW y \in S, x < y PROVE FALSE
  <2>0. x \in Int /\ y \in Int /\ \A z \in S : z \in Int /\ (y < z => x < z)
    BY <1>4
  <2>1. above(y) \in SUBSET above(x) /\ y \in above(x) /\ y \notin above(y)
    <3>1. \A z \in S : z \in above(y) => z \in above(x)
      BY <2>0
    <3>2. above(y) \in SUBSET S /\ ~(y < y)
      BY <2>0
    <3> QED
      BY <1>4, <3>1, <3>2
  <2>2. IsFiniteSet(above(x)) /\ IsFiniteSet(above(y)) /\ above(y) \in F
    BY <1>1
  <2>3. Cardinality(above(x)) =< Cardinality(above(y))
    BY <1>2, <1>3, <2>2
  <2> HIDE DEF above
  <2>4. /\ Cardinality(above(x)) \in Nat /\ Cardinality(above(y)) \in Nat
        /\ Cardinality(above(y)) =< Cardinality(above(x))
    BY <2>1, <2>2, FS_Subset, FS_CardinalityType
  <2> QED
    BY <2>1, <2>2, <2>3, <2>4, FS_Subset
<1> QED
  BY <1>4

\* The greatest element is there to be chosen.
LEMMA GreatestIsIn ==
    ASSUME NEW S \in SUBSET Int, IsFiniteSet(S), S # {}
    PROVE  Max(S) \in S /\ \A y \in S : y =< Max(S)
<1>1. \E x \in S : \A y \in S : x >= y
  BY GreatestInteger
<1> QED
  BY <1>1 DEF Max

\* What the quotient of a division is.
LEMMA Quotient ==
    ASSUME NEW a \in Int, NEW n \in Nat \ {0}
    PROVE  /\ a \div n \in Int
           /\ n * (a \div n) =< a /\ a < n * (a \div n) + n
  OBVIOUS

\* An inequality may be multiplied by a positive number, and divided by it.
LEMMA Scales ==
    ASSUME NEW a \in Int, NEW b \in Int, NEW n \in Nat \ {0}
    PROVE  /\ a =< b => n * a =< n * b
           /\ a < b => n * a + n =< n * b
           /\ n * a =< n * b => a =< b
           /\ n * a < n * b => a < b
  OBVIOUS

\* Equal ratios have equal quotients.
LEMMA SameQuotient ==
    ASSUME NEW a \in Int, NEW b \in Int, NEW m \in Nat \ {0}, NEW n \in Nat \ {0},
           n * a = m * b
    PROVE  a \div m = b \div n
<1> DEFINE q == b \div n
           r == a \div m
<1>1. q \in Int /\ n * q =< b /\ b < n * q + n
  BY Quotient
<1>2. r \in Int /\ m * r =< a /\ a < m * r + m
  BY Quotient
<1> HIDE DEF q, r
<1>3. ASSUME q < r PROVE FALSE
  <2>1. n * q + n =< n * r
    BY <1>1, <1>2, <1>3, Scales
  <2>2. b < n * r
    BY <1>1, <1>2, <2>1
  <2>3. m * b < m * (n * r)
    BY <1>2, <2>2, Scales
  <2>4. n * (m * r) =< n * a
    BY <1>2, Scales
  <2>5. m * (n * r) = n * (m * r)
    BY <1>2
  <2> QED
    BY <1>2, <2>3, <2>4, <2>5
<1>4. ASSUME r < q PROVE FALSE
  <2>1. m * r + m =< m * q
    BY <1>1, <1>2, <1>4, Scales
  <2>2. a < m * q
    BY <1>1, <1>2, <2>1
  <2>3. n * a < n * (m * q)
    BY <1>1, <2>2, Scales
  <2>4. m * (n * q) =< m * b
    BY <1>1, Scales
  <2>5. m * (n * q) = n * (m * q)
    BY <1>1
  <2> QED
    BY <1>1, <2>3, <2>4, <2>5
<1>5. q = r
  BY <1>1, <1>2, <1>3, <1>4
<1> QED
  BY <1>5 DEF q, r

-----------------------------------------------------------------------------
(* Sums over a set.                                                         *)

SumOf(h, S) == MapThenSumSet(LAMBDA o : h[o], S)

\* g gives the sum of h over each subset of S, in the order CHOOSE takes it.
Summing(g, h, S) ==
    g = [s \in SUBSET S |->
            IF s = {} THEN 0
            ELSE h[CHOOSE x \in s : TRUE] + g[s \ {CHOOSE x \in s : TRUE}]]

LEMMA SumExists ==
    ASSUME NEW S, IsFiniteSet(S), NEW h
    PROVE  \E g : Summing(g, h, S)
<1> DEFINE c(s) == CHOOSE x \in s : TRUE
           Upto(n) == {s \in SUBSET S : Cardinality(s) =< n}
           To(g, n) == g = [s \in Upto(n) |-> IF s = {} THEN 0 ELSE h[c(s)] + g[s \ {c(s)}]]
           Bad == {n \in Nat : ~\E g : To(g, n)}
<1>1. ASSUME NEW s \in SUBSET S
      PROVE  /\ IsFiniteSet(s) /\ Cardinality(s) \in Nat /\ Cardinality(s) =< Cardinality(S)
             /\ Cardinality(s) = 0 <=> s = {}
             /\ s # {} => /\ c(s) \in s
                          /\ s \ {c(s)} \in SUBSET S
                          /\ Cardinality(s \ {c(s)}) = Cardinality(s) - 1
  <2>1. IsFiniteSet(s) /\ Cardinality(s) \in Nat /\ Cardinality(s) =< Cardinality(S)
    BY FS_Subset, FS_CardinalityType
  <2>2. Cardinality(s) = 0 <=> s = {}
    BY <2>1, FS_EmptySet
  <2>3. s # {} => c(s) \in s
    OBVIOUS
  <2> QED
    BY <2>1, <2>2, <2>3, FS_RemoveElement
<1>2. \A s \in SUBSET S : Cardinality(s) \in Nat /\ (Cardinality(s) = 0 => s = {})
  <2> HIDE DEF c
  <2> QED
    BY <1>1
<1>3. Bad = {}
  <2> SUFFICES ASSUME Bad # {} PROVE FALSE
    OBVIOUS
  <2> DEFINE n == Min(Bad)
  <2>1. n \in Bad /\ \A m \in Bad : n =< m
    <3>1. Bad \in SUBSET Nat
      OBVIOUS
    <3> HIDE DEF Bad
    <3> QED
      BY <3>1, LeastNatural
  <2>2. n \in Nat /\ ~\E g : To(g, n)
    BY <2>1
  <2> HIDE DEF n
  <2>3. CASE n = 0
    <3>1. \A s \in Upto(0) : s = {}
      BY <1>2
    <3>2. To([s \in Upto(0) |-> 0], 0)
      BY <3>1
    <3> QED
      BY <2>2, <2>3, <3>2
  <2>4. CASE n # 0
    <3>1. n - 1 \in Nat /\ n - 1 \notin Bad
      <4> HIDE DEF Bad
      <4> QED
        BY <2>1, <2>2, <2>4
    <3>2. PICK g : To(g, n - 1)
      BY <3>1
    <3> DEFINE f == [s \in Upto(n) |-> IF s = {} THEN 0 ELSE h[c(s)] + g[s \ {c(s)}]]
    <3>3. ASSUME NEW t \in Upto(n - 1) PROVE t \in Upto(n) /\ f[t] = g[t]
      <4>1. t \in Upto(n)
        BY <1>2, <2>2
      <4>2. g[t] = IF t = {} THEN 0 ELSE h[c(t)] + g[t \ {c(t)}]
        <5> HIDE DEF c, Upto
        <5> QED
          BY <3>2
      <4> QED
        BY <4>1, <4>2
    <3>4. ASSUME NEW s \in Upto(n), s # {} PROVE s \ {c(s)} \in Upto(n - 1)
      BY <1>1, <2>2, <3>4
    <3>5. ASSUME NEW s \in Upto(n)
          PROVE  (IF s = {} THEN 0 ELSE h[c(s)] + g[s \ {c(s)}])
                    = (IF s = {} THEN 0 ELSE h[c(s)] + f[s \ {c(s)}])
      <4> HIDE DEF c, Upto, f
      <4> QED
        BY <3>3, <3>4
    <3>6. To(f, n)
      <4> DEFINE left(s) == IF s = {} THEN 0 ELSE h[c(s)] + g[s \ {c(s)}]
                 right(s) == IF s = {} THEN 0 ELSE h[c(s)] + f[s \ {c(s)}]
      <4>1. \A s \in Upto(n) : left(s) = right(s)
        BY <3>5
      <4>2. f = [s \in Upto(n) |-> left(s)]
        OBVIOUS
      <4> HIDE DEF left, right, f, Upto
      <4>3. f = [s \in Upto(n) |-> right(s)]
        BY <4>1, <4>2
      <4> QED
        BY <4>3 DEF right
    <3> QED
      BY <2>2, <3>6
  <2> QED
    BY <2>3, <2>4
<1>4. Cardinality(S) \in Nat
  BY FS_CardinalityType
<1>5. PICK g : To(g, Cardinality(S))
  BY <1>3, <1>4
<1>6. Upto(Cardinality(S)) = SUBSET S
  BY <1>1
<1>7. g = [s \in SUBSET S |-> IF s = {} THEN 0 ELSE h[c(s)] + g[s \ {c(s)}]]
  <2> HIDE DEF c, Upto
  <2> QED
    BY <1>5, <1>6
<1>8. Summing(g, h, S)
  BY <1>7 DEF Summing
<1> QED
  BY <1>8

\* The sum is what one such function gives for the whole set.
LEMMA SumIsSumming ==
    ASSUME NEW S, IsFiniteSet(S), NEW h
    PROVE  \E g : Summing(g, h, S) /\ SumOf(h, S) = g[S]
<1> DEFINE g == CHOOSE f : Summing(f, h, S)
<1>0. \E f : Summing(f, h, S)
  BY SumExists
<1>1. Summing(g, h, S)
  BY <1>0
<1>2. SumOf(h, S) = g[S]
  BY DEF SumOf, MapThenSumSet, MapThenFoldSet, Summing
<1> QED
  BY <1>1, <1>2

\* Partial sums are integers, and any element may be taken out first.
LEMMA SummingSteps ==
    ASSUME NEW S, IsFiniteSet(S), NEW h, \A x \in S : h[x] \in Int,
           NEW g, Summing(g, h, S)
    PROVE  /\ g[{}] = 0
           /\ \A s \in SUBSET S : g[s] \in Int
           /\ \A s \in SUBSET S : \A x \in s : g[s] = h[x] + g[s \ {x}]
<1> DEFINE c(s) == CHOOSE x \in s : TRUE
           Good(s) == g[s] \in Int /\ \A x \in s : g[s] = h[x] + g[s \ {x}]
           F == {s \in SUBSET S : ~Good(s)}
<1>1. \A s \in SUBSET S : g[s] = IF s = {} THEN 0 ELSE h[c(s)] + g[s \ {c(s)}]
  BY DEF Summing
<1>2. ASSUME NEW s \in SUBSET S, NEW x \in s
      PROVE  /\ s \ {x} \in SUBSET S /\ Cardinality(s \ {x}) < Cardinality(s)
             /\ h[x] \in Int
  <2>1. IsFiniteSet(s) /\ Cardinality(s) \in Nat
    BY FS_Subset, FS_CardinalityType
  <2>2. Cardinality(s \ {x}) = Cardinality(s) - 1
    BY <2>1, FS_RemoveElement
  <2> QED
    BY <2>1, <2>2
<1>3. \A s \in SUBSET S : s # {} => c(s) \in s
  OBVIOUS
<1> HIDE DEF c
<1>4. F = {}
  <2> SUFFICES ASSUME F # {} PROVE FALSE
    OBVIOUS
  <2>1. \A s \in F : IsFiniteSet(s)
    BY FS_Subset
  <2>2. PICK s \in F : \A t \in F : Cardinality(s) =< Cardinality(t)
    <3> HIDE DEF F
    <3> QED
      BY <2>1, SmallestSet
  <2>3. s \in SUBSET S /\ ~Good(s)
    OBVIOUS
  <2>4. ASSUME NEW x \in s PROVE Good(s \ {x})
    <3>1. s \ {x} \in SUBSET S /\ Cardinality(s \ {x}) < Cardinality(s)
      BY <1>2, <2>3
    <3>2. Cardinality(s) \in Nat /\ Cardinality(s \ {x}) \in Nat
      BY <2>3, <3>1, FS_Subset, FS_CardinalityType
    <3>3. s \ {x} \notin F
      <4> HIDE DEF F
      <4> QED
        BY <2>2, <3>1, <3>2
    <3> QED
      BY <3>1, <3>3
  <2>5. s # {}
    <3> SUFFICES ASSUME s = {} PROVE Good(s)
      BY <2>3
    <3>1. g[s] = 0
      BY <1>1
    <3> QED
      BY <3>1
  <2>6. c(s) \in s /\ g[s] = h[c(s)] + g[s \ {c(s)}]
    BY <1>1, <1>3, <2>3, <2>5
  <2>7. g[s] \in Int
    <3>1. h[c(s)] \in Int /\ g[s \ {c(s)}] \in Int
      BY <1>2, <2>3, <2>4, <2>6
    <3> QED
      BY <2>6, <3>1
  <2>8. ASSUME NEW x \in s, x # c(s) PROVE g[s] = h[x] + g[s \ {x}]
    <3>1. x \in s \ {c(s)} /\ c(s) \in s \ {x} /\ (s \ {c(s)}) \ {x} = (s \ {x}) \ {c(s)}
      BY <2>6, <2>8
    <3>2. Good(s \ {c(s)}) /\ Good(s \ {x})
      BY <2>4, <2>6
    <3>3. /\ g[s \ {c(s)}] = h[x] + g[(s \ {x}) \ {c(s)}]
          /\ g[s \ {x}] = h[c(s)] + g[(s \ {x}) \ {c(s)}]
      BY <3>1, <3>2
    <3>4. (s \ {x}) \ {c(s)} \in SUBSET S /\ g[s \ {x}] \in Int /\ h[x] \in Int /\ h[c(s)] \in Int
      BY <1>2, <2>3, <2>6, <3>2
    <3>5. g[(s \ {x}) \ {c(s)}] \in Int
      <4>1. (s \ {x}) \ {c(s)} \notin F
        <5>1. /\ Cardinality((s \ {x}) \ {c(s)}) < Cardinality(s \ {x})
              /\ Cardinality(s \ {x}) < Cardinality(s)
          BY <1>2, <2>3, <3>1
        <5>2. /\ Cardinality(s) \in Nat /\ Cardinality(s \ {x}) \in Nat
              /\ Cardinality((s \ {x}) \ {c(s)}) \in Nat
          BY <2>3, FS_Subset, FS_CardinalityType
        <5> HIDE DEF F
        <5> QED
          BY <2>2, <5>1, <5>2
      <4> QED
        BY <3>4, <4>1
    <3> QED
      BY <2>6, <3>3, <3>4, <3>5
  <2> QED
    BY <2>3, <2>6, <2>7, <2>8
<1>5. \A s \in SUBSET S : Good(s)
  BY <1>4
<1> QED
  BY <1>1, <1>5

\* Two such functions agree where both are defined.
LEMMA SummingAgree ==
    ASSUME NEW S, IsFiniteSet(S), NEW T \in SUBSET S, NEW h, \A x \in S : h[x] \in Int,
           NEW g, Summing(g, h, S), NEW f, Summing(f, h, T)
    PROVE  \A s \in SUBSET T : f[s] = g[s]
<1> DEFINE F == {s \in SUBSET T : f[s] # g[s]}
<1>1. IsFiniteSet(T) /\ \A x \in T : h[x] \in Int
  BY FS_Subset
<1>2. /\ f[{}] = 0 /\ \A s \in SUBSET T : \A x \in s : f[s] = h[x] + f[s \ {x}]
      /\ g[{}] = 0 /\ \A s \in SUBSET S : \A x \in s : g[s] = h[x] + g[s \ {x}]
  <2>1. f[{}] = 0 /\ \A s \in SUBSET T : \A x \in s : f[s] = h[x] + f[s \ {x}]
    BY <1>1, SummingSteps
  <2>2. g[{}] = 0 /\ \A s \in SUBSET S : \A x \in s : g[s] = h[x] + g[s \ {x}]
    BY SummingSteps
  <2> QED
    BY <2>1, <2>2
<1>3. F = {}
  <2> SUFFICES ASSUME F # {} PROVE FALSE
    OBVIOUS
  <2>1. \A s \in F : IsFiniteSet(s)
    BY <1>1, FS_Subset
  <2>2. PICK s \in F : \A t \in F : Cardinality(s) =< Cardinality(t)
    <3> HIDE DEF F
    <3> QED
      BY <2>1, SmallestSet
  <2>3. s \in SUBSET T /\ s \in SUBSET S /\ f[s] # g[s]
    OBVIOUS
  <2>4. s # {}
    BY <1>2, <2>3
  <2>5. PICK x \in s : TRUE
    BY <2>4
  <2>6. IsFiniteSet(s) /\ Cardinality(s) \in Nat
    BY <1>1, <2>3, FS_Subset, FS_CardinalityType
  <2>7. Cardinality(s \ {x}) = Cardinality(s) - 1
    BY <2>6, FS_RemoveElement
  <2>8. s \ {x} \in SUBSET T /\ s \ {x} \notin F
    <3> HIDE DEF F
    <3> QED
      BY <2>2, <2>3, <2>6, <2>7
  <2>9. f[s \ {x}] = g[s \ {x}]
    BY <2>8
  <2> QED
    BY <1>2, <2>3, <2>9
<1> QED
  BY <1>3

\* Partial sums of naturals are naturals.
LEMMA SummingNaturals ==
    ASSUME NEW S, IsFiniteSet(S), NEW h, \A x \in S : h[x] \in Nat,
           NEW g, Summing(g, h, S)
    PROVE  \A s \in SUBSET S : g[s] \in Nat
<1> DEFINE F == {s \in SUBSET S : g[s] \notin Nat}
<1>0. \A x \in S : h[x] \in Int
  OBVIOUS
<1>1. g[{}] = 0 /\ \A s \in SUBSET S : \A x \in s : g[s] = h[x] + g[s \ {x}]
  <2>1. g[{}] = 0
    BY <1>0, SummingSteps
  <2>2. ASSUME NEW s \in SUBSET S, NEW x \in s PROVE g[s] = h[x] + g[s \ {x}]
    BY <1>0, SummingSteps
  <2> QED
    BY <2>1, <2>2
<1>2. F = {}
  <2> SUFFICES ASSUME F # {} PROVE FALSE
    OBVIOUS
  <2>1. \A s \in F : IsFiniteSet(s)
    BY FS_Subset
  <2>2. PICK s \in F : \A t \in F : Cardinality(s) =< Cardinality(t)
    <3> HIDE DEF F
    <3> QED
      BY <2>1, SmallestSet
  <2>3. s \in SUBSET S /\ g[s] \notin Nat
    OBVIOUS
  <2>4. PICK x \in s : TRUE
    <3>1. g[{}] \in Nat
      BY <1>1
    <3> QED
      BY <2>3, <3>1
  <2>5. IsFiniteSet(s) /\ Cardinality(s) \in Nat /\ Cardinality(s \ {x}) = Cardinality(s) - 1
    BY <2>3, FS_Subset, FS_CardinalityType, FS_RemoveElement
  <2>6. s \ {x} \in SUBSET S /\ s \ {x} \notin F
    <3> HIDE DEF F
    <3> QED
      BY <2>2, <2>3, <2>5
  <2>7. g[s \ {x}] \in Nat /\ h[x] \in Nat
    BY <2>3, <2>6
  <2>8. g[s] = h[x] + g[s \ {x}]
    BY <1>1, <2>3
  <2>9. g[s] \in Nat
    BY <2>7, <2>8
  <2> QED
    BY <2>3, <2>9
<1> QED
  BY <1>2

\* A sum is taken element by element.
LEMMA SumIntSteps ==
    ASSUME NEW S, IsFiniteSet(S), NEW h, \A x \in S : h[x] \in Int
    PROVE  /\ SumOf(h, S) \in Int
           /\ \A x \in S : SumOf(h, S) = h[x] + SumOf(h, S \ {x})
<1>1. PICK g : Summing(g, h, S) /\ SumOf(h, S) = g[S]
  BY SumIsSumming
<1>2. g[S] \in Int /\ \A x \in S : g[S] = h[x] + g[S \ {x}]
  <2>0. Summing(g, h, S)
    BY <1>1
  <2>1. /\ \A s \in SUBSET S : g[s] \in Int
        /\ \A s \in SUBSET S : \A x \in s : g[s] = h[x] + g[s \ {x}]
    BY <2>0, SummingSteps
  <2>2. S \in SUBSET S
    OBVIOUS
  <2> QED
    BY <2>1, <2>2
<1>3. ASSUME NEW x \in S PROVE SumOf(h, S \ {x}) = g[S \ {x}]
  <2>1. IsFiniteSet(S \ {x}) /\ S \ {x} \in SUBSET S
    BY FS_Subset
  <2>2. PICK f : Summing(f, h, S \ {x}) /\ SumOf(h, S \ {x}) = f[S \ {x}]
    BY <2>1, SumIsSumming
  <2>3. \A s \in SUBSET (S \ {x}) : f[s] = g[s]
    BY <1>1, <2>1, <2>2, SummingAgree
  <2> QED
    BY <2>2, <2>3
<1> QED
  BY <1>1, <1>2, <1>3

\* So is one of naturals, and it is one.
LEMMA SumSteps ==
    ASSUME NEW S, IsFiniteSet(S), NEW h, \A x \in S : h[x] \in Nat
    PROVE  /\ SumOf(h, S) \in Nat
           /\ \A x \in S : SumOf(h, S) = h[x] + SumOf(h, S \ {x})
<1>1. PICK g : Summing(g, h, S) /\ SumOf(h, S) = g[S]
  BY SumIsSumming
<1>2. SumOf(h, S) \in Nat
  BY <1>1, SummingNaturals
<1>3. \A x \in S : h[x] \in Int
  OBVIOUS
<1> QED
  BY <1>2, <1>3, SumIntSteps

\* Nothing adds up to nought.
LEMMA SumOfNone ==
    ASSUME NEW h
    PROVE  SumOf(h, {}) = 0
<1>1. IsFiniteSet({})
  BY FS_EmptySet
<1>2. PICK g : Summing(g, h, {}) /\ SumOf(h, {}) = g[{}]
  BY <1>1, SumIsSumming
<1> QED
  BY <1>1, <1>2, SummingSteps

\* A sum depends on the values that it adds, and on nothing else.
LEMMA SumSame ==
    ASSUME NEW S, IsFiniteSet(S), NEW h, \A x \in S : h[x] \in Int,
           NEW k, \A x \in S : k[x] = h[x]
    PROVE  SumOf(k, S) = SumOf(h, S)
<1> DEFINE F == {U \in SUBSET S : SumOf(k, U) # SumOf(h, U)}
<1>1. \A U \in SUBSET S : IsFiniteSet(U) /\ Cardinality(U) \in Nat
  BY FS_Subset, FS_CardinalityType
<1>2. F = {}
  <2> SUFFICES ASSUME F # {} PROVE FALSE
    OBVIOUS
  <2>1. PICK U \in F : \A V \in F : Cardinality(U) =< Cardinality(V)
    <3>1. \A V \in F : IsFiniteSet(V)
      BY <1>1
    <3> HIDE DEF F
    <3> QED
      BY <3>1, SmallestSet
  <2>2. U \in SUBSET S /\ SumOf(k, U) # SumOf(h, U)
    OBVIOUS
  <2>3. PICK x \in U : TRUE
    BY <2>2, SumOfNone
  <2>4. Cardinality(U \ {x}) = Cardinality(U) - 1 /\ U \ {x} \in SUBSET S
    BY <1>1, <2>2, FS_RemoveElement
  <2>5. U \ {x} \notin F
    <3> HIDE DEF F
    <3> QED
      BY <1>1, <2>1, <2>2, <2>4
  <2>6. SumOf(k, U \ {x}) = SumOf(h, U \ {x})
    BY <2>4, <2>5
  <2>7. SumOf(h, U) = h[x] + SumOf(h, U \ {x}) /\ SumOf(k, U) = k[x] + SumOf(k, U \ {x})
    BY <1>1, <2>2, SumIntSteps
  <2> QED
    BY <2>2, <2>6, <2>7
<1> QED
  BY <1>2

\* A sum over two sets that are disjoint is the sum of theirs.
LEMMA SumSplit ==
    ASSUME NEW A, IsFiniteSet(A), NEW B, IsFiniteSet(B), A \cap B = {},
           NEW h, \A x \in A \cup B : h[x] \in Int
    PROVE  SumOf(h, A \cup B) = SumOf(h, A) + SumOf(h, B)
<1> DEFINE F == {U \in SUBSET B : SumOf(h, A \cup U) # SumOf(h, A) + SumOf(h, U)}
<1>1. \A U \in SUBSET B : IsFiniteSet(U) /\ Cardinality(U) \in Nat
  BY FS_Subset, FS_CardinalityType
<1>4. ASSUME NEW U \in SUBSET B
      PROVE  IsFiniteSet(A \cup U) /\ SumOf(h, U) \in Int
  <2>1. IsFiniteSet(A \cup U)
    BY <1>1, FS_Union
  <2>2. \A x \in U : h[x] \in Int
    OBVIOUS
  <2> QED
    BY <1>1, <2>1, <2>2, SumIntSteps
<1>2. SumOf(h, A) \in Int
  BY SumIntSteps
<1>3. F = {}
  <2> SUFFICES ASSUME F # {} PROVE FALSE
    OBVIOUS
  <2>1. PICK U \in F : \A V \in F : Cardinality(U) =< Cardinality(V)
    <3>1. \A V \in F : IsFiniteSet(V)
      BY <1>1
    <3> HIDE DEF F
    <3> QED
      BY <3>1, SmallestSet
  <2>2. U \in SUBSET B /\ SumOf(h, A \cup U) # SumOf(h, A) + SumOf(h, U)
    OBVIOUS
  <2>3. PICK x \in U : TRUE
    <3>1. A \cup {} = A
      OBVIOUS
    <3> QED
      BY <1>2, <2>2, <3>1, SumOfNone
  <2>4. Cardinality(U \ {x}) = Cardinality(U) - 1 /\ U \ {x} \in SUBSET B
    BY <1>1, <2>2, FS_RemoveElement
  <2>5. U \ {x} \notin F
    <3> HIDE DEF F
    <3> QED
      BY <1>1, <2>1, <2>2, <2>4
  <2>6. SumOf(h, A \cup (U \ {x})) = SumOf(h, A) + SumOf(h, U \ {x})
    BY <2>4, <2>5
  <2>7. (A \cup U) \ {x} = A \cup (U \ {x}) /\ x \in A \cup U /\ h[x] \in Int
    BY <2>2
  <2>8. SumOf(h, A \cup U) = h[x] + SumOf(h, A \cup (U \ {x}))
    <3>1. IsFiniteSet(A \cup U) /\ \A y \in A \cup U : h[y] \in Int
      BY <1>4, <2>2
    <3>2. SumOf(h, A \cup U) = h[x] + SumOf(h, (A \cup U) \ {x})
      BY <2>7, <3>1, SumIntSteps
    <3> QED
      BY <2>7, <3>2
  <2>9. SumOf(h, U) = h[x] + SumOf(h, U \ {x})
    BY <1>1, <2>2, SumIntSteps
  <2>10. SumOf(h, U \ {x}) \in Int
    BY <1>4, <2>4
  <2> QED
    BY <1>2, <2>2, <2>6, <2>7, <2>8, <2>9, <2>10
<1> QED
  BY <1>3

\* A larger set has a larger sum.
LEMMA SumGrows ==
    ASSUME NEW S, IsFiniteSet(S), NEW h, \A x \in S : h[x] \in Nat, NEW T \in SUBSET S
    PROVE  SumOf(h, T) =< SumOf(h, S)
<1> DEFINE F == {U \in SUBSET S : T \subseteq U /\ ~(SumOf(h, T) =< SumOf(h, U))}
<1>1. \A U \in SUBSET S : IsFiniteSet(U) /\ Cardinality(U) \in Nat /\ SumOf(h, U) \in Nat
  BY FS_Subset, FS_CardinalityType, SumSteps
<1>2. F = {}
  <2> SUFFICES ASSUME F # {} PROVE FALSE
    OBVIOUS
  <2>1. PICK U \in F : \A V \in F : Cardinality(U) =< Cardinality(V)
    <3>1. \A V \in F : IsFiniteSet(V)
      BY <1>1
    <3> HIDE DEF F
    <3> QED
      BY <3>1, SmallestSet
  <2>2. U \in SUBSET S /\ T \subseteq U /\ ~(SumOf(h, T) =< SumOf(h, U))
    OBVIOUS
  <2>3. U # T
    BY <1>1, <2>2
  <2>4. PICK x \in U : x \notin T
    BY <2>2, <2>3
  <2>5. Cardinality(U \ {x}) = Cardinality(U) - 1 /\ U \ {x} \in SUBSET S /\ T \subseteq U \ {x}
    BY <1>1, <2>2, <2>4, FS_RemoveElement
  <2>6. U \ {x} \notin F
    <3> HIDE DEF F
    <3> QED
      BY <1>1, <2>1, <2>2, <2>5
  <2>7. SumOf(h, T) =< SumOf(h, U \ {x})
    BY <2>5, <2>6
  <2>8. h[x] \in Nat /\ SumOf(h, U) = h[x] + SumOf(h, U \ {x})
    BY <1>1, <2>2, SumSteps
  <2> QED
    BY <1>1, <2>2, <2>5, <2>7, <2>8
<1> QED
  BY <1>2

\* A sum that is nought has no part that is more.
LEMMA SumIsNought ==
    ASSUME NEW S, IsFiniteSet(S), NEW h, \A x \in S : h[x] \in Nat, SumOf(h, S) = 0
    PROVE  \A x \in S : h[x] = 0
<1> TAKE x \in S
<1>1. IsFiniteSet(S \ {x}) /\ \A y \in S \ {x} : h[y] \in Nat
  BY FS_Subset
<1>2. SumOf(h, S) = h[x] + SumOf(h, S \ {x})
  BY SumSteps
<1>3. SumOf(h, S \ {x}) \in Nat
  BY <1>1, SumSteps
<1> QED
  BY <1>2, <1>3

\* A sum of one number, over and over.
LEMMA SumConstant ==
    ASSUME NEW S, IsFiniteSet(S), NEW c \in Int, NEW h, \A x \in S : h[x] = c
    PROVE  SumOf(h, S) = c * Cardinality(S)
<1> DEFINE F == {s \in SUBSET S : SumOf(h, s) # c * Cardinality(s)}
<1>1. \A s \in SUBSET S : IsFiniteSet(s) /\ Cardinality(s) \in Nat
  BY FS_Subset, FS_CardinalityType
<1>2. SUFFICES ASSUME F # {} PROVE FALSE
  OBVIOUS
<1>3. PICK s \in F : \A t \in F : Cardinality(s) =< Cardinality(t)
  <2>1. \A t \in F : IsFiniteSet(t)
    BY <1>1
  <2> HIDE DEF F
  <2> QED
    BY <1>2, <2>1, SmallestSet
<1>4. s \in SUBSET S /\ IsFiniteSet(s) /\ SumOf(h, s) # c * Cardinality(s)
  BY <1>1
<1>5. s # {}
  <2>1. SumOf(h, {}) = 0 /\ Cardinality({}) = 0
    BY SumOfNone, FS_EmptySet
  <2> QED
    BY <1>4, <2>1
<1>6. PICK x \in s : TRUE
  BY <1>5
<1> DEFINE t == s \ {x}
<1>7. /\ t \in SUBSET S /\ IsFiniteSet(t)
      /\ Cardinality(t) = Cardinality(s) - 1 /\ Cardinality(s) \in Nat
  BY <1>1, <1>4, <1>6, FS_RemoveElement
<1>8. t \notin F
  BY <1>3, <1>7
<1>9. SumOf(h, t) = c * Cardinality(t)
  BY <1>7, <1>8
<1>10. SumOf(h, s) = h[x] + SumOf(h, t)
  <2>1. \A y \in s : h[y] \in Int
    BY <1>4
  <2> QED
    BY <1>4, <2>1, SumIntSteps
<1>11. h[x] = c
  BY <1>4
<1>12. c * (Cardinality(s) - 1) + c = c * Cardinality(s)
  BY <1>7
<1> HIDE DEF t, F
<1> QED
  BY <1>4, <1>7, <1>9, <1>10, <1>11, <1>12

\* Noughts add up to nought.
LEMMA SumOfNoughts ==
    ASSUME NEW S, IsFiniteSet(S), NEW h, \A x \in S : h[x] = 0
    PROVE  SumOf(h, S) = 0
<1>1. SumOf(h, S) = 0 * Cardinality(S) /\ Cardinality(S) \in Nat
  BY SumConstant, FS_CardinalityType
<1> QED
  BY <1>1

\* A sum of smaller parts is no more.
LEMMA SumNoMore ==
    ASSUME NEW S, IsFiniteSet(S), NEW h, \A x \in S : h[x] \in Int,
           NEW k, \A x \in S : k[x] \in Int /\ k[x] =< h[x]
    PROVE  SumOf(k, S) =< SumOf(h, S)
<1> DEFINE F == {U \in SUBSET S : ~(SumOf(k, U) =< SumOf(h, U))}
<1>1. \A U \in SUBSET S : IsFiniteSet(U) /\ Cardinality(U) \in Nat
  BY FS_Subset, FS_CardinalityType
<1>2. SUFFICES ASSUME F # {} PROVE FALSE
  OBVIOUS
<1>3. PICK U \in F : \A V \in F : Cardinality(U) =< Cardinality(V)
  <2>1. \A V \in F : IsFiniteSet(V)
    BY <1>1
  <2> HIDE DEF F
  <2> QED
    BY <1>2, <2>1, SmallestSet
<1>4. U \in SUBSET S /\ IsFiniteSet(U) /\ ~(SumOf(k, U) =< SumOf(h, U))
  BY <1>1
<1>5. U # {}
  BY <1>4, SumOfNone
<1>6. PICK x \in U : TRUE
  BY <1>5
<1> DEFINE V == U \ {x}
<1>7. /\ V \in SUBSET S /\ IsFiniteSet(V)
      /\ Cardinality(V) = Cardinality(U) - 1 /\ Cardinality(U) \in Nat
  BY <1>1, <1>4, <1>6, FS_RemoveElement
<1>8. V \notin F
  BY <1>3, <1>7
<1>9. SumOf(k, V) =< SumOf(h, V)
  BY <1>7, <1>8
<1>10. /\ \A y \in U : h[y] \in Int /\ k[y] \in Int
       /\ \A y \in V : h[y] \in Int /\ k[y] \in Int
  BY <1>4
<1> HIDE DEF F, V
<1>11. /\ SumOf(h, U) = h[x] + SumOf(h, V) /\ SumOf(k, U) = k[x] + SumOf(k, V)
       /\ SumOf(h, V) \in Int /\ SumOf(k, V) \in Int
  BY <1>4, <1>7, <1>10, SumIntSteps DEF V
<1>12. k[x] =< h[x] /\ k[x] \in Int /\ h[x] \in Int
  BY <1>4
<1> QED
  BY <1>4, <1>9, <1>11, <1>12

\* The sum of the negatives.
LEMMA SumNegated ==
    ASSUME NEW S, IsFiniteSet(S), NEW h, \A x \in S : h[x] \in Int,
           NEW k, \A x \in S : k[x] = -h[x]
    PROVE  SumOf(k, S) = -SumOf(h, S)
<1> DEFINE F == {U \in SUBSET S : SumOf(k, U) # -SumOf(h, U)}
<1>1. \A U \in SUBSET S : IsFiniteSet(U) /\ Cardinality(U) \in Nat
  BY FS_Subset, FS_CardinalityType
<1>2. SUFFICES ASSUME F # {} PROVE FALSE
  OBVIOUS
<1>3. PICK U \in F : \A V \in F : Cardinality(U) =< Cardinality(V)
  <2>1. \A V \in F : IsFiniteSet(V)
    BY <1>1
  <2> HIDE DEF F
  <2> QED
    BY <1>2, <2>1, SmallestSet
<1>4. U \in SUBSET S /\ IsFiniteSet(U) /\ SumOf(k, U) # -SumOf(h, U)
  BY <1>1
<1>5. U # {}
  BY <1>4, SumOfNone
<1>6. PICK x \in U : TRUE
  BY <1>5
<1> DEFINE V == U \ {x}
<1>7. /\ V \in SUBSET S /\ IsFiniteSet(V)
      /\ Cardinality(V) = Cardinality(U) - 1 /\ Cardinality(U) \in Nat
  BY <1>1, <1>4, <1>6, FS_RemoveElement
<1>8. V \notin F
  BY <1>3, <1>7
<1>9. SumOf(k, V) = -SumOf(h, V)
  BY <1>7, <1>8
<1>10. /\ \A y \in U : h[y] \in Int /\ k[y] \in Int
       /\ \A y \in V : h[y] \in Int /\ k[y] \in Int
  BY <1>4
<1> HIDE DEF F, V
<1>11. /\ SumOf(h, U) = h[x] + SumOf(h, V) /\ SumOf(k, U) = k[x] + SumOf(k, V)
       /\ SumOf(h, V) \in Int /\ SumOf(k, V) \in Int
  BY <1>4, <1>7, <1>10, SumIntSteps DEF V
<1>12. k[x] = -h[x] /\ h[x] \in Int
  BY <1>4
<1> QED
  BY <1>4, <1>9, <1>11, <1>12

\* A sum does not depend on the names of its parts.
LEMMA SumRenamed ==
    ASSUME NEW S, IsFiniteSet(S), NEW h, \A x \in S : h[x] \in Int,
           NEW f, \A x, y \in S : f[x] = f[y] => x = y,
           NEW g, \A x \in S : g[f[x]] = h[x]
    PROVE  SumOf(g, {f[x] : x \in S}) = SumOf(h, S)
<1> DEFINE Img(U) == {f[x] : x \in U}
           F == {U \in SUBSET S : SumOf(g, Img(U)) # SumOf(h, U)}
<1>1. \A U \in SUBSET S : IsFiniteSet(U) /\ Cardinality(U) \in Nat
  BY FS_Subset, FS_CardinalityType
<1>2. SUFFICES ASSUME F # {} PROVE FALSE
  <2>1. S \in SUBSET S
    OBVIOUS
  <2> QED
    BY <2>1
<1>3. PICK U \in F : \A V \in F : Cardinality(U) =< Cardinality(V)
  <2>1. \A V \in F : IsFiniteSet(V)
    BY <1>1
  <2> HIDE DEF F
  <2> QED
    BY <1>2, <2>1, SmallestSet
<1>4. U \in SUBSET S /\ IsFiniteSet(U) /\ SumOf(g, Img(U)) # SumOf(h, U)
  BY <1>1
<1>5. U # {}
  <2>1. Img({}) = {}
    OBVIOUS
  <2> HIDE DEF Img
  <2> QED
    BY <1>4, <2>1, SumOfNone
<1>6. PICK x \in U : TRUE
  BY <1>5
<1> DEFINE V == U \ {x}
<1>7. /\ V \in SUBSET S /\ IsFiniteSet(V)
      /\ Cardinality(V) = Cardinality(U) - 1 /\ Cardinality(U) \in Nat
  BY <1>1, <1>4, <1>6, FS_RemoveElement
<1>8. V \notin F
  BY <1>3, <1>7
<1>9. SumOf(g, Img(V)) = SumOf(h, V)
  BY <1>7, <1>8
<1>10. \A y \in U : h[y] \in Int
  BY <1>4
<1>11. /\ f[x] \in Img(U) /\ Img(U) \ {f[x]} = Img(V)
       /\ \A z \in Img(U) : g[z] \in Int
       /\ g[f[x]] = h[x]
  BY <1>4
<1>12. IsFiniteSet(Img(U))
  <2> DEFINE on == [y \in U |-> f[y]]
  <2>1. on \in Surjection(U, Img(U))
    BY DEF Surjection
  <2> HIDE DEF on, Img
  <2> QED
    BY <1>4, <2>1, FS_Surjection
<1> HIDE DEF F, V, Img
<1>13. SumOf(h, U) = h[x] + SumOf(h, V)
  BY <1>4, <1>10, SumIntSteps DEF V
<1>14. SumOf(g, Img(U)) = g[f[x]] + SumOf(g, Img(U) \ {f[x]})
  BY <1>11, <1>12, SumIntSteps
<1> QED
  BY <1>4, <1>9, <1>11, <1>13, <1>14

\* A sum over disjoint parts, and over what adds nothing to them.
LEMMA SumOfParts ==
    ASSUME NEW K, IsFiniteSet(K), NEW h, \A i \in K : h[i] \in Int,
           NEW S, IsFiniteSet(S), NEW part, \A x \in S : part[x] \in SUBSET K,
           \A x, y \in S : x # y => part[x] \cap part[y] = {},
           NEW due, \A x \in S : due[x] \in Int /\ SumOf(h, part[x]) =< due[x],
           \A i \in K : h[i] =< 0 \/ \E x \in S : i \in part[x]
    PROVE  SumOf(h, K) =< SumOf(due, S)
<1> DEFINE Of(U) == UNION {part[x] : x \in U}
           F == {U \in SUBSET S : ~(SumOf(h, Of(U)) =< SumOf(due, U))}
           rest == K \ Of(S)
           nought == [i \in rest |-> 0]
<1>1. \A U \in SUBSET S : IsFiniteSet(U) /\ Cardinality(U) \in Nat
  BY FS_Subset, FS_CardinalityType
<1>2. F = {}
  <2> SUFFICES ASSUME F # {} PROVE FALSE
    OBVIOUS
  <2>1. PICK U \in F : \A V \in F : Cardinality(U) =< Cardinality(V)
    <3>1. \A V \in F : IsFiniteSet(V)
      BY <1>1
    <3> HIDE DEF F
    <3> QED
      BY <3>1, SmallestSet
  <2>2. U \in SUBSET S /\ IsFiniteSet(U) /\ ~(SumOf(h, Of(U)) =< SumOf(due, U))
    BY <1>1
  <2>3. U # {}
    <3>1. Of({}) = {}
      OBVIOUS
    <3> HIDE DEF Of
    <3> QED
      BY <2>2, <3>1, SumOfNone
  <2>4. PICK x \in U : TRUE
    BY <2>3
  <2> DEFINE V == U \ {x}
  <2>5. /\ V \in SUBSET S /\ IsFiniteSet(V)
        /\ Cardinality(V) = Cardinality(U) - 1 /\ Cardinality(U) \in Nat
    BY <1>1, <2>2, <2>4, FS_RemoveElement
  <2>6. V \notin F
    BY <2>1, <2>5
  <2>7. SumOf(h, Of(V)) =< SumOf(due, V)
    BY <2>5, <2>6
  <2>8. Of(U) = part[x] \cup Of(V) /\ part[x] \cap Of(V) = {}
    <3>1. \A y \in V : y # x /\ y \in S /\ x \in S
      BY <2>2, <2>4
    <3>2. \A y \in V : part[x] \cap part[y] = {}
      BY <3>1
    <3>3. U = V \cup {x}
      BY <2>4
    <3> HIDE DEF V
    <3> QED
      BY <3>2, <3>3
  <2>9. part[x] \in SUBSET K /\ Of(V) \in SUBSET K
    BY <2>2, <2>4, <2>5
  <2>10. x \in S /\ \A y \in U : due[y] \in Int
    BY <2>2, <2>4
  <2> HIDE DEF F, V, Of
  <2>11. IsFiniteSet(part[x]) /\ IsFiniteSet(Of(V))
    BY <2>9, FS_Subset
  <2>12. \A i \in part[x] \cup Of(V) : h[i] \in Int
    BY <2>9
  <2>13. /\ SumOf(h, Of(U)) = SumOf(h, part[x]) + SumOf(h, Of(V))
         /\ SumOf(h, part[x]) \in Int /\ SumOf(h, Of(V)) \in Int
    BY <2>8, <2>11, <2>12, SumSplit, SumIntSteps
  <2>14. SumOf(due, U) = due[x] + SumOf(due, V) /\ SumOf(due, V) \in Int
    BY <2>2, <2>4, <2>5, <2>10, SumIntSteps DEF V
  <2>15. SumOf(h, part[x]) =< due[x] /\ due[x] \in Int
    BY <2>10
  <2> QED
    BY <2>2, <2>7, <2>13, <2>14, <2>15
<1>3. SumOf(h, Of(S)) =< SumOf(due, S)
  <2>1. S \in SUBSET S
    OBVIOUS
  <2> QED
    BY <1>2, <2>1
<1>4. /\ Of(S) \in SUBSET K /\ rest \in SUBSET K /\ K = Of(S) \cup rest /\ Of(S) \cap rest = {}
      /\ \A i \in rest : h[i] =< 0 /\ h[i] \in Int
  OBVIOUS
<1>5. SumOf(due, S) \in Int
  BY SumIntSteps
<1> HIDE DEF Of, rest
<1>6. IsFiniteSet(Of(S)) /\ IsFiniteSet(rest)
  BY <1>4, FS_Subset
<1>7. /\ SumOf(h, K) = SumOf(h, Of(S)) + SumOf(h, rest)
      /\ SumOf(h, Of(S)) \in Int /\ SumOf(h, rest) \in Int
  <2>1. /\ \A i \in Of(S) : h[i] \in Int
        /\ \A i \in Of(S) \cup rest : h[i] \in Int
    BY <1>4
  <2> QED
    BY <1>4, <1>6, <2>1, SumSplit, SumIntSteps
<1>8. SumOf(h, rest) =< 0
  <2>1. SumOf(nought, rest) = 0
    BY <1>6, SumOfNoughts
  <2>2. SumOf(h, rest) =< SumOf(nought, rest)
    <3>1. \A i \in rest : nought[i] \in Int /\ h[i] \in Int /\ h[i] =< nought[i]
      BY <1>4
    <3> HIDE DEF nought
    <3> QED
      BY <1>6, <3>1, SumNoMore
  <2> QED
    BY <2>1, <2>2
<1> QED
  BY <1>3, <1>5, <1>7, <1>8

\* Sums of three and of four.
LEMMA SumOverThree ==
    ASSUME NEW S, NEW p \in S, NEW q \in S, NEW r \in S, p # q, p # r, q # r,
           \A x \in S : x = p \/ x = q \/ x = r,
           NEW h, h[p] \in Int, h[q] \in Int, h[r] \in Int
    PROVE  SumOf(h, S) = h[p] + h[q] + h[r]
<1>0. S = {p, q, r}
  OBVIOUS
<1>1. IsFiniteSet({}) /\ IsFiniteSet({r}) /\ IsFiniteSet({q, r}) /\ IsFiniteSet({p, q, r})
  <2>1. IsFiniteSet({})
    BY FS_EmptySet
  <2>2. IsFiniteSet({} \cup {r})
    BY <2>1, FS_AddElement
  <2>3. {} \cup {r} = {r}
    OBVIOUS
  <2>4. IsFiniteSet({r} \cup {q})
    BY <2>2, <2>3, FS_AddElement
  <2>5. {r} \cup {q} = {q, r}
    OBVIOUS
  <2>6. IsFiniteSet({q, r} \cup {p})
    BY <2>4, <2>5, FS_AddElement
  <2>7. {q, r} \cup {p} = {p, q, r}
    OBVIOUS
  <2> QED
    BY <2>1, <2>2, <2>3, <2>4, <2>5, <2>6, <2>7
<1>2. /\ {p, q, r} \ {p} = {q, r} /\ {q, r} \ {q} = {r} /\ {r} \ {r} = {}
  OBVIOUS
<1>3. SumOf(h, {p, q, r}) = h[p] + SumOf(h, {q, r})
  BY <1>1, <1>2, SumIntSteps
<1>4. SumOf(h, {q, r}) = h[q] + SumOf(h, {r})
  BY <1>1, <1>2, SumIntSteps
<1>5. SumOf(h, {r}) = h[r] + SumOf(h, {})
  BY <1>1, <1>2, SumIntSteps
<1>6. SumOf(h, {}) = 0
  BY SumOfNone
<1> QED
  BY <1>0, <1>3, <1>4, <1>5, <1>6

LEMMA SumOverFour ==
    ASSUME NEW S, NEW p \in S, NEW q \in S, NEW r \in S, NEW s \in S,
           p # q, p # r, q # r, s # p, s # q, s # r,
           \A x \in S : x = p \/ x = q \/ x = r \/ x = s,
           NEW h, h[p] \in Int, h[q] \in Int, h[r] \in Int, h[s] \in Int
    PROVE  SumOf(h, S) = h[p] + h[q] + h[r] + h[s]
<1>0. S = {p, q, r, s}
  OBVIOUS
<1>1. IsFiniteSet({p, q, r, s})
  <2>1. IsFiniteSet({})
    BY FS_EmptySet
  <2>2. IsFiniteSet((({} \cup {p}) \cup {q}) \cup {r})
    BY <2>1, FS_AddElement
  <2>3. IsFiniteSet(((({} \cup {p}) \cup {q}) \cup {r}) \cup {s})
    BY <2>2, FS_AddElement
  <2>4. ((({} \cup {p}) \cup {q}) \cup {r}) \cup {s} = {p, q, r, s}
    OBVIOUS
  <2> QED
    BY <2>3, <2>4
<1>2. {p, q, r, s} \ {s} = {p, q, r} /\ \A x \in {p, q, r, s} : h[x] \in Int
  OBVIOUS
<1>3. SumOf(h, {p, q, r, s}) = h[s] + SumOf(h, {p, q, r})
  BY <1>1, <1>2, SumIntSteps
<1>4. SumOf(h, {p, q, r}) = h[p] + h[q] + h[r]
  <2> DEFINE T == {p, q, r}
  <2>1. /\ p \in T /\ q \in T /\ r \in T
        /\ \A x \in T : x = p \/ x = q \/ x = r
    OBVIOUS
  <2> HIDE DEF T
  <2>2. SumOf(h, T) = h[p] + h[q] + h[r]
    BY <2>1, SumOverThree
  <2> QED
    BY <2>2 DEF T
<1> QED
  BY <1>0, <1>3, <1>4

\* The sum over the first of a sequence.
LEMMA SumUpTo ==
    ASSUME NEW n \in Nat, NEW h, \A i \in 1..(n + 1) : h[i] \in Int
    PROVE  SumOf(h, 1..(n + 1)) = h[n + 1] + SumOf(h, 1..n) /\ SumOf(h, 1..n) \in Int
<1> DEFINE S == 1..(n + 1)
<1>1. IsFiniteSet(S) /\ IsFiniteSet(1..n)
  BY FS_Interval
<1>2. n + 1 \in S /\ S \ {n + 1} = 1..n /\ \A i \in S : h[i] \in Int
  OBVIOUS
<1> HIDE DEF S
<1>3. SumOf(h, S) = h[n + 1] + SumOf(h, S \ {n + 1})
  BY <1>1, <1>2, SumIntSteps
<1>4. SumOf(h, 1..n) \in Int
  <2>1. \A i \in 1..n : h[i] \in Int
    OBVIOUS
  <2> DEFINE U == 1..n
  <2>2. IsFiniteSet(U) /\ \A i \in U : h[i] \in Int
    BY <1>1, <2>1
  <2> HIDE DEF U
  <2>3. SumOf(h, U) \in Int
    BY <2>2, SumIntSteps
  <2> QED
    BY <2>3 DEF U
<1> QED
  BY <1>2, <1>3, <1>4 DEF S

\* The sums of the community modules are these.
LEMMA SumsAgree ==
    ASSUME NEW h, NEW S
    PROVE  /\ SumFunctionOnSet(h, S) = SumOf(h, S)
           /\ SumFunction(h) = SumOf(h, DOMAIN h)
BY DEF SumFunction, SumFunctionOnSet, FoldFunctionOnSet, MapThenFoldSet, SumOf, MapThenSumSet

-----------------------------------------------------------------------------
(* Sequences.                                                               *)

LEMMA SequenceOf ==
    ASSUME NEW X, NEW s \in Seq(X)
    PROVE  IsSequence(s) /\ ToSet(s) \subseteq X
<1>1. /\ Len(s) \in Nat /\ DOMAIN s = 1..Len(s) /\ s = [i \in 1..Len(s) |-> s[i]]
      /\ \A i \in 1..Len(s) : s[i] \in X
  BY LenProperties, ElementOfSeq
<1>2. \A i \in 1..Len(s) : s[i] \in ToSet(s)
  BY <1>1 DEF ToSet
<1> HIDE DEF ToSet
<1>3. s \in [1..Len(s) -> ToSet(s)]
  BY <1>1, <1>2
<1>4. s \in Seq(ToSet(s))
  BY <1>1, <1>3
<1> QED
  BY <1>1, <1>4 DEF IsSequence, ToSet

LEMMA SequenceHas ==
    ASSUME NEW s, IsSequence(s)
    PROVE  /\ Len(s) \in Nat /\ DOMAIN s = 1..Len(s)
           /\ \A i \in 1..Len(s) : s[i] \in ToSet(s)
           /\ \A x \in ToSet(s) : \E i \in 1..Len(s) : s[i] = x
<1>1. Len(s) \in Nat /\ DOMAIN s = 1..Len(s)
  BY LenProperties DEF IsSequence
<1> QED
  BY <1>1 DEF ToSet

\* A function on 1..n is a sequence of length n.
LEMMA SequenceUpTo ==
    ASSUME NEW n \in Nat, NEW s, DOMAIN s = 1..n, s = [i \in 1..n |-> s[i]]
    PROVE  IsSequence(s) /\ Len(s) = n
<1>1. \A i \in 1..n : s[i] \in ToSet(s)
  BY DEF ToSet
<1> HIDE DEF ToSet
<1>2. s \in [1..n -> ToSet(s)]
  BY <1>1
<1>3. s \in Seq(ToSet(s)) /\ Len(s) = n
  BY <1>2
<1> QED
  BY <1>3 DEF IsSequence

\* A sequence has finitely many elements.
LEMMA FiniteElements ==
    ASSUME NEW s, IsSequence(s)
    PROVE  IsFiniteSet(ToSet(s))
<1>1. Len(s) \in Nat /\ DOMAIN s = 1..Len(s) /\ \A x \in ToSet(s) : \E i \in 1..Len(s) : s[i] = x
  BY SequenceHas
<1>2. s \in [1..Len(s) -> ToSet(s)]
  BY <1>1 DEF IsSequence
<1>3. s \in Surjection(1..Len(s), ToSet(s))
  BY <1>1, <1>2 DEF Surjection
<1>4. IsFiniteSet(1..Len(s))
  BY <1>1, FS_Interval
<1> QED
  BY <1>3, <1>4, FS_Surjection

\* The positions of a sequence that hold one of a set.
Where(s, A) == {i \in DOMAIN s : s[i] \in A}

\* They are finitely many.
LEMMA CountedPositions ==
    ASSUME NEW s, IsSequence(s), NEW A
    PROVE  /\ Where(s, A) \in SUBSET (1..Len(s)) /\ IsFiniteSet(Where(s, A))
           /\ Cardinality(Where(s, A)) \in Nat
<1>1. Len(s) \in Nat /\ DOMAIN s = 1..Len(s)
  BY SequenceHas
<1>2. Where(s, A) \in SUBSET (1..Len(s))
  BY <1>1 DEF Where
<1>3. IsFiniteSet(1..Len(s))
  BY <1>1, FS_Interval
<1> QED
  BY <1>2, <1>3, FS_Subset, FS_CardinalityType

-----------------------------------------------------------------------------
(* The elements at a set of positions.                                      *)

\* The positions up to the i-th are i: every number up to the size is met.
LEMMA NthOfNaturals ==
    ASSUME NEW here \in SUBSET Nat, IsFiniteSet(here)
    PROVE  /\ Cardinality(here) \in Nat
           /\ \A i \in 1..Cardinality(here) : Nth(here, i) \in here
           /\ \A k \in here : \E i \in 1..Cardinality(here) : Nth(here, i) = k
           /\ \A i, j \in 1..Cardinality(here) : Nth(here, i) = Nth(here, j) => i = j
<1> DEFINE upto(k) == {j \in here : j =< k}
           rank == [k \in here |-> Cardinality(upto(k))]
           size == Cardinality(here)
<1>1. IsFiniteSet(here) /\ size \in Nat
  BY FS_CardinalityType
<1>2. ASSUME NEW k \in here
      PROVE  /\ upto(k) \in SUBSET here /\ IsFiniteSet(upto(k))
             /\ Cardinality(upto(k)) \in Nat /\ Cardinality(upto(k)) =< size
             /\ Cardinality(upto(k)) # 0
  <2>1. upto(k) \in SUBSET here /\ k \in upto(k)
    OBVIOUS
  <2>2. /\ IsFiniteSet(upto(k)) /\ Cardinality(upto(k)) \in Nat
        /\ Cardinality(upto(k)) =< size
    <3> HIDE DEF upto
    <3> QED
      BY <1>1, <2>1, FS_Subset, FS_CardinalityType
  <2>3. Cardinality(upto(k)) # 0
    <3> HIDE DEF upto
    <3> QED
      BY <2>1, <2>2, FS_EmptySet
  <2> QED
    BY <2>1, <2>2, <2>3
<1>3. ASSUME NEW k \in here, NEW l \in here, k < l
      PROVE  Cardinality(upto(k)) # Cardinality(upto(l))
  <2>1. upto(k) \in SUBSET upto(l) /\ l \in upto(l) /\ l \notin upto(k)
    <3>1. k \in Nat /\ l \in Nat /\ ~(l =< k) /\ l =< l
      BY <1>3
    <3>2. \A x \in here : x \in Nat
      OBVIOUS
    <3>3. \A x \in here : x =< k => x =< l
      BY <1>3, <3>1, <3>2
    <3> QED
      BY <3>1, <3>3
  <2>2. IsFiniteSet(upto(l))
    BY <1>2
  <2> HIDE DEF upto
  <2> QED
    BY <2>1, <2>2, FS_Subset
<1>4. rank \in [here -> 1..size]
  BY <1>1, <1>2
<1>5. \A k, l \in here : rank[k] = rank[l] => k = l
  <2> SUFFICES ASSUME NEW k \in here, NEW l \in here, k # l PROVE rank[k] # rank[l]
    OBVIOUS
  <2>1. k \in Nat /\ l \in Nat
    OBVIOUS
  <2>2. k < l \/ l < k
    BY <2>1
  <2>3. rank[k] = Cardinality(upto(k)) /\ rank[l] = Cardinality(upto(l))
    OBVIOUS
  <2> HIDE DEF upto, rank
  <2> QED
    BY <1>3, <2>2, <2>3
<1>6. IsFiniteSet(1..size) /\ Cardinality(1..size) = size
  BY <1>1, FS_Interval
<1>7. rank \in Injection(here, 1..size)
  BY <1>4, <1>5 DEF Injection, IsInjective
<1>8. rank \in Surjection(here, 1..size)
  <2> HIDE DEF rank, size
  <2> QED
    BY <1>1, <1>6, <1>7, FS_Injection DEF size
<1>9. \A i \in 1..size : \E k \in here : rank[k] = i
  BY <1>8 DEF Surjection
<1>10. \A i \in 1..size : \E k \in here : Cardinality(upto(k)) = i
  BY <1>9
<1>11. \A i \in 1..size : Nth(here, i) \in here /\ Cardinality(upto(Nth(here, i))) = i
  BY <1>10 DEF Nth
<1>12. ASSUME NEW k \in here PROVE \E i \in 1..size : Nth(here, i) = k
  <2>1. rank[k] \in 1..size
    BY <1>4
  <2>2. Nth(here, rank[k]) \in here /\ rank[Nth(here, rank[k])] = rank[k]
    BY <1>11, <2>1
  <2>3. Nth(here, rank[k]) = k
    <3> HIDE DEF rank
    <3> QED
      BY <1>5, <2>2
  <2> QED
    BY <2>1, <2>3
<1>13. \A i, j \in 1..size : Nth(here, i) = Nth(here, j) => i = j
  <2> HIDE DEF upto
  <2> QED
    BY <1>11
<1> QED
  BY <1>1, <1>11, <1>12, <1>13

LEMMA NthExists ==
    ASSUME NEW n \in Nat, NEW here \in SUBSET (1..n)
    PROVE  /\ IsFiniteSet(here) /\ Cardinality(here) \in Nat
           /\ \A i \in 1..Cardinality(here) : Nth(here, i) \in here
           /\ \A k \in here : \E i \in 1..Cardinality(here) : Nth(here, i) = k
           /\ \A i, j \in 1..Cardinality(here) : Nth(here, i) = Nth(here, j) => i = j
<1>1. IsFiniteSet(1..n) /\ here \in SUBSET Nat
  BY FS_Interval
<1>2. IsFiniteSet(here)
  BY <1>1, FS_Subset
<1> QED
  BY <1>1, <1>2, NthOfNaturals

LEMMA PickedRows ==
    ASSUME NEW n \in Nat, NEW here \in SUBSET (1..n), NEW rows
    PROVE  /\ IsSequence(Pick(rows, here)) /\ Len(Pick(rows, here)) = Cardinality(here)
           /\ Cardinality(here) \in Nat
           /\ \A k \in here : rows[k] \in ToSet(Pick(rows, here))
           /\ \A i \in 1..Cardinality(here) :
                 Nth(here, i) \in here /\ Pick(rows, here)[i] = rows[Nth(here, i)]
<1>1. Cardinality(here) \in Nat
  BY NthExists
<1>2. /\ DOMAIN Pick(rows, here) = 1..Cardinality(here)
      /\ \A i \in 1..Cardinality(here) : Pick(rows, here)[i] = rows[Nth(here, i)]
      /\ Pick(rows, here) = [i \in 1..Cardinality(here) |-> Pick(rows, here)[i]]
  BY DEF Pick
<1>3. IsSequence(Pick(rows, here)) /\ Len(Pick(rows, here)) = Cardinality(here)
  BY <1>1, <1>2, SequenceUpTo
<1>4. ASSUME NEW k \in here PROVE rows[k] \in ToSet(Pick(rows, here))
  <2>1. PICK i \in 1..Cardinality(here) : Nth(here, i) = k
    BY NthExists
  <2>2. Pick(rows, here)[i] \in ToSet(Pick(rows, here))
    BY <1>3, SequenceHas
  <2> QED
    BY <1>2, <2>1, <2>2
<1>5. \A i \in 1..Cardinality(here) :
          Nth(here, i) \in here /\ Pick(rows, here)[i] = rows[Nth(here, i)]
  BY <1>2, NthExists
<1> QED
  BY <1>1, <1>3, <1>4, <1>5

\* Two sequences put together.
LEMMA JoinedSequences ==
    ASSUME NEW s, IsSequence(s), NEW t, IsSequence(t)
    PROVE  /\ IsSequence(s \o t)
           /\ Len(s \o t) = Len(s) + Len(t)
           /\ \A i \in 1..Len(s) : (s \o t)[i] = s[i]
           /\ \A i \in 1..Len(t) : (s \o t)[Len(s) + i] = t[i]
           /\ ToSet(s \o t) = ToSet(s) \cup ToSet(t)
           /\ IsInjective(s \o t) <=>
                 IsInjective(s) /\ IsInjective(t) /\ ToSet(s) \cap ToSet(t) = {}
<1> DEFINE X == ToSet(s) \cup ToSet(t)
           m == Len(s)
           n == Len(t)
           u == s \o t
<1>1. /\ m \in Nat /\ n \in Nat /\ DOMAIN s = 1..m /\ DOMAIN t = 1..n
      /\ s \in Seq(ToSet(s)) /\ t \in Seq(ToSet(t))
  BY SequenceHas DEF IsSequence
<1>2. s \in Seq(X) /\ t \in Seq(X)
  <2> HIDE DEF X
  <2>1. ToSet(s) \subseteq X /\ ToSet(t) \subseteq X
    BY DEF X
  <2> QED
    BY <1>1, <2>1
<1>3. /\ u \in Seq(X) /\ Len(u) = m + n
      /\ \A i \in 1..(m + n) : u[i] = IF i =< m THEN s[i] ELSE t[i - m]
  <2> HIDE DEF X
  <2> QED
    BY <1>2, ConcatProperties
<1>4. IsSequence(u) /\ DOMAIN u = 1..(m + n)
  <2> HIDE DEF X, u, m, n
  <2> QED
    BY <1>3, SequenceOf, SequenceHas
<1>5. \A i \in 1..m : i \in 1..(m + n) /\ u[i] = s[i]
  BY <1>1, <1>3
<1>6. \A i \in 1..n : m + i \in 1..(m + n) /\ u[m + i] = t[i]
  BY <1>1, <1>3
<1>7. \A k \in 1..(m + n) : k \in 1..m \/ \E i \in 1..n : k = m + i
  <2> SUFFICES ASSUME NEW k \in 1..(m + n), ~(k =< m)
               PROVE  k - m \in 1..n /\ k = m + (k - m)
    BY <1>1
  <2> QED
    BY <1>1
<1> HIDE DEF u, m, n
<1>8. ToSet(u) = ToSet(s) \cup ToSet(t)
  <2>1. ToSet(u) = {u[k] : k \in 1..(m + n)}
    BY <1>4 DEF ToSet
  <2>2. ToSet(s) = {s[i] : i \in 1..m} /\ ToSet(t) = {t[i] : i \in 1..n}
    BY <1>1 DEF ToSet
  <2>3. \A k \in 1..(m + n) : u[k] \in ToSet(s) \cup ToSet(t)
    BY <1>5, <1>6, <1>7, <2>2
  <2>4. \A x \in ToSet(s) \cup ToSet(t) : \E k \in 1..(m + n) : x = u[k]
    BY <1>5, <1>6, <2>2
  <2> QED
    BY <2>1, <2>3, <2>4
<1>9. ASSUME IsInjective(u)
      PROVE  IsInjective(s) /\ IsInjective(t) /\ ToSet(s) \cap ToSet(t) = {}
  <2>1. IsInjective(s)
    BY <1>1, <1>4, <1>5, <1>9 DEF IsInjective
  <2>2. IsInjective(t)
    <3> SUFFICES ASSUME NEW i \in 1..n, NEW j \in 1..n, t[i] = t[j] PROVE i = j
      BY <1>1 DEF IsInjective
    <3>1. m + i = m + j
      BY <1>4, <1>6, <1>9 DEF IsInjective
    <3> QED
      BY <1>1, <3>1
  <2>3. ASSUME NEW i \in 1..m, NEW j \in 1..n, s[i] = t[j] PROVE FALSE
    <3>1. i = m + j
      BY <1>4, <1>5, <1>6, <1>9, <2>3 DEF IsInjective
    <3> QED
      BY <1>1, <3>1
  <2> QED
    BY <1>1, <2>1, <2>2, <2>3 DEF ToSet
<1>10. ASSUME IsInjective(s), IsInjective(t), ToSet(s) \cap ToSet(t) = {}
       PROVE  IsInjective(u)
  <2> SUFFICES ASSUME NEW k \in 1..(m + n), NEW l \in 1..(m + n), u[k] = u[l]
               PROVE  k = l
    BY <1>4 DEF IsInjective
  <2>1. \A i \in 1..m, j \in 1..n : s[i] # t[j]
    BY <1>1, <1>10 DEF ToSet
  <2>2. \A i, j \in 1..m : s[i] = s[j] => i = j
    BY <1>1, <1>10 DEF IsInjective
  <2>3. \A i, j \in 1..n : t[i] = t[j] => i = j
    BY <1>1, <1>10 DEF IsInjective
  <2>4. CASE k \in 1..m /\ l \in 1..m
    BY <1>5, <2>2, <2>4
  <2>5. CASE k \in 1..m /\ l \notin 1..m
    BY <1>5, <1>6, <1>7, <2>1, <2>5
  <2>6. CASE k \notin 1..m /\ l \in 1..m
    BY <1>5, <1>6, <1>7, <2>1, <2>6
  <2>7. CASE k \notin 1..m /\ l \notin 1..m
    BY <1>6, <1>7, <2>3, <2>7
  <2> QED
    BY <2>4, <2>5, <2>6, <2>7
<1>11. Len(u) = Len(s) + Len(t)
  BY <1>3 DEF m, n
<1> QED
  BY <1>4, <1>5, <1>6, <1>8, <1>9, <1>10, <1>11 DEF u, m, n

=============================================================================
