-------------------------- MODULE DimAnalysisProofs --------------------------
(***************************************************************************)
(* Proofs about DimAnalysis, for any number of programs of any size.        *)
(***************************************************************************)
EXTENDS DimEquality, FiniteSetTheorems, WellFoundedInduction, TLAPS

(***************************************************************************)
(* What a round has established when no set has been updated so far: the    *)
(* sets it has visited are closed.                                         *)
(***************************************************************************)
FixInv ==
  /\ updated \in BOOLEAN
  /\ pc = "visit" /\ ~updated => \A key \in DOMAIN sets \ todo : Visited(key) \subseteq sets[key]
  /\ pc = "done" => \A key \in DOMAIN sets : Visited(key) \subseteq sets[key]

(* A visit that adds nothing leaves the sets as they are. *)
LEMMA NothingAdded ==
  ASSUME NEW f, NEW key, NEW S, f = [k \in DOMAIN f |-> f[k]], S \subseteq f[key]
  PROVE  [f EXCEPT ![key] = @ \cup S] = f
<1>1. [f EXCEPT ![key] = @ \cup S] = [k \in DOMAIN f |-> IF k = key THEN f[key] \cup S ELSE f[k]]
  OBVIOUS
<1>2. f[key] \cup S = f[key]
  OBVIOUS
<1> QED BY <1>1, <1>2

IsMap == sets = [k \in DOMAIN sets |-> sets[k]]

(***************************************************************************)
(* The analysis stops at a fixpoint, in whichever order it goes through the *)
(* sets (DimAnalysis::analyze), for every program.                         *)
(***************************************************************************)
THEOREM StopsAtFixpoint == Spec => []AtFixpoint
<1>1. Init => FixInv /\ IsMap
  BY DEF Init, FixInv, IsMap, Built, BuiltOf
<1>2. FixInv /\ IsMap /\ [Next]_vars => FixInv' /\ IsMap'
  <2> SUFFICES ASSUME FixInv, IsMap, [Next]_vars
               PROVE  FixInv' /\ IsMap'
    OBVIOUS
  <2>1. ASSUME NEW key \in DOMAIN sets, VisitSet(key)
        PROVE  FixInv' /\ IsMap'
    <3>1. IsMap'
      BY <2>1 DEF VisitSet, IsMap
    <3>2. updated' \in BOOLEAN /\ pc' = "visit"
      BY <2>1 DEF VisitSet, FixInv
    <3>3. ASSUME ~updated', NEW k \in DOMAIN sets' \ todo'
          PROVE  Visited(k)' \subseteq sets'[k]
      <4>1. ~updated /\ Visited(key) \subseteq sets[key]
        BY <2>1, <3>3 DEF VisitSet
      <4>2. sets' = sets /\ prog' = prog
        BY <2>1, <4>1, NothingAdded DEF VisitSet, IsMap
      <4>3. Visited(k)' = Visited(k)
        BY <4>2 DEF Visited, Tensors
      <4>4. k = key \/ k \in DOMAIN sets \ todo
        BY <2>1, <3>3, <4>2 DEF VisitSet
      <4>5. Visited(k) \subseteq sets[k]
        BY <2>1, <4>1, <4>4 DEF VisitSet, FixInv
      <4> QED BY <4>2, <4>3, <4>5
    <3> QED BY <3>1, <3>2, <3>3 DEF FixInv
  <2>2. ASSUME EndRound
        PROVE  FixInv' /\ IsMap'
    <3>1. /\ UNCHANGED <<prog, sets, updated>>
          /\ \A k : Visited(k)' = Visited(k)
      BY <2>2 DEF EndRound, Visited, Tensors
    <3>2. pc' = "done" => ~updated
      BY <2>2 DEF EndRound
    <3>3. pc' = "done" => \A key \in DOMAIN sets : Visited(key) \subseteq sets[key]
      BY <2>2, <3>2 DEF EndRound, FixInv
    <3>4. pc' # "visit"
      BY <2>2 DEF EndRound
    <3> QED BY <3>1, <3>3, <3>4 DEF FixInv, IsMap
  <2>3. ASSUME NEW l \in DOMAIN sets, NEW r \in DOMAIN sets, MergeSets(l, r)
        PROVE  FixInv' /\ IsMap'
    BY <2>3 DEF MergeSets, FixInv, IsMap
  <2>4. ASSUME EndMerge
        PROVE  FixInv' /\ IsMap'
    BY <2>4 DEF EndMerge, FixInv, IsMap
  <2>5. ASSUME UNCHANGED vars
        PROVE  FixInv' /\ IsMap'
    <3>1. \A k : Visited(k)' = Visited(k)
      BY <2>5 DEF vars, Visited, Tensors
    <3> QED BY <2>5, <3>1 DEF vars, FixInv, IsMap
  <2> QED BY <2>1, <2>2, <2>3, <2>4, <2>5 DEF Next
<1>3. FixInv => AtFixpoint
  BY DEF FixInv, AtFixpoint
<1> QED BY <1>1, <1>2, <1>3, PTL DEF Spec

-----------------------------------------------------------------------------
(* Induction over the natural numbers, for a set in place of a predicate.   *)
LEMMA Least ==
  ASSUME NEW T \in SUBSET Nat, T # {}
  PROVE  \E x \in T : \A y \in T : x <= y
<1>1. PICK x \in T : \A y \in T : ~(<<y, x>> \in OpToRel(<, Nat))
  BY NatLessThanWellFounded, WFMin
<1>2. \A y \in T : ~(y < x)
  BY <1>1 DEF OpToRel
<1> QED BY <1>2

LEMMA Induction ==
  ASSUME NEW S, 0 \in S, \A m \in Nat : m \in S => m + 1 \in S
  PROVE  Nat \subseteq S
<1>1. SUFFICES ASSUME Nat \ S # {} PROVE FALSE
  OBVIOUS
<1>2. PICK x \in Nat \ S : \A y \in Nat \ S : x <= y
  BY Least, <1>1
<1>3. x # 0
  BY <1>2
<1>4. x - 1 \in S
  BY <1>2, <1>3
<1> QED BY <1>4, <1>2

(***************************************************************************)
(* Products of sizes, which a Reshape preserves. First, that Product is     *)
(* what its recursive definition says.                                     *)
(***************************************************************************)
Positive(f, n) == n \in Nat /\ \A k \in 1..n : f[k] \in Nat \ {0}

LEMMA PositiveTimes == \A a, b \in Nat \ {0} : a * b \in Nat \ {0}
OBVIOUS

\* p[k] is the product of the first k factors.
Accumulates(p, f, n) ==
  /\ p \in [0..n -> Nat \ {0}]
  /\ p[0] = 1
  /\ \A k \in 1..n : p[k] = p[k - 1] * f[k]

LEMMA AccumulatorExists ==
  ASSUME NEW f, NEW n, Positive(f, n)
  PROVE  \E p : Accumulates(p, f, n)
<1> DEFINE S == {m \in Nat : m <= n => \E p : Accumulates(p, f, m)}
<1>1. 0 \in S
  <2>1. Accumulates([k \in 0..0 |-> 1], f, 0)
    BY DEF Accumulates
  <2> QED BY <2>1
<1>2. ASSUME NEW m \in Nat, m \in S
      PROVE  m + 1 \in S
  <2> SUFFICES ASSUME m + 1 <= n
               PROVE  \E p : Accumulates(p, f, m + 1)
    OBVIOUS
  <2>1. PICK p : Accumulates(p, f, m)
    BY <1>2 DEF Positive
  <2> DEFINE q == [k \in 0..m + 1 |-> IF k = m + 1 THEN p[m] * f[m + 1] ELSE p[k]]
  <2>2. f[m + 1] \in Nat \ {0} /\ p[m] \in Nat \ {0}
    BY <2>1 DEF Positive, Accumulates
  <2>3. p[m] * f[m + 1] \in Nat \ {0}
    BY <2>2, PositiveTimes
  <2>4. q \in [0..m + 1 -> Nat \ {0}]
    BY <2>1, <2>3 DEF Accumulates
  <2>5. q[0] = 1
    BY <2>1 DEF Accumulates
  <2>6. ASSUME NEW k \in 1..m + 1
        PROVE  q[k] = q[k - 1] * f[k]
    <3>1. CASE k = m + 1
      <4>1. k - 1 = m /\ m # m + 1 /\ m \in 0..m + 1 /\ k \in 0..m + 1
        BY <3>1
      <4> QED BY <3>1, <4>1
    <3>2. CASE k # m + 1
      <4>1. k \in 1..m /\ k - 1 \in 0..m + 1 /\ k - 1 # m + 1 /\ k \in 0..m + 1
        BY <3>2
      <4> QED BY <2>1, <3>2, <4>1 DEF Accumulates
    <3> QED BY <3>1, <3>2
  <2> HIDE DEF q
  <2> QED BY <2>4, <2>5, <2>6 DEF Accumulates
<1>3. n \in S
  BY <1>1, <1>2, Induction DEF Positive
<1> QED BY <1>3 DEF Positive

(* They are all there is to Product.                                       *)
LEMMA ProductIs ==
  ASSUME NEW f, NEW n, Positive(f, n), NEW p, Accumulates(p, f, n)
  PROVE  Product(f, n) = p[n]
<1> DEFINE F(q) == [k \in 0..n |-> IF k = 0 THEN 1 ELSE q[k - 1] * f[k]]
           g == CHOOSE q : q = F(q)
           S == {m \in Nat : m <= n => g[m] = p[m]}
<1> USE DEF Accumulates
<1>1. p = F(p)
  <2>1. ASSUME NEW k \in 0..n PROVE p[k] = F(p)[k]
    <3>1. CASE k = 0
      BY <3>1
    <3>2. CASE k # 0
      BY <3>2
    <3> QED BY <3>1, <3>2
  <2> QED BY <2>1
<1>2. g = F(g)
  BY <1>1
<1>3. Product(f, n) = g[n]
  BY DEF Product
<1> HIDE DEF g
<1>4. g[0] = 1 /\ \A k \in 1..n : g[k] = g[k - 1] * f[k]
  <2>1. g[0] = 1
    BY <1>2 DEF Positive
  <2>2. ASSUME NEW k \in 1..n PROVE g[k] = g[k - 1] * f[k]
    <3>1. k \in 0..n /\ k # 0
      BY DEF Positive
    <3> QED BY <1>2, <3>1
  <2> QED BY <2>1, <2>2
<1>5. 0 \in S
  BY <1>4
<1>6. ASSUME NEW m \in Nat, m \in S
      PROVE  m + 1 \in S
  <2> SUFFICES ASSUME m + 1 <= n
               PROVE  g[m + 1] = p[m + 1]
    OBVIOUS
  <2>1. m + 1 \in 1..n /\ (m + 1) - 1 = m
    BY DEF Positive
  <2>2. g[m] = p[m]
    BY <1>6, <2>1 DEF Positive
  <2>3. g[m + 1] = g[m] * f[m + 1] /\ p[m + 1] = p[m] * f[m + 1]
    BY <1>4, <2>1
  <2> QED BY <2>2, <2>3
<1>7. n \in S
  BY <1>5, <1>6, Induction DEF Positive
<1> QED BY <1>3, <1>7 DEF Positive

LEMMA ProductFacts ==
  ASSUME NEW f, NEW n, Positive(f, n)
  PROVE  /\ Product(f, n) \in Nat \ {0}
         /\ n = 0 => Product(f, n) = 1
         /\ n # 0 => Positive(f, n - 1) /\ Product(f, n) = Product(f, n - 1) * f[n]
<1>1. PICK p : Accumulates(p, f, n)
  BY AccumulatorExists
<1>2. Product(f, n) = p[n]
  BY <1>1, ProductIs
<1>3. ASSUME n # 0
      PROVE  Positive(f, n - 1) /\ Product(f, n) = Product(f, n - 1) * f[n]
  <2> DEFINE m == n - 1
             q == [k \in 0..m |-> p[k]]
  <2>1. m \in Nat /\ 0..m \subseteq 0..n /\ 1..m \subseteq 1..n /\ n \in 1..n /\ m \in 0..m
    BY <1>3 DEF Positive
  <2>2. Positive(f, m)
    BY <2>1 DEF Positive
  <2>3. q \in [0..m -> Nat \ {0}] /\ q[0] = 1
    BY <1>1, <2>1 DEF Accumulates
  <2>4. ASSUME NEW k \in 1..m PROVE q[k] = q[k - 1] * f[k]
    <3>1. k \in 0..m /\ k - 1 \in 0..m /\ k \in 1..n
      BY <2>1
    <3> QED BY <1>1, <3>1 DEF Accumulates
  <2>5. q[m] = p[m]
    BY <2>1
  <2> HIDE DEF q, m
  <2>6. Product(f, m) = p[m]
    <3>1. Accumulates(q, f, m)
      BY <2>3, <2>4 DEF Accumulates
    <3> QED BY <2>2, <2>5, <3>1, ProductIs
  <2>7. p[n] = p[m] * f[n]
    BY <1>1, <2>1 DEF m, Accumulates
  <2> QED BY <1>2, <2>2, <2>6, <2>7 DEF m
<1>4. n = 0 => p[n] = 1 /\ n \in 0..n
  BY <1>1 DEF Positive, Accumulates
<1>5. p[n] \in Nat \ {0}
  BY <1>1 DEF Positive, Accumulates
<1> QED BY <1>2, <1>3, <1>4, <1>5

(* Only the values of the factors matter.                                  *)
LEMMA SameFactors ==
  ASSUME NEW f, NEW g, NEW n, Positive(f, n), \A k \in 1..n : f[k] = g[k]
  PROVE  Product(f, n) = Product(g, n)
<1>1. PICK p : Accumulates(p, f, n)
  BY AccumulatorExists
<1>2. Positive(g, n)
  BY DEF Positive
<1>3. Product(f, n) = p[n]
  BY <1>1, ProductIs
<1>4. Accumulates(p, g, n)
  BY <1>1 DEF Accumulates
<1>5. Product(g, n) = p[n]
  BY <1>1, <1>2, <1>4, ProductIs
<1> QED BY <1>3, <1>5

LEMMA OnlyOnes ==
  ASSUME NEW f, NEW n \in Nat, \A k \in 1..n : f[k] = 1
  PROVE  Positive(f, n) /\ Product(f, n) = 1
<1> DEFINE p == [k \in 0..n |-> 1]
<1>1. Positive(f, n)
  BY DEF Positive
<1>2. p[n] = 1
  OBVIOUS
<1>3. Accumulates(p, f, n)
  BY DEF Accumulates
<1> HIDE DEF p
<1> QED BY <1>1, <1>2, <1>3, ProductIs

(* f with 1 in place of one factor, and that factor.                       *)
Without(f, n, j) == [k \in 1..n |-> IF k = j THEN 1 ELSE f[k]]

LEMMA TimesSwap == \A a, b, c \in Nat : (a * b) * c = a * (b * c) /\ (a * b) * c = (a * c) * b
OBVIOUS

LEMMA TakeOut ==
  ASSUME NEW f, NEW n, Positive(f, n), NEW j \in 1..n
  PROVE  /\ Positive(Without(f, n, j), n)
         /\ Product(f, n) = f[j] * Product(Without(f, n, j), n)
<1> DEFINE S == {m \in Nat : m <= n /\ j <= m =>
                   Product(f, m) = f[j] * Product(Without(f, n, j), m)}
           g == Without(f, n, j)
<1>0. n \in Nat /\ j \in Nat /\ \A k \in 1..n : f[k] \in Nat \ {0}
  BY DEF Positive
<1>1. \A k \in 1..n : g[k] = IF k = j THEN 1 ELSE f[k]
  BY DEF Without
<1>2. Positive(g, n)
  BY <1>0, <1>1 DEF Positive
<1> HIDE DEF g
<1>3. \A m \in Nat : m <= n => Positive(f, m) /\ Positive(g, m)
  BY <1>0, <1>2 DEF Positive
<1>4. 0 \in S
  BY <1>0
<1>5. ASSUME NEW m \in Nat, m \in S
      PROVE  m + 1 \in S
  <2> SUFFICES ASSUME m + 1 <= n, j <= m + 1
               PROVE  Product(f, m + 1) = f[j] * Product(g, m + 1)
    BY DEF g
  <2>1. m <= n /\ m + 1 # 0 /\ (m + 1) - 1 = m /\ m + 1 \in 1..n /\ m + 1 \in Nat
    BY <1>0
  <2>2. Product(f, m + 1) = Product(f, m) * f[m + 1] /\ Product(g, m + 1) = Product(g, m) * g[m + 1]
    <3>1. Positive(f, m + 1) /\ Positive(g, m + 1)
      BY <1>3, <2>1
    <3>2. Product(f, m + 1) = Product(f, (m + 1) - 1) * f[m + 1]
      BY <2>1, <3>1, ProductFacts
    <3>3. Product(g, m + 1) = Product(g, (m + 1) - 1) * g[m + 1]
      BY <2>1, <3>1, ProductFacts
    <3> QED BY <2>1, <3>2, <3>3
  <2>3. Product(f, m) \in Nat /\ Product(g, m) \in Nat /\ f[m + 1] \in Nat /\ f[j] \in Nat
    BY <1>0, <1>3, <2>1, ProductFacts
  <2>4. CASE j = m + 1
    <3>1. \A k \in 1..m : f[k] = g[k]
      BY <1>1, <1>0, <2>1, <2>4
    <3>2. Product(f, m) = Product(g, m)
      BY <1>3, <2>1, <3>1, SameFactors
    <3>3. g[m + 1] = 1
      BY <1>1, <2>1, <2>4
    <3>4. \A a, b \in Nat : a * b = b * (a * 1)
      OBVIOUS
    <3> QED BY <2>2, <2>3, <2>4, <3>2, <3>3, <3>4
  <2>5. CASE j # m + 1
    <3>1. j <= m
      BY <1>0, <2>5
    <3>2. Product(f, m) = f[j] * Product(g, m)
      BY <1>5, <2>1, <3>1 DEF g
    <3>3. g[m + 1] = f[m + 1]
      BY <1>1, <2>1, <2>5
    <3> QED BY <2>2, <2>3, <3>2, <3>3, TimesSwap
  <2> QED BY <2>4, <2>5
<1> HIDE DEF S
<1>6. n \in S
  BY <1>0, <1>4, <1>5, Induction
<1> QED BY <1>0, <1>2, <1>6 DEF S, g

LEMMA OnlyFactor ==
  ASSUME NEW f, NEW n, Positive(f, n), NEW j \in 1..n, \A k \in 1..n : k # j => f[k] = 1
  PROVE  Product(f, n) = f[j]
<1>1. \A k \in 1..n : Without(f, n, j)[k] = 1
  BY DEF Without
<1>2. Product(Without(f, n, j), n) = 1
  BY <1>1, OnlyOnes DEF Positive
<1>3. f[j] \in Nat
  BY DEF Positive
<1> QED BY <1>2, <1>3, TakeOut

LEMMA Cancel == \A a \in Nat \ {0} : \A b, c \in Nat : a * b = a * c => b = c
OBVIOUS

LEMMA OtherFactor ==
  \A a, b, c, e \in Nat \ {0} :
    a * b = c * e => (a = c <=> b = e) /\ (a = e <=> b = c)
<1> SUFFICES ASSUME NEW a \in Nat \ {0}, NEW b \in Nat \ {0}, NEW c \in Nat \ {0}, NEW e \in Nat \ {0},
                    a * b = c * e
             PROVE  (a = c <=> b = e) /\ (a = e <=> b = c)
  OBVIOUS
<1>1. b * a = c * e /\ a * b = e * c /\ b * a = e * c
  OBVIOUS
<1>2. ASSUME a = c PROVE b = e
  BY <1>2, Cancel
<1>3. ASSUME b = e PROVE a = c
  BY <1>1, <1>3, Cancel
<1>4. ASSUME a = e PROVE b = c
  BY <1>1, <1>4, Cancel
<1>5. ASSUME b = c PROVE a = e
  BY <1>1, <1>5, Cancel
<1> QED BY <1>2, <1>3, <1>4, <1>5

(***************************************************************************)
(* Of two products that are equal, some factors of the second are factors   *)
(* of the first, each another one; what is left over is one factor of each, *)
(* and ones.                                                               *)
(***************************************************************************)
LeftOver(f, m, g, n, R, axis, j, k) ==
  /\ Positive(f, m) /\ Positive(g, n) /\ Product(f, m) = Product(g, n)
  /\ R \subseteq 1..n
  /\ \A i \in R : axis[i] \in 1..m /\ g[i] = f[axis[i]]
  /\ \A h, i \in R : axis[h] = axis[i] => h = i
  /\ j \in 1..m /\ \A i \in R : axis[i] # j
  /\ k \in (1..n) \ R
  /\ \A l \in 1..m : l = j \/ f[l] = 1 \/ \E i \in R : axis[i] = l
  /\ \A i \in (1..n) \ R : i = k \/ g[i] = 1

LEMMA SplitOff ==
  ASSUME NEW f, NEW m, NEW g, NEW n, NEW R, NEW axis, NEW j, NEW k,
         LeftOver(f, m, g, n, R, axis, j, k)
  PROVE  f[j] = g[k]
<1> USE DEF LeftOver
<1> DEFINE fs(q) == [l \in 1..m |-> IF \E i \in R : i <= q /\ axis[i] = l THEN 1 ELSE f[l]]
           gs(q) == [i \in 1..n |-> IF i \in R /\ i <= q THEN 1 ELSE g[i]]
           S == {q \in Nat : q <= n =>
                   /\ Positive(fs(q), m) /\ Positive(gs(q), n)
                   /\ Product(fs(q), m) = Product(gs(q), n)}
<1>0. /\ n \in Nat /\ m \in Nat
      /\ \A l \in 1..m : f[l] \in Nat \ {0}
      /\ \A i \in 1..n : g[i] \in Nat \ {0}
  BY DEF Positive
<1>1. 0 \in S
  <2>1. \A l \in 1..m : f[l] = fs(0)[l]
    BY <1>0
  <2>2. \A i \in 1..n : g[i] = gs(0)[i]
    BY <1>0
  <2> HIDE DEF fs, gs
  <2>3. Product(f, m) = Product(fs(0), m) /\ Product(g, n) = Product(gs(0), n)
    BY <2>1, <2>2, SameFactors
  <2>4. Positive(fs(0), m) /\ Positive(gs(0), n)
    BY <1>0, <2>1, <2>2 DEF Positive
  <2> QED BY <2>3, <2>4
<1>2. ASSUME NEW q \in Nat, q \in S
      PROVE  q + 1 \in S
  <2> SUFFICES ASSUME q + 1 <= n
               PROVE  /\ Positive(fs(q + 1), m) /\ Positive(gs(q + 1), n)
                      /\ Product(fs(q + 1), m) = Product(gs(q + 1), n)
    OBVIOUS
  <2>1. /\ Positive(fs(q), m) /\ Positive(gs(q), n)
        /\ Product(fs(q), m) = Product(gs(q), n)
    BY <1>0, <1>2
  <2>2. \A i \in R : i <= q + 1 <=> i <= q \/ i = q + 1
    BY <1>0
  <2>3. CASE q + 1 \notin R
    <3>1. fs(q + 1) = fs(q) /\ gs(q + 1) = gs(q)
      BY <2>2, <2>3
    <3> QED BY <2>1, <3>1
  <2>4. CASE q + 1 \in R
    <3> DEFINE a == axis[q + 1]
    <3>1. a \in 1..m /\ q + 1 \in 1..n /\ g[q + 1] = f[a]
      BY <2>4
    <3>2. fs(q)[a] = f[a]
      <4>1. ~ \E i \in R : i <= q /\ axis[i] = a
        BY <1>0, <2>4
      <4> QED BY <3>1, <4>1
    <3>3. gs(q)[q + 1] = g[q + 1]
      BY <1>0, <3>1
    <3>4. Without(fs(q), m, a) = fs(q + 1)
      <4>1. ASSUME NEW l \in 1..m
            PROVE  (IF l = a THEN 1 ELSE fs(q)[l]) = fs(q + 1)[l]
        <5>1. (\E i \in R : i <= q + 1 /\ axis[i] = l) <=> (\E i \in R : i <= q /\ axis[i] = l) \/ l = a
          BY <1>0, <2>2, <2>4
        <5> QED BY <5>1
      <4> QED BY <4>1 DEF Without
    <3>5. Without(gs(q), n, q + 1) = gs(q + 1)
      BY <2>2, <2>4 DEF Without
    <3> HIDE DEF fs, gs, a
    <3>6. /\ Positive(fs(q + 1), m)
          /\ Product(fs(q), m) = f[a] * Product(fs(q + 1), m)
      BY <2>1, <3>1, <3>2, <3>4, TakeOut
    <3>7. /\ Positive(gs(q + 1), n)
          /\ Product(gs(q), n) = f[a] * Product(gs(q + 1), n)
      BY <2>1, <3>1, <3>3, <3>5, TakeOut
    <3>8. Product(fs(q + 1), m) \in Nat /\ Product(gs(q + 1), n) \in Nat /\ f[a] \in Nat \ {0}
      BY <1>0, <3>1, <3>6, <3>7, ProductFacts
    <3>9. f[a] * Product(fs(q + 1), m) = f[a] * Product(gs(q + 1), n)
      BY <2>1, <3>6, <3>7
    <3>10. Product(fs(q + 1), m) = Product(gs(q + 1), n)
      BY <3>8, <3>9, Cancel
    <3> QED BY <3>6, <3>7, <3>10
  <2> QED BY <2>3, <2>4
<1> HIDE DEF S
<1>3. n \in S
  BY <1>0, <1>1, <1>2, Induction
<1>4. /\ Positive(fs(n), m) /\ Positive(gs(n), n)
      /\ Product(fs(n), m) = Product(gs(n), n)
  BY <1>0, <1>3 DEF S
<1>5. fs(n)[j] = f[j] /\ \A l \in 1..m : l # j => fs(n)[l] = 1
  BY <1>0
<1>6. gs(n)[k] = g[k] /\ \A i \in 1..n : i # k => gs(n)[i] = 1
  BY <1>0
<1> HIDE DEF fs, gs
<1>7. Product(fs(n), m) = f[j]
  BY <1>4, <1>5, OnlyFactor
<1>8. Product(gs(n), n) = g[k]
  BY <1>4, <1>6, OnlyFactor
<1> QED BY <1>4, <1>7, <1>8

-----------------------------------------------------------------------------
(***************************************************************************)
(* A program p, and a run of it of the kind the analysis takes for granted. *)
(***************************************************************************)
Good(p, run) ==
  /\ p \in Seq(Tensor)
  /\ RunOf(p, run)
  /\ \A t \in DOMAIN p :
       /\ WellFormed(p, t)
       /\ \A k \in 1..Rank(p, t) : ~IsUnknown(p, t, k) => Size(run, t, k) = p[t].dims[k]
       /\ Follows(p, run, t)
       /\ Plain(p, run, t)

\* A dimension that its tensor has, or the content of an element.
DimOK(p, d) ==
  /\ d \in (DOMAIN p) \X Nat
  /\ p[d[1]].elem \/ d[2] \in 1..Rank(p, d[1])

\* d is one, and it has the same value as e.
Same(p, run, d, e) == DimOK(p, d) /\ ValueOf(p, run, d) = ValueOf(p, run, e)

LEMMA OperandFacts ==
  ASSUME NEW p, NEW run, Good(p, run), NEW t \in DOMAIN p
  PROVE  /\ p[t] \in Tensor
         /\ Rank(p, t) \in Nat
         /\ Len(p[t].ins) \in Nat /\ DOMAIN p[t].ins = 1..Len(p[t].ins)
         /\ Len(p[t].shape) \in Nat /\ DOMAIN p[t].shape = 1..Len(p[t].shape)
         /\ Len(p[t].attrs) \in Nat /\ DOMAIN p[t].attrs = 1..Len(p[t].attrs)
         /\ \A i \in 1..Len(p[t].ins) :
              /\ p[t].ins[i] \in DOMAIN p
              /\ p[p[t].ins[i]].elem => p[t].op = "cast" /\ p[t].elem
         /\ \A i \in 1..Len(p[t].shape) : p[t].shape[i] \in DOMAIN p /\ p[p[t].shape[i]].elem
         /\ \A k \in 1..Rank(p, t) : Size(run, t, k) \in Nat \ {0} /\ p[t].dims[k] \in Nat
         /\ DOMAIN p \subseteq Nat
<1>1. p[t] \in Tensor /\ WellFormed(p, t)
  BY DEF Good, WellFormed
<1>2. p[t].ins \in Seq(Nat) /\ p[t].shape \in Seq(Nat) /\ p[t].attrs \in Seq(Nat) /\ p[t].dims \in Seq(Nat)
  BY <1>1 DEF Tensor
<1>3. run.size[t] \in Seq(Nat \ {0}) /\ Len(run.size[t]) = Rank(p, t)
  BY DEF Good, RunOf
<1>4. \A k \in 1..Rank(p, t) : Size(run, t, k) \in Nat \ {0} /\ p[t].dims[k] \in Nat
  BY <1>2, <1>3 DEF Size, Rank
<1>5. DOMAIN p \subseteq Nat
  BY DEF Good
<1> QED BY <1>1, <1>2, <1>4, <1>5 DEF WellFormed, Rank

(* What WellFormed and Typed say, operator by operator. *)
LEMMA TypedFacts ==
  ASSUME NEW p, NEW run, Good(p, run), NEW t \in DOMAIN p
  PROVE  /\ p[t].elem => p[t].op \in {"argument", "constant", "dim", "cast"}
         /\ p[t].op = "dim" =>
              /\ p[t].elem
              /\ Len(p[t].ins) = 1
              /\ p[t].attr \in 1..Rank(p, p[t].ins[1])
              /\ IsUnknown(p, p[t].ins[1], p[t].attr)
         /\ p[t].op = "cast" =>
              /\ p[t].elem => p[p[t].ins[1]].elem
              /\ Len(p[t].ins) = 1
              /\ Rank(p, p[t].ins[1]) = Rank(p, t)
         /\ p[t].op = "transpose" =>
              /\ Len(p[t].ins) = 1
              /\ \A k \in 1..Rank(p, t) : p[t].attrs[k] \in 1..Rank(p, p[t].ins[1])
         /\ p[t].op = "broadcast" =>
              /\ \A i \in 1..Len(p[t].ins) : Rank(p, p[t].ins[i]) <= Rank(p, t)
              /\ \E i \in 1..Len(p[t].ins) : Rank(p, p[t].ins[i]) = Rank(p, t)
         /\ p[t].op = "matmul" =>
              /\ Len(p[t].ins) = 2
              /\ \A i \in 1..2 : Rank(p, p[t].ins[i]) \in 2..Rank(p, t)
              /\ \E i \in 1..2 : Rank(p, p[t].ins[i]) = Rank(p, t)
         /\ p[t].op = "gemm" =>
              /\ Len(p[t].ins) = 2
              /\ Rank(p, t) = 2 /\ Rank(p, p[t].ins[1]) = 2 /\ Rank(p, p[t].ins[2]) = 2
              /\ p[t].attrs[1] \in {0, 1} /\ p[t].attrs[2] \in {0, 1}
         /\ p[t].op = "concat" =>
              /\ Len(p[t].ins) >= 1
              /\ \A i \in 1..Len(p[t].ins) : Rank(p, p[t].ins[i]) = Rank(p, t)
         /\ p[t].op = "gru" =>
              /\ Len(p[t].ins) = 3 /\ Rank(p, t) = 4
              /\ Rank(p, p[t].ins[1]) = 3 /\ Rank(p, p[t].ins[2]) = 1 /\ Rank(p, p[t].ins[3]) = 3
              /\ p[t].attr \in {0, 1}
         /\ p[t].op = "constantOfShape" => Len(p[t].shape) = Rank(p, t)
         /\ p[t].op = "centerCropPad" => Len(p[t].shape) = Len(p[t].attrs)
         /\ p[t].op = "expand" =>
              /\ Len(p[t].shape) = Rank(p, t) /\ Len(p[t].ins) = 1
              /\ Rank(p, p[t].ins[1]) <= Rank(p, t)
         /\ p[t].op = "reshape" => Len(p[t].shape) = Rank(p, t) /\ Len(p[t].ins) = 1
         /\ p[t].op = "tile" =>
              /\ Len(p[t].shape) = Rank(p, t) /\ Len(p[t].ins) = 1
              /\ Rank(p, p[t].ins[1]) = Rank(p, t)
<1>1. WellFormed(p, t) /\ Typed(p, t)
  BY DEF Good, WellFormed
<1>2. DOMAIN p[t].ins = 1..Len(p[t].ins) /\ Len(p[t].ins) \in Nat
  BY OperandFacts
<1>3. p[t].op = "concat" => Len(p[t].ins) >= 1
  <2>1. p[t].ins \in Seq(Nat)
    BY OperandFacts DEF Tensor
  <2> QED BY <1>1, <2>1 DEF Typed
<1>4. p[t].elem => p[t].op \in {"argument", "constant", "dim", "cast"}
  BY <1>1 DEF WellFormed
<1>5. /\ p[t].op = "dim" => p[t].elem
      /\ p[t].op = "cast" /\ p[t].elem => p[p[t].ins[1]].elem
      /\ p[t].op \in {"constantOfShape", "expand", "reshape", "tile"} => Len(p[t].shape) = Rank(p, t)
      /\ p[t].op = "centerCropPad" => Len(p[t].shape) = Len(p[t].attrs)
  BY <1>1 DEF WellFormed
<1>6. /\ p[t].op = "dim" =>
           /\ Len(p[t].ins) = 1
           /\ p[t].attr \in 1..Rank(p, p[t].ins[1]) /\ IsUnknown(p, p[t].ins[1], p[t].attr)
      /\ p[t].op = "cast" => Len(p[t].ins) = 1 /\ Rank(p, p[t].ins[1]) = Rank(p, t)
      /\ p[t].op = "transpose" =>
           /\ Len(p[t].ins) = 1
           /\ \A k \in 1..Rank(p, t) : p[t].attrs[k] \in 1..Rank(p, p[t].ins[1])
  BY <1>1 DEF Typed, Operands, IsUnknown
<1>7. /\ p[t].op = "broadcast" =>
           /\ \A i \in 1..Len(p[t].ins) : Rank(p, p[t].ins[i]) <= Rank(p, t)
           /\ \E i \in 1..Len(p[t].ins) : Rank(p, p[t].ins[i]) = Rank(p, t)
      /\ p[t].op = "matmul" =>
           /\ Len(p[t].ins) = 2
           /\ \A i \in 1..2 : Rank(p, p[t].ins[i]) \in 2..Rank(p, t)
           /\ \E i \in 1..2 : Rank(p, p[t].ins[i]) = Rank(p, t)
  BY <1>1, <1>2 DEF Typed, Operands
<1>8. /\ p[t].op = "gemm" =>
           /\ Len(p[t].ins) = 2
           /\ Rank(p, t) = 2 /\ Rank(p, p[t].ins[1]) = 2 /\ Rank(p, p[t].ins[2]) = 2
           /\ p[t].attrs[1] \in {0, 1} /\ p[t].attrs[2] \in {0, 1}
      /\ p[t].op = "concat" => \A i \in 1..Len(p[t].ins) : Rank(p, p[t].ins[i]) = Rank(p, t)
      /\ p[t].op = "gru" =>
           /\ Len(p[t].ins) = 3 /\ Rank(p, t) = 4
           /\ Rank(p, p[t].ins[1]) = 3 /\ Rank(p, p[t].ins[2]) = 1 /\ Rank(p, p[t].ins[3]) = 3
           /\ p[t].attr \in {0, 1}
  BY <1>1, <1>2 DEF Typed, Operands, OfRank
<1>9. /\ p[t].op = "expand" => Len(p[t].ins) = 1 /\ Rank(p, p[t].ins[1]) <= Rank(p, t)
      /\ p[t].op = "reshape" => Len(p[t].ins) = 1
      /\ p[t].op = "tile" => Len(p[t].ins) = 1 /\ Rank(p, p[t].ins[1]) = Rank(p, t)
  BY <1>1 DEF Typed, Operands, OfRank
<1> QED BY <1>3, <1>4, <1>5, <1>6, <1>7, <1>8, <1>9

(* What Follows and Plain say, operator by operator. *)
LEMMA RunFacts ==
  ASSUME NEW p, NEW run, Good(p, run), NEW t \in DOMAIN p
  PROVE  /\ p[t].op = "constant" => run.elem[t] = p[t].attr
         /\ p[t].op = "dim" => run.elem[t] = Size(run, p[t].ins[1], p[t].attr)
         /\ p[t].op = "cast" =>
              run.size[t] = run.size[p[t].ins[1]] /\ run.elem[t] = run.elem[p[t].ins[1]]
         /\ p[t].op = "transpose" =>
              \A k \in 1..Rank(p, t) : Size(run, t, k) = Size(run, p[t].ins[1], p[t].attrs[k])
         /\ p[t].op = "broadcast" => BroadcastSizes(p, run, t)
         /\ p[t].op = "matmul" => MatMulSizes(p, run, t)
         /\ p[t].op = "gemm" => GemmSizes(p, run, t)
         /\ p[t].op = "concat" => ConcatSizes(p, run, t)
         /\ p[t].op = "gru" => GruSizes(p, run, t)
         /\ p[t].op = "constantOfShape" =>
              \A k \in 1..Rank(p, t) : Size(run, t, k) = run.elem[p[t].shape[k]]
         /\ p[t].op = "centerCropPad" => CropSizes(p, run, t)
         /\ p[t].op = "expand" => ExpandSizes(p, run, t)
         /\ p[t].op = "reshape" => ReshapeSizes(p, run, t)
         /\ p[t].op = "tile" =>
              \A k \in 1..Rank(p, t) :
                Size(run, t, k) = Size(run, p[t].ins[1], k) * run.elem[p[t].shape[k]]
         /\ \A k \in 1..Rank(p, t) : ~IsUnknown(p, t, k) => Size(run, t, k) = p[t].dims[k]
<1>1. Follows(p, run, t)
  BY DEF Good
<1>2. \A k \in 1..Rank(p, t) : ~IsUnknown(p, t, k) => Size(run, t, k) = p[t].dims[k]
  BY DEF Good
<1> QED BY <1>1, <1>2 DEF Follows

(***************************************************************************)
(* insertDimWhenUseful inserts nothing, or a dimension of the same value.   *)
(***************************************************************************)
LEMMA UsefulHolds ==
  ASSUME NEW p, NEW run, Good(p, run), NEW t, NEW k, DimOK(p, <<t, k>>)
  PROVE  \A d \in Useful(p, t, k) : Same(p, run, d, <<t, k>>)
<1>1. t \in DOMAIN p /\ k \in Nat
  BY DEF DimOK
<1>2. CASE p[t].op = "dim"
  <2>1. Useful(p, t, k) = {<<t, p[t].attr>>}
    BY <1>2 DEF Useful
  <2>2. p[t].elem /\ p[t].attr \in Nat
    <3>1. p[t].elem /\ Len(p[t].ins) = 1 /\ p[t].attr \in 1..Rank(p, p[t].ins[1])
      BY <1>1, <1>2, TypedFacts
    <3>2. p[t].ins[1] \in DOMAIN p
      BY <1>1, <3>1, OperandFacts
    <3>3. Rank(p, p[t].ins[1]) \in Nat
      BY <3>2, OperandFacts
    <3> QED BY <3>1, <3>3
  <2> QED BY <1>1, <2>1, <2>2 DEF DimOK, Same, ValueOf
<1>3. CASE p[t].op # "dim"
  <2>1. Useful(p, t, k) \subseteq {<<t, k>>}
    BY <1>3 DEF Useful
  <2> QED BY <2>1 DEF Same
<1> QED BY <1>2, <1>3

(***************************************************************************)
(* The operands that an operation needs to be equal are.                    *)
(***************************************************************************)
LEMMA MeetingHolds ==
  ASSUME NEW p, NEW run, Good(p, run), NEW u \in DOMAIN p, NEW h \in Meeting(p, u),
         NEW d \in h, NEW e \in h
  PROVE  Same(p, run, d, e)
<1> DEFINE x == p[u].ins
<1>1. \A i \in 1..Len(x) : x[i] \in DOMAIN p /\ Rank(p, x[i]) \in Nat
  BY OperandFacts
<1>2. p[u].op # "cast" => \A i \in 1..Len(x) : ~p[x[i]].elem
  BY OperandFacts
<1>3. \A i \in 1..Len(x), k \in Nat :
        p[u].op # "cast" /\ k \in 1..Rank(p, x[i]) =>
          DimOK(p, <<x[i], k>>) /\ ValueOf(p, run, <<x[i], k>>) = Size(run, x[i], k)
  BY <1>1, <1>2 DEF DimOK, ValueOf
<1> HIDE DEF x
<1>4. CASE p[u].op = "concat"
  <2>1. /\ Len(x) \in Nat /\ Len(x) >= 1 /\ DOMAIN x = 1..Len(x) /\ Rank(p, u) \in Nat
        /\ \A i \in 1..Len(x) : Rank(p, x[i]) = Rank(p, u)
    BY <1>4, OperandFacts, TypedFacts DEF x
  <2>2. PICK k \in (1..Rank(p, x[1])) \ {p[u].attr} : h = {<<x[i], k>> : i \in DOMAIN x}
    BY <1>4 DEF Meeting, x
  <2>3. \A i \in DOMAIN x : Size(run, x[i], k) = Size(run, u, k)
    BY <1>4, <2>1, <2>2, RunFacts DEF ConcatSizes, x
  <2> QED BY <1>3, <1>4, <2>1, <2>2, <2>3 DEF Same
<1>5. CASE p[u].op = "gemm"
  <2>1. /\ Len(x) = 2 /\ Rank(p, x[1]) = 2 /\ Rank(p, x[2]) = 2
        /\ p[u].attrs[1] \in {0, 1} /\ p[u].attrs[2] \in {0, 1}
    BY <1>5, TypedFacts DEF x
  <2>2. h = {<<x[1], 2 - p[u].attrs[1]>>, <<x[2], 1 + p[u].attrs[2]>>}
    BY <1>5 DEF Meeting, x
  <2>3. Size(run, x[1], 2 - p[u].attrs[1]) = Size(run, x[2], 1 + p[u].attrs[2])
    BY <1>5, RunFacts DEF GemmSizes, x
  <2>4. 2 - p[u].attrs[1] \in 1..2 /\ 1 + p[u].attrs[2] \in 1..2
    BY <2>1
  <2> QED BY <1>3, <1>5, <2>1, <2>2, <2>3, <2>4 DEF Same
<1>6. CASE p[u].op = "matmul"
  <2>1. /\ Len(x) = 2 /\ Rank(p, u) \in Nat
        /\ Rank(p, x[1]) \in 2..Rank(p, u) /\ Rank(p, x[2]) \in 2..Rank(p, u)
    BY <1>6, OperandFacts, TypedFacts DEF x
  <2>2. h = {<<x[1], Rank(p, x[1])>>, <<x[2], Rank(p, x[2]) - 1>>}
    BY <1>6 DEF Meeting, x
  <2>3. Size(run, x[1], Rank(p, x[1])) = Size(run, x[2], Rank(p, x[2]) - 1)
    BY <1>6, RunFacts DEF MatMulSizes, x
  <2>4. Rank(p, x[1]) \in 1..Rank(p, x[1]) /\ Rank(p, x[2]) - 1 \in 1..Rank(p, x[2])
    BY <2>1
  <2> QED BY <1>3, <1>6, <2>1, <2>2, <2>3, <2>4 DEF Same
<1>7. CASE p[u].op = "gru"
  <2>1. /\ Len(x) = 3 /\ Rank(p, x[1]) = 3 /\ Rank(p, x[2]) = 1 /\ Rank(p, x[3]) = 3
        /\ p[u].attr \in {0, 1}
    BY <1>7, TypedFacts DEF x
  <2>2. h = {<<x[1], 2 - p[u].attr>>, <<x[2], 1>>, <<x[3], 2 - p[u].attr>>}
    BY <1>7 DEF Meeting, x
  <2>3. /\ Size(run, x[2], 1) = Size(run, x[1], 2 - p[u].attr)
        /\ Size(run, x[3], 2 - p[u].attr) = Size(run, x[1], 2 - p[u].attr)
    <3>1. GruSizes(p, run, u)
      BY <1>7, RunFacts
    <3>2. CASE p[u].attr = 0
      BY <3>1, <3>2 DEF GruSizes, Size, x
    <3>3. CASE p[u].attr = 1
      BY <3>1, <3>3 DEF GruSizes, Size, x
    <3> QED BY <2>1, <3>2, <3>3
  <2>4. 2 - p[u].attr \in 1..3
    BY <2>1
  <2> QED BY <1>3, <1>7, <2>1, <2>2, <2>3, <2>4 DEF Same
<1> QED BY <1>4, <1>5, <1>6, <1>7 DEF Meeting

LEMMA AllUsefulHolds ==
  ASSUME NEW p, NEW run, Good(p, run), NEW S, NEW e, \A c \in S : Same(p, run, c, e)
  PROVE  \A d \in AllUseful(p, S) : Same(p, run, d, e)
<1> SUFFICES ASSUME NEW d \in AllUseful(p, S)
             PROVE  Same(p, run, d, e)
  OBVIOUS
<1>1. PICK c \in S : d \in Useful(p, c[1], c[2])
  BY DEF AllUseful
<1>2. Same(p, run, c, e)
  BY <1>1
<1>3. c = <<c[1], c[2]>> /\ DimOK(p, c)
  BY <1>2 DEF Same, DimOK
<1>4. Same(p, run, d, c)
  BY <1>1, <1>3, UsefulHolds
<1> QED BY <1>2, <1>4 DEF Same

LEMMA FromConsumersHold ==
  ASSUME NEW p, NEW run, Good(p, run), NEW e
  PROVE  \A d \in FromConsumers(p, e) : Same(p, run, d, e)
<1> SUFFICES ASSUME NEW d \in FromConsumers(p, e)
             PROVE  Same(p, run, d, e)
  OBVIOUS
<1>0. PICK u \in DOMAIN p : \E h \in Meeting(p, u) : e \in h /\ d \in AllUseful(p, h \ {e})
  BY DEF FromConsumers
<1>1. PICK h \in Meeting(p, u) : e \in h /\ d \in AllUseful(p, h \ {e})
  BY <1>0
<1>2. \A c \in h \ {e} : Same(p, run, c, e)
  BY <1>1, MeetingHolds
<1> QED BY <1>1, <1>2, AllUsefulHolds

-----------------------------------------------------------------------------
(***************************************************************************)
(* The dimensions found for axis k of a tensor t that is not an element.    *)
(***************************************************************************)
LEMMA OperandHolds ==
  ASSUME NEW p, NEW run, Good(p, run), NEW t \in DOMAIN p, ~p[t].elem,
         NEW i \in 1..Len(p[t].ins), NEW j \in 1..Rank(p, p[t].ins[i]),
         NEW k \in 1..Rank(p, t), Size(run, p[t].ins[i], j) = Size(run, t, k)
  PROVE  Same(p, run, <<p[t].ins[i], j>>, <<t, k>>)
<1>1. p[t].ins[i] \in DOMAIN p /\ ~p[p[t].ins[i]].elem
  BY OperandFacts
<1>2. Rank(p, p[t].ins[i]) \in Nat
  BY <1>1, OperandFacts
<1> QED BY <1>1, <1>2 DEF Same, DimOK, ValueOf

(* An operand whose dimension is 1 by its type, or missing, has size 1 there. *)
LEMMA LiteralOneIsOne ==
  ASSUME NEW p, NEW run, Good(p, run), NEW x \in DOMAIN p, NEW n \in Nat, NEW k \in 1..n,
         Rank(p, x) <= n, LiteralOne(p, x, k, n)
  PROVE  SizeAt(p, run, x, k, n) = 1
<1>1. Rank(p, x) \in Nat
  BY OperandFacts
<1>2. CASE Aligned(p, x, k, n) < 1
  BY <1>2 DEF SizeAt
<1>3. CASE ~(Aligned(p, x, k, n) < 1)
  <2>1. Aligned(p, x, k, n) \in 1..Rank(p, x)
    BY <1>1, <1>3 DEF Aligned
  <2>2. p[x].dims[Aligned(p, x, k, n)] = 1
    BY <1>3 DEF LiteralOne
  <2>3. ~IsUnknown(p, x, Aligned(p, x, k, n))
    BY <2>2 DEF IsUnknown, Unknown
  <2>4. Size(run, x, Aligned(p, x, k, n)) = 1
    BY <2>1, <2>2, <2>3, RunFacts
  <2> QED BY <1>3, <2>4 DEF SizeAt
<1> QED BY <1>2, <1>3

(* One operand is not literally 1: the output has its size. *)
LEMMA BroadcastHelperHolds ==
  ASSUME NEW p, NEW run, Good(p, run), NEW t \in DOMAIN p, p[t].op = "broadcast",
         NEW k \in 1..Rank(p, t), NEW d \in BroadcastHelper(p, t, k), IsUnknown(p, d[1], d[2])
  PROVE  Same(p, run, d, <<t, k>>)
<1> DEFINE x == p[t].ins
           n == Rank(p, t)
           wide == {i \in DOMAIN x : ~LiteralOne(p, x[i], k, n)}
<1>1. /\ n \in Nat /\ Len(x) \in Nat /\ DOMAIN x = 1..Len(x) /\ ~p[t].elem
      /\ \A i \in 1..Len(x) : x[i] \in DOMAIN p /\ Rank(p, x[i]) <= n /\ Rank(p, x[i]) \in Nat
  BY OperandFacts, TypedFacts
<1>2. Cardinality(wide) = 1 /\ d \in {<<x[i], Aligned(p, x[i], k, n)>> : i \in wide}
  BY DEF BroadcastHelper
<1>3. PICK i \in wide : d = <<x[i], Aligned(p, x[i], k, n)>>
  BY <1>2
<1>4. wide = {i}
  <2>1. IsFiniteSet(1..Len(x))
    <3>1. 1 \in Int /\ Len(x) \in Int
      BY <1>1
    <3> HIDE DEF x
    <3> QED BY <3>1, FS_Interval
  <2>2. wide \subseteq 1..Len(x)
    BY <1>1
  <2>3. IsFiniteSet(wide)
    BY <2>1, <2>2, FS_Subset
  <2>4. \E y : wide = {y}
    BY <1>2, <2>3, FS_Singleton
  <2> QED BY <1>3, <2>4
<1>5. BroadcastSizes(p, run, t)
  BY RunFacts
<1>6. \A j \in DOMAIN x : SizeAt(p, run, x[j], k, n) \in {1, Size(run, t, k)}
  BY <1>5 DEF BroadcastSizes
<1>7. PICK j \in DOMAIN x : SizeAt(p, run, x[j], k, n) = Size(run, t, k)
  BY <1>5 DEF BroadcastSizes
<1>8. SizeAt(p, run, x[i], k, n) = Size(run, t, k)
  <2>1. CASE j = i
    BY <1>7, <2>1
  <2>2. CASE j # i
    <3>1. LiteralOne(p, x[j], k, n)
      BY <1>4, <2>2
    <3>2. x[j] \in DOMAIN p /\ Rank(p, x[j]) <= n
      BY <1>1
    <3>3. SizeAt(p, run, x[j], k, n) = 1
      BY <1>1, <3>1, <3>2, LiteralOneIsOne
    <3> QED BY <1>3, <1>6, <1>7, <3>3
  <2> QED BY <2>1, <2>2
<1>9. Aligned(p, x[i], k, n) \in 1..Rank(p, x[i])
  BY <1>3 DEF IsUnknown
<1>10. Size(run, x[i], Aligned(p, x[i], k, n)) = Size(run, t, k)
  BY <1>1, <1>3, <1>8, <1>9 DEF SizeAt
<1>11. i \in 1..Len(p[t].ins)
  BY <1>1, <1>3
<1> HIDE DEF wide
<1> QED BY <1>1, <1>3, <1>9, <1>10, <1>11, OperandHolds

LEMMA MatMulHelperHolds ==
  ASSUME NEW p, NEW run, Good(p, run), NEW t \in DOMAIN p, p[t].op = "matmul",
         NEW k \in 1..Rank(p, t), NEW d \in MatMulHelper(p, t, k), IsUnknown(p, d[1], d[2])
  PROVE  Same(p, run, d, <<t, k>>)
<1> DEFINE a == p[t].ins[1]
           b == p[t].ins[2]
           n == Rank(p, t)
<1>1. /\ n \in Nat /\ Len(p[t].ins) = 2 /\ ~p[t].elem /\ a \in DOMAIN p /\ b \in DOMAIN p
      /\ Rank(p, a) \in 2..n /\ Rank(p, b) \in 2..n
  <2>1. Len(p[t].ins) = 2 /\ ~p[t].elem /\ \A i \in 1..2 : Rank(p, p[t].ins[i]) \in 2..n
    BY TypedFacts
  <2>2. n \in Nat /\ \A i \in 1..2 : p[t].ins[i] \in DOMAIN p
    BY <2>1, OperandFacts
  <2> QED BY <2>1, <2>2
<1>2. /\ Size(run, t, n - 1) = Size(run, a, Rank(p, a) - 1)
      /\ Size(run, t, n) = Size(run, b, Rank(p, b))
      /\ \A j \in 1..(n - 2) :
           /\ \A i \in 1..2 : SizeAt(p, run, p[t].ins[i], j, n) \in {1, Size(run, t, j)}
           /\ \E i \in 1..2 : SizeAt(p, run, p[t].ins[i], j, n) = Size(run, t, j)
  BY RunFacts DEF MatMulSizes
<1>3. \A j \in 1..(n - 2) :
        ~LiteralOne(p, a, j, n) => SizeAt(p, run, a, j, n) = Size(run, t, j)
  BY DEF Good, Plain
<1>4. \A j \in 1..(n - 2) :
        /\ SizeAt(p, run, a, j, n) \in {1, Size(run, t, j)}
        /\ SizeAt(p, run, b, j, n) \in {1, Size(run, t, j)}
        /\ SizeAt(p, run, a, j, n) = Size(run, t, j) \/ SizeAt(p, run, b, j, n) = Size(run, t, j)
  BY <1>2
<1>5. \/ d = <<a, Aligned(p, a, k, n)>> /\ k # n /\ (k = n - 1 \/ ~LiteralOne(p, a, k, n))
      \/ d = <<b, Aligned(p, b, k, n)>> /\ (k = n \/ (k < n - 1 /\ LiteralOne(p, a, k, n)))
  <2>1. CASE k = n \/ (k < n - 1 /\ LiteralOne(p, a, k, n))
    <3>1. MatMulHelper(p, t, k) = {<<b, Aligned(p, b, k, n)>>}
      BY <2>1 DEF MatMulHelper
    <3> QED BY <2>1, <3>1
  <2>2. CASE ~(k = n \/ (k < n - 1 /\ LiteralOne(p, a, k, n)))
    <3>1. MatMulHelper(p, t, k) \subseteq {<<a, Aligned(p, a, k, n)>>}
      BY <2>2 DEF MatMulHelper
    <3>2. k # n /\ (k = n - 1 \/ ~LiteralOne(p, a, k, n))
      BY <1>1, <2>2
    <3> QED BY <3>1, <3>2
  <2> QED BY <2>1, <2>2
<1>6. 1 \in 1..Len(p[t].ins) /\ 2 \in 1..Len(p[t].ins)
  BY <1>1
<1>7. CASE d = <<a, Aligned(p, a, k, n)>> /\ k # n /\ (k = n - 1 \/ ~LiteralOne(p, a, k, n))
  <2>1. Aligned(p, a, k, n) \in 1..Rank(p, a)
    BY <1>7 DEF IsUnknown
  <2>2. Size(run, a, Aligned(p, a, k, n)) = Size(run, t, k)
    <3>1. CASE k = n - 1
      <4>1. Aligned(p, a, k, n) = Rank(p, a) - 1
        BY <1>1, <3>1 DEF Aligned
      <4> QED BY <1>2, <3>1, <4>1
    <3>2. CASE k # n - 1
      <4>1. k \in 1..(n - 2) /\ ~LiteralOne(p, a, k, n)
        BY <1>1, <1>7, <3>2
      <4>2. SizeAt(p, run, a, k, n) = Size(run, t, k)
        BY <1>3, <4>1
      <4>3. ~(Aligned(p, a, k, n) < 1)
        BY <1>1, <2>1
      <4> QED BY <4>2, <4>3 DEF SizeAt
    <3> QED BY <3>1, <3>2
  <2> QED BY <1>1, <1>6, <1>7, <2>1, <2>2, OperandHolds
<1>8. CASE d = <<b, Aligned(p, b, k, n)>> /\ (k = n \/ (k < n - 1 /\ LiteralOne(p, a, k, n)))
  <2>1. Aligned(p, b, k, n) \in 1..Rank(p, b)
    BY <1>8 DEF IsUnknown
  <2>2. Size(run, b, Aligned(p, b, k, n)) = Size(run, t, k)
    <3>1. CASE k = n
      <4>1. Aligned(p, b, k, n) = Rank(p, b)
        BY <1>1, <3>1 DEF Aligned
      <4> QED BY <1>2, <3>1, <4>1
    <3>2. CASE k # n
      <4>1. k \in 1..(n - 2) /\ LiteralOne(p, a, k, n)
        BY <1>1, <1>8, <3>2
      <4>2. SizeAt(p, run, a, k, n) = 1
        BY <1>1, <4>1, LiteralOneIsOne
      <4>3. SizeAt(p, run, b, k, n) = Size(run, t, k)
        BY <1>4, <4>1, <4>2
      <4>4. ~(Aligned(p, b, k, n) < 1)
        BY <1>1, <2>1
      <4> QED BY <4>3, <4>4 DEF SizeAt
    <3> QED BY <3>1, <3>2
  <2> QED BY <1>1, <1>6, <1>8, <2>1, <2>2, OperandHolds
<1> QED BY <1>5, <1>7, <1>8

LEMMA GruHelperHolds ==
  ASSUME NEW p, NEW run, Good(p, run), NEW t \in DOMAIN p, p[t].op = "gru",
         NEW k \in 1..Rank(p, t), NEW d \in GruHelper(p, t, k)
  PROVE  \E j \in 1..3 :
           d = <<p[t].ins[1], j>> /\ Size(run, p[t].ins[1], j) = Size(run, t, k)
<1>1. p[t].attr \in {0, 1} /\ k \in 1..4
  BY TypedFacts
<1>2. GruSizes(p, run, t)
  BY RunFacts
<1>3. CASE p[t].attr = 0
  <2>1. d = <<p[t].ins[1], <<1, 0, 2, 0>>[k]>> /\ <<1, 0, 2, 0>>[k] # 0
    BY <1>3 DEF GruHelper
  <2>2. /\ Size(run, t, 1) = Size(run, p[t].ins[1], 1)
        /\ Size(run, t, 3) = Size(run, p[t].ins[1], 2)
    BY <1>2, <1>3 DEF GruSizes, Size
  <2> QED BY <1>1, <2>1, <2>2
<1>4. CASE p[t].attr = 1
  <2>1. d = <<p[t].ins[1], <<1, 2, 0, 0>>[k]>> /\ <<1, 2, 0, 0>>[k] # 0
    BY <1>4 DEF GruHelper
  <2>2. /\ Size(run, t, 1) = Size(run, p[t].ins[1], 1)
        /\ Size(run, t, 2) = Size(run, p[t].ins[1], 2)
    BY <1>2, <1>4 DEF GruSizes, Size
  <2> QED BY <1>1, <2>1, <2>2
<1> QED BY <1>1, <1>3, <1>4

(* An element that is the constant v contains v. *)
LEMMA ConstantHolds ==
  ASSUME NEW p, NEW run, Good(p, run), NEW t \in DOMAIN p, NEW v, IsConstant(p, t, v)
  PROVE  run.elem[t] = v
BY RunFacts DEF IsConstant

(***************************************************************************)
(* Reshape. Its input and its output have the same number of elements.      *)
(***************************************************************************)
LEMMA ReshapeFacts ==
  ASSUME NEW p, NEW run, Good(p, run), NEW t \in DOMAIN p, p[t].op = "reshape"
  PROVE  LET x == p[t].ins[1]
         IN /\ Len(p[t].ins) = 1 /\ x \in DOMAIN p /\ ~p[x].elem /\ ~p[t].elem
            /\ \A k \in 1..Rank(p, t) : p[t].shape[k] \in DOMAIN p
            /\ Positive(run.size[x], Rank(p, x)) /\ Positive(run.size[t], Rank(p, t))
            /\ Product(run.size[x], Rank(p, x)) = Product(run.size[t], Rank(p, t))
            /\ \A k \in 1..Rank(p, t) :
                 LET wanted == run.elem[p[t].shape[k]]
                 IN /\ wanted = 0 => Size(run, t, k) = Size(run, x, k)
                    /\ wanted > 0 => Size(run, t, k) = wanted
<1> DEFINE x == p[t].ins[1]
<1>1. Len(p[t].ins) = 1 /\ Len(p[t].shape) = Rank(p, t) /\ ~p[t].elem
  BY TypedFacts
<1>2. x \in DOMAIN p /\ ~p[x].elem /\ \A k \in 1..Rank(p, t) : p[t].shape[k] \in DOMAIN p
  BY <1>1, OperandFacts
<1>3. \A u \in DOMAIN p : Len(run.size[u]) = Rank(p, u) /\ Positive(run.size[u], Rank(p, u))
  <2> SUFFICES ASSUME NEW u \in DOMAIN p
               PROVE  Len(run.size[u]) = Rank(p, u) /\ Positive(run.size[u], Rank(p, u))
    OBVIOUS
  <2>1. Len(run.size[u]) = Rank(p, u)
    BY DEF Good, RunOf
  <2>2. Rank(p, u) \in Nat /\ \A k \in 1..Rank(p, u) : run.size[u][k] \in Nat \ {0}
    BY OperandFacts DEF Size
  <2> QED BY <2>1, <2>2 DEF Positive
<1>4. ReshapeSizes(p, run, t)
  BY RunFacts
<1>5. Product(run.size[x], Rank(p, x)) = Product(run.size[t], Rank(p, t))
  BY <1>2, <1>3, <1>4 DEF ReshapeSizes, Elements
<1>6. ASSUME NEW k \in 1..Rank(p, t)
      PROVE  /\ run.elem[p[t].shape[k]] = 0 => Size(run, t, k) = Size(run, x, k)
             /\ run.elem[p[t].shape[k]] > 0 => Size(run, t, k) = run.elem[p[t].shape[k]]
  BY <1>4 DEF ReshapeSizes
<1> QED BY <1>1, <1>2, <1>3, <1>5, <1>6

(* A dimension that the shape repeats, of the data or, when the data is the *)
(* product of a tensor with a matrix, of that tensor.                      *)
LEMMA RepeatFacts ==
  ASSUME NEW p, NEW run, Good(p, run), NEW t \in DOMAIN p, p[t].op = "reshape",
         IsBijective(p, t), NEW i \in Repeats(p, t)
  PROVE  LET x == p[t].ins[1]
             axis == p[p[t].shape[i]].attr
         IN /\ i \in 1..Rank(p, t)
            /\ axis \in 1..Rank(p, x)
            /\ Size(run, t, i) = Size(run, x, axis)
<1> DEFINE x == p[t].ins[1]
           s == p[t].shape[i]
           axis == p[s].attr
           ref == RefData(p, x)
<1>1. x \in DOMAIN p /\ Rank(p, x) \in Nat
  <2>1. x \in DOMAIN p
    BY ReshapeFacts
  <2> QED BY <2>1, OperandFacts
<1>2. i \in 1..Rank(p, t) /\ s \in DOMAIN p
  <2>1. Len(p[t].shape) = Rank(p, t)
    BY TypedFacts
  <2>2. i \in 1..Len(p[t].shape)
    BY OperandFacts DEF Repeats
  <2> QED BY <2>1, <2>2, ReshapeFacts
<1>3. p[s].op = "dim" /\ p[s].ins[1] = ref
  BY DEF Repeats
<1>4. Len(p[s].ins) = 1 /\ axis \in 1..Rank(p, ref)
  BY <1>2, <1>3, TypedFacts
<1>5. ref \in DOMAIN p
  <2>1. 1 \in 1..Len(p[s].ins)
    BY <1>4
  <2>2. p[s].ins[1] \in DOMAIN p
    BY <1>2, <2>1, OperandFacts
  <2> QED BY <1>3, <2>2
<1>6. run.elem[s] = Size(run, ref, axis) /\ Size(run, ref, axis) \in Nat \ {0}
  <2>1. run.elem[s] = Size(run, p[s].ins[1], p[s].attr)
    BY <1>2, <1>3, RunFacts
  <2>2. Size(run, ref, axis) \in Nat \ {0}
    BY <1>4, <1>5, OperandFacts
  <2> QED BY <1>3, <2>1, <2>2
<1>7. Size(run, t, i) = Size(run, ref, axis)
  <2>1. run.elem[s] > 0
    BY <1>6
  <2> QED BY <1>2, <1>6, <2>1, ReshapeFacts
<1>8. axis \in 1..Rank(p, x) /\ Size(run, ref, axis) = Size(run, x, axis)
  <2>1. CASE ref = x
    BY <1>4, <2>1
  <2>2. CASE ref # x
    <3> DEFINE n == Rank(p, x)
               b == p[x].ins[2]
    <3>1. p[x].op = "matmul" /\ Rank(p, b) = 2 /\ ref = p[x].ins[1]
      BY <2>2 DEF RefData
    <3>2. /\ Len(p[x].ins) = 2
          /\ \A l \in 1..2 : Rank(p, p[x].ins[l]) \in 2..n
          /\ \E l \in 1..2 : Rank(p, p[x].ins[l]) = n
      BY <1>1, <3>1, TypedFacts
    <3>3. 2 \in 1..Len(p[x].ins)
      BY <3>2
    <3>4. Rank(p, ref) = n
      BY <1>1, <3>1, <3>2
    <3>5. axis # n
      BY <2>2, <3>4 DEF IsBijective
    <3>6. /\ Size(run, x, n - 1) = Size(run, ref, Rank(p, ref) - 1)
          /\ \A k \in 1..(n - 2) :
               /\ \A l \in 1..2 : SizeAt(p, run, p[x].ins[l], k, n) \in {1, Size(run, x, k)}
               /\ \E l \in 1..2 : SizeAt(p, run, p[x].ins[l], k, n) = Size(run, x, k)
      BY <1>1, <3>1, RunFacts DEF MatMulSizes
    <3>7. CASE axis = n - 1
      BY <1>1, <1>4, <3>4, <3>6, <3>7
    <3>8. CASE axis # n - 1
      <4>1. axis \in 1..(n - 2)
        BY <1>1, <1>4, <3>4, <3>5, <3>8
      <4>2. SizeAt(p, run, b, axis, n) = 1
        BY <1>1, <3>1, <4>1 DEF SizeAt, Aligned
      <4>3. Aligned(p, ref, axis, n) = axis
        BY <1>1, <3>4, <4>1 DEF Aligned
      <4>4. SizeAt(p, run, ref, axis, n) = Size(run, ref, axis)
        BY <4>1, <4>3 DEF SizeAt
      <4>5. /\ SizeAt(p, run, ref, axis, n) \in {1, Size(run, x, axis)}
            /\ \/ SizeAt(p, run, ref, axis, n) = Size(run, x, axis)
               \/ SizeAt(p, run, b, axis, n) = Size(run, x, axis)
        BY <3>1, <3>6, <4>1
      <4> QED BY <1>4, <3>4, <4>2, <4>4, <4>5
    <3> QED BY <3>7, <3>8
  <2> QED BY <2>1, <2>2
<1> QED BY <1>2, <1>7, <1>8

(* The dimension at -1 is what the repeated ones leave of the data.         *)
LEMMA ReshapeHelperHolds ==
  ASSUME NEW p, NEW run, Good(p, run), NEW t \in DOMAIN p, p[t].op = "reshape",
         NEW k \in 1..Rank(p, t), NEW d \in ReshapeHelper(p, t, k), IsUnknown(p, d[1], d[2])
  PROVE  \E j \in 1..Rank(p, p[t].ins[1]) :
           d = <<p[t].ins[1], j>> /\ Size(run, p[t].ins[1], j) = Size(run, t, k)
<1> DEFINE x == p[t].ins[1]
           ignored == IF IsBijective(p, t) THEN Repeats(p, t) ELSE {}
           axis == [i \in ignored |-> p[p[t].shape[i]].attr]
           left == (1..Rank(p, x)) \ {p[p[t].shape[i]].attr : i \in ignored}
           wide == {j \in left : p[x].dims[j] # 1}
           copies(i) == IsConstant(p, p[t].shape[i], 0) /\ p[t].attr = 0 /\ i <= Rank(p, x)
           one(i) == IsConstant(p, p[t].shape[i], 1) \/ (copies(i) /\ p[x].dims[i] = 1)
<1>1. /\ x \in DOMAIN p /\ \A i \in 1..Rank(p, t) : p[t].shape[i] \in DOMAIN p
      /\ \A i \in 1..Rank(p, t) : run.elem[p[t].shape[i]] = 0 => Size(run, t, i) = Size(run, x, i)
      /\ \A i \in 1..Rank(p, t) :
           run.elem[p[t].shape[i]] > 0 => Size(run, t, i) = run.elem[p[t].shape[i]]
  BY ReshapeFacts
<1>2. Rank(p, x) \in Nat /\ Rank(p, t) \in Nat /\ \A j \in 1..Rank(p, x) : p[x].dims[j] = 1 => Size(run, x, j) = 1
  <2>1. \A j \in 1..Rank(p, x) : p[x].dims[j] = 1 => ~IsUnknown(p, x, j)
    BY DEF IsUnknown, Unknown
  <2> QED BY <1>1, <2>1, OperandFacts, RunFacts
<1>3. \A i \in 1..Rank(p, t) : copies(i) => Size(run, t, i) = Size(run, x, i) /\ i \in 1..Rank(p, x)
  <2> SUFFICES ASSUME NEW i \in 1..Rank(p, t), copies(i)
               PROVE  Size(run, t, i) = Size(run, x, i) /\ i \in 1..Rank(p, x)
    OBVIOUS
  <2>1. run.elem[p[t].shape[i]] = 0
    BY <1>1, ConstantHolds
  <2> QED BY <1>1, <1>2, <2>1
<1>4. \A i \in 1..Rank(p, t) : one(i) => Size(run, t, i) = 1
  <2> SUFFICES ASSUME NEW i \in 1..Rank(p, t), one(i)
               PROVE  Size(run, t, i) = 1
    OBVIOUS
  <2>1. CASE IsConstant(p, p[t].shape[i], 1)
    <3>1. run.elem[p[t].shape[i]] = 1
      BY <1>1, <2>1, ConstantHolds
    <3> QED BY <1>1, <3>1
  <2>2. CASE copies(i) /\ p[x].dims[i] = 1
    BY <1>2, <1>3, <2>2
  <2> QED BY <2>1, <2>2
<1>5. CASE copies(k)
  <2>1. d = <<x, k>>
    BY <1>5 DEF ReshapeHelper, IsConstant
  <2> QED BY <1>3, <1>5, <2>1
<1>6. CASE ~copies(k)
  <2>1. /\ IsConstant(p, p[t].shape[k], -1)
        /\ Cardinality(wide) = 1
        /\ \A i \in (1..Rank(p, t)) \ (ignored \cup {k}) : one(i)
        /\ d \in {<<x, j>> : j \in wide}
    BY <1>6 DEF ReshapeHelper
  <2>2. PICK j \in wide : d = <<x, j>>
    BY <2>1
  <2>3. wide = {j}
    <3>1. wide \subseteq 1..Rank(p, x) /\ IsFiniteSet(1..Rank(p, x))
      <4>1. 1 \in Int /\ Rank(p, x) \in Int
        BY <1>2
      <4> QED BY <4>1, FS_Interval
    <3>2. IsFiniteSet(wide)
      BY <3>1, FS_Subset
    <3>3. \E y : wide = {y}
      BY <2>1, <3>2, FS_Singleton
    <3> QED BY <2>2, <3>3
  <2>4. k \notin ignored
    BY <2>1 DEF Repeats, IsConstant
  <2>5. \A i \in ignored : i \in 1..Rank(p, t) /\ axis[i] \in 1..Rank(p, x) /\ Size(run, t, i) = Size(run, x, axis[i])
    BY RepeatFacts
  <2>6. \A h, i \in ignored : axis[h] = axis[i] => h = i
    BY DEF IsBijective
  <2>7. j \in 1..Rank(p, x) /\ \A i \in ignored : axis[i] # j
    BY <2>2
  <2>8. ASSUME NEW l \in 1..Rank(p, x)
        PROVE  l = j \/ Size(run, x, l) = 1 \/ \E i \in ignored : axis[i] = l
    <3>1. CASE l \in left
      <4>1. l = j \/ p[x].dims[l] = 1
        BY <2>3, <3>1
      <4> QED BY <1>2, <4>1
    <3>2. CASE l \notin left
      BY <3>2
    <3> QED BY <3>1, <3>2
  <2>9. \A i \in (1..Rank(p, t)) \ ignored : i = k \/ Size(run, t, i) = 1
    BY <1>4, <2>1
  <2>10. /\ Positive(run.size[x], Rank(p, x)) /\ Positive(run.size[t], Rank(p, t))
         /\ Product(run.size[x], Rank(p, x)) = Product(run.size[t], Rank(p, t))
    BY ReshapeFacts
  <2> HIDE DEF ignored, axis, left, wide
  <2>11. ignored \in SUBSET (1..Rank(p, t)) /\ k \in (1..Rank(p, t)) \ ignored
    BY <2>4, <2>5
  <2>12. LeftOver(run.size[x], Rank(p, x), run.size[t], Rank(p, t), ignored, axis, j, k)
    BY <2>5, <2>6, <2>7, <2>8, <2>9, <2>10, <2>11 DEF Size, LeftOver
  <2>13. run.size[x][j] = run.size[t][k]
    BY <2>12, SplitOff
  <2> QED BY <2>2, <2>7, <2>13 DEF Size
<1> QED BY <1>5, <1>6

(***************************************************************************)
(* exploreSameDimsUsingShapeHelper finds dimensions of the same size.       *)
(***************************************************************************)
LEMMA HelperHolds ==
  ASSUME NEW p, NEW run, Good(p, run), NEW t \in DOMAIN p, ~p[t].elem,
         NEW k \in 1..Rank(p, t), NEW d \in FromHelper(p, t, k)
  PROVE  Same(p, run, d, <<t, k>>)
<1> DEFINE x == p[t].ins[1]
<1>1. d \in HelperDims(p, t, k) /\ IsUnknown(p, d[1], d[2])
  BY DEF FromHelper
<1>2. d[2] \in 1..Rank(p, d[1])
  BY <1>1 DEF IsUnknown
<1>3. Rank(p, t) \in Nat
  BY OperandFacts
<1>4. ASSUME Len(p[t].ins) \in Nat, Len(p[t].ins) >= 1, NEW j, d = <<x, j>>,
             Size(run, x, j) = Size(run, t, k)
      PROVE  Same(p, run, d, <<t, k>>)
  <2>1. 1 \in 1..Len(p[t].ins) /\ j \in 1..Rank(p, x)
    BY <1>2, <1>4
  <2> QED BY <1>4, <2>1, OperandHolds
<1>5. CASE p[t].op = "transpose"
  <2>1. d = <<x, p[t].attrs[k]>>
    BY <1>1, <1>5 DEF HelperDims
  <2>2. Len(p[t].ins) = 1 /\ Size(run, x, p[t].attrs[k]) = Size(run, t, k)
    BY <1>5, TypedFacts, RunFacts
  <2> QED BY <1>4, <2>1, <2>2
<1>6. CASE p[t].op = "broadcast"
  <2>1. d \in BroadcastHelper(p, t, k)
    BY <1>1, <1>6 DEF HelperDims
  <2> QED BY <1>1, <1>6, <2>1, BroadcastHelperHolds
<1>7. CASE p[t].op = "matmul"
  <2>1. d \in MatMulHelper(p, t, k)
    BY <1>1, <1>7 DEF HelperDims
  <2> QED BY <1>1, <1>7, <2>1, MatMulHelperHolds
<1>8. CASE p[t].op = "gemm"
  <2>1. d = IF k = 1 THEN <<x, 1 + p[t].attrs[1]>> ELSE <<p[t].ins[2], 2 - p[t].attrs[2]>>
    BY <1>1, <1>8 DEF HelperDims, GemmHelper
  <2>2. Len(p[t].ins) = 2 /\ Rank(p, t) = 2
    BY <1>8, TypedFacts
  <2>3. /\ Size(run, t, 1) = Size(run, x, 1 + p[t].attrs[1])
        /\ Size(run, t, 2) = Size(run, p[t].ins[2], 2 - p[t].attrs[2])
    BY <1>8, RunFacts DEF GemmSizes, Size
  <2>4. CASE k = 1
    BY <1>4, <2>1, <2>2, <2>3, <2>4
  <2>5. CASE k = 2
    <3>1. 2 \in 1..Len(p[t].ins) /\ d = <<p[t].ins[2], 2 - p[t].attrs[2]>>
      BY <2>1, <2>2, <2>5
    <3>2. 2 - p[t].attrs[2] \in 1..Rank(p, p[t].ins[2])
      BY <1>2, <3>1
    <3> QED BY <2>3, <2>5, <3>1, <3>2, OperandHolds
  <2> QED BY <2>2, <2>4, <2>5
<1>9. CASE p[t].op = "concat"
  <2>1. d = <<x, k>> /\ k # p[t].attr
    BY <1>1, <1>9 DEF HelperDims, ConcatHelper
  <2>2. /\ Len(p[t].ins) \in Nat /\ Len(p[t].ins) >= 1
        /\ DOMAIN p[t].ins = 1..Len(p[t].ins)
    BY <1>9, OperandFacts, TypedFacts
  <2>3. ConcatSizes(p, run, t)
    BY <1>9, RunFacts
  <2>4. 1 \in DOMAIN p[t].ins
    BY <2>2
  <2>5. Size(run, x, k) = Size(run, t, k)
    BY <2>1, <2>3, <2>4 DEF ConcatSizes
  <2> QED BY <1>4, <2>1, <2>2, <2>5
<1>10. CASE p[t].op = "gru"
  <2>1. d \in GruHelper(p, t, k)
    BY <1>1, <1>10 DEF HelperDims
  <2>2. PICK j \in 1..3 : d = <<x, j>> /\ Size(run, x, j) = Size(run, t, k)
    BY <1>10, <2>1, GruHelperHolds
  <2>3. Len(p[t].ins) = 3
    BY <1>10, TypedFacts
  <2> QED BY <1>4, <2>2, <2>3
<1>11. CASE p[t].op \in {"expand", "tile"}
  <2>1. Len(p[t].ins) = 1 /\ Len(p[t].shape) = Rank(p, t)
    BY <1>11, TypedFacts
  <2>2. p[t].shape[k] \in DOMAIN p
    BY <2>1, OperandFacts
  <2>3. CASE p[t].op = "expand"
    <3>1. /\ IsConstant(p, p[t].shape[k], 1)
          /\ d = <<x, Aligned(p, x, k, Rank(p, t))>>
      BY <1>1, <2>3 DEF HelperDims
    <3>2. run.elem[p[t].shape[k]] = 1
      BY <2>2, <3>1, ConstantHolds
    <3>3. ExpandSizes(p, run, t)
      BY <2>3, RunFacts
    <3>4. SizeAt(p, run, x, k, Rank(p, t)) = Size(run, t, k)
      BY <3>2, <3>3 DEF ExpandSizes
    <3>5. x \in DOMAIN p /\ Rank(p, x) \in Nat
      <4>1. x \in DOMAIN p
        BY <2>1, OperandFacts
      <4> QED BY <4>1, OperandFacts
    <3>6. ~(Aligned(p, x, k, Rank(p, t)) < 1)
      BY <1>2, <3>1, <3>5
    <3>7. Size(run, x, Aligned(p, x, k, Rank(p, t))) = Size(run, t, k)
      BY <3>4, <3>6 DEF SizeAt
    <3> QED BY <1>4, <2>1, <3>1, <3>7
  <2>4. CASE p[t].op = "tile"
    <3>1. IsConstant(p, p[t].shape[k], 1) /\ d = <<x, k>>
      BY <1>1, <2>4 DEF HelperDims
    <3>2. run.elem[p[t].shape[k]] = 1
      BY <2>2, <3>1, ConstantHolds
    <3>3. Size(run, t, k) = Size(run, x, k) * 1
      BY <2>4, <3>2, RunFacts
    <3>4. Size(run, x, k) \in Nat
      <4>1. x \in DOMAIN p
        BY <2>1, OperandFacts
      <4> QED BY <1>2, <3>1, <4>1, OperandFacts
    <3>5. Size(run, x, k) = Size(run, t, k)
      BY <3>3, <3>4
    <3> QED BY <1>4, <2>1, <3>1, <3>5
  <2> QED BY <1>11, <2>3, <2>4
<1>12. CASE p[t].op = "reshape"
  <2>1. d \in ReshapeHelper(p, t, k)
    BY <1>1, <1>12 DEF HelperDims
  <2>2. PICK j \in 1..Rank(p, x) : d = <<x, j>> /\ Size(run, x, j) = Size(run, t, k)
    BY <1>1, <1>12, <2>1, ReshapeHelperHolds
  <2>3. Len(p[t].ins) = 1
    BY <1>12, TypedFacts
  <2> QED BY <1>4, <2>2, <2>3
<1> QED BY <1>1, <1>5, <1>6, <1>7, <1>8, <1>9, <1>10, <1>11, <1>12 DEF HelperDims

(***************************************************************************)
(* exploreSameDimsUsingShapeInput finds elements that contain the size.     *)
(***************************************************************************)
LEMMA ShapeInputHolds ==
  ASSUME NEW p, NEW run, Good(p, run), NEW t \in DOMAIN p, ~p[t].elem,
         NEW k \in 1..Rank(p, t), NEW d \in FromShapeInput(p, t, k)
  PROVE  Same(p, run, d, <<t, k>>)
<1>1. PICK i \in ShapeElements(p, t, k) : d \in Useful(p, p[t].shape[i], i)
  BY DEF FromShapeInput
<1>2. Rank(p, t) \in Nat /\ DOMAIN p[t].attrs = 1..Len(p[t].attrs)
  BY OperandFacts
<1>4. /\ i \in 1..Len(p[t].shape)
      /\ p[p[t].shape[i]].op = "constant" \/ run.elem[p[t].shape[i]] = Size(run, t, k)
  <2>1. CASE p[t].op = "constantOfShape"
    <3>1. i = k
      BY <1>1, <2>1 DEF ShapeElements
    <3> QED BY <2>1, <3>1, TypedFacts, RunFacts
  <2>2. CASE p[t].op = "expand"
    <3>1. i = k
      BY <1>1, <2>2 DEF ShapeElements
    <3>2. Plain(p, run, t)
      BY DEF Good
    <3> QED BY <2>2, <3>1, <3>2, TypedFacts DEF Plain
  <2>3. CASE p[t].op = "centerCropPad"
    <3>1. i \in DOMAIN p[t].attrs /\ p[t].attrs[i] = k
      BY <1>1, <2>3 DEF ShapeElements
    <3>2. CropSizes(p, run, t) /\ Len(p[t].shape) = Len(p[t].attrs)
      BY <2>3, TypedFacts, RunFacts
    <3>3. k \in Range(p[t].attrs)
      BY <3>1 DEF Range
    <3>4. Size(run, t, k) = run.elem[p[t].shape[i]]
      BY <3>1, <3>2, <3>3 DEF CropSizes
    <3> QED BY <1>2, <3>1, <3>2, <3>4
  <2>4. CASE p[t].op = "tile"
    <3>1. i = k /\ p[p[t].ins[1]].dims[k] = 1
      BY <1>1, <2>4 DEF ShapeElements
    <3>2. Len(p[t].shape) = Rank(p, t) /\ Len(p[t].ins) = 1 /\ Rank(p, p[t].ins[1]) = Rank(p, t)
      BY <2>4, TypedFacts
    <3>3. p[t].ins[1] \in DOMAIN p
      BY <3>2, OperandFacts
    <3>4. Size(run, p[t].ins[1], k) = 1
      <4>1. ~IsUnknown(p, p[t].ins[1], k)
        BY <3>1 DEF IsUnknown, Unknown
      <4> QED BY <3>1, <3>2, <3>3, <4>1, RunFacts
    <3>5. Size(run, t, k) = 1 * run.elem[p[t].shape[k]]
      BY <2>4, <3>4, RunFacts
    <3>6. run.elem[p[t].shape[k]] \in Int
      <4>1. p[t].shape[k] \in DOMAIN p
        BY <3>2, OperandFacts
      <4> QED BY <4>1 DEF Good, RunOf
    <3> QED BY <3>1, <3>2, <3>5, <3>6
  <2>5. CASE p[t].op = "reshape"
    <3>1. i = k
      BY <1>1, <2>5 DEF ShapeElements
    <3>2. Plain(p, run, t)
      BY DEF Good
    <3> QED BY <2>5, <3>1, <3>2, TypedFacts DEF Plain
  <2> QED BY <1>1, <2>1, <2>2, <2>3, <2>4, <2>5 DEF ShapeElements
<1>5. p[t].shape[i] \in DOMAIN p /\ p[p[t].shape[i]].elem
  BY <1>4, OperandFacts
<1>6. Len(p[t].shape) \in Nat
  BY OperandFacts
<1>7. DimOK(p, <<p[t].shape[i], i>>)
  BY <1>4, <1>5, <1>6 DEF DimOK
<1>8. Same(p, run, d, <<p[t].shape[i], i>>)
  BY <1>1, <1>7, UsefulHolds
<1>9. p[p[t].shape[i]].op # "constant"
  BY <1>1 DEF Useful
<1> QED BY <1>4, <1>5, <1>8, <1>9 DEF Same, ValueOf

LEMMA MaxOfTwo ==
  ASSUME NEW a \in Nat, NEW b \in Nat
  PROVE  Max({a, b}) \in {a, b} /\ Max({a, b}) >= a /\ Max({a, b}) >= b
<1>1. \E m \in {a, b} : \A y \in {a, b} : m >= y
  <2>1. CASE a >= b
    BY <2>1
  <2>2. CASE ~(a >= b)
    BY <2>2
  <2> QED BY <2>1, <2>2
<1>2. Max({a, b}) \in {a, b} /\ \A y \in {a, b} : Max({a, b}) >= y
  BY <1>1 DEF Max
<1> QED BY <1>2

\* The groups found so far hold together.
SoundGroups(p, run, groups) == \A g \in groups : \A d, e \in g : Same(p, run, d, e)

LEMMA SameDimHolds ==
  ASSUME NEW p, NEW run, Good(p, run), NEW groups, SoundGroups(p, run, groups),
         NEW a \in DOMAIN p, NEW b \in DOMAIN p, ~p[a].elem, ~p[b].elem,
         NEW k \in 1..Rank(p, a), NEW l \in 1..Rank(p, b), SameDim(p, groups, a, k, b, l)
  PROVE  Size(run, a, k) = Size(run, b, l)
<1>1. CASE a = b /\ k = l
  BY <1>1
<1>2. CASE p[a].dims[k] = p[b].dims[l] /\ p[a].dims[k] # Unknown
  <2>1. ~IsUnknown(p, a, k) /\ ~IsUnknown(p, b, l)
    BY <1>2 DEF IsUnknown
  <2> QED BY <1>2, <2>1, RunFacts
<1>3. CASE \E g \in groups : {<<a, k>>, <<b, l>>} \subseteq g
  <2>1. Same(p, run, <<a, k>>, <<b, l>>)
    BY <1>3 DEF SoundGroups
  <2> QED BY <2>1 DEF Same, ValueOf
<1> QED BY <1>1, <1>2, <1>3 DEF SameDim

(***************************************************************************)
(* Operands whose dimensions are the same have the size of the output: one  *)
(* of two does, and the dimension of a third is that of all.                *)
(***************************************************************************)
LEMMA EqualOperandsHold ==
  ASSUME NEW p, NEW run, Good(p, run), NEW groups, SoundGroups(p, run, groups),
         NEW t \in DOMAIN p, p[t].op \in {"broadcast", "matmul"},
         NEW k \in 1..Rank(p, t), NEW d \in EqualOperands(p, groups, t, k)
  PROVE  Same(p, run, d, <<t, k>>)
<1> DEFINE x == p[t].ins
           n == Rank(p, t)
<1>1. PICK i \in DOMAIN x : \E j \in {l \in DOMAIN x : i < l /\ SameAt(p, groups, t, k, i, l)} :
        d \in Useful(p, x[i], Rank(p, x[i]) + CountedBack(p, t, k, i, j) + 1)
  BY DEF EqualOperands
<1>2. PICK j \in DOMAIN x :
        /\ i < j /\ SameAt(p, groups, t, k, i, j)
        /\ d \in Useful(p, x[i], Rank(p, x[i]) + CountedBack(p, t, k, i, j) + 1)
  BY <1>1
<1>3. /\ n \in Nat /\ Len(x) \in Nat /\ DOMAIN x = 1..Len(x) /\ ~p[t].elem
      /\ \A m \in DOMAIN x : x[m] \in DOMAIN p /\ ~p[x[m]].elem
  <2>1. n \in Nat /\ Len(x) \in Nat /\ DOMAIN x = 1..Len(x)
    BY OperandFacts
  <2>2. ~p[t].elem
    BY TypedFacts
  <2>3. \A m \in 1..Len(x) : x[m] \in DOMAIN p /\ ~p[x[m]].elem
    BY <2>2, OperandFacts
  <2> QED BY <2>1, <2>2, <2>3
<1>4. \A m \in DOMAIN x : Rank(p, x[m]) \in Nat
  BY <1>3, OperandFacts
<1>5. p[t].op = "broadcast" /\ Len(x) > 2 => \A m \in DOMAIN x : run.size[x[m]] = run.size[t]
  BY DEF Good, Plain
<1>6. \/ p[t].op = "broadcast" /\ Len(x) > 2
      \/ Len(x) = 2 /\ i = 1 /\ j = 2
  <2>1. p[t].op = "matmul" => Len(x) = 2
    BY TypedFacts
  <2>2. i \in 1..Len(x) /\ j \in 1..Len(x) /\ i < j /\ Len(x) \in Nat
    <3>1. i < j
      BY <1>2
    <3>2. DOMAIN x = 1..Len(x) /\ Len(x) \in Nat
      BY <1>3
    <3> QED BY <3>1, <3>2
  <2> HIDE DEF x
  <2>3. Len(x) = 2 => i = 1 /\ j = 2
    BY <2>2
  <2>4. Len(x) > 2 \/ Len(x) = 2
    <3>1. \A l \in Nat : \A a, b \in 1..l : a < b => l > 2 \/ l = 2
      OBVIOUS
    <3> QED BY <2>2, <3>1
  <2>5. p[t].op = "broadcast" \/ p[t].op = "matmul"
    OBVIOUS
  <2>6. CASE Len(x) = 2
    BY <2>3, <2>6
  <2>7. CASE Len(x) # 2
    <3>1. Len(x) > 2 /\ p[t].op # "matmul"
      BY <2>1, <2>4, <2>7
    <3> QED BY <2>5, <3>1
  <2> QED BY <2>6, <2>7
<1>7. /\ Rank(p, x[i]) <= n /\ Rank(p, x[j]) <= n
      /\ Rank(p, x[i]) = n \/ Rank(p, x[j]) = n
  <2>1. CASE p[t].op = "broadcast" /\ Len(x) > 2
    <3>1. Len(run.size[x[i]]) = Rank(p, x[i]) /\ Len(run.size[x[j]]) = Rank(p, x[j]) /\ Len(run.size[t]) = n
      BY <1>3 DEF Good, RunOf
    <3>2. run.size[x[i]] = run.size[t] /\ run.size[x[j]] = run.size[t]
      BY <1>5, <2>1
    <3> QED BY <1>3, <3>1, <3>2
  <2>2. CASE Len(x) = 2 /\ i = 1 /\ j = 2
    <3>1. /\ \A m \in 1..2 : Rank(p, x[m]) <= n
          /\ \E m \in 1..2 : Rank(p, x[m]) = n
      BY <1>3, <1>4, <2>2, TypedFacts
    <3> QED BY <2>2, <3>1
  <2> QED BY <1>6, <2>1, <2>2
<1>8. CountedBack(p, t, k, i, j) = k - 1 - n
  <2>1. Max({Rank(p, x[i]), Rank(p, x[j])}) = n
    <3>1. /\ Max({Rank(p, x[i]), Rank(p, x[j])}) \in {Rank(p, x[i]), Rank(p, x[j])}
          /\ Max({Rank(p, x[i]), Rank(p, x[j])}) >= Rank(p, x[i])
          /\ Max({Rank(p, x[i]), Rank(p, x[j])}) >= Rank(p, x[j])
      BY <1>4, MaxOfTwo
    <3> QED BY <1>3, <1>4, <1>7, <3>1
  <2> QED BY <1>3, <2>1 DEF CountedBack
<1>9. \A m \in DOMAIN x : Axis(p, x[m], k - 1 - n) = Aligned(p, x[m], k, n)
  BY <1>3, <1>4 DEF Axis, Aligned
<1>10. /\ Aligned(p, x[i], k, n) \in 1..Rank(p, x[i])
       /\ Aligned(p, x[j], k, n) \in 1..Rank(p, x[j])
       /\ SameDim(p, groups, x[i], Aligned(p, x[i], k, n), x[j], Aligned(p, x[j], k, n))
  BY <1>2, <1>8, <1>9 DEF SameAt
<1>11. Size(run, x[i], Aligned(p, x[i], k, n)) = Size(run, x[j], Aligned(p, x[j], k, n))
  BY <1>3, <1>10, SameDimHolds
<1>12. /\ SizeAt(p, run, x[i], k, n) = Size(run, x[i], Aligned(p, x[i], k, n))
       /\ SizeAt(p, run, x[j], k, n) = Size(run, x[j], Aligned(p, x[j], k, n))
  <2>1. ~(Aligned(p, x[i], k, n) < 1) /\ ~(Aligned(p, x[j], k, n) < 1)
    BY <1>4, <1>10
  <2> QED BY <2>1 DEF SizeAt
<1>13. Size(run, x[i], Aligned(p, x[i], k, n)) = Size(run, t, k)
  <2>1. CASE p[t].op = "broadcast" /\ Len(x) > 2
    <3>1. run.size[x[i]] = run.size[t]
      BY <1>5, <2>1
    <3>2. Rank(p, x[i]) = n
      <4>1. Len(run.size[x[i]]) = Rank(p, x[i]) /\ Len(run.size[t]) = n
        BY <1>3 DEF Good, RunOf
      <4> QED BY <3>1, <4>1
    <3>3. Aligned(p, x[i], k, n) = k
      BY <1>3, <3>2 DEF Aligned
    <3> QED BY <3>1, <3>3 DEF Size
  <2>2. CASE p[t].op = "broadcast" /\ Len(x) = 2 /\ i = 1 /\ j = 2
    <3>1. BroadcastSizes(p, run, t)
      BY <2>2, RunFacts
    <3>2. PICK m \in DOMAIN x : SizeAt(p, run, x[m], k, n) = Size(run, t, k)
      BY <3>1 DEF BroadcastSizes
    <3>3. m = i \/ m = j
      BY <1>3, <2>2, <3>2
    <3> QED BY <1>11, <1>12, <3>2, <3>3
  <2>3. CASE p[t].op = "matmul" /\ Len(x) = 2 /\ i = 1 /\ j = 2
    <3>1. MatMulSizes(p, run, t) /\ Rank(p, x[1]) \in 2..n /\ Rank(p, x[2]) \in 2..n
      BY <2>3, TypedFacts, RunFacts
    <3>2. CASE k = n - 1
      <4>1. Aligned(p, x[1], k, n) = Rank(p, x[1]) - 1
        BY <1>3, <3>1, <3>2 DEF Aligned
      <4>2. Size(run, t, n - 1) = Size(run, x[1], Rank(p, x[1]) - 1)
        BY <3>1 DEF MatMulSizes
      <4> QED BY <2>3, <3>2, <4>1, <4>2
    <3>3. CASE k = n
      <4>1. Aligned(p, x[2], k, n) = Rank(p, x[2])
        BY <1>3, <3>1, <3>3 DEF Aligned
      <4>2. Size(run, t, n) = Size(run, x[2], Rank(p, x[2]))
        BY <3>1 DEF MatMulSizes
      <4> QED BY <1>11, <2>3, <3>3, <4>1, <4>2
    <3>4. CASE k # n - 1 /\ k # n
      <4>1. k \in 1..(n - 2)
        BY <1>3, <3>4
      <4>2. PICK m \in 1..2 : SizeAt(p, run, x[m], k, n) = Size(run, t, k)
        BY <3>1, <4>1 DEF MatMulSizes
      <4>3. m = i \/ m = j
        BY <2>3, <4>2
      <4> QED BY <1>11, <1>12, <4>2, <4>3
    <3> QED BY <3>2, <3>3, <3>4
  <2> QED BY <1>6, <2>1, <2>2, <2>3
<1>14. Same(p, run, <<x[i], Aligned(p, x[i], k, n)>>, <<t, k>>)
  BY <1>3, <1>10, <1>13, OperandHolds
<1>15. Rank(p, x[i]) + (k - 1 - n) + 1 = Aligned(p, x[i], k, n)
  BY <1>3, <1>4 DEF Aligned
<1>16. d \in Useful(p, x[i], Aligned(p, x[i], k, n))
  BY <1>2, <1>8, <1>15
<1>17. Same(p, run, d, <<x[i], Aligned(p, x[i], k, n)>>)
  BY <1>14, <1>16, UsefulHolds DEF Same
<1> QED BY <1>14, <1>17 DEF Same

(* Case 1 of Reshape: the known sizes cancel.                              *)
LEMMA OnlyUnknownHolds ==
  ASSUME NEW p, NEW run, Good(p, run), NEW t \in DOMAIN p, p[t].op = "reshape",
         NEW k, IsUnknown(p, t, k), NEW d \in OnlyUnknown(p, t)
  PROVE  Same(p, run, d, <<t, k>>)
<1> DEFINE x == p[t].ins[1]
           unknown(u) == {l \in 1..Rank(p, u) : IsUnknown(p, u, l)}
           known(u) == [l \in 1..Rank(p, u) |-> IF IsUnknown(p, u, l) THEN 1 ELSE p[u].dims[l]]
<1>1. /\ Cardinality(unknown(x)) = 1 /\ Cardinality(unknown(t)) = 1
      /\ Product(known(x), Rank(p, x)) = Product(known(t), Rank(p, t))
      /\ d \in {<<x, l>> : l \in unknown(x)}
  BY DEF OnlyUnknown
<1>2. /\ Len(p[t].ins) = 1 /\ x \in DOMAIN p /\ ~p[t].elem
      /\ Positive(run.size[x], Rank(p, x)) /\ Positive(run.size[t], Rank(p, t))
      /\ Product(run.size[x], Rank(p, x)) = Product(run.size[t], Rank(p, t))
  BY ReshapeFacts
<1>3. ASSUME NEW u \in DOMAIN p, Positive(run.size[u], Rank(p, u)), Cardinality(unknown(u)) = 1,
             NEW l \in unknown(u)
      PROVE  /\ Product(run.size[u], Rank(p, u)) = Size(run, u, l) * Product(known(u), Rank(p, u))
             /\ Size(run, u, l) \in Nat \ {0}
             /\ Product(known(u), Rank(p, u)) \in Nat \ {0}
  <2>1. unknown(u) = {l}
    <3>1. Rank(p, u) \in Int
      BY OperandFacts
    <3>2. IsFiniteSet(1..Rank(p, u))
      BY <3>1, FS_Interval
    <3>3. IsFiniteSet(unknown(u))
      BY <3>2, FS_Subset
    <3>4. \E y : unknown(u) = {y}
      BY <1>3, <3>3, FS_Singleton
    <3> QED BY <1>3, <3>4
  <2>2. Without(run.size[u], Rank(p, u), l) = known(u)
    <3>1. ASSUME NEW i \in 1..Rank(p, u)
          PROVE  (IF i = l THEN 1 ELSE run.size[u][i]) = IF IsUnknown(p, u, i) THEN 1 ELSE p[u].dims[i]
      <4>1. i = l <=> IsUnknown(p, u, i)
        BY <2>1
      <4>2. i # l => Size(run, u, i) = p[u].dims[i]
        BY <4>1, RunFacts
      <4> QED BY <4>1, <4>2 DEF Size
    <3> QED BY <3>1 DEF Without
  <2>3. l \in 1..Rank(p, u)
    BY <1>3
  <2> HIDE DEF known
  <2>4. /\ Positive(known(u), Rank(p, u))
        /\ Product(run.size[u], Rank(p, u)) = run.size[u][l] * Product(known(u), Rank(p, u))
    BY <1>3, <2>2, <2>3, TakeOut
  <2>5. Product(known(u), Rank(p, u)) \in Nat \ {0}
    BY <2>4, ProductFacts
  <2>6. run.size[u][l] \in Nat \ {0}
    BY <1>3, <2>3 DEF Positive
  <2> QED BY <2>4, <2>5, <2>6 DEF Size
<1>4. PICK j \in unknown(x) : d = <<x, j>>
  BY <1>1
<1>5. k \in unknown(t)
  BY DEF IsUnknown
<1>6. j \in 1..Rank(p, x) /\ k \in 1..Rank(p, t)
  BY <1>4, <1>5
<1> HIDE DEF known, unknown
<1>7. Size(run, x, j) * Product(known(x), Rank(p, x)) = Size(run, t, k) * Product(known(x), Rank(p, x))
  BY <1>1, <1>2, <1>3, <1>4, <1>5
<1>8. \A a, b, c \in Nat \ {0} : a * c = b * c => a = b
  OBVIOUS
<1>9. Size(run, x, j) = Size(run, t, k)
  BY <1>1, <1>2, <1>3, <1>4, <1>5, <1>7, <1>8
<1> QED BY <1>2, <1>4, <1>6, <1>9, OperandHolds

(* Case 2: of two products of two numbers, one of each is the same.         *)
LEMMA OtherOfTwoHolds ==
  ASSUME NEW p, NEW run, Good(p, run), NEW groups, SoundGroups(p, run, groups),
         NEW t \in DOMAIN p, p[t].op = "reshape",
         NEW k \in 1..Rank(p, t), NEW d \in OtherOfTwo(p, groups, t, k)
  PROVE  Same(p, run, d, <<t, k>>)
<1> DEFINE x == p[t].ins[1]
           f == run.size[x]
           g == run.size[t]
<1>1. /\ Len(p[t].ins) = 1 /\ x \in DOMAIN p /\ ~p[t].elem /\ ~p[x].elem
      /\ Positive(f, Rank(p, x)) /\ Positive(g, Rank(p, t))
      /\ Product(f, Rank(p, x)) = Product(g, Rank(p, t))
  BY ReshapeFacts
<1>2. Rank(p, x) = 2 /\ Rank(p, t) = 2
  BY DEF OtherOfTwo
<1>3. PICK i \in 1..2 : d = <<x, 3 - i>> /\ SameDim(p, groups, x, i, t, 3 - k)
  BY DEF OtherOfTwo
<1>4. k \in 1..2 /\ 3 - k \in 1..2 /\ 3 - i \in 1..2
  BY <1>2
<1>5. f[i] = g[3 - k]
  BY <1>1, <1>2, <1>3, <1>4, SameDimHolds DEF Size
<1> HIDE DEF x, f, g
<1>6. \A h : Positive(h, 2) => Product(h, 2) = h[1] * h[2] /\ h[1] \in Nat \ {0} /\ h[2] \in Nat \ {0}
  <2> SUFFICES ASSUME NEW h, Positive(h, 2)
               PROVE  Product(h, 2) = h[1] * h[2] /\ h[1] \in Nat \ {0} /\ h[2] \in Nat \ {0}
    OBVIOUS
  <2>1. h[1] \in Nat \ {0} /\ h[2] \in Nat \ {0}
    BY DEF Positive
  <2>2. Positive(Without(h, 2, 1), 2) /\ Product(h, 2) = h[1] * Product(Without(h, 2, 1), 2)
    BY TakeOut
  <2>3. Without(h, 2, 1)[2] = h[2] /\ \A l \in 1..2 : l # 2 => Without(h, 2, 1)[l] = 1
    BY DEF Without
  <2>4. Product(Without(h, 2, 1), 2) = h[2]
    BY <2>2, <2>3, OnlyFactor
  <2> QED BY <2>1, <2>2, <2>4
<1>7. f[1] * f[2] = g[1] * g[2]
  BY <1>1, <1>2, <1>6
<1>8. /\ f[1] \in Nat \ {0} /\ f[2] \in Nat \ {0} /\ g[1] \in Nat \ {0} /\ g[2] \in Nat \ {0}
  BY <1>1, <1>2, <1>6
<1>9. f[3 - i] = g[k]
  <2>1. \/ f[1] = g[1] /\ f[2] = g[2]
        \/ f[1] = g[2] /\ f[2] = g[1]
    <3>1. i \in {1, 2} /\ 3 - k \in {1, 2}
      BY <1>4
    <3>2. ASSUME f[1] = g[1] PROVE f[2] = g[2]
      <4>1. f[1] * f[2] = f[1] * g[2]
        BY <1>7, <3>2
      <4> QED BY <1>8, <4>1, Cancel
    <3>3. ASSUME f[2] = g[2] PROVE f[1] = g[1]
      <4>1. f[2] * f[1] = f[2] * g[1]
        BY <1>7, <1>8, <3>3
      <4> QED BY <1>8, <4>1, Cancel
    <3>4. f[1] = g[2] <=> f[2] = g[1]
      BY <1>7, <1>8, OtherFactor
    <3>5. f[1] = g[1] \/ f[1] = g[2] \/ f[2] = g[1] \/ f[2] = g[2]
      BY <1>5, <3>1
    <3> QED BY <3>2, <3>3, <3>4, <3>5
  <2>2. CASE i = 1 /\ k = 1
    BY <1>5, <2>1, <2>2
  <2>3. CASE i = 1 /\ k = 2
    BY <1>5, <2>1, <2>3
  <2>4. CASE i = 2 /\ k = 1
    BY <1>5, <2>1, <2>4
  <2>5. CASE i = 2 /\ k = 2
    BY <1>5, <2>1, <2>5
  <2> QED BY <1>4, <2>2, <2>3, <2>4, <2>5
<1> QED BY <1>1, <1>2, <1>3, <1>4, <1>9, OperandHolds DEF Size, x, f, g

LEMMA SpecialCasesHold ==
  ASSUME NEW p, NEW run, Good(p, run), NEW groups, SoundGroups(p, run, groups),
         NEW t \in DOMAIN p, NEW k \in 1..Rank(p, t), IsUnknown(p, t, k),
         NEW d \in SpecialCases(p, groups, t, k)
  PROVE  Same(p, run, d, <<t, k>>)
<1>1. CASE p[t].op \in {"broadcast", "matmul"}
  BY <1>1, EqualOperandsHold DEF SpecialCases
<1>2. CASE p[t].op = "reshape"
  <2>1. d \in AllUseful(p, OnlyUnknown(p, t) \cup OtherOfTwo(p, groups, t, k))
    BY <1>2 DEF SpecialCases
  <2>2. \A c \in OnlyUnknown(p, t) \cup OtherOfTwo(p, groups, t, k) : Same(p, run, c, <<t, k>>)
    BY <1>2, OnlyUnknownHolds, OtherOfTwoHolds
  <2> QED BY <2>1, <2>2, AllUsefulHolds
<1> QED BY <1>1, <1>2 DEF SpecialCases

(***************************************************************************)
(* What visitDim finds it may be given in turn: its assertion holds.        *)
(***************************************************************************)
Formed(p) == p \in Seq(Tensor) /\ \A t \in DOMAIN p : WellFormed(p, t)

Inside(p, d) == d[1] \in DOMAIN p /\ Visitable(p, d)

LEMMA FormedFacts ==
  ASSUME NEW p, Formed(p), NEW t \in DOMAIN p
  PROVE  /\ \A i \in DOMAIN p[t].ins : p[t].ins[i] \in DOMAIN p
         /\ \A i \in DOMAIN p[t].shape : p[t].shape[i] \in DOMAIN p
         /\ DOMAIN p[t].ins = 1..Len(p[t].ins) /\ Len(p[t].ins) \in Nat
         /\ p[t].op \in {"dim", "cast", "transpose", "expand", "reshape", "tile"} => Len(p[t].ins) = 1
         /\ p[t].op \in {"matmul", "gemm"} => Len(p[t].ins) = 2
         /\ p[t].op = "gru" => Len(p[t].ins) = 3
         /\ p[t].op = "concat" => 1 \in DOMAIN p[t].ins
         /\ p[t].op = "dim" => IsUnknown(p, p[t].ins[1], p[t].attr)
         /\ p[t].op \in {"constantOfShape", "expand", "reshape", "tile"} =>
              DOMAIN p[t].shape = 1..Rank(p, t)
         /\ p[t].op = "centerCropPad" => DOMAIN p[t].shape = DOMAIN p[t].attrs
<1>1. WellFormed(p, t) /\ Typed(p, t) /\ p[t] \in Tensor
  BY DEF Formed, WellFormed
<1>2. p[t].ins \in Seq(Nat) /\ p[t].shape \in Seq(Nat) /\ p[t].attrs \in Seq(Nat)
  BY <1>1 DEF Tensor
<1>3. /\ \A i \in DOMAIN p[t].ins : p[t].ins[i] \in DOMAIN p
      /\ \A i \in DOMAIN p[t].shape : p[t].shape[i] \in DOMAIN p
      /\ p[t].op \in {"constantOfShape", "expand", "reshape", "tile"} => Len(p[t].shape) = Rank(p, t)
      /\ p[t].op = "centerCropPad" => Len(p[t].shape) = Len(p[t].attrs)
  BY <1>1 DEF WellFormed
<1>4. /\ DOMAIN p[t].ins = 1..Len(p[t].ins) /\ Len(p[t].ins) \in Nat
      /\ DOMAIN p[t].shape = 1..Len(p[t].shape)
      /\ DOMAIN p[t].attrs = 1..Len(p[t].attrs)
  BY <1>2
<1>5. /\ p[t].op \in {"dim", "cast", "transpose", "expand", "reshape", "tile"} => Len(p[t].ins) = 1
      /\ p[t].op \in {"matmul", "gemm"} => Len(p[t].ins) = 2
      /\ p[t].op = "gru" => Len(p[t].ins) = 3
      /\ p[t].op = "dim" => IsUnknown(p, p[t].ins[1], p[t].attr)
  BY <1>1 DEF Typed, Operands
<1>6. p[t].op = "concat" => 1 \in DOMAIN p[t].ins
  BY <1>1, <1>2 DEF Typed
<1> QED BY <1>3, <1>4, <1>5, <1>6

LEMMA UsefulInside ==
  ASSUME NEW p, NEW t \in DOMAIN p, NEW k
  PROVE  \A d \in Useful(p, t, k) : Inside(p, d)
BY DEF Useful, Visitable, Inside

LEMMA AllUsefulInside ==
  ASSUME NEW p, NEW S, \A c \in S : c[1] \in DOMAIN p
  PROVE  \A d \in AllUseful(p, S) : Inside(p, d)
BY UsefulInside DEF AllUseful

LEMMA MeetingInside ==
  ASSUME NEW p, Formed(p), NEW u \in DOMAIN p, NEW h \in Meeting(p, u)
  PROVE  \A c \in h : c[1] \in DOMAIN p
<1> DEFINE x == p[u].ins
<1>1. \A i \in DOMAIN x : x[i] \in DOMAIN p
  BY FormedFacts
<1>2. CASE p[u].op = "concat"
  BY <1>1, <1>2 DEF Meeting
<1>3. CASE p[u].op \in {"gemm", "matmul"}
  <2>1. x[1] \in DOMAIN p /\ x[2] \in DOMAIN p
    <3>1. DOMAIN x = 1..2
      BY <1>3, FormedFacts
    <3> QED BY <1>1, <3>1
  <2> QED BY <1>3, <2>1 DEF Meeting
<1>4. CASE p[u].op = "gru"
  <2>1. x[1] \in DOMAIN p /\ x[2] \in DOMAIN p /\ x[3] \in DOMAIN p
    <3>1. DOMAIN x = 1..3
      BY <1>4, FormedFacts
    <3> QED BY <1>1, <3>1
  <2> QED BY <1>4, <2>1 DEF Meeting
<1> QED BY <1>2, <1>3, <1>4 DEF Meeting

LEMMA HelperInside ==
  ASSUME NEW p, Formed(p), NEW t \in DOMAIN p, NEW k, NEW d \in HelperDims(p, t, k)
  PROVE  d[1] \in DOMAIN p
<1> DEFINE x == p[t].ins
<1>1. \A i \in DOMAIN x : x[i] \in DOMAIN p
  BY FormedFacts
<1>2. CASE p[t].op = "broadcast"
  <2>1. d \in BroadcastHelper(p, t, k)
    BY <1>2 DEF HelperDims
  <2>2. \E i \in DOMAIN x : d = <<x[i], Aligned(p, x[i], k, Rank(p, t))>>
    BY <2>1 DEF BroadcastHelper
  <2> QED BY <1>1, <2>2
<1>3. CASE p[t].op \in {"matmul", "gemm"}
  <2>1. x[1] \in DOMAIN p /\ x[2] \in DOMAIN p
    <3>1. DOMAIN x = 1..2
      BY <1>3, FormedFacts
    <3> QED BY <1>1, <3>1
  <2>2. d \in MatMulHelper(p, t, k) \/ d \in GemmHelper(p, t, k)
    BY <1>3 DEF HelperDims
  <2>3. d[1] = x[1] \/ d[1] = x[2]
    BY <2>2 DEF MatMulHelper, GemmHelper
  <2> QED BY <2>1, <2>3
<1>4. CASE p[t].op \notin {"broadcast", "matmul", "gemm"}
  <2>1. /\ d[1] = x[1]
        /\ p[t].op \in {"transpose", "concat", "gru", "expand", "tile", "reshape"}
    <3>1. CASE p[t].op \in {"transpose", "expand", "tile"}
      BY <3>1 DEF HelperDims
    <3>2. CASE p[t].op = "concat"
      BY <3>2 DEF HelperDims, ConcatHelper
    <3>3. CASE p[t].op = "gru"
      BY <3>3 DEF HelperDims, GruHelper
    <3>4. CASE p[t].op = "reshape"
      <4>1. d \in ReshapeHelper(p, t, k)
        BY <3>4 DEF HelperDims
      <4> QED BY <3>4, <4>1 DEF ReshapeHelper
    <3> QED BY <1>4, <3>1, <3>2, <3>3, <3>4 DEF HelperDims
  <2>2. 1 \in DOMAIN x
    BY <2>1, FormedFacts
  <2> QED BY <1>1, <2>1, <2>2
<1> QED BY <1>2, <1>3, <1>4

LEMMA SpecialCasesInside ==
  ASSUME NEW p, Formed(p), NEW t \in DOMAIN p, NEW k, NEW groups
  PROVE  \A d \in SpecialCases(p, groups, t, k) : Inside(p, d)
<1> DEFINE x == p[t].ins
<1>1. \A i \in DOMAIN x : x[i] \in DOMAIN p
  BY FormedFacts
<1>2. CASE p[t].op \in {"broadcast", "matmul"}
  <2> SUFFICES ASSUME NEW d \in EqualOperands(p, groups, t, k)
               PROVE  Inside(p, d)
    BY <1>2 DEF SpecialCases
  <2>1. \E i \in DOMAIN x : \E l : d \in Useful(p, x[i], l)
    BY DEF EqualOperands
  <2> QED BY <1>1, <2>1, UsefulInside
<1>3. CASE p[t].op = "reshape"
  <2>1. x[1] \in DOMAIN p
    BY <1>1, <1>3, FormedFacts
  <2>2. \A c \in OnlyUnknown(p, t) \cup OtherOfTwo(p, groups, t, k) : c[1] = x[1]
    BY DEF OnlyUnknown, OtherOfTwo
  <2>3. \A d \in AllUseful(p, OnlyUnknown(p, t) \cup OtherOfTwo(p, groups, t, k)) : Inside(p, d)
    BY <2>1, <2>2, AllUsefulInside
  <2> QED BY <1>3, <2>3 DEF SpecialCases
<1> QED BY <1>2, <1>3 DEF SpecialCases

LEMMA VisitInside ==
  ASSUME NEW p, Formed(p), NEW groups, NEW e, Inside(p, e), NEW d \in VisitDim(p, groups, e)
  PROVE  Inside(p, d)
<1> DEFINE t == e[1]
           k == e[2]
<1>1. t \in DOMAIN p
  BY DEF Inside
<1>2. CASE d \in FromConsumers(p, e)
  <2>1. PICK u \in DOMAIN p : \E h \in Meeting(p, u) : e \in h /\ d \in AllUseful(p, h \ {e})
    BY <1>2 DEF FromConsumers
  <2>2. PICK h \in Meeting(p, u) : d \in AllUseful(p, h \ {e})
    BY <2>1
  <2>3. \A c \in h \ {e} : c[1] \in DOMAIN p
    BY <2>2, MeetingInside
  <2> QED BY <2>2, <2>3, AllUsefulInside
<1>3. CASE d \in FromDefinition(p, groups, t, k)
  <2>1. CASE p[t].op \in {"argument", "constant"}
    BY <1>3, <2>1 DEF FromDefinition
  <2>2. CASE p[t].op \in {"dim", "cast"}
    <3>1. p[t].ins[1] \in DOMAIN p
      BY <1>1, <2>2, FormedFacts
    <3>2. CASE p[t].op = "dim"
      <4>1. d = <<p[t].ins[1], p[t].attr>>
        BY <1>3, <3>2 DEF FromDefinition
      <4>2. IsUnknown(p, p[t].ins[1], p[t].attr)
        BY <1>1, <3>2, FormedFacts
      <4> QED BY <3>1, <4>1, <4>2 DEF Inside, Visitable
    <3>3. CASE p[t].op = "cast"
      BY <1>3, <3>1, <3>3, UsefulInside DEF FromDefinition
    <3> QED BY <2>2, <3>2, <3>3
  <2>3. CASE p[t].op \notin {"argument", "constant", "dim", "cast"}
    <3>1. k \in 1..Rank(p, t)
      BY <2>3 DEF Inside, Visitable, IsUnknown
    <3>2. d \in FromHelper(p, t, k) \cup FromShapeInput(p, t, k) \cup SpecialCases(p, groups, t, k)
      BY <1>3, <2>3 DEF FromDefinition
    <3>3. CASE d \in FromHelper(p, t, k)
      BY <1>1, <3>3, HelperInside DEF FromHelper, Visitable, Inside
    <3>4. CASE d \in FromShapeInput(p, t, k)
      <4>1. PICK i \in ShapeElements(p, t, k) : d \in Useful(p, p[t].shape[i], i)
        BY <3>4 DEF FromShapeInput
      <4>2. i \in DOMAIN p[t].shape
        <5>1. CASE p[t].op = "centerCropPad"
          BY <1>1, <4>1, <5>1, FormedFacts DEF ShapeElements
        <5>2. CASE p[t].op # "centerCropPad"
          <6>1. i = k /\ p[t].op \in {"constantOfShape", "expand", "reshape", "tile"}
            BY <4>1, <5>2 DEF ShapeElements
          <6>2. DOMAIN p[t].shape = 1..Rank(p, t)
            BY <1>1, <6>1, FormedFacts
          <6> QED BY <3>1, <6>1, <6>2
        <5> QED BY <5>1, <5>2
      <4>3. p[t].shape[i] \in DOMAIN p
        BY <1>1, <4>2, FormedFacts
      <4> QED BY <4>1, <4>3, UsefulInside
    <3>5. CASE d \in SpecialCases(p, groups, t, k)
      BY <1>1, <3>5, SpecialCasesInside
    <3> QED BY <3>2, <3>3, <3>4, <3>5
  <2> QED BY <2>1, <2>2, <2>3
<1> QED BY <1>2, <1>3 DEF VisitDim

(***************************************************************************)
(* visitDim finds dimensions of the value of the one it visits.             *)
(***************************************************************************)
LEMMA VisitHolds ==
  ASSUME NEW p, NEW run, Good(p, run), NEW groups, SoundGroups(p, run, groups),
         NEW e, DimOK(p, e), Visitable(p, e), NEW d \in VisitDim(p, groups, e)
  PROVE  Same(p, run, d, e)
<1> DEFINE t == e[1]
           k == e[2]
           x == p[t].ins[1]
<1>1. t \in DOMAIN p /\ k \in Nat /\ e = <<t, k>> /\ (p[t].elem \/ k \in 1..Rank(p, t))
  BY DEF DimOK
<1>2. CASE d \in FromConsumers(p, e)
  BY <1>2, FromConsumersHold
<1>3. CASE d \in FromDefinition(p, groups, t, k)
  <2>1. CASE p[t].op \in {"argument", "constant"}
    BY <1>3, <2>1 DEF FromDefinition
  <2>2. CASE p[t].op = "dim"
    <3>1. p[t].elem /\ Len(p[t].ins) = 1 /\ p[t].attr \in 1..Rank(p, x)
      BY <1>1, <2>2, TypedFacts
    <3>2. x \in DOMAIN p /\ ~p[x].elem
      BY <1>1, <2>2, <3>1, OperandFacts
    <3>3. Rank(p, x) \in Nat
      BY <3>2, OperandFacts
    <3>4. d = <<x, p[t].attr>>
      BY <1>3, <2>2 DEF FromDefinition
    <3>5. run.elem[t] = Size(run, x, p[t].attr)
      BY <1>1, <2>2, RunFacts
    <3> QED BY <1>1, <3>1, <3>2, <3>3, <3>4, <3>5 DEF Same, DimOK, ValueOf
  <2>3. CASE p[t].op = "cast"
    <3>1. (p[t].elem => p[x].elem) /\ Len(p[t].ins) = 1 /\ Rank(p, x) = Rank(p, t)
      BY <1>1, <2>3, TypedFacts
    <3>2. x \in DOMAIN p /\ (p[x].elem => p[t].elem)
      BY <1>1, <2>3, <3>1, OperandFacts
    <3>3. run.size[t] = run.size[x] /\ run.elem[t] = run.elem[x]
      BY <1>1, <2>3, RunFacts
    <3>4. DimOK(p, <<x, k>>)
      BY <1>1, <3>1, <3>2 DEF DimOK
    <3>5. ValueOf(p, run, <<x, k>>) = ValueOf(p, run, e)
      BY <1>1, <3>1, <3>2, <3>3 DEF ValueOf, Size
    <3>6. d \in Useful(p, x, k)
      BY <1>3, <2>3 DEF FromDefinition
    <3>7. Same(p, run, d, <<x, k>>)
      BY <3>4, <3>6, UsefulHolds
    <3> QED BY <3>5, <3>7 DEF Same
  <2>4. CASE p[t].op \notin {"argument", "constant", "dim", "cast"}
    <3>1. ~p[t].elem /\ k \in 1..Rank(p, t)
      BY <1>1, <2>4, TypedFacts
    <3>2. d \in FromHelper(p, t, k) \cup FromShapeInput(p, t, k) \cup SpecialCases(p, groups, t, k)
      BY <1>3, <2>4 DEF FromDefinition
    <3>3. CASE d \in FromHelper(p, t, k)
      BY <1>1, <3>1, <3>3, HelperHolds
    <3>4. CASE d \in FromShapeInput(p, t, k)
      BY <1>1, <3>1, <3>4, ShapeInputHolds
    <3>5. CASE d \in SpecialCases(p, groups, t, k)
      <4>1. IsUnknown(p, t, k)
        BY <1>1, <2>4 DEF Visitable
      <4> QED BY <1>1, <3>1, <3>5, <4>1, SpecialCasesHold
    <3> QED BY <3>2, <3>3, <3>4, <3>5
  <2> QED BY <2>1, <2>2, <2>3, <2>4
<1> QED BY <1>2, <1>3 DEF VisitDim

-----------------------------------------------------------------------------
(***************************************************************************)
(* The inductive invariant: visitDim may be given the members of the sets,  *)
(* and the sets hold together in every plain run.                          *)
(***************************************************************************)
InsideInv ==
  /\ prog \in DOMAIN Programs
  /\ \A key \in DOMAIN sets : \A d \in sets[key] : Inside(Tensors, d)

SoundInv ==
  /\ prog \in DOMAIN Programs
  /\ \A run \in PlainRuns : \A key \in DOMAIN sets : \A d, e \in sets[key] : Same(Tensors, run, d, e)

LEMMA PlainRunsAreGood ==
  ASSUME prog \in DOMAIN Programs, NEW run \in PlainRuns
  PROVE  /\ Good(Tensors, run)
         /\ \A g \in Programs[prog].params : \A d, e \in g :
              ValueOf(Tensors, run, d) = ValueOf(Tensors, run, e)
<1>1. /\ run \in Programs[prog].runs /\ Legal(Tensors, Programs[prog].params, run)
      /\ \A t \in DOMAIN Tensors : Plain(Tensors, run, t)
  BY DEF PlainRuns, LegalRuns
<1>2. /\ Tensors \in Seq(Tensor) /\ RunOf(Tensors, run)
      /\ \A t \in DOMAIN Tensors : WellFormed(Tensors, t)
  BY <1>1, ProgramsAssumption DEF Tensors
<1> QED BY <1>1, <1>2 DEF Good, Legal

(* Every unknown dimension is one that its tensor has. *)
LEMMA UnknownDimsExist ==
  ASSUME NEW p, NEW ts, ts \subseteq DOMAIN p, \A t \in DOMAIN p : Rank(p, t) \in Nat
  PROVE  \A d \in UnknownDims(p, ts) : DimOK(p, d)
<1> SUFFICES ASSUME NEW d \in UnknownDims(p, ts)
             PROVE  DimOK(p, d)
  OBVIOUS
<1>1. PICK t \in ts : d \in {<<t, k>> : k \in {j \in 1..Rank(p, t) : IsUnknown(p, t, j)}}
  BY DEF UnknownDims
<1>2. PICK k \in 1..Rank(p, t) : d = <<t, k>>
  BY <1>1
<1>3. t \in DOMAIN p /\ Rank(p, t) \in Nat
  OBVIOUS
<1>4. k \in Nat
  BY <1>2, <1>3
<1> QED BY <1>2, <1>3, <1>4 DEF DimOK

(* buildFunctionArgsRes: what the parameters of the function declare equal, and single dimensions. *)
LEMMA BuiltSets ==
  ASSUME prog \in DOMAIN Programs, NEW key \in DOMAIN Built
  PROVE  /\ Built[key] \subseteq UnknownDims(Tensors, DOMAIN Tensors)
         /\ Built[key] \in Programs[prog].params \/ \E c : Built[key] = {c}
<1> DEFINE p == Tensors
<1>1. /\ Programs[prog].params \subseteq SUBSET UnknownDims(p, DOMAIN p)
      /\ Programs[prog].returned \subseteq DOMAIN p
  BY ProgramsAssumption DEF Tensors
<1>2. \A ts \in SUBSET DOMAIN p : UnknownDims(p, ts) \subseteq UnknownDims(p, DOMAIN p)
  BY DEF UnknownDims
<1> DEFINE arguments == {t \in DOMAIN p : p[t].op = "argument"}
           alone == UnknownDims(p, arguments \cup Programs[prog].returned) \ UNION Programs[prog].params
           results == UnknownDims(p, DOMAIN p \ arguments)
<1>3. \/ Built[key] \in Programs[prog].params \cup {{c} : c \in alone}
      \/ Built[key] \in {{c} : c \in results}
  BY DEF Built, BuiltOf, Tensors
<1>4. arguments \cup Programs[prog].returned \in SUBSET DOMAIN p /\ DOMAIN p \ arguments \in SUBSET DOMAIN p
  BY <1>1
<1>5. alone \subseteq UnknownDims(p, DOMAIN p) /\ results \subseteq UnknownDims(p, DOMAIN p)
  BY <1>2, <1>4
<1> HIDE DEF arguments, alone, results
<1> QED BY <1>1, <1>3, <1>5

LEMMA BuiltHolds ==
  ASSUME prog \in DOMAIN Programs, NEW run \in PlainRuns,
         NEW key \in DOMAIN Built, NEW d \in Built[key], NEW e \in Built[key]
  PROVE  Same(Tensors, run, d, e)
<1>1. Good(Tensors, run)
  BY PlainRunsAreGood
<1>2. \A t \in DOMAIN Tensors : Rank(Tensors, t) \in Nat
  BY <1>1, OperandFacts
<1>3. DimOK(Tensors, d)
  BY <1>2, BuiltSets, UnknownDimsExist
<1>4. CASE Built[key] \in Programs[prog].params
  <2>1. ValueOf(Tensors, run, d) = ValueOf(Tensors, run, e)
    BY <1>4, PlainRunsAreGood
  <2> QED BY <1>3, <2>1 DEF Same
<1>5. CASE \E c : Built[key] = {c}
  <2>1. d = e
    BY <1>5
  <2> QED BY <1>3, <2>1 DEF Same
<1> QED BY <1>4, <1>5, BuiltSets

LEMMA TensorsFormed == prog \in DOMAIN Programs => Formed(Tensors)
BY ProgramsAssumption DEF Formed, Tensors

LEMMA InsideInitially == Init => InsideInv
<1> SUFFICES ASSUME Init, NEW key \in DOMAIN Built, NEW d \in Built[key]
             PROVE  Inside(Tensors, d)
  BY DEF Init, InsideInv
<1>1. d \in UnknownDims(Tensors, DOMAIN Tensors)
  BY BuiltSets DEF Init
<1>2. PICK t \in DOMAIN Tensors : \E k : d = <<t, k>> /\ IsUnknown(Tensors, t, k)
  BY <1>1 DEF UnknownDims
<1> QED BY <1>2 DEF Inside, Visitable

LEMMA InsideStep == InsideInv /\ [Next]_vars => InsideInv'
<1> SUFFICES ASSUME InsideInv, [Next]_vars
             PROVE  InsideInv'
  OBVIOUS
<1>1. ASSUME prog' = prog
      PROVE  Tensors' = Tensors
  BY <1>1 DEF Tensors
<1>2. ASSUME UNCHANGED <<prog, sets>>
      PROVE  InsideInv'
  BY <1>1, <1>2 DEF InsideInv
<1>3. ASSUME NEW key \in DOMAIN sets, VisitSet(key)
      PROVE  InsideInv'
  <2>1. prog' = prog /\ sets' = [sets EXCEPT ![key] = @ \cup Visited(key)]
    BY <1>3 DEF VisitSet
  <2>2. \A d \in Visited(key) : Inside(Tensors, d)
    BY TensorsFormed, VisitInside DEF Visited, InsideInv
  <2> QED BY <1>1, <2>1, <2>2 DEF InsideInv
<1>4. ASSUME NEW l \in DOMAIN sets, NEW r \in DOMAIN sets, MergeSets(l, r)
      PROVE  InsideInv'
  BY <1>1, <1>4 DEF MergeSets, InsideInv
<1>5. CASE EndRound
  BY <1>2, <1>5 DEF EndRound
<1>6. CASE EndMerge
  BY <1>2, <1>6 DEF EndMerge
<1>7. CASE UNCHANGED vars
  BY <1>2, <1>7 DEF vars
<1> QED BY <1>3, <1>4, <1>5, <1>6, <1>7 DEF Next

LEMMA SoundInitially == Init => SoundInv
BY BuiltHolds DEF Init, SoundInv

LEMMA SoundStep == SoundInv /\ InsideInv /\ [Next]_vars => SoundInv'
<1> SUFFICES ASSUME SoundInv, InsideInv, [Next]_vars
             PROVE  SoundInv'
  OBVIOUS
<1>1. ASSUME prog' = prog
      PROVE  Tensors' = Tensors /\ PlainRuns' = PlainRuns
  BY <1>1 DEF Tensors, PlainRuns, LegalRuns
<1>2. ASSUME UNCHANGED <<prog, sets>>
      PROVE  SoundInv'
  BY <1>1, <1>2 DEF SoundInv
<1>3. ASSUME NEW key \in DOMAIN sets, VisitSet(key)
      PROVE  SoundInv'
  <2>1. prog' = prog /\ sets' = [sets EXCEPT ![key] = @ \cup Visited(key)]
    BY <1>3 DEF VisitSet
  <2>2. SUFFICES ASSUME NEW run \in PlainRuns, NEW k \in DOMAIN sets,
                        NEW d \in sets'[k], NEW e \in sets'[k]
                 PROVE  Same(Tensors, run, d, e)
    BY <1>1, <2>1 DEF SoundInv
  <2>3. Good(Tensors, run) /\ SoundGroups(Tensors, run, Range(sets))
    <3>1. Good(Tensors, run)
      BY PlainRunsAreGood DEF SoundInv
    <3>2. SoundGroups(Tensors, run, Range(sets))
      BY DEF SoundGroups, SoundInv, Range
    <3> QED BY <3>1, <3>2
  <2>4. CASE k # key
    BY <2>1, <2>4 DEF SoundInv
  <2>5. CASE k = key
    <3>1. \A c \in sets'[k] : \E b \in sets[key] : Same(Tensors, run, c, b)
      <4> SUFFICES ASSUME NEW c \in sets'[k]
                   PROVE  \E b \in sets[key] : Same(Tensors, run, c, b)
        OBVIOUS
      <4>1. CASE c \in sets[key]
        BY <4>1 DEF SoundInv
      <4>2. CASE c \notin sets[key]
        <5>1. c \in Visited(key)
          BY <2>1, <2>5, <4>2
        <5>2. PICK b \in sets[key] : c \in VisitDim(Tensors, Range(sets), b)
          BY <5>1 DEF Visited
        <5>3. DimOK(Tensors, b) /\ Visitable(Tensors, b)
          BY <5>2 DEF SoundInv, InsideInv, Inside, Same
        <5> QED BY <2>3, <5>2, <5>3, VisitHolds
      <4> QED BY <4>1, <4>2
    <3>2. PICK a \in sets[key] : Same(Tensors, run, d, a)
      BY <3>1
    <3>3. PICK b \in sets[key] : Same(Tensors, run, e, b)
      BY <3>1
    <3>4. Same(Tensors, run, a, b)
      BY DEF SoundInv
    <3> QED BY <3>2, <3>3, <3>4 DEF Same
  <2> QED BY <2>4, <2>5
<1>4. ASSUME NEW l \in DOMAIN sets, NEW r \in DOMAIN sets, MergeSets(l, r)
      PROVE  SoundInv'
  <2>1. /\ prog' = prog
        /\ sets' = [k \in DOMAIN sets \ {r} |-> IF k = l THEN sets[l] \cup sets[r] ELSE sets[k]]
        /\ sets[l] \cap sets[r] # {}
    BY <1>4 DEF MergeSets, Overlapping
  <2>2. SUFFICES ASSUME NEW run \in PlainRuns, NEW k \in DOMAIN sets \ {r},
                        NEW d \in sets'[k], NEW e \in sets'[k]
                 PROVE  Same(Tensors, run, d, e)
    BY <1>1, <2>1 DEF SoundInv
  <2>3. CASE k # l
    BY <2>1, <2>3 DEF SoundInv
  <2>4. CASE k = l
    <3>1. PICK c \in sets[l] : c \in sets[r]
      BY <2>1
    <3>2. d \in sets[l] \cup sets[r] /\ e \in sets[l] \cup sets[r]
      BY <2>1, <2>4
    <3>3. Same(Tensors, run, d, c) /\ Same(Tensors, run, c, e)
      BY <3>1, <3>2 DEF SoundInv
    <3> QED BY <3>3 DEF Same
  <2> QED BY <2>3, <2>4
<1>5. CASE EndRound
  BY <1>2, <1>5 DEF EndRound
<1>6. CASE EndMerge
  BY <1>2, <1>6 DEF EndMerge
<1>7. CASE UNCHANGED vars
  BY <1>2, <1>7 DEF vars
<1> QED BY <1>3, <1>4, <1>5, <1>6, <1>7 DEF Next

(***************************************************************************)
(* Dimensions of one group are equal in every plain run, for every program  *)
(* and every order of visits and merges (DimAnalysis::visitDim,             *)
(* updateDimSets, mergeDimSets).                                           *)
(***************************************************************************)
THEOREM GroupsHold == Spec => []GroupsAreEqual
<1>1. SoundInv => GroupsAreEqual
  BY DEF SoundInv, GroupsAreEqual, EqualIn, Same
<1> QED BY <1>1, InsideInitially, InsideStep, SoundInitially, SoundStep, PTL DEF Spec

(***************************************************************************)
(* Every member of a set is one that visitDim may be given, as it asserts,  *)
(* and a dimension that its tensor has if the program can run plainly, so   *)
(* that getShape()[axis] is read in bounds.                                *)
(***************************************************************************)
THEOREM DimsAlwaysExist == Spec => []DimsExist
<1>1. SoundInv /\ InsideInv => DimsExist
  BY DEF SoundInv, InsideInv, DimsExist, Range, Inside, Same, DimOK
<1> QED BY <1>1, InsideInitially, InsideStep, SoundInitially, SoundStep, PTL DEF Spec

(***************************************************************************)
(* The order of visits and merges. Every group of fs is part of one of gs:  *)
(* what a visit finds with the groups fs, it finds with gs too.             *)
(***************************************************************************)
Within(fs, gs) == \A f \in fs : \E g \in gs : f \subseteq g

LEMMA SameDimStays ==
  ASSUME NEW p, NEW fs, NEW gs, Within(fs, gs), NEW a, NEW k, NEW b, NEW l, SameDim(p, fs, a, k, b, l)
  PROVE  SameDim(p, gs, a, k, b, l)
<1>1. ASSUME NEW f \in fs, {<<a, k>>, <<b, l>>} \subseteq f
      PROVE  \E g \in gs : {<<a, k>>, <<b, l>>} \subseteq g
  BY <1>1 DEF Within
<1> QED BY <1>1 DEF SameDim

LEMMA EqualOperandsStay ==
  ASSUME NEW p, NEW fs, NEW gs, Within(fs, gs), NEW t, NEW k
  PROVE  EqualOperands(p, fs, t, k) \subseteq EqualOperands(p, gs, t, k)
<1>1. ASSUME NEW i, NEW j, SameAt(p, fs, t, k, i, j)
      PROVE  SameAt(p, gs, t, k, i, j)
  BY <1>1, SameDimStays DEF SameAt
<1> QED BY <1>1 DEF EqualOperands

(* Of the two dimensions of a Reshape's input, OtherOfTwo asks about one    *)
(* first. Which one answers may change as groups grow, but then both have   *)
(* answered and are in one group.                                          *)
LEMMA OtherOfTwoStays ==
  ASSUME NEW p, NEW fs, NEW gs, Within(fs, gs), Settled(p, gs), NEW g \in gs, NEW t, NEW k,
         AllUseful(p, OtherOfTwo(p, gs, t, k)) \subseteq g
  PROVE  AllUseful(p, OtherOfTwo(p, fs, t, k)) \subseteq g
<1> DEFINE x == p[t].ins[1]
           same(groups, i) == SameDim(p, groups, x, i, t, 3 - k)
<1>1. \A i : same(fs, i) => same(gs, i)
  BY SameDimStays
<1>2. CASE Rank(p, x) # 2 \/ Rank(p, t) # 2 \/ same(fs, 1) \/ ~same(fs, 2)
  <2>1. OtherOfTwo(p, fs, t, k) \subseteq OtherOfTwo(p, gs, t, k)
    BY <1>1, <1>2 DEF OtherOfTwo
  <2> QED BY <2>1 DEF AllUseful
<1>3. CASE ~same(gs, 1) /\ Rank(p, x) = 2 /\ Rank(p, t) = 2 /\ ~same(fs, 1) /\ same(fs, 2)
  <2>1. OtherOfTwo(p, fs, t, k) = OtherOfTwo(p, gs, t, k)
    BY <1>1, <1>3 DEF OtherOfTwo
  <2> QED BY <2>1
<1>4. CASE same(gs, 1) /\ Rank(p, x) = 2 /\ Rank(p, t) = 2 /\ ~same(fs, 1) /\ same(fs, 2)
  <2>1. OtherOfTwo(p, fs, t, k) = {<<x, 1>>} /\ OtherOfTwo(p, gs, t, k) = {<<x, 2>>}
    BY <1>4 DEF OtherOfTwo
  <2>2. p[x].dims[1] = p[t].dims[3 - k] /\ p[x].dims[1] = Unknown
    BY <1>4 DEF SameDim
  <2>3. PICK h \in gs : {<<x, 1>>, <<t, 3 - k>>} \subseteq h
    BY <1>4, <2>2 DEF SameDim
  <2>4. same(gs, 2)
    BY <1>1, <1>4
  <2>5. p[x].dims[2] = Unknown
    BY <2>2, <2>4 DEF SameDim
  <2>6. \E f \in gs : {<<x, 2>>, <<t, 3 - k>>} \subseteq f
    <3>1. CASE x = t /\ 2 = 3 - k
      BY <2>3, <3>1
    <3>2. CASE ~(x = t /\ 2 = 3 - k)
      BY <2>4, <2>5, <3>2 DEF SameDim
    <3> QED BY <3>1, <3>2
  <2>7. <<x, 2>> \in h
    BY <2>3, <2>6 DEF Settled
  <2>8. IsUnknown(p, x, 1) /\ IsUnknown(p, x, 2)
    BY <1>4, <2>2, <2>5 DEF IsUnknown
  <2>9. Useful(p, x, 2) \subseteq g
    BY <2>1 DEF AllUseful
  <2>10. Useful(p, x, 1) \subseteq g
    <3>1. CASE p[x].op = "constant"
      BY <3>1 DEF Useful
    <3>2. CASE p[x].op = "dim"
      BY <2>9, <3>2 DEF Useful
    <3>3. CASE p[x].op # "constant" /\ p[x].op # "dim"
      <4>1. Useful(p, x, 2) = {<<x, 2>>} /\ Useful(p, x, 1) = {<<x, 1>>}
        BY <2>8, <3>3 DEF Useful
      <4>2. g = h
        BY <2>7, <2>9, <4>1 DEF Settled
      <4> QED BY <2>3, <4>1, <4>2
    <3> QED BY <3>1, <3>2, <3>3
  <2> QED BY <2>1, <2>10 DEF AllUseful
<1> QED BY <1>2, <1>3, <1>4

LEMMA VisitStays ==
  ASSUME NEW p, NEW fs, NEW gs, Within(fs, gs), Settled(p, gs), NEW g \in gs, NEW d \in g
  PROVE  VisitDim(p, fs, d) \subseteq g
<1> DEFINE t == d[1]
           k == d[2]
<1>1. VisitDim(p, gs, d) \subseteq g
  BY DEF Settled
<1>2. FromConsumers(p, d) \subseteq g /\ FromDefinition(p, gs, t, k) \subseteq g
  BY <1>1 DEF VisitDim
<1>3. CASE p[t].op \in {"argument", "constant", "dim", "cast"}
  <2>1. FromDefinition(p, fs, t, k) = FromDefinition(p, gs, t, k)
    BY <1>3 DEF FromDefinition
  <2> QED BY <1>2, <2>1 DEF VisitDim
<1>4. CASE p[t].op \notin {"argument", "constant", "dim", "cast"}
  <2>1. \A groups : FromDefinition(p, groups, t, k)
                      = FromHelper(p, t, k) \cup FromShapeInput(p, t, k) \cup SpecialCases(p, groups, t, k)
    BY <1>4 DEF FromDefinition
  <2>2. SpecialCases(p, gs, t, k) \subseteq g
    BY <1>2, <2>1
  <2>3. SpecialCases(p, fs, t, k) \subseteq g
    <3>1. CASE p[t].op \in {"broadcast", "matmul"}
      BY <2>2, <3>1, EqualOperandsStay DEF SpecialCases
    <3>2. CASE p[t].op = "reshape" /\ p[t].attr = 0
      <4>1. \A groups : SpecialCases(p, groups, t, k)
                          = AllUseful(p, OnlyUnknown(p, t)) \cup AllUseful(p, OtherOfTwo(p, groups, t, k))
        BY <3>2 DEF SpecialCases, AllUseful
      <4> QED BY <2>2, <4>1, OtherOfTwoStays
    <3>3. CASE p[t].op \notin {"broadcast", "matmul"} /\ ~(p[t].op = "reshape" /\ p[t].attr = 0)
      BY <3>3 DEF SpecialCases
    <3> QED BY <3>1, <3>2, <3>3
  <2> QED BY <1>2, <2>1, <2>3 DEF VisitDim
<1> QED BY <1>3, <1>4

(* What one round at once does to the groups.                               *)
LEMMA AtOnceFacts ==
  ASSUME NEW p, NEW gs, {} \notin gs
  PROVE  /\ {} \notin AtOnce(p, gs)
         /\ Within(gs, AtOnce(p, gs))
         /\ \A ss : Settled(p, ss) /\ Within(gs, ss) => Within(AtOnce(p, gs), ss)
<1> DEFINE Grow(g) == g \cup UNION {VisitDim(p, gs, d) : d \in g}
           grown == {Grow(g) : g \in gs}
           Join(g) == UNION {h \in grown : h \cap g # {}}
<1>1. AtOnce(p, gs) = {Join(g) : g \in grown}
  BY DEF AtOnce
<1>2. \A g \in grown : g # {} /\ g \subseteq Join(g)
  <2>1. \A g \in grown : g # {}
    OBVIOUS
  <2> HIDE DEF grown
  <2> QED BY <2>1
<1>3. \A g \in gs : Grow(g) \in grown /\ g \subseteq Grow(g)
  OBVIOUS
<1>4. ASSUME NEW ss, Settled(p, ss), Within(gs, ss), NEW g \in grown
      PROVE  \E s \in ss : Join(g) \subseteq s
  <2>1. ASSUME NEW h \in grown
        PROVE  \E s \in ss : h \subseteq s
    <3>1. PICK a \in gs : h = Grow(a)
      OBVIOUS
    <3>2. PICK s \in ss : a \subseteq s
      BY <1>4 DEF Within
    <3>3. \A d \in a : VisitDim(p, gs, d) \subseteq s
      BY <1>4, <3>2, VisitStays
    <3> QED BY <3>1, <3>2, <3>3
  <2>2. PICK s \in ss : g \subseteq s
    BY <2>1
  <2> HIDE DEF grown
  <2>3. \A h \in grown : h \cap g # {} => h \subseteq s
    BY <1>4, <2>1, <2>2 DEF Settled
  <2> QED BY <2>3
<1> HIDE DEF grown, Grow
<1>5. {} \notin AtOnce(p, gs)
  BY <1>1, <1>2
<1>6. Within(gs, AtOnce(p, gs))
  <2>1. ASSUME NEW g \in gs PROVE \E h \in AtOnce(p, gs) : g \subseteq h
    <3>1. Join(Grow(g)) \in AtOnce(p, gs)
      BY <1>1, <1>3
    <3>2. Grow(g) \subseteq Join(Grow(g))
      BY <1>2, <1>3
    <3> QED BY <1>3, <3>1, <3>2
  <2> QED BY <2>1 DEF Within
<1>7. \A ss : Settled(p, ss) /\ Within(gs, ss) => Within(AtOnce(p, gs), ss)
  BY <1>1, <1>4 DEF Within
<1> QED BY <1>5, <1>6, <1>7

(* The rounds of the reference, as the recursive function that it is.       *)
After(program, n, f) ==
  [k \in 0..n |-> IF k = 0 THEN Range(BuiltOf(program)) ELSE AtOnce(program.tensors, f[k - 1])]

LEMMA AfterExists ==
  ASSUME NEW program, NEW n \in Nat
  PROVE  \E f : f = After(program, n, f)
<1> DEFINE S == {m \in Nat : \E f : f = After(program, m, f)}
           start == Range(BuiltOf(program))
           Step(groups) == AtOnce(program.tensors, groups)
<1>0. \A m, f : After(program, m, f) = [k \in 0..m |-> IF k = 0 THEN start ELSE Step(f[k - 1])]
  BY DEF After
<1> HIDE DEF start, Step
<1>1. 0 \in S
  <2> DEFINE f == [k \in 0..0 |-> start]
  <2>1. f = After(program, 0, f)
    BY <1>0
  <2> QED BY <2>1
<1>2. ASSUME NEW m \in Nat, m \in S
      PROVE  m + 1 \in S
  <2>1. PICK f : f = After(program, m, f)
    BY <1>2
  <2> DEFINE g == [k \in 0..m + 1 |-> IF k = 0 THEN start ELSE Step(f[k - 1])]
  <2>2. \A k \in 0..m : g[k] = f[k]
    <3>1. \A k \in 0..m : f[k] = IF k = 0 THEN start ELSE Step(f[k - 1])
      BY <1>0, <2>1
    <3>2. \A k \in 0..m : k \in 0..m + 1
      OBVIOUS
    <3> QED BY <3>1, <3>2
  <2>3. ASSUME NEW k \in 0..m + 1
        PROVE  g[k] = IF k = 0 THEN start ELSE Step(g[k - 1])
    <3>1. CASE k = 0
      BY <3>1
    <3>2. CASE k # 0
      <4>1. k - 1 \in 0..m
        BY <3>2
      <4>2. g[k - 1] = f[k - 1]
        BY <2>2, <4>1
      <4>3. g[k] = Step(f[k - 1])
        BY <3>2
      <4> QED BY <3>2, <4>2, <4>3
    <3> QED BY <3>1, <3>2
  <2>4. g = [k \in 0..m + 1 |-> g[k]]
    OBVIOUS
  <2> HIDE DEF g
  <2>5. After(program, m + 1, g) = [k \in 0..m + 1 |-> IF k = 0 THEN start ELSE Step(g[k - 1])]
    BY <1>0
  <2>6. g = After(program, m + 1, g)
    BY <2>3, <2>4, <2>5
  <2> QED BY <2>6
<1>3. Nat \subseteq S
  BY <1>1, <1>2, Induction
<1> QED BY <1>3

(***************************************************************************)
(* The groups of the reference contain the initial ones, and are contained  *)
(* in whatever contains those and is settled.                              *)
(***************************************************************************)
LEMMA TogetherFacts ==
  ASSUME NEW program, NEW n \in Nat, {} \notin Range(BuiltOf(program))
  PROVE  /\ {} \notin Together(program, n)
         /\ Within(Range(BuiltOf(program)), Together(program, n))
         /\ \A ss : Settled(program.tensors, ss) /\ Within(Range(BuiltOf(program)), ss)
                      => Within(Together(program, n), ss)
<1> DEFINE start == Range(BuiltOf(program))
           p == program.tensors
           f == CHOOSE g : g = After(program, n, g)
           Right(groups) ==
             /\ {} \notin groups
             /\ Within(start, groups)
             /\ \A ss : Settled(p, ss) /\ Within(start, ss) => Within(groups, ss)
           S == {m \in Nat : m <= n => Right(f[m])}
<1>1. Together(program, n) = f[n]
  BY DEF Together, After
<1>2. f = After(program, n, f)
  BY AfterExists
<1> HIDE DEF f
<1>3. f[0] = start /\ \A k \in 0..n : k # 0 => f[k] = AtOnce(p, f[k - 1])
  <2>1. f = [k \in 0..n |-> IF k = 0 THEN start ELSE AtOnce(p, f[k - 1])]
    BY <1>2 DEF After
  <2>2. 0 \in 0..n
    OBVIOUS
  <2> HIDE DEF start, p
  <2> QED BY <2>1, <2>2
<1>4. 0 \in S
  <2>1. Within(start, start)
    BY DEF Within
  <2> QED BY <1>3, <2>1
<1>5. ASSUME NEW m \in Nat, m \in S
      PROVE  m + 1 \in S
  <2> SUFFICES ASSUME m + 1 <= n
               PROVE  Right(f[m + 1])
    OBVIOUS
  <2>1. Right(f[m])
    BY <1>5
  <2>2. m + 1 \in 0..n /\ m + 1 # 0 /\ (m + 1) - 1 = m
    OBVIOUS
  <2>3. f[m + 1] = AtOnce(p, f[m])
    BY <1>3, <2>2
  <2> HIDE DEF start, p
  <2>4. /\ {} \notin f[m + 1]
        /\ Within(f[m], f[m + 1])
        /\ \A ss : Settled(p, ss) /\ Within(f[m], ss) => Within(f[m + 1], ss)
    BY <2>1, <2>3, AtOnceFacts
  <2>5. Within(start, f[m + 1])
    BY <2>1, <2>4 DEF Within
  <2> QED BY <2>1, <2>4, <2>5
<1>6. n \in S
  BY <1>4, <1>5, Induction
<1> QED BY <1>1, <1>6

(***************************************************************************)
(* What the sets have in common in every order: they contain the initial    *)
(* ones, and are contained in whatever contains those and is settled. They  *)
(* do not overlap at the start of a round, unless nothing was found yet.    *)
(***************************************************************************)
Apart == \A l, r \in DOMAIN sets : ~Overlapping(l, r)

OrderInv ==
  /\ IsMap
  /\ updated \in BOOLEAN
  /\ prog \in DOMAIN Programs
  /\ pc \in {"visit", "done"} /\ ~updated => sets = Built \/ Apart
  /\ pc = "done" => ~updated
  /\ \A key \in DOMAIN sets : sets[key] # {}
  /\ Within(Range(Built), Range(sets))
  /\ \A gs : Settled(Tensors, gs) /\ Within(Range(Built), gs) => Within(Range(sets), gs)

LEMMA BuiltNonempty ==
  ASSUME prog \in DOMAIN Programs
  PROVE  \A key \in DOMAIN Built : Built[key] # {}
<1> DEFINE program == Programs[prog]
           tensors == program.tensors
           arguments == {t \in DOMAIN tensors : tensors[t].op = "argument"}
           alone == UnknownDims(tensors, arguments \cup program.returned) \ UNION program.params
           results == UnknownDims(tensors, DOMAIN tensors \ arguments)
           keys == ({"function"} \X (program.params \cup {{d} : d \in alone}))
                     \cup ({"operation"} \X {{d} : d \in results})
<1>1. {} \notin program.params
  BY ProgramsAssumption
<1>2. Built = [key \in keys |-> key[2]]
  BY DEF Built, BuiltOf
<1> HIDE DEF alone, results, program
<1>3. \A key \in keys : key[2] # {}
  BY <1>1
<1> QED BY <1>2, <1>3

LEMMA OrderInit == Init => OrderInv
<1> SUFFICES ASSUME Init PROVE OrderInv
  OBVIOUS
<1>1. sets = Built /\ prog \in DOMAIN Programs /\ updated = FALSE /\ pc = "visit"
  BY DEF Init
<1>2. IsMap
  BY <1>1 DEF IsMap, Built, BuiltOf
<1>3. \A key \in DOMAIN sets : sets[key] # {}
  BY <1>1, BuiltNonempty
<1>4. Within(Range(Built), Range(sets))
  BY <1>1 DEF Within
<1> QED BY <1>1, <1>2, <1>3, <1>4 DEF OrderInv

(* A visit of one set: it grows, and within every settled family of groups. *)
LEMMA OrderVisit ==
  ASSUME OrderInv, NEW key \in DOMAIN sets, VisitSet(key)
  PROVE  OrderInv'
<1>1. /\ prog' = prog /\ pc = "visit" /\ pc' = "visit" /\ key \in DOMAIN sets
      /\ sets' = [sets EXCEPT ![key] = @ \cup Visited(key)]
      /\ updated' = (updated \/ ~(Visited(key) \subseteq sets[key]))
  BY DEF VisitSet
<1>2. Built' = Built /\ Tensors' = Tensors
  BY <1>1 DEF Built, Tensors
<1>3. sets' = [k \in DOMAIN sets |-> IF k = key THEN sets[key] \cup Visited(key) ELSE sets[k]]
  BY <1>1 DEF OrderInv, IsMap
<1>4. DOMAIN sets' = DOMAIN sets /\ \A k \in DOMAIN sets : sets[k] \subseteq sets'[k]
  BY <1>3
<1>5. IsMap'
  BY <1>3 DEF IsMap
<1>6. ~updated' => sets' = sets /\ ~updated
  BY <1>1, NothingAdded DEF OrderInv, IsMap
<1>7. ~updated' => sets' = Built' \/ Apart'
  BY <1>1, <1>2, <1>6 DEF OrderInv, Apart, Overlapping
<1>8. \A k \in DOMAIN sets' : sets'[k] # {}
  BY <1>4 DEF OrderInv
<1>9. Within(Range(Built), Range(sets))'
  BY <1>2, <1>4 DEF OrderInv, Within, Range
<1>10. ASSUME NEW gs, Settled(Tensors, gs), Within(Range(Built), gs)
       PROVE  Within(Range(sets'), gs)
  <2>1. Within(Range(sets), gs)
    BY <1>10 DEF OrderInv
  <2>2. \A k \in DOMAIN sets : \E g \in gs : sets[k] \subseteq g
    BY <2>1 DEF Within, Range
  <2>3. PICK g \in gs : sets[key] \subseteq g
    BY <2>2
  <2>4. \A d \in sets[key] : VisitDim(Tensors, Range(sets), d) \subseteq g
    BY <1>10, <2>1, <2>3, VisitStays
  <2>5. Visited(key) \subseteq g
    BY <2>4 DEF Visited
  <2>6. \A k \in DOMAIN sets' : \E h \in gs : sets'[k] \subseteq h
    BY <1>3, <2>2, <2>3, <2>5
  <2> QED BY <2>6 DEF Within, Range
<1>11. updated' \in BOOLEAN
  BY <1>1 DEF OrderInv
<1> QED BY <1>1, <1>2, <1>5, <1>7, <1>8, <1>9, <1>10, <1>11 DEF OrderInv

(* Two sets that overlap are in the same group of a settled family.         *)
LEMMA OrderMerge ==
  ASSUME OrderInv, NEW l \in DOMAIN sets, NEW r \in DOMAIN sets, MergeSets(l, r)
  PROVE  OrderInv'
<1>1. /\ prog' = prog /\ updated' = updated /\ pc' = "merge"
      /\ sets' = [k \in DOMAIN sets \ {r} |-> IF k = l THEN sets[l] \cup sets[r] ELSE sets[k]]
      /\ l # r /\ sets[l] \cap sets[r] # {}
  BY DEF MergeSets, Overlapping
<1>2. Built' = Built /\ Tensors' = Tensors
  BY <1>1 DEF Built, Tensors
<1>3. IsMap'
  BY <1>1 DEF IsMap
<1>4. \A k \in DOMAIN sets' : sets'[k] # {}
  BY <1>1 DEF OrderInv
<1>5. \A k \in DOMAIN sets : \E j \in DOMAIN sets' : sets[k] \subseteq sets'[j]
  <2> TAKE k \in DOMAIN sets
  <2>1. CASE k \in {l, r}
    <3>1. l \in DOMAIN sets' /\ sets[k] \subseteq sets'[l]
      BY <1>1, <2>1
    <3> QED BY <3>1
  <2>2. CASE k \notin {l, r}
    <3>1. k \in DOMAIN sets' /\ sets'[k] = sets[k]
      BY <1>1, <2>2
    <3> QED BY <3>1
  <2> QED BY <2>1, <2>2
<1>6. Within(Range(Built), Range(sets))'
  <2>1. ASSUME NEW b \in Range(Built) PROVE \E g \in Range(sets') : b \subseteq g
    <3>1. PICK k \in DOMAIN sets : b \subseteq sets[k]
      BY DEF OrderInv, Within, Range
    <3>2. PICK j \in DOMAIN sets' : sets[k] \subseteq sets'[j]
      BY <1>5
    <3> QED BY <3>1, <3>2 DEF Range
  <2> QED BY <1>2, <2>1 DEF Within, Range
<1>7. ASSUME NEW gs, Settled(Tensors, gs), Within(Range(Built), gs)
      PROVE  Within(Range(sets'), gs)
  <2>1. \A k \in DOMAIN sets : \E g \in gs : sets[k] \subseteq g
    BY <1>7 DEF OrderInv, Within, Range
  <2>2. PICK g \in gs : sets[l] \subseteq g
    BY <2>1
  <2>3. PICK h \in gs : sets[r] \subseteq h
    BY <2>1
  <2>4. g = h
    BY <1>1, <1>7, <2>2, <2>3 DEF Settled
  <2>5. \A k \in DOMAIN sets' : \E f \in gs : sets'[k] \subseteq f
    BY <1>1, <2>1, <2>2, <2>3, <2>4
  <2> QED BY <2>5 DEF Within, Range
<1> QED BY <1>1, <1>2, <1>3, <1>4, <1>6, <1>7 DEF OrderInv

LEMMA OrderStep == OrderInv /\ [Next]_vars => OrderInv'
<1> SUFFICES ASSUME OrderInv, [Next]_vars PROVE OrderInv'
  OBVIOUS
<1>1. ASSUME UNCHANGED <<prog, sets>>,
             updated' \in BOOLEAN,
             pc' \in {"visit", "done"} /\ ~updated' => sets = Built \/ Apart,
             pc' = "done" => ~updated'
      PROVE  OrderInv'
  <2>1. Built' = Built /\ Tensors' = Tensors /\ Apart' = Apart /\ IsMap' = IsMap /\ Range(sets)' = Range(sets)
    BY <1>1 DEF Built, Tensors, Apart, Overlapping, IsMap
  <2> QED BY <1>1, <2>1 DEF OrderInv
<1>2. CASE \E key \in DOMAIN sets : VisitSet(key)
  BY <1>2, OrderVisit
<1>3. CASE EndRound
  BY <1>1, <1>3 DEF EndRound, OrderInv
<1>4. CASE \E l, r \in DOMAIN sets : MergeSets(l, r)
  BY <1>4, OrderMerge
<1>5. CASE EndMerge
  BY <1>1, <1>5 DEF EndMerge, Apart
<1>6. CASE UNCHANGED vars
  BY <1>1, <1>6 DEF vars, OrderInv
<1> QED BY <1>2, <1>3, <1>4, <1>5, <1>6 DEF Next

(* Two settled families of groups, each within the other, are the same.     *)
LEMMA SettledSame ==
  ASSUME NEW p, NEW fs, NEW gs, Settled(p, fs), Settled(p, gs), {} \notin fs, {} \notin gs,
         Within(fs, gs), Within(gs, fs)
  PROVE  fs = gs
<1>1. ASSUME NEW as, NEW bs, Settled(p, as), {} \notin as, Within(as, bs), Within(bs, as)
      PROVE  as \subseteq bs
  <2> SUFFICES ASSUME NEW a \in as PROVE a \in bs
    OBVIOUS
  <2>1. PICK b \in bs : a \subseteq b
    BY <1>1 DEF Within
  <2>2. PICK c \in as : b \subseteq c
    BY <1>1 DEF Within
  <2>3. a \cap c # {}
    BY <1>1, <2>1, <2>2
  <2>4. a = c
    BY <1>1, <2>3 DEF Settled
  <2> QED BY <2>1, <2>2, <2>4
<1> QED BY <1>1

LEMMA OrderHolds == OrderInv /\ AtFixpoint => OrderIrrelevant
<1> SUFFICES ASSUME OrderInv, AtFixpoint, pc = "done", sets # Built, NEW n \in Rounds(Programs[prog]),
                    Settled(Tensors, Together(Programs[prog], n))
             PROVE  Range(sets) = Together(Programs[prog], n)
  BY DEF OrderIrrelevant
<1> DEFINE gs == Together(Programs[prog], n)
<1>1. n \in Nat
  <2>1. prog \in DOMAIN Programs /\ Programs[prog].tensors \in Seq(Tensor)
    BY ProgramsAssumption DEF OrderInv
  <2>2. Len(Programs[prog].tensors) \in Nat
    BY <2>1
  <2> QED BY <2>2 DEF Rounds
<1>2. {} \notin Range(BuiltOf(Programs[prog]))
  BY BuiltNonempty DEF OrderInv, Built, Range
<1>3. /\ {} \notin gs
      /\ Within(Range(Built), gs)
      /\ \A ss : Settled(Tensors, ss) /\ Within(Range(Built), ss) => Within(gs, ss)
  BY <1>1, <1>2, TogetherFacts DEF Built, Tensors
<1> HIDE DEF gs
<1>4. Settled(Tensors, Range(sets))
  <2>1. Apart
    BY DEF OrderInv
  <2>2. \A key \in DOMAIN sets : \A d \in sets[key] : VisitDim(Tensors, Range(sets), d) \subseteq sets[key]
    BY DEF AtFixpoint, Visited
  <2>3. \A g, h \in Range(sets) : g # h => g \cap h = {}
    BY <2>1 DEF Apart, Overlapping, Range
  <2>4. \A g \in Range(sets) : \A d \in g : VisitDim(Tensors, Range(sets), d) \subseteq g
    BY <2>2 DEF Range
  <2> QED BY <2>3, <2>4 DEF Settled
<1>5. Settled(Tensors, gs)
  BY DEF gs
<1>6. Within(Range(sets), gs) /\ Within(gs, Range(sets)) /\ {} \notin Range(sets)
  BY <1>3, <1>4, <1>5 DEF OrderInv, Range
<1>7. Range(sets) = gs
  BY <1>3, <1>4, <1>5, <1>6, SettledSame
<1> QED BY <1>7 DEF gs

(***************************************************************************)
(* The groups do not depend on the order in which the hash map yields the   *)
(* sets, nor on that of merging (updateDimSets, mergeDimSets): they are     *)
(* those that come out if all dimensions are visited at once.               *)
(***************************************************************************)
THEOREM OrderNeverMatters == Spec => []OrderIrrelevant
<1>1. Spec => []OrderInv
  BY OrderInit, OrderStep, PTL DEF Spec
<1> QED BY <1>1, StopsAtFixpoint, OrderHolds, PTL

-----------------------------------------------------------------------------
(***************************************************************************)
(* What can be proved of Terminates without fairness: every step of the     *)
(* analysis brings its end nearer. Visits only find dimensions with axes up *)
(* to n, the longest shape of the program, so there are finitely many to    *)
(* find, whether or not the program can run.                               *)
(***************************************************************************)
UpTo(p, n) == \A t \in DOMAIN p : Rank(p, t) <= n /\ Len(p[t].shape) <= n
Longest(p) == CHOOSE n \in Nat : UpTo(p, n)

LEMMA Lengths ==
  ASSUME NEW p, Formed(p), NEW t \in DOMAIN p
  PROVE  Rank(p, t) \in Nat /\ Len(p[t].shape) \in Nat /\ DOMAIN p[t].shape = 1..Len(p[t].shape)
<1>1. p[t] \in Tensor
  BY DEF Formed
<1>2. p[t].dims \in Seq(Nat) /\ p[t].shape \in Seq(Nat)
  BY <1>1 DEF Tensor
<1> QED BY <1>2 DEF Rank

LEMMA LongestExists ==
  ASSUME NEW p, Formed(p)
  PROVE  Longest(p) \in Nat /\ UpTo(p, Longest(p))
<1>0. Len(p) \in Nat /\ DOMAIN p = 1..Len(p)
  BY DEF Formed
<1> DEFINE Short(t, n) == Rank(p, t) <= n /\ Len(p[t].shape) <= n
           S == {m \in Nat : m <= Len(p) => \E n \in Nat : \A t \in 1..m : Short(t, n)}
<1>1. 0 \in S
  OBVIOUS
<1>2. ASSUME NEW m \in Nat, m \in S PROVE m + 1 \in S
  <2> SUFFICES ASSUME m + 1 <= Len(p)
               PROVE  \E n \in Nat : \A t \in 1..(m + 1) : Short(t, n)
    OBVIOUS
  <2>1. PICK n \in Nat : \A t \in 1..m : Short(t, n)
    BY <1>0, <1>2
  <2>2. m + 1 \in DOMAIN p
    BY <1>0
  <2> DEFINE r == Rank(p, m + 1)
             l == Len(p[m + 1].shape)
  <2>3. r \in Nat /\ l \in Nat
    BY <2>2, Lengths
  <2>4. \A t \in 1..m : Rank(p, t) \in Nat /\ Len(p[t].shape) \in Nat
    <3>1. \A t \in 1..m : t \in DOMAIN p
      BY <1>0
    <3> QED BY <3>1, Lengths
  <2> HIDE DEF r, l
  <2>5. n + r + l \in Nat /\ r <= n + r + l /\ l <= n + r + l /\ n <= n + r + l
    BY <2>3
  <2>6. \A t \in 1..m : Short(t, n + r + l)
    BY <2>1, <2>4, <2>5
  <2>7. Short(m + 1, n + r + l)
    BY <2>5 DEF r, l
  <2>8. \A t \in 1..(m + 1) : t \in 1..m \/ t = m + 1
    OBVIOUS
  <2> QED BY <2>5, <2>6, <2>7, <2>8
<1> HIDE DEF S
<1>3. Nat \subseteq S
  BY <1>1, <1>2, Induction
<1>4. Len(p) \in S
  BY <1>0, <1>3
<1>5. \E n \in Nat : \A t \in 1..Len(p) : Short(t, n)
  BY <1>0, <1>4 DEF S
<1>6. \E n \in Nat : UpTo(p, n)
  BY <1>0, <1>5 DEF UpTo
<1> QED BY <1>6 DEF Longest

LEMMA UnknownUpTo ==
  ASSUME NEW p, Formed(p), NEW n \in Nat, UpTo(p, n), NEW t \in DOMAIN p, NEW k, IsUnknown(p, t, k)
  PROVE  k \in 1..n
<1>1. Rank(p, t) \in Nat /\ Rank(p, t) <= n
  BY Lengths DEF UpTo
<1> QED BY <1>1 DEF IsUnknown

LEMMA UsefulUpTo ==
  ASSUME NEW p, Formed(p), NEW n \in Nat, UpTo(p, n), NEW t \in DOMAIN p, NEW k \in 1..n
  PROVE  Useful(p, t, k) \subseteq (DOMAIN p) \X (1..n)
<1>1. CASE p[t].op = "dim"
  <2>1. 1 \in DOMAIN p[t].ins /\ p[t].ins[1] \in DOMAIN p
    BY <1>1, FormedFacts
  <2>2. p[t].attr \in 1..n
    BY <1>1, <2>1, FormedFacts, UnknownUpTo
  <2> QED BY <1>1, <2>2 DEF Useful
<1>2. CASE p[t].op # "dim"
  BY <1>2 DEF Useful
<1> QED BY <1>1, <1>2

LEMMA AllUsefulUpTo ==
  ASSUME NEW p, Formed(p), NEW n \in Nat, UpTo(p, n), NEW S, S \subseteq (DOMAIN p) \X (1..n)
  PROVE  AllUseful(p, S) \subseteq (DOMAIN p) \X (1..n)
<1> SUFFICES ASSUME NEW d \in S
             PROVE  Useful(p, d[1], d[2]) \subseteq (DOMAIN p) \X (1..n)
  BY DEF AllUseful
<1>1. d[1] \in DOMAIN p /\ d[2] \in 1..n
  OBVIOUS
<1> QED BY <1>1, UsefulUpTo

LEMMA MeetingUpTo ==
  ASSUME NEW p, Formed(p), NEW n \in Nat, UpTo(p, n), NEW u \in DOMAIN p, NEW h \in Meeting(p, u)
  PROVE  h \subseteq (DOMAIN p) \X (1..n)
<1> DEFINE x == p[u].ins
<1>1. \A i \in DOMAIN x : x[i] \in DOMAIN p /\ Rank(p, x[i]) \in Nat /\ Rank(p, x[i]) <= n
  BY FormedFacts, Lengths DEF UpTo
<1>t. Typed(p, u) /\ Rank(p, u) \in Nat
  BY Lengths DEF Formed, WellFormed
<1>2. CASE p[u].op = "concat"
  <2>1. 1 \in DOMAIN x
    BY <1>2, FormedFacts
  <2>2. PICK k \in 1..Rank(p, x[1]) : h = {<<x[i], k>> : i \in DOMAIN x}
    BY <1>2 DEF Meeting
  <2>3. k \in 1..n
    BY <1>1, <2>1
  <2> QED BY <1>1, <2>2, <2>3
<1>3. CASE p[u].op = "gemm"
  <2>1. 1 \in DOMAIN x /\ 2 \in DOMAIN x
    BY <1>3, FormedFacts
  <2>2. /\ Rank(p, x[1]) = 2 /\ Rank(p, x[2]) = 2
        /\ p[u].attrs[1] \in {0, 1} /\ p[u].attrs[2] \in {0, 1}
    BY <1>3, <1>t DEF Typed, OfRank
  <2>3. 2 - p[u].attrs[1] \in 1..n /\ 1 + p[u].attrs[2] \in 1..n
    BY <1>1, <2>1, <2>2
  <2>4. h = {<<x[1], 2 - p[u].attrs[1]>>, <<x[2], 1 + p[u].attrs[2]>>}
    BY <1>3 DEF Meeting
  <2> QED BY <1>1, <2>1, <2>3, <2>4
<1>4. CASE p[u].op = "matmul"
  <2>1. 1 \in DOMAIN x /\ 2 \in DOMAIN x
    BY <1>4, FormedFacts
  <2>2. Rank(p, x[1]) \in 2..Rank(p, u) /\ Rank(p, x[2]) \in 2..Rank(p, u)
    BY <1>4, <1>t DEF Typed
  <2>3. Rank(p, x[1]) \in 1..n /\ Rank(p, x[2]) - 1 \in 1..n
    BY <1>1, <1>t, <2>1, <2>2
  <2>4. h = {<<x[1], Rank(p, x[1])>>, <<x[2], Rank(p, x[2]) - 1>>}
    BY <1>4 DEF Meeting
  <2> QED BY <1>1, <2>1, <2>3, <2>4
<1>5. CASE p[u].op = "gru"
  <2>1. 1 \in DOMAIN x /\ 2 \in DOMAIN x /\ 3 \in DOMAIN x
    BY <1>5, FormedFacts
  <2>2. Rank(p, x[1]) = 3 /\ p[u].attr \in {0, 1}
    BY <1>5, <1>t DEF Typed, OfRank
  <2>3. 2 - p[u].attr \in 1..n /\ 1 \in 1..n
    BY <1>1, <2>1, <2>2
  <2>4. h = {<<x[1], 2 - p[u].attr>>, <<x[2], 1>>, <<x[3], 2 - p[u].attr>>}
    BY <1>5 DEF Meeting
  <2> QED BY <1>1, <2>1, <2>3, <2>4
<1> QED BY <1>2, <1>3, <1>4, <1>5 DEF Meeting

LEMMA HelperPairs ==
  ASSUME NEW p, NEW t, NEW k, NEW d \in HelperDims(p, t, k)
  PROVE  d = <<d[1], d[2]>>
<1>1. CASE p[t].op = "broadcast"
  <2>1. d \in BroadcastHelper(p, t, k)
    BY <1>1 DEF HelperDims
  <2> QED BY <2>1 DEF BroadcastHelper
<1>2. CASE p[t].op \in {"matmul", "gemm"}
  <2>1. d \in MatMulHelper(p, t, k) \/ d \in GemmHelper(p, t, k)
    BY <1>2 DEF HelperDims
  <2> QED BY <2>1 DEF MatMulHelper, GemmHelper
<1>3. CASE p[t].op \in {"transpose", "expand", "tile"}
  BY <1>3 DEF HelperDims
<1>4. CASE p[t].op = "concat"
  BY <1>4 DEF HelperDims, ConcatHelper
<1>5. CASE p[t].op = "gru"
  BY <1>5 DEF HelperDims, GruHelper
<1>6. CASE p[t].op = "reshape"
  <2>1. d \in ReshapeHelper(p, t, k)
    BY <1>6 DEF HelperDims
  <2> QED BY <2>1 DEF ReshapeHelper
<1> QED BY <1>1, <1>2, <1>3, <1>4, <1>5, <1>6 DEF HelperDims

(* The index that EqualOperands counts back to is one of the output's axes.  *)
LEMMA EqualOperandsUpTo ==
  ASSUME NEW p, Formed(p), NEW n \in Nat, UpTo(p, n), NEW t \in DOMAIN p, NEW k \in 1..n, NEW groups
  PROVE  EqualOperands(p, groups, t, k) \subseteq (DOMAIN p) \X (1..n)
<1> DEFINE x == p[t].ins
<1>1. \A i \in DOMAIN x : x[i] \in DOMAIN p /\ Rank(p, x[i]) \in Nat
  BY FormedFacts, Lengths
<1> SUFFICES ASSUME NEW i \in DOMAIN x, NEW j \in DOMAIN x, SameAt(p, groups, t, k, i, j)
             PROVE  Useful(p, x[i], Rank(p, x[i]) + CountedBack(p, t, k, i, j) + 1)
                      \subseteq (DOMAIN p) \X (1..n)
  BY DEF EqualOperands
<1> DEFINE a == Rank(p, x[i])
           b == Rank(p, x[j])
           back == CountedBack(p, t, k, i, j)
<1>2. a \in Nat /\ b \in Nat
  BY <1>1
<1>3. back = (k - 1) - Max({a, b})
  BY DEF CountedBack
<1>4. Max({a, b}) \in Nat /\ Max({a, b}) >= a
  <2> HIDE DEF a, b
  <2> QED BY <1>2, MaxOfTwo
<1>5. Axis(p, x[i], back) \in 1..a
  BY DEF SameAt
<1> HIDE DEF back
<1>6. back < 0 => a + back + 1 \in 1..a
  BY <1>5 DEF Axis
<1> HIDE DEF a, b
<1>7. back \in Int /\ a + back + 1 <= k
  BY <1>2, <1>3, <1>4
<1>8. a + back + 1 \in 1..n
  BY <1>2, <1>6, <1>7
<1> QED BY <1>1, <1>8, UsefulUpTo DEF a, back

LEMMA SpecialCasesUpTo ==
  ASSUME NEW p, Formed(p), NEW n \in Nat, UpTo(p, n), NEW t \in DOMAIN p, NEW k \in 1..n, NEW groups
  PROVE  SpecialCases(p, groups, t, k) \subseteq (DOMAIN p) \X (1..n)
<1>1. CASE p[t].op \in {"broadcast", "matmul"}
  BY <1>1, EqualOperandsUpTo DEF SpecialCases
<1>2. CASE p[t].op = "reshape"
  <2> DEFINE x == p[t].ins[1]
  <2>1. x \in DOMAIN p
    <3>1. 1 \in DOMAIN p[t].ins
      BY <1>2, FormedFacts
    <3> QED BY <3>1, FormedFacts
  <2>2. Rank(p, x) \in Nat /\ Rank(p, x) <= n
    BY <2>1, Lengths DEF UpTo
  <2>3. OnlyUnknown(p, t) \subseteq {<<x, l>> : l \in 1..Rank(p, x)}
    BY DEF OnlyUnknown
  <2>4. OtherOfTwo(p, groups, t, k) \subseteq {<<x, l>> : l \in 1..Rank(p, x)}
    <3>1. Rank(p, x) = 2 => 1 \in 1..Rank(p, x) /\ 2 \in 1..Rank(p, x)
      OBVIOUS
    <3> QED BY <3>1 DEF OtherOfTwo
  <2>5. {<<x, l>> : l \in 1..Rank(p, x)} \subseteq (DOMAIN p) \X (1..n)
    BY <2>1, <2>2
  <2> DEFINE found == OnlyUnknown(p, t) \cup OtherOfTwo(p, groups, t, k)
  <2>6. found \subseteq (DOMAIN p) \X (1..n)
    BY <2>3, <2>4, <2>5
  <2> HIDE DEF found
  <2>7. AllUseful(p, found) \subseteq (DOMAIN p) \X (1..n)
    BY <2>6, AllUsefulUpTo
  <2> QED BY <1>2, <2>7 DEF SpecialCases, found
<1> QED BY <1>1, <1>2 DEF SpecialCases

LEMMA VisitUpTo ==
  ASSUME NEW p, Formed(p), NEW n \in Nat, UpTo(p, n), NEW groups,
         NEW e \in (DOMAIN p) \X (1..n), Inside(p, e)
  PROVE  VisitDim(p, groups, e) \subseteq (DOMAIN p) \X (1..n)
<1> SUFFICES ASSUME NEW d \in VisitDim(p, groups, e)
             PROVE  d \in (DOMAIN p) \X (1..n)
  OBVIOUS
<1> DEFINE t == e[1]
           k == e[2]
<1>1. t \in DOMAIN p /\ k \in 1..n
  OBVIOUS
<1>2. CASE d \in FromConsumers(p, e)
  <2>1. PICK u \in DOMAIN p : \E h \in Meeting(p, u) : d \in AllUseful(p, h \ {e})
    BY <1>2 DEF FromConsumers
  <2>2. PICK h \in Meeting(p, u) : d \in AllUseful(p, h \ {e})
    BY <2>1
  <2>3. h \ {e} \subseteq (DOMAIN p) \X (1..n)
    BY MeetingUpTo
  <2> QED BY <2>2, <2>3, AllUsefulUpTo
<1>3. CASE d \in FromDefinition(p, groups, t, k)
  <2>1. CASE p[t].op \in {"argument", "constant"}
    BY <1>3, <2>1 DEF FromDefinition
  <2>2. CASE p[t].op \in {"dim", "cast"}
    <3>1. p[t].ins[1] \in DOMAIN p
      <4>1. 1 \in DOMAIN p[t].ins
        BY <1>1, <2>2, FormedFacts
      <4> QED BY <1>1, <4>1, FormedFacts
    <3>2. CASE p[t].op = "dim"
      <4>1. d = <<p[t].ins[1], p[t].attr>>
        BY <1>3, <3>2 DEF FromDefinition
      <4>2. p[t].attr \in 1..n
        BY <1>1, <3>1, <3>2, FormedFacts, UnknownUpTo
      <4> QED BY <3>1, <4>1, <4>2
    <3>3. CASE p[t].op = "cast"
      <4>1. d \in Useful(p, p[t].ins[1], k)
        BY <1>3, <3>3 DEF FromDefinition
      <4> QED BY <1>1, <3>1, <4>1, UsefulUpTo
    <3> QED BY <2>2, <3>2, <3>3
  <2>3. CASE p[t].op \notin {"argument", "constant", "dim", "cast"}
    <3>1. k \in 1..Rank(p, t)
      BY <2>3 DEF Inside, Visitable, IsUnknown
    <3>2. d \in FromHelper(p, t, k) \cup FromShapeInput(p, t, k) \cup SpecialCases(p, groups, t, k)
      BY <1>3, <2>3 DEF FromDefinition
    <3>3. CASE d \in FromHelper(p, t, k)
      <4>1. d \in HelperDims(p, t, k) /\ IsUnknown(p, d[1], d[2])
        BY <3>3 DEF FromHelper
      <4>2. d = <<d[1], d[2]>> /\ d[1] \in DOMAIN p
        BY <1>1, <4>1, HelperPairs, HelperInside
      <4>3. d[2] \in 1..n
        BY <4>1, <4>2, UnknownUpTo
      <4> QED BY <4>2, <4>3
    <3>4. CASE d \in FromShapeInput(p, t, k)
      <4>1. PICK i \in ShapeElements(p, t, k) : d \in Useful(p, p[t].shape[i], i)
        BY <3>4 DEF FromShapeInput
      <4>2. i \in DOMAIN p[t].shape
        <5>1. CASE p[t].op = "centerCropPad"
          BY <1>1, <4>1, <5>1, FormedFacts DEF ShapeElements
        <5>2. CASE p[t].op # "centerCropPad"
          <6>1. i = k /\ p[t].op \in {"constantOfShape", "expand", "reshape", "tile"}
            BY <4>1, <5>2 DEF ShapeElements
          <6>2. DOMAIN p[t].shape = 1..Rank(p, t)
            BY <1>1, <6>1, FormedFacts
          <6> QED BY <3>1, <6>1, <6>2
        <5> QED BY <5>1, <5>2
      <4>3. p[t].shape[i] \in DOMAIN p
        BY <1>1, <4>2, FormedFacts
      <4>4. i \in 1..n
        <5>1. Len(p[t].shape) \in Nat /\ Len(p[t].shape) <= n /\ i \in 1..Len(p[t].shape)
          BY <1>1, <4>2, Lengths DEF UpTo
        <5> QED BY <5>1
      <4> QED BY <4>1, <4>3, <4>4, UsefulUpTo
    <3>5. CASE d \in SpecialCases(p, groups, t, k)
      BY <1>1, <3>5, SpecialCasesUpTo
    <3> QED BY <3>2, <3>3, <3>4, <3>5
  <2> QED BY <2>1, <2>2, <2>3
<1> QED BY <1>2, <1>3 DEF VisitDim

(***************************************************************************)
(* The variant, in the order of what weighs most: the sets there are, the   *)
(* dimensions that they might still be given, how far the round is from the *)
(* end of the analysis, and the sets it has still to visit.                *)
(***************************************************************************)
Space == (DOMAIN Tensors) \X (1..Longest(Tensors))
Missing == {m \in (DOMAIN sets) \X Space : m[2] \notin sets[m[1]]}
RoundsToGo == CASE pc = "visit" /\ updated -> 3
                [] pc = "merge" -> 2
                [] pc = "visit" /\ ~updated -> 1
                [] pc = "done" -> 0

LeftToFind == [n \in 1..4 |->
  CASE n = 1 -> Cardinality(DOMAIN sets)
    [] n = 2 -> Cardinality(Missing)
    [] n = 3 -> RoundsToGo
    [] n = 4 -> Cardinality(todo)]

\* Descending tuples of numbers come to an end (WFLexProductOrdering).
Less == LexProductOrdering(OpToRel(<, Nat), Nat, 4)

Nearer == <<LeftToFind', LeftToFind>> \in Less

(* Every visit, every merge and every end of a round or of merging brings    *)
(* the end of analyze nearer.                                                *)
AnalysisAdvances == [][Nearer]_vars

LEMMA LessIsWellFounded == IsWellFoundedOn(Less, [1..4 -> Nat])
BY NatLessThanWellFounded, WFLexProductOrdering DEF Less

LEMMA LessAt ==
  ASSUME NEW a \in [1..4 -> Nat], NEW b \in [1..4 -> Nat], NEW n \in 1..4,
         \A i \in 1..(n - 1) : a[i] = b[i], a[n] < b[n]
  PROVE  <<a, b>> \in Less
<1>1. <<a[n], b[n]>> \in OpToRel(<, Nat)
  BY DEF OpToRel
<1> QED BY <1>1 DEF Less, LexProductOrdering

LEMMA Smaller ==
  ASSUME NEW S, IsFiniteSet(S), NEW T \in SUBSET S, T # S
  PROVE  Cardinality(T) < Cardinality(S)
BY FS_Subset, FS_CardinalityType

(* What there is to find is finite, and everything found is in it. *)
SpaceInv ==
  /\ IsMap
  /\ IsFiniteSet(DOMAIN sets)
  /\ \A key \in DOMAIN sets : sets[key] \subseteq Space
  /\ todo \subseteq DOMAIN sets
  /\ pc = "merge" => todo = {}
  /\ updated \in BOOLEAN
  /\ pc \in {"visit", "merge", "done"}

LEMMA SpaceIsFinite ==
  ASSUME prog \in DOMAIN Programs
  PROVE  IsFiniteSet(Space)
<1>1. Formed(Tensors)
  BY TensorsFormed
<1>2. Len(Tensors) \in Nat /\ DOMAIN Tensors = 1..Len(Tensors) /\ Longest(Tensors) \in Nat
  BY <1>1, LongestExists DEF Formed
<1>3. IsFiniteSet(DOMAIN Tensors) /\ IsFiniteSet(1..Longest(Tensors))
  BY <1>2, FS_Interval
<1> QED BY <1>3, FS_Product DEF Space

LEMMA SpaceInitially == Init => SpaceInv
<1> SUFFICES ASSUME Init
             PROVE  SpaceInv
  OBVIOUS
<1>0. /\ prog \in DOMAIN Programs /\ sets = Built /\ todo = DOMAIN sets
      /\ updated = FALSE /\ pc = "visit"
  BY DEF Init
<1>1. Formed(Tensors)
  BY <1>0, TensorsFormed
<1>2. UnknownDims(Tensors, DOMAIN Tensors) \subseteq Space
  <2> SUFFICES ASSUME NEW d \in UnknownDims(Tensors, DOMAIN Tensors)
               PROVE  d \in Space
    OBVIOUS
  <2>1. PICK t \in DOMAIN Tensors : \E k : d = <<t, k>> /\ IsUnknown(Tensors, t, k)
    BY DEF UnknownDims
  <2>2. PICK k : d = <<t, k>> /\ IsUnknown(Tensors, t, k)
    BY <2>1
  <2>3. k \in 1..Longest(Tensors)
    BY <1>1, <2>2, LongestExists, UnknownUpTo
  <2> QED BY <2>2, <2>3 DEF Space
<1>3. \A key \in DOMAIN sets : sets[key] \subseteq Space
  BY <1>0, <1>2, BuiltSets
<1>4. IsMap
  BY <1>0 DEF IsMap, Built, BuiltOf
<1>5. DOMAIN sets \subseteq {"function", "operation"} \X SUBSET Space
  <2>1. \A key \in DOMAIN Built : key = <<key[1], Built[key]>> /\ key[1] \in {"function", "operation"}
    BY DEF Built, BuiltOf
  <2> QED BY <1>0, <1>3, <2>1
<1>6. IsFiniteSet({"function", "operation"} \X SUBSET Space)
  <2>1. IsFiniteSet({"function", "operation"})
    <3>1. IsFiniteSet({"function"} \cup {"operation"})
      BY FS_Singleton, FS_Union
    <3>2. {"function"} \cup {"operation"} = {"function", "operation"}
      OBVIOUS
    <3> QED BY <3>1, <3>2
  <2>2. IsFiniteSet(SUBSET Space)
    BY <1>0, SpaceIsFinite, FS_SUBSET
  <2> QED BY <2>1, <2>2, FS_Product
<1>7. IsFiniteSet(DOMAIN sets)
  BY <1>5, <1>6, FS_Subset
<1> QED BY <1>0, <1>3, <1>4, <1>7 DEF SpaceInv

LEMMA VisitedInSpace ==
  ASSUME InsideInv, SpaceInv, NEW key \in DOMAIN sets
  PROVE  Visited(key) \subseteq Space
<1>1. Formed(Tensors)
  BY TensorsFormed DEF InsideInv
<1>2. Longest(Tensors) \in Nat /\ UpTo(Tensors, Longest(Tensors))
  BY <1>1, LongestExists
<1>3. \A d \in sets[key] : Inside(Tensors, d) /\ d \in Space
  BY DEF InsideInv, SpaceInv
<1>4. \A d \in sets[key] : VisitDim(Tensors, Range(sets), d) \subseteq Space
  BY <1>1, <1>2, <1>3, VisitUpTo DEF Space
<1> QED BY <1>4 DEF Visited

LEMMA SpaceStep == InsideInv /\ SpaceInv /\ [Next]_vars => SpaceInv'
<1> SUFFICES ASSUME InsideInv, SpaceInv, [Next]_vars
             PROVE  SpaceInv'
  OBVIOUS
<1>1. prog' = prog => Space' = Space
  BY DEF Space, Tensors
<1>2. ASSUME NEW key \in DOMAIN sets, VisitSet(key)
      PROVE  SpaceInv'
  <2>1. Visited(key) \subseteq Space
    BY VisitedInSpace
  <2>2. /\ prog' = prog /\ sets' = [sets EXCEPT ![key] = @ \cup Visited(key)]
        /\ todo' = todo \ {key} /\ updated' \in BOOLEAN /\ pc' = pc
    BY <1>2 DEF VisitSet, SpaceInv
  <2>3. DOMAIN sets' = DOMAIN sets /\ IsMap'
    BY <2>2 DEF IsMap, SpaceInv
  <2>4. \A k \in DOMAIN sets : sets'[k] \subseteq Space
    BY <2>1, <2>2 DEF SpaceInv
  <2> QED BY <1>1, <2>2, <2>3, <2>4 DEF SpaceInv
<1>3. CASE EndRound
  BY <1>1, <1>3 DEF EndRound, SpaceInv, IsMap
<1>4. ASSUME NEW l \in DOMAIN sets, NEW r \in DOMAIN sets, MergeSets(l, r)
      PROVE  SpaceInv'
  <2>1. /\ pc = "merge" /\ UNCHANGED <<prog, todo, updated, pc>>
        /\ sets' = [k \in DOMAIN sets \ {r} |-> IF k = l THEN sets[l] \cup sets[r] ELSE sets[k]]
    BY <1>4 DEF MergeSets
  <2>2. DOMAIN sets' = DOMAIN sets \ {r} /\ IsMap'
    BY <2>1 DEF IsMap
  <2>3. IsFiniteSet(DOMAIN sets')
    BY <2>2, FS_Subset DEF SpaceInv
  <2>4. \A k \in DOMAIN sets' : sets'[k] \subseteq Space
    BY <2>1, <2>2 DEF SpaceInv
  <2>5. todo = {}
    BY <2>1 DEF SpaceInv
  <2> QED BY <1>1, <2>1, <2>2, <2>3, <2>4, <2>5 DEF SpaceInv
<1>5. CASE EndMerge
  BY <1>1, <1>5 DEF EndMerge, SpaceInv, IsMap
<1>6. CASE UNCHANGED vars
  BY <1>1, <1>6 DEF vars, SpaceInv, IsMap
<1> QED BY <1>2, <1>3, <1>4, <1>5, <1>6 DEF Next

Counted ==
  /\ LeftToFind \in [1..4 -> Nat]
  /\ LeftToFind[1] = Cardinality(DOMAIN sets)
  /\ LeftToFind[2] = Cardinality(Missing)
  /\ LeftToFind[3] = RoundsToGo
  /\ LeftToFind[4] = Cardinality(todo)

LEMMA MissingIsFinite == ASSUME InsideInv, SpaceInv PROVE IsFiniteSet(Missing)
<1>1. IsFiniteSet(DOMAIN sets) /\ IsFiniteSet(Space)
  BY SpaceIsFinite DEF InsideInv, SpaceInv
<1>2. IsFiniteSet((DOMAIN sets) \X Space)
  BY <1>1, FS_Product
<1>3. Missing \subseteq (DOMAIN sets) \X Space
  BY DEF Missing
<1> QED BY <1>2, <1>3, FS_Subset

LEMMA LeftIsCounted == ASSUME InsideInv, SpaceInv PROVE Counted
<1>1. IsFiniteSet(DOMAIN sets) /\ IsFiniteSet(Missing) /\ IsFiniteSet(todo)
  BY MissingIsFinite, FS_Subset DEF SpaceInv
<1>2. /\ Cardinality(DOMAIN sets) \in Nat /\ Cardinality(Missing) \in Nat
      /\ Cardinality(todo) \in Nat
  BY <1>1, FS_CardinalityType
<1>3. RoundsToGo \in Nat
  BY DEF RoundsToGo, SpaceInv
<1>4. \A n \in 1..4 : n = 1 \/ n = 2 \/ n = 3 \/ n = 4
  OBVIOUS
<1>5. /\ LeftToFind[1] = Cardinality(DOMAIN sets) /\ LeftToFind[2] = Cardinality(Missing)
      /\ LeftToFind[3] = RoundsToGo /\ LeftToFind[4] = Cardinality(todo)
  BY DEF LeftToFind
<1>6. \A n \in 1..4 : LeftToFind[n] \in Nat
  BY <1>2, <1>3, <1>4, <1>5
<1> QED BY <1>5, <1>6 DEF LeftToFind, Counted

LEMMA VisitAdvances ==
  ASSUME InsideInv, SpaceInv, Counted, Counted', NEW key \in DOMAIN sets, VisitSet(key)
  PROVE  <<LeftToFind', LeftToFind>> \in Less
<1>1. /\ prog' = prog /\ pc = "visit" /\ pc' = "visit" /\ key \in todo
      /\ sets' = [sets EXCEPT ![key] = @ \cup Visited(key)]
      /\ updated' = (updated \/ ~(Visited(key) \subseteq sets[key]))
      /\ todo' = todo \ {key}
  BY DEF VisitSet
<1>2. DOMAIN sets' = DOMAIN sets /\ Space' = Space
  BY <1>1 DEF Space, Tensors
<1>3. LeftToFind'[1] = LeftToFind[1]
  BY <1>2 DEF Counted
<1>4. CASE Visited(key) \subseteq sets[key]
  <2>1. sets' = sets
    BY <1>1, <1>4, NothingAdded DEF IsMap, SpaceInv
  <2>2. Missing' = Missing
    BY <1>2, <2>1 DEF Missing
  <2>3. RoundsToGo' = RoundsToGo
    BY <1>1, <1>4 DEF RoundsToGo, SpaceInv
  <2>4. IsFiniteSet(todo)
    BY FS_Subset DEF SpaceInv
  <2>5. Cardinality(todo') < Cardinality(todo)
    BY <1>1, <2>4, Smaller
  <2>6. LeftToFind'[2] = LeftToFind[2] /\ LeftToFind'[3] = LeftToFind[3]
    BY <2>2, <2>3 DEF Counted
  <2>7. LeftToFind'[4] < LeftToFind[4]
    BY <2>5 DEF Counted
  <2>8. \A i \in 1..(4 - 1) : LeftToFind'[i] = LeftToFind[i]
    BY <1>3, <2>6
  <2> QED BY <2>7, <2>8, LessAt DEF Counted
<1>5. CASE ~(Visited(key) \subseteq sets[key])
  <2>1. PICK d \in Visited(key) : d \notin sets[key]
    BY <1>5
  <2>2. d \in Space
    BY <2>1, VisitedInSpace
  <2>3. \A k \in DOMAIN sets : sets[k] \subseteq sets'[k]
    BY <1>1
  <2>4. d \in sets'[key]
    BY <1>1, <2>1
  <2>5. <<key, d>> \in Missing /\ <<key, d>> \notin Missing'
    BY <2>1, <2>2, <2>4 DEF Missing
  <2>6. Missing' \subseteq Missing
    BY <1>2, <2>3 DEF Missing
  <2>7. Cardinality(Missing') < Cardinality(Missing)
    BY <2>5, <2>6, MissingIsFinite, Smaller
  <2>8. LeftToFind'[2] < LeftToFind[2]
    BY <2>7 DEF Counted
  <2>9. \A i \in 1..(2 - 1) : LeftToFind'[i] = LeftToFind[i]
    BY <1>3
  <2> QED BY <2>8, <2>9, LessAt DEF Counted
<1> QED BY <1>4, <1>5

LEMMA EndRoundAdvances ==
  ASSUME SpaceInv, Counted, Counted', EndRound \/ EndMerge
  PROVE  <<LeftToFind', LeftToFind>> \in Less
<1>1. prog' = prog /\ sets' = sets
  BY DEF EndRound, EndMerge
<1>2. Missing' = Missing
  BY <1>1 DEF Missing, Space, Tensors
<1>3. RoundsToGo' \in Nat /\ RoundsToGo \in Nat /\ RoundsToGo' < RoundsToGo
  BY DEF EndRound, EndMerge, RoundsToGo, SpaceInv
<1>4. LeftToFind'[1] = LeftToFind[1] /\ LeftToFind'[2] = LeftToFind[2]
  BY <1>1, <1>2 DEF Counted
<1>5. LeftToFind'[3] < LeftToFind[3]
  BY <1>3 DEF Counted
<1>6. \A i \in 1..(3 - 1) : LeftToFind'[i] = LeftToFind[i]
  BY <1>4
<1> QED BY <1>5, <1>6, LessAt DEF Counted

LEMMA MergeAdvances ==
  ASSUME SpaceInv, Counted, Counted', NEW l \in DOMAIN sets, NEW r \in DOMAIN sets, MergeSets(l, r)
  PROVE  <<LeftToFind', LeftToFind>> \in Less
<1>1. DOMAIN sets' = DOMAIN sets \ {r}
  BY DEF MergeSets
<1>2. Cardinality(DOMAIN sets') < Cardinality(DOMAIN sets)
  BY <1>1, Smaller DEF SpaceInv
<1>3. LeftToFind'[1] < LeftToFind[1]
  BY <1>2 DEF Counted
<1>4. \A i \in 1..(1 - 1) : LeftToFind'[i] = LeftToFind[i]
  OBVIOUS
<1> QED BY <1>3, <1>4, LessAt DEF Counted

(***************************************************************************)
(* The variant of analyze: whatever the program, the order of the visits    *)
(* and that of the merges, and though a visit may give a set new members    *)
(* after others were merged away, no analysis goes on for ever.            *)
(***************************************************************************)
THEOREM AnalysisAlwaysAdvances == Spec => AnalysisAdvances
<1>1. Init => InsideInv /\ SpaceInv
  BY InsideInitially, SpaceInitially
<1>2. InsideInv /\ SpaceInv /\ [Next]_vars => InsideInv' /\ SpaceInv'
  BY InsideStep, SpaceStep
<1>3. InsideInv /\ SpaceInv => Counted
  BY LeftIsCounted
<1>4. InsideInv /\ SpaceInv /\ Counted /\ Counted' /\ [Next]_vars
        => [Nearer]_vars
  BY VisitAdvances, EndRoundAdvances, MergeAdvances DEF Next, Nearer
<1> QED BY <1>1, <1>2, <1>3, <1>4, PTL DEF Spec, AnalysisAdvances

(* A visit always finds its sets, and a dimension found is a pair of a       *)
(* tensor and an axis: the state has the type it is given.                   *)
THEOREM TypeCorrect == Spec => []TypeOK
<1>1. Init => InsideInv /\ SpaceInv
  BY InsideInitially, SpaceInitially
<1>2. InsideInv /\ SpaceInv /\ [Next]_vars => InsideInv' /\ SpaceInv'
  BY InsideStep, SpaceStep
<1>3. InsideInv /\ SpaceInv => TypeOK
  <2> SUFFICES ASSUME InsideInv, SpaceInv
               PROVE  TypeOK
    OBVIOUS
  <2>1. Longest(Tensors) \in Nat
    BY TensorsFormed, LongestExists DEF InsideInv
  <2>2. Space \subseteq (DOMAIN Tensors) \X Nat
    BY <2>1 DEF Space
  <2> QED BY <2>2 DEF InsideInv, SpaceInv, TypeOK
<1> QED BY <1>1, <1>2, <1>3, PTL DEF Spec
=============================================================================
