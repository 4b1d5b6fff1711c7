------------------------- MODULE SessionCacheProofs -------------------------
(***************************************************************************)
(* Proofs about SessionCache, for any shapes, any capacity and any number   *)
(* of compilations.                                                        *)
(***************************************************************************)
EXTENDS SessionCache, FiniteSetTheorems, TLAPS

(***************************************************************************)
(* Sequences that list a set, each element once.                            *)
(***************************************************************************)
Lists(q, S) ==
  /\ q \in Seq(S)
  /\ \A x \in S : \E k \in DOMAIN q : q[k] = x
  /\ \A j, k \in DOMAIN q : q[j] = q[k] => j = k

LEMMA ListedCardinality ==
  ASSUME NEW q, NEW S, Lists(q, S)
  PROVE  IsFiniteSet(S) /\ Cardinality(S) = Len(q) /\ Len(q) \in Nat /\ ToSet(q) = S
<1>1. q \in Seq(S) /\ Len(q) \in Nat /\ DOMAIN q = 1..Len(q) /\ q \in [1..Len(q) -> S]
  BY DEF Lists
<1>2. q \in Bijection(1..Len(q), S)
  BY <1>1 DEF Lists, Bijection, Injection, Surjection, IsInjective
<1>3. ExistsBijection(1..Len(q), S)
  BY <1>2 DEF ExistsBijection
<1>4. IsFiniteSet(1..Len(q)) /\ Cardinality(1..Len(q)) = Len(q)
  <2>1. 1 \in Int /\ Len(q) \in Int
    BY <1>1
  <2>2. /\ IsFiniteSet(1..Len(q))
        /\ Cardinality(1..Len(q)) = IF 1 > Len(q) THEN 0 ELSE Len(q) - 1 + 1
    BY <2>1, FS_Interval
  <2> QED BY <1>1, <2>2
<1>5. IsFiniteSet(S) /\ Cardinality(S) = Len(q)
  BY <1>3, <1>4, FS_Bijection
<1>6. ToSet(q) = S
  BY <1>1 DEF Lists, ToSet
<1> QED BY <1>1, <1>5, <1>6

LEMMA AppendedLists ==
  ASSUME NEW q, NEW S, Lists(q, S), NEW x, x \notin S
  PROVE  Lists(Append(q, x), S \cup {x}) /\ Len(Append(q, x)) = Len(q) + 1
<1>1. q \in Seq(S) /\ Len(q) \in Nat /\ DOMAIN q = 1..Len(q)
  BY DEF Lists
<1>2. /\ Append(q, x) \in Seq(S \cup {x})
      /\ Len(Append(q, x)) = Len(q) + 1
      /\ DOMAIN Append(q, x) = 1..(Len(q) + 1)
      /\ \A k \in 1..Len(q) : Append(q, x)[k] = q[k] /\ q[k] \in S
      /\ Append(q, x)[Len(q) + 1] = x
  BY <1>1
<1>3. \A y \in S \cup {x} : \E k \in DOMAIN Append(q, x) : Append(q, x)[k] = y
  <2> SUFFICES ASSUME NEW y \in S \cup {x}
               PROVE  \E k \in DOMAIN Append(q, x) : Append(q, x)[k] = y
    OBVIOUS
  <2>1. CASE y = x
    <3>1. Len(q) + 1 \in DOMAIN Append(q, x)
      BY <1>1, <1>2
    <3> QED BY <1>2, <2>1, <3>1
  <2>2. CASE y \in S
    <3>1. PICK k \in 1..Len(q) : q[k] = y
      BY <1>1, <2>2 DEF Lists
    <3>2. k \in 1..(Len(q) + 1)
      BY <1>1
    <3> QED BY <1>2, <3>1, <3>2
  <2> QED BY <2>1, <2>2
<1>4. \A j, k \in 1..(Len(q) + 1) : Append(q, x)[j] = Append(q, x)[k] => j = k
  <2> SUFFICES ASSUME NEW j \in 1..(Len(q) + 1), NEW k \in 1..(Len(q) + 1),
                      Append(q, x)[j] = Append(q, x)[k]
               PROVE  j = k
    OBVIOUS
  <2>1. (j \in 1..Len(q) \/ j = Len(q) + 1) /\ (k \in 1..Len(q) \/ k = Len(q) + 1)
    BY <1>1
  <2>2. CASE j \in 1..Len(q) /\ k \in 1..Len(q)
    BY <1>1, <1>2, <2>2 DEF Lists
  <2>3. CASE j = Len(q) + 1 \/ k = Len(q) + 1
    BY <1>2, <2>1, <2>3
  <2> QED BY <2>1, <2>2, <2>3
<1> QED BY <1>2, <1>3, <1>4 DEF Lists

LEMMA Joined ==
  ASSUME NEW S, NEW a \in Seq(S), NEW b \in Seq(S)
  PROVE  /\ a \o b \in Seq(S)
         /\ Len(a \o b) = Len(a) + Len(b)
         /\ \A k \in 1..Len(a) : (a \o b)[k] = a[k]
         /\ \A k \in 1..Len(b) : (a \o b)[Len(a) + k] = b[k]
OBVIOUS

LEMMA RemovedLists ==
  ASSUME NEW q, NEW S, Lists(q, S), NEW k \in DOMAIN q
  PROVE  Lists(RemoveAt(q, k), S \ {q[k]}) /\ Len(RemoveAt(q, k)) = Len(q) - 1
<1> DEFINE r == RemoveAt(q, k)
           old(j) == IF j < k THEN j ELSE j + 1
<1>1. q \in Seq(S) /\ Len(q) \in Nat /\ DOMAIN q = 1..Len(q) /\ k \in 1..Len(q)
  BY DEF Lists
<1>2. /\ SubSeq(q, 1, k - 1) \in Seq(S) /\ Len(SubSeq(q, 1, k - 1)) = k - 1
      /\ \A j \in 1..(k - 1) : SubSeq(q, 1, k - 1)[j] = q[j]
  BY <1>1
<1>3. /\ SubSeq(q, k + 1, Len(q)) \in Seq(S) /\ Len(SubSeq(q, k + 1, Len(q))) = Len(q) - k
      /\ \A j \in 1..(Len(q) - k) : SubSeq(q, k + 1, Len(q))[j] = q[k + j]
  BY <1>1
<1>4. /\ r \in Seq(S) /\ Len(r) = Len(q) - 1
      /\ \A j \in 1..(Len(q) - 1) : r[j] = q[old(j)]
  <2> DEFINE a == SubSeq(q, 1, k - 1)
             b == SubSeq(q, k + 1, Len(q))
  <2>1. /\ a \in Seq(S) /\ Len(a) = k - 1 /\ b \in Seq(S) /\ Len(b) = Len(q) - k
        /\ r = a \o b
        /\ \A j \in 1..(k - 1) : a[j] = q[j]
        /\ \A j \in 1..(Len(q) - k) : b[j] = q[k + j]
    BY <1>2, <1>3 DEF RemoveAt
  <2> HIDE DEF a, b, r
  <2>2. r \in Seq(S) /\ Len(r) = Len(q) - 1
    <3>1. a \o b \in Seq(S) /\ Len(a \o b) = Len(a) + Len(b)
      BY <2>1, Joined
    <3>2. Len(a) + Len(b) = Len(q) - 1
      BY <1>1, <2>1
    <3> QED BY <2>1, <3>1, <3>2
  <2>3. ASSUME NEW j \in 1..(Len(q) - 1)
        PROVE  r[j] = q[old(j)]
    <3>1. CASE j < k
      <4>1. j \in 1..(k - 1) /\ r[j] = a[j]
        BY <1>1, <2>1, <3>1
      <4> QED BY <2>1, <3>1, <4>1
    <3>2. CASE ~(j < k)
      <4>1. j - (k - 1) \in 1..(Len(q) - k) /\ j > Len(a)
        BY <1>1, <2>1, <3>2
      <4>2. r[j] = b[j - Len(a)]
        BY <1>1, <2>1, <4>1
      <4>3. b[j - (k - 1)] = q[k + (j - (k - 1))]
        BY <2>1, <4>1
      <4>4. k + (j - (k - 1)) = j + 1
        BY <1>1
      <4> QED BY <2>1, <3>2, <4>2, <4>3, <4>4
    <3> QED BY <3>1, <3>2
  <2> QED BY <2>2, <2>3
<1> HIDE DEF r
<1>5. \A j \in 1..(Len(q) - 1) : old(j) \in 1..Len(q) /\ old(j) # k
  BY <1>1
<1>6. r \in Seq(S \ {q[k]})
  <2>1. \A j \in 1..Len(r) : r[j] \in S \ {q[k]}
    <3> SUFFICES ASSUME NEW j \in 1..Len(r)
                 PROVE  r[j] \in S \ {q[k]}
      OBVIOUS
    <3>1. j \in 1..(Len(q) - 1)
      BY <1>4
    <3> HIDE DEF old
    <3>2. r[j] = q[old(j)] /\ old(j) \in 1..Len(q) /\ old(j) # k
      BY <1>4, <1>5, <3>1
    <3>3. q[old(j)] \in S
      BY <1>1, <3>2
    <3>4. q[old(j)] # q[k]
      BY <1>1, <3>2 DEF Lists
    <3> QED BY <3>2, <3>3, <3>4
  <2> QED BY <1>4, <2>1
<1>7. \A y \in S \ {q[k]} : \E j \in DOMAIN r : r[j] = y
  <2> SUFFICES ASSUME NEW y \in S \ {q[k]}
               PROVE  \E j \in 1..(Len(q) - 1) : r[j] = y
    BY <1>1, <1>4
  <2>1. PICK m \in 1..Len(q) : q[m] = y
    BY <1>1 DEF Lists
  <2>2. CASE m < k
    BY <1>1, <1>4, <2>1, <2>2
  <2>3. CASE m > k
    <3>1. m - 1 \in 1..(Len(q) - 1) /\ old(m - 1) = m
      BY <1>1, <2>3
    <3> QED BY <1>4, <2>1, <3>1
  <2>4. m # k
    BY <2>1
  <2> QED BY <1>1, <2>2, <2>3, <2>4
<1>8. \A j, m \in DOMAIN r : r[j] = r[m] => j = m
  <2> SUFFICES ASSUME NEW j \in 1..(Len(q) - 1), NEW m \in 1..(Len(q) - 1), r[j] = r[m]
               PROVE  j = m
    BY <1>1, <1>4
  <2>1. q[old(j)] = q[old(m)]
    BY <1>4
  <2>2. old(j) = old(m)
    BY <1>1, <1>5, <2>1 DEF Lists
  <2> QED BY <1>1, <2>2
<1> QED BY <1>4, <1>6, <1>7, <1>8 DEF Lists, r

LEMMA FrontLists ==
  ASSUME NEW q, NEW S, Lists(q, S), Len(q) > 0
  PROVE  Lists(Front(q), S \ {q[Len(q)]}) /\ Len(Front(q)) = Len(q) - 1
<1> DEFINE n == Len(q)
<1>1. q \in Seq(S) /\ n \in Nat /\ DOMAIN q = 1..n /\ n \in 1..n
  BY DEF Lists
<1>2. /\ Front(q) \in Seq(S) /\ Len(Front(q)) = n - 1 /\ DOMAIN Front(q) = 1..(n - 1)
      /\ \A j \in 1..(n - 1) : Front(q)[j] = q[j]
  BY <1>1 DEF Front
<1>3. \A j, k \in 1..n : q[j] = q[k] => j = k
  BY <1>1 DEF Lists
<1> HIDE DEF n
<1>4. \A j \in 1..(n - 1) : j \in 1..n /\ j # n
  <2>1. n \in Nat
    BY <1>1
  <2> QED BY <2>1
<1>5. \A j \in 1..(n - 1) : Front(q)[j] \in S \ {q[n]}
  BY <1>1, <1>2, <1>3, <1>4
<1>6. Front(q) \in Seq(S \ {q[n]})
  <2>1. Front(q) \in [1..(n - 1) -> S \ {q[n]}]
    BY <1>2, <1>5
  <2>2. n - 1 \in Nat
    BY <1>1
  <2> QED BY <2>1, <2>2
<1>7. \A y \in S \ {q[n]} : \E j \in 1..(n - 1) : Front(q)[j] = y
  <2> SUFFICES ASSUME NEW y \in S \ {q[n]}
               PROVE  \E j \in 1..(n - 1) : Front(q)[j] = y
    OBVIOUS
  <2>1. PICK m \in 1..n : q[m] = y
    BY <1>1 DEF Lists
  <2>2. m \in 1..(n - 1)
    BY <1>1, <2>1
  <2> QED BY <1>2, <2>1, <2>2
<1>8. \A j, k \in 1..(n - 1) : Front(q)[j] = Front(q)[k] => j = k
  BY <1>2, <1>3, <1>4
<1> QED BY <1>2, <1>6, <1>7, <1>8 DEF Lists, n

-----------------------------------------------------------------------------
(***************************************************************************)
(* The inductive invariant.                                                 *)
(***************************************************************************)
\* access_order lists the keys of the cache, and is never longer than allowed.
OrderInv == Lists(access, DOMAIN cache) /\ Len(access) <= Capacity

\* Tags are taken in order, and what has been built stays built.
TagInv ==
  /\ tag \in 0..MaxTag
  /\ DOMAIN built = Tags
  /\ \A s \in DOMAIN cache : cache[s] \in 1..tag /\ built[cache[s]] = s
  /\ ran # <<NoShape, 0>> => ran[2] \in 1..tag /\ built[ran[2]] = ran[1]

\* Between victim and put there is room, and the tag is nobody's yet.
MissInv ==
  /\ pc \in {"idle", "export", "compile", "put"}
  /\ pc # "idle" =>
       /\ tag >= 1
       /\ Len(access) < Capacity
       /\ shape \notin DOMAIN cache
       /\ \A s \in DOMAIN cache : cache[s] # tag
       /\ ran # <<NoShape, 0>> => ran[2] # tag
  /\ pc \in {"compile", "put"} => built[tag] = shape

IInv == OrderInv /\ TagInv /\ MissInv

LEMMA InitHolds == Init => IInv
<1> SUFFICES ASSUME Init
             PROVE  IInv
  OBVIOUS
<1>1. DOMAIN cache = {} /\ access = <<>> /\ Len(access) = 0
  BY DEF Init
<1>2. Lists(access, DOMAIN cache)
  BY <1>1 DEF Lists
<1>3. OrderInv
  BY <1>1, <1>2, SessionCacheAssumption DEF OrderInv
<1>4. TagInv /\ MissInv
  BY <1>1, SessionCacheAssumption DEF Init, TagInv, MissInv, Tags
<1> QED BY <1>3, <1>4 DEF IInv

LEMMA HitHolds == ASSUME IInv, NEW s \in Shapes, Hit(s) PROVE IInv'
<1>1. /\ pc = "idle" /\ s \in DOMAIN cache /\ ran' = <<s, cache[s]>>
      /\ UNCHANGED <<cache, tag, built, pc, shape>>
  BY DEF Hit, files
<1>2. PICK k \in Places(access, s) : access' = Append(RemoveAt(access, k), s)
  BY DEF Hit
<1>3. k \in DOMAIN access /\ access[k] = s
  BY DEF Places
<1>4. Lists(access, DOMAIN cache)
  BY DEF IInv, OrderInv
<1>5. Lists(RemoveAt(access, k), DOMAIN cache \ {s}) /\ Len(RemoveAt(access, k)) = Len(access) - 1
  BY <1>3, <1>4, RemovedLists
<1>6. /\ Lists(access', (DOMAIN cache \ {s}) \cup {s})
      /\ Len(access') = Len(RemoveAt(access, k)) + 1
  BY <1>2, <1>5, AppendedLists
<1>7. (DOMAIN cache \ {s}) \cup {s} = DOMAIN cache
  BY <1>1
<1>8. Len(access) \in Nat
  BY <1>4, ListedCardinality
<1>9. OrderInv'
  BY <1>1, <1>5, <1>6, <1>7, <1>8 DEF IInv, OrderInv
<1>10. TagInv'
  BY <1>1 DEF IInv, TagInv
<1>11. MissInv'
  BY <1>1 DEF IInv, MissInv
<1> QED BY <1>9, <1>10, <1>11 DEF IInv

LEMMA MissHolds == ASSUME IInv, NEW s \in Shapes, Miss(s) PROVE IInv'
<1>1. /\ s \notin DOMAIN cache /\ tag < MaxTag /\ tag' = tag + 1 /\ shape' = s /\ pc' = "export"
      /\ UNCHANGED <<built, ran>>
  BY DEF Miss, NextTag
<1>2. /\ Lists(access, DOMAIN cache) /\ Len(access) <= Capacity
      /\ Cardinality(DOMAIN cache) = Len(access) /\ Len(access) \in Nat
  BY ListedCardinality DEF IInv, OrderInv
<1>3. /\ Lists(access', DOMAIN cache') /\ Len(access') < Capacity
      /\ DOMAIN cache' \subseteq DOMAIN cache
      /\ \A x \in DOMAIN cache' : cache'[x] = cache[x]
  <2>1. CASE Full
    <3>1. access' = Front(access) /\ cache' = Without(cache, Victim)
      BY <2>1 DEF Miss
    <3>2. Len(access) > 0
      BY <1>2, <2>1, SessionCacheAssumption DEF Full
    <3>3. Lists(Front(access), DOMAIN cache \ {Victim}) /\ Len(Front(access)) = Len(access) - 1
      BY <1>2, <3>2, FrontLists DEF Victim
    <3>4. DOMAIN cache' = DOMAIN cache \ {Victim} /\ \A x \in DOMAIN cache' : cache'[x] = cache[x]
      BY <3>1 DEF Without
    <3> QED BY <1>2, <3>1, <3>3, <3>4, SessionCacheAssumption
  <2>2. CASE ~Full
    <3>1. UNCHANGED <<cache, access>>
      BY <2>2 DEF Miss
    <3>2. Len(access) < Capacity
      BY <1>2, <2>2, SessionCacheAssumption DEF Full
    <3> QED BY <1>2, <3>1, <3>2
  <2> QED BY <2>1, <2>2
<1>4. OrderInv'
  <2>1. Len(access') \in Nat
    BY <1>3, ListedCardinality
  <2> QED BY <1>3, <2>1, SessionCacheAssumption DEF OrderInv
<1>5. tag \in Nat
  BY SessionCacheAssumption DEF IInv, TagInv
<1>6. TagInv'
  BY <1>1, <1>3, <1>5, SessionCacheAssumption DEF IInv, TagInv, Tags
<1>7. MissInv'
  <2>1. /\ \A x \in DOMAIN cache' : cache'[x] # tag'
        /\ ran # <<NoShape, 0>> => ran[2] # tag'
    BY <1>1, <1>3, <1>5 DEF IInv, TagInv
  <2> QED BY <1>1, <1>3, <1>5, <2>1 DEF MissInv
<1> QED BY <1>4, <1>6, <1>7 DEF IInv

LEMMA ExportHolds == ASSUME IInv, Export PROVE IInv'
<1>1. pc = "export" /\ UNCHANGED <<cache, access, tag, ran>>
  BY DEF Export
<1>2. CASE built' = [built EXCEPT ![tag] = shape] /\ pc' = "compile" /\ UNCHANGED shape
  <2>1. tag \in Tags /\ DOMAIN built = Tags
    BY <1>1, SessionCacheAssumption DEF IInv, TagInv, MissInv, Tags
  <2>2. DOMAIN built' = Tags /\ built'[tag] = shape /\ \A a \in Tags : a # tag => built'[a] = built[a]
    BY <1>2, <2>1
  <2>3. \A a \in 1..tag : a \in Tags
    BY <2>1, SessionCacheAssumption DEF Tags
  <2>4. TagInv'
    <3>1. tag \in 0..MaxTag
      BY DEF IInv, TagInv
    <3>2. \A x \in DOMAIN cache : cache[x] \in 1..tag /\ built'[cache[x]] = x
      BY <1>1, <2>2, <2>3 DEF IInv, TagInv, MissInv
    <3>3. ran # <<NoShape, 0>> => ran[2] \in 1..tag /\ built'[ran[2]] = ran[1]
      BY <1>1, <2>2, <2>3 DEF IInv, TagInv, MissInv
    <3> QED BY <1>1, <2>2, <3>1, <3>2, <3>3 DEF TagInv, Tags
  <2>5. MissInv'
    BY <1>1, <1>2, <2>2 DEF IInv, MissInv
  <2>6. OrderInv'
    BY <1>1 DEF IInv, OrderInv
  <2> QED BY <2>4, <2>5, <2>6 DEF IInv
<1>3. CASE Raise /\ UNCHANGED <<onnx, built>>
  BY <1>1, <1>3 DEF Raise, IInv, OrderInv, TagInv, MissInv, Tags
<1> QED BY <1>2, <1>3 DEF Export

LEMMA PutHolds == ASSUME IInv, Put PROVE IInv'
<1>1. /\ pc = "put"
      /\ cache' = [x \in DOMAIN cache \cup {shape} |-> IF x = shape THEN tag ELSE cache[x]]
      /\ access' = Append(access, shape) /\ ran' = <<shape, tag>> /\ pc' = "idle"
      /\ UNCHANGED <<tag, built>>
  BY DEF Put, files
<1>2. /\ Lists(access, DOMAIN cache) /\ shape \notin DOMAIN cache /\ Len(access) < Capacity
      /\ tag >= 1 /\ built[tag] = shape
  BY <1>1 DEF IInv, OrderInv, MissInv
<1>3. Lists(access', DOMAIN cache \cup {shape}) /\ Len(access') = Len(access) + 1
  BY <1>1, <1>2, AppendedLists
<1>4. Len(access) \in Nat
  BY <1>2, ListedCardinality
<1>5. OrderInv'
  BY <1>1, <1>2, <1>3, <1>4, SessionCacheAssumption DEF OrderInv
<1>6. TagInv'
  BY <1>1, <1>2, SessionCacheAssumption DEF IInv, TagInv, Tags
<1>7. MissInv'
  BY <1>1 DEF MissInv
<1> QED BY <1>5, <1>6, <1>7 DEF IInv

LEMMA RemoveKeyHolds == ASSUME IInv, NEW s \in Shapes, RemoveKey(s) PROVE IInv'
<1>1. /\ pc = "idle" /\ cache' = Without(cache, s)
      /\ UNCHANGED <<tag, built, ran, pc, shape>>
  BY DEF RemoveKey, files
<1>2. PICK k \in Places(access, s) : access' = RemoveAt(access, k)
  BY DEF RemoveKey
<1>3. k \in DOMAIN access /\ access[k] = s
  BY DEF Places
<1>4. Lists(access, DOMAIN cache) /\ Len(access) \in Nat
  BY ListedCardinality DEF IInv, OrderInv
<1>5. Lists(access', DOMAIN cache \ {s}) /\ Len(access') = Len(access) - 1
  BY <1>2, <1>3, <1>4, RemovedLists
<1>6. DOMAIN cache' = DOMAIN cache \ {s} /\ \A x \in DOMAIN cache' : cache'[x] = cache[x]
  BY <1>1 DEF Without
<1>7. OrderInv'
  BY <1>4, <1>5, <1>6, SessionCacheAssumption DEF IInv, OrderInv
<1>8. TagInv' /\ MissInv'
  BY <1>1, <1>6 DEF IInv, TagInv, MissInv, Tags
<1> QED BY <1>7, <1>8 DEF IInv

LEMMA StepHolds == IInv /\ [Next]_vars => IInv'
<1> SUFFICES ASSUME IInv, [Next]_vars
             PROVE  IInv'
  OBVIOUS
<1>1. ASSUME NEW s \in Shapes, Hit(s) \/ Miss(s) \/ RemoveKey(s)
      PROVE  IInv'
  BY <1>1, HitHolds, MissHolds, RemoveKeyHolds
<1>2. CASE Export
  BY <1>2, ExportHolds
<1>3. CASE CompileAndHook
  BY <1>3 DEF CompileAndHook, Raise, IInv, OrderInv, TagInv, MissInv, Tags
<1>4. CASE Put
  BY <1>4, PutHolds
<1>5. CASE Clear
  <2>1. /\ pc = "idle" /\ DOMAIN cache' = {} /\ access' = <<>> /\ Len(access') = 0
        /\ UNCHANGED <<tag, built, ran, pc, shape>>
    BY <1>5 DEF Clear, files
  <2>2. Lists(access', DOMAIN cache')
    BY <2>1 DEF Lists
  <2>3. OrderInv'
    BY <2>1, <2>2, SessionCacheAssumption DEF OrderInv
  <2>4. TagInv' /\ MissInv'
    BY <2>1 DEF IInv, TagInv, MissInv, Tags
  <2> QED BY <2>3, <2>4 DEF IInv
<1>6. CASE UNCHANGED vars
  BY <1>6 DEF vars, files, IInv, OrderInv, TagInv, MissInv, Tags
<1> QED BY <1>1, <1>2, <1>3, <1>4, <1>5, <1>6 DEF Next

(***************************************************************************)
(* access_order lists the keys of the cache, each once (SessionCache.put    *)
(* reports it when their lengths differ).                                   *)
(***************************************************************************)
THEOREM AccessOrderAlwaysMatches == Spec => []AccessOrderMatches
<1>1. IInv => AccessOrderMatches
  BY ListedCardinality DEF IInv, OrderInv, AccessOrderMatches
<1> QED BY <1>1, InitHolds, StepHolds, PTL DEF Spec

(***************************************************************************)
(* The cache keeps to its capacity (SessionCache.victim), although put does *)
(* not look.                                                                *)
(***************************************************************************)
THEOREM AlwaysWithinCapacity == Spec => []WithinCapacity
<1>1. IInv => WithinCapacity
  BY ListedCardinality DEF IInv, OrderInv, WithinCapacity
<1> QED BY <1>1, InitHolds, StepHolds, PTL DEF Spec

(***************************************************************************)
(* An input is run by the session built for its shapes                      *)
(* (ONNXMLIRTorch.forward), whatever was evicted or failed before.          *)
(***************************************************************************)
THEOREM AlwaysRightSession == Spec => []RightSession
<1>1. IInv => RightSession
  BY DEF IInv, TagInv, RightSession
<1> QED BY <1>1, InitHolds, StepHolds, PTL DEF Spec
=============================================================================
