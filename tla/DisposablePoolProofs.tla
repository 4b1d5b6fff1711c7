------------------------ MODULE DisposablePoolProofs ------------------------
(***************************************************************************)
(* Proofs about DisposablePool for any number of threads, constants, scrub  *)
(* workers and attributes.                                                  *)
(***************************************************************************)
EXTENDS DisposablePool, FiniteSetTheorems, WellFoundedInduction, TLAPS

(* Every constant op of the module is one the dictionary opsAttrs lists.     *)
LEMMA OpsAttrsAll == opsAttrs = Slots
BY ConstantsAssumption DEF opsAttrs

LEMMA InitInv == Init => IInv
BY ConstantsAssumption
DEF Init, IInv, TypeOK, IdInv, SlotInv, PhaseInv, Quiet, Phases, NoTmp, NoWork, Ids

-----------------------------------------------------------------------------
(* The steps of function passes.                                             *)

LEMMA CreateInv == ASSUME IInv, NEW t \in Threads, CreateElementsAttr(t) PROVE IInv'
<1> USE DEF CreateElementsAttr, moduleVars, scrubVars
<1>1. TypeOK'
  <2>1. counter + 1 \in Ids /\ counter + 1 \in 0..MaxId
    BY ConstantsAssumption DEF IInv, TypeOK, Ids
  <2>2. tmp' \in [Threads -> [pc : {"idle", "created", "disposable", "dense"},
                              id : 0..MaxId]]
    BY <2>1 DEF IInv, TypeOK
  <2>3. counter' \in 0..MaxId /\ live' \subseteq Ids
    BY <2>1 DEF IInv, TypeOK
  <2>. QED BY <2>2, <2>3 DEF IInv, TypeOK
<1>2. IdInv'
  <2>1. tmp'[t].pc = "created" /\ tmp'[t].id = counter + 1
    BY DEF IInv, TypeOK
  <2>2. \A u \in Threads : u # t => tmp'[u] = tmp[u]
    BY DEF IInv, TypeOK
  <2>3. /\ counter \in Nat
        /\ pool \subseteq 1..counter
        /\ \A u \in Threads : tmp[u].pc = "created" => tmp[u].id \in 1..counter
        /\ \A i \in live : i \in 1..counter
    BY DEF IInv, TypeOK, IdInv
  <2>4. 1..counter \subseteq 1..counter' /\ counter' \in 1..counter' /\ counter' \notin 1..counter
    BY <2>3
  <2>5. pool' \subseteq 1..counter'
    BY <2>3, <2>4
  <2>6. /\ \A u \in Threads : tmp'[u].pc = "created" => tmp'[u].id \in 1..counter'
        /\ \A u \in Threads : tmp'[u].pc = "created" => tmp'[u].id \in live' \ pool'
    BY <2>1, <2>2, <2>3, <2>4 DEF IInv, IdInv
  <2>7. \A u \in Threads : tmp'[u].pc = "disposable" => tmp'[u].id \in live' \cap pool'
    BY <2>1, <2>2 DEF IInv, IdInv
  <2>8. \A u, v \in Threads : tmp'[u].pc = "created" /\ tmp'[v].pc = "created" /\ u # v =>
          tmp'[u].id # tmp'[v].id
    BY <2>1, <2>2, <2>3, <2>4 DEF IInv, IdInv
  <2>9. \A i \in live' : i \in pool' \/ \E u \in Threads : tmp'[u].pc = "created" /\ tmp'[u].id = i
    BY <2>1, <2>2 DEF IInv, IdInv
  <2>. QED BY <2>5, <2>6, <2>7, <2>8, <2>9 DEF IdInv
<1>3. SlotInv'
  BY DEF IInv, SlotInv
<1>4. PhaseInv'
  BY DEF IInv, PhaseInv, WalkOpsAttrs, Quiet
<1>. QED BY <1>1, <1>2, <1>3, <1>4 DEF IInv

LEMMA InsertInv == ASSUME IInv, NEW t \in Threads, Insert(t) PROVE IInv'
<1> USE DEF Insert, moduleVars, scrubVars
<1>0. /\ tmp[t].id \in 1..counter /\ tmp[t].id \in Ids
      /\ tmp[t].id \in live /\ tmp[t].id \notin pool
  BY ConstantsAssumption DEF IInv, TypeOK, IdInv, Ids
<1>a. \A u \in Threads : u # t => tmp'[u] = tmp[u]
  BY DEF IInv, TypeOK
<1>b. tmp'[t].id = tmp[t].id /\ tmp'[t].pc \in {"disposable", "dense"}
  BY DEF IInv, TypeOK
<1>1. TypeOK'
  <2>1. tmp' \in [Threads -> [pc : {"idle", "created", "disposable", "dense"},
                              id : 0..MaxId]]
    BY DEF IInv, TypeOK
  <2>2. pool' \subseteq Ids /\ live' \subseteq Ids
    BY <1>0 DEF IInv, TypeOK
  <2>. QED BY <2>1, <2>2 DEF IInv, TypeOK
<1>2. IdInv'
  <2>1. CASE active
    <3>1. tmp'[t].pc = "disposable" /\ pool' = pool \cup {tmp[t].id} /\ live' = live
      BY <2>1 DEF IInv, TypeOK
    <3>. QED BY <3>1, <1>0, <1>a, <1>b DEF IInv, IdInv
  <2>2. CASE ~active
    <3>1. tmp'[t].pc = "dense" /\ pool' = pool /\ live' = live \ {tmp[t].id}
      BY <2>2 DEF IInv, TypeOK
    <3>. QED BY <3>1, <1>0, <1>a, <1>b DEF IInv, IdInv
  <2>. QED BY <2>1, <2>2
<1>3. SlotInv'
  BY DEF IInv, SlotInv, IdInv
<1>4. PhaseInv'
  BY DEF IInv, PhaseInv
<1>. QED BY <1>1, <1>2, <1>3, <1>4 DEF IInv

LEMMA SetAttrInv ==
  ASSUME IInv, NEW t \in Threads, NEW s \in Slots, SetAttr(t, s) PROVE IInv'
<1> USE DEF SetAttr, NoTmp, scrubVars
<1>1. TypeOK'
  BY ConstantsAssumption DEF IInv, TypeOK, Phases
<1>2. IdInv'
  BY DEF IInv, TypeOK, IdInv
<1>3. SlotInv'
  BY DEF IInv, TypeOK, SlotInv, IdInv
<1>4. PhaseInv'
  BY DEF IInv, PhaseInv
<1>. QED BY <1>1, <1>2, <1>3, <1>4 DEF IInv

LEMMA DiscardInv == ASSUME IInv, NEW t \in Threads, Discard(t) PROVE IInv'
<1> USE DEF Discard, NoTmp, moduleVars, scrubVars
<1>1. TypeOK'
  BY ConstantsAssumption DEF IInv, TypeOK, Phases
<1>2. IdInv'
  BY DEF IInv, TypeOK, IdInv
<1>3. SlotInv'
  BY DEF IInv, SlotInv
<1>4. PhaseInv'
  BY DEF IInv, PhaseInv
<1>. QED BY <1>1, <1>2, <1>3, <1>4 DEF IInv

LEMMA CloneOpInv ==
  ASSUME IInv, NEW t \in Threads, NEW s \in Slots, NEW r \in Slots,
         CloneOp(t, s, r)
  PROVE  IInv'
<1> USE DEF CloneOp, scrubVars
<1>1. TypeOK'
  BY DEF IInv, TypeOK
<1>2. IdInv'
  BY DEF IInv, IdInv
<1>3. SlotInv'
  BY DEF IInv, TypeOK, SlotInv
<1>4. PhaseInv'
  BY DEF IInv, PhaseInv
<1>. QED BY <1>1, <1>2, <1>3, <1>4 DEF IInv

LEMMA EraseOpInv ==
  ASSUME IInv, NEW t \in Threads, NEW s \in Slots, EraseOp(t, s) PROVE IInv'
<1> USE DEF EraseOp, scrubVars
<1>1. TypeOK'
  BY ConstantsAssumption DEF IInv, TypeOK
<1>2. IdInv'
  BY DEF IInv, IdInv
<1>3. SlotInv'
  BY DEF IInv, TypeOK, SlotInv
<1>4. PhaseInv'
  BY DEF IInv, PhaseInv
<1>. QED BY <1>1, <1>2, <1>3, <1>4 DEF IInv

LEMMA ReplaceOpAndGCInv ==
  ASSUME IInv, NEW s \in Slots, ReplaceOpAndGC(s) PROVE IInv'
<1> USE DEF ReplaceOpAndGC, scrubVars
<1>1. TypeOK'
  BY ConstantsAssumption DEF IInv, TypeOK
<1>2. IdInv'
  BY DEF IInv, IdInv, Quiet
<1>3. SlotInv'
  BY DEF IInv, TypeOK, SlotInv, ConstantsUnique
<1>4. PhaseInv'
  BY DEF IInv, PhaseInv
<1>. QED BY <1>1, <1>2, <1>3, <1>4 DEF IInv

-----------------------------------------------------------------------------
(* The collector.                                                            *)

LEMMA RunAfterPassInv == ASSUME IInv, RunAfterPass PROVE IInv'
<1> USE DEF RunAfterPass, moduleVars, scrubVars
<1>1. TypeOK'
  BY DEF IInv, TypeOK, WalkOpsAttrs, opsAttrs, Ids, Phases
<1>2. IdInv'
  BY DEF IInv, IdInv
<1>3. SlotInv'
  BY DEF IInv, SlotInv
<1>4. PhaseInv'
  BY DEF IInv, PhaseInv, Quiet, WalkOpsAttrs
<1>. QED BY <1>1, <1>2, <1>3, <1>4 DEF IInv

LEMMA CollectInv == ASSUME IInv, GarbageCollectUnreachable PROVE IInv'
<1> USE DEF GarbageCollectUnreachable, EraseUnreachable, moduleVars, scrubVars
<1>0. reachable = WalkOpsAttrs /\ Quiet
  BY DEF IInv, PhaseInv
<1>1. TypeOK'
  BY DEF IInv, TypeOK, Ids, Phases
<1>2. IdInv'
  BY <1>0 DEF IInv, IdInv, Quiet
<1>3. SlotInv'
  BY <1>0, OpsAttrsAll DEF IInv, SlotInv, WalkOpsAttrs
<1>4. PhaseInv'
  BY DEF IInv, PhaseInv
<1>. QED BY <1>1, <1>2, <1>3, <1>4 DEF IInv

-----------------------------------------------------------------------------
(* The scrub.                                                                *)

LEMMA ScrubStartInv == ASSUME IInv, ScrubStart PROVE IInv'
<1> USE DEF ScrubStart, moduleVars
<1>n. PICK n \in 0..MaxId : \E o \in [1..n -> WalkOpsAttrs] :
        /\ \A p, q \in 1..n : o[p] = o[q] => p = q
        /\ \A i \in WalkOpsAttrs : \E p \in 1..n : o[p] = i
        /\ order' = o
  OBVIOUS
<1>0. PICK o \in [1..n -> WalkOpsAttrs] :
        /\ \A p, q \in 1..n : o[p] = o[q] => p = q
        /\ \A i \in WalkOpsAttrs : \E p \in 1..n : o[p] = i
        /\ order' = o
  BY <1>n
<1>a. WalkOpsAttrs \subseteq Ids
  BY DEF IInv, TypeOK, WalkOpsAttrs, opsAttrs, Ids
<1>b. WalkOpsAttrs \subseteq live
  BY DEF IInv, SlotInv, WalkOpsAttrs, opsAttrs
<1>c. DOMAIN order' = 1..n /\ order' \in [1..n -> Ids]
  BY <1>0, <1>a
<1>1. TypeOK'
  <2>1. DOMAIN order' \subseteq Ids /\ \A p \in DOMAIN order' : order'[p] \in Ids
    BY <1>c, ConstantsAssumption DEF Ids
  <2>2. /\ next' \in 1..(MaxId + 1) /\ trans' \in [Ids -> 0..MaxId]
        /\ work' \in [Workers -> [pc : {"fetch", "translate", "dispose", "done"},
                                  at : 1..(MaxId + 1), end : 1..(MaxId + 1)]]
    BY ConstantsAssumption
  <2>. QED BY <2>1, <2>2 DEF IInv, TypeOK, Phases
<1>2. IdInv'
  BY DEF IInv, IdInv
<1>3. SlotInv'
  BY DEF IInv, SlotInv
<1>4. PhaseInv'
  BY DEF IInv, PhaseInv, Quiet
<1>5. OrderInv'
  <2>1. \A s \in Slots : disp[s] # 0 => \E p \in 1..n : o[p] = disp[s]
    BY <1>0, OpsAttrsAll DEF WalkOpsAttrs
  <2>2. \A p \in 1..n : o[p] \in live
    BY <1>0, <1>b
  <2>3. next' = 1 /\ next' \in 1..(MaxId + 1)
    BY ConstantsAssumption
  <2>4. \A p, q \in DOMAIN order' : order'[p] = order'[q] => p = q
    BY <1>0, <1>c
  <2>5. \A s \in Slots : disp'[s] # 0 => \E p \in DOMAIN order' : order'[p] = disp'[s]
    BY <1>0, <1>c, <2>1
  <2>6. \A p \in DOMAIN order' : order'[p] \in live'
    BY <1>0, <1>c, <2>2
  <2>7. \A p \in DOMAIN order' : 1..p \subseteq DOMAIN order'
    BY <1>c
  <2>8. \A p \in 1..(next' - 1) : p \in DOMAIN order'
    BY <2>3
  <2>. QED BY <2>3, <2>4, <2>5, <2>6, <2>7, <2>8 DEF OrderInv
<1>6. BatchInv'
  BY DEF BatchInv, Busy
<1>7. TransInv'
  BY <1>c DEF TransInv
<1>. QED BY <1>1, <1>2, <1>3, <1>4, <1>5, <1>6, <1>7 DEF IInv

LEMMA FetchBatchInv == ASSUME IInv, NEW w \in Workers, FetchBatch(w) PROVE IInv'
<1> USE DEF FetchBatch, moduleVars
<1>0. /\ phase = "scrub" /\ phase' = "scrub" /\ TypeOK
      /\ OrderInv /\ BatchInv /\ TransInv
  BY DEF IInv
<1>2. IdInv'
  BY DEF IInv, IdInv
<1>3. SlotInv'
  BY DEF IInv, SlotInv
<1>4. PhaseInv'
  BY DEF IInv, PhaseInv, Quiet
<1>5. CASE next \in DOMAIN order
  <2>0. PICK e \in (next + 1)..(MaxId + 1) :
          /\ BatchEnd(next, e)
          /\ next' = e
          /\ work' = [work EXCEPT ![w] =
                        [pc |-> "translate", at |-> next, end |-> e]]
    BY <1>5
  <2>a. next \in Nat /\ e \in Nat /\ next \in 1..(MaxId + 1) /\ MaxId \in Nat
    BY <1>0, <2>0, ConstantsAssumption DEF TypeOK
  <2>b. \A p \in next..(e - 1) : p \in DOMAIN order
    BY <2>0 DEF BatchEnd
  <2>1. TypeOK'
    <3>1. work' \in [Workers -> [pc : {"fetch", "translate", "dispose", "done"},
                                 at : 1..(MaxId + 1), end : 1..(MaxId + 1)]]
      BY <1>0, <2>0, <2>a DEF TypeOK
    <3>2. next' \in 1..(MaxId + 1)
      BY <2>0, <2>a
    <3>. QED BY <1>0, <3>1, <3>2 DEF TypeOK
  <2>c. \A v \in Workers : v # w => work'[v] = work[v]
    BY <1>0, <2>0 DEF TypeOK
  <2>d. work'[w].pc = "translate" /\ work'[w].at = next /\ work'[w].end = e
    BY <1>0, <2>0 DEF TypeOK
  <2>5. OrderInv'
    <3>1. \A p \in 1..(e - 1) : p \in DOMAIN order
      BY <1>0, <2>a, <2>b DEF OrderInv
    <3>2. \A p \in DOMAIN order : p \in Int
      BY <1>0 DEF TypeOK, Ids
    <3>3. \A p \in DOMAIN order : p >= e => order[p] \in live
      <4>1. e > next
        BY <2>0, <2>a
      <4>. QED BY <1>0, <2>a, <3>2, <4>1 DEF OrderInv
    <3>4. e \in 1..(MaxId + 1)
      BY <2>0, <2>a
    <3>. QED BY <1>0, <2>0, <3>1, <3>3, <3>4 DEF OrderInv
  <2>6. BatchInv'
    <3>. \A v \in Workers : work[v].at \in Nat /\ work[v].end \in Nat
      BY <1>0, <2>a DEF TypeOK
    <3>1. (\A v \in Workers : Busy(v) => work[v].at < work[v].end
                                         /\ work[v].end <= next)'
      BY <1>0, <2>0, <2>a, <2>c, <2>d DEF BatchInv, Busy
    <3>2. (\A u, v \in Workers : Busy(u) /\ Busy(v) /\ u # v =>
            work[u].end <= work[v].at \/ work[v].end <= work[u].at)'
      BY <1>0, <2>0, <2>a, <2>c, <2>d DEF BatchInv, Busy
    <3>3. (\A v \in Workers : Busy(v) =>
            \A p \in Batch(v) : p # work[v].at => order[p] \in live)'
      BY <1>0, <2>a, <2>b, <2>c, <2>d DEF BatchInv, OrderInv, Busy, Batch
    <3>4. (\A v \in Workers : work[v].pc = "translate" =>
            order[work[v].at] \in live)'
      BY <1>0, <1>5, <2>a, <2>c, <2>d DEF BatchInv, OrderInv
    <3>5. (\A v \in Workers : work[v].pc = "dispose" =>
            trans[order[work[v].at]] = order[work[v].at])'
      BY <1>0, <2>c, <2>d DEF BatchInv
    <3>6. (\A v \in Workers : work[v].pc = "done" => next \notin DOMAIN order)'
      BY <1>0, <1>5, <2>c, <2>d DEF BatchInv
    <3>. QED BY <3>1, <3>2, <3>3, <3>4, <3>5, <3>6 DEF BatchInv
  <2>7. TransInv'
    <3>. SUFFICES ASSUME NEW p \in DOMAIN order, p < e,
                         trans[order[p]] # order[p]
                  PROVE  \E v \in Workers : (Busy(v) /\ p \in Batch(v))'
      BY <2>0 DEF TransInv
    <3>1. CASE p < next
      <4>1. PICK v \in Workers : Busy(v) /\ p \in Batch(v)
        BY <1>0, <3>1 DEF TransInv
      <4>2. v # w
        BY <4>1 DEF Busy
      <4>. QED BY <4>1, <4>2, <2>c DEF Busy, Batch
    <3>3. p \in Int
      BY <1>0, <2>a DEF TypeOK, Ids
    <3>2. CASE p >= next
      <4>1. p \in next..(e - 1)
        BY <3>2, <3>3, <2>a
      <4>. QED BY <4>1, <2>d DEF Busy, Batch
    <3>. QED BY <3>1, <3>2, <3>3, <2>a
  <2>. QED BY <1>2, <1>3, <1>4, <2>1, <2>5, <2>6, <2>7 DEF IInv
<1>6. CASE next \notin DOMAIN order
  <2>1. TypeOK'
    <3>1. work' \in [Workers -> [pc : {"fetch", "translate", "dispose", "done"},
                                 at : 1..(MaxId + 1), end : 1..(MaxId + 1)]]
      BY <1>0, <1>6, ConstantsAssumption DEF TypeOK, NoWork
    <3>. QED BY <1>0, <1>6, <3>1 DEF TypeOK
  <2>2. \A v \in Workers : v # w => work'[v] = work[v]
    BY <1>0, <1>6 DEF TypeOK
  <2>3. work'[w].pc = "done" /\ next' = next
    BY <1>0, <1>6 DEF TypeOK, NoWork
  <2>4. OrderInv'
    BY <1>0, <1>6 DEF OrderInv
  <2>5. BatchInv'
    BY <1>0, <1>6, <2>2, <2>3 DEF BatchInv, Busy, Batch
  <2>6. TransInv'
    BY <1>0, <1>6, <2>2, <2>3 DEF TransInv, Busy, Batch
  <2>. QED BY <1>2, <1>3, <1>4, <2>1, <2>4, <2>5, <2>6 DEF IInv
<1>. QED BY <1>5, <1>6

LEMMA ToDenseInv == ASSUME IInv, NEW w \in Workers, ToDense(w) PROVE IInv'
<1> USE DEF ToDense, moduleVars
<1>0. /\ phase = "scrub" /\ phase' = "scrub" /\ TypeOK
      /\ OrderInv /\ BatchInv /\ TransInv
  BY DEF IInv
<1> DEFINE a == work[w].at
<1>a. /\ work[w].pc = "translate" /\ Busy(w)
      /\ \A v \in Workers : work'[v].at = work[v].at /\ work'[v].end = work[v].end
      /\ \A v \in Workers : v # w => work'[v].pc = work[v].pc
      /\ work'[w].pc = "dispose"
  BY <1>0 DEF TypeOK, Busy
<1>b. \A v \in Workers : Busy(v)' <=> Busy(v)
  BY <1>a DEF Busy
<1>c. \A v \in Workers : Batch(v)' = Batch(v)
  BY <1>a DEF Batch
<1>d. /\ a \in Nat /\ next \in Nat /\ a \in 1..(next - 1) /\ a \in DOMAIN order
      /\ order[a] \in Ids
  <2>1. a < work[w].end /\ work[w].end <= next
    BY <1>0, <1>a DEF BatchInv
  <2>2. a \in Nat /\ a >= 1 /\ work[w].end \in Nat /\ next \in Nat
    BY <1>0, ConstantsAssumption DEF TypeOK
  <2>. QED BY <1>0, <2>1, <2>2 DEF OrderInv, TypeOK
<1>e. /\ trans'[order[a]] = order[a]
      /\ \A i \in Ids : i # order[a] => trans'[i] = trans[i]
  BY <1>0, <1>d DEF TypeOK
<1>1. TypeOK'
  <2>1. work' \in [Workers -> [pc : {"fetch", "translate", "dispose", "done"},
                               at : 1..(MaxId + 1), end : 1..(MaxId + 1)]]
    BY <1>0 DEF TypeOK
  <2>2. trans' \in [Ids -> 0..MaxId]
    BY <1>0, <1>d, ConstantsAssumption DEF TypeOK, Ids
  <2>. QED BY <1>0, <2>1, <2>2 DEF TypeOK
<1>2. IdInv'
  BY DEF IInv, IdInv
<1>3. SlotInv'
  BY DEF IInv, SlotInv
<1>4. PhaseInv'
  BY DEF IInv, PhaseInv, Quiet
<1>5. OrderInv'
  BY <1>0 DEF OrderInv
<1>6. BatchInv'
  <2>1. \A v \in Workers : work'[v].pc = "dispose" =>
          trans'[order[work[v].at]] = order[work[v].at]
    <3>. SUFFICES ASSUME NEW v \in Workers, work'[v].pc = "dispose", v # w
                  PROVE  trans'[order[work[v].at]] = order[work[v].at]
      BY <1>e
    <3>1. trans[order[work[v].at]] = order[work[v].at]
      BY <1>0, <1>a DEF BatchInv
    <3>2. Busy(v)
      BY <1>a DEF Busy
    <3>3. work[v].at \in Nat /\ work[v].end \in Nat /\ work[v].at >= 1
      BY <1>0 DEF TypeOK
    <3>4. work[v].at < work[v].end /\ work[v].end <= next
      BY <1>0, <3>2 DEF BatchInv
    <3>5. work[v].at \in 1..(next - 1)
      BY <3>3, <3>4, <1>d
    <3>6. order[work[v].at] \in Ids
      BY <1>0, <3>5 DEF OrderInv, TypeOK
    <3>. QED BY <3>1, <3>6, <1>e
  <2>. QED BY <1>0, <1>a, <1>b, <1>c, <2>1 DEF BatchInv
<1>7. TransInv'
  <2>. SUFFICES ASSUME NEW p \in DOMAIN order, p < next
                PROVE  \/ trans'[order[p]] = order[p]
                       \/ \E v \in Workers : (Busy(v) /\ p \in Batch(v))'
    BY DEF TransInv
  <2>1. order[p] \in Ids
    BY <1>0 DEF TypeOK
  <2>2. trans[order[p]] = order[p] \/ \E v \in Workers : Busy(v) /\ p \in Batch(v)
    BY <1>0 DEF TransInv
  <2>. QED BY <2>1, <2>2, <1>b, <1>c, <1>e
<1>. QED BY <1>0, <1>1, <1>2, <1>3, <1>4, <1>5, <1>6, <1>7 DEF IInv

LEMMA DisposeInv == ASSUME IInv, NEW w \in Workers, Dispose(w) PROVE IInv'
<1> USE DEF Dispose, moduleVars
<1>0. /\ phase = "scrub" /\ phase' = "scrub" /\ TypeOK
      /\ OrderInv /\ BatchInv /\ TransInv
  BY DEF IInv
<1> DEFINE a == work[w].at
           b == work[w].end
<1>a. /\ work[w].pc = "dispose" /\ Busy(w)
      /\ \A v \in Workers : v # w => work'[v] = work[v]
      /\ work'[w].at = a + 1 /\ work'[w].end = b
      /\ work'[w].pc = IF a + 1 < b THEN "translate" ELSE "fetch"
  BY <1>0 DEF TypeOK, Busy
<1>d. /\ a \in Nat /\ b \in Nat /\ next \in Nat /\ a < b /\ b <= next
      /\ a \in 1..(next - 1) /\ a \in DOMAIN order /\ order[a] \in Ids
  <2>1. a < b /\ b <= next
    BY <1>0, <1>a DEF BatchInv
  <2>2. a \in Nat /\ a >= 1 /\ b \in Nat /\ next \in Nat
    BY <1>0, ConstantsAssumption DEF TypeOK
  <2>. QED BY <1>0, <2>1, <2>2 DEF OrderInv, TypeOK
<1>e. \A p \in DOMAIN order : p # a /\ order[p] \in live => order[p] \in live'
  BY <1>0, <1>d DEF OrderInv
<1>1. TypeOK'
  <2>0. a + 1 \in 1..(MaxId + 1)
    BY <1>0, <1>d, ConstantsAssumption DEF TypeOK
  <2>1. work' \in [Workers -> [pc : {"fetch", "translate", "dispose", "done"},
                               at : 1..(MaxId + 1), end : 1..(MaxId + 1)]]
    BY <1>0, <2>0 DEF TypeOK
  <2>. QED BY <1>0, <2>1 DEF TypeOK
<1>2. IdInv'
  BY DEF IInv, IdInv, PhaseInv, Quiet
<1>3. SlotInv'
  BY DEF IInv, SlotInv
<1>4. PhaseInv'
  BY DEF IInv, PhaseInv, Quiet
<1>5. OrderInv'
  BY <1>0, <1>d, <1>e DEF OrderInv
<1>f. \A v \in Workers : /\ work[v].at \in Nat /\ work[v].end \in Nat
                         /\ work[v].at >= 1
  BY <1>0 DEF TypeOK
<1>g. \A v \in Workers : Busy(v)' =>
        /\ Busy(v) /\ work'[v].end = work[v].end
        /\ work[v].at <= work'[v].at /\ work'[v].at < work'[v].end
        /\ v # w => work'[v].at = work[v].at
  <2>1. \A v \in Workers : v # w /\ Busy(v) => work[v].at < work[v].end
    BY <1>0 DEF BatchInv
  <2>. QED BY <1>a, <1>d, <1>f, <2>1 DEF Busy
<1>6. BatchInv'
  <2>1. (\A v \in Workers : Busy(v) => /\ work[v].at < work[v].end
                                       /\ work[v].end <= next)'
    BY <1>0, <1>g DEF BatchInv
  <2>2. (\A u, v \in Workers : Busy(u) /\ Busy(v) /\ u # v =>
          work[u].end <= work[v].at \/ work[v].end <= work[u].at)'
    <3>. SUFFICES ASSUME NEW u \in Workers, NEW v \in Workers,
                         Busy(u)', Busy(v)', u # v
                  PROVE  work'[u].end <= work'[v].at \/ work'[v].end <= work'[u].at
      OBVIOUS
    <3>1. work[u].end <= work[v].at \/ work[v].end <= work[u].at
      BY <1>0, <1>g DEF BatchInv
    <3>2. work'[u].at \in Nat /\ work'[v].at \in Nat
      BY <1>1, ConstantsAssumption DEF TypeOK
    <3>. QED BY <1>f, <1>g, <3>1, <3>2
  <2>3. \A v \in Workers : Busy(v)' =>
          \A p \in work'[v].at..(work'[v].end - 1) : order[p] \in live'
                \/ (p = work'[v].at /\ work'[v].pc = "dispose")
    <3>. SUFFICES ASSUME NEW v \in Workers, Busy(v)',
                         NEW p \in work'[v].at..(work'[v].end - 1),
                         p # work'[v].at \/ work'[v].pc = "translate"
                  PROVE  order[p] \in live'
      BY DEF Busy
    <3>1. Busy(v) /\ p \in Batch(v) /\ p \in Nat /\ p >= 1
      BY <1>f, <1>g, <1>1, ConstantsAssumption DEF Batch, TypeOK
    <3>2. p \in 1..(next - 1)
      BY <1>0, <1>d, <1>f, <3>1 DEF BatchInv, Batch
    <3>3. p \in DOMAIN order
      BY <1>0, <3>2 DEF OrderInv
    <3>4. order[p] \in live
      <4>1. CASE v = w
        BY <4>1, <1>0, <1>a, <1>d, <3>1 DEF BatchInv
      <4>2. CASE v # w
        BY <4>2, <1>0, <1>a, <3>1 DEF BatchInv
      <4>. QED BY <4>1, <4>2
    <3>5. p # a
      <4>1. CASE v = w
        BY <4>1, <1>a, <1>d, <3>1
      <4>2. CASE v # w
        <5>1. work[v].end <= a \/ b <= work[v].at
          BY <4>2, <1>0, <1>a, <3>1 DEF BatchInv
        <5>. QED BY <5>1, <1>d, <1>f, <3>1 DEF Batch
      <4>. QED BY <4>1, <4>2
    <3>. QED BY <1>e, <3>3, <3>4, <3>5
  <2>4. (\A v \in Workers : Busy(v) =>
          \A p \in Batch(v) : p # work[v].at => order[p] \in live)'
    BY <2>3 DEF Batch
  <2>5. (\A v \in Workers : work[v].pc = "translate" =>
          order[work[v].at] \in live)'
    <3>. SUFFICES ASSUME NEW v \in Workers, work'[v].pc = "translate"
                  PROVE  order[work'[v].at] \in live'
      OBVIOUS
    <3>1. Busy(v)' /\ work'[v].at \in Nat /\ work'[v].end \in Nat
      BY <1>1, ConstantsAssumption DEF Busy, TypeOK
    <3>2. work'[v].at \in work'[v].at..(work'[v].end - 1)
      BY <1>g, <3>1
    <3>. QED BY <2>3, <3>1, <3>2
  <2>6. (\A v \in Workers : work[v].pc = "dispose" =>
          trans[order[work[v].at]] = order[work[v].at])'
    BY <1>0, <1>a DEF BatchInv
  <2>7. (\A v \in Workers : work[v].pc = "done" => next \notin DOMAIN order)'
    BY <1>0, <1>a DEF BatchInv
  <2>. QED BY <2>1, <2>2, <2>4, <2>5, <2>6, <2>7 DEF BatchInv
<1>7. TransInv'
  <2>. SUFFICES ASSUME NEW p \in DOMAIN order, p < next, trans[order[p]] # order[p]
                PROVE  \E v \in Workers : (Busy(v) /\ p \in Batch(v))'
    BY DEF TransInv
  <2>1. PICK v \in Workers : Busy(v) /\ p \in Batch(v)
    BY <1>0 DEF TransInv
  <2>2. CASE v # w
    BY <2>1, <2>2, <1>a DEF Busy, Batch
  <2>3. CASE v = w
    <3>1. p # a
      BY <1>0, <1>a DEF BatchInv
    <3>2. p \in (a + 1)..(b - 1) /\ a + 1 < b
      BY <2>1, <2>3, <3>1, <1>d DEF Batch
    <3>. QED BY <2>3, <3>2, <1>a DEF Busy, Batch
  <2>. QED BY <2>2, <2>3
<1>. QED BY <1>0, <1>1, <1>2, <1>3, <1>4, <1>5, <1>6, <1>7 DEF IInv

LEMMA AllTranslated ==
  ASSUME IInv, ReplaceAttrs
  PROVE  \A s \in Slots : disp[s] # 0 => trans[disp[s]] = disp[s]
<1> USE DEF ReplaceAttrs
<1>0. /\ TypeOK /\ OrderInv /\ BatchInv /\ TransInv
      /\ \A w \in Workers : work[w].pc = "done"
  BY DEF IInv
<1>1. next \notin DOMAIN order
  BY <1>0, ConstantsAssumption DEF BatchInv
<1>2. \A p \in DOMAIN order : p < next
  <2>. SUFFICES ASSUME NEW p \in DOMAIN order, p >= next PROVE FALSE
    BY <1>0, ConstantsAssumption DEF TypeOK, Ids
  <2>1. next \in 1..p
    BY <1>0, ConstantsAssumption DEF TypeOK, Ids
  <2>. QED BY <1>0, <1>1, <2>1 DEF OrderInv
<1>3. \A p \in DOMAIN order : trans[order[p]] = order[p]
  BY <1>0, <1>2 DEF TransInv, Busy
<1>. QED BY <1>0, <1>3 DEF OrderInv

LEMMA ReplaceAttrsInv == ASSUME IInv, ReplaceAttrs PROVE IInv'
<1> USE DEF ReplaceAttrs, scrubVars
<1>1. TypeOK'
  <2>1. dense' \in [Slots -> 0..MaxId] /\ disp' \in [Slots -> 0..MaxId]
    BY AllTranslated, OpsAttrsAll, ConstantsAssumption DEF IInv, TypeOK
  <2>. QED BY <2>1 DEF IInv, TypeOK, Phases
<1>2. IdInv'
  BY DEF IInv, IdInv
<1>3. SlotInv'
  BY OpsAttrsAll DEF SlotInv
<1>4. PhaseInv'
  BY OpsAttrsAll DEF IInv, PhaseInv, Quiet
<1>. QED BY <1>1, <1>2, <1>3, <1>4 DEF IInv

LEMMA EraseAllInv == ASSUME IInv, EraseAll PROVE IInv'
<1> USE DEF EraseAll, EraseUnreachable, moduleVars, scrubVars
<1>0. Quiet /\ \A s \in Slots : disp[s] = 0
  BY DEF IInv, PhaseInv
<1>1. TypeOK'
  BY DEF IInv, TypeOK, Phases
<1>2. IdInv'
  BY <1>0 DEF IInv, IdInv, Quiet
<1>3. SlotInv'
  BY <1>0 DEF SlotInv
<1>4. PhaseInv'
  BY <1>0 DEF IInv, PhaseInv, Quiet
<1>. QED BY <1>1, <1>2, <1>3, <1>4 DEF IInv

LEMMA CloseInv == ASSUME IInv, NEW c \in BOOLEAN, Close(c) PROVE IInv'
<1> USE DEF Close, moduleVars, scrubVars
<1>1. TypeOK'
  BY DEF IInv, TypeOK, Phases
<1>2. IdInv'
  BY DEF IInv, IdInv
<1>3. SlotInv'
  BY DEF IInv, SlotInv
<1>4. PhaseInv'
  BY DEF IInv, PhaseInv
<1>. QED BY <1>1, <1>2, <1>3, <1>4 DEF IInv

-----------------------------------------------------------------------------
LEMMA NextInv == IInv /\ [Next]_vars => IInv'
<1>. SUFFICES ASSUME IInv, [Next]_vars PROVE IInv'
  OBVIOUS
<1>1. ASSUME NEW t \in Threads, ThreadStep(t) PROVE IInv'
  BY <1>1, CreateInv, InsertInv, SetAttrInv, DiscardInv, CloneOpInv, EraseOpInv
  DEF ThreadStep
<1>2. ASSUME NEW s \in Slots, ReplaceOpAndGC(s) PROVE IInv'
  BY <1>2, ReplaceOpAndGCInv
<1>3. ASSUME NEW w \in Workers, WorkerStep(w) PROVE IInv'
  BY <1>3, FetchBatchInv, ToDenseInv, DisposeInv DEF WorkerStep
<1>4. CASE RunAfterPass \/ CollectorStep \/ ScrubStart \/ ScrubMain
  BY <1>4, RunAfterPassInv, CollectInv, ScrubStartInv, ReplaceAttrsInv,
     EraseAllInv, CloseInv DEF CollectorStep, ScrubMain
<1>5. CASE UNCHANGED vars
  BY <1>5 DEF vars, IInv, TypeOK, IdInv, SlotInv, PhaseInv, Quiet, OrderInv,
     BatchInv, TransInv, WalkOpsAttrs, Busy, Batch
<1>. QED BY <1>1, <1>2, <1>3, <1>4, <1>5 DEF Next

LEMMA Invariance == Spec => []IInv
BY InitInv, NextInv, PTL DEF Spec

(* The pool's variables keep their types in every behaviour.                 *)
THEOREM TypeCorrect == Spec => []TypeOK
<1>1. IInv => TypeOK
  BY DEF IInv
<1>. QED BY <1>1, Invariance, PTL

(* The assertions of garbageCollectUnreachable and scrub never fail: a       *)
(* disposable that appears in the module is in the pool at every instant.    *)
THEOREM ReachableAlwaysInPool == Spec => []ReachableInPool
<1>1. IInv => ReachableInPool
  BY DEF IInv, SlotInv, ReachableInPool
<1>. QED BY <1>1, Invariance, PTL

(* The assertion of getBuffer never fails: no pass, thread or scrub worker   *)
(* meets a disposed attribute, however many of them there are.               *)
THEOREM DisposedNeverRead == Spec => []NoReadOfDisposed
<1>1. IInv => NoReadOfDisposed
  <2>. SUFFICES ASSUME IInv PROVE NoReadOfDisposed
    OBVIOUS
  <2>1. phase # "scrub" => \A s \in Slots : disp[s] # 0 => disp[s] \in live
    BY DEF IInv, SlotInv
  <2>2. \A t \in Threads :
          tmp[t].pc \in {"created", "disposable"} => tmp[t].id \in live
    BY DEF IInv, IdInv
  <2>3. \A w \in Workers : work[w].pc = "translate" => order[work[w].at] \in live
    BY DEF IInv, PhaseInv, BatchInv
  <2>. QED BY <2>1, <2>2, <2>3 DEF NoReadOfDisposed
<1>. QED BY <1>1, Invariance, PTL

(* close's assertion holds and the scrub releases everything: afterwards,    *)
(* and while the pool is closed, no disposable and no payload is left.       *)
THEOREM ScrubLeavesNothing == Spec => []NothingLeftAfterScrub
<1>1. IInv => NothingLeftAfterScrub
  <2>. SUFFICES ASSUME IInv, phase = "close" \/ ~active
                PROVE  /\ pool = {}
                       /\ \A s \in Slots : disp[s] = 0
                       /\ live \subseteq {tmp[t].id : t \in
                            {u \in Threads : tmp[u].pc = "created"}}
    BY DEF NothingLeftAfterScrub
  <2>1. pool = {}
    BY DEF IInv, PhaseInv
  <2>2. \A s \in Slots : disp[s] = 0
    BY <2>1 DEF IInv, SlotInv
  <2>3. \A i \in live : \E t \in Threads : tmp[t].pc = "created" /\ tmp[t].id = i
    BY <2>1 DEF IInv, IdInv
  <2>. QED BY <2>1, <2>2, <2>3
<1>. QED BY <1>1, Invariance, PTL

LEMMA ValuesKept ==
  ASSUME IInv, [Next]_vars, phase # "pass" PROVE \A s \in Slots : Value(s)' = Value(s)
<1>1. CASE ReplaceAttrs
  BY <1>1, AllTranslated, OpsAttrsAll DEF ReplaceAttrs, Value, IInv, TypeOK
<1>2. ASSUME NEW w \in Workers, WorkerStep(w) PROVE UNCHANGED moduleVars
  BY <1>2 DEF WorkerStep, FetchBatch, ToDense, Dispose
<1>3. CASE CollectorStep \/ EraseAll \/ \E c \in BOOLEAN : Close(c)
  BY <1>3 DEF CollectorStep, GarbageCollectUnreachable, EraseAll, Close,
     moduleVars, Value
<1>4. CASE UNCHANGED vars
  BY <1>4 DEF vars, Value
<1>5. ~RunAfterPass /\ ~ScrubStart /\ \A s \in Slots : ~ReplaceOpAndGC(s)
  BY DEF RunAfterPass, ScrubStart, ReplaceOpAndGC
<1>6. \A t \in Threads : ~ThreadStep(t)
  BY DEF ThreadStep, CreateElementsAttr, Insert, SetAttr, Discard, CloneOp, EraseOp
<1>7. UNCHANGED moduleVars => \A s \in Slots : Value(s)' = Value(s)
  BY DEF moduleVars, Value
<1>. QED BY <1>1, <1>2, <1>3, <1>4, <1>5, <1>6, <1>7 DEF Next, ScrubMain

(* Whatever the interleaving of the scrub workers, neither the collector nor *)
(* the scrub changes the value of a constant of the module.                  *)
THEOREM ScrubIsFaithful == Spec => ScrubKeepsValues
<1>1. IInv /\ [Next]_vars =>
        [phase # "pass" => \A s \in Slots : Value(s)' = Value(s)]_vars
  BY ValuesKept
<1>. QED BY <1>1, Invariance, PTL DEF Spec, ScrubKeepsValues

LEMMA CollectionStep ==
  ASSUME IInv, [Next]_vars, phase = "gc", phase' = "pass"
  PROVE  live' = {disp[s] : s \in Slots} \ {0}
<1>1. GarbageCollectUnreachable
  BY DEF Next, ThreadStep, CreateElementsAttr, Insert, SetAttr, Discard, CloneOp,
     EraseOp, ReplaceOpAndGC, RunAfterPass, CollectorStep, ScrubStart, WorkerStep,
     FetchBatch, ToDense, Dispose, ScrubMain, ReplaceAttrs, EraseAll, Close, vars
<1>2. reachable = {disp[s] : s \in Slots} \ {0}
  BY OpsAttrsAll DEF IInv, PhaseInv, WalkOpsAttrs
<1>3. live \subseteq pool
  BY DEF IInv, IdInv, PhaseInv, Quiet
<1>4. reachable \subseteq live
  BY <1>2 DEF IInv, SlotInv
<1>. QED BY <1>1, <1>2, <1>3, <1>4 DEF GarbageCollectUnreachable, EraseUnreachable

(* A collection keeps exactly the payloads that appear in the module.        *)
THEOREM CollectionIsExact == Spec => CollectionExact
<1>1. IInv /\ [Next]_vars =>
        [phase = "gc" /\ phase' = "pass" =>
           live' = {disp[s] : s \in Slots} \ {0}]_vars
  BY CollectionStep
<1>. QED BY <1>1, Invariance, PTL DEF Spec, CollectionExact

-----------------------------------------------------------------------------
(***************************************************************************)
(* What can be proved of ScrubTerminates without fairness: the workers      *)
(* always find a batch or the end, and every step of one brings the end     *)
(* nearer. What is left to do, in the order of what weighs most: what has   *)
(* not been fetched, what is in a batch in hand, what is to be translated,  *)
(* and the workers that have not left their loop.                          *)
(***************************************************************************)
Unfetched == {p \in DOMAIN order : next <= p}
InHand == {p \in DOMAIN order : \E w \in Workers : Busy(w) /\ p \in Batch(w)}
Translating == {w \in Workers : work[w].pc = "translate"}
Running == {w \in Workers : work[w].pc # "done"}

LeftToDo == [n \in 1..4 |->
  Cardinality(CASE n = 1 -> Unfetched [] n = 2 -> InHand [] n = 3 -> Translating [] n = 4 -> Running)]

\* Descending tuples of numbers come to an end (WFLexProductOrdering).
Less == LexProductOrdering(OpToRel(<, Nat), Nat, 4)

(* Every step while the workers run brings the join of parallelFor nearer.   *)
ScrubAdvances ==
  [][phase = "scrub" /\ phase' = "scrub" => <<LeftToDo', LeftToDo>> \in Less]_vars

(* A worker that fetches finds out where its batch ends, whatever the sizes. *)
BatchToFetch ==
  phase = "scrub" /\ next \in DOMAIN order => \E e \in (next + 1)..(MaxId + 1) : BatchEnd(next, e)

LEMMA LessIsWellFounded == IsWellFoundedOn(Less, [1..4 -> Nat])
BY NatLessThanWellFounded, WFLexProductOrdering DEF Less

LEMMA LessAt ==
  ASSUME NEW a \in [1..4 -> Nat], NEW b \in [1..4 -> Nat], NEW n \in 1..4,
         \A i \in 1..(n - 1) : a[i] = b[i], a[n] < b[n]
  PROVE  <<a, b>> \in Less
<1>1. <<a[n], b[n]>> \in OpToRel(<, Nat)
  BY DEF OpToRel
<1>. QED BY <1>1 DEF Less, LexProductOrdering

LEMMA Smaller ==
  ASSUME NEW S, IsFiniteSet(S), NEW T \in SUBSET S
  PROVE  /\ IsFiniteSet(T) /\ Cardinality(T) \in Nat /\ Cardinality(S) \in Nat
         /\ T # S => Cardinality(T) < Cardinality(S)
BY FS_Subset, FS_CardinalityType

LEMMA LeftIsFinite ==
  ASSUME TypeOK
  PROVE  /\ IsFiniteSet(Unfetched) /\ IsFiniteSet(InHand)
         /\ IsFiniteSet(Translating) /\ IsFiniteSet(Running)
<1>a. IsFiniteSet(1..MaxId)
  <2>1. MaxId \in Int /\ 1 \in Int
    BY ConstantsAssumption
  <2>. QED BY <2>1, FS_Interval
<1>b. DOMAIN order \subseteq 1..MaxId
  BY DEF TypeOK, Ids
<1>1. IsFiniteSet(DOMAIN order)
  BY <1>a, <1>b, FS_Subset
<1>2. Unfetched \subseteq DOMAIN order /\ InHand \subseteq DOMAIN order
  BY DEF Unfetched, InHand
<1>3. Translating \subseteq Workers /\ Running \subseteq Workers
  BY DEF Translating, Running
<1>. QED BY <1>1, <1>2, <1>3, FS_Subset, ConstantsAssumption

LEMMA Least ==
  ASSUME NEW T \in SUBSET Nat, T # {}
  PROVE  \E x \in T : \A y \in T : x <= y
<1>1. PICK x \in T : \A y \in T : ~(<<y, x>> \in OpToRel(<, Nat))
  BY NatLessThanWellFounded, WFMin
<1>2. \A y \in T : ~(y < x)
  BY <1>1 DEF OpToRel
<1>. QED BY <1>2

LEMMA BatchExists ==
  ASSUME IInv, phase = "scrub", next \in DOMAIN order
  PROVE  \E e \in (next + 1)..(MaxId + 1) : BatchEnd(next, e)
<1>0. OrderInv /\ TypeOK /\ next \in 1..MaxId /\ MaxId \in Nat /\ DOMAIN order \subseteq 1..MaxId
  BY ConstantsAssumption DEF IInv, TypeOK, Ids
<1>s. Size[order[next]] \in Nat
  BY <1>0, ConstantsAssumption DEF TypeOK
<1> DEFINE Stops == {e \in next..(MaxId + 1) : e \notin DOMAIN order \/ BatchFull(next, e)}
<1>1. MaxId + 1 \in Stops
  BY <1>0
<1>2. Stops \subseteq Nat
  BY <1>0
<1> HIDE DEF Stops
<1>3. PICK e \in Stops : \A y \in Stops : e <= y
  BY <1>1, <1>2, Least
<1> USE DEF Stops
<1>4. ~BatchFull(next, next)
  <2>1. next - next = 0 /\ 0 * Size[order[next]] = 0
    BY <1>0, <1>s
  <2>. QED BY <2>1, ConstantsAssumption DEF BatchFull
<1>5. e # next
  BY <1>3, <1>4
<1>6. e \in (next + 1)..(MaxId + 1)
  BY <1>0, <1>3, <1>5
<1>7. \A x \in next..(e - 1) : x \in DOMAIN order /\ ~BatchFull(next, x)
  <2>1. SUFFICES ASSUME NEW x \in next..(e - 1) PROVE x \notin Stops
    BY <1>0, <1>6
  <2>2. x < e
    BY <1>0, <1>6
  <2>. QED BY <2>2, <1>0, <1>3, <1>6
<1>8. e \in DOMAIN order => BatchFull(next, e)
  BY <1>3
<1>. QED BY <1>6, <1>7, <1>8 DEF BatchEnd

(* A worker that holds the mutex of fetchBatch leaves it: there is always a  *)
(* place where its loop over the translations stops, a batch it takes is     *)
(* never empty, and it never runs past the end.                              *)
THEOREM BatchAlwaysFound == Spec => []BatchToFetch
<1>1. IInv => BatchToFetch
  BY BatchExists DEF BatchToFetch
<1>. QED BY <1>1, Invariance, PTL

Counted ==
  /\ LeftToDo \in [1..4 -> Nat]
  /\ LeftToDo[1] = Cardinality(Unfetched)
  /\ LeftToDo[2] = Cardinality(InHand)
  /\ LeftToDo[3] = Cardinality(Translating)
  /\ LeftToDo[4] = Cardinality(Running)

LEMMA LeftIsCounted == ASSUME TypeOK PROVE Counted
<1>1. /\ Cardinality(Unfetched) \in Nat /\ Cardinality(InHand) \in Nat
      /\ Cardinality(Translating) \in Nat /\ Cardinality(Running) \in Nat
  BY LeftIsFinite, FS_CardinalityType
<1>2. \A n \in 1..4 : n = 1 \/ n = 2 \/ n = 3 \/ n = 4
  OBVIOUS
<1>3. /\ LeftToDo[1] = Cardinality(Unfetched) /\ LeftToDo[2] = Cardinality(InHand)
      /\ LeftToDo[3] = Cardinality(Translating) /\ LeftToDo[4] = Cardinality(Running)
  BY DEF LeftToDo
<1>4. \A n \in 1..4 : LeftToDo[n] \in Nat
  BY <1>1, <1>2, <1>3
<1>. QED BY <1>3, <1>4 DEF LeftToDo, Counted

LEMMA FetchAdvances ==
  ASSUME IInv, NEW w \in Workers, FetchBatch(w), Counted, Counted'
  PROVE  <<LeftToDo', LeftToDo>> \in Less
<1>t. TypeOK /\ phase = "scrub" /\ work[w].pc = "fetch" /\ order' = order
  BY DEF IInv, FetchBatch
<1>f. /\ IsFiniteSet(Unfetched) /\ IsFiniteSet(Running)
  BY <1>t, LeftIsFinite
<1>m. LeftToDo \in [1..4 -> Nat] /\ LeftToDo' \in [1..4 -> Nat]
  BY DEF Counted
<1>1. CASE next \in DOMAIN order
  <2>n. next' \in (next + 1)..(MaxId + 1)
    BY <1>1 DEF FetchBatch
  <2>1. next' > next
    BY <2>n, <1>1, <1>t, ConstantsAssumption DEF FetchBatch, TypeOK
  <2>2. Unfetched' \subseteq Unfetched /\ Unfetched' # Unfetched
    <3>1. next \in Unfetched /\ next \notin Unfetched'
      <4>1. next \in Nat /\ next' \in Nat
        BY <1>1, <1>t, <2>n, ConstantsAssumption DEF TypeOK
      <4>. QED BY <4>1, <1>1, <2>1 DEF Unfetched
    <3>2. \A p \in DOMAIN order : p \in Nat
      BY <1>t, ConstantsAssumption DEF TypeOK, Ids
    <3>3. next \in Nat /\ next' \in Nat
      BY <1>1, <1>t, <2>n, ConstantsAssumption DEF TypeOK
    <3>. QED BY <3>1, <3>2, <3>3, <1>t, <2>1 DEF Unfetched
  <2>3. Cardinality(Unfetched') < Cardinality(Unfetched)
    BY <2>2, <1>f, Smaller
  <2>4. LeftToDo'[1] < LeftToDo[1]
    BY <2>3 DEF Counted
  <2>. QED BY <2>4, <1>m, LessAt
<1>2. CASE next \notin DOMAIN order
  <2>1. next' = next /\ work' = [work EXCEPT ![w] = NoWork]
    BY <1>2 DEF FetchBatch
  <2>a. work'[w].pc = "done" /\ \A v \in Workers : v # w => work'[v] = work[v]
    BY <2>1, <1>t DEF TypeOK, NoWork
  <2>2. Unfetched' = Unfetched
    BY <2>1, <1>t DEF Unfetched
  <2>3. InHand' = InHand
    BY <2>a, <1>t DEF InHand, Busy, Batch
  <2>4. Translating' = Translating
    BY <2>a, <1>t DEF Translating
  <2>5. Running' \subseteq Running /\ Running' # Running
    BY <2>a, <1>t DEF Running
  <2>6. Cardinality(Running') < Cardinality(Running)
    BY <2>5, <1>f, Smaller
  <2>7. LeftToDo'[1] = LeftToDo[1] /\ LeftToDo'[2] = LeftToDo[2] /\ LeftToDo'[3] = LeftToDo[3]
    BY <2>2, <2>3, <2>4 DEF Counted
  <2>8. LeftToDo'[4] < LeftToDo[4]
    BY <2>6 DEF Counted
  <2>9. \A i \in 1..(4 - 1) : LeftToDo'[i] = LeftToDo[i]
    BY <2>7
  <2>. QED BY <2>8, <2>9, <1>m, LessAt
<1>. QED BY <1>1, <1>2

LEMMA ToDenseAdvances ==
  ASSUME IInv, NEW w \in Workers, ToDense(w), Counted, Counted'
  PROVE  <<LeftToDo', LeftToDo>> \in Less
<1>t. /\ TypeOK /\ work[w].pc = "translate"
      /\ order' = order /\ next' = next
  BY DEF IInv, ToDense
<1>f. IsFiniteSet(Translating)
  BY <1>t, LeftIsFinite
<1>m. LeftToDo \in [1..4 -> Nat] /\ LeftToDo' \in [1..4 -> Nat]
  BY DEF Counted
<1>a. /\ work'[w].pc = "dispose" /\ work'[w].at = work[w].at /\ work'[w].end = work[w].end
      /\ \A v \in Workers : v # w => work'[v] = work[v]
  BY <1>t DEF TypeOK, ToDense
<1>2. Unfetched' = Unfetched
  BY <1>t DEF Unfetched
<1>3. InHand' = InHand
  <2>1. \A v \in Workers : Busy(v)' = Busy(v) /\ Batch(v)' = Batch(v)
    BY <1>a, <1>t DEF Busy, Batch
  <2>. QED BY <2>1, <1>t DEF InHand
<1>5. Translating' \subseteq Translating /\ Translating' # Translating
  BY <1>a, <1>t DEF Translating
<1>6. Cardinality(Translating') < Cardinality(Translating)
  BY <1>5, <1>f, Smaller
<1>7. LeftToDo'[1] = LeftToDo[1] /\ LeftToDo'[2] = LeftToDo[2]
  BY <1>2, <1>3 DEF Counted
<1>8. LeftToDo'[3] < LeftToDo[3]
  BY <1>6 DEF Counted
<1>9. \A i \in 1..(3 - 1) : LeftToDo'[i] = LeftToDo[i]
  BY <1>7
<1>. QED BY <1>8, <1>9, <1>m, LessAt

LEMMA DisposeAdvances ==
  ASSUME IInv, NEW w \in Workers, Dispose(w), Counted, Counted'
  PROVE  <<LeftToDo', LeftToDo>> \in Less
<1>t. /\ TypeOK /\ work[w].pc = "dispose" /\ BatchInv /\ OrderInv
      /\ order' = order /\ next' = next
  BY DEF IInv, Dispose
<1>f. IsFiniteSet(InHand)
  BY <1>t, LeftIsFinite
<1>m. LeftToDo \in [1..4 -> Nat] /\ LeftToDo' \in [1..4 -> Nat]
  BY DEF Counted
<1>n. /\ \A v \in Workers : work[v].at \in Nat /\ work[v].end \in Nat /\ work[v].at >= 1
      /\ next \in Nat
  BY <1>t, ConstantsAssumption DEF TypeOK
<1>a. /\ work'[w].at = work[w].at + 1 /\ work'[w].end = work[w].end
      /\ work'[w].pc \in {"translate", "fetch"}
      /\ \A v \in Workers : v # w => work'[v] = work[v]
  BY <1>t DEF TypeOK, Dispose
<1>2. Unfetched' = Unfetched
  BY <1>t DEF Unfetched
<1>b. \A v \in Workers : Busy(v)' => Busy(v) /\ Batch(v)' \subseteq Batch(v)
  <2>1. Busy(w) /\ Batch(w)' \subseteq Batch(w)
    BY <1>a, <1>t, <1>n DEF Busy, Batch
  <2>. QED BY <2>1, <1>a DEF Busy, Batch
<1>5. InHand' \subseteq InHand /\ InHand' # InHand
  <2>1. work[w].at \in Batch(w) /\ Busy(w)
    BY <1>t, <1>n DEF BatchInv, Busy, Batch
  <2>2. work[w].at \in DOMAIN order
    BY <1>t, <1>n DEF BatchInv, OrderInv, Busy
  <2>3. work[w].at \in InHand
    BY <2>1, <2>2 DEF InHand
  <2>4. work[w].at \notin Batch(w)'
    BY <1>a, <1>n DEF Batch
  <2>5. \A v \in Workers : v # w /\ Busy(v) => work[w].at \notin Batch(v)
    BY <2>1, <1>t, <1>n DEF BatchInv, Batch
  <2>6. work[w].at \notin InHand'
    BY <2>4, <2>5, <1>b DEF InHand
  <2>. QED BY <2>3, <2>6, <1>b, <1>t DEF InHand
<1>6. Cardinality(InHand') < Cardinality(InHand)
  BY <1>5, <1>f, Smaller
<1>7. LeftToDo'[1] = LeftToDo[1]
  BY <1>2 DEF Counted
<1>8. LeftToDo'[2] < LeftToDo[2]
  BY <1>6 DEF Counted
<1>9. \A i \in 1..(2 - 1) : LeftToDo'[i] = LeftToDo[i]
  BY <1>7
<1>. QED BY <1>8, <1>9, <1>m, LessAt

LEMMA OnlyWorkersScrub ==
  ASSUME Next, phase = "scrub", phase' = "scrub"
  PROVE  \E w \in Workers : WorkerStep(w)
BY DEF Next, ThreadStep, CreateElementsAttr, Insert, SetAttr, Discard, CloneOp, EraseOp,
   ReplaceOpAndGC, RunAfterPass, CollectorStep, GarbageCollectUnreachable, ScrubStart,
   ScrubMain, ReplaceAttrs, EraseAll, Close

(* The variant of scrub: whichever worker steps, what is left to do goes     *)
(* down, so the workers take finitely many steps before parallelFor joins,   *)
(* whatever the number of workers and the sizes of the batches.              *)
THEOREM ScrubAlwaysAdvances == Spec => ScrubAdvances
<1>0. IInv => Counted
  BY LeftIsCounted DEF IInv
<1>1. IInv /\ Counted /\ Counted' /\ [Next]_vars =>
        [phase = "scrub" /\ phase' = "scrub" => <<LeftToDo', LeftToDo>> \in Less]_vars
  <2>1. SUFFICES ASSUME IInv, Counted, Counted', Next, phase = "scrub", phase' = "scrub"
                 PROVE  <<LeftToDo', LeftToDo>> \in Less
    OBVIOUS
  <2>2. PICK w \in Workers : WorkerStep(w)
    BY <2>1, OnlyWorkersScrub
  <2>. QED BY <2>1, <2>2, FetchAdvances, ToDenseAdvances, DisposeAdvances DEF WorkerStep
<1>. QED BY <1>0, <1>1, Invariance, PTL DEF Spec, ScrubAdvances
=============================================================================
