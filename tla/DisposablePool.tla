--------------------------- MODULE DisposablePool ---------------------------
(***************************************************************************)
(* The pool of DisposableElementsAttr instances of one MLIRContext, its     *)
(* garbage collector and its parallel scrub                                 *)
(* (src/Dialect/ONNX/ElementsAttr/DisposablePool.cpp), driven the way the   *)
(* pass manager drives them: function passes create attributes from several *)
(* threads, the collector runs after every module pass, the scrub pass      *)
(* replaces every disposable by a dense attribute and closes the pool.      *)
(*                                                                          *)
(* An attribute is named by its id; the data it denotes is named by the     *)
(* same number, so the dense conversion of attribute i is the value i.      *)
(* 0 is "no disposable attribute" in disp and nullptr in dense and trans.   *)
(* A critical section of the pool's mutex is one step.                      *)
(***************************************************************************)
EXTENDS Integers, FiniteSets

CONSTANTS
  Threads,            \* threads of the pass manager running function passes
  Slots,              \* "value" attributes of the constant ops of the module
  Owner,              \* the thread whose function holds the op of a slot
  OpName,             \* the op a slot belongs to
  Workers,            \* thread numbers of scrub's parallelFor
  MaxId,              \* bound on the attributes ever created
  Size,               \* elements count of an attribute
  minCount,           \* 10 in the code
  minAggregateCount   \* 1000 in the code

Ids == 1..MaxId
OpNames == {"onnx.Constant", "onnx.ConstantOfShape", "zhigh.StickifiedConstant"}

ASSUME ConstantsAssumption ==
  /\ MaxId \in Nat
  /\ Workers # {} /\ IsFiniteSet(Workers)
  /\ Owner \in [Slots -> Threads]
  /\ OpName \in [Slots -> OpNames]
  /\ Size \in [Ids -> Nat]
  /\ minCount \in Nat \ {0}
  /\ minAggregateCount \in Nat \ {0}

VARIABLES
  counter,    \* createElementsAttr's static atomic counter
  active,     \* DisposablePool::active
  pool,       \* ids in DisposablePool::pool
  live,       \* ids whose storage holds its buffer (not disposed)
  disp,       \* the disposable attribute in a slot
  dense,      \* the dense attribute in a slot
  tmp,        \* the attribute a thread is creating or holds
  phase,      \* what the pass manager runs: see Phases
  reachable,  \* garbageCollectUnreachable's local set of ids
  order,      \* scrub's translations, in iteration order
  next,       \* scrub's iterator into translations
  trans,      \* dense half of a translation, by id
  work        \* a worker's position in its batch [at, end)

vars == <<counter, active, pool, live, disp, dense, tmp, phase, reachable,
          order, next, trans, work>>
scrubVars == <<order, next, trans, work>>
moduleVars == <<disp, dense>>

(***************************************************************************)
(* "pass": passes run; "gc": the collector has walked the module; "scrub":  *)
(* the workers run; "replaced": scrub rewrote the module; "close": scrub    *)
(* has returned to the pass.                                                *)
(***************************************************************************)
Phases == {"pass", "gc", "scrub", "replaced", "close"}

NoTmp == [pc |-> "idle", id |-> 0]
NoWork == [pc |-> "done", at |-> 1, end |-> 1]

TypeOK ==
  /\ counter \in 0..MaxId
  /\ active \in BOOLEAN
  /\ pool \subseteq Ids
  /\ live \subseteq Ids
  /\ disp \in [Slots -> 0..MaxId]
  /\ dense \in [Slots -> 0..MaxId]
  /\ tmp \in [Threads -> [pc : {"idle", "created", "disposable", "dense"},
                          id : 0..MaxId]]
  /\ phase \in Phases
  /\ reachable \subseteq Ids
  /\ DOMAIN order \subseteq Ids
  /\ \A p \in DOMAIN order : order[p] \in Ids
  /\ next \in 1..(MaxId + 1)
  /\ trans \in [Ids -> 0..MaxId]
  /\ work \in [Workers -> [pc : {"fetch", "translate", "dispose", "done"},
                           at : 1..(MaxId + 1), end : 1..(MaxId + 1)]]

Init ==
  /\ counter = 0
  /\ active = TRUE
  /\ pool = {}
  /\ live = {}
  /\ disp = [s \in Slots |-> 0]
  /\ dense = [s \in Slots |-> 0]
  /\ tmp = [t \in Threads |-> NoTmp]
  /\ phase = "pass"
  /\ reachable = {}
  /\ order = [p \in 1..0 |-> 1]
  /\ next = 1
  /\ trans = [i \in Ids |-> 0]
  /\ work = [w \in Workers |-> NoWork]

-----------------------------------------------------------------------------
(* Function passes: threads create, place, clone and erase constants.        *)

Quiet == \A t \in Threads : tmp[t].pc = "idle"

(* The atomic increment and the construction of the attribute around its     *)
(* buffer (a shared_ptr: which attributes share one does not matter here).   *)
CreateElementsAttr(t) ==
  /\ phase = "pass"
  /\ tmp[t].pc = "idle"
  /\ counter < MaxId
  /\ counter' = counter + 1
  /\ live' = live \cup {counter + 1}
  /\ tmp' = [tmp EXCEPT ![t] = [pc |-> "created", id |-> counter + 1]]
  /\ UNCHANGED <<active, pool, moduleVars, phase, reachable, scrubVars>>

(* Slip: insert forgets to look at active.                                   *)
InsertAlways(t) ==
  /\ phase = "pass"
  /\ tmp[t].pc = "created"
  /\ pool' = pool \cup {tmp[t].id}
  /\ tmp' = [tmp EXCEPT ![t].pc = "disposable"]
  /\ UNCHANGED <<counter, active, live, moduleVars, phase, reachable, scrubVars>>

(* insert, under the mutex; when the pool is closed the caller converts to   *)
(* dense and disposes the attribute nobody else has seen.                    *)
Insert(t) ==
  /\ phase = "pass"
  /\ tmp[t].pc = "created"
  /\ IF active
     THEN /\ pool' = pool \cup {tmp[t].id}
          /\ tmp' = [tmp EXCEPT ![t].pc = "disposable"]
          /\ UNCHANGED live
     ELSE /\ tmp' = [tmp EXCEPT ![t].pc = "dense"]
          /\ live' = live \ {tmp[t].id}
          /\ UNCHANGED pool
  /\ UNCHANGED <<counter, active, moduleVars, phase, reachable, scrubVars>>

(* External: what the rewrites of a function pass do with constants.         *)
SetAttr(t, s) ==
  /\ phase = "pass"
  /\ Owner[s] = t
  /\ tmp[t].pc \in {"disposable", "dense"}
  /\ disp' = [disp EXCEPT ![s] =
                IF tmp[t].pc = "disposable" THEN tmp[t].id ELSE 0]
  /\ dense' = [dense EXCEPT ![s] =
                IF tmp[t].pc = "disposable" THEN 0 ELSE tmp[t].id]
  /\ tmp' = [tmp EXCEPT ![t] = NoTmp]
  /\ UNCHANGED <<counter, active, pool, live, phase, reachable, scrubVars>>

Discard(t) ==
  /\ phase = "pass"
  /\ tmp[t].pc \in {"disposable", "dense"}
  /\ tmp' = [tmp EXCEPT ![t] = NoTmp]
  /\ UNCHANGED <<counter, active, pool, live, moduleVars, phase, reachable,
                 scrubVars>>

CloneOp(t, s, r) ==
  /\ phase = "pass"
  /\ Owner[s] = t /\ Owner[r] = t
  /\ disp' = [disp EXCEPT ![r] = disp[s]]
  /\ dense' = [dense EXCEPT ![r] = dense[s]]
  /\ UNCHANGED <<counter, active, pool, live, tmp, phase, reachable, scrubVars>>

EraseOp(t, s) ==
  /\ phase = "pass"
  /\ Owner[s] = t
  /\ disp' = [disp EXCEPT ![s] = 0]
  /\ dense' = [dense EXCEPT ![s] = 0]
  /\ UNCHANGED <<counter, active, pool, live, tmp, phase, reachable, scrubVars>>

(* External: the greedy rewriter has merged the constants of the module that *)
(* carry the same attribute before any pattern of the pass runs.             *)
ConstantsUnique(s) == \A r \in Slots : disp[r] = disp[s] => r = s

(* replaceOpAndGC of the ZHigh constant propagation, a module pass: it       *)
(* disposes the attribute of a constant whose only use goes away, and        *)
(* removes the attribute from the op; the pool still lists its id.           *)
ReplaceOpAndGC(s) ==
  /\ phase = "pass"
  /\ Quiet
  /\ disp[s] # 0
  /\ ConstantsUnique(s)
  /\ live' = live \ {disp[s]}
  /\ disp' = [disp EXCEPT ![s] = 0]
  /\ UNCHANGED <<counter, active, pool, dense, tmp, phase, reachable, scrubVars>>

-----------------------------------------------------------------------------
(* Garbage collection, after a module pass.                                  *)

(* Slip: the dictionary of the CPU pipeline used for an NNPA module.         *)
opsAttrsOnnxOnly == {s \in Slots : OpName[s] \in OpNames \ {"zhigh.StickifiedConstant"}}

opsAttrs == {s \in Slots : OpName[s] \in OpNames}

WalkOpsAttrs == {disp[s] : s \in opsAttrs} \ {0}

(* runAfterPass: the early return when the pool is closed, then the walk.    *)
RunAfterPass ==
  /\ phase = "pass"
  /\ Quiet
  /\ active
  /\ reachable' = WalkOpsAttrs
  /\ phase' = "gc"
  /\ UNCHANGED <<counter, active, pool, live, moduleVars, tmp, scrubVars>>

(* Slip: entries leave the pool without being disposed.                      *)
EraseUnreachableNoDispose(keep) ==
  /\ pool' = pool \cap keep
  /\ live' = live

(* eraseUnreachable(keep): the rest is disposed and erased.                  *)
EraseUnreachable(keep) ==
  /\ pool' = pool \cap keep
  /\ live' = live \ (pool \ keep)

GarbageCollectUnreachable ==
  /\ phase = "gc"
  /\ EraseUnreachable(reachable)
  /\ phase' = "pass"
  /\ reachable' = {}
  /\ UNCHANGED <<counter, active, moduleVars, tmp, scrubVars>>

-----------------------------------------------------------------------------
(* The scrub pass.                                                           *)

(* The walk that fills translations; an unordered_map iterates in any order. *)
ScrubStart ==
  /\ phase = "pass"
  /\ Quiet
  /\ \E n \in 0..MaxId : \E o \in [1..n -> WalkOpsAttrs] :
        /\ \A p, q \in 1..n : o[p] = o[q] => p = q
        /\ \A i \in WalkOpsAttrs : \E p \in 1..n : o[p] = i
        /\ order' = o
  /\ next' = 1
  /\ trans' = [i \in Ids |-> 0]
  /\ work' = [w \in Workers |-> [pc |-> "fetch", at |-> 1, end |-> 1]]
  /\ phase' = "scrub"
  /\ UNCHANGED <<counter, active, pool, live, moduleVars, tmp, reachable>>

(* Where the loop of fetchBatch stops when the iterator is at b: every round *)
(* adds the size of next->second, the attribute the batch begins with.       *)
BatchFull(b, e) == \/ e - b >= minCount
                   \/ (e - b) * Size[order[b]] >= minAggregateCount
BatchEnd(b, e) == /\ \A x \in b..(e - 1) : x \in DOMAIN order /\ ~BatchFull(b, x)
                  /\ e \in DOMAIN order => BatchFull(b, e)

(* Slips: the iterator is not advanced; the batch is one short of where the  *)
(* next one begins; the worker does not leave its loop on an empty batch.    *)
FetchBatchStaleNext(w) ==
  /\ phase = "scrub"
  /\ work[w].pc = "fetch"
  /\ IF next \in DOMAIN order
     THEN \E e \in (next + 1)..(MaxId + 1) :
            /\ BatchEnd(next, e)
            /\ next' = IF next = 1 THEN 1 ELSE e
            /\ work' = [work EXCEPT ![w] =
                          [pc |-> "translate", at |-> next, end |-> e]]
     ELSE /\ work' = [work EXCEPT ![w] = NoWork]
          /\ UNCHANGED next
  /\ UNCHANGED <<counter, active, pool, live, moduleVars, tmp, phase,
                 reachable, order, trans>>

FetchBatchSkipsOne(w) ==
  /\ phase = "scrub"
  /\ work[w].pc = "fetch"
  /\ IF next \in DOMAIN order
     THEN \E e \in (next + 1)..(MaxId + 1) :
            /\ BatchEnd(next, e)
            /\ next' = IF e \in DOMAIN order THEN e + 1 ELSE e
            /\ work' = [work EXCEPT ![w] =
                          [pc |-> "translate", at |-> next, end |-> e]]
     ELSE /\ work' = [work EXCEPT ![w] = NoWork]
          /\ UNCHANGED next
  /\ UNCHANGED <<counter, active, pool, live, moduleVars, tmp, phase,
                 reachable, order, trans>>

FetchBatchNoBreak(w) ==
  /\ phase = "scrub"
  /\ work[w].pc = "fetch"
  /\ next \in DOMAIN order
  /\ \E e \in (next + 1)..(MaxId + 1) :
       /\ BatchEnd(next, e)
       /\ next' = e
       /\ work' = [work EXCEPT ![w] =
                     [pc |-> "translate", at |-> next, end |-> e]]
  /\ UNCHANGED <<counter, active, pool, live, moduleVars, tmp, phase,
                 reachable, order, trans>>

FetchBatch(w) ==
  /\ phase = "scrub"
  /\ work[w].pc = "fetch"
  /\ IF next \in DOMAIN order
     THEN \E e \in (next + 1)..(MaxId + 1) :
            /\ BatchEnd(next, e)
            /\ next' = e
            /\ work' = [work EXCEPT ![w] =
                          [pc |-> "translate", at |-> next, end |-> e]]
     ELSE /\ work' = [work EXCEPT ![w] = NoWork]
          /\ UNCHANGED next
  /\ UNCHANGED <<counter, active, pool, live, moduleVars, tmp, phase,
                 reachable, order, trans>>

(* toDenseElementsAttr, outside any lock.                                    *)
ToDense(w) ==
  /\ phase = "scrub"
  /\ work[w].pc = "translate"
  /\ trans' = [trans EXCEPT ![order[work[w].at]] = order[work[w].at]]
  /\ work' = [work EXCEPT ![w].pc = "dispose"]
  /\ UNCHANGED <<counter, active, pool, live, moduleVars, tmp, phase,
                 reachable, order, next>>

(* dispose under the translation mutex, then on to the rest of the batch.    *)
Dispose(w) ==
  /\ phase = "scrub"
  /\ work[w].pc = "dispose"
  /\ live' = live \ {order[work[w].at]}
  /\ work' = [work EXCEPT ![w] =
                [pc |-> IF work[w].at + 1 < work[w].end
                        THEN "translate" ELSE "fetch",
                 at |-> work[w].at + 1, end |-> work[w].end]]
  /\ UNCHANGED <<counter, active, pool, moduleVars, tmp, phase, reachable,
                 order, next, trans>>

(* parallelFor has joined; the second walk replaces the attributes.          *)
ReplaceAttrs ==
  /\ phase = "scrub"
  /\ \A w \in Workers : work[w].pc = "done"
  /\ dense' = [s \in Slots |-> IF s \in opsAttrs /\ disp[s] # 0
                               THEN trans[disp[s]] ELSE dense[s]]
  /\ disp' = [s \in Slots |-> IF s \in opsAttrs THEN 0 ELSE disp[s]]
  /\ phase' = "replaced"
  /\ UNCHANGED <<counter, active, pool, live, tmp, reachable, scrubVars>>

EraseAll ==
  /\ phase = "replaced"
  /\ EraseUnreachable({})
  /\ phase' = "close"
  /\ UNCHANGED <<counter, active, moduleVars, tmp, reachable, scrubVars>>

(* The pass closes the pool unless it was built with closeAfter = false.     *)
Close(closeAfter) ==
  /\ phase = "close"
  /\ active' = (active /\ ~closeAfter)
  /\ phase' = "pass"
  /\ UNCHANGED <<counter, pool, live, moduleVars, tmp, reachable, scrubVars>>

-----------------------------------------------------------------------------
ThreadStep(t) ==
  \/ CreateElementsAttr(t)
  \/ Insert(t)
  \/ \E s \in Slots : SetAttr(t, s)
  \/ Discard(t)
  \/ \E s, r \in Slots : CloneOp(t, s, r)
  \/ \E s \in Slots : EraseOp(t, s)

WorkerStep(w) == FetchBatch(w) \/ ToDense(w) \/ Dispose(w)

CollectorStep == GarbageCollectUnreachable

ScrubMain == ReplaceAttrs \/ EraseAll \/ \E c \in BOOLEAN : Close(c)

Next ==
  \/ \E t \in Threads : ThreadStep(t)
  \/ \E s \in Slots : ReplaceOpAndGC(s)
  \/ RunAfterPass
  \/ CollectorStep
  \/ ScrubStart
  \/ \E w \in Workers : WorkerStep(w)
  \/ ScrubMain

Spec == Init /\ [][Next]_vars

(* Once the collector or a scrub has begun, the compiler thread and every    *)
(* worker of parallelFor keep running until it returns.                      *)
FairSpec ==
  /\ Spec
  /\ WF_vars(CollectorStep)
  /\ WF_vars(ScrubMain)
  /\ \A w \in Workers : WF_vars(WorkerStep(w))

-----------------------------------------------------------------------------
(* Properties                                                                *)

(* garbageCollectUnreachable and scrub assert that every disposable a walk   *)
(* meets is in the pool; it has to hold at every instant, since a walk reads *)
(* the module before it takes the mutex.                                     *)
ReachableInPool == \A s \in Slots : disp[s] # 0 => disp[s] \in pool

(* getBuffer asserts !isDisposed(): a constant of the module is readable     *)
(* whenever passes or the collector run, so is an attribute a thread has in  *)
(* hand, and a scrub worker never converts an attribute that another worker  *)
(* (or it itself) has already disposed.                                      *)
NoReadOfDisposed ==
  /\ phase # "scrub" => \A s \in Slots : disp[s] # 0 => disp[s] \in live
  /\ \A t \in Threads : tmp[t].pc \in {"created", "disposable"} => tmp[t].id \in live
  /\ \A w \in Workers : work[w].pc = "translate" => order[work[w].at] \in live

(* After a scrub, and for as long as the pool is closed, no disposable is    *)
(* left in the pool or in the module and every payload has been released,    *)
(* but for those of attributes a thread is just converting to dense.         *)
NothingLeftAfterScrub ==
  phase = "close" \/ ~active =>
    /\ pool = {}
    /\ \A s \in Slots : disp[s] = 0
    /\ live \subseteq {tmp[t].id : t \in {u \in Threads : tmp[u].pc = "created"}}

Value(s) == IF disp[s] # 0 THEN disp[s] ELSE dense[s]

(* Neither the collector nor the scrub, whatever the interleaving of its     *)
(* workers, changes the value of a constant: every disposable is replaced by *)
(* its own dense conversion and no op is left with a null attribute.         *)
ScrubKeepsValues ==
  [][phase # "pass" => \A s \in Slots : Value(s)' = Value(s)]_vars

(* A collection is exact: the payloads that stay are those of the            *)
(* disposables that appear in the module, no more (a leak) and no less.      *)
CollectionExact ==
  [][phase = "gc" /\ phase' = "pass" => live' = {disp[s] : s \in Slots} \ {0}]_vars

-----------------------------------------------------------------------------
(* The inductive invariant behind the properties.                            *)

Busy(w) == work[w].pc \in {"translate", "dispose"}
Batch(w) == work[w].at..(work[w].end - 1)

(* Ids are handed out once; what a thread has created but not yet inserted   *)
(* is its own, and no payload is alive outside the pool but these.           *)
IdInv ==
  /\ pool \subseteq 1..counter
  /\ \A t \in Threads : tmp[t].pc = "created" => tmp[t].id \in 1..counter
  /\ \A t \in Threads : tmp[t].pc = "created" => tmp[t].id \in live \ pool
  /\ \A t \in Threads : tmp[t].pc = "disposable" => tmp[t].id \in live \cap pool
  /\ \A t, u \in Threads :
       tmp[t].pc = "created" /\ tmp[u].pc = "created" /\ t # u =>
         tmp[t].id # tmp[u].id
  /\ \A i \in live : \/ i \in pool
                     \/ \E t \in Threads : tmp[t].pc = "created" /\ tmp[t].id = i

SlotInv ==
  \A s \in Slots : disp[s] # 0 =>
     disp[s] \in pool /\ (phase # "scrub" => disp[s] \in live)

PhaseInv ==
  /\ phase # "pass" => Quiet
  /\ phase # "scrub" => \A w \in Workers : work[w].pc = "done"
  /\ phase = "gc" => reachable = WalkOpsAttrs
  /\ phase \in {"replaced", "close"} => \A s \in Slots : disp[s] = 0
  /\ phase = "close" \/ ~active => pool = {}

(* While the workers run: the translations are the disposables of the        *)
(* module, each once; what is not fetched is alive; the batches in hand are  *)
(* disjoint, lie before next, and are alive from the worker's position on;   *)
(* what has been fetched is translated or in some batch.                     *)
OrderInv ==
  /\ next \in 1..(MaxId + 1)
  /\ \A p \in DOMAIN order : 1..p \subseteq DOMAIN order
  /\ \A p \in 1..(next - 1) : p \in DOMAIN order
  /\ \A p, q \in DOMAIN order : order[p] = order[q] => p = q
  /\ \A s \in Slots : disp[s] # 0 => \E p \in DOMAIN order : order[p] = disp[s]
  /\ \A p \in DOMAIN order : p >= next => order[p] \in live

BatchInv ==
  /\ \A w \in Workers : Busy(w) => /\ work[w].at < work[w].end
                                   /\ work[w].end <= next
  /\ \A v, w \in Workers : Busy(v) /\ Busy(w) /\ v # w =>
       work[v].end <= work[w].at \/ work[w].end <= work[v].at
  /\ \A w \in Workers : Busy(w) =>
       \A p \in Batch(w) : p # work[w].at => order[p] \in live
  /\ \A w \in Workers : work[w].pc = "translate" => order[work[w].at] \in live
  /\ \A w \in Workers : work[w].pc = "dispose" =>
       trans[order[work[w].at]] = order[work[w].at]
  /\ \A w \in Workers : work[w].pc = "done" => next \notin DOMAIN order

TransInv ==
  \A p \in DOMAIN order : p < next =>
     \/ trans[order[p]] = order[p]
     \/ \E w \in Workers : Busy(w) /\ p \in Batch(w)

IInv ==
  /\ TypeOK
  /\ IdInv
  /\ SlotInv
  /\ PhaseInv
  /\ phase = "scrub" => OrderInv /\ BatchInv /\ TransInv

(* A scrub returns: its workers run out of batches and the join is reached.  *)
ScrubTerminates == (phase = "scrub") ~> (phase = "close")
=============================================================================
