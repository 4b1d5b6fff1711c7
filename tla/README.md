# A TLA+ development for onnx-mlir

onnx-mlir compiles ONNX models to native libraries and ships the runtime those
libraries call.  Much of its source is a set of independent rewrites whose
correctness is numerical.  This development is about the rest: state shared by
threads, files and memory that several parties own in turn, counters and caches
that outlive one call, and the analyses whose answers many rewrites rely on.

Every definition is a translation of code under `src/`; `PROJECT.json` gives
the lines for each of them.  Paths below are relative to the repository.

Contents

1. The system and its parts
2. Plan
3. The modules and the code
4. Runs: what is checked, with which bounds
5. Fairness
6. Proofs
7. Where the code and its documents disagree
8. What is not modelled

---

## 1. The system and its parts

```
 onnx-mlir / omCompileFromArray / Python       a program, Python, Java
        |                                             |
   compile driver ---- tools (opt, llc, ld, jar)  ExecutionSession -- torch session cache
        |                                             |
   importer -> pass pipeline -> lowering          model library (.so) -- constants file
              (threads, constants pool)               |
                                                  runtime (tensors, NNPA init, ...)
```

### 1.1 Disposable constants
`src/Dialect/ONNX/ElementsAttr/DisposablePool.{hpp,cpp}`,
`src/Compiler/DisposableGarbageCollector.cpp`, the scrub passes.

*State.* One pool per MLIRContext: a map from id to attribute under a mutex, a
flag `active`, a process-wide atomic id counter.  The attributes themselves
hang on constant ops of the module and share buffers.
*Operations.* `createElementsAttr` (atomic increment, construct, `insert`),
`garbageCollectUnreachable` (walk the module, then under the mutex dispose what
was not seen), `scrub` (walk, convert to dense on several threads in batches,
replace, erase all), `close`.
*Interaction.* Function passes call it from the threads of the pass manager;
the collector is a pass instrumentation; scrub is a module pass; the ZHigh
constant propagation disposes payloads itself.
*Hard.* Interleaved creation, a walk outside the mutex, a shared iterator
behind a mutex, disposal while others convert.
*Correct when* no constant of the module is ever collected, disposed before its
last read or changed; nothing is left behind when the pool is closed.

### 1.2 NNPA runtime initialisation
`src/Accelerators/NNPA/Runtime/OMRuntimeNNPA.c`.

*State.* A flag read outside the mutex, the mutex, and a static `isCompatible`
that is read outside it too.
*Operations.* `OMInitAccelNNPA`, `OMInitCompatibleAccelNNPA(version)`,
`OMShutdownAccelNNPA`, each called by generated code or its user from any
thread.
*Hard.* Double-checked locking, twice in one function; shutdown and start over.
*Correct when* the device is initialised once between shutdowns, used only
after that, a runnable model is never refused and every call returns.

### 1.3 Constants in a file
Compile side `extractConstantsToFile` in
`src/Conversion/KrnlToLLVM/ConvertKrnlToLLVM.cpp`; run time
`src/Runtime/OMExternalConstant.inc`, the loop the compiler emits, and
`OM_CONSTANT_PATH` set by `src/Runtime/ExecutionSession.cpp`.

*State.* At compile time the file, the offsets and sizes; at run time, in the
globals of each library, the mapping and a pointer per constant; the
environment of the process.
*Hard.* Threads race to map the file with nothing but a compare-and-swap;
error paths with several resources in hand; two models in one process share
the environment; alignment and padding arithmetic.
*Correct when* a graph runs only with every constant complete and its own,
nothing is leaked by the race, and the offsets name the bytes that were packed.

### 1.4 Torch session cache
`src/Runtime/python/onnxmlirtorch`: `SessionCache` and
`ONNXMLIRTorch.forward`.

*State.* A dictionary, an access order, a tag counter, numbered files.
*Hard.* Two numberings (positions and tags), failures after an entry was given
up.  *Correct when* an input is run by the session compiled for its shape, the
cache keeps its size and its files, and evicts as documented.

### 1.5 Compile driver
`src/Compiler/CompilerUtils.cpp`, `src/Compiler/OnnxMlirCompiler.cpp`,
`src/onnx-mlir.cpp`.

*State.* Global phase counter and total, the tag option, the working
directory, files with scoped removers.
*Hard.* All of it outlives a compilation when a program embeds the compiler,
and any of a dozen steps may fail.  *Correct when* temporaries are gone,
tools find their inputs, and a compilation does not depend on the ones before.

### 1.6 Tensors and their ownership
`src/Runtime/OMTensor.inc`, `OMTensorList.inc`, the ownership analysis of
`ConvertKrnlToLLVM.cpp`, `KrnlEntryPoint.cpp`, `ExecutionSession::run`,
`PyExecutionSessionBase.cpp`, the JNI wrapper.

*State.* A flag per output, computed once per module; at run time the tensors
with their data and flag, the lists, and the memory itself.
*Operations.* `shouldOwn` traces an output through views and selects; the entry
point wraps the outputs; four callers wrap the inputs, take the outputs and
destroy what they made.
*Hard.* The decision is made at compile time for a value and applied at run
time to memory that may have come from the caller, from static data or from the
graph, and the paths on which a call fails.
*Correct when* every piece of memory is freed once, by its owner, and none is lost.

### 1.7 Broadcasting and elementwise loops
`ONNXBroadcastOpShapeHelper` (`src/Dialect/ONNX/ONNXOps/ShapeHelper.cpp`),
`src/Conversion/ONNXToKrnl/Math/Elementwise.cpp`, `simdIterateIE`.

*State.* The sizes known of each operand, the dimensions collapsed, the unroll
factor, the loops' position.
*Hard.* Dimensions unknown at compile time may be 1 or not, collapsing loops
drops the test, vectors run past the end of an output.
*Correct when* each element of the output is stored from the elements of the
operands the ONNX rule names, and nothing is accessed out of bounds.

### 1.8 Dimension analysis
`src/Dialect/ONNX/ONNXDimAnalysis.cpp`, asked by the elementwise lowering, by
shape inference of several operators and by the NNPA placement.

*State.* Sets of (tensor, axis), merged until a round changes nothing.
*Hard.* The sets live in a hash map whose order is arbitrary, rules go through
shape arithmetic, and a wrong member is believed by code generation.
*Correct when* two dimensions of a set are equal in every run of the program,
whatever the order of the map.

### 1.9 Krnl loops to affine loops
`src/Conversion/KrnlToAffine/ConvertKrnlToAffine.cpp`.

*State.* The function, the plan of what goes under which loop, the loop each
reference stands for at the moment, the operations to erase.
*Operations.* Bodies are cut at the iterates in them and set aside; the loops
appear and are blocked, permuted, made parallel or unrolled as the schedule says;
the bodies are put back, at places counted from the loops they were between.
*Hard.* Places are remembered by counting loops, while the loops they are
counted by are replaced, reordered and unrolled; each step depends on which
operations the ones before have erased.
*Correct when* every statement ends in the loops it was written in, in its
order, and the pass gets to its end.

### 1.10 Other transformations with a scope or a fixpoint
The hybrid pass (shape inference and canonicalisation to a bounded fixpoint),
the importer's symbol table (`SymbolTable.hpp`: scopes of nested graphs).

### 1.11 Algorithms of the runtime
Perfect hash lookup, sort, unique (`OMIndexLookup.inc`, `OMSort.inc`,
`OMUnique.inc`), the splitting of ztensors (`zDNNExtension`).  Pure functions.

### 1.12 Everything else
Instrumentation, heap reports, options, device placement, the JNI and Python
wrappers, dialect definitions, constant folding and the lowerings: listed in
`PROJECT.json` with the reason each is left out.

---

## 2. Plan

In the order of what matters to a user and of what concurrency makes hard to
test.

| Module | Composes | Abstract specification | Proofs |
|---|---|---|---|
| `DisposablePool` | passes, collector, scrub workers, pool | - | all safety |
| `AccelInit` | threads, mutex, device | - | all safety |
| `ExternalConstant` | sessions, loader, environment | `ConstantLoad`, as a property | all safety and the refinement |
| `TensorOwnership` | compiler, four callers, graph, tensors | what a value's memory may be (`Roots`) | all safety |
| `Broadcast`, `ElementwiseLoops` | shape helper, analyses, loops | the broadcasting rule of ONNX | all safety |
| `DimEquality`, `DimAnalysis` | sets, rules | equality in every run | soundness, fixpoint, order |
| `ConstantPack` | one compilation | - | all safety |
| `SessionCache` | forward, cache | - | all safety |
| `CompileDriver` | driver, tools, disk | - | all safety |
| `LoopBody`, `LoopMover` | bodies, plan, loops, schedule | what a function means (`Meaning`) | cutting and moving |
| `FrontendSymbols` | importer, scopes | lexical scoping | left |
| `RuntimeAlgorithms` | - | reference definitions | left |

All modules take their sets and bounds as CONSTANTS with named assumptions and
have one action per operation; none declares a RECURSIVE operator, so that all
of them can be proved about.

---

## 3. The modules and the code

### DisposablePool, MCDisposablePool, DisposablePoolProofs
`disp[s]` and `dense[s]` are the value attribute of the constant op `s`; which
function, and so which thread, owns the op is the constant `Owner`.  `pool`,
`active` and `counter` are the members of the class; `live` is the set of ids
whose buffer is not disposed.  A critical section of the mutex is one step;
everything the code does outside of it is a step of its own: the increment and
construction (`CreateElementsAttr`) is apart from `Insert`, the walk
(`RunAfterPass`, `ScrubStart`) from the collection, `FetchBatch` from `ToDense`
and `Dispose`.  `order` is the iteration order of the hash map `translations`,
chosen arbitrarily.  What rewrites do with constants (`SetAttr`, `Discard`,
`CloneOp`, `EraseOp`) is external.

The step `ReplaceOpAndGC` requires that no other op carries the same attribute.
The code has the weaker test that the constant op has one use; that two constant
ops do not share an attribute at that point follows from the constant merging of
the greedy driver, which is stated as the external `ConstantsUnique`.

### AccelInit, AccelInitProofs
One action per access to a variable that is read outside the mutex.  `inits`
counts the runs of `zdnn_init` since start-up or the last shutdown.  The
compiled entry point calls an init function, runs the graph (`using`) or
returns NULL (`refused`).  Shutdown is only called while no model runs: this
is the restriction that `OMRuntimeNNPA.c:44-48` places on callers.

### ConstantLoad, ExternalConstant, MCExternalConstant, ExternalConstantProofs
`ExternalConstant` has one step per shared access of `omMMapBinaryFile` and of
the per-constant loop: the unlocked test, the compare-and-swap, each test and
store of a data pointer.  `fd`, `heap` and `temp` are the resources a thread
holds; a failing `malloc`, `open` or `mmap` releases what the code
releases.  A mapping is a number and `content` says whose file it shows.
A model has one session at a time: further sessions of one library share its
globals through `dlopen`, as further threads do.
`ConstantLoad` is what callers may rely on: a block is published at most once
while a library is open and no thread runs before.  The refinement maps `block`
to `constAddr` and every place inside the loader to `loading`.

### ConstantPack, MCConstantPack, CompilerProofs
The module is compiled in the steps of `extractConstantsToFile`: select, sort,
remove the old file, one turn of the packing loop per constant, emit the
globals.  The file is a sequence of bytes, each naming its constant, so that an
overlap or a shift is visible.  `llvm::sort` is not stable and so any order of
equal alignments is allowed.  The specification is `SpecPack` and its position
`stage`, because the proofs about both halves of the compiler are in one module.

### SessionCache
One object of `ONNXMLIRTorch` with its cache and directory.  `forward` is
`Hit`, or `Miss`, `Export`, `CompileAndHook`, `Put`; the last three may raise in
between.  `remove` and `clear` are methods of the cache without a caller in the
package; they are actions because users can reach them.  A program that goes
through `torch.compile` creates one object per traced graph, so each has a
behaviour of this kind.

### CompileDriver, MCCompileDriver, CompilerProofs
One process and its compilations, each ended by success or by the failure of
any step.  `embedded` (the process calls `omCompileFromArray`, or is the
onnx-mlir program) and `printing` (the output goes to the standard output) are
chosen at the start.  A frame with a `FileRemover` adds to `pending`; `Return` fires them.
`cwd` follows `Command::exec`, which enters a directory for the `ar` step only.
Paths matter in one respect: a name relative to the start directory cannot be
reached from the subdirectory (`Reachable`).  The targets that print or write
MLIR differ in the text they write and are one target here.

### TensorOwnership, MCTensorOwnership, TensorOwnershipProofs
A behaviour is one compilation and one call.  The values of the module are
arguments, constants (`krnl.global`), allocations (any other operation), views
and selects; `Roots` is what they mean, the values whose memory a value may
denote, and is assumed to follow the view sources and the branches.  The
compilation runs `shouldOwn` one traced value per step (`todo`, `owns`) and fills
`flags`.  The call wraps the inputs (`WrapInput`, with the copies Python makes
of arrays that are not writable and the buffers of text), runs the graph,
wraps the outputs with the flags, and then does what each of the four callers
does (`session`, `list`, `python`, `java`), with a failure where the code tests
for one.  Memory has a name; `heap` is what some tensor or array must free,
`freed` what was given to `free`, and `faults` the memory freed twice or freed
without being from `malloc`.

The user of the C interface destroys the two lists in either order (`ListDestroyed`).
Tensors that the user still reads after their memory is gone are not looked at: a
view of an input dangles when the inputs are destroyed first, which is the user's order,
or by `ExecutionSession::run` itself (section 8).

The properties are stated without conditions on the program and say instead what goes
wrong with which memory.  `FreedByItsOwner`: only `Misclaimed` memory is ever freed twice or without
being from `malloc`, memory that the flags at the positions of the outputs let one of them
own though it is no allocation of the graph, or let two own.  Flags that do not belong
to the entry point called (`ConvertKrnlToLLVM.cpp:129`) and one buffer returned
twice (`KrnlEntryPoint.cpp:307`) both misclaim.  `NothingLost`: memory that is
to be freed has a holder at every moment or is lost in one of three ways that are in the code:
the copy of a read-only array of strings (`StringCopy`), memory of an output whose
flag may say no (`Disowned`), and what `pyRun` or the JNI function leaves behind when an
exception ends it (`Abandoned`).  `FirstEntryRight` puts the analysis and the call together: in
a call of the entry point that was analysed nothing is freed wrongly unless two owned outputs may share
memory, and memory is disowned only where a path leads to an argument or a constant.

The structs `OMTensor` and `OMTensorList` themselves are not counted, only the
memory of the data.

### Broadcast, ElementwiseLoops, MCElementwiseLoops, BroadcastProofs
`Broadcast` is the shape helper and the analyses that follow it: `Fold` takes the
operands one by one as `customComputeShape` does; `hasNoBroadcast`,
`hasManageableBroadcast` and the ranges of dimensions to collapse are computed
from the resulting expressions.  A dimension is a record of whether it is known, its value
when the program runs, and its name for an unknown one; code only looks at the
value when it is known or at run time.  `ElementwiseLoops` adds the choice of
vector length and the generated loops: outer loops, a flat innermost loop with
vectors and a scalar rest, and the access function of the operands.  Elements
are numbered in row-major order and an element of the output is the tuple of the
elements it was computed from.  `OperationsAssumption` says what the operations given
to the module are: inputs that broadcast, dimensions of at least one, the right
output type when there is one, and unknown dimensions with one name are equal
(which is what `GroupsAreEqual` of the dimension analysis provides).

### DimEquality, DimAnalysis, MCDimAnalysis, DimAnalysisProofs
`DimAnalysis` is the worklist: `Built` is what the constructor makes, a set per
unknown dimension of each result and the groups of the arguments; `VisitSet`
takes any set not yet reached in the round and adds what `visitDim` adds,
`MergeSets` joins two sets that overlap, and `EndRound` and `EndMerge` start
over while anything was added.  Tensors are numbers, a `DimT` is a pair of tensor and axis, and a
tensor that is an element of a shape stands for the number it contains, as the
code has it.  Any set may be the next one and any two overlapping sets may be
merged first: that is the freedom the hash map has.
`DimEquality` says what the groups should be: it gives the sizes each program may have
at run time (`LegalRuns`), operator by operator, and states `GroupsAreEqual`.  `Plain`
excludes the programs on which single rules are known to be wrong (section 7).
`DimsExist` contains the assertion of `visitDim` (`ONNXDimAnalysis.cpp:881`) that no
static dimension is in the analysis.  It holds because a Dim of a known dimension has been
folded before (`DimOpToConstantPattern`, `Canonicalize.td:1196`), which
`ProgramsAssumption` takes over: the elements of a shape are Dims of unknown dimensions only.

### LoopBody, LoopMover, MCLoopMover, CompilerProofs
The code of a function is a map from each operation with a region to the
operations in it, and an operation is a tuple of its kind and its operands.
`Mark` is the walk that sets the bodies aside (`MarkLoopBodyAsMovable`), one operation of
the function per step; `Define` lowers the iterates that use the loops of one
`krnl.define_loops`; each `Interpret...` is one operation of the schedule;
`Unroll`, `Erase` and `Move` follow, `Move` in any order, since `moveAll` goes
through a hash table.  `RemoveOps` runs where the code calls it, in the middle
of `InterpretPermute` and `Unroll` too, because what is gone by then decides
whether a nest is perfect and whether a loop has users.  An assertion or a cast
that does not hold leads to the phase `assert`.  `LoopBody` has the two halves of
`LoopBodyMover` as operators: `Cut` is the loop over the delimiters of a body,
`Transferred` the one over what was planned for a loop.  `permuteLoops`,
`loopUnrollFull` and the walks of MLIR are external, as are loops of two
iterations where one is unrolled (`Trip`).

`Meaning` is the specification: the statements in order, each with the loops around
it, read off the iterates before the pass and off the loops after it.  The pass does
not preserve it for every function one could write.  `Regular` says which ones it is
made for: at most one iterate where a nest goes on below, and not in front of the rest unless
it is unrolled; every loop run or blocked; no block whose inner loop has only
the iterate with the bounds for a user, after a permutation.  The condition was found by
comparing with the functions that do come out right, and both the
schedules that the lowerings write and the lit tests satisfy it, with the exceptions of section 7.

---

## 4. Runs

| Run | Question | Instance |
|---|---|---|
| `pool` | Is a constant ever lost, read after disposal, changed or left behind? Does a scrub return? | 2 threads, 3 slots with one op name each, 2 workers, 4 ids |
| `accel` | Is the device initialised once, in time, and the verdict right? Does every call return? | 3 threads, 2 calls each, 2 versions, one runnable |
| `external_constant` | Are constants complete, own and not leaked? Is the mapping stable and published once, and does loading end? | 2 threads, 2 models in one directory, 3 mappings |
| `external_constant_dirs` | Own constants with two directories and one file name? No. | 1 thread, 2 models |
| `constant_pack` | Do offsets and alignments name the right bytes? | every module of 1 to 3 constants |
| `session_cache` | Is the right session run, and do the two records of the cache agree? | 3 shapes, capacity 2, 5 compilations |
| `compile` | Are temporaries gone, the inputs of the tools there, the phases shown up to the total, and if not, how far? | the program or 3 compilations in one process, files or output printed, 2 names, one no valid tag |
| `tensor` | Are the compiler's flags right and tight? Which memory can be freed wrongly, which lost, whoever calls and whatever fails? | 10 values of every kind, 2 entry points with 1 or 2 outputs, 4 callers |
| `tensor_second_entry` | Are constants never owned, in any entry point? No. | the same |
| `elementwise` | Are the shape, the collapsed loops, the accesses and every element right? | up to 3 inputs, rank 3, sizes 1 to 3; vectors of 4 to 11 |
| `dims` | Are the groups sound, complete, the same in any order, and does the analysis stop? | 12 programs over every operator |
| `loops` | Does every statement of a `Regular` function end in its loops and its place, and no assertion fail there? | 10 schedules of lowerings and tests, 249 functions of two iterates with up to 4 operations between them; 65 of all are `Regular` |

Runs whose answer is "no" are expected violations and are explained in
section 7.

*Why the bounds are enough.*  The pool: two threads and two workers give every
pairwise race, three slots an op of each name and a shared attribute (`CloneOp`),
four ids two batches with `minCount` 2 and a batch closed by its size alone
(attribute 1 has the size `minAggregateCount`).  `AccelInit`: three threads are
one in the initialisation, one waiting for the mutex and one past the first
test; two calls each reach initialisation after a shutdown.
`ExternalConstant`: three mappings let two threads race and a model be loaded
again after its library was closed; two constants let a thread be between them.
`ConstantPack`: sizes 2, 3, 5 and alignments 2, 4 and "none" give every
remainder modulo the alignment; the units KB and GB are small numbers, since the
code only divides and multiplies by them.  `SessionCache`: capacity 2 with three
shapes fills the cache and evicts; five tags allow an eviction after an
eviction.  `CompileDriver`: the second call meets what the first left, the third
what the second left after a failure.  `TensorOwnership`: the values have a view
of each kind of memory, a select of two allocations, one of an allocation and a
constant, and a view of that; two outputs may be the same value or two views of
one.  `ElementwiseLoops`: with sizes 1, 2, 3 a dimension broadcasts, agrees or
differs; rank 3 has a collapsed part, a part outside and one operand shorter;
vectors of up to 4 elements with lengths 4 to 11 leave every remainder.
`DimAnalysis`: each rule is met by a program, most by programs in which its
answer is needed by another rule; at most ten sets at a time keep all orders
within reach.  `LoopMover`: a body of four operations
has a place before, between and after two iterates; the families nest them
plain, blocked, blocked twice and permuted, parallel and unrolled, and 65 of the
functions are regular; of the others the runs only show where the pass ends.
The schedules have three iterates deep, a kernel that stands for loops, and two
schedules in one function.  Apart from `LoopMover` and the properties named at the end of section 6, everything
checked here is proved there without these bounds.

Behaviours end at a bound (no more ids, calls, maps, tags), and a compiled
program may simply stop, so deadlock is not checked there; in `pool`, where
passes may always go on, it is.

---

## 5. Fairness

- `DisposablePool`: weak fairness of the collector, of the scrub's own steps and
  of each worker.  They run to their end on the pass manager's pool and block
  on nothing but a mutex that is held for one step.  No fairness for passes.
- `AccelInit`: weak fairness of the steps of a thread inside a call, none of the
  calls.  Weak fairness is enough for the mutex because a thread makes finitely
  many calls; with unbounded calls, `pthread_mutex_lock` does not promise that
  a given waiter is ever served, and the property would not be claimed.
- `ExternalConstant`: weak fairness of the loader's steps; it waits for nobody.
- `DimAnalysis`: weak fairness of the next step: the analysis is a loop in one
  thread and goes on as long as it can.  That it stops is a matter of what a round adds
  and is `Terminates`.
- `SessionCache`, `ConstantPack`, `CompileDriver`, `TensorOwnership`,
  `ElementwiseLoops`, `LoopMover`: no liveness property; these are straight lines or bounded
  loops of one thread.

---

## 6. Proofs

Each theorem holds for every value of the constants that satisfies the named
assumptions of the module.

**`DisposablePoolProofs`** (any number of threads, slots, workers, ids; any
owner, op names and sizes).  `TypeCorrect`, `ReachableAlwaysInPool`,
`DisposedNeverRead`, `ScrubLeavesNothing`, `ScrubIsFaithful` (an action
property), `CollectionIsExact` (an action property).

The properties are not inductive by themselves.  That a worker does not convert a
disposed attribute depends on batches being disjoint, that a scrub keeps values
on every fetched position being translated or in some worker's hands.
`IInv` is the conjunction of
- `IdInv`: ids are handed out once; what is created and not yet inserted is
  its creator's alone; nothing is alive outside the pool but that;
- `SlotInv`: a disposable in the module is in the pool, and alive unless
  a scrub is running;
- `PhaseInv`: what holds in each phase of the pass manager, e.g. during a
  collection the set of the walk is still the set of the module;
- `OrderInv`, `BatchInv`, `TransInv`, during a scrub: the translations are the
  module's disposables, each once; batches are disjoint, before the iterator and
  alive from the worker's position on; what is fetched is translated or in a
  batch.

The proof has a step per action and below it a step per conjunct.

`ScrubAlwaysAdvances` is the variant behind `ScrubTerminates`: while the workers run, every
step lowers `LeftToDo`, which counts the attributes not fetched, those in batches,
the workers that translate and the workers that run, in this order, so that a fetch
may add to a batch what it takes off the first count.  The order is well-founded
(`LessIsWellFounded`).  `BatchAlwaysFound`: a worker that comes to fetch while
something is left finds a batch, and not an empty one.  The workers are assumed to
be finitely many.

**`AccelInitProofs`** (any number of threads, versions and calls, any set of
runnable versions).  `InitialisedOnce`, `UsedOnlyAfterInit`, `NeverRefused`,
`AcceptedAfterRunnable`.  `IInv` is `MutexInv` (the mutex is held by the thread
whose position says so), `FlagInv` (the flag is the truth about `inits` but in
the window between `zdnn_init` and the store), `PcInv` (who is past the test has
seen the flag set, and nobody clears it while a model runs) and `VerdictInv`
(`isCompatible` is never taken back).  The restriction on callers of shutdown is
what makes `PcInv` inductive.

`NeverDeadlocks` says that the holder of the mutex never waits and that while a
call is under way, some call is not blocked.  `CallsAlwaysAdvance` is the variant behind
`CallsReturn`: a step of a call lowers its `StepsLeft`, 12 at most, and no step of
another raises it.

**`ExternalConstantProofs`** (any number of threads, models, directories,
constants and mappings).  `TypeCorrect`, `AlwaysReady`, `NeverLeaks`,
`PublishedStays` (an action property), `OwnWithDistinctNames` and the refinement
`ImplementsConstantLoad`.  `IInv` adds to the leak property
- `ModelInv`: a thread is in a model only while its library is open;
- `MapInv`: a mapping is published by one model or in the hands of one thread
  before its compare-and-swap, never both, so that unmapping after a lost race
  takes nobody's constants away; after the compare-and-swap one is published;
- `DataInv`: a data pointer is null or the published mapping, and a thread that
  has passed a constant has seen it set;
- `HandleInv`: which places of the loader hold a descriptor or a buffer.

`OwnWithDistinctNames` assumes `DistinctFileNames`; without it the property is
false, as the run `external_constant_dirs` shows (section 7), and the run
`external_constant` checks it in the case of one directory, where the files have
different names because they could not both exist otherwise.  The refinement
maps `CallModel`, the winning `Publish`, the last `Lookup`, the failures,
`ReturnFromModel` and `CloseSession` to the abstract actions and every other step to
a stutter; the winning `Publish` and the last `Lookup` need `IInv`.
`LoadsAlwaysAdvance` is the variant behind `LoadReturns`: a load has at most
`2 * NumConsts + 8` steps, each brings its return nearer, and neither a lost race nor
another thread's failure sets it back.

**`TensorOwnershipProofs`** (any values, views and selects with the meaning
that `ValuesAssumption` states; any entry points and outputs).  `TypeCorrect`,
`AnalysisIsSafe` (`NoFalsePositive`: what the graph does not hand over is not
owned), `AnalysisIsTight` (`DisownedForAReason`), `FreesAreRight`
(`FreedByItsOwner`), `NothingLeaks` (`NothingLost`), `FirstEntryIsSafe`
(`FirstEntryRight`).  The analysis has the invariant `AnalysisInv`, which adds to the two
properties
- `TraceInv`: as long as the answer is yes, the memory the output may denote is
  allocated or that of a value still to trace; once it is no, there was a reason.

The call has the invariant `RunInv`, the conjunction of `NothingLost` and
- `PlaceInv`: which tensors, arrays and memory there are in each phase;
- `OutInv`: an output tensor carries the memory of a root of its value and at
  most the flag of its position;
- `HoldInv`: memory that is not misclaimed has at most one holder, a tensor or an array,
  which has not freed it yet, and has never been freed wrongly.

`FreesAreRight` and `NothingLeaks` hold of every program and entry point; the cases in which the compiler's flags
are wrong are in their statements, as the memory that is misclaimed or disowned, not in
their hypotheses.  `FirstEntryIsSafe` follows from both invariants: for the entry point that was
analysed, `NoFalsePositive` leaves of the misclaimed memory only what two
outputs share, and `DisownedForAReason` leaves of the disowned memory only what may instead
be an argument or a constant.

**`BroadcastProofs`** (any number and rank of inputs, any sizes of at least one;
any vector length, number of accumulators and flattening that the module's
assumptions allow).  About the analyses: `TypeCorrect`,
`ShapesAreRight`, `CollapsesAreSafe`, `AccessesAreRight`.  `FoldInv` says
that the shape helper's dimension is 1 or the output's after any number of
operands, and the latter once an operand had that size; `RankInv` and `DimsInv`
relate the padded inputs to the given ones; `NoBroadcastInv` and `CollapseInv`
say that in the dimensions collapsed an operand either has the output's sizes or
is a literal 1 throughout.

About the loops: `StoresAlwaysFit`, no iteration stores beyond the buffer, and
`ElementsAlwaysRight`, every element of the output is computed, from the elements
of the operands that broadcasting assigns to it.  `LoopsAnalyze` is the refinement
that brings the invariants of the analyses along: the loops are a specification
whose steps are those of `Broadcast` or leave its variables alone.  `LoopInv` adds
- `ChosenInv`: what `ChooseLoops` settled: without a scalar rest, either the
  vector length divides the innermost loop or the buffer is padded, and there is
  one loop; a flat loop stands for dimensions that may be collapsed;
- `PlaceInv`: where the loops are and that every element before that place is
  stored;
- `StoredRight`: what is stored comes from the right elements.

The lemmas have two subjects.  An element is found from its number by dividing
by products of sizes: `OuterCoordinate` and `InnerCoordinate` give its
coordinates in the nest and in the flat loop, and `FlatRow` says that an operand
with all of the collapsed dimensions is read in the order of its memory; `SourceRight` joins them with
`AccessesAreRight`.  And the size known at compile time divides the size
(`LiteralsDivide`), which is why a vector length that suits it suits the buffer
(`AllocFacts`, `UnrollFacts`).  Both rest on lemmas about products and row-major
numbers over any number of dimensions.  These are proved by induction with a set in the place of
the predicate (`Induction`, from the well-foundedness of `<`), and `Product` and
`RowMajor` are recursive functions, for which `IterationExists` and `Agreement` give
existence and uniqueness.

**`DimAnalysisProofs`** (any program).  `StopsAtFixpoint`: when the analysis
ends a further visit would add nothing.  `GroupsHold`
and `DimsAlwaysExist`: for every program, the dimensions of a group are ones that
`visitDim` may be given, as it asserts, and they exist and are equal in every plain run.
The first is `InsideInv`, which needs no run; the second is `SoundInv`, which says it of
all sets in all phases and is preserved by merging since equality is transitive.
The work is in `VisitInside` and `VisitHolds`, which have a lemma per operator.

Reshape takes the most.  Its rules infer that two sizes are equal from the number of
elements, which is a product over tensors of any rank: `OnlyUnknownHolds` cancels the
known sizes (`Cancel`), `OtherOfTwoHolds` an unknown one that is in a group with one of the result, and
`ReshapeHelperHolds` all dimensions of the input that the shape repeats, which
`SplitOff` takes out of two equal products one by one.  That sizes are positive is what makes
this sound.  The lemmas before them are the theory of such products, proved by
induction with a set in the place of the predicate.

`OrderNeverMatters`: for every program, the groups found are those of a
reference, `Together`, in which all dimensions are visited at once, round by round,
once a round of the reference changes nothing.  (For the programs of the run, TLC
checks that it comes to that; without a reference, the proof says that any two
orders end with the same groups.)  `OrderInv` says of the sets that they contain the initial ones
and are contained in every family of groups which contains those and is settled.  That is
inductive because a visit with larger groups finds at least as much (`VisitStays`).
One rule does not have this property by itself: `OtherOfTwo` asks about two dimensions of a Reshape's input
in turn, and as groups grow the first may answer where the second did before; but
then both have answered, and are in one group (`OtherOfTwoStays`).

`AnalysisAlwaysAdvances` is the variant behind `Terminates`.  A visit adds dimensions
and a merge takes a set away, so that neither the number of sets nor that of dimensions
will do alone: `LeftToFind` has the sets, the dimensions that could still be found, the
rounds to go and the sets to visit in this round, in this order.  The second is
finite because the axes that any rule comes up with are bounded by the longest
tensor of the program (`SpaceInv`, `VisitUpTo`).  `TypeCorrect` is the types.

**`CompilerProofs`**.  About `CompileDriver` (any number of compilations of any
names in one process, anything kept): `DriverTypes`,
`AlwaysTemporariesRemoved`, `AlwaysToolInputsPresent`, `PhasesAlwaysAddUp`.  That a
tool finds its input depends on which removers have fired before, and that
nothing is left on which are still to fire.  `DriverInv` is the types, the
properties and
- `RouteInv`: which targets come to which stage, and from which directory;
- `PendingInv`: what the removers in scope will take away at each stage;
- `LeftInv`: what the removers of the stages before have left of the disk, in
  spite of what an earlier compilation left there;
- `PhaseInv`, `StartInv`, `PrintInv`: how many phases have been shown at each stage, of how
  many, as long as nothing failed, by a process that writes files and by one that prints.

About `ConstantPack` (any modules, sizes and alignments):
`AlwaysPackedWhole`, `AlwaysAligned`, `FileSizeAlwaysExact`.  `FileInv` (the
running total is the length of the file) is what makes an offset the place where
the constant is then written; the lemma `PadFacts` is the arithmetic of the padding.

About `LoopBody` (bodies of any length): `BodyComesBack`, for bodies in which no iterate comes first or
right after another (`Separated`).  No iterate of such a body is in a movable, and
once its iterates have become loops, moving what was planned makes the
body whole, with every loop in the place of its iterate; the assertion that there is
a place to insert at holds.  Operations in the movables may have changed meanwhile, but none
may be gone.  The lemma `WhatMovablesHold` says that the other bodies are exactly those with an iterate in a movable, which is
not stepped over; the pass gets some of them wrong (section 7), and the theorem says
nothing of them.  The argument goes along the body.  Up to each
operation, what was planned so far has put back the body up to where the next chunk
begins, which is where the insertion point is, and the loops of later iterates are behind
it (`AtPt`): `MovableBack` and `LoopSteppedOver` are the two kinds of transfer,
`ChunkBack` a step of the cutting.  Since the plan is only known whole, the
proof needs that cutting only adds to it (`Grows`).  `RecursionExists` and
`Successors` are for the two recursive functions what `IterationExists` and `Induction` are
above.  The theorem is about one body with its loops and movables in place.  Whether they are in
place is a matter of the whole schedule, which the run `loops` explores.

**`SessionCacheProofs`** (any shapes, capacity and number of compilations).
`AccessOrderAlwaysMatches`, `AlwaysWithinCapacity`, `AlwaysRightSession`.
`OrderInv`: the access list has each key of the cache once and not more than the
capacity; `TagInv`: the tags of the cache are below the counter, and different
keys have different ones; `MissInv`: between choosing a victim and `put` there is room, and
the tag in hand is nobody's.

Only model-checked: the liveness properties (`ScrubTerminates`, `CallsReturn`,
`LoadReturns`, `Terminates`) as such, because they need ENABLED, which no prover here can do.
Their variants are proved, so that what is left to fairness is that an enabled step is
taken, and for `AccelInit` that some step is enabled is proved as well.  And
`BodiesInPlace` and `NoAssertFails` of `LoopMover`.  They say of a function that its
`Meaning`, which is recursive over the nesting, survives, provided it is `Regular`;
this condition was found by comparing with the functions of the run.  It says nothing
of, for instance, the order in which a schedule blocks and permutes loops not yet
made, and is not claimed for functions that no run has.  `FileSizeExact` and
`WithinCapacity` are proved and not spent on runs.  The types of the
modules are invariants of the proofs and not spent on runs.

---

## 7. Where the code and its documents disagree

Met while modelling; each is a run whose property TLC refutes, listed with
quotations in `PROJECT.json` under "findings".

| Run | What happens |
|---|---|
| `external_constant_dirs` | `OM_CONSTANT_PATH` keeps the directory of the first session; a model elsewhere with a constants file of the same name runs with the other's constants. |
| `tensor_second_entry` | The flags of the first entry point that the compiler meets are put on the outputs of all: a constant returned by the second one is owned, and freed. |

Others are in the model without a run of their own.

*Sizes and counters.*  `fetchBatch` adds the size of the first attribute of a
batch for every attribute in it (`DisposablePool.cpp:108`, operator `BatchFull`),
so batches have another length than its comment says; the scrub is right all
the same.  The thresholds of the constants file are truncated to whole units
before they are scaled (`ConvertKrnlToLLVM.cpp:871`): 1.5 GB is 1 GB, 0.03 KB is 0.

*Torch cache.*  A full cache evicts the most recently used entry
(`sessioncache.py:31`).  While the cache fills up, the index given as a victim is
a position and the file removed is that of a tag (`sessioncache.py:36`), and the
comment at `onnxmlirtorch.py:156` has them the same: the files of a cached
session go, though its library stays mapped.  Files of compilations that raised
are never removed (`onnxmlirtorch.py:179`), since no victim ever has their tag.

*Compile driver.*  A failed command leaves the process in the directory it
entered (`CompilerUtils.cpp:185`; the comment at line 149 says it is restored).
The default tag of the first model of a process is kept for all later ones
(`CompilerUtils.cpp:944`).  After a failed compilation the next one finds the phase
counter away from 1 and keeps the total of the failed one
(`CompilerUtils.cpp:1007`); `PhasesAddUp` is stated of processes without a failure.
Of those that write files it says that each compilation shows its phases up to the total
and leaves the counter at 1.  A compilation that prints its output succeeds without the
last phases (`CompilerUtils.cpp:987`): it stops short of its total and leaves the
counter away from 1, so that the next one in the process keeps the old total and numbers its
phases on.  `PhasesAddUp` says that, too, of the first in a process.

*Tensors.*  Where two outputs of a graph are one buffer, both tensors own it if
the flags say so (`KrnlEntryPoint.cpp:307`): whether the passes of MLIR before
this code ever leave it so is outside the repository.  When a model returns NULL, `pyRun`
raises without destroying its list (`PyExecutionSessionBase.cpp:243`).
Both are in the model, and in the statements of `FreedByItsOwner` and `NothingLost`.

*Loops.*  Three kinds of function are outside `Regular` because the pass does not get
them right (all in `ConvertKrnlToAffine.cpp`).  An iterate that comes first in a body is not stepped over
(line 331), and what follows it is put before it.  An iterate that runs no loop but
has bounds is not cut at all (line 313): `MatMul.cpp:87` makes one for two vectors,
and the store after the reduction ends up in the loop of the reduction.  And a permute
erases the iterates lowered so far (line 720), so that a later block whose loops
only such an iterate uses is taken for one whose inner loop is unused (line 695)
and runs once.

*Dimension analysis.*  Operands are compared in pairs (`ONNXDimAnalysis.cpp:921`): in
Sum(X, X, Y) with X of one dimension and Y of two, the unknown number of rows of Y
gets the group of X.  `Plain` and the programs leave these out, all in
`ONNXDimAnalysis.cpp` or the helpers it reads: an elementwise operation of three
operands of one rank of which one is static; an Expand whose shape is 1 at run
time in an axis where the data is larger, or is shorter than the rank of the
data (it is then indexed out of bounds); batch dimensions of MatMul that are
both unknown, of which the first operand's is taken; elements of a Reshape's shape that are
0 or -1 at run time; the `sequence_lens` of a GRU that come from a Cast; two initial sets
that overlap and are never merged because no round adds anything.

---

## 8. What is not modelled

The repository has about 176,000 lines of implementation.  The modules stand for
around three in a hundred of them, and cannot stand for a third: some 40,000 lines
are one-operator lowerings (Krnl, TOSA, Stablehlo, ZHigh, ZLow), canonical rewrites
and decompositions, each a function from one pattern to another whose
correctness is a fact about arithmetic on tensors; others are builders that wrap
MLIR calls, generated dialect definitions, importers of attributes, tables of
options, tests and utilities.  They have no state that outlives the rewrite of
one operation and no order of steps to explore, which is what TLC and an
inductive proof are good for.

By component:
- Lowerings, folding and dialects: as said.  Of `Elementwise.cpp` the loops are
  modelled, not the operations.
- Inputs and outputs: instrumentation, heap reports, option parsing.
- Failures the code does not look at: writing the constants file
  (`ConvertKrnlToLLVM.cpp:535`).
- Races inside the C library: `setenv` while another thread is in `getenv`.
- Two compilers at once in one directory: they share the names of the JNI
  intermediates.
- Memory ordering weaker than sequential consistency: the NNPA is a Z device and
  Z is strongly ordered up to store buffering, which the mutex drains before the
  flag matters; `ExternalConstant` is modelled at the atomicity of its accesses.
- Elementwise: dimensions of size zero, reuse of an input's buffer for the
  output (off by default, `Elementwise.cpp:64`), fused consumers and parallel loops.
- Dimension analysis: the constructor that takes a list of values, the queries
  after the analysis, vectors as operands of MatMul, operators treated like
  another (LSTM, RNN, MaxUnpool, MatMulInteger), shapes made of nested Concats,
  the bias of Gemm, sizes of zero.
- Tensors: the structs and lists left by an exception, strides, input checks.
- Loops: the values that iterates yield, `krnl.get_induction_var_value`, the
  clause of a parallel loop, the motion of invariant code before the pass, the
  conversion patterns after it.
- Use of memory after it was freed: an output of `ExecutionSession::run` that is a
  view of an input is handed out after the input was freed (`ExecutionSession.cpp:245`).
- The modules of section 2 that are marked "left" and have no module yet.

Some hazards in `PROJECT.json` name no property, because the model assumes them away
or because the code gets them wrong and the properties say so: a constant shared by two operations when one of
them is replaced (`ConstantsUnique`), a verdict of the NNPA that outlives its model,
double ownership, the view of a freed input and the list that is not destroyed, three operands of different
ranks (`Plain`), and the two slips of the loops outside `Regular`.  Each has a note.
