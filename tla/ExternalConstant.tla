-------------------------- MODULE ExternalConstant --------------------------
(***************************************************************************)
(* Models whose constants live in a file beside the shared library          *)
(* (--store-constants-to-file): every call of an entry point first runs     *)
(* omLoadConstantsFromFile, which maps the file with omMMapBinaryFile       *)
(* (src/Runtime/OMExternalConstant.inc) and points each constant of the     *)
(* model into the mapping; the directory comes from OM_CONSTANT_PATH, which *)
(* ExecutionSession::Init sets.  Threads call models concurrently and share *)
(* no lock.  A mapping is a number; mappings are numbered as they are made. *)
(***************************************************************************)
EXTENDS Integers, FiniteSets

CONSTANTS
  Threads,
  Models,     \* shared libraries
  Dirs,       \* directories
  Cwd,        \* the working directory of the process
  Home,       \* the directory of a model's library and of its constants file
  FileName,   \* the constants file name, compiled into a model
  NumConsts,  \* constants a model keeps in the file
  UserPath,   \* OM_CONSTANT_PATH at start-up, or NoPath
  NoPath, NoModel,
  MaxMaps     \* bound on the mappings ever made

ASSUME ExternalConstantAssumption ==
  /\ Home \in [Models -> Dirs]
  /\ Cwd \in Dirs
  /\ NoPath \notin Dirs
  /\ UserPath \in Dirs \cup {NoPath}
  /\ NoModel \notin Models
  /\ NumConsts \in Nat
  /\ MaxMaps \in Nat

VARIABLES
  env,        \* OM_CONSTANT_PATH
  sessions,   \* models with an ExecutionSession
  constAddr,  \* packedConst global of a model: a mapping, or 0 (NULL)
  data,       \* data globals of a model: the mapping they point into, or 0
  mapped,     \* mappings alive
  left,       \* history: mappings of libraries closed since
  content,    \* the model whose file a mapping shows
  pc, mod, base, fd, heap, temp, k

vars == <<env, sessions, constAddr, data, mapped, left, content,
          pc, mod, base, fd, heap, temp, k>>
processVars == <<env, sessions>>
globals == <<constAddr, data>>
maps == <<mapped, left, content>>
locals == <<base, fd, heap, temp, k>>

Maps == 1..MaxMaps
PCs == {"idle", "test", "path", "open", "mmap", "cas", "close",
        "lookup", "store", "running", "failed"}

TypeOK ==
  /\ env \in Dirs \cup {NoPath}
  /\ sessions \subseteq Models
  /\ constAddr \in [Models -> 0..MaxMaps]
  /\ data \in [Models -> [1..NumConsts -> 0..MaxMaps]]
  /\ mapped \subseteq Maps
  /\ left \subseteq Maps
  /\ content \in [Maps -> Models \cup {NoModel}]
  /\ pc \in [Threads -> PCs]
  /\ mod \in [Threads -> Models \cup {NoModel}]
  /\ base \in [Threads -> Dirs \cup {NoPath}]
  /\ fd \in [Threads -> BOOLEAN]
  /\ heap \in [Threads -> BOOLEAN]
  /\ temp \in [Threads -> 0..MaxMaps]
  /\ k \in [Threads -> 1..(NumConsts + 1)]

Init ==
  /\ env = UserPath
  /\ sessions = {}
  /\ constAddr = [m \in Models |-> 0]
  /\ data = [m \in Models |-> [c \in 1..NumConsts |-> 0]]
  /\ mapped = {}
  /\ left = {}
  /\ content = [a \in Maps |-> NoModel]
  /\ pc = [t \in Threads |-> "idle"]
  /\ mod = [t \in Threads |-> NoModel]
  /\ base = [t \in Threads |-> NoPath]
  /\ fd = [t \in Threads |-> FALSE]
  /\ heap = [t \in Threads |-> FALSE]
  /\ temp = [t \in Threads |-> 0]
  /\ k = [t \in Threads |-> 1]

Goto(t, l) == pc' = [pc EXCEPT ![t] = l]

-----------------------------------------------------------------------------
(* Sessions                                                                  *)

(* ExecutionSession::Init calls setenv with overwrite = 0, and only for a    *)
(* library path with a separator in it; a bare name stands for a library of  *)
(* the working directory.                                                    *)
SetConstantPath(m, qualified) ==
  env' = IF env = NoPath /\ qualified THEN Home[m] ELSE env

OpenSession(m, qualified) ==
  /\ m \notin sessions
  /\ qualified \/ Home[m] = Cwd
  /\ sessions' = sessions \cup {m}
  /\ SetConstantPath(m, qualified)
  /\ UNCHANGED <<globals, maps, pc, mod, locals>>

(* ~ExecutionSession closes the library: its globals go, a mapping stays.    *)
CloseSession(m) ==
  /\ m \in sessions
  /\ \A t \in Threads : mod[t] # m
  /\ sessions' = sessions \ {m}
  /\ left' = left \cup ({constAddr[m]} \ {0})
  /\ constAddr' = [constAddr EXCEPT ![m] = 0]
  /\ data' = [data EXCEPT ![m] = [c \in 1..NumConsts |-> 0]]
  /\ UNCHANGED <<env, mapped, content, pc, mod, locals>>

CallModel(t, m) ==
  /\ pc[t] = "idle"
  /\ m \in sessions
  /\ mod' = [mod EXCEPT ![t] = m]
  /\ Goto(t, "test")
  /\ UNCHANGED <<processVars, globals, maps, locals>>

(* The graph has run, or the entry point has returned NULL (EINVAL).         *)
ReturnFromModel(t) ==
  /\ pc[t] \in {"running", "failed"}
  /\ mod' = [mod EXCEPT ![t] = NoModel]
  /\ Goto(t, "idle")
  /\ UNCHANGED <<processVars, globals, maps, locals>>

-----------------------------------------------------------------------------
(* omMMapBinaryFile                                                          *)

TestMapped(t) ==
  /\ pc[t] = "test"
  /\ Goto(t, IF constAddr[mod[t]] # 0 THEN "lookup" ELSE "path")
  /\ k' = [k EXCEPT ![t] = 1]
  /\ UNCHANGED <<processVars, globals, maps, mod, base, fd, heap, temp>>

(* getenv and the malloc of the path, which may fail.                        *)
MakePath(t) ==
  /\ pc[t] = "path"
  /\ base' = [base EXCEPT ![t] = env]
  /\ \/ /\ heap' = [heap EXCEPT ![t] = env # NoPath]
        /\ Goto(t, "open")
     \/ /\ env # NoPath
        /\ Goto(t, "failed")
        /\ UNCHANGED heap
  /\ UNCHANGED <<processVars, globals, maps, mod, fd, temp, k>>

(* External: the models whose constants file open() finds for a thread.      *)
Found(t) == {m \in Models : /\ Home[m] = (IF base[t] = NoPath THEN Cwd ELSE base[t])
                            /\ FileName[m] = FileName[mod[t]]}

OpenFile(t) ==
  /\ pc[t] = "open"
  /\ \/ /\ Found(t) # {}
        /\ fd' = [fd EXCEPT ![t] = TRUE]
        /\ Goto(t, "mmap")
        /\ UNCHANGED heap
     \/ /\ heap' = [heap EXCEPT ![t] = FALSE]
        /\ Goto(t, "failed")
        /\ UNCHANGED fd
  /\ UNCHANGED <<processVars, globals, maps, mod, base, temp, k>>

(* mmap yields a mapping never seen before, or fails.                        *)
MMapFile(t) ==
  /\ pc[t] = "mmap"
  /\ \/ \E a \in Maps :
          /\ content[a] = NoModel
          /\ \A b \in Maps : b < a => content[b] # NoModel
          /\ \E m \in Found(t) : content' = [content EXCEPT ![a] = m]
          /\ mapped' = mapped \cup {a}
          /\ temp' = [temp EXCEPT ![t] = a]
          /\ Goto(t, "cas")
          /\ UNCHANGED <<left, fd, heap>>
     \/ /\ fd' = [fd EXCEPT ![t] = FALSE]
        /\ heap' = [heap EXCEPT ![t] = FALSE]
        /\ Goto(t, "failed")
        /\ UNCHANGED <<maps, temp>>
  /\ UNCHANGED <<processVars, globals, mod, base, k>>

(* Slips: a plain store instead of the compare-and-swap; the loser keeps its *)
(* mapping; packedConst has no internal linkage, so that                     *)
(* all libraries share the one of the first.                                 *)
PublishStore(t) ==
  /\ pc[t] = "cas"
  /\ constAddr' = [constAddr EXCEPT ![mod[t]] = temp[t]]
  /\ temp' = [temp EXCEPT ![t] = 0]
  /\ Goto(t, "close")
  /\ UNCHANGED <<processVars, data, maps, mod, base, fd, heap, k>>

PublishKeepsLoser(t) ==
  /\ pc[t] = "cas"
  /\ constAddr' = IF constAddr[mod[t]] = 0
                  THEN [constAddr EXCEPT ![mod[t]] = temp[t]] ELSE constAddr
  /\ temp' = [temp EXCEPT ![t] = 0]
  /\ Goto(t, "close")
  /\ UNCHANGED <<processVars, data, maps, mod, base, fd, heap, k>>

PublishCommonSymbol(t) ==
  /\ pc[t] = "cas"
  /\ constAddr' = [m \in Models |-> IF constAddr[m] = 0 THEN temp[t] ELSE constAddr[m]]
  /\ mapped' = IF constAddr[mod[t]] = 0 THEN mapped ELSE mapped \ {temp[t]}
  /\ temp' = [temp EXCEPT ![t] = 0]
  /\ Goto(t, "close")
  /\ UNCHANGED <<processVars, data, left, content, mod, base, fd, heap, k>>

(* The compare-and-swap; a thread that loses unmaps what it mapped.          *)
Publish(t) ==
  /\ pc[t] = "cas"
  /\ IF constAddr[mod[t]] = 0
     THEN /\ constAddr' = [constAddr EXCEPT ![mod[t]] = temp[t]]
          /\ UNCHANGED mapped
     ELSE /\ mapped' = mapped \ {temp[t]}
          /\ UNCHANGED constAddr
  /\ temp' = [temp EXCEPT ![t] = 0]
  /\ Goto(t, "close")
  /\ UNCHANGED <<processVars, data, left, content, mod, base, fd, heap, k>>

CloseFile(t) ==
  /\ pc[t] = "close"
  /\ fd' = [fd EXCEPT ![t] = FALSE]
  /\ heap' = [heap EXCEPT ![t] = FALSE]
  /\ Goto(t, "lookup")
  /\ UNCHANGED <<processVars, globals, maps, mod, base, temp, k>>

-----------------------------------------------------------------------------
(* omGetExternalConstantAddr for each constant, in the order of the module.  *)

(* Slip: the loop stays on a constant that another thread has already set.   *)
LookupStays(t) ==
  /\ pc[t] = "lookup"
  /\ IF k[t] > NumConsts
     THEN Goto(t, "running")
     ELSE data[mod[t]][k[t]] = 0 /\ Goto(t, "store")
  /\ UNCHANGED <<processVars, globals, maps, mod, base, fd, heap, temp, k>>

Lookup(t) ==
  /\ pc[t] = "lookup"
  /\ IF k[t] > NumConsts
     THEN Goto(t, "running") /\ UNCHANGED k
     ELSE IF data[mod[t]][k[t]] # 0
          THEN k' = [k EXCEPT ![t] = k[t] + 1] /\ UNCHANGED pc
          ELSE Goto(t, "store") /\ UNCHANGED k
  /\ UNCHANGED <<processVars, globals, maps, mod, base, fd, heap, temp>>

(* Slip: the first constant is skipped.                                      *)
StoreSkips(t) ==
  /\ pc[t] = "store"
  /\ data' = IF k[t] = 1 THEN data
             ELSE [data EXCEPT ![mod[t]][k[t]] = constAddr[mod[t]]]
  /\ k' = [k EXCEPT ![t] = k[t] + 1]
  /\ Goto(t, "lookup")
  /\ UNCHANGED <<processVars, constAddr, maps, mod, base, fd, heap, temp>>

Store(t) ==
  /\ pc[t] = "store"
  /\ data' = [data EXCEPT ![mod[t]][k[t]] = constAddr[mod[t]]]
  /\ k' = [k EXCEPT ![t] = k[t] + 1]
  /\ Goto(t, "lookup")
  /\ UNCHANGED <<processVars, constAddr, maps, mod, base, fd, heap, temp>>

-----------------------------------------------------------------------------
LoadStep(t) ==
  \/ TestMapped(t) \/ MakePath(t) \/ OpenFile(t) \/ MMapFile(t) \/ Publish(t)
  \/ CloseFile(t) \/ Lookup(t) \/ Store(t)

ThreadStep(t) ==
  \/ \E m \in Models : CallModel(t, m)
  \/ LoadStep(t)
  \/ ReturnFromModel(t)

Next ==
  \/ \E m \in Models : \/ \E qualified \in BOOLEAN : OpenSession(m, qualified)
                        \/ CloseSession(m)
  \/ \E t \in Threads : ThreadStep(t)

Spec == Init /\ [][Next]_vars

(* A thread inside omLoadConstantsFromFile waits for nobody: it is scheduled *)
(* and every call it makes returns.                                          *)
FairSpec == Spec /\ \A t \in Threads : WF_vars(LoadStep(t))

-----------------------------------------------------------------------------
(* Properties                                                                *)

(* "Either we succeeded in setting constAddr or someone else did it": a      *)
(* thread that runs the graph finds every constant pointing into the one     *)
(* published mapping of its model, and that mapping is alive.                *)
ConstantsReady ==
  \A t \in Threads : pc[t] = "running" =>
    /\ constAddr[mod[t]] \in mapped
    /\ \A c \in 1..NumConsts : data[mod[t]][c] = constAddr[mod[t]]

(* No mapping, descriptor or path buffer is leaked by a lost race or by an   *)
(* error path: every mapping alive is the published one of its model, or in  *)
(* the hands of a thread still in omMMapBinaryFile, or was left by a library *)
(* closed since, which never unmaps it.                                      *)
NothingLeaked ==
  /\ \A t \in Threads : pc[t] \in {"idle", "running", "failed"} => ~fd[t] /\ ~heap[t]
  /\ \A a \in mapped : \/ a \in left
                       \/ \E m \in Models : constAddr[m] = a
                       \/ \E t \in Threads : temp[t] = a

(* A published mapping is neither replaced nor unmapped while its library   *)
(* is open: an address handed out by omGetExternalConstantAddr stays good.   *)
PublishedIsStable ==
  [][\A m \in Models : constAddr[m] # 0 /\ m \in sessions' =>
       constAddr'[m] = constAddr[m] /\ constAddr[m] \in mapped']_vars

(* The constants a model runs with are the ones of its own file, beside its  *)
(* library.                                                                  *)
OwnConstants ==
  \A t \in Threads : pc[t] = "running" => content[constAddr[mod[t]]] = mod[t]

(* Every call gets to run the graph or to fail.                              *)
LoadReturns ==
  \A t \in Threads : (pc[t] \notin {"idle", "running", "failed"}) ~>
                     (pc[t] \in {"running", "failed"})

-----------------------------------------------------------------------------
(* The inductive invariant.                                                  *)

(* A thread is in a model exactly while its library is open.                 *)
ModelInv ==
  \A t \in Threads : /\ pc[t] = "idle" <=> mod[t] = NoModel
                     /\ pc[t] # "idle" => mod[t] \in sessions

(* A mapping is published by one model or in the hands of one thread, and    *)
(* alive; whoever is past the compare-and-swap finds one published.          *)
MapInv ==
  /\ \A a \in mapped : content[a] # NoModel
  /\ \A m \in Models : constAddr[m] # 0 => constAddr[m] \in mapped
  /\ \A t \in Threads : pc[t] = "cas" <=> temp[t] # 0
  /\ \A t \in Threads : temp[t] # 0 => temp[t] \in mapped
  /\ \A m, n \in Models : constAddr[m] # 0 /\ constAddr[m] = constAddr[n] => m = n
  /\ \A t, u \in Threads : temp[t] # 0 /\ temp[t] = temp[u] => t = u
  /\ \A t \in Threads, m \in Models : temp[t] # 0 => temp[t] # constAddr[m]
  /\ \A t \in Threads : pc[t] \in {"close", "lookup", "store", "running"} =>
       constAddr[mod[t]] # 0

(* Constants are set to the published mapping only, in order, and the ones   *)
(* before a thread's position are set.                                       *)
DataInv ==
  /\ \A m \in Models : \A c \in 1..NumConsts : data[m][c] \in {0, constAddr[m]}
  /\ \A t \in Threads : pc[t] \in {"path", "open", "mmap", "cas", "close"} => k[t] = 1
  /\ \A t \in Threads : pc[t] = "store" => k[t] <= NumConsts
  /\ \A t \in Threads : pc[t] \in {"lookup", "store"} =>
       \A c \in 1..NumConsts : c < k[t] => data[mod[t]][c] # 0
  /\ \A t \in Threads : pc[t] = "running" =>
       \A c \in 1..NumConsts : data[mod[t]][c] # 0

HandleInv ==
  \A t \in Threads :
    /\ pc[t] \notin {"mmap", "cas", "close"} => ~fd[t]
    /\ pc[t] \notin {"open", "mmap", "cas", "close"} => ~heap[t]

IInv == TypeOK /\ ModelInv /\ MapInv /\ DataInv /\ HandleInv /\ NothingLeaked

(* With a file name of its own, whatever the directory, a model maps no      *)
(* other model's constants.                                                  *)
DistinctFileNames == \A m, n \in Models : FileName[m] = FileName[n] => m = n
OwnInv ==
  /\ \A t \in Threads : temp[t] # 0 => content[temp[t]] = mod[t]
  /\ \A m \in Models : constAddr[m] # 0 => content[constAddr[m]] = m

-----------------------------------------------------------------------------
(* The refinement: loading is publishing once.                               *)
StatusOf(t) == IF pc[t] \in {"idle", "running", "failed"} THEN pc[t] ELSE "loading"
Abstract == INSTANCE ConstantLoad WITH
  Blocks <- Maps, NoBlock <- 0,
  block <- constAddr, status <- [t \in Threads |-> StatusOf(t)], model <- mod

(* Concurrent loads implement the abstract once-only publication.            *)
Refines == Abstract!Spec
=============================================================================
