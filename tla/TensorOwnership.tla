------------------------- MODULE TensorOwnership -------------------------
(***************************************************************************)
(* Who frees the memory of a tensor.                                       *)
(*                                                                         *)
(* The compiler decides, for each output of the entry function, whether    *)
(* the OMTensor that will carry it owns its data (shouldOwn in             *)
(* ConvertKrnlToLLVM.cpp); the entry point it emits puts the answer in the *)
(* tensor (KrnlEntryPoint.cpp).  At run time a caller wraps its inputs in  *)
(* tensors, calls the entry point, takes the outputs over and destroys the *)
(* lists.  There are four callers: ExecutionSession::run on a vector       *)
(* ("session"), the C interface on lists ("list"), the Python session      *)
(* ("python") and the JNI wrapper ("java").                                *)
(*                                                                         *)
(* A behaviour is one compilation and one call.  Memory has a name: of the *)
(* user, a copy or a text buffer made by Python for an argument, a static  *)
(* constant, or what the graph allocated for a value.                      *)
(***************************************************************************)
EXTENDS Naturals, Sequences

CONSTANTS
  Args, Globals, Allocs,  \* values: block arguments, krnl.global, any other op
  Views, Source,          \* ViewLikeOpInterface and its getViewSource
  Selects, Branches,      \* arith.select and its two values
  Roots,                  \* the values whose memory a value may denote
  EntryPoints, First,     \* the entry points; the one met first by the walk
  Programs,               \* the modules compiled: outputs per entry point
  MaxOutputs              \* bound on the outputs of an entry point

Leaves == Args \cup Globals \cup Allocs
Values == Leaves \cup Views \cup Selects

(***************************************************************************)
(* What the operations mean: a view denotes the memory of its source, a    *)
(* select that of one of its branches, anything else memory of its own.    *)
(***************************************************************************)
ASSUME ValuesAssumption ==
  /\ Args \cap Globals = {} /\ Args \cap Allocs = {} /\ Globals \cap Allocs = {}
  /\ Leaves \cap Views = {} /\ Leaves \cap Selects = {} /\ Views \cap Selects = {}
  /\ Source \in [Views -> Values]
  /\ Branches \in [Selects -> SUBSET Values]
  /\ Roots \in [Values -> SUBSET Leaves]
  /\ \A v \in Leaves : Roots[v] = {v}
  /\ \A v \in Views : Roots[v] = Roots[Source[v]]
  /\ \A v \in Selects : Roots[v] = UNION {Roots[w] : w \in Branches[v]}

ASSUME ProgramsAssumption ==
  /\ First \in EntryPoints
  /\ Programs \subseteq [EntryPoints -> Seq(Values)]
  /\ MaxOutputs \in Nat
  /\ \A p \in Programs : \A e \in EntryPoints : Len(p[e]) <= MaxOutputs

VARIABLES
  program,  \* outputs of every entry function of the module
  flags,    \* outputOMTensorOwnerships
  todo,     \* values the analysis of the current output still has to trace
  owns,     \* its result so far
  phase,    \* where the compilation or the call is
  caller,   \* who calls
  entry,    \* the entry point called
  tensor,   \* the OMTensor structs
  array,    \* numpy arrays made of outputs: with a capsule on the data, or a copy
  heap,     \* memory from malloc that some tensor or array must free
  freed,    \* memory given to free
  faults    \* memory freed twice, or freed without being from malloc

compileVars == <<flags, todo, owns>>
memVars == <<heap, freed, faults>>
vars == <<program, flags, todo, owns, phase, caller, entry, tensor, array,
          heap, freed, faults>>

Callers == {"session", "list", "python", "java"}
User(a) == <<"user", a>>
Copy(a) == <<"copy", a>>
Text(a) == <<"text", a>>
Memory(v) == IF v \in Args THEN User(v) ELSE <<"own", v>>
Buffers == ({"user", "copy", "text"} \X Args) \cup ({"own"} \X (Globals \cup Allocs))

In(a) == <<"in", a>>
Out(k) == <<"out", k>>
Tensors == ({"in"} \X Args) \cup ({"out"} \X (1 .. MaxOutputs))
Inputs == {In(a) : a \in Args}
Indices == 1 .. Len(program[entry])
Outputs == {Out(k) : k \in Indices}
Struct(b, o) == [data |-> b, owning |-> o]
Nothing == Struct(<<"nothing">>, FALSE)
Copied == Struct(<<"copied">>, FALSE)

-----------------------------------------------------------------------------
(* Compile time *)

Init ==
  /\ program \in Programs
  /\ flags = <<>> /\ todo = {} /\ owns = TRUE
  /\ phase = "compile"
  /\ caller = "none" /\ entry = First
  /\ tensor = [t \in Tensors |-> Nothing]
  /\ array = [k \in 1 .. MaxOutputs |-> Nothing]
  /\ heap = {} /\ freed = {} /\ faults = {}

(* The analysis of the next output of the first entry function begins. *)
NextOutput ==
  /\ phase = "compile" /\ Len(flags) < Len(program[First])
  /\ phase' = "trace" /\ owns' = TRUE
  /\ todo' = {program[First][Len(flags) + 1]}
  /\ UNCHANGED <<program, flags, caller, entry, tensor, array, memVars>>

(* Slip: selects are not traced.                                            *)
TraceNextStopsAtSelect(v) ==
  IF v \in Views THEN {Source[v]} ELSE {}

(* shouldOwn: a view is traced to its source, a select to both branches,   *)
(* and a block argument or a constant makes the answer no.                 *)
TraceNext(v) ==
  IF v \in Views THEN {Source[v]} ELSE IF v \in Selects THEN Branches[v] ELSE {}

(* Slip: a view is never owned.                                             *)
TraceDisownsViews(v) ==
  /\ phase = "trace" /\ v \in todo
  /\ todo' = (todo \ {v}) \cup TraceNext(v)
  /\ owns' = (owns /\ v \notin Args \cup Globals \cup Views)
  /\ UNCHANGED <<program, flags, phase, caller, entry, tensor, array, memVars>>

Trace(v) ==
  /\ phase = "trace" /\ v \in todo
  /\ todo' = (todo \ {v}) \cup TraceNext(v)
  /\ owns' = (owns /\ v \notin Args \cup Globals)
  /\ UNCHANGED <<program, flags, phase, caller, entry, tensor, array, memVars>>

EndOutput ==
  /\ phase = "trace" /\ todo = {}
  /\ flags' = Append(flags, owns)
  /\ phase' = "compile"
  /\ UNCHANGED <<program, todo, owns, caller, entry, tensor, array, memVars>>

-----------------------------------------------------------------------------
(* The caller wraps its inputs *)

StartCall(c, e) ==
  /\ phase = "compile" /\ Len(flags) = Len(program[First])
  /\ caller' = c /\ entry' = e /\ phase' = "inputs"
  /\ UNCHANGED <<program, compileVars, tensor, array, memVars>>

(* Users of C and C++ make tensors that own their data or do not. *)
UserTensor(a, owning) ==
  /\ phase = "inputs" /\ caller \in {"session", "list"} /\ tensor[In(a)] = Nothing
  /\ tensor' = [tensor EXCEPT ![In(a)] = Struct(User(a), owning)]
  /\ heap' = IF owning THEN heap \cup {User(a)} ELSE heap
  /\ UNCHANGED <<program, compileVars, phase, caller, entry, array, freed, faults>>

(* pyRun copies what is not writable, and makes a buffer of its own for strings. *)
CopiedByPython(a, writable) == IF writable THEN {} ELSE {Copy(a)}
(* Slip: the copy is not owned.                                             *)
PythonTensorDisowned(a, writable, text) ==
  LET data == IF text THEN Text(a) ELSE IF writable THEN User(a) ELSE Copy(a)
  IN  /\ phase = "inputs" /\ caller = "python" /\ tensor[In(a)] = Nothing
      /\ tensor' = [tensor EXCEPT ![In(a)] = Struct(data, text)]
      /\ heap' = heap \cup CopiedByPython(a, writable) \cup (IF text THEN {data} ELSE {})
      /\ UNCHANGED <<program, compileVars, phase, caller, entry, array, freed, faults>>

PythonTensor(a, writable, text) ==
  LET data == IF text THEN Text(a) ELSE IF writable THEN User(a) ELSE Copy(a)
  IN  /\ phase = "inputs" /\ caller = "python" /\ tensor[In(a)] = Nothing
      /\ tensor' = [tensor EXCEPT ![In(a)] = Struct(data, text \/ ~writable)]
      /\ heap' = heap \cup CopiedByPython(a, writable) \cup (IF text THEN {data} ELSE {})
      /\ UNCHANGED <<program, compileVars, phase, caller, entry, array, freed, faults>>

(* An unsupported type, or no buffer for the strings: pyRun raises. *)
PythonInputRaises(a, writable) ==
  /\ phase = "inputs" /\ caller = "python" /\ tensor[In(a)] = Nothing
  /\ heap' = heap \cup CopiedByPython(a, writable)
  /\ phase' = "raised"
  /\ UNCHANGED <<program, compileVars, caller, entry, tensor, array, freed, faults>>

(* Java's byte buffers stay Java's. *)
JavaTensor(a) ==
  /\ phase = "inputs" /\ caller = "java" /\ tensor[In(a)] = Nothing
  /\ tensor' = [tensor EXCEPT ![In(a)] = Struct(User(a), FALSE)]
  /\ UNCHANGED <<program, compileVars, phase, caller, entry, array, memVars>>

JavaInputThrows(a) ==
  /\ phase = "inputs" /\ caller = "java" /\ tensor[In(a)] = Nothing
  /\ phase' = "raised"
  /\ UNCHANGED <<program, compileVars, caller, entry, tensor, array, memVars>>

-----------------------------------------------------------------------------
(* The entry point *)

InputsReady == phase = "inputs" /\ \A t \in Inputs : tensor[t] # Nothing

(* The memory an input value denotes is that of the tensor passed for it. *)
Denoted(v) == IF v \in Args THEN tensor[In(v)].data ELSE Memory(v)

(* outputOMTensorOwnerships[i], read beyond its end if the list is too short. *)
FlagsRead(f) == \A k \in DOMAIN f : k <= Len(flags) => f[k] = flags[k]

(* The graph runs; r[k] is the value whose memory output k turned out to   *)
(* denote.  What it allocates and does not return, it has freed itself.    *)
Run(r, f) ==
  /\ InputsReady
  /\ \A k \in Indices : r[k] \in Roots[program[entry][k]]
  /\ FlagsRead(f)
  /\ tensor' = [t \in Tensors |->
       IF t \in Outputs THEN Struct(Denoted(r[t[2]]), f[t[2]]) ELSE tensor[t]]
  /\ heap' = heap \cup {Memory(r[k]) : k \in {i \in Indices : r[i] \in Allocs}}
  /\ phase' = "returned"
  /\ UNCHANGED <<program, compileVars, caller, entry, array, freed, faults>>

(* NULL: an accelerator that does not fit, inputs that do not verify, ... *)
Refuse ==
  /\ InputsReady
  /\ phase' = "null"
  /\ UNCHANGED <<program, compileVars, caller, entry, tensor, array, memVars>>

-----------------------------------------------------------------------------
(* Tensors are destroyed *)

Owners(S) == {t \in S : tensor[t] # Nothing /\ tensor[t].owning}

(* omTensorDestroy of every tensor in S: free the data if it is owned. *)
Destroy(S) ==
  LET F == {tensor[t].data : t \in Owners(S)}
      twice == {b \in F : \E t, u \in Owners(S) :
                            t # u /\ tensor[t].data = b /\ tensor[u].data = b}
  IN  /\ tensor' = [t \in Tensors |-> IF t \in S THEN Nothing ELSE tensor[t]]
      /\ freed' = freed \cup F
      /\ faults' = faults \cup (F \cap freed) \cup (F \ heap) \cup twice

(* ExecutionSession::run on a vector: the lists are destroyed, not the     *)
(* tensors in them; the inputs are its parameter and die with it, whether  *)
(* it returns or throws.                                                   *)
SessionReturns ==
  /\ phase \in {"returned", "null"} /\ caller = "session"
  /\ Destroy(Inputs)
  /\ phase' = IF phase = "null" THEN "raised" ELSE "held"
  /\ UNCHANGED <<program, compileVars, caller, entry, array, heap>>

(* omTensorListDestroy of one list.  Users of the C interface destroy the   *)
(* lists they have in the order they like.                                 *)
ListDestroyed(S) ==
  /\ phase \in {"returned", "null"} /\ caller = "list"
  /\ \E t \in S : tensor[t] # Nothing
  /\ Destroy(S)
  /\ UNCHANGED <<program, compileVars, phase, caller, entry, array, heap>>

(* pyRun throws, the JNI function returns NULL: nothing is destroyed. *)
NullRaises ==
  /\ phase = "null" /\ caller \in {"python", "java"}
  /\ phase' = "raised"
  /\ UNCHANGED <<program, compileVars, caller, entry, tensor, array, memVars>>

(* pyRun turns the outputs into arrays one by one.  Data that the tensor   *)
(* owns is put in a capsule that frees it with the array, and the tensor   *)
(* gives it up; other data is copied.                                      *)
NextArray(k) == array[k] = Nothing /\ \A j \in Indices : j < k => array[j] # Nothing
(* Slip: the tensor keeps its flag.                                         *)
PythonOutputStaysOwned(k) ==
  /\ phase = "returned" /\ caller = "python" /\ k \in Indices /\ NextArray(k)
  /\ array' = [array EXCEPT ![k] =
       IF tensor[Out(k)].owning THEN tensor[Out(k)] ELSE Copied]
  /\ UNCHANGED <<program, compileVars, phase, caller, entry, tensor, memVars>>

PythonOutput(k) ==
  /\ phase = "returned" /\ caller = "python" /\ k \in Indices /\ NextArray(k)
  /\ array' = [array EXCEPT ![k] =
       IF tensor[Out(k)].owning THEN tensor[Out(k)] ELSE Copied]
  /\ tensor' = [tensor EXCEPT ![Out(k)].owning = FALSE]
  /\ UNCHANGED <<program, compileVars, phase, caller, entry, memVars>>

(* An output of a type numpy lacks; the arrays made so far go with the vector. *)
PythonOutputRaises ==
  /\ phase = "returned" /\ caller = "python"
  /\ \E k \in Indices : array[k] = Nothing
  /\ phase' = "raised"
  /\ UNCHANGED <<program, compileVars, caller, entry, tensor, array, memVars>>

PythonReturns ==
  /\ phase = "returned" /\ caller = "python"
  /\ \A k \in Indices : array[k] # Nothing
  /\ Destroy(Inputs \cup Outputs)
  /\ phase' = "held"
  /\ UNCHANGED <<program, compileVars, caller, entry, array, heap>>

(* The JNI wrapper hands byte buffers to a constructor that copies them. *)
JavaReturns ==
  /\ phase = "returned" /\ caller = "java"
  /\ Destroy(Inputs \cup Outputs)
  /\ phase' = "held"
  /\ UNCHANGED <<program, compileVars, caller, entry, array, heap>>

JavaOutputThrows ==
  /\ phase = "returned" /\ caller = "java"
  /\ phase' = "raised"
  /\ UNCHANGED <<program, compileVars, caller, entry, tensor, array, memVars>>

-----------------------------------------------------------------------------
(* What is left in the hands of the user goes, in any order *)

DropTensor(k) ==
  /\ phase = "held" /\ caller = "session" /\ tensor[Out(k)] # Nothing
  /\ Destroy({Out(k)})
  /\ UNCHANGED <<program, compileVars, phase, caller, entry, array, heap>>

DropArray(k) ==
  /\ phase \in {"held", "raised"} /\ array[k] # Nothing
  /\ LET F == IF array[k].owning THEN {array[k].data} ELSE {}
     IN  /\ freed' = freed \cup F
         /\ faults' = faults \cup (F \cap freed) \cup (F \ heap)
  /\ array' = [array EXCEPT ![k] = Nothing]
  /\ UNCHANGED <<program, compileVars, phase, caller, entry, tensor, heap>>

-----------------------------------------------------------------------------

Analyse == NextOutput \/ EndOutput \/ \E v \in Values : Trace(v)

WrapInput(a) ==
  \/ \E owning \in BOOLEAN : UserTensor(a, owning)
  \/ \E writable, text \in BOOLEAN : PythonTensor(a, writable, text)
  \/ \E writable \in BOOLEAN : PythonInputRaises(a, writable)
  \/ JavaTensor(a) \/ JavaInputThrows(a)

CallModel ==
  \/ \E r \in [Indices -> Leaves], f \in [Indices -> BOOLEAN] : Run(r, f)
  \/ Refuse

TakeOver ==
  \/ SessionReturns \/ ListDestroyed(Inputs) \/ ListDestroyed(Outputs) \/ NullRaises
  \/ PythonOutputRaises \/ PythonReturns \/ JavaReturns \/ JavaOutputThrows
  \/ \E k \in 1 .. MaxOutputs : PythonOutput(k) \/ DropTensor(k) \/ DropArray(k)

Next ==
  \/ Analyse
  \/ \E c \in Callers, e \in EntryPoints : StartCall(c, e)
  \/ \E a \in Args : WrapInput(a)
  \/ CallModel
  \/ TakeOver

Spec == Init /\ [][Next]_vars

-----------------------------------------------------------------------------
(* Properties *)

Phases == {"compile", "trace", "inputs", "returned", "null", "held", "raised"}

TypeOK ==
  /\ program \in Programs
  /\ flags \in Seq(BOOLEAN) /\ todo \subseteq Values /\ owns \in BOOLEAN
  /\ phase \in Phases /\ caller \in Callers \cup {"none"} /\ entry \in EntryPoints
  /\ tensor \in [Tensors -> [data : Buffers, owning : BOOLEAN] \cup {Nothing}]
  /\ array \in [1 .. MaxOutputs ->
       [data : Buffers, owning : BOOLEAN] \cup {Nothing, Copied}]
  /\ heap \subseteq Buffers /\ freed \subseteq Buffers /\ faults \subseteq Buffers

(* The answer of shouldOwn is right: an output is owned only if its memory  *)
(* was allocated by the graph on every path.  "If this function returns a   *)
(* false positive, seg fault may occur when the storage is freed."          *)
NoFalsePositive ==
  \A k \in DOMAIN flags : flags[k] => Roots[program[First][k]] \subseteq Allocs

(* ... and disowned only if on some path it was not.  "If this function     *)
(* returns false negative, memory leak may occur."                          *)
DisownedForAReason ==
  \A k \in DOMAIN flags :
    ~flags[k] => Roots[program[First][k]] \cap (Args \cup Globals) # {}

(* Memory that an output hands out as its own with no right to: the flag at  *)
(* its position (any value, beyond the end of flags) lets it own a value      *)
(* that the graph did not allocate, or one that another output may own too.   *)
Claims(k) == k > Len(flags) \/ flags[k]
Misclaimed ==
  {v \in Leaves : \E k \in Indices :
     /\ Claims(k) /\ v \in Roots[program[entry][k]]
     /\ \/ v \notin Allocs
        \/ \E j \in Indices \ {k} : Claims(j) /\ v \in Roots[program[entry][j]]}

(* The memory a value may have in a call: for an argument it is the user's or *)
(* what Python made for it.                                                   *)
Wrapped(a) == {User(a), Copy(a), Text(a)}
Carries(b, v) == IF v \in Args THEN b \in Wrapped(v) ELSE b = <<"own", v>>

(* Whoever calls, in whatever order things are destroyed and whatever fails:  *)
(* the only memory that is freed twice, or freed without being from malloc,   *)
(* is misclaimed.  All other memory of the graph, of the user, of Python and  *)
(* of Java is freed at most once, by its owner.                               *)
FreedByItsOwner == \A b \in faults : \E v \in Misclaimed : Carries(b, v)

(* A tensor that somebody will still destroy: until the call is over the      *)
(* caller, after it whoever got the outputs of ExecutionSession::run.         *)
Reachable(t) ==
  phase # "raised" /\ (phase = "held" => caller = "session" /\ t \notin Inputs)
Kept(b) ==
  \/ \E t \in Tensors : Reachable(t) /\ tensor[t].owning /\ tensor[t].data = b
  \/ \E k \in 1 .. MaxOutputs : array[k].owning /\ array[k].data = b

(* The ways to lose memory that are in the code: the copy of a read-only      *)
(* array of strings; memory of an output that the graph allocated though the  *)
(* flag may say no; and, when pyRun or the JNI function is left with an       *)
(* exception, what its tensors own and a copy made for the argument at hand.  *)
StringCopy(b) == \E a \in Args : b = Copy(a) /\ Text(a) \in heap
Disowned(b) ==
  \E k \in Indices : /\ k > Len(flags) \/ ~flags[k]
                     /\ \E v \in Roots[program[entry][k]] \cap Allocs : b = Memory(v)
Abandoned(b) ==
  /\ phase = "raised" /\ caller \in {"python", "java"}
  /\ \/ \E t \in Tensors : tensor[t].owning /\ tensor[t].data = b
     \/ \E a \in Args : b = Copy(a) /\ tensor[In(a)] = Nothing

(* At every moment, memory that is to be freed has a holder that will free it *)
(* or is lost in one of these ways; in no other, whoever calls, whatever fails. *)
NothingLost ==
  \A b \in heap \ freed : Kept(b) \/ StringCopy(b) \/ Disowned(b) \/ Abandoned(b)

(* No two outputs that own their data may share it. *)
OwnedApart ==
  \A j, k \in Indices :
    j # k /\ Claims(j) /\ Claims(k) =>
      Roots[program[entry][j]] \cap Roots[program[entry][k]] = {}

(* Memory that the graph may allocate for an output that may instead denote   *)
(* an argument or a constant.                                                 *)
Mixed(b) ==
  \E k \in Indices :
    /\ Roots[program[entry][k]] \cap (Args \cup Globals) # {}
    /\ \E v \in Roots[program[entry][k]] \cap Allocs : b = Memory(v)

(* What the answers of shouldOwn are for, in calls of the entry point that it *)
(* analysed: unless two owned outputs may share memory nothing is freed       *)
(* wrongly, and an output loses memory only where the answer had to be no.    *)
FirstEntryRight ==
  entry = First =>
    /\ OwnedApart => faults = {}
    /\ \A b \in heap \ freed : Kept(b) \/ StringCopy(b) \/ Mixed(b) \/ Abandoned(b)

(* "If output is a constant tensor or a block argument, OMTensor does not   *)
(* own it" (KrnlEntryPoint.cpp:305).                                        *)
ConstantsNotOwned ==
  phase = "returned" =>
    \A k \in Indices : Roots[program[entry][k]] \subseteq Args \cup Globals
                         => ~tensor[Out(k)].owning
=============================================================================
