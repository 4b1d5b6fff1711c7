---------------------- MODULE TensorOwnershipProofs ----------------------
(***************************************************************************)
(* Proofs about TensorOwnership, for any set of values, any graph of views *)
(* and selects and any set of programs.                                    *)
(***************************************************************************)
EXTENDS TensorOwnership, SequenceTheorems, TLAPS

-----------------------------------------------------------------------------
(* The inductive invariant *)

(* During the analysis of an output, what is still to trace denotes memory  *)
(* of the output, and the rest of its memory is accounted for by owns.      *)
Current == program[First][Len(flags) + 1]
TraceInv ==
  /\ Len(flags) <= Len(program[First])
  /\ phase \notin {"compile", "trace"} => Len(flags) = Len(program[First])
  /\ phase = "trace" =>
       /\ Len(flags) < Len(program[First])
       /\ \A w \in todo : Roots[w] \subseteq Roots[Current]
       /\ owns => Roots[Current] \subseteq Allocs \cup UNION {Roots[w] : w \in todo}
       /\ ~owns => Roots[Current] \cap (Args \cup Globals) # {}

(* What there can be in each phase. *)
PlaceInv ==
  /\ phase \in {"compile", "trace"} =>
       heap = {} /\ \A t \in Tensors : tensor[t] = Nothing
  /\ phase \in {"compile", "trace", "inputs"} =>
       /\ freed = {} /\ faults = {}
       /\ \A k \in 1 .. MaxOutputs : tensor[Out(k)] = Nothing /\ array[k] = Nothing
  /\ phase = "null" => \A k \in 1 .. MaxOutputs : tensor[Out(k)] = Nothing
  /\ \A a \in Args : tensor[In(a)] # Nothing => tensor[In(a)].data \in Wrapped(a)

(* An output carries the memory of one of its values, with the flag of the  *)
(* compiler or less.                                                        *)
OutInv ==
  \A k \in 1 .. MaxOutputs : tensor[Out(k)] # Nothing =>
    /\ k \in Indices
    /\ \E v \in Roots[program[entry][k]] : Carries(tensor[Out(k)].data, v)
    /\ k <= Len(flags) /\ tensor[Out(k)].owning => flags[k]

(* Memory to be freed has one holder, a tensor or an array, that frees it,  *)
(* unless an output has misclaimed it.                                      *)
ByTensor(t, b) == tensor[t].owning /\ tensor[t].data = b
ByArray(k, b) == array[k].owning /\ array[k].data = b
HeldRight(b) ==
  /\ b \notin faults
  /\ \A t \in Tensors : ByTensor(t, b) => b \in heap \ freed
  /\ \A t, u \in Tensors : ByTensor(t, b) /\ ByTensor(u, b) => t = u
  /\ \A k \in 1 .. MaxOutputs : ByArray(k, b) => b \in heap \ freed
  /\ \A j, k \in 1 .. MaxOutputs : ByArray(j, b) /\ ByArray(k, b) => j = k
  /\ \A k \in 1 .. MaxOutputs, t \in Tensors : ~(ByArray(k, b) /\ ByTensor(t, b))

(* Until the graph runs there are no outputs to claim anything. *)
BeforeRun == phase \in {"compile", "trace", "inputs"}
Fair(b) == \A v \in Misclaimed : ~Carries(b, v)
HoldInv == \A b \in Buffers : BeforeRun \/ Fair(b) => HeldRight(b)

RunInv == PlaceInv /\ OutInv /\ HoldInv /\ NothingLost

-----------------------------------------------------------------------------
(* The names of memory and of tensors *)

LEMMA Names ==
  /\ \A a \in Args : /\ In(a) \in Tensors /\ In(a) \in Inputs
                     /\ User(a) \in Buffers /\ Copy(a) \in Buffers /\ Text(a) \in Buffers
  /\ \A k \in 1 .. MaxOutputs : Out(k) \in Tensors /\ Out(k) \notin Inputs
  /\ \A t \in Tensors : \/ \E a \in Args : t = In(a)
                        \/ \E k \in 1 .. MaxOutputs : t = Out(k) /\ t[2] = k
  /\ \A v \in Leaves : Memory(v) \in Buffers
  /\ Inputs \subseteq Tensors
BY DEF In, Out, Tensors, Inputs, User, Copy, Text, Memory, Buffers, Leaves

LEMMA NothingIsNoBuffer ==
  /\ Nothing = [data |-> <<"nothing">>, owning |-> FALSE]
  /\ Copied = [data |-> <<"copied">>, owning |-> FALSE]
  /\ Nothing.data \notin Buffers /\ Copied.data \notin Buffers /\ Nothing # Copied
  /\ Nothing.owning = FALSE /\ Copied.owning = FALSE
BY DEF Nothing, Copied, Struct, Buffers

LEMMA OutputsAreTensors ==
  ASSUME TypeOK
  PROVE  /\ Indices \subseteq 1 .. MaxOutputs
         /\ Outputs \subseteq Tensors /\ Outputs \cap Inputs = {}
         /\ \A k \in Indices : program[entry][k] \in Values
                               /\ Roots[program[entry][k]] \subseteq Leaves
         /\ \A t \in Outputs : t[2] \in Indices /\ t = Out(t[2])
<1>1. program[entry] \in Seq(Values) /\ Len(program[entry]) <= MaxOutputs
  BY ProgramsAssumption DEF TypeOK
<1>2. Indices \subseteq 1 .. MaxOutputs
  BY <1>1, ProgramsAssumption DEF Indices
<1>3. Outputs \subseteq Tensors /\ Outputs \cap Inputs = {}
  BY <1>2, Names DEF Outputs
<1>4. \A k \in Indices : program[entry][k] \in Values /\ Roots[program[entry][k]] \subseteq Leaves
  BY <1>1, ValuesAssumption DEF Indices
<1>5. \A t \in Outputs : t[2] \in Indices /\ t = Out(t[2])
  BY DEF Outputs, Out
<1> QED  BY <1>2, <1>3, <1>4, <1>5

(* Destroying tensors leaves everything of its type. *)
LEMMA DestroyType ==
  ASSUME TypeOK, NEW S \in SUBSET Tensors, Destroy(S)
  PROVE  /\ tensor' \in [Tensors -> [data : Buffers, owning : BOOLEAN] \cup {Nothing}]
         /\ freed' \subseteq Buffers /\ faults' \subseteq Buffers
<1> DEFINE F == {tensor[t].data : t \in Owners(S)}
<1>1. F \subseteq Buffers
  <2> SUFFICES ASSUME NEW t \in Owners(S) PROVE tensor[t].data \in Buffers
    OBVIOUS
  <2> QED  BY NothingIsNoBuffer DEF Owners, TypeOK
<1>2. freed' = freed \cup F /\ faults' \subseteq faults \cup F
  BY DEF Destroy
<1>3. tensor' = [t \in Tensors |-> IF t \in S THEN Nothing ELSE tensor[t]]
  BY DEF Destroy
<1> QED  BY <1>1, <1>2, <1>3 DEF TypeOK

LEMMA InitTypeOK == Init => TypeOK
<1> SUFFICES ASSUME Init PROVE TypeOK
  OBVIOUS
<1>1. flags \in Seq(BOOLEAN)
  BY DEF Init
<1> QED  BY <1>1, ProgramsAssumption DEF Init, TypeOK, Phases

LEMMA NextTypeOK == TypeOK /\ [Next]_vars => TypeOK'
<1> SUFFICES ASSUME TypeOK, [Next]_vars PROVE TypeOK'
  OBVIOUS
<1> USE DEF TypeOK, Phases, Callers, compileVars, memVars
<1>1. CASE NextOutput
  <2>1. program[First][Len(flags) + 1] \in Values
    <3>1. program[First] \in Seq(Values)
      BY ProgramsAssumption
    <3>2. Len(flags) \in Nat /\ Len(flags) < Len(program[First])
      BY <1>1 DEF NextOutput
    <3> QED  BY <3>1, <3>2
  <2> QED  BY <1>1, <2>1 DEF NextOutput
<1>2. CASE \E v \in Values : Trace(v)
  <2> PICK v \in Values : Trace(v)
    BY <1>2
  <2>1. TraceNext(v) \subseteq Values
    BY ValuesAssumption DEF TraceNext
  <2> QED  BY <2>1 DEF Trace
<1>3. CASE EndOutput
  <2>1. Append(flags, owns) \in Seq(BOOLEAN)
    OBVIOUS
  <2> QED  BY <1>3, <2>1 DEF EndOutput
<1>4. CASE \E c \in Callers, e \in EntryPoints : StartCall(c, e)
  BY <1>4 DEF StartCall
<1>5. ASSUME NEW a \in Args, WrapInput(a) PROVE TypeOK'
  <2>1. ASSUME NEW o \in BOOLEAN, UserTensor(a, o) PROVE TypeOK'
    BY <2>1, Names DEF UserTensor, Struct
  <2>2. ASSUME NEW w \in BOOLEAN, NEW x \in BOOLEAN, PythonTensor(a, w, x) PROVE TypeOK'
    <3> DEFINE data == IF x THEN Text(a) ELSE IF w THEN User(a) ELSE Copy(a)
    <3>1. data \in Buffers /\ CopiedByPython(a, w) \subseteq Buffers
      BY Names DEF CopiedByPython
    <3>2. tensor' = [tensor EXCEPT ![In(a)] = [data |-> data, owning |-> x \/ ~w]]
      BY <2>2 DEF PythonTensor, Struct
    <3>3. heap' \subseteq heap \cup CopiedByPython(a, w) \cup {data}
      BY <2>2 DEF PythonTensor
    <3>4. UNCHANGED <<program, flags, todo, owns, phase, caller, entry, array, freed, faults>>
      BY <2>2 DEF PythonTensor
    <3> QED  BY <3>1, <3>2, <3>3, <3>4
  <2>3. ASSUME NEW w \in BOOLEAN, PythonInputRaises(a, w) PROVE TypeOK'
    BY <2>3, Names DEF PythonInputRaises, CopiedByPython
  <2>4. CASE JavaTensor(a)
    BY <2>4, Names DEF JavaTensor, Struct
  <2>5. CASE JavaInputThrows(a)
    BY <2>5 DEF JavaInputThrows
  <2> QED  BY <1>5, <2>1, <2>2, <2>3, <2>4, <2>5 DEF WrapInput
<1>6. ASSUME NEW r \in [Indices -> Leaves], NEW f \in [Indices -> BOOLEAN], Run(r, f)
      PROVE  TypeOK'
  <2>1. \A k \in Indices : Memory(r[k]) \in Buffers /\ Denoted(r[k]) \in Buffers
    <3> SUFFICES ASSUME NEW k \in Indices PROVE Memory(r[k]) \in Buffers /\ Denoted(r[k]) \in Buffers
      OBVIOUS
    <3>1. r[k] \in Leaves
      OBVIOUS
    <3>2. ASSUME r[k] \in Args PROVE tensor[In(r[k])].data \in Buffers
      BY <1>6, <3>2, Names DEF Run, InputsReady
    <3> QED  BY <3>1, <3>2, Names DEF Denoted
  <2>2. \A t \in Outputs : t[2] \in Indices
    BY OutputsAreTensors
  <2>3. tensor' \in [Tensors -> [data : Buffers, owning : BOOLEAN] \cup {Nothing}]
    BY <1>6, <2>1, <2>2 DEF Run, Struct
  <2>4. heap' \subseteq Buffers
    BY <1>6, <2>1 DEF Run
  <2> QED  BY <1>6, <2>3, <2>4 DEF Run
<1>7. CASE Refuse
  BY <1>7 DEF Refuse
<1>8. CASE SessionReturns
  <2>1. Destroy(Inputs) /\ Inputs \in SUBSET Tensors
    BY <1>8, Names DEF SessionReturns
  <2>2. UNCHANGED <<program, flags, todo, owns, caller, entry, array, heap>> /\ phase' \in Phases
    BY <1>8 DEF SessionReturns
  <2> HIDE DEF Phases, TypeOK
  <2> QED  BY <2>1, <2>2, DestroyType DEF TypeOK
<1>9. CASE ListDestroyed(Inputs) \/ ListDestroyed(Outputs)
  <2>1. PICK S \in SUBSET Tensors : Destroy(S)
    BY <1>9, Names, OutputsAreTensors DEF ListDestroyed
  <2>2. UNCHANGED <<program, flags, todo, owns, phase, caller, entry, array, heap>>
    BY <1>9 DEF ListDestroyed
  <2> HIDE DEF Phases, TypeOK
  <2> QED  BY <2>1, <2>2, DestroyType DEF TypeOK
<1>10. CASE PythonReturns \/ JavaReturns
  <2>1. Destroy(Inputs \cup Outputs) /\ Inputs \cup Outputs \in SUBSET Tensors
    BY <1>10, OutputsAreTensors, Names DEF PythonReturns, JavaReturns
  <2>2. UNCHANGED <<program, flags, todo, owns, caller, entry, array, heap>> /\ phase' \in Phases
    BY <1>10 DEF PythonReturns, JavaReturns
  <2> HIDE DEF Phases, TypeOK
  <2> QED  BY <2>1, <2>2, DestroyType DEF TypeOK
<1>11. CASE NullRaises \/ PythonOutputRaises \/ JavaOutputThrows
  BY <1>11 DEF NullRaises, PythonOutputRaises, JavaOutputThrows
<1>12. ASSUME NEW k \in 1 .. MaxOutputs, PythonOutput(k) PROVE TypeOK'
  <2>1. Out(k) \in Tensors
    BY Names
  <2>2. array' \in [1 .. MaxOutputs -> [data : Buffers, owning : BOOLEAN] \cup {Nothing, Copied}]
    BY <1>12, <2>1 DEF PythonOutput
  <2>3. tensor' \in [Tensors -> [data : Buffers, owning : BOOLEAN] \cup {Nothing}]
    <3>1. tensor' = [tensor EXCEPT ![Out(k)].owning = FALSE]
      BY <1>12 DEF PythonOutput
    <3>2. CASE tensor[Out(k)] = Nothing
      BY <2>1, <3>1, <3>2, NothingIsNoBuffer
    <3>3. CASE tensor[Out(k)] \in [data : Buffers, owning : BOOLEAN]
      BY <2>1, <3>1, <3>3
    <3> QED  BY <2>1, <3>2, <3>3
  <2> QED  BY <1>12, <2>2, <2>3 DEF PythonOutput
<1>13. ASSUME NEW k \in 1 .. MaxOutputs, DropTensor(k) PROVE TypeOK'
  <2>1. Destroy({Out(k)}) /\ {Out(k)} \in SUBSET Tensors
    BY <1>13, Names DEF DropTensor
  <2>2. UNCHANGED <<program, flags, todo, owns, phase, caller, entry, array, heap>>
    BY <1>13 DEF DropTensor
  <2> HIDE DEF Phases, TypeOK
  <2> QED  BY <2>1, <2>2, DestroyType DEF TypeOK
<1>14. ASSUME NEW k \in 1 .. MaxOutputs, DropArray(k) PROVE TypeOK'
  <2> DEFINE F == IF array[k].owning THEN {array[k].data} ELSE {}
  <2>1. F \subseteq Buffers
    BY NothingIsNoBuffer
  <2>2. /\ freed' = freed \cup F /\ faults' \subseteq faults \cup F
        /\ array' = [array EXCEPT ![k] = Nothing]
        /\ UNCHANGED <<program, flags, todo, owns, phase, caller, entry, tensor, heap>>
    BY <1>14 DEF DropArray
  <2> QED  BY <2>1, <2>2
<1>15. CASE UNCHANGED vars
  BY <1>15 DEF vars
<1> QED
  BY <1>1, <1>2, <1>3, <1>4, <1>5, <1>6, <1>7, <1>8, <1>9, <1>10, <1>11, <1>12, <1>13, <1>14, <1>15
  DEF Next, Analyse, CallModel, TakeOver
-----------------------------------------------------------------------------
(* The analysis *)

AnalysisInv == TraceInv /\ NoFalsePositive /\ DisownedForAReason

LEMMA InitAnalysis == Init => AnalysisInv
<1> SUFFICES ASSUME Init PROVE AnalysisInv
  OBVIOUS
<1>1. Len(program[First]) \in Nat
  BY ProgramsAssumption DEF Init
<1>2. Len(flags) = 0 /\ DOMAIN flags = {}
  BY DEF Init
<1> QED  BY <1>1, <1>2 DEF Init, AnalysisInv, TraceInv, NoFalsePositive, DisownedForAReason

LEMMA NextAnalysis ==
  ASSUME TypeOK, AnalysisInv, [Next]_vars
  PROVE  AnalysisInv'
<1> USE DEF compileVars, memVars
<1> DEFINE o == Current
<1>0. /\ program[First] \in Seq(Values) /\ Len(program[First]) \in Nat
      /\ Len(flags) \in Nat /\ flags \in Seq(BOOLEAN)
  BY ProgramsAssumption DEF TypeOK
<1>1. CASE NextOutput
  <2>1. Len(flags) < Len(program[First]) /\ o \in Values
    BY <1>0, <1>1 DEF NextOutput, Current
  <2>2. todo' = {o} /\ owns' = TRUE /\ phase' = "trace" /\ UNCHANGED <<program, flags>>
    BY <1>1 DEF NextOutput, Current
  <2>3. Current' = o
    BY <2>2 DEF Current
  <2>4. UNION {Roots[w] : w \in {o}} = Roots[o]
    OBVIOUS
  <2> HIDE DEF o
  <2> QED  BY <2>1, <2>2, <2>3, <2>4 DEF AnalysisInv, TraceInv, NoFalsePositive, DisownedForAReason
<1>2. ASSUME NEW v \in Values, Trace(v) PROVE AnalysisInv'
  <2>1. /\ phase = "trace" /\ phase' = phase /\ v \in todo
        /\ todo' = (todo \ {v}) \cup TraceNext(v)
        /\ owns' = (owns /\ v \notin Args \cup Globals)
        /\ UNCHANGED <<program, flags>> /\ Current' = Current
    BY <1>2 DEF Trace, Current
  <2>2. v \in Leaves => TraceNext(v) = {} /\ Roots[v] = {v}
    BY ValuesAssumption DEF TraceNext
  <2>3. v \notin Leaves => Roots[v] = UNION {Roots[w] : w \in TraceNext(v)}
    <3>1. CASE v \in Views
      BY <3>1, ValuesAssumption DEF TraceNext
    <3>2. CASE v \in Selects
      BY <3>2, ValuesAssumption DEF TraceNext
    <3> QED  BY <3>1, <3>2 DEF Values
  <2>4. Roots[v] \subseteq Roots[o]
    BY <2>1 DEF AnalysisInv, TraceInv
  <2>5. \A w \in todo' : Roots[w] \subseteq Roots[o]
    BY <2>1, <2>2, <2>3, <2>4 DEF AnalysisInv, TraceInv
  <2>6. owns' => Roots[o] \subseteq Allocs \cup UNION {Roots[w] : w \in todo'}
    <3> SUFFICES ASSUME owns', NEW x \in Roots[o] PROVE x \in Allocs \cup UNION {Roots[w] : w \in todo'}
      OBVIOUS
    <3>1. owns /\ v \notin Args \cup Globals
      BY <2>1
    <3>2. CASE x \in Allocs
      BY <3>2
    <3>3. CASE \E w \in todo : w # v /\ x \in Roots[w]
      BY <3>3, <2>1
    <3>4. CASE x \in Roots[v]
      BY <3>1, <3>4, <2>1, <2>2, <2>3 DEF Leaves
    <3> QED  BY <3>1, <3>2, <3>3, <3>4, <2>1 DEF AnalysisInv, TraceInv
  <2>7. ~owns' => Roots[o] \cap (Args \cup Globals) # {}
    <3>1. CASE ~owns
      BY <3>1, <2>1 DEF AnalysisInv, TraceInv
    <3>2. CASE v \in Args \cup Globals
      BY <3>2, <2>2, <2>4 DEF Leaves
    <3> QED  BY <3>1, <3>2, <2>1
  <2> HIDE DEF o
  <2>8. TraceInv'
    BY <2>1, <2>5, <2>6, <2>7 DEF AnalysisInv, TraceInv, o
  <2> QED  BY <2>1, <2>8 DEF AnalysisInv, NoFalsePositive, DisownedForAReason
<1>3. CASE EndOutput
  <2>1. /\ phase = "trace" /\ phase' = "compile" /\ todo = {} /\ flags' = Append(flags, owns)
        /\ program' = program
    BY <1>3 DEF EndOutput
  <2>2. /\ DOMAIN flags = 1 .. Len(flags) /\ DOMAIN flags' = 1 .. Len(flags) + 1
        /\ Len(flags') = Len(flags) + 1
        /\ \A k \in DOMAIN flags : flags'[k] = flags[k]
        /\ flags'[Len(flags) + 1] = owns
    BY <1>0, <2>1 DEF TypeOK
  <2>3. Len(flags) < Len(program[First])
    BY <2>1 DEF AnalysisInv, TraceInv
  <2>4. owns => Roots[o] \subseteq Allocs
    BY <2>1 DEF AnalysisInv, TraceInv
  <2>5. ~owns => Roots[o] \cap (Args \cup Globals) # {}
    BY <2>1 DEF AnalysisInv, TraceInv
  <2>6. \A k \in DOMAIN flags' : k \in DOMAIN flags \/ k = Len(flags) + 1
    BY <1>0, <2>2
  <2>7. NoFalsePositive'
    BY <2>1, <2>2, <2>4, <2>6 DEF AnalysisInv, NoFalsePositive, Current
  <2>8. DisownedForAReason'
    BY <2>1, <2>2, <2>5, <2>6 DEF AnalysisInv, DisownedForAReason, Current
  <2>9. TraceInv'
    BY <1>0, <2>1, <2>2, <2>3 DEF TraceInv
  <2> QED  BY <2>7, <2>8, <2>9 DEF AnalysisInv
<1>4. CASE /\ UNCHANGED <<program, flags, todo, owns>>
           /\ phase \notin {"compile", "trace"} /\ phase' \notin {"compile", "trace"}
  BY <1>4 DEF AnalysisInv, TraceInv, NoFalsePositive, DisownedForAReason, Current
<1>5. CASE UNCHANGED vars
  BY <1>5 DEF vars, AnalysisInv, TraceInv, NoFalsePositive, DisownedForAReason, Current
<1>6. CASE \E c \in Callers, e \in EntryPoints : StartCall(c, e)
  <2>1. /\ UNCHANGED <<program, flags, todo, owns>> /\ phase = "compile" /\ phase' = "inputs"
        /\ Len(flags) = Len(program[First])
    BY <1>6 DEF StartCall
  <2> QED  BY <2>1 DEF AnalysisInv, TraceInv, NoFalsePositive, DisownedForAReason, Current
<1> DEFINE Later == /\ UNCHANGED <<program, flags, todo, owns>>
                    /\ phase \notin {"compile", "trace"} /\ phase' \notin {"compile", "trace"}
<1>7. (\E a \in Args : WrapInput(a)) => Later
  BY DEF WrapInput, UserTensor, PythonTensor, PythonInputRaises, JavaTensor, JavaInputThrows
<1>8. CallModel => Later
  BY DEF CallModel, Run, Refuse, InputsReady
<1>9. TakeOver => Later
  BY DEF TakeOver, SessionReturns, ListDestroyed, NullRaises,
         PythonOutputRaises, PythonReturns, JavaReturns, JavaOutputThrows, PythonOutput,
         DropTensor, DropArray
<1> QED
  BY <1>1, <1>2, <1>3, <1>4, <1>5, <1>6, <1>7, <1>8, <1>9 DEF Next, Analyse
-----------------------------------------------------------------------------
(* The call *)

LEMMA SoundStays ==
  ASSUME UNCHANGED <<program, flags, entry>>
  PROVE  /\ Indices' = Indices /\ Misclaimed' = Misclaimed
         /\ \A b : Fair(b)' = Fair(b) /\ Disowned(b)' = Disowned(b)
BY DEF Misclaimed, Claims, Fair, Disowned, Indices

LEMMA MemoryNames ==
  /\ \A a, c \in Args : /\ User(a) # Copy(c) /\ User(a) # Text(c) /\ Copy(a) # Text(c)
                        /\ a # c => Wrapped(a) \cap Wrapped(c) = {} /\ In(a) # In(c)
  /\ \A a \in Args : \A v : <<"own", v>> \notin Wrapped(a)
  /\ \A k \in 1 .. MaxOutputs, a \in Args : In(a) # Out(k)
  /\ \A j, k \in 1 .. MaxOutputs : j # k => Out(j) # Out(k)
  /\ \A v \in Globals \cup Allocs : Memory(v) = <<"own", v>>
BY ValuesAssumption DEF User, Copy, Text, In, Out, Wrapped, Memory

(* Tensors that hold their data alone can be destroyed. *)
LEMMA DestroyHolds ==
  ASSUME TypeOK, NEW b \in Buffers, HeldRight(b),
         NEW S \in SUBSET Tensors, Destroy(S), heap' = heap, array' = array
  PROVE  HeldRight(b)'
<1> DEFINE F == {tensor[t].data : t \in Owners(S)}
<1>1. /\ tensor' = [t \in Tensors |-> IF t \in S THEN Nothing ELSE tensor[t]]
      /\ freed' = freed \cup F
      /\ b \in faults' => \/ b \in faults \/ b \in F \cap freed \/ b \in F \ heap
                          \/ \E t, u \in Owners(S) :
                               t # u /\ tensor[t].data = b /\ tensor[u].data = b
  BY DEF Destroy
<1>2. \A t \in Owners(S) : t \in Tensors /\ tensor[t].owning /\ t \in S
  BY DEF Owners
<1>3. \A t \in Tensors : ByTensor(t, b)' => ByTensor(t, b) /\ t \notin S
  BY <1>1, NothingIsNoBuffer DEF ByTensor
<1>4. b \in F => \E t \in S : t \in Tensors /\ ByTensor(t, b)
  BY <1>2 DEF ByTensor
<1>5. b \notin faults'
  <2>1. b \notin faults /\ (b \in F => b \in heap \ freed)
    BY <1>4 DEF HeldRight
  <2>2. \A t, u \in Owners(S) : tensor[t].data = b /\ tensor[u].data = b => t = u
    BY <1>2 DEF HeldRight, ByTensor
  <2> QED  BY <1>1, <2>1, <2>2
<1>6. (\E t \in Tensors : ByTensor(t, b)') \/ (\E k \in 1 .. MaxOutputs : ByArray(k, b)) => b \notin F
  BY <1>3, <1>4 DEF HeldRight
<1>7. \A k \in 1 .. MaxOutputs : ByArray(k, b)' = ByArray(k, b)
  BY DEF ByArray
<1> HIDE DEF F
<1> QED  BY <1>1, <1>3, <1>5, <1>6, <1>7 DEF HeldRight

(* ... and what they held is freed. *)
LEMMA DestroyLoses ==
  ASSUME TypeOK, NothingLost, phase # "raised", NEW S \in SUBSET Tensors, Destroy(S),
         UNCHANGED <<program, flags, entry, caller, heap, array>>,
         \A t \in Tensors \ S : tensor[t].owning /\ Reachable(t) => Reachable(t)'
  PROVE  NothingLost'
<1> SUFFICES ASSUME NEW b \in heap \ freed'
             PROVE  Kept(b)' \/ StringCopy(b)' \/ Disowned(b)'
  BY DEF NothingLost
<1>1. /\ tensor' = [t \in Tensors |-> IF t \in S THEN Nothing ELSE tensor[t]]
      /\ freed' = freed \cup {tensor[t].data : t \in Owners(S)}
  BY DEF Destroy
<1>2. Kept(b) \/ StringCopy(b) \/ Disowned(b)
  BY <1>1 DEF NothingLost, Abandoned
<1>3. ASSUME NEW t \in Tensors, Reachable(t), tensor[t].owning, tensor[t].data = b
      PROVE  Kept(b)'
  <2>1. t \notin S
    BY <1>1, <1>3, NothingIsNoBuffer DEF Owners
  <2> QED  BY <1>1, <1>3, <2>1 DEF Kept
<1>4. ASSUME NEW k \in 1 .. MaxOutputs, array[k].owning, array[k].data = b PROVE Kept(b)'
  BY <1>4 DEF Kept
<1>5. Disowned(b)' = Disowned(b) /\ StringCopy(b)' = StringCopy(b)
  BY SoundStays DEF StringCopy
<1> QED  BY <1>2, <1>3, <1>4, <1>5 DEF Kept

(* The facts that every destroying step needs. *)
LEMMA DestroyKeeps ==
  ASSUME TypeOK, RunInv, phase \in {"returned", "null", "held"}, ~BeforeRun',
         NEW S \in SUBSET Tensors, Destroy(S),
         UNCHANGED <<program, flags, entry, caller, array, heap>>,
         \A t \in Tensors \ S : tensor[t].owning /\ Reachable(t) => Reachable(t)',
         phase' = "null" => phase = "null"
  PROVE  RunInv'
<1>1. /\ Indices' = Indices /\ Misclaimed' = Misclaimed
      /\ \A b : Fair(b)' = Fair(b)
  BY SoundStays
<1>2. \A t \in Tensors : tensor'[t] = IF t \in S THEN Nothing ELSE tensor[t]
  BY DEF Destroy
<1>3. PlaceInv'
  BY <1>2, Names DEF RunInv, PlaceInv, BeforeRun
<1>4. OutInv'
  BY <1>1, <1>2, Names DEF OutInv, RunInv
<1>5. HoldInv'
  <2> SUFFICES ASSUME NEW b \in Buffers, Fair(b) PROVE HeldRight(b)'
    BY <1>1 DEF HoldInv
  <2>1. HeldRight(b)
    BY DEF RunInv, HoldInv
  <2> QED  BY <2>1, DestroyHolds
<1>6. NothingLost'
  BY DestroyLoses DEF RunInv
<1> QED  BY <1>3, <1>4, <1>5, <1>6 DEF RunInv

(* A new tensor for an argument. *)
Wraps(a, d, o, M) ==
  /\ d \in Wrapped(a) /\ o \in BOOLEAN /\ M \in SUBSET Wrapped(a)
  /\ phase = "inputs" /\ tensor[In(a)] = Nothing
  /\ tensor' = [tensor EXCEPT ![In(a)] = Struct(d, o)]
  /\ heap' = heap \cup M /\ (o => d \in M)
  /\ \A m \in M : (m = d /\ o) \/ (m = Copy(a) /\ Text(a) \in M)
  /\ UNCHANGED <<program, flags, phase, caller, entry, array, freed, faults>>

LEMMA WrapHolds ==
  ASSUME TypeOK, RunInv, NEW a \in Args, NEW d, NEW o, NEW M, Wraps(a, d, o, M)
  PROVE  RunInv'
<1> USE DEF Wraps
<1>0. PlaceInv /\ HoldInv /\ NothingLost /\ BeforeRun
  BY DEF RunInv, BeforeRun
<1>1. /\ In(a) \in Tensors /\ tensor'[In(a)] = [data |-> d, owning |-> o]
      /\ \A t \in Tensors : t # In(a) => tensor'[t] = tensor[t]
  BY Names DEF Struct, TypeOK
<1>2. \A k \in 1 .. MaxOutputs : tensor'[Out(k)] = Nothing /\ array'[k] = Nothing
  BY <1>0, <1>1, Names, MemoryNames DEF PlaceInv
<1>3. \A t \in Tensors : t = In(a) \/ tensor[t] = Nothing
                          \/ \E c \in Args : t = In(c) /\ tensor[t].data \in Wrapped(c) /\ c # a
  BY <1>0, Names DEF PlaceInv
<1>4. \A t \in Tensors : t # In(a) /\ tensor[t].owning => tensor[t].data \notin Wrapped(a)
  BY <1>3, MemoryNames, NothingIsNoBuffer
<1>5. PlaceInv'
  <2>1. \A c \in Args : tensor'[In(c)] # Nothing => tensor'[In(c)].data \in Wrapped(c)
    BY <1>0, <1>1, Names, MemoryNames DEF PlaceInv
  <2> QED  BY <1>0, <1>2, <2>1 DEF PlaceInv
<1>6. OutInv'
  BY <1>2 DEF OutInv
<1>7. HoldInv'
  <2> SUFFICES ASSUME NEW b \in Buffers PROVE HeldRight(b)'
    BY DEF HoldInv
  <2>1. freed = {} /\ faults = {} /\ HeldRight(b)
    BY <1>0 DEF PlaceInv, HoldInv
  <2>2. \A k \in 1 .. MaxOutputs : ~ByArray(k, b)'
    BY <1>2, NothingIsNoBuffer DEF ByArray
  <2>3. \A t \in Tensors : ByTensor(t, b)' =>
          IF t = In(a) THEN b \in M /\ b \in Wrapped(a)
          ELSE ByTensor(t, b) /\ b \notin Wrapped(a)
    BY <1>1, <1>4 DEF ByTensor
  <2>4. \A t \in Tensors : ByTensor(t, b)' => b \in heap' \ freed'
    BY <2>1, <2>3 DEF HeldRight
  <2>5. \A t, u \in Tensors : ByTensor(t, b)' /\ ByTensor(u, b)' => t = u
    BY <2>1, <2>3 DEF HeldRight
  <2> QED  BY <2>1, <2>2, <2>4, <2>5 DEF HeldRight
<1>8. NothingLost'
  <2> SUFFICES ASSUME NEW b \in heap' \ freed' PROVE Kept(b)' \/ StringCopy(b)' \/ Disowned(b)'
    BY DEF NothingLost
  <2>1. \A t \in Tensors : Reachable(t)' /\ Reachable(t)
    BY DEF Reachable
  <2>2. CASE b \in M
    BY <1>1, <2>1, <2>2 DEF Kept, StringCopy
  <2>3. CASE b \in heap
    <3>1. Kept(b) \/ StringCopy(b) \/ Disowned(b)
      BY <1>0, <2>3 DEF NothingLost, Abandoned
    <3>2. ASSUME NEW t \in Tensors, tensor[t].owning, tensor[t].data = b PROVE Kept(b)'
      <4>1. t # In(a)
        BY <3>2, NothingIsNoBuffer
      <4> QED  BY <1>1, <2>1, <3>2, <4>1 DEF Kept
    <3>3. StringCopy(b) => StringCopy(b)'
      BY DEF StringCopy
    <3>4. \A k \in 1 .. MaxOutputs : ~array[k].owning
      BY <1>2, NothingIsNoBuffer
    <3> QED  BY <3>1, <3>2, <3>3, <3>4, SoundStays DEF Kept
  <2> QED  BY <2>2, <2>3
<1> QED  BY <1>5, <1>6, <1>7, <1>8 DEF RunInv

LEMMA InitRun == Init => RunInv
<1> SUFFICES ASSUME Init PROVE RunInv
  OBVIOUS
<1>1. /\ phase = "compile" /\ heap = {} /\ freed = {} /\ faults = {}
      /\ \A t \in Tensors : tensor[t] = Nothing
      /\ \A k \in 1 .. MaxOutputs : array[k] = Nothing /\ tensor[Out(k)] = Nothing
      /\ \A a \in Args : tensor[In(a)] = Nothing
  BY Names DEF Init
<1> QED
  BY <1>1, NothingIsNoBuffer
  DEF RunInv, PlaceInv, OutInv, HoldInv, HeldRight, ByTensor, ByArray, NothingLost

(* While compiling, and when a call starts, there is nothing. *)
LEMMA EmptyKeeps ==
  ASSUME TypeOK, RunInv, phase \in {"compile", "trace"},
         UNCHANGED <<tensor, array, heap, freed, faults>>, phase' \in {"compile", "trace", "inputs"}
  PROVE  RunInv'
<1>1. /\ heap = {} /\ freed = {} /\ faults = {}
      /\ \A t \in Tensors : tensor[t] = Nothing
      /\ \A k \in 1 .. MaxOutputs : array[k] = Nothing
  BY DEF RunInv, PlaceInv
<1>2. /\ \A k \in 1 .. MaxOutputs : tensor[Out(k)] = Nothing
      /\ \A a \in Args : tensor[In(a)] = Nothing
  BY <1>1, Names
<1> QED
  BY <1>1, <1>2, NothingIsNoBuffer
  DEF RunInv, PlaceInv, OutInv, HoldInv, HeldRight, ByTensor, ByArray, NothingLost

(* Steps that move no memory: a refusal, and exceptions, which leave behind *)
(* what the tensors hold and may leave a copy made for an argument.         *)
LEMMA QuietKeeps ==
  ASSUME TypeOK, RunInv,
         UNCHANGED <<program, flags, entry, caller, tensor, array, freed, faults>>,
         \/ phase = "inputs" /\ phase' = "null" /\ heap' = heap
         \/ /\ phase \in {"inputs", "null", "returned"} /\ phase' = "raised"
            /\ caller \in {"python", "java"} /\ heap \subseteq heap'
            /\ \A b \in heap' \ heap : \E a \in Args : b = Copy(a) /\ tensor[In(a)] = Nothing
  PROVE  RunInv'
<1>1. /\ Indices' = Indices /\ Misclaimed' = Misclaimed
      /\ \A b : Fair(b)' = Fair(b) /\ Disowned(b)' = Disowned(b)
  BY SoundStays
<1>2. PlaceInv'
  BY DEF RunInv, PlaceInv
<1>3. OutInv'
  BY <1>1 DEF RunInv, OutInv
<1>4. ~BeforeRun'
  BY DEF BeforeRun
<1>5. HoldInv'
  <2> SUFFICES ASSUME NEW b \in Buffers, Fair(b) PROVE HeldRight(b)'
    BY <1>1, <1>4 DEF HoldInv
  <2>1. HeldRight(b)
    BY DEF RunInv, HoldInv
  <2> QED  BY <2>1 DEF HeldRight, ByTensor, ByArray
<1>6. NothingLost'
  <2> SUFFICES ASSUME NEW b \in heap' \ freed
               PROVE  Kept(b)' \/ StringCopy(b)' \/ Disowned(b)' \/ Abandoned(b)'
    BY DEF NothingLost
  <2>1. b \in heap => Kept(b) \/ StringCopy(b) \/ Disowned(b)
    BY DEF RunInv, NothingLost, Abandoned
  <2>2. Kept(b) => Kept(b)' \/ Abandoned(b)'
    BY DEF Kept, Abandoned, Reachable
  <2>3. StringCopy(b) => StringCopy(b)'
    BY DEF StringCopy
  <2>4. b \notin heap => Abandoned(b)'
    BY DEF Abandoned
  <2> QED  BY <1>1, <2>1, <2>2, <2>3, <2>4
<1> QED  BY <1>2, <1>3, <1>5, <1>6 DEF RunInv

LEMMA WrapKeeps ==
  ASSUME TypeOK, RunInv, NEW a \in Args, WrapInput(a)
  PROVE  RunInv'
<1> USE DEF compileVars, memVars
<1>4. ASSUME NEW o \in BOOLEAN, UserTensor(a, o) PROVE RunInv'
  <2> DEFINE M == IF o THEN {User(a)} ELSE {}
  <2>1. M \in SUBSET Wrapped(a) /\ User(a) \in Wrapped(a) /\ (o => User(a) \in M)
    BY DEF Wrapped
  <2>2. heap' = heap \cup M
    BY <1>4 DEF UserTensor
  <2>3. \A m \in M : m = User(a) /\ o
    BY Zenon
  <2>4. /\ phase = "inputs" /\ tensor[In(a)] = Nothing
        /\ tensor' = [tensor EXCEPT ![In(a)] = Struct(User(a), o)]
        /\ UNCHANGED <<program, flags, phase, caller, entry, array, freed, faults>>
    BY <1>4 DEF UserTensor
  <2> HIDE DEF M
  <2>5. Wraps(a, User(a), o, M)
    BY <2>1, <2>2, <2>3, <2>4 DEF Wraps
  <2> QED  BY <2>5, WrapHolds
<1>5. ASSUME NEW w \in BOOLEAN, NEW x \in BOOLEAN, PythonTensor(a, w, x) PROVE RunInv'
  <2> DEFINE d == IF x THEN Text(a) ELSE IF w THEN User(a) ELSE Copy(a)
             o == x \/ ~w
             M == CopiedByPython(a, w) \cup (IF x THEN {d} ELSE {})
  <2>1. heap' = heap \cup M /\ M \in SUBSET Wrapped(a) /\ d \in Wrapped(a) /\ o \in BOOLEAN
    BY <1>5 DEF PythonTensor, Wrapped, CopiedByPython
  <2>2. \A m \in M : (m = d /\ o) \/ (m = Copy(a) /\ Text(a) \in M)
    <3>1. CASE x
      BY <3>1 DEF CopiedByPython
    <3>2. CASE ~x
      <4>1. CASE w
        BY <3>2, <4>1 DEF CopiedByPython
      <4>2. CASE ~w
        <5>1. M = {Copy(a)} /\ d = Copy(a) /\ o
          BY <3>2, <4>2 DEF CopiedByPython
        <5> HIDE DEF M, d, o
        <5> QED  BY <5>1
      <4> QED  BY <4>1, <4>2
    <3> QED  BY <3>1, <3>2
  <2>3. o => d \in M
    BY DEF CopiedByPython
  <2>4. tensor' = [tensor EXCEPT ![In(a)] = Struct(d, o)]
    BY <1>5 DEF PythonTensor
  <2>5. /\ phase = "inputs" /\ tensor[In(a)] = Nothing
        /\ UNCHANGED <<program, flags, phase, caller, entry, array, freed, faults>>
    BY <1>5 DEF PythonTensor
  <2> HIDE DEF d, o, M
  <2>6. Wraps(a, d, o, M)
    BY <2>1, <2>2, <2>3, <2>4, <2>5 DEF Wraps
  <2> QED  BY <2>6, WrapHolds
<1>6. CASE JavaTensor(a)
  <2>1. Wraps(a, User(a), FALSE, {})
    BY <1>6 DEF JavaTensor, Wrapped, Wraps
  <2> QED  BY <2>1, WrapHolds
<1>7. ASSUME NEW w \in BOOLEAN, PythonInputRaises(a, w) PROVE RunInv'
  <2>1. \A b \in heap' \ heap : b = Copy(a) /\ tensor[In(a)] = Nothing
    BY <1>7 DEF PythonInputRaises, CopiedByPython
  <2>2. /\ UNCHANGED <<program, flags, entry, caller, tensor, array, freed, faults>>
        /\ phase = "inputs" /\ phase' = "raised" /\ caller = "python" /\ heap \subseteq heap'
    BY <1>7 DEF PythonInputRaises
  <2> QED  BY <2>1, <2>2, QuietKeeps
<1>8. CASE JavaInputThrows(a)
  BY <1>8, QuietKeeps DEF JavaInputThrows
<1> QED  BY <1>4, <1>5, <1>6, <1>7, <1>8 DEF WrapInput

LEMMA RunKeeps ==
  ASSUME TypeOK, RunInv,
         NEW r \in [Indices -> Leaves], NEW f \in [Indices -> BOOLEAN], Run(r, f)
  PROVE  RunInv'
<1>1. /\ phase = "inputs" /\ phase' = "returned"
      /\ UNCHANGED <<program, flags, caller, entry, array, freed, faults>>
      /\ \A k \in Indices : r[k] \in Roots[program[entry][k]]
      /\ \A k \in Indices : k <= Len(flags) => f[k] = flags[k]
      /\ heap' = heap \cup {Memory(r[k]) : k \in {i \in Indices : r[i] \in Allocs}}
      /\ \A a \in Args : tensor[In(a)] # Nothing
  <2>1. \A k \in Indices : k \in DOMAIN f
    OBVIOUS
  <2> QED  BY <2>1, Names DEF Run, InputsReady, FlagsRead, compileVars
<1>2. tensor' = [t \in Tensors |->
         IF t \in Outputs THEN Struct(Denoted(r[t[2]]), f[t[2]]) ELSE tensor[t]]
  BY DEF Run
<1>3. \A k \in Indices : /\ Out(k) \in Tensors /\ Out(k) \in Outputs /\ k \in 1 .. MaxOutputs
                         /\ tensor'[Out(k)].data = Denoted(r[k])
                         /\ tensor'[Out(k)].owning <=> f[k]
  <2> SUFFICES ASSUME NEW k \in Indices
               PROVE  /\ Out(k) \in Tensors /\ Out(k) \in Outputs /\ k \in 1 .. MaxOutputs
                      /\ tensor'[Out(k)].data = Denoted(r[k])
                      /\ tensor'[Out(k)].owning <=> f[k]
    OBVIOUS
  <2>1. Out(k) \in Tensors /\ Out(k) \in Outputs /\ Out(k)[2] = k /\ k \in 1 .. MaxOutputs
    BY OutputsAreTensors, Names DEF Outputs, Out
  <2>2. tensor'[Out(k)] = [data |-> Denoted(r[k]), owning |-> f[k]]
    BY <1>2, <2>1 DEF Struct
  <2> QED  BY <2>1, <2>2
<1>4. \A t \in Tensors \ Outputs : tensor'[t] = tensor[t]
  BY <1>2
<1>5. /\ HoldInv /\ NothingLost /\ freed = {} /\ faults = {} /\ PlaceInv /\ BeforeRun
      /\ \A k \in 1 .. MaxOutputs : tensor[Out(k)] = Nothing /\ array[k] = Nothing
  BY <1>1 DEF RunInv, BeforeRun, PlaceInv
<1>6. /\ Indices' = Indices /\ Misclaimed' = Misclaimed
      /\ \A b : Fair(b)' = Fair(b) /\ Disowned(b)' = Disowned(b)
  BY <1>1, SoundStays
<1>7. \A a \in Args : In(a) \in Tensors \ Outputs /\ tensor'[In(a)] = tensor[In(a)]
  BY <1>4, Names, OutputsAreTensors
<1>8. \A t \in Tensors : \/ \E a \in Args : t = In(a)
                         \/ \E k \in Indices : t = Out(k)
                         \/ tensor'[t] = Nothing
  <2> TAKE t \in Tensors
  <2>1. CASE t \in Outputs
    BY <2>1 DEF Outputs
  <2>2. CASE t \notin Outputs
    BY <1>4, <1>5, <2>2, Names
  <2> QED  BY <2>1, <2>2
<1>9. \A k \in Indices : Carries(Denoted(r[k]), r[k])
  <2> SUFFICES ASSUME NEW k \in Indices PROVE Carries(Denoted(r[k]), r[k])
    OBVIOUS
  <2>1. r[k] \in Leaves
    OBVIOUS
  <2>2. CASE r[k] \in Args
    BY <1>1, <1>5, <2>2 DEF Denoted, Carries, PlaceInv
  <2>3. CASE r[k] \notin Args
    BY <2>3 DEF Denoted, Carries, Memory
  <2> QED  BY <2>2, <2>3
<1>10. PlaceInv'
  BY <1>1, <1>5, <1>7 DEF PlaceInv
<1>11. OutInv'
  <2> SUFFICES ASSUME NEW k \in 1 .. MaxOutputs, tensor'[Out(k)] # Nothing
               PROVE  /\ k \in Indices'
                      /\ \E v \in Roots[program'[entry'][k]] : Carries(tensor'[Out(k)].data, v)
                      /\ k <= Len(flags') /\ tensor'[Out(k)].owning => flags'[k]
    BY DEF OutInv
  <2>1. k \in Indices
    BY <1>8, MemoryNames, OutputsAreTensors, Names
  <2>2. tensor'[Out(k)].data = Denoted(r[k]) /\ (tensor'[Out(k)].owning <=> f[k])
    BY <1>3, <2>1
  <2> QED  BY <1>1, <1>6, <1>9, <2>1, <2>2
<1>12. ASSUME NEW k \in Indices, f[k] PROVE Claims(k)
  <2>1. Len(flags) \in Nat /\ k \in Nat
    BY DEF TypeOK, Indices
  <2> QED  BY <1>1, <1>12, <2>1 DEF Claims
<1>13. ASSUME NEW b \in Buffers, Fair(b) PROVE HeldRight(b)'
  <2>1. HeldRight(b) /\ b \notin faults'
    BY <1>1, <1>5 DEF HoldInv, HeldRight
  <2>2. ASSUME NEW k \in Indices, ByTensor(Out(k), b)'
        PROVE  /\ r[k] \in Allocs /\ b = <<"own", r[k]>> /\ b \in heap' /\ Claims(k)
               /\ \A j \in Indices : ByTensor(Out(j), b)' => j = k
    <3>1. f[k] /\ Denoted(r[k]) = b /\ Carries(b, r[k]) /\ Claims(k) /\ r[k] \in Leaves
      BY <1>3, <1>9, <1>12, <2>2 DEF ByTensor
    <3>2. r[k] \notin Misclaimed
      BY <1>13, <3>1 DEF Fair
    <3>3. r[k] \in Allocs
      BY <1>1, <3>1, <3>2 DEF Misclaimed
    <3>4. b = <<"own", r[k]>> /\ b = Memory(r[k])
      BY <3>1, <3>3, ValuesAssumption, MemoryNames DEF Carries
    <3>5. ASSUME NEW j \in Indices, ByTensor(Out(j), b)', j # k PROVE FALSE
      <4>1. f[j] /\ Carries(b, r[j]) /\ Claims(j) /\ r[j] \in Leaves
        BY <1>3, <1>9, <1>12, <3>5 DEF ByTensor
      <4>2. r[j] = r[k]
        BY <3>4, <4>1, MemoryNames DEF Carries
      <4> QED  BY <1>1, <3>1, <3>2, <3>5, <4>1, <4>2 DEF Misclaimed
    <3> QED  BY <1>1, <3>1, <3>3, <3>4, <3>5
  <2>3. ASSUME NEW a \in Args, ByTensor(In(a), b)'
        PROVE  In(a) \in Tensors /\ ByTensor(In(a), b) /\ b \in Wrapped(a)
    BY <1>1, <1>5, <1>7, <2>3 DEF ByTensor, PlaceInv
  <2>4. \A t \in Tensors : ByTensor(t, b)' =>
          (\E a \in Args : t = In(a)) \/ (\E k \in Indices : t = Out(k))
    BY <1>8, NothingIsNoBuffer DEF ByTensor
  <2>5. \A t \in Tensors : ByTensor(t, b)' => b \in heap' \ freed'
    <3> SUFFICES ASSUME NEW t \in Tensors, ByTensor(t, b)' PROVE b \in heap'
      BY <1>1, <1>5
    <3>1. CASE \E a \in Args : t = In(a)
      BY <1>1, <2>1, <2>3, <3>1 DEF HeldRight
    <3>2. CASE \E k \in Indices : t = Out(k)
      BY <2>2, <3>2
    <3> QED  BY <2>4, <3>1, <3>2
  <2>6. \A t, u \in Tensors : ByTensor(t, b)' /\ ByTensor(u, b)' => t = u
    <3> SUFFICES ASSUME NEW t \in Tensors, NEW u \in Tensors, ByTensor(t, b)', ByTensor(u, b)'
                 PROVE  t = u
      OBVIOUS
    <3>1. ASSUME NEW a \in Args, NEW c \in Args, t = In(a), u = In(c) PROVE t = u
      BY <2>1, <2>3, <3>1 DEF HeldRight
    <3>2. ASSUME NEW j \in Indices, NEW k \in Indices, t = Out(j), u = Out(k) PROVE t = u
      BY <2>2, <3>2
    <3>3. ASSUME NEW a \in Args, NEW k \in Indices, ByTensor(In(a), b)', ByTensor(Out(k), b)'
          PROVE  FALSE
      BY <2>2, <2>3, <3>3, MemoryNames
    <3> QED  BY <2>4, <3>1, <3>2, <3>3
  <2>7. \A k \in 1 .. MaxOutputs : ~ByArray(k, b)'
    BY <1>1, <1>5, NothingIsNoBuffer DEF ByArray
  <2> QED  BY <2>1, <2>5, <2>6, <2>7 DEF HeldRight
<1>14. NothingLost'
  <2> SUFFICES ASSUME NEW b \in heap' PROVE Kept(b)' \/ StringCopy(b)' \/ Disowned(b)'
    BY DEF NothingLost
  <2>1. \A t \in Tensors : Reachable(t)'
    BY <1>1 DEF Reachable
  <2>2. CASE b \in heap
    <3>1. Kept(b) \/ StringCopy(b) \/ Disowned(b)
      BY <1>1, <1>5, <2>2 DEF NothingLost, Abandoned
    <3>2. ASSUME NEW t \in Tensors, tensor[t].owning PROVE tensor'[t] = tensor[t]
      BY <1>4, <1>5, <3>2, Names, NothingIsNoBuffer, OutputsAreTensors DEF Outputs
    <3>3. \A k \in 1 .. MaxOutputs : ~array[k].owning
      BY <1>5, NothingIsNoBuffer
    <3>4. Kept(b) => Kept(b)'
      BY <2>1, <3>2, <3>3 DEF Kept
    <3>5. StringCopy(b) => StringCopy(b)'
      BY <1>1 DEF StringCopy
    <3> QED  BY <1>6, <3>1, <3>4, <3>5
  <2>3. ASSUME NEW k \in Indices, r[k] \in Allocs, b = Memory(r[k]) PROVE Kept(b)' \/ Disowned(b)
    <3>1. CASE f[k]
      <4>1. Denoted(r[k]) = b
        BY <2>3, ValuesAssumption DEF Denoted
      <4> QED  BY <1>3, <2>1, <3>1, <4>1 DEF Kept
    <3>2. CASE ~f[k]
      <4>1. Len(flags) \in Nat /\ k \in Nat
        BY DEF TypeOK, Indices
      <4> QED  BY <1>1, <2>3, <3>2, <4>1 DEF Disowned
    <3> QED  BY <3>1, <3>2
  <2> QED  BY <1>1, <1>6, <2>2, <2>3
<1>15. HoldInv'
  BY <1>1, <1>6, <1>13 DEF HoldInv, BeforeRun
<1> QED  BY <1>10, <1>11, <1>14, <1>15 DEF RunInv

(* The session destroys its inputs and hands on its outputs, if any. *)
LEMMA SessionKeeps ==
  ASSUME TypeOK, RunInv, SessionReturns
  PROVE  RunInv'
<1>1. /\ phase \in {"returned", "null"} /\ caller = "session" /\ Destroy(Inputs)
      /\ phase' = IF phase = "null" THEN "raised" ELSE "held"
      /\ UNCHANGED <<program, flags, entry, caller, array, heap>>
  BY DEF SessionReturns, compileVars
<1>2. Inputs \in SUBSET Tensors /\ ~BeforeRun'
  BY <1>1, Names DEF BeforeRun
<1>3. ASSUME NEW t \in Tensors \ Inputs, tensor[t].owning PROVE Reachable(t)'
  <2>1. PICK k \in 1 .. MaxOutputs : t = Out(k)
    BY Names
  <2>2. phase # "null"
    BY <1>3, <2>1, NothingIsNoBuffer DEF RunInv, PlaceInv
  <2> QED  BY <1>1, <2>2 DEF Reachable
<1> QED  BY <1>1, <1>2, <1>3, DestroyKeeps

(* The user of the C interface destroys either list. *)
LEMMA ListKeeps ==
  ASSUME TypeOK, RunInv, ListDestroyed(Inputs) \/ ListDestroyed(Outputs)
  PROVE  RunInv'
<1>1. PICK S \in SUBSET Tensors : ListDestroyed(S)
  BY Names, OutputsAreTensors
<1>2. /\ phase \in {"returned", "null"} /\ phase' = phase /\ Destroy(S)
      /\ UNCHANGED <<program, flags, entry, caller, array, heap>>
  BY <1>1 DEF ListDestroyed, compileVars
<1> QED  BY <1>2, DestroyKeeps DEF BeforeRun, Reachable

(* An array takes the data over from its tensor, or a copy of it. *)
LEMMA ArrayKeeps ==
  ASSUME TypeOK, RunInv, NEW k \in 1 .. MaxOutputs, PythonOutput(k)
  PROVE  RunInv'
<1>1. /\ phase = "returned" /\ caller = "python" /\ array[k] = Nothing
      /\ array' = [array EXCEPT ![k] = IF tensor[Out(k)].owning THEN tensor[Out(k)] ELSE Copied]
      /\ tensor' = [tensor EXCEPT ![Out(k)].owning = FALSE]
      /\ UNCHANGED <<program, flags, entry, phase, caller, heap, freed, faults>>
  BY DEF PythonOutput, NextArray, compileVars, memVars
<1>2. Out(k) \in Tensors /\ \A a \in Args : In(a) # Out(k) /\ In(a) \in Tensors
  BY Names, MemoryNames
<1>3. /\ tensor'[Out(k)].data = tensor[Out(k)].data /\ ~tensor'[Out(k)].owning
      /\ tensor'[Out(k)] # Nothing => tensor[Out(k)] # Nothing
  <2>1. tensor[Out(k)] \in [data : Buffers, owning : BOOLEAN] \cup {Nothing}
    BY <1>2 DEF TypeOK
  <2>2. tensor'[Out(k)] = [tensor[Out(k)] EXCEPT !.owning = FALSE]
    BY <1>1, <1>2 DEF TypeOK
  <2>3. CASE tensor[Out(k)] = Nothing
    BY <2>2, <2>3, NothingIsNoBuffer
  <2>4. CASE tensor[Out(k)] \in [data : Buffers, owning : BOOLEAN]
    BY <2>2, <2>4, NothingIsNoBuffer
  <2> QED  BY <2>1, <2>3, <2>4
<1>4. \A t \in Tensors : t # Out(k) => tensor'[t] = tensor[t]
  BY <1>1 DEF TypeOK
<1>5. /\ array'[k] = IF tensor[Out(k)].owning THEN tensor[Out(k)] ELSE Copied
      /\ \A j \in 1 .. MaxOutputs : j # k => array'[j] = array[j]
  BY <1>1 DEF TypeOK
<1>6. /\ Indices' = Indices /\ Misclaimed' = Misclaimed
      /\ \A b : Fair(b)' = Fair(b) /\ Disowned(b)' = Disowned(b)
  BY <1>1, SoundStays
<1>7. PlaceInv'
  BY <1>1, <1>2, <1>4 DEF RunInv, PlaceInv
<1>8. OutInv'
  <2> SUFFICES ASSUME NEW j \in 1 .. MaxOutputs, tensor'[Out(j)] # Nothing
               PROVE  /\ j \in Indices
                      /\ \E v \in Roots[program[entry][j]] : Carries(tensor'[Out(j)].data, v)
                      /\ j <= Len(flags) /\ tensor'[Out(j)].owning => flags[j]
    BY <1>1, <1>6 DEF OutInv
  <2>1. CASE j = k
    BY <1>3, <2>1 DEF RunInv, OutInv
  <2>2. CASE j # k
    BY <1>4, <2>2, Names, MemoryNames DEF RunInv, OutInv
  <2> QED  BY <2>1, <2>2
<1>9. ASSUME NEW b \in Buffers, Fair(b) PROVE HeldRight(b)'
  <2>1. HeldRight(b)
    BY <1>9 DEF RunInv, HoldInv
  <2>2. \A t \in Tensors : ByTensor(t, b)' => t # Out(k) /\ ByTensor(t, b)
    BY <1>3, <1>4 DEF ByTensor
  <2>3. ByArray(k, b)' => ByTensor(Out(k), b)
    BY <1>5, NothingIsNoBuffer DEF ByTensor, ByArray
  <2>4. \A j \in 1 .. MaxOutputs : j # k /\ ByArray(j, b)' => ByArray(j, b)
    BY <1>5 DEF ByArray
  <2> QED  BY <1>1, <1>2, <2>1, <2>2, <2>3, <2>4 DEF HeldRight
<1>10. NothingLost'
  <2> SUFFICES ASSUME NEW b \in heap \ freed PROVE Kept(b)' \/ StringCopy(b)' \/ Disowned(b)'
    BY <1>1 DEF NothingLost
  <2>1. Kept(b) \/ StringCopy(b) \/ Disowned(b)
    BY <1>1 DEF RunInv, NothingLost, Abandoned
  <2>2. ASSUME NEW t \in Tensors, tensor[t].owning, tensor[t].data = b PROVE Kept(b)'
    <3>1. CASE t = Out(k)
      BY <1>5, <2>2, <3>1 DEF Kept
    <3>2. CASE t # Out(k)
      BY <1>1, <1>4, <2>2, <3>2 DEF Kept, Reachable
    <3> QED  BY <3>1, <3>2
  <2>3. ASSUME NEW j \in 1 .. MaxOutputs, array[j].owning, array[j].data = b PROVE Kept(b)'
    <3>1. j # k
      BY <1>1, <2>3, NothingIsNoBuffer
    <3> QED  BY <1>5, <2>3, <3>1 DEF Kept
  <2>4. StringCopy(b) => StringCopy(b)'
    BY <1>1 DEF StringCopy
  <2> QED  BY <1>6, <2>1, <2>2, <2>3, <2>4 DEF Kept
<1>11. HoldInv'
  BY <1>1, <1>6, <1>9 DEF HoldInv, BeforeRun
<1> QED  BY <1>7, <1>8, <1>10, <1>11 DEF RunInv

(* Python and Java destroy both lists. *)
LEMMA ReturnKeeps ==
  ASSUME TypeOK, RunInv, PythonReturns \/ JavaReturns
  PROVE  RunInv'
<1> DEFINE S == Inputs \cup Outputs
<1>1. /\ phase = "returned" /\ phase' = "held" /\ Destroy(S)
      /\ UNCHANGED <<program, flags, entry, caller, array, heap>>
  BY DEF PythonReturns, JavaReturns, compileVars
<1>2. S \in SUBSET Tensors /\ ~BeforeRun'
  BY <1>1, Names, OutputsAreTensors DEF BeforeRun
<1>3. \A t \in Tensors \ S : ~tensor[t].owning
  BY Names, NothingIsNoBuffer DEF S, Inputs, Outputs, RunInv, OutInv
<1> HIDE DEF S
<1> QED  BY <1>1, <1>2, <1>3, DestroyKeeps

LEMMA DropTensorKeeps ==
  ASSUME TypeOK, RunInv, NEW k \in 1 .. MaxOutputs, DropTensor(k)
  PROVE  RunInv'
<1>1. /\ phase = "held" /\ phase' = phase /\ Destroy({Out(k)})
      /\ UNCHANGED <<program, flags, entry, caller, array, heap>>
  BY DEF DropTensor, compileVars
<1>2. {Out(k)} \in SUBSET Tensors /\ ~BeforeRun'
  BY <1>1, Names DEF BeforeRun
<1> QED  BY <1>1, <1>2, DestroyKeeps DEF Reachable

LEMMA DropArrayKeeps ==
  ASSUME TypeOK, RunInv, NEW k \in 1 .. MaxOutputs, DropArray(k)
  PROVE  RunInv'
<1> DEFINE F == IF array[k].owning THEN {array[k].data} ELSE {}
<1>1. /\ phase \in {"held", "raised"} /\ array[k] # Nothing
      /\ freed' = freed \cup F /\ faults' = faults \cup (F \cap freed) \cup (F \ heap)
      /\ array' = [array EXCEPT ![k] = Nothing]
      /\ UNCHANGED <<program, flags, entry, phase, caller, tensor, heap>>
  BY DEF DropArray, compileVars
<1>2. /\ array'[k] = Nothing
      /\ \A j \in 1 .. MaxOutputs : j # k => array'[j] = array[j]
  BY <1>1 DEF TypeOK
<1>3. /\ Indices' = Indices /\ Misclaimed' = Misclaimed
      /\ \A b : Fair(b)' = Fair(b) /\ Disowned(b)' = Disowned(b)
  BY <1>1, SoundStays
<1>4. PlaceInv'
  BY <1>1, <1>2 DEF RunInv, PlaceInv
<1>5. OutInv'
  BY <1>1, <1>3 DEF RunInv, OutInv
<1>6. ASSUME NEW b \in Buffers, Fair(b) PROVE HeldRight(b)'
  <2>1. HeldRight(b)
    BY <1>6 DEF RunInv, HoldInv
  <2>2. b \in F <=> ByArray(k, b)
    BY DEF ByArray
  <2>3. \A j \in 1 .. MaxOutputs : ByArray(j, b)' => j # k /\ ByArray(j, b)
    BY <1>2, NothingIsNoBuffer DEF ByArray
  <2>4. \A t \in Tensors : ByTensor(t, b)' = ByTensor(t, b)
    BY <1>1 DEF ByTensor
  <2> HIDE DEF F
  <2> QED  BY <1>1, <2>1, <2>2, <2>3, <2>4 DEF HeldRight
<1>7. NothingLost'
  <2> SUFFICES ASSUME NEW b \in heap \ freed'
               PROVE  Kept(b)' \/ StringCopy(b)' \/ Disowned(b)' \/ Abandoned(b)'
    BY <1>1 DEF NothingLost
  <2>1. Kept(b) \/ StringCopy(b) \/ Disowned(b) \/ Abandoned(b)
    BY <1>1 DEF RunInv, NothingLost
  <2>2. \A j \in 1 .. MaxOutputs : array[j].owning /\ array[j].data = b => j # k
    BY <1>1
  <2>3. Kept(b) => Kept(b)'
    BY <1>1, <1>2, <2>2 DEF Kept, Reachable
  <2>4. (StringCopy(b) => StringCopy(b)') /\ (Abandoned(b) => Abandoned(b)')
    BY <1>1 DEF StringCopy, Abandoned
  <2> QED  BY <1>3, <2>1, <2>3, <2>4
<1>8. HoldInv'
  BY <1>1, <1>3, <1>6 DEF HoldInv, BeforeRun
<1> QED  BY <1>4, <1>5, <1>7, <1>8 DEF RunInv

LEMMA NextRun == TypeOK /\ RunInv /\ [Next]_vars => RunInv'
<1> SUFFICES ASSUME TypeOK, RunInv, [Next]_vars PROVE RunInv'
  OBVIOUS
<1> USE DEF compileVars, memVars
<1>1. CASE NextOutput \/ EndOutput \/ \E v \in Values : Trace(v)
  BY <1>1, EmptyKeeps DEF NextOutput, EndOutput, Trace
<1>2. CASE \E c \in Callers, e \in EntryPoints : StartCall(c, e)
  BY <1>2, EmptyKeeps DEF StartCall
<1>3. CASE \E a \in Args : WrapInput(a)
  BY <1>3, WrapKeeps
<1>4. CASE \E r \in [Indices -> Leaves], f \in [Indices -> BOOLEAN] : Run(r, f)
  BY <1>4, RunKeeps
<1>5. CASE Refuse
  BY <1>5, QuietKeeps DEF Refuse, InputsReady
<1>6. CASE SessionReturns
  BY <1>6, SessionKeeps
<1>7. CASE ListDestroyed(Inputs) \/ ListDestroyed(Outputs)
  BY <1>7, ListKeeps
<1>8. CASE NullRaises \/ PythonOutputRaises \/ JavaOutputThrows
  BY <1>8, QuietKeeps DEF NullRaises, PythonOutputRaises, JavaOutputThrows
<1>9. CASE PythonReturns \/ JavaReturns
  BY <1>9, ReturnKeeps
<1>10. CASE \E k \in 1 .. MaxOutputs : PythonOutput(k) \/ DropTensor(k) \/ DropArray(k)
  BY <1>10, ArrayKeeps, DropTensorKeeps, DropArrayKeeps
<1>11. CASE UNCHANGED vars
  <2>1. UNCHANGED <<program, flags, phase, caller, entry, tensor, array, heap, freed, faults>>
    BY <1>11 DEF vars
  <2>2. PlaceInv' /\ OutInv'
    BY <2>1 DEF RunInv, PlaceInv, OutInv, Indices
  <2>3. HoldInv'
    BY <2>1, SoundStays DEF RunInv, HoldInv, HeldRight, ByTensor, ByArray, BeforeRun
  <2>4. NothingLost'
    BY <2>1, SoundStays DEF RunInv, NothingLost, Kept, StringCopy, Abandoned, Reachable
  <2> QED  BY <2>2, <2>3, <2>4 DEF RunInv
<1> QED
  BY <1>1, <1>2, <1>3, <1>4, <1>5, <1>6, <1>7, <1>8, <1>9, <1>10, <1>11
  DEF Next, Analyse, CallModel, TakeOver

LEMMA RunImplies ==
  ASSUME TypeOK, RunInv
  PROVE  FreedByItsOwner /\ NothingLost
<1>1. FreedByItsOwner
  <2> SUFFICES ASSUME NEW b \in faults PROVE ~Fair(b)
    BY DEF FreedByItsOwner, Fair
  <2>1. b \in Buffers
    BY DEF TypeOK
  <2> QED  BY <2>1 DEF RunInv, HoldInv, HeldRight
<1> QED  BY <1>1 DEF RunInv

-----------------------------------------------------------------------------
(* The analysis and the call together *)

LEMMA FirstEntryImplied ==
  ASSUME TypeOK, AnalysisInv, RunInv
  PROVE  FirstEntryRight
<1> SUFFICES ASSUME entry = First PROVE
      /\ OwnedApart => faults = {}
      /\ \A b \in heap \ freed : Kept(b) \/ StringCopy(b) \/ Mixed(b) \/ Abandoned(b)
  BY DEF FirstEntryRight
<1>1. CASE phase \in {"compile", "trace"}
  BY <1>1 DEF RunInv, PlaceInv
<1>2. CASE phase \notin {"compile", "trace"}
  <2>1. /\ flags \in Seq(BOOLEAN) /\ Len(flags) = Len(program[First])
        /\ Indices = 1 .. Len(flags) /\ DOMAIN flags = 1 .. Len(flags)
    BY <1>2 DEF TypeOK, AnalysisInv, TraceInv, Indices
  <2>2. \A k \in Indices : Claims(k) <=> flags[k]
    BY <2>1 DEF Claims
  <2>3. \A k \in Indices : flags[k] => Roots[program[entry][k]] \subseteq Allocs
    BY <2>1 DEF AnalysisInv, NoFalsePositive
  <2>4. OwnedApart => Misclaimed = {}
    BY <2>2, <2>3 DEF OwnedApart, Misclaimed
  <2>5. OwnedApart => faults = {}
    BY <2>4, RunImplies DEF FreedByItsOwner
  <2>6. ASSUME NEW b, Disowned(b) PROVE Mixed(b)
    <3>1. PICK k \in Indices : /\ k > Len(flags) \/ ~flags[k]
                               /\ \E v \in Roots[program[entry][k]] \cap Allocs : b = Memory(v)
      BY <2>6 DEF Disowned
    <3>2. ~flags[k] /\ k \in DOMAIN flags
      BY <2>1, <3>1
    <3>3. Roots[program[entry][k]] \cap (Args \cup Globals) # {}
      BY <3>2 DEF AnalysisInv, DisownedForAReason
    <3> QED  BY <3>1, <3>3 DEF Mixed
  <2> QED  BY <2>5, <2>6 DEF RunInv, NothingLost
<1> QED  BY <1>1, <1>2

-----------------------------------------------------------------------------
(* Theorems *)

(* The variables keep their types.                                          *)
THEOREM TypeCorrect == Spec => []TypeOK
<1> QED  BY InitTypeOK, NextTypeOK, PTL DEF Spec

(* shouldOwn never claims memory of an argument or a constant, for any      *)
(* graph of views and selects: ConvertKrnlToLLVM.cpp:92-124.                *)
THEOREM AnalysisIsSafe == Spec => []NoFalsePositive
<1>1. TypeOK /\ AnalysisInv /\ [Next]_vars => AnalysisInv'
  BY NextAnalysis
<1>2. AnalysisInv => NoFalsePositive
  BY DEF AnalysisInv
<1> QED  BY InitAnalysis, TypeCorrect, <1>1, <1>2, PTL DEF Spec

(* shouldOwn disowns an output only if some path leads to an argument or a  *)
(* constant.                                                                *)
THEOREM AnalysisIsTight == Spec => []DisownedForAReason
<1>1. TypeOK /\ AnalysisInv /\ [Next]_vars => AnalysisInv'
  BY NextAnalysis
<1>2. AnalysisInv => DisownedForAReason
  BY DEF AnalysisInv
<1> QED  BY InitAnalysis, TypeCorrect, <1>1, <1>2, PTL DEF Spec

(* Whoever calls, in whatever order things are destroyed and whatever fails, *)
(* only misclaimed memory is freed twice, or freed without being from malloc: *)
(* memory that the flags of the compiler let an output own though the graph   *)
(* did not allocate it, or let two outputs own (KrnlEntryPoint.cpp:300-312).  *)
THEOREM FreesAreRight == Spec => []FreedByItsOwner
<1>1. RunInv /\ TypeOK => FreedByItsOwner
  BY RunImplies
<1> QED  BY InitRun, NextRun, TypeCorrect, <1>1, PTL DEF Spec

(* At every moment, memory that is to be freed has a tensor or an array that  *)
(* will free it, or is lost in one of the three ways that are in the code: a  *)
(* copied array of strings, an output whose flag may say no, an exception of  *)
(* pyRun or of the JNI function.                                              *)
THEOREM NothingLeaks == Spec => []NothingLost
<1>1. RunInv /\ TypeOK => NothingLost
  BY RunImplies
<1> QED  BY InitRun, NextRun, TypeCorrect, <1>1, PTL DEF Spec

(* In a call of the entry point that shouldOwn analysed nothing is freed      *)
(* wrongly if no two outputs that it lets own their data may share it, and an *)
(* output loses memory only if it may also be an argument or a constant: what *)
(* the answers of ConvertKrnlToLLVM.cpp:92-124 are for.                       *)
THEOREM FirstEntryIsSafe == Spec => []FirstEntryRight
<1>1. TypeOK /\ AnalysisInv /\ [Next]_vars => AnalysisInv'
  BY NextAnalysis
<1>2. TypeOK /\ AnalysisInv /\ RunInv => FirstEntryRight
  BY FirstEntryImplied
<1> QED  BY InitAnalysis, InitRun, NextRun, TypeCorrect, <1>1, <1>2, PTL DEF Spec
=============================================================================
