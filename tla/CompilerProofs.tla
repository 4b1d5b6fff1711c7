--------------------------- MODULE CompilerProofs ---------------------------
(***************************************************************************)
(* Proofs about the compiler: CompileDriver, for any number of compilations *)
(* of any names, whatever is kept and whatever fails; ConstantPack, for     *)
(* modules of any number of constants of any size and alignment; and        *)
(* LoopBody, for bodies of any operations.                                  *)
(***************************************************************************)
EXTENDS CompileDriver, ConstantPack, LoopBody, FiniteSetTheorems, SequenceTheorems,
        NaturalsInduction, WellFoundedInduction, TLAPS

(***************************************************************************)
(* CompileDriver.  Its inductive invariant says which stage a target        *)
(* reaches, from which directory, which files the removers in scope will    *)
(* take away there and which are already gone, and how many phases have     *)
(* been shown on the way.                                                   *)
(***************************************************************************)
Idle == pc \in {"idle", "exited"}
Before == {"import", "compile", "setup", "passes", "emit", "text", "bitcode"}
ToolStages == {"opt", "object", "jniobj", "link", "jar"}

(* What is left of the bitcode files of a target whose tools are done.      *)
BitcodeLeft(d) ==
  {Unoptimized, Bitcode} \cap d = IF "Bitcode" \in Keep THEN {Unoptimized, Bitcode} ELSE {}

RouteInv ==
  /\ pc = "text" => target = "MLIR"
  /\ pc \in ToolStages \cup {"bitcode"} => target # "MLIR"
  /\ pc \in {"jniobj", "jar"} => target = "JNI"
  /\ pc = "link" => target \in {"Lib", "JNI"}
  /\ pc \in ToolStages \cup {"done"} => Reachable
  /\ ~Idle => name \in Names
  /\ pc \in ToolStages \cup {"text", "bitcode", "done"} => ~printing
  /\ pc = "import" => ~embedded

PendingInv ==
  /\ Idle \/ pc \in Before \cup {"done"} => pending = {}
  /\ pc = "opt" => pending = Removing(Unoptimized, "Bitcode")
  /\ pc = "object" => pending = Removing(Bitcode, "Bitcode")
  /\ pc = "jniobj" => pending = {Object}
  /\ pc = "link" => pending = {Object} \cup (IF target = "JNI" THEN {JniObject} ELSE {})
  /\ pc = "jar" => pending = {Object, JniObject, Library}

LeftInv ==
  /\ pc = "object" => (Unoptimized \in disk <=> "Bitcode" \in Keep)
  /\ pc \in {"jniobj", "link", "jar"} => BitcodeLeft(disk)
  /\ pc = "done" /\ target # "MLIR" =>
       Temporaries \cap disk = IF "Bitcode" \in Keep THEN {Unoptimized, Bitcode} ELSE {}

(* How many phases have been shown at a stage of a compilation, and how many *)
(* it has in all; the import phase is the program's.                         *)
Imported == IF embedded THEN 0 ELSE 1
TotalHere == TotalPhases(target) - (1 - Imported)
ShownSoFar ==
  CASE pc \in {"import", "compile"} -> Imported
    [] pc \in {"setup", "passes", "emit", "text", "bitcode"} -> Imported + 1
    [] pc \in {"opt", "object"} -> Imported + 2
    [] pc = "jniobj" -> Imported + 3
    [] pc = "link" -> Imported + (IF target = "JNI" THEN 4 ELSE 3)
    [] pc = "jar" -> Imported + 5
    [] OTHER -> TotalHere - 1

PhaseInv ==
  ~failed /\ ~printing =>
    /\ pc = "idle" /\ embedded => current = 1
    /\ ~Idle => shown = <<ShownSoFar, ShownSoFar>> /\ current = ShownSoFar + 1
    /\ ~Idle /\ ~(embedded /\ pc = "compile") => total = TotalHere

(* A process that prints leaves its phases unfinished, so that only its first *)
(* compilation counts like one that writes; each later one shows as many.     *)
PrintInv ==
  ~failed /\ printing =>
    /\ calls = 0 => current = 1
    /\ ~Idle => calls > 0 /\ shown[1] = ShownSoFar
    /\ ~Idle /\ calls = 1 =>
         /\ shown[2] = ShownSoFar /\ current = ShownSoFar + 1
         /\ ~(embedded /\ pc = "compile") => total = TotalHere

StartInv == pc = "idle" /\ ~embedded => shown = <<0, 0>> /\ current = 1 /\ rc = "none"

DriverInv ==
  /\ TypeOK
  /\ RouteInv
  /\ PendingInv
  /\ LeftInv
  /\ PhaseInv
  /\ PrintInv
  /\ StartInv
  /\ TemporariesRemoved
  /\ ToolInputsPresent
  /\ PhasesAddUp


LEMMA DriverInitHolds == Init => DriverInv
<1> SUFFICES ASSUME Init
             PROVE  DriverInv
  OBVIOUS
<1>1. TypeOK
  <2>1. PICK u \in Uses : embedded = u[1] /\ printing = u[2]
    BY DEF Init
  <2>2. use = u
    BY <2>1, CompileDriverAssumption DEF use
  <2>3. use \in Uses
    BY <2>2
  <2>4. disk \cup pending = {}
    BY DEF Init
  <2>5. /\ current \in 1..9 /\ total \in 0..8 /\ modelTag \in Names \cup {NoTag}
        /\ cwd \in {"start", "outputs"} /\ name \in Names \cup {NoName}
    BY DEF Init
  <2>6. target \in Targets /\ pc \in PCs /\ rc \in {"none", "ok", "failed"}
    BY DEF Init, Targets, PCs
  <2>7. failed \in BOOLEAN
    BY Zenon DEF Init
  <2>8. shown \in Nat \X Nat /\ calls \in 0..MaxCalls
    BY CompileDriverAssumption DEF Init
  <2> QED BY <2>3, <2>4, <2>5, <2>6, <2>7, <2>8 DEF TypeOK
<1>2. PendingInv /\ LeftInv
  BY DEF Init, PendingInv, LeftInv, Idle, Before
<1>3. RouteInv /\ PhaseInv /\ PrintInv /\ StartInv
  BY DEF Init, RouteInv, PhaseInv, PrintInv, StartInv, Idle, ToolStages
<1>4. TemporariesRemoved /\ ToolInputsPresent /\ PhasesAddUp
  BY DEF Init, TemporariesRemoved, ToolInputsPresent, PhasesAddUp, Returned
<1> QED BY <1>1, <1>2, <1>3, <1>4 DEF DriverInv

(* The files of compilations. *)
OwnFiles(d) == \A f \in d : f[1] \in Names \cup {"jnidummy", "libmodel"}

LEMMA FileNames ==
  ASSUME name \in Names
  PROVE  OwnFiles({Unoptimized, Bitcode, Object, JniObject, Library, Jar,
                   <<name, "input.mlir">>, <<name, "onnx.mlir">>, <<name, "tmp">>,
                   <<name, "ll">>, <<name, "llvm.mlir">>})
BY DEF OwnFiles, Unoptimized, Bitcode, Object, JniObject, Library, Jar

(* The counter stays within the number of phases. *)
LEMMA PhaseTypes ==
  ASSUME NEW tot \in 0..8, TypeOK, ShowPhase(tot)
  PROVE  current' \in 1..9 /\ shown' \in Nat \X Nat
BY DEF ShowPhase, TypeOK

LEMMA TotalTypes ==
  ASSUME NEW t \in Targets
  PROVE  TotalPhases(t) \in 3..8 /\ TotalPhases(t) - 1 \in 0..8
BY DEF TotalPhases, Targets

(* The variables that a step which fails may still write. *)
RestTyped ==
  /\ use \in Uses
  /\ current \in 1..9
  /\ total \in 0..8
  /\ modelTag \in Names \cup {NoTag}
  /\ cwd \in {"start", "outputs"}
  /\ name \in Names \cup {NoName}
  /\ target \in Targets
  /\ shown \in Nat \X Nat
  /\ calls \in 0..MaxCalls

(* A step that fails ends the compilation, and no part of the invariant but  *)
(* the types says anything of a failed one.                                  *)
LEMMA FailureHolds ==
  ASSUME TypeOK, NEW dir, NEW d, ReturnIn(dir, "failed", d), OwnFiles(d),
         embedded' = embedded, RestTyped'
  PROVE  DriverInv'
<1>1. /\ pending' = {} /\ rc' = "failed" /\ failed' = TRUE
      /\ pc' = IF embedded THEN "idle" ELSE "exited"
      /\ OwnFiles(disk' \cup pending')
  BY DEF ReturnIn, Goto, OwnFiles
<1>2. TypeOK'
  <2>1. pc' \in PCs /\ rc' \in {"none", "ok", "failed"}
    BY <1>1 DEF PCs
  <2>2. failed' \in BOOLEAN
    BY <1>1, Zenon
  <2> QED BY <1>1, <2>1, <2>2 DEF TypeOK, RestTyped, OwnFiles
<1>3. RouteInv' /\ PendingInv' /\ LeftInv'
  BY <1>1 DEF RouteInv, PendingInv, LeftInv, Idle, Before, ToolStages
<1>4. PhaseInv' /\ PrintInv' /\ StartInv'
  BY <1>1 DEF PhaseInv, PrintInv, StartInv
<1>5. TemporariesRemoved' /\ ToolInputsPresent' /\ PhasesAddUp'
  BY <1>1 DEF TemporariesRemoved, ToolInputsPresent, PhasesAddUp, Returned
<1> QED BY <1>2, <1>3, <1>4, <1>5 DEF DriverInv

LEMMA FailLeavingHolds ==
  ASSUME TypeOK, NEW lefts, NEW remover, FailLeaving(lefts, remover),
         \A left \in lefts : OwnFiles(left), embedded' = embedded, RestTyped'
  PROVE  DriverInv'
<1>1. OwnFiles(disk) /\ \A left \in lefts : OwnFiles((disk \cup left) \ remover)
  BY DEF TypeOK, OwnFiles
<1>2. CASE Reachable
  <2>1. PICK left \in lefts : ReturnIn(cwd, "failed", (disk \cup left) \ remover)
    BY <1>2 DEF FailLeaving, Return
  <2> QED BY <1>1, <2>1, FailureHolds
<1>3. CASE ~Reachable
  <2>1. ReturnIn(cwd, "failed", disk)
    BY <1>3 DEF FailLeaving, Return
  <2> QED BY <1>1, <2>1, FailureHolds
<1> QED BY <1>2, <1>3

LEMMA FailHolds ==
  ASSUME TypeOK, NEW outputs, Fail(outputs), OwnFiles(outputs), embedded' = embedded, RestTyped'
  PROVE  DriverInv'
<1>1. \A left \in SUBSET outputs : OwnFiles(left)
  BY DEF OwnFiles
<1>2. FailLeaving(SUBSET outputs, {})
  BY DEF Fail
<1> QED BY <1>1, <1>2, FailLeavingHolds

(* A step that goes on: the parts about compilations that ended say nothing. *)
LEMMA RunningHolds ==
  ASSUME RestTyped', OwnFiles(disk' \cup pending'), pc' \in PCs \ {"idle", "exited"},
         UNCHANGED result, TypeOK,
         RouteInv', PendingInv', LeftInv', PhaseInv', ToolInputsPresent',
         pc' \in {"import", "compile", "setup", "passes", "emit"} => PrintInv'
  PROVE  DriverInv'
<1>1. TypeOK'
  <2>1. rc' \in {"none", "ok", "failed"} /\ failed' \in BOOLEAN
    BY Zenon DEF TypeOK, result
  <2> QED BY <2>1 DEF TypeOK, RestTyped, OwnFiles
<1>2. StartInv' /\ TemporariesRemoved' /\ PhasesAddUp'
  BY DEF StartInv, TemporariesRemoved, PhasesAddUp, Returned
<1>3. PrintInv'
  BY DEF PrintInv, RouteInv, ToolStages, PCs
<1> QED BY <1>1, <1>2, <1>3 DEF DriverInv

(* The types of the variables an action leaves alone. *)
LEMMA RestStays ==
  ASSUME TypeOK, UNCHANGED <<use, cwd, name, target, calls>>,
         modelTag' \in Names \cup {NoTag}, total' \in 0..8, current' \in 1..9, shown' \in Nat \X Nat
  PROVE  RestTyped' /\ embedded' = embedded /\ printing' = printing
BY DEF TypeOK, RestTyped, use

LEMMA CompileFromArrayHolds ==
  ASSUME DriverInv, NEW n \in Names, NEW t \in Targets, CompileFromArray(n, t)
  PROVE  DriverInv'
<1>1. /\ TypeOK /\ embedded /\ pc = "idle" /\ calls < MaxCalls /\ calls' = calls + 1
      /\ name' = n /\ target' = t /\ shown' = <<0, 0>>
      /\ UNCHANGED <<use, current, total, modelTag, cwd>>
  BY DEF CompileFromArray, Compile, DriverInv
<1>2. RestTyped' /\ embedded' = embedded /\ printing' = printing
  BY <1>1, CompileDriverAssumption DEF RestTyped, TypeOK, use
<1>3. /\ pending = {} /\ (~failed /\ ~printing => current = 1)
      /\ ~failed /\ printing /\ calls = 0 => current = 1
  BY <1>1 DEF DriverInv, PendingInv, PhaseInv, PrintInv, Idle
<1>4. CASE Goto("compile") /\ UNCHANGED <<result, disk, pending>>
  <2>1. pc' = "compile" /\ disk' = disk /\ pending' = {} /\ failed' = failed /\ UNCHANGED result
    BY <1>3, <1>4 DEF Goto, result
  <2>2. RouteInv' /\ PendingInv' /\ LeftInv' /\ ToolInputsPresent'
    BY <1>1, <2>1 DEF RouteInv, PendingInv, LeftInv, ToolInputsPresent, Idle, Before, ToolStages
  <2>3. PhaseInv'
    BY <1>1, <1>2, <1>3, <2>1 DEF PhaseInv, ShownSoFar, Imported, Idle
  <2>4. OwnFiles(disk' \cup pending') /\ pc' \in PCs \ {"idle", "exited"}
    BY <1>1, <2>1 DEF OwnFiles, TypeOK, PCs
  <2>5. PrintInv'
    BY <1>1, <1>2, <1>3, <2>1 DEF PrintInv, ShownSoFar, Imported, Idle, TypeOK
  <2> QED BY <1>1, <1>2, <2>1, <2>2, <2>3, <2>4, <2>5, RunningHolds
<1>5. CASE Return("failed", disk)
  BY <1>1, <1>2, <1>5, FailureHolds DEF Return, OwnFiles, TypeOK
<1> QED BY <1>4, <1>5 DEF CompileFromArray

LEMMA MainHolds ==
  ASSUME DriverInv, NEW n \in Names, NEW t \in Targets, Main(n, t)
  PROVE  DriverInv'
<1>1. /\ TypeOK /\ ~embedded /\ pc = "idle" /\ calls < MaxCalls /\ calls' = calls + 1
      /\ name' = n /\ target' = t /\ total' = TotalPhases(t) /\ ShowPhase(total') /\ pc' = "import"
      /\ UNCHANGED <<use, modelTag, cwd, disk, pending, result>>
  BY DEF Main, Compile, DriverInv, Goto
<1>2. total' \in 3..8
  BY <1>1, TotalTypes
<1>3. current' \in 1..9 /\ shown' \in Nat \X Nat
  BY <1>1, <1>2, PhaseTypes
<1>4. RestTyped' /\ embedded' = embedded /\ printing' = printing /\ failed' = failed
  <2>1. calls' \in 0..MaxCalls
    BY <1>1, CompileDriverAssumption DEF TypeOK
  <2>2. embedded' = embedded /\ printing' = printing /\ failed' = failed
    BY <1>1 DEF use, result
  <2> QED BY <1>1, <1>2, <1>3, <2>1, <2>2 DEF RestTyped, TypeOK
<1>5. pending' = {} /\ current = 1 /\ shown = <<0, 0>>
  BY <1>1 DEF DriverInv, PendingInv, StartInv, Idle
<1>6. RouteInv' /\ PendingInv' /\ LeftInv' /\ ToolInputsPresent'
  BY <1>1, <1>4, <1>5 DEF RouteInv, PendingInv, LeftInv, ToolInputsPresent, Idle, Before, ToolStages
<1>7. shown' = <<1, 1>> /\ current' = 2
  BY <1>1, <1>2, <1>5 DEF ShowPhase
<1>8. PhaseInv'
  <2>1. ShownSoFar' = 1 /\ TotalHere' = TotalPhases(t)
    BY <1>1, <1>2, <1>4 DEF ShownSoFar, Imported, TotalHere
  <2> QED BY <1>1, <1>7, <2>1 DEF PhaseInv
<1>9. OwnFiles(disk' \cup pending') /\ pc' \in PCs \ {"idle", "exited"}
  BY <1>1 DEF OwnFiles, TypeOK, PCs
<1>10. PrintInv'
  <2>1. ShownSoFar' = 1 /\ TotalHere' = TotalPhases(t)
    BY <1>1, <1>2, <1>4 DEF ShownSoFar, Imported, TotalHere
  <2> QED BY <1>1, <1>7, <2>1 DEF PrintInv, TypeOK
<1> QED BY <1>1, <1>4, <1>6, <1>8, <1>9, <1>10, RunningHolds

(* Before the tools, a stage gives way to the next one with the same files.  *)
LEMMA ProcessInputFileHolds == DriverInv /\ ProcessInputFile => DriverInv'
<1> SUFFICES ASSUME DriverInv, ProcessInputFile
             PROVE  DriverInv'
  OBVIOUS
<1>1. /\ TypeOK /\ pc = "import" /\ ~embedded
      /\ UNCHANGED <<use, modelTag, cwd, name, target, calls, current, total, shown>>
  BY DEF ProcessInputFile, process, DriverInv, RouteInv
<1>2. RestTyped' /\ embedded' = embedded /\ printing' = printing
  BY <1>1, RestStays DEF TypeOK
<1>3. CASE Goto("compile") /\ UNCHANGED <<result, disk, pending>>
  <2>1. pc' = "compile" /\ failed' = failed /\ UNCHANGED <<result, disk, pending>>
    BY <1>3 DEF Goto, result
  <2>2. RouteInv' /\ PendingInv' /\ LeftInv' /\ ToolInputsPresent'
    BY <1>1, <1>2, <2>1 DEF DriverInv, RouteInv, PendingInv, LeftInv, ToolInputsPresent, Idle, Before, ToolStages
  <2>3. PhaseInv'
    BY <1>1, <1>2, <2>1 DEF DriverInv, PhaseInv, ShownSoFar, Imported, TotalHere, Idle
  <2>4. PrintInv'
    BY <1>1, <1>2, <2>1 DEF DriverInv, PrintInv, ShownSoFar, Imported, TotalHere, Idle
  <2>5. OwnFiles(disk' \cup pending') /\ pc' \in PCs \ {"idle", "exited"}
    BY <1>1, <2>1 DEF OwnFiles, TypeOK, PCs
  <2> QED BY <1>1, <1>2, <2>1, <2>2, <2>3, <2>4, <2>5, RunningHolds
<1>4. CASE Fail({})
  BY <1>1, <1>2, <1>4, FailHolds DEF OwnFiles
<1> QED BY <1>3, <1>4 DEF ProcessInputFile

LEMMA CompileModuleHolds == DriverInv /\ CompileModule => DriverInv'
<1> SUFFICES ASSUME DriverInv, CompileModule
             PROVE  DriverInv'
  OBVIOUS
<1>1. /\ TypeOK /\ pc = "compile" /\ pc' = "setup"
      /\ total' = IF current = 1 THEN TotalPhases(target) - 1 ELSE total
      /\ ShowPhase(total')
      /\ UNCHANGED <<use, modelTag, cwd, name, target, calls, disk, pending, result>>
  BY DEF CompileModule, process, DriverInv, Goto
<1>2. total' \in 0..8 /\ TotalPhases(target) \in 3..8
  BY <1>1, TotalTypes DEF TypeOK
<1>3. current' \in 1..9 /\ shown' \in Nat \X Nat
  BY <1>1, <1>2, PhaseTypes
<1>4. RestTyped' /\ embedded' = embedded /\ printing' = printing /\ failed' = failed
  BY <1>1, <1>2, <1>3, RestStays DEF TypeOK, result
<1>5. RouteInv' /\ PendingInv' /\ LeftInv' /\ ToolInputsPresent'
  BY <1>1, <1>4 DEF DriverInv, RouteInv, PendingInv, LeftInv, ToolInputsPresent, Idle, Before, ToolStages
<1>6. PhaseInv'
  <2> SUFFICES ASSUME ~failed, ~printing
               PROVE  PhaseInv'
    BY <1>4 DEF PhaseInv
  <2>1. /\ shown = <<Imported, Imported>> /\ current = Imported + 1
        /\ ~embedded => total = TotalHere
    BY <1>1 DEF DriverInv, PhaseInv, ShownSoFar, Idle
  <2>2. TotalHere' = TotalHere /\ Imported' = Imported /\ ShownSoFar' = Imported + 1
    BY <1>1, <1>4 DEF TotalHere, Imported, ShownSoFar
  <2>3. total' = TotalHere /\ TotalHere \in Imported+2..8
    BY <1>1, <1>2, <2>1 DEF TotalHere, Imported
  <2>4. shown' = <<Imported + 1, Imported + 1>> /\ current' = Imported + 2
    BY <1>1, <2>1, <2>3 DEF ShowPhase, Imported
  <2> QED BY <1>1, <2>2, <2>3, <2>4 DEF PhaseInv, Imported
<1>7. PrintInv'
  <2> SUFFICES ASSUME ~failed, printing
               PROVE  PrintInv'
    BY <1>4 DEF PrintInv
  <2>1. /\ calls > 0 /\ shown[1] = Imported
        /\ calls = 1 => /\ shown[2] = Imported /\ current = Imported + 1
                        /\ ~embedded => total = TotalHere
    BY <1>1 DEF DriverInv, PrintInv, ShownSoFar, Idle
  <2>2. TotalHere' = TotalHere /\ Imported' = Imported /\ ShownSoFar' = Imported + 1
    BY <1>1, <1>4 DEF TotalHere, Imported, ShownSoFar
  <2>3. calls = 1 => total' = TotalHere /\ TotalHere \in Imported+2..8
    BY <1>1, <1>2, <2>1 DEF TotalHere, Imported
  <2>4. /\ shown'[1] = Imported + 1
        /\ calls = 1 => shown'[2] = Imported + 1 /\ current' = Imported + 2
    BY <1>1, <2>1, <2>3 DEF ShowPhase, Imported
  <2> QED BY <1>1, <2>1, <2>2, <2>3, <2>4 DEF PrintInv, Imported
<1>8. OwnFiles(disk' \cup pending') /\ pc' \in PCs \ {"idle", "exited"}
  BY <1>1 DEF OwnFiles, TypeOK, PCs
<1> QED BY <1>1, <1>4, <1>5, <1>6, <1>7, <1>8, RunningHolds

LEMMA SetupModuleHolds == DriverInv /\ SetupModule => DriverInv'
<1> SUFFICES ASSUME DriverInv, SetupModule
             PROVE  DriverInv'
  OBVIOUS
<1>1. /\ TypeOK /\ pc = "setup" /\ name \in Names /\ modelTag' = ChosenTag
      /\ UNCHANGED <<use, cwd, name, target, calls, current, total, shown>>
  BY DEF SetupModule, DriverInv, RouteInv, Idle
<1>2. RestTyped' /\ embedded' = embedded /\ printing' = printing
  BY <1>1, RestStays DEF TypeOK, ChosenTag
<1>3. CASE Return("failed", disk)
  BY <1>1, <1>2, <1>3, FailureHolds DEF Return, OwnFiles, TypeOK
<1>4. CASE Fail({<<name, "input.mlir">>})
  <2>1. OwnFiles({<<name, "input.mlir">>})
    BY <1>1 DEF OwnFiles
  <2> QED BY <1>1, <1>2, <1>4, <2>1, FailHolds
<1>5. CASE /\ disk' = disk \cup {f \in {<<name, "input.mlir">>} : "MLIR" \in Keep}
           /\ Goto("passes")
           /\ UNCHANGED <<pending, result>>
  <2>1. pc' = "passes" /\ failed' = failed /\ UNCHANGED <<result, pending>>
    BY <1>5 DEF Goto, result
  <2>2. RouteInv' /\ PendingInv' /\ LeftInv' /\ ToolInputsPresent'
    BY <1>1, <1>2, <2>1 DEF DriverInv, RouteInv, PendingInv, LeftInv, ToolInputsPresent, Idle, Before, ToolStages
  <2>3. PhaseInv'
    BY <1>1, <1>2, <2>1 DEF DriverInv, PhaseInv, ShownSoFar, Imported, TotalHere, Idle
  <2>4. PrintInv'
    BY <1>1, <1>2, <2>1 DEF DriverInv, PrintInv, ShownSoFar, Imported, TotalHere, Idle
  <2>5. OwnFiles(disk' \cup pending') /\ pc' \in PCs \ {"idle", "exited"}
    BY <1>1, <1>5, <2>1 DEF OwnFiles, TypeOK, PCs
  <2> QED BY <1>1, <1>2, <2>1, <2>2, <2>3, <2>4, <2>5, RunningHolds
<1> QED BY <1>3, <1>4, <1>5 DEF SetupModule

LEMMA RunPassesHolds == DriverInv /\ RunPasses => DriverInv'
<1> SUFFICES ASSUME DriverInv, RunPasses
             PROVE  DriverInv'
  OBVIOUS
<1>1. /\ TypeOK /\ pc = "passes"
      /\ UNCHANGED <<use, modelTag, cwd, name, target, calls, current, total, shown>>
  BY DEF RunPasses, process, DriverInv
<1>2. RestTyped' /\ embedded' = embedded /\ printing' = printing
  BY <1>1, RestStays DEF TypeOK
<1>3. CASE Goto("emit") /\ UNCHANGED <<disk, pending, result>>
  <2>1. pc' = "emit" /\ failed' = failed /\ UNCHANGED <<result, disk, pending>>
    BY <1>3 DEF Goto, result
  <2>2. RouteInv' /\ PendingInv' /\ LeftInv' /\ ToolInputsPresent'
    BY <1>1, <1>2, <2>1 DEF DriverInv, RouteInv, PendingInv, LeftInv, ToolInputsPresent, Idle, Before, ToolStages
  <2>3. PhaseInv'
    BY <1>1, <1>2, <2>1 DEF DriverInv, PhaseInv, ShownSoFar, Imported, TotalHere, Idle
  <2>4. PrintInv'
    BY <1>1, <1>2, <2>1 DEF DriverInv, PrintInv, ShownSoFar, Imported, TotalHere, Idle
  <2>5. OwnFiles(disk' \cup pending') /\ pc' \in PCs \ {"idle", "exited"}
    BY <1>1, <2>1 DEF OwnFiles, TypeOK, PCs
  <2> QED BY <1>1, <1>2, <2>1, <2>2, <2>3, <2>4, <2>5, RunningHolds
<1>4. CASE Return("failed", disk)
  BY <1>1, <1>2, <1>4, FailureHolds DEF Return, OwnFiles, TypeOK
<1> QED BY <1>3, <1>4 DEF RunPasses

(* Printing ends a compilation with its phases as they are.                  *)
LEMMA EmitOutputHolds == DriverInv /\ EmitOutput => DriverInv'
<1> SUFFICES ASSUME DriverInv, EmitOutput
             PROVE  DriverInv'
  OBVIOUS
<1>1. /\ TypeOK /\ pc = "emit"
      /\ UNCHANGED <<use, modelTag, cwd, name, target, calls, current, total, shown>>
  BY DEF EmitOutput, process, DriverInv
<1>2. RestTyped' /\ embedded' = embedded /\ printing' = printing
  BY <1>1, RestStays DEF TypeOK
<1>3. CASE printing /\ Return("ok", disk)
  <2>1. /\ pending' = {} /\ rc' = "ok" /\ printing'
        /\ pc' = IF embedded THEN "idle" ELSE "exited"
        /\ OwnFiles(disk' \cup pending')
    BY <1>1, <1>2, <1>3 DEF Return, ReturnIn, Goto, OwnFiles, TypeOK
  <2>2. TypeOK'
    <3>1. pc' \in PCs /\ rc' \in {"none", "ok", "failed"}
      BY <2>1 DEF PCs
    <3>2. failed' \in BOOLEAN
      BY <1>1, <1>3 DEF Return, ReturnIn, TypeOK
    <3> QED BY <1>2, <2>1, <3>1, <3>2 DEF TypeOK, RestTyped, OwnFiles
  <2>3. RouteInv' /\ PendingInv' /\ LeftInv' /\ ToolInputsPresent'
    BY <2>1 DEF RouteInv, PendingInv, LeftInv, ToolInputsPresent, Idle, Before, ToolStages
  <2>4. PhaseInv' /\ StartInv' /\ TemporariesRemoved'
    BY <1>2, <2>1 DEF PhaseInv, StartInv, TemporariesRemoved
  <2>5. failed' = failed
    <3>1. failed \in BOOLEAN
      BY <1>1 DEF TypeOK
    <3> QED BY <1>3, <3>1 DEF Return, ReturnIn
  <2>6. ~failed => /\ calls > 0 /\ shown[1] = Imported + 1
                   /\ calls = 1 => shown[2] = Imported + 1 /\ current = Imported + 2
                                   /\ total = TotalHere
    BY <1>1, <1>3 DEF DriverInv, PrintInv, ShownSoFar, Imported, Idle
  <2>7. PrintInv'
    BY <1>1, <2>1, <2>5, <2>6 DEF PrintInv, Idle
  <2>8. Imported + 1 < TotalHere
    BY <1>1, TotalTypes DEF TotalHere, Imported, TypeOK
  <2>9. PhasesAddUp'
    <3>1. UNCHANGED <<current, total, shown, calls>> /\ calls \in Nat /\ Imported \in {0, 1}
      BY <1>1 DEF TypeOK, Imported
    <3>2. Imported + 1 = (IF embedded THEN 1 ELSE 2) /\ embedded' = embedded
      BY <1>2 DEF Imported
    <3>3. ~failed /\ calls = 1 => shown[2] = shown[1] /\ shown[2] < total /\ current = shown[2] + 1
      BY <2>6, <2>8, <3>1
    <3> QED BY <2>1, <2>5, <2>6, <3>1, <3>2, <3>3 DEF PhasesAddUp
  <2> QED BY <2>2, <2>3, <2>4, <2>7, <2>9 DEF DriverInv
<1>4. CASE /\ ~printing
           /\ Goto(IF target = "MLIR" THEN "text" ELSE "bitcode")
           /\ UNCHANGED <<disk, pending, result>>
  <2>1. /\ pc' \in {"text", "bitcode"} /\ (pc' = "text" <=> target = "MLIR")
        /\ failed' = failed /\ UNCHANGED <<result, disk, pending>>
    BY <1>4 DEF Goto, result
  <2>2. RouteInv' /\ PendingInv' /\ LeftInv' /\ ToolInputsPresent'
    BY <1>1, <1>2, <1>4, <2>1 DEF DriverInv, RouteInv, PendingInv, LeftInv, ToolInputsPresent, Idle, Before, ToolStages
  <2>3. PhaseInv'
    BY <1>1, <1>2, <2>1 DEF DriverInv, PhaseInv, ShownSoFar, Imported, TotalHere, Idle
  <2>4. OwnFiles(disk' \cup pending') /\ pc' \in PCs \ {"idle", "exited"}
    BY <1>1, <2>1 DEF OwnFiles, TypeOK, PCs
  <2> QED BY <1>1, <1>2, <2>1, <2>2, <2>3, <2>4, RunningHolds
<1> QED BY <1>3, <1>4 DEF EmitOutput

LEMMA OutputTextHolds == DriverInv /\ OutputText => DriverInv'
<1> SUFFICES ASSUME DriverInv, OutputText
             PROVE  DriverInv'
  OBVIOUS
<1> DEFINE full == <<name, "onnx.mlir">>
           short == <<name, "tmp">>
<1>1. /\ TypeOK /\ pc = "text" /\ name \in Names /\ target = "MLIR" /\ ~printing
      /\ UNCHANGED <<use, modelTag, cwd, name, target, calls, current, total, shown>>
  BY DEF OutputText, process, DriverInv, RouteInv, Idle
<1>2. RestTyped' /\ embedded' = embedded /\ printing' = printing
  BY <1>1, RestStays DEF TypeOK
<1>3. CASE FailLeaving({{}, {full}}, {})
  <2>1. \A left \in {{}, {full}} : OwnFiles(left)
    BY <1>1 DEF OwnFiles
  <2> QED BY <1>1, <1>2, <1>3, <2>1, FailLeavingHolds
<1>4. CASE /\ Reachable
           /\ \E out \in SUBSET {full, short} : disk' = disk \cup out
           /\ Goto("done")
           /\ UNCHANGED <<pending, result>>
  <2>1. /\ pc' = "done" /\ failed' = failed /\ UNCHANGED <<result, pending>>
        /\ Reachable' = Reachable
    BY <1>1, <1>4 DEF Goto, result, Reachable
  <2>2. RouteInv' /\ PendingInv' /\ LeftInv' /\ ToolInputsPresent'
    BY <1>1, <1>2, <1>4, <2>1 DEF DriverInv, RouteInv, PendingInv, LeftInv, ToolInputsPresent, Idle, Before, ToolStages
  <2>3. PhaseInv'
    BY <1>1, <1>2, <2>1 DEF DriverInv, PhaseInv, ShownSoFar, Imported, TotalHere, TotalPhases, Idle
  <2>4. OwnFiles(disk' \cup pending')
    BY <1>1, <1>4, <2>1 DEF OwnFiles, TypeOK
  <2>5. pc' \in PCs \ {"idle", "exited"}
    BY <2>1 DEF PCs
  <2> QED BY <1>1, <1>2, <2>1, <2>2, <2>3, <2>4, <2>5, RunningHolds
<1> QED BY <1>3, <1>4 DEF OutputText

-----------------------------------------------------------------------------
(* The tools.  What a step shows, removes and adds is the same for all.      *)

LEMMA NoObjectKept == "Object" \notin Keep
BY CompileDriverAssumption

LEMMA FilesDiffer ==
  /\ Unoptimized # Bitcode
  /\ {Unoptimized, Bitcode} \cap {Object, JniObject, Library, Jar, <<name, "ll">>, <<name, "llvm.mlir">>} = {}
  /\ {Object, JniObject} \cap {Library, Jar, <<name, "llvm.mlir">>} = {}
  /\ Library \notin {Jar, <<name, "llvm.mlir">>}
BY DEF Unoptimized, Bitcode, Object, JniObject, Library, Jar

LEMMA SameFiles ==
  ASSUME UNCHANGED <<name, target>>
  PROVE  /\ Unoptimized' = Unoptimized /\ Bitcode' = Bitcode /\ Object' = Object
         /\ JniObject' = JniObject /\ Library' = Library /\ Jar' = Jar
         /\ Temporaries' = Temporaries
BY DEF Unoptimized, Bitcode, Object, JniObject, Library, Jar, Temporaries

(* A phase shown by a compilation that goes on, with phases left to show.    *)
LEMMA PhaseShown ==
  ASSUME DriverInv, ~Idle, pc # "compile", ~failed, ~printing, ShowPhase(total),
         ShownSoFar + 1 < TotalHere
  PROVE  shown' = <<ShownSoFar + 1, ShownSoFar + 1>> /\ current' = ShownSoFar + 2 /\ total = TotalHere
<1>1. shown = <<ShownSoFar, ShownSoFar>> /\ current = ShownSoFar + 1 /\ total = TotalHere
  BY DEF DriverInv, PhaseInv
<1>2. ShownSoFar \in Int /\ TotalHere \in Int
  <2>1. current \in Int /\ total \in Int
    BY DEF DriverInv, TypeOK
  <2>2. TotalHere \in Int
    BY <1>1, <2>1
  <2> QED BY <2>2, <1>1 DEF ShownSoFar, Imported
<1> QED BY <1>1, <1>2 DEF ShowPhase

(* What the tools' steps have in common. *)
LEMMA ToolStep ==
  ASSUME DriverInv, UNCHANGED <<process, total>>, ShowPhase(total) \/ UNCHANGED <<current, shown>>
  PROVE  /\ RestTyped' /\ embedded' = embedded /\ printing' = printing
         /\ UNCHANGED <<name, target>> /\ Reachable' = Reachable
<1>1. TypeOK /\ UNCHANGED <<use, modelTag, cwd, name, target, calls, total>>
  BY DEF DriverInv, process
<1>2. current' \in 1..9 /\ shown' \in Nat \X Nat
  BY <1>1, PhaseTypes DEF TypeOK
<1> QED BY <1>1, <1>2, RestStays DEF TypeOK, Reachable

LEMMA GenLLVMBitcodeHolds == DriverInv /\ GenLLVMBitcode => DriverInv'
<1> SUFFICES ASSUME DriverInv, GenLLVMBitcode
             PROVE  DriverInv'
  OBVIOUS
<1> DEFINE ir == {f \in {<<name, "ll">>} : "LLVMIR" \in Keep}
           remover == Removing(Unoptimized, "Bitcode")
<1>1. /\ TypeOK /\ pc = "bitcode" /\ name \in Names /\ target # "MLIR"
      /\ ShowPhase(total) /\ UNCHANGED <<process, total>>
  BY DEF GenLLVMBitcode, DriverInv, RouteInv, Idle, ToolStages
<1>2. RestTyped' /\ embedded' = embedded /\ printing' = printing /\ UNCHANGED <<name, target>> /\ Reachable' = Reachable
  BY <1>1, ToolStep
<1>3. CASE FailLeaving(SUBSET {Unoptimized}, remover)
  <2>1. \A left \in SUBSET {Unoptimized} : OwnFiles(left)
    BY <1>1, FileNames DEF OwnFiles
  <2> QED BY <1>1, <1>2, <1>3, <2>1, FailLeavingHolds
<1>4. CASE /\ Reachable
           /\ disk' = disk \cup ir \cup {Unoptimized}
           /\ pending' = remover
           /\ Goto("opt")
           /\ UNCHANGED result
  <2>1. pc' = "opt" /\ failed' = failed /\ UNCHANGED result
    BY <1>4 DEF Goto, result
  <2>2. RouteInv'
    BY <1>1, <1>2, <1>4, <2>1 DEF DriverInv, RouteInv, Idle, ToolStages
  <2>3. PendingInv' /\ LeftInv' /\ ToolInputsPresent'
    BY <1>2, <1>4, <2>1, SameFiles DEF PendingInv, LeftInv, ToolInputsPresent, Idle, Before, Removing
  <2>4. PhaseInv'
    <3> SUFFICES ASSUME ~failed, ~printing
                 PROVE  PhaseInv'
      BY <1>2, <2>1 DEF PhaseInv
    <3>1. ShownSoFar = Imported + 1 /\ ShownSoFar + 1 < TotalHere /\ ~Idle
      BY <1>1 DEF ShownSoFar, Imported, TotalHere, TotalPhases, Idle, TypeOK, Targets
    <3>2. shown' = <<ShownSoFar + 1, ShownSoFar + 1>> /\ current' = ShownSoFar + 2 /\ total = TotalHere
      BY <1>1, <3>1, PhaseShown
    <3>3. ShownSoFar' = ShownSoFar + 1 /\ TotalHere' = TotalHere
      BY <1>2, <2>1, <3>1 DEF ShownSoFar, Imported, TotalHere
    <3> QED BY <1>1, <2>1, <3>1, <3>2, <3>3 DEF PhaseInv, Imported
  <2>5. OwnFiles(disk' \cup pending')
    BY <1>1, <1>4, FileNames DEF OwnFiles, TypeOK, Removing
  <2>6. pc' \in PCs \ {"idle", "exited"}
    BY <2>1 DEF PCs
  <2> QED BY <1>1, <1>2, <2>1, <2>2, <2>3, <2>4, <2>5, <2>6, RunningHolds
<1> QED BY <1>3, <1>4 DEF GenLLVMBitcode

LEMMA OptHolds == DriverInv /\ Opt => DriverInv'
<1> SUFFICES ASSUME DriverInv, Opt
             PROVE  DriverInv'
  OBVIOUS
<1>1. /\ TypeOK /\ pc = "opt" /\ name \in Names /\ target # "MLIR" /\ Reachable
      /\ UNCHANGED <<process, current, total, shown>>
  BY DEF Opt, DriverInv, RouteInv, Idle, ToolStages
<1>2. RestTyped' /\ embedded' = embedded /\ printing' = printing /\ UNCHANGED <<name, target>> /\ Reachable' = Reachable
  BY <1>1, ToolStep
<1>3. CASE Fail({Bitcode})
  <2>1. OwnFiles({Bitcode})
    BY <1>1, FileNames DEF OwnFiles
  <2> QED BY <1>1, <1>2, <1>3, <2>1, FailHolds
<1>4. CASE /\ disk' = (disk \cup {Bitcode}) \ pending
           /\ pending' = Removing(Bitcode, "Bitcode")
           /\ Goto("object")
           /\ UNCHANGED result
  <2>1. pc' = "object" /\ failed' = failed /\ UNCHANGED result
    BY <1>4 DEF Goto, result
  <2>2. RouteInv'
    BY <1>1, <1>2, <2>1 DEF DriverInv, RouteInv, Idle, ToolStages
  <2>3. Unoptimized \in disk /\ pending = Removing(Unoptimized, "Bitcode")
    BY <1>1 DEF DriverInv, PendingInv, ToolInputsPresent
  <2>4. PendingInv' /\ LeftInv' /\ ToolInputsPresent'
    BY <1>2, <1>4, <2>1, <2>3, SameFiles, FilesDiffer
    DEF PendingInv, LeftInv, ToolInputsPresent, Idle, Before, Removing
  <2>5. PhaseInv'
    BY <1>1, <1>2, <2>1 DEF DriverInv, PhaseInv, ShownSoFar, Imported, TotalHere, Idle
  <2>6. OwnFiles(disk' \cup pending')
    BY <1>1, <1>4, FileNames DEF OwnFiles, TypeOK, Removing
  <2>7. pc' \in PCs \ {"idle", "exited"}
    BY <2>1 DEF PCs
  <2> QED BY <1>1, <1>2, <2>1, <2>2, <2>4, <2>5, <2>6, <2>7, RunningHolds
<1> QED BY <1>3, <1>4 DEF Opt

LEMMA GenModelObjectHolds == DriverInv /\ GenModelObject => DriverInv'
<1> SUFFICES ASSUME DriverInv, GenModelObject
             PROVE  DriverInv'
  OBVIOUS
<1>1. /\ TypeOK /\ pc = "object" /\ name \in Names /\ target \in {"Obj", "Lib", "JNI"} /\ Reachable
      /\ ShowPhase(total) /\ UNCHANGED <<process, total>>
  BY DEF GenModelObject, DriverInv, RouteInv, Idle, ToolStages, TypeOK, Targets
<1>2. RestTyped' /\ embedded' = embedded /\ printing' = printing /\ UNCHANGED <<name, target>> /\ Reachable' = Reachable
  BY <1>1, ToolStep
<1>3. CASE Fail({Object})
  <2>1. OwnFiles({Object})
    BY <1>1, FileNames DEF OwnFiles
  <2> QED BY <1>1, <1>2, <1>3, <2>1, FailHolds
<1>4. CASE /\ disk' = (disk \cup {Object}) \ pending
           /\ pending' = IF target = "Obj" THEN {} ELSE Removing(Object, "Object")
           /\ Goto(CASE target = "Obj" -> "done"
                      [] target = "Lib" -> "link"
                      [] target = "JNI" -> "jniobj")
           /\ UNCHANGED result
  <2>1. /\ target = "Obj" => pc' = "done" /\ pending' = {}
        /\ target = "Lib" => pc' = "link" /\ pending' = {Object}
        /\ target = "JNI" => pc' = "jniobj" /\ pending' = {Object}
    BY <1>1, <1>4, NoObjectKept DEF Goto, Removing
  <2>2. failed' = failed /\ UNCHANGED result
    BY <1>4 DEF result
  <2>3. RouteInv'
    BY <1>1, <1>2, <2>1 DEF DriverInv, RouteInv, Idle, ToolStages
  <2>4. /\ Bitcode \in disk /\ pending = Removing(Bitcode, "Bitcode")
        /\ Unoptimized \in disk <=> "Bitcode" \in Keep
    BY <1>1 DEF DriverInv, PendingInv, LeftInv, ToolInputsPresent
  <2>5. BitcodeLeft(disk') /\ Object \in disk'
    BY <1>4, <2>4, FilesDiffer DEF BitcodeLeft, Removing
  <2>6. PendingInv' /\ ToolInputsPresent'
    BY <1>1, <1>2, <2>1, <2>5, SameFiles DEF PendingInv, ToolInputsPresent, Idle, Before
  <2>7. LeftInv'
    BY <1>1, <1>2, <2>1, <2>5, SameFiles DEF LeftInv, BitcodeLeft, Temporaries
  <2>8. PhaseInv'
    <3> SUFFICES ASSUME ~failed, ~printing
                 PROVE  PhaseInv'
      BY <1>2, <2>2 DEF PhaseInv
    <3>1. ShownSoFar = Imported + 2 /\ ShownSoFar + 1 < TotalHere /\ ~Idle
      BY <1>1 DEF ShownSoFar, Imported, TotalHere, TotalPhases, Idle
    <3>2. shown' = <<ShownSoFar + 1, ShownSoFar + 1>> /\ current' = ShownSoFar + 2 /\ total = TotalHere
      BY <1>1, <3>1, PhaseShown
    <3>3. ShownSoFar' = ShownSoFar + 1 /\ TotalHere' = TotalHere
      BY <1>1, <1>2, <2>1, <3>1 DEF ShownSoFar, Imported, TotalHere, TotalPhases
    <3> QED BY <1>1, <2>1, <3>1, <3>2, <3>3 DEF PhaseInv, Imported
  <2>9. OwnFiles(disk' \cup pending')
    BY <1>1, <1>4, FileNames DEF OwnFiles, TypeOK, Removing
  <2>10. pc' \in PCs \ {"idle", "exited"}
    BY <1>1, <2>1 DEF PCs
  <2> QED BY <1>1, <1>2, <2>1, <2>2, <2>3, <2>6, <2>7, <2>8, <2>9, <2>10, RunningHolds
<1> QED BY <1>3, <1>4 DEF GenModelObject

LEMMA GenJniObjectHolds == DriverInv /\ GenJniObject => DriverInv'
<1> SUFFICES ASSUME DriverInv, GenJniObject
             PROVE  DriverInv'
  OBVIOUS
<1>1. /\ TypeOK /\ pc = "jniobj" /\ name \in Names /\ target = "JNI" /\ Reachable
      /\ ShowPhase(total) /\ UNCHANGED <<use, modelTag, name, target, calls, total>>
  BY DEF GenJniObject, DriverInv, RouteInv, Idle, ToolStages
<1>2. current' \in 1..9 /\ shown' \in Nat \X Nat
  BY <1>1, PhaseTypes DEF TypeOK
<1>3. embedded' = embedded /\ printing' = printing
  BY <1>1 DEF use
<1>4. CASE /\ cwd' = IF Nested THEN "outputs" ELSE cwd
           /\ \E left \in SUBSET {JniObject} : ReturnIn(cwd', "failed", disk \cup left)
  <2>1. RestTyped'
    BY <1>1, <1>2, <1>4 DEF RestTyped, TypeOK
  <2>2. PICK left \in SUBSET {JniObject} : ReturnIn(cwd', "failed", disk \cup left)
    BY <1>4
  <2>3. OwnFiles(disk \cup left)
    BY <1>1, FileNames DEF OwnFiles, TypeOK
  <2> QED BY <1>1, <1>3, <2>1, <2>2, <2>3, FailureHolds
<1>5. CASE /\ disk' = disk \cup {JniObject}
           /\ pending' = pending \cup Removing(JniObject, "Object")
           /\ Goto("link")
           /\ UNCHANGED <<cwd, result>>
  <2>1. RestTyped' /\ Reachable' = Reachable
    BY <1>1, <1>2, <1>5 DEF RestTyped, TypeOK, Reachable
  <2>2. pc' = "link" /\ failed' = failed /\ UNCHANGED result /\ pending' = {Object, JniObject}
    BY <1>1, <1>5, NoObjectKept DEF Goto, result, Removing, DriverInv, PendingInv
  <2>3. RouteInv'
    BY <1>1, <1>3, <2>1, <2>2 DEF DriverInv, RouteInv, Idle, ToolStages
  <2>4. Object \in disk /\ BitcodeLeft(disk)
    BY <1>1 DEF DriverInv, LeftInv, ToolInputsPresent
  <2>5. BitcodeLeft(disk')
    BY <1>5, <2>4, FilesDiffer DEF BitcodeLeft
  <2>6. PendingInv' /\ LeftInv' /\ ToolInputsPresent'
    BY <1>1, <1>5, <2>2, <2>4, <2>5, SameFiles
    DEF PendingInv, LeftInv, BitcodeLeft, ToolInputsPresent, Idle, Before
  <2>7. PhaseInv'
    <3> SUFFICES ASSUME ~failed, ~printing
                 PROVE  PhaseInv'
      BY <1>3, <2>2 DEF PhaseInv
    <3>1. ShownSoFar = Imported + 3 /\ ShownSoFar + 1 < TotalHere /\ ~Idle
      BY <1>1 DEF ShownSoFar, Imported, TotalHere, TotalPhases, Idle
    <3>2. shown' = <<ShownSoFar + 1, ShownSoFar + 1>> /\ current' = ShownSoFar + 2 /\ total = TotalHere
      BY <1>1, <3>1, PhaseShown
    <3>3. ShownSoFar' = ShownSoFar + 1 /\ TotalHere' = TotalHere
      BY <1>1, <1>3, <2>2, <3>1 DEF ShownSoFar, Imported, TotalHere
    <3> QED BY <1>1, <2>2, <3>1, <3>2, <3>3 DEF PhaseInv, Imported
  <2>8. OwnFiles(disk' \cup pending')
    BY <1>1, <1>5, <2>2, FileNames DEF OwnFiles, TypeOK
  <2>9. pc' \in PCs \ {"idle", "exited"}
    BY <2>2 DEF PCs
  <2> QED BY <1>1, <2>1, <2>2, <2>3, <2>6, <2>7, <2>8, <2>9, RunningHolds
<1> QED BY <1>4, <1>5 DEF GenJniObject

LEMMA GenSharedLibHolds == DriverInv /\ GenSharedLib => DriverInv'
<1> SUFFICES ASSUME DriverInv, GenSharedLib
             PROVE  DriverInv'
  OBVIOUS
<1>1. /\ TypeOK /\ pc = "link" /\ name \in Names /\ target \in {"Lib", "JNI"} /\ Reachable
      /\ ShowPhase(total) /\ UNCHANGED <<process, total>>
  BY DEF GenSharedLib, DriverInv, RouteInv, Idle, ToolStages
<1>2. RestTyped' /\ embedded' = embedded /\ printing' = printing /\ UNCHANGED <<name, target>> /\ Reachable' = Reachable
  BY <1>1, ToolStep
<1>3. CASE Fail({Library})
  <2>1. OwnFiles({Library})
    BY <1>1, FileNames DEF OwnFiles
  <2> QED BY <1>1, <1>2, <1>3, <2>1, FailHolds
<1>4. CASE /\ disk' = IF target = "Lib" THEN (disk \cup {Library}) \ pending
                                        ELSE disk \cup {Library}
           /\ pending' = IF target = "Lib" THEN {} ELSE pending \cup Removing(Library, "Object")
           /\ Goto(IF target = "Lib" THEN "done" ELSE "jar")
           /\ UNCHANGED result
  <2>1. pc' = (IF target = "Lib" THEN "done" ELSE "jar") /\ failed' = failed /\ UNCHANGED result
    BY <1>4 DEF Goto, result
  <2>2. RouteInv'
    BY <1>1, <1>2, <2>1 DEF DriverInv, RouteInv, Idle, ToolStages
  <2>3. /\ Object \in disk /\ BitcodeLeft(disk)
        /\ pending = {Object} \cup (IF target = "JNI" THEN {JniObject} ELSE {})
    BY <1>1 DEF DriverInv, PendingInv, LeftInv, ToolInputsPresent
  <2>4. BitcodeLeft(disk')
    BY <1>4, <2>3, FilesDiffer DEF BitcodeLeft
  <2>5. target = "Lib" => Object \notin disk' /\ pending' = {}
    BY <1>4, <2>3
  <2>6. target = "JNI" => Object \in disk' /\ Library \in disk' /\ pending' = {Object, JniObject, Library}
    BY <1>4, <2>3, NoObjectKept DEF Removing
  <2>7. PendingInv' /\ ToolInputsPresent'
    BY <1>1, <1>2, <2>1, <2>5, <2>6, SameFiles DEF PendingInv, ToolInputsPresent, Idle, Before
  <2>8. LeftInv'
    BY <1>1, <1>2, <2>1, <2>4, <2>5, SameFiles DEF LeftInv, BitcodeLeft, Temporaries
  <2>9. PhaseInv'
    <3> SUFFICES ASSUME ~failed, ~printing
                 PROVE  PhaseInv'
      BY <1>2, <2>1 DEF PhaseInv
    <3>1. ShownSoFar = Imported + (IF target = "JNI" THEN 4 ELSE 3) /\ ShownSoFar + 1 < TotalHere /\ ~Idle
      BY <1>1 DEF ShownSoFar, Imported, TotalHere, TotalPhases, Idle
    <3>2. shown' = <<ShownSoFar + 1, ShownSoFar + 1>> /\ current' = ShownSoFar + 2 /\ total = TotalHere
      BY <1>1, <3>1, PhaseShown
    <3>3. ShownSoFar' = ShownSoFar + 1 /\ TotalHere' = TotalHere
      BY <1>1, <1>2, <2>1, <3>1 DEF ShownSoFar, Imported, TotalHere, TotalPhases
    <3> QED BY <1>1, <2>1, <3>1, <3>2, <3>3 DEF PhaseInv, Imported
  <2>10. OwnFiles(disk' \cup pending')
    BY <1>1, <1>4, FileNames DEF OwnFiles, TypeOK, Removing
  <2>11. pc' \in PCs \ {"idle", "exited"}
    BY <2>1 DEF PCs
  <2> QED BY <1>1, <1>2, <2>1, <2>2, <2>7, <2>8, <2>9, <2>10, <2>11, RunningHolds
<1> QED BY <1>3, <1>4 DEF GenSharedLib

LEMMA GenJniJarHolds == DriverInv /\ GenJniJar => DriverInv'
<1> SUFFICES ASSUME DriverInv, GenJniJar
             PROVE  DriverInv'
  OBVIOUS
<1>1. /\ TypeOK /\ pc = "jar" /\ name \in Names /\ target = "JNI" /\ Reachable
      /\ ShowPhase(total) /\ UNCHANGED <<process, total>>
  BY DEF GenJniJar, DriverInv, RouteInv, Idle, ToolStages
<1>2. RestTyped' /\ embedded' = embedded /\ printing' = printing /\ UNCHANGED <<name, target>> /\ Reachable' = Reachable
  BY <1>1, ToolStep
<1>3. CASE Fail({Jar})
  <2>1. OwnFiles({Jar})
    BY <1>1, FileNames DEF OwnFiles
  <2> QED BY <1>1, <1>2, <1>3, <2>1, FailHolds
<1>4. CASE /\ disk' = (disk \cup {Jar}) \ pending
           /\ pending' = {}
           /\ Goto("done")
           /\ UNCHANGED result
  <2>1. pc' = "done" /\ failed' = failed /\ UNCHANGED result
    BY <1>4 DEF Goto, result
  <2>2. RouteInv'
    BY <1>1, <1>2, <2>1 DEF DriverInv, RouteInv, Idle, ToolStages
  <2>3. BitcodeLeft(disk) /\ pending = {Object, JniObject, Library}
    BY <1>1 DEF DriverInv, PendingInv, LeftInv
  <2>4. BitcodeLeft(disk') /\ {Object, JniObject, Library} \cap disk' = {}
    BY <1>4, <2>3, FilesDiffer DEF BitcodeLeft
  <2>5. PendingInv' /\ ToolInputsPresent'
    BY <1>4, <2>1 DEF PendingInv, ToolInputsPresent, Idle, Before
  <2>6. LeftInv'
    BY <1>1, <1>2, <2>1, <2>4, SameFiles DEF LeftInv, BitcodeLeft, Temporaries
  <2>7. PhaseInv'
    <3> SUFFICES ASSUME ~failed, ~printing
                 PROVE  PhaseInv'
      BY <1>2, <2>1 DEF PhaseInv
    <3>1. ShownSoFar = Imported + 5 /\ ShownSoFar + 1 < TotalHere /\ ~Idle
      BY <1>1 DEF ShownSoFar, Imported, TotalHere, TotalPhases, Idle
    <3>2. shown' = <<ShownSoFar + 1, ShownSoFar + 1>> /\ current' = ShownSoFar + 2 /\ total = TotalHere
      BY <1>1, <3>1, PhaseShown
    <3>3. ShownSoFar' = ShownSoFar + 1 /\ TotalHere' = TotalHere
      BY <1>1, <1>2, <2>1, <3>1 DEF ShownSoFar, Imported, TotalHere, TotalPhases
    <3> QED BY <1>1, <2>1, <3>1, <3>2, <3>3 DEF PhaseInv, Imported
  <2>8. OwnFiles(disk' \cup pending')
    BY <1>1, <1>4, FileNames DEF OwnFiles, TypeOK
  <2>9. pc' \in PCs \ {"idle", "exited"}
    BY <2>1 DEF PCs
  <2> QED BY <1>1, <1>2, <2>1, <2>2, <2>5, <2>6, <2>7, <2>8, <2>9, RunningHolds
<1> QED BY <1>3, <1>4 DEF GenJniJar

(* The last phase brings the counter back to 1, and the removers are done.   *)
LEMMA CompleteHolds == DriverInv /\ Complete => DriverInv'
<1> SUFFICES ASSUME DriverInv, Complete
             PROVE  DriverInv'
  OBVIOUS
<1> DEFINE dialect == {f \in {<<name, "llvm.mlir">>} : "MLIR" \in Keep /\ target # "MLIR"}
<1>1. /\ TypeOK /\ pc = "done" /\ name \in Names /\ Reachable /\ ~printing /\ pending = {}
      /\ UNCHANGED <<process, total>>
  BY DEF Complete, process, DriverInv, RouteInv, PendingInv, Idle
<1>2. OwnFiles(dialect)
  BY <1>1 DEF OwnFiles
<1>3. CASE Fail(dialect) /\ UNCHANGED <<current, shown>>
  BY <1>1, <1>2, <1>3, ToolStep, FailHolds
<1>4. CASE ShowPhase(total) /\ Return("ok", disk \cup dialect)
  <2>1. RestTyped' /\ embedded' = embedded /\ printing' = printing /\ UNCHANGED <<name, target>> /\ Reachable' = Reachable
    BY <1>1, <1>4, ToolStep
  <2>2. /\ pending' = {} /\ rc' = "ok" /\ disk' = disk \cup dialect
        /\ pc' = IF embedded THEN "idle" ELSE "exited"
    BY <1>1, <1>4 DEF Return, ReturnIn, Goto, Reachable
  <2>3. failed' \in BOOLEAN /\ (~failed' => ~failed)
    BY <1>1, <1>4 DEF Return, ReturnIn, TypeOK
  <2>4. TypeOK'
    <3>1. pc' \in PCs /\ rc' \in {"none", "ok", "failed"}
      BY <2>2 DEF PCs
    <3>2. OwnFiles(disk' \cup pending')
      BY <1>1, <1>2, <2>2 DEF OwnFiles, TypeOK
    <3> QED BY <2>1, <2>3, <3>1, <3>2 DEF TypeOK, RestTyped, OwnFiles
  <2>5. RouteInv' /\ PendingInv' /\ LeftInv' /\ ToolInputsPresent'
    BY <2>2 DEF RouteInv, PendingInv, LeftInv, ToolInputsPresent, Idle, Before, ToolStages
  <2>6. TemporariesRemoved'
    <3>1. target # "MLIR" =>
            Temporaries \cap disk = IF "Bitcode" \in Keep THEN {Unoptimized, Bitcode} ELSE {}
      BY <1>1 DEF DriverInv, LeftInv
    <3>2. Temporaries \cap dialect = {}
      BY DEF Temporaries, Unoptimized, Bitcode, Object, JniObject, Library
    <3>3. Temporaries \cap disk' = Temporaries \cap disk
      BY <2>2, <3>2
    <3> QED BY <2>1, <3>1, <3>3, SameFiles DEF TemporariesRemoved
  <2>7. ~failed => shown' = <<total, total>> /\ current' = 1
    <3> SUFFICES ASSUME ~failed
                 PROVE  shown' = <<total, total>> /\ current' = 1
      OBVIOUS
    <3>1. shown = <<total - 1, total - 1>> /\ current = total - 1 + 1
      BY <1>1 DEF DriverInv, PhaseInv, ShownSoFar, Idle
    <3>2. total \in Int
      BY <1>1 DEF TypeOK
    <3> QED BY <1>4, <3>1, <3>2 DEF ShowPhase
  <2>8. PhaseInv' /\ PrintInv' /\ PhasesAddUp'
    BY <1>1, <2>1, <2>2, <2>3, <2>7 DEF PhaseInv, PrintInv, PhasesAddUp, Idle
  <2>9. StartInv'
    BY <2>1, <2>2 DEF StartInv
  <2> QED BY <2>4, <2>5, <2>6, <2>8, <2>9 DEF DriverInv
<1> QED BY <1>3, <1>4 DEF Complete

LEMMA DriverStepHolds == DriverInv /\ [Next]_vars => DriverInv'
<1> SUFFICES ASSUME DriverInv, [Next]_vars
             PROVE  DriverInv'
  OBVIOUS
<1>1. ASSUME NEW n \in Names, NEW t \in Targets, CompileFromArray(n, t) \/ Main(n, t)
      PROVE  DriverInv'
  BY <1>1, CompileFromArrayHolds, MainHolds
<1>2. CASE \/ ProcessInputFile \/ CompileModule \/ SetupModule \/ RunPasses \/ EmitOutput
           \/ OutputText \/ GenLLVMBitcode \/ Opt \/ GenModelObject \/ GenJniObject
           \/ GenSharedLib \/ GenJniJar \/ Complete
  BY <1>2, ProcessInputFileHolds, CompileModuleHolds, SetupModuleHolds, RunPassesHolds,
     EmitOutputHolds, OutputTextHolds, GenLLVMBitcodeHolds, OptHolds, GenModelObjectHolds,
     GenJniObjectHolds, GenSharedLibHolds, GenJniJarHolds, CompleteHolds
<1>3. CASE UNCHANGED vars
  <2>1. UNCHANGED <<embedded, printing, current, total, modelTag, cwd, disk, name, target,
                    pc, pending, rc, failed, shown, calls>>
    BY <1>3 DEF vars
  <2>2. /\ UNCHANGED <<Idle, use, Reachable, Temporaries, ShownSoFar, TotalHere, Returned>>
        /\ Unoptimized' = Unoptimized /\ Bitcode' = Bitcode /\ Object' = Object
        /\ JniObject' = JniObject /\ Library' = Library
    BY <2>1, SameFiles DEF Idle, use, Reachable, ShownSoFar, TotalHere, Imported, Returned
  <2>3. TypeOK' /\ RouteInv' /\ PendingInv' /\ LeftInv'
    BY <2>1, <2>2 DEF DriverInv, TypeOK, RouteInv, PendingInv, LeftInv, BitcodeLeft
  <2>4. PhaseInv' /\ PrintInv' /\ StartInv'
    BY <2>1, <2>2 DEF DriverInv, PhaseInv, PrintInv, StartInv
  <2>5. TemporariesRemoved' /\ ToolInputsPresent' /\ PhasesAddUp'
    BY <2>1, <2>2 DEF DriverInv, TemporariesRemoved, ToolInputsPresent, PhasesAddUp
  <2> QED BY <2>3, <2>4, <2>5 DEF DriverInv
<1> QED BY <1>1, <1>2, <1>3 DEF Next

LEMMA DriverInvAlways == Spec => []DriverInv
BY DriverInitHolds, DriverStepHolds, PTL DEF Spec

(***************************************************************************)
(* Types: the phase counter stays within the phases of a target, and only   *)
(* files of compilations are written or removed (compileModule and the      *)
(* tools it runs).                                                         *)
(***************************************************************************)
THEOREM DriverTypes == Spec => []TypeOK
<1>1. DriverInv => TypeOK
  BY DEF DriverInv
<1> QED BY <1>1, DriverInvAlways, PTL

(***************************************************************************)
(* After a compilation that succeeds, however many failed before it, the    *)
(* intermediate files are gone and those of keepFiles are there             *)
(* (compileModuleToObject, compileModuleToSharedLibrary,                   *)
(* compileModuleToJniJar and their FileRemovers).                          *)
(***************************************************************************)
THEOREM AlwaysTemporariesRemoved == Spec => []TemporariesRemoved
<1>1. DriverInv => TemporariesRemoved
  BY DEF DriverInv
<1> QED BY <1>1, DriverInvAlways, PTL

(***************************************************************************)
(* Every tool finds the files it reads: no remover fires too early          *)
(* (genLLVMBitcode, genModelObject, genSharedLib, genJniJar).              *)
(***************************************************************************)
THEOREM AlwaysToolInputsPresent == Spec => []ToolInputsPresent
<1>1. DriverInv => ToolInputsPresent
  BY DEF DriverInv
<1> QED BY <1>1, DriverInvAlways, PTL

(***************************************************************************)
(* As long as nothing has failed, a compilation that writes files shows as  *)
(* many phases as its total says and leaves the counter at 1.  One that     *)
(* prints stops at emitOutput, and the first of a process leaves the        *)
(* counter short of the total (showCompilePhase, SET_TOTAL_COMPILE_PHASE,   *)
(* emitOutput).                                                             *)
(***************************************************************************)
THEOREM PhasesAlwaysAddUp == Spec => []PhasesAddUp
<1>1. DriverInv => PhasesAddUp
  BY DEF DriverInv
<1> QED BY <1>1, DriverInvAlways, PTL

-----------------------------------------------------------------------------
(***************************************************************************)
(* ConstantPack.                                                            *)
(***************************************************************************)

LEMMA ModuleFacts ==
  ASSUME NEW md \in Modules
  PROVE  /\ Len(md) \in Nat /\ DOMAIN md = 1..Len(md)
         /\ \A c \in 1..Len(md) : md[c].size \in Nat /\ md[c].align \in Int
<1>1. md \in Seq(Global)
  BY ConstantPackAssumption
<1>2. \A c \in 1..Len(md) : md[c] \in Global
  BY <1>1
<1> QED BY <1>1, <1>2 DEF Global

(* A set of constants laid out as a sequence. *)
LEMMA LaidOut ==
  ASSUME NEW n \in Nat, NEW S, S \subseteq 1..n, NEW s \in SetToSeqs(S)
  PROVE  s \in Seq(S) /\ Len(s) \in Nat
<1>1. IsFiniteSet(S)
  <2>1. 1 \in Int /\ n \in Int
    OBVIOUS
  <2>2. IsFiniteSet(1..n)
    BY <2>1, FS_Interval
  <2> QED BY <2>2, FS_Subset
<1>2. Cardinality(S) \in Nat
  BY <1>1, FS_CardinalityType
<1>3. s \in [1..Cardinality(S) -> S]
  BY DEF SetToSeqs
<1> QED BY <1>2, <1>3

-----------------------------------------------------------------------------
(***************************************************************************)
(* The inductive invariant: the types, what is known before the first       *)
(* constant is packed, and that totalConstSize is the length of the file.   *)
(***************************************************************************)
PackTypeInv ==
  /\ module \in Modules
  /\ Len(module) \in Nat /\ DOMAIN module = Ids
  /\ interest \in Seq(Ids)
  /\ i \in 0..Len(interest)
  /\ written \in Nat
  /\ DOMAIN offset = Ids /\ \A c \in Ids : offset[c] \in Int
  /\ valued \subseteq Ids

UnpackedInv ==
  /\ stage \in {"collect", "sort", "remove"} => valued = Ids /\ written = 0
  /\ stage = "collect" => i = 0

FileInv ==
  stage \in {"pack", "globals", "stored"} => file \in Seq(Nat \cup {Padding}) /\ Len(file) = written

OffsetInv == \A c \in valued : offset[c] = -1

PackInv == PackTypeInv /\ UnpackedInv /\ FileInv /\ OffsetInv /\ PackedWhole /\ Aligned /\ FileSizeExact

(* The padding takes the size to the next multiple of the alignment. *)
LEMMA PadFacts ==
  ASSUME NEW align \in Int, written \in Nat
  PROVE  /\ PadSize(align) \in Nat
         /\ align > 0 => (written + PadSize(align)) % align = 0
<1>1. CASE align > 0 /\ written % align # 0
  <2> DEFINE q == written \div align
  <2>1. q \in Nat /\ written % align \in 0..(align - 1) /\ written = align * q + (written % align)
    BY <1>1
  <2> HIDE DEF q
  <2>2. (q + 1) * align = align * q + align
    BY <1>1, <2>1
  <2>3. PadSize(align) = (q + 1) * align - written
    BY <1>1 DEF PadSize, q
  <2>4. PadSize(align) \in Nat
    BY <1>1, <2>1, <2>2, <2>3
  <2>5. written + PadSize(align) = (q + 1) * align
    <3>1. \A a, b, c \in Int : c = a - b => b + c = a
      OBVIOUS
    <3>2. (q + 1) * align \in Int
      BY <2>1
    <3> QED BY <2>3, <2>4, <3>1, <3>2
  <2>6. \A m \in Nat, a \in Nat \ {0} : (m * a) % a = 0
    <3> SUFFICES ASSUME NEW m \in Nat, NEW a \in Nat \ {0}
                 PROVE  (m * a) % a = 0
      OBVIOUS
    <3> DEFINE d == (m * a) \div a
    <3>1. m * a \in Nat
      OBVIOUS
    <3>2. m * a = a * d + ((m * a) % a) /\ (m * a) % a \in 0..(a - 1) /\ d \in Int
      BY <3>1
    <3>3. a * (m - d) = (m * a) % a
      BY <3>2
    <3> QED OBVIOUS
  <2>7. ((q + 1) * align) % align = 0
    <3>1. q + 1 \in Nat /\ align \in Nat \ {0}
      BY <1>1, <2>1
    <3> QED BY <2>6, <3>1
  <2>8. (written + PadSize(align)) % align = 0
    BY <2>5, <2>7
  <2> QED BY <2>4, <2>8
<1>2. CASE ~(align > 0 /\ written % align # 0)
  BY <1>2 DEF PadSize
<1> QED BY <1>1, <1>2

LEMMA PackInitHolds == InitPack => PackInv
<1> SUFFICES ASSUME InitPack
             PROVE  PackInv
  OBVIOUS
<1>1. Len(module) \in Nat /\ DOMAIN module = 1..Len(module)
  BY ModuleFacts DEF InitPack
<1> QED BY <1>1 DEF InitPack, PackInv, PackTypeInv, UnpackedInv, FileInv, OffsetInv, PackedWhole, Aligned, FileSizeExact, Ids

(* Steps that leave the file and the offsets alone. *)
LEMMA KeepsPacked ==
  ASSUME PackInv, UNCHANGED <<module, file, offset, valued>>
  PROVE  PackedWhole' /\ Aligned' /\ OffsetInv'
BY DEF PackInv, PackedWhole, Aligned, OffsetInv, Ids

LEMMA Appended ==
  ASSUME NEW S, NEW a \in Seq(S), NEW b \in Seq(S)
  PROVE  /\ a \o b \in Seq(S)
         /\ Len(a \o b) = Len(a) + Len(b)
         /\ \A k \in 1..Len(a) : (a \o b)[k] = a[k]
         /\ \A k \in 1..Len(b) : (a \o b)[Len(a) + k] = b[k]
OBVIOUS

(* One constant more: the bytes of the others stay where they are. *)
LEMMA PackOneHolds == PackInv /\ PackOne => PackInv'
<1> SUFFICES ASSUME PackInv, PackOne
             PROVE  PackInv'
  OBVIOUS
<1> DEFINE c == interest[i]
           size == module[c].size
           pad == PadSize(module[c].align)
           front == [b \in 1..pad |-> Padding]
           data == [b \in 1..size |-> c]
<1>1. /\ stage = "pack" /\ stage' = "pack" /\ i > 0 /\ i' = i - 1
      /\ file' = file \o front \o data
      /\ written' = written + pad + size
      /\ offset' = [offset EXCEPT ![c] = written + pad]
      /\ valued' = valued \ {c}
      /\ UNCHANGED <<module, interest, filesize>>
  BY DEF PackOne
<1>2. PackTypeInv /\ file \in Seq(Nat \cup {Padding}) /\ Len(file) = written
  BY <1>1 DEF PackInv, FileInv
<1>3. c \in Ids /\ c \in Nat
  <2>1. i \in 1..Len(interest)
    BY <1>1, <1>2 DEF PackTypeInv
  <2>2. c \in Ids
    BY <1>2, <2>1 DEF PackTypeInv
  <2> QED BY <1>2, <2>2 DEF PackTypeInv, Ids
<1>4. size \in Nat /\ module[c].align \in Int
  BY <1>2, <1>3, ModuleFacts DEF PackTypeInv, Ids
<1>5. pad \in Nat /\ (module[c].align > 0 => (written + pad) % module[c].align = 0)
  BY <1>2, <1>4, PadFacts DEF PackTypeInv
<1> HIDE DEF pad, size, c
<1>6. front \in Seq(Nat \cup {Padding}) /\ Len(front) = pad
  BY <1>5
<1>7. data \in Seq(Nat \cup {Padding}) /\ Len(data) = size /\ \A b \in 1..size : data[b] = c
  BY <1>3, <1>4
<1> HIDE DEF front, data
<1>8. /\ file \o front \in Seq(Nat \cup {Padding}) /\ Len(file \o front) = written + pad
      /\ \A b \in 1..written : (file \o front)[b] = file[b]
  BY <1>2, <1>6, Appended
<1>9. /\ file' \in Seq(Nat \cup {Padding}) /\ Len(file') = written + pad + size
      /\ \A b \in 1..(written + pad) : file'[b] = (file \o front)[b]
      /\ \A b \in 1..size : file'[written + pad + b] = data[b]
  <2> DEFINE start == file \o front
  <2>1. start \in Seq(Nat \cup {Padding}) /\ Len(start) = written + pad /\ file' = start \o data
    BY <1>1, <1>8
  <2> HIDE DEF start
  <2>2. /\ start \o data \in Seq(Nat \cup {Padding})
        /\ Len(start \o data) = Len(start) + Len(data)
        /\ \A b \in 1..Len(start) : (start \o data)[b] = start[b]
        /\ \A b \in 1..Len(data) : (start \o data)[Len(start) + b] = data[b]
    <3>1. start \in Seq(Nat \cup {Padding}) /\ data \in Seq(Nat \cup {Padding})
      BY <1>7, <2>1
    <3> QED BY <3>1, Appended
  <2>3. Len(start \o data) = written + pad + size
    BY <1>7, <2>1, <2>2
  <2>4. \A b \in 1..(written + pad) : (start \o data)[b] = start[b]
    BY <2>1, <2>2
  <2>5. \A b \in 1..size : (start \o data)[written + pad + b] = data[b]
    BY <1>7, <2>1, <2>2
  <2>6. /\ file' \in Seq(Nat \cup {Padding}) /\ Len(file') = written + pad + size
        /\ \A b \in 1..(written + pad) : file'[b] = start[b]
        /\ \A b \in 1..size : file'[written + pad + b] = data[b]
    BY <2>1, <2>2, <2>3, <2>4, <2>5
  <2> QED BY <2>6 DEF start
<1>10. \A b \in 1..written : file'[b] = file[b]
  BY <1>2, <1>5, <1>8, <1>9 DEF PackTypeInv
<1>11. Ids' = Ids /\ \A k \in Ids : offset'[k] = IF k = c THEN written + pad ELSE offset[k]
  BY <1>1, <1>2 DEF PackTypeInv, Ids
<1>12. PackTypeInv'
  BY <1>1, <1>2, <1>4, <1>5, <1>11 DEF PackTypeInv
<1>13. UnpackedInv' /\ FileInv' /\ FileSizeExact'
  BY <1>1, <1>9 DEF UnpackedInv, FileInv, FileSizeExact
<1>14. OffsetInv'
  BY <1>1, <1>2, <1>11 DEF PackInv, OffsetInv, PackTypeInv
<1>15. PackedWhole'
  <2> SUFFICES ASSUME NEW k \in Ids, k \notin valued'
               PROVE  /\ offset'[k] >= 0
                      /\ offset'[k] + module[k].size <= Len(file')
                      /\ \A b \in 1..module[k].size : file'[offset'[k] + b] = k
    BY <1>1, <1>11 DEF PackedWhole
  <2>1. CASE k = c
    <3>1. offset'[k] = written + pad /\ module[k].size = size
      BY <1>11, <2>1 DEF size
    <3>2. written + pad \in Nat
      BY <1>2, <1>5 DEF PackTypeInv
    <3>3. \A b \in 1..size : file'[written + pad + b] = k
      BY <1>7, <1>9, <2>1
    <3> QED BY <1>9, <3>1, <3>2, <3>3
  <2>2. CASE k # c
    <3>1. k \in Ids \ valued /\ offset'[k] = offset[k]
      BY <1>1, <1>11, <2>2
    <3>2. /\ offset[k] >= 0
          /\ offset[k] + module[k].size <= written
          /\ \A b \in 1..module[k].size : file[offset[k] + b] = k
      BY <1>2, <3>1 DEF PackInv, PackedWhole
    <3>3. offset[k] \in Int /\ module[k].size \in Nat
      BY <1>2, ModuleFacts DEF PackTypeInv, Ids
    <3>4. \A b \in 1..module[k].size : offset[k] + b \in 1..written
      BY <1>2, <3>2, <3>3 DEF PackTypeInv
    <3>5. written <= Len(file')
      BY <1>2, <1>4, <1>5, <1>9 DEF PackTypeInv
    <3>6. offset[k] + module[k].size <= Len(file')
      BY <1>2, <1>4, <1>5, <1>9, <3>2, <3>3 DEF PackTypeInv
    <3> QED BY <1>10, <3>1, <3>2, <3>4, <3>6
  <2> QED BY <2>1, <2>2
<1>16. Aligned'
  <2> SUFFICES ASSUME NEW k \in Ids, offset'[k] >= 0, module[k].align > 0
               PROVE  offset'[k] % module[k].align = 0
    BY <1>1, <1>11 DEF Aligned
  <2>1. CASE k = c
    BY <1>5, <1>11, <2>1
  <2>2. CASE k # c
    BY <1>11, <2>2 DEF PackInv, Aligned
  <2> QED BY <2>1, <2>2
<1> QED BY <1>12, <1>13, <1>14, <1>15, <1>16 DEF PackInv

LEMMA PackStepHolds == PackInv /\ [NextPack]_packVars => PackInv'
<1> SUFFICES ASSUME PackInv, [NextPack]_packVars
             PROVE  PackInv'
  OBVIOUS
<1>0. PackTypeInv /\ UnpackedInv /\ FileInv
  BY DEF PackInv
<1>1. CASE Collect
  <2>1. UNCHANGED <<module, i, file, written, offset, valued, filesize>> /\ stage = "collect" /\ stage' \in {"embedded", "sort"}
    BY <1>1 DEF Collect
  <2>2. interest' \in Seq(Ids) /\ i' \in 0..Len(interest')
    <3>1. i = 0
      BY <1>0, <1>1 DEF Collect, UnpackedInv
    <3>2. {k \in Ids : OfInterest(k)} \subseteq 1..Len(module)
      BY DEF Ids
    <3>3. \A s \in SetToSeqs({k \in Ids : OfInterest(k)}) : s \in Seq(Ids)
      <4> SUFFICES ASSUME NEW s \in SetToSeqs({k \in Ids : OfInterest(k)})
                   PROVE  s \in Seq(Ids)
        OBVIOUS
      <4>1. s \in Seq({k \in Ids : OfInterest(k)})
        BY <1>0, <3>2, LaidOut DEF PackTypeInv
      <4> QED BY <4>1
    <3>4. interest' \in Seq(Ids)
      BY <1>0, <1>1, <3>3 DEF Collect, PackTypeInv
    <3> QED BY <2>1, <3>1, <3>4
  <2>3. PackedWhole' /\ Aligned' /\ OffsetInv'
    BY <2>1, KeepsPacked
  <2>4. PackTypeInv' /\ UnpackedInv' /\ FileInv' /\ FileSizeExact'
    BY <1>0, <2>1, <2>2 DEF PackTypeInv, UnpackedInv, FileInv, FileSizeExact, Ids
  <2> QED BY <2>3, <2>4 DEF PackInv
<1>2. CASE Sort
  <2>1. PICK s \in SetToSeqs(ToSet(interest)) : interest' = s /\ i' = Len(s)
    BY <1>2 DEF Sort
  <2>2. ToSet(interest) \subseteq 1..Len(module)
    BY <1>0 DEF PackTypeInv, ToSet, Ids
  <2>3. s \in Seq(ToSet(interest)) /\ Len(s) \in Nat
    BY <1>0, <2>2, LaidOut DEF PackTypeInv
  <2>4. s \in Seq(Ids)
    BY <2>2, <2>3 DEF Ids
  <2>5. UNCHANGED <<module, file, written, offset, valued, filesize>> /\ stage = "sort" /\ stage' = "remove"
    BY <1>2 DEF Sort
  <2>6. PackedWhole' /\ Aligned' /\ OffsetInv'
    BY <2>5, KeepsPacked
  <2>7. PackTypeInv' /\ UnpackedInv' /\ FileInv' /\ FileSizeExact'
    BY <1>0, <2>1, <2>3, <2>4, <2>5 DEF PackTypeInv, UnpackedInv, FileInv, FileSizeExact, Ids
  <2> QED BY <2>6, <2>7 DEF PackInv
<1>3. CASE RemoveOld
  <2>1. PackTypeInv'
    BY <1>0, <1>3 DEF RemoveOld, PackTypeInv, Ids
  <2>2. UnpackedInv' /\ FileInv' /\ FileSizeExact'
    BY <1>0, <1>3 DEF RemoveOld, PackTypeInv, UnpackedInv, FileInv, FileSizeExact
  <2>3. PackedWhole' /\ Aligned' /\ OffsetInv'
    <3>1. UNCHANGED <<module, offset, valued>> /\ valued = Ids
      BY <1>0, <1>3 DEF RemoveOld, UnpackedInv
    <3> QED BY <3>1 DEF PackInv, PackedWhole, Aligned, OffsetInv, Ids
  <2> QED BY <2>1, <2>2, <2>3 DEF PackInv
<1>4. CASE PackOne
  BY <1>4, PackOneHolds
<1>5. CASE PackEnd
  <2>1. PackedWhole' /\ Aligned' /\ OffsetInv'
    BY <1>5, KeepsPacked DEF PackEnd
  <2>2. PackTypeInv' /\ UnpackedInv' /\ FileInv' /\ FileSizeExact'
    BY <1>0, <1>5 DEF PackEnd, PackTypeInv, UnpackedInv, FileInv, FileSizeExact, Ids
  <2> QED BY <2>1, <2>2 DEF PackInv
<1>6. CASE EmitGlobals
  <2>1. PackedWhole' /\ Aligned' /\ OffsetInv'
    BY <1>6, KeepsPacked DEF EmitGlobals
  <2>2. PackTypeInv' /\ UnpackedInv' /\ FileInv' /\ FileSizeExact'
    BY <1>0, <1>6 DEF EmitGlobals, PackTypeInv, UnpackedInv, FileInv, FileSizeExact, Ids
  <2> QED BY <2>1, <2>2 DEF PackInv
<1>7. CASE UNCHANGED packVars
  BY <1>7 DEF packVars, PackInv, PackTypeInv, UnpackedInv, FileInv, OffsetInv, PackedWhole, Aligned, FileSizeExact, Ids
<1> QED BY <1>1, <1>2, <1>3, <1>4, <1>5, <1>6, <1>7 DEF NextPack

(***************************************************************************)
(* A constant taken out of the module is in the file, whole, at its offset  *)
(* (extractConstantsToFile, the packing loop).                             *)
(***************************************************************************)
THEOREM AlwaysPackedWhole == SpecPack => []PackedWhole
<1>1. PackInv => PackedWhole
  BY DEF PackInv
<1> QED BY <1>1, PackInitHolds, PackStepHolds, PTL DEF SpecPack

(***************************************************************************)
(* Offsets are multiples of the alignment (padSize in                      *)
(* extractConstantsToFile).                                                *)
(***************************************************************************)
THEOREM AlwaysAligned == SpecPack => []Aligned
<1>1. PackInv => Aligned
  BY DEF PackInv
<1> QED BY <1>1, PackInitHolds, PackStepHolds, PTL DEF SpecPack

(***************************************************************************)
(* The size in the library is that of the file, whatever was there before   *)
(* (totalConstSize, and the removal of the old file).                      *)
(***************************************************************************)
THEOREM FileSizeAlwaysExact == SpecPack => []FileSizeExact
<1>1. PackInv => FileSizeExact
  BY DEF PackInv
<1> QED BY <1>1, PackInitHolds, PackStepHolds, PTL DEF SpecPack

(***************************************************************************)
(* LoopBody.  markLoopBodyAsMovable and moveOne are each other's inverse:    *)
(* the chunks that the first one takes out of a body of any length come back *)
(* around the loops that its iterates have become. The argument goes along  *)
(* the body: when what was planned up to an operation has been put, what is  *)
(* in front of the insertion point is the body up to where the next chunk    *)
(* begins, and the loops of the later iterates are behind it.                *)
(***************************************************************************)

(* An operation of the body has become f of it.                            *)
Img(f, q) == [k \in DOMAIN q |-> f[q[k]]]

(* A set that has 0 and every successor has all natural numbers.            *)
LEMMA Successors ==
  ASSUME NEW S, 0 \in S, \A m \in Nat : m \in S => m + 1 \in S
  PROVE  Nat \subseteq S
<1>1. SUFFICES ASSUME Nat \ S # {} PROVE FALSE
  OBVIOUS
<1>2. PICK x \in Nat \ S : \A y \in Nat \ S : ~(<<y, x>> \in OpToRel(<, Nat))
  BY NatLessThanWellFounded, WFMin, <1>1
<1>3. \A y \in Nat \ S : ~(y < x)
  BY <1>2 DEF OpToRel
<1>4. x \in Nat /\ x \notin S
  BY <1>2
<1>5. x # 0
  BY <1>4
<1>6. x - 1 \in Nat /\ (x - 1) + 1 = x /\ x - 1 < x
  BY <1>4, <1>5
<1>7. x - 1 \in S
  BY <1>3, <1>6
<1> QED BY <1>4, <1>6, <1>7

(* A function defined by recursion exists: it begins with a, and the         *)
(* functions G continue it.                                                *)
Continued(p, n, T, a, G) ==
  /\ p \in [0..n -> T]
  /\ p[0] = a
  /\ \A k \in 1..n : p[k] = G[k][p[k - 1]]

Continuing(n, T, a, G) ==
  /\ n \in Nat /\ a \in T
  /\ \A k \in 1..n : G[k] \in [T -> T]

LEMMA RecursionExists ==
  ASSUME NEW n, NEW T, NEW a, NEW G, Continuing(n, T, a, G)
  PROVE  \E p : Continued(p, n, T, a, G)
<1> USE DEF Continuing
<1> DEFINE Good(p, m) == p \in [0..m -> T] /\ p[0] = a /\ \A k \in 1..m : p[k] = G[k][p[k - 1]]
           S == {m \in Nat : m <= n => \E p : Good(p, m)}
<1>1. 0 \in S
  <2>1. Good([k \in 0..0 |-> a], 0)
    OBVIOUS
  <2> QED BY <2>1
<1>2. ASSUME NEW m \in Nat, m \in S
      PROVE  m + 1 \in S
  <2> SUFFICES ASSUME m + 1 <= n
               PROVE  \E p : Good(p, m + 1)
    OBVIOUS
  <2>1. PICK p : Good(p, m)
    BY <1>2
  <2> DEFINE q == [k \in 0..m + 1 |-> IF k = m + 1 THEN G[m + 1][p[m]] ELSE p[k]]
  <2>2. m + 1 \in 1..n /\ p[m] \in T /\ G[m + 1][p[m]] \in T
    BY <2>1
  <2>3. q \in [0..m + 1 -> T] /\ q[0] = a
    BY <2>1, <2>2
  <2>4. ASSUME NEW k \in 1..m + 1
        PROVE  q[k] = G[k][q[k - 1]]
    <3>1. k - 1 \in 0..m /\ q[k - 1] = p[k - 1]
      OBVIOUS
    <3>2. CASE k = m + 1
      BY <3>1, <3>2
    <3>3. CASE k # m + 1
      <4>1. k \in 1..m /\ q[k] = p[k]
        BY <3>3
      <4> QED BY <2>1, <3>1, <4>1
    <3> QED BY <3>2, <3>3
  <2> HIDE DEF q
  <2>5. Good(q, m + 1)
    BY <2>3, <2>4
  <2> QED BY <2>5
<1>3. n \in S
  BY <1>1, <1>2, Successors
<1> QED BY <1>3 DEF Continued

(* The states of the cutting, and those of the putting.                     *)
Puts == {Skip} \cup {Movable(k) : k \in Nat}
Cuts(Ops) == [begin : Nat \ {0}, chunks : Seq(Seq(Ops)), kept : Seq(Ops), plan : Seq(Puts)]
Putting(Ops) == [body : Seq(Ops), at : Nat \ {0}, ok : BOOLEAN]

NothingCut == [begin |-> 1, chunks |-> <<>>, kept |-> <<>>, plan |-> <<>>]

(* What an end of a chunk adds.                                            *)
Adds(body, n, s, e, t) ==
  LET m == Movable(n + Len(s.chunks) + 1)
  IN /\ t.begin = e + 1
     /\ t.chunks = Append(s.chunks, SubSeq(body, s.begin, e - 1))
     /\ IF e = Len(body) + 1
        THEN t.kept = s.kept /\ t.plan = Append(s.plan, m)
        ELSE /\ IsIterate(body[e])
             /\ t.kept = Append(s.kept, body[e])
             /\ t.plan = Append(Append(s.plan, m), Skip)

LEMMA CutAtAdds ==
  ASSUME NEW Ops, NEW body \in Seq(Ops), NEW n \in Nat, NEW s \in Cuts(Ops), NEW e \in 1..Len(body) + 1
  PROVE  LET t == CutAt(body, n, s, e)
         IN /\ t \in Cuts(Ops)
            /\ t = s \/ (s.begin # e /\ Adds(body, n, s, e, t))
            /\ s.begin # e /\ e = Len(body) + 1 => t # s
<1> DEFINE t == CutAt(body, n, s, e)
           m == Movable(n + Len(s.chunks) + 1)
           chunk == SubSeq(body, s.begin, e - 1)
<1>0. /\ s.begin \in Nat \ {0} /\ s.chunks \in Seq(Seq(Ops)) /\ s.kept \in Seq(Ops)
      /\ s.plan \in Seq(Puts) /\ Len(body) \in Nat
  BY DEF Cuts
<1>1. m \in Puts /\ Skip \in Puts
  <2>1. n + Len(s.chunks) + 1 \in Nat
    BY <1>0, LenProperties
  <2> QED BY <2>1 DEF Puts
<1>2. chunk \in Seq(Ops)
  <2>1. \A u \in s.begin..e - 1 : body[u] \in Ops
    BY <1>0
  <2> QED BY <1>0, <2>1, SubSeqProperties
<1>3. Append(s.chunks, chunk) \in Seq(Seq(Ops)) /\ Len(Append(s.chunks, chunk)) = Len(s.chunks) + 1
  BY <1>0, <1>2
<1>4. /\ Append(s.plan, m) \in Seq(Puts)
      /\ Append(Append(s.plan, m), Skip) \in Seq(Puts)
      /\ s.plan \o <<m>> = Append(s.plan, m)
      /\ s.plan \o <<m, Skip>> = Append(Append(s.plan, m), Skip)
  BY <1>0, <1>1
<1> HIDE DEF m, chunk
<1>5. CASE s.begin = e \/ ~(e > Len(body) \/ IsIterate(body[e]))
  <2>1. t = s
    BY <1>5 DEF CutAt
  <2> QED BY <1>0, <1>5, <2>1
<1>6. CASE ~(s.begin = e \/ ~(e > Len(body) \/ IsIterate(body[e])))
  <2>1. t = [begin |-> e + 1, chunks |-> Append(s.chunks, chunk),
             kept |-> IF e > Len(body) THEN s.kept ELSE Append(s.kept, body[e]),
             plan |-> s.plan \o (IF e > Len(body) THEN <<m>> ELSE <<m, Skip>>)]
    BY <1>6 DEF CutAt, m, chunk
  <2>2. e > Len(body) <=> e = Len(body) + 1
    BY <1>0
  <2> HIDE DEF t
  <2>3. Adds(body, n, s, e, t)
    BY <1>4, <1>6, <2>1, <2>2 DEF Adds, m, chunk
  <2>4. e <= Len(body) => Append(s.kept, body[e]) \in Seq(Ops)
    BY <1>0
  <2>5. t \in Cuts(Ops)
    BY <1>0, <1>3, <1>4, <2>1, <2>2, <2>4 DEF Cuts
  <2>6. t # s
    <3>1. t.chunks = Append(s.chunks, chunk)
      BY <2>1
    <3>2. Len(t.chunks) = Len(s.chunks) + 1 /\ Len(s.chunks) \in Nat
      BY <1>0, <1>3, <3>1, LenProperties
    <3> QED BY <3>2
  <2> QED BY <1>6, <2>3, <2>5, <2>6 DEF t
<1> QED BY <1>5, <1>6

(* The recursion of Cut.                                                   *)
LEMMA CutIs ==
  ASSUME NEW Ops, NEW body \in Seq(Ops), NEW n \in Nat
  PROVE  \E cut : /\ Cut(body, n) = cut[Len(body) + 1]
                  /\ cut[0] = NothingCut
                  /\ \A e \in 1..Len(body) + 1 : cut[e] = CutAt(body, n, cut[e - 1], e)
<1> DEFINE N == Len(body) + 1
           F(g) == [e \in 0..N |-> IF e = 0 THEN NothingCut ELSE CutAt(body, n, g[e - 1], e)]
           G == [k \in 1..N |-> [s \in Cuts(Ops) |-> CutAt(body, n, s, k)]]
<1>1. N \in Nat /\ NothingCut \in Cuts(Ops)
  BY DEF Cuts, NothingCut
<1>2. Continuing(N, Cuts(Ops), NothingCut, G)
  BY <1>1, CutAtAdds DEF Continuing
<1>3. PICK p : Continued(p, N, Cuts(Ops), NothingCut, G)
  BY <1>2, RecursionExists
<1>4. p = F(p)
  <2> USE DEF Continued
  <2>1. ASSUME NEW k \in 0..N PROVE p[k] = F(p)[k]
    <3>1. CASE k = 0
      BY <1>3, <3>1
    <3>2. CASE k # 0
      <4>1. k \in 1..N /\ k - 1 \in 0..N
        BY <1>1, <3>2
      <4> QED BY <1>3, <3>2, <4>1
    <3> QED BY <3>1, <3>2
  <2> QED BY <1>3, <2>1
<1> DEFINE q == CHOOSE g : g = F(g)
<1>5. q = F(q)
  BY <1>4
<1>6. Cut(body, n) = q[N]
  BY DEF Cut, NothingCut
<1> HIDE DEF q
<1>7. \A e \in 1..N : q[e] = CutAt(body, n, q[e - 1], e)
  BY <1>1, <1>5
<1>8. q[0] = NothingCut
  BY <1>1, <1>5
<1> QED BY <1>6, <1>7, <1>8

(* The recursion of Transferred.                                           *)
Known(c, plan, Ops) == \A k \in 1..Len(plan) : plan[k] = Skip \/ c[plan[k]] \in Seq(Ops)

LEMMA TransferKeeps ==
  ASSUME NEW Ops, NEW c, NEW s \in Putting(Ops), NEW t, t = Skip \/ c[t] \in Seq(Ops)
  PROVE  Transfer(c, s, t) \in Putting(Ops)
<1>0. /\ s.body \in Seq(Ops) /\ s.at \in Nat \ {0} /\ s.ok \in BOOLEAN
      /\ s = [body |-> s.body, at |-> s.at, ok |-> s.ok] /\ Len(s.body) \in Nat
  BY DEF Putting
<1>1. CASE s.at > Len(s.body) + 1
  <2>1. Transfer(c, s, t) = [body |-> s.body, at |-> s.at, ok |-> FALSE]
    BY <1>0, <1>1 DEF Transfer, Putting
  <2> QED BY <1>0, <2>1 DEF Putting
<1>2. CASE ~(s.at > Len(s.body) + 1) /\ t = Skip
  <2>1. Transfer(c, s, t) = [body |-> s.body, at |-> s.at + 1, ok |-> s.ok]
    BY <1>0, <1>2 DEF Transfer, Putting
  <2> QED BY <1>0, <2>1 DEF Putting
<1>3. CASE ~(s.at > Len(s.body) + 1) /\ t # Skip
  <2> DEFINE w == SubSeq(s.body, 1, s.at - 1) \o c[t] \o SubSeq(s.body, s.at, Len(s.body))
  <2>1. Transfer(c, s, t) = [body |-> w, at |-> s.at + Len(c[t]), ok |-> s.ok]
    BY <1>3 DEF Transfer
  <2>2. /\ \A u \in 1..s.at - 1 : s.body[u] \in Ops
        /\ \A u \in s.at..Len(s.body) : s.body[u] \in Ops
    BY <1>0, <1>3
  <2>3. SubSeq(s.body, 1, s.at - 1) \in Seq(Ops) /\ SubSeq(s.body, s.at, Len(s.body)) \in Seq(Ops)
    BY <1>0, <2>2, SubSeqProperties
  <2>4. w \in Seq(Ops) /\ Len(c[t]) \in Nat
    BY <1>3, <2>3
  <2> HIDE DEF w
  <2> QED BY <1>0, <2>1, <2>4 DEF Putting
<1> QED BY <1>1, <1>2, <1>3

Placed(c, L, plan, put) ==
  /\ Transferred(c, L, plan) = put[Len(plan)]
  /\ put[0] = [body |-> L, at |-> InsertPt(L), ok |-> TRUE]
  /\ \A k \in 1..Len(plan) : put[k] = Transfer(c, put[k - 1], plan[k])

LEMMA TransferredIs ==
  ASSUME NEW Ops, NEW c, NEW L \in Seq(Ops), NEW plan \in Seq(Puts), Known(c, plan, Ops)
  PROVE  \E put : Placed(c, L, plan, put)
<1> DEFINE N == Len(plan)
           first == [body |-> L, at |-> InsertPt(L), ok |-> TRUE]
           F(g) == [k \in 0..N |-> IF k = 0 THEN first ELSE Transfer(c, g[k - 1], plan[k])]
           G == [k \in 1..N |-> [s \in Putting(Ops) |-> Transfer(c, s, plan[k])]]
<1>1. N \in Nat
  OBVIOUS
<1>2. first \in Putting(Ops)
  <2>1. InsertPt(L) \in Nat \ {0}
    BY DEF InsertPt
  <2> QED BY <2>1 DEF Putting
<1>3. Continuing(N, Putting(Ops), first, G)
  <2>1. ASSUME NEW k \in 1..N PROVE G[k] \in [Putting(Ops) -> Putting(Ops)]
    <3>1. plan[k] = Skip \/ c[plan[k]] \in Seq(Ops)
      BY DEF Known
    <3> QED BY <3>1, TransferKeeps
  <2> HIDE DEF first, G, N
  <2> QED BY <1>1, <1>2, <2>1 DEF Continuing
<1>4. PICK p : Continued(p, N, Putting(Ops), first, G)
  BY <1>3, RecursionExists
<1>5. p = F(p)
  <2> USE DEF Continued
  <2>1. ASSUME NEW k \in 0..N PROVE p[k] = F(p)[k]
    <3>1. CASE k = 0
      BY <1>4, <3>1
    <3>2. CASE k # 0
      <4>1. k \in 1..N /\ k - 1 \in 0..N
        BY <1>1, <3>2
      <4> QED BY <1>4, <3>2, <4>1
    <3> QED BY <3>1, <3>2
  <2> QED BY <1>4, <2>1
<1> DEFINE q == CHOOSE g : g = F(g)
<1>6. q = F(q)
  BY <1>5
<1>7. Transferred(c, L, plan) = q[N]
  BY DEF Transferred
<1> HIDE DEF q
<1>8. \A k \in 1..N : q[k] = Transfer(c, q[k - 1], plan[k])
  <2> HIDE DEF first
  <2>1. \A k \in 1..N : k \in 0..N /\ k # 0
    BY <1>1
  <2> QED BY <1>6, <2>1
<1>9. q[0] = first
  <2> HIDE DEF first
  <2>1. 0 \in 0..N
    BY <1>1
  <2> QED BY <1>6, <2>1
<1> QED BY <1>7, <1>8, <1>9 DEF Placed

(* The body in front of b, and behind it the loops after the first j.        *)
Mixed(f, body, L, b, j) ==
  [k \in 1..(b - 1) + (Len(L) - j) |-> IF k < b THEN f[body[k]] ELSE L[k - b + 1 + j]]

AtPt(f, body, L, b, j) == [body |-> Mixed(f, body, L, b, j), at |-> b, ok |-> TRUE]

Become(Ops, f, body, L) == body \in Seq(Ops) /\ f \in [Ops -> Ops] /\ L \in Seq(Ops)

LEMMA MixedIsSeq ==
  ASSUME NEW Ops, NEW body, NEW f, NEW L, Become(Ops, f, body, L),
         NEW b \in 1..Len(body) + 1, NEW j \in 0..Len(L)
  PROVE  /\ Mixed(f, body, L, b, j) \in Seq(Ops)
         /\ Len(Mixed(f, body, L, b, j)) = (b - 1) + (Len(L) - j)
<1> USE DEF Become
<1>1. Len(L) \in Nat /\ Len(body) \in Nat /\ (b - 1) + (Len(L) - j) \in Nat
  OBVIOUS
<1>2. ASSUME NEW k \in 1..(b - 1) + (Len(L) - j)
      PROVE  (IF k < b THEN f[body[k]] ELSE L[k - b + 1 + j]) \in Ops
  <2>1. CASE k < b
    <3>1. k \in 1..Len(body)
      BY <1>1, <2>1
    <3> QED BY <2>1, <3>1
  <2>2. CASE ~(k < b)
    <3>1. k - b + 1 + j \in 1..Len(L)
      BY <1>1, <2>2
    <3> QED BY <2>2, <3>1
  <2> QED BY <2>1, <2>2
<1> DEFINE len == (b - 1) + (Len(L) - j)
<1>3. Mixed(f, body, L, b, j) \in [1..len -> Ops]
  BY <1>2 DEF Mixed
<1> HIDE DEF len
<1>4. Mixed(f, body, L, b, j) \in Seq(Ops) /\ Len(Mixed(f, body, L, b, j)) = len
  <2>1. len \in Nat
    BY <1>1 DEF len
  <2> QED BY <1>3, <2>1
<1> QED BY <1>4 DEF len

(* A movable puts its chunk where the chunk was.                            *)
LEMMA MovableBack ==
  ASSUME NEW Ops, NEW body, NEW f, NEW L, Become(Ops, f, body, L),
         NEW b \in 1..Len(body) + 1, NEW e \in b..Len(body) + 1, NEW j \in 0..Len(L),
         NEW c, NEW m, m # Skip, c[m] = Img(f, SubSeq(body, b, e - 1))
  PROVE  Transfer(c, AtPt(f, body, L, b, j), m) = AtPt(f, body, L, e, j)
<1>0. body \in Seq(Ops) /\ f \in [Ops -> Ops] /\ L \in Seq(Ops) /\ Len(L) \in Nat /\ Len(body) \in Nat
  BY LenProperties DEF Become
<1> DEFINE w == Mixed(f, body, L, b, j)
           len == (b - 1) + (Len(L) - j)
           front == SubSeq(w, 1, b - 1)
           back == SubSeq(w, b, Len(w))
<1>1. /\ w \in Seq(Ops) /\ Len(w) = len /\ len \in Nat /\ Len(L) \in Nat /\ Len(body) \in Nat
      /\ \A k \in 1..len : w[k] = IF k < b THEN f[body[k]] ELSE L[k - b + 1 + j]
  <2>1. w \in Seq(Ops) /\ Len(w) = len
    BY MixedIsSeq
  <2>2. \A k \in 1..len : w[k] = IF k < b THEN f[body[k]] ELSE L[k - b + 1 + j]
    BY DEF Mixed
  <2> QED BY <1>0, <2>1, <2>2
<1>2. c[m] \in Seq(Ops) /\ Len(c[m]) = e - b /\ \A k \in 1..e - b : c[m][k] = f[body[b + k - 1]]
  <2>1. \A u \in b..e - 1 : body[u] \in Ops
    BY <1>0
  <2>2. /\ SubSeq(body, b, e - 1) \in Seq(Ops) /\ Len(SubSeq(body, b, e - 1)) = e - b
        /\ \A k \in 1..e - b : SubSeq(body, b, e - 1)[k] = body[b + k - 1]
    <3>1. b \in Int /\ e - 1 \in Int /\ (e - 1) - b + 1 = e - b
      OBVIOUS
    <3> QED BY <2>1, <3>1, SubSeqProperties
  <2> QED BY <1>0, <2>1, <2>2 DEF Img
<1> HIDE DEF w
<1>3. /\ front \in Seq(Ops) /\ Len(front) = b - 1
      /\ \A k \in 1..b - 1 : front[k] = w[k]
  <2>1. \A u \in 1..b - 1 : w[u] \in Ops
    BY <1>1
  <2>2. b - 1 \in Int /\ (b - 1) - 1 + 1 = b - 1
    OBVIOUS
  <2> QED BY <2>1, <2>2, SubSeqProperties
<1>4. /\ back \in Seq(Ops) /\ Len(back) = Len(L) - j
      /\ \A k \in 1..Len(L) - j : back[k] = w[b + k - 1]
  <2>1. \A u \in b..len : w[u] \in Ops
    BY <1>1
  <2>2. b \in Int /\ len \in Int /\ len - b + 1 = Len(L) - j
        /\ (IF b <= len THEN len - b + 1 ELSE 0) = Len(L) - j
    BY <1>1
  <2> HIDE DEF len
  <2>3. /\ SubSeq(w, b, len) \in Seq(Ops) /\ Len(SubSeq(w, b, len)) = Len(L) - j
        /\ \A k \in 1..len - b + 1 : SubSeq(w, b, len)[k] = w[b + k - 1]
    BY <2>1, <2>2, SubSeqProperties
  <2> QED BY <1>1, <2>2, <2>3
<1> HIDE DEF front, back
<1>5. /\ front \o c[m] \in Seq(Ops) /\ Len(front \o c[m]) = e - 1
      /\ \A k \in 1..e - 1 : (front \o c[m])[k] = f[body[k]]
  <2>1. /\ front \o c[m] \in Seq(Ops) /\ Len(front \o c[m]) = (b - 1) + (e - b)
        /\ \A k \in 1..(b - 1) + (e - b) : (front \o c[m])[k] =
             IF k <= b - 1 THEN front[k] ELSE c[m][k - (b - 1)]
    <3> HIDE DEF front
    <3>1. front \in Seq(Ops) /\ c[m] \in Seq(Ops)
      BY <1>2, <1>3
    <3>2. /\ front \o c[m] \in Seq(Ops) /\ Len(front \o c[m]) = Len(front) + Len(c[m])
          /\ \A k \in 1..Len(front) + Len(c[m]) : (front \o c[m])[k] =
               IF k <= Len(front) THEN front[k] ELSE c[m][k - Len(front)]
      BY <3>1, ConcatProperties
    <3> QED BY <1>2, <1>3, <3>2
  <2>2. ASSUME NEW k \in 1..e - 1 PROVE (front \o c[m])[k] = f[body[k]]
    <3>1. CASE k <= b - 1
      <4>1. k \in 1..(b - 1) + (e - b) /\ k \in 1..b - 1 /\ k \in 1..len /\ k < b
        BY <1>1, <3>1
      <4> QED BY <1>1, <1>3, <2>1, <3>1, <4>1
    <3>2. CASE ~(k <= b - 1)
      <4>1. /\ k \in 1..(b - 1) + (e - b) /\ k - (b - 1) \in 1..e - b
            /\ b + (k - (b - 1)) - 1 = k
        BY <3>2
      <4> QED BY <1>2, <2>1, <3>2, <4>1
    <3> QED BY <3>1, <3>2
  <2>3. (b - 1) + (e - b) = e - 1
    OBVIOUS
  <2> DEFINE p == front \o c[m]
  <2>4. p \in Seq(Ops) /\ Len(p) = e - 1
    BY <2>1, <2>3
  <2>5. \A k \in 1..e - 1 : p[k] = f[body[k]]
    BY <2>2
  <2> HIDE DEF p
  <2>6. p \in Seq(Ops) /\ Len(p) = e - 1 /\ \A k \in 1..e - 1 : p[k] = f[body[k]]
    BY <2>4, <2>5
  <2> QED BY <2>6 DEF p
<1> DEFINE new == front \o c[m] \o back
           v == Mixed(f, body, L, e, j)
           lenv == (e - 1) + (Len(L) - j)
<1>6. /\ v \in Seq(Ops) /\ Len(v) = lenv /\ lenv \in Nat
      /\ \A k \in 1..lenv : v[k] = IF k < e THEN f[body[k]] ELSE L[k - e + 1 + j]
  <2>1. e \in 1..Len(body) + 1
    BY <1>0
  <2>2. v \in Seq(Ops) /\ Len(v) = lenv
    BY <2>1, MixedIsSeq
  <2>3. \A k \in 1..lenv : v[k] = IF k < e THEN f[body[k]] ELSE L[k - e + 1 + j]
    BY DEF Mixed
  <2> QED BY <1>0, <2>1, <2>2, <2>3
<1>7. new \in Seq(Ops) /\ Len(new) = lenv
      /\ \A k \in 1..lenv : new[k] = IF k <= e - 1 THEN (front \o c[m])[k] ELSE back[k - (e - 1)]
  <2> DEFINE before == front \o c[m]
  <2>1. before \in Seq(Ops) /\ Len(before) = e - 1 /\ back \in Seq(Ops) /\ Len(back) = Len(L) - j
    BY <1>4, <1>5
  <2>2. new = before \o back
    BY <1>2, <1>3, <1>4, ConcatAssociative
  <2> HIDE DEF before, new
  <2>3. /\ before \o back \in Seq(Ops) /\ Len(before \o back) = Len(before) + Len(back)
        /\ \A k \in 1..Len(before) + Len(back) : (before \o back)[k] =
             IF k <= Len(before) THEN before[k] ELSE back[k - Len(before)]
    BY <2>1, ConcatProperties
  <2> QED BY <2>1, <2>2, <2>3 DEF before
<1> HIDE DEF v, new
<1>8. ASSUME NEW k \in 1..lenv PROVE new[k] = v[k]
  <2>1. CASE k <= e - 1
    <3>1. k \in 1..e - 1 /\ k < e
      BY <2>1
    <3> QED BY <1>5, <1>6, <1>7, <2>1, <3>1
  <2>2. CASE ~(k <= e - 1)
    <3> DEFINE x == k - (e - 1)
               y == b + x - 1
    <3>1. x \in 1..Len(L) - j /\ y \in 1..len /\ ~(y < b) /\ ~(k < e) /\ y - b + 1 + j = k - e + 1 + j
      BY <1>1, <2>2
    <3>2. new[k] = back[x]
      BY <1>7, <2>2
    <3> HIDE DEF x
    <3>3. back[x] = w[y]
      BY <1>4, <3>1
    <3> HIDE DEF y
    <3>4. w[y] = L[y - b + 1 + j]
      BY <1>1, <3>1
    <3>5. v[k] = L[k - e + 1 + j]
      BY <1>6, <3>1
    <3> QED BY <3>1, <3>2, <3>3, <3>4, <3>5
  <2> QED BY <2>1, <2>2
<1>9. new = v
  BY <1>6, <1>7, <1>8, SeqEqual
<1>10. ~(b > Len(w) + 1) /\ b + Len(c[m]) = e
  BY <1>1, <1>2
<1> QED BY <1>9, <1>10 DEF Transfer, AtPt, w, new, v, front, back

(* A loop is stepped over where its iterate was.                            *)
LEMMA LoopSteppedOver ==
  ASSUME NEW Ops, NEW body, NEW f, NEW L, Become(Ops, f, body, L),
         NEW e \in 1..Len(body), NEW j \in Nat, NEW u \in 1..Len(L), u = j + 1, L[u] = f[body[e]], NEW c
  PROVE  Transfer(c, AtPt(f, body, L, e, j), Skip) = AtPt(f, body, L, e + 1, u)
<1> DEFINE w == Mixed(f, body, L, e, j)
           v == Mixed(f, body, L, e + 1, u)
           len == (e - 1) + (Len(L) - j)
<1>1. Len(L) \in Nat /\ Len(body) \in Nat /\ len \in Nat /\ len = ((e + 1) - 1) + (Len(L) - u)
  BY LenProperties DEF Become
<1>2. w \in Seq(Ops) /\ Len(w) = len
  <2>1. e \in 1..Len(body) + 1 /\ j \in 0..Len(L)
    BY <1>1
  <2> QED BY <2>1, MixedIsSeq
<1>3. w = v
  <2>1. ASSUME NEW k \in 1..len
        PROVE  (IF k < e THEN f[body[k]] ELSE L[k - e + 1 + j]) =
               (IF k < e + 1 THEN f[body[k]] ELSE L[k - (e + 1) + 1 + u])
    <3>1. CASE k < e
      BY <3>1
    <3>2. CASE k = e
      <4>1. k - e + 1 + j = u /\ k < e + 1 /\ ~(k < e)
        BY <3>2
      <4> QED BY <3>2, <4>1
    <3>3. CASE k > e
      <4>1. k - e + 1 + j = k - (e + 1) + 1 + u /\ ~(k < e + 1) /\ ~(k < e)
        BY <3>3
      <4> QED BY <4>1
    <3> QED BY <3>1, <3>2, <3>3
  <2> QED BY <1>1, <2>1 DEF Mixed
<1>4. ~(e > Len(w) + 1)
  BY <1>1, <1>2
<1> HIDE DEF w, v
<1>5. Transfer(c, [body |-> w, at |-> e, ok |-> TRUE], Skip) = [body |-> w, at |-> e + 1, ok |-> TRUE]
  BY <1>4 DEF Transfer
<1> QED BY <1>3, <1>5 DEF AtPt, w, v

(* What every step of the cutting keeps.                                    *)
CutInv(Ops, n, s, e) ==
  /\ s \in Cuts(Ops)
  /\ s.begin <= e + 1
  /\ \A u \in 1..Len(s.kept) : IsIterate(s.kept[u])
  /\ \A u \in 1..Len(s.plan) : s.plan[u] = Skip \/ \E k \in 1..Len(s.chunks) : s.plan[u] = Movable(n + k)

(* A step of the cutting only adds.                                         *)
Prefix(p, q) == Len(p) <= Len(q) /\ \A u \in 1..Len(p) : q[u] = p[u]
Grows(s, t) == Prefix(s.chunks, t.chunks) /\ Prefix(s.kept, t.kept) /\ Prefix(s.plan, t.plan)

LEMMA UpToNext == \A k \in Nat : \A u \in 1..k + 1 : u # k + 1 => u \in 1..k
OBVIOUS

LEMMA AppendPrefix ==
  ASSUME NEW S, NEW p \in Seq(S), NEW x \in S
  PROVE  Prefix(p, Append(p, x))
BY DEF Prefix

LEMMA AtPrefix ==
  ASSUME NEW S, NEW p \in Seq(S), NEW q \in Seq(S), Prefix(p, q), NEW u \in 1..Len(p)
  PROVE  u \in 1..Len(q) /\ q[u] = p[u]
BY LenProperties DEF Prefix

LEMMA PrefixTrans ==
  ASSUME NEW S, NEW p \in Seq(S), NEW q \in Seq(S), NEW r \in Seq(S), Prefix(p, q), Prefix(q, r)
  PROVE  Prefix(p, r)
<1>1. Len(p) \in Nat /\ Len(q) \in Nat /\ Len(r) \in Nat
  BY LenProperties
<1>2. \A u \in 1..Len(p) : u \in 1..Len(q)
  BY <1>1 DEF Prefix
<1> QED BY <1>1, <1>2 DEF Prefix

LEMMA AddsFacts ==
  ASSUME NEW Ops, NEW body \in Seq(Ops), NEW n \in Nat, NEW e \in 1..Len(body) + 1,
         NEW s, CutInv(Ops, n, s, e - 1), s.begin # e, NEW t \in Cuts(Ops), Adds(body, n, s, e, t)
  PROVE  CutInv(Ops, n, t, e) /\ Grows(s, t)
<1> DEFINE m == Movable(n + Len(s.chunks) + 1)
           chunk == SubSeq(body, s.begin, e - 1)
<1>0. /\ s.begin \in Nat \ {0} /\ s.chunks \in Seq(Seq(Ops)) /\ s.kept \in Seq(Ops) /\ s.plan \in Seq(Puts)
      /\ Len(body) \in Nat /\ Len(s.chunks) \in Nat /\ Len(s.kept) \in Nat /\ Len(s.plan) \in Nat
  BY LenProperties DEF CutInv, Cuts
<1>1. m \in Puts /\ Skip \in Puts /\ m = Movable(n + (Len(s.chunks) + 1))
  <2>1. n + Len(s.chunks) + 1 \in Nat /\ n + Len(s.chunks) + 1 = n + (Len(s.chunks) + 1)
    BY <1>0
  <2> QED BY <2>1 DEF Puts
<1>2. chunk \in Seq(Ops)
  <2>1. \A u \in s.begin..e - 1 : body[u] \in Ops
    BY <1>0
  <2> QED BY <1>0, <2>1, SubSeqProperties
<1> HIDE DEF m, chunk
<1>3. /\ t.chunks = Append(s.chunks, chunk) /\ t.begin = e + 1
      /\ Len(t.chunks) = Len(s.chunks) + 1 /\ Prefix(s.chunks, t.chunks)
  <2>1. t.chunks = Append(s.chunks, chunk) /\ t.begin = e + 1
    BY DEF Adds, chunk
  <2> QED BY <1>0, <1>2, <2>1, AppendPrefix, AppendProperties
<1>4. /\ Prefix(s.kept, t.kept)
      /\ \A u \in 1..Len(t.kept) : IsIterate(t.kept[u])
  <2>1. CASE e = Len(body) + 1
    BY <1>0, <2>1 DEF Adds, Prefix, CutInv
  <2>2. CASE e # Len(body) + 1
    <3>1. t.kept = Append(s.kept, body[e]) /\ IsIterate(body[e]) /\ body[e] \in Ops
      <4>1. e \in 1..Len(body)
        BY <1>0, <2>2
      <4>2. t.kept = Append(s.kept, body[e]) /\ IsIterate(body[e])
        BY <2>2 DEF Adds
      <4> QED BY <4>1, <4>2, ElementOfSeq
    <3>2. Len(t.kept) = Len(s.kept) + 1 /\ t.kept[Len(s.kept) + 1] = body[e]
          /\ \A u \in 1..Len(s.kept) : t.kept[u] = s.kept[u]
      BY <1>0, <3>1, AppendProperties
    <3>3. \A u \in 1..Len(s.kept) + 1 : u # Len(s.kept) + 1 => u \in 1..Len(s.kept)
      BY <1>0, UpToNext
    <3> QED BY <1>0, <3>1, <3>2, <3>3 DEF Prefix, CutInv
  <2> QED BY <2>1, <2>2
<1>5. /\ Prefix(s.plan, t.plan)
      /\ \A u \in 1..Len(t.plan) : t.plan[u] = Skip \/ \E k \in 1..Len(t.chunks) : t.plan[u] = Movable(n + k)
  <2> DEFINE p == Append(s.plan, m)
  <2>1. p \in Seq(Puts) /\ Len(p) = Len(s.plan) + 1 /\ p[Len(s.plan) + 1] = m
        /\ \A u \in 1..Len(s.plan) : p[u] = s.plan[u]
    BY <1>0, <1>1, AppendProperties
  <2> HIDE DEF p
  <2>2. \A u \in 1..Len(s.plan) + 1 : u # Len(s.plan) + 1 => u \in 1..Len(s.plan)
    BY <1>0, UpToNext
  <2>3. \E k \in 1..Len(t.chunks) : m = Movable(n + k)
    <3>1. Len(s.chunks) + 1 \in 1..Len(t.chunks)
      BY <1>0, <1>3
    <3> QED BY <1>1, <3>1
  <2>4. \A k \in 1..Len(s.chunks) : k \in 1..Len(t.chunks)
    BY <1>0, <1>3
  <2>5. \A u \in 1..Len(p) : p[u] = Skip \/ \E k \in 1..Len(t.chunks) : p[u] = Movable(n + k)
    <3>1. ASSUME NEW u \in 1..Len(s.plan)
          PROVE  p[u] = Skip \/ \E k \in 1..Len(t.chunks) : p[u] = Movable(n + k)
      BY <2>1, <2>4 DEF CutInv
    <3> QED BY <2>1, <2>2, <2>3, <3>1
  <2>6. Prefix(s.plan, p)
    BY <1>0, <2>1 DEF Prefix
  <2>7. CASE e = Len(body) + 1
    <3>1. t.plan = p
      BY <2>7 DEF Adds, p, m
    <3> QED BY <2>5, <2>6, <3>1
  <2>8. CASE e # Len(body) + 1
    <3>1. t.plan = Append(p, Skip)
      BY <2>8 DEF Adds, p, m
    <3>2. t.plan \in Seq(Puts) /\ Len(t.plan) = Len(p) + 1 /\ t.plan[Len(p) + 1] = Skip
          /\ (\A u \in 1..Len(p) : t.plan[u] = p[u]) /\ Prefix(p, t.plan)
      BY <1>1, <2>1, <3>1, AppendProperties, AppendPrefix
    <3>3. Prefix(s.plan, t.plan)
      BY <1>0, <2>1, <2>6, <3>2, PrefixTrans
    <3>4. \A u \in 1..Len(p) + 1 : u # Len(p) + 1 => u \in 1..Len(p)
      <4>1. Len(p) \in Nat
        BY <2>1, LenProperties
      <4> QED BY <4>1, UpToNext
    <3> QED BY <2>5, <3>2, <3>3, <3>4
  <2> QED BY <2>7, <2>8
<1>6. t.begin <= e + 1
  BY <1>3
<1> QED BY <1>3, <1>4, <1>5, <1>6 DEF CutInv, Grows

LEMMA CutTypes ==
  ASSUME NEW Ops, NEW s \in Cuts(Ops)
  PROVE  /\ s.begin \in Nat \ {0} /\ s.chunks \in Seq(Seq(Ops)) /\ s.kept \in Seq(Ops) /\ s.plan \in Seq(Puts)
         /\ Len(s.chunks) \in Nat /\ Len(s.kept) \in Nat /\ Len(s.plan) \in Nat
BY LenProperties DEF Cuts

(* The cutting along a body; the last one is the whole cut.                  *)
Cutting(Ops, body, n, cut) ==
  /\ cut[0] = NothingCut
  /\ \A e \in 0..Len(body) + 1 : CutInv(Ops, n, cut[e], e)
  /\ \A e \in 1..Len(body) + 1 :
       \/ cut[e] = cut[e - 1]
       \/ cut[e - 1].begin # e /\ Adds(body, n, cut[e - 1], e, cut[e])
  /\ \A e \in 0..Len(body) + 1 : Grows(cut[e], cut[Len(body) + 1])
  /\ cut[Len(body)].begin # Len(body) + 1 => cut[Len(body) + 1] # cut[Len(body)]

LEMMA CuttingExists ==
  ASSUME NEW Ops, NEW body \in Seq(Ops), NEW n \in Nat
  PROVE  \E cut : Cutting(Ops, body, n, cut) /\ Cut(body, n) = cut[Len(body) + 1]
<1> DEFINE N == Len(body) + 1
<1>0. Len(body) \in Nat /\ N \in Nat /\ N - 1 = Len(body)
  OBVIOUS
<1>1. PICK cut : /\ Cut(body, n) = cut[N]
                 /\ cut[0] = NothingCut
                 /\ \A e \in 1..N : cut[e] = CutAt(body, n, cut[e - 1], e)
  BY CutIs
<1> HIDE DEF N
<1>2. ASSUME NEW e \in 1..N, CutInv(Ops, n, cut[e - 1], e - 1)
      PROVE  /\ CutInv(Ops, n, cut[e], e)
             /\ Grows(cut[e - 1], cut[e])
             /\ \/ cut[e] = cut[e - 1]
                \/ cut[e - 1].begin # e /\ Adds(body, n, cut[e - 1], e, cut[e])
             /\ e = N /\ cut[e - 1].begin # e => cut[e] # cut[e - 1]
  <2> DEFINE s == cut[e - 1]
             t == cut[e]
  <2>1. s \in Cuts(Ops) /\ t = CutAt(body, n, s, e) /\ CutInv(Ops, n, s, e - 1)
    BY <1>1, <1>2 DEF CutInv
  <2> HIDE DEF s, t
  <2>2. /\ t \in Cuts(Ops)
        /\ t = s \/ (s.begin # e /\ Adds(body, n, s, e, t))
        /\ s.begin # e /\ e = N => t # s
    BY <2>1, CutAtAdds DEF N
  <2>3. CASE t = s
    <3>1. Grows(s, s)
      BY <2>1, CutTypes DEF Grows, Prefix
    <3>2. s.begin <= e + 1
      BY <2>1, CutTypes DEF CutInv
    <3>3. CutInv(Ops, n, s, e)
      BY <2>1, <3>2 DEF CutInv
    <3> QED BY <2>2, <2>3, <3>1, <3>3 DEF s, t
  <2>4. CASE s.begin # e /\ Adds(body, n, s, e, t)
    <3>1. CutInv(Ops, n, t, e) /\ Grows(s, t)
      BY <2>1, <2>2, <2>4, AddsFacts DEF N
    <3> QED BY <2>2, <2>4, <3>1 DEF s, t
  <2> QED BY <2>2, <2>3, <2>4
<1>3. \A e \in 0..N : CutInv(Ops, n, cut[e], e)
  <2> DEFINE S == {m \in Nat : m <= N => CutInv(Ops, n, cut[m], m)}
  <2>1. 0 \in S
    <3>1. CutInv(Ops, n, NothingCut, 0)
      BY DEF CutInv, NothingCut, Cuts
    <3> QED BY <1>1, <3>1
  <2>2. ASSUME NEW m \in Nat, m \in S PROVE m + 1 \in S
    <3>1. m + 1 <= N => m + 1 \in 1..N /\ (m + 1) - 1 = m /\ m <= N
      BY <1>0
    <3> QED BY <1>2, <2>2, <3>1
  <2>3. Nat \subseteq S
    <3> HIDE DEF S
    <3> QED BY <2>1, <2>2, Successors
  <2> QED BY <1>0, <2>3
<1>4. \A e \in 0..N : Grows(cut[e], cut[N])
  <2> DEFINE S == {m \in Nat : m <= N => Grows(cut[N - m], cut[N])}
  <2>1. 0 \in S
    <3>1. cut[N] \in Cuts(Ops) /\ N - 0 = N
      BY <1>0, <1>3 DEF CutInv
    <3>2. Grows(cut[N], cut[N])
      BY <3>1, CutTypes DEF Grows, Prefix
    <3> QED BY <3>1, <3>2
  <2>2. ASSUME NEW m \in Nat, m \in S PROVE m + 1 \in S
    <3> SUFFICES ASSUME m + 1 <= N PROVE Grows(cut[N - (m + 1)], cut[N])
      OBVIOUS
    <3> DEFINE d == N - m
    <3>1. d \in 1..N /\ d - 1 = N - (m + 1) /\ d - 1 \in 0..N /\ d \in 0..N /\ N \in 0..N /\ m <= N
      BY <1>0
    <3>2. Grows(cut[d], cut[N])
      BY <2>2, <3>1
    <3> HIDE DEF d
    <3>3. Grows(cut[d - 1], cut[d])
      BY <1>2, <1>3, <3>1
    <3>4. cut[d - 1] \in Cuts(Ops) /\ cut[d] \in Cuts(Ops) /\ cut[N] \in Cuts(Ops)
      BY <1>3, <3>1 DEF CutInv
    <3>5. Grows(cut[d - 1], cut[N])
      <4>1. Prefix(cut[d - 1].chunks, cut[N].chunks)
        BY <3>2, <3>3, <3>4, CutTypes, PrefixTrans DEF Grows
      <4>2. Prefix(cut[d - 1].kept, cut[N].kept)
        BY <3>2, <3>3, <3>4, CutTypes, PrefixTrans DEF Grows
      <4>3. Prefix(cut[d - 1].plan, cut[N].plan)
        BY <3>2, <3>3, <3>4, CutTypes, PrefixTrans DEF Grows
      <4> QED BY <4>1, <4>2, <4>3 DEF Grows
    <3> QED BY <3>1, <3>5
  <2>3. Nat \subseteq S
    <3> HIDE DEF S
    <3> QED BY <2>1, <2>2, Successors
  <2>4. \A e \in 0..N : N - e \in Nat /\ N - e <= N /\ N - (N - e) = e
    BY <1>0
  <2> QED BY <2>3, <2>4
<1>5. \A e \in 1..N : e - 1 \in 0..N
  BY <1>0
<1>6. N \in 1..N
  BY <1>0
<1>7. Cutting(Ops, body, n, cut)
  <2>1. /\ cut[0] = NothingCut
        /\ \A e \in 0..N : CutInv(Ops, n, cut[e], e)
        /\ \A e \in 1..N : \/ cut[e] = cut[e - 1]
                           \/ cut[e - 1].begin # e /\ Adds(body, n, cut[e - 1], e, cut[e])
        /\ \A e \in 0..N : Grows(cut[e], cut[N])
        /\ cut[N - 1].begin # N => cut[N] # cut[N - 1]
    BY <1>1, <1>2, <1>3, <1>4, <1>5, <1>6
  <2> QED BY <1>0, <2>1 DEF Cutting, N
<1> QED BY <1>1, <1>7 DEF N

(* The loops where the iterates were, and the chunks in the movables: all    *)
(* that a step of the argument needs.                                       *)
Ready(Ops, body, n, f, c, cut, L, put) ==
  LET last == cut[Len(body) + 1]
  IN /\ Cutting(Ops, body, n, cut)
     /\ L \in Seq(Ops) /\ Len(L) = Len(last.kept)
     /\ \A u \in 1..Len(last.kept) : L[u] = f[last.kept[u]]
     /\ \A k \in 1..Len(last.chunks) : c[Movable(n + k)] = Img(f, last.chunks[k])
     /\ \A k \in 1..Len(last.plan) : put[k] = Transfer(c, put[k - 1], last.plan[k])

(* What a step of the cutting plans puts the body back one chunk further.    *)
LEMMA ChunkBack ==
  ASSUME NEW Ops, NEW body \in Seq(Ops), NEW n \in Nat, NEW f \in [Ops -> Ops],
         NEW c, NEW cut, NEW L, NEW put, Ready(Ops, body, n, f, c, cut, L, put),
         NEW e \in 1..Len(body) + 1, NEW d, d = e - 1,
         cut[d].begin # e, Adds(body, n, cut[d], e, cut[e]),
         put[Len(cut[d].plan)] = AtPt(f, body, L, cut[d].begin, Len(cut[d].kept))
  PROVE  put[Len(cut[e].plan)] =
           IF e = Len(body) + 1 THEN AtPt(f, body, L, e, Len(cut[e].kept))
           ELSE AtPt(f, body, L, e + 1, Len(cut[e].kept))
<1> DEFINE s == cut[d]
           t == cut[e]
           last == cut[Len(body) + 1]
           m == Movable(n + Len(s.chunks) + 1)
           q == Len(s.plan)
           j == Len(s.kept)
           chunk == SubSeq(body, s.begin, e - 1)
<1>0. Len(body) \in Nat /\ e - 1 \in 0..Len(body) + 1 /\ e \in 0..Len(body) + 1 /\ Len(body) + 1 \in 0..Len(body) + 1
  BY LenProperties
<1>1. /\ CutInv(Ops, n, s, e - 1) /\ Adds(body, n, s, e, t) /\ s.begin # e
      /\ Grows(s, last) /\ Grows(t, last)
      /\ s \in Cuts(Ops) /\ t \in Cuts(Ops) /\ last \in Cuts(Ops)
      /\ s.begin <= e
      /\ put[q] = AtPt(f, body, L, s.begin, j)
  <2>1. CutInv(Ops, n, s, e - 1) /\ CutInv(Ops, n, t, e) /\ CutInv(Ops, n, last, Len(body) + 1)
    BY <1>0 DEF Ready, Cutting
  <2>2. Grows(s, last) /\ Grows(t, last)
    BY <1>0 DEF Ready, Cutting
  <2>3. s.begin <= (e - 1) + 1 /\ (e - 1) + 1 = e
    BY <2>1 DEF CutInv
  <2>4. s \in Cuts(Ops) /\ t \in Cuts(Ops) /\ last \in Cuts(Ops)
    BY <2>1 DEF CutInv
  <2> QED BY <2>1, <2>2, <2>3, <2>4
<1>2. /\ L \in Seq(Ops) /\ Len(L) = Len(last.kept)
      /\ \A u \in 1..Len(last.kept) : L[u] = f[last.kept[u]]
      /\ \A k \in 1..Len(last.chunks) : c[Movable(n + k)] = Img(f, last.chunks[k])
      /\ \A k \in 1..Len(last.plan) : put[k] = Transfer(c, put[k - 1], last.plan[k])
  BY DEF Ready
<1> HIDE DEF s, t, last
<1>3. /\ s.begin \in Nat \ {0} /\ s.chunks \in Seq(Seq(Ops)) /\ s.kept \in Seq(Ops) /\ s.plan \in Seq(Puts)
      /\ q \in Nat /\ j \in Nat /\ Len(s.chunks) \in Nat
      /\ Len(t.plan) \in Nat /\ Len(t.kept) \in Nat /\ Len(t.chunks) \in Nat
      /\ Len(last.plan) \in Nat /\ Len(last.kept) \in Nat /\ Len(last.chunks) \in Nat
  BY <1>1, CutTypes
<1>a. t.chunks \in Seq(Seq(Ops)) /\ last.chunks \in Seq(Seq(Ops)) /\ Prefix(t.chunks, last.chunks)
  BY <1>1, CutTypes DEF Grows
<1>b. t.kept \in Seq(Ops) /\ last.kept \in Seq(Ops) /\ Prefix(t.kept, last.kept)
  BY <1>1, CutTypes DEF Grows
<1>c. t.plan \in Seq(Puts) /\ last.plan \in Seq(Puts) /\ Prefix(t.plan, last.plan)
  BY <1>1, CutTypes DEF Grows
<1>4. s.begin \in 1..Len(body) + 1 /\ e \in s.begin..Len(body) + 1 /\ j \in 0..Len(L)
  BY <1>0, <1>1, <1>2, <1>3 DEF Grows, Prefix
<1>5. m # Skip /\ m \in Puts /\ Skip \in Puts /\ m = Movable(n + (Len(s.chunks) + 1))
  <2>1. n + Len(s.chunks) + 1 \in Nat /\ n + Len(s.chunks) + 1 = n + (Len(s.chunks) + 1)
    BY <1>3
  <2> QED BY <2>1 DEF Puts, Movable, Skip
<1>6. c[m] = Img(f, chunk)
  <2>1. chunk \in Seq(Ops)
    <3>1. \A u \in s.begin..e - 1 : body[u] \in Ops
      BY <1>0, <1>3
    <3> QED BY <1>0, <1>3, <3>1, SubSeqProperties
  <2> HIDE DEF chunk
  <2>2. t.chunks = Append(s.chunks, chunk)
    BY <1>1 DEF Adds, chunk
  <2>3. Len(t.chunks) = Len(s.chunks) + 1 /\ t.chunks[Len(s.chunks) + 1] = chunk
    BY <1>3, <2>1, <2>2, AppendProperties
  <2>4. Len(s.chunks) + 1 \in 1..Len(t.chunks)
    BY <1>3, <2>3
  <2>5. Len(s.chunks) + 1 \in 1..Len(last.chunks) /\ last.chunks[Len(s.chunks) + 1] = chunk
    <3> DEFINE u == Len(s.chunks) + 1
    <3>1. u \in 1..Len(t.chunks) /\ t.chunks[u] = chunk
      BY <2>3, <2>4
    <3> HIDE DEF u
    <3>2. u \in 1..Len(last.chunks) /\ last.chunks[u] = chunk
      BY <1>a, <3>1, AtPrefix
    <3> QED BY <3>2 DEF u
  <2> QED BY <1>2, <1>5, <2>5
<1> HIDE DEF m, chunk
<1>7. /\ Len(t.plan) >= q + 1 /\ t.plan[q + 1] = m
      /\ e = Len(body) + 1 => Len(t.plan) = q + 1
      /\ e # Len(body) + 1 => Len(t.plan) = q + 2 /\ t.plan[q + 2] = Skip
  <2> DEFINE p == Append(s.plan, m)
  <2>1. p \in Seq(Puts) /\ Len(p) = q + 1 /\ p[q + 1] = m
    BY <1>3, <1>5, AppendProperties
  <2> HIDE DEF p, q
  <2>2. CASE e = Len(body) + 1
    <3>1. t.plan = p
      BY <1>1, <2>2 DEF Adds, p, m
    <3> QED BY <1>3, <2>1, <2>2, <3>1
  <2>3. CASE e # Len(body) + 1
    <3>1. t.plan = Append(p, Skip)
      BY <1>1, <2>3 DEF Adds, p, m
    <3>2. Len(t.plan) = Len(p) + 1 /\ t.plan[Len(p) + 1] = Skip /\ \A u \in 1..Len(p) : t.plan[u] = p[u]
      BY <1>5, <2>1, <3>1, AppendProperties
    <3>3. q + 1 \in 1..Len(p) /\ (q + 1) + 1 = q + 2
      BY <1>3, <2>1
    <3> QED BY <1>3, <2>1, <2>3, <3>2, <3>3
  <2> QED BY <2>2, <2>3
<1>8. put[q + 1] = AtPt(f, body, L, e, j)
  <2>1. q + 1 \in 1..Len(t.plan)
    BY <1>3, <1>7
  <2>2. q + 1 \in 1..Len(last.plan) /\ last.plan[q + 1] = m /\ (q + 1) - 1 = q
    <3>1. t.plan[q + 1] = m
      BY <1>7
    <3>2. q + 1 \in 1..Len(last.plan) /\ last.plan[q + 1] = m
      <4> HIDE DEF q
      <4> QED BY <1>c, <2>1, <3>1, AtPrefix
    <3> QED BY <1>3, <3>2
  <2>3. put[q + 1] = Transfer(c, AtPt(f, body, L, s.begin, j), m)
    BY <1>1, <1>2, <2>2
  <2>4. Become(Ops, f, body, L)
    BY <1>2 DEF Become
  <2>5. c[m] = Img(f, SubSeq(body, s.begin, e - 1))
    BY <1>6 DEF chunk
  <2>6. Transfer(c, AtPt(f, body, L, s.begin, j), m) = AtPt(f, body, L, e, j)
    <3> HIDE DEF j
    <3> QED BY <1>4, <1>5, <2>4, <2>5, MovableBack
  <2> QED BY <2>3, <2>6
<1>9. CASE e = Len(body) + 1
  <2>1. t.kept = s.kept
    BY <1>1, <1>9 DEF Adds
  <2> QED BY <1>7, <1>8, <1>9, <2>1 DEF t
<1>10. CASE e # Len(body) + 1
  <2>1. t.kept = Append(s.kept, body[e]) /\ e \in 1..Len(body)
    <3>1. e \in 1..Len(body)
      BY <1>0, <1>10
    <3> QED BY <1>1, <1>10, <3>1 DEF Adds
  <2>2. body[e] \in Ops
    BY <2>1
  <2>3. Len(t.kept) = j + 1 /\ t.kept[j + 1] = body[e]
    BY <1>3, <2>1, <2>2, AppendProperties
  <2>4. j + 1 \in 1..Len(last.kept) /\ last.kept[j + 1] = body[e]
    <3>1. j + 1 \in 1..Len(t.kept)
      BY <1>3, <2>3
    <3> HIDE DEF j
    <3> QED BY <1>b, <2>3, <3>1, AtPrefix
  <2>5. L[j + 1] = f[body[e]] /\ j \in 0..Len(L) - 1
    <3> HIDE DEF j
    <3>1. L[j + 1] = f[body[e]]
      BY <1>2, <2>4
    <3>2. j \in 0..Len(L) - 1
      BY <1>2, <1>3, <2>4
    <3> QED BY <3>1, <3>2
  <2>6. q + 2 \in 1..Len(last.plan) /\ last.plan[q + 2] = Skip /\ (q + 2) - 1 = q + 1
    <3>1. q + 2 \in 1..Len(t.plan)
      BY <1>3, <1>7, <1>10
    <3>2. t.plan[q + 2] = Skip
      BY <1>7, <1>10
    <3>3. q + 2 \in 1..Len(last.plan) /\ last.plan[q + 2] = Skip
      <4> HIDE DEF q
      <4> QED BY <1>c, <3>1, <3>2, AtPrefix
    <3> QED BY <1>3, <3>3
  <2>7. put[q + 2] = Transfer(c, AtPt(f, body, L, e, j), Skip)
    BY <1>2, <1>8, <2>6
  <2>8. put[q + 2] = AtPt(f, body, L, e + 1, j + 1)
    <3>1. Transfer(c, AtPt(f, body, L, e, j), Skip) = AtPt(f, body, L, e + 1, j + 1)
      <4> HIDE DEF q, j
      <4> DEFINE u == j + 1
      <4>0. Become(Ops, f, body, L)
        BY <1>2 DEF Become
      <4>1. e \in 1..Len(body) /\ j \in Nat /\ u \in 1..Len(L) /\ u = j + 1 /\ L[u] = f[body[e]]
        BY <1>2, <2>1, <2>5
      <4> HIDE DEF u
      <4>2. Transfer(c, AtPt(f, body, L, e, j), Skip) = AtPt(f, body, L, e + 1, u)
        BY <4>0, <4>1, LoopSteppedOver
      <4> QED BY <4>2 DEF u
    <3> QED BY <2>7, <3>1
  <2> QED BY <1>7, <1>10, <2>3, <2>8 DEF t
<1> QED BY <1>9, <1>10

(* What is put back if every chunk is in its movable and every iterate has   *)
(* become a loop.                                                          *)
LEMMA BodyBack ==
  ASSUME NEW Ops, NEW body \in Seq(Ops), NEW n \in Nat, NEW f \in [Ops -> Ops],
         \A op \in Ops : IsIterate(op) => IsLoop(f[op]), NEW c,
         \A k \in 1..Len(Cut(body, n).chunks) : c[Movable(n + k)] = Img(f, Cut(body, n).chunks[k])
  PROVE  LET cut == Cut(body, n)
             moved == Transferred(c, Img(f, cut.kept), cut.plan)
         IN moved.ok = TRUE /\ moved.body = Img(f, body)
<1>1. PICK cut : Cutting(Ops, body, n, cut) /\ Cut(body, n) = cut[Len(body) + 1]
  BY CuttingExists
<1> DEFINE N == Len(body)
           last == cut[N + 1]
           L == Img(f, last.kept)
<1>0. N \in Nat /\ N + 1 \in 0..N + 1 /\ N \in 0..N + 1
  OBVIOUS
<1>2. CutInv(Ops, n, last, N + 1) /\ last \in Cuts(Ops) /\ Cut(body, n) = last
  BY <1>0, <1>1 DEF Cutting, CutInv
<1>3. \A k \in 1..Len(last.chunks) : c[Movable(n + k)] = Img(f, last.chunks[k])
  BY <1>2
<1> HIDE DEF last
<1>4. /\ last.chunks \in Seq(Seq(Ops)) /\ last.kept \in Seq(Ops) /\ last.plan \in Seq(Puts)
      /\ Len(last.chunks) \in Nat /\ Len(last.kept) \in Nat
  BY <1>2, CutTypes
<1>5. L \in Seq(Ops) /\ Len(L) = Len(last.kept) /\ \A u \in 1..Len(last.kept) : L[u] = f[last.kept[u]]
  <2> DEFINE K == last.kept
  <2>1. K \in Seq(Ops) /\ Len(K) \in Nat /\ DOMAIN K = 1..Len(K) /\ \A u \in 1..Len(K) : K[u] \in Ops
    BY <1>4, LenProperties
  <2> HIDE DEF K
  <2>2. Img(f, K) \in [1..Len(K) -> Ops] /\ \A u \in 1..Len(K) : Img(f, K)[u] = f[K[u]]
    BY <2>1 DEF Img
  <2>3. Img(f, K) \in Seq(Ops) /\ Len(Img(f, K)) = Len(K)
    BY <2>1, <2>2
  <2> QED BY <2>2, <2>3 DEF K
<1>6. InsertPt(L) = 1
  <2>1. CASE L = <<>>
    BY <2>1 DEF InsertPt
  <2>2. CASE L # <<>>
    <3>1. 1 \in 1..Len(last.kept) /\ last.kept[1] \in Ops
      BY <1>4, <1>5, <2>2, EmptySeq
    <3>2. IsLoop(L[1])
      BY <1>2, <1>5, <3>1 DEF CutInv
    <3> QED BY <2>2, <3>2 DEF InsertPt
  <2> QED BY <2>1, <2>2
<1>7. Known(c, last.plan, Ops)
  <2>1. ASSUME NEW k \in 1..Len(last.plan), last.plan[k] # Skip
        PROVE  c[last.plan[k]] \in Seq(Ops)
    <3>1. PICK u \in 1..Len(last.chunks) : last.plan[k] = Movable(n + u)
      BY <1>2, <2>1 DEF CutInv
    <3>2. last.chunks[u] \in Seq(Ops)
      BY <1>4, <3>1
    <3>3. Img(f, last.chunks[u]) \in Seq(Ops)
      BY <3>2 DEF Img
    <3> QED BY <1>3, <3>1, <3>3
  <2> QED BY <2>1 DEF Known
<1> HIDE DEF L
<1>a. PICK put : Placed(c, L, last.plan, put)
  BY <1>4, <1>5, <1>7, TransferredIs
<1>8. /\ Transferred(c, L, last.plan) = put[Len(last.plan)]
      /\ put[0] = [body |-> L, at |-> InsertPt(L), ok |-> TRUE]
      /\ \A k \in 1..Len(last.plan) : put[k] = Transfer(c, put[k - 1], last.plan[k])
  BY <1>a DEF Placed
<1>9. Ready(Ops, body, n, f, c, cut, L, put)
  BY <1>1, <1>3, <1>5, <1>8 DEF Ready, last
<1> DEFINE J(e) == put[Len(cut[e].plan)] = AtPt(f, body, L, cut[e].begin, Len(cut[e].kept))
           S == {e \in Nat : e <= N => J(e)}
<1>10. 0 \in S
  <2>1. cut[0].begin = 1 /\ cut[0].plan = <<>> /\ cut[0].kept = <<>>
    BY <1>1 DEF Cutting, NothingCut
  <2>2. Mixed(f, body, L, 1, 0) = L
    <3>1. 1 \in 1..Len(body) + 1 /\ 0 \in 0..Len(L)
      BY <1>0, <1>4, <1>5
    <3>2. Mixed(f, body, L, 1, 0) \in Seq(Ops) /\ Len(Mixed(f, body, L, 1, 0)) = Len(L)
      <4>1. Become(Ops, f, body, L)
        BY <1>5 DEF Become
      <4> QED BY <1>4, <1>5, <3>1, <4>1, MixedIsSeq
    <3>3. \A k \in 1..Len(L) : Mixed(f, body, L, 1, 0)[k] = L[k]
      BY <1>4, <1>5 DEF Mixed
    <3> QED BY <1>5, <3>2, <3>3, SeqEqual
  <2>3. J(0)
    BY <1>6, <1>8, <2>1, <2>2 DEF AtPt
  <2> QED BY <2>3
<1>11. ASSUME NEW d \in Nat, d \in S
       PROVE  d + 1 \in S
  <2> SUFFICES ASSUME d + 1 <= N PROVE J(d + 1)
    OBVIOUS
  <2> DEFINE e == d + 1
  <2>1. e \in 1..N + 1 /\ e - 1 = d /\ e # N + 1 /\ d <= N
    BY <1>0
  <2>2. J(d)
    BY <1>11, <2>1
  <2> HIDE DEF e
  <2>3. CASE cut[e] = cut[e - 1]
    BY <2>1, <2>2, <2>3 DEF e
  <2>4. CASE cut[e - 1].begin # e /\ Adds(body, n, cut[e - 1], e, cut[e])
    <3>1. put[Len(cut[e].plan)] = AtPt(f, body, L, e + 1, Len(cut[e].kept))
      <4>1. /\ put[Len(cut[d].plan)] = AtPt(f, body, L, cut[d].begin, Len(cut[d].kept))
            /\ cut[d].begin # e /\ Adds(body, n, cut[d], e, cut[e]) /\ d = e - 1
        BY <2>1, <2>2, <2>4
      <4>2. put[Len(cut[e].plan)] =
              IF e = Len(body) + 1 THEN AtPt(f, body, L, e, Len(cut[e].kept))
              ELSE AtPt(f, body, L, e + 1, Len(cut[e].kept))
        BY <1>9, <2>1, <4>1, ChunkBack
      <4> QED BY <2>1, <4>2
    <3>2. cut[e].begin = e + 1
      BY <2>4 DEF Adds
    <3> QED BY <3>1, <3>2 DEF e
  <2> QED BY <1>1, <2>1, <2>3, <2>4 DEF Cutting
<1>12. J(N)
  <2>1. Nat \subseteq S
    <3> HIDE DEF S
    <3> QED BY <1>10, <1>11, Successors
  <2> QED BY <1>0, <2>1
<1>13. put[Len(last.plan)] = AtPt(f, body, L, N + 1, Len(last.kept))
  <2> DEFINE e == N + 1
  <2>1. e \in 1..N + 1 /\ e - 1 = N
    BY <1>0
  <2> HIDE DEF e, N
  <2>2. CASE cut[e] = cut[e - 1]
    <3>1. cut[e - 1].begin = e
      BY <1>1, <2>1, <2>2 DEF Cutting, N, e
    <3> QED BY <1>12, <2>1, <2>2, <3>1 DEF last, e
  <2>3. CASE cut[e - 1].begin # e /\ Adds(body, n, cut[e - 1], e, cut[e])
    <3>1. put[Len(cut[e].plan)] = AtPt(f, body, L, e, Len(cut[e].kept))
      <4>1. /\ put[Len(cut[N].plan)] = AtPt(f, body, L, cut[N].begin, Len(cut[N].kept))
            /\ cut[N].begin # e /\ Adds(body, n, cut[N], e, cut[e]) /\ N = e - 1
        BY <1>12, <2>1, <2>3
      <4>2. e \in 1..Len(body) + 1 /\ e = Len(body) + 1
        BY <2>1 DEF N, e
      <4>3. put[Len(cut[e].plan)] =
              IF e = Len(body) + 1 THEN AtPt(f, body, L, e, Len(cut[e].kept))
              ELSE AtPt(f, body, L, e + 1, Len(cut[e].kept))
        BY <1>9, <4>1, <4>2, ChunkBack
      <4> QED BY <4>2, <4>3
    <3> QED BY <3>1 DEF last, e
  <2> QED BY <1>1, <2>1, <2>2, <2>3 DEF Cutting, N, e
<1>14. Mixed(f, body, L, N + 1, Len(L)) = Img(f, body)
  <2>1. ((N + 1) - 1) + (Len(L) - Len(L)) = N /\ DOMAIN body = 1..N
    BY <1>0, <1>4, <1>5, LenProperties
  <2>2. \A k \in 1..N : k < N + 1
    BY <1>0
  <2> HIDE DEF N
  <2>3. \A k \in 1..N : (IF k < N + 1 THEN f[body[k]] ELSE L[k - (N + 1) + 1 + Len(L)]) = f[body[k]]
    BY <2>2
  <2>4. Mixed(f, body, L, N + 1, Len(L)) =
          [k \in 1..N |-> IF k < N + 1 THEN f[body[k]] ELSE L[k - (N + 1) + 1 + Len(L)]]
    <3> DEFINE top == ((N + 1) - 1) + (Len(L) - Len(L))
    <3>1. Mixed(f, body, L, N + 1, Len(L)) =
            [k \in 1..top |-> IF k < N + 1 THEN f[body[k]] ELSE L[k - (N + 1) + 1 + Len(L)]]
      BY DEF Mixed
    <3>2. top = N
      BY <2>1
    <3> HIDE DEF top
    <3> QED BY <3>1, <3>2
  <2> QED BY <2>1, <2>3, <2>4 DEF Img
<1> QED BY <1>2, <1>5, <1>8, <1>13, <1>14 DEF AtPt, L

(* No iterate of the body comes first in it or right after another.         *)
SeparatedUpTo(body, d) ==
  \A e \in 1..d : IsIterate(body[e]) => e > 1 /\ ~IsIterate(body[e - 1])
Separated(body) == SeparatedUpTo(body, Len(body))

NoIterateIn(q) == \A u \in 1..Len(q) : ~IsIterate(q[u])
NoneInMovables(chunks) == \A k \in 1..Len(chunks) : NoIterateIn(chunks[k])

LEMMA NoneAdded ==
  ASSUME NEW Ops, NEW chunks \in Seq(Seq(Ops)), NEW q \in Seq(Ops)
  PROVE  NoneInMovables(Append(chunks, q)) <=> NoneInMovables(chunks) /\ NoIterateIn(q)
<1> DEFINE t == Append(chunks, q)
           m == Len(chunks)
<1>1. /\ m \in Nat /\ Len(t) = m + 1 /\ t[m + 1] = q
      /\ \A k \in 1..m : t[k] = chunks[k]
  OBVIOUS
<1> HIDE DEF t, m
<1>2. NoneInMovables(t) <=> (\A k \in 1..m : NoIterateIn(t[k])) /\ NoIterateIn(t[m + 1])
  <2>1. \A k : k \in 1..m + 1 <=> k \in 1..m \/ k = m + 1
    BY <1>1
  <2> QED BY <1>1, <2>1 DEF NoneInMovables
<1>3. NoneInMovables(chunks) <=> \A k \in 1..m : NoIterateIn(t[k])
  BY <1>1 DEF NoneInMovables, m
<1> QED BY <1>1, <1>2, <1>3 DEF t

LEMMA NoneInPart ==
  ASSUME NEW Ops, NEW body \in Seq(Ops), NEW b \in 1..Len(body), NEW d \in b..Len(body)
  PROVE  /\ SubSeq(body, b, d) \in Seq(Ops)
         /\ NoIterateIn(SubSeq(body, b, d)) <=> \A u \in b..d : ~IsIterate(body[u])
<1> DEFINE q == SubSeq(body, b, d)
<1>1. /\ q \in Seq(Ops) /\ Len(q) = d - b + 1
      /\ \A u \in 1..(d - b + 1) : q[u] = body[b + u - 1]
  <2>1. \A u \in b..d : body[u] \in Ops
    OBVIOUS
  <2>2. b \in Nat /\ d \in Nat /\ b <= d + 1
    OBVIOUS
  <2> QED BY <2>1, <2>2, SubSeqProperties
<1> HIDE DEF q
<1>2. ASSUME NoIterateIn(q), NEW u \in b..d PROVE ~IsIterate(body[u])
  <2>1. u - b + 1 \in 1..(d - b + 1) /\ b + (u - b + 1) - 1 = u
    OBVIOUS
  <2>2. q[u - b + 1] = body[u]
    BY <1>1, <2>1
  <2> QED BY <1>1, <1>2, <2>1, <2>2 DEF NoIterateIn
<1>3. ASSUME \A u \in b..d : ~IsIterate(body[u]), NEW u \in 1..(d - b + 1) PROVE ~IsIterate(q[u])
  <2>1. b + u - 1 \in b..d
    OBVIOUS
  <2> QED BY <1>1, <1>3, <2>1
<1>4. (\A u \in b..d : ~IsIterate(body[u])) => NoIterateIn(q)
  BY <1>1, <1>3 DEF NoIterateIn
<1> QED BY <1>1, <1>2, <1>4 DEF q

(* Where an iterate in a movable comes from: the chunk under way begins     *)
(* after an iterate, and if there is one in it, it is the first.            *)
ChunkInv(body, s, d) ==
  /\ s.begin \in 1..d + 1
  /\ s.begin > 1 => IsIterate(body[s.begin - 1])
  /\ \A u \in s.begin + 1..d : ~IsIterate(body[u])
  /\ SeparatedUpTo(body, d) <=>
       NoneInMovables(s.chunks) /\ (s.begin <= d => ~IsIterate(body[s.begin]))

LEMMA ChunkKept ==
  ASSUME NEW Ops, NEW body \in Seq(Ops), NEW n \in Nat, NEW s \in Cuts(Ops),
         NEW e \in 1..Len(body), NEW d, d = e - 1, ChunkInv(body, s, d)
  PROVE  ChunkInv(body, CutAt(body, n, s, e), e)
<1> DEFINE t == CutAt(body, n, s, e)
           b == s.begin
<1>1. /\ Len(body) \in Nat /\ e \in Nat /\ d \in Nat /\ e = d + 1 /\ b \in 1..e /\ ~(e > Len(body))
      /\ s.chunks \in Seq(Seq(Ops))
  BY DEF ChunkInv, Cuts
<1>2. SeparatedUpTo(body, e) <=>
        SeparatedUpTo(body, d) /\ (IsIterate(body[e]) => e > 1 /\ ~IsIterate(body[d]))
  BY <1>1 DEF SeparatedUpTo
<1> HIDE DEF b
<1>3. CASE b = e
  <2>1. t = s
    BY <1>3 DEF CutAt, b
  <2>2. SeparatedUpTo(body, e) <=> SeparatedUpTo(body, d) /\ ~IsIterate(body[e])
    <3>1. e > 1 => IsIterate(body[d])
      BY <1>1, <1>3 DEF ChunkInv, b
    <3> QED BY <1>2, <3>1
  <2>3. SeparatedUpTo(body, d) <=> NoneInMovables(s.chunks)
    BY <1>1, <1>3 DEF ChunkInv, b
  <2> HIDE DEF t
  <2>4. ChunkInv(body, s, e)
    BY <1>1, <1>3, <2>2, <2>3 DEF ChunkInv, b
  <2> QED BY <2>1, <2>4 DEF t
<1>4. CASE b # e /\ ~IsIterate(body[e])
  <2>1. t = s
    BY <1>1, <1>4 DEF CutAt, b
  <2>2. SeparatedUpTo(body, e) <=> SeparatedUpTo(body, d)
    BY <1>2, <1>4
  <2>3. b <= d
    BY <1>1, <1>4
  <2>4. \A u \in b + 1..e : ~IsIterate(body[u])
    <3>1. \A u \in b + 1..e : u = e \/ u \in b + 1..d
      BY <1>1
    <3> QED BY <1>4, <3>1 DEF ChunkInv, b
  <2> HIDE DEF t
  <2>5. ChunkInv(body, s, e)
    BY <1>1, <2>2, <2>3, <2>4 DEF ChunkInv, b
  <2> QED BY <2>1, <2>5 DEF t
<1>5. CASE b # e /\ IsIterate(body[e])
  <2>1. t.begin = e + 1 /\ t.chunks = Append(s.chunks, SubSeq(body, b, d))
    BY <1>1, <1>5 DEF CutAt, b
  <2>2. b \in 1..d /\ b \in 1..Len(body) /\ d \in b..Len(body)
    BY <1>1, <1>5
  <2>3. NoneInMovables(t.chunks) <=> NoneInMovables(s.chunks) /\ ~IsIterate(body[b])
    <3>1. NoneInMovables(t.chunks) <=>
            NoneInMovables(s.chunks) /\ \A u \in b..d : ~IsIterate(body[u])
      <4> DEFINE q == SubSeq(body, b, d)
      <4>1. q \in Seq(Ops) /\ (NoIterateIn(q) <=> \A u \in b..d : ~IsIterate(body[u]))
        BY <2>2, NoneInPart
      <4>2. t.chunks = Append(s.chunks, q)
        BY <2>1
      <4> HIDE DEF q, t
      <4> QED BY <1>1, <4>1, <4>2, NoneAdded
    <3>2. \A u \in b..d : u = b \/ u \in b + 1..d
      BY <2>2
    <3>3. (\A u \in b..d : ~IsIterate(body[u])) <=> ~IsIterate(body[b])
      BY <2>2, <3>2 DEF ChunkInv, b
    <3> QED BY <3>1, <3>3
  <2>4. SeparatedUpTo(body, d) <=> NoneInMovables(s.chunks) /\ ~IsIterate(body[b])
    BY <2>2 DEF ChunkInv, b
  <2>5. SeparatedUpTo(body, d) => ~IsIterate(body[d])
    <3>1. CASE d = b
      BY <2>4, <3>1
    <3>2. CASE d # b
      <4>1. d \in b + 1..d
        BY <2>2, <3>2
      <4> QED BY <4>1 DEF ChunkInv, b
    <3> QED BY <3>1, <3>2
  <2>6. SeparatedUpTo(body, e) <=> SeparatedUpTo(body, d)
    <3>1. e > 1
      BY <1>1, <2>2
    <3> QED BY <1>2, <2>5, <3>1
  <2>7. SeparatedUpTo(body, e) <=> NoneInMovables(t.chunks)
    BY <2>3, <2>4, <2>6
  <2> HIDE DEF t
  <2>8. /\ t.begin \in 1..e + 1 /\ (e + 1) - 1 = e /\ ~(t.begin <= e)
        /\ \A u \in t.begin + 1..e : FALSE
    BY <1>1, <2>1
  <2>9. ChunkInv(body, t, e)
    BY <1>5, <2>1, <2>7, <2>8 DEF ChunkInv
  <2> QED BY <2>9 DEF t
<1> QED BY <1>3, <1>4, <1>5

(* An iterate is in a movable only if it comes first in its body or right   *)
(* after another.                                                          *)
LEMMA WhatMovablesHold ==
  ASSUME NEW Ops, NEW body \in Seq(Ops), NEW n \in Nat
  PROVE  Separated(body) <=> NoneInMovables(Cut(body, n).chunks)
<1> DEFINE N == Len(body)
<1>0. N \in Nat /\ \A e \in 1..N : e \in 1..N + 1 /\ e \in 1..Len(body) + 1
  OBVIOUS
<1>1. PICK cut : /\ Cut(body, n) = cut[Len(body) + 1]
                 /\ cut[0] = NothingCut
                 /\ \A e \in 1..Len(body) + 1 : cut[e] = CutAt(body, n, cut[e - 1], e)
  BY CutIs
<1> DEFINE J(d) == cut[d] \in Cuts(Ops) /\ ChunkInv(body, cut[d], d)
           S == {d \in Nat : d <= N => J(d)}
<1>2. 0 \in S
  <2>1. NothingCut \in Cuts(Ops) /\ NothingCut.begin = 1 /\ NothingCut.chunks = <<>>
    BY DEF NothingCut, Cuts
  <2>2. NoneInMovables(<<>>) /\ SeparatedUpTo(body, 0)
    BY DEF NoneInMovables, SeparatedUpTo
  <2>3. ChunkInv(body, NothingCut, 0)
    BY <2>1, <2>2 DEF ChunkInv
  <2> QED BY <1>1, <2>1, <2>3
<1>3. ASSUME NEW d \in Nat, d \in S PROVE d + 1 \in S
  <2> SUFFICES ASSUME d + 1 <= N PROVE J(d + 1)
    OBVIOUS
  <2> DEFINE e == d + 1
  <2>1. e \in 1..Len(body) /\ d = e - 1 /\ d <= N /\ e \in 1..Len(body) + 1
    BY <1>0
  <2>2. cut[d] \in Cuts(Ops) /\ ChunkInv(body, cut[d], d)
    BY <1>3, <2>1
  <2> HIDE DEF e
  <2>3. cut[e] = CutAt(body, n, cut[d], e)
    BY <1>1, <2>1
  <2>4. cut[e] \in Cuts(Ops)
    BY <2>1, <2>2, <2>3, CutAtAdds
  <2>5. ChunkInv(body, cut[e], e)
    BY <2>1, <2>2, <2>3, ChunkKept
  <2> QED BY <2>4, <2>5 DEF e
<1>4. J(N)
  <2>1. Nat \subseteq S
    <3> HIDE DEF S
    <3> QED BY <1>2, <1>3, Successors
  <2> QED BY <1>0, <2>1
<1> DEFINE s == cut[N]
           b == s.begin
           t == cut[Len(body) + 1]
<1>5. t = CutAt(body, n, s, N + 1)
  BY <1>0, <1>1
<1>6. /\ b \in 1..N + 1 /\ s.chunks \in Seq(Seq(Ops))
      /\ \A u \in b + 1..N : ~IsIterate(body[u])
      /\ Separated(body) <=> NoneInMovables(s.chunks) /\ (b <= N => ~IsIterate(body[b]))
  BY <1>4 DEF ChunkInv, Cuts, Separated
<1> HIDE DEF s, b, t
<1>7. CASE b = N + 1
  <2>1. t = s
    BY <1>5, <1>7 DEF CutAt, b
  <2> QED BY <1>0, <1>1, <1>6, <1>7, <2>1 DEF t
<1>8. CASE b # N + 1
  <2>1. t.chunks = Append(s.chunks, SubSeq(body, b, N))
    <3>1. (N + 1) - 1 = N /\ N + 1 > Len(body) /\ s.begin # N + 1
      BY <1>0, <1>8 DEF b
    <3> QED BY <1>5, <3>1 DEF CutAt, b
  <2>2. b \in 1..Len(body) /\ N \in b..Len(body)
    BY <1>0, <1>6, <1>8
  <2>3. NoneInMovables(t.chunks) <=>
          NoneInMovables(s.chunks) /\ \A u \in b..N : ~IsIterate(body[u])
    <3> DEFINE q == SubSeq(body, b, N)
    <3>1. q \in Seq(Ops) /\ (NoIterateIn(q) <=> \A u \in b..N : ~IsIterate(body[u]))
      BY <2>2, NoneInPart
    <3>2. t.chunks = Append(s.chunks, q)
      BY <2>1
    <3> HIDE DEF q
    <3> QED BY <1>6, <3>1, <3>2, NoneAdded
  <2>4. \A u \in b..N : u = b \/ u \in b + 1..N
    BY <2>2
  <2>5. (\A u \in b..N : ~IsIterate(body[u])) <=> ~IsIterate(body[b])
    BY <1>6, <2>2, <2>4
  <2>6. b <= N
    BY <2>2
  <2> QED BY <1>1, <1>6, <2>3, <2>5, <2>6 DEF t
<1> QED BY <1>7, <1>8

(* If no iterate comes first in a body or right after another, none is in a  *)
(* movable.  Then, however long the body is, it comes back once its iterates *)
(* have become loops: the operations of every chunk where they were, in      *)
(* order (each may have changed meanwhile, none gone), and each loop in the  *)
(* place of its iterate.  No transfer looks for a place past the end of the  *)
(* block, the assertion of moveOne.  An iterate that does come first or right *)
(* after another is in a movable and not stepped over                        *)
(* (ConvertKrnlToAffine.cpp:330); of such a body nothing is claimed.         *)
THEOREM BodyComesBack ==
  ASSUME NEW Ops, NEW body \in Seq(Ops), Separated(body), NEW n \in Nat, NEW f \in [Ops -> Ops],
         \A op \in Ops : IsIterate(op) => IsLoop(f[op]), NEW c,
         \A k \in 1..Len(Cut(body, n).chunks) : c[Movable(n + k)] = Img(f, Cut(body, n).chunks[k])
  PROVE  LET cut == Cut(body, n)
             moved == Transferred(c, Img(f, cut.kept), cut.plan)
         IN /\ NoneInMovables(cut.chunks)
            /\ moved.ok = TRUE /\ moved.body = Img(f, body)
<1>1. NoneInMovables(Cut(body, n).chunks)
  BY WhatMovablesHold
<1>2. LET cut == Cut(body, n)
          moved == Transferred(c, Img(f, cut.kept), cut.plan)
      IN moved.ok = TRUE /\ moved.body = Img(f, body)
  BY BodyBack
<1> QED BY <1>1, <1>2
=============================================================================
