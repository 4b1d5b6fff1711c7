--------------------------- MODULE CompileDriver ---------------------------
(***************************************************************************)
(* compileModule and the tools it runs (src/Compiler/CompilerUtils.cpp), as *)
(* the onnx-mlir program calls it once, or as a program that embeds the     *)
(* compiler calls it again and again through omCompileFromArray.  What      *)
(* outlives a call is the phase counter, the tag, the working directory and *)
(* the disk.  A file is a pair of a base name and an extension; the outputs *)
(* are relative to the working directory the process started in.            *)
(***************************************************************************)
EXTENDS Integers, FiniteSets

CONSTANTS
  Names,      \* output base names
  BadNames,   \* those that are no valid tag
  Nested,     \* whether the outputs are in a subdirectory
  Keep,       \* what keepFiles keeps: a subset of MLIR, LLVMIR, Bitcode
  Uses,       \* the values of embedded and printing, in pairs
  MayFail,    \* whether tools, passes and file accesses may fail
  NoTag, NoName,
  MaxCalls    \* bound on the compilations

Targets == {"Obj", "Lib", "JNI", "MLIR"}

ASSUME CompileDriverAssumption ==
  /\ BadNames \subseteq Names
  /\ {Nested, MayFail} \subseteq BOOLEAN
  /\ Uses \subseteq BOOLEAN \X BOOLEAN
  /\ Keep \subseteq {"MLIR", "LLVMIR", "Bitcode"}
  /\ NoTag \notin Names
  /\ NoName \notin Names
  /\ MaxCalls \in Nat

VARIABLES
  embedded,        \* whether omCompileFromArray is used, or the program
  printing,        \* printIR or printBytecode
  current, total,  \* CURRENT_COMPILE_PHASE and TOTAL_COMPILE_PHASE
  modelTag,        \* the tag, a name or NoTag
  cwd,             \* "start", or "outputs" for the subdirectory
  disk,
  name, target,    \* of the compilation running or just finished
  pc,
  pending,         \* files a FileRemover in scope will remove
  rc,              \* how the last compilation ended
  failed,          \* history: whether one has failed
  shown,           \* history: the phases shown by it, and the last number
  calls

vars == <<embedded, printing, current, total, modelTag, cwd, disk, name, target,
          pc, pending, rc, failed, shown, calls>>
use == <<embedded, printing>>
result == <<rc, failed>>
process == <<use, modelTag, cwd, name, target, calls>>

PCs == {"idle", "import", "compile", "setup", "passes", "emit", "text", "bitcode",
        "opt", "object", "jniobj", "link", "jar", "done", "exited"}

TypeOK ==
  /\ use \in Uses
  /\ current \in 1..9
  /\ total \in 0..8
  /\ modelTag \in Names \cup {NoTag}
  /\ cwd \in {"start", "outputs"}
  /\ \A f \in disk \cup pending : f[1] \in Names \cup {"jnidummy", "libmodel"}
  /\ name \in Names \cup {NoName}
  /\ target \in Targets
  /\ pc \in PCs
  /\ rc \in {"none", "ok", "failed"}
  /\ failed \in BOOLEAN
  /\ shown \in Nat \X Nat
  /\ calls \in 0..MaxCalls

Init ==
  /\ \E u \in Uses : embedded = u[1] /\ printing = u[2]
  /\ current = 1
  /\ total = 0
  /\ modelTag = NoTag
  /\ cwd = "start"
  /\ disk = {}
  /\ name = NoName
  /\ target = "MLIR"
  /\ pc = "idle"
  /\ pending = {}
  /\ rc = "none"
  /\ failed = FALSE
  /\ shown = <<0, 0>>
  /\ calls = 0

Goto(l) == pc' = l

-----------------------------------------------------------------------------
(* Files                                                                     *)

Unoptimized == <<name, "unoptimized.bc">>
Bitcode == <<name, "bc">>
Object == <<name, "o">>
JniObject == <<"jnidummy", "o">>
Library == IF target = "JNI" THEN <<"libmodel", "so">> ELSE <<name, "so">>
Jar == <<name, "jar">>

(* Relative names lead nowhere from inside the subdirectory.                 *)
ReachableFrom(dir) == Nested => dir = "start"
Reachable == ReachableFrom(cwd)

(* A FileRemover with the given condition adds a file to the pending ones.   *)
Removing(f, kind) == IF kind \in Keep THEN {} ELSE {f}

-----------------------------------------------------------------------------
(* Phases                                                                    *)

(* Slip: the phase of the JNI object is forgotten.                           *)
TotalPhasesNoJni(t) == IF t = "Obj" THEN 5 ELSE IF t = "Lib" THEN 6
                       ELSE IF t = "JNI" THEN 7 ELSE 3

(* SET_TOTAL_COMPILE_PHASE                                                   *)
TotalPhases(t) == IF t = "Obj" THEN 5 ELSE IF t = "Lib" THEN 6
                  ELSE IF t = "JNI" THEN 8 ELSE 3

(* showCompilePhase, with the total it compares the counter with.            *)
ShowPhase(tot) ==
  /\ shown' = <<shown[1] + 1, current>>
  /\ current' = IF current + 1 > tot THEN 1 ELSE current + 1

-----------------------------------------------------------------------------
(* Returning from every frame, with the process in dir: the removers fire.   *)
ReturnIn(dir, code, d) ==
  /\ rc' = code
  /\ failed' = (failed \/ code = "failed")
  /\ disk' = IF ReachableFrom(dir) THEN d \ pending ELSE d
  /\ pending' = {}
  /\ Goto(IF embedded THEN "idle" ELSE "exited")

Return(code, d) == ReturnIn(cwd, code, d)

(* A failure that leaves one of the given sets of new files, with a remover  *)
(* set up in the function that fails.                                        *)
FailLeaving(lefts, remover) ==
  /\ MayFail \/ ~Reachable
  /\ IF Reachable
     THEN \E left \in lefts : Return("failed", (disk \cup left) \ remover)
     ELSE Return("failed", disk)

(* The tool that fails may have written its output.                          *)
Fail(outputs) == FailLeaving(SUBSET outputs, {})

Compile(n, t) ==
  /\ calls < MaxCalls
  /\ calls' = calls + 1
  /\ name' = n
  /\ target' = t

(* omCompileFromArray: the import fails, or the module is compiled.          *)
CompileFromArray(n, t) ==
  /\ embedded
  /\ pc = "idle"
  /\ Compile(n, t)
  /\ shown' = <<0, 0>>
  /\ \/ Goto("compile") /\ UNCHANGED <<result, disk, pending>>
     \/ MayFail /\ Return("failed", disk)
  /\ UNCHANGED <<use, current, total, modelTag, cwd>>

(* The onnx-mlir program: total phases, import phase, import.                *)
Main(n, t) ==
  /\ ~embedded
  /\ pc = "idle"
  /\ Compile(n, t)
  /\ total' = TotalPhases(t)
  /\ ShowPhase(total')
  /\ Goto("import")
  /\ UNCHANGED <<use, modelTag, cwd, disk, pending, result>>

ProcessInputFile ==
  /\ pc = "import"
  /\ \/ Goto("compile") /\ UNCHANGED <<result, disk, pending>>
     \/ Fail({})
  /\ UNCHANGED <<process, current, total, shown>>

(* compileModule: a counter at 1 means that no import phase was shown.       *)
CompileModule ==
  /\ pc = "compile"
  /\ total' = IF current = 1 THEN TotalPhases(target) - 1 ELSE total
  /\ ShowPhase(total')
  /\ Goto("setup")
  /\ UNCHANGED <<process, disk, pending, result>>

-----------------------------------------------------------------------------
(* setupModule                                                               *)

ChosenTag == IF modelTag = NoTag THEN name ELSE modelTag

SetupModule ==
  /\ pc = "setup"
  /\ modelTag' = ChosenTag
  /\ \/ modelTag' \in BadNames /\ Return("failed", disk)
     \/ /\ modelTag' \notin BadNames
        /\ "MLIR" \in Keep
        /\ Fail({<<name, "input.mlir">>})
     \/ /\ modelTag' \notin BadNames
        /\ "MLIR" \in Keep => Reachable
        /\ disk' = disk \cup {f \in {<<name, "input.mlir">>} : "MLIR" \in Keep}
        /\ Goto("passes")
        /\ UNCHANGED <<pending, result>>
  /\ UNCHANGED <<use, cwd, name, target, calls, current, total, shown>>

RunPasses ==
  /\ pc = "passes"
  /\ \/ Goto("emit") /\ UNCHANGED <<disk, pending, result>>
     \/ MayFail /\ Return("failed", disk)
  /\ UNCHANGED <<process, current, total, shown>>

(* emitOutput: the module goes to the standard output, or to files.          *)
EmitOutput ==
  /\ pc = "emit"
  /\ \/ printing /\ Return("ok", disk)
     \/ /\ ~printing
        /\ Goto(IF target = "MLIR" THEN "text" ELSE "bitcode")
        /\ UNCHANGED <<disk, pending, result>>
  /\ UNCHANGED <<process, current, total, shown>>

-----------------------------------------------------------------------------
(* emitOutputFiles                                                           *)

(* The MLIR targets: the full text, then the one without constants; an       *)
(* option leaves out the first and the target LLVMIR has no second.          *)
OutputText ==
  /\ pc = "text"
  /\ LET full == <<name, "onnx.mlir">>
         short == <<name, "tmp">>
     IN  \/ FailLeaving({{}, {full}}, {})
         \/ /\ Reachable
            /\ \E out \in SUBSET {full, short} : disk' = disk \cup out
            /\ Goto("done")
            /\ UNCHANGED <<pending, result>>
  /\ UNCHANGED <<process, current, total, shown>>

(* genLLVMBitcode up to opt: translate and write the unoptimized bitcode.    *)
GenLLVMBitcode ==
  /\ pc = "bitcode"
  /\ ShowPhase(total)
  /\ LET ir == {f \in {<<name, "ll">>} : "LLVMIR" \in Keep}
         remover == Removing(Unoptimized, "Bitcode")
     IN  \/ FailLeaving(SUBSET {Unoptimized}, remover)
         \/ /\ Reachable
            /\ disk' = disk \cup ir \cup {Unoptimized}
            /\ pending' = remover
            /\ Goto("opt")
            /\ UNCHANGED result
  /\ UNCHANGED <<process, total>>

(* Slip: the remover of the optimized bitcode is in genLLVMBitcode itself.   *)
OptEarlyRemover ==
  /\ pc = "opt"
  /\ \/ Fail({Bitcode})
     \/ /\ disk' = disk \ (pending \cup Removing(Bitcode, "Bitcode"))
        /\ pending' = {}
        /\ Goto("object")
        /\ UNCHANGED result
  /\ UNCHANGED <<process, current, total, shown>>

(* opt; the unoptimized bitcode goes when genLLVMBitcode returns, and then   *)
(* compileModuleToObject sets up the remover of the optimized one.           *)
Opt ==
  /\ pc = "opt"
  /\ \/ Fail({Bitcode})
     \/ /\ disk' = (disk \cup {Bitcode}) \ pending
        /\ pending' = Removing(Bitcode, "Bitcode")
        /\ Goto("object")
        /\ UNCHANGED result
  /\ UNCHANGED <<process, current, total, shown>>

(* llc.  compileModuleToObject returns, and its caller sets up the remover   *)
(* of the object file; for the target Obj the object file is the result.     *)
GenModelObject ==
  /\ pc = "object"
  /\ ShowPhase(total)
  /\ \/ Fail({Object})
     \/ /\ disk' = (disk \cup {Object}) \ pending
        /\ pending' = IF target = "Obj" THEN {} ELSE Removing(Object, "Object")
        /\ Goto(CASE target = "Obj" -> "done"
                   [] target = "Lib" -> "link"
                   [] target = "JNI" -> "jniobj")
        /\ UNCHANGED result
  /\ UNCHANGED <<process, total>>

(* genJniObject: Command::exec enters the directory of the object, and goes  *)
(* back only when the command succeeded.                                     *)
GenJniObject ==
  /\ pc = "jniobj"
  /\ ShowPhase(total)
  /\ \/ /\ MayFail
        /\ cwd' = IF Nested THEN "outputs" ELSE cwd
        /\ \E left \in SUBSET {JniObject} : ReturnIn(cwd', "failed", disk \cup left)
     \/ /\ disk' = disk \cup {JniObject}
        /\ pending' = pending \cup Removing(JniObject, "Object")
        /\ Goto("link")
        /\ UNCHANGED <<cwd, result>>
  /\ UNCHANGED <<use, modelTag, name, target, calls, total>>

(* Slip: the library inside the jar gets no remover.                         *)
GenSharedLibUnremoved ==
  /\ pc = "link"
  /\ ShowPhase(total)
  /\ \/ Fail({Library})
     \/ /\ disk' = IF target = "Lib" THEN (disk \cup {Library}) \ pending
                                     ELSE disk \cup {Library}
        /\ pending' = IF target = "Lib" THEN {} ELSE pending
        /\ Goto(IF target = "Lib" THEN "done" ELSE "jar")
        /\ UNCHANGED result
  /\ UNCHANGED <<process, total>>

(* The link; compileModuleToSharedLibrary returns after it.                  *)
GenSharedLib ==
  /\ pc = "link"
  /\ ShowPhase(total)
  /\ \/ Fail({Library})
     \/ /\ disk' = IF target = "Lib" THEN (disk \cup {Library}) \ pending
                                     ELSE disk \cup {Library}
        /\ pending' = IF target = "Lib" THEN {} ELSE pending \cup Removing(Library, "Object")
        /\ Goto(IF target = "Lib" THEN "done" ELSE "jar")
        /\ UNCHANGED result
  /\ UNCHANGED <<process, total>>

(* javaruntime.jar is copied, and the library added to the copy.             *)
GenJniJar ==
  /\ pc = "jar"
  /\ ShowPhase(total)
  /\ \/ Fail({Jar})
     \/ /\ disk' = (disk \cup {Jar}) \ pending
        /\ pending' = {}
        /\ Goto("done")
        /\ UNCHANGED result
  /\ UNCHANGED <<process, total>>

(* The LLVM dialect is kept on demand, and the compilation is complete.      *)
Complete ==
  /\ pc = "done"
  /\ LET dialect == {f \in {<<name, "llvm.mlir">>} : "MLIR" \in Keep /\ target # "MLIR"}
     IN  \/ /\ dialect # {}
            /\ Fail(dialect)
            /\ UNCHANGED <<current, shown>>
         \/ /\ ShowPhase(total)
            /\ Return("ok", disk \cup dialect)
  /\ UNCHANGED <<use, modelTag, cwd, name, target, calls, total>>

Next ==
  \/ \E n \in Names, t \in Targets : CompileFromArray(n, t) \/ Main(n, t)
  \/ ProcessInputFile \/ CompileModule \/ SetupModule \/ RunPasses \/ EmitOutput
  \/ OutputText \/ GenLLVMBitcode \/ Opt \/ GenModelObject \/ GenJniObject
  \/ GenSharedLib \/ GenJniJar \/ Complete

Spec == Init /\ [][Next]_vars

-----------------------------------------------------------------------------
(* Properties                                                                *)

Returned == pc \in {"idle", "exited"} /\ rc # "none"

(* The intermediate files of the last compilation and of the failed attempts *)
(* before it, under the same name, are gone once it has succeeded; those of  *)
(* keepFiles are there.                                                      *)
Temporaries == {Unoptimized, Bitcode}
  \cup (IF target \in {"Lib", "JNI"} THEN {Object} ELSE {})
  \cup (IF target = "JNI" THEN {JniObject, Library} ELSE {})

TemporariesRemoved ==
  Returned /\ rc = "ok" /\ target # "MLIR" /\ ~printing =>
    Temporaries \cap disk = IF "Bitcode" \in Keep THEN {Unoptimized, Bitcode} ELSE {}

(* A tool finds the files it is given: no FileRemover fires before the last  *)
(* tool that reads the file, in this compilation or an earlier one.          *)
ToolInputsPresent ==
  Reachable =>
    /\ pc = "opt" => Unoptimized \in disk
    /\ pc = "object" => Bitcode \in disk
    /\ pc \in {"jniobj", "link", "jar"} => Object \in disk
    /\ pc = "link" /\ target = "JNI" => JniObject \in disk
    /\ pc = "jar" => Library \in disk

(* As long as no compilation of the process has failed, one that writes files *)
(* shows every phase up to the total and leaves the counter at 1 for the next. *)
(* One that prints succeeds without the phases from emitOutput on: it shows    *)
(* one phase, after the program's for the import, and the first one of a       *)
(* process leaves the counter short of the total and away from 1, so that      *)
(* another keeps its total and numbers on from there.                          *)
PhasesAddUp ==
  Returned /\ ~failed =>
    /\ ~printing => shown[1] = total /\ shown[2] = total /\ current = 1
    /\ printing =>
         /\ shown[1] = IF embedded THEN 1 ELSE 2
         /\ calls = 1 => shown[2] = shown[1] /\ shown[2] < total /\ current = shown[2] + 1
=============================================================================
