---------------------------- MODULE ConstantPack ----------------------------
(***************************************************************************)
(* extractConstantsToFile (src/Conversion/KrnlToLLVM/ConvertKrnlToLLVM.cpp) *)
(* moves the large constants of a module into one file that the model maps  *)
(* at run time (ExternalConstant), and leaves the others in the library.    *)
(* A constant is a krnl.global; a file is the sequence of its bytes, each   *)
(* standing for the constant it belongs to, or for padding.                 *)
(***************************************************************************)
EXTENDS Integers, Sequences, FiniteSets, SequencesExt

CONSTANTS
  Modules,          \* the modules compiled: sequences of Global records
  KB, GB,           \* bytes in the units of the two thresholds
  Frac,             \* a threshold is a float: a number of Frac-ths of its unit
  SingleThreshold,  \* constantsToFileSingleThreshold, in Frac-ths of a KB
  TotalThreshold,   \* constantsToFileTotalThreshold, in Frac-ths of a GB
  Stale,            \* what an earlier compilation may have left in the file
  Padding

Kinds == {"ordinary", "splat", "bool", "returned", "nodata"}
Global == [kind : Kinds, size : Nat, align : Nat \cup {-1}]

ASSUME ConstantPackAssumption ==
  /\ Modules \subseteq Seq(Global)
  /\ {KB, GB, Frac} \subseteq Nat \ {0}
  /\ {SingleThreshold, TotalThreshold} \subseteq Nat
  /\ Padding \notin Nat

VARIABLES
  module,     \* the module being compiled
  stage,
  interest,   \* globalOfInterest
  i,
  file,       \* bytes of the constants file
  written,    \* totalConstSize
  offset,     \* offset attribute of a constant, or -1
  valued,     \* constants that have a value attribute
  filesize    \* the filesize global, or -1

packVars == <<module, stage, interest, i, file, written, offset, valued, filesize>>

Ids == 1..Len(module)

PackTypeOK ==
  /\ module \in Modules
  /\ stage \in {"collect", "sort", "remove", "pack", "globals", "stored", "embedded"}
  /\ interest \in Seq(Ids)
  /\ i \in 0..Len(interest)
  /\ \A b \in DOMAIN file : file[b] \in Nat \cup {Padding}
  /\ written \in Nat
  /\ offset \in [Ids -> Nat \cup {-1}]
  /\ valued \subseteq Ids
  /\ filesize \in Nat \cup {-1}

InitPack ==
  /\ module \in Modules
  /\ stage = "collect"
  /\ interest = <<>>
  /\ i = 0
  /\ file \in {<<>>, Stale}
  /\ written = 0
  /\ offset = [c \in Ids |-> -1]
  /\ valued = Ids
  /\ filesize = -1

-----------------------------------------------------------------------------
(* (uint64_t)threshold * unit: the cast comes before the product.            *)
Bytes(threshold, unit) == (threshold \div Frac) * unit

(* The constants that may go to the file, and their total size.              *)
OfInterest(c) ==
  /\ module[c].kind = "ordinary"
  /\ module[c].size > 0
  /\ module[c].size > Bytes(SingleThreshold, KB)

TotalSize(s) == FoldSeq(LAMBDA c, acc : module[c].size + acc, 0, s)

Collect ==
  /\ stage = "collect"
  /\ \E found \in SetToSeqs({c \in Ids : OfInterest(c)}) :
       /\ \A a, b \in DOMAIN found : a < b => found[a] < found[b]
       /\ IF TotalSize(found) <= Bytes(TotalThreshold, GB)
          THEN stage' = "embedded" /\ UNCHANGED interest
          ELSE stage' = "sort" /\ interest' = found
  /\ UNCHANGED <<module, i, file, written, offset, valued, filesize>>

(* llvm::sort is not stable: constants of equal alignment in any order.      *)
Sort ==
  /\ stage = "sort"
  /\ \E s \in SetToSeqs(ToSet(interest)) :
       /\ \A a, b \in DOMAIN s : a < b => module[s[a]].align <= module[s[b]].align
       /\ interest' = s
       /\ i' = Len(s)
  /\ stage' = "remove"
  /\ UNCHANGED <<module, file, written, offset, valued, filesize>>

(* Slip: the file, opened for appending, is not removed first.               *)
RemoveOldMissing ==
  /\ stage = "remove"
  /\ stage' = "pack"
  /\ UNCHANGED <<module, interest, i, file, written, offset, valued, filesize>>

RemoveOld ==
  /\ stage = "remove"
  /\ file' = <<>>
  /\ stage' = "pack"
  /\ UNCHANGED <<module, interest, i, written, offset, valued, filesize>>

(* Slip: pads by a fixed amount instead of up to the boundary.               *)
PadSizeToPrevious(align) ==
  IF align > 0 /\ written % align # 0 THEN align - 1 ELSE 0

(* Bytes of padding in front of a constant.                                  *)
PadSize(align) ==
  IF align > 0 /\ written % align # 0
  THEN (written \div align + 1) * align - written
  ELSE 0

(* One turn of the loop, from the last constant of interest to the first.    *)
PackOne ==
  /\ stage = "pack"
  /\ i > 0
  /\ LET c == interest[i]
         pad == PadSize(module[c].align)
     IN  /\ file' = file \o [b \in 1..pad |-> Padding]
                         \o [b \in 1..module[c].size |-> c]
         /\ written' = written + pad + module[c].size
         /\ offset' = [offset EXCEPT ![c] = written + pad]
         /\ valued' = valued \ {c}
  /\ i' = i - 1
  /\ UNCHANGED <<module, stage, interest, filesize>>

PackEnd ==
  /\ stage = "pack"
  /\ i = 0
  /\ stage' = IF written = 0 THEN "embedded" ELSE "globals"
  /\ UNCHANGED <<module, interest, i, file, written, offset, valued, filesize>>

(* The globals the loading code reads: file name, size, packedConst.         *)
EmitGlobals ==
  /\ stage = "globals"
  /\ filesize' = written
  /\ stage' = "stored"
  /\ UNCHANGED <<module, interest, i, file, written, offset, valued>>

NextPack == Collect \/ Sort \/ RemoveOld \/ PackOne \/ PackEnd \/ EmitGlobals

SpecPack == InitPack /\ [][NextPack]_packVars

-----------------------------------------------------------------------------
(* Properties                                                                *)

(* A constant whose value was taken out of the module is in the file, whole, *)
(* at the offset omGetExternalConstantAddr will add to the base address.     *)
PackedWhole ==
  \A c \in Ids \ valued :
    /\ offset[c] >= 0
    /\ offset[c] + module[c].size <= Len(file)
    /\ \A b \in 1..module[c].size : file[offset[c] + b] = c

(* "every constants must be correctly aligned" with respect to the start of  *)
(* the file, which is mapped at a page boundary.                             *)
Aligned ==
  \A c \in Ids : offset[c] >= 0 /\ module[c].align > 0 => offset[c] % module[c].align = 0

(* The size given to mmap covers the file, and the whole file: padding and   *)
(* leftovers of an earlier compilation included.                             *)
FileSizeExact == stage = "stored" => filesize = Len(file)

=============================================================================
