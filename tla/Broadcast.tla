----------------------------- MODULE Broadcast -----------------------------
(***************************************************************************)
(* ONNXBroadcastOpShapeHelper (src/Dialect/ONNX/ONNXOps/ShapeHelper.cpp):   *)
(* the shape of an elementwise operation from the shapes of its inputs, of  *)
(* which only some dimensions are known when the program is compiled, and   *)
(* the analyses that decide on the code: whether the inputs broadcast at    *)
(* all, and how many inner loops can be collapsed into one.                 *)
(*                                                                         *)
(* A dimension is an index expression: a literal, or a question mark that   *)
(* has a value only when the program runs. The model carries that value     *)
(* along (val); the code may look at it only if known says it is a literal. *)
(***************************************************************************)
EXTENDS Integers, Sequences

CONSTANTS
  Operations,  \* the operations compiled
  Names,       \* sets of dimensions that DimAnalysis has found to be equal
  NoName       \* the name of a dimension in no such set

Dim == [known : BOOLEAN, val : Nat \ {0}, name : Names \cup {NoName}]
Lit(n) == [known |-> TRUE, val |-> n, name |-> NoName]
One == Lit(1)

(***************************************************************************)
(* An operation has the shapes of its operands, followed, if extra, by the  *)
(* additional operand: the values of the shape input of Expand. analysis:   *)
(* there is a DimAnalysis. uni: hasUniBroadcasting (PRelu). valid: the      *)
(* inputs do broadcast when the program runs, to the shape result.          *)
(***************************************************************************)
Operation ==
  [shapes : Seq(Seq(Dim)), result : Seq(Nat \ {0}), extra : BOOLEAN,
   analysis : BOOLEAN, uni : BOOLEAN, valid : BOOLEAN]

\* The value at position j of the input shape s, brought to the rank of result.
ValueAt(o, s, j) ==
  LET k == j - (Len(o.result) - Len(s)) IN IF k >= 1 THEN s[k].val ELSE 1

Broadcasts(o) ==
  /\ \A d \in 1..Len(o.shapes) : Len(o.shapes[d]) <= Len(o.result)
  /\ \E d \in 1..Len(o.shapes) : Len(o.shapes[d]) = Len(o.result)
  /\ \A j \in 1..Len(o.result) :
       /\ \A d \in 1..Len(o.shapes) : ValueAt(o, o.shapes[d], j) \in {1, o.result[j]}
       /\ \E d \in 1..Len(o.shapes) : ValueAt(o, o.shapes[d], j) = o.result[j]
       /\ o.uni => ValueAt(o, o.shapes[1], j) = o.result[j]

\* Dimensions in one set of the DimAnalysis are equal at run time.
NamesAgree(o) ==
  \A d, e \in 1..Len(o.shapes) :
    \A k \in 1..Len(o.shapes[d]), l \in 1..Len(o.shapes[e]) :
      (o.shapes[d][k].name = o.shapes[e][l].name /\ o.shapes[d][k].name # NoName)
        => o.shapes[d][k].val = o.shapes[e][l].val

ASSUME OperationsAssumption ==
  /\ NoName \notin Names
  /\ \A o \in Operations :
       o \in Operation /\ o.shapes # <<>> /\ NamesAgree(o) /\ (o.valid => Broadcasts(o))

VARIABLES
  op,
  pc,
  i,            \* input the current loop has reached
  rank,         \* outputRank
  inputsDims,   \* shapes of the inputs, with ones prepended up to rank
  dims,         \* dimsExpr, then the dimensions of the output
  noBroadcast,  \* result of hasNoBroadcast
  r,            \* dimension, from the innermost, the collapse loop has reached
  isScalar,     \* inputs with only literal ones in the dimensions seen so far
  hasBroadcast, \* inputs of isScalar that are broadcast in one of them
  collapsed     \* collapsedInnermostLoops

vars == <<op, pc, i, rank, inputsDims, dims, noBroadcast, r, isScalar, hasBroadcast, collapsed>>

Inputs == 1..Len(op.shapes)
Axes == 1..rank

TypeOK ==
  /\ op \in Operations
  /\ pc \in {"rank", "fold", "failed", "inferred", "collapse", "analyzed"}
  /\ i \in Nat
  /\ rank \in Nat
  /\ pc # "rank" => inputsDims \in [Inputs -> [Axes -> Dim]] /\ dims \in [Axes -> Dim]
  /\ noBroadcast \in BOOLEAN
  /\ r \in Nat \ {0}
  /\ isScalar \subseteq Inputs
  /\ hasBroadcast \subseteq Inputs
  /\ collapsed \in Nat

Init ==
  /\ op \in Operations
  /\ pc = "rank"
  /\ i = 1
  /\ rank = 0
  /\ inputsDims = <<>>
  /\ dims = <<>>
  /\ noBroadcast = FALSE
  /\ r = 1
  /\ isScalar = Inputs
  /\ hasBroadcast = {}
  /\ collapsed = 0

UnchangedAnalysis == UNCHANGED <<noBroadcast, r, isScalar, hasBroadcast, collapsed>>

(***************************************************************************)
(* customComputeShape                                                      *)
(***************************************************************************)
LongestRank ==
  /\ pc = "rank"
  /\ i <= Len(op.shapes)
  /\ rank' = IF Len(op.shapes[i]) > rank THEN Len(op.shapes[i]) ELSE rank
  /\ i' = i + 1
  /\ UNCHANGED <<op, pc, inputsDims, dims>>
  /\ UnchangedAnalysis

Padded(s) == [j \in Axes |-> IF j > rank - Len(s) THEN s[j - (rank - Len(s))] ELSE One]

PrependOnes ==
  /\ pc = "rank"
  /\ i > Len(op.shapes)
  /\ inputsDims' = [d \in Inputs |-> Padded(op.shapes[d])]
  /\ dims' = Padded(op.shapes[1])
  /\ pc' = "fold"
  /\ i' = 2
  /\ UNCHANGED <<op, rank>>
  /\ UnchangedAnalysis

IsOne(d) == d.known /\ d.val = 1
NotOne(d) == d.known /\ d.val # 1

MaxDim(c, n) == [known |-> FALSE, val |-> IF n.val > c.val THEN n.val ELSE c.val, name |-> NoName]

(* Slip: a question mark is kept where another input has a literal. *)
CombineQuestionmarkKept(c, n) ==
  IF IsOne(c) THEN (IF op.uni THEN c ELSE n)
  ELSE IF c.known \/ n.known \/ op.uni THEN c
  ELSE MaxDim(c, n)

\* c: the dimension of the output so far; n: that of the next input.
Combine(c, n) ==
  IF IsOne(c) THEN (IF op.uni THEN c ELSE n)
  ELSE IF c.known \/ IsOne(n) THEN c
  ELSE IF n.known THEN n
  ELSE IF op.uni THEN c
  ELSE MaxDim(c, n)

Clash(c, n) == NotOne(c) /\ NotOne(n) /\ c.val # n.val

FoldInput ==
  /\ pc = "fold"
  /\ i <= Len(op.shapes)
  /\ \A j \in Axes : ~Clash(dims[j], inputsDims[i][j])
  /\ dims' = [j \in Axes |-> Combine(dims[j], inputsDims[i][j])]
  /\ i' = i + 1
  /\ UNCHANGED <<op, pc, rank, inputsDims>>
  /\ UnchangedAnalysis

IncompatibleBroadcast ==
  /\ pc = "fold"
  /\ i <= Len(op.shapes)
  /\ \E j \in Axes : Clash(dims[j], inputsDims[i][j])
  /\ pc' = "failed"
  /\ UNCHANGED <<op, i, rank, inputsDims, dims>>
  /\ UnchangedAnalysis

\* T: the dimensions that the type of the output already gives, truly.
SetOutputDims(T) ==
  /\ pc = "fold"
  /\ i > Len(op.shapes)
  /\ dims' = [j \in Axes |-> IF j \in T THEN Lit(op.result[j]) ELSE dims[j]]
  /\ pc' = "inferred"
  /\ UNCHANGED <<op, i, rank, inputsDims>>
  /\ UnchangedAnalysis

(***************************************************************************)
(* hasNoBroadcast                                                          *)
(***************************************************************************)
CanUseDimAnalysis == op.analysis /\ ~op.extra

\* DimAnalysis::sameDim
SameDim(a, b) ==
  IF a.known \/ b.known THEN a.known /\ b.known /\ a.val = b.val
  ELSE a.name = b.name /\ a.name # NoName

\* DimAnalysis::sameShape
SameShape(s, t) == Len(s) = Len(t) /\ \A k \in 1..Len(s) : SameDim(s[k], t[k])

HasNoBroadcast ==
  IF \A d \in Inputs, j \in Axes : inputsDims[d][j].known
  THEN \A j \in Axes : \A d, e \in Inputs : IsOne(inputsDims[d][j]) <=> IsOne(inputsDims[e][j])
  ELSE CanUseDimAnalysis /\ \A d \in Inputs : d = 1 \/ SameShape(op.shapes[1], op.shapes[d])

RuleOutBroadcast ==
  /\ pc = "inferred"
  /\ noBroadcast' = HasNoBroadcast
  /\ pc' = "collapse"
  /\ UNCHANGED <<op, i, rank, inputsDims, dims, r, isScalar, hasBroadcast, collapsed>>

(***************************************************************************)
(* hasManageableBroadcastForInnerDims                                      *)
(***************************************************************************)
Column == rank + 1 - r
Ones == {d \in Inputs : IsOne(inputsDims[d][Column])}

SameSize(a, b) ==
  \/ a.known /\ b.known /\ a.val = b.val
  \/ ~(a.known /\ b.known) /\ CanUseDimAnalysis /\ SameDim(a, b)

LostBroadcastScalar == \E d \in hasBroadcast : d \notin Ones

\* The inputs other than ones have one size, that of the last, nonScalarID.
Compatible ==
  \E nonScalarID \in Inputs \ Ones :
    \A d \in Inputs \ Ones :
      /\ d <= nonScalarID
      /\ d = nonScalarID \/ SameSize(inputsDims[nonScalarID][Column], inputsDims[d][Column])

OneIsNoScalar == \E d \in Ones : d \notin isScalar

(* Slip: an input that was broadcast may stop to be a scalar. *)
ManageableLosesScalar == Ones = Inputs \/ (Compatible /\ ~OneIsNoScalar)

\* Dimension r can be collapsed with those inside it.
Manageable ==
  /\ ~LostBroadcastScalar
  /\ Ones = Inputs \/ (Compatible /\ ~OneIsNoScalar)

CollapseLoop ==
  /\ pc = "collapse"
  /\ r <= rank
  /\ Manageable
  /\ isScalar' = isScalar \cap Ones
  /\ hasBroadcast' = IF Ones = Inputs THEN hasBroadcast ELSE hasBroadcast \cup (isScalar \cap Ones)
  /\ collapsed' = r
  /\ r' = r + 1
  /\ UNCHANGED <<op, pc, i, rank, inputsDims, dims, noBroadcast>>

StopCollapsing ==
  /\ pc = "collapse"
  /\ r <= rank => ~Manageable
  /\ pc' = "analyzed"
  /\ UNCHANGED <<op, i, rank, inputsDims, dims, noBroadcast, r, isScalar, hasBroadcast, collapsed>>

Next ==
  \/ LongestRank
  \/ PrependOnes
  \/ FoldInput
  \/ IncompatibleBroadcast
  \/ \E T \in SUBSET Axes : (op.valid \/ T = {}) /\ SetOutputDims(T)
  \/ RuleOutBroadcast
  \/ CollapseLoop
  \/ StopCollapsing

Spec == Init /\ [][Next]_vars

(***************************************************************************)
(* getAccessExprs: index of operand d in dimension j inside the loop nest,  *)
(* whose index there is l.                                                 *)
(***************************************************************************)
OthersAreOne(d, j) == \A e \in Inputs \ {d} : IsOne(inputsDims[e][j])

(* Slip: a dimension of unknown size is taken not to be broadcast. *)
AccessNoSelect(d, j, l) == IF IsOne(inputsDims[d][j]) THEN 0 ELSE l

Access(d, j, l) ==
  IF IsOne(inputsDims[d][j]) THEN 0
  ELSE IF noBroadcast \/ (op.uni /\ d = 1) \/ OthersAreOne(d, j) THEN l
  ELSE IF inputsDims[d][j].val > 1 THEN l ELSE 0

(***************************************************************************)
(* Properties                                                              *)
(***************************************************************************)

(* The shape the compiler computes, literals and run-time expressions, is   *)
(* the one the inputs have at run time, whatever was known of them; and     *)
(* only operations that cannot run are refused.                             *)
ShapeIsRight ==
  op.valid =>
    /\ pc # "failed"
    /\ pc \in {"inferred", "collapse", "analyzed"} =>
         rank = Len(op.result) /\ \A j \in Axes : dims[j].val = op.result[j]

InnerAxes(n) == {j \in Axes : j > rank - n}

(* Within the collapsed loops an operand is either a single element, and    *)
(* known to be one, or has the shape of the output in all of them: one flat *)
(* index serves for both.                                                   *)
CollapseIsSafe ==
  op.valid =>
    \A d \in Inputs :
      \/ \A j \in InnerAxes(collapsed) : IsOne(inputsDims[d][j])
      \/ \A j \in InnerAxes(collapsed) : inputsDims[d][j].val = op.result[j]

(* In every loop the operand is read where broadcasting says: at the index  *)
(* of the loop, or at 0 if its dimension is 1.                              *)
AccessIsRight ==
  (op.valid /\ pc = "analyzed") =>
    \A d \in Inputs, j \in Axes : \A l \in 0..op.result[j] - 1 :
      Access(d, j, l) = IF inputsDims[d][j].val = 1 THEN 0 ELSE l
=============================================================================
