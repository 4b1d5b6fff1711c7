-------------------------- MODULE ElementwiseLoops --------------------------
(***************************************************************************)
(* The loops generated for an elementwise operation                        *)
(* (src/Conversion/ONNXToKrnl/Math/Elementwise.cpp), on top of the analyses *)
(* of Broadcast: either a loop per dimension of the output, or outer loops  *)
(* around one flat loop over the collapsed dimensions, of vectors of VL     *)
(* elements and, where these do not divide it, a rest of scalars            *)
(* (simdIterateIE, src/Dialect/Mlir/DialectBuilder.hpp.inc). An element of  *)
(* the output is the tuple of the elements of the operands it is computed   *)
(* from; elements are numbered in row-major order.                          *)
(***************************************************************************)
EXTENDS Broadcast

CONSTANTS
  ArchVL,   \* elements of a vector register
  Unrolls   \* unroll factors that register pressure may allow

ASSUME LoopsAssumption == ArchVL \in Nat \ {0, 1} /\ Unrolls \subseteq Nat \ {0}

VARIABLES
  phase,     \* "analysis", "loops" or "done"
  VL,        \* totVL, 1 for no SIMD
  simdOnly,
  flat,      \* number of dimensions collapsed into the innermost loop
  outer,     \* iteration the outer loops have reached
  inner,     \* iteration of the innermost loop
  mem        \* elements of the output that have been stored

loopVars == <<phase, VL, simdOnly, flat, outer, inner, mem>>

\* f[from] * ... * f[to], 1 if there is none.
Product(f, from, to) ==
  LET p[k \in from - 1..to] == IF k < from THEN 1 ELSE p[k - 1] * f[k]
  IN p[to]

Operands == 1..IF op.extra THEN 1 ELSE Len(op.shapes)
Values(ds) == [j \in DOMAIN ds |-> ds[j].val]
Literals(ds) == [j \in DOMAIN ds |-> IF ds[j].known THEN ds[j].val ELSE 1]

InitLoops ==
  /\ Init
  /\ phase = "analysis" /\ VL = 1 /\ simdOnly = FALSE /\ flat = 0 /\ outer = 0 /\ inner = 0
  /\ mem = <<>>

Analyze == Next /\ UNCHANGED loopVars

(***************************************************************************)
(* computeSuitableUnrollFactor: VL and simdOnly for a register pressure     *)
(* that allows to unroll u times.                                          *)
(***************************************************************************)
CanOverCompute == collapsed = rank

IsStatic(axes) == \A j \in axes : dims[j].known

Unroll(u) ==
  LET size == Product(Literals(dims), rank + 1 - collapsed, rank)
      static == IsStatic(InnerAxes(collapsed))
      short == static /\ size < u * ArchVL
      fits == size \div ArchVL
      over == CanOverCompute /\ size % (ArchVL * fits) # 0
      n == IF ~short THEN u ELSE IF over THEN fits + 1 ELSE fits
      none == \/ static /\ size < ArchVL
              \/ short /\ n = 1
              \/ short /\ ~CanOverCompute /\ n = 2 /\ size % (ArchVL * n) # 0
  IN IF none THEN [VL |-> 1, simdOnly |-> FALSE]
     ELSE [VL |-> ArchVL * n,
           simdOnly |-> CanOverCompute \/ (size > 1 /\ size % (ArchVL * n) = 0)]

\* hasAllScalarValues: the operation is computed without a loop.
AllScalar == \A d \in Operands : Len(op.shapes[d]) <= 1 /\ \A j \in Axes : IsOne(inputsDims[d][j])

ChooseLoops(u) ==
  /\ phase = "analysis"
  /\ pc = "analyzed"
  /\ LET s == IF collapsed = 0 \/ AllScalar \/ op.extra
              THEN [VL |-> 1, simdOnly |-> FALSE] ELSE Unroll(u)
     IN /\ VL' = s.VL
        /\ simdOnly' = s.simdOnly
        /\ flat' = IF s.VL > 1 THEN collapsed ELSE 0
  /\ phase' = "loops"
  /\ UNCHANGED vars
  /\ UNCHANGED <<outer, inner, mem>>

(***************************************************************************)
(* The buffer of the output: alignedAllocWithSimdPadding.                  *)
(***************************************************************************)
Total == Product(Values(dims), 1, rank)

(* Slip: the exact padding of a static shape is used for a dynamic one. *)
AllocSizeExactPadding ==
  LET static == Product(Literals(dims), 1, rank)
  IN IF static % VL = 0 THEN Total ELSE Total + (VL - (static % VL))

AllocSize ==
  LET static == Product(Literals(dims), 1, rank)
  IN IF static % VL = 0 THEN Total
     ELSE IF IsStatic(Axes) THEN Total + (VL - (static % VL))
     ELSE Total + VL

(***************************************************************************)
(* The element of operand d that is read in iteration o of the outer loops  *)
(* and l of the innermost one. Flattened (reshapeToFlatInnermost), it is a  *)
(* tensor of its own outer dimensions and one of length InnerSize.          *)
(***************************************************************************)
OuterRank == IF flat > 0 THEN rank - flat ELSE rank
OuterSize == Product(Values(dims), 1, OuterRank)
InnerSize(ds) == Product(Values(ds), OuterRank + 1, rank)

\* Index in dimension j of element number o of the tensor with dimensions ds.
Coordinate(ds, n, o, j) == (o \div Product(ds, j + 1, n)) % ds[j]

\* Number of the element at index in the first n dimensions of ds.
RowMajor(ds, n, index) ==
  LET a[j \in 0..n] == IF j = 0 THEN 0 ELSE a[j - 1] * ds[j] + index[j]
  IN a[n]

(* Slip: only an operand of a single element is taken for a scalar. *)
OneElementInAll(d) == \A j \in Axes : IsOne(inputsDims[d][j])

(* The vectors of operand d are one element, replicated. *)
OneInnermost(d) == \A j \in InnerAxes(flat) : IsOne(inputsDims[d][j])

Source(d, o, l) ==
  LET index == [j \in 1..OuterRank |-> Access(d, j, Coordinate(Values(dims), OuterRank, o, j))]
      outermost == RowMajor(Values(inputsDims[d]), OuterRank, index)
  IN outermost * InnerSize(inputsDims[d]) + IF OneInnermost(d) THEN 0 ELSE l

\* Stores elements l to l + n - 1 of iteration outer.
Store(l, n) ==
  LET lanes == {outer * InnerSize(dims) + l + k : k \in 0..n - 1}
  IN mem' = [e \in DOMAIN mem \cup lanes |->
               IF e \in lanes THEN [d \in Operands |-> Source(d, outer, e - outer * InnerSize(dims))]
               ELSE mem[e]]

(***************************************************************************)
(* The loops.                                                              *)
(***************************************************************************)
SimdUb == IF simdOnly THEN InnerSize(dims) ELSE InnerSize(dims) - (VL - 1)
Completed == InnerSize(dims) - (InnerSize(dims) % VL)
SimdIteration ==
  /\ phase = "loops"
  /\ VL > 1 /\ outer < OuterSize /\ inner < SimdUb
  /\ Store(inner, VL)
  /\ inner' = inner + VL
  /\ UNCHANGED <<phase, VL, simdOnly, flat, outer>>
  /\ UNCHANGED vars

ScalarIteration ==
  /\ phase = "loops"
  /\ outer < OuterSize
  /\ VL > 1 => ~simdOnly /\ inner >= Completed
  /\ inner < InnerSize(dims)
  /\ Store(inner, 1)
  /\ inner' = inner + 1
  /\ UNCHANGED <<phase, VL, simdOnly, flat, outer>>
  /\ UNCHANGED vars

NextOuter ==
  /\ phase = "loops"
  /\ outer < OuterSize
  /\ inner >= IF simdOnly THEN SimdUb ELSE InnerSize(dims)
  /\ outer' = outer + 1
  /\ inner' = 0
  /\ phase' = IF outer + 1 = OuterSize THEN "done" ELSE phase
  /\ UNCHANGED <<VL, simdOnly, flat, mem>>
  /\ UNCHANGED vars

NextLoops ==
  \/ Analyze
  \/ \E u \in Unrolls : ChooseLoops(u)
  \/ SimdIteration
  \/ ScalarIteration
  \/ NextOuter

SpecLoops == InitLoops /\ [][NextLoops]_<<vars, loopVars>>

(***************************************************************************)
(* Properties                                                              *)
(***************************************************************************)

\* The element of operand d that element e of the output is computed from.
Broadcast(d, e) ==
  LET ds == Values(inputsDims[d])
      index == [j \in Axes |-> IF ds[j] = 1 THEN 0 ELSE Coordinate(op.result, rank, e, j)]
  IN RowMajor(ds, rank, index)

(* When the loops are done every element of the output has been computed    *)
(* from the elements of the operands that broadcasting assigns to it:       *)
(* collapsed, vectorized, with a rest or not.                               *)
ElementsRight ==
  (op.valid /\ phase = "done") =>
    \A e \in 0..Product(op.result, 1, rank) - 1 :
      e \in DOMAIN mem /\ \A d \in Operands : mem[e][d] = Broadcast(d, e)

(* Nothing is stored beyond the buffer of the output and its padding, even  *)
(* where the last vector computes more elements than there are.             *)
StoresFit == phase # "analysis" => DOMAIN mem \subseteq 0..AllocSize - 1
=============================================================================
