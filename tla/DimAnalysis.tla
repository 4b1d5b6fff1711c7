---------------------------- MODULE DimAnalysis ----------------------------
(***************************************************************************)
(* DimAnalysis (src/Dialect/ONNX/ONNXDimAnalysis.cpp) groups the dimensions *)
(* of a program that are unknown at compile time and equal whenever it runs.*)
(* It starts with a set per dimension, adds to each set what the consumers  *)
(* and the definitions of its members tell, merges the sets that overlap,   *)
(* and repeats until a round adds nothing.                                  *)
(*                                                                         *)
(* A program is a sequence of tensors, each with the operation that defines *)
(* it; a tensor is named by its position, and axes count from 1. A DimT is  *)
(* a pair <<tensor, axis>>. For a tensor that is an element of a shape (one *)
(* int64 number, operand of the Concat that makes the shape) it stands for  *)
(* the number the tensor contains.                                          *)
(***************************************************************************)
EXTENDS Integers, Sequences, FiniteSets, FiniteSetsExt, SequencesExt

CONSTANT Programs   \* a sequence of programs

Unknown == 0        \* ShapedType::kDynamic; the sizes known and met are positive

Operators ==
  {"argument", "constant", "dim", "cast", "transpose", "broadcast", "matmul", "gemm", "concat",
   "gru", "constantOfShape", "centerCropPad", "expand", "reshape", "tile"}

(***************************************************************************)
(* ins: operands; shape: the elements of the shape operand, if there is one;*)
(* attr: the axis of dim and concat, the layout of gru, allowzero of        *)
(* reshape, the value of a constant; attrs: perm of transpose, transA and   *)
(* transB of gemm, axes of centerCropPad. elem: an element of a shape.      *)
(* broadcast is any elementwise operation, with one operand or more.        *)
(***************************************************************************)
Tensor ==
  [op : Operators, ins : Seq(Nat), shape : Seq(Nat), attr : Int, attrs : Seq(Nat),
   dims : Seq(Nat), elem : BOOLEAN]

VARIABLES
  prog,     \* the program: an index of Programs
  sets,     \* dimSetMap
  todo,     \* keys of sets the loop of updateDimSets has not reached
  updated,  \* of updateDimSets
  pc

vars == <<prog, sets, todo, updated, pc>>

-----------------------------------------------------------------------------
(***************************************************************************)
(* In what follows p is the sequence of the tensors of a program.           *)
(***************************************************************************)
Rank(p, t) == Len(p[t].dims)
IsUnknown(p, t, k) == k \in 1..Rank(p, t) /\ p[t].dims[k] = Unknown
UnknownDims(p, ts) == UNION {{<<t, k>> : k \in {j \in 1..Rank(p, t) : IsUnknown(p, t, j)}} : t \in ts}

\* insertDimWhenUseful: what is inserted for axis k of tensor t.
Useful(p, t, k) ==
  CASE p[t].op = "constant" -> {}
    [] p[t].op = "dim" -> {<<t, p[t].attr>>}
    [] p[t].op \in {"argument", "cast"} -> {<<t, k>>}
    [] OTHER -> {d \in {<<t, k>>} : IsUnknown(p, t, k)}

AllUseful(p, ds) == UNION {Useful(p, d[1], d[2]) : d \in ds}

(***************************************************************************)
(* exploreSameDimsFromConsumingOperators: the dimensions of its operands    *)
(* that operation u needs to be equal.                                     *)
(***************************************************************************)
Meeting(p, u) ==
  LET x == p[u].ins
  IN CASE p[u].op = "concat" ->
            {{<<x[i], k>> : i \in DOMAIN x} : k \in (1..Rank(p, x[1])) \ {p[u].attr}}
       [] p[u].op = "gemm" -> {{<<x[1], 2 - p[u].attrs[1]>>, <<x[2], 1 + p[u].attrs[2]>>}}
       [] p[u].op = "matmul" -> {{<<x[1], Rank(p, x[1])>>, <<x[2], Rank(p, x[2]) - 1>>}}
       [] p[u].op = "gru" -> {{<<x[1], 2 - p[u].attr>>, <<x[2], 1>>, <<x[3], 2 - p[u].attr>>}}
       [] OTHER -> {}

FromConsumers(p, d) ==
  UNION {AllUseful(p, g \ {d}) : g \in {h \in UNION {Meeting(p, u) : u \in DOMAIN p} : d \in h}}

(***************************************************************************)
(* exploreSameDimsUsingShapeHelper: the question mark that the shape helper *)
(* of the operation that defines t gives its axis k, if it is the one of a  *)
(* dimension of an operand.                                                *)
(***************************************************************************)
\* The axis of operand x that meets axis k of an output of rank n.
Aligned(p, x, k, n) == k - (n - Rank(p, x))
LiteralOne(p, x, k, n) == Aligned(p, x, k, n) < 1 \/ p[x].dims[Aligned(p, x, k, n)] = 1
IsConstant(p, t, v) == p[t].op = "constant" /\ p[t].attr = v

BroadcastHelper(p, t, k) ==
  LET x == p[t].ins
      n == Rank(p, t)
      wide == {i \in DOMAIN x : ~LiteralOne(p, x[i], k, n)}
  IN IF Cardinality(wide) = 1 THEN {<<x[i], Aligned(p, x[i], k, n)>> : i \in wide} ELSE {}

MatMulHelper(p, t, k) ==
  LET a == p[t].ins[1]
      b == p[t].ins[2]
      n == Rank(p, t)
      fromB == k = n \/ (k < n - 1 /\ LiteralOne(p, a, k, n))
      fromA == k = n - 1 \/ LiteralOne(p, b, k, n) \/ IsUnknown(p, b, Aligned(p, b, k, n))
  IN IF fromB THEN {<<b, Aligned(p, b, k, n)>>}
     ELSE {d \in {<<a, Aligned(p, a, k, n)>>} : fromA}

GemmHelper(p, t, k) ==
  {IF k = 1 THEN <<p[t].ins[1], 1 + p[t].attrs[1]>> ELSE <<p[t].ins[2], 2 - p[t].attrs[2]>>}

ConcatHelper(p, t, k) ==
  IF \A i \in DOMAIN p[t].ins : IsUnknown(p, p[t].ins[i], k)
  THEN {<<p[t].ins[1], d>> : d \in {k} \ {p[t].attr}}
  ELSE {}

\* Y is [seq, dirs, batch, hidden], or [batch, seq, dirs, hidden] for layout 1.
GruHelper(p, t, k) ==
  LET axis == IF p[t].attr = 1 THEN <<1, 2, 0, 0>> ELSE <<1, 0, 2, 0>>
  IN {<<p[t].ins[1], axis[i]>> : i \in {j \in {k} : axis[j] # 0}}

(***************************************************************************)
(* Reshape: the dimensions of data that shape repeats are left out when the *)
(* dimension at -1 is computed; it is a dimension of data only if nothing   *)
(* but ones is left besides.                                               *)
(***************************************************************************)
RefData(p, x) == IF p[x].op = "matmul" /\ Rank(p, p[x].ins[2]) = 2 THEN p[x].ins[1] ELSE x

Repeats(p, t) ==
  {i \in DOMAIN p[t].shape :
     p[p[t].shape[i]].op = "dim" /\ p[p[t].shape[i]].ins[1] = RefData(p, p[t].ins[1])}

IsBijective(p, t) ==
  LET x == p[t].ins[1]
      axis(i) == p[p[t].shape[i]].attr
  IN /\ \A i, j \in Repeats(p, t) : axis(i) = axis(j) => i = j
     /\ RefData(p, x) # x => \A i \in Repeats(p, t) : axis(i) # Rank(p, RefData(p, x))

ReshapeHelper(p, t, k) ==
  LET x == p[t].ins[1]
      ignored == IF IsBijective(p, t) THEN Repeats(p, t) ELSE {}
      left == (1..Rank(p, x)) \ {p[p[t].shape[i]].attr : i \in ignored}
      wide == {j \in left : p[x].dims[j] # 1}
      copies(i) == IsConstant(p, p[t].shape[i], 0) /\ p[t].attr = 0 /\ i <= Rank(p, x)
      one(i) == IsConstant(p, p[t].shape[i], 1) \/ (copies(i) /\ p[x].dims[i] = 1)
  IN CASE copies(k) -> {<<x, k>>}
       [] /\ IsConstant(p, p[t].shape[k], -1)
          /\ Cardinality(wide) = 1
          /\ \A i \in (1..Rank(p, t)) \ (ignored \cup {k}) : one(i) -> {<<x, j>> : j \in wide}
       [] OTHER -> {}

HelperDims(p, t, k) ==
  LET x == p[t].ins
      n == Rank(p, t)
  IN CASE p[t].op = "transpose" -> {<<x[1], p[t].attrs[k]>>}
       [] p[t].op = "broadcast" -> BroadcastHelper(p, t, k)
       [] p[t].op = "matmul" -> MatMulHelper(p, t, k)
       [] p[t].op = "gemm" -> GemmHelper(p, t, k)
       [] p[t].op = "concat" -> ConcatHelper(p, t, k)
       [] p[t].op = "gru" -> GruHelper(p, t, k)
       [] p[t].op = "expand" /\ IsConstant(p, p[t].shape[k], 1) -> {<<x[1], Aligned(p, x[1], k, n)>>}
       [] p[t].op = "tile" /\ IsConstant(p, p[t].shape[k], 1) -> {<<x[1], k>>}
       [] p[t].op = "reshape" -> ReshapeHelper(p, t, k)
       [] OTHER -> {}

FromHelper(p, t, k) == {d \in HelperDims(p, t, k) : IsUnknown(p, d[1], d[2])}

\* exploreSameDimsUsingShapeInput: the element of the shape for axis k of t.
ShapeElements(p, t, k) ==
  CASE p[t].op \in {"constantOfShape", "expand"} -> {k}
    [] p[t].op = "centerCropPad" -> {i \in DOMAIN p[t].attrs : p[t].attrs[i] = k}
    [] p[t].op = "reshape" /\ p[t].attr = 0 -> {k}
    [] p[t].op = "tile" /\ p[p[t].ins[1]].dims[k] = 1 -> {k}
    [] OTHER -> {}

FromShapeInput(p, t, k) == UNION {Useful(p, p[t].shape[i], i) : i \in ShapeElements(p, t, k)}

-----------------------------------------------------------------------------
(***************************************************************************)
(* sameDim, with the groups found so far                                   *)
(***************************************************************************)
SameDim(p, groups, a, k, b, l) ==
  \/ a = b /\ k = l
  \/ /\ p[a].dims[k] = p[b].dims[l]
     /\ p[a].dims[k] = Unknown => \E g \in groups : {<<a, k>>, <<b, l>>} \subseteq g

(* Slip: the index is counted from the end of the shorter operand. *)
CountedBackShorter(p, t, k, i, j) == (k - 1) - Min({Rank(p, p[t].ins[i]), Rank(p, p[t].ins[j])})

\* negativeIndex of axis k for operands i and j; not negative if both are shorter than the output.
CountedBack(p, t, k, i, j) == (k - 1) - Max({Rank(p, p[t].ins[i]), Rank(p, p[t].ins[j])})

\* handleAndTestInBound, and back to an axis that counts from 1.
Axis(p, x, n) == IF n < 0 THEN Rank(p, x) + n + 1 ELSE n + 1

SameAt(p, groups, t, k, i, j) ==
  LET x == p[t].ins
      back == CountedBack(p, t, k, i, j)
  IN /\ Axis(p, x[i], back) \in 1..Rank(p, x[i])
     /\ Axis(p, x[j], back) \in 1..Rank(p, x[j])
     /\ SameDim(p, groups, x[i], Axis(p, x[i], back), x[j], Axis(p, x[j], back))

\* Operands of an operation that broadcasts, two by two.
EqualOperands(p, groups, t, k) ==
  LET x == p[t].ins
  IN UNION {UNION {Useful(p, x[i], Rank(p, x[i]) + CountedBack(p, t, k, i, j) + 1) :
                     j \in {l \in DOMAIN x : i < l /\ SameAt(p, groups, t, k, i, l)}} : i \in DOMAIN x}

\* The product of the first n numbers of f.
Product(f, n) ==
  LET p[k \in 0..n] == IF k = 0 THEN 1 ELSE p[k - 1] * f[k]
  IN p[n]

(* Slip: the sizes of the known dimensions are not compared. *)
OnlyUnknownAnySize(p, t) ==
  LET x == p[t].ins[1]
      unknown(u) == {k \in 1..Rank(p, u) : IsUnknown(p, u, k)}
  IN IF Cardinality(unknown(x)) = 1 /\ Cardinality(unknown(t)) = 1
     THEN {<<x, k>> : k \in unknown(x)}
     ELSE {}

\* Reshape, case 1: the only unknown dimension on either side.
OnlyUnknown(p, t) ==
  LET x == p[t].ins[1]
      unknown(u) == {k \in 1..Rank(p, u) : IsUnknown(p, u, k)}
      known(u) == [k \in 1..Rank(p, u) |-> IF IsUnknown(p, u, k) THEN 1 ELSE p[u].dims[k]]
      size(u) == Product(known(u), Rank(p, u))
  IN IF Cardinality(unknown(x)) = 1 /\ Cardinality(unknown(t)) = 1 /\ size(x) = size(t)
     THEN {<<x, k>> : k \in unknown(x)}
     ELSE {}

\* Reshape, case 2: of two dimensions into two, one of them the same.
OtherOfTwo(p, groups, t, k) ==
  LET x == p[t].ins[1]
      same(i) == SameDim(p, groups, x, i, t, 3 - k)
  IN IF Rank(p, x) # 2 \/ Rank(p, t) # 2 THEN {}
     ELSE IF same(1) THEN {<<x, 2>>}
     ELSE {<<x, 1>> : i \in {j \in {2} : same(j)}}

SpecialCases(p, groups, t, k) ==
  CASE p[t].op \in {"broadcast", "matmul"} -> EqualOperands(p, groups, t, k)
    [] p[t].op = "reshape" /\ p[t].attr = 0 -> AllUseful(p, OnlyUnknown(p, t) \cup OtherOfTwo(p, groups, t, k))
    [] OTHER -> {}

FromDefinition(p, groups, t, k) ==
  LET x == p[t].ins
  IN CASE p[t].op \in {"argument", "constant"} -> {}
       [] p[t].op = "dim" -> {<<x[1], p[t].attr>>}
       [] p[t].op = "cast" -> Useful(p, x[1], k)
       [] OTHER -> FromHelper(p, t, k) \cup FromShapeInput(p, t, k) \cup SpecialCases(p, groups, t, k)

\* What visitDim asserts of the dimension it is given.
Visitable(p, d) ==
  p[d[1]].op \in {"argument", "constant", "dim", "cast"} \/ IsUnknown(p, d[1], d[2])

VisitDim(p, groups, d) == FromConsumers(p, d) \cup FromDefinition(p, groups, d[1], d[2])

-----------------------------------------------------------------------------
(***************************************************************************)
(* The constructor: buildFunctionArgsRes groups the dimensions of arguments *)
(* and results by dim_param, then the result of every operation gets a set  *)
(* for each dimension, a returned one for the second time.                  *)
(***************************************************************************)
\* setCounter numbers the sets; here the key is what the set starts with, and why.
BuiltOf(program) ==
  LET tensors == program.tensors
      arguments == {t \in DOMAIN tensors : tensors[t].op = "argument"}
      grouped == program.params
      alone == UnknownDims(tensors, arguments \cup program.returned) \ UNION grouped
      results == UnknownDims(tensors, DOMAIN tensors \ arguments)
  IN [key \in ({"function"} \X (grouped \cup {{d} : d \in alone}))
                \cup ({"operation"} \X {{d} : d \in results}) |-> key[2]]

Tensors == Programs[prog].tensors
Built == BuiltOf(Programs[prog])

Init ==
  /\ prog \in DOMAIN Programs
  /\ sets = Built
  /\ todo = DOMAIN sets
  /\ updated = FALSE
  /\ pc = "visit"

Visited(key) == UNION {VisitDim(Tensors, Range(sets), d) : d \in sets[key]}

(* Slip: whether anything was added is judged by the last set only. *)
VisitSetForgets(key) ==
  /\ pc = "visit"
  /\ key \in todo
  /\ sets' = [sets EXCEPT ![key] = @ \cup Visited(key)]
  /\ updated' = ~(Visited(key) \subseteq sets[key])
  /\ todo' = todo \ {key}
  /\ UNCHANGED <<prog, pc>>

(* Slip: a set counts as updated if its visit finds anything, old or new. *)
VisitSetAlways(key) ==
  /\ pc = "visit"
  /\ key \in todo
  /\ sets' = [sets EXCEPT ![key] = @ \cup Visited(key)]
  /\ updated' = (updated \/ Visited(key) # {})
  /\ todo' = todo \ {key}
  /\ UNCHANGED <<prog, pc>>

\* updateDimSets: one set of the map, in whichever order it is iterated.
VisitSet(key) ==
  /\ pc = "visit"
  /\ key \in todo
  /\ sets' = [sets EXCEPT ![key] = @ \cup Visited(key)]
  /\ updated' = (updated \/ ~(Visited(key) \subseteq sets[key]))
  /\ todo' = todo \ {key}
  /\ UNCHANGED <<prog, pc>>

\* analyze: merge if the round updated a set, stop if it did not.
EndRound ==
  /\ pc = "visit"
  /\ todo = {}
  /\ pc' = IF updated THEN "merge" ELSE "done"
  /\ UNCHANGED <<prog, sets, todo, updated>>

Overlapping(l, r) == l # r /\ sets[l] \cap sets[r] # {}

\* mergeDimSets: the right one of two overlapping sets goes into the left one.
MergeSets(l, r) ==
  /\ pc = "merge"
  /\ Overlapping(l, r)
  /\ sets' = [k \in DOMAIN sets \ {r} |-> IF k = l THEN sets[l] \cup sets[r] ELSE sets[k]]
  /\ UNCHANGED <<prog, todo, updated, pc>>

(* Slip: the sets are gone through once, not until no two of them overlap. *)
EndMergeEarly ==
  /\ pc = "merge"
  /\ pc' = "visit"
  /\ todo' = DOMAIN sets
  /\ updated' = FALSE
  /\ UNCHANGED <<prog, sets>>

EndMerge ==
  /\ pc = "merge"
  /\ \A l, r \in DOMAIN sets : ~Overlapping(l, r)
  /\ pc' = "visit"
  /\ todo' = DOMAIN sets
  /\ updated' = FALSE
  /\ UNCHANGED <<prog, sets>>

Next ==
  \/ \E key \in DOMAIN sets : VisitSet(key)
  \/ EndRound
  \/ \E l, r \in DOMAIN sets : MergeSets(l, r)
  \/ EndMerge

Spec == Init /\ [][Next]_vars /\ WF_vars(Next)

TypeOK ==
  /\ prog \in DOMAIN Programs
  /\ \A key \in DOMAIN sets : sets[key] \subseteq (DOMAIN Tensors) \X Nat
  /\ todo \subseteq DOMAIN sets
  /\ updated \in BOOLEAN
  /\ pc \in {"visit", "merge", "done"}
=============================================================================
