---------------------------- MODULE DimEquality ----------------------------
(***************************************************************************)
(* What the sets of DimAnalysis promise: the dimensions in one set have the *)
(* same size in every run of the program. Follows says what the operators   *)
(* do to sizes when the program runs; the analysis itself never sees them.  *)
(***************************************************************************)
EXTENDS DimAnalysis

(***************************************************************************)
(* Programs that type-check. Shape elements are used in shapes, and by Cast;*)
(* a Dim of one would be a constant, as the Dim of a known dimension is     *)
(* (DimOpToConstantPattern), which visitDim relies on.                     *)
(***************************************************************************)
Operands(p, t, n) == Len(p[t].ins) = n
OfRank(p, t, n) == Rank(p, t) = n

Typed(p, t) ==
  LET x == p[t].ins
      axes == 1..Rank(p, t)
  IN CASE p[t].op \in {"argument", "constant", "constantOfShape"} -> Operands(p, t, 0)
       [] p[t].op = "dim" -> Operands(p, t, 1) /\ IsUnknown(p, x[1], p[t].attr)
       [] p[t].op = "cast" -> Operands(p, t, 1) /\ Rank(p, x[1]) = Rank(p, t)
       [] p[t].op = "transpose" ->
            /\ Operands(p, t, 1)
            /\ Len(p[t].attrs) = Rank(p, t)
            /\ \A k \in axes : p[t].attrs[k] \in 1..Rank(p, x[1])
       [] p[t].op = "broadcast" ->
            /\ \A i \in DOMAIN x : Rank(p, x[i]) <= Rank(p, t)
            /\ \E i \in DOMAIN x : Rank(p, x[i]) = Rank(p, t)
       [] p[t].op = "matmul" ->
            /\ Operands(p, t, 2)
            /\ \A i \in 1..2 : Rank(p, x[i]) \in 2..Rank(p, t)
            /\ \E i \in 1..2 : Rank(p, x[i]) = Rank(p, t)
       [] p[t].op = "gemm" ->
            /\ Operands(p, t, 2) /\ OfRank(p, t, 2) /\ OfRank(p, x[1], 2) /\ OfRank(p, x[2], 2)
            /\ Len(p[t].attrs) = 2 /\ p[t].attrs[1] \in {0, 1} /\ p[t].attrs[2] \in {0, 1}
       [] p[t].op = "concat" -> x # <<>> /\ \A i \in DOMAIN x : OfRank(p, x[i], Rank(p, t))
       [] p[t].op = "gru" ->
            /\ Operands(p, t, 3) /\ OfRank(p, t, 4)
            /\ OfRank(p, x[1], 3) /\ OfRank(p, x[2], 1) /\ OfRank(p, x[3], 3)
            /\ p[t].attr \in {0, 1}
       [] p[t].op = "centerCropPad" -> Operands(p, t, 1) /\ OfRank(p, x[1], Rank(p, t))
       [] p[t].op = "expand" -> Operands(p, t, 1) /\ Rank(p, x[1]) <= Rank(p, t)
       [] p[t].op = "reshape" -> Operands(p, t, 1)
       [] p[t].op = "tile" -> Operands(p, t, 1) /\ OfRank(p, x[1], Rank(p, t))

WellFormed(p, t) ==
  /\ p[t] \in Tensor
  /\ \A i \in DOMAIN p[t].ins :
       /\ p[t].ins[i] \in DOMAIN p
       /\ p[p[t].ins[i]].elem => p[t].op = "cast" /\ p[t].elem
  /\ \A i \in DOMAIN p[t].shape : p[t].shape[i] \in DOMAIN p /\ p[p[t].shape[i]].elem
  /\ p[t].elem => p[t].dims = <<1>> /\ p[t].op \in {"argument", "constant", "dim", "cast"}
  /\ p[t].op = "dim" => p[t].elem
  /\ p[t].op = "cast" /\ p[t].elem => p[p[t].ins[1]].elem
  /\ p[t].op \in {"constantOfShape", "expand", "reshape", "tile"} => Len(p[t].shape) = Rank(p, t)
  /\ p[t].op = "centerCropPad" =>
       /\ Len(p[t].shape) = Len(p[t].attrs)
       /\ \A i, j \in DOMAIN p[t].attrs : p[t].attrs[i] = p[t].attrs[j] => i = j
  /\ Typed(p, t)

RunOf(p, run) ==
  /\ DOMAIN run.size = DOMAIN p
  /\ \A t \in DOMAIN p : run.size[t] \in Seq(Nat \ {0}) /\ Len(run.size[t]) = Rank(p, t)
  /\ DOMAIN run.elem = DOMAIN p
  /\ \A t \in DOMAIN p : run.elem[t] \in Int

ASSUME ProgramsAssumption ==
  \A i \in DOMAIN Programs :
    LET p == Programs[i].tensors
        unknown == UnknownDims(p, DOMAIN p)
    IN /\ p \in Seq(Tensor)
       /\ \A t \in DOMAIN p : WellFormed(p, t)
       /\ Programs[i].returned \subseteq DOMAIN p
       /\ Programs[i].params \subseteq SUBSET unknown /\ {} \notin Programs[i].params
       /\ \A run \in Programs[i].runs : RunOf(p, run)

Size(run, t, k) == run.size[t][k]
ValueOf(p, run, d) == IF p[d[1]].elem THEN run.elem[d[1]] ELSE Size(run, d[1], d[2])

\* The size that operand x has at axis k of an output of rank n.
SizeAt(p, run, x, k, n) == IF Aligned(p, x, k, n) < 1 THEN 1 ELSE Size(run, x, Aligned(p, x, k, n))

Elements(run, t) == Product(run.size[t], Len(run.size[t]))

BroadcastSizes(p, run, t) ==
  LET x == p[t].ins
  IN \A k \in 1..Rank(p, t) :
       /\ \A i \in DOMAIN x : SizeAt(p, run, x[i], k, Rank(p, t)) \in {1, Size(run, t, k)}
       /\ \E i \in DOMAIN x : SizeAt(p, run, x[i], k, Rank(p, t)) = Size(run, t, k)

MatMulSizes(p, run, t) ==
  LET x == p[t].ins
      n == Rank(p, t)
  IN /\ Size(run, x[1], Rank(p, x[1])) = Size(run, x[2], Rank(p, x[2]) - 1)
     /\ Size(run, t, n - 1) = Size(run, x[1], Rank(p, x[1]) - 1)
     /\ Size(run, t, n) = Size(run, x[2], Rank(p, x[2]))
     /\ \A k \in 1..(n - 2) :
          /\ \A i \in 1..2 : SizeAt(p, run, x[i], k, n) \in {1, Size(run, t, k)}
          /\ \E i \in 1..2 : SizeAt(p, run, x[i], k, n) = Size(run, t, k)

GemmSizes(p, run, t) ==
  LET a == p[t].ins[1]
      b == p[t].ins[2]
      ta == p[t].attrs[1]
      tb == p[t].attrs[2]
  IN /\ Size(run, a, 2 - ta) = Size(run, b, 1 + tb)
     /\ run.size[t] = <<Size(run, a, 1 + ta), Size(run, b, 2 - tb)>>

Joined(run, x, k) == FoldLeft(LAMBDA n, u : n + Size(run, u, k), 0, x)

ConcatSizes(p, run, t) ==
  LET x == p[t].ins
  IN \A k \in 1..Rank(p, t) :
       IF k = p[t].attr
       THEN Size(run, t, k) = Joined(run, x, k)
       ELSE \A i \in DOMAIN x : Size(run, x[i], k) = Size(run, t, k)

\* X [seq, batch, in], sequence_lens [batch], initial_h [dirs, batch, hidden]; or batch first.
GruSizes(p, run, t) ==
  LET x == p[t].ins
      late == p[t].attr = 0
      batch == Size(run, x[1], IF late THEN 2 ELSE 1)
      seq == Size(run, x[1], IF late THEN 1 ELSE 2)
      dirs == Size(run, x[3], IF late THEN 1 ELSE 2)
      hidden == Size(run, x[3], 3)
  IN /\ run.size[x[2]] = <<batch>>
     /\ Size(run, x[3], IF late THEN 2 ELSE 1) = batch
     /\ run.size[t] = IF late THEN <<seq, dirs, batch, hidden>> ELSE <<batch, seq, dirs, hidden>>

ReshapeSizes(p, run, t) ==
  LET x == p[t].ins[1]
      wanted(k) == run.elem[p[t].shape[k]]
  IN /\ Elements(run, x) = Elements(run, t)
     /\ \A k \in 1..Rank(p, t) :
          CASE wanted(k) = 0 -> Size(run, t, k) = Size(run, x, k)
            [] wanted(k) > 0 -> Size(run, t, k) = wanted(k)
            [] OTHER -> TRUE

ExpandSizes(p, run, t) ==
  LET x == p[t].ins[1]
  IN \A k \in 1..Rank(p, t) :
       /\ {SizeAt(p, run, x, k, Rank(p, t)), run.elem[p[t].shape[k]]} \subseteq {1, Size(run, t, k)}
       /\ Size(run, t, k) \in {SizeAt(p, run, x, k, Rank(p, t)), run.elem[p[t].shape[k]]}

CropSizes(p, run, t) ==
  \A k \in 1..Rank(p, t) :
    IF k \in Range(p[t].attrs)
    THEN \A i \in DOMAIN p[t].attrs : p[t].attrs[i] = k => Size(run, t, k) = run.elem[p[t].shape[i]]
    ELSE Size(run, t, k) = Size(run, p[t].ins[1], k)

\* The sizes of t are what its operator makes of those of its operands.
Follows(p, run, t) ==
  LET x == p[t].ins
  IN CASE p[t].op = "argument" -> TRUE
       [] p[t].op = "constant" -> run.elem[t] = p[t].attr
       [] p[t].op = "dim" -> run.elem[t] = Size(run, x[1], p[t].attr)
       [] p[t].op = "cast" -> run.size[t] = run.size[x[1]] /\ run.elem[t] = run.elem[x[1]]
       [] p[t].op = "transpose" -> \A k \in 1..Rank(p, t) : Size(run, t, k) = Size(run, x[1], p[t].attrs[k])
       [] p[t].op = "broadcast" -> BroadcastSizes(p, run, t)
       [] p[t].op = "matmul" -> MatMulSizes(p, run, t)
       [] p[t].op = "gemm" -> GemmSizes(p, run, t)
       [] p[t].op = "concat" -> ConcatSizes(p, run, t)
       [] p[t].op = "gru" -> GruSizes(p, run, t)
       [] p[t].op = "constantOfShape" -> \A k \in 1..Rank(p, t) : Size(run, t, k) = run.elem[p[t].shape[k]]
       [] p[t].op = "centerCropPad" -> CropSizes(p, run, t)
       [] p[t].op = "expand" -> ExpandSizes(p, run, t)
       [] p[t].op = "reshape" -> ReshapeSizes(p, run, t)
       [] p[t].op = "tile" ->
            \A k \in 1..Rank(p, t) : Size(run, t, k) = Size(run, x[1], k) * run.elem[p[t].shape[k]]

\* A run of the program: its types and dim_params are right, and every operator succeeds.
Legal(p, params, run) ==
  /\ \A t \in DOMAIN p :
       /\ \A k \in 1..Rank(p, t) : ~IsUnknown(p, t, k) => Size(run, t, k) = p[t].dims[k]
       /\ Follows(p, run, t)
  /\ \A g \in params : \A d, e \in g : ValueOf(p, run, d) = ValueOf(p, run, e)

LegalRuns == {run \in Programs[prog].runs : Legal(Tensors, Programs[prog].params, run)}

(***************************************************************************)
(* What the analysis takes for granted. Plain: the operands that agree are  *)
(* not broadcast to a third, a dimension of a matrix product that both      *)
(* operands leave open is not broadcast from A, and a shape asks for        *)
(* the sizes it gets, except by a constant.                                *)
(***************************************************************************)
Plain(p, run, t) ==
  LET x == p[t].ins
      asked(k) == p[p[t].shape[k]].op = "constant" \/ run.elem[p[t].shape[k]] = Size(run, t, k)
  IN CASE p[t].op = "broadcast" ->
            Len(x) <= 2 \/ \A i \in DOMAIN x : run.size[x[i]] = run.size[t]
       [] p[t].op = "matmul" ->
            \A k \in 1..(Rank(p, t) - 2) :
              ~LiteralOne(p, x[1], k, Rank(p, t)) => SizeAt(p, run, x[1], k, Rank(p, t)) = Size(run, t, k)
       [] p[t].op \in {"expand", "reshape"} -> \A k \in 1..Rank(p, t) : asked(k)
       [] OTHER -> TRUE

PlainRuns == {run \in LegalRuns : \A t \in DOMAIN Tensors : Plain(Tensors, run, t)}

EqualIn(runs) ==
  \A key \in DOMAIN sets : \A d, e \in sets[key] :
    \A run \in runs : ValueOf(Tensors, run, d) = ValueOf(Tensors, run, e)

(***************************************************************************)
(* Dimensions of one set are equal in every run in which the operators do   *)
(* what the analysis takes for granted, at every moment of the analysis and *)
(* whatever the order in which sets are visited and merged. sameDim and     *)
(* sameShape are used while it runs (DimAnalysis::visitDim) and after it,   *)
(* to drop broadcasting from the code (hasNoBroadcast).                    *)
(***************************************************************************)
GroupsAreEqual == EqualIn(PlainRuns)

(***************************************************************************)
(* Every member of a set is one that visitDim may be given: the assertion   *)
(* there, that no static dimension is in the analysis, holds. And it is a   *)
(* dimension that its tensor has: DimGroup is created for each, and         *)
(* getShape()[axis] is read, with no check.                                *)
(***************************************************************************)
DimsExist ==
  LET members == UNION Range(sets)
  IN /\ \A d \in members : Visitable(Tensors, d)
     /\ PlainRuns # {} => \A d \in members : Tensors[d[1]].elem \/ d[2] \in 1..Rank(Tensors, d[1])

(***************************************************************************)
(* When the analysis stops, there is nothing left to find: a visit of any   *)
(* dimension, with the sets as they are then, yields members of its own set.*)
(***************************************************************************)
AtFixpoint == pc = "done" => \A key \in DOMAIN sets : Visited(key) \subseteq sets[key]

(***************************************************************************)
(* The reference for the order of visits: all dimensions are visited at     *)
(* once, with the groups as they are, and each group joined to those it     *)
(* overlaps; Together is what n such rounds make of the initial groups.     *)
(***************************************************************************)
AtOnce(p, groups) ==
  LET grown == {g \cup UNION {VisitDim(p, groups, d) : d \in g} : g \in groups}
  IN {UNION {h \in grown : h \cap g # {}} : g \in grown}

Together(program, n) ==
  LET after[k \in 0..n] ==
        IF k = 0 THEN Range(BuiltOf(program)) ELSE AtOnce(program.tensors, after[k - 1])
  IN after[n]

\* Nothing to find, nothing to merge.
Settled(p, groups) ==
  /\ \A g, h \in groups : g # h => g \cap h = {}
  /\ \A g \in groups : \A d \in g : VisitDim(p, groups, d) \subseteq g

Rounds(program) == 0..Len(program.tensors)

(***************************************************************************)
(* The order in which a DenseMap yields its entries, and that of merging,   *)
(* do not matter: the compiler makes the same code of the same program. The *)
(* groups found are those of the reference, once it has settled, or         *)
(* nothing was found, and the initial groups are not merged then.           *)
(***************************************************************************)
OrderIrrelevant ==
  pc = "done" =>
    \/ sets = Built
    \/ \A n \in Rounds(Programs[prog]) :
         LET groups == Together(Programs[prog], n)
         IN Settled(Tensors, groups) => Range(sets) = groups

(***************************************************************************)
(* The analysis comes to an end, although visits keep adding dimensions, of *)
(* shape elements too, and merging takes place in between.                 *)
(***************************************************************************)
Terminates == <>(pc = "done")
=============================================================================
