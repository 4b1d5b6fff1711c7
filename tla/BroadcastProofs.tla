--------------------------- MODULE BroadcastProofs ---------------------------
(***************************************************************************)
(* Proofs about Broadcast and about the loops of ElementwiseLoops, for any  *)
(* number of inputs of any rank.  The sizes of a shape are multiplied and   *)
(* the elements of a tensor numbered by recursive functions: the lemmas on  *)
(* products and on row-major numbers come between the two parts.            *)
(***************************************************************************)
EXTENDS ElementwiseLoops, WellFoundedInduction, TLAPS

(* What the code may rely on, written out for the operation at hand. *)
LEMMA OpFacts ==
  ASSUME NEW o \in Operations
  PROVE  /\ o.shapes \in Seq(Seq(Dim)) /\ o.result \in Seq(Nat \ {0})
         /\ Len(o.shapes) \in Nat /\ Len(o.shapes) >= 1 /\ Len(o.result) \in Nat
         /\ \A d \in 1..Len(o.shapes) :
              /\ o.shapes[d] \in Seq(Dim) /\ Len(o.shapes[d]) \in Nat
              /\ \A k \in 1..Len(o.shapes[d]) : o.shapes[d][k] \in Dim
         /\ \A j \in 1..Len(o.result) : o.result[j] \in Nat \ {0}
         /\ o.valid \in BOOLEAN /\ o.uni \in BOOLEAN
<1>1. o \in Operation /\ o.shapes # <<>>
  BY OperationsAssumption
<1>2. /\ o.shapes \in Seq(Seq(Dim)) /\ o.result \in Seq(Nat \ {0})
      /\ o.valid \in BOOLEAN /\ o.uni \in BOOLEAN
  BY <1>1 DEF Operation
<1>3. Len(o.shapes) \in Nat /\ Len(o.shapes) >= 1 /\ Len(o.result) \in Nat
  BY <1>1, <1>2
<1>4. ASSUME NEW d \in 1..Len(o.shapes)
      PROVE  /\ o.shapes[d] \in Seq(Dim) /\ Len(o.shapes[d]) \in Nat
             /\ \A k \in 1..Len(o.shapes[d]) : o.shapes[d][k] \in Dim
  BY <1>2, <1>3
<1>5. \A j \in 1..Len(o.result) : o.result[j] \in Nat \ {0}
  BY <1>2
<1> QED BY <1>2, <1>3, <1>4, <1>5

(***************************************************************************)
(* The rank, and the dimensions of the inputs brought to it.                *)
(***************************************************************************)
RankInv ==
  pc = "rank" =>
    /\ i \in 1..Len(op.shapes) + 1
    /\ \A d \in 1..i - 1 : Len(op.shapes[d]) <= rank
    /\ rank = 0 \/ \E d \in 1..i - 1 : Len(op.shapes[d]) = rank

DimsInv ==
  pc # "rank" =>
    /\ \A d \in Inputs : Len(op.shapes[d]) <= rank
    /\ \E d \in Inputs : Len(op.shapes[d]) = rank
    /\ inputsDims = [d \in Inputs |-> Padded(op.shapes[d])]
    /\ pc = "fold" => i \in 2..Len(op.shapes) + 1

LEMMA PaddedFacts ==
  ASSUME NEW s, s \in Seq(Dim), Len(s) \in Nat, rank \in Nat, Len(s) <= rank
  PROVE  Padded(s) \in [Axes -> Dim]
<1>1. One \in Dim
  BY DEF One, Lit, Dim
<1>2. ASSUME NEW j \in Axes, j > rank - Len(s)
      PROVE  s[j - (rank - Len(s))] \in Dim
  <2>1. j - (rank - Len(s)) \in 1..Len(s)
    BY <1>2 DEF Axes
  <2> QED BY <2>1
<1> QED BY <1>1, <1>2 DEF Padded

(***************************************************************************)
(* The columns of a valid operation: what the inputs have at a position of  *)
(* the broadcast shape.                                                    *)
(***************************************************************************)
Columns ==
  /\ rank = Len(op.result)
  /\ \A j \in Axes :
       /\ op.result[j] \in Nat \ {0}
       /\ \A d \in Inputs : inputsDims[d][j] \in Dim /\ inputsDims[d][j].val \in {1, op.result[j]}
       /\ \E d \in Inputs : inputsDims[d][j].val = op.result[j]
       /\ op.uni => inputsDims[1][j].val = op.result[j]

LEMMA RankIsLen ==
  ASSUME op \in Operations, rank \in Nat, pc # "rank", DimsInv, op.valid
  PROVE  rank = Len(op.result)
<1>1. Broadcasts(op) /\ Len(op.result) \in Nat /\ Len(op.shapes) \in Nat
  BY OpFacts, OperationsAssumption
<1>2. \A d \in 1..Len(op.shapes) : Len(op.shapes[d]) \in Nat
  BY OpFacts
<1>3. PICK d \in Inputs : Len(op.shapes[d]) = rank
  BY DEF DimsInv
<1>4. PICK e \in Inputs : Len(op.shapes[e]) = Len(op.result)
  BY <1>1 DEF Broadcasts, Inputs
<1>5. Len(op.shapes[d]) <= Len(op.result)
  BY <1>1 DEF Broadcasts, Inputs
<1>6. Len(op.shapes[e]) <= rank
  BY DEF DimsInv
<1> QED BY <1>1, <1>2, <1>3, <1>4, <1>5, <1>6

LEMMA ColumnFacts == TypeOK /\ DimsInv /\ pc # "rank" /\ op.valid => Columns
<1> SUFFICES ASSUME TypeOK, DimsInv, pc # "rank", op.valid PROVE Columns
  OBVIOUS
<1>0. /\ op \in Operations /\ rank \in Nat /\ Len(op.shapes) \in Nat /\ Len(op.shapes) >= 1
      /\ Broadcasts(op)
      /\ \A d \in Inputs : Len(op.shapes[d]) \in Nat
      /\ inputsDims = [d \in Inputs |-> Padded(op.shapes[d])]
  BY OpFacts, OperationsAssumption DEF TypeOK, DimsInv, Inputs
<1>1. rank = Len(op.result)
  BY <1>0, RankIsLen
<1>2. ASSUME NEW j \in Axes, NEW d \in Inputs
      PROVE  inputsDims[d][j].val = ValueAt(op, op.shapes[d], j)
  <2>1. inputsDims[d][j] = IF j > rank - Len(op.shapes[d])
                           THEN op.shapes[d][j - (rank - Len(op.shapes[d]))] ELSE One
    BY <1>0, <1>2 DEF Padded
  <2>2. j > rank - Len(op.shapes[d]) <=> j - (Len(op.result) - Len(op.shapes[d])) >= 1
    <3>1. Len(op.shapes[d]) \in Nat /\ rank \in Nat /\ j \in Int
      BY <1>0, <1>2 DEF Axes
    <3>2. \A a, b, c \in Int : a > b - c <=> a - (b - c) >= 1
      OBVIOUS
    <3>3. j > rank - Len(op.shapes[d]) <=> j - (rank - Len(op.shapes[d])) >= 1
      BY <3>1, <3>2
    <3> QED BY <1>1, <3>3
  <2>3. One.val = 1
    BY DEF One, Lit
  <2> QED BY <1>1, <2>1, <2>2, <2>3 DEF ValueAt
<1>3. ASSUME NEW j \in Axes
      PROVE  /\ op.result[j] \in Nat \ {0}
             /\ \A d \in Inputs : inputsDims[d][j] \in Dim /\ inputsDims[d][j].val \in {1, op.result[j]}
             /\ \E d \in Inputs : inputsDims[d][j].val = op.result[j]
             /\ op.uni => inputsDims[1][j].val = op.result[j]
  <2>1. j \in 1..Len(op.result)
    BY <1>1, <1>3 DEF Axes
  <2>2. op.result[j] \in Nat \ {0}
    BY <1>0, <2>1, OpFacts
  <2>3. \A d \in Inputs : inputsDims[d][j] \in Dim
    BY <1>3 DEF TypeOK
  <2>4. /\ \A d \in Inputs : ValueAt(op, op.shapes[d], j) \in {1, op.result[j]}
        /\ \E d \in Inputs : ValueAt(op, op.shapes[d], j) = op.result[j]
        /\ op.uni => ValueAt(op, op.shapes[1], j) = op.result[j]
    BY <1>0, <2>1 DEF Broadcasts, Inputs
  <2>5. 1 \in Inputs
    BY <1>0 DEF Inputs
  <2> QED BY <1>2, <2>2, <2>3, <2>4, <2>5
<1> QED BY <1>1, <1>3 DEF Columns

LEMMA InitInv == Init => TypeOK /\ RankInv /\ DimsInv
<1> SUFFICES ASSUME Init PROVE TypeOK /\ RankInv /\ DimsInv
  OBVIOUS
<1>1. op \in Operations /\ Len(op.shapes) \in Nat /\ Len(op.shapes) >= 1
  BY OpFacts DEF Init
<1>2. TypeOK
  <2>1. pc = "rank" /\ i \in Nat /\ rank \in Nat /\ r \in Nat \ {0} /\ collapsed \in Nat
    BY DEF Init
  <2>2. noBroadcast \in BOOLEAN /\ isScalar \subseteq Inputs /\ hasBroadcast \subseteq Inputs
    BY DEF Init
  <2> QED BY <1>1, <2>1, <2>2 DEF TypeOK
<1>3. RankInv /\ DimsInv
  BY <1>1 DEF Init, RankInv, DimsInv
<1> QED BY <1>2, <1>3

LEMMA CombineType ==
  ASSUME NEW c \in Dim, NEW n \in Dim
  PROVE  Combine(c, n) \in Dim
<1>1. c.val \in Nat \ {0} /\ n.val \in Nat \ {0}
  BY DEF Dim
<1>2. MaxDim(c, n) \in Dim
  <2>1. (IF n.val > c.val THEN n.val ELSE c.val) \in Nat \ {0}
    BY <1>1
  <2> QED BY <2>1 DEF MaxDim, Dim
<1> QED BY <1>2 DEF Combine

(* Each variable keeps its type, and the operation never changes. *)
LEMMA TypeStep == TypeOK /\ RankInv /\ DimsInv /\ [Next]_vars => TypeOK'
<1> SUFFICES ASSUME TypeOK, RankInv, DimsInv, [Next]_vars PROVE TypeOK'
  OBVIOUS
<1>0. /\ op \in Operations /\ rank \in Nat /\ i \in Nat /\ r \in Nat \ {0}
      /\ Len(op.shapes) \in Nat /\ Len(op.shapes) >= 1
      /\ \A d \in Inputs : op.shapes[d] \in Seq(Dim) /\ Len(op.shapes[d]) \in Nat
      /\ 1 \in Inputs
  BY OpFacts DEF TypeOK, Inputs
<1>1. CASE LongestRank
  <2>1. i \in Inputs
    BY <1>0, <1>1 DEF LongestRank, RankInv, Inputs
  <2>2. rank' \in Nat /\ pc' = "rank" /\ op' = op /\ i' \in Nat
    BY <1>0, <1>1, <2>1 DEF LongestRank
  <2> QED BY <1>0, <1>1, <2>2 DEF LongestRank, UnchangedAnalysis, TypeOK, Inputs
<1>2. CASE PrependOnes
  <2>1. /\ op' = op /\ rank' = rank /\ pc' = "fold" /\ i' = 2 /\ pc = "rank"
        /\ inputsDims' = [d \in Inputs |-> Padded(op.shapes[d])] /\ dims' = Padded(op.shapes[1])
        /\ UNCHANGED <<noBroadcast, r, isScalar, hasBroadcast, collapsed>>
    BY <1>2 DEF PrependOnes, UnchangedAnalysis
  <2>2. \A d \in Inputs : Len(op.shapes[d]) <= rank
    BY <1>0, <1>2 DEF PrependOnes, RankInv, Inputs
  <2>3. \A d \in Inputs : Padded(op.shapes[d]) \in [Axes -> Dim]
    BY <1>0, <2>2, PaddedFacts
  <2>4. inputsDims' \in [Inputs -> [Axes -> Dim]] /\ dims' \in [Axes -> Dim]
    BY <1>0, <2>1, <2>3
  <2> QED BY <1>0, <2>1, <2>4 DEF TypeOK, Inputs, Axes
<1>3. CASE FoldInput
  <2>1. /\ op' = op /\ rank' = rank /\ pc' = "fold" /\ i' = i + 1 /\ pc = "fold" /\ inputsDims' = inputsDims
        /\ dims' = [j \in Axes |-> Combine(dims[j], inputsDims[i][j])]
        /\ UNCHANGED <<noBroadcast, r, isScalar, hasBroadcast, collapsed>>
    BY <1>3 DEF FoldInput, UnchangedAnalysis
  <2>2. dims' \in [Axes -> Dim]
    <3>1. ASSUME NEW j \in Axes PROVE Combine(dims[j], inputsDims[i][j]) \in Dim
      <4>1. dims[j] \in Dim
        BY <2>1 DEF TypeOK
      <4>2. i \in Inputs
        BY <1>0, <1>3, <2>1 DEF FoldInput, DimsInv, Inputs
      <4>3. inputsDims[i][j] \in Dim
        BY <2>1, <4>2 DEF TypeOK
      <4> QED BY <4>1, <4>3, CombineType
    <3> QED BY <2>1, <3>1
  <2> QED BY <1>0, <2>1, <2>2 DEF TypeOK, Inputs, Axes
<1>4. CASE IncompatibleBroadcast
  BY <1>0, <1>4 DEF IncompatibleBroadcast, UnchangedAnalysis, TypeOK, Inputs, Axes
<1>5. ASSUME NEW T \in SUBSET Axes, op.valid \/ T = {}, SetOutputDims(T) PROVE TypeOK'
  <2>1. /\ op' = op /\ rank' = rank /\ i' = i /\ pc' = "inferred" /\ pc = "fold" /\ inputsDims' = inputsDims
        /\ dims' = [j \in Axes |-> IF j \in T THEN Lit(op.result[j]) ELSE dims[j]]
        /\ UNCHANGED <<noBroadcast, r, isScalar, hasBroadcast, collapsed>>
    BY <1>5 DEF SetOutputDims, UnchangedAnalysis
  <2>2. ASSUME NEW j \in T PROVE Lit(op.result[j]) \in Dim
    <3>1. op.valid /\ j \in Axes
      BY <1>5, <2>2
    <3>2. rank = Len(op.result)
      BY <1>0, <2>1, <3>1, RankIsLen
    <3>3. op.result[j] \in Nat \ {0}
      BY <1>0, <3>1, <3>2, OpFacts DEF Axes
    <3> QED BY <3>3 DEF Lit, Dim
  <2>3. dims' \in [Axes -> Dim]
    BY <1>5, <2>1, <2>2 DEF TypeOK
  <2> QED BY <1>0, <2>1, <2>3 DEF TypeOK, Inputs, Axes
<1>6. CASE RuleOutBroadcast
  BY <1>0, <1>6 DEF RuleOutBroadcast, HasNoBroadcast, CanUseDimAnalysis, TypeOK, Inputs, Axes
<1>7. CASE CollapseLoop
  <2>1. /\ isScalar' \subseteq Inputs /\ hasBroadcast' \subseteq Inputs
        /\ collapsed' \in Nat /\ r' \in Nat \ {0}
        /\ UNCHANGED <<op, pc, i, rank, inputsDims, dims, noBroadcast>>
    BY <1>0, <1>7 DEF CollapseLoop, TypeOK
  <2> QED BY <1>0, <2>1 DEF TypeOK, Inputs, Axes
<1>8. CASE StopCollapsing
  BY <1>0, <1>8 DEF StopCollapsing, TypeOK, Inputs, Axes
<1>9. CASE UNCHANGED vars
  BY <1>9 DEF vars, TypeOK, Inputs, Axes
<1> QED BY <1>1, <1>2, <1>3, <1>4, <1>5, <1>6, <1>7, <1>8, <1>9 DEF Next

LEMMA RankStep == TypeOK /\ RankInv /\ DimsInv /\ [Next]_vars => RankInv' /\ DimsInv'
<1> SUFFICES ASSUME TypeOK, RankInv, DimsInv, [Next]_vars PROVE RankInv' /\ DimsInv'
  OBVIOUS
<1>0. /\ op \in Operations /\ rank \in Nat /\ i \in Nat
      /\ Len(op.shapes) \in Nat /\ Len(op.shapes) >= 1
      /\ \A d \in 1..Len(op.shapes) : Len(op.shapes[d]) \in Nat
  BY OpFacts DEF TypeOK
<1>1. CASE LongestRank
  <2>1. /\ pc' = "rank" /\ pc = "rank" /\ op' = op /\ i' = i + 1 /\ i <= Len(op.shapes)
        /\ rank' = IF Len(op.shapes[i]) > rank THEN Len(op.shapes[i]) ELSE rank
    BY <1>1 DEF LongestRank
  <2>2. i \in 1..Len(op.shapes) /\ Len(op.shapes[i]) \in Nat
    BY <1>0, <2>1 DEF RankInv
  <2>3. i' \in 1..Len(op.shapes) + 1 /\ 1..i' - 1 = (1..i - 1) \cup {i} /\ 1..i - 1 \subseteq 1..Len(op.shapes)
    BY <1>0, <2>1, <2>2
  <2>4. \A d \in 1..i' - 1 : Len(op.shapes[d]) <= rank'
    <3> TAKE d \in 1..i' - 1
    <3>1. CASE d = i
      BY <1>0, <2>1, <2>2, <3>1
    <3>2. CASE d \in 1..i - 1
      <4>1. Len(op.shapes[d]) <= rank /\ Len(op.shapes[d]) \in Nat
        BY <1>0, <2>1, <2>3, <3>2 DEF RankInv
      <4> QED BY <1>0, <2>1, <2>2, <4>1
    <3> QED BY <2>3, <3>1, <3>2
  <2>5. rank' = 0 \/ \E d \in 1..i' - 1 : Len(op.shapes[d]) = rank'
    <3>1. CASE Len(op.shapes[i]) > rank
      BY <2>1, <2>3, <3>1
    <3>2. CASE ~(Len(op.shapes[i]) > rank)
      BY <2>1, <2>3, <3>2 DEF RankInv
    <3> QED BY <3>1, <3>2
  <2> QED BY <2>1, <2>3, <2>4, <2>5 DEF RankInv, DimsInv
<1>2. CASE PrependOnes
  <2>1. /\ op' = op /\ rank' = rank /\ pc' = "fold" /\ i' = 2 /\ pc = "rank" /\ i > Len(op.shapes)
        /\ inputsDims' = [d \in Inputs |-> Padded(op.shapes[d])]
    BY <1>2 DEF PrependOnes
  <2>2. 1..i - 1 = Inputs
    BY <1>0, <2>1 DEF RankInv, Inputs
  <2>3. \A d \in Inputs : Len(op.shapes[d]) <= rank
    BY <2>1, <2>2 DEF RankInv
  <2>4. \E d \in Inputs : Len(op.shapes[d]) = rank
    <3>1. 1 \in Inputs
      BY <1>0 DEF Inputs
    <3>2. CASE rank = 0
      <4>1. Len(op.shapes[1]) = 0
        BY <1>0, <2>3, <3>1, <3>2 DEF Inputs
      <4> QED BY <3>1, <3>2, <4>1
    <3>3. CASE rank # 0
      BY <2>1, <2>2, <3>3 DEF RankInv
    <3> QED BY <3>2, <3>3
  <2>5. \A s : Padded(s)' = Padded(s)
    BY <2>1 DEF Padded, Axes
  <2> QED BY <1>0, <2>1, <2>3, <2>4, <2>5 DEF RankInv, DimsInv, Inputs, Padded, Axes
<1>3. ASSUME UNCHANGED <<op, rank, inputsDims>>, pc # "rank", pc' # "rank", pc' = "fold" => i' \in 2..Len(op.shapes) + 1
      PROVE  RankInv' /\ DimsInv'
  BY <1>3 DEF RankInv, DimsInv, Inputs, Padded, Axes
<1>4. CASE FoldInput
  <2>1. /\ UNCHANGED <<op, rank, inputsDims>> /\ pc = "fold" /\ pc' = "fold"
        /\ i <= Len(op.shapes) /\ i' = i + 1
    BY <1>4 DEF FoldInput
  <2>2. i' \in 2..Len(op.shapes) + 1
    BY <1>0, <2>1 DEF DimsInv
  <2> QED BY <1>3, <2>1, <2>2
<1>5. CASE IncompatibleBroadcast
  BY <1>3, <1>5 DEF IncompatibleBroadcast
<1>6. ASSUME NEW T \in SUBSET Axes, SetOutputDims(T) PROVE RankInv' /\ DimsInv'
  BY <1>3, <1>6 DEF SetOutputDims
<1>7. CASE RuleOutBroadcast
  BY <1>3, <1>7 DEF RuleOutBroadcast
<1>8. CASE CollapseLoop
  BY <1>3, <1>8 DEF CollapseLoop
<1>9. CASE StopCollapsing
  BY <1>3, <1>9 DEF StopCollapsing
<1>10. CASE UNCHANGED vars
  BY <1>10 DEF vars, RankInv, DimsInv, Inputs, Padded, Axes
<1> QED BY <1>1, <1>2, <1>4, <1>5, <1>6, <1>7, <1>8, <1>9, <1>10 DEF Next

(***************************************************************************)
(* The shape of the output. Of the inputs folded so far, one that has the   *)
(* size of the result in a dimension has given it to the output.            *)
(***************************************************************************)
FoldInv ==
  (pc = "fold" /\ op.valid) =>
    \A j \in Axes :
      /\ dims[j].val \in {1, op.result[j]}
      /\ \A d \in 1..i - 1 : inputsDims[d][j].val = op.result[j] => dims[j].val = op.result[j]

(* One step of the fold: m is the size of the result in this dimension. *)
LEMMA CombineFacts ==
  ASSUME NEW c \in Dim, NEW n \in Dim, NEW m \in Nat \ {0},
         c.val \in {1, m}, n.val \in {1, m}, op.uni => c.val = m
  PROVE  /\ ~Clash(c, n)
         /\ Combine(c, n).val \in {1, m}
         /\ (c.val = m \/ n.val = m) => Combine(c, n).val = m
<1>1. c.val \in Nat \ {0} /\ n.val \in Nat \ {0}
  BY DEF Dim
<1>2. ~Clash(c, n)
  BY <1>1 DEF Clash, NotOne
<1>3. MaxDim(c, n).val = IF n.val > c.val THEN n.val ELSE c.val
  BY DEF MaxDim
<1>4. CASE IsOne(c)
  BY <1>1, <1>2, <1>4 DEF Combine, IsOne
<1>5. CASE ~IsOne(c) /\ c.known
  BY <1>1, <1>2, <1>5 DEF Combine, IsOne
<1>6. CASE ~c.known /\ IsOne(n)
  BY <1>1, <1>2, <1>6 DEF Combine, IsOne
<1>7. CASE ~c.known /\ ~IsOne(n) /\ n.known
  BY <1>1, <1>2, <1>7 DEF Combine, IsOne
<1>8. CASE ~c.known /\ ~n.known /\ op.uni
  BY <1>1, <1>2, <1>8 DEF Combine, IsOne
<1>9. CASE ~c.known /\ ~n.known /\ ~op.uni
  BY <1>1, <1>2, <1>3, <1>9 DEF Combine, IsOne
<1> QED BY <1>4, <1>5, <1>6, <1>7, <1>8, <1>9

ShapeInv == FoldInv /\ ShapeIsRight

LEMMA ShapeInit == Init => ShapeInv
  BY DEF Init, ShapeInv, FoldInv, ShapeIsRight

LEMMA ShapeStep ==
  TypeOK /\ RankInv /\ DimsInv /\ ShapeInv /\ [Next]_vars => ShapeInv'
<1> SUFFICES ASSUME TypeOK, RankInv, DimsInv, ShapeInv, [Next]_vars PROVE ShapeInv'
  OBVIOUS
<1>0. /\ op \in Operations /\ rank \in Nat /\ i \in Nat
      /\ Len(op.shapes) \in Nat /\ Len(op.shapes) >= 1
  BY OpFacts DEF TypeOK
<1>1. CASE LongestRank
  BY <1>1 DEF LongestRank, ShapeInv, FoldInv, ShapeIsRight
<1>2. CASE PrependOnes
  <2>1. TypeOK' /\ DimsInv'
    BY TypeStep, RankStep
  <2>2. /\ pc' = "fold" /\ op' = op /\ i' = 2 /\ pc = "rank"
        /\ inputsDims' = [d \in Inputs |-> Padded(op.shapes[d])] /\ dims' = Padded(op.shapes[1])
    BY <1>2 DEF PrependOnes
  <2>3. 1 \in Inputs /\ dims' = inputsDims'[1] /\ 1..i' - 1 = {1}
    BY <1>0, <2>2 DEF Inputs
  <2>4. CASE op.valid
    <3>1. Columns'
      <4>1. (TypeOK /\ DimsInv /\ pc # "rank" /\ op.valid => Columns)'
        BY ColumnFacts, PTL
      <4> QED BY <2>1, <2>2, <2>4, <4>1
    <3>2. FoldInv'
      BY <2>2, <2>3, <3>1 DEF FoldInv, Columns, Inputs
    <3> QED BY <2>2, <3>2 DEF ShapeInv, ShapeIsRight
  <2>5. CASE ~op.valid
    BY <2>2, <2>5 DEF ShapeInv, FoldInv, ShapeIsRight
  <2> QED BY <2>4, <2>5
<1>3. CASE FoldInput \/ IncompatibleBroadcast
  <2>1. /\ pc = "fold" /\ op' = op /\ rank' = rank /\ inputsDims' = inputsDims /\ i <= Len(op.shapes)
    BY <1>3 DEF FoldInput, IncompatibleBroadcast
  <2>2. CASE ~op.valid
    BY <2>1, <2>2 DEF ShapeInv, FoldInv, ShapeIsRight
  <2>3. CASE op.valid
    <3>1. Columns /\ i \in Inputs /\ i >= 2
      BY <1>0, <2>1, <2>3, ColumnFacts DEF DimsInv, Inputs
    <3>2. ASSUME NEW j \in Axes
          PROVE  /\ dims[j] \in Dim /\ inputsDims[i][j] \in Dim /\ op.result[j] \in Nat \ {0}
                 /\ dims[j].val \in {1, op.result[j]} /\ inputsDims[i][j].val \in {1, op.result[j]}
                 /\ op.uni => dims[j].val = op.result[j]
                 /\ \A d \in 1..i - 1 : inputsDims[d][j].val = op.result[j] => dims[j].val = op.result[j]
      <4>1. dims[j] \in Dim
        BY <2>1 DEF TypeOK
      <4>2. 1 \in 1..i - 1
        BY <1>0, <3>1
      <4> QED BY <2>1, <2>3, <3>1, <4>1, <4>2 DEF ShapeInv, FoldInv, Columns
    <3>3. ASSUME NEW j \in Axes
          PROVE  /\ ~Clash(dims[j], inputsDims[i][j])
                 /\ Combine(dims[j], inputsDims[i][j]).val \in {1, op.result[j]}
                 /\ \/ dims[j].val = op.result[j]
                    \/ inputsDims[i][j].val = op.result[j]
                    => Combine(dims[j], inputsDims[i][j]).val = op.result[j]
      BY <3>2, CombineFacts
    <3>4. /\ pc' = "fold" /\ i' = i + 1
          /\ dims' = [j \in Axes |-> Combine(dims[j], inputsDims[i][j])]
      BY <1>3, <3>3 DEF FoldInput, IncompatibleBroadcast
    <3>5. 1..i' - 1 = (1..i - 1) \cup {i}
      BY <1>0, <3>1, <3>4
    <3>6. ASSUME NEW j \in Axes
          PROVE  /\ dims'[j].val \in {1, op.result[j]}
                 /\ \A d \in 1..i' - 1 : inputsDims[d][j].val = op.result[j] => dims'[j].val = op.result[j]
      BY <3>2, <3>3, <3>4, <3>5
    <3>7. FoldInv'
      BY <2>1, <3>4, <3>6 DEF FoldInv, Axes
    <3> QED BY <2>1, <3>4, <3>7 DEF ShapeInv, ShapeIsRight
  <2> QED BY <2>2, <2>3
<1>4. ASSUME NEW T \in SUBSET Axes, op.valid \/ T = {}, SetOutputDims(T) PROVE ShapeInv'
  <2>1. /\ op' = op /\ rank' = rank /\ pc' = "inferred" /\ pc = "fold" /\ i > Len(op.shapes)
        /\ dims' = [j \in Axes |-> IF j \in T THEN Lit(op.result[j]) ELSE dims[j]]
    BY <1>4 DEF SetOutputDims
  <2>2. CASE ~op.valid
    BY <2>1, <2>2 DEF ShapeInv, FoldInv, ShapeIsRight
  <2>3. CASE op.valid
    <3>1. Columns /\ 1..i - 1 = Inputs
      BY <1>0, <2>1, <2>3, ColumnFacts DEF DimsInv, Inputs
    <3>2. ASSUME NEW j \in Axes PROVE dims'[j].val = op.result[j]
      <4>1. dims[j].val = op.result[j]
        BY <2>1, <2>3, <3>1, <3>2 DEF Columns, ShapeInv, FoldInv
      <4> QED BY <2>1, <4>1 DEF Lit
    <3> QED BY <2>1, <3>1, <3>2 DEF ShapeInv, FoldInv, ShapeIsRight, Columns, Axes
  <2> QED BY <2>2, <2>3
<1>5. ASSUME UNCHANGED <<op, rank, dims>>, pc \in {"inferred", "collapse"}, pc' \in {"collapse", "analyzed"}
      PROVE  ShapeInv'
  BY <1>5 DEF ShapeInv, FoldInv, ShapeIsRight, Axes
<1>6. CASE RuleOutBroadcast
  BY <1>5, <1>6 DEF RuleOutBroadcast
<1>7. CASE CollapseLoop
  BY <1>5, <1>7 DEF CollapseLoop
<1>8. CASE StopCollapsing
  BY <1>5, <1>8 DEF StopCollapsing
<1>9. CASE UNCHANGED vars
  BY <1>9 DEF vars, ShapeInv, FoldInv, ShapeIsRight, Axes
<1> QED BY <1>1, <1>2, <1>3, <1>4, <1>5, <1>6, <1>7, <1>8, <1>9 DEF Next

(***************************************************************************)
(* The analyses, for a valid operation.                                    *)
(***************************************************************************)
NoBroadcastInv ==
  (op.valid /\ noBroadcast) =>
    /\ pc \in {"collapse", "analyzed"}
    /\ \A d \in Inputs, j \in Axes : inputsDims[d][j].val = op.result[j]

\* Dimensions the collapse loop has passed.
Seen == InnerAxes(r - 1)

CollapseInv ==
  /\ collapsed = r - 1 /\ hasBroadcast \subseteq isScalar
  /\ pc \notin {"collapse", "analyzed"} => r = 1 /\ isScalar = Inputs /\ hasBroadcast = {}
  /\ pc \in {"collapse", "analyzed"} => r <= rank + 1
  /\ op.valid =>
       /\ \A d \in isScalar, j \in Seen : IsOne(inputsDims[d][j])
       /\ \A d \in Inputs \ isScalar, j \in Seen : inputsDims[d][j].val = op.result[j]
       /\ isScalar \subseteq hasBroadcast \/ \A j \in Seen : op.result[j] = 1

(* Dimensions that DimAnalysis or their literals show to be equal are equal. *)
LEMMA SameDimFacts ==
  ASSUME op \in Operations, NEW d \in 1..Len(op.shapes), NEW e \in 1..Len(op.shapes),
         NEW k \in 1..Len(op.shapes[d]), NEW l \in 1..Len(op.shapes[e]),
         SameDim(op.shapes[d][k], op.shapes[e][l])
  PROVE  op.shapes[d][k].val = op.shapes[e][l].val
<1>1. NamesAgree(op)
  BY OperationsAssumption
<1> QED BY <1>1 DEF SameDim, NamesAgree

(* A dimension that is not a literal one is one of the shape itself. *)
LEMMA OwnDimension ==
  ASSUME TypeOK, DimsInv, pc # "rank", NEW d \in Inputs, NEW j \in Axes, ~IsOne(inputsDims[d][j])
  PROVE  \E k \in 1..Len(op.shapes[d]) : inputsDims[d][j] = op.shapes[d][k]
<1>1. /\ rank \in Nat /\ Len(op.shapes[d]) \in Nat /\ Len(op.shapes[d]) <= rank /\ j \in 1..rank
  BY OpFacts DEF TypeOK, DimsInv, Inputs, Axes
<1>2. inputsDims[d][j] = IF j > rank - Len(op.shapes[d])
                         THEN op.shapes[d][j - (rank - Len(op.shapes[d]))] ELSE One
  BY DEF DimsInv, Padded
<1>3. IsOne(One)
  BY DEF IsOne, One, Lit
<1>4. j > rank - Len(op.shapes[d])
  BY <1>2, <1>3
<1>5. j - (rank - Len(op.shapes[d])) \in 1..Len(op.shapes[d])
  BY <1>1, <1>4
<1> QED BY <1>2, <1>4, <1>5

LEMMA NoBroadcastStep ==
  TypeOK /\ DimsInv /\ NoBroadcastInv /\ [Next]_vars => NoBroadcastInv'
<1> SUFFICES ASSUME TypeOK, DimsInv, NoBroadcastInv, [Next]_vars PROVE NoBroadcastInv'
  OBVIOUS
<1>0. /\ op \in Operations /\ rank \in Nat /\ Len(op.shapes) \in Nat /\ Len(op.shapes) >= 1
      /\ 1 \in Inputs /\ noBroadcast \in BOOLEAN
      /\ \A d \in Inputs : Len(op.shapes[d]) \in Nat
  BY OpFacts DEF TypeOK, Inputs
<1>1. CASE RuleOutBroadcast
  <2>1. /\ UNCHANGED <<op, rank, inputsDims>> /\ pc' = "collapse" /\ pc = "inferred"
        /\ noBroadcast' = HasNoBroadcast
    BY <1>1 DEF RuleOutBroadcast
  <2>2. ASSUME op.valid, HasNoBroadcast, NEW d \in Inputs, NEW j \in Axes
        PROVE  inputsDims[d][j].val = op.result[j]
    <3>1. /\ rank = Len(op.result) /\ op.result[j] \in Nat \ {0}
          /\ \A e \in Inputs : inputsDims[e][j] \in Dim /\ inputsDims[e][j].val \in {1, op.result[j]}
      BY <2>1, <2>2, ColumnFacts DEF Columns
    <3>2. PICK e \in Inputs : inputsDims[e][j].val = op.result[j]
      BY <2>1, <2>2, ColumnFacts DEF Columns
    <3>3. CASE \A f \in Inputs, n \in Axes : inputsDims[f][n].known
      <4>1. IsOne(inputsDims[d][j]) <=> IsOne(inputsDims[e][j])
        BY <2>2, <3>3 DEF HasNoBroadcast
      <4> QED BY <3>1, <3>2, <3>3, <4>1 DEF IsOne
    <3>4. CASE ~\A f \in Inputs, n \in Axes : inputsDims[f][n].known
      <4>1. \A f \in Inputs : f = 1 \/ SameShape(op.shapes[1], op.shapes[f])
        BY <2>2, <3>4 DEF HasNoBroadcast
      <4>2. \A f \in Inputs : Len(op.shapes[f]) = Len(op.shapes[1])
        BY <4>1 DEF SameShape
      <4>3. \A f \in Inputs : Len(op.shapes[f]) = rank
        BY <2>1, <4>2 DEF DimsInv
      <4>4. \A f \in Inputs : inputsDims[f][j] = op.shapes[f][j]
        <5> TAKE f \in Inputs
        <5>1. j > rank - Len(op.shapes[f]) /\ j - (rank - Len(op.shapes[f])) = j
          BY <1>0, <2>2, <4>3 DEF Axes
        <5> QED BY <2>1, <2>2, <5>1 DEF DimsInv, Padded
      <4>5. ASSUME NEW f \in Inputs PROVE op.shapes[f][j].val = op.shapes[1][j].val
        <5>1. CASE f = 1
          BY <5>1
        <5>2. CASE f # 1
          <6>1. j \in 1..Len(op.shapes[1]) /\ j \in 1..Len(op.shapes[f])
            BY <1>0, <2>2, <4>3 DEF Axes
          <6>2. SameDim(op.shapes[1][j], op.shapes[f][j])
            BY <4>1, <5>2, <6>1 DEF SameShape
          <6> QED BY <1>0, <6>1, <6>2, SameDimFacts DEF Inputs
        <5> QED BY <5>1, <5>2
      <4> QED BY <1>0, <3>2, <4>4, <4>5
    <3> QED BY <3>3, <3>4
  <2> QED BY <2>1, <2>2 DEF NoBroadcastInv, Inputs, Axes
<1>2. ASSUME UNCHANGED <<op, noBroadcast>>, pc \notin {"collapse", "analyzed"}
      PROVE  NoBroadcastInv'
  BY <1>2 DEF NoBroadcastInv
<1>3. ASSUME UNCHANGED <<op, rank, inputsDims, noBroadcast>>, pc' \in {"collapse", "analyzed"} \/ pc' = pc
      PROVE  NoBroadcastInv'
  BY <1>3 DEF NoBroadcastInv, Inputs, Axes
<1>4. CASE LongestRank \/ PrependOnes \/ FoldInput \/ IncompatibleBroadcast
  BY <1>2, <1>4 DEF LongestRank, PrependOnes, FoldInput, IncompatibleBroadcast, UnchangedAnalysis
<1>5. ASSUME NEW T \in SUBSET Axes, SetOutputDims(T) PROVE NoBroadcastInv'
  BY <1>2, <1>5 DEF SetOutputDims, UnchangedAnalysis
<1>6. CASE CollapseLoop \/ StopCollapsing
  BY <1>3, <1>6 DEF CollapseLoop, StopCollapsing
<1>7. CASE UNCHANGED vars
  BY <1>3, <1>7 DEF vars
<1> QED BY <1>1, <1>4, <1>5, <1>6, <1>7 DEF Next

LEMMA CollapseInit == Init => NoBroadcastInv /\ CollapseInv
<1> SUFFICES ASSUME Init PROVE NoBroadcastInv /\ CollapseInv
  OBVIOUS
<1>1. /\ pc = "rank" /\ rank = 0 /\ r = 1 /\ isScalar = Inputs /\ hasBroadcast = {} /\ collapsed = 0
      /\ ~noBroadcast
  BY DEF Init
<1>2. Seen = {}
  BY <1>1 DEF Seen, InnerAxes, Axes
<1> QED BY <1>1, <1>2 DEF NoBroadcastInv, CollapseInv

(* The inputs that are not one in the column the loop has reached have the  *)
(* size of the result there.                                               *)
LEMMA ColumnCollapses ==
  ASSUME TypeOK, DimsInv, pc = "collapse", r <= rank, op.valid, Manageable
  PROVE  /\ Column \in Axes
         /\ \A d \in Inputs \ Ones : inputsDims[d][Column].val = op.result[Column]
         /\ Ones = Inputs => op.result[Column] = 1
<1>1. Columns
  BY ColumnFacts
<1>2. Column \in Axes
  BY DEF TypeOK, Column, Axes
<1>3. PICK e \in Inputs : inputsDims[e][Column].val = op.result[Column]
  BY <1>1, <1>2 DEF Columns
<1>4. /\ op.result[Column] \in Nat \ {0}
      /\ \A d \in Inputs : inputsDims[d][Column].val \in {1, op.result[Column]}
  BY <1>1, <1>2 DEF Columns
<1>5. e \in Ones => op.result[Column] = 1
  BY <1>3 DEF Ones, IsOne
<1>6. CASE Ones = Inputs
  BY <1>2, <1>3, <1>5, <1>6
<1>7. CASE Ones # Inputs
  <2>1. PICK id \in Inputs \ Ones :
          \A d \in Inputs \ Ones :
            d = id \/ SameSize(inputsDims[id][Column], inputsDims[d][Column])
    BY <1>7 DEF Manageable, Compatible
  <2>2. ASSUME NEW d \in Inputs \ Ones
        PROVE  inputsDims[d][Column].val = inputsDims[id][Column].val
    <3>1. CASE d = id
      BY <3>1
    <3>2. CASE inputsDims[id][Column].known /\ inputsDims[d][Column].known /\ d # id
      BY <2>1, <3>2 DEF SameSize
    <3>3. CASE ~(inputsDims[id][Column].known /\ inputsDims[d][Column].known) /\ d # id
      <4>1. SameDim(inputsDims[id][Column], inputsDims[d][Column])
        BY <2>1, <3>3 DEF SameSize
      <4>2. ~IsOne(inputsDims[id][Column]) /\ ~IsOne(inputsDims[d][Column])
        BY <2>1, <2>2 DEF Ones
      <4>3. PICK k \in 1..Len(op.shapes[id]) : inputsDims[id][Column] = op.shapes[id][k]
        BY <1>2, <2>1, <4>2, OwnDimension
      <4>4. PICK l \in 1..Len(op.shapes[d]) : inputsDims[d][Column] = op.shapes[d][l]
        BY <1>2, <2>2, <4>2, OwnDimension
      <4>5. op \in Operations /\ id \in 1..Len(op.shapes) /\ d \in 1..Len(op.shapes)
        BY <2>1, <2>2 DEF TypeOK, Inputs
      <4>6. op.shapes[id][k].val = op.shapes[d][l].val
        BY <4>1, <4>3, <4>4, <4>5, SameDimFacts
      <4> QED BY <4>3, <4>4, <4>6
    <3> QED BY <3>1, <3>2, <3>3
  <2>3. CASE e \in Ones
    BY <1>2, <1>4, <1>5, <1>7, <2>3
  <2>4. CASE e \notin Ones
    <3>1. inputsDims[id][Column].val = op.result[Column]
      BY <1>3, <2>2, <2>4
    <3> QED BY <1>2, <1>7, <2>2, <3>1
  <2> QED BY <2>3, <2>4
<1> QED BY <1>6, <1>7

LEMMA CollapseStep ==
  TypeOK /\ TypeOK' /\ DimsInv /\ CollapseInv /\ [Next]_vars => CollapseInv'
<1> SUFFICES ASSUME TypeOK, TypeOK', DimsInv, CollapseInv, [Next]_vars PROVE CollapseInv'
  OBVIOUS
<1>0. rank \in Nat /\ rank' \in Nat /\ r \in Nat \ {0} /\ isScalar \subseteq Inputs /\ hasBroadcast \subseteq Inputs
  BY DEF TypeOK
<1>1. CASE CollapseLoop
  <2>1. /\ pc = "collapse" /\ r <= rank /\ Manageable /\ r' = r + 1 /\ collapsed' = r
        /\ isScalar' = isScalar \cap Ones
        /\ hasBroadcast' = IF Ones = Inputs THEN hasBroadcast ELSE hasBroadcast \cup (isScalar \cap Ones)
        /\ UNCHANGED <<op, pc, rank, inputsDims>>
    BY <1>1 DEF CollapseLoop
  <2>2. hasBroadcast \subseteq Ones
    BY <2>1 DEF Manageable, LostBroadcastScalar
  <2>3. hasBroadcast' \subseteq isScalar'
    BY <2>1, <2>2 DEF CollapseInv
  <2>4. collapsed' = r' - 1 /\ r' <= rank' + 1
    BY <1>0, <2>1
  <2>5. ASSUME op.valid
        PROVE  /\ \A d \in isScalar', j \in Seen' : IsOne(inputsDims[d][j])
               /\ \A d \in Inputs \ isScalar', j \in Seen' : inputsDims[d][j].val = op.result[j]
               /\ isScalar' \subseteq hasBroadcast' \/ \A j \in Seen' : op.result[j] = 1
    <3>1. /\ Column \in Axes
          /\ \A d \in Inputs \ Ones : inputsDims[d][Column].val = op.result[Column]
          /\ Ones = Inputs => op.result[Column] = 1
      BY <2>1, <2>5, ColumnCollapses
    <3>2. Seen' = Seen \cup {Column}
      BY <1>0, <2>1, <3>1 DEF Seen, InnerAxes, Column, Axes
    <3>3. \A d \in isScalar', j \in Seen' : IsOne(inputsDims[d][j])
      BY <2>1, <2>5, <3>2 DEF CollapseInv, Ones
    <3>4. ASSUME NEW d \in Inputs \ isScalar', NEW j \in Seen'
          PROVE  inputsDims[d][j].val = op.result[j]
      <4>1. CASE d \notin Ones
        <5>1. CASE j = Column
          BY <3>1, <4>1, <5>1
        <5>2. CASE j \in Seen /\ d \notin isScalar
          BY <2>5, <5>2 DEF CollapseInv
        <5>3. CASE j \in Seen /\ d \in isScalar
          <6>1. IsOne(inputsDims[d][j])
            BY <2>5, <5>3 DEF CollapseInv
          <6>2. ~(isScalar \subseteq hasBroadcast)
            BY <2>2, <4>1, <5>3
          <6>3. op.result[j] = 1
            BY <2>5, <5>3, <6>2 DEF CollapseInv
          <6> QED BY <6>1, <6>3 DEF IsOne
        <5> QED BY <3>2, <5>1, <5>2, <5>3
      <4>2. CASE d \in Ones
        <5>1. d \notin isScalar
          BY <2>1, <3>4, <4>2
        <5>2. Ones = Inputs
          BY <2>1, <4>2, <5>1 DEF Manageable, OneIsNoScalar
        <5>3. CASE j = Column
          <6>1. inputsDims[d][Column].val = 1
            BY <4>2 DEF Ones, IsOne
          <6> QED BY <3>1, <5>2, <5>3, <6>1
        <5>4. CASE j \in Seen
          BY <2>5, <5>1, <5>4 DEF CollapseInv
        <5> QED BY <3>2, <5>3, <5>4
      <4> QED BY <4>1, <4>2
    <3>5. isScalar' \subseteq hasBroadcast' \/ \A j \in Seen' : op.result[j] = 1
      <4>1. CASE Ones = Inputs
        <5>1. isScalar' = isScalar /\ hasBroadcast' = hasBroadcast
          BY <1>0, <2>1, <4>1
        <5> QED BY <2>5, <3>1, <3>2, <4>1, <5>1 DEF CollapseInv
      <4>2. CASE Ones # Inputs
        BY <2>1, <4>2
      <4> QED BY <4>1, <4>2
    <3> QED BY <3>3, <3>4, <3>5
  <2> QED BY <2>1, <2>3, <2>4, <2>5 DEF CollapseInv, Inputs
<1>2. ASSUME UNCHANGED <<op, r, isScalar, hasBroadcast, collapsed>>, pc \notin {"collapse", "analyzed"},
             pc' # "analyzed"
      PROVE  CollapseInv'
  <2>1. r = 1 /\ isScalar = Inputs /\ hasBroadcast = {} /\ collapsed = r - 1
    BY <1>2 DEF CollapseInv
  <2>2. Seen' = {}
    BY <1>0, <1>2, <2>1 DEF Seen, InnerAxes, Axes
  <2>3. r' <= rank' + 1
    <3>1. r' = 1 /\ rank' \in Nat
      BY <1>0, <1>2, <2>1
    <3>2. \A n \in Nat : 1 <= n + 1
      OBVIOUS
    <3> QED BY <3>1, <3>2
  <2> QED BY <1>2, <2>1, <2>2, <2>3 DEF CollapseInv, Inputs
<1>3. CASE LongestRank \/ PrependOnes \/ FoldInput \/ IncompatibleBroadcast
  BY <1>2, <1>3 DEF LongestRank, PrependOnes, FoldInput, IncompatibleBroadcast, UnchangedAnalysis
<1>4. ASSUME NEW T \in SUBSET Axes, SetOutputDims(T) PROVE CollapseInv'
  BY <1>2, <1>4 DEF SetOutputDims, UnchangedAnalysis
<1>5. CASE RuleOutBroadcast
  BY <1>2, <1>5 DEF RuleOutBroadcast
<1>6. CASE StopCollapsing \/ UNCHANGED vars
  BY <1>6 DEF StopCollapsing, vars, CollapseInv, Seen, InnerAxes, Axes, Inputs
<1> QED BY <1>1, <1>3, <1>4, <1>5, <1>6 DEF Next

(***************************************************************************)
(* Theorems                                                                *)
(***************************************************************************)
Inv == TypeOK /\ RankInv /\ DimsInv /\ ShapeInv /\ NoBroadcastInv /\ CollapseInv

LEMMA Invariant == Spec => []Inv
<1>1. Init => Inv
  BY InitInv, ShapeInit, CollapseInit DEF Inv
<1>2. Inv /\ [Next]_vars => Inv'
  BY TypeStep, RankStep, ShapeStep, NoBroadcastStep, CollapseStep DEF Inv
<1> QED BY <1>1, <1>2, PTL DEF Spec

LEMMA CollapseHolds == Inv => CollapseIsSafe
<1> SUFFICES ASSUME Inv, op.valid, NEW d \in Inputs
             PROVE  \/ \A j \in Seen : IsOne(inputsDims[d][j])
                    \/ \A j \in Seen : inputsDims[d][j].val = op.result[j]
  BY DEF CollapseIsSafe, Seen, Inv, CollapseInv
<1> QED BY DEF Inv, CollapseInv

LEMMA AccessHolds == Inv => AccessIsRight
<1> SUFFICES ASSUME Inv, op.valid, pc = "analyzed", NEW d \in Inputs, NEW j \in Axes,
                    NEW l \in 0..op.result[j] - 1
             PROVE  Access(d, j, l) = IF inputsDims[d][j].val = 1 THEN 0 ELSE l
  BY DEF AccessIsRight
<1>1. Columns /\ NoBroadcastInv
  BY ColumnFacts DEF Inv
<1>2. /\ op.result[j] \in Nat \ {0} /\ inputsDims[d][j].val \in {1, op.result[j]}
      /\ op.uni => inputsDims[1][j].val = op.result[j]
  BY <1>1 DEF Columns
<1>3. PICK e \in Inputs : inputsDims[e][j].val = op.result[j]
  BY <1>1 DEF Columns
<1>4. CASE IsOne(inputsDims[d][j])
  BY <1>4 DEF Access, IsOne
<1>5. ASSUME ~IsOne(inputsDims[d][j]), noBroadcast \/ (op.uni /\ d = 1) \/ OthersAreOne(d, j)
      PROVE  Access(d, j, l) = IF inputsDims[d][j].val = 1 THEN 0 ELSE l
  <2>1. inputsDims[d][j].val = op.result[j] \/ op.result[j] = 1
    <3>1. CASE noBroadcast
      BY <1>1, <3>1 DEF NoBroadcastInv
    <3>2. CASE op.uni /\ d = 1
      BY <1>2, <3>2
    <3>3. CASE OthersAreOne(d, j)
      BY <1>3, <3>3 DEF OthersAreOne, IsOne
    <3> QED BY <1>5, <3>1, <3>2, <3>3
  <2>2. op.result[j] = 1 => l = 0
    BY <1>2
  <2>3. Access(d, j, l) = l
    BY <1>5 DEF Access
  <2> QED BY <1>2, <2>1, <2>2, <2>3
<1>6. CASE ~IsOne(inputsDims[d][j]) /\ ~(noBroadcast \/ (op.uni /\ d = 1) \/ OthersAreOne(d, j))
  <2>1. Access(d, j, l) = IF inputsDims[d][j].val > 1 THEN l ELSE 0
    BY <1>6 DEF Access
  <2> QED BY <1>2, <2>1
<1> QED BY <1>4, <1>5, <1>6

(* Every variable keeps its type, for inputs of any number and rank.        *)
THEOREM TypeCorrect == Spec => []TypeOK
<1>1. Inv => TypeOK
  BY DEF Inv
<1> QED BY <1>1, Invariant, PTL

(* customComputeShape and refineDims: the shape computed from what is known *)
(* at compile time is the one the inputs broadcast to at run time.          *)
THEOREM ShapesAreRight == Spec => []ShapeIsRight
<1>1. Inv => ShapeIsRight
  BY DEF Inv, ShapeInv
<1> QED BY <1>1, Invariant, PTL

(* hasManageableBroadcastForInnerDims: an operand is a scalar in the loops  *)
(* that are collapsed, or has all of their dimensions in full.              *)
THEOREM CollapsesAreSafe == Spec => []CollapseIsSafe
<1> QED BY CollapseHolds, Invariant, PTL

(* getAccessExprs: where the code uses the index of the loop without a test *)
(* of the size, the test would have made no difference.                     *)
THEOREM AccessesAreRight == Spec => []AccessIsRight
<1> QED BY AccessHolds, Invariant, PTL

(***************************************************************************)
(* Induction over the natural numbers, for a set in place of a predicate.   *)
(***************************************************************************)
LEMMA Least ==
  ASSUME NEW T \in SUBSET Nat, T # {}
  PROVE  \E x \in T : \A y \in T : x <= y
<1>1. PICK x \in T : \A y \in T : ~(<<y, x>> \in OpToRel(<, Nat))
  BY NatLessThanWellFounded, WFMin
<1>2. \A y \in T : ~(y < x)
  BY <1>1 DEF OpToRel
<1> QED BY <1>2

(* A set that has 0 and every successor has all natural numbers.            *)
LEMMA Induction ==
  ASSUME NEW S, 0 \in S, \A m \in Nat : m \in S => m + 1 \in S
  PROVE  Nat \subseteq S
<1>1. SUFFICES ASSUME Nat \ S # {} PROVE FALSE
  OBVIOUS
<1>2. PICK x \in Nat \ S : \A y \in Nat \ S : x <= y
  BY Least, <1>1
<1>3. x # 0
  BY <1>2
<1>4. x - 1 \in S
  BY <1>2, <1>3
<1> QED BY <1>4, <1>2

(***************************************************************************)
(* Functions defined by recursion over an interval exist and are unique:    *)
(* p begins with e and is continued by the functions G.                     *)
(***************************************************************************)
Iterates(p, lo, hi, e, G) ==
  /\ p = [k \in lo..hi |-> p[k]]
  /\ p[lo] = e
  /\ \A k \in lo + 1..hi : p[k] = G[k][p[k - 1]]

LEMMA IterationExists ==
  ASSUME NEW lo \in Int, NEW n \in Nat, NEW T, NEW e \in T, NEW G,
         \A k \in lo + 1..lo + n : G[k] \in [T -> T]
  PROVE  \E p \in [lo..lo + n -> T] : Iterates(p, lo, lo + n, e, G)
<1> DEFINE S == {m \in Nat : m <= n => \E p \in [lo..lo + m -> T] : Iterates(p, lo, lo + m, e, G)}
<1>1. 0 \in S
  <2> DEFINE p == [k \in lo..lo |-> e]
  <2>1. lo..lo + 0 = lo..lo /\ lo + 1..lo + 0 = {}
    OBVIOUS
  <2>2. p \in [lo..lo + 0 -> T] /\ Iterates(p, lo, lo + 0, e, G)
    BY <2>1 DEF Iterates
  <2> HIDE DEF p
  <2> QED BY <2>2
<1>2. ASSUME NEW m \in Nat, m \in S PROVE m + 1 \in S
  <2> SUFFICES ASSUME m + 1 <= n
               PROVE  \E p \in [lo..lo + (m + 1) -> T] : Iterates(p, lo, lo + (m + 1), e, G)
    OBVIOUS
  <2>1. PICK p \in [lo..lo + m -> T] : Iterates(p, lo, lo + m, e, G)
    BY <1>2
  <2> DEFINE c == lo + (m + 1)
             q == [k \in lo..c |-> IF k = c THEN G[c][p[lo + m]] ELSE p[k]]
  <2>2. /\ c \in lo + 1..lo + n /\ c \in Int /\ c # lo /\ lo + m = c - 1 /\ lo + m \in lo..lo + m
        /\ lo \in lo..lo + m /\ lo \in lo..c
        /\ \A k \in lo..c : k # c => k \in lo..lo + m
        /\ \A k \in lo + 1..c : k \in lo..c /\ k - 1 \in lo..lo + m /\ k - 1 # c /\ k - 1 \in lo..c
        /\ \A k \in lo + 1..c : k # c => k \in lo + 1..lo + m
    OBVIOUS
  <2>3. q \in [lo..c -> T]
    BY <2>1, <2>2
  <2>4. q[lo] = e
    BY <2>1, <2>2 DEF Iterates
  <2>5. ASSUME NEW k \in lo + 1..c PROVE q[k] = G[k][q[k - 1]]
    <3> HIDE DEF c
    <3>1. q[k - 1] = p[k - 1]
      BY <2>2
    <3>2. CASE k = c
      BY <2>2, <3>1, <3>2
    <3>3. CASE k # c
      <4>1. k \in lo + 1..lo + m /\ k \in lo..c
        BY <2>2, <3>3
      <4>2. p[k] = G[k][p[k - 1]]
        BY <2>1, <4>1 DEF Iterates
      <4> QED BY <3>1, <3>3, <4>1, <4>2
    <3> QED BY <3>2, <3>3
  <2> HIDE DEF q, c
  <2>6. q = [k \in lo..c |-> q[k]]
    BY <2>3
  <2>7. Iterates(q, lo, c, e, G)
    BY <2>4, <2>5, <2>6 DEF Iterates
  <2> QED BY <2>3, <2>7 DEF c
<1>3. n \in S
  BY <1>1, <1>2, Induction
<1> QED BY <1>3

Alike(p, q, lo, hi) ==
  /\ lo \in Int /\ hi \in Int
  /\ p[lo] = q[lo]
  /\ \A k \in lo..hi : k # lo /\ p[k - 1] = q[k - 1] => p[k] = q[k]

LEMMA Agreement ==
  ASSUME NEW lo, NEW hi, NEW p, NEW q, Alike(p, q, lo, hi)
  PROVE  \A k \in lo..hi : p[k] = q[k]
<1> USE DEF Alike
<1> DEFINE S == {m \in Nat : lo + m <= hi => p[lo + m] = q[lo + m]}
<1>1. 0 \in S
  OBVIOUS
<1>2. ASSUME NEW m \in Nat, m \in S PROVE m + 1 \in S
  <2> SUFFICES ASSUME lo + (m + 1) <= hi PROVE p[lo + (m + 1)] = q[lo + (m + 1)]
    OBVIOUS
  <2>1. p[lo + m] = q[lo + m]
    BY <1>2
  <2> DEFINE k == lo + (m + 1)
  <2>2. k \in lo..hi /\ k # lo /\ k - 1 = lo + m
    OBVIOUS
  <2> HIDE DEF k
  <2>3. p[k] = q[k]
    BY <2>1, <2>2
  <2> QED BY <2>3 DEF k
<1>3. Nat \subseteq S
  BY <1>1, <1>2, Induction
<1>4. ASSUME NEW k \in lo..hi PROVE p[k] = q[k]
  <2>1. k - lo \in Nat /\ lo + (k - lo) = k
    OBVIOUS
  <2> QED BY <1>3, <2>1
<1> QED BY <1>4

(***************************************************************************)
(* Product and RowMajor, which are defined in this way.                     *)
(***************************************************************************)
Times(f) == [k \in DOMAIN f |-> [v \in Nat |-> v * f[k]]]

LEMMA NatTimes == \A x, y \in Nat : x * y \in Nat
OBVIOUS

(* The factors are numbers; nothing is asked of f outside of a..b.          *)
Factors(f, a, b) ==
  /\ a \in Nat \ {0} /\ b \in Nat /\ a <= b + 1
  /\ \A k \in a..b : k \in DOMAIN f /\ f[k] \in Nat

LEMMA ProductIterates ==
  ASSUME NEW f, NEW a, NEW b, Factors(f, a, b)
  PROVE  \E p \in [a - 1..b -> Nat] :
           /\ p[a - 1] = 1
           /\ \A k \in a..b : p[k] = p[k - 1] * f[k]
           /\ Product(f, a, b) = p[b]
<1> DEFINE lo == a - 1
           n == b - lo
           F(p) == [k \in a - 1..b |-> IF k < a THEN 1 ELSE p[k - 1] * f[k]]
<1>0. /\ a \in Nat \ {0} /\ b \in Nat /\ a <= b + 1
      /\ \A k \in a..b : k \in DOMAIN f /\ f[k] \in Nat
  BY DEF Factors
<1>1. lo \in Int /\ n \in Nat /\ lo + n = b /\ lo + 1 = a
  BY <1>0
<1>2. \A k \in lo + 1..lo + n : Times(f)[k] \in [Nat -> Nat]
  BY <1>0, <1>1, NatTimes DEF Times
<1>3. PICK p : p \in [lo..lo + n -> Nat] /\ Iterates(p, lo, lo + n, 1, Times(f))
  BY <1>1, <1>2, IterationExists
<1>4. ASSUME NEW k \in a..b PROVE p[k] = p[k - 1] * f[k]
  <2>1. k \in lo + 1..lo + n /\ k - 1 \in lo..lo + n
    BY <1>0, <1>1
  <2>2. p[k] = Times(f)[k][p[k - 1]] /\ p[k - 1] \in Nat
    BY <1>3, <2>1 DEF Iterates
  <2> QED BY <1>0, <2>2 DEF Times
<1>5. p = F(p)
  <2>1. ASSUME NEW k \in a - 1..b PROVE p[k] = F(p)[k]
    <3>1. CASE k < a
      BY <1>1, <1>3, <3>1 DEF Iterates
    <3>2. CASE ~(k < a)
      BY <1>0, <1>4, <3>2
    <3> QED BY <3>1, <3>2
  <2> QED BY <1>1, <1>3, <2>1
<1> DEFINE q == CHOOSE g : g = F(g)
<1>6. q = F(q)
  BY <1>5
<1>7. Product(f, a, b) = q[b]
  BY DEF Product
<1> HIDE DEF q
<1>8. q[a - 1] = 1 /\ p[a - 1] = 1
  BY <1>1, <1>3, <1>6 DEF Iterates
<1>9. ASSUME NEW k \in a..b PROVE q[k] = q[k - 1] * f[k]
  BY <1>0, <1>6
<1>10. Alike(p, q, lo, b)
  BY <1>0, <1>4, <1>8, <1>9 DEF Alike
<1> HIDE DEF lo
<1>11. \A k \in lo..b : p[k] = q[k]
  BY <1>10, Agreement
<1>12. q[b] = p[b]
  BY <1>0, <1>11 DEF lo
<1> QED BY <1>1, <1>3, <1>4, <1>7, <1>8, <1>12 DEF lo

LEMMA ProductEmpty ==
  ASSUME NEW f, NEW b \in Nat
  PROVE  Product(f, b + 1, b) = 1
<1>1. Factors(f, b + 1, b)
  BY DEF Factors
<1>2. (b + 1) - 1 = b
  OBVIOUS
<1> QED BY <1>1, <1>2, ProductIterates

LEMMA ProductAgree ==
  ASSUME NEW f, NEW g, NEW a, NEW b, Factors(f, a, b), Factors(g, a, b), \A k \in a..b : f[k] = g[k]
  PROVE  Product(f, a, b) = Product(g, a, b)
<1>1. PICK p : p[a - 1] = 1 /\ (\A k \in a..b : p[k] = p[k - 1] * f[k]) /\ Product(f, a, b) = p[b]
  BY ProductIterates
<1>2. PICK q : q[a - 1] = 1 /\ (\A k \in a..b : q[k] = q[k - 1] * g[k]) /\ Product(g, a, b) = q[b]
  BY ProductIterates
<1> DEFINE lo == a - 1
<1>3. lo \in Int /\ b \in Int /\ b \in lo..b /\ \A k \in lo..b : k # lo => k \in a..b
  BY DEF Factors
<1>4. Alike(p, q, lo, b)
  BY <1>1, <1>2, <1>3 DEF Alike
<1>5. \A k \in lo..b : p[k] = q[k]
  BY <1>4, Agreement
<1> QED BY <1>1, <1>2, <1>3, <1>5

LEMMA ProductStep ==
  ASSUME NEW f, NEW a, NEW b, Factors(f, a, b), a <= b
  PROVE  Product(f, a, b) = Product(f, a, b - 1) * f[b]
<1> DEFINE lo == a - 1
           c == b - 1
<1>1. /\ c \in Nat /\ c \in lo..c /\ b \in a..b /\ lo \in Int /\ Factors(f, a, c)
      /\ \A k \in lo..c : k # lo => k \in a..b /\ k \in a..c
  BY DEF Factors
<1>2. PICK p : p[lo] = 1 /\ (\A k \in a..b : p[k] = p[k - 1] * f[k]) /\ Product(f, a, b) = p[b]
  BY ProductIterates
<1> HIDE DEF c
<1>3. PICK q : q[lo] = 1 /\ (\A k \in a..c : q[k] = q[k - 1] * f[k]) /\ Product(f, a, c) = q[c]
  BY <1>1, ProductIterates
<1>4. Alike(p, q, lo, c)
  BY <1>1, <1>2, <1>3 DEF Alike
<1>5. \A k \in lo..c : p[k] = q[k]
  BY <1>4, Agreement
<1>6. Product(f, a, b) = p[c] * f[b]
  BY <1>1, <1>2 DEF c
<1> QED BY <1>1, <1>3, <1>5, <1>6 DEF c

(* The same within an interval, its first number being the base.           *)
LEMMA IntervalInduction ==
  ASSUME NEW lo \in Int, NEW hi \in Int, NEW S, lo \in S,
         \A k \in lo..hi : k # lo /\ k - 1 \in S => k \in S
  PROVE  \A k \in lo..hi : k \in S
<1> DEFINE N == {m \in Nat : lo + m <= hi => lo + m \in S}
<1>1. 0 \in N
  OBVIOUS
<1>2. ASSUME NEW m \in Nat, m \in N PROVE m + 1 \in N
  <2> SUFFICES ASSUME lo + (m + 1) <= hi PROVE lo + (m + 1) \in S
    OBVIOUS
  <2> DEFINE k == lo + (m + 1)
  <2>1. k \in lo..hi /\ k # lo /\ k - 1 = lo + m
    OBVIOUS
  <2>2. lo + m \in S
    BY <1>2
  <2> HIDE DEF k
  <2>3. k \in S
    BY <2>1, <2>2
  <2> QED BY <2>3 DEF k
<1>3. Nat \subseteq N
  BY <1>1, <1>2, Induction
<1>4. ASSUME NEW k \in lo..hi PROVE k \in S
  <2>1. k - lo \in Nat /\ lo + (k - lo) = k
    OBVIOUS
  <2> QED BY <1>3, <2>1
<1> QED BY <1>4

LEMMA NatProduct ==
  ASSUME NEW f, NEW a, NEW b, Factors(f, a, b)
  PROVE  Product(f, a, b) \in Nat
<1>1. PICK p : p \in [a - 1..b -> Nat] /\ Product(f, a, b) = p[b]
  BY ProductIterates
<1> QED BY <1>1 DEF Factors

LEMMA FactorsWithin ==
  ASSUME NEW f, NEW a, NEW b, Factors(f, a, b), NEW c, NEW d, c \in a..b + 1, d \in a - 1..b, c <= d + 1
  PROVE  Factors(f, c, d)
BY DEF Factors

LEMMA MulAssoc == \A x, y, z \in Nat : (x * y) * z = x * (y * z)
OBVIOUS

LEMMA MulComm == \A x, y \in Nat : x * y = y * x
OBVIOUS

LEMMA MulOne == \A x \in Nat : x * 1 = x /\ 1 * x = x /\ x * 0 = 0 /\ 0 * x = 0
OBVIOUS

LEMMA MulPositive == \A x, y \in Nat : x # 0 /\ y # 0 => x * y # 0
OBVIOUS

(* The product over a..c is that over a..b times that over b + 1..c.        *)
LEMMA ProductSplit ==
  ASSUME NEW f, NEW a, NEW b \in Nat, NEW c, Factors(f, a, c), a <= b + 1, b <= c
  PROVE  Product(f, a, c) = Product(f, a, b) * Product(f, b + 1, c)
<1> DEFINE S == {k \in b..c : Product(f, a, k) = Product(f, a, b) * Product(f, b + 1, k)}
<1>0. a \in Nat \ {0} /\ b \in Nat /\ c \in Nat /\ a - 1 <= b /\ b <= c
  BY DEF Factors
<1>1. b \in S
  <2>1. Product(f, b + 1, b) = 1
    BY <1>0, ProductEmpty
  <2>2. Factors(f, a, b)
    BY <1>0, FactorsWithin
  <2>3. Product(f, a, b) \in Nat
    BY <2>2, NatProduct
  <2>4. Product(f, a, b) = Product(f, a, b) * 1
    BY <2>3, MulOne
  <2> QED BY <1>0, <2>1, <2>4
<1>2. ASSUME NEW k \in b..c, k # b, k - 1 \in S PROVE k \in S
  <2>1. k \in Nat /\ b + 1 <= k /\ a <= k /\ k <= c /\ k - 1 \in Nat /\ k - 1 >= b
    BY <1>0, <1>2
  <2>2. Factors(f, a, k) /\ Factors(f, b + 1, k) /\ Factors(f, b + 1, k - 1) /\ Factors(f, a, b)
    BY <1>0, <2>1, FactorsWithin
  <2>3. /\ Product(f, a, k) = Product(f, a, k - 1) * f[k]
        /\ Product(f, b + 1, k) = Product(f, b + 1, k - 1) * f[k]
    BY <2>1, <2>2, ProductStep
  <2>4. Product(f, a, b) \in Nat /\ Product(f, b + 1, k - 1) \in Nat /\ f[k] \in Nat
    BY <2>1, <2>2, NatProduct DEF Factors
  <2>5. Product(f, a, k - 1) = Product(f, a, b) * Product(f, b + 1, k - 1)
    BY <1>2
  <2> QED BY <2>3, <2>4, <2>5, MulAssoc
<1> HIDE DEF S
<1>3. \A k \in b..c : k \in S
  BY <1>0, <1>1, <1>2, IntervalInduction
<1> QED BY <1>0, <1>3 DEF S

LEMMA ProductPositive ==
  ASSUME NEW f, NEW a, NEW b, Factors(f, a, b), \A k \in a..b : f[k] # 0
  PROVE  Product(f, a, b) \in Nat \ {0}
<1> DEFINE S == {k \in a - 1..b : Product(f, a, k) \in Nat \ {0}}
<1>0. a \in Nat \ {0} /\ b \in Nat /\ a - 1 \in Nat /\ a - 1 <= b /\ (a - 1) + 1 = a
  BY DEF Factors
<1>1. a - 1 \in S
  BY <1>0, ProductEmpty
<1>2. ASSUME NEW k \in a - 1..b, k # a - 1, k - 1 \in S PROVE k \in S
  <2>1. k \in a..b /\ a <= k
    BY <1>0, <1>2
  <2>2. Factors(f, a, k)
    BY <1>0, <2>1, FactorsWithin
  <2>3. Product(f, a, k) = Product(f, a, k - 1) * f[k]
    BY <2>1, <2>2, ProductStep
  <2>4. f[k] \in Nat \ {0} /\ Product(f, a, k - 1) \in Nat \ {0}
    BY <1>2, <2>1 DEF Factors
  <2> QED BY <2>3, <2>4, NatTimes, MulPositive
<1> HIDE DEF S
<1>3. \A k \in a - 1..b : k \in S
  BY <1>0, <1>1, <1>2, IntervalInduction
<1> QED BY <1>0, <1>3 DEF S

LEMMA ProductOfOnes ==
  ASSUME NEW f, NEW a, NEW b, Factors(f, a, b), \A k \in a..b : f[k] = 1
  PROVE  Product(f, a, b) = 1
<1> DEFINE S == {k \in a - 1..b : Product(f, a, k) = 1}
<1>0. a \in Nat \ {0} /\ b \in Nat /\ a - 1 \in Nat /\ a - 1 <= b /\ (a - 1) + 1 = a
  BY DEF Factors
<1>1. a - 1 \in S
  BY <1>0, ProductEmpty
<1>2. ASSUME NEW k \in a - 1..b, k # a - 1, k - 1 \in S PROVE k \in S
  <2>1. k \in a..b /\ a <= k
    BY <1>0, <1>2
  <2>2. Factors(f, a, k)
    BY <1>0, <2>1, FactorsWithin
  <2>3. Product(f, a, k) = Product(f, a, k - 1) * f[k]
    BY <2>1, <2>2, ProductStep
  <2> QED BY <1>2, <2>1, <2>3
<1> HIDE DEF S
<1>3. \A k \in a - 1..b : k \in S
  BY <1>0, <1>1, <1>2, IntervalInduction
<1> QED BY <1>0, <1>3 DEF S

(* What is known of a product at compile time divides it.                   *)
LEMMA ProductDivides ==
  ASSUME NEW f, NEW g, NEW a, NEW b, Factors(f, a, b), Factors(g, a, b),
         \A k \in a..b : g[k] \in {1, f[k]}
  PROVE  \E x \in Nat : Product(f, a, b) = x * Product(g, a, b)
<1> DEFINE S == {k \in a - 1..b : \E x \in Nat : Product(f, a, k) = x * Product(g, a, k)}
<1>0. a \in Nat \ {0} /\ b \in Nat /\ a - 1 \in Nat /\ a - 1 <= b /\ (a - 1) + 1 = a
  BY DEF Factors
<1>1. a - 1 \in S
  <2>1. Product(f, a, a - 1) = 1 /\ Product(g, a, a - 1) = 1
    BY <1>0, ProductEmpty
  <2>2. 1 \in Nat /\ 1 = 1 * 1
    OBVIOUS
  <2> QED BY <1>0, <2>1, <2>2
<1>2. ASSUME NEW k \in a - 1..b, k # a - 1, k - 1 \in S PROVE k \in S
  <2>1. k \in a..b /\ a <= k /\ k - 1 \in Nat
    BY <1>0, <1>2
  <2>2. Factors(f, a, k) /\ Factors(g, a, k) /\ Factors(g, a, k - 1)
    BY <1>0, <2>1, FactorsWithin
  <2>3. Product(f, a, k) = Product(f, a, k - 1) * f[k] /\ Product(g, a, k) = Product(g, a, k - 1) * g[k]
    BY <2>1, <2>2, ProductStep
  <2>4. PICK x \in Nat : Product(f, a, k - 1) = x * Product(g, a, k - 1)
    BY <1>2
  <2>5. f[k] \in Nat /\ g[k] \in {1, f[k]} /\ Product(g, a, k - 1) \in Nat
    BY <2>1, <2>2, NatProduct DEF Factors
  <2>6. CASE g[k] = f[k]
    BY <2>3, <2>4, <2>5, <2>6, MulAssoc
  <2>7. CASE g[k] = 1
    <3>1. Product(g, a, k) = Product(g, a, k - 1)
      BY <2>3, <2>5, <2>7, MulOne
    <3>2. \A u, v, w \in Nat : (u * v) * w = (u * w) * v
      OBVIOUS
    <3>3. Product(f, a, k) = (x * f[k]) * Product(g, a, k)
      BY <2>3, <2>4, <2>5, <3>1, <3>2
    <3>4. x * f[k] \in Nat
      BY <2>5, NatTimes
    <3> QED BY <3>3, <3>4
  <2> QED BY <2>5, <2>6, <2>7
<1> HIDE DEF S
<1>3. \A k \in a - 1..b : k \in S
  BY <1>0, <1>1, <1>2, IntervalInduction
<1> QED BY <1>0, <1>3 DEF S

(* The sizes of n dimensions, and an index in each of them.                 *)
Indexed(ds, n, index) ==
  /\ n \in Nat
  /\ \A k \in 1..n : ds[k] \in Nat /\ index[k] \in Nat

Rows(ds, n, index) == [k \in 1..n |-> [v \in Nat |-> v * ds[k] + index[k]]]

LEMMA RowMajorIterates ==
  ASSUME NEW ds, NEW n, NEW index, Indexed(ds, n, index)
  PROVE  \E p \in [0..n -> Nat] :
           /\ p[0] = 0
           /\ \A k \in 1..n : p[k] = p[k - 1] * ds[k] + index[k]
           /\ RowMajor(ds, n, index) = p[n]
<1> DEFINE F(p) == [j \in 0..n |-> IF j = 0 THEN 0 ELSE p[j - 1] * ds[j] + index[j]]
<1>0. n \in Nat /\ (\A k \in 1..n : ds[k] \in Nat /\ index[k] \in Nat) /\ 0 + n = n
  BY DEF Indexed
<1>1. \A x, y, z \in Nat : x * y + z \in Nat
  OBVIOUS
<1> DEFINE lo == 0
<1>2. lo \in Int /\ lo + n = n /\ \A k \in lo + 1..lo + n : Rows(ds, n, index)[k] \in [Nat -> Nat]
  BY <1>0, <1>1 DEF Rows
<1>3. PICK p : p \in [0..n -> Nat] /\ Iterates(p, 0, n, 0, Rows(ds, n, index))
  <2> HIDE DEF lo
  <2>1. \E p \in [lo..lo + n -> Nat] : Iterates(p, lo, lo + n, 0, Rows(ds, n, index))
    BY <1>0, <1>2, IterationExists
  <2> QED BY <1>2, <2>1 DEF lo
<1>4. ASSUME NEW k \in 1..n PROVE p[k] = p[k - 1] * ds[k] + index[k]
  <2>1. k \in 0 + 1..n /\ k - 1 \in 0..n
    BY <1>0
  <2>2. p[k] = Rows(ds, n, index)[k][p[k - 1]] /\ p[k - 1] \in Nat
    BY <1>3, <2>1 DEF Iterates
  <2> QED BY <1>0, <2>2 DEF Rows
<1>5. p = F(p)
  <2>1. ASSUME NEW k \in 0..n PROVE p[k] = F(p)[k]
    <3>1. CASE k = 0
      BY <1>0, <1>3, <3>1 DEF Iterates
    <3>2. CASE k # 0
      BY <1>0, <1>4, <3>2
    <3> QED BY <3>1, <3>2
  <2> QED BY <1>0, <1>3, <2>1
<1> DEFINE q == CHOOSE g : g = F(g)
<1>6. q = F(q)
  BY <1>5
<1>7. RowMajor(ds, n, index) = q[n]
  BY DEF RowMajor
<1> HIDE DEF q
<1>8. q[0] = 0 /\ p[0] = 0
  BY <1>0, <1>3, <1>6 DEF Iterates
<1>9. ASSUME NEW k \in 1..n PROVE q[k] = q[k - 1] * ds[k] + index[k]
  BY <1>0, <1>6
<1>10. Alike(p, q, 0, n)
  BY <1>0, <1>4, <1>8, <1>9 DEF Alike
<1>11. \A k \in 0..n : p[k] = q[k]
  BY <1>10, Agreement
<1>12. q[n] = p[n]
  BY <1>0, <1>11
<1> QED BY <1>3, <1>4, <1>7, <1>8, <1>12

LEMMA RowMajorNat ==
  ASSUME NEW ds, NEW n, NEW index, Indexed(ds, n, index)
  PROVE  RowMajor(ds, n, index) \in Nat
<1>1. PICK p : p \in [0..n -> Nat] /\ RowMajor(ds, n, index) = p[n]
  BY RowMajorIterates
<1> QED BY <1>1 DEF Indexed

LEMMA RowMajorAgree ==
  ASSUME NEW ds, NEW n, NEW index, NEW other, Indexed(ds, n, index), Indexed(ds, n, other),
         \A k \in 1..n : index[k] = other[k]
  PROVE  RowMajor(ds, n, index) = RowMajor(ds, n, other)
<1>1. PICK p : /\ p[0] = 0
               /\ \A k \in 1..n : p[k] = p[k - 1] * ds[k] + index[k]
               /\ RowMajor(ds, n, index) = p[n]
  BY RowMajorIterates
<1>2. PICK q : /\ q[0] = 0
               /\ \A k \in 1..n : q[k] = q[k - 1] * ds[k] + other[k]
               /\ RowMajor(ds, n, other) = q[n]
  BY RowMajorIterates
<1>3. n \in Nat /\ n \in 0..n /\ \A k \in 0..n : k # 0 => k \in 1..n
  BY DEF Indexed
<1>4. Alike(p, q, 0, n)
  BY <1>1, <1>2, <1>3 DEF Alike
<1>5. \A k \in 0..n : p[k] = q[k]
  BY <1>4, Agreement
<1> QED BY <1>1, <1>2, <1>3, <1>5

LEMMA RowMajorStep ==
  ASSUME NEW ds, NEW n, NEW index, Indexed(ds, n, index), n # 0
  PROVE  RowMajor(ds, n, index) = RowMajor(ds, n - 1, index) * ds[n] + index[n]
<1> DEFINE c == n - 1
<1>1. /\ c \in Nat /\ c \in 0..c /\ n \in 1..n /\ Indexed(ds, c, index)
      /\ \A k \in 0..c : k # 0 => k \in 1..n /\ k \in 1..c
  BY DEF Indexed
<1>2. PICK p : /\ p[0] = 0
               /\ \A k \in 1..n : p[k] = p[k - 1] * ds[k] + index[k]
               /\ RowMajor(ds, n, index) = p[n]
  BY RowMajorIterates
<1> HIDE DEF c
<1>3. PICK q : /\ q[0] = 0
               /\ \A k \in 1..c : q[k] = q[k - 1] * ds[k] + index[k]
               /\ RowMajor(ds, c, index) = q[c]
  BY <1>1, RowMajorIterates
<1>4. Alike(p, q, 0, c)
  BY <1>1, <1>2, <1>3 DEF Alike
<1>5. \A k \in 0..c : p[k] = q[k]
  BY <1>4, Agreement
<1>6. RowMajor(ds, n, index) = p[c] * ds[n] + index[n]
  BY <1>1, <1>2 DEF c
<1> QED BY <1>1, <1>3, <1>5, <1>6 DEF c

(* Dimensions in which the index is 0 and the size 1 do not count.          *)
LEMMA RowMajorOnes ==
  ASSUME NEW ds, NEW n, NEW index, Indexed(ds, n, index), NEW m \in 0..n,
         \A k \in m + 1..n : ds[k] = 1 /\ index[k] = 0
  PROVE  RowMajor(ds, n, index) = RowMajor(ds, m, index)
<1> DEFINE S == {k \in m..n : RowMajor(ds, k, index) = RowMajor(ds, m, index)}
<1>0. n \in Nat /\ m \in Nat /\ m <= n
  BY DEF Indexed
<1>1. m \in S
  BY <1>0
<1>2. ASSUME NEW k \in m..n, k # m, k - 1 \in S PROVE k \in S
  <2>1. k \in Nat /\ k # 0 /\ k - 1 \in Nat /\ Indexed(ds, k, index) /\ Indexed(ds, k - 1, index)
    BY <1>0, <1>2 DEF Indexed
  <2>2. RowMajor(ds, k, index) = RowMajor(ds, k - 1, index) * ds[k] + index[k]
    BY <2>1, RowMajorStep
  <2>3. RowMajor(ds, k - 1, index) \in Nat /\ RowMajor(ds, k - 1, index) = RowMajor(ds, m, index)
    BY <1>2, <2>1, RowMajorNat
  <2>4. ds[k] = 1 /\ index[k] = 0
    BY <1>0, <1>2
  <2>5. \A x \in Nat : x * 1 + 0 = x
    OBVIOUS
  <2> QED BY <2>2, <2>3, <2>4, <2>5
<1> HIDE DEF S
<1>3. \A k \in m..n : k \in S
  BY <1>0, <1>1, <1>2, IntervalInduction
<1> QED BY <1>0, <1>3 DEF S

(***************************************************************************)
(* Division.                                                               *)
(***************************************************************************)
LEMMA DivMod ==
  ASSUME NEW a \in Nat, NEW b \in Nat \ {0}
  PROVE  a \div b \in Nat /\ a % b \in Nat /\ a % b < b /\ a = b * (a \div b) + (a % b)
OBVIOUS

LEMMA MulLess ==
  ASSUME NEW b \in Nat, NEW x \in Nat, NEW y \in Nat, x < y
  PROVE  b * x + b <= b * y
<1>1. PICK d \in Nat : y = x + 1 + d
  <2>1. y - x - 1 \in Nat /\ y = x + 1 + (y - x - 1)
    OBVIOUS
  <2> QED BY <2>1
<1>2. b * (x + 1 + d) = b * x + b + b * d /\ b * d \in Nat
  OBVIOUS
<1> QED BY <1>1, <1>2

LEMMA DivUnique ==
  ASSUME NEW a \in Nat, NEW b \in Nat \ {0}, NEW q \in Nat, NEW s \in Nat, s < b, a = b * q + s
  PROVE  a \div b = q /\ a % b = s
<1> DEFINE t == a \div b
           u == a % b
<1>1. t \in Nat /\ u \in Nat /\ u < b /\ a = b * t + u
  BY DivMod
<1> HIDE DEF t, u
<1>2. b * t \in Nat /\ b * q \in Nat
  BY <1>1, NatTimes
<1>3. ~(t < q)
  <2> SUFFICES ASSUME t < q PROVE FALSE
    OBVIOUS
  <2>1. b * t + b <= b * q
    BY <1>1, MulLess
  <2> QED BY <1>1, <1>2, <2>1
<1>4. ~(q < t)
  <2> SUFFICES ASSUME q < t PROVE FALSE
    OBVIOUS
  <2>1. b * q + b <= b * t
    BY <1>1, MulLess
  <2> QED BY <1>1, <1>2, <2>1
<1>5. t = q
  BY <1>1, <1>3, <1>4
<1>6. u = s
  BY <1>1, <1>2, <1>5
<1> QED BY <1>5, <1>6 DEF t, u

LEMMA DivOfDiv ==
  ASSUME NEW a \in Nat, NEW b \in Nat \ {0}, NEW c \in Nat \ {0}
  PROVE  (a \div b) \div c = a \div (b * c)
<1> DEFINE q == a \div b
           s == a % b
           t == q \div c
           u == q % c
<1>1. q \in Nat /\ s \in Nat /\ s < b /\ a = b * q + s
  BY DivMod
<1> HIDE DEF q, s
<1>2. t \in Nat /\ u \in Nat /\ u < c /\ q = c * t + u
  BY <1>1, DivMod
<1> HIDE DEF t, u
<1>3. b * c \in Nat \ {0} /\ b * u + s \in Nat
  BY <1>1, <1>2, NatTimes, MulPositive
<1>4. b * u + s < b * c
  <2>1. b * u + b <= b * c
    BY <1>2, MulLess
  <2>2. b * u \in Nat /\ b * c \in Nat
    BY <1>2, NatTimes
  <2> QED BY <1>1, <2>1, <2>2
<1>5. a = (b * c) * t + (b * u + s)
  <2>1. b * (c * t + u) = (b * c) * t + b * u
    BY <1>2
  <2>2. b * u \in Nat /\ (b * c) * t \in Nat
    BY <1>2, NatTimes
  <2> QED BY <1>1, <1>2, <2>1, <2>2
<1>6. a \div (b * c) = t
  BY <1>2, <1>3, <1>4, <1>5, DivUnique
<1> QED BY <1>6 DEF t, q

LEMMA DivOfSum ==
  ASSUME NEW m \in Nat, NEW x \in Nat, NEW b \in Nat \ {0}
  PROVE  (m * b + x) \div b = m + (x \div b) /\ (m * b + x) % b = x % b
<1> DEFINE q == x \div b
           s == x % b
<1>1. q \in Nat /\ s \in Nat /\ s < b /\ x = b * q + s
  BY DivMod
<1> HIDE DEF q, s
<1>2. m * b + x = b * (m + q) + s /\ m + q \in Nat /\ m * b + x \in Nat
  <2>1. b * (m + q) = m * b + b * q /\ m * b \in Nat /\ b * q \in Nat
    BY <1>1
  <2> QED BY <1>1, <2>1
<1>3. (m * b + x) \div b = m + q /\ (m * b + x) % b = s
  BY <1>1, <1>2, DivUnique
<1> QED BY <1>3 DEF q, s

LEMMA DivSmall ==
  ASSUME NEW x \in Nat, NEW b \in Nat \ {0}, x < b
  PROVE  x \div b = 0 /\ x % b = x
<1>1. x = b * 0 + x
  OBVIOUS
<1> QED BY <1>1, DivUnique

LEMMA ModOfMultiple ==
  ASSUME NEW m \in Nat, NEW b \in Nat \ {0}
  PROVE  (m * b) % b = 0
<1>1. m * b \in Nat /\ m * b = b * m + 0
  OBVIOUS
<1> QED BY <1>1, DivUnique

LEMMA MultipleOfMod ==
  ASSUME NEW x \in Nat, NEW b \in Nat \ {0}, x % b = 0
  PROVE  \E m \in Nat : x = m * b
<1>1. x \div b \in Nat /\ x = b * (x \div b) + 0
  BY DivMod
<1>2. b * (x \div b) = (x \div b) * b
  BY <1>1, MulComm
<1>3. (x \div b) * b \in Nat
  BY <1>1, NatTimes
<1> QED BY <1>1, <1>2, <1>3

(***************************************************************************)
(* Element number o * I + l of a tensor of n dimensions R, where I is the   *)
(* size of those after m: it is element l of slice o.                       *)
(***************************************************************************)
Shape(R, n) == n \in Nat /\ \A k \in 1..n : k \in DOMAIN R /\ R[k] \in Nat \ {0}

LEMMA ShapeFactors ==
  ASSUME NEW R, NEW n, Shape(R, n), NEW a \in Nat \ {0}, NEW b \in Nat, a <= b + 1, b <= n
  PROVE  Factors(R, a, b) /\ Product(R, a, b) \in Nat \ {0}
<1>1. Factors(R, a, b) /\ \A k \in a..b : R[k] # 0
  BY DEF Shape, Factors
<1> QED BY <1>1, ProductPositive

(* The product of the sizes from the first dimension on, or from the next.  *)
LEMMA ProductFirst ==
  ASSUME NEW R, NEW n, Shape(R, n), NEW k \in 1..n
  PROVE  Product(R, k, n) = R[k] * Product(R, k + 1, n)
<1>1. n \in Nat /\ k \in Nat /\ k <= n /\ k \in k - 1..n /\ R[k] \in Nat
  BY DEF Shape
<1>2. Factors(R, k, n) /\ Factors(R, k, k)
  BY <1>1, ShapeFactors
<1>3. Product(R, k, n) = Product(R, k, k) * Product(R, k + 1, n)
  BY <1>1, <1>2, ProductSplit
<1>4. Product(R, k, k) = Product(R, k, k - 1) * R[k]
  BY <1>1, <1>2, ProductStep
<1>5. Product(R, k, k - 1) = 1
  <2>1. k - 1 \in Nat /\ (k - 1) + 1 = k
    BY <1>1
  <2>2. Product(R, (k - 1) + 1, k - 1) = 1
    BY <2>1, ProductEmpty
  <2> QED BY <2>1, <2>2
<1> QED BY <1>1, <1>3, <1>4, <1>5, MulOne

(* In the dimensions outside, the coordinates are those of the slice.      *)
LEMMA OuterCoordinate ==
  ASSUME NEW R, NEW n, Shape(R, n), NEW m \in 0..n, NEW o \in Nat, NEW l \in Nat,
         l < Product(R, m + 1, n), NEW j \in 1..m
  PROVE  Coordinate(R, n, o * Product(R, m + 1, n) + l, j) = Coordinate(R, m, o, j)
<1> DEFINE I == Product(R, m + 1, n)
           P == Product(R, j + 1, m)
           e == o * I + l
<1>1. /\ n \in Nat /\ m \in Nat /\ m <= n /\ j \in Nat /\ j <= m
      /\ m + 1 \in Nat \ {0} /\ j + 1 \in Nat \ {0} /\ m + 1 <= n + 1 /\ j + 1 <= n + 1 /\ j + 1 <= m + 1
  BY DEF Shape
<1>2. I \in Nat \ {0} /\ P \in Nat \ {0} /\ Factors(R, j + 1, n)
  BY <1>1, ShapeFactors
<1>3. Product(R, j + 1, n) = P * I
  BY <1>1, <1>2, ProductSplit
<1>4. l < I
  OBVIOUS
<1> HIDE DEF I, P
<1>5. e \in Nat
  <2>1. o * I \in Nat
    BY <1>2, NatTimes
  <2> QED BY <2>1
<1>6. e \div I = o
  <2>1. e \div I = o + (l \div I)
    BY <1>2, DivOfSum
  <2>2. l \div I = 0
    BY <1>2, <1>4, DivSmall
  <2> QED BY <2>1, <2>2
<1> HIDE DEF e
<1>7. e \div (P * I) = o \div P
  <2>1. P * I = I * P
    BY <1>2, MulComm
  <2>2. (e \div I) \div P = e \div (I * P)
    BY <1>2, <1>5, DivOfDiv
  <2> QED BY <1>6, <2>1, <2>2
<1>8. Coordinate(R, n, e, j) = Coordinate(R, m, o, j)
  BY <1>3, <1>7 DEF Coordinate, P
<1> QED BY <1>8 DEF e, I

(* In the dimensions inside, the coordinates are those within the slice.   *)
LEMMA InnerCoordinate ==
  ASSUME NEW R, NEW n, Shape(R, n), NEW m \in 0..n, NEW o \in Nat, NEW l \in Nat, NEW k \in m + 1..n
  PROVE  Coordinate(R, n, o * Product(R, m + 1, n) + l, k) = (l \div Product(R, k + 1, n)) % R[k]
<1> DEFINE I == Product(R, m + 1, n)
           A == Product(R, m + 1, k - 1)
           Q == Product(R, k + 1, n)
           x == l \div Q
<1>1. /\ n \in Nat /\ m \in Nat /\ m <= n /\ k \in Nat /\ m + 1 <= k /\ k <= n
      /\ m + 1 \in Nat \ {0} /\ k + 1 \in Nat \ {0} /\ k - 1 \in Nat /\ k - 1 <= n /\ k + 1 <= n + 1
      /\ m + 1 <= n + 1 /\ m + 1 <= (k - 1) + 1 /\ (k - 1) + 1 = k /\ k \in 1..n
  BY DEF Shape
<1>2. /\ I \in Nat \ {0} /\ A \in Nat \ {0} /\ Q \in Nat \ {0} /\ R[k] \in Nat \ {0}
      /\ Factors(R, m + 1, n)
  <2>1. A \in Nat \ {0}
    BY <1>1, ShapeFactors
  <2>2. I \in Nat \ {0} /\ Factors(R, m + 1, n)
    BY <1>1, ShapeFactors
  <2>3. Q \in Nat \ {0}
    BY <1>1, ShapeFactors
  <2> QED BY <1>1, <2>1, <2>2, <2>3 DEF Shape
<1>3. Product(R, m + 1, n) = Product(R, m + 1, k - 1) * Product(R, (k - 1) + 1, n)
  BY <1>1, <1>2, ProductSplit
<1>4. I = A * (R[k] * Q)
  BY <1>1, <1>3, ProductFirst
<1> HIDE DEF I, A, Q
<1> DEFINE y == R[k]
           v == o * A
           w == v * y
<1>5. v \in Nat /\ w \in Nat /\ y \in Nat \ {0} /\ y * Q \in Nat
  BY <1>2, NatTimes
<1>6. o * I = w * Q
  <2>1. o * I = v * (y * Q)
    BY <1>2, <1>4, <1>5, MulAssoc
  <2> HIDE DEF v, y
  <2> QED BY <1>2, <1>5, <2>1, MulAssoc
<1> HIDE DEF w
<1>7. (o * I + l) \div Q = w + x
  <2>1. (w * Q + l) \div Q = w + (l \div Q)
    BY <1>2, <1>5, DivOfSum
  <2> QED BY <1>6, <2>1
<1>8. x \in Nat
  BY <1>2, DivMod
<1> HIDE DEF x, v, y
<1>9. (w + x) % y = x % y
  BY <1>5, <1>8, DivOfSum DEF w
<1>10. Coordinate(R, n, o * I + l, k) = x % y
  BY <1>7, <1>9 DEF Coordinate, Q, y
<1> QED BY <1>10 DEF x, I, Q, y

(* An operand with all the inner dimensions: in its row-major number they   *)
(* are a slice, and l counts within it.                                     *)
LEMMA FlatRow ==
  ASSUME NEW R, NEW n, Shape(R, n), NEW m \in 0..n, NEW l \in Nat, l < Product(R, m + 1, n),
         NEW ds, NEW index, Indexed(ds, n, index),
         \A k \in m + 1..n : ds[k] = R[k] /\ index[k] = (l \div Product(R, k + 1, n)) % R[k]
  PROVE  RowMajor(ds, n, index) = RowMajor(ds, m, index) * Product(R, m + 1, n) + l
<1> DEFINE A == RowMajor(ds, m, index)
           S == {k \in m..n : RowMajor(ds, k, index)
                                = A * Product(R, m + 1, k) + (l \div Product(R, k + 1, n))}
<1>0. n \in Nat /\ m \in Nat /\ m <= n /\ A \in Nat
  <2>1. n \in Nat /\ m \in Nat /\ m <= n
    BY DEF Shape
  <2>2. Indexed(ds, m, index)
    BY <2>1 DEF Indexed
  <2> QED BY <2>1, <2>2, RowMajorNat
<1> HIDE DEF A
<1>1. m \in S
  <2>1. Product(R, m + 1, m) = 1
    BY <1>0, ProductEmpty
  <2>2. Product(R, m + 1, n) \in Nat \ {0}
    BY <1>0, ShapeFactors
  <2>3. l \div Product(R, m + 1, n) = 0
    BY <2>2, DivSmall
  <2>4. A * 1 + 0 = A
    BY <1>0
  <2> QED BY <1>0, <2>1, <2>3, <2>4 DEF A
<1>2. ASSUME NEW k \in m..n, k # m, k - 1 \in S PROVE k \in S
  <2> DEFINE P == Product(R, m + 1, k - 1)
             Q == Product(R, k + 1, n)
             x == l \div Q
             y == R[k]
  <2>1. /\ k \in Nat /\ k # 0 /\ k \in m + 1..n /\ k \in 1..n /\ k - 1 \in Nat /\ (k - 1) + 1 = k
        /\ k - 1 <= n /\ k <= n /\ m + 1 <= k /\ k + 1 <= n + 1 /\ m + 1 <= (k - 1) + 1
        /\ m + 1 <= k + 1 /\ m + 1 \in Nat \ {0} /\ k + 1 \in Nat \ {0}
    BY <1>0, <1>2
  <2>2. P \in Nat \ {0} /\ Q \in Nat \ {0} /\ y \in Nat \ {0} /\ Factors(R, m + 1, k)
    <3>1. P \in Nat \ {0}
      BY <1>0, <2>1, ShapeFactors
    <3>2. Q \in Nat \ {0}
      BY <1>0, <2>1, ShapeFactors
    <3>3. Factors(R, m + 1, k)
      BY <1>0, <2>1, ShapeFactors
    <3> QED BY <2>1, <3>1, <3>2, <3>3 DEF Shape
  <2>3. RowMajor(ds, k, index) = RowMajor(ds, k - 1, index) * ds[k] + index[k]
    <3>1. Indexed(ds, k, index)
      BY <1>0, <2>1 DEF Indexed
    <3> QED BY <2>1, <3>1, RowMajorStep
  <2>4. ds[k] = y /\ index[k] = x % y
    BY <2>1
  <2>5. RowMajor(ds, k - 1, index) = A * P + (l \div Product(R, k, n))
    BY <1>2, <2>1
  <2>6. Product(R, k, n) = y * Q
    BY <2>1, ProductFirst
  <2>7. Product(R, m + 1, k) = P * y
    BY <2>1, <2>2, ProductStep
  <2> HIDE DEF P, Q, y
  <2>8. x \in Nat
    BY <2>2, DivMod
  <2>9. l \div (y * Q) = x \div y
    <3>1. y * Q = Q * y
      BY <2>2, MulComm
    <3>2. (l \div Q) \div y = l \div (Q * y)
      BY <2>2, DivOfDiv
    <3> QED BY <3>1, <3>2
  <2> HIDE DEF x
  <2>10. x \div y \in Nat /\ x % y \in Nat /\ x = y * (x \div y) + (x % y)
    BY <2>2, <2>8, DivMod
  <2>11. (A * P + (x \div y)) * y + (x % y) = A * (P * y) + x
    <3>1. \A a, p, z, u, v \in Nat : (a * p + u) * z + v = a * (p * z) + (z * u + v)
      OBVIOUS
    <3> QED BY <1>0, <2>2, <2>10, <3>1
  <2>12. RowMajor(ds, k, index) = A * Product(R, m + 1, k) + x
    BY <2>3, <2>4, <2>5, <2>6, <2>7, <2>9, <2>11
  <2> QED BY <2>12 DEF x, Q
<1> HIDE DEF S
<1>3. n \in S
  <2>1. \A k \in m..n : k \in S
    BY <1>0, <1>1, <1>2, IntervalInduction
  <2> QED BY <1>0, <2>1
<1>4. Product(R, n + 1, n) = 1
  BY <1>0, ProductEmpty
<1>5. l \div 1 = l
  OBVIOUS
<1> QED BY <1>3, <1>4, <1>5 DEF S, A

(***************************************************************************)
(* The loops.                                                              *)
(***************************************************************************)
(* What ChooseLoops has settled.                                            *)
LoopTypes ==
  /\ phase \in {"analysis", "loops", "done"}
  /\ VL \in Nat \ {0} /\ simdOnly \in BOOLEAN /\ flat \in Nat
  /\ outer \in Nat /\ inner \in Nat
  /\ DOMAIN mem \subseteq Nat

ChosenInv ==
  /\ phase = "analysis" => outer = 0 /\ inner = 0 /\ DOMAIN mem = {}
  /\ phase # "analysis" =>
       /\ pc = "analyzed"
       /\ flat \in {0, collapsed}
       /\ VL > 1 => flat = collapsed /\ flat > 0
       /\ simdOnly => VL > 1 /\ (CanOverCompute \/ InnerSize(dims) % VL = 0)

(* Where the loops are, and what they have stored on the way.               *)
PlaceInv ==
  phase # "analysis" =>
    /\ simdOnly => inner % VL = 0
    /\ phase = "done" => outer = OuterSize
    /\ \A e \in Nat : e < outer * InnerSize(dims) + inner => e \in DOMAIN mem

StoredRight ==
  (op.valid /\ phase # "analysis") =>
    \A e \in DOMAIN mem, d \in Operands : e < Total => mem[e][d] = Broadcast(d, e)

LoopInv == LoopTypes /\ ChosenInv /\ PlaceInv /\ StoredRight /\ StoresFit

Analyzed == Inv /\ pc = "analyzed" /\ flat \in {0, collapsed}

LEMMA AnalyzedFacts ==
  ASSUME Analyzed
  PROVE  /\ op \in Operations /\ rank \in Nat /\ collapsed \in Nat /\ collapsed <= rank
         /\ inputsDims \in [Inputs -> [Axes -> Dim]] /\ dims \in [Axes -> Dim]
         /\ OuterRank \in Nat /\ OuterRank <= rank
         /\ Axes = 1..rank
         /\ InnerAxes(flat) = OuterRank + 1..rank
         /\ Operands \subseteq Inputs
<1>1. /\ op \in Operations /\ rank \in Nat
      /\ inputsDims \in [Inputs -> [Axes -> Dim]] /\ dims \in [Axes -> Dim]
  BY DEF Analyzed, Inv, TypeOK
<1>2. collapsed \in Nat /\ collapsed <= rank
  <2>1. collapsed = r - 1 /\ r <= rank + 1 /\ r \in Nat \ {0}
    BY DEF Analyzed, Inv, CollapseInv, TypeOK
  <2> QED BY <1>1, <2>1
<1>3. OuterRank \in Nat /\ OuterRank <= rank /\ Axes = 1..rank
  BY <1>1, <1>2 DEF Analyzed, OuterRank, Axes
<1>4. InnerAxes(flat) = OuterRank + 1..rank
  BY <1>1, <1>2 DEF Analyzed, OuterRank, Axes, InnerAxes
<1>5. Operands \subseteq Inputs
  <2>1. Len(op.shapes) \in Nat /\ Len(op.shapes) >= 1
    BY <1>1, OpFacts
  <2> QED BY <2>1 DEF Operands, Inputs
<1> QED BY <1>1, <1>2, <1>3, <1>4, <1>5

LEMMA ValuesShape ==
  ASSUME rank \in Nat, NEW ds \in [Axes -> Dim]
  PROVE  /\ Shape(Values(ds), rank) /\ DOMAIN Values(ds) = 1..rank
         /\ \A j \in 1..rank : Values(ds)[j] = ds[j].val
         /\ Shape(Literals(ds), rank)
         /\ \A j \in 1..rank : Literals(ds)[j] \in {1, Values(ds)[j]}
         /\ \A j \in 1..rank : ds[j].known => Literals(ds)[j] = Values(ds)[j]
<1>1. Axes = 1..rank /\ DOMAIN ds = 1..rank
  BY DEF Axes
<1>2. \A j \in 1..rank : ds[j].val \in Nat \ {0}
  BY <1>1 DEF Dim
<1>3. DOMAIN Values(ds) = 1..rank /\ \A j \in 1..rank : Values(ds)[j] = ds[j].val
  BY <1>1 DEF Values
<1>4. /\ DOMAIN Literals(ds) = 1..rank
      /\ \A j \in 1..rank : Literals(ds)[j] = IF ds[j].known THEN ds[j].val ELSE 1
  BY <1>1 DEF Literals
<1>5. 1 \in Nat \ {0}
  OBVIOUS
<1> QED BY <1>2, <1>3, <1>4, <1>5 DEF Shape

(* The output is its slices, each of the size of the loop inside.          *)
LEMMA SizesFacts ==
  ASSUME Analyzed
  PROVE  /\ InnerSize(dims) \in Nat \ {0} /\ OuterSize \in Nat \ {0} /\ Total \in Nat \ {0}
         /\ Total = OuterSize * InnerSize(dims)
         /\ flat = rank => OuterSize = 1 /\ InnerSize(dims) = Total
<1>1. rank \in Nat /\ OuterRank \in Nat /\ OuterRank <= rank /\ dims \in [Axes -> Dim]
  BY AnalyzedFacts
<1> DEFINE V == Values(dims)
           m == OuterRank
<1>2. Shape(V, rank)
  BY <1>1, ValuesShape
<1>3. 1 \in Nat \ {0} /\ m + 1 \in Nat \ {0} /\ m + 1 <= rank + 1 /\ 1 <= m + 1 /\ 1 <= rank + 1
  BY <1>1
<1> HIDE DEF V, m
<1>4. Product(V, 1, m) \in Nat \ {0}
  BY <1>1, <1>2, <1>3, ShapeFactors DEF m
<1>5. Product(V, m + 1, rank) \in Nat \ {0}
  BY <1>1, <1>2, <1>3, ShapeFactors DEF m
<1>6. Factors(V, 1, rank) /\ Product(V, 1, rank) \in Nat \ {0}
  BY <1>1, <1>2, <1>3, ShapeFactors
<1>7. Product(V, 1, rank) = Product(V, 1, m) * Product(V, m + 1, rank)
  BY <1>1, <1>3, <1>6, ProductSplit DEF m
<1>8. ASSUME flat = rank PROVE OuterSize = 1 /\ InnerSize(dims) = Total
  <2>1. OuterRank = 0
    BY <1>1, <1>8 DEF OuterRank
  <2>2. Product(V, 0 + 1, 0) = 1
    BY ProductEmpty
  <2>3. 0 + 1 = 1
    OBVIOUS
  <2>4. Product(V, 1, 0) = 1
    BY <2>2, <2>3
  <2> QED BY <2>1, <2>3, <2>4 DEF OuterSize, InnerSize, Total, V, m
<1> QED BY <1>4, <1>5, <1>6, <1>7, <1>8 DEF OuterSize, InnerSize, Total, V, m

(* What broadcasting assigns to a valid operation, in terms of its shape.   *)
LEMMA ResultFacts ==
  ASSUME Analyzed, op.valid
  PROVE  /\ Values(dims) = op.result
         /\ Shape(op.result, rank)
         /\ \A d \in Inputs : Shape(Values(inputsDims[d]), rank)
         /\ \A d \in Inputs, j \in 1..rank : Values(inputsDims[d])[j] \in {1, op.result[j]}
<1>1. /\ op \in Operations /\ rank \in Nat /\ Axes = 1..rank
      /\ inputsDims \in [Inputs -> [Axes -> Dim]] /\ dims \in [Axes -> Dim]
  BY AnalyzedFacts
<1>2. Columns
  BY ColumnFacts DEF Analyzed, Inv
<1>3. \A j \in Axes : dims[j].val = op.result[j]
  BY DEF Analyzed, Inv, ShapeInv, ShapeIsRight
<1>4. op.result = [j \in 1..rank |-> op.result[j]]
  <2>1. op.result \in Seq(Nat \ {0}) /\ rank = Len(op.result)
    BY <1>1, <1>2, OpFacts DEF Columns
  <2> QED BY <2>1
<1>5. Values(dims) = op.result
  <2>1. Values(dims) = [j \in 1..rank |-> dims[j].val]
    BY <1>1 DEF Values
  <2> QED BY <1>1, <1>3, <1>4, <2>1
<1>6. Shape(op.result, rank)
  BY <1>1, <1>5, ValuesShape
<1>7. ASSUME NEW d \in Inputs
      PROVE  /\ Shape(Values(inputsDims[d]), rank)
             /\ \A j \in 1..rank : Values(inputsDims[d])[j] \in {1, op.result[j]}
  <2>1. inputsDims[d] \in [Axes -> Dim]
    BY <1>1
  <2>2. /\ Shape(Values(inputsDims[d]), rank)
        /\ \A j \in 1..rank : Values(inputsDims[d])[j] = inputsDims[d][j].val
    BY <1>1, <2>1, ValuesShape
  <2>3. \A j \in 1..rank : inputsDims[d][j].val \in {1, op.result[j]}
    BY <1>1, <1>2 DEF Columns
  <2> QED BY <2>2, <2>3
<1> QED BY <1>5, <1>6, <1>7

LEMMA CoordinateNat ==
  ASSUME NEW R, NEW n, Shape(R, n), NEW e \in Nat, NEW j \in 1..n
  PROVE  Coordinate(R, n, e, j) \in 0..R[j] - 1
<1> DEFINE P == Product(R, j + 1, n)
<1>1. n \in Nat /\ j + 1 \in Nat \ {0} /\ j + 1 <= n + 1 /\ R[j] \in Nat \ {0}
  BY DEF Shape
<1>2. P \in Nat \ {0}
  BY <1>1, ShapeFactors
<1> HIDE DEF P
<1> DEFINE x == e \div P
<1>3. x \in Nat
  BY <1>2, DivMod
<1> HIDE DEF x
<1>4. x % R[j] \in Nat /\ x % R[j] < R[j]
  BY <1>1, <1>3, DivMod
<1> QED BY <1>1, <1>4 DEF Coordinate, P, x

(* The element that the loops read is the one that broadcasting assigns,    *)
(* whether the inner dimensions are collapsed or not.                       *)
LEMMA SourceRight ==
  ASSUME Analyzed, op.valid, NEW d \in Operands, NEW o \in Nat, NEW l \in Nat, l < InnerSize(dims)
  PROVE  Source(d, o, l) = Broadcast(d, o * InnerSize(dims) + l)
<1> DEFINE R == op.result
           n == rank
           m == OuterRank
           I == Product(R, m + 1, n)
           e == o * I + l
           ds == Values(inputsDims[d])
           index == [j \in 1..m |-> Access(d, j, Coordinate(R, m, o, j))]
           full == [j \in Axes |-> IF ds[j] = 1 THEN 0 ELSE Coordinate(R, n, e, j)]
<1>1. /\ n \in Nat /\ m \in Nat /\ m <= n /\ m \in 0..n /\ Axes = 1..n /\ d \in Inputs
      /\ InnerAxes(flat) = m + 1..n
      /\ inputsDims[d] \in [Axes -> Dim]
  BY AnalyzedFacts
<1>2. /\ Values(dims) = R /\ Shape(R, n) /\ Shape(ds, n)
      /\ \A j \in 1..n : ds[j] \in {1, R[j]}
      /\ \A j \in 1..n : ds[j] = inputsDims[d][j].val
  BY <1>1, ResultFacts, ValuesShape
<1>3. I = InnerSize(dims) /\ I \in Nat \ {0} /\ l < I
  BY <1>2, SizesFacts DEF InnerSize
<1>4. /\ Source(d, o, l) = RowMajor(ds, m, index) * Product(ds, m + 1, n)
                           + IF OneInnermost(d) THEN 0 ELSE l
      /\ Broadcast(d, e) = RowMajor(ds, n, full)
  BY <1>2 DEF Source, InnerSize, Broadcast
<1>5. e \in Nat
  <2>1. o * I \in Nat
    BY <1>3, NatTimes
  <2> QED BY <2>1
<1> HIDE DEF I, e, ds
<1>6. Indexed(ds, n, full) /\ Indexed(ds, m, full)
  <2>1. ASSUME NEW j \in 1..n PROVE ds[j] \in Nat /\ full[j] \in Nat
    <3>1. Coordinate(R, n, e, j) \in 0..R[j] - 1 /\ R[j] \in Nat \ {0} /\ ds[j] \in Nat
      BY <1>2, <1>5, CoordinateNat DEF Shape
    <3> QED BY <1>1, <3>1
  <2> QED BY <1>1, <2>1 DEF Indexed
<1>7. ASSUME NEW j \in 1..m PROVE index[j] = full[j]
  <2>1. j \in 1..n /\ Shape(R, m)
    BY <1>1, <1>2 DEF Shape
  <2>2. Coordinate(R, m, o, j) \in 0..R[j] - 1
    BY <2>1, CoordinateNat
  <2>3. AccessIsRight /\ pc = "analyzed"
    BY AccessHolds DEF Analyzed
  <2>4. Access(d, j, Coordinate(R, m, o, j)) = IF ds[j] = 1 THEN 0 ELSE Coordinate(R, m, o, j)
    BY <1>1, <1>2, <2>1, <2>2, <2>3 DEF AccessIsRight
  <2>5. Coordinate(R, n, o * Product(R, m + 1, n) + l, j) = Coordinate(R, m, o, j)
    BY <1>1, <1>2, <1>3, OuterCoordinate DEF I
  <2>6. Coordinate(R, n, e, j) = Coordinate(R, m, o, j)
    BY <2>5 DEF e, I
  <2> QED BY <1>1, <2>1, <2>4, <2>6
<1>8. Indexed(ds, m, index)
  BY <1>1, <1>6, <1>7 DEF Indexed
<1> HIDE DEF full, index
<1>9. RowMajor(ds, m, index) = RowMajor(ds, m, full) /\ RowMajor(ds, m, full) \in Nat
  BY <1>6, <1>7, <1>8, RowMajorAgree, RowMajorNat
<1>10. /\ Factors(ds, m + 1, n) /\ Factors(R, m + 1, n)
       /\ m + 1 \in Nat
  <2>1. m + 1 \in Nat \ {0} /\ m + 1 <= n + 1
    BY <1>1
  <2> QED BY <1>1, <1>2, <2>1, ShapeFactors
<1>11. ASSUME NEW k \in m + 1..n
       PROVE  /\ k \in 1..n /\ R[k] \in Nat \ {0}
              /\ full[k] = IF ds[k] = 1 THEN 0 ELSE Coordinate(R, n, e, k)
  BY <1>1, <1>2 DEF full, Shape
<1>12. CASE OneInnermost(d)
  <2>1. \A k \in m + 1..n : ds[k] = 1 /\ full[k] = 0
    BY <1>1, <1>2, <1>11, <1>12 DEF OneInnermost, IsOne
  <2>2. RowMajor(ds, n, full) = RowMajor(ds, m, full)
    BY <1>1, <1>6, <2>1, RowMajorOnes
  <2>3. Product(ds, m + 1, n) = 1
    BY <1>10, <2>1, ProductOfOnes
  <2>4. \A x \in Nat : x * 1 + 0 = x
    OBVIOUS
  <2> QED BY <1>3, <1>4, <1>9, <1>12, <2>2, <2>3, <2>4 DEF e
<1>13. CASE ~OneInnermost(d)
  <2>1. \A k \in m + 1..n : ds[k] = R[k]
    <3>1. flat # 0
      <4>1. flat = 0 => InnerAxes(flat) = {}
        BY <1>1 DEF InnerAxes
      <4> QED BY <1>13, <4>1 DEF OneInnermost
    <3>2. flat = collapsed /\ CollapseIsSafe
      BY <3>1, CollapseHolds DEF Analyzed
    <3>3. \A j \in InnerAxes(flat) : inputsDims[d][j].val = op.result[j]
      BY <1>1, <1>13, <3>2 DEF CollapseIsSafe, OneInnermost
    <3> QED BY <1>1, <1>2, <1>11, <3>3
  <2>2. Product(ds, m + 1, n) = I
    BY <1>10, <2>1, ProductAgree DEF I
  <2>3. ASSUME NEW k \in m + 1..n PROVE full[k] = (l \div Product(R, k + 1, n)) % R[k]
    <3> DEFINE x == l \div Product(R, k + 1, n)
    <3>1. Coordinate(R, n, o * Product(R, m + 1, n) + l, k) = x % R[k]
      BY <1>1, <1>2, InnerCoordinate
    <3>2. Coordinate(R, n, e, k) = x % R[k]
      BY <3>1 DEF e, I
    <3>3. x \in Nat
      <4>1. k + 1 \in Nat \ {0} /\ k + 1 <= n + 1
        BY <1>1
      <4>2. Product(R, k + 1, n) \in Nat \ {0}
        BY <1>1, <1>2, <4>1, ShapeFactors
      <4> QED BY <4>2, DivMod
    <3> HIDE DEF x
    <3>4. R[k] = 1 => x % R[k] = 0
      BY <3>3
    <3> QED BY <1>11, <2>1, <3>2, <3>4 DEF x
  <2>4. RowMajor(ds, n, full) = RowMajor(ds, m, full) * Product(R, m + 1, n) + l
    BY <1>1, <1>2, <1>3, <1>6, <2>1, <2>3, FlatRow DEF I
  <2> QED BY <1>3, <1>4, <1>9, <1>13, <2>2, <2>4 DEF e, I
<1> QED BY <1>12, <1>13

(***************************************************************************)
(* The vectors and the buffer.                                              *)
(***************************************************************************)

(* What is known of the sizes at compile time divides the sizes.            *)
LEMMA LiteralsDivide ==
  ASSUME rank \in Nat, dims \in [Axes -> Dim], NEW a \in Nat \ {0}, a <= rank + 1
  PROVE  /\ Product(Literals(dims), a, rank) \in Nat \ {0}
         /\ Product(Values(dims), a, rank) \in Nat \ {0}
         /\ \E x \in Nat : Product(Values(dims), a, rank) = x * Product(Literals(dims), a, rank)
         /\ IsStatic({j \in Axes : j >= a}) =>
              Product(Values(dims), a, rank) = Product(Literals(dims), a, rank)
<1> DEFINE V == Values(dims)
           L == Literals(dims)
<1>1. /\ Shape(V, rank) /\ Shape(L, rank) /\ Axes = 1..rank
      /\ \A j \in 1..rank : L[j] \in {1, V[j]}
      /\ \A j \in 1..rank : dims[j].known => L[j] = V[j]
  BY ValuesShape DEF Axes
<1> HIDE DEF V, L
<1>2. /\ Factors(V, a, rank) /\ Product(V, a, rank) \in Nat \ {0}
      /\ Factors(L, a, rank) /\ Product(L, a, rank) \in Nat \ {0}
  BY <1>1, ShapeFactors
<1>3. \A k \in a..rank : k \in 1..rank
  OBVIOUS
<1>4. \E x \in Nat : Product(V, a, rank) = x * Product(L, a, rank)
  <2>1. \A k \in a..rank : L[k] \in {1, V[k]}
    BY <1>1, <1>3
  <2> QED BY <1>2, <2>1, ProductDivides
<1>5. ASSUME IsStatic({j \in Axes : j >= a}) PROVE Product(V, a, rank) = Product(L, a, rank)
  <2>1. \A k \in a..rank : L[k] = V[k]
    BY <1>1, <1>3, <1>5 DEF IsStatic
  <2> QED BY <1>2, <2>1, ProductAgree
<1> QED BY <1>2, <1>4, <1>5 DEF V, L

LEMMA MultipleBelow ==
  ASSUME NEW v \in Nat \ {0}, NEW b \in Nat, b % v = 0, NEW t \in Nat, t % v = 0, b < t
  PROVE  b + v <= t
<1>1. PICK p \in Nat : b = p * v
  BY MultipleOfMod
<1>2. PICK q \in Nat : t = q * v
  BY MultipleOfMod
<1>3. b = v * p /\ t = v * q
  BY <1>1, <1>2, MulComm
<1>4. p < q
  <2> SUFFICES ASSUME q <= p PROVE FALSE
    BY <1>1, <1>2
  <2>1. CASE q = p
    BY <1>3, <2>1
  <2>2. CASE q # p
    <3>1. v * q + v <= v * p
      BY <2>2, MulLess
    <3> QED BY <1>3, <3>1
  <2> QED BY <2>1, <2>2
<1> QED BY <1>3, <1>4, MulLess

(* The buffer has room for a last vector that begins inside the output.     *)
LEMMA AllocFacts ==
  ASSUME Analyzed, VL \in Nat \ {0}
  PROVE  /\ AllocSize \in Nat /\ Total <= AllocSize
         /\ \A b \in Nat : b % VL = 0 /\ b < Total => b + VL <= AllocSize
<1> DEFINE T == Total
           S == Product(Literals(dims), 1, rank)
<1>1. rank \in Nat /\ dims \in [Axes -> Dim] /\ 1 \in Nat \ {0} /\ 1 <= rank + 1 /\ Axes = 1..rank
  BY AnalyzedFacts
<1>2. /\ S \in Nat \ {0} /\ T \in Nat \ {0}
      /\ \E x \in Nat : T = x * S
      /\ IsStatic({j \in Axes : j >= 1}) => T = S
  BY <1>1, LiteralsDivide DEF Total
<1>3. {j \in Axes : j >= 1} = Axes
  BY <1>1
<1>4. AllocSize = IF S % VL = 0 THEN T
                  ELSE IF IsStatic(Axes) THEN T + (VL - (S % VL)) ELSE T + VL
  BY DEF AllocSize
<1> HIDE DEF T, S
<1>5. S % VL \in Nat /\ S % VL < VL
  BY <1>2, DivMod
<1>6. AllocSize \in Nat /\ T <= AllocSize
  BY <1>2, <1>4, <1>5
<1>7. ASSUME NEW b \in Nat, b % VL = 0, b < T PROVE b + VL <= AllocSize
  <2>1. CASE S % VL = 0
    <3>1. PICK x \in Nat : T = x * S
      BY <1>2
    <3>2. PICK q \in Nat : S = q * VL
      BY <1>2, <2>1, MultipleOfMod
    <3>3. T = (x * q) * VL /\ x * q \in Nat
      BY <3>1, <3>2, MulAssoc, NatTimes
    <3>4. T % VL = 0
      BY <3>3, ModOfMultiple
    <3>5. b + VL <= T
      BY <1>2, <1>7, <3>4, MultipleBelow
    <3> QED BY <1>4, <2>1, <3>5
  <2>2. CASE S % VL # 0 /\ IsStatic(Axes)
    <3> DEFINE t == T + (VL - (S % VL))
    <3>1. T = S
      BY <1>2, <1>3, <2>2
    <3> DEFINE q == S \div VL
               s == S % VL
    <3>2. q \in Nat /\ s \in Nat /\ s < VL /\ S = VL * q + s
      BY <1>2, DivMod
    <3> HIDE DEF q
    <3>3. t = (q + 1) * VL /\ q + 1 \in Nat /\ t \in Nat
      <4>1. (q + 1) * VL = VL * q + VL /\ VL * q \in Nat
        BY <3>2
      <4>2. t = VL * q + VL
        <5> HIDE DEF s
        <5>1. \A w, y, z \in Nat : (w + z) + (y - z) = w + y
          OBVIOUS
        <5>2. t = (VL * q + s) + (VL - s)
          BY <3>1, <3>2 DEF s
        <5> QED BY <3>2, <4>1, <5>1, <5>2
      <4> HIDE DEF t
      <4> QED BY <3>2, <4>1, <4>2
    <3>4. t % VL = 0
      BY <3>3, ModOfMultiple
    <3>5. b < t
      BY <1>2, <1>5, <1>7, <3>3
    <3> HIDE DEF t
    <3>6. b + VL <= t
      BY <1>7, <3>3, <3>4, <3>5, MultipleBelow
    <3> QED BY <1>4, <2>2, <3>6 DEF t
  <2>3. CASE S % VL # 0 /\ ~IsStatic(Axes)
    BY <1>2, <1>4, <1>7, <2>3
  <2> QED BY <2>1, <2>2, <2>3
<1> QED BY <1>6, <1>7 DEF T

(* Whatever the register pressure, a loop without a rest is one that has    *)
(* none, or may go beyond the last element.                                 *)
LEMMA UnrollFacts ==
  ASSUME Inv, pc = "analyzed", collapsed # 0, NEW u \in Unrolls
  PROVE  /\ Unroll(u).VL \in Nat \ {0} /\ Unroll(u).simdOnly \in BOOLEAN
         /\ Unroll(u).simdOnly =>
              /\ Unroll(u).VL > 1
              /\ \/ CanOverCompute
                 \/ Product(Values(dims), rank + 1 - collapsed, rank) % Unroll(u).VL = 0
<1> DEFINE a == rank + 1 - collapsed
           size == Product(Literals(dims), a, rank)
           static == IsStatic(InnerAxes(collapsed))
           short == static /\ size < u * ArchVL
           fits == size \div ArchVL
           over == CanOverCompute /\ size % (ArchVL * fits) # 0
           n == IF ~short THEN u ELSE IF over THEN fits + 1 ELSE fits
           none == \/ static /\ size < ArchVL
                   \/ short /\ n = 1
                   \/ short /\ ~CanOverCompute /\ n = 2 /\ size % (ArchVL * n) # 0
<1>1. Unroll(u) = IF none THEN [VL |-> 1, simdOnly |-> FALSE]
                  ELSE [VL |-> ArchVL * n,
                        simdOnly |-> CanOverCompute \/ (size > 1 /\ size % (ArchVL * n) = 0)]
  BY DEF Unroll
<1>2. rank \in Nat /\ dims \in [Axes -> Dim] /\ collapsed \in Nat \ {0} /\ collapsed <= rank
  <2>1. Inv /\ pc = "analyzed" => TypeOK /\ r <= rank + 1 /\ collapsed = r - 1
    BY DEF Inv, CollapseInv
  <2> QED BY <2>1 DEF TypeOK
<1>3. a \in Nat \ {0} /\ a <= rank + 1
  BY <1>2
<1>4. /\ size \in Nat \ {0}
      /\ \E x \in Nat : Product(Values(dims), a, rank) = x * size
  BY <1>2, <1>3, LiteralsDivide
<1>5. u \in Nat \ {0} /\ ArchVL \in Nat \ {0, 1}
  BY LoopsAssumption
<1> HIDE DEF size, static, over
<1>6. ASSUME ~none PROVE n \in Nat \ {0} /\ ArchVL * n \in Nat /\ ArchVL * n > 1
  <2>1. CASE ~short
    BY <1>5, <2>1
  <2>2. CASE short
    <3>1. fits \in Nat /\ size = ArchVL * fits + (size % ArchVL) /\ size % ArchVL < ArchVL
      BY <1>4, <1>5, DivMod
    <3>2. fits # 0
      <4>1. size >= ArchVL
        BY <1>4, <1>5, <1>6, <2>2
      <4> QED BY <1>4, <1>5, <3>1, <4>1
    <3> HIDE DEF fits
    <3>3. n \in Nat \ {0}
      BY <2>2, <3>1, <3>2
    <3> HIDE DEF n, none, short
    <3> QED BY <1>5, <3>3
  <2> QED BY <2>1, <2>2
<1> HIDE DEF none, n
<1>7. CASE none
  BY <1>1, <1>7
<1>8. CASE ~none
  <2>1. Unroll(u).VL = ArchVL * n
    BY <1>1, <1>8
  <2>2. Unroll(u).simdOnly = (CanOverCompute \/ (size > 1 /\ size % (ArchVL * n) = 0))
    BY <1>1, <1>8
  <2>3. Unroll(u).simdOnly \in BOOLEAN
    BY <2>2
  <2>4. ASSUME size % (ArchVL * n) = 0
        PROVE  Product(Values(dims), a, rank) % (ArchVL * n) = 0
    <3> DEFINE w == ArchVL * n
    <3>1. w \in Nat \ {0} /\ size % w = 0
      BY <1>6, <1>8, <2>4
    <3> HIDE DEF w
    <3>2. PICK q \in Nat : size = q * w
      BY <1>4, <3>1, MultipleOfMod
    <3>3. PICK x \in Nat : Product(Values(dims), a, rank) = x * size
      BY <1>4
    <3>4. Product(Values(dims), a, rank) = (x * q) * w /\ x * q \in Nat
      BY <3>1, <3>2, <3>3, MulAssoc, NatTimes
    <3>5. Product(Values(dims), a, rank) % w = 0
      BY <3>1, <3>4, ModOfMultiple
    <3> QED BY <3>5 DEF w
  <2>5. Unroll(u).simdOnly => CanOverCompute \/ size % (ArchVL * n) = 0
    BY <2>2
  <2> QED BY <1>6, <1>8, <2>1, <2>3, <2>4, <2>5
<1> QED BY <1>7, <1>8

LoopSettings == <<vars, VL, simdOnly, flat>>

LEMMA Frozen ==
  ASSUME UNCHANGED LoopSettings
  PROVE  /\ InnerSize(dims)' = InnerSize(dims) /\ OuterSize' = OuterSize
         /\ Total' = Total /\ AllocSize' = AllocSize
         /\ CanOverCompute' = CanOverCompute /\ Operands' = Operands
         /\ \A d, e : Broadcast(d, e)' = Broadcast(d, e)
BY DEF LoopSettings, vars, InnerSize, OuterSize, OuterRank, Total, AllocSize, Values, Literals,
       IsStatic, Axes, CanOverCompute, Operands, Broadcast

LEMMA ChosenAnalyzed == Inv /\ LoopInv /\ phase # "analysis" => Analyzed
BY DEF LoopInv, ChosenInv, Analyzed

(* What a store leaves in the buffer.                                      *)
LEMMA StoreFacts ==
  ASSUME NEW l \in Nat, NEW n \in Nat, Store(l, n), DOMAIN mem \subseteq Nat
  PROVE  LET lanes == {outer * InnerSize(dims) + l + k : k \in 0..n - 1}
         IN /\ DOMAIN mem' = DOMAIN mem \cup lanes
            /\ \A e \in lanes, d \in Operands :
                 mem'[e][d] = Source(d, outer, e - outer * InnerSize(dims))
            /\ \A e \in DOMAIN mem \ lanes : mem'[e] = mem[e]
BY DEF Store

LEMMA LoopInit == InitLoops => LoopInv
<1> SUFFICES ASSUME InitLoops PROVE LoopInv
  OBVIOUS
<1>1. DOMAIN mem = {}
  BY DEF InitLoops
<1>2. 1 \in Nat \ {0} /\ 0 \in Nat
  OBVIOUS
<1>3. phase = "analysis" /\ VL = 1 /\ simdOnly = FALSE /\ flat = 0 /\ outer = 0 /\ inner = 0
  BY DEF InitLoops
<1>4. LoopTypes /\ ChosenInv
  BY <1>1, <1>2, <1>3 DEF LoopTypes, ChosenInv
<1> QED BY <1>3, <1>4 DEF LoopInv, PlaceInv, StoredRight, StoresFit

LEMMA ChooseStep ==
  ASSUME Inv, LoopInv, NEW u \in Unrolls, ChooseLoops(u)
  PROVE  LoopInv'
<1> DEFINE s == IF collapsed = 0 \/ AllScalar \/ op.extra
                THEN [VL |-> 1, simdOnly |-> FALSE] ELSE Unroll(u)
<1>1. /\ phase = "analysis" /\ pc = "analyzed" /\ phase' = "loops"
      /\ VL' = s.VL /\ simdOnly' = s.simdOnly
      /\ flat' = IF s.VL > 1 THEN collapsed ELSE 0
      /\ UNCHANGED vars /\ outer' = outer /\ inner' = inner /\ mem' = mem
  BY DEF ChooseLoops
<1>2. outer = 0 /\ inner = 0 /\ DOMAIN mem = {}
  BY <1>1 DEF LoopInv, ChosenInv
<1>3. rank \in Nat /\ collapsed \in Nat /\ collapsed <= rank /\ dims \in [Axes -> Dim]
  <2>1. Inv /\ pc = "analyzed" => TypeOK /\ r <= rank + 1 /\ collapsed = r - 1
    BY DEF Inv, CollapseInv
  <2> QED BY <1>1, <2>1 DEF TypeOK
<1>4. /\ s.VL \in Nat \ {0} /\ s.simdOnly \in BOOLEAN
      /\ s.VL > 1 => collapsed # 0
      /\ s.simdOnly =>
           /\ s.VL > 1
           /\ CanOverCompute \/ Product(Values(dims), rank + 1 - collapsed, rank) % s.VL = 0
  <2>1. CASE collapsed = 0 \/ AllScalar \/ op.extra
    <3>1. s.VL = 1 /\ s.simdOnly = FALSE
      BY <2>1
    <3>2. s.VL \in Nat \ {0} /\ ~(s.VL > 1)
      BY <3>1
    <3> HIDE DEF s
    <3> QED BY <3>1, <3>2
  <2>2. CASE ~(collapsed = 0 \/ AllScalar \/ op.extra)
    <3>1. s = Unroll(u) /\ collapsed # 0
      BY <2>2
    <3>2. /\ Unroll(u).VL \in Nat \ {0} /\ Unroll(u).simdOnly \in BOOLEAN
          /\ Unroll(u).simdOnly =>
               /\ Unroll(u).VL > 1
               /\ \/ CanOverCompute
                  \/ Product(Values(dims), rank + 1 - collapsed, rank) % Unroll(u).VL = 0
      BY <1>1, <3>1, UnrollFacts
    <3> HIDE DEF s
    <3> QED BY <3>1, <3>2
  <2> QED BY <2>1, <2>2
<1> HIDE DEF s
<1>5. ASSUME s.VL > 1
      PROVE  InnerSize(dims)' = Product(Values(dims), rank + 1 - collapsed, rank)
  <2>1. flat' = collapsed /\ collapsed > 0
    BY <1>1, <1>3, <1>4, <1>5
  <2>2. OuterRank' + 1 = rank + 1 - collapsed
    BY <1>1, <1>3, <2>1 DEF OuterRank, vars
  <2>3. rank' = rank /\ dims' = dims
    BY <1>1 DEF vars
  <2> QED BY <2>2, <2>3 DEF InnerSize, Values
<1>6. CanOverCompute' = CanOverCompute /\ collapsed' = collapsed /\ pc' = pc
  BY <1>1 DEF CanOverCompute, vars
<1>7. LoopTypes'
  BY <1>1, <1>2, <1>3, <1>4 DEF LoopTypes
<1>8. simdOnly' => VL' > 1 /\ (CanOverCompute' \/ InnerSize(dims)' % VL' = 0)
  BY <1>1, <1>4, <1>5, <1>6
<1>9. ChosenInv'
  <2>1. flat' \in {0, collapsed'} /\ (VL' > 1 => flat' = collapsed' /\ flat' > 0)
    BY <1>1, <1>3, <1>4, <1>6
  <2> QED BY <1>1, <1>6, <1>8, <2>1 DEF ChosenInv
<1>10. PlaceInv'
  <2>1. inner' % VL' = 0
    BY <1>1, <1>2, <1>4
  <2>2. InnerSize(dims)' \in Nat
    <3>1. CASE s.VL > 1
      <4>1. rank + 1 - collapsed \in Nat \ {0} /\ rank + 1 - collapsed <= rank + 1
        BY <1>3
      <4> QED BY <1>3, <1>5, <3>1, <4>1, LiteralsDivide
    <3>2. CASE ~(s.VL > 1)
      <4>1. OuterRank' = rank /\ rank' = rank
        BY <1>1, <3>2 DEF OuterRank, vars
      <4>2. InnerSize(dims)' = Product(Values(dims)', rank + 1, rank)
        BY <4>1 DEF InnerSize
      <4> QED BY <1>3, <4>2, ProductEmpty
    <3> QED BY <3>1, <3>2
  <2>3. 0 * InnerSize(dims)' + 0 = 0
    BY <2>2
  <2> QED BY <1>1, <1>2, <2>1, <2>3 DEF PlaceInv
<1>11. StoredRight' /\ StoresFit'
  BY <1>1, <1>2 DEF StoredRight, StoresFit
<1> QED BY <1>7, <1>9, <1>10, <1>11 DEF LoopInv

(* One iteration of the innermost loop, of vectors or of scalars. *)
LEMMA StoreStep ==
  ASSUME Inv, LoopInv, phase = "loops", outer < OuterSize,
         NEW n \in Nat \ {0}, Store(inner, n), inner' = inner + n,
         UNCHANGED <<phase, VL, simdOnly, flat, outer>>, UNCHANGED vars,
         simdOnly => n = VL,
         \A k \in 0..n - 1 : outer * InnerSize(dims) + inner + k < AllocSize,
         \A k \in 0..n - 1 : \/ inner + k < InnerSize(dims)
                             \/ Total <= outer * InnerSize(dims) + inner + k
  PROVE  LoopInv'
<1> DEFINE I == InnerSize(dims)
           b == outer * I
           lanes == {b + inner + k : k \in 0..n - 1}
<1>1. Analyzed /\ LoopTypes /\ ChosenInv
  BY ChosenAnalyzed DEF LoopInv
<1>2. /\ I \in Nat \ {0} /\ outer \in Nat /\ inner \in Nat /\ inner' \in Nat /\ VL \in Nat \ {0}
      /\ DOMAIN mem \subseteq Nat /\ AllocSize \in Nat /\ Total \in Nat
  BY <1>1, SizesFacts, AllocFacts DEF LoopTypes
<1>3. b \in Nat
  BY <1>2, NatTimes
<1>4. /\ DOMAIN mem' = DOMAIN mem \cup lanes
      /\ \A e \in lanes, d \in Operands : mem'[e][d] = Source(d, outer, e - b)
      /\ \A e \in DOMAIN mem \ lanes : mem'[e] = mem[e]
  BY <1>2, StoreFacts
<1>5. /\ I' = I /\ OuterSize' = OuterSize /\ Total' = Total /\ AllocSize' = AllocSize
      /\ CanOverCompute' = CanOverCompute /\ Operands' = Operands
      /\ \A d, e : Broadcast(d, e)' = Broadcast(d, e)
      /\ pc' = pc /\ collapsed' = collapsed /\ op' = op
  <2>1. UNCHANGED LoopSettings
    BY DEF LoopSettings
  <2> QED BY <2>1, Frozen DEF vars
<1> HIDE DEF I, b
<1>6. ASSUME NEW e \in lanes
      PROVE  /\ e \in Nat /\ e < AllocSize
             /\ e - b \in Nat /\ e = b + (e - b)
             /\ e - b < I \/ Total <= e
  <2>1. PICK k \in 0..n - 1 : e = b + inner + k
    BY <1>6
  <2>2. e < AllocSize /\ (inner + k < I \/ Total <= e)
    BY <2>1 DEF b, I
  <2>3. e - b = inner + k /\ k \in Nat
    BY <1>2, <1>3, <2>1
  <2> QED BY <1>2, <1>3, <2>1, <2>2, <2>3
<1>7. LoopTypes'
  BY <1>1, <1>2, <1>4, <1>6 DEF LoopTypes
<1>8. ChosenInv'
  BY <1>1, <1>5 DEF ChosenInv, I
<1>9. PlaceInv'
  <2>1. PlaceInv
    BY DEF LoopInv
  <2>2. simdOnly => inner' % VL = 0
    <3> SUFFICES ASSUME simdOnly PROVE inner' % VL = 0
      OBVIOUS
    <3>1. inner % VL = 0 /\ inner' = inner + VL
      BY <2>1 DEF PlaceInv
    <3>2. PICK q \in Nat : inner = q * VL
      BY <1>2, <3>1, MultipleOfMod
    <3>3. inner' = (q + 1) * VL /\ q + 1 \in Nat
      BY <1>2, <3>1, <3>2
    <3> QED BY <1>2, <3>3, ModOfMultiple
  <2>3. ASSUME NEW e \in Nat, e < b + inner' PROVE e \in DOMAIN mem'
    <3>1. CASE e < b + inner
      <4>1. e \in DOMAIN mem
        BY <2>1, <3>1 DEF PlaceInv, b, I
      <4> QED BY <1>4, <4>1
    <3>2. CASE ~(e < b + inner)
      <4> DEFINE k == e - (b + inner)
      <4>1. k \in 0..n - 1 /\ e = b + inner + k
        BY <1>2, <1>3, <2>3, <3>2
      <4>2. e \in lanes
        BY <4>1
      <4> QED BY <1>4, <4>2
    <3> QED BY <3>1, <3>2
  <2>4. b = outer' * I'
    BY <1>5 DEF b
  <2> QED BY <1>5, <2>2, <2>3, <2>4 DEF PlaceInv, I
<1>10. StoredRight'
  <2> SUFFICES ASSUME op.valid, NEW e \in DOMAIN mem', NEW d \in Operands, e < Total
               PROVE  mem'[e][d] = Broadcast(d, e)
    BY <1>5 DEF StoredRight
  <2>1. CASE e \in lanes
    <3>1. e - b \in Nat /\ e - b < I /\ e = b + (e - b) /\ e \in Nat
      BY <1>2, <1>6, <2>1
    <3> DEFINE l == e - b
    <3>2. mem'[e][d] = Source(d, outer, l)
      BY <1>4, <2>1
    <3>3. l \in Nat /\ l < InnerSize(dims) /\ e = outer * InnerSize(dims) + l
      BY <3>1 DEF I, b
    <3> HIDE DEF l
    <3>4. Source(d, outer, l) = Broadcast(d, outer * InnerSize(dims) + l)
      BY <1>1, <1>2, <3>3, SourceRight
    <3> QED BY <3>2, <3>3, <3>4
  <2>2. CASE e \notin lanes
    <3>1. e \in DOMAIN mem /\ mem'[e] = mem[e]
      BY <1>4, <2>2
    <3> QED BY <3>1 DEF LoopInv, StoredRight
  <2> QED BY <2>1, <2>2
<1>11. StoresFit'
  <2> SUFFICES DOMAIN mem' \subseteq 0..AllocSize - 1
    BY <1>5 DEF StoresFit
  <2>1. DOMAIN mem \subseteq 0..AllocSize - 1
    BY DEF LoopInv, StoresFit
  <2>2. lanes \subseteq 0..AllocSize - 1
    BY <1>2, <1>6
  <2> QED BY <1>4, <2>1, <2>2
<1> QED BY <1>7, <1>8, <1>9, <1>10, <1>11 DEF LoopInv

LEMMA BeforeTotal ==
  ASSUME Analyzed, outer \in Nat, outer < OuterSize, NEW l \in Nat, l < InnerSize(dims)
  PROVE  outer * InnerSize(dims) + l < Total
<1> DEFINE I == InnerSize(dims)
<1>1. I \in Nat \ {0} /\ OuterSize \in Nat /\ Total = OuterSize * I
  BY SizesFacts
<1> HIDE DEF I
<1>2. I * outer + I <= I * OuterSize
  BY <1>1, MulLess
<1>3. I * outer = outer * I /\ I * OuterSize = OuterSize * I /\ outer * I \in Nat
  BY <1>1
<1>4. l < I
  BY DEF I
<1> QED BY <1>1, <1>2, <1>3, <1>4 DEF I

LEMMA ScalarStep == Inv /\ LoopInv /\ ScalarIteration => LoopInv'
<1> SUFFICES ASSUME Inv, LoopInv, ScalarIteration PROVE LoopInv'
  OBVIOUS
<1>1. /\ phase = "loops" /\ outer < OuterSize /\ inner < InnerSize(dims)
      /\ Store(inner, 1) /\ inner' = inner + 1
      /\ UNCHANGED <<phase, VL, simdOnly, flat, outer>> /\ UNCHANGED vars
      /\ VL > 1 => ~simdOnly
  BY DEF ScalarIteration
<1>2. Analyzed /\ outer \in Nat /\ inner \in Nat /\ VL \in Nat \ {0}
  BY <1>1, ChosenAnalyzed DEF LoopInv, LoopTypes
<1>3. outer * InnerSize(dims) + inner < Total
  BY <1>1, <1>2, BeforeTotal
<1>4. /\ Total \in Nat /\ InnerSize(dims) \in Nat /\ AllocSize \in Nat /\ Total <= AllocSize
      /\ outer * InnerSize(dims) \in Nat
  BY <1>2, SizesFacts, AllocFacts, NatTimes
<1>5. simdOnly => 1 = VL
  BY <1>1 DEF LoopInv, ChosenInv
<1>6. 0..1 - 1 = {0}
  OBVIOUS
<1>7. ASSUME NEW k \in 0..1 - 1
      PROVE  /\ outer * InnerSize(dims) + inner + k < AllocSize
             /\ inner + k < InnerSize(dims)
  BY <1>1, <1>2, <1>3, <1>4, <1>6
<1>8. 1 \in Nat \ {0}
  OBVIOUS
<1> QED BY <1>1, <1>5, <1>7, <1>8, StoreStep

LEMMA SimdStep == Inv /\ LoopInv /\ SimdIteration => LoopInv'
<1> SUFFICES ASSUME Inv, LoopInv, SimdIteration PROVE LoopInv'
  OBVIOUS
<1> DEFINE I == InnerSize(dims)
<1>1. /\ phase = "loops" /\ outer < OuterSize /\ inner < SimdUb /\ VL > 1
      /\ Store(inner, VL) /\ inner' = inner + VL
      /\ UNCHANGED <<phase, VL, simdOnly, flat, outer>> /\ UNCHANGED vars
  BY DEF SimdIteration
<1>2. Analyzed /\ outer \in Nat /\ inner \in Nat /\ VL \in Nat \ {0} /\ ChosenInv /\ PlaceInv
  BY <1>1, ChosenAnalyzed DEF LoopInv, LoopTypes
<1>3. /\ Total \in Nat /\ I \in Nat \ {0} /\ OuterSize \in Nat /\ AllocSize \in Nat
      /\ Total <= AllocSize /\ outer * I \in Nat
  BY <1>2, SizesFacts, AllocFacts, NatTimes
<1>4. inner + VL <= I \/ (outer = 0 /\ I = Total /\ inner + VL <= AllocSize)
  <2>1. CASE ~simdOnly
    BY <1>1, <1>2, <1>3, <2>1 DEF SimdUb
  <2>2. CASE simdOnly
    <3>1. inner % VL = 0 /\ inner < I
      BY <1>1, <1>2, <2>2 DEF PlaceInv, SimdUb
    <3>2. CASE I % VL = 0
      BY <1>2, <1>3, <3>1, <3>2, MultipleBelow
    <3>3. CASE CanOverCompute
      <4>1. flat = rank
        BY <1>1, <1>2, <3>3 DEF ChosenInv, CanOverCompute
      <4>2. OuterSize = 1 /\ I = Total
        BY <1>2, <4>1, SizesFacts
      <4>3. outer = 0
        BY <1>1, <1>2, <4>2
      <4>4. inner + VL <= AllocSize
        BY <1>2, <3>1, <4>2, AllocFacts
      <4> QED BY <4>2, <4>3, <4>4
    <3> QED BY <1>1, <1>2, <2>2, <3>2, <3>3 DEF ChosenInv
  <2> QED BY <2>1, <2>2
<1>5. ASSUME NEW k \in 0..VL - 1
      PROVE  /\ outer * I + inner + k < AllocSize
             /\ inner + k < I \/ Total <= outer * I + inner + k
  <2>1. inner + k \in Nat /\ inner + k < inner + VL
    BY <1>2
  <2>2. CASE inner + k < I
    <3> DEFINE l == inner + k
    <3>1. outer * I + l < Total
      BY <1>1, <1>2, <2>1, <2>2, BeforeTotal
    <3>2. outer * I + inner + k = outer * I + l
      BY <1>2, <1>3
    <3> QED BY <1>3, <2>1, <2>2, <3>1, <3>2
  <2>3. CASE ~(inner + k < I)
    <3>1. outer = 0 /\ I = Total /\ inner + VL <= AllocSize
      BY <1>2, <1>3, <1>4, <2>1, <2>3
    <3>2. outer * I + inner + k = inner + k
      BY <1>2, <1>3, <3>1
    <3> QED BY <1>2, <1>3, <2>1, <2>3, <3>1, <3>2
  <2> QED BY <2>2, <2>3
<1> QED BY <1>1, <1>2, <1>5, StoreStep

LEMMA OuterStep == Inv /\ LoopInv /\ NextOuter => LoopInv'
<1> SUFFICES ASSUME Inv, LoopInv, NextOuter PROVE LoopInv'
  OBVIOUS
<1> DEFINE I == InnerSize(dims)
<1>1. /\ phase = "loops" /\ outer < OuterSize /\ inner >= I
      /\ outer' = outer + 1 /\ inner' = 0
      /\ phase' = IF outer + 1 = OuterSize THEN "done" ELSE phase
      /\ UNCHANGED <<VL, simdOnly, flat, mem>> /\ UNCHANGED vars
  BY DEF NextOuter, SimdUb
<1>2. Analyzed /\ LoopTypes /\ ChosenInv /\ PlaceInv
  BY <1>1, ChosenAnalyzed DEF LoopInv
<1>3. I \in Nat \ {0} /\ outer \in Nat /\ inner \in Nat /\ VL \in Nat \ {0} /\ outer * I \in Nat
  BY <1>2, SizesFacts, NatTimes DEF LoopTypes
<1>4. /\ I' = I /\ OuterSize' = OuterSize /\ Total' = Total /\ AllocSize' = AllocSize
      /\ CanOverCompute' = CanOverCompute /\ Operands' = Operands
      /\ \A d, e : Broadcast(d, e)' = Broadcast(d, e)
      /\ pc' = pc /\ collapsed' = collapsed /\ op' = op
  <2>1. UNCHANGED LoopSettings
    BY <1>1 DEF LoopSettings
  <2> QED BY <1>1, <2>1, Frozen DEF vars
<1>5. phase' \in {"loops", "done"} /\ 0 % VL = 0
  BY <1>1, <1>3
<1>6. LoopTypes'
  BY <1>1, <1>2, <1>5 DEF LoopTypes
<1>7. ChosenInv'
  BY <1>1, <1>2, <1>4, <1>5 DEF ChosenInv
<1>8. PlaceInv'
  <2>1. outer' * I + inner' = outer * I + I
    <3> HIDE DEF I
    <3> QED BY <1>1, <1>3
  <2>2. \A e \in Nat : e < outer' * I + inner' => e < outer * I + inner
    <3> HIDE DEF I
    <3> QED BY <1>1, <1>3, <2>1
  <2>3. \A e \in Nat : e < outer' * I + inner' => e \in DOMAIN mem'
    BY <1>1, <1>2, <2>2 DEF PlaceInv
  <2>4. phase' = "done" => outer' = OuterSize'
    BY <1>1, <1>4
  <2>5. simdOnly' => inner' % VL' = 0
    BY <1>1, <1>5
  <2> QED BY <1>4, <2>3, <2>4, <2>5 DEF PlaceInv
<1>9. StoredRight'
  BY <1>1, <1>4 DEF LoopInv, StoredRight
<1>10. StoresFit'
  BY <1>1, <1>4 DEF LoopInv, StoresFit
<1> QED BY <1>6, <1>7, <1>8, <1>9, <1>10 DEF LoopInv

(* The analysis is over before the loops begin. *)
LEMMA AnalyzeStep == Inv /\ LoopInv /\ Analyze => LoopInv'
<1> SUFFICES ASSUME Inv, LoopInv, Next, UNCHANGED loopVars PROVE LoopInv'
  BY DEF Analyze
<1>1. pc # "analyzed"
  <2>1. pc \in {"rank", "fold", "inferred", "collapse"}
    BY DEF Next, LongestRank, PrependOnes, FoldInput, IncompatibleBroadcast, SetOutputDims,
           RuleOutBroadcast, CollapseLoop, StopCollapsing
  <2> QED BY <2>1
<1>2. phase = "analysis"
  BY <1>1 DEF LoopInv, ChosenInv
<1> QED BY <1>2 DEF LoopInv, LoopTypes, ChosenInv, PlaceInv, StoredRight, StoresFit, loopVars

LEMMA StutterStep == Inv /\ LoopInv /\ UNCHANGED <<vars, loopVars>> => LoopInv'
<1> SUFFICES ASSUME Inv, LoopInv, UNCHANGED vars, UNCHANGED loopVars PROVE LoopInv'
  OBVIOUS
<1>1. /\ phase' = phase /\ VL' = VL /\ simdOnly' = simdOnly /\ flat' = flat
      /\ outer' = outer /\ inner' = inner /\ mem' = mem
  BY DEF loopVars
<1>2. /\ InnerSize(dims)' = InnerSize(dims) /\ OuterSize' = OuterSize
      /\ Total' = Total /\ AllocSize' = AllocSize
      /\ CanOverCompute' = CanOverCompute /\ Operands' = Operands
      /\ \A d, e : Broadcast(d, e)' = Broadcast(d, e)
      /\ pc' = pc /\ collapsed' = collapsed /\ op' = op
  <2>1. UNCHANGED LoopSettings
    BY <1>1 DEF LoopSettings
  <2> QED BY <2>1, Frozen DEF vars
<1>3. LoopTypes'
  BY <1>1 DEF LoopInv, LoopTypes
<1>4. ChosenInv' /\ PlaceInv'
  BY <1>1, <1>2 DEF LoopInv, ChosenInv, PlaceInv
<1>5. StoredRight' /\ StoresFit'
  BY <1>1, <1>2 DEF LoopInv, StoredRight, StoresFit
<1> QED BY <1>3, <1>4, <1>5 DEF LoopInv

(* What the loops do after it does not disturb the analysis. *)
LEMMA LoopsAnalyze == SpecLoops => Spec
<1>1. InitLoops => Init
  BY DEF InitLoops
<1>2. [NextLoops]_<<vars, loopVars>> => [Next]_vars
  BY DEF NextLoops, Analyze, ChooseLoops, SimdIteration, ScalarIteration, NextOuter, vars
<1> QED BY <1>1, <1>2, PTL DEF SpecLoops, Spec

LEMMA LoopInvariant == SpecLoops => [](Inv /\ LoopInv)
<1>1. InitLoops => LoopInv
  BY LoopInit
<1>2. Inv /\ LoopInv /\ [NextLoops]_<<vars, loopVars>> => LoopInv'
  <2> SUFFICES ASSUME Inv, LoopInv, [NextLoops]_<<vars, loopVars>> PROVE LoopInv'
    OBVIOUS
  <2>1. CASE Analyze
    BY <2>1, AnalyzeStep
  <2>2. ASSUME NEW u \in Unrolls, ChooseLoops(u) PROVE LoopInv'
    BY <2>2, ChooseStep
  <2>3. CASE SimdIteration
    BY <2>3, SimdStep
  <2>4. CASE ScalarIteration
    BY <2>4, ScalarStep
  <2>5. CASE NextOuter
    BY <2>5, OuterStep
  <2>6. CASE UNCHANGED <<vars, loopVars>>
    BY <2>6, StutterStep
  <2> QED BY <2>1, <2>2, <2>3, <2>4, <2>5, <2>6 DEF NextLoops
<1> QED BY <1>1, <1>2, LoopsAnalyze, Invariant, PTL DEF SpecLoops

(* simdIterateIE on a buffer from alignedAllocWithSimdPadding: no iteration *)
(* stores beyond the buffer, for any shape, vector length and unroll factor. *)
THEOREM StoresAlwaysFit == SpecLoops => []StoresFit
<1>1. Inv /\ LoopInv => StoresFit
  BY DEF LoopInv
<1> QED BY <1>1, LoopInvariant, PTL

(* The loops of an elementwise operation, nested, collapsed or vectorized,  *)
(* compute every element of the output, each from the elements of the       *)
(* operands that broadcasting assigns to it.                                *)
THEOREM ElementsAlwaysRight == SpecLoops => []ElementsRight
<1>1. Inv /\ LoopInv => ElementsRight
  <2> SUFFICES ASSUME Inv, LoopInv, op.valid, phase = "done",
                      NEW e \in 0..Product(op.result, 1, rank) - 1
               PROVE  e \in DOMAIN mem /\ \A d \in Operands : mem[e][d] = Broadcast(d, e)
    BY DEF ElementsRight
  <2>1. Analyzed /\ PlaceInv /\ StoredRight /\ inner \in Nat
    BY ChosenAnalyzed DEF LoopInv, LoopTypes
  <2>2. Product(op.result, 1, rank) = Total
    BY <2>1, ResultFacts DEF Total
  <2>3. /\ outer = OuterSize /\ Total = OuterSize * InnerSize(dims)
        /\ Total \in Nat /\ e \in Nat /\ e < Total
    BY <2>1, <2>2, SizesFacts DEF PlaceInv
  <2>4. e < outer * InnerSize(dims) + inner
    BY <2>1, <2>3
  <2>5. e \in DOMAIN mem
    BY <2>1, <2>3, <2>4 DEF PlaceInv
  <2> QED BY <2>1, <2>3, <2>5 DEF StoredRight
<1> QED BY <1>1, LoopInvariant, PTL
=============================================================================
