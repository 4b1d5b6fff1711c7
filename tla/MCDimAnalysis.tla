--------------------------- MODULE MCDimAnalysis ---------------------------
(***************************************************************************)
(* Programs with every operator and every rule of the analysis, each with   *)
(* all its runs for the sizes 1 to 3.                                       *)
(***************************************************************************)
EXTENDS DimEquality

Sizes == 1..3

Make(op, ins, dims) ==
  [op |-> op, ins |-> ins, shape |-> <<>>, attr |-> 0, attrs |-> <<>>, dims |-> dims, elem |-> FALSE]
Arg(dims) == Make("argument", <<>>, dims)
DimOf(x, axis) == [Make("dim", <<x>>, <<1>>) EXCEPT !.attr = axis, !.elem = TRUE]
CastOf(x) == [Make("cast", <<x>>, <<1>>) EXCEPT !.elem = TRUE]
Constant(v) == [Make("constant", <<>>, <<1>>) EXCEPT !.attr = v, !.elem = TRUE]
With(t, attr) == [t EXCEPT !.attr = attr]
WithAll(t, attrs) == [t EXCEPT !.attrs = attrs]
WithShape(t, shape) == [t EXCEPT !.shape = shape]

Run(size, elem) == [size |-> size, elem |-> elem]
E1 == <<1>>   \* the size of an element
None(n) == [i \in 1..n |-> 0]
Prog(tensors, returned, params, runs) ==
  [tensors |-> tensors, returned |-> returned, params |-> params, runs |-> runs]

\* A matrix product and its bias.
Linear ==
  Prog(<<Arg(<<0, 0>>), Arg(<<0, 0>>), Make("matmul", <<1, 2>>, <<0, 0>>), Arg(<<0>>),
         Make("broadcast", <<3, 4>>, <<0, 0>>)>>,
       {5}, {{<<2, 2>>, <<4, 1>>}},
       {Run(<<<<n, k>>, <<k, m>>, <<n, m>>, <<m>>, <<n, m>>>>, None(5)) : n, k, m \in Sizes})

\* Gemm of two transposed operands, and a concatenation with its result.
Transposed ==
  Prog(<<Arg(<<0, 0>>), Arg(<<0, 0>>), WithAll(Make("gemm", <<1, 2>>, <<0, 0>>), <<1, 1>>),
         Arg(<<0, 2>>), With(Make("concat", <<3, 4>>, <<0, 0>>), 2)>>,
       {}, {},
       {Run(<<<<k, m>>, <<n, k>>, <<m, n>>, <<m, 2>>, <<m, n + 2>>>>, None(5)) : n, k, m \in Sizes})

\* A tensor made with the size of another, added to it, and the sum to a third.
Filled ==
  Prog(<<Arg(<<0, 4>>), DimOf(1, 1), CastOf(2), Constant(4),
         WithShape(Make("constantOfShape", <<>>, <<0, 4>>), <<3, 4>>),
         Make("broadcast", <<5, 1>>, <<0, 4>>), Arg(<<0, 4>>), Make("broadcast", <<6, 7>>, <<0, 4>>)>>,
       {8}, {{<<1, 1>>, <<7, 1>>}},
       {Run(<<<<n, 4>>, E1, E1, E1, <<n, 4>>, <<n, 4>>, <<n, 4>>, <<n, 4>>>>,
            <<0, n, n, 4, 0, 0, 0, 0>>) : n \in Sizes})

\* Reshape of two dimensions into two, transposed back.
TwoToTwo ==
  Prog(<<Arg(<<0, 0>>), Arg(<<0>>), DimOf(2, 1), Constant(-1),
         WithShape(Make("reshape", <<1>>, <<0, 0>>), <<3, 4>>),
         WithAll(Make("transpose", <<5>>, <<0, 0>>), <<2, 1>>)>>,
       {6}, {{<<1, 2>>, <<2, 1>>}},
       {Run(<<<<n, m>>, <<m>>, E1, E1, <<m, n>>, <<n, m>>>>, <<0, 0, m, -1, 0, 0>>) : n, m \in Sizes})

\* Reshapes with one unknown dimension, and with a copied one; Expand and Tile to it.
Stretched ==
  Prog(<<Arg(<<0, 2, 2>>), Constant(-1), Constant(4), WithShape(Make("reshape", <<1>>, <<0, 4>>), <<2, 3>>),
         Constant(0), Constant(2), WithShape(Make("reshape", <<4>>, <<0, 2, 2>>), <<5, 6, 6>>),
         DimOf(7, 1), Constant(1), Arg(<<1, 3>>),
         WithShape(Make("expand", <<10>>, <<0, 3>>), <<8, 9>>),
         WithShape(Make("tile", <<10>>, <<0, 3>>), <<8, 9>>),
         WithShape(Make("reshape", <<4>>, <<0, 2>>), <<2, 6>>)>>,
       {11}, {},
       {Run(<<<<n, 2, 2>>, E1, E1, <<n, 4>>, E1, E1, <<n, 2, 2>>, E1, E1, <<1, 3>>, <<n, 3>>, <<n, 3>>,
              <<2 * n, 2>>>>,
            <<0, -1, 4, 0, 0, 2, 0, n, 1, 0, 0, 0, 0>>) : n \in Sizes})

\* A recurrent layer, and its result cut to the batch size.
Recurrent ==
  Prog(<<Arg(<<0, 0, 5>>), Arg(<<0>>), Arg(<<1, 0, 4>>), Make("gru", <<1, 2, 3>>, <<0, 1, 0, 4>>),
         DimOf(2, 1), WithAll(WithShape(Make("centerCropPad", <<4>>, <<0, 1, 0, 0>>), <<5>>), <<4>>)>>,
       {}, {},
       {Run(<<<<s, b, 5>>, <<b>>, <<1, b, 4>>, <<s, 1, b, 4>>, E1, <<s, 1, b, b>>>>,
            <<0, 0, 0, 0, b, 0>>) : s, b \in Sizes})

RecurrentBatchFirst ==
  Prog(<<Arg(<<0, 0, 5>>), Arg(<<0>>), Arg(<<0, 1, 4>>), With(Make("gru", <<1, 2, 3>>, <<0, 0, 1, 4>>), 1)>>,
       {4}, {},
       {Run(<<<<b, s, 5>>, <<b>>, <<b, 1, 4>>, <<b, s, 1, 4>>>>, None(4)) : s, b \in Sizes})

\* Operands of different ranks.
MixedRanks ==
  Prog(<<Arg(<<0>>), Arg(<<0, 0>>), Make("broadcast", <<1, 2>>, <<0, 0>>)>>,
       {}, {{<<1, 1>>, <<2, 1>>, <<2, 2>>}},
       {Run(<<<<n>>, <<n, n>>, <<n, n>>>>, None(3)) : n \in Sizes})

\* A reshape that repeats the dimensions of the left operand of a product.
Heads ==
  Prog(<<Arg(<<0, 0, 4>>), Arg(<<4, 0>>), Make("matmul", <<1, 2>>, <<0, 0, 0>>), DimOf(1, 1), DimOf(1, 2),
         Constant(-1), WithShape(Make("reshape", <<3>>, <<0, 0, 0>>), <<4, 5, 6>>)>>,
       {}, {},
       {Run(<<<<b, s, 4>>, <<4, h>>, <<b, s, h>>, E1, E1, E1, <<b, s, h>>>>, <<0, 0, 0, b, s, -1, 0>>) :
          b, s, h \in Sizes})

\* A product of batches, some runs with one of them broadcast.
Batches ==
  Prog(<<Arg(<<0, 0, 4>>), Arg(<<0, 4, 0>>), Make("matmul", <<1, 2>>, <<0, 0, 0>>)>>, {}, {},
       {Run(<<<<a, m, 4>>, <<b, 4, n>>, <<IF a = 1 THEN b ELSE a, m, n>>>>, None(3)) :
          a, b, m, n \in Sizes})

\* An operation of three operands, in some runs of different sizes.
Chosen ==
  Prog(<<Arg(<<0, 0>>), Arg(<<0, 0>>), Arg(<<0, 0>>), Make("broadcast", <<1, 2, 3>>, <<0, 0>>)>>,
       {4}, {{<<1, 1>>, <<2, 1>>}, {<<2, 2>>, <<3, 2>>}},
       {Run(<<<<a, b>>, <<a, c>>, <<d, c>>, <<e, f>>>>, None(4)) : a, b, c, d, e, f \in Sizes})

\* Expand by a shape that does not ask for the size it gets in every run.
Widened ==
  Prog(<<Arg(<<0, 2>>), Arg(<<0>>), DimOf(2, 1), Constant(1),
         WithShape(Make("expand", <<1>>, <<0, 2>>), <<3, 4>>)>>,
       {}, {},
       {Run(<<<<n, 2>>, <<m>>, E1, E1, <<IF n = 1 THEN m ELSE n, 2>>>>, <<0, 0, m, 1, 0>>) : n, m \in Sizes})

MCPrograms ==
  <<Linear, Transposed, Filled, TwoToTwo, Stretched, Recurrent, RecurrentBatchFirst, MixedRanks, Heads,
    Batches, Chosen, Widened>>

\* The reference for each program settles within the rounds it is compared in.
ASSUME ReferenceSettles ==
  \A i \in DOMAIN MCPrograms :
    \E n \in Rounds(MCPrograms[i]) : Settled(MCPrograms[i].tensors, Together(MCPrograms[i], n))
=============================================================================
