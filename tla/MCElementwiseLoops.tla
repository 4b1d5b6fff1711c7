------------------------- MODULE MCElementwiseLoops -------------------------
(***************************************************************************)
(* All operations of the ranks and sizes below, with every combination of   *)
(* literals and question marks, and every value the latter may have.        *)
(***************************************************************************)
EXTENDS ElementwiseLoops, SequencesExt

CONSTANTS N, M

\* Question marks N and M stand for the sizes vn and vm.
Quest(s, v) == [known |-> FALSE, val |-> v, name |-> s]

Shapes(ds, ranks) == UNION {[1..k -> ds] : k \in ranks}

Make(shapes, uni, extra, analysis) ==
  LET longest == CHOOSE s \in ToSet(shapes) : \A t \in ToSet(shapes) : Len(t) <= Len(s)
      draft == [shapes |-> shapes, result |-> [j \in DOMAIN longest |-> 1],
                extra |-> extra, analysis |-> analysis, uni |-> uni, valid |-> FALSE]
      at(j) == {ValueAt(draft, s, j) : s \in ToSet(shapes)}
      o == [draft EXCEPT !.result =
              [j \in DOMAIN longest |-> CHOOSE v \in at(j) : \A w \in at(j) : w <= v]]
  IN [o EXCEPT !.valid = Broadcasts(o)]

Sizes == 1..3
Dims(vn, vm) == {Lit(1), Lit(2), Lit(3), Quest(N, vn), Quest(M, vm)}
FewDims(vn) == {Lit(1), Lit(2), Quest(N, vn)}

\* Two inputs of up to two dimensions.
Planes ==
  UNION {{Make(<<s, t>>, FALSE, FALSE, a) : s, t \in Shapes(Dims(vn, vm), 0..2), a \in BOOLEAN} :
           vn, vm \in Sizes}

\* Two inputs of three dimensions, or one.
Cubes ==
  UNION {{Make(<<s, t>>, FALSE, FALSE, TRUE) :
            s \in Shapes(FewDims(vn), {3}), t \in Shapes(FewDims(vn), {1, 2, 3})} : vn \in 1..2}

\* Three inputs, one of them a scalar or not.
Triples ==
  UNION {{Make(<<s, t, u>>, FALSE, FALSE, a) :
            s, t \in Shapes(FewDims(vn), {2}), u \in Shapes(FewDims(vn), 0..2), a \in BOOLEAN} :
           vn \in 1..2}

\* PRelu and Expand; unary operations; long vectors.
Special ==
  UNION {{Make(<<s, t>>, TRUE, FALSE, TRUE) : s, t \in Shapes(FewDims(vn), 1..2)} : vn \in 1..2}
  \cup UNION {{Make(<<s, t>>, FALSE, TRUE, TRUE) : s, t \in Shapes(FewDims(vn), 1..2)} : vn \in 1..2}
  \cup UNION {{Make(<<s>>, FALSE, FALSE, TRUE) : s \in Shapes(Dims(vn, 2), 0..3)} : vn \in Sizes}
  \cup {Make(<<<<Lit(2), Lit(k)>>, <<Lit(k)>>>>, FALSE, FALSE, TRUE) : k \in 4..11}
  \cup {Make(<<<<Lit(k)>>, <<Lit(k)>>>>, FALSE, FALSE, TRUE) : k \in 4..11}
  \cup {Make(<<<<Lit(2), Quest(N, k)>>, <<Quest(N, k)>>>>, FALSE, FALSE, TRUE) : k \in 4..11}
  \cup {Make(<<<<Lit(3), Quest(N, k)>>, <<Lit(1)>>>>, FALSE, FALSE, TRUE) : k \in 4..7}

MCOperations == Planes \cup Cubes \cup Triples \cup Special
MCNames == {N, M}
=============================================================================
