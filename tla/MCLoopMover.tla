----------------------------- MODULE MCLoopMover -----------------------------
(***************************************************************************)
(* Functions for LoopMover: the schedules that the lowerings of the dialect *)
(* write, and a family of bodies for each way to nest two iterates.         *)
(***************************************************************************)
EXTENDS LoopMover

S(k) == <<"stmt", k>>
Region(n) == <<"region", n>>
Iterate(n, loops, bounds) == <<"iterate", n, loops, bounds>>
DefineLoops(refs) == <<"define", refs>>
Block(r, r1, r2) == <<"block", r, r1, r2>>
Permute(refs, map) == <<"permute", refs, map>>
Parallel(refs) == <<"parallel", refs>>
UnrollLoop(r) == <<"unroll", r>>
Kernel(k, refs) == <<"kernel", k, refs>>

\* A function with one outer iterate and what is in its nested iterates.
Fn(schedule, outer, body, nested) == nested @@ (outer :> body) @@ (Func :> Append(schedule, outer))

(* What the body of an outer iterate may hold: statements, iterates with     *)
(* loops of their own, and an iterate whose loops the outer one gives.       *)
Shapes == {b \in UNION {[1..n -> {"s", "own", "in"}] : n \in 1..4} :
             Cardinality({k \in DOMAIN b : b[k] = "in"}) <= 1 /\ Cardinality({k \in DOMAIN b : b[k] = "own"}) <= 2}

SName == <<"s1", "s2", "s3", "s4">>
KName == <<"k1", "k2", "k3", "k4">>
OwnLoop(k) == Iterate(KName[k], <<KName[k]>>, <<KName[k]>>)
BodyOf(b, inner) ==
  FlattenSeq([k \in DOMAIN b |->
    CASE b[k] = "s" -> <<S(SName[k])>>
      [] b[k] = "own" -> <<DefineLoops(<<KName[k]>>), OwnLoop(k)>>
      [] OTHER -> <<inner>>])

Shaped(schedule, outer, b, inner) ==
  Fn(schedule, outer, BodyOf(b, inner),
     [it \in {OwnLoop(k) : k \in {k \in DOMAIN b : b[k] = "own"}} |-> <<S(it[2])>>]
       @@ (IF \E k \in DOMAIN b : b[k] = "in" THEN inner :> <<S("in")>> ELSE <<>>))

\* Loops of one iterate (Gemm.cpp:64, MatMul.cpp:57, Softmax.cpp).
Generic(b, par) ==
  Shaped(<<DefineLoops(<<"i", "j">>)>> \o par,
         Iterate("outer", <<"i">>, <<"i", "j">>), b, Iterate("inner", <<"j">>, <<>>))

\* A loop blocked, the tile in the outer iterate (imperfectly_nested_stmts.mlir).
Tiled(b, unroll) ==
  Shaped(<<DefineLoops(<<"i">>), Block("i", "ib", "il")>> \o unroll,
         Iterate("outer", <<"ib">>, <<"i">>), b, Iterate("inner", <<"il">>, <<>>))

\* The same in two dimensions, permuted.
Tiled2(b) ==
  Shaped(<<DefineLoops(<<"i", "j">>), Block("i", "ib", "il"), Block("j", "jb", "jl"),
           Permute(<<"ib", "il", "jb", "jl">>, <<0, 2, 1, 3>>)>>,
         Iterate("outer", <<"ib", "jb">>, <<"i", "j">>), b, Iterate("inner", <<"il", "jl">>, <<>>))

\* One nest, all of it in the outer iterate (Elementwise.cpp:1650).
Plain(b) ==
  Shaped(<<DefineLoops(<<"i">>)>>, Iterate("outer", <<"i">>, <<"i">>), b, Iterate("none", <<>>, <<>>))

WithInner == {b \in Shapes : \E k \in DOMAIN b : b[k] = "in"}
Families ==
  {Generic(b, p) : b \in WithInner, p \in {<<>>, <<Parallel(<<"i">>)>>}}
    \cup {Tiled(b, u) : b \in WithInner, u \in {<<>>, <<UnrollLoop("il")>>}}
    \cup {Tiled2(b) : b \in WithInner} \cup {Plain(b) : b \in Shapes \ WithInner}

\* Gemm.cpp:205, with the result tiled: three iterates around a kernel.
GemmTileR ==
  LET o == Iterate("o", <<"ii1", "jj1">>, <<"ii", "jj", "kk">>)
      k == Iterate("k", <<"kk1">>, <<>>)
      r == Iterate("r", <<"jj2", "ii2">>, <<>>)
  IN Fn(<<DefineLoops(<<"ii", "jj", "kk">>),
          Block("ii", "ii1", "iis"), Block("iis", "ii2", "ii3"),
          Block("jj", "jj1", "jjs"), Block("jjs", "jj2", "jj3"), Block("kk", "kk1", "kk2"),
          Permute(<<"ii1", "ii2", "ii3", "jj1", "jj2", "jj3", "kk1", "kk2">>,
                  <<0, 4, 5, 1, 3, 6, 2, 7>>),
          Parallel(<<"ii1">>)>>,
        o, <<S("alloc"), S("copyR"), k, S("copyBack")>>,
        (k :> <<S("copyA"), S("copyB"), r>>) @@ (r :> <<Kernel("matmul", <<"ii3", "jj3", "kk2">>)>>))

\* Gemm.cpp:283, with the bounds in the order that the comment there asks for.
GemmNoTileR ==
  LET o == Iterate("o", <<"jj1", "kk1">>, <<"jj", "kk", "ii">>)
      i == Iterate("i", <<"ii1">>, <<>>)
      r == Iterate("r", <<"jj2", "ii2">>, <<>>)
  IN Fn(<<DefineLoops(<<"ii", "jj", "kk">>),
          Block("ii", "ii1", "iis"), Block("iis", "ii2", "ii3"),
          Block("jj", "jj1", "jjs"), Block("jjs", "jj2", "jj3"), Block("kk", "kk1", "kk2"),
          Permute(<<"jj1", "jj2", "jj3", "kk1", "kk2", "ii1", "ii2", "ii3">>,
                  <<0, 3, 5, 1, 6, 2, 4, 7>>)>>,
        o, <<S("copyB"), i>>,
        (i :> <<S("copyA"), r>>) @@ (r :> <<Kernel("matmul", <<"ii3", "jj3", "kk2">>)>>))

\* MatMul.cpp:420, a schedule of its own in the body of the broadcast loops.
BatchedMatMul(first) ==
  LET o == Iterate("o", <<"b">>, <<"b">>)
      m == Iterate("m", <<"ii1", "jj1">>, <<"ii", "jj">>)
  IN Fn(<<DefineLoops(<<"b">>), Parallel(<<"b">>)>>, o,
        first \o <<DefineLoops(<<"ii", "jj">>), Block("ii", "ii1", "ii2"), Block("jj", "jj1", "jj2"),
                   Permute(<<"ii1", "ii2", "jj1", "jj2">>, <<0, 2, 1, 3>>), m>>,
        m :> <<Kernel("matmul", <<"ii2", "jj2">>)>>)

\* Elementwise.cpp: a blocked loop whose tile nothing runs in, twice over, and a
\* guarded loop (krnl.region, scf.if).
Simd(n, i, b, l, guard) ==
  LET it == Iterate(n, <<b>>, <<i>>)
      ops == <<DefineLoops(<<i>>), Block(i, b, l), it>>
  IN [ops |-> IF guard THEN <<Region(n)>> ELSE ops,
      code |-> (it :> <<S(n)>>) @@ (IF guard THEN Region(n) :> ops ELSE <<>>)]

InSequence(parts) ==
  [n \in UNION {DOMAIN parts[k].code : k \in DOMAIN parts} |->
     parts[CHOOSE k \in DOMAIN parts : n \in DOMAIN parts[k].code].code[n]]
    @@ (Func :> FlattenSeq([k \in DOMAIN parts |-> parts[k].ops]))

Stmt1(k) == [ops |-> <<S(k)>>, code |-> <<>>]

\* A permuted nest with everything in one iterate, and a blocked one.
Permuted ==
  LET it == Iterate("p", <<"ib", "jb", "il", "jl">>, <<"i", "j">>)
  IN [ops |-> <<DefineLoops(<<"i", "j">>), Block("i", "ib", "il"), Block("j", "jb", "jl"),
                Permute(<<"ib", "il", "jb", "jl">>, <<0, 2, 1, 3>>), it>>,
      code |-> it :> <<S("p")>>]
Blocked ==
  LET it == Iterate("q", <<"kb", "kl">>, <<"k">>)
  IN [ops |-> <<DefineLoops(<<"k">>), Block("k", "kb", "kl"), it>>, code |-> it :> <<S("q")>>]

\* unroll.mlir.
SimpleUnroll ==
  LET it == Iterate("u", <<"i">>, <<"i">>)
  IN Fn(<<DefineLoops(<<"i">>), UnrollLoop("i")>>, it, <<S("s1"), S("s2")>>, <<>>)
UnrollPermuted ==
  LET o == Iterate("o", <<"ib", "jb">>, <<"i", "j">>)
      n == Iterate("n", <<"il", "jl">>, <<>>)
  IN Fn(<<DefineLoops(<<"i", "j">>), Block("i", "ib", "il"), Block("j", "jb", "jl"),
          Permute(<<"ib", "il", "jb", "jl">>, <<0, 2, 1, 3>>), UnrollLoop("jl")>>,
        o, <<n>>, n :> <<S("s1"), S("s2")>>)

\* krnl.iterate() with (): a body that runs in no loop of its own.
NoLoop ==
  LET it == Iterate("n", <<>>, <<>>) IN Fn(<<S("s0")>>, it, <<S("s1")>>, <<>>)

Schedules ==
  {GemmTileR, GemmNoTileR, BatchedMatMul(<<S("memset")>>), BatchedMatMul(<<>>),
   InSequence(<<Simd("x", "xi", "xb", "xl", FALSE), Stmt1("m"), Simd("y", "yi", "yb", "yl", TRUE),
               Simd("z", "zi", "zb", "zl", FALSE)>>),
   InSequence(<<Blocked, Permuted>>), InSequence(<<Permuted, Blocked>>), SimpleUnroll, UnrollPermuted, NoLoop}

MCFunctions == Families \cup Schedules
=============================================================================
