----------------------------- MODULE LoopMover -----------------------------
(***************************************************************************)
(* The lowering of Krnl loops to affine loops                              *)
(* (src/Conversion/KrnlToAffine/ConvertKrnlToAffine.cpp). A function has    *)
(* references to loops, krnl.iterate operations that say which of them run  *)
(* around a body, and a schedule: loops are defined, blocked, permuted, run *)
(* in parallel or unrolled. The loops appear one by one while the schedule  *)
(* is interpreted, so that the bodies are first set aside in krnl.movable   *)
(* operations at the end of the function, and come under their loops in the *)
(* end (LoopBodyMover).                                                     *)
(*                                                                         *)
(* An operation is a tuple of its kind, what tells it apart and its operands:*)
(*   <<"stmt", s>>                     any other operation                  *)
(*   <<"kernel", s, refs>>             a specialized kernel and the loops it *)
(*                                     stands for                           *)
(*   <<"region", n>>                   an operation with a region (scf.if)   *)
(*   <<"iterate", n, loops, bounds>>   optimized loops, loops with bounds    *)
(*   <<"define", refs>>, <<"block", r, r1, r2>>, <<"permute", refs, map>>,   *)
(*   <<"parallel", refs>>, <<"unroll", r>>                                   *)
(*   <<"for", r>>                      a loop: r is what loopRefToOp maps to *)
(*                                     it; a copy is a longer tuple          *)
(*   <<"movable", n>>                                                       *)
(* The code of a function maps each operation with a region to the          *)
(* operations in it, terminator left out.                                   *)
(*                                                                         *)
(* Left out: the values that iterates yield, krnl.get_induction_var_value,  *)
(* the clause of a parallel loop, the motion of invariant code before the   *)
(* pass and the conversion of the other Krnl operations after it.           *)
(***************************************************************************)
EXTENDS LoopBody, SequencesExt, FiniteSets, TLC

CONSTANT Functions   \* the functions compiled: their code

Func == <<"func">>
For(r) == <<"for", r>>

VARIABLES
  fn,           \* the function: its code before the pass
  code,         \* its code
  movingPlan,   \* loop -> what comes under it: movables, and loops to step over
  loopRefToOp,  \* the references that have a loop
  once,         \* the loops made to run once
  parallel,     \* the loops that are affine.parallel
  opsToErase,   \* iterates lowered and schedule operations interpreted
  todo,         \* mark: the operation to walk next; move: the loops to come
  pc

vars == <<fn, code, movingPlan, loopRefToOp, once, parallel, opsToErase, todo, pc>>

-----------------------------------------------------------------------------
(* Code *)

Has(c, op) == op \in DOMAIN c
Holder(c, op) == CHOOSE n \in DOMAIN c : op \in ToSet(c[n])
AllOps(c) == UNION {ToSet(c[n]) : n \in DOMAIN c}

\* The operations in the region of n, nested ones before the one they are in.
Walk(c, n) ==
  LET W[m \in DOMAIN c] ==
        FlattenSeq([k \in DOMAIN c[m] |->
          IF Has(c, c[m][k]) THEN Append(W[c[m][k]], c[m][k]) ELSE <<c[m][k]>>])
  IN W[n]

\* The code with op replaced, where it is, by a sequence of operations.
Replaced(c, op, new) ==
  LET n == Holder(c, op)
      k == CHOOSE k \in DOMAIN c[n] : c[n][k] = op
  IN (n :> SubSeq(c[n], 1, k - 1) \o new \o SubSeq(c[n], k + 1, Len(c[n]))) @@ c

Without(c, gone) ==
  [n \in DOMAIN c \ gone |-> SelectSeq(c[n], LAMBDA op : op \notin gone)] @@ <<>>

\* A nest of loops, the innermost with a given body.
Nest(refs, body) ==
  LET Outside(k, nest) ==
        (For(refs[k]) :> IF k = Len(refs) THEN body ELSE <<For(refs[k + 1])>>) @@ nest
  IN FoldRight(Outside, [k \in DOMAIN refs |-> k], <<>>)

\* The loop references that an operation of the function makes, and uses.
Results(op) ==
  CASE KindOf(op) = "define" -> ToSet(op[2])
    [] KindOf(op) = "block" -> {op[3], op[4]}
    [] OTHER -> {}

Operands(op) ==
  CASE IsIterate(op) -> ToSet(op[3]) \cup ToSet(op[4])
    [] KindOf(op) = "kernel" -> ToSet(op[3])
    [] KindOf(op) \in {"block", "unroll"} -> {op[2]}
    [] KindOf(op) \in {"permute", "parallel"} -> ToSet(op[2])
    [] OTHER -> {}

Used(c, refs) == \E op \in AllOps(c) : Operands(op) \cap refs # {}

\* What removeOps does away with: operations that hold nothing and whose
\* results nothing uses, as long as it finds one.
RemovePass(s, n) ==
  LET gone == {op \in s.ops : /\ Has(s.code, op) => s.code[op] = <<>>
                              /\ ~Used(s.code, Results(op))}
  IN [code |-> Without(s.code, gone), ops |-> s.ops \ gone]

\* Slip: one pass, which leaves what was in use by the operations it removes.
RemoveOpsOnce(c, ops) == RemovePass([code |-> c, ops |-> ops], 1)

RemoveOps(c, ops) ==
  FoldLeft(RemovePass, [code |-> c, ops |-> ops], [n \in 1..Cardinality(ops) |-> n])

Affine(r) == r \in loopRefToOp /\ r \notin parallel

-----------------------------------------------------------------------------
Refs(c) == UNION {Results(op) : op \in AllOps(c)}

Init ==
  /\ fn \in Functions
  /\ code = fn
  /\ movingPlan = [r \in Refs(fn) |-> <<>>]
  /\ loopRefToOp = {} /\ once = {} /\ parallel = {} /\ opsToErase = {}
  /\ todo = 1
  /\ pc = "mark"

\* An assertion or a cast of the pass does not hold.
Fail ==
  /\ pc' = "assert"
  /\ UNCHANGED <<fn, code, movingPlan, loopRefToOp, once, parallel, opsToErase, todo>>

-----------------------------------------------------------------------------
(* The bodies are set aside *)

\* Each chunk goes to a movable at the end of the function; the innermost loop
\* is to get it.
MarkLoopBodyAsMovable(s, it) ==
  LET n == Cardinality({op \in DOMAIN s.code : KindOf(op) = "movable"})
      cut == Cut(s.code[it], n)
      Mov == [k \in DOMAIN cut.chunks |-> Movable(n + k)]
  IN IF it[3] = <<>> THEN s
     ELSE [code |-> (it :> cut.kept) @@ (Func :> s.code[Func] \o Mov)
                      @@ [m \in ToSet(Mov) |-> cut.chunks[m[2] - n]] @@ s.code,
           plan |-> [s.plan EXCEPT ![Last(it[3])] = @ \o cut.plan]]

\* funcOp.walk: the next operation of the function is known before this one is
\* walked, so that the movables added under the last one are not walked.
Mark ==
  /\ pc = "mark"
  /\ LET op == code[Func][todo]
         last == todo = Len(code[Func])
         its == SelectSeq(Append(IF Has(code, op) THEN Walk(code, op) ELSE <<>>, op), IsIterate)
         s == FoldLeft(MarkLoopBodyAsMovable, [code |-> code, plan |-> movingPlan], its)
     IN /\ code' = s.code
        /\ movingPlan' = s.plan
        /\ todo' = IF last THEN 0 ELSE todo + 1
        /\ pc' = IF last THEN "define" ELSE pc
  /\ UNCHANGED <<fn, loopRefToOp, once, parallel, opsToErase>>

-----------------------------------------------------------------------------
(* The loops appear *)

\* With bounds, a nest of loops after the iterate takes its body; without, the
\* body comes before it, and its last loop must be there already.
LowerIterateOp(s, it) ==
  LET optimized == it[3]
      bounds == it[4]
      body == s.code[it]
  IN IF bounds # <<>>
     THEN [s EXCEPT !.code = Nest(bounds, body) @@ (it :> <<>>)
                               @@ Replaced(@, it, <<it, For(bounds[1])>>),
                    !.refs = @ \cup ToSet(bounds)]
     ELSE [s EXCEPT !.code = (it :> <<>>) @@ Replaced(@, it, Append(body, it)),
                    !.ok = @ /\ (optimized # <<>> =>
                                   Last(optimized) \in s.refs \ parallel)]

\* The iterates that use a loop, the outer ones first.
Users(c, r) == SelectSeq(Reverse(Walk(c, Func)), LAMBDA op : IsIterate(op) /\ r \in Operands(op))

Define ==
  /\ pc = "define"
  /\ LET defines == SelectSeq(Walk(code, Func),
                      LAMBDA op : KindOf(op) = "define" /\ op \notin opsToErase)
     IN IF defines = <<>>
        THEN pc' = "interpret" /\ UNCHANGED <<code, loopRefToOp, opsToErase>>
        ELSE LET op == defines[1]
                 Lower(s, it) == IF it \in s.erase THEN s
                                 ELSE [LowerIterateOp(s, it) EXCEPT !.erase = @ \cup {it}]
                 s == FoldLeft(Lower,
                        [code |-> code, refs |-> loopRefToOp, erase |-> opsToErase, ok |-> TRUE],
                        FlattenSeq([k \in DOMAIN op[2] |-> Users(code, op[2][k])]))
             IN /\ code' = s.code
                /\ loopRefToOp' = s.refs
                /\ opsToErase' = s.erase \cup {op}
                /\ pc' = IF s.ok THEN pc ELSE "assert"
  /\ UNCHANGED <<fn, movingPlan, once, parallel, todo>>

\* interpretOperation: the operation it comes to next, or none.
Interpretable(op) == KindOf(op) \in {"iterate", "block", "permute", "parallel"}
Coming == SelectSeq(Walk(code, Func), LAMBDA op : Interpretable(op) /\ op \notin opsToErase)
Interpreting(kind, op) ==
  pc = "interpret" /\ Coming # <<>> /\ op = Head(Coming) /\ KindOf(op) = kind

InterpretIterate(op) ==
  /\ Interpreting("iterate", op)
  /\ LET s == LowerIterateOp([code |-> code, refs |-> loopRefToOp, ok |-> TRUE], op)
     IN /\ code' = s.code
        /\ loopRefToOp' = s.refs
        /\ pc' = IF s.ok THEN pc ELSE "assert"
  /\ opsToErase' = opsToErase \cup {op}
  /\ UNCHANGED <<fn, movingPlan, once, parallel, todo>>

\* The loop becomes two; an inner one that nothing uses is made to run once.
InterpretBlock(op) ==
  /\ Interpreting("block", op)
  /\ IF ~Affine(op[2]) THEN Fail
     ELSE LET l == op[2]
              tiled == Replaced(code, For(l), <<For(op[3])>>)
          IN /\ code' = Nest(<<op[3], op[4]>>, code[For(l)]) @@ Without(tiled, {For(l)})
             /\ once' = IF Used(code, {op[4]}) THEN once ELSE once \cup {op[4]}
             /\ loopRefToOp' = (loopRefToOp \ {l}) \cup {op[3], op[4]}
             /\ opsToErase' = opsToErase \cup {op}
             /\ UNCHANGED <<fn, movingPlan, parallel, todo, pc>>

\* permuteLoops takes a perfect nest in the order of its operands: the one at
\* position k goes to position map[k], counted from 0.
PerfectNest(c, refs) ==
  \A k \in 1..Len(refs) - 1 : c[For(refs[k])] = <<For(refs[k + 1])>>

InterpretPermute(op) ==
  /\ Interpreting("permute", op)
  /\ LET refs == op[2]
         map == op[3]
         removed == RemoveOps(code, opsToErase)
         new == [p \in DOMAIN refs |-> refs[CHOOSE k \in DOMAIN map : map[k] = p - 1]]
     IN IF \E k \in DOMAIN refs : ~Affine(refs[k])
        THEN Fail
        ELSE IF ~PerfectNest(removed.code, refs) THEN Fail
        ELSE /\ code' = Nest(new, removed.code[For(Last(refs))])
                        @@ Replaced(removed.code, For(refs[1]), <<For(new[1])>>)
             /\ opsToErase' = removed.ops \cup {op}
             /\ UNCHANGED <<fn, movingPlan, loopRefToOp, once, parallel, todo, pc>>

InterpretParallel(op) ==
  /\ Interpreting("parallel", op)
  /\ IF \E k \in DOMAIN op[2] : ~Affine(op[2][k])
     THEN Fail
     ELSE /\ parallel' = parallel \cup ToSet(op[2])
          /\ opsToErase' = opsToErase \cup {op}
          /\ UNCHANGED <<fn, code, movingPlan, loopRefToOp, once, todo, pc>>

Interpreted ==
  /\ pc = "interpret" /\ Coming = <<>>
  /\ pc' = "unroll"
  /\ UNCHANGED <<fn, code, movingPlan, loopRefToOp, once, parallel, opsToErase, todo>>

-----------------------------------------------------------------------------
(* The bodies come under their loops *)

\* moveOne: the body of the loop gets what the plan has for it.
MoveOne(c, r) ==
  LET s == Transferred(c, c[For(r)], movingPlan[r])
  IN [ok |-> s.ok,
      code |-> Without((For(r) :> s.body) @@ c, ToSet(movingPlan[r]) \ {Skip})]

Trip == 2   \* the iterations of a loop that is unrolled

\* loopUnrollFull: the body is the first iteration, copies of it the others.
Unrolled(c, r) ==
  LET inner == {op \in ToSet(Walk(c, For(r))) : Has(c, op)}
      Copy(op) == IF op \in inner THEN Append(op, r) ELSE op
      CopyOf(body) == [k \in DOMAIN body |-> Copy(body[k])]
      copies == [o \in {Copy(op) : op \in inner} |->
                   CopyOf(c[CHOOSE op \in inner : Copy(op) = o])]
  IN copies @@ Without(Replaced(c, For(r), c[For(r)] \o CopyOf(c[For(r)])), {For(r)})

\* Only the unroll operations directly in the function are looked for.
Unroll ==
  /\ pc = "unroll"
  /\ LET unrolls == SelectSeq(code[Func], LAMBDA op : KindOf(op) = "unroll" /\ op \notin opsToErase)
     IN IF unrolls = <<>>
        THEN pc' = "erase" /\ UNCHANGED <<code, movingPlan, opsToErase>>
        ELSE LET op == unrolls[1]
                 moved == MoveOne(code, op[2])
                 removed == RemoveOps(moved.code, opsToErase)
             IN IF ~Affine(op[2]) \/ ~moved.ok
                THEN pc' = "assert" /\ UNCHANGED <<code, movingPlan, opsToErase>>
                ELSE /\ code' = Unrolled(removed.code, op[2])
                     /\ movingPlan' = [movingPlan EXCEPT ![op[2]] = <<>>]
                     /\ opsToErase' = removed.ops \cup {op}
                     /\ pc' = pc
  /\ UNCHANGED <<fn, loopRefToOp, once, parallel, todo>>

\* The loops a specialized kernel stands for go as well, and all that was
\* interpreted must be gone then.
Erase ==
  /\ pc = "erase"
  /\ LET kernels == {op \in AllOps(code) : KindOf(op) = "kernel"}
         loops == UNION {{For(r) : r \in Operands(op)} : op \in kernels}
         Clear(op) == IF op \in kernels THEN <<"kernel", op[2], <<>>>> ELSE op
         cleared == [n \in DOMAIN code |-> [k \in DOMAIN code[n] |-> Clear(code[n][k])]]
         removed == RemoveOps(cleared, opsToErase \cup loops)
     IN IF removed.ops # {} THEN Fail
        ELSE /\ code' = removed.code
             /\ opsToErase' = {}
             /\ todo' = {r \in DOMAIN movingPlan : movingPlan[r] # <<>>}
             /\ pc' = "move"
             /\ UNCHANGED <<fn, movingPlan, loopRefToOp, once, parallel>>

\* moveAll, in the order of a hash table.
Move(r) ==
  /\ pc = "move"
  /\ r \in todo
  /\ LET moved == MoveOne(code, r)
     IN IF r \notin loopRefToOp \/ ~Has(code, For(r)) \/ ~moved.ok THEN Fail
        ELSE /\ code' = moved.code
             /\ todo' = todo \ {r}
             /\ UNCHANGED <<fn, movingPlan, loopRefToOp, once, parallel, opsToErase, pc>>

Moved ==
  /\ pc = "move" /\ todo = {}
  /\ pc' = "done"
  /\ UNCHANGED <<fn, code, movingPlan, loopRefToOp, once, parallel, opsToErase, todo>>

Interpret ==
  \/ \E op \in ToSet(Coming) :
       InterpretIterate(op) \/ InterpretBlock(op) \/ InterpretPermute(op) \/ InterpretParallel(op)
  \/ Interpreted

Next ==
  \/ Mark \/ Define \/ Interpret \/ Unroll \/ Erase
  \/ \E r \in DOMAIN movingPlan : Move(r)
  \/ Moved

\* The pass has ended, or the program has.
Ended == pc \in {"done", "assert"} /\ UNCHANGED vars

Spec == Init /\ [][Next \/ Ended]_vars

-----------------------------------------------------------------------------
(* What the code means: the statements in order, each with the loops around *)
(* it. An unrolled loop is its body several times, a loop run once its body.*)

Unrolls == {op[2] : op \in {op \in AllOps(fn) : KindOf(op) = "unroll"}}

Under(r, t) == [k \in DOMAIN t |-> <<(<<r>> \o t[k][1]), t[k][2]>>]

\* The loops of an iterate around what is in it.
Iterated(r, t) == IF r \in Unrolls THEN t \o t ELSE Under(r, t)

Meaning(c) ==
  LET Of(op, t) ==
        CASE IsIterate(op) -> FoldRight(Iterated, op[3], t)
          [] IsLoop(op) -> IF op[2] \in once THEN t ELSE Under(op[2], t)
          [] OTHER -> t
      M[n \in DOMAIN c] ==
        FlattenSeq([k \in DOMAIN c[n] |->
          LET op == c[n][k]
          IN CASE KindOf(op) \in {"stmt", "kernel"} -> <<(<<(<<>>), op[2]>>)>>
               [] Has(c, op) -> Of(op, M[op])
               [] OTHER -> <<>>])
  IN M[Func]

-----------------------------------------------------------------------------
(* Properties *)

Iterates(n) == {k \in DOMAIN fn[n] : IsIterate(fn[n][k])}

\* The nest that is made for an iterate has loops under those that it runs in.
Partial(n) == IsIterate(n) /\ n[3] # <<>> /\ n[3] # n[4]

\* An iterate without bounds runs in loops of a nest made for another.
Inner(op) == IsIterate(op) /\ op[3] # <<>> /\ op[4] = <<>>

(***************************************************************************)
(* The functions the pass is made for. An iterate whose nest goes on below  *)
(* it holds one iterate at most, after another operation or alone, or in    *)
(* front if its loop is unrolled; only there can an iterate do without      *)
(* bounds. A loop that is used is run, or blocked. After a permutation, the   *)
(* inner loop of a block has a use besides an iterate with bounds, if any.  *)
(***************************************************************************)
Regular ==
  LET Uses(r) == {op \in AllOps(fn) : r \in Operands(op)}
      Run(r) == \E op \in Uses(r) : KindOf(op) = "kernel" \/ (IsIterate(op) /\ r \in ToSet(op[3]))
      Blocks == {op \in AllOps(fn) : KindOf(op) = "block"}
      ops == Walk(fn, Func)
  IN
  /\ \A n \in DOMAIN fn : Partial(n) =>
       \A k \in Iterates(n) :
         /\ Iterates(n) = {k}
         /\ IF Inner(fn[n][k]) /\ Last(fn[n][k][3]) \in Unrolls
            THEN k = 1 ELSE k > 1 \/ Len(fn[n]) = 1
  /\ \A n \in DOMAIN fn : (\E k \in DOMAIN fn[n] : Inner(fn[n][k])) => Partial(n)
  /\ \A r \in Refs(fn) : Uses(r) = {} \/ Run(r) \/ \E op \in Blocks : op[2] = r
  /\ \A k \in DOMAIN ops : ops[k] \in Blocks /\ Uses(ops[k][4]) # {} =>
       \/ \A m \in 1..k : KindOf(ops[m]) # "permute"
       \/ \E op \in Uses(ops[k][4]) : IsIterate(op) => op[4] = <<>>

(***************************************************************************)
(* At the end every statement is in the loops it was written in, in the     *)
(* order it was written in, whatever the loops went through.                *)
(***************************************************************************)
BodiesInPlace == (pc = "done" /\ Regular) => Meaning(code) = Meaning(fn)

\* No assertion of the pass fails, nor a cast.
NoAssertFails == Regular => pc # "assert"
=============================================================================
