------------------------------ MODULE LoopBody ------------------------------
(***************************************************************************)
(* The body of a loop while there is no loop yet (LoopBodyMover of          *)
(* src/Conversion/KrnlToAffine/ConvertKrnlToAffine.cpp): markLoopBodyAsMovable *)
(* cuts it into movables around the iterates in it, moveOne puts these       *)
(* around the loops that the iterates have become. The operations are those  *)
(* of LoopMover.                                                           *)
(***************************************************************************)
EXTENDS Naturals, Sequences

Movable(n) == <<"movable", n>>
Skip == <<"skip">>
KindOf(op) == op[1]
IsIterate(op) == KindOf(op) = "iterate"
IsLoop(op) == KindOf(op) = "for"

(***************************************************************************)
(* The direct iterates and the terminator end a chunk, and one that comes    *)
(* where a chunk begins does not end any. A chunk is moved away; the         *)
(* iterate that ends it is kept, and is stepped over when its movable has    *)
(* come back. Movables are numbered from n.                                *)
(***************************************************************************)
CutAt(body, n, s, e) ==
  LET m == Movable(n + Len(s.chunks) + 1)
  IN IF s.begin = e \/ ~(e > Len(body) \/ IsIterate(body[e])) THEN s
     ELSE [begin |-> e + 1,
           chunks |-> Append(s.chunks, SubSeq(body, s.begin, e - 1)),
           kept |-> IF e > Len(body) THEN s.kept ELSE Append(s.kept, body[e]),
           plan |-> s.plan \o (IF e > Len(body) THEN <<m>> ELSE <<m, Skip>>)]

Cut(body, n) ==
  LET cut[e \in 0..Len(body) + 1] ==
        IF e = 0 THEN [begin |-> 1, chunks |-> <<>>, kept |-> <<>>, plan |-> <<>>]
        ELSE CutAt(body, n, cut[e - 1], e)
  IN cut[Len(body) + 1]

\* Slip: the movables are put from the front, unrolled loop or not.
InsertPtAtFront(body) == 1

\* Where the movables begin: before the loop in front, or before the terminator.
InsertPt(body) == IF body # <<>> /\ IsLoop(body[1]) THEN 1 ELSE Len(body) + 1

(***************************************************************************)
(* The movables are put where the insertion point is; a loop to step over    *)
(* only moves it. One past the terminator is the end of the block, where     *)
(* nothing can be put. c maps a movable to the operations in it.            *)
(***************************************************************************)
Transfer(c, s, t) ==
  IF s.at > Len(s.body) + 1 THEN [s EXCEPT !.ok = FALSE]
  ELSE IF t = Skip THEN [s EXCEPT !.at = @ + 1]
  ELSE [body |-> SubSeq(s.body, 1, s.at - 1) \o c[t] \o SubSeq(s.body, s.at, Len(s.body)),
        at |-> s.at + Len(c[t]),
        ok |-> s.ok]

Transferred(c, body, plan) ==
  LET put[k \in 0..Len(plan)] ==
        IF k = 0 THEN [body |-> body, at |-> InsertPt(body), ok |-> TRUE]
        ELSE Transfer(c, put[k - 1], plan[k])
  IN put[Len(plan)]
=============================================================================
