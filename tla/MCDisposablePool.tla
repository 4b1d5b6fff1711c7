-------------------------- MODULE MCDisposablePool --------------------------
(* Instances of DisposablePool for TLC.                                      *)
EXTENDS DisposablePool, TLC

CONSTANTS t1, t2, s1, s2, s3, w1, w2

MCOwner == (s1 :> t1) @@ (s2 :> t2) @@ (s3 :> t2)
MCOpName == (s1 :> "onnx.Constant") @@ (s2 :> "onnx.ConstantOfShape")
            @@ (s3 :> "zhigh.StickifiedConstant")

(* Elements counts: attribute 1 alone reaches minAggregateCount.             *)
MCSize == [i \in Ids |-> IF i = 1 THEN 3 ELSE 1]
=============================================================================
