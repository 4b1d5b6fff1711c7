------------------------- MODULE MCExternalConstant -------------------------
(* Instances of ExternalConstant for TLC: two models, in one directory or in *)
(* two, and a constants file name per model or one name for both.            *)
EXTENDS ExternalConstant, TLC

CONSTANTS m1, m2, d1, d2

OneDir == (m1 :> d1) @@ (m2 :> d1)
TwoDirs == (m1 :> d1) @@ (m2 :> d2)
OwnNames == (m1 :> m1) @@ (m2 :> m2)
SameName == (m1 :> m1) @@ (m2 :> m1)
=============================================================================
