--------------------------- MODULE MCConstantPack ---------------------------
(* Instances of ConstantPack for TLC.                                        *)
EXTENDS ConstantPack

CONSTANTS Sizes, Wide

SmallAligns == {-1, 2, 4}
OfKinds(kinds) == [kind : kinds, size : Sizes, align : SmallAligns]

(* Every module of one or two constants, and of Wide candidates for the file.*)
SmallModules ==
  [1..1 -> OfKinds(Kinds)] \cup [1..2 -> OfKinds(Kinds)]
    \cup [1..Wide -> OfKinds({"ordinary"})]
OldFile == <<Padding, Padding, Padding>>
=============================================================================
