-------------------------- MODULE MCCompileDriver --------------------------
(* Instances of CompileDriver for TLC.                                       *)
EXTENDS CompileDriver

(* The onnx-mlir program and an embedding program, writing files or printing.*)
AllUses == BOOLEAN \X BOOLEAN
=============================================================================
