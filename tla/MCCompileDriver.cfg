SPECIFICATION Spec
CONSTANTS
  Names = {m1, m2}
  BadNames = {m2}
  Nested = FALSE
  Keep = {"MLIR", "LLVMIR"}
  Uses <- AllUses
  MayFail = TRUE
  NoTag = NoTag
  NoName = NoName
  MaxCalls = 3
CHECK_DEADLOCK FALSE
INVARIANTS TemporariesRemoved ToolInputsPresent PhasesAddUp
