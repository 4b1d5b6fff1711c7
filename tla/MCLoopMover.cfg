\* The schedules of the lowerings, and every body of up to four operations
\* under each way to nest two iterates.
CONSTANT
  Functions <- MCFunctions
SPECIFICATION Spec
INVARIANTS
  BodiesInPlace
  NoAssertFails
