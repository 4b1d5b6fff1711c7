SPECIFICATION Spec
CONSTANTS
  Args = {"arg", "arg2"}
  Globals = {"cst"}
  Allocs = {"m1", "m2"}
  Views = {"varg", "vm1", "vmix"}
  Selects = {"sel", "mix"}
  Source <- MCSource
  Branches <- MCBranches
  Roots <- MCRoots
  EntryPoints = {"first", "second"}
  First = "first"
  Programs <- MCPrograms
  MaxOutputs = 2
INVARIANTS NoFalsePositive DisownedForAReason FreedByItsOwner NothingLost
           FirstEntryRight
CHECK_DEADLOCK FALSE
