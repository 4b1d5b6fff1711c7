SPECIFICATION Spec
CONSTANT Programs <- MCPrograms
INVARIANTS
  GroupsAreEqual
  DimsExist
  AtFixpoint
  OrderIrrelevant
PROPERTY Terminates
CHECK_DEADLOCK FALSE
