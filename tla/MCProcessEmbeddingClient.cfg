SPECIFICATION Spec
CONSTANTS
  Call = {c1, c2, c3}
  NoCall = NoCall
SYMMETRY Symmetry
CHECK_DEADLOCK FALSE
INVARIANTS
  TypeOK
  NoLostWorker
  OperationsSerialized
  OwnPipesOnly
  ClosedForGood
PROPERTIES
  KilledNotReused
