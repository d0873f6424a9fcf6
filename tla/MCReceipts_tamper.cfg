CONSTANTS
  Shapes <- MCShapes
  MaxLog = 2
  MaxTime = 1
  MaxEdits = 1
  Deep <- DeepShapes
SPECIFICATION Spec
CHECK_DEADLOCK FALSE
INVARIANTS
  AcceptedIsVouchedFor
  SingleMutationDetected
PROPERTIES
  VerdictIsStable
