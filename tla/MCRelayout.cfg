CONSTANTS
  A = A
  B = B
  a1 = a1
  a2 = a2
  a3 = a3
  b1 = b1
  NullRef = NullRef
  Klasses = {A, B}
  Objs = {a1, a2, a3, b1}
  KlassOf <- MCKlassOf
  OldSize <- MCOldSize
  Fields <- MCFields
  RefFields <- MCRefFields
  Plan <- MCPlan
  NumSpaces = 3
  ObjsIn <- MCObjsIn
  Cap <- MCCap
  MarksSpace = 2
  RootChoices <- MCRootChoices
  Refs0 <- MCRefs0
  Modes = {"safepoint", "online"}
SPECIFICATION Spec
INVARIANTS TypeOK GetfieldReadsFieldOutsideRepair
PROPERTIES RefinesAbstract OperationCompletes
CHECK_DEADLOCK FALSE
