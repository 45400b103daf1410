CONSTANTS
  A = A
  B = B
  t1 = t1
  t2 = t2
  Klasses = {A, B}
  FieldsOf <- MCFieldsOf
  Slots = {t1, t2}
  PlanChoices <- MCPlanChoices
  Online = TRUE
  SlotsAssignedOnce = TRUE
  MaxRegs = 3
  MaxEpochs = 2
SPECIFICATION Spec
INVARIANTS TypeOK UnsafeOffsetsTrack
CHECK_DEADLOCK FALSE
