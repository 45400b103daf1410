CONSTANTS
  Object = Object
  NULL = NULL
  Klasses <- MCKlasses
  Super <- MCSuper
  Fields <- MCFields
  Holder <- MCHolder
  FieldOffset0 <- MCFieldOffset0
  FieldSize <- MCFieldSize
  HeapOopSize = 8
  OopFields <- MCFields
  KlassSize0 <- MCKlassSize0
  CpFields <- MCCpFields
  ClassesDo <- MCClassesDo
  Pinned = {"B"}
  RefKlasses = {}
  MaxEpochs = 3
  MaxHitKlasses = 1
  NestedRelayout = FALSE
  EraseSkips = TRUE
SPECIFICATION Spec
INVARIANT PinnedFieldsKept
CHECK_DEADLOCK FALSE
