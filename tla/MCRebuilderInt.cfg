CONSTANTS
  Object = Object
  NULL = NULL
  Klasses <- MCKlasses
  Super <- MCSuper
  Fields <- MCFields
  Holder <- MCHolder
  FieldOffset0 <- MCFieldOffsetInt
  FieldSize <- MCFieldSizeInt
  HeapOopSize = 8
  OopFields <- MCOopFieldsInt
  KlassSize0 <- MCKlassSize0Int
  CpFields <- MCCpFields
  ClassesDo <- MCClassesDo
  Pinned = {}
  RefKlasses = {}
  MaxEpochs = 1
  MaxHitKlasses = 1
  NestedRelayout = FALSE
  EraseSkips = TRUE
SPECIFICATION Spec
INVARIANT HotFieldsSeparated
CHECK_DEADLOCK FALSE
