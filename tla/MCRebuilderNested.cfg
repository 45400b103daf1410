CONSTANTS
  Object = Object
  NULL = NULL
  Klasses <- MCKlassesAD
  Super <- MCSuperAD
  Fields <- MCFieldsAD
  Holder <- MCHolderAD
  FieldOffset0 <- MCFieldOffsetAD
  FieldSize <- MCFieldSizeAD
  HeapOopSize = 8
  OopFields <- MCFieldsAD
  KlassSize0 <- MCKlassSizeAD
  CpFields <- MCCpFieldsAD
  ClassesDo <- MCClassesDoAD
  Pinned = {}
  RefKlasses = {}
  MaxEpochs = 3
  MaxHitKlasses = 2
  NestedRelayout = TRUE
  EraseSkips = TRUE
SPECIFICATION Spec
INVARIANT LayoutSound
CHECK_DEADLOCK FALSE
