CONSTANTS
  Object = Object
  Klasses <- MCKlasses
  Super <- MCSuper
  OwnOffsets <- MCOwnOffsets
  KlassSize <- MCKlassSize
  ArrayKlasses = {"Arr"}
  LangKlasses = {"Lang"}
  HitSizes <- MCHitSizes
  HitStep = 4
  Heap <- MCHeap
  MaxSamples = 3
  MaxGathers = 2
SPECIFICATION Spec
INVARIANTS
  TypeOK
  HitConservation
  GenSearchMatchesBlockStart
CHECK_DEADLOCK FALSE
