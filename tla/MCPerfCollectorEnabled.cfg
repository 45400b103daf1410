CONSTANTS
  t1 = t1
  t2 = t2
  L1 = L1
  ExtLine = ExtLine
  Threads = {t1, t2}
  ThreadsOrder <- MCThreadsOrder
  Hidden = {t2}
  NumEvents = 1
  Outcomes = {"ok"}
  Lines = {L1}
  Bytes = {0}
  RingWords = 8
  REMIXTiming = FALSE
  MaxSamples = 3
  MaxSafepoints = 2
  Threshold = 2
  Verbose = FALSE
SPECIFICATION Spec
INVARIANTS EnabledRestored
CHECK_DEADLOCK FALSE
