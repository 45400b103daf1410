CONSTANTS
  t1 = t1
  t2 = t2
  L1 = L1
  ExtLine = ExtLine
  Threads = {t1, t2}
  ThreadsOrder <- MCThreadsOrder
  Hidden = {t2}
  NumEvents = 2
  Outcomes = {"ok", "fail"}
  Lines = {L1}
  Bytes = {0}
  RingWords = 8
  REMIXTiming = TRUE
  MaxSamples = 3
  MaxSafepoints = 2
  Threshold = 2
  Verbose = TRUE
SPECIFICATION Spec
INVARIANT EndedThreadsDrained
CHECK_DEADLOCK FALSE
