--------------------------- MODULE MCPerfCollector ---------------------------
(***************************************************************************)
(* Two threads and the events start-up detection yields: a Haswell-EP      *)
(* (model 63, two HITM events) for the merge runs and a Skylake client     *)
(* (model 94, one event) for the runs about a single Perf, both on a 4.4   *)
(* kernel and with two identical processor blocks in /proc/cpuinfo.       *)
(***************************************************************************)
EXTENDS PerfCollector, HWDetect

CONSTANTS t1, t2, L1

MCThreadsOrder == <<t1, t2>>
MCBytes == {0, 31, 32}

MCRelease == [fields |-> 3, major |-> 4, minor |-> 4]
MCDetect(model) ==
  SystemDetect(CpuInfo([vendor |-> "GenuineIntel", family |-> 6, model |-> model], 2),
               MCRelease)

\* det.events_count() on the Haswell-EP: every HitmEventProf::init opens
\* that many Perfs (NumEvents of the merge runs; the Skylake client of the
\* single-Perf runs tracks one event).
MCHaswellEvents == Len(MCDetect(63).events)

\* Start-up detection (RemixSystemDetect) agrees with the reference on every
\* bounded platform, and on the Haswell-EP of this run every thread's
\* HitmEventProf holds one Perf per event detection tracks there.
DetectedPerfs ==
  /\ DetectMatchesReference
  /\ \A t \in Threads : DOMAIN status[t] = 1..MCHaswellEvents
==============================================================================
