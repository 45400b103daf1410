------------------------------ MODULE HWDetect ------------------------------
(***************************************************************************)
(* RemixSystemDetect (HWDetect.hpp): the start-up gate that reads          *)
(* /proc/cpuinfo line by line into a tree of detectors, VendorDetect ->    *)
(* IntelFamilyDetect -> three IntelModelDetect/ModelDetectUntested, then  *)
(* checks the kernel release, and yields the HITM event ids the Perfs of   *)
(* every HitmEventProf are opened on. A detector's _ok is sticky.          *)
(*                                                                         *)
(* A cpuinfo line has a colon or not (strchr), the caption before the     *)
(* colon with trailing blanks trimmed and the value after it: num says    *)
(* that strtol consumes the whole value (up to trailing blanks) and val   *)
(* is then the number; otherwise val is the trimmed text.                 *)
(***************************************************************************)
EXTENDS Naturals, Sequences

NoColon == [colon |-> FALSE, cap |-> "", num |-> FALSE, val |-> ""]

Detectors == {"vendor", "family", "hsw", "hsw_untested", "bdw_skl_untested"}

\* The detector tree IntelFamilyDetect and VendorDetect build in their
\* constructors (_nexts, in push_back order), each detector's caption and
\* VALUE_TYPE, the values its test_value accepts and the events
\* IntelModelDetect keeps (MODELS_* and EVENTS_* of HWDetect.hpp).
Nexts == [n \in Detectors |->
            CASE n = "vendor" -> <<"family">>
              [] n = "family" -> <<"hsw", "hsw_untested", "bdw_skl_untested">>
              [] OTHER        -> << >>]
Caption == [n \in Detectors |->
              CASE n = "vendor" -> "vendor_id"
                [] n = "family" -> "cpu family"
                [] OTHER        -> "model"]
IsInt(n) == n # "vendor"
Accept == [n \in Detectors |->
             CASE n = "vendor"           -> {"GenuineIntel"}
               [] n = "family"           -> {6}
               [] n = "hsw"              -> {63}
               [] n = "hsw_untested"     -> {62, 69, 70}
               [] n = "bdw_skl_untested" -> {61, 78, 94, 71, 86}]
EventsOf == [n \in {"hsw", "hsw_untested", "bdw_skl_untested"} |->
               IF n = "bdw_skl_untested" THEN <<4307>> ELSE <<1234, 4307>>]

\* test_value of detector n: a VALUE_INT detector fails on a value strtol
\* does not consume; a match sets _ok.
TestValue(okf, n, line) ==
  IF line.num = IsInt(n) /\ line.val \in Accept[n]
  THEN [ok |-> [okf EXCEPT ![n] = TRUE], ret |-> TRUE]
  ELSE [ok |-> okf, ret |-> FALSE]

RECURSIVE ParseLineImp(_, _, _), ParseNexts(_, _, _, _)

\* A loop over _nexts that returns the first child's answer whatever it is.
ParseNextsFirstOnly(okf, ns, i, line) ==
  IF i > Len(ns) THEN [ok |-> okf, ret |-> FALSE]
  ELSE ParseLineImp(okf, ns[i], line)

\* BaseDetect::parse_line_imp: a line whose caption is n's is n's to test;
\* otherwise the children are asked in order until one returns true.
ParseLineImp(okf, n, line) ==
  IF ~line.colon THEN [ok |-> okf, ret |-> FALSE]
  ELSE IF line.cap = Caption[n] THEN TestValue(okf, n, line)
  ELSE ParseNexts(okf, Nexts[n], 1, line)

ParseNexts(okf, ns, i, line) ==
  IF i > Len(ns) THEN [ok |-> okf, ret |-> FALSE]
  ELSE LET r == ParseLineImp(okf, ns[i], line)
       IN  IF r.ret THEN r ELSE ParseNexts(r.ok, ns, i + 1, line)

\* BaseDetect::ok: n matched and, unless it is a leaf, some child is ok.
RECURSIVE Ok(_, _)
Ok(okf, n) ==
  okf[n] /\ (Nexts[n] = << >> \/ \E i \in DOMAIN Nexts[n] : Ok(okf, Nexts[n][i]))

\* get_tracked_event_ids: VendorDetect asks IntelFamilyDetect, which asks
\* its three model detectors in turn; each appends its events if it matched.
Tracked(okf, n) == IF okf[n] THEN EventsOf[n] ELSE << >>
TrackedEventIds(okf) ==
  Tracked(okf, "hsw") \o Tracked(okf, "hsw_untested") \o Tracked(okf, "bdw_skl_untested")

\* test_cpu's fgets loop: the detectors' _ok after VendorDetect::parse_line
\* has read the first i lines.
RECURSIVE ParseLines(_, _)
ParseLines(cpuinfo, i) ==
  IF i = 0 THEN [n \in Detectors |-> FALSE]
  ELSE ParseLineImp(ParseLines(cpuinfo, i - 1), "vendor", cpuinfo[i]).ok

\* test_cpu: after the last line, !vd.ok() is fatal.
TestCpu(cpuinfo) ==
  LET okf == ParseLines(cpuinfo, Len(cpuinfo))
  IN  [fatal |-> ~Ok(okf, "vendor"), events |-> TrackedEventIds(okf)]

\* test_kernel: the release must give three %i fields and be at least 4.1.
TestKernel(rel) ==
  rel.fields = 3 /\ ~(rel.major < 4 \/ (rel.major = 4 /\ rel.minor < 1))

\* The RemixSystemDetect constructor: test_cpu, then test_kernel; either
\* may call fatal(). _events is what events_count and event_id read.
SystemDetect(cpuinfo, rel) ==
  LET cpu == TestCpu(cpuinfo)
  IN  [fatal |-> cpu.fatal \/ ~TestKernel(rel), events |-> cpu.events]

-----------------------------------------------------------------------------
(* Bounded inputs and the reference                                        *)

IntLine(c, x) == [colon |-> TRUE, cap |-> c, num |-> TRUE, val |-> x]
TextLine(c, x) == [colon |-> TRUE, cap |-> c, num |-> FALSE, val |-> x]

\* One processor's block of /proc/cpuinfo, in the kernel's order (the
\* "model name" caption starts with "model"), and a file of k identical
\* blocks separated by empty lines.
Block(b) ==
  << IntLine("processor", 0), TextLine("vendor_id", b.vendor),
     IntLine("cpu family", b.family), IntLine("model", b.model),
     TextLine("model name", "name"), NoColon >>
CpuInfo(b, k) == [i \in 1..k * Len(Block(b)) |-> Block(b)[((i - 1) % Len(Block(b))) + 1]]

Blocks == [vendor : {"GenuineIntel", "AuthenticAMD"}, family : {6, 15},
           model : {60, 61, 62, 63, 70, 94}]
Releases == [fields : {2, 3}, major : {3, 4, 5}, minor : {0, 1}]

Haswell   == {63}
HaswellU  == {62, 69, 70}
BdwSkl    == {61, 78, 94, 71, 86}

\* The gate the design asks for (spec 5, unsupported platform): an Intel
\* family 6 CPU of a tracked model on a kernel release of at least 4.1.0
\* passes, with the events of its model's generation; anything else is
\* fatal at start-up.
RefDetect(b, rel) ==
  LET supported == b.vendor = "GenuineIntel" /\ b.family = 6
                   /\ b.model \in Haswell \cup HaswellU \cup BdwSkl
                   /\ rel.fields = 3
                   /\ (rel.major > 4 \/ (rel.major = 4 /\ rel.minor >= 1))
  IN  [fatal |-> ~supported,
       events |-> IF ~supported THEN << >>
                  ELSE IF b.model \in BdwSkl THEN <<4307>> ELSE <<1234, 4307>>]

\* Start-up detection agrees with the reference on every bounded input:
\* parse_line_imp's descent through the detector tree, the sticky _ok of
\* each detector over repeated processor blocks, ok()'s recursion and
\* get_tracked_event_ids together accept exactly the supported platforms
\* and yield exactly their events (the events of an unsupported platform
\* are never used: fatal() does not return).
DetectMatchesReference ==
  \A b \in Blocks, k \in 1..2, rel \in Releases :
    LET d == SystemDetect(CpuInfo(b, k), rel)  r == RefDetect(b, rel)
    IN  d.fatal = r.fatal /\ (~d.fatal => d.events = r.events)
==============================================================================
