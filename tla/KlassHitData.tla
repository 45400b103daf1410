---------------------------- MODULE KlassHitData ----------------------------
(***************************************************************************)
(* Attribution of hits to fields (HitData.cpp, KlassHitData.hpp,          *)
(* FieldHitData.hpp) as KlassCollector drives it (KlassCollector.hpp):     *)
(*   - KlassHitData(klass): the non-static fields of the klass and all its *)
(*     superclasses, sorted by offset;                                    *)
(*   - update_hit: the binary search over that array, with its clamp and   *)
(*     step-back, charging a hit to a field or to the header;              *)
(*   - gather_fs_data_for_klass_hit / ..._for_instanceklass_hit: the       *)
(*     array and java/lang/ filters, the shared == 0 filter and the lazy   *)
(*     creation of the klass's entry in the KlassHitMap.                   *)
(* A gather locates the instance of each sampled address on a heap of     *)
(* contiguous spaces: gather_fs_data_gen_gc walks to_hit_vector's sorted   *)
(* vector against the instances of each space (ContiguousSpaceHitSearch), *)
(* gather_fs_data_g1 asks block_start for each address.                   *)
(***************************************************************************)
EXTENDS Integers, Sequences, FiniteSets, RemixPolicy
LOCAL INSTANCE SequencesExt
LOCAL INSTANCE FiniteSetsExt

CONSTANTS
  Klasses,       \* klasses of sampled objects
  Object,        \* java.lang.Object
  Super,         \* Super[k]: k->java_super()
  OwnOffsets,    \* OwnOffsets[k]: offsets of the non-static fields k declares
  KlassSize,     \* KlassSize[k]: instance size in bytes
  ArrayKlasses,  \* klasses whose instances are arrays
  LangKlasses,   \* klasses named java/lang/...
  HitSizes,      \* the HitData one sampled address can carry
  HitStep,       \* sampled addresses are multiples of HitStep
  Heap,          \* the spaces: [bottom |-> address, objs |-> klass of each instance]
  MaxSamples,    \* bound on the samples of a behaviour
  MaxGathers     \* bound on the gathers of a behaviour

ASSUME Super \in [Klasses -> Klasses \cup {Object}]
ASSUME \A k \in Klasses : OwnOffsets[k] \subseteq HEADER_SIZE..(KlassSize[k] - 1)

RECURSIVE ChainOffsets(_)
\* The do-while over klass and its supers in the KlassHitData constructor.
ChainOffsets(k) ==
  IF k = Object THEN {} ELSE OwnOffsets[k] \cup ChainOffsets(Super[k])

\* KlassHitData(klass): the field array, sorted by offset (FieldArraySorter).
FieldArray(k) == SetToSortSeq(ChainOffsets(k), <)

HeaderSlot == -1

\* The loop of update_hit: an exact match, or the index the search ended at.
RECURSIVE BSearch(_, _, _, _)
BSearch(offs, o, start, end) ==
  IF start >= end THEN [start |-> start, exact |-> FALSE]
  ELSE LET middle == (start + end) \div 2
           hdoffset == offs[middle + 1]
       IN  IF o = hdoffset THEN [start |-> middle, exact |-> TRUE]
           ELSE IF o > hdoffset THEN BSearch(offs, o, middle + 1, end)
           ELSE BSearch(offs, o, start, middle)

\* The (0-based) slot update_hit charges, HeaderSlot for the header. With
\* no fields the clamp's unsigned count - 1 wraps to UINT_MAX and the slot
\* lies outside the array; here it is the negative slot -2.
UpdateHitSlot(offs, o) ==
  IF o < HEADER_SIZE THEN HeaderSlot
  ELSE LET count == Len(offs)
           r     == BSearch(offs, o, 0, count)
           start == IF r.start >= count THEN count - 1 ELSE r.start
       IN  IF r.exact THEN start
           ELSE IF start = 0 THEN HeaderSlot
           ELSE start - 1

\* Reference: the field whose offset is the greatest one at or below the
\* hit, or the header when the hit is below the header size or every field.
RefSlot(offs, o) ==
  LET below == {i \in DOMAIN offs : offs[i] <= o}
  IN  IF o < HEADER_SIZE \/ below = {} THEN HeaderSlot ELSE Max(below) - 1

\* update_hit charging the header before the total: the early return for
\* header offsets then skips _total_hits.
UpdateHitHeaderFirst(kd, offs, o, h) ==
  LET s == UpdateHitSlot(offs, o)
  IN  IF s = HeaderSlot THEN [kd EXCEPT !.header = MergeHitData(@, h)]
      ELSE [kd EXCEPT !.total = MergeHitData(@, h),
                      !.fields[s + 1] = MergeHitData(@, h)]

\* KlassHitData::update_hit on the klass's record kd.
UpdateHit(kd, offs, o, h) ==
  LET s   == UpdateHitSlot(offs, o)
      kd1 == [kd EXCEPT !.total = MergeHitData(@, h)]
  IN  IF s = HeaderSlot THEN [kd1 EXCEPT !.header = MergeHitData(@, h)]
      ELSE [kd1 EXCEPT !.fields[s + 1] = MergeHitData(@, h)]

\* KlassHitData::create
NewKlassHitData(k) ==
  [fields |-> [i \in DOMAIN FieldArray(k) |-> ZeroHitData],
   header |-> ZeroHitData, total |-> ZeroHitData]

\* Dropping the array and java/lang/ filters.
AttributableAll(k) == TRUE

\* gather_fs_data_for_klass_hit: arrays are skipped (counted nowhere), and
\* so are klasses whose name starts with java/lang/.
Attributable(k) == k \notin ArrayKlasses /\ k \notin LangKlasses

\* gather_fs_data_for_klass_hit(o, offset, hit_count) for an instance of k,
\* on the klass hit map m.
GatherHitTo(m, k, o, h) ==
  IF ~Attributable(k) \/ h.shared = 0 THEN m
  ELSE LET kd == IF k \in DOMAIN m THEN m[k] ELSE NewKlassHitData(k)
       IN  [j \in DOMAIN m \cup {k} |->
              IF j = k THEN UpdateHit(kd, FieldArray(k), o, h) ELSE m[j]]

(***************************************************************************)
(* The heap: Heap[s] is a contiguous space, its instances back to back     *)
(* from its bottom. An object is the pair <<s, j>> of its space and index. *)
(***************************************************************************)
ObjStart(s, j) ==
  Heap[s].bottom + FoldSeq(LAMBDA k, acc : acc + KlassSize[k], 0,
                           SubSeq(Heap[s].objs, 1, j - 1))
SpaceTop(s) == ObjStart(s, Len(Heap[s].objs) + 1)
Objects == UNION {{<<s, j>> : j \in DOMAIN Heap[s].objs} : s \in DOMAIN Heap}
ObjKlass(ob) == Heap[ob[1]].objs[ob[2]]
ObjEnd(ob) == ObjStart(ob[1], ob[2]) + KlassSize[ObjKlass(ob)]

\* heap->block_start(ptr) and block_is_obj: the instance containing a.
Containing(a) == {ob \in Objects : ObjStart(ob[1], ob[2]) <= a /\ a < ObjEnd(ob)}

\* A hit map as its HitPairs in address order.
HitPairs(hm, as) == [i \in 1..Cardinality(as) |->
                       LET a == SetToSortSeq(as, <)[i] IN [addr |-> a, hd |-> hm[a]]]

\* PerfCollector::to_hit_vector: the pairs with shared > FIELD_HIT_THRESHOLD,
\* sorted by address (HitVectorSorter).
KeptAddrs(hm) == {a \in DOMAIN hm : hm[a].shared > FIELD_HIT_THRESHOLD}
ToHitVector(hm) == HitPairs(hm, KeptAddrs(hm))

\* gather_fs_data_g1: every pair of the collector's map hm, unfiltered,
\* resolved by block_start and charged to the instance found.
G1Gather(m, hm) ==
  FoldLeft(LAMBDA acc, p :
             IF Containing(p.addr) = {} THEN acc
             ELSE LET ob == CHOOSE ob \in Containing(p.addr) : TRUE
                  IN  GatherHitTo(acc, ObjKlass(ob), p.addr - ObjStart(ob[1], ob[2]), p.hd),
           m, HitPairs(hm, DOMAIN hm))

\* std::lower_bound over the sorted positions lo..hi-1 of hv.
LowerBound(hv, lo, hi, a) == Min({i \in lo..hi : i = hi \/ hv[i].addr >= a})

\* The loop with its end test as addr > end: a hit at the first byte past
\* the instance is still charged to it.
RECURSIVE HitLoopPastEnd(_, _, _, _, _)
HitLoopPastEnd(m, hv, p, end, ob) ==
  IF hv[p].addr > ObjEnd(ob) THEN [m |-> m, pos |-> p]
  ELSE LET m2 == GatherHitTo(m, ObjKlass(ob), hv[p].addr - ObjStart(ob[1], ob[2]), hv[p].hd)
       IN  IF p + 1 = end THEN [m |-> m2, pos |-> end]
           ELSE HitLoopPastEnd(m2, hv, p + 1, end, ob)

\* The for(;;) of do_object_b: charge to ob every hit from position p on
\* that lies below its end; returns the map and the position reached.
RECURSIVE HitLoop(_, _, _, _, _)
HitLoop(m, hv, p, end, ob) ==
  IF hv[p].addr >= ObjEnd(ob) THEN [m |-> m, pos |-> p]
  ELSE LET m2 == GatherHitTo(m, ObjKlass(ob), hv[p].addr - ObjStart(ob[1], ob[2]), hv[p].hd)
       IN  IF p + 1 = end THEN [m |-> m2, pos |-> end]
           ELSE HitLoop(m2, hv, p + 1, end, ob)

\* ContiguousSpaceHitSearch::do_object_b on the search st = [m, pos, end].
\* Once pos reaches end every later call returns at once, so whether
\* object_iterate stops at a false or goes on makes no difference.
DoObjectB(hv, st, ob) ==
  IF st.pos = st.end THEN st
  ELSE LET p == LowerBound(hv, st.pos, st.end, ObjStart(ob[1], ob[2]))
       IN  IF p = st.end THEN [st EXCEPT !.pos = p]
           ELSE LET r == HitLoop(st.m, hv, p, st.end, ob)
                IN  [st EXCEPT !.m = r.m, !.pos = r.pos]

\* GenHeapHitSearch::do_space: the ContiguousSpaceHitSearch constructor
\* narrows the vector to [bottom, top), then object_iterate.
SearchSpace(m, hv, s) ==
  LET hi  == Len(hv) + 1
      pos == LowerBound(hv, 1, hi, Heap[s].bottom)
      end == IF pos # hi THEN LowerBound(hv, pos, hi, SpaceTop(s)) ELSE hi
  IN  FoldLeftDomain(LAMBDA st, j : DoObjectB(hv, st, <<s, j>>),
                     [m |-> m, pos |-> pos, end |-> end], Heap[s].objs).m

\* gather_fs_data_gen_gc: space_iterate over the spaces in heap order.
GenGather(m, hm) ==
  LET hv == ToHitVector(hm)
  IN  IF Len(hv) = 0 THEN m
      ELSE FoldLeftDomain(LAMBDA acc, s : SearchSpace(acc, hv, s), m, Heap)

VARIABLES
  hm,        \* PerfCollector::_hits: sampled address -> HitData
  khm,       \* KlassCollector::_hits: klass -> [fields, header, total]
  resolved,  \* ghost: gather_fs_data_g1 over the pairs to_hit_vector keeps
  samples, gathers

vars == <<hm, khm, resolved, samples, gathers>>

HitAddrs == UNION {{a \in Heap[s].bottom..SpaceTop(s) : a % HitStep = 0} : s \in DOMAIN Heap}

Init ==
  /\ hm = << >> /\ khm = << >> /\ resolved = << >>
  /\ samples = 0 /\ gathers = 0

\* A sample merged into the collector's map (HitMap::add through a merge).
Sample(a, h) ==
  /\ samples < MaxSamples
  /\ hm' = [x \in DOMAIN hm \cup {a} |->
              IF x = a THEN MergeHitData(IF a \in DOMAIN hm THEN hm[a] ELSE ZeroHitData, h)
              ELSE hm[x]]
  /\ samples' = samples + 1
  /\ UNCHANGED <<khm, resolved, gathers>>

\* begin_vmop_safepoint on a Serial or ParNew heap: KlassCollector::gather
\* (gather_fs_data_gen_gc), then PerfCollector::clear. The map keeps what
\* earlier gathers charged.
Gather ==
  /\ DOMAIN hm # {}
  /\ gathers < MaxGathers
  /\ khm' = GenGather(khm, hm)
  /\ resolved' = G1Gather(resolved, [a \in KeptAddrs(hm) |-> hm[a]])
  /\ hm' = << >>
  /\ gathers' = gathers + 1
  /\ UNCHANGED samples

Next ==
  \/ \E a \in HitAddrs, h \in HitSizes : Sample(a, h)
  \/ Gather

Spec == Init /\ [][Next]_vars

-----------------------------------------------------------------------------
(* Properties                                                              *)

HitRecs == [shared : Nat, single : Nat]

TypeOK ==
  /\ DOMAIN hm \subseteq HitAddrs /\ \A a \in DOMAIN hm : hm[a] \in HitRecs
  /\ samples \in 0..MaxSamples /\ gathers \in 0..MaxGathers
  /\ DOMAIN khm \subseteq Klasses \ (ArrayKlasses \cup LangKlasses)
  /\ \A k \in DOMAIN khm :
       /\ khm[k].header \in HitRecs /\ khm[k].total \in HitRecs
       /\ khm[k].fields \in [DOMAIN FieldArray(k) -> HitRecs]

\* Every hit update_hit counts in a klass's total is charged to exactly one
\* of its fields or to its header (the binary search never loses a hit nor
\* writes outside the field array), and an entry exists only for a klass
\* that took a shared hit (the lazy creation in
\* gather_fs_data_for_instanceklass_hit).
HitConservation ==
  \A k \in DOMAIN khm :
    /\ khm[k].total.shared > 0
    /\ MergeHitData(khm[k].header,
                    FoldSeq(MergeHitData, ZeroHitData, khm[k].fields)) = khm[k].total

\* The generational gather charges every hit of to_hit_vector's vector to
\* the instance block_start finds for its address, and to nothing else:
\* the narrowing of the vector to each space, the lower_bound in
\* do_object_b and its loop up to the instance's end neither lose a hit,
\* nor charge one to a neighbouring instance or to another space's, over
\* any sequence of samples and gathers.
GenSearchMatchesBlockStart == khm = resolved

\* For every klass in the hit map, update_hit would charge a hit at any
\* offset inside an instance to the field with the greatest offset at or
\* below it, or to the header (spec 4.4).
AttributionMatchesSpec ==
  \A k \in DOMAIN khm : \A o \in 0..(KlassSize[k] - 1) :
    UpdateHitSlot(FieldArray(k), o) = RefSlot(FieldArray(k), o)
==============================================================================
