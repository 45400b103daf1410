------------------------------ MODULE Rebuilder ------------------------------
(***************************************************************************)
(* The relayout planner of REMIX (Rebuilder.hpp) and the epochs that       *)
(* drive it (FalseSharingFinder.cpp):                                      *)
(*   - KlassRebuilder: init, merge_hits, flatten, fix_field_offset,        *)
(*     post_relayout (modify_java_fields, fix_oop_maps);                   *)
(*   - RebuilderMarkers: the two-generation marker scheme;                 *)
(*   - KlassRebuilderMap: add, flatten-and-prune, destruction;             *)
(*   - RebuilderGenerator::generate: swap, drill_down, flatten,            *)
(*     find_subclasses_and_cp (SubklassSearchClosure over all classes,     *)
(*     patching constant-pool-cache field offsets);                        *)
(*   - FSImp::begin_vmop_safepoint / repair_fs, which start an epoch, and  *)
(*     RelayoutVMOperation::doit, whose move_objects ends with             *)
(*     _rebuilders.post_relayout() and whose destructor frees the plans.   *)
(* Instances are not modelled here (module Relayout moves them); a field's *)
(* value is not modelled, only where each table says it lives.             *)
(* Hit statistics are abstracted to what the policy reads of them: the     *)
(* offsets of the fields above FIELD_HIT_THRESHOLD, whether the header     *)
(* hits pass HIT_THRESHOLD, and whether the total hits pass it.            *)
(***************************************************************************)
EXTENDS Naturals, Sequences, FiniteSets, TLC, RemixLayout
LOCAL INSTANCE FiniteSetsExt
LOCAL INSTANCE SequencesExt

CONSTANTS
  Klasses,       \* loaded instance klasses (java.lang.Object excluded)
  Object,        \* java.lang.Object, the root every chain ends at
  NULL,          \* a null KlassRebuilder* parent
  Super,         \* Super[k]: k->java_super()
  Fields,        \* the non-static fields of all Klasses
  Holder,        \* Holder[f]: the klass declaring f
  FieldOffset0,  \* FieldOffset0[f]: offset of f when the klass was loaded
  FieldSize,     \* FieldSize[f]: bytes f occupies
  OopFields,     \* the fields of reference type
  HeapOopSize,   \* heapOopSize: bytes of a reference field
  KlassSize0,    \* KlassSize0[k]: layout_helper of k when loaded (bytes)
  Pinned,        \* klasses in UnsafeUpdater::_fixed (raw offset taken)
  RefKlasses,    \* klasses with oop_is_instanceRef()
  CpFields,      \* CpFields[k]: fields of k's resolved getfield cp-cache entries
  ClassesDo,     \* the order ClassLoaderDataGraph::classes_do walks Klasses
  MaxEpochs,     \* bound on the safepoints / repair calls that start an epoch
  MaxHitKlasses, \* bound on the klasses one gather adds to the hit map
  NestedRelayout, \* whether begin_vmop_safepoint may itself relayout while a
                  \* repair_fs operation waits in VMThread::execute
  EraseSkips      \* whether ++it on the entry drill_down just erased may skip
                  \* later entries (the build's outcome of that undefined use)

ASSUME Object \notin Klasses /\ NULL \notin Klasses
ASSUME Super \in [Klasses -> Klasses \cup {Object}]
ASSUME Holder \in [Fields -> Klasses]
ASSUME OopFields \subseteq Fields /\ \A f \in OopFields : FieldSize[f] = HeapOopSize
ASSUME Pinned \subseteq Klasses /\ RefKlasses \subseteq Klasses
ASSUME \A k \in Klasses : CpFields[k] \in Seq(Fields)
ASSUME ClassesDo \in Seq(Klasses) /\ Len(ClassesDo) = Cardinality(Klasses)
ASSUME MaxEpochs \in Nat /\ MaxHitKlasses \in Nat /\ NestedRelayout \in BOOLEAN /\ EraseSkips \in BOOLEAN

RECURSIVE Ancestors(_)
Ancestors(k) == IF Super[k] = Object THEN {} ELSE {Super[k]} \cup Ancestors(Super[k])

\* The fields an instance of k carries: its own and every ancestor's.
Visible(k) == {f \in Fields : Holder[f] \in {k} \cup Ancestors(k)}

\* KlassRebuilder::is_terminal: the super is java.lang.Object.
IsTerminal(k) == Super[k] = Object

\* The nonstatic oop map of k when it was loaded.
OopMap0(k) == OopBlocks({FieldOffset0[f] : f \in Visible(k) \cap OopFields}, HeapOopSize)

CpIds == UNION {{<<k, i>> : i \in DOMAIN CpFields[k]} : k \in Klasses}

Phases == {"idle", "drill", "search", "queued", "done"}

VARIABLES
  phase,      \* where the coordinator is in an epoch
  epoch,      \* epochs started (bounded by MaxEpochs)
  marker,     \* RebuilderMarkers::_cur_marker_idx
  rebuilder,  \* Klass::rebuilder(): "NULL", a marker "M0"/"M1", or "PLAN"
  plans,      \* KlassRebuilderMap::_map: klass -> KlassRebuilder state
  blank,      \* Klass::get_fs_blank_count()
  hits,       \* KlassCollector::_hits: klass -> abstract KlassHitData
  visited,    \* klasses ClassLoaderDataGraph::classes_do has passed
  fixed,      \* SubklassSearchClosure::_fixed_caches
  offset,     \* field offsets in the klasses' field tables
  size,       \* layout_helper of each klass (instance size in bytes)
  oopmap,     \* oopmap[k]: k's nonstatic OopMapBlocks, [offset, count]
  cpcache,    \* f2 (field offset) of each resolved getfield cp-cache entry
  origin,     \* who built the operation being generated: "safepoint",
              \* "repair" (repair_fs) or "nested" (a safepoint hook while a
              \* repair_fs operation waits)
  queued,     \* the klasses of the _rebuilders of the repair_fs operation
              \* waiting in VMThread::execute
  drilled     \* drill_down has erased an entry in this epoch

vars == <<phase, epoch, marker, rebuilder, plans, blank, hits, visited, fixed,
          offset, size, oopmap, cpcache, origin, queued, drilled>>

\* The klasses of the map of the operation being generated or run: the
\* queued operation's own when it runs, else those it does not own.
Own == IF phase = "queued" THEN queued ELSE DOMAIN plans \ queued

MarkerName(i) == IF i = 0 THEN "M0" ELSE "M1"
CurMarker  == MarkerName(marker)
PrevMarker == MarkerName(1 - marker)

-----------------------------------------------------------------------------
(* KlassRebuilder                                                          *)

\* KlassRebuilder::init up to merge_hits: a klass with its raw offset taken
\* returns early, before merge_hits (and before its placeholder exists).
InitPlan(k, parent, direct) ==
  [parent |-> parent, old |-> size[k], new |-> size[k], hitoffs |-> {},
   header |-> FALSE, direct |-> direct, pinned |-> k \in Pinned,
   flattened |-> FALSE, diffs |-> << >>]

\* Deleting rebuilders without clearing the klasses' rebuilder pointers.
ClearRebuildersKeep(rb, P) == rb

\* ~KlassRebuilder -> revert_klass: the klass's rebuilder pointer is cleared
\* for every rebuilder in P that is deleted.
ClearRebuilders(rb, P) == [k \in Klasses |-> IF k \in P THEN "NULL" ELSE rb[k]]

\* KlassRebuilder::unused
Used(p) == p.old # p.new

\* merge_hits(hit, header_hit): the parent chain first; each rebuilder then
\* takes the hot offsets from where its parent stopped up to its old size.
RECURSIVE MergeHits(_, _, _, _)
MergeHits(pl, k, hot, hdr) ==
  LET p   == pl[k].parent
      pl1 == IF p = NULL THEN pl ELSE MergeHits(pl, p, hot, hdr)
      lo  == IF p = NULL THEN 0 ELSE pl1[p].old
      own == {o \in hot : lo <= o /\ o < pl1[k].old}
  IN  [pl1 EXCEPT ![k].hitoffs = @ \cup own, ![k].header = @ \/ hdr]

PadStep == CACHE_LINE_SIZE - HeapWordSize

\* PadFrom with the pad added to diff but no edit recorded for the hot
\* offset: the padding would only grow the instance at its end.
RECURSIVE PadFromNoEdit(_, _, _, _)
PadFromNoEdit(hs, i, diff, diffs) ==
  IF i >= Len(hs) THEN [diff |-> diff + PadStep, diffs |-> diffs]
  ELSE IF hs[i] + CACHE_LINE_SIZE > hs[i + 1]
       THEN PadFromNoEdit(hs, i + 1, diff + PadStep, diffs)
       ELSE PadFromNoEdit(hs, i + 1, diff, diffs)

\* The loop of flatten over the sorted hit offsets: a pad before each hot
\* offset less than a line after the previous one, and one after the last.
RECURSIVE PadFrom(_, _, _, _)
PadFrom(hs, i, diff, diffs) ==
  IF i >= Len(hs) THEN [diff |-> diff + PadStep, diffs |-> diffs]
  ELSE IF hs[i] + CACHE_LINE_SIZE > hs[i + 1]
       THEN PadFrom(hs, i + 1, diff + PadStep,
                    Append(diffs, [offset |-> hs[i + 1], tdiff |-> diff + PadStep]))
       ELSE PadFrom(hs, i + 1, diff, diffs)

\* The new size with the padding truncated to a line instead of rounded up.
NewSizeTrunc(old, diff) == ((old + diff) \div CACHE_LINE_SIZE) * CACHE_LINE_SIZE

\* _new_size = RoundUp(_old_size + diff, CACHE_LINE_SIZE)
NewSize(old, diff) == RoundUpToLine(old + diff)

\* The parent's edits inherited without the edit for the parent's growth.
ParentDiffsNoBoundary(pp) == pp.diffs

\* A subclass inherits its parent's edits, then one moving everything from
\* the parent's old size on by the parent's growth.
ParentDiffs(pp) == Append(pp.diffs, [offset |-> pp.old, tdiff |-> pp.new - pp.old])

PadHits(hs, diff, diffs) ==
  IF hs = << >> THEN [diff |-> diff, diffs |-> diffs] ELSE PadFrom(hs, 1, diff, diffs)

\* KlassRebuilder::flatten, memoised by _flattened; st = [plans, blank].
RECURSIVE Flatten(_, _)
Flatten(st, k) ==
  IF st.plans[k].flattened THEN st
  ELSE
  LET p0     == st.plans[k].parent
      st1    == IF p0 = NULL THEN st ELSE Flatten(st, p0)
      pOK    == p0 # NULL /\ Used(st1.plans[p0])
      me     == st1.plans[k]
      diff0  == IF pOK THEN st1.plans[p0].new - st1.plans[p0].old ELSE 0
      diffs0 == IF pOK THEN ParentDiffs(st1.plans[p0]) ELSE << >>
      hs     == SetToSortSeq(me.hitoffs, <)
      hdrPad == me.header /\ hs # << >> /\ hs[1] + diff0 < HEADER_SIZE + CACHE_LINE_SIZE
      trueSharing == me.header /\ hs = << >> /\ me.direct /\ me.old >= 2 * CACHE_LINE_SIZE
      diff1  == IF hdrPad THEN CACHE_LINE_SIZE ELSE diff0
      diffs1 == IF hdrPad THEN Append(diffs0, [offset |-> hs[1], tdiff |-> CACHE_LINE_SIZE])
                          ELSE diffs0
      loop   == PadHits(hs, diff1, diffs1)
      force  == me.direct \/ hs # << >>
      newSize == NewSize(me.old, loop.diff)
      isBlank == ~trueSharing /\ ((loop.diff = 0 /\ ~force) \/ newSize = me.old)
      rec    == [me EXCEPT !.flattened = TRUE,
                           !.parent = IF pOK THEN p0 ELSE NULL,
                           !.diffs = IF trueSharing THEN diffs1 ELSE loop.diffs,
                           !.new = IF trueSharing \/ isBlank THEN me.old ELSE newSize]
  IN  [plans |-> [st1.plans EXCEPT ![k] = rec],
       blank |-> IF isBlank THEN [st1.blank EXCEPT ![k] = @ + 1] ELSE st1.blank]


-----------------------------------------------------------------------------
(* RebuilderGenerator::allocate (drill_down), st = [plans, rebuilder]      *)

RECURSIVE Allocate(_, _, _, _)
Allocate(st, k, h, direct) ==
  IF st.rebuilder[k] \in {"NULL", PrevMarker}
  THEN LET st1    == IF IsTerminal(k) THEN st ELSE Allocate(st, Super[k], h, FALSE)
           parent == IF IsTerminal(k) THEN NULL ELSE Super[k]
           pl0    == st1.plans @@ (k :> InitPlan(k, parent, direct))
           pl1    == IF k \in Pinned THEN pl0 ELSE MergeHits(pl0, k, h.hot, h.header)
       IN  [plans |-> pl1, rebuilder |-> [st1.rebuilder EXCEPT ![k] = "PLAN"]]
  ELSE [st EXCEPT !.plans = MergeHits(st.plans, k, h.hot, h.header)]

\* KlassHitData::should_relayout(klass)
ShouldRelayout(k) == under_klass_blank_limit(blank[k]) /\ hits[k].total

-----------------------------------------------------------------------------
(* SubklassSearchClosure, st = [plans, blank, rebuilder, fixed, cpcache,   *)
(* ret]; ret is what process_klass returns: "PLAN" for the klass's own     *)
(* rebuilder, or the current marker. The _ref_marker branch is dead: no    *)
(* code installs RebuilderMarkers::ref_marker() on a klass.                *)

RECURSIVE ProcessKlass(_, _), FixCp(_, _, _, _), Finish(_, _, _)

\* The tail of process_klass without the _fixed_caches test: the constant
\* pool cache is translated each time a search reaches the klass.
FinishRefix(st, k, kb) == [FixCp(st, k, 1, NULL) EXCEPT !.ret = kb]

\* The tail of process_klass: fix k's constant pool cache once.
Finish(st, k, kb) ==
  IF k \in st.fixed THEN [st EXCEPT !.ret = kb]
  ELSE [FixCp([st EXCEPT !.fixed = @ \cup {k}], k, 1, NULL) EXCEPT !.ret = kb]

\* A rebuilder for a subclass of a changed klass: init(k, parent, NULL,
\* false) and flatten().
SubPlan(st, k) ==
  LET pl == st.plans @@ (k :> InitPlan(k, Super[k], FALSE))
  IN  Flatten([plans |-> pl, blank |-> st.blank], k)

ProcessKlass(st, k) ==
  LET kb0 == st.rebuilder[k]
  IN
  IF kb0 \notin {"NULL", PrevMarker} THEN Finish(st, k, kb0)
  ELSE IF IsTerminal(k) THEN Finish([st EXCEPT !.rebuilder[k] = CurMarker], k, CurMarker)
  ELSE LET r == ProcessKlass(st, Super[k])
       IN  IF r.ret # CurMarker
           THEN LET f == SubPlan(r, k)
                IN  Finish([r EXCEPT !.plans = f.plans, !.blank = f.blank,
                                     !.rebuilder[k] = "PLAN"], k, "PLAN")
           ELSE Finish([r EXCEPT !.rebuilder[k] = CurMarker], k, CurMarker)

\* fix_constant_pool: every resolved getfield entry whose field holder has a
\* rebuilder gets its offset translated by that rebuilder.
FixCp(st, k, i, last) ==
  IF i > Len(CpFields[k]) THEN st
  ELSE LET ek   == Holder[CpFields[k][i]]
           go   == ek # last /\ k # ek
           st1  == IF go THEN ProcessKlass(st, ek) ELSE st
           st2  == IF st1.rebuilder[ek] = CurMarker THEN st1
                   ELSE [st1 EXCEPT !.cpcache[<<k, i>>] = Fix(st1.plans[ek].diffs, @)]
       IN  FixCp(st2, k, i + 1, IF go THEN ek ELSE last)

-----------------------------------------------------------------------------
(* Actions                                                                 *)

\* FSImp::should_do_relayout (REMIXLevel >= REMIX_REPAIR_ONLINE): some klass
\* of the hit map passes KlassHitData::should_relayout.
ShouldDoRelayout(h) ==
  \E k \in DOMAIN h : under_klass_blank_limit(blank[k]) /\ h[k].total

HitRec(hot, hdr, tot) == [hot |-> hot, header |-> hdr, total |-> tot]

\* FSImp::begin_vmop_safepoint with at least UNPROCESSED_THRESHOLD hits:
\* KlassCollector::gather adds hits (the map is never cleared here), then
\* should_do_relayout decides; do_relayout constructs the VM operation,
\* whose RebuilderGenerator::generate starts with RebuilderMarkers::swap.
\* The hook runs at the start of every safepoint, that of a repair_fs
\* operation waiting in VMThread::execute included: is_at_safepoint() then
\* holds, and do_relayout builds and runs a second operation at once.
Gather ==
  /\ phase \in {"idle", "queued"}
  /\ epoch < MaxEpochs
  /\ \E S \in SUBSET Klasses :
     /\ Cardinality(S) <= MaxHitKlasses
     /\ \E hotF \in [S -> SUBSET Fields], hdr \in [S -> BOOLEAN], tot \in [S -> BOOLEAN] :
        /\ \A k \in S : hotF[k] \subseteq Visible(k) /\ (hdr[k] => tot[k])
        /\ LET fresh(k) == HitRec({offset[f] : f \in hotF[k]}, hdr[k], tot[k])
               merged(k) == IF k \in DOMAIN hits
                            THEN HitRec(hits[k].hot \cup fresh(k).hot,
                                        hits[k].header \/ hdr[k], hits[k].total \/ tot[k])
                            ELSE fresh(k)
               nh == [k \in DOMAIN hits \cup S |-> IF k \in S THEN merged(k) ELSE hits[k]]
           IN  /\ hits' = nh
               /\ IF ShouldDoRelayout(nh)
                  THEN /\ phase = "queued" => NestedRelayout
                       /\ phase' = "drill" /\ marker' = 1 - marker
                       /\ origin' = IF phase = "queued" THEN "nested" ELSE "safepoint"
                       /\ drilled' = FALSE
                  ELSE UNCHANGED <<phase, marker, origin, drilled>>
  /\ epoch' = epoch + 1
  /\ UNCHANGED <<rebuilder, plans, blank, visited, fixed, offset, size, oopmap, cpcache,
                 queued>>

\* FalseSharingFinder::repair_fs -> FSImp::relayout -> do_relayout, with
\* whatever the hit map holds and no policy check.
RepairFs ==
  /\ phase = "idle"
  /\ epoch < MaxEpochs
  /\ phase' = "drill"
  /\ marker' = 1 - marker
  /\ origin' = "repair"
  /\ drilled' = FALSE
  /\ epoch' = epoch + 1
  /\ UNCHANGED <<rebuilder, plans, blank, hits, visited, fixed, offset, size, oopmap, cpcache,
                 queued>>

\* One iteration of RebuilderGenerator::drill_down (map order is by Klass*
\* address, so any order): allocate a hot klass, then erase its entry.
DrillDown(k) ==
  /\ phase = "drill"
  /\ k \in DOMAIN hits
  /\ IF ShouldRelayout(k) /\ k \notin RefKlasses
     THEN LET st == Allocate([plans |-> plans, rebuilder |-> rebuilder], k, hits[k], TRUE)
          IN  plans' = st.plans /\ rebuilder' = st.rebuilder
     ELSE UNCHANGED <<plans, rebuilder>>
  /\ hits' = [j \in DOMAIN hits \ {k} |-> hits[j]]
  /\ drilled' = TRUE
  /\ UNCHANGED <<phase, epoch, marker, blank, visited, fixed, offset, size, oopmap, cpcache,
                 origin, queued>>

RECURSIVE FlattenEach(_, _)
FlattenEach(st, S) ==
  IF S = {} THEN st
  ELSE LET k == CHOOSE k \in S : TRUE IN FlattenEach(Flatten(st, k), S \ {k})

\* The end of drill_down's loop, when it reached _hits.end(); with
\* EraseSkips also when ++ on an erased node skipped the remaining entries,
\* which then stay in the hit map. Then
\* RebuilderGenerator::flatten -> KlassRebuilderMap::flatten: flatten every
\* rebuilder of the operation's own map, then delete its unused ones
\* (~KlassRebuilder clears the klass's rebuilder pointer).
FlattenAll ==
  /\ phase = "drill"
  /\ DOMAIN hits = {} \/ (EraseSkips /\ drilled)
  /\ LET st   == FlattenEach([plans |-> plans, blank |-> blank], Own)
         keep == {k \in Own : Used(st.plans[k])}
     IN  /\ plans' = [k \in queued \cup keep |-> st.plans[k]]
         /\ blank' = st.blank
         /\ rebuilder' = ClearRebuilders(rebuilder, Own \ keep)
  /\ phase' = "search"
  /\ UNCHANGED <<epoch, marker, hits, visited, fixed, offset, size, oopmap, cpcache,
                 origin, queued, drilled>>

\* SubklassSearchClosure::do_klass for the next klass classes_do reaches.
VisitKlass(k) ==
  /\ phase = "search"
  /\ Cardinality(visited) < Len(ClassesDo)
  /\ k = ClassesDo[Cardinality(visited) + 1]
  /\ LET r == ProcessKlass([plans |-> plans, blank |-> blank, rebuilder |-> rebuilder,
                            fixed |-> fixed, cpcache |-> cpcache, ret |-> "NULL"], k)
     IN  /\ plans' = r.plans
         /\ blank' = r.blank
         /\ rebuilder' = r.rebuilder
         /\ fixed' = r.fixed
         /\ cpcache' = r.cpcache
  /\ visited' = visited \cup {k}
  /\ UNCHANGED <<phase, epoch, marker, hits, offset, size, oopmap, origin, queued,
                 drilled>>

\* The repair_fs path once the constructor has returned: Heap_lock is
\* taken and VMThread::execute(&op) waits for the VM thread.
Enqueue ==
  /\ phase = "search"
  /\ visited = Klasses
  /\ origin = "repair"
  /\ phase' = "queued"
  /\ queued' = DOMAIN plans
  /\ visited' = {}
  /\ fixed' = {}
  /\ UNCHANGED <<epoch, marker, rebuilder, plans, blank, hits, offset, size, oopmap,
                 cpcache, origin, drilled>>

\* RelayoutVMOperation::doit at the safepoint (nothing when the map is
\* empty), of which this module keeps _rebuilders.post_relayout(): the new
\* layout_helper, the klass's own field offsets and its oop maps; then the
\* operation's destructor deletes every rebuilder and clears its klass.
\* The operation built at a safepoint runs at once; the queued one when the
\* VM thread has started its safepoint (and its begin_vmop_safepoint hook,
\* with any operation that hook ran, is done). After a nested operation
\* the queued one still waits. Its map is the operation's own: a klass whose
\* rebuilder belongs to the queued operation is neither updated nor cleared.
Doit ==
  /\ \/ phase = "search" /\ visited = Klasses /\ origin # "repair"
     \/ phase = "queued"
  /\ LET P == Own
     IN  /\ size' = [k \in Klasses |-> IF k \in P THEN plans[k].new ELSE size[k]]
         /\ offset' = [f \in Fields |->
                         IF Holder[f] \in P THEN Fix(plans[Holder[f]].diffs, offset[f])
                                            ELSE offset[f]]
         /\ oopmap' = [k \in Klasses |->
                         IF k \in P THEN FixOopMap(plans[k].diffs, oopmap[k])
                                    ELSE oopmap[k]]
         /\ rebuilder' = ClearRebuilders(rebuilder, P)
  /\ plans' = [k \in DOMAIN plans \ Own |-> plans[k]]
  /\ visited' = {}
  /\ fixed' = {}
  /\ phase' = IF phase = "search" /\ origin = "nested" THEN "queued" ELSE "idle"
  /\ queued' = IF phase = "queued" THEN {} ELSE queued
  /\ UNCHANGED <<epoch, marker, blank, hits, cpcache, origin, drilled>>

\* FSImp::done_vm at VM exit: under REMIX_REPAIR_ONLINE it only prints
\* statistics; no epoch starts after it.
DoneVm ==
  /\ phase = "idle"
  /\ phase' = "done"
  /\ UNCHANGED <<epoch, marker, rebuilder, plans, blank, hits, visited, fixed,
                 offset, size, oopmap, cpcache, origin, queued, drilled>>

Init ==
  /\ phase = "idle"
  /\ epoch = 0
  /\ marker = 0
  /\ rebuilder = [k \in Klasses |-> "NULL"]
  /\ plans = << >>
  /\ blank = [k \in Klasses |-> 0]
  /\ hits = << >>
  /\ visited = {}
  /\ fixed = {}
  /\ offset = FieldOffset0
  /\ size = KlassSize0
  /\ oopmap = [k \in Klasses |-> OopMap0(k)]
  /\ cpcache = [id \in CpIds |-> FieldOffset0[CpFields[id[1]][id[2]]]]
  /\ origin = "safepoint"
  /\ queued = {}
  /\ drilled = FALSE

Next ==
  \/ Gather
  \/ RepairFs
  \/ \E k \in Klasses : DrillDown(k)
  \/ FlattenAll
  \/ \E k \in Klasses : VisitKlass(k)
  \/ Enqueue
  \/ Doit
  \/ DoneVm

Spec == Init /\ [][Next]_vars

-----------------------------------------------------------------------------
(* Properties                                                              *)

TypeOK ==
  /\ phase \in Phases
  /\ epoch \in 0..MaxEpochs
  /\ marker \in {0, 1}
  /\ rebuilder \in [Klasses -> {"NULL", "M0", "M1", "PLAN"}]
  /\ DOMAIN plans \subseteq Klasses
  /\ \A k \in Klasses : rebuilder[k] = "PLAN" <=> k \in DOMAIN plans
  /\ blank \in [Klasses -> Nat]
  /\ DOMAIN hits \subseteq Klasses
  /\ visited \subseteq Klasses /\ fixed \subseteq Klasses
  /\ offset \in [Fields -> Nat] /\ size \in [Klasses -> Nat]
  /\ cpcache \in [CpIds -> Nat]
  /\ origin \in {"safepoint", "repair", "nested"}
  /\ queued \subseteq DOMAIN plans
  /\ drilled \in BOOLEAN

\* Every edit list the planner hands to KlassRebuilder::move_object can be
\* copied: offsets and cumulative shifts never decrease (move_object
\* computes unsigned segment lengths from consecutive edits), and the last
\* segment, shifted by the largest shift, ends inside the new instance size,
\* which is a whole number of cache lines.
CopyFits ==
  phase = "search" =>
    \A k \in DOMAIN plans :
      LET p == plans[k]
          d == p.diffs
      IN  /\ \A i \in 1..(Len(d) - 1) :
                 d[i].offset <= d[i + 1].offset /\ d[i].tdiff <= d[i + 1].tdiff
          /\ \A i \in DOMAIN d : d[i].offset <= p.old
          /\ p.old + (IF d = << >> THEN 0 ELSE d[Len(d)].tdiff) <= p.new
          /\ p.new % CACHE_LINE_SIZE = 0

\* The hot offsets merged into a rebuilder and its ancestors' rebuilders.
ChainHot(k) == UNION {plans[a].hitoffs : a \in ({k} \cup Ancestors(k)) \cap DOMAIN plans}

\* The point of flatten: in every planned layout, the fields that took
\* false-sharing hits (at any level of the class chain) end up at least a
\* cache line apart, and when the header itself is hot the first of them
\* ends a full line after the header.
HotFieldsSeparated ==
  phase = "search" =>
    \A k \in DOMAIN plans :
      LET F(o) == Fix(plans[k].diffs, o)
          H    == ChainHot(k)
      IN  /\ \A o1, o2 \in H : o1 < o2 => F(o2) - F(o1) >= CACHE_LINE_SIZE
          /\ (plans[k].header /\ H # {}) =>
                F(Min(H)) >= HEADER_SIZE + CACHE_LINE_SIZE

\* Between epochs the tables agree on where each field lives: every
\* resolved getfield cp-cache entry (fix_constant_pool, run once per
\* constant pool through _fixed_caches, however many classes' searches
\* reach it) names the field table's offset (modify_java_fields); and
\* the fields of every instance are disjoint and inside its size.
LayoutSound ==
  phase = "idle" =>
    /\ \A id \in CpIds : cpcache[id] = offset[CpFields[id[1]][id[2]]]
    /\ \A k \in Klasses :
         /\ \A f \in Visible(k) :
              /\ HEADER_SIZE <= offset[f]
              /\ offset[f] + FieldSize[f] <= size[k]
         /\ \A f, g \in Visible(k) :
              f # g => offset[f] + FieldSize[f] <= offset[g] \/ offset[g] + FieldSize[g] <= offset[f]

\* Between epochs the GC scans exactly the reference fields of every
\* instance: the words the klass's oop map blocks cover, after
\* fix_oop_maps has moved each block's start, are the field table's
\* offsets of the reference fields the klass declares or inherits. A
\* block that a pad splits covers a pad word and misses the reference
\* moved past it.
OopMapsCoverRefs ==
  phase = "idle" =>
    \A k \in Klasses : Scanned(oopmap[k], HeapOopSize) = {offset[f] : f \in Visible(k) \cap OopFields}

\* A klass in UnsafeUpdater::_fixed had the raw offset of one of its fields
\* taken (register_unsafe_field_offset_taken); KlassRebuilder::init marks
\* its rebuilder _unsafe_fixed so that its fields never move.
PinnedFieldsKept ==
  \A f \in Fields : Holder[f] \in Pinned => offset[f] = FieldOffset0[f]

\* Every hot offset a KlassHitData of the hit map holds is the current
\* offset of a field of its klass: the field array KlassHitData built when
\* the klass was first gathered must not outlive a relayout that moved the
\* klass's fields (drill_down erases every entry it visits; an entry the
\* ++ on an erased node skips survives, KlassCollector::clear is never
\* called, and the next gather adds to it).
HitOffsetsCurrent ==
  \A k \in DOMAIN hits : hits[k].hot \subseteq {offset[f] : f \in Visible(k)}
==============================================================================
