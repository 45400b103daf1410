---------------------------- MODULE PerfCollector ----------------------------
(***************************************************************************)
(* Sampling and aggregation of HITM events (Perf.cpp/.hpp,                 *)
(* HitmEventProf.hpp, PerfCollector.hpp, FalseSharingFinder.cpp/.hpp):     *)
(*   - each thread owns a HitmEventProf: one Perf per hardware event, each *)
(*     with a ring buffer the kernel appends samples to while the counter  *)
(*     is enabled, and the _enabled/_old_enabled/_disable_count protocol;  *)
(*   - thread_starting opens the events; thread_ending merges the thread's *)
(*     samples under FalseSharingFinder_lock and closes them;              *)
(*   - begin_vmop_safepoint store_disables and merges every listed thread  *)
(*     (skipping hidden ones), gathers when enough hits are unprocessed,   *)
(*     and clears the map; end_vmop_safepoint restores every thread.       *)
(* A merge is a sequence of steps (start_iterate, one record per next, the *)
(* abort_iterate that commits the read position) so that the kernel can    *)
(* append samples between them. A ring is RingWords 8-byte words addressed *)
(* by the absolute data_head and data_tail; the kernel writes a sample     *)
(* record (header, time stamp when REMIXTiming, address) or, after it had  *)
(* to drop samples for want of room, a PERF_RECORD_LOST record first, and  *)
(* a record may wrap around the end of the ring. Samples outside the heap *)
(* (Ext) are counted and dropped; the metaspace map (REMIXMetaspace) is    *)
(* left out.                                                               *)
(***************************************************************************)
EXTENDS Naturals, Sequences, FiniteSets, Bags, HitMap
LOCAL INSTANCE SequencesExt
LOCAL INSTANCE BagsExt

CONSTANTS
  Threads,       \* Java threads
  ThreadsOrder,  \* the order of Threads::first() .. next()
  Hidden,        \* threads merge_live_threads skips (hidden, JVMTI agent)
  NumEvents,     \* det.events_count(): Perfs per HitmEventProf
  Outcomes,      \* what Perf::open can end in: "ok", "nomap", "fail"
  Lines,         \* heap cache lines sampled addresses fall in
  Bytes,         \* cachebit values of sampled addresses
  ExtLine,       \* a cache line outside [_heap_start, _heap_end)
  RingWords,     \* 8-byte words of a ring's data area (_buf_size / 8)
  REMIXTiming,   \* samples carry PERF_SAMPLE_TIME, read by next_timed
  MaxSamples,    \* bound on the samples the kernel writes
  MaxSafepoints, \* bound on the VM operations
  Threshold,     \* UNPROCESSED_THRESHOLD, scaled to the bounds
  Verbose        \* REMIXVerbose

ASSUME ThreadsOrder \in Seq(Threads) /\ Range(ThreadsOrder) = Threads
ASSUME Outcomes \subseteq {"ok", "nomap", "fail"}
ASSUME Verbose \in BOOLEAN /\ REMIXTiming \in BOOLEAN
ASSUME \E k \in 1..RingWords : 2^k = RingWords

Events   == 1..NumEvents
HeapAddrs == Lines \X Bytes
Ext      == <<ExtLine, 0>>
Addrs    == HeapAddrs \cup {Ext}
NoIter   == [t |-> "none"]
Slots    == 0..(RingWords - 1)

\* A word of a ring: a record header (k is its type, size its length in
\* words) or a payload word; a is what the word holds when read as
\* dr.data, an address outside the heap unless it is a sampled address.
Junk       == <<ExtLine, 1>>
Word(k, size, a) == [k |-> k, size |-> size, a |-> a]
Zero       == Word("zero", 0, Junk)
AddrWord(a) == Word("addr", 0, a)

\* What perf_event writes for one sample of _attr.sample_type
\* (PERF_SAMPLE_ADDR, with PERF_SAMPLE_TIME when REMIXTiming), and the
\* PERF_RECORD_LOST record (header, id, lost) it writes before the next
\* sample once it had to drop some.
SampleRec(a) ==
  IF REMIXTiming THEN <<Word("sample", 3, Junk), Word("time", 0, Junk), AddrWord(a)>>
  ELSE <<Word("sample", 2, Junk), AddrWord(a)>>
LostRec == <<Word("lost", 3, Junk), Word("id", 0, Junk), Word("count", 0, Junk)>>

\* The ring after the kernel wrote recs at data_head h, wrapping at the end.
Put(b, h, recs) ==
  [i \in Slots |-> LET j == ((i - (h % RingWords) + RingWords) % RingWords) + 1
                   IN  IF j <= Len(recs) THEN recs[j] ELSE b[i]]

\* The sampled addresses of the records between positions p and h of ring
\* b, as the kernel laid them out (the address is a sample's last word).
RECURSIVE SamplesIn(_, _, _)
SamplesIn(b, p, h) ==
  IF p >= h THEN << >>
  ELSE LET w == b[p % RingWords]
       IN  (IF w.k = "sample" THEN <<b[(p + w.size - 1) % RingWords].a>> ELSE << >>)
           \o SamplesIn(b, p + w.size, h)

VARIABLES
  tstate,     \* thread: "listed" (HitmEventProf::init done), "running", "ended"
  status,     \* per Perf: "unopened" (_ok, _fd = -1), "ok", "nomap"
              \* (_ok, mmap failed so _fd = -1), "fail" (!_ok), "closed"
  hw,         \* per Perf: the kernel counter is enabled (PERF_EVENT_IOC_*)
  enabled,    \* per Perf: _enabled
  oldEnabled, \* per Perf: _old_enabled
  dcount,     \* per Perf: _disable_count
  buf,        \* per Perf: the words of the mapped data area
  dhead,      \* per Perf: _mpage->data_head, in words since open
  dtail,      \* per Perf: _mpage->data_tail, in words since open
  lost,       \* per Perf: the kernel dropped samples it has not reported
  owner,      \* holder of FalseSharingFinder_lock: "none", "vm" or a thread
  it,         \* the merge in progress: thread, _iterate_id, per Perf the
              \* start_iterate snapshot of data_head and the read position
              \* _tail, and the local counters of merge_thread_data_imp
  sp,         \* safepoint: "none", "merging" (begin_vmop_safepoint), "held"
  todo,       \* threads merge_live_threads has yet to visit
  spCount,    \* VM operations so far
  hits,       \* PerfCollector::_hits
  unprocessed, totalHits, heapHits,  \* PerfCollector's counters
  produced,   \* bag of every sample the kernel wrote
  read,       \* bag of every sample a merge read
  discarded,  \* bag of the samples unmapped by close
  gathered    \* bag of the hits gather consumed before clear

vars == <<tstate, status, hw, enabled, oldEnabled, dcount, buf, dhead, dtail,
          lost, owner, it,
          sp, todo, spCount, hits, unprocessed, totalHits, heapHits,
          produced, read, discarded, gathered>>

ring     == <<buf, dhead, dtail, lost>>
perfVars == <<status, hw, enabled, oldEnabled, dcount, ring>>
counters == <<hits, unprocessed, totalHits, heapHits>>
ghosts   == <<produced, read, discarded, gathered>>

-----------------------------------------------------------------------------
(* Perf and HitmEventProf                                                  *)

\* Perf::store_disable
StoreDisable(t) ==
  /\ oldEnabled' = [oldEnabled EXCEPT ![t] =
                      [e \in Events |-> IF dcount[t][e] = 0 THEN enabled[t][e] ELSE @[e]]]
  /\ enabled' = [enabled EXCEPT ![t] =
                   [e \in Events |-> IF dcount[t][e] = 0 THEN FALSE ELSE @[e]]]
  /\ dcount' = [dcount EXCEPT ![t] = [e \in Events |-> @[e] + 1]]

\* Perf::restore_disable on the Perfs of a set of threads.
RestoreDisableAll(T) ==
  /\ enabled' = [u \in Threads |-> IF u \notin T THEN enabled[u] ELSE
                   [e \in Events |-> IF dcount[u][e] > 0 THEN enabled[u][e]
                                     ELSE oldEnabled[u][e]]]
  /\ dcount' = [u \in Threads |-> IF u \notin T THEN dcount[u] ELSE
                  [e \in Events |-> IF dcount[u][e] > 0 THEN dcount[u][e] - 1
                                    ELSE 0]]

\* HitmEventProf::is_ok: false only when REMIXVerbose is set and some Perf
\* lost _ok in open (Perf::close leaves _ok as it is).
IsOk(t) == ~Verbose \/ \A e \in Events : status[t][e] # "fail"

\* Perf::start_iterate succeeds: _ok and either _fd < 0 or a mapped ring.
CanStart(t, e) == status[t][e] \in {"unopened", "ok", "nomap"}

\* The first Perf at or after i whose start_iterate returns true, or
\* NumEvents + 1 (the loops of HitmEventProf::start_iterate and next).
RECURSIVE FirstStart(_, _)
FirstStart(t, i) ==
  IF i > NumEvents \/ CanStart(t, i) THEN i ELSE FirstStart(t, i + 1)

\* A successful start_iterate of Perf e: _head = data_head,
\* _tail = data_tail.
Snap(t, e, s) ==
  [s EXCEPT ![e] = [head |-> dhead[t][e], tail |-> dtail[t][e], started |-> TRUE]]

NoSnap == [e \in Events |-> [head |-> 0, tail |-> 0, started |-> FALSE]]

\* HitmEventProf::start_iterate: _iterate_id is set to 0 and stays 0, the
\* loop start_iterates Perfs until one succeeds.
StartIterateId(t) == IF FirstStart(t, 1) <= NumEvents THEN 1 ELSE NumEvents + 1

StartIterate(t) ==
  LET f == FirstStart(t, 1)
  IN  [t |-> t, id |-> StartIterateId(t),
       snap |-> IF f <= NumEvents THEN Snap(t, f, NoSnap) ELSE NoSnap,
       unproc |-> 0, total |-> 0, heap |-> 0]

\* Perf::abort_iterate that re-reads data_head instead of committing the
\* snapshot: the records the kernel wrote since start_iterate are dropped.
CommitTailHead(t, e, s) == dhead[t][e]

\* Perf::abort_iterate: _mpage->data_tail = _head, the records up to the
\* snapshot leave the ring.
CommitTail(t, e, s) == s.head

\* The word after slot i, as next and next_timed step base:
\* if(base >= _data_end) base = _data.
Wrap(i) == IF i >= RingWords THEN 0 ELSE i

\* The slot next (next_timed, past the time stamp) reads dr.data from in
\* the record whose header is at slot h.
DataSlot(h) == IF REMIXTiming THEN Wrap(Wrap(h + 1) + 1) ELSE Wrap(h + 1)

-----------------------------------------------------------------------------
(* Merge steps, taken by the holder of FalseSharingFinder_lock             *)

Iterating == it # NoIter /\ it.id <= NumEvents

\* Dropping the heap bounds test of merge_thread_data_imp.
InHeapAddrAll(a) == TRUE

\* dr.data < _heap_start || dr.data >= _heap_end is false.
InHeapAddr(a) == a[1] \in Lines

\* The header the read position of the merge in progress is at.
HeaderAt(s) == buf[it.t][it.id][s.tail % RingWords]

\* Perf::next (next_timed when REMIXTiming) at a sample record: _tail
\* moves past it by hdr->size and dr.data is read; the loop of
\* merge_thread_data_imp counts it and, when it lies in the heap, adds it
\* to _hits.
NextRecord ==
  LET t == it.t  e == it.id  s == it.snap[e]  w == HeaderAt(s)
      r == buf[t][e][DataSlot(s.tail % RingWords)].a
  IN  /\ Iterating
      /\ status[t][e] = "ok" /\ s.started /\ s.tail # s.head
      /\ w.k = "sample"
      /\ it' = [it EXCEPT !.snap[e].tail = @ + w.size, !.total = @ + 1,
                          !.heap = @ + (IF InHeapAddr(r) THEN 1 ELSE 0),
                          !.unproc = @ + (IF InHeapAddr(r) THEN 1 ELSE 0)]
      /\ hits' = IF InHeapAddr(r) THEN Add(hits, r) ELSE hits
      /\ read' = BagAdd(read, r)
      /\ UNCHANGED <<tstate, perfVars, owner, sp, todo, spCount, unprocessed,
                     totalHits, heapHits, produced, discarded, gathered>>

\* The loop of Perf::next at a record that is not PERF_RECORD_SAMPLE: _tail
\* moves past it by hdr->size and the loop goes on.
SkipRecord ==
  LET s == it.snap[it.id]  w == HeaderAt(s)
  IN  /\ Iterating
      /\ status[it.t][it.id] = "ok" /\ s.started /\ s.tail # s.head
      /\ w.k # "sample"
      /\ it' = [it EXCEPT !.snap[it.id].tail = @ + w.size]
      /\ UNCHANGED <<tstate, perfVars, owner, sp, todo, spCount, counters, ghosts>>

\* Perf::next returning false and HitmEventProf::next moving on: a mapped
\* ring is committed by abort_iterate when the snapshot is used up; a Perf
\* with _ok and _fd < 0 returns false at once. The next Perf whose
\* start_iterate succeeds is snapshotted.
NextPerf ==
  LET t == it.t  e == it.id  s == it.snap[e]  f == FirstStart(t, e + 1)
  IN  /\ Iterating
      /\ \/ status[t][e] = "ok" /\ s.started /\ s.tail = s.head
            /\ dtail' = [dtail EXCEPT ![t][e] = CommitTail(t, e, s)]
         \/ status[t][e] \in {"unopened", "nomap"} /\ UNCHANGED dtail
      /\ LET s1 == [it.snap EXCEPT ![e] = NoSnap[e]]
         IN  it' = [it EXCEPT !.id = f,
                              !.snap = IF f <= NumEvents THEN Snap(t, f, s1) ELSE s1]
      /\ UNCHANGED <<tstate, status, hw, enabled, oldEnabled, dcount, buf, dhead,
                     lost, owner, sp, todo, spCount, counters, ghosts>>

\* merge_thread_data_locked after the loop: the local counters are added.
AddCounters ==
  /\ unprocessed' = unprocessed + it.unproc
  /\ totalHits' = totalHits + it.total
  /\ heapHits' = heapHits + it.heap

-----------------------------------------------------------------------------
(* Threads                                                                 *)

Running(t) == tstate[t] = "running"

\* The kernel takes a sample of thread t for Perf e. Threads do not run
\* during a safepoint; a thread inside its own merge does. The records go
\* in at data_head if they fit between it and data_tail.
KernelRecs(t, e, a) == (IF lost[t][e] THEN LostRec ELSE << >>) \o SampleRec(a)
Fits(t, e, a) == dhead[t][e] + Len(KernelRecs(t, e, a)) - dtail[t][e] <= RingWords
CanSample(t, e) ==
  Running(t) /\ sp = "none" /\ hw[t][e] /\ BagCardinality(produced) < MaxSamples

Sample(t, e, a) ==
  /\ CanSample(t, e) /\ Fits(t, e, a)
  /\ buf' = [buf EXCEPT ![t][e] = Put(@, dhead[t][e], KernelRecs(t, e, a))]
  /\ dhead' = [dhead EXCEPT ![t][e] = @ + Len(KernelRecs(t, e, a))]
  /\ lost' = [lost EXCEPT ![t][e] = FALSE]
  /\ produced' = BagAdd(produced, a)
  /\ UNCHANGED <<tstate, status, hw, enabled, oldEnabled, dcount, dtail, owner,
                 it, sp, todo, spCount, counters, read, discarded, gathered>>

\* The ring is too full: the sample is dropped and counted as lost.
SampleDropped(t, e, a) ==
  /\ CanSample(t, e) /\ ~Fits(t, e, a) /\ ~lost[t][e]
  /\ lost' = [lost EXCEPT ![t][e] = TRUE]
  /\ UNCHANGED <<tstate, status, hw, enabled, oldEnabled, dcount, buf, dhead,
                 dtail, owner, it, sp, todo, spCount, counters, ghosts>>

\* thread_starting: HitmEventProf::open(true). Each Perf::open ends in
\* "ok" (mapped, then enable() sets the counter and _enabled), "nomap"
\* (mmap failed: _fd = -1, returns true, no enable) or "fail" (!_ok).
ThreadStarting(t) ==
  /\ tstate[t] = "listed" /\ sp = "none" /\ IsOk(t)
  /\ \E o \in [Events -> Outcomes] :
       /\ status' = [status EXCEPT ![t] = o]
       /\ hw' = [hw EXCEPT ![t] = [e \in Events |-> o[e] = "ok"]]
       /\ enabled' = [enabled EXCEPT ![t] = [e \in Events |-> o[e] = "ok"]]
  /\ tstate' = [tstate EXCEPT ![t] = "running"]
  /\ UNCHANGED <<oldEnabled, dcount, ring, owner, it, sp, todo, spCount,
                 counters, ghosts>>

\* thread_ending -> PerfCollector::merge_thread_data: lock, store_disable,
\* then merge_thread_data_imp's start_iterate.
ThreadEndingBegin(t) ==
  /\ Running(t) /\ owner = "none" /\ sp = "none" /\ IsOk(t)
  /\ owner' = t
  /\ StoreDisable(t)
  /\ it' = StartIterate(t)
  /\ UNCHANGED <<tstate, status, hw, ring, sp, todo, spCount, counters, ghosts>>

\* The merge ends: counters, restore_disable, unlock, then
\* HitmEventProf::close: each _ok Perf is disabled if _enabled, unmapped
\* and its fd closed, so the unread records are gone.
ThreadEndingFinish(t) ==
  /\ owner = t /\ it # NoIter /\ it.id > NumEvents
  /\ AddCounters
  /\ RestoreDisableAll({t})
  /\ owner' = "none" /\ it' = NoIter
  /\ status' = [status EXCEPT ![t] =
                  [e \in Events |-> IF @[e] = "fail" THEN "fail" ELSE "closed"]]
  /\ hw' = [hw EXCEPT ![t] = [e \in Events |-> FALSE]]
  /\ discarded' = discarded (+) FoldSet(LAMBDA e, b :
                                 b (+) ToBag(SamplesIn(buf[t][e], dtail[t][e], dhead[t][e])),
                                 EmptyBag, Events)
  /\ buf' = [buf EXCEPT ![t] = [e \in Events |-> [i \in Slots |-> Zero]]]
  /\ dhead' = [dhead EXCEPT ![t] = [e \in Events |-> 0]]
  /\ dtail' = [dtail EXCEPT ![t] = [e \in Events |-> 0]]
  /\ lost' = [lost EXCEPT ![t] = [e \in Events |-> FALSE]]
  /\ tstate' = [tstate EXCEPT ![t] = "ended"]
  /\ UNCHANGED <<oldEnabled, sp, todo, spCount, hits, produced, read, gathered>>

\* thread_ending when is_ok() is false: neither merge_thread_data nor close
\* runs. The thread leaves the thread list with its rings unread and its
\* Perfs still mapped.
ThreadEndingSkip(t) ==
  /\ Running(t) /\ sp = "none" /\ ~IsOk(t)
  /\ tstate' = [tstate EXCEPT ![t] = "ended"]
  /\ UNCHANGED <<perfVars, owner, it, sp, todo, spCount, counters, ghosts>>

-----------------------------------------------------------------------------
(* The safepoint                                                           *)

Listed == {t \in Threads : tstate[t] # "ended"}

\* begin_vmop_safepoint: lock, update_heap_bounds, merge_live_threads
\* starts its walk of the thread list.
BeginSafepoint ==
  /\ sp = "none" /\ owner = "none" /\ spCount < MaxSafepoints
  /\ sp' = "merging" /\ owner' = "vm" /\ spCount' = spCount + 1
  /\ todo' = SelectSeq(ThreadsOrder, LAMBDA t : t \in Listed)
  /\ UNCHANGED <<tstate, perfVars, it, counters, ghosts>>

\* merge_live_threads, one thread: store_disable, then, unless the thread
\* is hidden, merge_thread_data_locked starts iterating its Perfs.
MergeLiveThread ==
  LET t == Head(todo)
  IN  /\ sp = "merging" /\ it = NoIter /\ todo # << >>
      /\ StoreDisable(t)
      /\ IF t \in Hidden
         THEN todo' = Tail(todo) /\ UNCHANGED it
         ELSE it' = StartIterate(t) /\ UNCHANGED todo
      /\ UNCHANGED <<tstate, status, hw, ring, owner, sp, spCount, counters,
                     ghosts>>

\* merge_thread_data_locked returns to merge_live_threads.
MergeLiveThreadDone ==
  /\ sp = "merging" /\ it # NoIter /\ it.id > NumEvents
  /\ AddCounters
  /\ it' = NoIter /\ todo' = Tail(todo)
  /\ UNCHANGED <<tstate, perfVars, owner, sp, spCount, hits, ghosts>>

\* The rest of begin_vmop_safepoint: with enough unprocessed hits, gather
\* reads every entry of _hits and PerfCollector::clear empties it; then
\* the lock is released. The relayout it may start is the Rebuilder model.
EndMerge ==
  /\ sp = "merging" /\ it = NoIter /\ todo = << >>
  /\ IF unprocessed >= Threshold
     THEN /\ gathered' = gathered (+) hits.addrs
          /\ hits' = EmptyMap /\ unprocessed' = 0
     ELSE UNCHANGED <<gathered, hits, unprocessed>>
  /\ sp' = "held" /\ owner' = "none"
  /\ UNCHANGED <<tstate, perfVars, it, todo, spCount, totalHits, heapHits,
                 produced, read, discarded>>

\* restore_thread_perf skipping the threads merge_live_threads skips.
EndSafepointSkipHidden ==
  /\ sp = "held"
  /\ RestoreDisableAll(Listed \ Hidden)
  /\ sp' = "none"
  /\ UNCHANGED <<tstate, status, hw, oldEnabled, ring, owner, it, todo,
                 spCount, counters, ghosts>>

\* end_vmop_safepoint: restore_thread_perf restores every listed thread.
EndSafepoint ==
  /\ sp = "held"
  /\ RestoreDisableAll(Listed)
  /\ sp' = "none"
  /\ UNCHANGED <<tstate, status, hw, oldEnabled, ring, owner, it, todo,
                 spCount, counters, ghosts>>

-----------------------------------------------------------------------------

Init ==
  /\ tstate = [t \in Threads |-> "listed"]
  /\ status = [t \in Threads |-> [e \in Events |-> "unopened"]]
  /\ hw = [t \in Threads |-> [e \in Events |-> FALSE]]
  /\ enabled = [t \in Threads |-> [e \in Events |-> FALSE]]
  /\ oldEnabled = [t \in Threads |-> [e \in Events |-> FALSE]]
  /\ dcount = [t \in Threads |-> [e \in Events |-> 0]]
  /\ buf = [t \in Threads |-> [e \in Events |-> [i \in Slots |-> Zero]]]
  /\ dhead = [t \in Threads |-> [e \in Events |-> 0]]
  /\ dtail = [t \in Threads |-> [e \in Events |-> 0]]
  /\ lost = [t \in Threads |-> [e \in Events |-> FALSE]]
  /\ owner = "none" /\ it = NoIter /\ sp = "none" /\ todo = << >>
  /\ spCount = 0
  /\ hits = EmptyMap /\ unprocessed = 0 /\ totalHits = 0 /\ heapHits = 0
  /\ produced = EmptyBag /\ read = EmptyBag
  /\ discarded = EmptyBag /\ gathered = EmptyBag

Next ==
  \/ \E t \in Threads, e \in Events, a \in Addrs :
       Sample(t, e, a) \/ SampleDropped(t, e, a)
  \/ \E t \in Threads : ThreadStarting(t) \/ ThreadEndingBegin(t)
                        \/ ThreadEndingFinish(t) \/ ThreadEndingSkip(t)
  \/ NextRecord \/ SkipRecord \/ NextPerf
  \/ BeginSafepoint \/ MergeLiveThread \/ MergeLiveThreadDone
  \/ EndMerge \/ EndSafepoint

Spec == Init /\ [][Next]_vars

-----------------------------------------------------------------------------
(* Properties                                                              *)

PerfStates == {"unopened", "ok", "nomap", "fail", "closed"}
WordKinds  == {"zero", "sample", "lost", "time", "id", "count", "addr"}

TypeOK ==
  /\ tstate \in [Threads -> {"listed", "running", "ended"}]
  /\ status \in [Threads -> [Events -> PerfStates]]
  /\ hw \in [Threads -> [Events -> BOOLEAN]]
  /\ enabled \in [Threads -> [Events -> BOOLEAN]]
  /\ oldEnabled \in [Threads -> [Events -> BOOLEAN]]
  /\ dcount \in [Threads -> [Events -> Nat]]
  /\ \A t \in Threads, e \in Events :
       /\ buf[t][e] \in [Slots -> [k : WordKinds, size : {0, 2, 3}, a : Addrs \cup {Junk}]]
       /\ dtail[t][e] <= dhead[t][e] /\ dhead[t][e] - dtail[t][e] <= RingWords
  /\ lost \in [Threads -> [Events -> BOOLEAN]]
  /\ owner \in {"none", "vm"} \cup Threads
  /\ sp \in {"none", "merging", "held"}
  /\ DOMAIN hits.addrs \subseteq HeapAddrs /\ DOMAIN hits.clines \subseteq Lines
  /\ IsABag(produced) /\ IsABag(read) /\ IsABag(discarded) /\ IsABag(gathered)

\* The records of a ring the merge in progress has not read yet.
Unread(t, e) ==
  IF it # NoIter /\ it.t = t /\ it.snap[e].started
  THEN SamplesIn(buf[t][e], it.snap[e].tail, dhead[t][e])
  ELSE SamplesIn(buf[t][e], dtail[t][e], dhead[t][e])

\* The samples the kernel wrote into a thread's rings that no merge read.
RingBag(t) == FoldSet(LAMBDA e, b : b (+) ToBag(Unread(t, e)), EmptyBag, Events)

InHeap(B) == [a \in DOMAIN B \cap HeapAddrs |-> B[a]]

\* Every sample the kernel wrote is read by exactly one merge, is still
\* waiting in its ring, or was unmapped when its thread ended: the
\* start_iterate snapshot, the per-record steps of Perf::next and the
\* data_tail that abort_iterate commits neither drop nor redeliver a
\* sample the kernel appends during a merge. Every in-heap sample read is
\* in _hits or was consumed by a gather, and between merges
\* _unprocessed_hits counts exactly the hits in _hits and _total_hits and
\* _heap_hits count what was read.
SamplesAccounted ==
  /\ produced = FoldSet(LAMBDA t, b : b (+) RingBag(t), EmptyBag, Threads)
                (+) read (+) discarded
  /\ InHeap(read) = hits.addrs (+) gathered
  /\ it = NoIter =>
       /\ unprocessed = BagCardinality(hits.addrs)
       /\ totalHits = BagCardinality(read)
       /\ heapHits = BagCardinality(InHeap(read))

\* Once a thread has ended, no sample it produced is left in its rings:
\* thread_ending merges what the kernel wrote and close unmaps the rest
\* (spec 4.9: verbose mode adds tracing without altering control flow).
EndedThreadsDrained ==
  \A t \in Threads : tstate[t] = "ended" =>
    \A e \in Events : dtail[t][e] = dhead[t][e]

\* Outside a safepoint and a thread's own merge, no Perf is left inside a
\* store_disable section: merge_live_threads store_disables every listed
\* thread, hidden ones too, and restore_thread_perf must undo each of
\* them, whichever threads started or ended in between.
NestingBalanced ==
  sp = "none" /\ owner = "none" =>
    \A t \in Listed : \A e \in Events : dcount[t][e] = 0

\* A Perf that is not inside a store_disable section reports through
\* _enabled (is_enabled) what its counter does: a balanced
\* store_disable / restore_disable pair gives back the state it found.
EnabledRestored ==
  \A t \in Threads : \A e \in Events :
    Running(t) /\ status[t][e] = "ok" /\ dcount[t][e] = 0 =>
      enabled[t][e] = hw[t][e]

\* HitmEventProf::next calls Perf::next only on a Perf whose start_iterate
\* returned true (spec 4.1: next is not safe without start_iterate).
NextAfterStart ==
  Iterating => it.snap[it.id].started

\* An address in _hits is classified shared (is_shared) exactly when some
\* other byte of its cache line was sampled too (spec 4.2).
SharedMatchesSpec ==
  \A a \in DOMAIN hits.addrs :
    IsShared(hits, a) <=> \E b \in DOMAIN hits.addrs : b # a /\ b[1] = a[1]
==============================================================================
