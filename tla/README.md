# TLA+ models of REMIX

REMIX extends the HotSpot JVM (`src/jvm-remix/openjdk/hotspot/src/share/vm/remix/`).
It finds false sharing between Java objects and repairs it while the program runs:

1. It samples HITM events, which are cache lines taken from another core.
2. It attributes each sample to a field of a class.
3. At a safepoint, it pads the hot fields of the affected classes apart onto separate cache lines.
4. It rewrites every live instance, every class table and every compiled field access to the new layout.

This directory holds TLA+ modules that model that code, the TLC configurations that check them, and `PROJECT.json`. `PROJECT.json` maps every definition to the lines it models and records the runs, the mutants, the findings and the hazards.

## The system's parts

| Part | Source | State | Operations |
|---|---|---|---|
| Perf sampling | `Perf.hpp/.cpp`, `HitmEventProf.hpp` | A ring buffer per event and thread. Per event: `_enabled`, `_disable_count`, `_old_enabled`. | `open`, `enable`/`disable`, `store_disable`/`restore_disable`, `start_iterate`/`next`/`abort_iterate` |
| Per-address hits | `HitMap.hpp`, `HitData.hpp` | Per address: `{shared, single}`. Per cache line: a 64-bit byte mask. | `add`, `merge`, `clear`, `is_shared` |
| Collector | `PerfCollector.hpp` | The global `HitMap` and four counters, under `FalseSharingFinder_lock`. | `merge_live_threads`, `merge_thread_data`, `parallel_merge_thread_data`, `restore_thread_perf`, `to_hit_vector`, `clear` |
| Attribution | `KlassCollector.hpp`, `HitData.cpp`, `KlassHitData.hpp`, `FieldHitData.hpp` | `KlassHitMap`: klass → per-field hits, header hits and total hits. | `gather` (G1 or generational path), `update_hit` |
| Policy | `Policy.hpp` | The thresholds 25/25/5 and the blank limit 3. | Pure predicates |
| Planner | `Rebuilder.hpp` | Per klass: a rebuilder pointer (NULL, one of two epoch markers, or a plan). Per plan: old/new size, the hot offsets, the header flag and the edit list `_pos_diffs`. Also the `_fixed_caches` set. | `init`, `merge_hits`, `flatten`, `fix_field_offset`, `post_relayout`, the subclass and cp-cache search, `drill_down`/`allocate` |
| Relayout | `RelayoutVMOperation.hpp` | Heap spaces, mark words and forwarding pointers. | `mark_objects` (which sets placeholder klasses), `move_objects`, `adjust_pointers`, `epiloge`, `deoptimize` |
| Coordinator | `FalseSharingFinder.cpp/.hpp` | The `FSImp` singleton. | `thread_starting`/`thread_ending`, `begin_vmop_safepoint`/`end_vmop_safepoint`, `repair_fs`, `done_vm` |
| Unsafe registry | `UnsafeUpdate.hpp` | `_fixed` (klasses pinned by a raw offset) and `_map` (static slots that hold offsets). | `register_*`, `update_entry` |
| Start-up detection | `HWDetect.hpp` | A tree of detectors, each with a sticky `_ok`; the event ids it yields. | `parse_line`, `ok`, `get_tracked_event_ids`, `test_cpu`, `test_kernel` |
| Left out | `Timing.hpp`, `HeapDump.hpp`, `Runtime.c` | — | Statistics, debug dumps and JNI glue |

### How the parts interact

At start-up, `RemixSystemDetect` reads `/proc/cpuinfo` and the kernel release. It either stops the VM or fixes the HITM events that every thread's `HitmEventProf` opens one `Perf` for. Threads sample into their own `HitmEventProf`, and their data is merged into the collector under `FalseSharingFinder_lock`. This happens when a thread ends, and at each safepoint in `begin_vmop_safepoint` (`store_disable`, then merge).

When at least 25 hits are unprocessed:
1. `gather` attributes them to klasses.
2. `should_do_relayout` asks the policy whether any klass qualifies.
3. If one does, `do_relayout` builds a `RelayoutVMOperation`.

The operation's constructor runs `RebuilderGenerator::generate`:
1. It swaps the epoch markers.
2. `drill_down` allocates a plan for each hot klass and its superclasses.
3. It flattens the plans and prunes the unused ones.
4. It visits every loaded class. That walk creates plans for the subclasses of changed classes and translates the field offsets cached in constant-pool caches.

`doit` then runs at a safepoint: it moves the instances, runs `post_relayout` (field tables, oop maps, Unsafe offsets), adjusts pointers and deoptimises. The Java call `Runtime.remixRepairFalseSharing` reaches the same `do_relayout` outside a safepoint, through `repair_fs`.

### What is hard, and what has to hold

- **Planning.** Edit lists must be monotone and must fit the new size, because `move_object` copies with unsigned arithmetic. Hot fields must end at least a cache line apart, and a hot header needs a full line after it. The class tables (field offsets, oop maps of every inheriting class, cp-cache `f2` offsets) must agree once the epoch ends; in particular the oop map blocks must cover exactly the reference fields, or the GC misses references. A klass whose raw offset was taken through Unsafe must keep its layout.
- **Epoch protocol.** The two-marker scheme must re-mark every class each epoch. A `drill_down` order that differs between runs must not change correctness.
- **Concurrency.** Thread merges race with the safepoint merge. `repair_fs` patches cp caches while mutators run. The store/restore disable counts must stay balanced.
- **Arithmetic.** The cache-line bitmap's shift width. The off-by-one in `update_hit`'s binary search. `>` versus `>=` between the two attribution paths.

`PROJECT.json` lists these hazards at their lines. It also says which are covered and, for each one not yet covered, why.

## Modules

| Module | Models | Kind |
|---|---|---|
| `RemixPolicy` | `Policy.hpp`, `HitData` merge, `HEADER_SIZE`, cache-line size | operators |
| `HitMap` | `HitMap::add`, `is_shared`, the iterator's `value` | operators |
| `KlassHitData` | the `KlassHitData` constructor, `update_hit`, `gather_fs_data_for_*`, both gather paths (`to_hit_vector` and the space walk; `block_start`) | state machine: samples and gathers on a heap of spaces |
| `PerfCollector` | `Perf`, `HitmEventProf`, `PerfCollector`, the merge half of `FSImp` | state machine: threads, kernel, safepoints |
| `RemixLayout` | `fix_field_offset`, `move_object` | operators |
| `Rebuilder` | the planner and its epochs | state machine |
| `Relayout` | `RelayoutVMOperation` and `do_relayout`'s two paths | state machine, refines `RelayoutAbstract` |
| `RelayoutAbstract` | what one relayout promises (spec 4.7) | abstract specification |
| `UnsafeUpdate` | `UnsafeUpdater` and `update_unsafe_offsets` | state machine |
| `HWDetect` | `RemixSystemDetect` and its detector tree | operators, checked against a reference |

Each `MC*` module fixes the constants of one of them for TLC.

- **`RemixPolicy`**: the constants of `Policy.hpp`, `KlassHitData::HEADER_SIZE` and the cache-line size, `HitData`'s merge, and the policy predicates.
- **`HitMap`**: a map is a bag of sampled addresses (the count `add` accumulates) and, per cache line, the set of mask bits that are 1. `ShiftBits` is `1 << cachebit(addr)` as the x86-64 build computes it: an `int` shift whose count is masked to five bits, and whose bit 31 sign-extends into the `uint64_t` mask.
- **`KlassHitData`**: `FieldArray` is the constructor's sorted field array over the klass chain, `BSearch`/`UpdateHitSlot` the binary search of `update_hit` with its clamp and step-back, and `GatherHitTo` the array/`java/lang/`/`shared == 0` filters with the lazy creation of an entry. `RefSlot` is the reference attribution ("greatest field offset at or below the hit").
  - The heap (`Heap`) is a sequence of contiguous spaces, each holding instances back to back from its bottom. `hm` is the collector's address → `HitData` map, filled by `Sample`.
  - `Gather` is `KlassCollector::gather` on a Serial/ParNew heap, followed by `PerfCollector::clear`. `GenGather` is `gather_fs_data_gen_gc`: `ToHitVector` (`to_hit_vector`'s `shared > FIELD_HIT_THRESHOLD` filter and sort), then per space `SearchSpace` (the `ContiguousSpaceHitSearch` constructor's two `lower_bound`s) and `DoObjectB`/`HitLoop` (`do_object_b`).
  - `G1Gather` is `gather_fs_data_g1`: every pair of the collector's map, unfiltered, resolved by `block_start` (`Containing`). The ghost `resolved` applies it to the pairs `to_hit_vector` keeps (`KeptAddrs`), as the reference for the generational walk. On the whole map it would also charge the pairs the generational path drops (see the hazards).
  - `khm` accumulates across gathers, as in the code, where `KlassCollector::clear` has no caller.
- **`PerfCollector`**: per thread and event, the Perf state (`status`, hardware `hw` enabled, `_enabled`, `_old_enabled`, `_disable_count`, the ring buffer), the lock owner, the iteration in progress (`start_iterate` snapshot, records read, counters), the safepoint (`sp`, threads still to merge) and the collector (the global map and its four counters).
  - Each ring is `RingWords` 8-byte words (`buf`), addressed by the absolute `data_head` (`dhead`) and `data_tail` (`dtail`) modulo its size, as in `Perf::init` and `Perf::next`. The kernel's appends (`Sample`) write a sample record: with `REMIXTiming` a header of size 3 words, a time stamp and the address; without it a header of size 2 and the address. When a record does not fit between head and tail, the sample is dropped (`SampleDropped`), and the next record written is a `PERF_RECORD_LOST` of 3 words. The kernel side is modelled from the perf_event ABI that `Perf.cpp` reads, not from code of this repository.
  - Appends interleave with every step of a merge. A merge is `start_iterate` (`Snap`), one `next`/`next_timed` per record, and the `abort_iterate` that commits the read position. `NextRecord` reads the header at `tail % size` and the address at `DataSlot`: one word on, or, for a timed record, two words on, each step wrapped by `Wrap` (the `base >= _data_end` checks). `SkipRecord` is the `type != PERF_RECORD_SAMPLE` branch, which steps over a LOST record by its `hdr->size`. Records straddle the end of the ring whenever the timed size (3 words) does not divide the ring size.
  - Actions: `ThreadStarting`, `ThreadEndingBegin`/`Finish` (merge under the lock, then close), `BeginSafepoint`, `MergeLiveThread`/`Done`, `EndMerge` (gather and clear at the threshold), `EndSafepoint` (`restore_thread_perf`).
  - The ghosts `produced`, `read`, `discarded` and `gathered` count every sample once.
  - `IsOk` is `HitmEventProf::is_ok`: false only when `REMIXVerbose` (the constant `Verbose`) is set and some Perf lost `_ok` in `open`. `thread_starting` and `thread_ending` do nothing when it is false, so `ThreadEndingSkip` ends such a thread with its rings unread and its Perfs still mapped.
- **`RemixLayout`**: `Fix` is `fix_field_offset` (`upper_bound - 1` on the edit list). `MoveObject`/`CopySegs` is `move_object`'s loop: copy up to the edit, zero the padding, advance past it, then copy the rest and zero up to the new size. An instance is a function from word offsets to contents.
- **`Rebuilder`**: the planner and the epochs that drive it.
  - Variables:
    - `rebuilder` is `Klass::rebuilder()`;
    - `plans` is `KlassRebuilderMap::_map`, a record per plan with `old`, `new`, `hitoffs`, `header`, `direct`, `pinned`, `flattened` and `diffs` (`_pos_diffs`);
    - `blank` is `fs_blank_count`;
    - `hits` is the `KlassHitMap`, abstracted per klass to the hot field offsets, the header-threshold flag and the total-threshold flag;
    - `offset`, `size`, `oopmap[k]` (the klass's `OopMapBlock`s, `[offset, count]`, built at load time by `OopBlocks` in `RemixLayout`) and `cpcache` are the class tables that `post_relayout` and `fix_constant_pool` rewrite;
    - `visited` and `fixed` are the progress of `classes_do` and `_fixed_caches`.
    - `origin` is which call built the operation being planned (a safepoint's `begin_vmop_safepoint`, `repair_fs`, or a `begin_vmop_safepoint` that runs at the safepoint of a queued `repair_fs` operation), `queued` is the set of klasses the waiting `repair_fs` operation owns, and `drilled` says whether `drill_down` has run for the current operation.
  - Actions: `Gather` (`begin_vmop_safepoint` with enough unprocessed hits), `RepairFs`, `DrillDown(k)` (one iteration of `drill_down`), `FlattenAll`, `VisitKlass(k)` (one `do_klass` of the class walk), `Enqueue` (a finished `repair_fs` constructor handing its operation to `VMThread::execute`), `Doit` (`post_relayout` and the destruction of the map), `DoneVm`.
  - `Own` is the set of plans the current operation owns: the queued operation's klasses keep their `KlassRebuilder` pointers while a nested operation is planned, and the nested one's flatten, prune, `post_relayout` and destructor only see its own plans.
  - Two constants choose behaviours of the code that depend on timing or on undefined behaviour:
    - `NestedRelayout`: whether `begin_vmop_safepoint`, running at the safepoint of the queued `repair_fs` operation, may itself gather enough hits to relayout (`FalseSharingFinder.cpp:121`).
    - `EraseSkips`: `drill_down` erases the map entry its iterator points at and then increments the iterator, which is undefined behaviour. With `EraseSkips` the loop may end with entries left in the hit map, which `flatten` then reads. Without it, every hit is consumed, and the `repair_fs` operation never has a plan.
  - `ShouldDoRelayout` is `should_do_relayout`: some klass of the hit map passes `should_relayout`.
  - The recursive code becomes RECURSIVE operators that thread a state record through the call tree: `Allocate`, `MergeHits`, `Flatten` with its padding loop `PadFrom`, and `ProcessKlass`/`Finish`/`FixCp` for `process_klass` and `fix_constant_pool`.
- **`Relayout`**: one `RelayoutVMOperation` on a heap of instances in spaces. A cell is an original instance `o` or its copy `<<o>>`; `mem[c]` maps word offsets to contents (a data value `<<o, offset>>`, a reference, or the zero word). The plan (kind per klass, new size, edit list) is a constant; `Rebuilder` models how it is built.
  - `Construct(m)` is `do_relayout`: the constructor's `generate` patches the cp caches (`cpPatched`). At a safepoint `doit` follows at once; from `repair_fs` the op waits for `Execute` (`VMThread::execute`) while mutators run.
  - `Mark` is `prologue` and `mark_objects` (reachability from the roots); `SkipObject`, `KillObject` and `MoveLive` are the three cases of `do_object`. `MoveLive` copies an instance into the current allocation space when it fits. `Refit` is one turn of `alloc_and_move`'s do-while: when the instance does not fit, `SpaceFinderClosure` (`FindFrom`) picks the next space after the current one that is not the marks space, or none, and then the VM calls `exit(-1)`.
  - `NextSpace` is `RelayoutSpace` moving to the next space, `MoveDone` the `post_relayout` at the end of `move_objects`, `Adjust` is `adjust_pointers` (phase 3 through the rewritten oop maps: `OopOffs` is what the blocks cover once `fix_oop_maps` moved their starts; `TableOff` is the field table of `modify_java_fields`), `epiloge` and `deoptimize`.
  - `Read(c, f)` is a mutator's getfield through the cp cache, enabled only while no safepoint is in progress.
  - `RefinesAbstract` instantiates `RelayoutAbstract` with the mapping: `layout` is new for planned klasses once `post_relayout` ran and the safepoint ended; `roots` are the instances the roots point to (a root that does not point to where its instance lives maps to a stale value); `view` is every field of every live instance read at the offset the class tables give, frozen at its initial value while the safepoint is in progress.
- **`RelayoutAbstract`**: `layout`, `roots`, `view`; a single `Relayout` step switches every planned klass to the new layout and leaves the roots and what every field reads unchanged.
- **`HWDetect`**: the detector tree is data (`Nexts`, `Caption`, `IsInt`, `Accept`, `EventsOf`, from the constructors and the `MODELS_*`/`EVENTS_*` tables), and its behaviour is made of RECURSIVE operators over a function from detector to `_ok`:
  - `ParseLineImp` and `ParseNexts` are `parse_line_imp`: the detector whose caption the line has tests the value, and otherwise the children are asked in order until one says yes.
  - `Ok` is `ok()`, `TrackedEventIds` is `get_tracked_event_ids`, and `ParseLines`/`TestCpu` is `test_cpu`'s `fgets` loop.
  - `TestKernel` is `test_kernel`, and `SystemDetect` is the constructor.
  - A line is abstracted to whether it has a colon, its trimmed caption, and whether `strtol` consumes its whole value (and that number) or what the value's text is.
  - `RefDetect` is the gate the spec describes. `DetectMatchesReference` compares it with `SystemDetect` on every cpuinfo file of one or two identical processor blocks (vendor, family, model, and a `model name` line whose caption begins with `model`) and on twelve kernel releases.
- **`UnsafeUpdate`**: `off` is each klass's field table, `slot` the static slots of its mirror (0 until stored), `entries` the multimap `_map` in insertion order, `fixed` the pinned set. `Register` is `register_unsafe_field_offset` (entry plus `set_entry` when online, `set_entry` only otherwise), `Taken` is `register_unsafe_field_offset_taken`, and `Relayout` is `post_relayout`, for pinned klasses too (nothing on the relayout path reads `_fixed`): the field table moves, and `update_unsafe_offsets` runs `update_entry` on every entry of the klass.

## Runs

| Run | Config | Expect | What it shows |
|---|---|---|---|
| `planner` | `MCRebuilder.cfg` | pass | `CopyFits` (every edit list `move_object` gets is monotone and fits a new size of whole lines), `HotFieldsSeparated` (hot fields at every level of the chain end a line apart, and a full line after a hot header) and `LayoutSound` (between epochs every cp-cache offset equals the field table's, translated once per constant pool through `_fixed_caches`, and fields are disjoint and inside the instance), over three epochs with skipping `drill_down`s and queued `repair_fs` operations. |
| `pinned_moves` | `MCRebuilderPinned.cfg` | violation of `PinnedFieldsKept` | B is pinned, and a padded superclass still moves B's own field (32 → 128). The spec says pinned klasses and their descendants are excluded. In the code, `flatten` never reads `_unsafe_fixed`. |
| `oop_map_block_stale` | `MCRebuilderOopMap.cfg` | violation of `OopMapsCoverRefs` | A is padded (B's field moves 32 → 128); B's oop map block `[16, 3]`, which continues A's references into B's own, keeps its start and count, so the GC scans 16, 24 and the pad word at 32 and never sees `b1` at 128. |
| `hit_attribution` | `MCKlassHitData.cfg` | pass | `HitConservation`: every hit `update_hit` counts in a klass's total is charged to exactly one field or the header, and only klasses with a shared hit get an entry. `GenSearchMatchesBlockStart`: across two gathers, the generational walk of the sorted vector over each space charges exactly what `block_start` resolution of the same vector charges. |
| `update_hit_last_field` | `MCKlassHitDataRef.cfg` | violation of `AttributionMatchesSpec` | A hit past the last field's offset is charged to the field before it (clamp, then step back). |
| `perf_collector` | `MCPerfCollector.cfg` | pass | `SamplesAccounted` (every sample the kernel wrote is in a ring, was read into the map or gathered, or was discarded at close, exactly once; the counters match the map) and `NestingBalanced` (outside the lock and the safepoint every `store_disable` has been undone). Both hold with `REMIXVerbose` on and opens that fail, so the path where `thread_ending` does nothing is explored too. `DetectedPerfs`: start-up detection agrees with the reference gate on every bounded input, and on the Haswell-EP of this run every thread holds one Perf per detected event. |
| `next_before_start` | `MCPerfCollectorFail.cfg` | violation of `NextAfterStart` | With event 0 failed and event 1 open, the merge calls `Perf::next` on event 0. |
| `shared_misclassified` | `MCPerfCollectorShared.cfg` | violation of `SharedMatchesSpec` | A line where only byte 31 was sampled is classified shared. |
| `relayout` | `MCRelayout.cfg` | pass | On both `do_relayout` paths: `GetfieldReadsFieldOutsideRepair` (a getfield before the operation, or after it, reads the field's value), `RefinesAbstract`, and `OperationCompletes` (a constructed operation either finishes or exits; the `alloc_and_move` loop never cycles between spaces). |
| `repair_fs_getfield_race` | `MCRelayoutOnline.cfg` | violation of `GetfieldReadsField` | On the `repair_fs` path a getfield between the constructor and `VMThread::execute` reads offset 88 of a 32-byte instance. |
| `nested_relayout_refixes_cp` | `MCRebuilderNested.cfg` | violation of `LayoutSound` | A `repair_fs` operation for D is queued, and `begin_vmop_safepoint` at its safepoint builds a second operation for A. The class walk of that second operation finds D's rebuilder (a `KlassRebuilder`, not a marker) and translates D's cp-cache entries a second time. D's field `d1` is then at 128 in the field table but at 224 in the cp cache. |
| `unsafe_offsets` | `MCUnsafeUpdate.cfg` | pass | `UnsafeOffsetsTrack`: every registered static slot and every entry's `src_offset` equal the current offset of their field. |

Every property of a passing run has a mutant in `PROJECT.json`: a plausible bug in the code's translation that TLC catches under the run's own config. Examples: `CopySegs` that forgets to skip the padding it zeroed breaks `RefinesAbstract`; a `parse_line_imp` that returns its first child's answer rejects the untested Haswell and Broadwell/Skylake models and breaks `DetectedPerfs`; a constructor without `fix_constant_pool` breaks `GetfieldReadsFieldOutsideRepair`; `abort_iterate` committing the current head breaks `SamplesAccounted`.

### Bounds, and why they are enough

- **`planner`**: four classes (A ← B ← C, A ← D) are the smallest hierarchy with a depth of three, a sibling subclass, and cp entries that cross classes. One klass per gather, with any subset of its fields hot, covers every hot pattern of the chain. Three epochs allow a second relayout of already relaid-out classes and a marker reuse (M0 → M1 → M0). About 890k states in about a minute. The `nested_relayout_refixes_cp` run uses the A ← D part of the hierarchy only (fields `a1` and `d1`), with nested relayouts allowed; the smallest counterexample needs a `repair_fs` plan for D to survive `drill_down`, then a nested gather for A.
- **`hit_attribution`**: a two-level hierarchy, a field-less klass, an array and a `java/lang/` klass, in two spaces (A and B back to back in the first, so a hit at B's first byte is at A's end; the array, the `java/lang/` instance and E in the second). Samples may land at every multiple of 4 up to and including each space's top, so every offset inside every instance is hit, and so is the free area. There are three sample shapes: 6 shared hits (kept), 5 shared hits with 1 private hit (exactly at the policy's threshold, dropped by `to_hit_vector`), and 1 shared hit (kept only when merged with another sample at the same address). Three samples and two gathers. About 290k states in 30 s.
- **`perf_collector`**: two threads, one hidden, with two events each. Each open may succeed, fail to map, or fail. A ring of 8 words with timed records (8 bytes × 8; three 24-byte records do not fit, so a full ring drops a sample and the next write is a LOST record, and the records after it straddle the ring's end), three samples, two safepoints, gather threshold 2. This lets the kernel append during a merge, a ring fill up, a thread end mid-epoch (merged, or skipped by `is_ok`) and both safepoint merges run. About 1.4M states in about 70 s. The violation configurations `Shared` and `Enabled` use untimed records, so both `next` paths are reached. The two events are the ones `SystemDetect` yields for a Haswell-EP (model 63) on a 4.4 kernel. The single-event configurations correspond to a Skylake client (model 94). The detection check covers 24 processor blocks: Intel or AMD; family 6 or 15; models 60 (unsupported), 61 and 94 (Broadwell/Skylake), 62 and 70 (untested Haswell), and 63. Each block appears once or twice, against twelve releases (two or three fields; major 3 to 5; minor 0 or 1). So every branch of the tree and both sides of the 4.1 boundary are reached.
- **`relayout`**: the spec's example klass A (32 → 96 bytes, field 24 → 88, a reference at 16) and a klass B without a plan; three instances with a reference cycle; three spaces where the first has room for one copy, the second holds the marks, and the third has room for one more copy, so moving takes the fallback past the marks space; a fourth instance `a3` in the first space for which no space has room once the others have moved, so the `exit(-1)` path is reached; roots choosing every liveness pattern. About 700 states: the operation is deterministic once the roots and the path are chosen, so all variety comes from those choices and the mutators' reads.
- **`unsafe_offsets`**: two klasses, two slots, edit lists that pad before, between or after the fields; three registrations and two relayouts in any order, with pinning. About 4.6k states.

### Fairness and deadlock

One property is a liveness property: `OperationCompletes` in `Relayout`. Its specification assumes weak fairness of `VMThread`, the disjunction of the steps the VM thread takes once an operation is constructed (`Execute`, `Mark`, the three cases of `do_object`, `Refit`, `NextSpace`, `MoveDone`, `Adjust`). This is justified because `VMThread::execute` blocks the requesting thread until `doit` has run, and `doit` runs to its end without waiting on any mutator. Mutator reads (`Read`) and new constructions get no fairness. The other properties are safety properties, the refinement included (`RelayoutAbstract` has no fairness).

The `Rebuilder`, `PerfCollector` and `UnsafeUpdate` configs turn deadlock checking off: their bounds (epochs, samples, registrations) end the behaviour, and after `done_vm` the VM exits. `MCRelayout.cfg` turns it off too, because the `exit(-1)` of `alloc_and_move` stops the VM.

### Findings

`PROJECT.json` records seven. In short:
1. A pinned klass is relaid out through its superclass (`Rebuilder.hpp:164`).
2. `fix_oop_maps` moves only the start of each oop map block, so a block an edit splits leaves references out of the GC's scan (`Rebuilder.hpp:389`). The spec says the GC reference-offset map is updated with `fix_field_offset`.
3. `update_hit` charges a hit past the last field to the field before it (`HitData.cpp:119`).
4. `HitmEventProf::start_iterate` never points `_iterate_id` at the Perf that started, so a failed first event is iterated (`HitmEventProf.hpp:128`).
5. `1 << cachebit` is an `int` shift, so bytes alias and byte 31 looks shared (`HitMap.hpp:98`).
6. `repair_fs` patches cp caches before the instances move, while mutators run (`FalseSharingFinder.cpp:222`).
7. A relayout nested in the safepoint of a queued `repair_fs` operation translates the queued klasses' cp-cache entries a second time (`FalseSharingFinder.cpp:121`).

Findings 6 and 7 both need a `repair_fs` operation that has a plan. At `REMIX_REPAIR_ONLINE`, a gather that qualifies a klass relayouts at once, and `drill_down` erases every entry it visits. So the `repair_fs` operation has a plan only when `drill_down`'s erase-then-increment skips an entry (the `EraseSkips` choice), or when hits arrive that do not qualify at the safepoint but do at the call.

Four more disagreements are recorded as hazards with a configuration that shows them. None of them is one of the runs, because the project keeps to twelve:
- Hot fields narrower than a word can share a line after padding (`Rebuilder.hpp:224`): the pad is `CACHE_LINE_SIZE - sizeof(HeapWord)` from the previous field's offset, so two hot ints at 16 and 20 end 60 bytes apart. `MCRebuilderInt.cfg` shows it with `HotFieldsSeparated`, which the `planner` run checks on 8-byte fields.
- `restore_disable` does not restore `_enabled` after a balanced pair (`Perf.hpp:63`). `MCPerfCollectorEnabled.cfg` shows it with `EnabledRestored`.
- With `REMIXVerbose` on, a thread with one failed open ends without merging or closing its other Perfs (`FalseSharingFinder.hpp:48`). Their samples are lost and their mappings leak, although spec 4.9 says verbose mode does not alter control flow. `MCPerfCollectorVerbose.cfg` shows it with `EndedThreadsDrained`, which holds with verbose off.
- An entry that the `drill_down` skip leaves in the hit map keeps its pre-relayout field offsets (`KlassCollector.hpp:275`; `KlassCollector::clear` has no caller). `MCRebuilderStale.cfg` shows it with `HitOffsetsCurrent`: C's entry survives, C moves as a subclass of a padded A, and the entry still names C's old offsets, which the next gather merges into and `drill_down` pads. It holds when `EraseSkips` is off.

The hazards list in `PROJECT.json` also describes these, which no run states as a violation:
- `alloc_and_move` exits while an earlier space has room;
- the generational path drops an address with exactly `FIELD_HIT_THRESHOLD` shared hits (`to_hit_vector` keeps `shared > 5`), which the G1 path charges and the policy counts as hot (`>= 5`), so the two collectors can plan differently from the same samples;
- a static slot stored twice is shifted twice by `update_unsafe_offsets`;
- the order of forwarding and placeholder installation in `move_object` and the placeholder on dead instances (`RelayoutVMOperation.hpp:339`, `:99`): `RefinesAbstract` would see them only with a reference after an edit and a read of a dead cell, which the `relayout` instance does not have;
- `Timing::record` updates the process-wide counters without a lock from the `Clock`s of `thread_starting` and `thread_ending` (`Timing.hpp:85`), so on many Java threads the CLOCK statistics lose updates. Only printed statistics read them, and they are not modelled.

The hazard of a timed record straddling the ring's end, and of the LOST record that shifts the alignment of every later record (`Perf.cpp:219`, `Perf.cpp:167`), is covered by `SamplesAccounted` in `perf_collector`.

## Further work

1. A composition module: `Rebuilder`'s plans feeding `Relayout`'s moves, under `PerfCollector`'s safepoints. The modules today share their interfaces (the plan, the safepoint) as constants.
2. A property that no klass is left with the previous marker when `doit` runs (the assert at `RelayoutVMOperation.hpp:93`, which the product build compiles out).

## Not modelled, and why

- `HWDetect.hpp`'s file and `uname` I/O, and `fatal()` as a process exit (it is a result of `SystemDetect`). The runs also leave out `/proc/cpuinfo` lines longer than `fgets`'s 260-byte buffer, and processor blocks that differ from one another.
- `Timing.hpp` and `HeapDump.hpp` are output only. `Timing::record`'s race is listed as a hazard.
- `Perf::next`'s `hdr->size != EXPECTED_SIZE` break: the kernel writes sample records of the size that the sample type set in `Perf::init` implies, so it is unreachable.
- The JNI glue in `Runtime.c` only calls `repair_fs`.
- Reference objects (`ref_marker`) are skipped by `do_object` as in the code; the commented-out `handle_ref_obj` is not modelled.
- `BiasedLocking`, the code cache and deoptimisation change no state a property reads; `mark_sweep_phase3` is modelled by its effect (every reference field found through the oop maps of a live cell is redirected to the forwardee).
- The metaspace map (`REMIXMetaspace`) and `parallel_merge_thread_data` are not modelled yet.
