------------------------------ MODULE Relayout ------------------------------
(***************************************************************************)
(* RelayoutVMOperation (RelayoutVMOperation.hpp) and the two ways          *)
(* FSImp::do_relayout (FalseSharingFinder.cpp) runs it: built and run at   *)
(* the safepoint of begin_vmop_safepoint, or built by a mutator in         *)
(* repair_fs and handed to the VM thread. The constructor's                *)
(* RebuilderGenerator::generate (modelled in Rebuilder) patches the        *)
(* constant-pool caches of getfield; doit then marks, moves every marked   *)
(* instance of a planned klass into fresh storage (move_object), runs      *)
(* post_relayout on the class tables and adjusts every reference.          *)
(*                                                                         *)
(* A cell is an original instance o or its copy <<o>>. mem[c] maps the    *)
(* word offsets of a cell to its contents: a data value <<o, offset>>, a   *)
(* reference (a cell or NullRef) or ZeroWord. The rebuild plan is a        *)
(* constant: a kind per klass and, for "plan", the new size and the edit   *)
(* list.                                                                   *)
(***************************************************************************)
EXTENDS Naturals, Sequences, FiniteSets, TLC, RemixLayout
LOCAL INSTANCE SequencesExt

CONSTANTS
  Klasses,      \* klasses of heap instances
  Objs,         \* the instances
  KlassOf,      \* KlassOf[o]: o->klass()
  OldSize,      \* OldSize[k]: instance size in bytes
  Fields,       \* Fields[k]: offsets of k's non-static fields (inherited too)
  RefFields,    \* RefFields[k]: the subset of Fields[k] that hold references
  Plan,         \* Plan[k]: [kind, new, diffs]; kind "none" (NULL or current
                \* marker), "ref" (ref_marker) or "plan" (a KlassRebuilder)
  NumSpaces,    \* spaces in the order space_iterate visits them
  ObjsIn,       \* ObjsIn[s]: the instances of space s below its top, in order
  Cap,          \* Cap[s]: words between bottom() and end() of space s
  MarksSpace,   \* the space whose bottom is MarkSweep::getMarksAddr(), 0 if none
  RootChoices,  \* the sets of instances the roots may refer to
  Refs0,        \* Refs0[o][f]: initial contents of reference field f of o
  NullRef,
  Modes         \* "safepoint" (begin_vmop_safepoint), "online" (repair_fs)

Spaces  == 1..NumSpaces
Copies  == {<<o>> : o \in Objs}
Cells   == Objs \cup Copies
NoFwd   == << >>
Stale   == <<"stale">>
Garbage == <<"garbage">>
Planned == {k \in Klasses : Plan[k].kind = "plan"}

SizeWords(k) == OldSize[k] \div HeapWordSize
NewWords(k)  == Plan[k].new \div HeapWordSize

\* The used part of a space before the relayout.
Used0(s) == FoldSeq(LAMBDA o, acc : acc + SizeWords(KlassOf[o]), 0, ObjsIn[s])

Val0(o, f) == IF f \in RefFields[KlassOf[o]] THEN Refs0[o][f] ELSE <<o, f>>

Content0(o) == [w \in Words(OldSize[KlassOf[o]]) |-> Val0(o, w)]

\* mark_objects: everything reachable from the roots is marked.
RECURSIVE Reach(_)
Reach(R) ==
  LET N == R \cup (UNION {{Refs0[o][f] : f \in RefFields[KlassOf[o]]} : o \in R} \ {NullRef})
  IN  IF N = R THEN R ELSE Reach(N)

\* Field -> value of every instance reachable from R before the relayout.
View0(R) == [o \in Reach(R) |-> [f \in Fields[KlassOf[o]] |-> Val0(o, f)]]

VARIABLES
  phase,      \* "run" | "constructed" | "mark" | "move" | "adjust" | "done" | "exit"
  mode,       \* the path do_relayout took
  cpPatched,  \* fix_constant_pool has rewritten the getfield cp-cache offsets
  posted,     \* _rebuilders.post_relayout() has rewritten the class tables
  rootCells,  \* the cells the roots point to
  marked,     \* is_gc_marked()
  cur, pos,   \* RelayoutSpace: the space and the index of the next instance
  alloc,      \* RelayoutObjects::_alloc_space
  top,        \* top() of each space
  hdr,        \* the klass in each cell's header: a klass, "placeholder" or "none"
  fwd,        \* forwardee() of each original
  mem,        \* cell -> word offset -> contents
  lastRead,   \* the last getfield a mutator ran
  failed      \* the word count alloc_and_move failed to place

vars == <<phase, mode, cpPatched, posted, rootCells, marked, cur, pos, alloc,
          top, hdr, fwd, mem, lastRead, failed>>

Obj(c)  == IF c \in Objs THEN c ELSE c[1]
Loc(o)  == IF fwd[o] = NoFwd THEN o ELSE fwd[o]

\* A pointer as the program sees it: the instance, if it points where the
\* instance lives.
Deref(v) == IF v \in Cells THEN (IF v = Loc(Obj(v)) THEN Obj(v) ELSE Stale) ELSE v

Word(c, w) == IF w \in DOMAIN mem[c] THEN mem[c][w] ELSE Garbage

\* The offset of field f in the field table of k (modify_java_fields).
TableOff(k, f) == IF posted /\ k \in Planned THEN Fix(Plan[k].diffs, f) ELSE f

\* The offsets k's oop map tells the GC to scan: its blocks, whose start
\* fix_oop_maps has moved once post_relayout ran.
OopOffs(k) ==
  LET m == OopBlocks(RefFields[k], HeapWordSize)
  IN  Scanned(IF posted /\ k \in Planned THEN FixOopMap(Plan[k].diffs, m) ELSE m, HeapWordSize)

\* The offset a getfield on f takes from its constant-pool cache entry.
CpOff(k, f) == IF cpPatched /\ k \in Planned THEN Fix(Plan[k].diffs, f) ELSE f

LiveCells == {Loc(o) : o \in Reach({Obj(r) : r \in rootCells})}

Init ==
  /\ phase = "run"
  /\ mode = "none"
  /\ cpPatched = FALSE
  /\ posted = FALSE
  /\ rootCells \in RootChoices
  /\ marked = {}
  /\ cur = 1 /\ pos = 1 /\ alloc = 1
  /\ top = [s \in Spaces |-> Used0(s)]
  /\ hdr = [c \in Cells |-> IF c \in Objs THEN KlassOf[c] ELSE "none"]
  /\ fwd = [o \in Objs |-> NoFwd]
  /\ mem = [c \in Cells |-> IF c \in Objs THEN Content0(c) ELSE << >>]
  /\ lastRead = [obj |-> NullRef, field |-> 0, during |-> "run", val |-> NullRef]
  /\ failed = 0

-----------------------------------------------------------------------------
(* Mutators                                                                *)

\* A getfield of field f on a live instance, at its cp-cache offset. Only
\* while no safepoint is in progress.
Read(c, f) ==
  /\ phase \in {"run", "constructed", "done"}
  /\ hdr[c] \in Klasses
  /\ lastRead' = [obj |-> Obj(c), field |-> f, during |-> phase,
                  val |-> Deref(Word(c, CpOff(hdr[c], f)))]
  /\ UNCHANGED <<phase, mode, cpPatched, posted, rootCells, marked, cur, pos,
                 alloc, top, hdr, fwd, mem, failed>>

-----------------------------------------------------------------------------
(* do_relayout and the operation                                           *)

\* The constructor without the class walk's fix_constant_pool.
ConstructNoPatch(m) ==
  /\ phase = "run"
  /\ mode' = m
  /\ phase' = IF m = "safepoint" THEN "mark" ELSE "constructed"
  /\ UNCHANGED <<cpPatched, posted, rootCells, marked, cur, pos, alloc, top,
                 hdr, fwd, mem, lastRead, failed>>

\* do_relayout: RelayoutVMOperation op(hits), whose generate patches the
\* cp caches. At a safepoint op.doit() follows at once; from repair_fs the
\* op is queued with VMThread::execute while the mutators still run.
Construct(m) ==
  /\ phase = "run"
  /\ cpPatched' = TRUE
  /\ mode' = m
  /\ phase' = IF m = "safepoint" THEN "mark" ELSE "constructed"
  /\ UNCHANGED <<posted, rootCells, marked, cur, pos, alloc, top, hdr, fwd,
                 mem, lastRead, failed>>

\* The VM thread reaches a safepoint and starts doit.
Execute ==
  /\ phase = "constructed"
  /\ phase' = "mark"
  /\ UNCHANGED <<mode, cpPatched, posted, rootCells, marked, cur, pos, alloc,
                 top, hdr, fwd, mem, lastRead, failed>>

\* doit: prologue, mark_objects, then move_objects' TopSetterClosure and
\* the RelayoutObjects of the first space.
Mark ==
  /\ phase = "mark"
  /\ marked' = Reach({Obj(r) : r \in rootCells})
  /\ phase' = "move"
  /\ cur' = 1 /\ pos' = 1 /\ alloc' = 1
  /\ UNCHANGED <<mode, cpPatched, posted, rootCells, top, hdr, fwd, mem,
                 lastRead, failed>>

\* A SpaceFinderClosure that takes the first space other than current,
\* before it as well as after it.
RECURSIVE FindFromOther(_, _)
FindFromOther(s, current) ==
  IF s > NumSpaces THEN 0
  ELSE IF s = MarksSpace \/ s = current THEN FindFromOther(s + 1, current)
  ELSE s

\* SpaceFinderClosure over the spaces from s on: the marks space is skipped
\* before it is compared with current, so current is never cleared then.
RECURSIVE FindFrom(_, _)
FindFrom(s, current) ==
  IF s > NumSpaces THEN 0
  ELSE IF s = MarksSpace THEN FindFrom(s + 1, current)
  ELSE IF current = 0 THEN s
  ELSE FindFrom(s + 1, IF s = current THEN 0 ELSE current)

\* allocate without its bound check.
FitsAlways(s, n) == TRUE

\* ContiguousSpace::allocate's bound.
Fits(s, n) == top[s] + n <= Cap[s]

Visiting(o) ==
  /\ phase = "move"
  /\ cur \in Spaces
  /\ pos <= Len(ObjsIn[cur])
  /\ o = ObjsIn[cur][pos]

\* do_object on an instance whose klass has no plan (NULL, the current
\* marker or ref_marker): init_mark only.
SkipObject(o) ==
  /\ Visiting(o)
  /\ Plan[hdr[o]].kind /= "plan"
  /\ pos' = pos + 1
  /\ UNCHANGED <<phase, mode, cpPatched, posted, rootCells, marked, cur, alloc,
                 top, hdr, fwd, mem, lastRead, failed>>

\* do_object on a dead instance of a planned klass: the placeholder klass.
KillObject(o) ==
  /\ Visiting(o)
  /\ Plan[hdr[o]].kind = "plan"
  /\ o \notin marked
  /\ hdr' = [hdr EXCEPT ![o] = "placeholder"]
  /\ pos' = pos + 1
  /\ UNCHANGED <<phase, mode, cpPatched, posted, rootCells, marked, cur, alloc,
                 top, fwd, mem, lastRead, failed>>

\* do_object on a live instance of a planned klass whose new size fits in
\* _alloc_space: alloc_and_move's allocate, move_object, forward_to and the
\* placeholder klass in the old header.
MoveLive(o) ==
  /\ Visiting(o)
  /\ Plan[hdr[o]].kind = "plan"
  /\ o \in marked
  /\ LET k == hdr[o]
         n == NewWords(k)
     IN  /\ Fits(alloc, n)
         /\ top' = [top EXCEPT ![alloc] = @ + n]
         /\ mem' = [mem EXCEPT ![<<o>>] =
                      MoveObject(Plan[k].diffs, OldSize[k], Plan[k].new, mem[o])]
         /\ fwd' = [fwd EXCEPT ![o] = <<o>>]
         /\ hdr' = [hdr EXCEPT ![o] = "placeholder", ![<<o>>] = k]
  /\ pos' = pos + 1
  /\ UNCHANGED <<phase, mode, cpPatched, posted, rootCells, marked, cur, alloc,
                 lastRead, failed>>

\* One turn of alloc_and_move's do-while loop when the new size does not fit
\* in _alloc_space: a SpaceFinderClosure over all spaces; exit(-1) when it
\* finds none, else _alloc_space moves to the space it found.
Refit(o) ==
  /\ Visiting(o)
  /\ Plan[hdr[o]].kind = "plan"
  /\ o \in marked
  /\ LET n    == NewWords(hdr[o])
         next == FindFrom(1, alloc)
     IN  /\ ~Fits(alloc, n)
         /\ IF next = 0
            THEN /\ phase' = "exit" /\ failed' = n
                 /\ UNCHANGED alloc
            ELSE /\ alloc' = next
                 /\ UNCHANGED <<phase, failed>>
  /\ UNCHANGED <<mode, cpPatched, posted, rootCells, marked, cur, pos, top, hdr,
                 fwd, mem, lastRead>>

\* RelayoutSpace: the space is done; the next one gets its own
\* RelayoutObjects, whose _alloc_space starts at that space.
NextSpace ==
  /\ phase = "move"
  /\ cur \in Spaces
  /\ pos > Len(ObjsIn[cur])
  /\ cur' = cur + 1
  /\ pos' = 1
  /\ alloc' = IF cur < NumSpaces THEN cur + 1 ELSE alloc
  /\ UNCHANGED <<phase, mode, cpPatched, posted, rootCells, marked, top, hdr,
                 fwd, mem, lastRead, failed>>

\* The end of move_objects: _rebuilders.post_relayout().
MoveDone ==
  /\ phase = "move"
  /\ cur > NumSpaces
  /\ posted' = TRUE
  /\ phase' = "adjust"
  /\ UNCHANGED <<mode, cpPatched, rootCells, marked, cur, pos, alloc, top, hdr,
                 fwd, mem, lastRead, failed>>

AdjustPtr(p) == IF p \in Objs THEN Loc(p) ELSE p

\* adjust_pointer on every reference field of a cell, found through the
\* (already rewritten) oop maps of its klass.
AdjustRefs(c) ==
  LET offs == OopOffs(hdr[c])
  IN  [w \in DOMAIN mem[c] |-> IF w \in offs THEN AdjustPtr(mem[c][w]) ELSE mem[c][w]]

\* adjust_pointers (mark_sweep_phase3 over the roots and every parsable
\* instance), epiloge and deoptimize; the safepoint ends.
Adjust ==
  /\ phase = "adjust"
  /\ mem' = [c \in Cells |-> IF hdr[c] \in Klasses THEN AdjustRefs(c) ELSE mem[c]]
  /\ rootCells' = {AdjustPtr(r) : r \in rootCells}
  /\ phase' = "done"
  /\ UNCHANGED <<mode, cpPatched, posted, marked, cur, pos, alloc, top, hdr,
                 fwd, lastRead, failed>>

Next ==
  \/ \E c \in LiveCells : \E f \in Fields[KlassOf[Obj(c)]] : Read(c, f)
  \/ \E m \in Modes : Construct(m)
  \/ Execute
  \/ Mark
  \/ \E o \in Objs : SkipObject(o) \/ KillObject(o) \/ MoveLive(o) \/ Refit(o)
  \/ NextSpace
  \/ MoveDone
  \/ Adjust

\* The VM thread's steps. Once a VM operation is queued, the VM thread
\* takes it (VMThread::loop waits on no one but the operation queue) and
\* runs doit to its end with every other thread stopped: it cannot stop
\* for ever while it has a step to take. Mutators and do_relayout's
\* callers get no fairness: a program may never read a field or repair.
VMThread ==
  \/ Execute
  \/ Mark
  \/ \E o \in Objs : SkipObject(o) \/ KillObject(o) \/ MoveLive(o) \/ Refit(o)
  \/ NextSpace
  \/ MoveDone
  \/ Adjust

Spec == Init /\ [][Next]_vars /\ WF_vars(VMThread)
-----------------------------------------------------------------------------
(* Properties                                                              *)

TypeOK ==
  /\ phase \in {"run", "constructed", "mark", "move", "adjust", "done", "exit"}
  /\ cpPatched \in BOOLEAN /\ posted \in BOOLEAN
  /\ rootCells \subseteq Cells /\ marked \subseteq Objs
  /\ cur \in 1..(NumSpaces + 1) /\ alloc \in Spaces
  /\ \A s \in Spaces : top[s] \in Used0(s)..Cap[s]
  /\ hdr \in [Cells -> Klasses \cup {"placeholder", "none"}]
  /\ fwd \in [Objs -> Copies \cup {NoFwd}]

\* What a getfield reads is the value the field held before the relayout:
\* the cp-cache offset fix_constant_pool installs must match the layout of
\* the instance the mutator reads (old before doit, new after it).
GetfieldReadsField ==
  lastRead.obj \in Objs => lastRead.val = Val0(lastRead.obj, lastRead.field)

\* The same for every getfield but those run while a repair_fs operation is
\* built and not yet executed: before it and after doit, on either path,
\* the cp-cache offsets and the instance layouts agree.
GetfieldReadsFieldOutsideRepair ==
  lastRead.obj \in Objs /\ lastRead.during /= "constructed"
    => lastRead.val = Val0(lastRead.obj, lastRead.field)

\* The relayout seen through the class tables: the roots, and every field
\* of every live instance read at the offset the field tables give.
Frozen == phase \in {"mark", "move", "adjust", "exit"}
AbsRoots == IF Frozen THEN {Obj(r) : r \in rootCells} ELSE {Deref(r) : r \in rootCells}
ReadView ==
  [o \in Reach(AbsRoots \cap Objs) |->
     [f \in Fields[KlassOf[o]] |->
        IF hdr[Loc(o)] \in Klasses THEN Deref(Word(Loc(o), TableOff(KlassOf[o], f)))
        ELSE Garbage]]

Abs == INSTANCE RelayoutAbstract
         WITH InitView <- View0,
              layout <- [k \in Klasses |-> IF posted /\ ~Frozen /\ k \in Planned
                                           THEN "new" ELSE "old"],
              roots <- AbsRoots,
              view <- IF Frozen THEN View0(AbsRoots) ELSE ReadView

\* RelayoutVMOperation implements RelayoutAbstract: outside the safepoint
\* every live instance reads (through the class tables) what it read before,
\* every root still reaches it, and the planned klasses switch layout in
\* one step (move_object's copy, forward_to, post_relayout and
\* mark_sweep_phase3 together).
RefinesAbstract == Abs!Spec
\* Every relayout that has started ends: once do_relayout has built the
\* operation (and, from repair_fs, queued it), doit runs through mark,
\* move, post_relayout and adjust, or alloc_and_move exits the VM. Nothing
\* in doit waits, so only a loop can keep it from ending: alloc_and_move's
\* do-while retries SpaceFinderClosure until a space has room, and ends
\* only because each closure moves past the current space.
OperationCompletes ==
  phase \in {"constructed", "mark"} ~> phase \in {"done", "exit"}
==============================================================================
