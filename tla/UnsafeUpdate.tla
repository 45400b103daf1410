---------------------------- MODULE UnsafeUpdate ----------------------------
(***************************************************************************)
(* UnsafeUpdater (UnsafeUpdate.hpp) and the part of post_relayout that     *)
(* keeps it current (KlassRebuilder::update_unsafe_offsets). A static      *)
(* long slot of a klass's mirror that received Unsafe.objectFieldOffset    *)
(* of one of the klass's fields is registered as an entry [tgt, src]; a    *)
(* relayout of the klass adds the padding before src to the slot and to    *)
(* the entry. A klass whose raw offset escaped elsewhere is put in         *)
(* _fixed. Fields are named by their offset before any relayout; off[k][f] *)
(* is the klass's field table (field_offset).                              *)
(***************************************************************************)
EXTENDS Naturals, Sequences, RemixLayout
LOCAL INSTANCE SequencesExt

CONSTANTS
  Klasses,
  FieldsOf,           \* FieldsOf[k]: k's non-static fields
  Slots,              \* static long slots of a mirror
  PlanChoices,        \* PlanChoices[k]: edit lists a relayout of k may apply
  Online,             \* REMIXLevel == REMIX_REPAIR_ONLINE
  SlotsAssignedOnce,  \* the program stores into each slot at most once
  MaxRegs,            \* bound on the registrations of a behaviour
  MaxEpochs           \* bound on the relayouts of a behaviour

VARIABLES
  off,      \* klass -> field -> its offset (InstanceKlass::field_offset)
  slot,     \* klass -> static slot -> the long in the mirror (0 until stored)
  entries,  \* UnsafeUpdater::_map, in insertion order: [k, tgt, src, field]
  fixed,    \* UnsafeUpdater::_fixed
  regs, epochs

vars == <<off, slot, entries, fixed, regs, epochs>>

Init ==
  /\ off = [k \in Klasses |-> [f \in FieldsOf[k] |-> f]]
  /\ slot = [k \in Klasses |-> [t \in Slots |-> 0]]
  /\ entries = << >>
  /\ fixed = {}
  /\ regs = 0 /\ epochs = 0

\* FalseSharingFinder::register_unsafe_field_offset(k, t, f): the program
\* stores the offset of field f into static slot t of k. When online the
\* entry is inserted into the multimap (register_unsafe_field_offset),
\* otherwise only set_entry runs (set_unsafe_field_offset). The field
\* is a ghost the code does not keep.
Register(k, t, f) ==
  /\ regs < MaxRegs
  /\ SlotsAssignedOnce => slot[k][t] = 0
  /\ slot' = [slot EXCEPT ![k][t] = off[k][f]]
  /\ entries' = IF Online
                THEN Append(entries, [k |-> k, tgt |-> t, src |-> off[k][f], field |-> f])
                ELSE entries
  /\ regs' = regs + 1
  /\ UNCHANGED <<off, fixed, epochs>>

\* FalseSharingFinder::register_unsafe_field_offset_taken(k, f): online
\* only, k is pinned.
Taken(k) ==
  /\ Online
  /\ k \notin fixed
  /\ fixed' = fixed \cup {k}
  /\ UNCHANGED <<off, slot, entries, regs, epochs>>

\* The padding taken the wrong way round (*addr -= diff).
ShiftNeg(d, o) == o - Fix(d, o)

\* The padding update_unsafe_offsets adds to an entry: the tdiff of the last
\* edit at or below src (std::upper_bound - 1), none below the first edit.
Shift(d, o) == Fix(d, o) - o

\* update_unsafe_offsets without the entry's own src_offset += diff: every
\* later relayout translates the offset the field had when registered.
UpdateEntrySlotOnly(k, d, e) == e

\* UnsafeUpdater::update_entry on one entry of the relaid-out klass.
UpdateEntry(k, d, e) ==
  IF e.k = k THEN [e EXCEPT !.src = @ + Shift(d, @)] ELSE e

\* *addr += diff for every entry of k with target t, in _map order.
SlotAfter(k, d, t) ==
  slot[k][t] + FoldSeq(LAMBDA e, acc : acc + (IF e.k = k /\ e.tgt = t
                                               THEN Shift(d, e.src) ELSE 0),
                       0, entries)

\* KlassRebuilder::post_relayout of k with edit list d (a non-empty list):
\* modify_java_fields moves the field table, update_unsafe_offsets walks
\* the entries of k, equal_range in the multimap. A klass in _fixed is
\* relaid out too: nothing on the relayout path reads _fixed (a subclass
\* of a padded klass moves whatever its init decided).
Relayout(k, d) ==
  /\ Online
  /\ epochs < MaxEpochs
  /\ off' = [off EXCEPT ![k] = [f \in FieldsOf[k] |-> Fix(d, @[f])]]
  /\ slot' = [slot EXCEPT ![k] = [t \in Slots |-> SlotAfter(k, d, t)]]
  /\ entries' = [i \in DOMAIN entries |-> UpdateEntry(k, d, entries[i])]
  /\ epochs' = epochs + 1
  /\ UNCHANGED <<fixed, regs>>

Next ==
  \/ \E k \in Klasses, t \in Slots : \E f \in FieldsOf[k] : Register(k, t, f)
  \/ \E k \in Klasses : Taken(k)
  \/ \E k \in Klasses : \E d \in PlanChoices[k] : Relayout(k, d)

Spec == Init /\ [][Next]_vars

-----------------------------------------------------------------------------
(* Properties                                                              *)

TypeOK ==
  /\ \A k \in Klasses : off[k] \in [FieldsOf[k] -> Nat] /\ slot[k] \in [Slots -> Nat]
  /\ fixed \subseteq Klasses
  /\ regs \in 0..MaxRegs /\ epochs \in 0..MaxEpochs

\* After any sequence of registrations and relayouts, every static slot
\* holds the current offset of the field last stored into it, and every
\* entry's src_offset the current offset of its field: update_entry's
\* running totals agree with the field table modify_java_fields rewrites
\* (the assert in update_entry, and what Unsafe.getLong(obj, SLOT) in the
\* program relies on).
LastStore(i) ==
  ~\E j \in DOMAIN entries :
     j > i /\ entries[j].k = entries[i].k /\ entries[j].tgt = entries[i].tgt

UnsafeOffsetsTrack ==
  \A i \in DOMAIN entries :
    LET e == entries[i]
    IN  /\ e.src = off[e.k][e.field]
        /\ LastStore(i) => slot[e.k][e.tgt] = off[e.k][e.field]
==============================================================================
