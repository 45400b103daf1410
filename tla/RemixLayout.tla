---------------------------- MODULE RemixLayout ----------------------------
(***************************************************************************)
(* What a KlassRebuilder's edit list (_pos_diffs) does to an instance      *)
(* (Rebuilder.hpp): fix_field_offset translates an offset of the old       *)
(* layout to the new one, and move_object copies an old instance into its  *)
(* new storage. An edit is [offset, tdiff]: from offset on, the old bytes  *)
(* are shifted by the cumulative padding tdiff. An instance's contents are *)
(* a function from its word offsets to values, 0 for zeroed words.         *)
(***************************************************************************)
EXTENDS Naturals, Sequences, TLC, RemixPolicy
LOCAL INSTANCE FiniteSetsExt

\* fix_field_offset (std::upper_bound - 1 on the edit list): add the
\* cumulative padding of the last edit at or below the offset.
Fix(diffs, o) ==
  LET at == {i \in DOMAIN diffs : diffs[i].offset <= o}
  IN  IF at = {} THEN o ELSE o + diffs[Max(at)].tdiff

\* A nonstatic oop map (OopMapBlock): a set of blocks [offset, count], one
\* per run of reference fields of w bytes laid out back to back at the
\* offsets S, as the class file parser builds it (a subclass extends its
\* super's last block when its first reference follows it).
RECURSIVE RunLen(_, _, _)
RunLen(S, w, o) == IF o \in S THEN 1 + RunLen(S, w, o + w) ELSE 0
OopBlocks(S, w) == {[offset |-> o, count |-> RunLen(S, w, o)] : o \in {x \in S : x - w \notin S}}

\* The offsets the blocks of the oop map m tell the GC to scan.
Scanned(m, w) == UNION {{b.offset + i * w : i \in 0..(b.count - 1)} : b \in m}

\* fix_oop_maps: the start offset of every nonstatic oop map block of the
\* klass (inherited blocks included) is translated by the klass's edits;
\* the block's count is left as it is.
FixOopMap(diffs, m) == {[b EXCEPT !.offset = Fix(diffs, @)] : b \in m}

\* The word offsets of a block of n bytes.
Words(n) == {x \in 0..(n - 1) : x % HeapWordSize = 0}

\* The words dst .. dst + n - 1 of the copy, taken from src .. of c.
CopyWords(c, src, dst, n) == [j \in {dst + x : x \in Words(n)} |-> c[j - dst + src]]

\* A zeroed word (memset 0).
ZeroWord == <<0>>

ZeroWords(dst, n) == [j \in {dst + x : x \in Words(n)} |-> ZeroWord]

RECURSIVE CopySegs(_, _, _, _)

\* move_object's loop forgetting dst += diff after the memset: the gap is
\* zeroed and then overwritten by the next segment.
CopySegsNoSkip(diffs, i, st, c) ==
  IF i > Len(diffs) THEN st
  ELSE LET size == diffs[i].offset - st.offset
           diff == diffs[i].tdiff - st.tdiff
       IN  CopySegs(diffs, i + 1,
                    [src |-> st.src + size, dst |-> st.dst + size,
                     offset |-> diffs[i].offset, tdiff |-> diffs[i].tdiff,
                     out |-> CopyWords(c, st.src, st.dst, size)
                             @@ ZeroWords(st.dst + size, diff) @@ st.out], c)

\* The loop of move_object over the edit list: copy the old bytes up to
\* the edit, then zero the padding it inserts. st = [src, dst, offset,
\* tdiff, out] is the loop's state, out the words written so far.
CopySegs(diffs, i, st, c) ==
  IF i > Len(diffs) THEN st
  ELSE LET size == diffs[i].offset - st.offset
           diff == diffs[i].tdiff - st.tdiff
       IN  CopySegs(diffs, i + 1,
                    [src |-> st.src + size, dst |-> st.dst + size + diff,
                     offset |-> diffs[i].offset, tdiff |-> diffs[i].tdiff,
                     out |-> CopyWords(c, st.src, st.dst, size)
                             @@ ZeroWords(st.dst + size, diff) @@ st.out], c)

\* KlassRebuilder::move_object: the loop, then the rest of the old instance,
\* then zeroes up to the new size.
MoveObject(diffs, old, new, c) ==
  LET st   == CopySegs(diffs, 1, [src |-> 0, dst |-> 0, offset |-> 0, tdiff |-> 0,
                                  out |-> << >>], c)
      rest == IF st.src < old THEN CopyWords(c, st.src, st.dst, old - st.src)
              ELSE << >>
      dst2 == IF st.src < old THEN st.dst + (old - st.src) ELSE st.dst
      tail == IF dst2 < new THEN ZeroWords(dst2, new - dst2) ELSE << >>
  IN  rest @@ tail @@ st.out
==============================================================================
