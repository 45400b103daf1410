----------------------------- MODULE RemixPolicy -----------------------------
(***************************************************************************)
(* Layout constants and the relayout policy of REMIX.                      *)
(*   CacheLine.hpp (not in the repository): CACHE_LINE_SIZE = 64.          *)
(*   KlassHitData.hpp: HEADER_SIZE = 2 * sizeof(HeapWord).                 *)
(*   Policy.hpp: the hit thresholds and the three Policy predicates.       *)
(* A HitData (HitData.hpp) is a record [shared, single] of hit counts.     *)
(***************************************************************************)
EXTENDS Naturals

CACHE_LINE_SIZE == 64
HeapWordSize    == 8
HEADER_SIZE     == 2 * HeapWordSize

HIT_THRESHOLD         == 25
UNPROCESSED_THRESHOLD == 25
FIELD_HIT_THRESHOLD   == 5
KLASS_BLANK_LIMIT     == 3

\* HitData::merge: both counters add.
MergeHitData(a, b) == [shared |-> a.shared + b.shared, single |-> a.single + b.single]

ZeroHitData == [shared |-> 0, single |-> 0]

\* HitData(bool shared_, int value): the whole count goes to one side.
MkHitData(isShared, value) ==
    IF isShared THEN [shared |-> value, single |-> 0]
                ELSE [shared |-> 0, single |-> value]

\* Policy::should_handle_hit, should_handle_field_hit, under_klass_blank_limit
should_handle_hit(hd)       == hd.shared >= HIT_THRESHOLD
should_handle_field_hit(hd) == hd.shared >= FIELD_HIT_THRESHOLD
under_klass_blank_limit(c)  == c < KLASS_BLANK_LIMIT

\* (x + CACHE_LINE_SIZE - 1) & ~(CACHE_LINE_SIZE - 1) for x >= 0
RoundUpToLine(x) == ((x + CACHE_LINE_SIZE - 1) \div CACHE_LINE_SIZE) * CACHE_LINE_SIZE
==============================================================================
