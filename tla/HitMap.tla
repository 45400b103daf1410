------------------------------- MODULE HitMap -------------------------------
(***************************************************************************)
(* HitMap (HitMap.hpp): sampled address -> hit count, and cache line ->    *)
(* a 64-bit mask of the bytes of the line that were sampled. A map is a    *)
(* record [addrs, clines]: addrs is a bag of addresses (its multiplicity   *)
(* is the count HitMap::add accumulates), clines[l] the set of mask bits   *)
(* that are 1. An address is <<line, byte>>, the byte cachebit(addr).      *)
(***************************************************************************)
EXTENDS Naturals, FiniteSets, Bags, RemixPolicy

\* 1 << cachebit(addr): the literal 1 is a 32-bit int, so a shift by 32..63
\* is undefined. The x86-64 build shifts with SHL, which masks the count to
\* five bits, and the int result is sign-extended into the uint64_t mask:
\* bit 31 turns on bits 31..63.
ShiftBits(b) == IF b % 32 = 31 THEN 31..63 ELSE {b % 32}

EmptyMap == [addrs |-> EmptyBag, clines |-> [l \in {} |-> {}]]

\* HitMap::add(addr, 1): the count grows by one, the line's mask gains the
\* address's bit.
Add(m, a) ==
  LET l == a[1]
  IN  [addrs  |-> m.addrs (+) SetToBag({a}),
       clines |-> [x \in DOMAIN m.clines \cup {l} |->
                     (IF x \in DOMAIN m.clines THEN m.clines[x] ELSE {})
                     \cup (IF x = l THEN ShiftBits(a[2]) ELSE {})]]

\* HitMap::is_shared: (value & (~value + 1)) != value, i.e. two or more
\* bits of the line's mask are set.
IsShared(m, a) == Cardinality(m.clines[a[1]]) > 1

\* HitMapIterator::value: the HitData gather reads for an address.
Value(m, a) == MkHitData(IsShared(m, a), m.addrs[a])
==============================================================================
