--------------------------- MODULE MCKlassHitData ---------------------------
(***************************************************************************)
(* A with two reference fields (16, 24), B extends A with one more (32), E *)
(* with no fields at all (16-byte instances), an array klass and a         *)
(* java/lang/ klass. The young space holds an A and a B back to back, the  *)
(* old space an array, a java/lang/ instance and an E; sampled addresses   *)
(* are every 4 bytes of both spaces up to and including their tops. A     *)
(* sample is 6 shared hits (kept by to_hit_vector), 5 shared hits with a   *)
(* private one (dropped at the threshold), or 1 shared hit, which with a  *)
(* second sample at the same address reaches 6.                           *)
(***************************************************************************)
EXTENDS KlassHitData, TLC

MCKlasses == {"A", "B", "E", "Arr", "Lang"}
MCSuper == ("A" :> Object) @@ ("B" :> "A") @@ ("E" :> Object) @@ ("Arr" :> Object) @@ ("Lang" :> Object)
MCOwnOffsets == ("A" :> {16, 24}) @@ ("B" :> {32}) @@ ("E" :> {}) @@ ("Arr" :> {}) @@ ("Lang" :> {16})
MCKlassSize == ("A" :> 32) @@ ("B" :> 40) @@ ("E" :> 16) @@ ("Arr" :> 24) @@ ("Lang" :> 24)
MCHitSizes == {MkHitData(TRUE, 6), [shared |-> 5, single |-> 1], MkHitData(TRUE, 1)}
MCHeap == << [bottom |-> 0, objs |-> <<"A", "B">>],
             [bottom |-> 128, objs |-> <<"Arr", "Lang", "E">>] >>
==============================================================================
