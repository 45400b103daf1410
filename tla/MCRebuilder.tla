----------------------------- MODULE MCRebuilder -----------------------------
(***************************************************************************)
(* A small class hierarchy for Rebuilder: A extends java.lang.Object, B    *)
(* and D extend A, C extends B; every field is a reference (8 bytes), so   *)
(* every field is in an oop map. The constant pools hold getfields on own  *)
(* and inherited fields, so fix_constant_pool reaches classes other than   *)
(* the one being searched.                                                 *)
(***************************************************************************)
EXTENDS Rebuilder
MCKlasses == {"A", "B", "C", "D"}
MCSuper == [k \in MCKlasses |-> CASE k = "A" -> Object
                                  [] k = "B" -> "A"
                                  [] k = "C" -> "B"
                                  [] k = "D" -> "A"]
MCFields == {"a1", "a2", "b1", "c1", "d1"}
MCHolder == [f \in MCFields |-> CASE f \in {"a1", "a2"} -> "A"
                                  [] f = "b1" -> "B"
                                  [] f = "c1" -> "C"
                                  [] f = "d1" -> "D"]
MCFieldOffset0 == ("a1" :> 16) @@ ("a2" :> 24) @@ ("b1" :> 32) @@ ("c1" :> 40) @@ ("d1" :> 32)
MCFieldSize == [f \in MCFields |-> HeapWordSize]
MCKlassSize0 == ("A" :> 32) @@ ("B" :> 40) @@ ("C" :> 48) @@ ("D" :> 128)
MCCpFields == ("A" :> <<"a1">>) @@ ("B" :> <<"b1", "a2">>)
              @@ ("C" :> <<"a1", "b1", "c1">>) @@ ("D" :> <<"a2", "d1">>)
\* Loaded in the order A, B, C, D; a loader's class list is prepended to.
MCClassesDo == <<"D", "C", "B", "A">>

\* The same hierarchy with A's fields two 4-byte ints (Java packs them
\* into one word), every later field shifted down by a word.
MCFieldOffsetInt == ("a1" :> 16) @@ ("a2" :> 20) @@ ("b1" :> 24) @@ ("c1" :> 32) @@ ("d1" :> 24)
MCFieldSizeInt == [f \in MCFields |-> IF f \in {"a1", "a2"} THEN 4 ELSE HeapWordSize]
MCOopFieldsInt == MCFields \ {"a1", "a2"}
MCKlassSize0Int == ("A" :> 24) @@ ("B" :> 32) @@ ("C" :> 40) @@ ("D" :> 128)

\* The sub-hierarchy A, D alone, with A's field a2 left out, for the runs
\* whose gathers add hits on two klasses at once.
MCKlassesAD == {"A", "D"}
MCSuperAD == [k \in MCKlassesAD |-> MCSuper[k]]
MCFieldsAD == {"a1", "d1"}
MCHolderAD == [f \in MCFieldsAD |-> MCHolder[f]]
MCFieldOffsetAD == [f \in MCFieldsAD |-> MCFieldOffset0[f]]
MCFieldSizeAD == [f \in MCFieldsAD |-> MCFieldSize[f]]
MCKlassSizeAD == [k \in MCKlassesAD |-> MCKlassSize0[k]]
MCCpFieldsAD == [k \in MCKlassesAD |-> SelectSeq(MCCpFields[k], LAMBDA f : f \in MCFieldsAD)]
MCClassesDoAD == <<"D", "A">>
==============================================================================
