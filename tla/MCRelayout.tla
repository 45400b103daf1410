----------------------------- MODULE MCRelayout -----------------------------
(***************************************************************************)
(* The relayout of the spec's example klass: A is 32 bytes with a         *)
(* reference at 16 and a hot field at 24, and its plan pads 24 onto its   *)
(* own line (new size 96, edit list <<[24, 64]>>, so 24 -> 88). B (24      *)
(* bytes, a reference at 16) has no plan. a1 -> b1 -> a1 is a cycle, a2   *)
(* and a3 refer to nothing. Space 1 holds a1, b1 and a3 and has no room  *)
(* for a copy of A, space 2 is empty and holds the preserved marks, space *)
(* 3 holds a2 and has room for two copies: moving a1 takes the           *)
(* SpaceFinderClosure fallback past the marks space, and with a1, a2 and  *)
(* a3 all live the third copy finds no space and alloc_and_move exits.    *)
(***************************************************************************)
EXTENDS Relayout

CONSTANTS A, B, a1, a2, a3, b1

MCKlassOf == (a1 :> A) @@ (a2 :> A) @@ (a3 :> A) @@ (b1 :> B)
MCOldSize == (A :> 32) @@ (B :> 24)
MCFields == (A :> {16, 24}) @@ (B :> {16})
MCRefFields == (A :> {16}) @@ (B :> {16})
MCPlan == (A :> [kind |-> "plan", new |-> 96, diffs |-> <<[offset |-> 24, tdiff |-> 64]>>])
       @@ (B :> [kind |-> "none", new |-> 24, diffs |-> << >>])
MCObjsIn == <<<<a1, b1, a3>>, << >>, <<a2>>>>
MCCap == <<12, 8, 28>>
MCRootChoices == {{a1}, {a2}, {a1, a2}, {a1, a2, a3}}
MCRefs0 == (a1 :> (16 :> b1)) @@ (b1 :> (16 :> a1)) @@ (a2 :> (16 :> NullRef))
           @@ (a3 :> (16 :> NullRef))

==============================================================================
