-------------------------- MODULE RelayoutAbstract --------------------------
(***************************************************************************)
(* What one relayout promises (spec 4.7): in a single all-or-nothing step  *)
(* every klass with a plan takes its new layout, while the objects the     *)
(* program can reach, and what every field of each of them reads as,      *)
(* stay exactly as they were. A field reads as a data value or as the      *)
(* identity of the object it refers to.                                   *)
(***************************************************************************)
CONSTANTS
  Klasses,       \* klasses of heap instances
  Planned,       \* the klasses the rebuild plan changes
  RootChoices,   \* the sets of objects the roots may refer to
  InitView(_)    \* InitView(R): field -> value of every object reachable from R

VARIABLES
  layout,        \* klass -> "old" | "new"
  roots,         \* the objects the roots refer to
  view           \* live object -> field -> value

vars == <<layout, roots, view>>

Init ==
  /\ layout = [k \in Klasses |-> "old"]
  /\ roots \in RootChoices
  /\ view = InitView(roots)

\* The relayout: every planned klass changes layout, nothing the program
\* reads changes.
Relayout ==
  /\ \E k \in Planned : layout[k] = "old"
  /\ layout' = [k \in Klasses |-> IF k \in Planned THEN "new" ELSE layout[k]]
  /\ UNCHANGED <<roots, view>>

Spec == Init /\ [][Relayout]_vars
==============================================================================
