--------------------------- MODULE MCUnsafeUpdate ---------------------------
(***************************************************************************)
(* A (fields at 16 and 24) and B (a field at 16), two static slots per     *)
(* mirror, and edit lists that pad before a field, between the two fields *)
(* or after both: relayouts before and after registrations, twice.        *)
(***************************************************************************)
EXTENDS UnsafeUpdate

CONSTANTS A, B, t1, t2

MCFieldsOf == (A :> {16, 24}) @@ (B :> {16})
MCPlanChoices ==
  (A :> {<<[offset |-> 24, tdiff |-> 64]>>,
         <<[offset |-> 16, tdiff |-> 56], [offset |-> 24, tdiff |-> 112]>>})
  @@ (B :> {<<[offset |-> 24, tdiff |-> 40]>>})
==============================================================================
