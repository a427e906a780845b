---------------------------- MODULE MCScimInputs ----------------------------
(***************************************************************************)
(* Filters and PATCH requests, one or the other.                           *)
(***************************************************************************)
EXTENDS ScimFilter, ScimPatch, TLC

CONSTANTS m1, m2, m3, x, y

Columns == {<<"active">>, <<"emails", "value">>}
StringColumns == {<<"emails", "value">>}
OneColumn == {<<"active">>}

Init == FilterInit /\ PatchInit
Next ==
  \/ given = <<>> /\ out = given /\ stored["active"] = Absent /\ props = stored /\ change = NoChange
     /\ FilterNext /\ UNCHANGED patchVars
  \/ tokens = <<>> /\ PatchNext /\ UNCHANGED filterVars
Spec == Init /\ [][Next]_<<filterVars, patchVars>>
=============================================================================
