---------------------------- MODULE MCApprovals ----------------------------
(* Three calls for TLC: two edits whose arguments differ only past the part *)
(* the column keeps, and one call that differs at once.                     *)
EXTENDS Approvals

CONSTANTS edit1, edit2, run1
MCPreviewOf == [x \in Calls |-> IF x = edit2 THEN edit1 ELSE x]
=============================================================================
