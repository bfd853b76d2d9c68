---------------------------- MODULE MCStagePublish ----------------------------
(***************************************************************************)
(* The instance of StagePublish that TLC checks; the .cfg gives the values *)
(* of its constants.  Calls, and contents, differ in nothing but their     *)
(* names, and so does what is checked of them: one order is enough.        *)
(***************************************************************************)
EXTENDS StagePublish, TLC

(* A branch with other contents in every file, and one without output/.    *)
Branches == {[l \in Leaves |-> x] : x \in Contents \union {Missing}}

StageSymmetry == Permutations(Stagers) \union Permutations(Contents)
=============================================================================
