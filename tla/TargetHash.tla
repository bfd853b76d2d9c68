------------------------------ MODULE TargetHash ------------------------------
(***************************************************************************)
(* hashTarget (mission_core.go): the digest of what a mission analyses.  A *)
(* path is a sequence of names below the project root; a tree is a         *)
(* function from the paths of its regular files to their contents.         *)
(***************************************************************************)
EXTENDS SequencesExt

Missions == <<"docs", "analysis", "missions">>

(* mistake (not part of the model): the missions are hashed like the rest  *)
ExcludedButMissions == {<<".git">>, <<".omo">>}

Excluded == {<<".git">>, <<".omo">>, Missions}

(* mistake: a walk that starts in an excluded directory finds nothing      *)
HashedOutside(start, paths) ==
  {p \in paths : IsPrefix(start, p) /\ \A d \in Excluded : ~IsPrefix(d, p)}

(* The walk passes by an excluded directory it meets on its way down, but  *)
(* never asks whether it started in one.                                   *)
Hashed(start, paths) ==
  {p \in paths : /\ IsPrefix(start, p)
                 /\ \A d \in Excluded : IsStrictPrefix(start, d) => ~IsPrefix(d, p)}

(* Equal digests are equal contents at equal paths.                        *)
Digest(start, tree) == [p \in Hashed(start, DOMAIN tree) |-> tree[p]]

(* The path given must be there, a file or a directory, the project itself *)
(* excepted; paths are the files and the empty directories.                *)
Present(start, paths) == start # <<>> /\ \E p \in paths : IsPrefix(start, p)
=============================================================================
