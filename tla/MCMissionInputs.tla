---------------------------- MODULE MCMissionInputs ----------------------------
(***************************************************************************)
(* The instance of MissionInputs that TLC checks: one asset of each sort,  *)
(* and three targets: above the missions directory, that directory, and an *)
(* empty one.                                                              *)
(***************************************************************************)
EXTENDS MissionInputs

ChainValue   == <<"toolchain.lock.json", "progress.schema.json", "progress.jq">>
OverlayValue == {"progress.schema.json", "progress.jq"}
RecipesValue == {"progress.jq"}
TargetsValue == {<<"docs">>, <<"docs", "drafts">>, Missions}
=============================================================================
