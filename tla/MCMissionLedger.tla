-------------------------- MODULE MCMissionLedger --------------------------
(***************************************************************************)
(* A ledger small enough for TLC: six receipts, among them a rejection of  *)
(* F0 that a later acceptance may replace and one bound to sources that    *)
(* have changed, and enough revisions to walk F0..F5 to completion.        *)
(***************************************************************************)
EXTENDS MissionLedger

CONSTANTS h1, h2

MCShas == {h1, h2}

Now   == [inputs |-> "i1", trace |-> "t1"]
Other == [inputs |-> "i1", trace |-> "t2"]
MCFps == {Now, Other}

Says(g, v, t, f) == [gate |-> g, verdict |-> v, at |-> t, fp |-> f]

MCReceipts ==
  {Says(0, "rejected", 1, Now), Says(0, "accepted", 1, Now),
   Says(0, "accepted", 2, Now), Says(3, "accepted", 1, Now),
   Says(3, "accepted", 1, Other), Says(5, "accepted", 2, Now)}

MCGenesis ==
  [rev |-> 1, sha |-> h1, base |-> NoBase, fp |-> Now, phase |-> 0,
   status |-> "planned", approvals |-> {}]
=============================================================================
