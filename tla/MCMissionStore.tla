--------------------------- MODULE MCMissionStore ---------------------------
(***************************************************************************)
(* Small instances of MissionStore.                                        *)
(***************************************************************************)
EXTENDS MissionStore, TLC

WriterSymmetry == Permutations(Writers)

Now   == [inputs |-> "i1", trace |-> "t1"]
Later == [inputs |-> "i2", trace |-> "t1"]

Says(g, v, t, f) == [gate |-> g, verdict |-> v, at |-> t, fp |-> f]

Accepts0 == Says(0, "accepted", 2, Now)
Other0   == Says(0, "accepted", 2, Later)

Drafted(p, s, as) == [phase |-> p, status |-> s, approvals |-> as]

(* Begin F0, and enter F1 with the approval of F0; or also without it, or  *)
(* with an approval that was given for other sources.                      *)
ShortDrafts ==
  {Drafted(0, "running", {}), Drafted(1, "running", {Accepts0})}

GateDrafts ==
  {Drafted(0, "awaiting_human_approval", {}), Drafted(1, "running", {}),
   Drafted(1, "running", {Accepts0}), Drafted(1, "running", {Other0})}

ShortReceipts == {Accepts0}
GateReceipts  == {Accepts0, Other0}

-----------------------------------------------------------------------------
(* What the documents say and the code does not do.                        *)

(* output/commands/sensai/run.md:53-56 - finish trace.json first, put the  *)
(* current hashes of trace, inputs, git_head and toolchain into the        *)
(* candidate, and what the recipe's transition mode accepts is accepted:   *)
(* no candidate that passes it is turned away for its fingerprints.        *)
DocumentedCandidateAdmitted ==
  [][\A w \in Writers :
       LET c    == call[w]
           seen == [c.seen EXCEPT !.trace = world.trace]
       IN  /\ c.pc = "observing" /\ c.kind = "checkpoint"
           /\ TransitionValid(c.active, c.cand, c.base, seen)
           => call'[w].code # "temporary"]_vars

(* output/commands/sensai/resume.md:50 - a call that fails leaves the      *)
(* progress as it was.                                                     *)
FailureChangesNothing ==
  \A w \in Writers :
    call[w].pc = "done" /\ call[w].code \notin {"none", "ok"}
      => ~call[w].committed
=============================================================================
