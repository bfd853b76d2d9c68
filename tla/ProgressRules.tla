--------------------------- MODULE ProgressRules ---------------------------
(***************************************************************************)
(* The rules a mission's progress.json obeys: the operators of             *)
(* output/recipes/progress.jq and the Go checks that run beside them.      *)
(*                                                                         *)
(* A document is a record with the fields the rules tell apart:            *)
(*   rev        revision                                                   *)
(*   sha        the SHA-256 of the whole file, an opaque value             *)
(*   base       precondition_fingerprints.previous_progress                *)
(*   fp         the fingerprints of sources and trace: [inputs, trace]     *)
(*   phase      0..5 for F0..F5                                            *)
(*   status     one of Statuses                                            *)
(*   approvals  a set of human receipts [gate, verdict, at, fp]            *)
(* Two fingerprints are left out, git_head and toolchain: the Go checks    *)
(* and the transition compare them as they compare inputs (and only if the *)
(* document has them), but no receipt is bound to them.  Left out, too,    *)
(* are identity, todo text, provenance, wording, and the updated_at stamp  *)
(* with the rules that hold it against other times (an approval's is never *)
(* later; a new document's always is).  So these rules allow what the      *)
(* program allows, and more.                                               *)
(***************************************************************************)
EXTENDS Naturals

Phases   == 0..5
Gates    == {0, 3, 5}
Verdicts == {"accepted", "rejected"}
Statuses == {"planned", "running", "blocked", "awaiting_human_approval",
             "completed"}

Accepted(d, gate) ==
  \E a \in d.approvals : a.gate = gate /\ a.verdict = "accepted"

StatusFitsPhase(d) ==
  /\ d.status = "planned" => d.phase = 0
  /\ d.status = "awaiting_human_approval" => d.phase \in Gates
  /\ d.status = "completed" => d.phase = 5

OneApprovalPerGate(d) ==
  \A a, b \in d.approvals : a.gate = b.gate => a = b

(* mode "validate": what loadProgress demands of a file on its own, but    *)
(* for times and identities.                                               *)
ProgressValid(d) ==
  /\ d.rev >= 1
  /\ StatusFitsPhase(d)
  /\ OneApprovalPerGate(d)
  /\ d.status = "completed" => Accepted(d, 5)

(* mistake (not part of the rules): any later phase may follow             *)
PhaseStepUnbounded(prev, cur) ==
  /\ prev.status # "completed"
  /\ cur.phase >= prev.phase

PhaseStep(prev, cur) ==
  /\ prev.status # "completed"
  /\ cur.phase \in {prev.phase, prev.phase + 1}

(* mistake: an approval may be dropped once its gate is passed             *)
HistoryForgotten(prev, cur) ==
  \A a \in prev.approvals :
     a \in cur.approvals \/ a.verdict # "accepted" \/ a.gate < prev.phase

(* An accepted approval stays as it is; a rejected one stays or gives way  *)
(* to a later acceptance of the same gate.                                 *)
HistoryKept(prev, cur) ==
  \A a \in prev.approvals :
     \/ a \in cur.approvals
     \/ /\ a.verdict # "accepted"
        /\ \E b \in cur.approvals :
              b.gate = a.gate /\ b.verdict = "accepted" /\ b.at > a.at

GatesPassed(prev, cur) ==
  /\ (prev.phase = 0 /\ cur.phase # 0) => Accepted(cur, 0)
  /\ (prev.phase = 3 /\ cur.phase # 3) => Accepted(cur, 3)
  /\ cur.status = "completed" => Accepted(cur, 5)

(* mode "transition": cur may replace prev, whose file hashes to prevSha,  *)
(* while the sources are observed to be as in the record observed.         *)
TransitionValid(prev, cur, prevSha, observed) ==
  /\ ProgressValid(prev)
  /\ ProgressValid(cur)
  /\ cur.rev = prev.rev + 1
  /\ PhaseStep(prev, cur)
  /\ cur.base = prevSha
  /\ cur.fp = observed
  /\ HistoryKept(prev, cur)
  /\ GatesPassed(prev, cur)

(* mode "resume": the active document may be continued under a lock whose  *)
(* owner record says ownerRev and ownerSha.                                *)
ResumeValid(d, sha, observed, ownerRev, ownerSha) ==
  /\ ProgressValid(d)
  /\ d.fp = observed
  /\ ownerRev = d.rev
  /\ ownerSha = sha
  /\ d.status # "completed"

(* The Go check that runs before the recipe: the ACTIVE document's         *)
(* fingerprints equal the observed ones.                                   *)
PreconditionsHold(active, observed) == active.fp = observed

(* mistake: the sources the receipt was given for are not compared         *)
ReceiptsMatchAnySource(d, files, observed) ==
  \A a \in d.approvals : files[a.gate] = a

(* Every approval of d is the receipt on disk at its gate's fixed path     *)
(* (files), and that receipt is bound to the observed sources and trace,   *)
(* the two digests a receipt holds.                                        *)
ReceiptsMatch(d, files, observed) ==
  \A a \in d.approvals : files[a.gate] = a /\ a.fp = observed
=============================================================================
