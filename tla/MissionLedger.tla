--------------------------- MODULE MissionLedger ---------------------------
(***************************************************************************)
(* What a mission's progress promises, free of files, locks and processes: *)
(* one head document, replaced only by a legal successor of exactly that   *)
(* head, whose approvals were all elicited from a human.  MissionStore     *)
(* implements it.                                                          *)
(***************************************************************************)
EXTENDS ProgressRules

CONSTANTS
  Shas,         (* file hashes                                             *)
  NoBase,       (* previous_progress of a first document: absent           *)
  Fps,          (* fingerprint records of the sources                      *)
  Receipts,     (* the receipts humans may issue                           *)
  Genesis,      (* the document mission init writes                        *)
  MaxRevision   (* bound on the length of the ledger                       *)

Receipt == [gate : Gates, verdict : Verdicts, at : Nat, fp : Fps]

Docs ==
  [rev : Nat, sha : Shas, base : Shas \union {NoBase}, fp : Fps,
   phase : Phases, status : Statuses, approvals : SUBSET Receipts]

ASSUME LedgerAssumption ==
  /\ Receipts \subseteq Receipt
  /\ MaxRevision \in Nat
  /\ Genesis \in Docs
  /\ Genesis.rev = 1
  /\ Genesis.phase = 0
  /\ Genesis.status = "planned"
  /\ Genesis.approvals = {}

VARIABLES
  head,     (* the active progress document                                *)
  issued    (* every receipt a human has issued so far                     *)

vars == <<head, issued>>

TypeOK ==
  /\ head \in Docs
  /\ issued \subseteq Receipts

Init ==
  /\ head = Genesis
  /\ issued = {}

(* mistake (not part of the model): a receipt not bound to any sources     *)
IssueUnbound(a) ==
  /\ issued' = issued \union
                 {[gate |-> a.gate, verdict |-> a.verdict, at |-> a.at]}
  /\ UNCHANGED head

Issue(a) ==
  /\ issued' = issued \union {a}
  /\ UNCHANGED head

(* Compare-and-swap on the head: doc names the head's revision and hash,   *)
(* keeps its fingerprints and carries only elicited approvals.             *)
Append(doc) ==
  /\ head.rev < MaxRevision
  /\ TransitionValid(head, doc, head.sha, head.fp)
  /\ doc.sha # head.sha
  /\ doc.approvals \subseteq issued
  /\ \A a \in doc.approvals : a.fp = head.fp
  /\ head' = doc
  /\ UNCHANGED issued

Next ==
  \/ \E a \in Receipts : Issue(a)
  \/ \E sha \in Shas, phase \in Phases, status \in Statuses,
        approvals \in SUBSET issued :
        Append([rev |-> head.rev + 1, sha |-> sha, base |-> head.sha,
                fp |-> head.fp, phase |-> phase, status |-> status,
                approvals |-> approvals])

Spec == Init /\ [][Next]_vars

-----------------------------------------------------------------------------

(* A human accepted this gate, for the sources the head is bound to.       *)
HumanAccepted(gate) ==
  \E a \in head.approvals :
     /\ a \in issued
     /\ a.gate = gate /\ a.verdict = "accepted" /\ a.fp = head.fp

(* No sequence of legal revisions gets past a hard gate without the human  *)
(* acceptance of it: F0 before F1, F3 before F4, F5 before completion.     *)
(* The recipe checks a gate only on the step that leaves it, so the later  *)
(* revisions rest on the approval history rule.                            *)
GateOrder ==
  /\ head.phase >= 1 => HumanAccepted(0)
  /\ head.phase >= 4 => HumanAccepted(3)
  /\ head.status = "completed" => HumanAccepted(5)

(* No phase is skipped or entered twice over: reaching phase n costs at    *)
(* least n revisions, whatever the candidates said.                        *)
NoPhaseSkipped == head.phase < head.rev
=============================================================================
