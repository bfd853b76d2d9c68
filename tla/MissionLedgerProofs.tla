------------------------ MODULE MissionLedgerProofs ------------------------
(***************************************************************************)
(* The ledger's promises, for every set of receipts, hashes and            *)
(* fingerprints and every bound on its length.                             *)
(***************************************************************************)
EXTENDS MissionLedger, TLAPS

(* What an accepted approval of the head amounts to: every approval the    *)
(* head carries was elicited and is bound to the head's own fingerprints.  *)
ApprovalsElicited ==
  \A a \in head.approvals : a \in issued /\ a.fp = head.fp

(* The inductive strengthening of GateOrder: gates behind the head are     *)
(* accepted by an approval that is still among the head's own.             *)
LedgerInv ==
  /\ TypeOK
  /\ ApprovalsElicited
  /\ head.phase >= 1 => Accepted(head, 0)
  /\ head.phase >= 4 => Accepted(head, 3)
  /\ head.status = "completed" => Accepted(head, 5)
  /\ head.phase < head.rev

(* An acceptance once in the history is in every legal successor.          *)
LEMMA AcceptanceSurvives ==
  ASSUME NEW prev, NEW cur, NEW gate,
         HistoryKept(prev, cur), Accepted(prev, gate)
  PROVE  Accepted(cur, gate)
  <1>1. PICK a \in prev.approvals : a.gate = gate /\ a.verdict = "accepted"
    BY DEF Accepted
  <1>2. a \in cur.approvals
    BY <1>1 DEF HistoryKept
  <1> QED
    BY <1>1, <1>2 DEF Accepted

LEMMA LedgerInit == Init => LedgerInv
  BY LedgerAssumption
  DEF Init, LedgerInv, TypeOK, ApprovalsElicited, Docs

(* One legal append, of any document, keeps the invariant.                 *)
LEMMA AppendKeepsInv ==
  ASSUME LedgerInv, NEW doc \in Docs, Append(doc)
  PROVE  LedgerInv'
  <1> USE DEF Append, TransitionValid
  <1>1. /\ head' = doc
        /\ issued' = issued
        /\ head \in Docs
        /\ head.rev \in Nat /\ head.phase \in Phases
        /\ doc.rev \in Nat /\ doc.phase \in Phases
    BY DEF LedgerInv, TypeOK, Docs
  <1>2. TypeOK'
    BY <1>1 DEF LedgerInv, TypeOK
  <1>3. ApprovalsElicited'
    BY <1>1 DEF ApprovalsElicited
  <1>4. doc.phase \in {head.phase, head.phase + 1}
    BY DEF PhaseStep
  <1>5. doc.phase >= 1 => Accepted(doc, 0)
    <2>1. CASE head.phase = 0
      BY <2>1, <1>1 DEF GatesPassed, Phases
    <2>2. CASE head.phase # 0
      BY <2>2, <1>1, AcceptanceSurvives DEF LedgerInv, Phases
    <2> QED
      BY <2>1, <2>2
  <1>6. doc.phase >= 4 => Accepted(doc, 3)
    <2>1. CASE head.phase <= 3
      BY <2>1, <1>1, <1>4 DEF GatesPassed, Phases
    <2>2. CASE head.phase >= 4
      BY <2>2, <1>1, AcceptanceSurvives DEF LedgerInv
    <2> QED
      BY <1>1, <2>1, <2>2 DEF Phases
  <1>7. doc.status = "completed" => Accepted(doc, 5)
    BY DEF GatesPassed
  <1>8. doc.phase < doc.rev
    BY <1>1, <1>4 DEF LedgerInv, Phases
  <1> QED
    BY <1>1, <1>2, <1>3, <1>5, <1>6, <1>7, <1>8 DEF LedgerInv, Accepted

LEMMA LedgerStep == LedgerInv /\ [Next]_vars => LedgerInv'
  <1> SUFFICES ASSUME LedgerInv, [Next]_vars
               PROVE  LedgerInv'
    OBVIOUS
  <1>1. ASSUME NEW a \in Receipts, Issue(a)
        PROVE  LedgerInv'
    BY <1>1
    DEF Issue, LedgerInv, TypeOK, ApprovalsElicited, Accepted
  <1>2. ASSUME NEW sha \in Shas, NEW phase \in Phases, NEW status \in Statuses,
               NEW approvals \in SUBSET issued,
               Append([rev |-> head.rev + 1, sha |-> sha, base |-> head.sha,
                       fp |-> head.fp, phase |-> phase, status |-> status,
                       approvals |-> approvals])
        PROVE  LedgerInv'
    <2> DEFINE doc == [rev |-> head.rev + 1, sha |-> sha, base |-> head.sha,
                       fp |-> head.fp, phase |-> phase, status |-> status,
                       approvals |-> approvals]
    <2>1. doc \in Docs
      BY DEF LedgerInv, TypeOK, Docs
    <2>2. Append(doc)
      BY <1>2
    <2> HIDE DEF doc
    <2> QED
      BY <2>1, <2>2, AppendKeepsInv
  <1>3. CASE UNCHANGED vars
    BY <1>3 DEF vars, LedgerInv, TypeOK, ApprovalsElicited, Accepted
  <1> QED
    BY <1>1, <1>2, <1>3 DEF Next

THEOREM LedgerInvariant == Spec => []LedgerInv
  BY LedgerInit, LedgerStep, PTL DEF Spec

(* Type correctness of the ledger.                                         *)
THEOREM LedgerTypeCorrect == Spec => []TypeOK
  <1>1. LedgerInv => TypeOK
    BY DEF LedgerInv
  <1> QED
    BY <1>1, LedgerInvariant, PTL

(* No sequence of revisions, of any length, passes a hard gate without the *)
(* human acceptance of it (progress.jq, transition_issues).                *)
THEOREM GatesHoldInOrder == Spec => []GateOrder
  <1>1. LedgerInv => GateOrder
    BY DEF LedgerInv, GateOrder, Accepted, HumanAccepted, ApprovalsElicited
  <1> QED
    BY <1>1, LedgerInvariant, PTL

(* Reaching phase n takes at least n revisions.                            *)
THEOREM PhasesAreNotSkipped == Spec => []NoPhaseSkipped
  <1>1. LedgerInv => NoPhaseSkipped
    BY DEF LedgerInv, NoPhaseSkipped
  <1> QED
    BY <1>1, LedgerInvariant, PTL
=============================================================================
