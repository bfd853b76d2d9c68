----------------------- MODULE MissionLedgerRefinement -----------------------
(***************************************************************************)
(* What the documents in progress.json are bound to, and that the store    *)
(* implements MissionLedger.                                               *)
(***************************************************************************)
EXTENDS MissionLockProofs

-----------------------------------------------------------------------------
(* Fingerprints.                                                           *)

(* The phase and the status of d are paid for by the approvals d itself    *)
(* carries, and its phase by its revision.                                 *)
Earned(d) ==
  /\ d.phase >= 1 => Accepted(d, 0)
  /\ d.phase >= 4 => Accepted(d, 3)
  /\ d.status = "completed" => Accepted(d, 5)
  /\ d.phase < d.rev

(* d is bound to the fingerprints mission init recorded, and so is every   *)
(* approval it carries, each of which a human issued; and it has earned    *)
(* its place.  All of this can be told from d alone, without asking what   *)
(* is on disk: that is why it survives a lost update.                      *)
Bound(d) ==
  /\ d.fp = Founding
  /\ \A a \in d.approvals : a \in issued /\ a.fp = Founding
  /\ Earned(d)

Staged == {"staged", "rehashed", "cleared"}

(* FingerprintsFrozen for the document on disk, and for every document a   *)
(* call has loaded or is about to write.                                   *)
FrozenInv ==
  /\ \A g \in Gates : files[g] \in issued \union {NoReceipt}
  /\ Bound(progress)
  /\ \A w \in Writers :
       /\ Bound(call[w].active)
       /\ call[w].pc \in Staged \union {"approving"} => call[w].seen = Founding
       /\ call[w].pc \in Staged => Bound(call[w].cand)

LEMMA OneCallKeepsFrozen ==
  ASSUME FrozenInv, NEW w \in Writers,
         \A v \in Writers \ {w} : call'[v] = call[v],
         UNCHANGED people, Bound(progress'),
         Bound(call'[w].active),
         call'[w].pc \in Staged \union {"approving"} => call'[w].seen = Founding,
         call'[w].pc \in Staged => Bound(call'[w].cand)
  PROVE  FrozenInv'
  <1>1. issued' = issued /\ files' = files
    BY DEF people
  <1>2. ASSUME NEW v \in Writers
        PROVE  /\ Bound(call'[v].active)
               /\ call'[v].pc \in Staged \union {"approving"}
                    => call'[v].seen = Founding
               /\ call'[v].pc \in Staged => Bound(call'[v].cand)
    BY DEF FrozenInv
  <1> QED
    BY <1>1, <1>2 DEF FrozenInv, Bound

LEMMA GenesisBound == Bound(Genesis)
  BY DEF Bound, Earned, Genesis

(* An acceptance once in the history is in every legal successor.          *)
LEMMA AcceptanceSurvives ==
  ASSUME NEW prev, NEW cur, NEW gate,
         HistoryKept(prev, cur), Accepted(prev, gate)
  PROVE  Accepted(cur, gate)
  BY Zenon DEF HistoryKept, Accepted

(* A legal successor earns its place if the document it follows has.       *)
LEMMA SuccessorEarns ==
  ASSUME NEW prev \in Docs, NEW cur \in Docs, NEW sha, NEW fp,
         Earned(prev), TransitionValid(prev, cur, sha, fp)
  PROVE  Earned(cur)
  <1>1. /\ prev.phase \in 0..5 /\ cur.phase \in 0..5
        /\ prev.rev \in Nat /\ cur.rev = prev.rev + 1
        /\ cur.phase \in {prev.phase, prev.phase + 1}
        /\ HistoryKept(prev, cur) /\ GatesPassed(prev, cur)
    BY DEF Docs, Phases, TransitionValid, PhaseStep
  <1>2. cur.phase >= 1 => Accepted(cur, 0)
    <2>1. CASE prev.phase = 0
      BY <1>1, <2>1 DEF GatesPassed
    <2>2. CASE prev.phase >= 1
      BY <1>1, <2>2, AcceptanceSurvives DEF Earned
    <2> QED
      BY <1>1, <2>1, <2>2
  <1>3. cur.phase >= 4 => Accepted(cur, 3)
    <2>1. CASE prev.phase <= 3
      BY <1>1, <2>1 DEF GatesPassed
    <2>2. CASE prev.phase >= 4
      BY <1>1, <2>2, AcceptanceSurvives DEF Earned
    <2> QED
      BY <1>1, <2>1, <2>2
  <1>4. cur.status = "completed" => Accepted(cur, 5)
    BY <1>1 DEF GatesPassed
  <1>5. cur.phase < cur.rev
    BY <1>1 DEF Earned
  <1> QED
    BY <1>2, <1>3, <1>4, <1>5 DEF Earned

(* An ordinary step, to the record c.                                      *)
LEMMA GoOnKeepsFrozen ==
  ASSUME TypeOK, FrozenInv, NEW w \in Writers, NEW c, Becomes(w, c),
         Bound(c.active),
         c.pc \in Staged \union {"approving"} => c.seen = Founding,
         c.pc \in Staged => Bound(c.cand),
         UNCHANGED <<progress, people>>
  PROVE  FrozenInv'
  <1>1. call'[w] = c /\ \A v \in Writers \ {w} : call'[v] = call[v]
    BY DEF Becomes, TypeOK
  <1>2. Bound(progress')
    BY DEF FrozenInv
  <1> QED
    BY <1>1, <1>2, OneCallKeepsFrozen

(* The ways out of the sequence forget the candidate.                      *)
LEMMA LeavingKeepsFrozen ==
  ASSUME TypeOK, FrozenInv, NEW w \in Writers, NEW code,
         Exit(w, code) \/ Fail(w, code) \/ RemovalFailed(w),
         UNCHANGED <<progress, people>>
  PROVE  FrozenInv'
  <1>1. ASSUME NEW other, Exit(w, other)
        PROVE  FrozenInv'
    <2> DEFINE c == [Idle EXCEPT !.code = other,
                                 !.committed = call[w].committed,
                                 !.robbed = call[w].robbed,
                                 !.report = call[w].report]
    <2>1. c.pc = "done" /\ c.active = Genesis /\ Becomes(w, c)
      BY <1>1 DEF Exit, Idle
    <2> HIDE DEF c
    <2> QED
      BY <2>1, GenesisBound, GoOnKeepsFrozen DEF Staged
  <1>2. ASSUME NEW other, Fail(w, other)
        PROVE  FrozenInv'
    <2> DEFINE c == [Idle EXCEPT !.pc = "failing", !.code = other,
                                 !.active = call[w].active,
                                 !.base = call[w].base,
                                 !.recorded = call[w].recorded,
                                 !.committed = call[w].committed,
                                 !.robbed = call[w].robbed]
    <2>1. c.pc = "failing" /\ c.active = call[w].active /\ Becomes(w, c)
      BY <1>2 DEF Fail, Idle
    <2> HIDE DEF c
    <2>2. Bound(c.active)
      BY <2>1 DEF FrozenInv
    <2> QED
      BY <2>1, <2>2, GoOnKeepsFrozen DEF Staged
  <1> QED
    BY <1>1, <1>2 DEF RemovalFailed

LEMMA EarlyKeepsFrozen ==
  ASSUME TypeOK, FrozenInv, NEW w \in Writers,
         \/ AcquireLock(w) \/ LockBusy(w) \/ LoadActive(w) \/ HashActive(w)
         \/ RecordLock(w) \/ VerifyLock(w) \/ LoadCandidate(w)
         \/ CheckTerminal(w) \/ ObserveInputs(w) \/ ObserveTrace(w)
  PROVE  FrozenInv'
  <1>0. /\ call[w] \in Calls
        /\ Bound(call[w].active) /\ Bound(Genesis) /\ Bound(progress)
    BY GenesisBound DEF TypeOK, FrozenInv
  <1>1. UNCHANGED <<progress, people>>
    BY DEF AcquireLock, LockBusy, LoadActive, HashActive, RecordLock,
           VerifyLock, LoadCandidate, CheckTerminal, ObserveInputs,
           ObserveTrace, disk
  <1>2. ASSUME NEW c, Becomes(w, c),
               c.active \in {Genesis, progress, call[w].active},
               c.pc \notin Staged, c.pc = "approving" => c.seen = Founding
        PROVE  FrozenInv'
    <2>1. Bound(c.active)
      BY <1>0, <1>2
    <2> QED
      BY <1>1, <1>2, <2>1, GoOnKeepsFrozen
  <1>3. ASSUME NEW code, Fail(w, code)
        PROVE  FrozenInv'
    BY <1>1, <1>3, LeavingKeepsFrozen
  <1>4. CASE AcquireLock(w)
    <2>1. PICK kind, pin : Becomes(w, Started(kind, pin))
      BY <1>4 DEF AcquireLock
    <2>2. /\ Started(kind, pin).active = Genesis
          /\ Started(kind, pin).pc = "locked"
      BY DEF Started, Idle
    <2> QED
      BY <1>2, <2>1, <2>2 DEF Staged
  <1>5. CASE LockBusy(w)
    <2> DEFINE c == [Idle EXCEPT !.code = "temporary"]
    <2>1. c.pc = "done" /\ c.active = Genesis /\ Becomes(w, c)
      BY <1>5 DEF LockBusy, Idle
    <2> HIDE DEF c
    <2> QED
      BY <1>2, <2>1 DEF Staged
  <1>6. CASE LoadActive(w)
    <2> DEFINE c == [call[w] EXCEPT !.pc = "loaded", !.active = progress]
    <2>1. c.pc = "loaded" /\ c.active = progress
      BY <1>0 DEF Calls
    <2>2. Becomes(w, c) \/ Fail(w, "data")
      BY <1>6 DEF LoadActive
    <2> HIDE DEF c
    <2> QED
      BY <1>2, <1>3, <2>1, <2>2 DEF Staged
  <1>7. CASE HashActive(w)
    <2> DEFINE c == [call[w] EXCEPT !.pc = "pinned", !.base = progress.sha]
    <2>1. c.pc = "pinned" /\ c.active = call[w].active
      BY <1>0 DEF Calls
    <2>2. Becomes(w, c) \/ Fail(w, "temporary")
      BY <1>7 DEF HashActive
    <2> HIDE DEF c
    <2> QED
      BY <1>2, <1>3, <2>1, <2>2 DEF Staged
  <1>8. CASE RecordLock(w)
    <2> DEFINE c == [call[w] EXCEPT !.pc = "recorded", !.recorded = TRUE]
    <2>1. c.pc = "recorded" /\ c.active = call[w].active
      BY <1>0 DEF Calls
    <2>2. Becomes(w, c) \/ Fail(w, "unavailable")
      BY <1>8 DEF RecordLock
    <2> HIDE DEF c
    <2> QED
      BY <1>2, <1>3, <2>1, <2>2 DEF Staged
  <1>9. CASE VerifyLock(w) \/ CheckTerminal(w)
    <2>1. ASSUME NEW pc \in {"verified", "drafted"},
                 Becomes(w, [call[w] EXCEPT !.pc = pc])
          PROVE  FrozenInv'
      <3> DEFINE c == [call[w] EXCEPT !.pc = pc]
      <3>1. c.pc = pc /\ c.active = call[w].active
        BY <1>0 DEF Calls
      <3>2. Becomes(w, c)
        BY <2>1
      <3> HIDE DEF c
      <3> QED
        BY <1>2, <3>1, <3>2 DEF Staged
    <2> QED
      BY <1>3, <1>9, <2>1 DEF VerifyLock, CheckTerminal
  <1>10. CASE LoadCandidate(w)
    <2>1. PICK cand :
            \/ Becomes(w, [call[w] EXCEPT !.pc = "drafted", !.cand = cand])
            \/ Fail(w, "data")
      BY <1>10 DEF LoadCandidate
    <2> DEFINE c == [call[w] EXCEPT !.pc = "drafted", !.cand = cand]
    <2>2. c.pc = "drafted" /\ c.active = call[w].active
      BY <1>0 DEF Calls
    <2>3. Becomes(w, c) \/ Fail(w, "data")
      BY <2>1
    <2> HIDE DEF c
    <2> QED
      BY <1>2, <1>3, <2>2, <2>3 DEF Staged
  <1>11. CASE ObserveInputs(w)
    <2> DEFINE c == [call[w] EXCEPT !.pc = "observing",
                                    !.seen.inputs = world.inputs]
    <2>1. c.pc = "observing" /\ c.active = call[w].active
      BY <1>0 DEF Calls
    <2>2. Becomes(w, c)
      BY <1>11 DEF ObserveInputs
    <2> HIDE DEF c
    <2> QED
      BY <1>2, <2>1, <2>2 DEF Staged
  <1>12. CASE ObserveTrace(w)
    <2> DEFINE seen == [call[w].seen EXCEPT !.trace = world.trace]
               c == [call[w] EXCEPT !.pc = "approving", !.seen = seen]
    <2>1. CASE PreconditionsHold(call[w].active, seen)
      <3>1. seen = Founding
        BY <1>0, <2>1 DEF PreconditionsHold, Bound
      <3> HIDE DEF seen
      <3>2. /\ c.pc = "approving" /\ c.active = call[w].active
            /\ c.seen = Founding
        BY <1>0, <3>1 DEF Calls
      <3>3. Becomes(w, c)
        BY <1>12, <2>1 DEF ObserveTrace, seen
      <3> HIDE DEF c
      <3> QED
        BY <1>2, <3>2, <3>3 DEF Staged
    <2>2. CASE ~PreconditionsHold(call[w].active, seen)
      BY <1>3, <1>12, <2>2 DEF ObserveTrace
    <2> QED
      BY <2>1, <2>2
  <1> QED
    BY <1>4, <1>5, <1>6, <1>7, <1>8, <1>9, <1>10, <1>11, <1>12

(* The approvals of a document that passed validateApprovals are receipts  *)
(* on disk.                                                                *)
LEMMA MatchedApprovalsIssued ==
  ASSUME TypeOK, FrozenInv, NEW d \in Docs,
         ReceiptsMatch(d, files, Founding)
  PROVE  \A a \in d.approvals : a \in issued /\ a.fp = Founding
  <1>1. ASSUME NEW a \in d.approvals
        PROVE  a \in issued /\ a.fp = Founding
    <2>1. a \in Receipts /\ a.gate \in Gates /\ a # NoReceipt
      BY <1>1, StoreAssumption DEF Docs, Receipt
    <2> QED
      BY <1>1, <2>1 DEF ReceiptsMatch, FrozenInv
  <1> QED
    BY <1>1

LEMMA ValidateKeepsFrozen ==
  ASSUME TypeOK, FrozenInv, NEW w \in Writers, Validate(w)
  PROVE  FrozenInv'
  <1>0. /\ call[w] \in Calls /\ Bound(call[w].active)
        /\ call[w].active \in Docs /\ call[w].cand \in Docs
        /\ call[w].seen = Founding
        /\ UNCHANGED <<progress, people>>
    BY DEF TypeOK, FrozenInv, Validate, Calls, disk
  <1>1. CASE Rejection(w) = "none"
    <2>1. /\ ReceiptsMatch(IF call[w].kind = "resume" THEN call[w].active
                                                     ELSE call[w].cand,
                           files, Founding)
          /\ TransitionValid(call[w].active, Proposed(w), call[w].base,
                             Founding)
      BY <1>0, <1>1, RejectionCodes
    <2>2. Bound(Proposed(w))
      <3>1. Proposed(w).fp = Founding
        BY <2>1 DEF TransitionValid
      <3>2. \A a \in Proposed(w).approvals : a \in issued /\ a.fp = Founding
        <4>1. CASE call[w].kind = "resume"
          <5>1. Proposed(w).approvals = call[w].active.approvals
            BY <1>0, <4>1 DEF Proposed, Renewed, Docs
          <5> QED
            BY <1>0, <5>1 DEF Bound
        <4>2. CASE call[w].kind # "resume"
          BY <1>0, <2>1, <4>2, MatchedApprovalsIssued DEF Proposed
        <4> QED
          BY <4>1, <4>2
      <3>3. Earned(Proposed(w))
        <4>1. Earned(call[w].active)
          BY <1>0 DEF Bound
        <4>2. Proposed(w) \in Docs
          BY ProposedTyped
        <4> QED
          BY <1>0, <2>1, <4>1, <4>2, SuccessorEarns
      <3> QED
        BY <3>1, <3>2, <3>3 DEF Bound
    <2> DEFINE c == [call[w] EXCEPT !.pc = "staged", !.cand = Proposed(w)]
    <2>3. /\ c.pc = "staged" /\ c.active = call[w].active
          /\ c.seen = Founding /\ c.cand = Proposed(w)
      BY <1>0 DEF Calls
    <2>4. Becomes(w, c)
      BY <1>1 DEF Validate
    <2> HIDE DEF c
    <2>5. Bound(c.active) /\ Bound(c.cand)
      BY <1>0, <2>2, <2>3
    <2> QED
      BY <1>0, <2>3, <2>4, <2>5, GoOnKeepsFrozen
  <1>2. CASE Rejection(w) # "none"
    BY <1>0, <1>2, LeavingKeepsFrozen DEF Validate
  <1> QED
    BY <1>1, <1>2

LEMMA LateKeepsFrozen ==
  ASSUME TypeOK, FrozenInv, NEW w \in Writers,
         \/ Rehash(w) \/ Recheck(w) \/ CommitProgress(w) \/ CommitStatus(w)
         \/ BeginRelease(w) \/ RemoveOwner(w) \/ RemoveDir(w)
         \/ Cleanup(w) \/ Report(w)
         \/ Interrupt(w) \/ IOFailure(w) \/ Crash(w)
  PROVE  FrozenInv'
  <1>0. /\ call[w] \in Calls
        /\ Bound(call[w].active) /\ Bound(Genesis) /\ Bound(progress)
    BY GenesisBound DEF TypeOK, FrozenInv
  <1>1. ASSUME NEW code, Exit(w, code) \/ Fail(w, code) \/ RemovalFailed(w),
               UNCHANGED <<progress, people>>
        PROVE  FrozenInv'
    BY <1>1, LeavingKeepsFrozen
  <1>2. ASSUME NEW pc, Becomes(w, [call[w] EXCEPT !.pc = pc]),
               pc # "approving", pc \in Staged => call[w].pc \in Staged,
               UNCHANGED <<progress, people>>
        PROVE  FrozenInv'
    <2> DEFINE c == [call[w] EXCEPT !.pc = pc]
    <2>1. /\ c.pc = pc /\ c.active = call[w].active
          /\ c.seen = call[w].seen /\ c.cand = call[w].cand
      BY <1>0 DEF Calls
    <2>2. Becomes(w, c)
      BY <1>2
    <2> HIDE DEF c
    <2>3. pc \in Staged => call[w].seen = Founding /\ Bound(call[w].cand)
      BY <1>2 DEF FrozenInv
    <2>4. Bound(c.active) /\ (pc \in Staged => Bound(c.cand))
      BY <1>0, <2>1, <2>3
    <2> QED
      BY <1>2, <2>1, <2>2, <2>3, <2>4, GoOnKeepsFrozen
  <1>3. CASE Rehash(w) \/ Recheck(w) \/ CommitStatus(w)
    BY <1>1, <1>2, <1>3 DEF Rehash, Recheck, CommitStatus, Staged, disk
  <1>4. CASE BeginRelease(w) \/ RemoveOwner(w) \/ RemoveDir(w) \/ Cleanup(w)
    BY <1>1, <1>2, <1>4
    DEF BeginRelease, RemoveOwner, RemoveDir, Cleanup, Staged, disk
  <1>5. CASE CommitProgress(w)
    <2> DEFINE c == [call[w] EXCEPT !.pc = "replaced", !.committed = TRUE]
    <2>1. c.pc = "replaced" /\ c.active = call[w].active
      BY <1>0 DEF Calls
    <2>2. Becomes(w, c)
      BY <1>5 DEF CommitProgress
    <2> HIDE DEF c
    <2>3. /\ call'[w] = c
          /\ \A v \in Writers \ {w} : call'[v] = call[v]
      BY <2>2 DEF Becomes, TypeOK
    <2>4. Bound(call[w].cand) /\ progress' = call[w].cand
      BY <1>5 DEF CommitProgress, FrozenInv, Staged
    <2>5. /\ Bound(progress') /\ Bound(call'[w].active)
          /\ call'[w].pc \notin Staged \union {"approving"}
      BY <1>0, <2>1, <2>3, <2>4 DEF Staged
    <2> QED
      BY <1>5, <2>3, <2>5, OneCallKeepsFrozen DEF CommitProgress
  <1>6. CASE Report(w) \/ Crash(w)
    <2>1. PICK c : Becomes(w, c) /\ c.pc = "done" /\ c.active = Genesis
      <3>1. CASE Report(w)
        <4> DEFINE c == [Idle EXCEPT !.code = "ok",
                           !.committed = call[w].committed,
                           !.robbed = call[w].robbed,
                           !.report = [rev |-> call[w].cand.rev,
                                       sha |-> progress.sha]]
        <4>1. Becomes(w, c) /\ c.pc = "done" /\ c.active = Genesis
          BY <3>1 DEF Report, Idle
        <4> HIDE DEF c
        <4> QED
          BY <4>1
      <3>2. CASE Crash(w)
        BY <3>2 DEF Crash, Idle
      <3> QED
        BY <1>6, <3>1, <3>2
    <2>2. UNCHANGED <<progress, people>>
      BY <1>6 DEF Report, Crash, disk
    <2>3. Bound(c.active)
      BY <1>0, <2>1
    <2> QED
      BY <2>1, <2>2, <2>3, GoOnKeepsFrozen DEF Staged
  <1>7. CASE Interrupt(w) \/ IOFailure(w)
    BY <1>1, <1>7 DEF Interrupt, IOFailure, disk
  <1> QED
    BY <1>3, <1>4, <1>5, <1>6, <1>7

LEMMA FrozenStep == TypeOK /\ FrozenInv /\ [Next]_vars => FrozenInv'
  <1> SUFFICES ASSUME TypeOK, FrozenInv, [Next]_vars
               PROVE  FrozenInv'
    OBVIOUS
  <1>1. ASSUME NEW w \in Writers, Call(w)
        PROVE  FrozenInv'
    BY <1>1, EarlyKeepsFrozen, ValidateKeepsFrozen, LateKeepsFrozen
    DEF Call, Step
  <1>2. ASSUME UNCHANGED <<progress, files, issued, call>>
        PROVE  FrozenInv'
    BY <1>2 DEF FrozenInv, Bound
  <1>3. CASE \E r \in Readers : Look(r)
    BY <1>2, <1>3
    DEF Look, ReadProgress, LookAtInputs, CheckWorld, CompareView, disk, people
  <1>4. CASE StealOwner \/ RemoveLockByHand
    <2>1. ASSUME NEW w \in Writers
          PROVE  /\ call'[w].active = call[w].active
                 /\ call'[w].pc = call[w].pc
                 /\ call'[w].seen = call[w].seen
                 /\ call'[w].cand = call[w].cand
      <3>1. call'[w] \in {call[w], [call[w] EXCEPT !.robbed = TRUE]}
        BY <1>4 DEF StealOwner, RemoveLockByHand, Rob
      <3>2. call[w] \in Calls
        BY DEF TypeOK
      <3> QED
        BY <3>1, <3>2 DEF Calls
    <2>2. UNCHANGED <<progress, files, issued>>
      BY <1>4 DEF StealOwner, RemoveLockByHand, people
    <2> QED
      BY <2>1, <2>2 DEF FrozenInv, Bound
  <1>5. ASSUME NEW a \in Receipts, WriteReceipt(a)
        PROVE  FrozenInv'
    <2>1. /\ issued' = issued \union {a}
          /\ \A g \in Gates : files'[g] \in {files[g], a}
          /\ UNCHANGED <<progress, call>>
      BY <1>5 DEF WriteReceipt, TypeOK, disk
    <2> QED
      BY <2>1 DEF FrozenInv, Bound
  <1>6. CASE ClearOrphan \/ Drift
    BY <1>2, <1>6 DEF ClearOrphan, Drift, disk, people
  <1>7. CASE UNCHANGED vars
    BY <1>2, <1>7 DEF vars, disk, people
  <1> QED
    BY <1>1, <1>3, <1>4, <1>5, <1>6, <1>7 DEF Next, Outside

LEMMA FrozenInit == Init => FrozenInv
  <1> SUFFICES ASSUME Init PROVE FrozenInv
    OBVIOUS
  <1>1. /\ progress = Genesis
        /\ \A w \in Writers : /\ call[w].active = Genesis
                             /\ call[w].pc = "done"
    BY DEF Init, Idle
  <1>2. \A g \in Gates : files[g] = NoReceipt
    BY DEF Init
  <1> QED
    BY <1>1, <1>2, GenesisBound DEF FrozenInv, Staged

THEOREM FrozenInvariant == Spec => []FrozenInv
  <1>1. TypeInv => TypeOK
    BY DEF TypeInv
  <1> QED
    BY <1>1, StoreTypeInvariant, FrozenInit, FrozenStep, PTL DEF Spec

(* A mission keeps the fingerprints it was founded with for ever, whatever *)
(* is edited, approved, checkpointed, resumed, killed or stolen.           *)
THEOREM FingerprintsNeverChange == Spec => []FingerprintsFrozen
  <1>1. FrozenInv => FingerprintsFrozen
    BY DEF FrozenInv, Bound, FingerprintsFrozen
  <1> QED
    BY <1>1, FrozenInvariant, PTL

(* No interleaving of calls, crashes, failures, edits and receipts gets    *)
(* progress.json past a hard gate without the human acceptance of it, not  *)
(* even when locks are stolen and updates are lost: validateTransition     *)
(* looks at two documents, and what it keeps can be told from one.         *)
THEOREM GatesHoldOnDisk == Spec => []Ledger!GateOrder
  <1>1. FrozenInv => Ledger!GateOrder
    BY Zenon DEF FrozenInv, Bound, Earned, Accepted, Ledger!GateOrder,
                 Ledger!HumanAccepted
  <1> QED
    BY <1>1, FrozenInvariant, PTL

(* Nor does a theft, a crash or a lost update let the file on disk skip a  *)
(* phase: at phase n it is at least at revision n + 1.                     *)
THEOREM PhasesHoldOnDisk == Spec => []Ledger!NoPhaseSkipped
  <1>1. FrozenInv => Ledger!NoPhaseSkipped
    BY DEF FrozenInv, Bound, Earned, Ledger!NoPhaseSkipped
  <1> QED
    BY <1>1, FrozenInvariant, PTL

-----------------------------------------------------------------------------
(* The head of the ledger.                                                 *)

(* Where a call works on the document it has loaded and hashed.            *)
Based == {"pinned", "cleared"} \union Guarded

(* What a call has checked of its documents among each other.              *)
PinPart(w) ==
  LET c == call[w] IN
  /\ c.pc \in Based \union {"replaced"} /\ c.pin # NoPin
       => c.pin.sha = c.base /\ c.pin.rev = c.active.rev
  /\ c.pc \in {"drafted", "observing", "approving"}
       => c.kind = "resume" \/ c.cand.sha = <<c.active.rev + 1, w>>
  /\ c.pc \in Staged \union {"replaced"}
       => /\ c.cand.sha = <<c.active.rev + 1, w>>
          /\ TransitionValid(c.active, c.cand, c.base, Founding)

(* Without thefts, what it has read is still what is on disk, and what it  *)
(* has written or reported is not ahead of it.                             *)
HeadPart(w) ==
  LET c == call[w] IN
  thefts = 0 =>
    /\ c.pc \in BeforeCommit => progress.rev < MaxRevision
    /\ c.pc \in Based \union {"loaded"} => c.active = progress
    /\ c.pc \in Based => c.base = progress.sha
    /\ c.pc \in {"replaced", "published"} => progress = c.cand
    /\ c.pc \in {"unlinking", "rmdir", "released"} /\ c.code = "none"
         => c.cand.rev <= progress.rev
    /\ c.code = "ok" => c.report.sha[1] >= c.report.rev

HeadInv ==
  /\ progress.sha[1] = progress.rev
  /\ StatusTracksProgress
  /\ \A w \in Writers : PinPart(w) /\ HeadPart(w)

(* What the steps of the other calls must leave alone.                     *)
HeadKept(w) ==
  /\ Alone(w)
  /\ thefts' = thefts
  /\ UNCHANGED <<progress, status>>
  /\ Undamaged' => Undamaged /\ call[w].pc # "replaced"

LEMMA OthersKeepHead ==
  ASSUME HeadInv, NEW w \in Writers, HeadKept(w), PinPart(w)', HeadPart(w)'
  PROVE  HeadInv'
  <1>1. ASSUME NEW v \in Writers, v # w
        PROVE  PinPart(v)' /\ HeadPart(v)'
    <2>1. call'[v] = call[v] /\ PinPart(v) /\ HeadPart(v)
      BY <1>1 DEF HeadInv, HeadKept, Alone
    <2>2. PinPart(v)'
      BY <2>1 DEF PinPart
    <2>3. HeadPart(v)'
      BY <2>1 DEF HeadPart, HeadKept
    <2> QED
      BY <2>2, <2>3
  <1>2. StatusTracksProgress'
    <2>1. ASSUME NEW v \in Writers, call[v].pc = "replaced", Undamaged'
          PROVE  call'[v].pc = "replaced"
      BY <2>1 DEF HeadKept, Alone
    <2> QED
      BY <2>1 DEF HeadInv, HeadKept, StatusTracksProgress
  <1> QED
    BY <1>1, <1>2 DEF HeadInv, HeadKept

(* Steps that leave the sequence carry no document any further.            *)
LEMMA LeavingKeepsHead ==
  ASSUME HeadInv, NEW w \in Writers, NEW code, code # "ok", HeadKept(w),
         \/ Failed(w, code) /\ code # "none"
         \/ Ended(w, code)
  PROVE  HeadInv'
  <1>1. /\ call'[w].pc = "failing" \/ call'[w].pc = "done"
        /\ call'[w].code = code
    BY DEF Failed, Ended
  <1>2. PinPart(w)'
    BY <1>1 DEF PinPart, Based, Guarded, Staged
  <1>3. HeadPart(w)'
    BY <1>1 DEF HeadPart, Based, Guarded, BeforeCommit
  <1> QED
    BY <1>2, <1>3, OthersKeepHead

LEMMA StartKeepsHead ==
  ASSUME TypeOK, HeadInv, NEW w \in Writers,
         AcquireLock(w) \/ LockBusy(w) \/ Crash(w)
  PROVE  HeadInv'
  <1>1. CASE AcquireLock(w)
    <2>1. Alone(w) /\ call'[w].pc = "locked" /\ call'[w].code = "none"
      BY <1>1, StartEffect
    <2>2. /\ progress.rev < MaxRevision /\ UNCHANGED <<progress, status>>
          /\ UNCHANGED damage /\ call[w].pc = "done"
      BY <1>1 DEF AcquireLock
    <2>3. PinPart(w)'
      BY <2>1 DEF PinPart, Based, Guarded, Staged
    <2>4. HeadPart(w)'
      BY <2>1, <2>2 DEF HeadPart, Based, Guarded
    <2>5. HeadKept(w)
      BY <2>1, <2>2 DEF HeadKept, damage, Undamaged
    <2> QED
      BY <2>3, <2>4, <2>5, OthersKeepHead
  <1>2. CASE LockBusy(w) \/ Crash(w)
    <2>1. /\ Alone(w) /\ call'[w].pc = "done"
          /\ call'[w].code \in {"none", "temporary"}
      BY <1>2, StartEffect
    <2>2. /\ UNCHANGED <<progress, status, thefts>>
          /\ Undamaged' => Undamaged /\ call[w].pc # "replaced"
      <3>1. CASE LockBusy(w)
        BY <3>1 DEF LockBusy, disk, damage, Undamaged
      <3>2. CASE Crash(w)
        BY <3>2 DEF Crash, disk, Undamaged, TypeOK
      <3> QED
        BY <1>2, <3>1, <3>2
    <2>3. PinPart(w)'
      BY <2>1 DEF PinPart, Based, Guarded, Staged
    <2>4. HeadPart(w)'
      BY <2>1 DEF HeadPart, Based, Guarded, BeforeCommit
    <2>5. HeadKept(w)
      BY <2>1, <2>2 DEF HeadKept
    <2> QED
      BY <2>3, <2>4, <2>5, OthersKeepHead
  <1> QED
    BY <1>1, <1>2

(* A step of the sequence that leaves the damage and both files alone.     *)
LEMMA QuietKeepsHead ==
  ASSUME NEW w \in Writers, UNCHANGED <<progress, status, damage>>,
         Alone(w), call[w].pc # "replaced"
  PROVE  HeadKept(w)
  BY DEF HeadKept, damage, Undamaged

LEMMA LoadKeepsHead ==
  ASSUME TypeInv, PromiseInv, HeadInv, NEW w \in Writers,
         LoadActive(w) \/ HashActive(w) \/ RecordLock(w) \/ VerifyLock(w)
  PROVE  HeadInv'
  <1>0. /\ TypeOK /\ PinPart(w) /\ HeadPart(w) /\ CallPart(w)
        /\ UNCHANGED <<progress, status, damage>>
        /\ \/ call[w].pc = "locked" \/ call[w].pc = "loaded"
           \/ call[w].pc = "pinned" \/ call[w].pc = "recorded"
    BY DEF TypeInv, HeadInv, PromiseInv, LoadActive, HashActive, RecordLock,
           VerifyLock, disk
  <1>1. /\ call[w].code # "ok"
        /\ thefts' = thefts
        /\ thefts = 0 => progress.rev < MaxRevision
    BY <1>0 DEF CallPart, BeforeCommit, HeadPart, damage
  <1>2. ASSUME NEW code, Failed(w, code), code \notin {"none", "ok"}
        PROVE  HeadInv'
    <2>1. HeadKept(w)
      BY <1>0, <1>2, QuietKeepsHead DEF Failed
    <2> QED
      BY <1>2, <2>1, LeavingKeepsHead
  <1>3. ASSUME NEW pc \in {"loaded", "pinned", "recorded", "verified"},
               NEW active, NEW base, NEW recorded,
               Moved(w, pc, active, base, recorded, call[w].cand,
                     call[w].committed),
               thefts = 0 => active = progress,
               thefts = 0 /\ pc # "loaded" => base = progress.sha,
               pc # "loaded" /\ call[w].pin # NoPin
                 => call[w].pin.sha = base /\ call[w].pin.rev = active.rev
        PROVE  HeadInv'
    <2>1. /\ Alone(w)
          /\ call'[w].pc = pc /\ call'[w].active = active
          /\ call'[w].base = base /\ call'[w].pin = call[w].pin
          /\ call'[w].code = call[w].code
      BY <1>3 DEF Moved
    <2>2. PinPart(w)'
      BY <1>3, <2>1 DEF PinPart, Based, Guarded, Staged
    <2>3. HeadPart(w)'
      BY <1>0, <1>1, <1>3, <2>1 DEF HeadPart, Based, Guarded, BeforeCommit
    <2>4. HeadKept(w)
      BY <1>0, <2>1, QuietKeepsHead
    <2> QED
      BY <2>2, <2>3, <2>4, OthersKeepHead
  <1>4. CASE LoadActive(w)
    BY <1>0, <1>2, <1>3, <1>4, LoadEffect
  <1>5. CASE HashActive(w)
    <2>1. call[w].pc = "loaded"
      BY <1>5 DEF HashActive
    <2>2. thefts = 0 => call[w].active = progress
      BY <1>0, <2>1 DEF HeadPart
    <2> QED
      BY <1>0, <1>2, <1>3, <1>5, <2>2, LoadEffect
  <1>6. ASSUME call[w].pc \in {"pinned", "recorded"}
        PROVE  /\ thefts = 0 => /\ call[w].active = progress
                                /\ call[w].base = progress.sha
               /\ call[w].pin # NoPin => /\ call[w].pin.sha = call[w].base
                                         /\ call[w].pin.rev = call[w].active.rev
    BY <1>0, <1>6 DEF HeadPart, PinPart, Based, Guarded
  <1>7. CASE RecordLock(w)
    <2>1. call[w].pc = "pinned"
      BY <1>7 DEF RecordLock
    <2>2. \/ Failed(w, "unavailable")
          \/ Moved(w, "recorded", call[w].active, call[w].base, TRUE,
                   call[w].cand, call[w].committed)
      BY <1>0, <1>7, LoadEffect
    <2> QED
      BY <1>2, <1>3, <1>6, <2>1, <2>2
  <1>8. CASE VerifyLock(w)
    <2>1. call[w].pc = "recorded"
      BY <1>8 DEF VerifyLock
    <2>2. \/ Failed(w, "temporary")
          \/ Moved(w, "verified", call[w].active, call[w].base,
                   call[w].recorded, call[w].cand, call[w].committed)
      BY <1>0, <1>8, LoadEffect DEF Advanced
    <2> QED
      BY <1>2, <1>3, <1>6, <2>1, <2>2
  <1> QED
    BY <1>4, <1>5, <1>7, <1>8

(* The document a call proposes is stamped with the next revision.         *)
LEMMA ProposedStamp ==
  ASSUME TypeOK, NEW w \in Writers, PinPart(w), call[w].pc = "approving"
  PROVE  Proposed(w).sha = <<call[w].active.rev + 1, w>>
  <1>1. CASE call[w].kind = "resume"
    <2>1. call[w].active \in Docs
      BY CallTypes
    <2> QED
      BY <1>1, <2>1 DEF Proposed, Renewed, Docs
  <1>2. CASE call[w].kind # "resume"
    BY <1>2 DEF Proposed, PinPart
  <1> QED
    BY <1>1, <1>2

LEMMA CheckKeepsHead ==
  ASSUME TypeOK, PromiseInv, FrozenInv, HeadInv, NEW w \in Writers,
         \/ LoadCandidate(w) \/ CheckTerminal(w) \/ ObserveInputs(w)
         \/ ObserveTrace(w) \/ Validate(w) \/ Rehash(w) \/ Recheck(w)
  PROVE  HeadInv'
  <1>0. /\ \/ call[w].pc = "verified" \/ call[w].pc = "drafted"
           \/ call[w].pc = "observing" \/ call[w].pc = "approving"
           \/ call[w].pc = "staged" \/ call[w].pc = "rehashed"
        /\ UNCHANGED <<progress, status, damage>>
    BY Zenon DEF LoadCandidate, CheckTerminal, ObserveInputs, ObserveTrace,
                 Validate, Rehash, Recheck, disk
  <1>1. /\ PinPart(w) /\ HeadPart(w) /\ CallPart(w)
        /\ thefts' = thefts
    BY <1>0 DEF HeadInv, PromiseInv, damage
  <1>2. /\ call[w].code # "ok"
        /\ thefts = 0 =>
             /\ progress.rev < MaxRevision
             /\ call[w].active = progress
             /\ call[w].base = progress.sha
        /\ call[w].pin # NoPin => /\ call[w].pin.sha = call[w].base
                                  /\ call[w].pin.rev = call[w].active.rev
    BY <1>0, <1>1 DEF CallPart, BeforeCommit, HeadPart, PinPart, Based, Guarded
  <1>3. ASSUME Failed(w, "data") \/ Failed(w, "temporary")
        PROVE  HeadInv'
    <2>1. HeadKept(w)
      BY <1>0, <1>3, QuietKeepsHead DEF Failed
    <2> QED
      BY <1>3, <2>1, LeavingKeepsHead
  <1>4. ASSUME NEW pc \in {"drafted", "observing", "approving", "staged",
                           "rehashed", "cleared"},
               NEW cand,
               Moved(w, pc, call[w].active, call[w].base, call[w].recorded,
                     cand, call[w].committed),
               pc \in {"drafted", "observing", "approving"}
                 => \/ call[w].kind = "resume"
                    \/ cand.sha = <<call[w].active.rev + 1, w>>,
               pc \in Staged
                 => /\ cand.sha = <<call[w].active.rev + 1, w>>
                    /\ TransitionValid(call[w].active, cand, call[w].base,
                                       Founding)
        PROVE  HeadInv'
    <2>1. /\ Alone(w)
          /\ call'[w].pc = pc /\ call'[w].active = call[w].active
          /\ call'[w].base = call[w].base /\ call'[w].pin = call[w].pin
          /\ call'[w].cand = cand /\ call'[w].kind = call[w].kind
          /\ call'[w].code = call[w].code
      BY <1>4 DEF Moved
    <2>2. PinPart(w)'
      BY <1>2, <1>4, <2>1 DEF PinPart, Staged
    <2>3. HeadPart(w)'
      BY <1>0, <1>1, <1>2, <1>4, <2>1 DEF HeadPart
    <2>4. HeadKept(w)
      BY <1>0, <2>1, QuietKeepsHead
    <2> QED
      BY <2>2, <2>3, <2>4, OthersKeepHead
  <1>5. CASE LoadCandidate(w)
    <2>1. \/ Failed(w, "data")
          \/ \E cand \in Candidates(w) :
               Moved(w, "drafted", call[w].active, call[w].base,
                     call[w].recorded, cand, call[w].committed)
      BY <1>5, CheckEffect
    <2>2. \A cand \in Candidates(w) :
            cand.sha = <<call[w].active.rev + 1, w>>
      BY DEF Candidates
    <2>3. "drafted" \notin Staged
      BY DEF Staged
    <2> QED
      BY <1>3, <1>4, <2>1, <2>2, <2>3
  <1>6. CASE CheckTerminal(w)
    <2>1. "drafted" \notin Staged
      BY DEF Staged
    <2>2. \/ Failed(w, "data")
          \/ Advanced(w, "drafted") /\ call[w].kind = "resume"
      BY <1>6, CheckEffect
    <2> QED
      BY <1>3, <1>4, <2>1, <2>2 DEF Advanced
  <1>7. CASE ObserveInputs(w) \/ ObserveTrace(w)
    <2>1. call[w].pc = "drafted" \/ call[w].pc = "observing"
      BY <1>7 DEF ObserveInputs, ObserveTrace
    <2>2. \/ call[w].kind = "resume"
          \/ call[w].cand.sha = <<call[w].active.rev + 1, w>>
      BY <1>1, <2>1 DEF PinPart
    <2>3. "observing" \notin Staged /\ "approving" \notin Staged
      BY DEF Staged
    <2>4. \/ Failed(w, "temporary")
          \/ Advanced(w, "observing") \/ Advanced(w, "approving")
      BY <1>7, CheckEffect
    <2> QED
      BY <1>3, <1>4, <2>2, <2>3, <2>4 DEF Advanced
  <1>8. CASE Validate(w)
    <2>1. call[w].pc = "approving"
      BY <1>8 DEF Validate
    <2>2. call[w].seen = Founding
      BY <2>1 DEF FrozenInv
    <2>3. \/ Failed(w, "data") \/ Failed(w, "temporary")
          \/ /\ Moved(w, "staged", call[w].active, call[w].base,
                      call[w].recorded, Proposed(w), call[w].committed)
             /\ TransitionValid(call[w].active, Proposed(w), call[w].base,
                                Founding)
      BY <1>8, <2>2, CheckEffect
    <2>4. Proposed(w).sha = <<call[w].active.rev + 1, w>>
      BY <1>1, <2>1, ProposedStamp
    <2> QED
      BY <1>3, <1>4, <2>3, <2>4
  <1>9. CASE Rehash(w) \/ Recheck(w)
    <2>1. call[w].pc = "staged" \/ call[w].pc = "rehashed"
      BY <1>9 DEF Rehash, Recheck
    <2>2. /\ call[w].cand.sha = <<call[w].active.rev + 1, w>>
          /\ TransitionValid(call[w].active, call[w].cand, call[w].base,
                             Founding)
      BY <1>1, <2>1 DEF PinPart, Staged
    <2>3. \/ Failed(w, "temporary")
          \/ Advanced(w, "rehashed") \/ Advanced(w, "cleared")
      BY <1>9, CheckEffect
    <2> QED
      BY <1>3, <1>4, <2>2, <2>3 DEF Advanced
  <1> QED
    BY <1>5, <1>6, <1>7, <1>8, <1>9

(* The first rename: where nobody stole a lock, the document it replaces   *)
(* is the one the call has loaded, and nobody else is past that rename.    *)
LEMMA CommitKeepsHead ==
  ASSUME TypeInv, LockDiscipline, PromiseInv, HeadInv, NEW w \in Writers,
         CommitProgress(w)
  PROVE  HeadInv'
  <1>0. /\ TypeOK /\ PinPart(w) /\ HeadPart(w) /\ CallPart(w)
        /\ call[w].pc = "cleared" /\ Holding(w)
        /\ progress' = call[w].cand /\ UNCHANGED <<status, damage>>
    BY DEF TypeInv, HeadInv, PromiseInv, CommitProgress, Holding
  <1>1. Moved(w, "replaced", call[w].active, call[w].base, call[w].recorded,
              call[w].cand, TRUE)
    BY <1>0, CommitEffect
  <1>2. /\ Alone(w)
        /\ call'[w].pc = "replaced" /\ call'[w].active = call[w].active
        /\ call'[w].base = call[w].base /\ call'[w].pin = call[w].pin
        /\ call'[w].cand = call[w].cand /\ call'[w].code = call[w].code
    BY <1>1 DEF Moved
  <1>3. /\ call[w].cand.sha = <<call[w].active.rev + 1, w>>
        /\ call[w].cand.rev = call[w].active.rev + 1
        /\ call[w].cand.base = call[w].base
        /\ TransitionValid(call[w].active, call[w].cand, call[w].base, Founding)
    BY <1>0 DEF PinPart, Staged, TransitionValid
  <1>4. progress'.sha[1] = progress'.rev
    BY <1>0, <1>3
  <1>5. thefts = 0 => call[w].active = progress /\ call[w].base = progress.sha
    BY <1>0 DEF HeadPart, Based
  <1>6. /\ progress.rev \in Nat /\ call[w].active.rev \in Nat
        /\ thefts' = thefts /\ Undamaged' = Undamaged
        /\ Undamaged => thefts = 0
    BY <1>0, CallTypes DEF Docs, damage, Undamaged, TypeOK
  <1>7. thefts = 0 => progress'.rev = progress.rev + 1
    BY <1>0, <1>3, <1>5
  <1>8. PinPart(w)'
    BY <1>0, <1>2, <1>3 DEF PinPart, Based, Staged
  <1>9. HeadPart(w)'
    <2>1. call'[w].code # "ok"
      BY <1>0, <1>2 DEF CallPart, BeforeCommit
    <2> QED
      BY <1>0, <1>2, <2>1 DEF HeadPart, Based, Guarded, BeforeCommit
  <1>10. ASSUME NEW v \in Writers, v # w
         PROVE  PinPart(v)' /\ HeadPart(v)'
    <2>1. call'[v] = call[v] /\ PinPart(v) /\ HeadPart(v)
      BY <1>2, <1>10 DEF HeadInv, Alone
    <2>2. PinPart(v)'
      BY <2>1 DEF PinPart
    <2>3. ASSUME thefts = 0
          PROVE  call[v].pc = "done" \/ call[v].pc = "released"
      BY <1>0, <1>10, <2>3 DEF LockDiscipline, Holding
    <2>4. ASSUME thefts = 0, call[v].pc = "released", call[v].code = "none"
          PROVE  call[v].cand.rev <= progress'.rev
      <3>1. call[v].cand.rev <= progress.rev /\ call[v].cand.rev \in Nat
        BY <2>1, <2>4, <1>0, CallTypes DEF HeadPart, Docs
      <3> QED
        BY <1>6, <1>7, <2>4, <3>1
    <2>5. HeadPart(v)'
      BY <1>6, <2>1, <2>3, <2>4 DEF HeadPart, Based, Guarded, BeforeCommit
    <2> QED
      BY <2>2, <2>5
  <1>11. StatusTracksProgress'
    <2>1. thefts = 0 => status[1] <= progress'.rev
      <3>1. status[1] \in Nat
        BY <1>0 DEF TypeOK, Shas
      <3> QED
        BY <1>6, <1>7, <3>1 DEF HeadInv, StatusTracksProgress
    <2>2. ASSUME Undamaged
          PROVE  status = progress'.base
      <3>1. \A v \in Writers : call[v].pc # "replaced"
        BY <1>0, <1>6, <2>2 DEF LockDiscipline, Holding
      <3> QED
        BY <1>0, <1>3, <1>5, <1>6, <2>2, <3>1 DEF HeadInv, StatusTracksProgress
    <2> QED
      BY <1>0, <1>2, <1>6, <2>1, <2>2 DEF StatusTracksProgress
  <1> QED
    BY <1>4, <1>8, <1>9, <1>10, <1>11 DEF HeadInv

(* The second rename brings status.md up to the document.                  *)
LEMMA StatusKeepsHead ==
  ASSUME TypeOK, PromiseInv, HeadInv, NEW w \in Writers, CommitStatus(w)
  PROVE  HeadInv'
  <1>0. /\ PinPart(w) /\ HeadPart(w) /\ CallPart(w)
        /\ call[w].pc = "replaced"
        /\ status' = call[w].cand.sha /\ UNCHANGED <<progress, damage>>
    BY DEF HeadInv, PromiseInv, CommitStatus
  <1>1. Advanced(w, "published")
    BY CommitEffect
  <1>2. /\ Alone(w)
        /\ call'[w].pc = "published" /\ call'[w].cand = call[w].cand
        /\ call'[w].code = call[w].code
    BY <1>1 DEF Advanced, Moved
  <1>3. /\ thefts' = thefts /\ Undamaged' = Undamaged
        /\ Undamaged => thefts = 0
    BY <1>0 DEF damage, Undamaged, TypeOK
  <1>4. thefts = 0 => progress = call[w].cand
    BY <1>0 DEF HeadPart
  <1>5. PinPart(w)'
    BY <1>2 DEF PinPart, Based, Guarded, Staged
  <1>6. HeadPart(w)'
    BY <1>0, <1>2, <1>3, <1>4
    DEF HeadPart, CallPart, Based, Guarded, BeforeCommit
  <1>7. ASSUME NEW v \in Writers, v # w
        PROVE  PinPart(v)' /\ HeadPart(v)'
    <2>1. call'[v] = call[v] /\ PinPart(v) /\ HeadPart(v)
      BY <1>2, <1>7 DEF HeadInv, Alone
    <2>2. PinPart(v)'
      BY <2>1 DEF PinPart
    <2>3. HeadPart(v)'
      BY <1>0, <1>3, <2>1 DEF HeadPart
    <2> QED
      BY <2>2, <2>3
  <1>8. StatusTracksProgress'
    <2>1. thefts = 0 => status' = progress.sha
      BY <1>0, <1>4
    <2>2. progress.sha[1] = progress.rev /\ progress.rev \in Nat
      BY CallTypes DEF HeadInv, Docs
    <2> QED
      BY <1>0, <1>3, <2>1, <2>2 DEF StatusTracksProgress
  <1> QED
    BY <1>0, <1>5, <1>6, <1>7, <1>8 DEF HeadInv

LEMMA ReleaseKeepsHead ==
  ASSUME TypeOK, PromiseInv, HeadInv, NEW w \in Writers,
         BeginRelease(w) \/ RemoveOwner(w) \/ RemoveDir(w) \/ Cleanup(w)
  PROVE  HeadInv'
  <1>0. /\ \/ call[w].pc = "published" \/ call[w].pc = "unlinking"
           \/ call[w].pc = "rmdir" \/ call[w].pc = "failing"
        /\ UNCHANGED <<progress, status, damage>>
    BY DEF BeginRelease, RemoveOwner, RemoveDir, Cleanup, disk
  <1>1. /\ PinPart(w) /\ HeadPart(w) /\ CallPart(w)
        /\ thefts' = thefts
    BY <1>0 DEF HeadInv, PromiseInv, damage
  <1>2. /\ call[w].code # "ok"
        /\ call[w].pc = "failing" => call[w].code # "none"
    BY <1>0, <1>1 DEF CallPart
  <1>3. ASSUME NEW code, code # "ok",
               \/ Failed(w, code) /\ code # "none"
               \/ Ended(w, code)
        PROVE  HeadInv'
    <2>1. HeadKept(w)
      BY <1>0, <1>3, QuietKeepsHead DEF Failed, Ended
    <2> QED
      BY <1>3, <2>1, LeavingKeepsHead
  <1>4. ASSUME NEW pc \in {"unlinking", "rmdir", "released"}, Advanced(w, pc)
        PROVE  HeadInv'
    <2>1. /\ Alone(w)
          /\ call'[w].pc = pc /\ call'[w].cand = call[w].cand
          /\ call'[w].code = call[w].code
      BY <1>4 DEF Advanced, Moved
    <2>2. PinPart(w)'
      BY <1>4, <2>1 DEF PinPart, Based, Guarded, Staged
    <2>3. ASSUME thefts = 0, call[w].code = "none"
          PROVE  call[w].cand.rev <= progress.rev
      <3>1. progress.rev \in Nat
        BY CallTypes DEF Docs
      <3> QED
        BY <1>0, <1>1, <1>2, <2>3, <3>1 DEF HeadPart
    <2>4. HeadPart(w)'
      BY <1>0, <1>1, <1>2, <1>4, <2>1, <2>3
      DEF HeadPart, Based, Guarded, BeforeCommit
    <2>5. HeadKept(w)
      BY <1>0, <2>1, QuietKeepsHead
    <2> QED
      BY <2>2, <2>4, <2>5, OthersKeepHead
  <1>5. CASE BeginRelease(w)
    <2>1. Failed(w, "unavailable") \/ Advanced(w, "unlinking")
      BY <1>5, CommitEffect
    <2>2. CASE Failed(w, "unavailable")
      BY <1>3, <2>2
    <2>3. CASE Advanced(w, "unlinking")
      BY <1>4, <2>3
    <2> QED
      BY <2>1, <2>2, <2>3
  <1>6. CASE RemoveOwner(w)
    BY <1>3, <1>4, <1>6, ReleaseEffect
  <1>7. CASE RemoveDir(w)
    BY <1>2, <1>3, <1>4, <1>7, ReleaseEffect
  <1>8. CASE Cleanup(w)
    BY <1>2, <1>3, <1>4, <1>8, ReleaseEffect
  <1> QED
    BY <1>5, <1>6, <1>7, <1>8

LEMMA ReportKeepsHead ==
  ASSUME TypeOK, PromiseInv, HeadInv, NEW w \in Writers, Report(w)
  PROVE  HeadInv'
  <1>0. /\ HeadPart(w) /\ CallPart(w) /\ call[w].pc = "released"
        /\ UNCHANGED <<progress, status, damage>>
        /\ call[w].code = "none"
    BY DEF HeadInv, PromiseInv, Report, CallPart, disk
  <1>1. /\ Alone(w) /\ call'[w].pc = "done"
        /\ call'[w].report = [rev |-> call[w].cand.rev, sha |-> progress.sha]
    BY CommitEffect
  <1>2. PinPart(w)'
    BY <1>1 DEF PinPart, Based, Guarded, Staged
  <1>3. thefts = 0 => progress.sha[1] >= call[w].cand.rev
    <2>1. progress.rev \in Nat /\ call[w].cand.rev \in Nat
      BY CallTypes DEF Docs
    <2> QED
      BY <1>0, <2>1 DEF HeadPart, HeadInv
  <1>4. HeadPart(w)'
    <2>1. /\ call'[w].report.rev = call[w].cand.rev
          /\ call'[w].report.sha = progress.sha
          /\ thefts' = thefts
      BY <1>0, <1>1 DEF damage
    <2> QED
      BY <1>1, <1>3, <2>1 DEF HeadPart, Based, Guarded, BeforeCommit
  <1>5. HeadKept(w)
    BY <1>0, <1>1, QuietKeepsHead
  <1> QED
    BY <1>2, <1>4, <1>5, OthersKeepHead

LEMMA AccidentKeepsHead ==
  ASSUME TypeOK, PromiseInv, HeadInv, NEW w \in Writers,
         Interrupt(w) \/ IOFailure(w)
  PROVE  HeadInv'
  <1>0. CallPart(w) /\ crashes \in Nat /\ thefts \in Nat /\ faults \in Nat
    BY DEF PromiseInv, TypeOK
  <1>1. CASE Interrupt(w)
    <2>1. /\ call[w].pc \in Interruptible
          /\ UNCHANGED <<progress, status, damage>>
      BY <1>1 DEF Interrupt, disk
    <2>2. call[w].pc # "replaced"
      BY <2>1 DEF Interruptible
    <2>3. PICK code \in {"interrupted", "unavailable"} : Failed(w, code)
      BY <1>1, AccidentEffect
    <2>4. HeadKept(w)
      BY <2>1, <2>2, <2>3, QuietKeepsHead DEF Failed
    <2> QED
      BY <2>3, <2>4, LeavingKeepsHead
  <1>2. CASE IOFailure(w)
    <2>1. /\ UNCHANGED <<progress, status, thefts>> /\ ~Undamaged'
      BY <1>0, <1>2 DEF IOFailure, disk, Undamaged
    <2>2. ASSUME NEW code, code # "ok",
                 \/ Failed(w, code) /\ code # "none"
                 \/ Ended(w, code)
          PROVE  HeadInv'
      <3>1. HeadKept(w)
        BY <2>1, <2>2 DEF HeadKept, Failed, Ended
      <3> QED
        BY <2>2, <3>1, LeavingKeepsHead
    <2>3. FaultCodes(w) \subseteq {"data", "unavailable", "temporary"}
      BY DEF FaultCodes
    <2>4. call[w].pc = "failing" => call[w].code # "ok"
      BY <1>0 DEF CallPart
    <2> QED
      BY <1>2, <2>2, <2>3, <2>4, AccidentEffect
  <1> QED
    BY <1>1, <1>2

LEMMA OutsideKeepsHead ==
  ASSUME TypeOK, HeadInv, Outside
  PROVE  HeadInv'
  <1>1. ASSUME UNCHANGED <<progress, status, call, damage>>
        PROVE  HeadInv'
    BY <1>1 DEF HeadInv, StatusTracksProgress, Undamaged, PinPart, HeadPart,
                damage
  <1>2. CASE StealOwner \/ RemoveLockByHand
    <2>1. Rob /\ UNCHANGED <<progress, status>> /\ thefts' = thefts + 1
          /\ UNCHANGED <<crashes, faults>>
      BY <1>2 DEF StealOwner, RemoveLockByHand
    <2>2. thefts' # 0 /\ ~Undamaged'
      BY <2>1 DEF Undamaged, TypeOK
    <2>3. ASSUME NEW w \in Writers
          PROVE  PinPart(w)' /\ HeadPart(w)'
      <3>1. call'[w] \in {call[w], [call[w] EXCEPT !.robbed = TRUE]}
        BY <2>1 DEF Rob
      <3>2. call[w] \in Calls /\ PinPart(w)
        BY DEF TypeOK, HeadInv
      <3>3. /\ call'[w].pc = call[w].pc /\ call'[w].pin = call[w].pin
            /\ call'[w].base = call[w].base /\ call'[w].cand = call[w].cand
            /\ call'[w].active = call[w].active
            /\ call'[w].kind = call[w].kind
        BY <3>1, <3>2 DEF Calls
      <3> QED
        BY <2>2, <3>2, <3>3 DEF PinPart, HeadPart
    <2> QED
      BY <2>1, <2>2, <2>3 DEF HeadInv, StatusTracksProgress
  <1>3. CASE ClearOrphan \/ Drift \/ \E a \in Receipts : WriteReceipt(a)
    BY <1>1, <1>3 DEF ClearOrphan, Drift, WriteReceipt, disk
  <1> QED
    BY <1>2, <1>3 DEF Outside

LEMMA HeadStep ==
  TypeInv /\ LockDiscipline /\ PromiseInv /\ FrozenInv /\ HeadInv /\ [Next]_vars
    => HeadInv'
  <1> SUFFICES ASSUME TypeInv, LockDiscipline, PromiseInv, FrozenInv, HeadInv,
                      [Next]_vars
               PROVE  HeadInv'
    OBVIOUS
  <1>0. TypeOK
    BY DEF TypeInv
  <1>1. ASSUME NEW w \in Writers, Call(w)
        PROVE  HeadInv'
    BY <1>0, <1>1, StartKeepsHead, LoadKeepsHead, CheckKeepsHead,
       CommitKeepsHead, StatusKeepsHead, ReleaseKeepsHead, ReportKeepsHead,
       AccidentKeepsHead
    DEF Call, Step
  <1>2. ASSUME UNCHANGED <<progress, status, call, damage>>
        PROVE  HeadInv'
    BY <1>2 DEF HeadInv, StatusTracksProgress, Undamaged, PinPart, HeadPart,
                damage
  <1>3. CASE \E r \in Readers : Look(r)
    BY <1>2, <1>3
    DEF Look, ReadProgress, LookAtInputs, CheckWorld, CompareView, disk
  <1>4. CASE UNCHANGED vars
    BY <1>2, <1>4 DEF vars, disk
  <1> QED
    BY <1>0, <1>1, <1>3, <1>4, OutsideKeepsHead DEF Next

LEMMA HeadInit == Init => HeadInv
  <1> SUFFICES ASSUME Init PROVE HeadInv
    OBVIOUS
  <1>1. ASSUME NEW w \in Writers
        PROVE  PinPart(w) /\ HeadPart(w)
    <2>1. call[w].pc = "done" /\ call[w].code = "none"
      BY DEF Init, Idle
    <2> QED
      BY <2>1 DEF PinPart, HeadPart, Based, Guarded, Staged, BeforeCommit
  <1>2. /\ progress.sha[1] = 1 /\ progress.rev = 1 /\ status = progress.sha
    BY DEF Init, Genesis
  <1> QED
    BY <1>1, <1>2 DEF HeadInv, StatusTracksProgress

THEOREM HeadInvariant == Spec => []HeadInv
  BY HeadInit, HeadStep, StoreTypeInvariant, LockExcludes, PromiseInvariant,
     FrozenInvariant, PTL DEF Spec


(* status.md shows the document on disk, or lags by the one commit in      *)
(* flight: between the two renames of CommitProgress and CommitStatus, and *)
(* only there.                                                             *)
THEOREM StatusFollowsProgress == Spec => []StatusTracksProgress
  <1>1. HeadInv => StatusTracksProgress
    BY DEF HeadInv
  <1> QED
    BY <1>1, HeadInvariant, PTL

(* The hash a successful call prints, read after the lock is gone, is      *)
(* never of an older document than the revision printed with it.           *)
THEOREM ReportIsNotOlder == Spec => []ReportNotOlder
  <1>1. HeadInv => ReportNotOlder
    BY DEF HeadInv, HeadPart, ReportNotOlder
  <1> QED
    BY <1>1, HeadInvariant, PTL

(* --expect-rev and --expect-sha: what is written over progress.json is a  *)
(* successor of exactly the pinned document, even when locks are stolen.   *)
THEOREM PinnedCommitsFollow == Spec => []PinnedCommitFollowsBase
  <1>1. HeadInv => PinnedCommitFollowsBase
    <2> SUFFICES ASSUME HeadInv, NEW w \in Writers,
                        call[w].pc = "replaced", call[w].pin # NoPin
                 PROVE  /\ call[w].cand.rev = call[w].pin.rev + 1
                        /\ call[w].cand.base = call[w].pin.sha
      BY DEF PinnedCommitFollowsBase
    <2>1. PinPart(w)
      BY DEF HeadInv
    <2>2. /\ call[w].pin.sha = call[w].base
          /\ call[w].pin.rev = call[w].active.rev
          /\ TransitionValid(call[w].active, call[w].cand, call[w].base,
                             Founding)
      BY <2>1 DEF PinPart
    <2> QED
      BY <2>2 DEF TransitionValid
  <1> QED
    BY <1>1, HeadInvariant, PTL

-----------------------------------------------------------------------------
(* What a reader sees.                                                     *)

(* A verdict is given in the step to "idle", not before it.                *)
Unjudged == \A r \in Readers : look[r].pc # "idle" => look[r].view = "none"

LEMMA CallsLookAway ==
  ASSUME NEW w \in Writers, Call(w) PROVE UNCHANGED look
  <1>1. Step(w) => UNCHANGED look
    BY DEF Step, LoadActive, HashActive, RecordLock, VerifyLock,
           LoadCandidate, CheckTerminal, ObserveInputs, ObserveTrace,
           Validate, Rehash, Recheck, CommitProgress, CommitStatus,
           BeginRelease, RemoveOwner, RemoveDir, Cleanup, Report
  <1> QED
    BY <1>1 DEF Call, AcquireLock, LockBusy, Interrupt, IOFailure, Crash

LEMMA OutsideLooksAway == Outside => UNCHANGED look
  BY DEF Outside, ClearOrphan, StealOwner, RemoveLockByHand, WriteReceipt,
         Drift

LEMMA UnjudgedInvariant == Spec => []Unjudged
  <1>0. TypeInv => TypeOK
    BY DEF TypeInv
  <1>1. Init => Unjudged
    <2>1. Unseen.view = "none"
      BY DEF Unseen
    <2> QED
      BY <2>1 DEF Init, Unjudged
  <1>2. TypeOK /\ Unjudged /\ [Next]_vars => Unjudged'
    <2> SUFFICES ASSUME TypeOK, Unjudged, [Next]_vars PROVE Unjudged'
      OBVIOUS
    <2>1. CASE UNCHANGED look
      BY <2>1 DEF Unjudged
    <2>2. ASSUME NEW r \in Readers, NEW l \in Looks,
                 look' = [look EXCEPT ![r] = l],
                 l.pc # "idle" => l.view = "none"
          PROVE  Unjudged'
      BY <2>2 DEF Unjudged, TypeOK
    <2>3. ASSUME NEW r \in Readers, Look(r)
          PROVE  Unjudged'
      <3>1. look[r] \in Looks /\ progress \in Docs
        BY DEF TypeOK
      <3>2. CASE ReadProgress(r)
        <4> DEFINE l == [Unseen EXCEPT !.pc = "read", !.doc = progress]
        <4>1. l \in Looks /\ l.view = "none"
          BY <3>1, GenesisTyped DEF Looks, Unseen
        <4>2. look' = [look EXCEPT ![r] = l]
          BY <3>2 DEF ReadProgress
        <4> HIDE DEF l
        <4> QED
          BY <4>1, <4>2, <2>2
      <3>3. ASSUME NEW pc \in {"hashed", "checked"},
                   look[r].pc # "idle",
                   \/ look' = [look EXCEPT ![r] = [look[r] EXCEPT !.pc = pc]]
                   \/ look' = [look EXCEPT ![r] = Unseen]
            PROVE  Unjudged'
        <4> DEFINE l == [look[r] EXCEPT !.pc = pc]
        <4>1. l \in Looks /\ l.view = look[r].view
          BY <3>1 DEF Looks
        <4>2. Unseen \in Looks /\ Unseen.view = "none"
          BY GenesisTyped DEF Looks, Unseen
        <4>3. look[r].view = "none"
          BY <3>3 DEF Unjudged
        <4>4. \/ look' = [look EXCEPT ![r] = l]
              \/ look' = [look EXCEPT ![r] = Unseen]
          BY <3>3
        <4> HIDE DEF l
        <4> QED
          BY <4>1, <4>2, <4>3, <4>4, <2>2
      <3>4. CASE LookAtInputs(r)
        BY <3>3, <3>4 DEF LookAtInputs
      <3>5. CASE CheckWorld(r)
        BY <3>3, <3>5 DEF CheckWorld
      <3>6. CASE CompareView(r)
        <4>1. /\ look' = [look EXCEPT ![r] = look'[r]]
              /\ look'[r].pc = "idle"
          BY <3>6 DEF CompareView, Unseen, TypeOK
        <4> QED
          BY <4>1 DEF Unjudged, TypeOK
      <3> QED
        BY <2>3, <3>2, <3>4, <3>5, <3>6 DEF Look
    <2> QED
      BY <2>1, <2>3, CallsLookAway, OutsideLooksAway DEF Next, vars
  <1> QED
    BY <1>0, <1>1, <1>2, StoreTypeInvariant, PTL DEF Spec

(* "mission status" calls status.md stale only while a commit is in        *)
(* flight, has overtaken it, or after a crash, a failure or a theft.       *)
THEOREM StaleViewsAreRaces == Spec => StaleMeansRace
  <1>0. TypeInv => TypeOK
    BY DEF TypeInv
  <1>1. TypeOK /\ HeadInv /\ Unjudged /\ [Next]_vars =>
          [\A r \in Readers :
             look[r].pc = "checked" /\ look'[r].view = "stale"
               => \/ progress # look[r].doc
                  \/ \E w \in Writers : call[w].pc = "replaced"
                  \/ ~Undamaged]_vars
    <2> SUFFICES ASSUME TypeOK, HeadInv, Unjudged, Next,
                        NEW r \in Readers,
                        look[r].pc = "checked", look'[r].view = "stale",
                        progress = look[r].doc,
                        \A w \in Writers : call[w].pc # "replaced",
                        Undamaged
                 PROVE  FALSE
      OBVIOUS
    <2>1. status = progress.sha
      BY DEF HeadInv, StatusTracksProgress
    <2>2. look[r].view = "none"
      BY DEF Unjudged
    <2>3. look' # look
      BY <2>2
    <2>4. PICK q \in Readers : Look(q)
      BY <2>3, CallsLookAway, OutsideLooksAway DEF Next
    <2>5. q = r
      BY <2>2, <2>4
      DEF Look, ReadProgress, LookAtInputs, CheckWorld, CompareView, TypeOK
    <2>6. CompareView(r)
      BY <2>4, <2>5 DEF Look, ReadProgress, LookAtInputs, CheckWorld
    <2>7. look'[r] = [Unseen EXCEPT !.view = "current"]
      BY <2>1, <2>6 DEF CompareView, TypeOK
    <2> QED
      BY <2>7 DEF Unseen
  <1> QED
    BY <1>0, <1>1, HeadInvariant, StoreTypeInvariant, UnjudgedInvariant,
       PTL DEF Spec, StaleMeansRace

-----------------------------------------------------------------------------
(* The ledger.                                                             *)

LEMMA CallsLeaveTheftsAlone ==
  ASSUME NEW w \in Writers, Call(w) PROVE thefts' = thefts
  <1>1. Step(w) => thefts' = thefts
    BY DEF Step, LoadActive, HashActive, RecordLock, VerifyLock,
           LoadCandidate, CheckTerminal, ObserveInputs, ObserveTrace,
           Validate, Rehash, Recheck, CommitProgress, CommitStatus,
           BeginRelease, RemoveOwner, RemoveDir, Cleanup, Report, damage
  <1> QED
    BY <1>1 DEF Call, AcquireLock, LockBusy, Interrupt, IOFailure, Crash,
                damage

LEMMA NoTheftInvariant ==
  ASSUME MaxThefts = 0 PROVE Spec => [](thefts = 0)
  <1>1. Init => thefts = 0
    BY DEF Init
  <1>2. thefts = 0 /\ [Next]_vars => (thefts = 0)'
    <2> SUFFICES ASSUME thefts = 0, [Next]_vars PROVE thefts' = 0
      OBVIOUS
    <2>1. ASSUME NEW r \in Readers, Look(r)
          PROVE  thefts' = thefts
      BY <2>1
      DEF Look, ReadProgress, LookAtInputs, CheckWorld, CompareView, damage
    <2>2. Outside => thefts' = thefts
      BY DEF Outside, ClearOrphan, StealOwner, RemoveLockByHand, WriteReceipt,
             Drift, damage
    <2>3. UNCHANGED vars => thefts' = thefts
      BY DEF vars, damage
    <2> QED
      BY <2>1, <2>2, <2>3, CallsLeaveTheftsAlone DEF Next
  <1> QED
    BY <1>1, <1>2, PTL DEF Spec

(* The two modules read the same rules.                                    *)
LEMMA SameRules ==
  ASSUME NEW prev, NEW cur, NEW sha, NEW fp, TransitionValid(prev, cur, sha, fp)
  PROVE  Ledger!TransitionValid(prev, cur, sha, fp)
  BY Zenon
  DEF TransitionValid, ProgressValid, StatusFitsPhase, OneApprovalPerGate,
      Accepted, PhaseStep, HistoryKept, GatesPassed, Gates,
      Ledger!TransitionValid, Ledger!ProgressValid, Ledger!StatusFitsPhase,
      Ledger!OneApprovalPerGate, Ledger!Accepted, Ledger!PhaseStep,
      Ledger!HistoryKept, Ledger!GatesPassed, Ledger!Gates

LEMMA LedgerAppends ==
  ASSUME TypeOK, FrozenInv, HeadInv, thefts = 0, NEW w \in Writers,
         CommitProgress(w)
  PROVE  Ledger!Next
  <1> DEFINE cand == call[w].cand
  <1>1. /\ call[w].pc = "cleared" /\ progress' = cand
        /\ issued' = issued
    BY DEF CommitProgress, people
  <1>2. /\ PinPart(w) /\ HeadPart(w)
        /\ progress.sha[1] = progress.rev
        /\ Bound(progress) /\ Bound(cand)
        /\ call[w] \in Calls /\ progress \in Docs
    BY <1>1 DEF HeadInv, FrozenInv, TypeOK, Staged
  <1>3. /\ call[w].active = progress /\ call[w].base = progress.sha
        /\ progress.rev < MaxRevision
    BY <1>1, <1>2 DEF HeadPart, Based, BeforeCommit
  <1>4. /\ cand.sha = <<progress.rev + 1, w>>
        /\ TransitionValid(progress, cand, progress.sha, Founding)
    BY <1>1, <1>2, <1>3 DEF PinPart, Staged
  <1>5. cand \in Docs /\ progress.rev \in Nat
    BY <1>2 DEF Calls, Docs
  <1>6. /\ cand.rev = progress.rev + 1 /\ cand.base = progress.sha
        /\ cand.fp = Founding /\ progress.fp = Founding
    BY <1>2, <1>4 DEF Bound, TransitionValid
  <1>7. cand = [rev |-> progress.rev + 1, sha |-> cand.sha,
                base |-> progress.sha, fp |-> progress.fp,
                phase |-> cand.phase, status |-> cand.status,
                approvals |-> cand.approvals]
    BY <1>5, <1>6 DEF Docs
  <1>8. /\ cand.sha \in (1..MaxRevision) \X (Writers \union {Founder})
        /\ cand.sha # progress.sha
    <2>1. progress.rev + 1 \in 1..MaxRevision
      BY <1>3, <1>5, StoreAssumption
    <2>2. cand.sha[1] # progress.sha[1]
      BY <1>2, <1>4, <1>5
    <2> QED
      BY <1>4, <2>1, <2>2
  <1>9. /\ cand.approvals \in SUBSET issued
        /\ \A a \in cand.approvals : a.fp = progress.fp
    BY <1>2, <1>6 DEF Bound
  <1>10. /\ cand.phase \in Ledger!Phases
         /\ cand.status \in Ledger!Statuses
    BY <1>5 DEF Docs, Phases, Statuses, Ledger!Phases, Ledger!Statuses
  <1>11. Ledger!TransitionValid(progress, cand, progress.sha, progress.fp)
    BY <1>4, <1>6, SameRules
  <1> HIDE DEF cand
  <1>12. Ledger!Append(cand)
    BY <1>1, <1>3, <1>8, <1>9, <1>11 DEF Ledger!Append
  <1> QED
    BY <1>7, <1>8, <1>9, <1>10, <1>12 DEF Ledger!Next

LEMMA LedgerStep ==
  ASSUME TypeOK, FrozenInv, HeadInv, thefts = 0, [Next]_vars
  PROVE  [Ledger!Next]_<<progress, issued>>
  <1>1. ASSUME NEW w \in Writers, Call(w)
        PROVE  CommitProgress(w) \/ UNCHANGED <<progress, issued>>
    <2>1. Step(w) => CommitProgress(w) \/ UNCHANGED <<progress, issued>>
      BY DEF Step, LoadActive, HashActive, RecordLock, VerifyLock,
             LoadCandidate, CheckTerminal, ObserveInputs, ObserveTrace,
             Validate, Rehash, Recheck, CommitStatus, BeginRelease,
             RemoveOwner, RemoveDir, Cleanup, Report, disk, people
    <2> QED
      BY <1>1, <2>1 DEF Call, AcquireLock, LockBusy, Interrupt, IOFailure,
                        Crash, disk, people
  <1>2. ASSUME NEW a \in Receipts, WriteReceipt(a)
        PROVE  Ledger!Next
    BY <1>2 DEF WriteReceipt, Ledger!Next, Ledger!Issue, disk
  <1>3. ClearOrphan \/ StealOwner \/ RemoveLockByHand \/ Drift
          => UNCHANGED <<progress, issued>>
    BY DEF ClearOrphan, StealOwner, RemoveLockByHand, Drift, disk, people
  <1>4. ASSUME NEW r \in Readers, Look(r)
        PROVE  UNCHANGED <<progress, issued>>
    BY <1>4
    DEF Look, ReadProgress, LookAtInputs, CheckWorld, CompareView, disk, people
  <1>5. UNCHANGED vars => UNCHANGED <<progress, issued>>
    BY DEF vars, disk, people
  <1> QED
    BY <1>1, <1>2, <1>3, <1>4, <1>5, LedgerAppends DEF Next, Outside

(* As long as nobody takes a lock by hand, the whole machinery of locks,   *)
(* temporary files, rechecks and renames amounts to MissionLedger: every   *)
(* change of progress.json is a compare-and-swap of the head by a legal    *)
(* successor that carries only what a human issued.                        *)
THEOREM StoreImplementsLedger ==
  ASSUME MaxThefts = 0 PROVE Spec => ImplementsLedger
  <1>0. TypeInv => TypeOK
    BY DEF TypeInv
  <1>1. Init => Ledger!Init
    BY DEF Init, Ledger!Init
  <1>2. TypeOK /\ FrozenInv /\ HeadInv /\ thefts = 0 /\ [Next]_vars
          => [Ledger!Next]_<<progress, issued>>
    BY LedgerStep
  <1> QED
    BY <1>0, <1>1, <1>2, StoreTypeInvariant, FrozenInvariant, HeadInvariant,
       NoTheftInvariant, PTL
    DEF Spec, ImplementsLedger, Ledger!Spec, Ledger!vars
=============================================================================
