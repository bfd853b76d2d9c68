------------------------- MODULE MissionStoreProofs -------------------------
(***************************************************************************)
(* Theorems about MissionStore, for any number of writers and readers, any *)
(* sources, receipts and drafts, and any bound on crashes, thefts and      *)
(* failures.                                                               *)
(***************************************************************************)
EXTENDS MissionStore, TLAPS

-----------------------------------------------------------------------------
(* Type correctness.                                                       *)

LEMMA GenesisTyped == Genesis \in Docs
  BY StoreAssumption
  DEF Genesis, Docs, Shas, Phases, Statuses

LEMMA IdleTyped == Idle \in Calls
  BY GenesisTyped, StoreAssumption
  DEF Idle, Calls, Pcs, BeforeCommit, AfterCommit, Codes

(* TypeOK is not inductive by itself: a predecessor's revision is a number *)
(* only because revisions start at 1, and an owner record names a hash     *)
(* only because the call that writes it has read one.                      *)
TypeInv ==
  /\ TypeOK
  /\ progress.rev >= 1
  /\ \A w \in Writers :
       /\ call[w].pc = "pinned" => call[w].base \in Shas
       /\ call[w].pc \in {"staged", "rehashed", "cleared"}
            => call[w].cand.rev >= 1

LEMMA CallTypes ==
  ASSUME TypeOK, NEW w \in Writers
  PROVE  /\ call[w] \in Calls
         /\ progress \in Docs
         /\ world \in Fps
         /\ call[w].active \in Docs
         /\ call[w].cand \in Docs
         /\ call[w].seen \in Fps
         /\ call[w].code \in Codes
  BY DEF TypeOK, Calls

LEMMA BecomesTyped ==
  ASSUME TypeOK, NEW w \in Writers, NEW c \in Calls, Becomes(w, c)
  PROVE  /\ call' \in [Writers -> Calls]
         /\ call'[w] = c
         /\ \A v \in Writers \ {w} : call'[v] = call[v]
  BY DEF TypeOK, Becomes

(* The three ways a call can leave its sequence.                           *)
LEMMA ExitTyped ==
  ASSUME TypeOK, NEW w \in Writers, NEW code \in Codes, Exit(w, code)
  PROVE  /\ call' \in [Writers -> Calls]
         /\ call'[w].pc = "done"
         /\ \A v \in Writers \ {w} : call'[v] = call[v]
  <1> DEFINE c == [Idle EXCEPT !.code = code, !.committed = call[w].committed,
                               !.robbed = call[w].robbed,
                               !.report = call[w].report]
  <1>1. c \in Calls /\ c.pc = "done"
    BY CallTypes, IdleTyped DEF Calls, Idle
  <1> HIDE DEF c
  <1>2. Becomes(w, c)
    BY DEF Exit, c
  <1> QED
    BY <1>1, <1>2, BecomesTyped

LEMMA FailTyped ==
  ASSUME TypeOK, NEW w \in Writers, NEW code \in Codes, Fail(w, code)
  PROVE  /\ call' \in [Writers -> Calls]
         /\ call'[w].pc = "failing"
         /\ \A v \in Writers \ {w} : call'[v] = call[v]
  <1> DEFINE c == [Idle EXCEPT !.pc = "failing", !.code = code,
                               !.active = call[w].active, !.base = call[w].base,
                               !.recorded = call[w].recorded,
                               !.committed = call[w].committed,
                               !.robbed = call[w].robbed]
  <1>1. c \in Calls /\ c.pc = "failing"
    BY CallTypes, IdleTyped DEF Calls, Idle, Pcs
  <1> HIDE DEF c
  <1>2. Becomes(w, c)
    BY DEF Fail, c
  <1> QED
    BY <1>1, <1>2, BecomesTyped

LEMMA RemovalFailedTyped ==
  ASSUME TypeOK, NEW w \in Writers, RemovalFailed(w)
  PROVE  /\ call' \in [Writers -> Calls]
         /\ call'[w].pc \in {"done", "failing"}
         /\ \A v \in Writers \ {w} : call'[v] = call[v]
  BY ExitTyped, FailTyped DEF RemovalFailed, Codes

(* What a step of one call has to show.                                    *)
LEMMA OneCallKeepsTypes ==
  ASSUME TypeInv, NEW w \in Writers,
         call' \in [Writers -> Calls],
         \A v \in Writers \ {w} : call'[v] = call[v],
         call'[w].pc = "pinned" => call'[w].base \in Shas,
         call'[w].pc \in {"staged", "rehashed", "cleared"}
           => call'[w].cand.rev >= 1,
         progress' \in Docs, progress'.rev >= 1, status' \in Shas,
         lockDir' \in BOOLEAN, owner' \in Owners \union {NoOwner},
         UNCHANGED <<people, look>>,
         crashes' \in Nat, thefts' \in Nat, faults' \in Nat
  PROVE  TypeInv'
  <1>1. TypeOK'
    BY DEF TypeInv, TypeOK, people
  <1>2. ASSUME NEW v \in Writers
        PROVE  /\ call'[v].pc = "pinned" => call'[v].base \in Shas
               /\ call'[v].pc \in {"staged", "rehashed", "cleared"}
                    => call'[v].cand.rev >= 1
    <2>1. CASE v = w
      BY <2>1
    <2>2. CASE v # w
      BY <2>2 DEF TypeInv
    <2> QED
      BY <2>1, <2>2
  <1> QED
    BY <1>1, <1>2 DEF TypeInv

(* The same for a step that leaves the disk alone.                         *)
LEMMA QuietStepKeepsTypes ==
  ASSUME TypeInv, NEW w \in Writers,
         call' \in [Writers -> Calls],
         \A v \in Writers \ {w} : call'[v] = call[v],
         call'[w].pc = "pinned" => call'[w].base \in Shas,
         call'[w].pc \in {"staged", "rehashed", "cleared"}
           => call'[w].cand.rev >= 1,
         UNCHANGED <<disk, people, look>>,
         crashes' \in Nat, thefts' \in Nat, faults' \in Nat
  PROVE  TypeInv'
  BY OneCallKeepsTypes DEF TypeInv, TypeOK, disk

LEMMA ExitKeepsTypes ==
  ASSUME TypeInv, NEW w \in Writers, NEW code \in Codes,
         Exit(w, code) \/ Fail(w, code) \/ RemovalFailed(w),
         UNCHANGED <<disk, people, look>>,
         crashes' \in Nat, thefts' \in Nat, faults' \in Nat
  PROVE  TypeInv'
  <1>1. TypeOK
    BY DEF TypeInv
  <1> QED
    BY <1>1, ExitTyped, FailTyped, RemovalFailedTyped, QuietStepKeepsTypes

(* The next ordinary step of a call, to the record c.                      *)
LEMMA GoOnKeepsTypes ==
  ASSUME TypeInv, NEW w \in Writers, NEW c \in Calls, Becomes(w, c),
         c.pc = "pinned" => c.base \in Shas,
         c.pc \in {"staged", "rehashed", "cleared"} => c.cand.rev >= 1,
         UNCHANGED <<disk, people, look, damage>>
  PROVE  TypeInv'
  BY BecomesTyped, QuietStepKeepsTypes DEF TypeInv, TypeOK, damage

LEMMA LockingKeepsTypes ==
  ASSUME TypeInv, NEW w \in Writers
  PROVE  /\ AcquireLock(w) => TypeInv'
         /\ LockBusy(w) => TypeInv'
         /\ RecordLock(w) => TypeInv'
         /\ VerifyLock(w) => TypeInv'
  <1>0. /\ TypeOK /\ status \in Shas /\ lockDir \in BOOLEAN
        /\ owner \in Owners \union {NoOwner}
        /\ crashes \in Nat /\ thefts \in Nat /\ faults \in Nat
        /\ call[w] \in Calls
        /\ progress \in Docs /\ progress.rev \in Nat /\ progress.rev >= 1
        /\ progress.sha \in Shas /\ progress.base \in Shas \union {NoBase}
    BY DEF TypeInv, TypeOK, Docs
  <1>1. ASSUME AcquireLock(w) PROVE TypeInv'
    <2>1. PinsKnown(w) \subseteq Pins
      <3>1. progress.rev - 1 \in Nat /\ call[w].report \in Pins \union {NoPin}
        BY <1>0 DEF Calls
      <3> QED
        BY <1>0, <3>1 DEF PinsKnown, Pins
    <2>2. PICK pin \in Pins \union {NoPin}, kind \in {"resume", "checkpoint"} :
            Becomes(w, Started(kind, pin))
      BY <1>1, <2>1 DEF AcquireLock
    <2>3. Started(kind, pin) \in Calls /\ Started(kind, pin).pc = "locked"
      BY IdleTyped DEF Started, Calls, Pcs, BeforeCommit, Idle
    <2> QED
      BY <1>0, <1>1, <2>2, <2>3, BecomesTyped, OneCallKeepsTypes
      DEF AcquireLock, damage
  <1>2. ASSUME LockBusy(w) PROVE TypeInv'
    <2>1. [Idle EXCEPT !.code = "temporary"] \in Calls
      BY IdleTyped DEF Calls, Codes
    <2>2. [Idle EXCEPT !.code = "temporary"].pc = "done"
      BY DEF Idle
    <2> QED
      BY <1>2, <2>1, <2>2, GoOnKeepsTypes DEF LockBusy
  <1>3. ASSUME RecordLock(w), lockDir PROVE TypeInv'
    <2>1. OwnRecord(w) \in Owners
      <3>1. call[w].base \in Shas /\ call[w].active.rev \in Nat
        BY <1>0, <1>3 DEF RecordLock, TypeInv, Calls, Docs
      <3> QED
        BY <3>1 DEF OwnRecord, Owners
    <2> DEFINE c == [call[w] EXCEPT !.pc = "recorded", !.recorded = TRUE]
    <2>2. c \in Calls /\ c.pc = "recorded"
      BY <1>0 DEF Calls, Pcs, BeforeCommit
    <2>3. Becomes(w, c)
      BY <1>3 DEF RecordLock
    <2> HIDE DEF c
    <2> QED
      BY <1>0, <1>3, <2>1, <2>2, <2>3, BecomesTyped, OneCallKeepsTypes
      DEF RecordLock, damage
  <1>4. ASSUME RecordLock(w), ~lockDir PROVE TypeInv'
    BY <1>0, <1>4, ExitKeepsTypes DEF RecordLock, Codes, disk, damage
  <1>5. ASSUME VerifyLock(w) PROVE TypeInv'
    <2>1. /\ [call[w] EXCEPT !.pc = "verified"] \in Calls
          /\ [call[w] EXCEPT !.pc = "verified"].pc = "verified"
      BY <1>0 DEF Calls, Pcs, BeforeCommit
    <2> QED
      BY <1>0, <1>5, <2>1, GoOnKeepsTypes, ExitKeepsTypes
      DEF VerifyLock, Codes, damage
  <1> QED
    BY <1>1, <1>2, <1>3, <1>4, <1>5

(* A step that only moves the program counter.                             *)
LEMMA AdvanceTyped ==
  ASSUME TypeOK, NEW w \in Writers, NEW pc \in Pcs
  PROVE  /\ [call[w] EXCEPT !.pc = pc] \in Calls
         /\ [call[w] EXCEPT !.pc = pc].pc = pc
         /\ [call[w] EXCEPT !.pc = pc].cand = call[w].cand
  BY CallTypes DEF Calls

LEMMA LoadingKeepsTypes ==
  ASSUME TypeInv, NEW w \in Writers
  PROVE  /\ LoadActive(w) => TypeInv'
         /\ HashActive(w) => TypeInv'
         /\ LoadCandidate(w) => TypeInv'
         /\ CheckTerminal(w) => TypeInv'
         /\ ObserveInputs(w) => TypeInv'
         /\ ObserveTrace(w) => TypeInv'
  <1>0. /\ TypeOK
        /\ crashes \in Nat /\ thefts \in Nat /\ faults \in Nat
        /\ call[w] \in Calls /\ call[w].active \in Docs
        /\ call[w].base \in Shas \union {NoBase}
        /\ call[w].seen \in Fps /\ world \in Fps
        /\ progress \in Docs /\ progress.sha \in Shas
    BY DEF TypeInv, TypeOK, Docs, Calls
  <1>1. ASSUME LoadActive(w) PROVE TypeInv'
    <2> DEFINE c == [call[w] EXCEPT !.pc = "loaded", !.active = progress]
    <2>1. c \in Calls /\ c.pc = "loaded"
      BY <1>0 DEF Calls, Pcs, BeforeCommit
    <2>2. Becomes(w, c) \/ Fail(w, "data")
      BY <1>1 DEF LoadActive
    <2> HIDE DEF c
    <2> QED
      BY <1>0, <1>1, <2>1, <2>2, GoOnKeepsTypes, ExitKeepsTypes
      DEF LoadActive, Codes, damage
  <1>2. ASSUME HashActive(w) PROVE TypeInv'
    <2> DEFINE c == [call[w] EXCEPT !.pc = "pinned", !.base = progress.sha]
    <2>1. c \in Calls /\ c.pc = "pinned" /\ c.base \in Shas
      BY <1>0 DEF Calls, Pcs, BeforeCommit
    <2>2. Becomes(w, c) \/ Fail(w, "temporary")
      BY <1>2 DEF HashActive
    <2> HIDE DEF c
    <2> QED
      BY <1>0, <1>2, <2>1, <2>2, GoOnKeepsTypes, ExitKeepsTypes
      DEF HashActive, Codes, damage
  <1>3. ASSUME LoadCandidate(w) PROVE TypeInv'
    <2>1. PICK cand \in Candidates(w) :
            \/ Becomes(w, [call[w] EXCEPT !.pc = "drafted", !.cand = cand])
            \/ Fail(w, "data")
      BY <1>3 DEF LoadCandidate
    <2>2. cand \in Docs
      <3>1. PICK d \in Drafts,
                 rev \in {call[w].active.rev, call[w].active.rev + 1},
                 base \in {call[w].base, call[w].active.base},
                 fp \in {call[w].active.fp, world} :
              cand = [rev |-> rev, sha |-> <<call[w].active.rev + 1, w>>,
                      base |-> base, fp |-> fp, phase |-> d.phase,
                      status |-> d.status, approvals |-> d.approvals]
        BY DEF Candidates
      <3>2. d \in Draft
        BY StoreAssumption
      <3>3. /\ call[w].active.rev \in Nat
            /\ call[w].active.base \in Shas \union {NoBase}
            /\ call[w].active.fp \in Fps
        BY <1>0 DEF Docs
      <3>4. <<call[w].active.rev + 1, w>> \in Shas
        BY <3>3 DEF Shas
      <3> QED
        BY <1>0, <3>1, <3>2, <3>3, <3>4 DEF Docs, Draft
    <2> DEFINE c == [call[w] EXCEPT !.pc = "drafted", !.cand = cand]
    <2>3. c \in Calls /\ c.pc = "drafted"
      BY <1>0, <2>2 DEF Calls, Pcs, BeforeCommit
    <2>4. Becomes(w, c) \/ Fail(w, "data")
      BY <2>1
    <2> HIDE DEF c
    <2> QED
      BY <1>0, <1>3, <2>3, <2>4, GoOnKeepsTypes, ExitKeepsTypes
      DEF LoadCandidate, Codes, damage
  <1>4. ASSUME CheckTerminal(w) PROVE TypeInv'
    <2>1. "drafted" \in Pcs
      BY DEF Pcs, BeforeCommit
    <2> QED
      BY <1>0, <1>4, <2>1, AdvanceTyped, GoOnKeepsTypes, ExitKeepsTypes
      DEF CheckTerminal, Codes, damage
  <1>5. ASSUME ObserveInputs(w) PROVE TypeInv'
    <2> DEFINE c == [call[w] EXCEPT !.pc = "observing",
                                    !.seen.inputs = world.inputs]
    <2>1. c \in Calls /\ c.pc = "observing"
      BY <1>0 DEF Calls, Pcs, BeforeCommit, Fps
    <2>2. Becomes(w, c)
      BY <1>5 DEF ObserveInputs
    <2> HIDE DEF c
    <2> QED
      BY <1>5, <2>1, <2>2, GoOnKeepsTypes DEF ObserveInputs
  <1>6. ASSUME ObserveTrace(w) PROVE TypeInv'
    <2> DEFINE seen == [call[w].seen EXCEPT !.trace = world.trace]
               c == [call[w] EXCEPT !.pc = "approving", !.seen = seen]
    <2>1. c \in Calls /\ c.pc = "approving"
      <3>1. seen \in Fps
        BY <1>0 DEF Fps
      <3> HIDE DEF seen
      <3> QED
        BY <1>0, <3>1 DEF Calls, Pcs, BeforeCommit
    <2>2. Becomes(w, c) \/ Fail(w, "temporary")
      BY <1>6 DEF ObserveTrace
    <2> HIDE DEF c
    <2> QED
      BY <1>0, <1>6, <2>1, <2>2, GoOnKeepsTypes, ExitKeepsTypes
      DEF ObserveTrace, Codes, damage
  <1> QED
    BY <1>1, <1>2, <1>3, <1>4, <1>5, <1>6

(* What the validation of a call says, and what it lets through.           *)
LEMMA RejectionCodes ==
  ASSUME NEW w \in Writers
  PROVE  /\ Rejection(w) \in {"none", "data", "temporary"}
         /\ Rejection(w) = "none" =>
              /\ ReceiptsMatch(IF call[w].kind = "resume" THEN call[w].active
                                                         ELSE call[w].cand,
                               files, call[w].seen)
              /\ TransitionValid(call[w].active, Proposed(w), call[w].base,
                                 call[w].seen)
  BY DEF Rejection

LEMMA ProposedTyped ==
  ASSUME TypeOK, NEW w \in Writers
  PROVE  Proposed(w) \in Docs
  <1>1. /\ call[w] \in Calls /\ call[w].active \in Docs
        /\ call[w].cand \in Docs /\ call[w].seen \in Fps
        /\ call[w].base \in Shas \union {NoBase}
    BY DEF TypeOK, Calls
  <1>2. call[w].active.rev + 1 \in Nat
    BY <1>1 DEF Docs
  <1>3. <<call[w].active.rev + 1, w>> \in Shas
    BY <1>2 DEF Shas
  <1>4. Renewed(w) \in Docs
    BY <1>1, <1>2, <1>3 DEF Renewed, Docs
  <1> QED
    BY <1>1, <1>4 DEF Proposed

LEMMA CommittingKeepsTypes ==
  ASSUME TypeInv, NEW w \in Writers
  PROVE  /\ Validate(w) => TypeInv'
         /\ Rehash(w) => TypeInv'
         /\ Recheck(w) => TypeInv'
         /\ CommitProgress(w) => TypeInv'
         /\ CommitStatus(w) => TypeInv'
  <1>0. /\ TypeOK
        /\ lockDir \in BOOLEAN /\ owner \in Owners \union {NoOwner}
        /\ crashes \in Nat /\ thefts \in Nat /\ faults \in Nat
        /\ call[w] \in Calls /\ call[w].cand \in Docs
        /\ call[w].cand.sha \in Shas
        /\ progress \in Docs /\ progress.rev >= 1 /\ status \in Shas
        /\ {"rehashed", "cleared", "published"} \subseteq Pcs
    BY DEF TypeInv, TypeOK, Docs, Calls, Pcs, BeforeCommit, AfterCommit
  <1>1. ASSUME Validate(w) PROVE TypeInv'
    <2>1. CASE Rejection(w) = "none"
      <3> DEFINE c == [call[w] EXCEPT !.pc = "staged", !.cand = Proposed(w)]
      <3>1. Proposed(w).rev >= 1
        BY <2>1, RejectionCodes DEF TransitionValid, ProgressValid
      <3>2. c \in Calls /\ c.pc = "staged" /\ c.cand.rev >= 1
        BY <1>0, <3>1, ProposedTyped DEF Calls, Pcs, BeforeCommit
      <3>3. Becomes(w, c)
        BY <1>1, <2>1 DEF Validate
      <3> HIDE DEF c
      <3> QED
        BY <1>1, <3>2, <3>3, GoOnKeepsTypes DEF Validate
    <2>2. CASE Rejection(w) # "none"
      <3>1. Fail(w, Rejection(w)) /\ Rejection(w) \in Codes
        BY <1>1, <2>2, RejectionCodes DEF Validate, Codes
      <3> QED
        BY <1>0, <1>1, <3>1, ExitKeepsTypes DEF Validate, damage
    <2> QED
      BY <2>1, <2>2
  <1>2. ASSUME Rehash(w) PROVE TypeInv'
    <2>1. call[w].cand.rev >= 1
      BY <1>2 DEF Rehash, TypeInv
    <2> QED
      BY <1>0, <1>2, <2>1, AdvanceTyped, GoOnKeepsTypes, ExitKeepsTypes
      DEF Rehash, Codes, damage
  <1>3. ASSUME Recheck(w) PROVE TypeInv'
    <2>1. call[w].cand.rev >= 1
      BY <1>3 DEF Recheck, TypeInv
    <2> QED
      BY <1>0, <1>3, <2>1, AdvanceTyped, GoOnKeepsTypes, ExitKeepsTypes
      DEF Recheck, Codes, damage
  <1>4. ASSUME CommitProgress(w) PROVE TypeInv'
    <2> DEFINE c == [call[w] EXCEPT !.pc = "replaced", !.committed = TRUE]
    <2>1. c \in Calls /\ c.pc = "replaced"
      BY <1>0 DEF Calls, Pcs, AfterCommit
    <2>2. Becomes(w, c)
      BY <1>4 DEF CommitProgress
    <2>3. call[w].cand.rev >= 1
      BY <1>4 DEF CommitProgress, TypeInv
    <2> HIDE DEF c
    <2> QED
      BY <1>0, <1>4, <2>1, <2>2, <2>3, BecomesTyped, OneCallKeepsTypes
      DEF CommitProgress, damage
  <1>5. ASSUME CommitStatus(w) PROVE TypeInv'
    <2> DEFINE c == [call[w] EXCEPT !.pc = "published"]
    <2>1. c \in Calls /\ c.pc = "published"
      BY <1>0, AdvanceTyped
    <2>2. Becomes(w, c)
      BY <1>5 DEF CommitStatus
    <2>3. status' \in Shas
      BY <1>0, <1>5 DEF CommitStatus
    <2> HIDE DEF c
    <2> QED
      BY <1>0, <1>5, <2>1, <2>2, <2>3, BecomesTyped, OneCallKeepsTypes
      DEF CommitStatus, damage
  <1> QED
    BY <1>1, <1>2, <1>3, <1>4, <1>5

LEMMA ReleasingKeepsTypes ==
  ASSUME TypeInv, NEW w \in Writers
  PROVE  /\ BeginRelease(w) => TypeInv'
         /\ RemoveOwner(w) => TypeInv'
         /\ RemoveDir(w) => TypeInv'
         /\ Cleanup(w) => TypeInv'
         /\ Report(w) => TypeInv'
  <1>0. /\ TypeOK
        /\ lockDir \in BOOLEAN /\ owner \in Owners \union {NoOwner}
        /\ crashes \in Nat /\ thefts \in Nat /\ faults \in Nat
        /\ call[w] \in Calls /\ call[w].code \in Codes
        /\ progress \in Docs /\ progress.rev >= 1 /\ status \in Shas
        /\ {"unlinking", "rmdir", "released"} \subseteq Pcs
    BY DEF TypeInv, TypeOK, Docs, Calls, Pcs, BeforeCommit, AfterCommit
  <1>1. ASSUME BeginRelease(w) PROVE TypeInv'
    BY <1>0, <1>1, AdvanceTyped, GoOnKeepsTypes, ExitKeepsTypes
    DEF BeginRelease, Codes, damage
  <1>2. ASSUME RemoveOwner(w) PROVE TypeInv'
    <2>1. CASE owner # NoOwner
      <3>1. owner' = NoOwner /\ Becomes(w, [call[w] EXCEPT !.pc = "rmdir"])
        BY <1>2, <2>1 DEF RemoveOwner
      <3> QED
        BY <1>0, <1>2, <3>1, AdvanceTyped, BecomesTyped, OneCallKeepsTypes
        DEF RemoveOwner, damage
    <2>2. CASE owner = NoOwner
      BY <1>0, <1>2, <2>2, ExitKeepsTypes DEF RemoveOwner, Codes, disk, damage
    <2> QED
      BY <2>1, <2>2
  <1>3. ASSUME RemoveDir(w) PROVE TypeInv'
    <2>1. CASE lockDir /\ owner = NoOwner
      <3>1. lockDir' = FALSE /\ owner' = owner
        BY <1>3, <2>1 DEF RemoveDir
      <3>2. CASE call[w].code = "none"
        <4>1. Becomes(w, [call[w] EXCEPT !.pc = "released"])
          BY <1>3, <2>1, <3>2 DEF RemoveDir
        <4> QED
          BY <1>0, <1>3, <3>1, <4>1, AdvanceTyped, BecomesTyped,
             OneCallKeepsTypes DEF RemoveDir, damage
      <3>3. CASE call[w].code # "none"
        <4>1. Exit(w, call[w].code)
          BY <1>3, <2>1, <3>3 DEF RemoveDir
        <4> QED
          BY <1>0, <1>3, <3>1, <4>1, ExitTyped, OneCallKeepsTypes
          DEF RemoveDir, damage
      <3> QED
        BY <3>2, <3>3
    <2>2. CASE ~(lockDir /\ owner = NoOwner)
      BY <1>0, <1>3, <2>2, ExitKeepsTypes DEF RemoveDir, Codes, disk, damage
    <2> QED
      BY <2>1, <2>2
  <1>4. ASSUME Cleanup(w) PROVE TypeInv'
    BY <1>0, <1>4, AdvanceTyped, GoOnKeepsTypes, ExitKeepsTypes
    DEF Cleanup, damage
  <1>5. ASSUME Report(w) PROVE TypeInv'
    <2> DEFINE c == [Idle EXCEPT !.code = "ok",
                       !.committed = call[w].committed,
                       !.robbed = call[w].robbed,
                       !.report = [rev |-> call[w].cand.rev,
                                   sha |-> progress.sha]]
    <2>1. c \in Calls /\ c.pc = "done"
      <3>1. [rev |-> call[w].cand.rev, sha |-> progress.sha] \in Pins
        BY <1>0 DEF Calls, Docs, Pins
      <3> QED
        BY <1>0, <3>1, IdleTyped DEF Calls, Codes, Idle
    <2>2. Becomes(w, c)
      BY <1>5 DEF Report
    <2> HIDE DEF c
    <2> QED
      BY <1>5, <2>1, <2>2, GoOnKeepsTypes DEF Report
  <1> QED
    BY <1>1, <1>2, <1>3, <1>4, <1>5

LEMMA AccidentsKeepTypes ==
  ASSUME TypeInv, NEW w \in Writers
  PROVE  /\ Interrupt(w) => TypeInv'
         /\ IOFailure(w) => TypeInv'
         /\ Crash(w) => TypeInv'
  <1>0. /\ TypeOK
        /\ crashes \in Nat /\ thefts \in Nat /\ faults \in Nat
        /\ call[w].pc = call[w].pc
    BY DEF TypeInv, TypeOK
  <1>1. ASSUME Interrupt(w) PROVE TypeInv'
    <2>1. InterruptCodes(w) \subseteq Codes
      BY DEF InterruptCodes, Codes
    <2> QED
      BY <1>0, <1>1, <2>1, ExitKeepsTypes DEF Interrupt, damage
  <1>2. ASSUME IOFailure(w) PROVE TypeInv'
    <2>1. PICK code \in Codes :
            Exit(w, code) \/ Fail(w, code) \/ RemovalFailed(w)
      <3>1. FaultCodes(w) \subseteq Codes
        BY DEF FaultCodes, Codes
      <3>2. call[w].code \in Codes
        BY <1>0 DEF TypeOK, Calls
      <3>3. "unavailable" \in Codes
        BY DEF Codes
      <3> QED
        BY <1>2, <3>1, <3>2, <3>3 DEF IOFailure
    <2>2. faults' \in Nat /\ crashes' \in Nat /\ thefts' \in Nat
      BY <1>0, <1>2 DEF IOFailure
    <2> QED
      BY <1>2, <2>1, <2>2, ExitKeepsTypes DEF IOFailure
  <1>3. ASSUME Crash(w) PROVE TypeInv'
    <2>1. crashes' \in Nat /\ thefts' \in Nat /\ faults' \in Nat
      BY <1>0, <1>3 DEF Crash
    <2>2. Idle.pc = "done" /\ Becomes(w, Idle)
      BY <1>3 DEF Crash, Idle
    <2> QED
      BY <1>0, <1>3, <2>1, <2>2, IdleTyped, BecomesTyped, QuietStepKeepsTypes
      DEF Crash
  <1> QED
    BY <1>1, <1>2, <1>3

LEMMA PeopleKeepTypes == ASSUME TypeInv, Outside PROVE TypeInv'
  <1> USE DEF TypeInv
  <1>1. CASE ClearOrphan
    BY <1>1 DEF ClearOrphan, TypeOK, people, damage
  <1>2. ASSUME Rob
        PROVE  /\ call' \in [Writers -> Calls]
               /\ \A w \in Writers : /\ call'[w].pc = call[w].pc
                                    /\ call'[w].base = call[w].base
                                    /\ call'[w].cand = call[w].cand
    <2>1. ASSUME NEW w \in Writers
          PROVE  /\ call'[w] \in Calls
                 /\ call'[w].pc = call[w].pc
                 /\ call'[w].base = call[w].base
                 /\ call'[w].cand = call[w].cand
      <3>1. call[w] \in Calls
        BY DEF TypeOK
      <3>2. call'[w] \in {call[w], [call[w] EXCEPT !.robbed = TRUE]}
        BY <1>2 DEF Rob
      <3> QED
        BY <3>1, <3>2 DEF Calls
    <2> QED
      BY <1>2, <2>1 DEF Rob
  <1>3. CASE StealOwner
    <2>1. [by |-> Foreigner, rev |-> progress.rev, sha |-> progress.sha]
            \in Owners
      BY DEF TypeOK, Docs, Owners
    <2>2. TypeOK'
      BY <1>2, <1>3, <2>1 DEF StealOwner, TypeOK, people
    <2> QED
      BY <1>2, <1>3, <2>2 DEF StealOwner
  <1>4. CASE RemoveLockByHand
    <2>1. thefts' \in Nat
      BY <1>4 DEF RemoveLockByHand, TypeOK
    <2>2. TypeOK'
      BY <1>2, <1>4, <2>1, Zenon DEF RemoveLockByHand, TypeOK, people
    <2> QED
      BY <1>2, <1>4, <2>2 DEF RemoveLockByHand
  <1>5. ASSUME NEW a \in Receipts, WriteReceipt(a)
        PROVE  TypeInv'
    BY <1>5 DEF WriteReceipt, TypeOK, disk, damage
  <1>6. CASE Drift
    BY <1>6 DEF Drift, TypeOK, disk, damage
  <1> QED
    BY <1>1, <1>3, <1>4, <1>5, <1>6 DEF Outside

LEMMA ReadersKeepTypes ==
  ASSUME TypeInv, NEW r \in Readers, Look(r)
  PROVE  TypeInv'
  <1> USE DEF TypeInv
  <1>0. Unseen \in Looks
    BY GenesisTyped DEF Unseen, Looks
  <1>1. CASE ReadProgress(r)
    <2>1. [Unseen EXCEPT !.pc = "read", !.doc = progress] \in Looks
      BY <1>0 DEF TypeOK, Looks
    <2> QED
      BY <1>1, <2>1 DEF ReadProgress, TypeOK, disk, people, damage
  <1>2. CASE CheckWorld(r)
    <2>1. [look[r] EXCEPT !.pc = "checked"] \in Looks
      BY DEF TypeOK, Looks
    <2> QED
      BY <1>0, <1>2, <2>1 DEF CheckWorld, TypeOK, disk, people, damage
  <1>4. CASE LookAtInputs(r)
    <2>1. [look[r] EXCEPT !.pc = "hashed"] \in Looks
      BY DEF TypeOK, Looks
    <2> QED
      BY <1>0, <1>4, <2>1 DEF LookAtInputs, TypeOK, disk, people, damage
  <1>3. CASE CompareView(r)
    <2>1. [Unseen EXCEPT !.view = IF status = look[r].doc.sha
                                  THEN "current" ELSE "stale"] \in Looks
      BY <1>0 DEF Looks
    <2> QED
      BY <1>3, <2>1 DEF CompareView, TypeOK, disk, people, damage
  <1> QED
    BY <1>1, <1>2, <1>3, <1>4 DEF Look

LEMMA InitTyped == Init => TypeInv
  <1> SUFFICES ASSUME Init PROVE TypeInv
    OBVIOUS
  <1>1. Genesis.sha \in Shas /\ Genesis.rev >= 1 /\ Idle.pc = "done"
    BY GenesisTyped DEF Genesis, Docs, Idle
  <1>2. Unseen \in Looks
    BY GenesisTyped DEF Unseen, Looks
  <1>3. TypeOK
    BY <1>1, <1>2, GenesisTyped, IdleTyped, StoreAssumption DEF Init, TypeOK
  <1> QED
    BY <1>1, <1>3 DEF Init, TypeInv

LEMMA TypeStep == TypeInv /\ [Next]_vars => TypeInv'
  <1> SUFFICES ASSUME TypeInv, [Next]_vars
               PROVE  TypeInv'
    OBVIOUS
  <1>1. ASSUME NEW w \in Writers, Call(w)
        PROVE  TypeInv'
    <2>1. CASE AcquireLock(w) \/ LockBusy(w) \/ RecordLock(w) \/ VerifyLock(w)
      BY <2>1, LockingKeepsTypes
    <2>2. CASE \/ LoadActive(w) \/ HashActive(w) \/ LoadCandidate(w)
               \/ CheckTerminal(w) \/ ObserveInputs(w) \/ ObserveTrace(w)
      BY <2>2, LoadingKeepsTypes
    <2>3. CASE \/ Validate(w) \/ Rehash(w) \/ Recheck(w)
               \/ CommitProgress(w) \/ CommitStatus(w)
      BY <2>3, CommittingKeepsTypes
    <2>4. CASE \/ BeginRelease(w) \/ RemoveOwner(w) \/ RemoveDir(w)
               \/ Cleanup(w) \/ Report(w)
      BY <2>4, ReleasingKeepsTypes
    <2>5. CASE Interrupt(w) \/ IOFailure(w) \/ Crash(w)
      BY <2>5, AccidentsKeepTypes
    <2> QED
      BY <1>1, <2>1, <2>2, <2>3, <2>4, <2>5 DEF Call, Step
  <1>2. CASE \E r \in Readers : Look(r)
    BY <1>2, ReadersKeepTypes
  <1>3. CASE Outside
    BY <1>3, PeopleKeepTypes
  <1>4. CASE UNCHANGED vars
    BY <1>4 DEF vars, disk, people, damage, TypeInv, TypeOK
  <1> QED
    BY <1>1, <1>2, <1>3, <1>4 DEF Next

THEOREM StoreTypeInvariant == Spec => []TypeInv
  BY InitTyped, TypeStep, PTL DEF Spec

(* Type correctness, under crashes, failures and thefts.                   *)
THEOREM StoreTypeCorrect == Spec => []TypeOK
  <1>1. TypeInv => TypeOK
    BY DEF TypeInv
  <1> QED
    BY <1>1, StoreTypeInvariant, PTL
=============================================================================
