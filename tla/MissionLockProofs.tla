-------------------------- MODULE MissionLockProofs --------------------------
(***************************************************************************)
(* The mission lock: mutual exclusion, for any number of writers and any   *)
(* number of crashes and failures, as long as nobody touches a lock by     *)
(* hand.                                                                   *)
(***************************************************************************)
EXTENDS MissionStoreProofs

(* Where the owner record is known to be the call's own.                   *)
Owning == Guarded \union {"cleared", "replaced", "published"}

(* A step of the call that holds the lock cannot disturb another holder:   *)
(* there is none.                                                          *)
LEMMA HolderKeepsLock ==
  ASSUME LockDiscipline, NEW w \in Writers, Holding(w),
         \A v \in Writers \ {w} : call'[v] = call[v],
         thefts' = thefts,
         lockDir' = lockDir \/ call'[w].pc \in {"done", "released"},
         call'[w].pc \in Owning => owner' = OwnRecord(w)'
  PROVE  LockDiscipline'
  <1> SUFFICES ASSUME thefts = 0
               PROVE  /\ \A u, v \in Writers : Holding(u)' /\ Holding(v)' => u = v
                      /\ \A v \in Writers : Holding(v)' => lockDir'
                      /\ \A v \in Writers :
                           call'[v].pc \in Owning => owner' = OwnRecord(v)'
    BY DEF LockDiscipline, Owning
  <1>1. ASSUME NEW v \in Writers, v # w
        PROVE  ~Holding(v)' /\ call'[v].pc \notin Owning
    <2>1. ~Holding(v) /\ call'[v] = call[v]
      BY <1>1 DEF LockDiscipline
    <2> QED
      BY <2>1 DEF Holding, Owning, Guarded
  <1>2. Holding(w)' => lockDir'
    BY DEF Holding, LockDiscipline
  <1> QED
    BY <1>1, <1>2

(* Neither can a step of a call that does not hold the lock and does not   *)
(* take it.                                                                *)
LEMMA OutsiderKeepsLock ==
  ASSUME LockDiscipline, NEW w \in Writers,
         \A v \in Writers \ {w} : call'[v] = call[v],
         call'[w].pc = "done",
         thefts' = thefts, lockDir' = lockDir, owner' = owner
  PROVE  LockDiscipline'
  <1> SUFFICES ASSUME thefts = 0
               PROVE  /\ \A u, v \in Writers : Holding(u)' /\ Holding(v)' => u = v
                      /\ \A v \in Writers : Holding(v)' => lockDir'
                      /\ \A v \in Writers :
                           call'[v].pc \in Owning => owner' = OwnRecord(v)'
    BY DEF LockDiscipline, Owning
  <1>1. ~Holding(w)' /\ call'[w].pc \notin Owning
    BY DEF Holding, Owning, Guarded
  <1>2. ASSUME NEW v \in Writers, v # w
        PROVE  /\ Holding(v)' = Holding(v)
               /\ OwnRecord(v)' = OwnRecord(v)
               /\ call'[v].pc = call[v].pc
    BY <1>2 DEF Holding, OwnRecord
  <1> QED
    BY <1>1, <1>2 DEF LockDiscipline, Owning

(* The ways out of the sequence, from a call that holds the lock.          *)
LEMMA LeavingKeepsLock ==
  ASSUME TypeOK, LockDiscipline, NEW w \in Writers, NEW code \in Codes,
         Holding(w), Exit(w, code) \/ Fail(w, code) \/ RemovalFailed(w),
         thefts' = thefts, lockDir' = lockDir
  PROVE  LockDiscipline'
  <1>1. /\ call'[w].pc \in {"done", "failing"}
        /\ \A v \in Writers \ {w} : call'[v] = call[v]
    BY ExitTyped, FailTyped, RemovalFailedTyped
  <1>2. call'[w].pc \notin Owning
    BY <1>1 DEF Owning, Guarded
  <1> QED
    BY <1>1, <1>2, HolderKeepsLock

(* A step that keeps what the owner record is made of.                     *)
LEMMA GoOnKeepsLock ==
  ASSUME TypeOK, LockDiscipline, NEW w \in Writers, NEW c, Becomes(w, c),
         Holding(w), call[w].pc \in Owning \/ c.pc \notin Owning,
         c.active = call[w].active, c.base = call[w].base,
         thefts' = thefts, lockDir' = lockDir, owner' = owner
  PROVE  LockDiscipline'
  <1>1. /\ call'[w] = c
        /\ \A v \in Writers \ {w} : call'[v] = call[v]
    BY DEF Becomes, TypeOK
  <1>2. OwnRecord(w)' = OwnRecord(w)
    BY <1>1 DEF OwnRecord
  <1>3. ASSUME thefts = 0, call[w].pc \in Owning
        PROVE  owner = OwnRecord(w)
    BY <1>3 DEF LockDiscipline, Owning
  <1>4. CASE thefts = 0
    BY <1>1, <1>2, <1>3, <1>4, HolderKeepsLock
  <1>5. CASE thefts # 0
    BY <1>5 DEF LockDiscipline
  <1> QED
    BY <1>4, <1>5

(* mkdir succeeds only where nobody holds the lock.                        *)
LEMMA AcquireKeepsLock ==
  ASSUME TypeOK, LockDiscipline, NEW w \in Writers,
         AcquireLock(w) \/ LockBusy(w)
  PROVE  LockDiscipline'
  <1>1. CASE AcquireLock(w)
    <2>1. PICK kind, pin : Becomes(w, Started(kind, pin))
      BY <1>1 DEF AcquireLock
    <2>2. /\ call'[w].pc = "locked"
          /\ \A v \in Writers \ {w} : call'[v] = call[v]
      <3>1. Started(kind, pin).pc = "locked"
        BY DEF Started, Idle
      <3> QED
        BY <2>1, <3>1 DEF Becomes, TypeOK
    <2> SUFFICES ASSUME thefts = 0
                 PROVE  /\ \A u, v \in Writers :
                             Holding(u)' /\ Holding(v)' => u = v
                        /\ \A v \in Writers : Holding(v)' => lockDir'
                        /\ \A v \in Writers :
                             call'[v].pc \in Owning => owner' = OwnRecord(v)'
      BY <1>1 DEF AcquireLock, damage, LockDiscipline, Owning
    <2>3. ~lockDir /\ lockDir'
      BY <1>1 DEF AcquireLock
    <2>4. ASSUME NEW v \in Writers, v # w
          PROVE  ~Holding(v)' /\ call'[v].pc \notin Owning
      <3>1. ~Holding(v) /\ call'[v] = call[v]
        BY <2>2, <2>3, <2>4 DEF LockDiscipline
      <3> QED
        BY <3>1 DEF Holding, Owning, Guarded
    <2>5. call'[w].pc \notin Owning
      BY <2>2 DEF Owning, Guarded
    <2> QED
      BY <2>3, <2>4, <2>5
  <1>2. CASE LockBusy(w)
    <2>1. /\ call'[w].pc = "done"
          /\ \A v \in Writers \ {w} : call'[v] = call[v]
      <3>1. [Idle EXCEPT !.code = "temporary"].pc = "done"
        BY DEF Idle
      <3> QED
        BY <1>2, <3>1 DEF LockBusy, Becomes, TypeOK
    <2> QED
      BY <1>2, <2>1, OutsiderKeepsLock DEF LockBusy, disk, damage
  <1> QED
    BY <1>1, <1>2

LEMMA LoadingKeepsLock ==
  ASSUME TypeOK, LockDiscipline, NEW w \in Writers,
         LoadActive(w) \/ HashActive(w) \/ RecordLock(w) \/ VerifyLock(w)
  PROVE  LockDiscipline'
  <1>0. {"data", "temporary", "unavailable"} \subseteq Codes
    BY DEF Codes
  <1>1. Holding(w)
    BY DEF Holding, LoadActive, HashActive, RecordLock, VerifyLock
  <1>2. call[w] \in Calls
    BY DEF TypeOK
  <1>3. ASSUME NEW c, Becomes(w, c), c.pc \notin Owning,
               thefts' = thefts, lockDir' = lockDir
        PROVE  LockDiscipline'
    <2>1. /\ call'[w].pc \notin Owning
          /\ \A v \in Writers \ {w} : call'[v] = call[v]
      BY <1>3 DEF Becomes, TypeOK
    <2> QED
      BY <1>1, <1>3, <2>1, HolderKeepsLock
  <1>4. CASE LoadActive(w)
    <2> DEFINE c == [call[w] EXCEPT !.pc = "loaded", !.active = progress]
    <2>1. c.pc \notin Owning
      BY <1>2 DEF Owning, Guarded, Calls
    <2>2. Becomes(w, c) \/ Fail(w, "data")
      BY <1>4 DEF LoadActive
    <2> HIDE DEF c
    <2> QED
      BY <1>0, <1>1, <1>3, <1>4, <2>1, <2>2, LeavingKeepsLock
      DEF LoadActive, disk, damage
  <1>5. CASE HashActive(w)
    <2> DEFINE c == [call[w] EXCEPT !.pc = "pinned", !.base = progress.sha]
    <2>1. c.pc \notin Owning
      BY <1>2 DEF Owning, Guarded, Calls
    <2>2. Becomes(w, c) \/ Fail(w, "temporary")
      BY <1>5 DEF HashActive
    <2> HIDE DEF c
    <2> QED
      BY <1>0, <1>1, <1>3, <1>5, <2>1, <2>2, LeavingKeepsLock
      DEF HashActive, disk, damage
  <1>6. CASE RecordLock(w)
    <2>1. CASE lockDir
      <3> DEFINE c == [call[w] EXCEPT !.pc = "recorded", !.recorded = TRUE]
      <3>1. c.active = call[w].active /\ c.base = call[w].base
        BY <1>2 DEF Calls
      <3>2. Becomes(w, c) /\ owner' = OwnRecord(w)
        BY <1>6, <2>1 DEF RecordLock
      <3> HIDE DEF c
      <3>3. /\ call'[w] = c
            /\ \A v \in Writers \ {w} : call'[v] = call[v]
        BY <3>2 DEF Becomes, TypeOK
      <3>4. owner' = OwnRecord(w)'
        BY <3>1, <3>2, <3>3 DEF OwnRecord
      <3> QED
        BY <1>1, <1>6, <3>3, <3>4, HolderKeepsLock DEF RecordLock, damage
    <2>2. CASE ~lockDir
      BY <1>0, <1>1, <1>6, <2>2, LeavingKeepsLock DEF RecordLock, damage
    <2> QED
      BY <2>1, <2>2
  <1>7. CASE VerifyLock(w)
    <2> DEFINE c == [call[w] EXCEPT !.pc = "verified"]
    <2>1. /\ c.active = call[w].active /\ c.base = call[w].base
          /\ call[w].pc \in Owning
      BY <1>2, <1>7 DEF Calls, VerifyLock, Owning, Guarded
    <2>2. Becomes(w, c) \/ Fail(w, "temporary")
      BY <1>7 DEF VerifyLock
    <2> HIDE DEF c
    <2> QED
      BY <1>0, <1>1, <1>7, <2>1, <2>2, GoOnKeepsLock, LeavingKeepsLock
      DEF VerifyLock, disk, damage
  <1> QED
    BY <1>4, <1>5, <1>6, <1>7

(* The steps between the lock's record and the first rename touch neither  *)
(* the lock nor what its record was made of.                               *)
LEMMA CheckingKeepsLock ==
  ASSUME TypeOK, LockDiscipline, NEW w \in Writers,
         \/ LoadCandidate(w) \/ CheckTerminal(w) \/ ObserveInputs(w)
         \/ ObserveTrace(w) \/ Validate(w) \/ Rehash(w) \/ Recheck(w)
  PROVE  LockDiscipline'
  <1>1. call[w].pc \in Owning /\ Holding(w)
    BY DEF Owning, Guarded, Holding, LoadCandidate, CheckTerminal,
           ObserveInputs, ObserveTrace, Validate, Rehash, Recheck
  <1>2. call[w] \in Calls
    BY DEF TypeOK
  <1>3. ASSUME NEW c, Becomes(w, c), c.active = call[w].active,
               c.base = call[w].base, UNCHANGED <<disk, damage>>
        PROVE  LockDiscipline'
    BY <1>1, <1>3, GoOnKeepsLock DEF disk, damage
  <1>4. ASSUME NEW code \in Codes, Fail(w, code), UNCHANGED <<disk, damage>>
        PROVE  LockDiscipline'
    BY <1>1, <1>4, LeavingKeepsLock DEF disk, damage
  <1>5. {"data", "temporary", "none"} \subseteq Codes
    BY DEF Codes
  <1>6. CASE LoadCandidate(w)
    <2>1. PICK cand :
            \/ Becomes(w, [call[w] EXCEPT !.pc = "drafted", !.cand = cand])
            \/ Fail(w, "data")
      BY <1>6 DEF LoadCandidate
    <2> DEFINE c == [call[w] EXCEPT !.pc = "drafted", !.cand = cand]
    <2>2. c.active = call[w].active /\ c.base = call[w].base
      BY <1>2 DEF Calls
    <2>3. Becomes(w, c) \/ Fail(w, "data")
      BY <2>1
    <2> HIDE DEF c
    <2> QED
      BY <1>3, <1>4, <1>5, <1>6, <2>2, <2>3 DEF LoadCandidate
  <1>7. ASSUME NEW pc, \/ Becomes(w, [call[w] EXCEPT !.pc = pc])
                       \/ Fail(w, "data") \/ Fail(w, "temporary"),
               UNCHANGED <<disk, damage>>
        PROVE  LockDiscipline'
    <2> DEFINE c == [call[w] EXCEPT !.pc = pc]
    <2>1. c.active = call[w].active /\ c.base = call[w].base
      BY <1>2 DEF Calls
    <2>2. Becomes(w, c) \/ Fail(w, "data") \/ Fail(w, "temporary")
      BY <1>7
    <2> HIDE DEF c
    <2> QED
      BY <1>3, <1>4, <1>5, <1>7, <2>1, <2>2
  <1>8. CASE CheckTerminal(w) \/ Rehash(w) \/ Recheck(w)
    BY <1>7, <1>8 DEF CheckTerminal, Rehash, Recheck
  <1>9. CASE ObserveInputs(w)
    <2> DEFINE c == [call[w] EXCEPT !.pc = "observing",
                                    !.seen.inputs = world.inputs]
    <2>1. c.active = call[w].active /\ c.base = call[w].base
      BY <1>2 DEF Calls
    <2>2. Becomes(w, c)
      BY <1>9 DEF ObserveInputs
    <2> HIDE DEF c
    <2> QED
      BY <1>3, <1>9, <2>1, <2>2 DEF ObserveInputs
  <1>10. CASE ObserveTrace(w)
    <2> DEFINE seen == [call[w].seen EXCEPT !.trace = world.trace]
               c == [call[w] EXCEPT !.pc = "approving", !.seen = seen]
    <2>1. c.active = call[w].active /\ c.base = call[w].base
      BY <1>2 DEF Calls
    <2>2. Becomes(w, c) \/ Fail(w, "temporary")
      BY <1>10 DEF ObserveTrace
    <2> HIDE DEF c
    <2> QED
      BY <1>3, <1>4, <1>5, <1>10, <2>1, <2>2 DEF ObserveTrace
  <1>11. CASE Validate(w)
    <2> DEFINE c == [call[w] EXCEPT !.pc = "staged", !.cand = Proposed(w)]
    <2>1. c.active = call[w].active /\ c.base = call[w].base
      BY <1>2 DEF Calls
    <2>2. Rejection(w) \in Codes
      BY RejectionCodes DEF Codes
    <2>3. Becomes(w, c) \/ Fail(w, Rejection(w))
      BY <1>11 DEF Validate
    <2> HIDE DEF c
    <2> QED
      BY <1>3, <1>4, <1>11, <2>1, <2>2, <2>3 DEF Validate
  <1> QED
    BY <1>6, <1>8, <1>9, <1>10, <1>11

LEMMA CommittingKeepsLock ==
  ASSUME TypeOK, LockDiscipline, NEW w \in Writers,
         CommitProgress(w) \/ CommitStatus(w)
  PROVE  LockDiscipline'
  <1>1. call[w].pc \in Owning /\ Holding(w) /\ call[w] \in Calls
    BY DEF Owning, Holding, CommitProgress, CommitStatus, TypeOK
  <1>2. ASSUME NEW c, Becomes(w, c), c.active = call[w].active,
               c.base = call[w].base
        PROVE  LockDiscipline'
    BY <1>1, <1>2, GoOnKeepsLock DEF CommitProgress, CommitStatus, damage
  <1>3. CASE CommitProgress(w)
    <2> DEFINE c == [call[w] EXCEPT !.pc = "replaced", !.committed = TRUE]
    <2>1. c.active = call[w].active /\ c.base = call[w].base
      BY <1>1 DEF Calls
    <2>2. Becomes(w, c)
      BY <1>3 DEF CommitProgress
    <2> QED
      BY <1>2, <2>1, <2>2
  <1>4. CASE CommitStatus(w)
    <2> DEFINE c == [call[w] EXCEPT !.pc = "published"]
    <2>1. c.active = call[w].active /\ c.base = call[w].base
      BY <1>1 DEF Calls
    <2>2. Becomes(w, c)
      BY <1>4 DEF CommitStatus
    <2> QED
      BY <1>2, <2>1, <2>2
  <1> QED
    BY <1>3, <1>4

LEMMA ReleasingKeepsLock ==
  ASSUME TypeOK, LockDiscipline, NEW w \in Writers,
         \/ BeginRelease(w) \/ RemoveOwner(w) \/ RemoveDir(w)
         \/ Cleanup(w) \/ Report(w)
  PROVE  LockDiscipline'
  <1>0. /\ call[w] \in Calls /\ call[w].code \in Codes
        /\ "unavailable" \in Codes
    BY DEF TypeOK, Calls, Codes
  <1>1. ASSUME NEW pc, Becomes(w, [call[w] EXCEPT !.pc = pc]),
               pc \notin Owning, Holding(w), thefts' = thefts,
               lockDir' = lockDir \/ pc \in {"done", "released"}
        PROVE  LockDiscipline'
    <2>1. /\ call'[w].pc = pc
          /\ \A v \in Writers \ {w} : call'[v] = call[v]
      BY <1>0, <1>1 DEF Becomes, TypeOK, Calls
    <2> QED
      BY <1>1, <2>1, HolderKeepsLock
  <1>2. {"unlinking", "rmdir", "released"} \intersect Owning = {}
    BY DEF Owning, Guarded
  <1>3. CASE BeginRelease(w)
    <2>1. Holding(w)
      BY <1>3 DEF BeginRelease, Holding
    <2> QED
      BY <1>0, <1>1, <1>2, <1>3, <2>1, LeavingKeepsLock
      DEF BeginRelease, disk, damage
  <1>4. CASE RemoveOwner(w)
    <2>1. Holding(w)
      BY <1>4 DEF RemoveOwner, Holding
    <2> QED
      BY <1>0, <1>1, <1>2, <1>4, <2>1, LeavingKeepsLock
      DEF RemoveOwner, damage
  <1>5. CASE RemoveDir(w)
    <2>1. Holding(w)
      BY <1>5 DEF RemoveDir, Holding
    <2>2. CASE lockDir /\ owner = NoOwner /\ call[w].code = "none"
      BY <1>1, <1>2, <1>5, <2>1, <2>2 DEF RemoveDir, damage
    <2>3. CASE lockDir /\ owner = NoOwner /\ call[w].code # "none"
      <3>1. Exit(w, call[w].code)
        BY <1>5, <2>3 DEF RemoveDir
      <3>2. /\ call'[w].pc = "done"
            /\ \A v \in Writers \ {w} : call'[v] = call[v]
        BY <1>0, <3>1, ExitTyped
      <3>3. call'[w].pc \notin Owning
        BY <3>2 DEF Owning, Guarded
      <3> QED
        BY <1>5, <2>1, <3>2, <3>3, HolderKeepsLock DEF RemoveDir, damage
    <2>4. CASE ~(lockDir /\ owner = NoOwner)
      BY <1>0, <1>5, <2>1, <2>4, LeavingKeepsLock DEF RemoveDir, damage
    <2> QED
      BY <2>2, <2>3, <2>4
  <1>6. CASE Cleanup(w)
    <2>1. Holding(w)
      BY <1>6 DEF Cleanup, Holding
    <2> QED
      BY <1>0, <1>1, <1>2, <1>6, <2>1, LeavingKeepsLock
      DEF Cleanup, disk, damage
  <1>7. CASE Report(w)
    <2> DEFINE c == [Idle EXCEPT !.code = "ok",
                       !.committed = call[w].committed,
                       !.robbed = call[w].robbed,
                       !.report = [rev |-> call[w].cand.rev,
                                   sha |-> progress.sha]]
    <2>1. c.pc = "done" /\ Becomes(w, c)
      BY <1>7 DEF Report, Idle
    <2> HIDE DEF c
    <2>2. /\ call'[w].pc = "done"
          /\ \A v \in Writers \ {w} : call'[v] = call[v]
      BY <2>1 DEF Becomes, TypeOK
    <2> QED
      BY <1>7, <2>2, OutsiderKeepsLock DEF Report, disk, damage
  <1> QED
    BY <1>3, <1>4, <1>5, <1>6, <1>7

LEMMA AccidentsKeepLock ==
  ASSUME TypeOK, LockDiscipline, NEW w \in Writers,
         Interrupt(w) \/ IOFailure(w) \/ Crash(w)
  PROVE  LockDiscipline'
  <1>1. CASE Interrupt(w)
    <2>1. Holding(w) /\ InterruptCodes(w) \subseteq Codes
      BY <1>1 DEF Interrupt, Interruptible, Holding, InterruptCodes, Codes
    <2> QED
      BY <1>1, <2>1, LeavingKeepsLock DEF Interrupt, disk, damage
  <1>2. CASE IOFailure(w)
    <2>0. FaultCodes(w) \union {"unavailable", call[w].code} \subseteq Codes
      BY DEF FaultCodes, Codes, TypeOK, Calls
    <2>1. ASSUME NEW code \in Codes, Exit(w, code)
          PROVE  LockDiscipline'
      <3>1. /\ call'[w].pc = "done"
            /\ \A v \in Writers \ {w} : call'[v] = call[v]
        BY <2>1, ExitTyped
      <3> QED
        BY <1>2, <3>1, OutsiderKeepsLock DEF IOFailure, disk
    <2>2. ASSUME NEW code \in Codes, Fail(w, code) \/ RemovalFailed(w),
                 Holding(w)
          PROVE  LockDiscipline'
      BY <1>2, <2>2, LeavingKeepsLock DEF IOFailure, disk
    <2>3. FaultCodes(w) # {} => Holding(w)
      BY DEF FaultCodes, Holding
    <2>4. call[w].pc \in {"unlinking", "rmdir"} => Holding(w)
      BY DEF Holding
    <2> QED
      BY <1>2, <2>0, <2>1, <2>2, <2>3, <2>4 DEF IOFailure
  <1>3. CASE Crash(w)
    <2>1. /\ call'[w].pc = "done"
          /\ \A v \in Writers \ {w} : call'[v] = call[v]
      <3>1. Idle.pc = "done"
        BY DEF Idle
      <3> QED
        BY <1>3, <3>1 DEF Crash, Becomes, TypeOK
    <2> QED
      BY <1>3, <2>1, OutsiderKeepsLock DEF Crash, disk
  <1> QED
    BY <1>1, <1>2, <1>3

LEMMA LockStep == TypeInv /\ LockDiscipline /\ [Next]_vars => LockDiscipline'
  <1> SUFFICES ASSUME TypeInv, LockDiscipline, [Next]_vars
               PROVE  LockDiscipline'
    OBVIOUS
  <1>0. TypeOK
    BY DEF TypeInv
  <1>1. ASSUME NEW w \in Writers, Call(w)
        PROVE  LockDiscipline'
    BY <1>0, <1>1, AcquireKeepsLock, LoadingKeepsLock, CheckingKeepsLock,
       CommittingKeepsLock, ReleasingKeepsLock, AccidentsKeepLock
    DEF Call, Step
  <1>2. ASSUME UNCHANGED <<lockDir, owner, call, thefts>>
        PROVE  LockDiscipline'
    BY <1>2 DEF LockDiscipline, Holding, OwnRecord
  <1>3. CASE \E r \in Readers : Look(r)
    BY <1>2, <1>3
    DEF Look, ReadProgress, LookAtInputs, CheckWorld, CompareView, disk, damage
  <1>4. CASE ClearOrphan
    <2>1. \A w \in Writers : ~Holding(w)' /\ call'[w].pc \notin Owning
      BY <1>4 DEF ClearOrphan, Holding, Owning, Guarded
    <2> QED
      BY <2>1 DEF LockDiscipline, Owning
  <1>5. CASE StealOwner \/ RemoveLockByHand
    <2>1. thefts' # 0
      BY <1>0, <1>5 DEF StealOwner, RemoveLockByHand, TypeOK
    <2> QED
      BY <2>1 DEF LockDiscipline
  <1>6. CASE Drift \/ \E a \in Receipts : WriteReceipt(a)
    BY <1>2, <1>6 DEF Drift, WriteReceipt, disk, damage
  <1>7. CASE UNCHANGED vars
    BY <1>2, <1>7 DEF vars, disk, damage
  <1> QED
    BY <1>1, <1>3, <1>4, <1>5, <1>6, <1>7 DEF Next, Outside

(* The lock excludes: at most one call is between mkdir and the removal of *)
(* the lock, and from its record on the owner file is its own, unless the  *)
(* lock was removed or overwritten by hand.                                *)
THEOREM LockExcludes == Spec => []LockDiscipline
  <1>1. Init => LockDiscipline
    BY DEF Init, LockDiscipline, Holding, Guarded, Idle
  <1> QED
    BY <1>1, StoreTypeInvariant, LockStep, PTL DEF Spec

-----------------------------------------------------------------------------
(* What each step does to its own call.  The fields seen is made of and    *)
(* nothing below depends on are left out.                                  *)

Alone(w) == \A v \in Writers \ {w} : call'[v] = call[v]

(* The call goes on at pc, with these fields set and the others kept.      *)
Moved(w, pc, active, base, recorded, cand, committed) ==
  /\ Alone(w)
  /\ call'[w].pc = pc
  /\ call'[w].active = active /\ call'[w].base = base
  /\ call'[w].recorded = recorded /\ call'[w].cand = cand
  /\ call'[w].committed = committed
  /\ call'[w].kind = call[w].kind /\ call'[w].pin = call[w].pin
  /\ call'[w].robbed = call[w].robbed /\ call'[w].code = call[w].code
  /\ call'[w].report = call[w].report

Advanced(w, pc) ==
  Moved(w, pc, call[w].active, call[w].base, call[w].recorded, call[w].cand,
        call[w].committed)

Failed(w, code) ==
  /\ Alone(w)
  /\ call'[w].pc = "failing" /\ call'[w].code = code
  /\ call'[w].active = call[w].active /\ call'[w].base = call[w].base
  /\ call'[w].recorded = call[w].recorded
  /\ call'[w].committed = call[w].committed
  /\ call'[w].robbed = call[w].robbed

Ended(w, code) ==
  /\ Alone(w)
  /\ call'[w].pc = "done" /\ call'[w].code = code /\ ~call'[w].recorded
  /\ call'[w].committed = call[w].committed
  /\ call'[w].robbed = call[w].robbed
  /\ call'[w].report = call[w].report

LEMMA FailEffect ==
  ASSUME TypeOK, NEW w \in Writers, NEW code, Fail(w, code)
  PROVE  Failed(w, code)
  <1> DEFINE c == [Idle EXCEPT !.pc = "failing", !.code = code,
                               !.active = call[w].active, !.base = call[w].base,
                               !.recorded = call[w].recorded,
                               !.committed = call[w].committed,
                               !.robbed = call[w].robbed]
  <1>1. /\ c.pc = "failing" /\ c.code = code /\ c.active = call[w].active
        /\ c.base = call[w].base /\ c.recorded = call[w].recorded
        /\ c.committed = call[w].committed /\ c.robbed = call[w].robbed
    BY DEF Idle
  <1>2. Becomes(w, c)
    BY DEF Fail
  <1> HIDE DEF c
  <1>3. call'[w] = c /\ Alone(w)
    BY <1>2 DEF Becomes, TypeOK, Alone
  <1> QED
    BY <1>1, <1>3 DEF Failed

LEMMA ExitEffect ==
  ASSUME TypeOK, NEW w \in Writers, NEW code, Exit(w, code)
  PROVE  Ended(w, code)
  <1> DEFINE c == [Idle EXCEPT !.code = code, !.committed = call[w].committed,
                               !.robbed = call[w].robbed,
                               !.report = call[w].report]
  <1>1. /\ c.pc = "done" /\ c.code = code /\ ~c.recorded
        /\ c.committed = call[w].committed /\ c.robbed = call[w].robbed
        /\ c.report = call[w].report
    BY DEF Idle
  <1>2. Becomes(w, c)
    BY DEF Exit
  <1> HIDE DEF c
  <1>3. call'[w] = c /\ Alone(w)
    BY <1>2 DEF Becomes, TypeOK, Alone
  <1> QED
    BY <1>1, <1>3 DEF Ended

LEMMA RemovalEffect ==
  ASSUME TypeOK, NEW w \in Writers, RemovalFailed(w)
  PROVE  IF call[w].code = "none" THEN Failed(w, "unavailable")
                                  ELSE Ended(w, "unavailable")
  BY FailEffect, ExitEffect DEF RemovalFailed

(* A step to the record c that has the kept fields of the old one.         *)
LEMMA MoveEffect ==
  ASSUME TypeOK, NEW w \in Writers, NEW c, Becomes(w, c),
         c.kind = call[w].kind, c.pin = call[w].pin,
         c.robbed = call[w].robbed, c.code = call[w].code,
         c.report = call[w].report
  PROVE  Moved(w, c.pc, c.active, c.base, c.recorded, c.cand, c.committed)
  <1>1. call'[w] = c /\ Alone(w)
    BY DEF Becomes, TypeOK, Alone
  <1> QED
    BY <1>1 DEF Moved

LEMMA AdvanceEffect ==
  ASSUME TypeOK, NEW w \in Writers, NEW pc,
         Becomes(w, [call[w] EXCEPT !.pc = pc])
  PROVE  Advanced(w, pc)
  <1> DEFINE c == [call[w] EXCEPT !.pc = pc]
  <1>1. /\ c.pc = pc /\ c.active = call[w].active /\ c.base = call[w].base
        /\ c.recorded = call[w].recorded /\ c.cand = call[w].cand
        /\ c.committed = call[w].committed /\ c.kind = call[w].kind
        /\ c.pin = call[w].pin /\ c.robbed = call[w].robbed
        /\ c.code = call[w].code /\ c.report = call[w].report
    BY CallTypes DEF Calls
  <1>2. Becomes(w, c)
    OBVIOUS
  <1> HIDE DEF c
  <1>3. Moved(w, c.pc, c.active, c.base, c.recorded, c.cand, c.committed)
    BY <1>1, <1>2, MoveEffect
  <1> QED
    BY <1>1, <1>3 DEF Advanced

(* The call begins, or finds the lock taken.                               *)
LEMMA StartEffect ==
  ASSUME TypeOK, NEW w \in Writers
  PROVE  /\ AcquireLock(w) =>
              /\ Alone(w)
              /\ call'[w].pc = "locked" /\ call'[w].code = "none"
              /\ ~call'[w].recorded /\ ~call'[w].committed
              /\ ~call'[w].robbed
         /\ LockBusy(w) =>
              /\ Alone(w)
              /\ call'[w].pc = "done" /\ call'[w].code = "temporary"
              /\ ~call'[w].recorded /\ ~call'[w].committed
              /\ ~call'[w].robbed
         /\ Crash(w) =>
              /\ Alone(w)
              /\ call'[w].pc = "done" /\ call'[w].code = "none"
              /\ ~call'[w].recorded /\ ~call'[w].committed
              /\ ~call'[w].robbed
  <1>1. ASSUME NEW c, Becomes(w, c)
        PROVE  call'[w] = c /\ Alone(w)
    BY <1>1 DEF Becomes, TypeOK, Alone
  <1>2. ASSUME AcquireLock(w)
        PROVE  \E kind, pin : Becomes(w, Started(kind, pin))
    BY <1>2 DEF AcquireLock
  <1>3. ASSUME NEW kind, NEW pin
        PROVE  LET c == Started(kind, pin)
               IN  /\ c.pc = "locked" /\ c.code = "none" /\ ~c.recorded
                   /\ ~c.committed /\ ~c.robbed
    BY DEF Started, Idle
  <1>4. LET c == [Idle EXCEPT !.code = "temporary"]
        IN  /\ c.pc = "done" /\ c.code = "temporary" /\ ~c.recorded
            /\ ~c.committed /\ ~c.robbed
    BY DEF Idle
  <1>5. /\ Idle.pc = "done" /\ Idle.code = "none" /\ ~Idle.recorded
        /\ ~Idle.committed /\ ~Idle.robbed
    BY DEF Idle
  <1>6. ASSUME AcquireLock(w)
        PROVE  /\ Alone(w)
               /\ call'[w].pc = "locked" /\ call'[w].code = "none"
               /\ ~call'[w].recorded /\ ~call'[w].committed
               /\ ~call'[w].robbed
    BY <1>1, <1>2, <1>3, <1>6
  <1>7. ASSUME LockBusy(w)
        PROVE  Becomes(w, [Idle EXCEPT !.code = "temporary"])
    BY <1>7 DEF LockBusy
  <1>8. ASSUME Crash(w) PROVE Becomes(w, Idle)
    BY <1>8 DEF Crash
  <1> QED
    BY <1>1, <1>4, <1>5, <1>6, <1>7, <1>8

LEMMA LoadEffect ==
  ASSUME TypeOK, NEW w \in Writers
  PROVE  /\ LoadActive(w) =>
              \/ Failed(w, "data")
              \/ Moved(w, "loaded", progress, call[w].base, call[w].recorded,
                       call[w].cand, call[w].committed)
         /\ HashActive(w) =>
              \/ Failed(w, "temporary")
              \/ /\ Moved(w, "pinned", call[w].active, progress.sha,
                          call[w].recorded, call[w].cand, call[w].committed)
                 /\ call[w].pin # NoPin =>
                      /\ call[w].pin.sha = progress.sha
                      /\ call[w].pin.rev = call[w].active.rev
         /\ RecordLock(w) =>
              \/ Failed(w, "unavailable") /\ ~lockDir /\ UNCHANGED owner
              \/ /\ Moved(w, "recorded", call[w].active, call[w].base, TRUE,
                          call[w].cand, call[w].committed)
                 /\ lockDir /\ owner' = OwnRecord(w)
         /\ VerifyLock(w) =>
              \/ Failed(w, "temporary")
              \/ Advanced(w, "verified") /\ Verified(w)
  <1>0. call[w] \in Calls
    BY CallTypes
  <1>1. ASSUME LoadActive(w)
        PROVE  \/ Failed(w, "data")
               \/ Moved(w, "loaded", progress, call[w].base, call[w].recorded,
                        call[w].cand, call[w].committed)
    <2> DEFINE c == [call[w] EXCEPT !.pc = "loaded", !.active = progress]
    <2>1. /\ c.pc = "loaded" /\ c.active = progress /\ c.base = call[w].base
          /\ c.recorded = call[w].recorded /\ c.cand = call[w].cand
          /\ c.committed = call[w].committed /\ c.kind = call[w].kind
          /\ c.pin = call[w].pin /\ c.robbed = call[w].robbed
          /\ c.code = call[w].code /\ c.report = call[w].report
      BY <1>0 DEF Calls
    <2>2. Fail(w, "data") \/ Becomes(w, c)
      BY <1>1 DEF LoadActive
    <2> HIDE DEF c
    <2>3. CASE Becomes(w, c)
      <3>1. Moved(w, c.pc, c.active, c.base, c.recorded, c.cand, c.committed)
        BY <2>1, <2>3, MoveEffect
      <3> QED
        BY <2>1, <3>1
    <2> QED
      BY <2>2, <2>3, FailEffect
  <1>2. ASSUME HashActive(w)
        PROVE  \/ Failed(w, "temporary")
               \/ /\ Moved(w, "pinned", call[w].active, progress.sha,
                           call[w].recorded, call[w].cand, call[w].committed)
                  /\ call[w].pin # NoPin =>
                       /\ call[w].pin.sha = progress.sha
                       /\ call[w].pin.rev = call[w].active.rev
    <2> DEFINE c == [call[w] EXCEPT !.pc = "pinned", !.base = progress.sha]
    <2>1. /\ c.pc = "pinned" /\ c.active = call[w].active
          /\ c.base = progress.sha
          /\ c.recorded = call[w].recorded /\ c.cand = call[w].cand
          /\ c.committed = call[w].committed /\ c.kind = call[w].kind
          /\ c.pin = call[w].pin /\ c.robbed = call[w].robbed
          /\ c.code = call[w].code /\ c.report = call[w].report
      BY <1>0 DEF Calls
    <2>2. \/ Fail(w, "temporary")
          \/ /\ Becomes(w, c)
             /\ call[w].pin # NoPin =>
                  /\ call[w].pin.sha = progress.sha
                  /\ call[w].pin.rev = call[w].active.rev
      BY <1>2 DEF HashActive
    <2> HIDE DEF c
    <2>3. ASSUME Becomes(w, c)
          PROVE  Moved(w, "pinned", call[w].active, progress.sha,
                       call[w].recorded, call[w].cand, call[w].committed)
      <3>1. Moved(w, c.pc, c.active, c.base, c.recorded, c.cand, c.committed)
        BY <2>1, <2>3, MoveEffect
      <3> QED
        BY <2>1, <3>1
    <2> QED
      BY <2>2, <2>3, FailEffect
  <1>3. ASSUME RecordLock(w)
        PROVE  \/ Failed(w, "unavailable") /\ ~lockDir /\ UNCHANGED owner
               \/ /\ Moved(w, "recorded", call[w].active, call[w].base, TRUE,
                           call[w].cand, call[w].committed)
                  /\ lockDir /\ owner' = OwnRecord(w)
    <2> DEFINE c == [call[w] EXCEPT !.pc = "recorded", !.recorded = TRUE]
    <2>1. /\ c.pc = "recorded" /\ c.active = call[w].active
          /\ c.base = call[w].base
          /\ c.recorded = TRUE /\ c.cand = call[w].cand
          /\ c.committed = call[w].committed /\ c.kind = call[w].kind
          /\ c.pin = call[w].pin /\ c.robbed = call[w].robbed
          /\ c.code = call[w].code /\ c.report = call[w].report
      BY <1>0 DEF Calls
    <2>2. \/ Fail(w, "unavailable") /\ ~lockDir /\ UNCHANGED owner
          \/ Becomes(w, c) /\ lockDir /\ owner' = OwnRecord(w)
      BY <1>3 DEF RecordLock
    <2> HIDE DEF c
    <2>3. ASSUME Becomes(w, c)
          PROVE  Moved(w, "recorded", call[w].active, call[w].base, TRUE,
                       call[w].cand, call[w].committed)
      <3>1. Moved(w, c.pc, c.active, c.base, c.recorded, c.cand, c.committed)
        BY <2>1, <2>3, MoveEffect
      <3> QED
        BY <2>1, <3>1
    <2> QED
      BY <2>2, <2>3, FailEffect
  <1>4. ASSUME VerifyLock(w)
        PROVE  \/ Failed(w, "temporary")
               \/ Advanced(w, "verified") /\ Verified(w)
    <2>1. \/ Fail(w, "temporary")
          \/ /\ Becomes(w, [call[w] EXCEPT !.pc = "verified"])
             /\ Verified(w)
      BY <1>4 DEF VerifyLock
    <2> QED
      BY <2>1, AdvanceEffect, FailEffect
  <1> QED
    BY <1>1, <1>2, <1>3, <1>4

LEMMA CheckEffect ==
  ASSUME TypeOK, NEW w \in Writers
  PROVE  /\ LoadCandidate(w) =>
              \/ Failed(w, "data")
              \/ /\ call[w].kind = "checkpoint"
                 /\ \E cand \in Candidates(w) :
                      Moved(w, "drafted", call[w].active, call[w].base,
                            call[w].recorded, cand, call[w].committed)
         /\ CheckTerminal(w) =>
              \/ Failed(w, "data")
              \/ Advanced(w, "drafted") /\ call[w].kind = "resume"
         /\ ObserveInputs(w) => Advanced(w, "observing")
         /\ ObserveTrace(w) => Failed(w, "temporary") \/ Advanced(w, "approving")
         /\ Validate(w) =>
              \/ Failed(w, "data") \/ Failed(w, "temporary")
              \/ /\ Moved(w, "staged", call[w].active, call[w].base,
                          call[w].recorded, Proposed(w), call[w].committed)
                 /\ TransitionValid(call[w].active, Proposed(w), call[w].base,
                                    call[w].seen)
         /\ Rehash(w) =>
              \/ Failed(w, "temporary")
              \/ Advanced(w, "rehashed") /\ progress.sha = call[w].base
         /\ Recheck(w) =>
              \/ Failed(w, "temporary")
              \/ Advanced(w, "cleared") /\ Verified(w)
  <1>0. call[w] \in Calls
    BY CallTypes
  <1>1. ASSUME LoadCandidate(w)
        PROVE  \/ Failed(w, "data")
               \/ /\ call[w].kind = "checkpoint"
                  /\ \E cand \in Candidates(w) :
                       Moved(w, "drafted", call[w].active, call[w].base,
                             call[w].recorded, cand, call[w].committed)
    <2>1. PICK cand \in Candidates(w) :
            \/ Becomes(w, [call[w] EXCEPT !.pc = "drafted", !.cand = cand])
            \/ Fail(w, "data")
      BY <1>1, Zenon DEF LoadCandidate
    <2> DEFINE c == [call[w] EXCEPT !.pc = "drafted", !.cand = cand]
    <2>2. /\ c.pc = "drafted" /\ c.active = call[w].active
          /\ c.base = call[w].base
          /\ c.recorded = call[w].recorded /\ c.cand = cand
          /\ c.committed = call[w].committed /\ c.kind = call[w].kind
          /\ c.pin = call[w].pin /\ c.robbed = call[w].robbed
          /\ c.code = call[w].code /\ c.report = call[w].report
      BY <1>0 DEF Calls
    <2>3. Becomes(w, c) \/ Fail(w, "data")
      BY <2>1
    <2> HIDE DEF c
    <2>4. CASE Becomes(w, c)
      <3>1. Moved(w, c.pc, c.active, c.base, c.recorded, c.cand, c.committed)
        BY <2>2, <2>4, MoveEffect
      <3> QED
        BY <1>1, <2>2, <3>1 DEF LoadCandidate
    <2> QED
      BY <2>3, <2>4, FailEffect
  <1>2. ASSUME CheckTerminal(w)
        PROVE  \/ Failed(w, "data")
               \/ Advanced(w, "drafted") /\ call[w].kind = "resume"
    BY <1>2, AdvanceEffect, FailEffect DEF CheckTerminal
  <1>3. ASSUME ObserveInputs(w)
        PROVE  Advanced(w, "observing")
    <2> DEFINE c == [call[w] EXCEPT !.pc = "observing",
                                    !.seen.inputs = world.inputs]
    <2>1. /\ c.pc = "observing" /\ c.active = call[w].active
          /\ c.base = call[w].base
          /\ c.recorded = call[w].recorded /\ c.cand = call[w].cand
          /\ c.committed = call[w].committed /\ c.kind = call[w].kind
          /\ c.pin = call[w].pin /\ c.robbed = call[w].robbed
          /\ c.code = call[w].code /\ c.report = call[w].report
      BY <1>0 DEF Calls
    <2>2. Becomes(w, c)
      BY <1>3 DEF ObserveInputs
    <2> HIDE DEF c
    <2>3. Moved(w, c.pc, c.active, c.base, c.recorded, c.cand, c.committed)
      BY <2>1, <2>2, MoveEffect
    <2> QED
      BY <2>1, <2>3 DEF Advanced
  <1>4. ASSUME ObserveTrace(w)
        PROVE  Failed(w, "temporary") \/ Advanced(w, "approving")
    <2> DEFINE seen == [call[w].seen EXCEPT !.trace = world.trace]
               c == [call[w] EXCEPT !.pc = "approving", !.seen = seen]
    <2>1. /\ c.pc = "approving" /\ c.active = call[w].active
          /\ c.base = call[w].base
          /\ c.recorded = call[w].recorded /\ c.cand = call[w].cand
          /\ c.committed = call[w].committed /\ c.kind = call[w].kind
          /\ c.pin = call[w].pin /\ c.robbed = call[w].robbed
          /\ c.code = call[w].code /\ c.report = call[w].report
      BY <1>0 DEF Calls
    <2>2. Becomes(w, c) \/ Fail(w, "temporary")
      BY <1>4 DEF ObserveTrace
    <2> HIDE DEF c
    <2>3. CASE Becomes(w, c)
      <3>1. Moved(w, c.pc, c.active, c.base, c.recorded, c.cand, c.committed)
        BY <2>1, <2>3, MoveEffect
      <3> QED
        BY <2>1, <3>1 DEF Advanced
    <2> QED
      BY <2>2, <2>3, FailEffect
  <1>5. ASSUME Validate(w)
        PROVE  \/ Failed(w, "data") \/ Failed(w, "temporary")
               \/ /\ Moved(w, "staged", call[w].active, call[w].base,
                           call[w].recorded, Proposed(w), call[w].committed)
                  /\ TransitionValid(call[w].active, Proposed(w), call[w].base,
                                     call[w].seen)
    <2> DEFINE c == [call[w] EXCEPT !.pc = "staged", !.cand = Proposed(w)]
    <2>1. /\ c.pc = "staged" /\ c.active = call[w].active
          /\ c.base = call[w].base
          /\ c.recorded = call[w].recorded /\ c.cand = Proposed(w)
          /\ c.committed = call[w].committed /\ c.kind = call[w].kind
          /\ c.pin = call[w].pin /\ c.robbed = call[w].robbed
          /\ c.code = call[w].code /\ c.report = call[w].report
      BY <1>0 DEF Calls
    <2>2. \/ Rejection(w) = "none" /\ Becomes(w, c)
          \/ Rejection(w) # "none" /\ Fail(w, Rejection(w))
      BY <1>5 DEF Validate
    <2> HIDE DEF c
    <2>3. CASE Rejection(w) = "none" /\ Becomes(w, c)
      <3>1. Moved(w, c.pc, c.active, c.base, c.recorded, c.cand, c.committed)
        BY <2>1, <2>3, MoveEffect
      <3>2. TransitionValid(call[w].active, Proposed(w), call[w].base,
                            call[w].seen)
        BY <2>3, RejectionCodes
      <3> QED
        BY <2>1, <3>1, <3>2
    <2>4. CASE Rejection(w) # "none" /\ Fail(w, Rejection(w))
      BY <2>4, RejectionCodes, FailEffect
    <2> QED
      BY <2>2, <2>3, <2>4
  <1>6. ASSUME Rehash(w)
        PROVE  \/ Failed(w, "temporary")
               \/ Advanced(w, "rehashed") /\ progress.sha = call[w].base
    BY <1>6, AdvanceEffect, FailEffect DEF Rehash
  <1>7. ASSUME Recheck(w)
        PROVE  \/ Failed(w, "temporary")
               \/ Advanced(w, "cleared") /\ Verified(w)
    BY <1>7, AdvanceEffect, FailEffect DEF Recheck
  <1> QED
    BY <1>1, <1>2, <1>3, <1>4, <1>5, <1>6, <1>7

LEMMA CommitEffect ==
  ASSUME TypeOK, NEW w \in Writers
  PROVE  /\ CommitProgress(w) =>
              Moved(w, "replaced", call[w].active, call[w].base,
                    call[w].recorded, call[w].cand, TRUE)
         /\ CommitStatus(w) => Advanced(w, "published")
         /\ BeginRelease(w) =>
              \/ Failed(w, "unavailable") /\ ~OwnerMatches(w)
              \/ Advanced(w, "unlinking") /\ OwnerMatches(w)
         /\ Report(w) =>
              /\ Alone(w)
              /\ call'[w].pc = "done" /\ call'[w].code = "ok"
              /\ ~call'[w].recorded
              /\ call'[w].committed = call[w].committed
              /\ call'[w].robbed = call[w].robbed
              /\ call'[w].report = [rev |-> call[w].cand.rev,
                                    sha |-> progress.sha]
  <1>0. call[w] \in Calls
    BY CallTypes
  <1>1. ASSUME CommitProgress(w)
        PROVE  Moved(w, "replaced", call[w].active, call[w].base,
                     call[w].recorded, call[w].cand, TRUE)
    <2> DEFINE c == [call[w] EXCEPT !.pc = "replaced", !.committed = TRUE]
    <2>1. /\ c.pc = "replaced" /\ c.active = call[w].active
          /\ c.base = call[w].base
          /\ c.recorded = call[w].recorded /\ c.cand = call[w].cand
          /\ c.committed = TRUE /\ c.kind = call[w].kind
          /\ c.pin = call[w].pin /\ c.robbed = call[w].robbed
          /\ c.code = call[w].code /\ c.report = call[w].report
      BY <1>0 DEF Calls
    <2>2. Becomes(w, c)
      BY <1>1 DEF CommitProgress
    <2> HIDE DEF c
    <2>3. Moved(w, c.pc, c.active, c.base, c.recorded, c.cand, c.committed)
      BY <2>1, <2>2, MoveEffect
    <2> QED
      BY <2>1, <2>3
  <1>2. ASSUME CommitStatus(w)
        PROVE  Advanced(w, "published")
    BY <1>2, AdvanceEffect DEF CommitStatus
  <1>3. ASSUME BeginRelease(w)
        PROVE  \/ Failed(w, "unavailable") /\ ~OwnerMatches(w)
               \/ Advanced(w, "unlinking") /\ OwnerMatches(w)
    BY <1>3, AdvanceEffect, FailEffect DEF BeginRelease
  <1>4. ASSUME Report(w)
        PROVE  /\ Alone(w)
               /\ call'[w].pc = "done" /\ call'[w].code = "ok"
               /\ ~call'[w].recorded
               /\ call'[w].committed = call[w].committed
               /\ call'[w].robbed = call[w].robbed
               /\ call'[w].report = [rev |-> call[w].cand.rev,
                                     sha |-> progress.sha]
    <2> DEFINE c == [Idle EXCEPT !.code = "ok",
                       !.committed = call[w].committed,
                       !.robbed = call[w].robbed,
                       !.report = [rev |-> call[w].cand.rev,
                                   sha |-> progress.sha]]
    <2>1. /\ c.pc = "done" /\ c.code = "ok" /\ ~c.recorded
          /\ c.committed = call[w].committed /\ c.robbed = call[w].robbed
          /\ c.report = [rev |-> call[w].cand.rev, sha |-> progress.sha]
      BY DEF Idle
    <2>2. Becomes(w, c)
      BY <1>4 DEF Report
    <2> HIDE DEF c
    <2>3. call'[w] = c /\ Alone(w)
      BY <2>2 DEF Becomes, TypeOK, Alone
    <2> QED
      BY <2>1, <2>3
  <1> QED
    BY <1>1, <1>2, <1>3, <1>4

(* release() and cleanup() share the two removals.                         *)
LEMMA ReleaseEffect ==
  ASSUME TypeOK, NEW w \in Writers
  PROVE  /\ RemoveOwner(w) =>
              IF owner # NoOwner
              THEN Advanced(w, "rmdir") /\ owner' = NoOwner
              ELSE /\ IF call[w].code = "none"
                      THEN Failed(w, "unavailable")
                      ELSE Ended(w, "unavailable")
                   /\ UNCHANGED owner
         /\ RemoveDir(w) =>
              IF lockDir /\ owner = NoOwner
              THEN /\ ~lockDir'
                   /\ IF call[w].code = "none"
                      THEN Advanced(w, "released")
                      ELSE Ended(w, call[w].code)
              ELSE /\ IF call[w].code = "none"
                      THEN Failed(w, "unavailable")
                      ELSE Ended(w, "unavailable")
                   /\ UNCHANGED lockDir
         /\ Cleanup(w) =>
              \/ Advanced(w, "rmdir") /\ ~call[w].recorded
              \/ /\ Advanced(w, "unlinking")
                 /\ call[w].recorded /\ OwnerMatches(w)
              \/ /\ Ended(w, call[w].code)
                 /\ call[w].recorded /\ ~OwnerMatches(w)
  <1>1. RemoveOwner(w) =>
          IF owner # NoOwner
          THEN Advanced(w, "rmdir") /\ owner' = NoOwner
          ELSE /\ IF call[w].code = "none"
                  THEN Failed(w, "unavailable")
                  ELSE Ended(w, "unavailable")
               /\ UNCHANGED owner
    BY AdvanceEffect, RemovalEffect DEF RemoveOwner
  <1>2. RemoveDir(w) =>
          IF lockDir /\ owner = NoOwner
          THEN /\ ~lockDir'
               /\ IF call[w].code = "none"
                  THEN Advanced(w, "released")
                  ELSE Ended(w, call[w].code)
          ELSE /\ IF call[w].code = "none"
                  THEN Failed(w, "unavailable")
                  ELSE Ended(w, "unavailable")
               /\ UNCHANGED lockDir
    BY AdvanceEffect, ExitEffect, RemovalEffect DEF RemoveDir
  <1>3. Cleanup(w) =>
          \/ Advanced(w, "rmdir") /\ ~call[w].recorded
          \/ /\ Advanced(w, "unlinking")
             /\ call[w].recorded /\ OwnerMatches(w)
          \/ /\ Ended(w, call[w].code)
             /\ call[w].recorded /\ ~OwnerMatches(w)
    BY AdvanceEffect, ExitEffect DEF Cleanup
  <1> QED
    BY <1>1, <1>2, <1>3

LEMMA AccidentEffect ==
  ASSUME TypeOK, NEW w \in Writers
  PROVE  /\ Interrupt(w) =>
              \/ Failed(w, "interrupted")
              \/ Failed(w, "unavailable")
         /\ IOFailure(w) =>
              \/ \E code \in FaultCodes(w) : Failed(w, code)
              \/ /\ call[w].pc \in {"unlinking", "rmdir"}
                 /\ IF call[w].code = "none"
                    THEN Failed(w, "unavailable")
                    ELSE Ended(w, "unavailable")
              \/ call[w].pc = "released" /\ Ended(w, "unavailable")
              \/ /\ call[w].pc = "failing" /\ call[w].recorded
                 /\ Ended(w, call[w].code)
  <1>1. Interrupt(w) => Failed(w, "interrupted") \/ Failed(w, "unavailable")
    BY FailEffect DEF Interrupt, InterruptCodes
  <1>2. IOFailure(w) =>
          \/ \E code \in FaultCodes(w) : Failed(w, code)
          \/ /\ call[w].pc \in {"unlinking", "rmdir"}
             /\ IF call[w].code = "none"
                THEN Failed(w, "unavailable")
                ELSE Ended(w, "unavailable")
          \/ call[w].pc = "released" /\ Ended(w, "unavailable")
          \/ /\ call[w].pc = "failing" /\ call[w].recorded
             /\ Ended(w, call[w].code)
    BY FailEffect, ExitEffect, RemovalEffect DEF IOFailure
  <1> QED
    BY <1>1, <1>2

-----------------------------------------------------------------------------
(* What a call may have done by the time it is where it is, and what its   *)
(* exit code tells of it.  Two kinds of damage are worth a commit that is  *)
(* not reported: a failure and a theft.                                    *)

Troubled == faults > 0 \/ thefts > 0

CallPart(w) ==
  LET c == call[w] IN
  /\ c.pc \in BeforeCommit => ~c.committed /\ c.code = "none"
  /\ c.pc \in {"replaced", "published", "released"}
       => c.committed /\ c.code = "none"
  /\ c.pc \in {"unlinking", "rmdir"} /\ c.code = "none" => c.committed
  /\ c.pc = "failing" => c.code # "none"
  /\ c.code = "ok" => c.pc = "done" /\ c.committed
  /\ c.committed => \/ c.code \in {"none", "ok"}
                    \/ c.code = "unavailable" /\ Troubled
  /\ c.robbed => ~c.committed
  /\ c.pc \in {"locked", "loaded", "pinned", "cleared"} => ~c.robbed
  /\ c.pc \in {"locked", "loaded", "pinned"} => ~c.recorded
  /\ c.pc \in Owning \union {"unlinking"} => c.recorded
  /\ c.recorded => OwnRecord(w) \in Owners

(* Who the owner file names: never a robbed call, and while nobody steals  *)
(* locks, the call that holds the lock from its record on and nobody       *)
(* before.  A call that failed while it gave the lock back may have        *)
(* removed the record already.                                             *)
OwnerPart(w) ==
  LET c == call[w] IN
  /\ c.robbed /\ c.pc \in Guarded => owner # OwnRecord(w)
  /\ thefts = 0 /\ Holding(w) =>
       /\ ~c.recorded => owner = NoOwner
       /\ c.pc = "unlinking" => owner # NoOwner
       /\ c.pc = "rmdir" => owner = NoOwner
       /\ c.pc = "failing" /\ c.recorded => owner = OwnRecord(w) \/ faults > 0

(* The invariant behind RobbedNeverCommits, ExitCodeHonest and             *)
(* NoOrphanLock, beside LockDiscipline.                                    *)
PromiseInv ==
  /\ ~lockDir => owner = NoOwner
  /\ NoOrphanLock
  /\ \A w \in Writers : CallPart(w) /\ OwnerPart(w)

(* What a step of w has to show of w itself...                             *)
OwnKept(w) ==
  /\ CallPart(w)'
  /\ OwnerPart(w)'
  /\ ~lockDir' => owner' = NoOwner
  /\ Undamaged' /\ lockDir' /\ Holding(w) => Holding(w)'

(* ... and of what the others depend on.                                   *)
Beside(w) ==
  /\ Alone(w)
  /\ thefts' = thefts
  /\ faults > 0 => faults' > 0
  /\ Undamaged' => Undamaged
  /\ owner' \in {owner, NoOwner, OwnRecord(w)}
  /\ \/ Holding(w)
     \/ ~lockDir /\ Holding(w)'
     \/ UNCHANGED <<lockDir, owner>>

(* No owner record is NoOwner, and no two calls write the same.            *)
LEMMA RecordsDiffer ==
  ASSUME TypeOK, NEW w \in Writers
  PROVE  /\ OwnRecord(w) \in Owners => OwnRecord(w) # NoOwner
         /\ \A v \in Writers : OwnRecord(v) = OwnRecord(w) => v = w
  <1>1. NoOwner \notin Owners
    BY StoreAssumption DEF Owners, Shas
  <1>2. OwnRecord(w).by = w
    BY DEF OwnRecord
  <1>3. \A v \in Writers : OwnRecord(v).by = v
    BY DEF OwnRecord
  <1> QED
    BY <1>1, <1>2, <1>3

LEMMA OthersKept ==
  ASSUME TypeOK, LockDiscipline, PromiseInv, NEW w \in Writers,
         OwnKept(w), Beside(w)
  PROVE  PromiseInv'
  <1>1. ASSUME NEW v \in Writers, v # w
        PROVE  /\ call'[v] = call[v]
               /\ OwnRecord(v)' = OwnRecord(v)
               /\ Holding(v)' = Holding(v)
    BY <1>1 DEF Beside, Alone, OwnRecord, Holding
  <1>2. ASSUME NEW v \in Writers, v # w
        PROVE  CallPart(v)'
    <2>1. CallPart(v)
      BY DEF PromiseInv
    <2>2. Troubled => Troubled'
      BY DEF Beside, Troubled
    <2> QED
      BY <1>1, <1>2, <2>1, <2>2 DEF CallPart
  <1>3. ASSUME NEW v \in Writers, v # w
        PROVE  OwnerPart(v)'
    <2>1. CallPart(v) /\ OwnerPart(v)
      BY DEF PromiseInv
    <2>2. CASE call[v].robbed /\ call[v].pc \in Guarded
      <3>1. owner # OwnRecord(v) /\ call[v].recorded
        BY <2>1, <2>2 DEF OwnerPart, CallPart, Owning
      <3>2. OwnRecord(v) # NoOwner /\ OwnRecord(w) # OwnRecord(v)
        BY <1>3, <2>1, <3>1, RecordsDiffer DEF CallPart
      <3>3. owner' # OwnRecord(v)
        BY <3>1, <3>2 DEF Beside
      <3> QED
        BY <1>1, <1>3, <2>1, <2>2, <3>3
        DEF OwnerPart, LockDiscipline, Guarded, Beside, Owning, Holding
    <2>3. CASE ~(call[v].robbed /\ call[v].pc \in Guarded)
      <3>1. ASSUME thefts' = 0, Holding(v)'
            PROVE  /\ thefts = 0 /\ Holding(v)
                   /\ owner' = owner
        BY <1>1, <1>3, <3>1 DEF LockDiscipline, Beside
      <3> QED
        BY <1>1, <1>3, <2>1, <2>3, <3>1 DEF OwnerPart, Beside
    <2> QED
      BY <2>2, <2>3
  <1>4. NoOrphanLock'
    <2> SUFFICES ASSUME Undamaged', lockDir', ~Holding(w)'
                 PROVE  \E v \in Writers : Holding(v)'
      BY DEF NoOrphanLock
    <2>1. ~Holding(w) /\ UNCHANGED lockDir /\ Undamaged
      BY DEF OwnKept, Beside
    <2>2. PICK v \in Writers : Holding(v)
      BY <2>1 DEF PromiseInv, NoOrphanLock
    <2> QED
      BY <1>1, <2>1, <2>2
  <1> QED
    BY <1>2, <1>3, <1>4 DEF PromiseInv, OwnKept

(* A step of the holder that leaves the damage and the lock alone, or      *)
(* changes the owner file in the two ways a call ever does.                *)
LEMMA HolderBeside ==
  ASSUME NEW w \in Writers, Holding(w), Alone(w), UNCHANGED damage,
         owner' \in {owner, NoOwner, OwnRecord(w)}
  PROVE  Beside(w)
  BY DEF Beside, damage, Undamaged

LEMMA StartPromise ==
  ASSUME TypeOK, LockDiscipline, PromiseInv, NEW w \in Writers,
         AcquireLock(w) \/ LockBusy(w)
  PROVE  PromiseInv'
  <1>0. /\ ~lockDir => owner = NoOwner
        /\ UNCHANGED owner /\ UNCHANGED damage
    BY DEF PromiseInv, AcquireLock, LockBusy, disk
  <1>1. CASE AcquireLock(w)
    <2>1. /\ ~lockDir /\ lockDir'
          /\ Alone(w)
          /\ call'[w].pc = "locked" /\ call'[w].code = "none"
          /\ ~call'[w].recorded /\ ~call'[w].committed
          /\ ~call'[w].robbed
      BY <1>1, StartEffect DEF AcquireLock
    <2>2. CallPart(w)'
      BY <2>1 DEF CallPart, Owning, Guarded, BeforeCommit
    <2>3. OwnerPart(w)'
      BY <1>0, <2>1 DEF OwnerPart, Guarded
    <2>4. Holding(w)'
      BY <2>1 DEF Holding
    <2>5. OwnKept(w) /\ Beside(w)
      BY <1>0, <2>1, <2>2, <2>3, <2>4
      DEF OwnKept, Beside, damage, Undamaged
    <2> QED
      BY <2>5, OthersKept
  <1>2. CASE LockBusy(w)
    <2>1. /\ UNCHANGED lockDir /\ ~Holding(w)
          /\ Alone(w)
          /\ call'[w].pc = "done" /\ call'[w].code = "temporary"
          /\ ~call'[w].recorded /\ ~call'[w].committed
          /\ ~call'[w].robbed
      BY <1>2, StartEffect DEF LockBusy, Holding, disk
    <2>2. CallPart(w)'
      BY <2>1 DEF CallPart, Owning, Guarded, BeforeCommit
    <2>3. OwnerPart(w)'
      BY <1>0, <2>1 DEF OwnerPart, Guarded, Holding
    <2>4. OwnKept(w) /\ Beside(w)
      BY <1>0, <2>1, <2>2, <2>3
      DEF OwnKept, Beside, damage, Undamaged
    <2> QED
      BY <2>4, OthersKept
  <1> QED
    BY <1>1, <1>2

(* An early return before the commit, or one with a reason.                *)
LEMMA FailedPromise ==
  ASSUME TypeOK, LockDiscipline, NEW w \in Writers, NEW code,
         CallPart(w), Failed(w, code), Holding(w), code \notin {"none", "ok"},
         UNCHANGED <<lockDir, owner, thefts>>, faults > 0 => faults' > 0,
         ~lockDir => owner = NoOwner,
         call[w].committed => code = "unavailable" /\ Troubled',
         call[w].pc \in {"locked", "loaded", "pinned"} \union Owning
           \/ faults' > 0,
         OwnerPart(w)
  PROVE  OwnKept(w)
  <1>1. /\ call'[w].pc = "failing" /\ call'[w].code = code
        /\ call'[w].recorded = call[w].recorded
        /\ call'[w].committed = call[w].committed
        /\ call'[w].robbed = call[w].robbed
        /\ OwnRecord(w)' = OwnRecord(w)
    BY DEF Failed, OwnRecord
  <1>2. CallPart(w)'
    BY <1>1 DEF CallPart, Owning, Guarded, BeforeCommit
  <1>3. ASSUME thefts = 0, call[w].pc \in Owning
        PROVE  owner = OwnRecord(w)
    BY <1>3 DEF LockDiscipline, Owning
  <1>4. ASSUME thefts = 0, ~call[w].recorded PROVE owner = NoOwner
    BY <1>4 DEF OwnerPart
  <1>5. call[w].pc \in {"locked", "loaded", "pinned"} => ~call[w].recorded
    BY DEF CallPart
  <1>6. OwnerPart(w)'
    BY <1>1, <1>3, <1>4, <1>5 DEF OwnerPart, Guarded
  <1>7. Holding(w)'
    BY <1>1 DEF Holding
  <1> QED
    BY <1>2, <1>6, <1>7 DEF OwnKept

(* The steps before the commit, once the owner record is written: what it  *)
(* is made of stays, and Recheck lets no robbed call through.              *)
LEMMA CheckedPromise ==
  ASSUME TypeOK, LockDiscipline, PromiseInv, NEW w \in Writers,
         NEW pc \in Guarded \union {"cleared"}, NEW cand,
         Moved(w, pc, call[w].active, call[w].base, call[w].recorded, cand,
               call[w].committed),
         call[w].pc \in Guarded,
         pc = "cleared" => Verified(w),
         UNCHANGED <<lockDir, owner, damage>>
  PROVE  PromiseInv'
  <1>0. /\ CallPart(w) /\ OwnerPart(w) /\ Holding(w)
        /\ ~lockDir => owner = NoOwner
    BY DEF PromiseInv, Holding, Guarded
  <1>1. /\ Alone(w)
        /\ call'[w].pc = pc /\ call'[w].code = call[w].code
        /\ call'[w].recorded = call[w].recorded
        /\ call'[w].committed = call[w].committed
        /\ call'[w].robbed = call[w].robbed
        /\ OwnRecord(w)' = OwnRecord(w)
        /\ Troubled' = Troubled
    BY DEF Moved, OwnRecord, Troubled, damage
  <1>2. call[w].recorded /\ ~call[w].committed /\ call[w].code = "none"
    BY <1>0 DEF CallPart, Owning, Guarded, BeforeCommit
  <1>3. pc = "cleared" => ~call[w].robbed
    BY <1>0 DEF OwnerPart, Verified
  <1>4. CallPart(w)'
    BY <1>0, <1>1, <1>2, <1>3 DEF CallPart, Owning, Guarded, BeforeCommit
  <1>5. OwnerPart(w)'
    BY <1>0, <1>1, <1>2 DEF OwnerPart, Guarded
  <1>6. Holding(w)'
    BY <1>1 DEF Holding, Guarded
  <1>7. OwnKept(w) /\ Beside(w)
    BY <1>0, <1>1, <1>4, <1>5, <1>6, HolderBeside DEF OwnKept
  <1> QED
    BY <1>7, OthersKept

(* A refusal or an interrupt before the commit.                            *)
LEMMA RefusedPromise ==
  ASSUME TypeOK, LockDiscipline, PromiseInv, NEW w \in Writers, NEW code,
         Failed(w, code), code \notin {"none", "ok"},
         call[w].pc \in {"locked", "loaded", "pinned", "cleared"}
                          \union Guarded,
         UNCHANGED <<lockDir, owner, damage>>
  PROVE  PromiseInv'
  <1>1. /\ CallPart(w) /\ OwnerPart(w) /\ Holding(w)
        /\ ~lockDir => owner = NoOwner
    BY DEF PromiseInv, Holding, Guarded
  <1>2. /\ ~call[w].committed
        /\ call[w].pc \in {"locked", "loaded", "pinned"} \union Owning
    BY <1>1 DEF CallPart, BeforeCommit, Guarded, Owning
  <1>3. OwnKept(w)
    BY <1>1, <1>2, FailedPromise DEF damage
  <1>4. Beside(w)
    BY <1>1, HolderBeside DEF Failed
  <1> QED
    BY <1>3, <1>4, OthersKept

LEMMA LoadPromise ==
  ASSUME TypeInv, LockDiscipline, PromiseInv, NEW w \in Writers,
         LoadActive(w) \/ HashActive(w) \/ RecordLock(w) \/ VerifyLock(w)
  PROVE  PromiseInv'
  <1>0. /\ TypeOK /\ CallPart(w) /\ OwnerPart(w) /\ Holding(w)
        /\ ~lockDir => owner = NoOwner
        /\ UNCHANGED <<lockDir, damage>>
    BY DEF PromiseInv, TypeInv, Holding, LoadActive, HashActive, RecordLock,
           VerifyLock, disk
  <1>1. ASSUME NEW pc \in {"loaded", "pinned"}, NEW active, NEW base,
               Moved(w, pc, active, base, call[w].recorded, call[w].cand,
                     call[w].committed),
               call[w].pc \in {"locked", "loaded"}, UNCHANGED owner
        PROVE  PromiseInv'
    <2>1. /\ Alone(w)
          /\ call'[w].pc = pc /\ call'[w].code = call[w].code
          /\ call'[w].recorded = call[w].recorded
          /\ call'[w].committed = call[w].committed
          /\ call'[w].robbed = call[w].robbed
          /\ Troubled' = Troubled
      BY <1>0, <1>1 DEF Moved, Troubled, damage
    <2>2. /\ ~call[w].recorded /\ ~call[w].committed /\ ~call[w].robbed
          /\ call[w].code = "none"
      BY <1>0, <1>1 DEF CallPart, BeforeCommit
    <2>3. CallPart(w)'
      BY <1>0, <2>1, <2>2 DEF CallPart, Owning, Guarded, BeforeCommit
    <2>4. OwnerPart(w)'
      BY <1>0, <1>1, <2>1, <2>2 DEF OwnerPart, damage
    <2>5. Holding(w)'
      BY <2>1 DEF Holding
    <2>6. OwnKept(w) /\ Beside(w)
      BY <1>0, <1>1, <2>1, <2>3, <2>4, <2>5, HolderBeside DEF OwnKept
    <2> QED
      BY <1>0, <2>6, OthersKept
  <1>2. CASE LoadActive(w)
    <2>1. call[w].pc = "locked" /\ UNCHANGED owner
      BY <1>2 DEF LoadActive, disk
    <2> QED
      BY <1>0, <1>1, <1>2, <2>1, LoadEffect, RefusedPromise
  <1>3. CASE HashActive(w)
    <2>1. call[w].pc = "loaded" /\ UNCHANGED owner
      BY <1>3 DEF HashActive, disk
    <2> QED
      BY <1>0, <1>1, <1>3, <2>1, LoadEffect, RefusedPromise
  <1>4. CASE RecordLock(w)
    <2>1. call[w].pc = "pinned" /\ call[w].base \in Shas
      BY <1>4 DEF RecordLock, TypeInv
    <2>2. CASE Failed(w, "unavailable") /\ UNCHANGED owner
      BY <1>0, <2>1, <2>2, RefusedPromise
    <2>3. CASE /\ Moved(w, "recorded", call[w].active, call[w].base, TRUE,
                        call[w].cand, call[w].committed)
               /\ lockDir /\ owner' = OwnRecord(w)
      <3>1. /\ Alone(w)
            /\ call'[w].pc = "recorded" /\ call'[w].code = call[w].code
            /\ call'[w].recorded = TRUE
            /\ call'[w].committed = call[w].committed
            /\ call'[w].robbed = call[w].robbed
            /\ OwnRecord(w)' = OwnRecord(w)
        BY <2>3 DEF Moved, OwnRecord
      <3>2. /\ ~call[w].committed /\ ~call[w].robbed
            /\ call[w].code = "none"
        BY <1>0, <2>1 DEF CallPart, BeforeCommit
      <3>3. OwnRecord(w) \in Owners
        <4>1. call[w].active.rev \in Nat
          BY <1>0, CallTypes DEF Docs
        <4> QED
          BY <2>1, <4>1 DEF OwnRecord, Owners
      <3>4. CallPart(w)'
        BY <3>1, <3>2, <3>3 DEF CallPart, Owning, Guarded, BeforeCommit
      <3>5. OwnerPart(w)'
        BY <3>1, <3>2 DEF OwnerPart
      <3>6. Holding(w)'
        BY <3>1 DEF Holding
      <3>7. OwnKept(w) /\ Beside(w)
        BY <1>0, <2>3, <3>1, <3>4, <3>5, <3>6, HolderBeside DEF OwnKept
      <3> QED
        BY <1>0, <3>7, OthersKept
    <2> QED
      BY <1>0, <1>4, <2>2, <2>3, LoadEffect
  <1>5. CASE VerifyLock(w)
    <2>1. /\ call[w].pc \in Guarded /\ UNCHANGED owner
          /\ "verified" \in Guarded
      BY <1>5 DEF VerifyLock, Guarded, disk
    <2>2. Failed(w, "temporary") \/ Advanced(w, "verified")
      BY <1>0, <1>5, LoadEffect
    <2> QED
      BY <1>0, <2>1, <2>2, RefusedPromise, CheckedPromise DEF Advanced
  <1> QED
    BY <1>2, <1>3, <1>4, <1>5

LEMMA CheckPromise ==
  ASSUME TypeOK, LockDiscipline, PromiseInv, NEW w \in Writers,
         \/ LoadCandidate(w) \/ CheckTerminal(w) \/ ObserveInputs(w)
         \/ ObserveTrace(w) \/ Validate(w) \/ Rehash(w) \/ Recheck(w)
  PROVE  PromiseInv'
  <1>0. /\ \/ call[w].pc = "verified" \/ call[w].pc = "drafted"
           \/ call[w].pc = "observing" \/ call[w].pc = "approving"
           \/ call[w].pc = "staged" \/ call[w].pc = "rehashed"
        /\ UNCHANGED <<disk, damage>>
    BY Zenon DEF LoadCandidate, CheckTerminal, ObserveInputs, ObserveTrace,
                 Validate, Rehash, Recheck
  <1>1. /\ call[w].pc \in Guarded
        /\ UNCHANGED <<lockDir, owner, damage>>
    BY <1>0 DEF Guarded, disk
  <1>2. {"drafted", "observing", "approving", "staged", "rehashed"}
          \subseteq Guarded
    BY DEF Guarded
  <1>3. ASSUME Failed(w, "data") \/ Failed(w, "temporary")
        PROVE  PromiseInv'
    BY <1>1, <1>3, RefusedPromise
  <1>4. ASSUME NEW pc \in Guarded, NEW cand,
               Moved(w, pc, call[w].active, call[w].base, call[w].recorded,
                     cand, call[w].committed)
        PROVE  PromiseInv'
    <2>1. pc # "cleared"
      BY <1>4 DEF Guarded
    <2> QED
      BY <1>1, <1>4, <2>1, CheckedPromise
  <1>5. CASE LoadCandidate(w)
    <2>1. \/ Failed(w, "data")
          \/ \E cand : Moved(w, "drafted", call[w].active, call[w].base,
                             call[w].recorded, cand, call[w].committed)
      BY <1>5, CheckEffect
    <2> QED
      BY <1>2, <1>3, <1>4, <2>1
  <1>6. CASE CheckTerminal(w) \/ ObserveInputs(w) \/ ObserveTrace(w)
    BY <1>2, <1>3, <1>4, <1>6, CheckEffect DEF Advanced
  <1>7. CASE Validate(w)
    BY <1>2, <1>3, <1>4, <1>7, CheckEffect
  <1>8. CASE Rehash(w)
    BY <1>2, <1>3, <1>4, <1>8, CheckEffect DEF Advanced
  <1>9. CASE Recheck(w)
    <2>1. \/ Failed(w, "temporary")
          \/ Advanced(w, "cleared") /\ Verified(w)
      BY <1>9, CheckEffect
    <2>2. ASSUME Advanced(w, "cleared"), Verified(w)
          PROVE  PromiseInv'
      BY <1>1, <2>2, CheckedPromise DEF Advanced
    <2> QED
      BY <1>3, <2>1, <2>2
  <1> QED
    BY <1>5, <1>6, <1>7, <1>8, <1>9

(* The commit itself and the step to the release keep the owner record.    *)
LEMMA CommitPromise ==
  ASSUME TypeOK, LockDiscipline, PromiseInv, NEW w \in Writers,
         CommitProgress(w) \/ CommitStatus(w)
  PROVE  PromiseInv'
  <1>0. /\ CallPart(w) /\ OwnerPart(w) /\ Holding(w)
        /\ ~lockDir => owner = NoOwner
        /\ UNCHANGED <<lockDir, owner, damage>>
    BY DEF PromiseInv, Holding, CommitProgress, CommitStatus
  <1>1. /\ call[w].pc \in {"cleared", "replaced"}
        /\ Alone(w)
        /\ call'[w].pc \in {"replaced", "published"}
        /\ call'[w].code = call[w].code
        /\ call'[w].recorded = call[w].recorded
        /\ call'[w].committed
        /\ call'[w].robbed = call[w].robbed
        /\ OwnRecord(w)' = OwnRecord(w)
        /\ Troubled' = Troubled
    <2>1. CASE CommitProgress(w)
      <3>0. call[w].pc = "cleared"
        BY <2>1 DEF CommitProgress
      <3>1. Moved(w, "replaced", call[w].active, call[w].base,
                  call[w].recorded, call[w].cand, TRUE)
        BY <2>1, CommitEffect
      <3>2. call'[w].committed
        BY <3>1, Zenon DEF Moved
      <3> QED
        BY <1>0, <3>0, <3>1, <3>2 DEF Moved, OwnRecord, Troubled, damage
    <2>2. CASE CommitStatus(w)
      <3>1. call[w].pc = "replaced" /\ Advanced(w, "published")
        BY <2>2, CommitEffect DEF CommitStatus
      <3>2. call[w].committed
        BY <1>0, <3>1 DEF CallPart
      <3> QED
        BY <1>0, <3>1, <3>2 DEF Advanced, Moved, OwnRecord, Troubled, damage
    <2> QED
      BY <2>1, <2>2
  <1>2. call[w].recorded /\ ~call[w].robbed /\ call[w].code = "none"
    BY <1>0, <1>1 DEF CallPart, Owning, BeforeCommit
  <1>3. CallPart(w)'
    BY <1>0, <1>1, <1>2 DEF CallPart, Owning, Guarded, BeforeCommit
  <1>4. OwnerPart(w)'
    BY <1>0, <1>1, <1>2 DEF OwnerPart
  <1>5. Holding(w)'
    BY <1>1 DEF Holding
  <1>6. OwnKept(w) /\ Beside(w)
    BY <1>0, <1>1, <1>3, <1>4, <1>5, HolderBeside DEF OwnKept
  <1> QED
    BY <1>6, OthersKept

(* A call that is on its way out: the owner record is still there when it  *)
(* is to be removed, unless there was a theft or a failure.                *)
LEMMA LeavingFacts ==
  ASSUME TypeOK, LockDiscipline, NEW w \in Writers, CallPart(w), OwnerPart(w),
         thefts = 0
  PROVE  /\ call[w].pc = "published" => OwnerMatches(w)
         /\ call[w].pc = "failing" /\ call[w].recorded
              => OwnerMatches(w) \/ faults > 0
         /\ call[w].pc \in {"unlinking", "rmdir"} => lockDir
         /\ call[w].pc = "unlinking" => owner # NoOwner
         /\ call[w].pc = "rmdir" => owner = NoOwner
  <1>1. /\ call[w].pc = "published" => owner = OwnRecord(w)
        /\ Holding(w) => lockDir
    BY DEF LockDiscipline
  <1>2. call[w].recorded => OwnRecord(w) # NoOwner
    BY RecordsDiffer DEF CallPart
  <1>3. OwnRecord(w).by = w
    BY DEF OwnRecord
  <1>4. call[w].pc = "published" => call[w].recorded
    BY DEF CallPart, Owning
  <1>5. call[w].pc \in {"published", "failing", "unlinking", "rmdir"}
          => Holding(w)
    BY DEF Holding
  <1> QED
    BY <1>1, <1>2, <1>3, <1>4, <1>5 DEF OwnerPart, OwnerMatches

(* The last step of a call, with or without the lock.                      *)
LEMMA EndedPromise ==
  ASSUME TypeOK, LockDiscipline, PromiseInv, NEW w \in Writers, NEW code,
         Ended(w, code), code # "ok",
         call[w].committed => code = "unavailable" /\ Troubled',
         thefts' = thefts, faults > 0 => faults' > 0, Undamaged' => Undamaged,
         UNCHANGED owner, lockDir' => lockDir, ~lockDir' => owner = NoOwner,
         Undamaged' /\ lockDir' => ~Holding(w),
         Holding(w) \/ UNCHANGED lockDir
  PROVE  PromiseInv'
  <1>0. CallPart(w) /\ OwnerPart(w)
    BY DEF PromiseInv
  <1>1. /\ Alone(w)
        /\ call'[w].pc = "done" /\ call'[w].code = code
        /\ ~call'[w].recorded
        /\ call'[w].committed = call[w].committed
        /\ call'[w].robbed = call[w].robbed
    BY DEF Ended
  <1>2. CallPart(w)'
    BY <1>0, <1>1 DEF CallPart, Owning, Guarded, BeforeCommit
  <1>3. OwnerPart(w)'
    BY <1>1 DEF OwnerPart, Guarded, Holding
  <1>4. OwnKept(w) /\ Beside(w)
    BY <1>1, <1>2, <1>3 DEF OwnKept, Beside
  <1> QED
    BY <1>4, OthersKept

LEMMA ReleasePromise ==
  ASSUME TypeOK, LockDiscipline, PromiseInv, NEW w \in Writers,
         BeginRelease(w) \/ RemoveOwner(w) \/ RemoveDir(w)
  PROVE  PromiseInv'
  <1>0. /\ CallPart(w) /\ OwnerPart(w) /\ Holding(w)
        /\ ~lockDir => owner = NoOwner
        /\ UNCHANGED damage
        /\ thefts \in Nat
    BY DEF PromiseInv, Holding, BeginRelease, RemoveOwner, RemoveDir, TypeOK
  <1>1. thefts = 0 =>
          /\ call[w].pc = "published" => OwnerMatches(w)
          /\ call[w].pc \in {"unlinking", "rmdir"} => lockDir
          /\ call[w].pc = "unlinking" => owner # NoOwner
          /\ call[w].pc = "rmdir" => owner = NoOwner
    BY <1>0, LeavingFacts
  <1>2. ASSUME thefts # 0, UNCHANGED <<lockDir, owner>>,
               IF call[w].code = "none" THEN Failed(w, "unavailable")
                                        ELSE Ended(w, "unavailable")
        PROVE  PromiseInv'
    <2>1. Troubled' /\ thefts' # 0 /\ ~Undamaged'
      BY <1>0, <1>2 DEF Troubled, damage, Undamaged, TypeOK
    <2>2. CASE call[w].code = "none"
      <3>1. Failed(w, "unavailable") /\ Alone(w)
        BY <1>2, <2>2 DEF Failed
      <3>2. CallPart(w)' /\ Holding(w)'
        BY <1>0, <2>1, <3>1
        DEF Failed, CallPart, Owning, Guarded, BeforeCommit, Holding, OwnRecord
      <3>3. OwnerPart(w)'
        BY <2>1, <3>1 DEF OwnerPart, Failed, Guarded
      <3>4. OwnKept(w) /\ Beside(w)
        BY <1>0, <1>2, <3>1, <3>2, <3>3, HolderBeside DEF OwnKept
      <3> QED
        BY <3>4, OthersKept
    <2>3. CASE call[w].code # "none"
      <3>1. Ended(w, "unavailable")
        BY <1>2, <2>3
      <3>2. /\ thefts' = thefts /\ faults' = faults
            /\ Undamaged' => Undamaged
        BY <1>0 DEF damage, Undamaged
      <3> QED
        BY <1>0, <1>2, <2>1, <3>1, <3>2, EndedPromise
    <2> QED
      BY <2>2, <2>3
  (* The lock is given back one removal further.                           *)
  <1>3. ASSUME NEW pc \in {"unlinking", "rmdir", "released"},
               Advanced(w, pc), pc = "unlinking" => call[w].recorded,
               pc \in {"unlinking", "released"}
                 => call[w].code = "none" /\ call[w].committed,
               call[w].pc \in {"published", "unlinking", "rmdir"},
               owner' \in {owner, NoOwner}, lockDir' => lockDir,
               ~lockDir' => owner' = NoOwner,
               pc = "released" => ~lockDir',
               thefts = 0 /\ pc = "unlinking" => owner' # NoOwner,
               thefts = 0 /\ pc = "rmdir" => owner' = NoOwner,
               pc = "rmdir" => call[w].pc = "unlinking"
        PROVE  PromiseInv'
    <2>1. /\ Alone(w)
          /\ call'[w].pc = pc /\ call'[w].code = call[w].code
          /\ call'[w].recorded = call[w].recorded
          /\ call'[w].committed = call[w].committed
          /\ call'[w].robbed = call[w].robbed
          /\ OwnRecord(w)' = OwnRecord(w)
          /\ Troubled' = Troubled /\ thefts' = thefts
      BY <1>0, <1>3 DEF Advanced, Moved, OwnRecord, Troubled, damage
    <2>2. CallPart(w)'
      BY <1>0, <1>3, <2>1 DEF CallPart, Owning, Guarded, BeforeCommit
    <2>3. OwnerPart(w)'
      <3>1. call[w].pc = "unlinking" => call[w].recorded
        BY <1>0 DEF CallPart
      <3> QED
        BY <1>3, <2>1, <3>1 DEF OwnerPart, Guarded, Holding
    <2>4. pc # "released" => Holding(w)'
      BY <1>3, <2>1 DEF Holding
    <2>5. OwnKept(w)
      BY <1>3, <2>2, <2>3, <2>4 DEF OwnKept
    <2>6. Beside(w)
      BY <1>0, <1>3, <2>1, HolderBeside
    <2> QED
      BY <2>5, <2>6, OthersKept
  <1>4. CASE BeginRelease(w)
    <2>1. /\ call[w].pc = "published" /\ UNCHANGED <<lockDir, owner>>
          /\ call[w].code = "none" /\ call[w].committed /\ call[w].recorded
      BY <1>0, <1>4 DEF BeginRelease, CallPart, Owning, disk
    <2>2. \/ Failed(w, "unavailable") /\ ~OwnerMatches(w)
          \/ Advanced(w, "unlinking") /\ OwnerMatches(w)
      BY <1>4, CommitEffect
    <2>3. OwnerMatches(w) => lockDir /\ owner # NoOwner
      BY DEF OwnerMatches
    <2> QED
      BY <1>0, <1>1, <1>2, <1>3, <2>1, <2>2, <2>3
  <1>5. CASE RemoveOwner(w)
    <2>1. call[w].pc = "unlinking" /\ UNCHANGED lockDir
      BY <1>5 DEF RemoveOwner
    <2>2. CASE owner # NoOwner
      <3>1. Advanced(w, "rmdir") /\ owner' = NoOwner
        BY <1>5, <2>2, ReleaseEffect
      <3> QED
        BY <1>3, <2>1, <3>1
    <2>3. CASE owner = NoOwner
      BY <1>1, <1>2, <1>5, <2>1, <2>3, ReleaseEffect
    <2> QED
      BY <2>2, <2>3
  <1>6. CASE RemoveDir(w)
    <2>1. call[w].pc = "rmdir" /\ UNCHANGED owner
      BY <1>6 DEF RemoveDir
    <2>2. CASE lockDir /\ owner = NoOwner /\ call[w].code = "none"
      <3>1. Advanced(w, "released") /\ ~lockDir'
        BY <1>6, <2>2, ReleaseEffect
      <3>2. call[w].committed
        BY <1>0, <2>1, <2>2 DEF CallPart
      <3> QED
        BY <1>3, <2>1, <2>2, <3>1, <3>2
    <2>3. CASE lockDir /\ owner = NoOwner /\ call[w].code # "none"
      <3>1. Ended(w, call[w].code) /\ ~lockDir'
        BY <1>6, <2>3, ReleaseEffect
      <3>2. /\ thefts' = thefts /\ faults' = faults /\ Troubled' = Troubled
            /\ Undamaged' => Undamaged
        BY <1>0 DEF damage, Undamaged, Troubled
      <3>3. /\ call[w].code # "ok"
            /\ call[w].committed => call[w].code = "unavailable" /\ Troubled
        BY <1>0, <2>1, <2>3 DEF CallPart
      <3> QED
        BY <1>0, <2>1, <2>3, <3>1, <3>2, <3>3, EndedPromise
    <2>4. CASE ~(lockDir /\ owner = NoOwner)
      BY <1>1, <1>2, <1>6, <2>1, <2>4, ReleaseEffect
    <2> QED
      BY <2>2, <2>3, <2>4
  <1> QED
    BY <1>4, <1>5, <1>6

LEMMA CleanupPromise ==
  ASSUME TypeOK, LockDiscipline, PromiseInv, NEW w \in Writers, Cleanup(w)
  PROVE  PromiseInv'
  <1>0. /\ CallPart(w) /\ OwnerPart(w) /\ Holding(w)
        /\ call[w].pc = "failing" /\ call[w].code \notin {"none", "ok"}
        /\ ~lockDir => owner = NoOwner
        /\ UNCHANGED <<lockDir, owner, damage>>
        /\ thefts \in Nat /\ faults \in Nat
    BY DEF PromiseInv, Holding, Cleanup, TypeOK, CallPart, disk
  <1>1. call[w].committed => call[w].code = "unavailable" /\ Troubled
    BY <1>0 DEF CallPart
  <1>2. /\ thefts' = thefts /\ faults' = faults
        /\ Troubled' = Troubled /\ Undamaged' = Undamaged
    BY <1>0 DEF damage, Troubled, Undamaged
  <1>3. ASSUME NEW pc \in {"rmdir", "unlinking"}, Advanced(w, pc),
               pc = "rmdir" => ~call[w].recorded,
               pc = "unlinking" => call[w].recorded /\ OwnerMatches(w)
        PROVE  PromiseInv'
    <2>1. /\ Alone(w)
          /\ call'[w].pc = pc /\ call'[w].code = call[w].code
          /\ call'[w].recorded = call[w].recorded
          /\ call'[w].committed = call[w].committed
          /\ call'[w].robbed = call[w].robbed
          /\ OwnRecord(w)' = OwnRecord(w)
      BY <1>3 DEF Advanced, Moved, OwnRecord
    <2>2. CallPart(w)'
      BY <1>0, <1>1, <1>2, <1>3, <2>1
      DEF CallPart, Owning, Guarded, BeforeCommit
    <2>3. OwnerPart(w)'
      BY <1>0, <1>2, <1>3, <2>1 DEF OwnerPart, Guarded, OwnerMatches
    <2>4. Holding(w)'
      BY <1>3, <2>1 DEF Holding
    <2>5. OwnKept(w) /\ Beside(w)
      BY <1>0, <2>1, <2>2, <2>3, <2>4, HolderBeside DEF OwnKept
    <2> QED
      BY <2>5, OthersKept
  <1>4. ASSUME Ended(w, call[w].code), call[w].recorded, ~OwnerMatches(w)
        PROVE  PromiseInv'
    <2>1. thefts = 0 => faults > 0
      BY <1>0, <1>4, LeavingFacts
    <2>2. ~Undamaged'
      BY <1>2, <2>1 DEF Undamaged, TypeOK
    <2> QED
      BY <1>0, <1>1, <1>2, <1>4, <2>2, EndedPromise
  <1> QED
    BY <1>3, <1>4, ReleaseEffect

LEMMA ReportPromise ==
  ASSUME TypeOK, LockDiscipline, PromiseInv, NEW w \in Writers, Report(w)
  PROVE  PromiseInv'
  <1>0. /\ CallPart(w) /\ ~Holding(w)
        /\ call[w].committed
        /\ ~lockDir => owner = NoOwner
        /\ UNCHANGED <<lockDir, owner, damage>>
    BY DEF PromiseInv, Holding, Report, CallPart, disk
  <1>1. /\ Alone(w)
        /\ call'[w].pc = "done" /\ call'[w].code = "ok"
        /\ ~call'[w].recorded
        /\ call'[w].committed = call[w].committed
        /\ call'[w].robbed = call[w].robbed
    BY CommitEffect
  <1>2. CallPart(w)'
    BY <1>0, <1>1 DEF CallPart, Owning, Guarded, BeforeCommit
  <1>3. OwnerPart(w)'
    BY <1>1 DEF OwnerPart, Guarded, Holding
  <1>4. OwnKept(w) /\ Beside(w)
    BY <1>0, <1>1, <1>2, <1>3 DEF OwnKept, Beside, damage, Undamaged
  <1> QED
    BY <1>4, OthersKept

LEMMA AccidentPromise ==
  ASSUME TypeOK, LockDiscipline, PromiseInv, NEW w \in Writers,
         Interrupt(w) \/ IOFailure(w) \/ Crash(w)
  PROVE  PromiseInv'
  <1>0. /\ CallPart(w) /\ OwnerPart(w)
        /\ ~lockDir => owner = NoOwner
        /\ crashes \in Nat /\ thefts \in Nat /\ faults \in Nat
    BY DEF PromiseInv, TypeOK
  <1>1. CASE Interrupt(w)
    <2>1. /\ call[w].pc \in Interruptible
          /\ UNCHANGED <<lockDir, owner, damage>>
      BY <1>1 DEF Interrupt, disk
    <2>2. Interruptible \subseteq {"locked", "cleared"} \union Guarded
      BY DEF Interruptible, Guarded
    <2>3. Failed(w, "interrupted") \/ Failed(w, "unavailable")
      BY <1>1, AccidentEffect
    <2> QED
      BY <2>1, <2>2, <2>3, RefusedPromise
  <1>2. CASE IOFailure(w)
    <2>1. /\ UNCHANGED <<lockDir, owner, thefts, crashes>>
          /\ faults' > 0 /\ ~Undamaged' /\ Troubled'
      BY <1>0, <1>2 DEF IOFailure, disk, Undamaged, Troubled
    <2>2. ASSUME NEW code, Failed(w, code), Holding(w),
                 code \notin {"none", "ok"},
                 call[w].committed => code = "unavailable"
          PROVE  PromiseInv'
      <3>1. OwnKept(w)
        BY <1>0, <2>1, <2>2, FailedPromise
      <3>2. Beside(w)
        BY <2>1, <2>2 DEF Beside, Failed
      <3> QED
        BY <3>1, <3>2, OthersKept
    <2>3. ASSUME NEW code, Ended(w, code), code # "ok",
                 call[w].committed => code = "unavailable"
          PROVE  PromiseInv'
      BY <1>0, <2>1, <2>3, EndedPromise
    <2>4. ASSUME NEW code \in FaultCodes(w), Failed(w, code)
          PROVE  PromiseInv'
      <3>1. /\ Holding(w) /\ code \notin {"none", "ok"}
            /\ code = "unavailable" \/ call[w].pc \in BeforeCommit
        BY <2>4 DEF FaultCodes, Holding, BeforeCommit
      <3>2. call[w].committed => code = "unavailable"
        BY <1>0, <3>1 DEF CallPart
      <3> QED
        BY <2>2, <2>4, <3>1, <3>2
    <2>5. call[w].pc \in {"unlinking", "rmdir"} => Holding(w)
      BY DEF Holding
    <2>6. call[w].pc = "failing" =>
            /\ call[w].code # "ok"
            /\ call[w].committed => call[w].code = "unavailable"
      BY <1>0 DEF CallPart
    <2> QED
      BY <1>2, <2>2, <2>3, <2>4, <2>5, <2>6, AccidentEffect
  <1>3. CASE Crash(w)
    <2>1. /\ UNCHANGED <<lockDir, owner, thefts, faults>>
          /\ crashes' = crashes + 1
      BY <1>3 DEF Crash, disk
    <2>2. /\ Alone(w)
          /\ call'[w].pc = "done" /\ call'[w].code = "none"
          /\ ~call'[w].recorded /\ ~call'[w].committed
          /\ ~call'[w].robbed
      BY <1>3, StartEffect
    <2>3. ~Undamaged'
      BY <1>0, <2>1 DEF Undamaged
    <2>4. CallPart(w)'
      BY <2>2 DEF CallPart, Owning, Guarded, BeforeCommit
    <2>5. OwnerPart(w)'
      BY <2>2 DEF OwnerPart, Guarded, Holding
    <2>6. OwnKept(w) /\ Beside(w)
      BY <1>0, <2>1, <2>2, <2>3, <2>4, <2>5 DEF OwnKept, Beside
    <2> QED
      BY <2>6, OthersKept
  <1> QED
    BY <1>1, <1>2, <1>3

(* People: what they do to a lock counts as a theft, unless nobody holds   *)
(* it.                                                                     *)
LEMMA OutsidePromise ==
  ASSUME TypeOK, LockDiscipline, PromiseInv, Outside
  PROVE  PromiseInv'
  <1>0. crashes \in Nat /\ thefts \in Nat /\ faults \in Nat
    BY DEF TypeOK
  <1>1. ASSUME UNCHANGED <<lockDir, owner, call, damage>>
        PROVE  PromiseInv'
    BY <1>1 DEF PromiseInv, NoOrphanLock, Undamaged, CallPart, OwnerPart,
                Troubled, OwnRecord, Holding, damage
  <1>2. CASE ClearOrphan
    <2>1. /\ ~lockDir' /\ owner' = NoOwner /\ UNCHANGED <<call, damage>>
          /\ \A w \in Writers : ~Holding(w)
      BY <1>2 DEF ClearOrphan
    <2>2. ASSUME NEW w \in Writers
          PROVE  CallPart(w)' /\ OwnerPart(w)'
      <3>1. CallPart(w)' /\ Holding(w)' = Holding(w)
        BY <2>1 DEF PromiseInv, CallPart, Troubled, OwnRecord, Holding, damage
      <3>2. ~Holding(w)' /\ call'[w].pc \notin Guarded
        BY <2>1, <3>1 DEF Holding, Guarded
      <3> QED
        BY <3>1, <3>2 DEF OwnerPart
    <2> QED
      BY <2>1, <2>2 DEF PromiseInv, NoOrphanLock
  <1>3. CASE StealOwner \/ RemoveLockByHand
    <2>1. /\ Rob /\ thefts' = thefts + 1 /\ UNCHANGED <<crashes, faults>>
          /\ ~lockDir' => owner' = NoOwner
          /\ owner' = NoOwner \/ owner'.by = Foreigner
      <3>1. CASE StealOwner
        <4>1. /\ Rob /\ thefts' = thefts + 1 /\ UNCHANGED <<crashes, faults>>
              /\ lockDir /\ lockDir' = lockDir
          BY <3>1 DEF StealOwner
        <4>2. owner'.by = Foreigner
          BY <3>1 DEF StealOwner
        <4> QED
          BY <1>0, <4>1, <4>2
      <3>2. CASE RemoveLockByHand
        BY <1>0, <3>2 DEF RemoveLockByHand
      <3> QED
        BY <1>3, <3>1, <3>2
    <2>2. ~Undamaged' /\ Troubled'
      BY <1>0, <2>1 DEF Undamaged, Troubled
    <2>3. ASSUME NEW w \in Writers
          PROVE  CallPart(w)' /\ OwnerPart(w)'
      <3>1. CallPart(w) /\ call[w] \in Calls
        BY DEF PromiseInv, TypeOK
      <3>2. /\ call'[w].pc = call[w].pc /\ call'[w].code = call[w].code
            /\ call'[w].committed = call[w].committed
            /\ call'[w].recorded = call[w].recorded
            /\ call'[w].robbed
                 => call[w].robbed \/ call[w].pc \in Guarded
            /\ OwnRecord(w)' = OwnRecord(w)
        <4>1. CASE call[w].pc \in Guarded
          <5>1. call'[w] = [call[w] EXCEPT !.robbed = TRUE]
            BY <2>1, <4>1 DEF Rob
          <5> QED
            BY <3>1, <4>1, <5>1 DEF Calls, OwnRecord
        <4>2. CASE call[w].pc \notin Guarded
          <5>1. call'[w] = call[w]
            BY <2>1, <4>2 DEF Rob
          <5> QED
            BY <5>1 DEF OwnRecord
        <4> QED
          BY <4>1, <4>2
      <3>3. CallPart(w)'
        BY <2>2, <3>1, <3>2 DEF CallPart, Guarded, Owning, BeforeCommit
      <3>4. call'[w].pc \in Guarded => owner' # OwnRecord(w)'
        <4>1. call'[w].pc \in Guarded => OwnRecord(w) # NoOwner
          BY <3>1, <3>2, RecordsDiffer DEF CallPart, Owning
        <4>2. OwnRecord(w).by # Foreigner
          BY StoreAssumption DEF OwnRecord
        <4> QED
          BY <2>1, <3>2, <4>1, <4>2
      <3>5. thefts' # 0
        BY <1>0, <2>1
      <3> QED
        BY <3>3, <3>4, <3>5 DEF OwnerPart
    <2> QED
      BY <2>1, <2>2, <2>3 DEF PromiseInv, NoOrphanLock
  <1>4. CASE Drift \/ \E a \in Receipts : WriteReceipt(a)
    BY <1>1, <1>4 DEF Drift, WriteReceipt, disk
  <1> QED
    BY <1>2, <1>3, <1>4 DEF Outside

LEMMA PromiseStep ==
  TypeInv /\ LockDiscipline /\ PromiseInv /\ [Next]_vars => PromiseInv'
  <1> SUFFICES ASSUME TypeInv, LockDiscipline, PromiseInv, [Next]_vars
               PROVE  PromiseInv'
    OBVIOUS
  <1>0. TypeOK
    BY DEF TypeInv
  <1>1. ASSUME NEW w \in Writers, Call(w)
        PROVE  PromiseInv'
    BY <1>0, <1>1, StartPromise, LoadPromise, CheckPromise, CommitPromise,
       ReleasePromise, CleanupPromise, ReportPromise, AccidentPromise
    DEF Call, Step
  <1>2. ASSUME UNCHANGED <<lockDir, owner, call, damage>>
        PROVE  PromiseInv'
    BY <1>2 DEF PromiseInv, NoOrphanLock, Undamaged, CallPart, OwnerPart,
                Troubled, OwnRecord, Holding, damage
  <1>3. CASE \E r \in Readers : Look(r)
    BY <1>2, <1>3
    DEF Look, ReadProgress, LookAtInputs, CheckWorld, CompareView, disk
  <1>4. CASE UNCHANGED vars
    BY <1>2, <1>4 DEF vars, disk
  <1> QED
    BY <1>0, <1>1, <1>3, <1>4, OutsidePromise DEF Next

LEMMA PromiseInit == Init => PromiseInv
  <1> SUFFICES ASSUME Init PROVE PromiseInv
    OBVIOUS
  <1>1. ASSUME NEW w \in Writers
        PROVE  CallPart(w) /\ OwnerPart(w)
    <2>1. /\ call[w].pc = "done" /\ call[w].code = "none"
          /\ ~call[w].recorded /\ ~call[w].committed /\ ~call[w].robbed
      BY DEF Init, Idle
    <2> QED
      BY <2>1 DEF CallPart, OwnerPart, Owning, Guarded, BeforeCommit, Holding
  <1> QED
    BY <1>1 DEF Init, PromiseInv, NoOrphanLock

THEOREM PromiseInvariant == Spec => []PromiseInv
  BY PromiseInit, PromiseStep, StoreTypeInvariant, LockExcludes, PTL DEF Spec

(* A call that was not killed and met no failure takes its lock with it,   *)
(* however it ended.                                                       *)
THEOREM LockIsNeverOrphaned == Spec => []NoOrphanLock
  <1>1. PromiseInv => NoOrphanLock
    BY DEF PromiseInv
  <1> QED
    BY <1>1, PromiseInvariant, PTL

(* A robbed call commits nothing, for any number of thefts.                *)
THEOREM TheRobbedNeverCommit == Spec => []RobbedNeverCommits
  <1>1. PromiseInv => RobbedNeverCommits
    BY DEF PromiseInv, CallPart, RobbedNeverCommits
  <1> QED
    BY <1>1, PromiseInvariant, PTL

(* The exit codes of checkpoint and resume tell the truth about the        *)
(* ledger.                                                                 *)
THEOREM StoreExitsAreHonest == Spec => []ExitCodeHonest
  <1>1. TypeInv /\ PromiseInv => ExitCodeHonest
    <2> SUFFICES ASSUME TypeInv, PromiseInv PROVE ExitCodeHonest
      OBVIOUS
    <2>1. thefts \in Nat /\ faults \in Nat
      BY DEF TypeInv, TypeOK
    <2>2. Troubled => faults + thefts > 0
      BY <2>1 DEF Troubled
    <2> QED
      BY <2>2 DEF PromiseInv, CallPart, ExitCodeHonest
  <1> QED
    BY <1>1, PromiseInvariant, StoreTypeInvariant, PTL

-----------------------------------------------------------------------------
(* A call runs down: how many steps it has left at most.  A call that      *)
(* fails with code "none" would begin its cleanup again and again; that it *)
(* cannot is what CallPart knows of the codes.                             *)

Left(pc, code) ==
  CASE pc = "done"                          -> 0
    [] pc = "released"                      -> 1
    [] pc = "rmdir"     /\ code # "none"    -> 2
    [] pc = "unlinking" /\ code # "none"    -> 3
    [] pc = "failing"                       -> 4
    [] pc = "rmdir"     /\ code = "none"    -> 5
    [] pc = "unlinking" /\ code = "none"    -> 6
    [] pc = "published"                     -> 7
    [] pc = "replaced"                      -> 8
    [] pc = "cleared"                       -> 9
    [] pc = "rehashed"                      -> 10
    [] pc = "staged"                        -> 11
    [] pc = "approving"                     -> 12
    [] pc = "observing"                     -> 13
    [] pc = "drafted"                       -> 14
    [] pc = "verified"                      -> 15
    [] pc = "recorded"                      -> 16
    [] pc = "pinned"                        -> 17
    [] pc = "loaded"                        -> 18
    [] pc = "locked"                        -> 19

StepsLeft(w) == Left(call[w].pc, call[w].code)

(* What a call that runs does or suffers.                                  *)
Goes(w) == Step(w) \/ Interrupt(w) \/ IOFailure(w) \/ Crash(w)

(* Every step of a call leaves it fewer steps, and no step of anybody else *)
(* gives it more: neither another call nor a theft, a cleared lock, an     *)
(* edit or a receipt.                                                      *)
RunsDown ==
  \A w \in Writers :
    /\ StepsLeft(w) \in Nat /\ StepsLeft(w) <= 19
    /\ Goes(w) => StepsLeft(w)' < StepsLeft(w)
    /\ call[w].pc # "done" => StepsLeft(w)' <= StepsLeft(w)

LEMMA LeftRange ==
  ASSUME NEW pc \in Pcs, NEW code
  PROVE  /\ Left(pc, code) \in Nat /\ Left(pc, code) <= 19
         /\ Left(pc, code) = 0 <=> pc = "done"
  <1>1. pc \in BeforeCommit \/ pc \in AfterCommit \/ pc \in {"done", "failing"}
    BY DEF Pcs
  <1>2. Left(pc, code) \in Nat
    BY <1>1 DEF Left, BeforeCommit, AfterCommit
  <1>3. Left(pc, code) <= 19
    BY <1>1 DEF Left, BeforeCommit, AfterCommit
  <1>4. Left(pc, code) = 0 <=> pc = "done"
    BY <1>1 DEF Left, BeforeCommit, AfterCommit
  <1> QED
    BY <1>2, <1>3, <1>4

LEMMA LeftBounds ==
  ASSUME TypeOK, NEW w \in Writers
  PROVE  /\ StepsLeft(w) \in Nat /\ StepsLeft(w) <= 19
         /\ StepsLeft(w) = 0 <=> call[w].pc = "done"
  <1>1. call[w].pc \in Pcs
    BY CallTypes DEF Calls
  <1> QED
    BY <1>1, LeftRange DEF StepsLeft

(* Where code is "none", which is everywhere but in the cleanup.           *)
LEMMA NothingSaidYet ==
  ASSUME PromiseInv, NEW w \in Writers,
         call[w].pc \in BeforeCommit \union {"replaced", "published", "released"}
  PROVE  call[w].code = "none"
  BY DEF PromiseInv, CallPart

LEMMA FailingLowers ==
  ASSUME TypeOK, PromiseInv, NEW w \in Writers, NEW code, Failed(w, code),
         \/ call[w].pc \in BeforeCommit \union {"replaced", "published"}
         \/ call[w].pc \in {"unlinking", "rmdir"} /\ call[w].code = "none"
  PROVE  StepsLeft(w)' < StepsLeft(w)
  <1>1. StepsLeft(w)' = 4
    BY DEF Failed, StepsLeft, Left
  <1>2. StepsLeft(w) > 4
    BY DEF StepsLeft, Left, BeforeCommit
  <1> QED
    BY <1>1, <1>2

LEMMA EndingLowers ==
  ASSUME TypeOK, NEW w \in Writers, NEW code,
         Ended(w, code), call[w].pc # "done"
  PROVE  StepsLeft(w)' < StepsLeft(w)
  <1>1. StepsLeft(w)' = 0
    BY DEF Ended, StepsLeft, Left
  <1> QED
    BY <1>1, LeftBounds

(* A step forward, from a place where only the pc counts.                  *)
LEMMA MovingLowers ==
  ASSUME NEW w \in Writers, NEW pc, NEW active, NEW base, NEW recorded,
         NEW cand, NEW committed,
         Moved(w, pc, active, base, recorded, cand, committed),
         Left(pc, call[w].code) < Left(call[w].pc, call[w].code)
  PROVE  StepsLeft(w)' < StepsLeft(w)
  BY DEF Moved, StepsLeft

LEMMA LoadLowers ==
  ASSUME TypeOK, PromiseInv, NEW w \in Writers,
         LoadActive(w) \/ HashActive(w) \/ RecordLock(w) \/ VerifyLock(w)
  PROVE  StepsLeft(w)' < StepsLeft(w)
  <1>1. CASE LoadActive(w)
    <2>1. call[w].pc = "locked"
      BY <1>1 DEF LoadActive
    <2>2. Left("loaded", call[w].code) < Left(call[w].pc, call[w].code)
      BY <2>1 DEF Left
    <2> QED
      BY <1>1, <2>1, <2>2, LoadEffect, FailingLowers, MovingLowers
      DEF BeforeCommit
  <1>2. CASE HashActive(w)
    <2>1. call[w].pc = "loaded"
      BY <1>2 DEF HashActive
    <2>2. Left("pinned", call[w].code) < Left(call[w].pc, call[w].code)
      BY <2>1 DEF Left
    <2> QED
      BY <1>2, <2>1, <2>2, LoadEffect, FailingLowers, MovingLowers
      DEF BeforeCommit
  <1>3. CASE RecordLock(w)
    <2>1. call[w].pc = "pinned"
      BY <1>3 DEF RecordLock
    <2>2. Left("recorded", call[w].code) < Left(call[w].pc, call[w].code)
      BY <2>1 DEF Left
    <2> QED
      BY <1>3, <2>1, <2>2, LoadEffect, FailingLowers, MovingLowers
      DEF BeforeCommit
  <1>4. CASE VerifyLock(w)
    <2>1. call[w].pc = "recorded"
      BY <1>4 DEF VerifyLock
    <2>2. Left("verified", call[w].code) < Left(call[w].pc, call[w].code)
      BY <2>1 DEF Left
    <2> QED
      BY <1>4, <2>1, <2>2, LoadEffect, FailingLowers, MovingLowers
      DEF BeforeCommit, Advanced
  <1> QED
    BY <1>1, <1>2, <1>3, <1>4

LEMMA CheckLowers ==
  ASSUME TypeOK, PromiseInv, NEW w \in Writers,
         \/ LoadCandidate(w) \/ CheckTerminal(w) \/ ObserveInputs(w)
         \/ ObserveTrace(w) \/ Validate(w) \/ Rehash(w) \/ Recheck(w)
  PROVE  StepsLeft(w)' < StepsLeft(w)
  <1>1. CASE LoadCandidate(w)
    <2>1. call[w].pc = "verified"
      BY <1>1 DEF LoadCandidate
    <2>2. Left("drafted", call[w].code) < Left(call[w].pc, call[w].code)
      BY <2>1 DEF Left
    <2> QED
      BY <1>1, <2>1, <2>2, CheckEffect, FailingLowers, MovingLowers
      DEF BeforeCommit, Advanced
  <1>2. CASE CheckTerminal(w)
    <2>1. call[w].pc = "verified"
      BY <1>2 DEF CheckTerminal
    <2>2. Left("drafted", call[w].code) < Left(call[w].pc, call[w].code)
      BY <2>1 DEF Left
    <2> QED
      BY <1>2, <2>1, <2>2, CheckEffect, FailingLowers, MovingLowers
      DEF BeforeCommit, Advanced
  <1>3. CASE ObserveInputs(w)
    <2>1. call[w].pc = "drafted"
      BY <1>3 DEF ObserveInputs
    <2>2. Left("observing", call[w].code) < Left(call[w].pc, call[w].code)
      BY <2>1 DEF Left
    <2> QED
      BY <1>3, <2>1, <2>2, CheckEffect, FailingLowers, MovingLowers
      DEF BeforeCommit, Advanced
  <1>4. CASE ObserveTrace(w)
    <2>1. call[w].pc = "observing"
      BY <1>4 DEF ObserveTrace
    <2>2. Left("approving", call[w].code) < Left(call[w].pc, call[w].code)
      BY <2>1 DEF Left
    <2> QED
      BY <1>4, <2>1, <2>2, CheckEffect, FailingLowers, MovingLowers
      DEF BeforeCommit, Advanced
  <1>5. CASE Validate(w)
    <2>1. call[w].pc = "approving"
      BY <1>5 DEF Validate
    <2>2. Left("staged", call[w].code) < Left(call[w].pc, call[w].code)
      BY <2>1 DEF Left
    <2> QED
      BY <1>5, <2>1, <2>2, CheckEffect, FailingLowers, MovingLowers
      DEF BeforeCommit, Advanced
  <1>6. CASE Rehash(w)
    <2>1. call[w].pc = "staged"
      BY <1>6 DEF Rehash
    <2>2. Left("rehashed", call[w].code) < Left(call[w].pc, call[w].code)
      BY <2>1 DEF Left
    <2> QED
      BY <1>6, <2>1, <2>2, CheckEffect, FailingLowers, MovingLowers
      DEF BeforeCommit, Advanced
  <1>7. CASE Recheck(w)
    <2>1. call[w].pc = "rehashed"
      BY <1>7 DEF Recheck
    <2>2. Left("cleared", call[w].code) < Left(call[w].pc, call[w].code)
      BY <2>1 DEF Left
    <2> QED
      BY <1>7, <2>1, <2>2, CheckEffect, FailingLowers, MovingLowers
      DEF BeforeCommit, Advanced
  <1> QED
    BY <1>1, <1>2, <1>3, <1>4, <1>5, <1>6, <1>7

LEMMA CommitLowers ==
  ASSUME TypeOK, PromiseInv, NEW w \in Writers,
         CommitProgress(w) \/ CommitStatus(w) \/ BeginRelease(w) \/ Report(w)
  PROVE  StepsLeft(w)' < StepsLeft(w)
  <1>1. CASE CommitProgress(w)
    <2>1. call[w].pc = "cleared"
      BY <1>1 DEF CommitProgress
    <2>2. Left("replaced", call[w].code) < Left(call[w].pc, call[w].code)
      BY <2>1 DEF Left
    <2> QED
      BY <1>1, <2>1, <2>2, CommitEffect, FailingLowers, MovingLowers
      DEF BeforeCommit, Advanced
  <1>2. CASE CommitStatus(w)
    <2>1. call[w].pc = "replaced"
      BY <1>2 DEF CommitStatus
    <2>2. Left("published", call[w].code) < Left(call[w].pc, call[w].code)
      BY <2>1 DEF Left
    <2> QED
      BY <1>2, <2>1, <2>2, CommitEffect, FailingLowers, MovingLowers
      DEF BeforeCommit, Advanced
  <1>3. CASE BeginRelease(w)
    <2>1. call[w].pc = "published" /\ call[w].code = "none"
      BY <1>3, NothingSaidYet DEF BeginRelease
    <2>2. Left("unlinking", call[w].code) < Left(call[w].pc, call[w].code)
      BY <2>1 DEF Left
    <2> QED
      BY <1>3, <2>1, <2>2, CommitEffect, FailingLowers, MovingLowers
      DEF Advanced
  <1>4. CASE Report(w)
    <2>1. call[w].pc = "released"
      BY <1>4 DEF Report
    <2>2. call'[w].pc = "done"
      BY <1>4, CommitEffect
    <2> QED
      BY <2>1, <2>2 DEF StepsLeft, Left
  <1> QED
    BY <1>1, <1>2, <1>3, <1>4

LEMMA ReleaseLowers ==
  ASSUME TypeOK, PromiseInv, NEW w \in Writers,
         RemoveOwner(w) \/ RemoveDir(w) \/ Cleanup(w)
  PROVE  StepsLeft(w)' < StepsLeft(w)
  <1>1. CASE RemoveOwner(w)
    <2>1. call[w].pc = "unlinking"
      BY <1>1 DEF RemoveOwner
    <2>2. Left("rmdir", call[w].code) < Left(call[w].pc, call[w].code)
      BY <2>1 DEF Left
    <2> QED
      BY <1>1, <2>1, <2>2, ReleaseEffect, FailingLowers, EndingLowers,
         MovingLowers
      DEF Advanced
  <1>2. CASE RemoveDir(w)
    <2>1. call[w].pc = "rmdir"
      BY <1>2 DEF RemoveDir
    <2>2. Left("released", call[w].code) < Left(call[w].pc, call[w].code)
      BY <2>1 DEF Left
    <2> QED
      BY <1>2, <2>1, <2>2, ReleaseEffect, FailingLowers, EndingLowers,
         MovingLowers
      DEF Advanced
  <1>3. CASE Cleanup(w)
    <2>1. call[w].pc = "failing" /\ call[w].code # "none"
      BY <1>3 DEF Cleanup, PromiseInv, CallPart
    <2>2. /\ Left("rmdir", call[w].code) < Left(call[w].pc, call[w].code)
          /\ Left("unlinking", call[w].code) < Left(call[w].pc, call[w].code)
      BY <2>1 DEF Left
    <2>3. \/ Ended(w, call[w].code)
          \/ Advanced(w, "rmdir")
          \/ Advanced(w, "unlinking")
      BY <1>3, AdvanceEffect, ExitEffect DEF Cleanup
    <2> QED
      BY <2>1, <2>2, <2>3, EndingLowers, MovingLowers DEF Advanced
  <1> QED
    BY <1>1, <1>2, <1>3

LEMMA AccidentLowers ==
  ASSUME TypeOK, PromiseInv, NEW w \in Writers,
         Interrupt(w) \/ IOFailure(w) \/ Crash(w)
  PROVE  StepsLeft(w)' < StepsLeft(w)
  <1>1. CASE Interrupt(w)
    <2>1. call[w].pc \in BeforeCommit
      BY <1>1 DEF Interrupt, Interruptible, BeforeCommit
    <2> QED
      BY <1>1, <2>1, AccidentEffect, FailingLowers
  <1>2. CASE IOFailure(w)
    <2>1. ASSUME NEW code \in FaultCodes(w), Failed(w, code)
          PROVE  StepsLeft(w)' < StepsLeft(w)
      <3>1. call[w].pc \in BeforeCommit \union {"replaced", "published"}
        BY <2>1 DEF FaultCodes, BeforeCommit
      <3> QED
        BY <2>1, <3>1, FailingLowers
    <2>2. ASSUME call[w].pc \in {"unlinking", "rmdir"},
                 IF call[w].code = "none" THEN Failed(w, "unavailable")
                                          ELSE Ended(w, "unavailable")
          PROVE  StepsLeft(w)' < StepsLeft(w)
      BY <2>2, FailingLowers, EndingLowers
    <2>3. ASSUME call[w].pc \in {"released", "failing"},
                 NEW code, Ended(w, code)
          PROVE  StepsLeft(w)' < StepsLeft(w)
      BY <2>3, EndingLowers
    <2> QED
      BY <1>2, <2>1, <2>2, <2>3, AccidentEffect
  <1>3. CASE Crash(w)
    <2>1. call[w].pc # "done"
      BY <1>3 DEF Crash
    <2>2. call'[w].pc = "done"
      BY <1>3, StartEffect
    <2>3. StepsLeft(w)' = 0
      BY <2>2 DEF StepsLeft, Left
    <2> QED
      BY <2>1, <2>3, LeftBounds
  <1> QED
    BY <1>1, <1>2, <1>3

LEMMA GoingLowers ==
  ASSUME TypeOK, PromiseInv, NEW w \in Writers, Goes(w)
  PROVE  StepsLeft(w)' < StepsLeft(w)
  BY LoadLowers, CheckLowers, CommitLowers, ReleaseLowers, AccidentLowers
  DEF Goes, Step

LEMMA CallAlone ==
  ASSUME TypeOK, NEW w \in Writers, Call(w)
  PROVE  Alone(w)
  <1>1. (AcquireLock(w) \/ LockBusy(w) \/ Crash(w)) => Alone(w)
    BY StartEffect
  <1>2. (LoadActive(w) \/ HashActive(w) \/ RecordLock(w) \/ VerifyLock(w))
          => Alone(w)
    BY LoadEffect DEF Moved, Advanced, Failed
  <1>3. (\/ LoadCandidate(w) \/ CheckTerminal(w) \/ ObserveInputs(w)
         \/ ObserveTrace(w) \/ Validate(w) \/ Rehash(w) \/ Recheck(w))
          => Alone(w)
    BY CheckEffect DEF Moved, Advanced, Failed
  <1>4. (CommitProgress(w) \/ CommitStatus(w) \/ BeginRelease(w) \/ Report(w))
          => Alone(w)
    BY CommitEffect DEF Moved, Advanced, Failed
  <1>5. (RemoveOwner(w) \/ RemoveDir(w)) => Alone(w)
    BY ReleaseEffect DEF Moved, Advanced, Failed, Ended
  <1>6. Cleanup(w) => Alone(w)
    BY AdvanceEffect, ExitEffect DEF Cleanup, Moved, Advanced, Ended
  <1>7. (Interrupt(w) \/ IOFailure(w)) => Alone(w)
    BY AccidentEffect DEF Failed, Ended
  <1> QED
    BY <1>1, <1>2, <1>3, <1>4, <1>5, <1>6, <1>7 DEF Call, Step

(* The steps of everybody else.                                            *)
LEMMA OthersKeepPlace ==
  ASSUME TypeOK, [Next]_vars, NEW w \in Writers, ~Call(w)
  PROVE  call'[w].pc = call[w].pc /\ call'[w].code = call[w].code
  <1>1. ASSUME NEW v \in Writers, Call(v)
        PROVE  call'[w] = call[w]
    <2>1. v # w
      BY <1>1
    <2>2. Alone(v)
      BY <1>1, CallAlone
    <2> QED
      BY <2>1, <2>2 DEF Alone
  <1>2. ASSUME Rob
        PROVE  call'[w].pc = call[w].pc /\ call'[w].code = call[w].code
    <2>1. CASE call[w].pc \in Guarded
      <3>1. call'[w] = [call[w] EXCEPT !.robbed = TRUE]
        BY <1>2, <2>1 DEF Rob
      <3> QED
        BY <3>1, CallTypes DEF Calls
    <2>2. CASE call[w].pc \notin Guarded
      BY <1>2, <2>2 DEF Rob
    <2> QED
      BY <2>1, <2>2
  <1>3. ASSUME Outside
        PROVE  Rob \/ call' = call
    BY <1>3 DEF Outside, ClearOrphan, StealOwner, RemoveLockByHand, Drift,
                WriteReceipt
  <1>4. ASSUME NEW r \in Readers, Look(r)
        PROVE  call' = call
    BY <1>4 DEF Look, ReadProgress, LookAtInputs, CheckWorld, CompareView
  <1>5. UNCHANGED vars => call' = call
    BY DEF vars
  <1> QED
    BY <1>1, <1>2, <1>3, <1>4, <1>5 DEF Next

LEMMA RunningDown ==
  TypeInv /\ TypeInv' /\ PromiseInv /\ [Next]_vars => RunsDown
  <1> SUFFICES ASSUME TypeInv, TypeInv', PromiseInv, [Next]_vars, NEW w \in Writers
               PROVE  /\ StepsLeft(w) \in Nat /\ StepsLeft(w) <= 19
                      /\ Goes(w) => StepsLeft(w)' < StepsLeft(w)
                      /\ call[w].pc # "done" => StepsLeft(w)' <= StepsLeft(w)
    BY DEF RunsDown
  <1>0. TypeOK
    BY DEF TypeInv
  <1>1. StepsLeft(w) \in Nat /\ StepsLeft(w) <= 19
    BY <1>0, LeftBounds
  <1>2. Goes(w) => StepsLeft(w)' < StepsLeft(w)
    BY <1>0, GoingLowers
  <1>3. ASSUME call[w].pc # "done", ~Goes(w)
        PROVE  StepsLeft(w)' = StepsLeft(w)
    <2>1. ~Call(w)
      BY <1>3 DEF Call, Goes, AcquireLock, LockBusy
    <2> QED
      BY <1>0, <2>1, OthersKeepPlace DEF StepsLeft
  <1>4. CASE Goes(w)
    <2>1. call'[w].pc \in Pcs
      BY DEF TypeInv, TypeOK, Calls
    <2>2. StepsLeft(w)' \in Nat
      BY <2>1, LeftRange DEF StepsLeft
    <2> QED
      BY <1>1, <1>2, <1>4, <2>2
  <1>5. CASE ~Goes(w)
    BY <1>1, <1>3, <1>5
  <1> QED
    BY <1>4, <1>5

(* A checkpoint or resume ends after at most nineteen steps of its own,    *)
(* however the others' steps come between: it never waits for another call *)
(* and its cleanup never begins twice.                                     *)
THEOREM StoreCallsRunDown == Spec => [][RunsDown]_vars
  BY RunningDown, StoreTypeInvariant, PromiseInvariant, PTL DEF Spec
=============================================================================
