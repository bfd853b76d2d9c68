-------------------------- MODULE MissionInitProofs --------------------------
(***************************************************************************)
(* What holds of mission init for any number of callers, crashes, failures *)
(* and stolen locks.                                                       *)
(***************************************************************************)
EXTENDS MissionInit, TLAPS

-----------------------------------------------------------------------------
(* Types.                                                                  *)

LEMMA MovesTyped ==
  ASSUME TypeOK, NEW c \in Callers, NEW pc \in Pcs, NEW code \in Codes,
         Goto(c, pc) \/ Exit(c, code) \/ Fail(c, code)
  PROVE  call' \in [Callers -> Calls]
  <1>1. call \in [Callers -> Calls] /\ call[c] \in Calls
    BY DEF TypeOK
  <1>2. "done" \in Pcs /\ "unlock" \in Pcs /\ "unstage" \in Pcs
    BY DEF Pcs
  <1>3. CASE Goto(c, pc)
    BY <1>1, <1>3 DEF Goto, Calls
  <1>4. CASE Exit(c, code)
    BY <1>1, <1>2, <1>4 DEF Exit, Calls
  <1>5. CASE Fail(c, code)
    BY <1>1, <1>2, <1>5 DEF Fail, Calls
  <1> QED
    BY <1>3, <1>4, <1>5

LEMMA InitTyped == Init => TypeOK
  <1>1. 0 \in 0..MaxRevision /\ 0 \in 0..MaxCrashes /\ 0 \in 0..MaxFaults
        /\ 0 \in 0..MaxThefts
    BY InitAssumption
  <1>2. Idle \in Calls
    BY <1>1 DEF Idle, Calls, Pcs, Codes
  <1> QED
    BY <1>1, <1>2 DEF Init, TypeOK

LEMMA StepKeepsTypes ==
  ASSUME TypeOK, NEW c \in Callers, Step(c)
  PROVE  TypeOK'
  <1>0. /\ {"done", "checking", "locking", "staging", "trace", "progress",
            "status", "raced", "publishing", "unlocking", "hashing",
            "unlock"} \subseteq Pcs
        /\ {"none", "ok", "temporary", "unavailable"} \subseteq Codes
        /\ call[c] \in Calls /\ call[c].code \in Codes
        /\ call \in [Callers -> Calls]
        /\ 1 \in 0..MaxRevision
    BY InitAssumption DEF Pcs, Building, Codes, TypeOK, Calls
  <1>1. ASSUME UNCHANGED <<place, stages, damage>>, lock' \in BOOLEAN,
               call' \in [Callers -> Calls]
        PROVE  TypeOK'
    BY <1>1 DEF TypeOK, place, stages, damage
  <1>2. CASE Observe(c)
    BY <1>0, <1>1, <1>2, MovesTyped DEF Observe, TypeOK
  <1>3. CASE CheckAbsent(c)
    BY <1>0, <1>1, <1>3, MovesTyped DEF CheckAbsent, TypeOK
  <1>4. CASE MakeLock(c)
    BY <1>0, <1>1, <1>4, MovesTyped DEF MakeLock, TypeOK
  <1>5. CASE MakeStage(c)
    <2>1. call' \in [Callers -> Calls]
      BY <1>0, <1>5, MovesTyped DEF MakeStage
    <2> QED
      BY <1>5, <2>1 DEF MakeStage, TypeOK, place, damage
  <1>6. ASSUME NEW pc \in Pcs, NEW file \in Files, NEW next \in Pcs,
               WriteFile(c, pc, file, next)
        PROVE  TypeOK'
    <2>1. call' \in [Callers -> Calls]
      BY <1>0, <1>6, MovesTyped DEF WriteFile
    <2>2. built' \in [Callers -> SUBSET Files]
      BY <1>6 DEF WriteFile, TypeOK
    <2> QED
      BY <1>6, <2>1, <2>2 DEF WriteFile, TypeOK, place, damage
  <1>7. CASE WriteTrace(c) \/ WriteProgress(c) \/ WriteStatus(c)
    BY <1>0, <1>6, <1>7 DEF WriteTrace, WriteProgress, WriteStatus, Files
  <1>8. CASE CheckRaced(c)
    BY <1>0, <1>1, <1>8, MovesTyped DEF CheckRaced, TypeOK
  <1>9. CASE Publish(c)
    <2>1. CASE mission = NoMission
      <3>1. call' \in [Callers -> Calls]
        BY <1>0, <1>9, <2>1 DEF Publish, Calls
      <3>2. mission' = c /\ content' = built[c] /\ revision' = 1
            /\ staging' = staging \ {c}
        BY <1>9, <2>1 DEF Publish
      <3> QED
        BY <1>0, <1>9, <3>1, <3>2 DEF Publish, TypeOK, damage
    <2>2. CASE mission # NoMission
      <3>1. call' \in [Callers -> Calls]
        BY <1>0, <1>9, <2>2, MovesTyped DEF Publish
      <3> QED
        BY <1>1, <1>9, <2>2, <3>1 DEF Publish, TypeOK, stages
    <2> QED
      BY <2>1, <2>2
  <1>10. CASE Unlock(c)
    BY <1>0, <1>1, <1>10, MovesTyped DEF Unlock
  <1>11. CASE Report(c)
    <2>1. revision \in 0..MaxRevision
      BY DEF TypeOK
    <2>2. call' \in [Callers -> Calls]
      BY <1>0, <1>11, <2>1 DEF Report, Calls
    <2> QED
      BY <1>1, <1>11, <2>2 DEF Report, TypeOK
  <1>12. CASE RemoveStage(c)
    <2>1. call' \in [Callers -> Calls]
      BY <1>0, <1>12, MovesTyped DEF RemoveStage
    <2> QED
      BY <1>12, <2>1 DEF RemoveStage, TypeOK, place, damage
  <1>13. CASE RemoveLock(c)
    <2>1. call' \in [Callers -> Calls]
      BY <1>0, <1>13, MovesTyped DEF RemoveLock
    <2> QED
      BY <1>1, <1>13, <2>1 DEF RemoveLock
  <1> QED
    BY <1>2, <1>3, <1>4, <1>5, <1>7, <1>8, <1>9, <1>10, <1>11, <1>12, <1>13
    DEF Step

LEMMA TypeStep == TypeOK /\ [Next]_vars => TypeOK'
  <1> SUFFICES ASSUME TypeOK, [Next]_vars
               PROVE  TypeOK'
    OBVIOUS
  <1> USE InitAssumption
  <1>1. ASSUME NEW c \in Callers, Begin(c)
        PROVE  TypeOK'
    <2>0. 0 \in 0..MaxRevision
      OBVIOUS
    <2>1. [Idle EXCEPT !.pc = "observing"] \in Calls
      BY <2>0 DEF Idle, Calls, Pcs, Codes
    <2>2. call' \in [Callers -> Calls]
      BY <1>1, <2>1 DEF Begin, TypeOK
    <2> QED
      BY <1>1, <2>2 DEF Begin, TypeOK, place, stages, damage
  <1>2. ASSUME NEW c \in Callers, Step(c)
        PROVE  TypeOK'
    BY <1>2, StepKeepsTypes
  <1>3. ASSUME NEW c \in Callers, Interrupt(c)
        PROVE  TypeOK'
    <2>1. "interrupted" \in Codes /\ "unavailable" \in Codes /\ "done" \in Pcs
      BY DEF Codes, Pcs
    <2>2. call' \in [Callers -> Calls]
      BY <1>3, <2>1, MovesTyped DEF Interrupt
    <2> QED
      BY <1>3, <2>2 DEF Interrupt, TypeOK, place, stages, damage
  <1>4. ASSUME NEW c \in Callers, IOFailure(c)
        PROVE  TypeOK'
    <2>1. PICK code \in FaultCodes(call[c].pc) :
            \/ Exit(c, code) \/ Fail(c, code)
            \/ call' = [call EXCEPT ![c].pc = "unlock", ![c].code = code]
      BY <1>4 DEF IOFailure
    <2>2. code \in Codes /\ "done" \in Pcs /\ "unlock" \in Pcs
      BY <2>1 DEF FaultCodes, Codes, Pcs
    <2>3. CASE call' = [call EXCEPT ![c].pc = "unlock", ![c].code = code]
      <3>1. call \in [Callers -> Calls] /\ call[c] \in Calls
        BY DEF TypeOK
      <3>2. call' \in [Callers -> Calls]
        BY <2>2, <2>3, <3>1 DEF Calls
      <3>3. faults' \in 0..MaxFaults
        BY <1>4 DEF IOFailure, TypeOK
      <3> QED
        BY <1>4, <3>2, <3>3 DEF IOFailure, TypeOK, place, stages
    <2>4. CASE Exit(c, code) \/ Fail(c, code)
      <3>2. call' \in [Callers -> Calls]
        BY <2>2, <2>4, MovesTyped
      <3>3. faults' \in 0..MaxFaults
        BY <1>4 DEF IOFailure, TypeOK
      <3> QED
        BY <1>4, <3>2, <3>3 DEF IOFailure, TypeOK, place, stages
    <2> QED
      BY <2>1, <2>3, <2>4
  <1>5. ASSUME NEW c \in Callers, Crash(c)
        PROVE  TypeOK'
    <2>1. Idle \in Calls
      BY DEF Idle, Calls, Pcs, Codes
    <2>2. call' \in [Callers -> Calls]
      BY <1>5, <2>1 DEF Crash, TypeOK
    <2>3. crashes' \in 0..MaxCrashes
      BY <1>5 DEF Crash, TypeOK
    <2> QED
      BY <1>5, <2>2, <2>3 DEF Crash, TypeOK, place
  <1>6. CASE StealLock
    <2>1. thefts' \in 0..MaxThefts
      BY <1>6 DEF StealLock, TypeOK
    <2> QED
      BY <1>6, <2>1 DEF StealLock, TypeOK, place, stages
  <1>7. CASE MakeByHand
    BY <1>7 DEF MakeByHand, TypeOK, stages, damage
  <1>8. CASE Checkpoint
    BY <1>8 DEF Checkpoint, TypeOK, stages, damage
  <1>9. CASE UNCHANGED vars
    BY <1>9 DEF vars, TypeOK, place, stages, damage
  <1> QED
    BY <1>1, <1>2, <1>3, <1>4, <1>5, <1>6, <1>7, <1>8, <1>9 DEF Next

(* The state of mission init is well formed at all times.                  *)
THEOREM InitTypeCorrect == Spec => []TypeOK
  BY InitTyped, TypeStep, PTL DEF Spec

-----------------------------------------------------------------------------
(* The lock.                                                               *)

LEMMA MovesShape ==
  ASSUME TypeOK, NEW c \in Callers, NEW pc, NEW code,
         Goto(c, pc) \/ Exit(c, code) \/ Fail(c, code)
  PROVE  /\ \A d \in Callers \ {c} : call'[d] = call[d]
         /\ Goto(c, pc) => call'[c].pc = pc
         /\ Exit(c, code) => call'[c].pc = "done"
         /\ Fail(c, code) => call'[c].pc \in {"unstage", "unlock"}
  <1>1. call \in [Callers -> Calls] /\ call[c] \in Calls
    BY DEF TypeOK
  <1> QED
    BY <1>1 DEF Goto, Exit, Fail, Calls

LEMMA QuietKeepsLock ==
  ASSUME OneBuilder, NEW c \in Callers,
         \A d \in Callers \ {c} : call'[d] = call[d],
         call'[c].pc \in Locked => call[c].pc \in Locked,
         lock' = lock, thefts' = thefts
  PROVE  OneBuilder'
  <1>1. \A d \in Callers : call'[d].pc \in Locked => call[d].pc \in Locked
    OBVIOUS
  <1> QED
    BY <1>1 DEF OneBuilder

LEMMA ReleaseKeepsLock ==
  ASSUME OneBuilder, NEW c \in Callers,
         \A d \in Callers \ {c} : call'[d] = call[d],
         call[c].pc \in Locked, call'[c].pc \notin Locked,
         thefts' = thefts
  PROVE  OneBuilder'
  <1>1. thefts = 0 => \A d \in Callers : call'[d].pc \notin Locked
    BY DEF OneBuilder
  <1> QED
    BY <1>1 DEF OneBuilder

LEMMA StepKeepsLock ==
  ASSUME TypeOK, OneBuilder, NEW c \in Callers, Step(c)
  PROVE  OneBuilder'
  <1> USE DEF At, Locked, Building
  <1>0. call \in [Callers -> Calls] /\ call[c] \in Calls
    BY DEF TypeOK
  <1>1. CASE Observe(c) \/ CheckAbsent(c)
    BY <1>1, MovesShape, QuietKeepsLock DEF Observe, CheckAbsent, damage
  <1>2. CASE MakeLock(c)
    <2>1. CASE lock
      BY <1>2, <2>1, MovesShape, QuietKeepsLock DEF MakeLock, damage
    <2>2. CASE ~lock
      <3>1. call'[c].pc = "staging"
            /\ \A d \in Callers \ {c} : call'[d] = call[d]
        BY <1>2, <2>2, MovesShape DEF MakeLock
      <3>2. lock' = TRUE /\ thefts' = thefts
        BY <1>2 DEF MakeLock, damage
      <3>3. thefts = 0 => \A d \in Callers \ {c} : call'[d].pc \notin Locked
        BY <2>2, <3>1 DEF OneBuilder
      <3> QED
        BY <3>1, <3>2, <3>3 DEF OneBuilder
    <2> QED
      BY <2>1, <2>2
  <1>3. CASE MakeStage(c)
    BY <1>3, MovesShape, QuietKeepsLock DEF MakeStage, damage
  <1>4. CASE WriteTrace(c) \/ WriteProgress(c) \/ WriteStatus(c)
    BY <1>4, MovesShape, QuietKeepsLock
    DEF WriteTrace, WriteProgress, WriteStatus, WriteFile, damage
  <1>5. CASE CheckRaced(c)
    BY <1>5, MovesShape, QuietKeepsLock DEF CheckRaced, damage
  <1>6. CASE Publish(c)
    <2>1. \A d \in Callers \ {c} : call'[d] = call[d]
      BY <1>0, <1>6, MovesShape DEF Publish
    <2>2. call[c].pc \in Locked /\ lock' = lock /\ thefts' = thefts
      BY <1>6 DEF Publish, damage
    <2> QED
      BY <2>1, <2>2, QuietKeepsLock
  <1>7. CASE Unlock(c)
    <2>1. CASE lock
      BY <1>7, <2>1, MovesShape, ReleaseKeepsLock DEF Unlock, damage
    <2>2. CASE ~lock
      <3>1. thefts' = thefts /\ thefts # 0
        BY <1>7, <2>2 DEF Unlock, damage, OneBuilder
      <3> QED
        BY <3>1 DEF OneBuilder
    <2> QED
      BY <2>1, <2>2
  <1>8. CASE Report(c)
    <2>1. \A d \in Callers \ {c} : call'[d] = call[d]
      BY <1>0, <1>8 DEF Report
    <2>2. call'[c].pc = "done"
      BY <1>0, <1>8 DEF Report, Calls
    <2> QED
      BY <1>8, <2>1, <2>2, QuietKeepsLock DEF Report, damage
  <1>9. CASE RemoveStage(c)
    BY <1>9, MovesShape, QuietKeepsLock DEF RemoveStage, damage
  <1>10. CASE RemoveLock(c)
    BY <1>10, MovesShape, ReleaseKeepsLock DEF RemoveLock, damage
  <1> QED
    BY <1>1, <1>2, <1>3, <1>4, <1>5, <1>6, <1>7, <1>8, <1>9, <1>10 DEF Step

LEMMA LockStep == TypeOK /\ OneBuilder /\ [Next]_vars => OneBuilder'
  <1> SUFFICES ASSUME TypeOK, OneBuilder, [Next]_vars
               PROVE  OneBuilder'
    OBVIOUS
  <1> USE DEF At, Locked, Building
  <1>1. ASSUME NEW c \in Callers, Begin(c)
        PROVE  OneBuilder'
    <2>1. call'[c].pc = "observing"
          /\ \A d \in Callers \ {c} : call'[d] = call[d]
      BY <1>1 DEF Begin, Idle, TypeOK
    <2> QED
      BY <1>1, <2>1, QuietKeepsLock DEF Begin, damage
  <1>2. ASSUME NEW c \in Callers, Step(c)
        PROVE  OneBuilder'
    BY <1>2, StepKeepsLock
  <1>3. ASSUME NEW c \in Callers, Interrupt(c)
        PROVE  OneBuilder'
    <2>1. CASE At(c, "observing")
      BY <1>3, <2>1, MovesShape, QuietKeepsLock DEF Interrupt, damage
    <2>2. CASE ~At(c, "observing")
      BY <1>3, <2>2, MovesShape, QuietKeepsLock DEF Interrupt, Polls, damage
    <2> QED
      BY <2>1, <2>2
  <1>4. ASSUME NEW c \in Callers, IOFailure(c)
        PROVE  OneBuilder'
    <2>1. PICK code \in FaultCodes(call[c].pc) :
            IF call[c].pc \in {"observing", "checking", "locking", "hashing",
                               "unlock"}
            THEN Exit(c, code)
            ELSE IF At(c, "unstage")
                 THEN call' = [call EXCEPT ![c].pc = "unlock", ![c].code = code]
                 ELSE Fail(c, code)
      BY <1>4 DEF IOFailure
    <2>2. call[c].pc \in Pcs /\ call[c].pc # "done"
      BY <2>1 DEF FaultCodes, TypeOK, Calls
    <2>3. \A d \in Callers \ {c} : call'[d] = call[d]
      BY <2>1, MovesShape DEF TypeOK
    <2>4. call'[c].pc \in Locked => call[c].pc \in Locked
      <3>1. CASE call[c].pc \in {"observing", "checking", "locking", "hashing",
                                 "unlock"}
        BY <2>1, <3>1, MovesShape
      <3>2. CASE call[c].pc \notin {"observing", "checking", "locking",
                                    "hashing", "unlock"}
        BY <2>2, <3>2 DEF Pcs
      <3> QED
        BY <3>1, <3>2
    <2> QED
      BY <1>4, <2>3, <2>4, QuietKeepsLock DEF IOFailure
  <1>5. ASSUME NEW c \in Callers, Crash(c)
        PROVE  OneBuilder'
    <2>1. call'[c].pc = "done" /\ \A d \in Callers \ {c} : call'[d] = call[d]
      BY <1>5 DEF Crash, Idle, TypeOK
    <2> QED
      BY <1>5, <2>1, QuietKeepsLock DEF Crash
  <1>6. CASE StealLock
    BY <1>6, InitAssumption DEF StealLock, OneBuilder, TypeOK
  <1>7. CASE MakeByHand \/ Checkpoint \/ UNCHANGED vars
    BY <1>7 DEF MakeByHand, Checkpoint, vars, damage, OneBuilder
  <1> QED
    BY <1>1, <1>2, <1>3, <1>4, <1>5, <1>6, <1>7 DEF Next

(* While nobody touches the init lock, at most one call is past it.        *)
THEOREM OneBuilderAtATime == Spec => []OneBuilder
  <1>1. Init => OneBuilder
    BY DEF Init, OneBuilder, Idle, Locked, Building
  <1> QED
    BY <1>1, InitTypeCorrect, LockStep, PTL DEF Spec

-----------------------------------------------------------------------------
(* What is published.                                                      *)

(* A staging directory holds what the steps so far have put into it.       *)
StageFilled ==
  \A c \in Callers :
    /\ call[c].pc = "progress" => "trace.json" \in built[c]
    /\ call[c].pc = "status" => {"trace.json", "progress.json"} \subseteq built[c]
    /\ call[c].pc \in {"raced", "publishing"} => built[c] = Files

WholeInv == StageFilled /\ PublishedWhole

Filling == {"progress", "status", "raced", "publishing"}

LEMMA QuietKeepsWhole ==
  ASSUME WholeInv, NEW c \in Callers,
         \A d \in Callers \ {c} : call'[d] = call[d],
         call'[c].pc \notin Filling,
         built' = built, mission' = mission, content' = content
  PROVE  WholeInv'
  BY DEF WholeInv, StageFilled, PublishedWhole, Filling

LEMMA StepKeepsWhole ==
  ASSUME TypeOK, WholeInv, NEW c \in Callers, Step(c)
  PROVE  WholeInv'
  <1> USE DEF At, Filling
  <1>0. /\ call \in [Callers -> Calls] /\ call[c] \in Calls
        /\ built \in [Callers -> SUBSET Files]
    BY DEF TypeOK
  <1>1. CASE Observe(c) \/ CheckAbsent(c) \/ MakeLock(c)
    BY <1>1, MovesShape, QuietKeepsWhole
    DEF Observe, CheckAbsent, MakeLock, place, stages
  <1>2. CASE MakeStage(c)
    <2>1. call'[c].pc = "trace" /\ \A d \in Callers \ {c} : call'[d] = call[d]
      BY <1>2, MovesShape DEF MakeStage
    <2>2. \A d \in Callers \ {c} : built'[d] = built[d]
      BY <1>0, <1>2 DEF MakeStage
    <2> QED
      BY <1>2, <2>1, <2>2
      DEF MakeStage, WholeInv, StageFilled, PublishedWhole, place
  <1>3. ASSUME NEW pc, NEW file, NEW next, WriteFile(c, pc, file, next)
        PROVE  /\ call'[c].pc = next
               /\ \A d \in Callers \ {c} : call'[d] = call[d]
               /\ \A d \in Callers \ {c} : built'[d] = built[d]
               /\ built'[c] = built[c] \union {file}
               /\ mission' = mission /\ content' = content
    BY <1>0, <1>3, MovesShape DEF WriteFile, place
  <1>4. CASE WriteTrace(c)
    BY <1>3, <1>4 DEF WriteTrace, WholeInv, StageFilled, PublishedWhole
  <1>5. CASE WriteProgress(c)
    <2>1. call[c].pc = "progress"
      BY <1>5 DEF WriteProgress, WriteFile
    <2> QED
      BY <1>3, <1>5, <2>1
      DEF WriteProgress, WholeInv, StageFilled, PublishedWhole
  <1>6. CASE WriteStatus(c)
    <2>1. call[c].pc = "status"
      BY <1>6 DEF WriteStatus, WriteFile
    <2>2. built'[c] = Files
      BY <1>0, <1>3, <1>6, <2>1
      DEF WriteStatus, WholeInv, StageFilled, Files
    <2> QED
      BY <1>3, <1>6, <2>2 DEF WriteStatus, WholeInv, StageFilled, PublishedWhole
  <1>7. CASE CheckRaced(c)
    <2>1. \A d \in Callers \ {c} : call'[d] = call[d]
      BY <1>7, MovesShape DEF CheckRaced
    <2>2. call'[c].pc \in {"publishing", "unstage", "unlock"}
      BY <1>7, MovesShape DEF CheckRaced
    <2> QED
      BY <1>7, <2>1, <2>2
      DEF CheckRaced, WholeInv, StageFilled, PublishedWhole, place, stages
  <1>8. CASE Publish(c)
    <2>1. CASE mission = NoMission
      <3>1. call'[c].pc = "unlocking"
            /\ \A d \in Callers \ {c} : call'[d] = call[d]
        BY <1>0, <1>8, <2>1 DEF Publish, Calls
      <3>2. mission' = c /\ content' = built[c] /\ built' = built
        BY <1>8, <2>1 DEF Publish
      <3>3. built[c] = Files
        BY <1>8 DEF Publish, WholeInv, StageFilled
      <3> QED
        BY <3>1, <3>2, <3>3 DEF WholeInv, StageFilled, PublishedWhole
    <2>2. CASE mission # NoMission
      BY <1>8, <2>2, MovesShape, QuietKeepsWhole DEF Publish, place, stages
    <2> QED
      BY <2>1, <2>2
  <1>9. CASE Unlock(c) \/ RemoveStage(c) \/ RemoveLock(c)
    BY <1>9, MovesShape, QuietKeepsWhole
    DEF Unlock, RemoveStage, RemoveLock, place, stages
  <1>10. CASE Report(c)
    <2>1. call'[c].pc = "done" /\ \A d \in Callers \ {c} : call'[d] = call[d]
      BY <1>0, <1>10 DEF Report, Calls
    <2> QED
      BY <1>10, <2>1, QuietKeepsWhole DEF Report, place, stages
  <1> QED
    BY <1>1, <1>2, <1>4, <1>5, <1>6, <1>7, <1>8, <1>9, <1>10 DEF Step

LEMMA WholeStep == TypeOK /\ WholeInv /\ [Next]_vars => WholeInv'
  <1> SUFFICES ASSUME TypeOK, WholeInv, [Next]_vars
               PROVE  WholeInv'
    OBVIOUS
  <1> USE DEF At, Filling
  <1>1. ASSUME NEW c \in Callers, Begin(c) \/ Crash(c)
        PROVE  WholeInv'
    <2>1. call'[c].pc \in {"observing", "done"}
          /\ \A d \in Callers \ {c} : call'[d] = call[d]
      BY <1>1 DEF Begin, Crash, Idle, TypeOK
    <2> QED
      BY <1>1, <2>1, QuietKeepsWhole DEF Begin, Crash, place, stages
  <1>2. ASSUME NEW c \in Callers, Step(c)
        PROVE  WholeInv'
    BY <1>2, StepKeepsWhole
  <1>3. ASSUME NEW c \in Callers, Interrupt(c)
        PROVE  WholeInv'
    BY <1>3, MovesShape, QuietKeepsWhole DEF Interrupt, place, stages
  <1>4. ASSUME NEW c \in Callers, IOFailure(c)
        PROVE  WholeInv'
    <2>1. PICK code :
            \/ Exit(c, code) \/ Fail(c, code)
            \/ call' = [call EXCEPT ![c].pc = "unlock", ![c].code = code]
      BY <1>4 DEF IOFailure
    <2>2. call'[c].pc \in {"done", "unstage", "unlock"}
          /\ \A d \in Callers \ {c} : call'[d] = call[d]
      BY <2>1, MovesShape DEF TypeOK, Calls
    <2> QED
      BY <1>4, <2>2, QuietKeepsWhole DEF IOFailure, place, stages
  <1>5. CASE MakeByHand
    BY <1>5, InitAssumption
    DEF MakeByHand, WholeInv, StageFilled, PublishedWhole, stages
  <1>6. CASE StealLock \/ Checkpoint \/ UNCHANGED vars
    BY <1>6
    DEF StealLock, Checkpoint, vars, WholeInv, StageFilled, PublishedWhole,
        place, stages
  <1> QED
    BY <1>1, <1>2, <1>3, <1>4, <1>5, <1>6 DEF Next

(* A mission that init made has its three files from the first moment on,  *)
(* however many locks are stolen and calls are killed.                     *)
THEOREM MissionsAreWhole == Spec => []PublishedWhole
  <1>1. Init => WholeInv
    BY InitAssumption DEF Init, WholeInv, StageFilled, PublishedWhole, Idle
  <1>2. WholeInv => PublishedWhole
    BY DEF WholeInv
  <1> QED
    BY <1>1, <1>2, InitTypeCorrect, WholeStep, PTL DEF Spec

LEMMA PlaceKept ==
  [Next]_vars /\ mission # NoMission => UNCHANGED <<mission, content>>
  <1> SUFFICES ASSUME [Next]_vars, mission # NoMission
               PROVE  UNCHANGED <<mission, content>>
    OBVIOUS
  <1>1. ASSUME NEW c \in Callers, Step(c)
        PROVE  UNCHANGED <<mission, content>>
    BY <1>1
    DEF Step, Observe, CheckAbsent, MakeLock, MakeStage, WriteTrace,
        WriteProgress, WriteStatus, WriteFile, CheckRaced, Publish, Unlock,
        Report, RemoveStage, RemoveLock, place
  <1>2. ASSUME NEW c \in Callers,
               Begin(c) \/ Interrupt(c) \/ IOFailure(c) \/ Crash(c)
        PROVE  UNCHANGED <<mission, content>>
    BY <1>2 DEF Begin, Interrupt, IOFailure, Crash, place
  <1>3. CASE StealLock \/ MakeByHand \/ Checkpoint \/ UNCHANGED vars
    BY <1>3 DEF StealLock, MakeByHand, Checkpoint, vars, place
  <1> QED
    BY <1>1, <1>2, <1>3 DEF Next

(* The mission at a path stays that of whoever made it first: the lock is  *)
(* not needed for it, only the rename that replaces nothing.               *)
THEOREM FirstMissionIsFinal == Spec => Path!FirstStays
  <1>1. [Next]_vars =>
          [mission # NoMission => UNCHANGED <<mission, content>>]_<<mission, content>>
    BY PlaceKept
  <1> QED
    BY <1>1, PTL DEF Spec, Path!FirstStays

-----------------------------------------------------------------------------
(* What the exit codes tell.                                               *)

LEMMA MovesEffect ==
  ASSUME TypeOK, NEW c \in Callers
  PROVE  /\ \A pc : Goto(c, pc) =>
              /\ call'[c].pc = pc /\ call'[c].code = call[c].code
              /\ call'[c].published = call[c].published
              /\ call'[c].printed = call[c].printed
              /\ \A d \in Callers \ {c} : call'[d] = call[d]
         /\ \A code : Exit(c, code) =>
              /\ call'[c].pc = "done" /\ call'[c].code = code
              /\ call'[c].published = call[c].published
              /\ \A d \in Callers \ {c} : call'[d] = call[d]
         /\ \A code : Fail(c, code) =>
              /\ call'[c].pc = IF c \in staging THEN "unstage" ELSE "unlock"
              /\ call'[c].code = code
              /\ call'[c].published = call[c].published
              /\ \A d \in Callers \ {c} : call'[d] = call[d]
  <1>1. call \in [Callers -> Calls] /\ call[c] \in Calls
    BY DEF TypeOK
  <1> QED
    BY <1>1 DEF Goto, Exit, Fail, Calls

Early == {"observing", "checking", "locking", "staging", "trace", "progress",
          "status", "raced", "publishing"}

Trouble == faults + thefts > 0

(* Whoever is told that a mission was made is right, and whoever is not    *)
(* told so has met a failure or a theft.                                   *)
Hidden(c) == call[c].published = TRUE => call[c].code = "unavailable" /\ Trouble

HonestCall(c) ==
  /\ call[c].pc \in Early =>
       call[c].published = FALSE /\ call[c].code = "none"
  /\ call[c].pc \in {"unlocking", "hashing"} =>
       /\ mission = c /\ call[c].published = TRUE
       /\ call[c].code = "none"
  /\ call[c].pc \in {"unstage", "unlock"} => call[c].code # "ok" /\ Hidden(c)
  /\ call[c].pc = "done" =>
       /\ call[c].code = "ok" =>
            /\ mission = c /\ call[c].printed >= 1
            /\ call[c].published = TRUE
       /\ call[c].code # "ok" => Hidden(c)

HonestInv ==
  /\ \A c \in Callers : HonestCall(c)
  /\ mission \in Callers => revision >= 1

LEMMA TroubleStays == TypeOK /\ [Next]_vars /\ Trouble => Trouble'
  <1> SUFFICES ASSUME TypeOK, [Next]_vars, Trouble
               PROVE  Trouble'
    OBVIOUS
  <1>0. faults \in Nat /\ thefts \in Nat
    BY InitAssumption DEF TypeOK
  <1>1. ASSUME NEW c \in Callers, Step(c)
        PROVE  UNCHANGED damage
    BY <1>1
    DEF Step, Observe, CheckAbsent, MakeLock, MakeStage, WriteTrace,
        WriteProgress, WriteStatus, WriteFile, CheckRaced, Publish, Unlock,
        Report, RemoveStage, RemoveLock
  <1>2. /\ faults' = faults \/ faults' = faults + 1
        /\ thefts' = thefts \/ thefts' = thefts + 1
    BY <1>1
    DEF Next, Begin, Interrupt, IOFailure, Crash, StealLock, MakeByHand,
        Checkpoint, vars, damage
  <1> QED
    BY <1>0, <1>2 DEF Trouble

(* A step of c is settled by what it makes of c.                           *)
LEMMA HonestOthers ==
  ASSUME TypeOK, HonestInv, [Next]_vars, NEW c \in Callers, HonestCall(c)',
         \A d \in Callers \ {c} : call'[d] = call[d],
         mission' \in Callers => revision' >= 1
  PROVE  HonestInv'
  <1>1. \A d \in Callers : mission = d => mission' = d
    BY PlaceKept, InitAssumption
  <1>2. Trouble => Trouble'
    BY TroubleStays
  <1>3. ASSUME NEW d \in Callers \ {c}
        PROVE  HonestCall(d)'
    BY <1>1, <1>2, <1>3 DEF HonestInv, HonestCall, Hidden
  <1> QED
    BY <1>3 DEF HonestInv

LEMMA StepStaysHonest ==
  ASSUME TypeOK, OneBuilder, HonestInv, NEW c \in Callers, Step(c)
  PROVE  HonestInv'
  <1> USE DEF At, Early
  <1>0. /\ HonestCall(c) /\ (mission \in Callers => revision >= 1)
        /\ [Next]_vars
        /\ call \in [Callers -> Calls] /\ call[c] \in Calls
        /\ revision \in Nat /\ faults \in Nat /\ thefts \in Nat
    BY InitAssumption DEF HonestInv, Next, TypeOK
  <1>1. CASE Observe(c)
    <2>1. HonestCall(c)'
      BY <1>0, <1>1, MovesEffect DEF Observe, HonestCall
    <2> QED
      BY <1>0, <1>1, <2>1, MovesEffect, HonestOthers DEF Observe, place
  <1>2. CASE CheckAbsent(c)
    <2>1. HonestCall(c)'
      BY <1>0, <1>2, MovesEffect DEF CheckAbsent, HonestCall, Hidden
    <2> QED
      BY <1>0, <1>2, <2>1, MovesEffect, HonestOthers DEF CheckAbsent, place
  <1>3. CASE MakeLock(c)
    <2>1. HonestCall(c)'
      BY <1>0, <1>3, MovesEffect DEF MakeLock, HonestCall, Hidden
    <2> QED
      BY <1>0, <1>3, <2>1, MovesEffect, HonestOthers DEF MakeLock, place
  <1>4. CASE MakeStage(c)
    <2>1. HonestCall(c)'
      BY <1>0, <1>4, MovesEffect DEF MakeStage, HonestCall
    <2> QED
      BY <1>0, <1>4, <2>1, MovesEffect, HonestOthers DEF MakeStage, place
  <1>5. ASSUME NEW pc \in Early, NEW file, NEW next \in Early,
               WriteFile(c, pc, file, next)
        PROVE  HonestInv'
    <2>1. HonestCall(c)'
      BY <1>0, <1>5, MovesEffect DEF WriteFile, HonestCall
    <2> QED
      BY <1>0, <1>5, <2>1, MovesEffect, HonestOthers DEF WriteFile, place
  <1>6. CASE WriteTrace(c) \/ WriteProgress(c) \/ WriteStatus(c)
    BY <1>5, <1>6 DEF WriteTrace, WriteProgress, WriteStatus
  <1>7. CASE CheckRaced(c)
    <2>1. HonestCall(c)'
      BY <1>0, <1>7, MovesEffect DEF CheckRaced, HonestCall, Hidden
    <2> QED
      BY <1>0, <1>7, <2>1, MovesEffect, HonestOthers DEF CheckRaced, place
  <1>8. CASE Publish(c)
    <2>0. call[c].published = FALSE /\ call[c].code = "none"
      BY <1>0, <1>8 DEF Publish, HonestCall
    <2>1. CASE mission = NoMission
      <3>1. /\ call'[c].pc = "unlocking" /\ call'[c].code = call[c].code
            /\ call'[c].published = TRUE
            /\ \A d \in Callers \ {c} : call'[d] = call[d]
        BY <1>0, <1>8, <2>1 DEF Publish, Calls
      <3>2. mission' = c /\ revision' = 1
        BY <1>8, <2>1 DEF Publish
      <3>3. HonestCall(c)'
        BY <2>0, <3>1, <3>2 DEF HonestCall
      <3> QED
        BY <1>0, <3>1, <3>2, <3>3, HonestOthers
    <2>2. CASE mission # NoMission
      <3>1. Fail(c, "temporary") /\ UNCHANGED place
        BY <1>8, <2>2 DEF Publish
      <3>2. HonestCall(c)'
        BY <1>0, <2>0, <3>1, MovesEffect DEF HonestCall, Hidden
      <3> QED
        BY <1>0, <3>1, <3>2, MovesEffect, HonestOthers DEF place
    <2> QED
      BY <2>1, <2>2
  <1>9. CASE Unlock(c)
    <2>0. /\ call[c].code = "none" /\ mission = c /\ UNCHANGED <<place, damage>>
          /\ call[c].pc = "unlocking"
      BY <1>0, <1>9 DEF Unlock, HonestCall
    <2>1. CASE lock
      <3>1. Goto(c, "hashing")
        BY <1>9, <2>1 DEF Unlock
      <3>2. HonestCall(c)'
        BY <1>0, <2>0, <3>1, MovesEffect DEF HonestCall, place
      <3> QED
        BY <1>0, <2>0, <3>1, <3>2, MovesEffect, HonestOthers DEF place
    <2>2. CASE ~lock
      <3>1. Fail(c, "unavailable")
        BY <1>9, <2>2 DEF Unlock
      <3>2. thefts # 0
        BY <2>0, <2>2 DEF OneBuilder, Locked
      <3>3. Trouble'
        BY <1>0, <2>0, <3>2 DEF Trouble, damage
      <3>4. HonestCall(c)'
        BY <1>0, <3>1, <3>3, MovesEffect DEF HonestCall, Hidden
      <3> QED
        BY <1>0, <2>0, <3>1, <3>4, MovesEffect, HonestOthers DEF place
    <2> QED
      BY <2>1, <2>2
  <1>10. CASE Report(c)
    <2>1. /\ call'[c].pc = "done" /\ call'[c].code = "ok"
          /\ call'[c].printed = revision
          /\ call'[c].published = call[c].published
          /\ \A d \in Callers \ {c} : call'[d] = call[d]
      BY <1>0, <1>10 DEF Report, Calls
    <2>2. mission = c /\ call[c].published = TRUE /\ UNCHANGED place
      BY <1>0, <1>10 DEF Report, HonestCall
    <2>3. HonestCall(c)'
      BY <1>0, <2>1, <2>2 DEF HonestCall, place
    <2> QED
      BY <1>0, <2>1, <2>2, <2>3, HonestOthers DEF place
  <1>11. CASE RemoveStage(c)
    <2>1. Trouble => Trouble'
      BY <1>11 DEF RemoveStage, damage, Trouble
    <2>2. HonestCall(c)'
      BY <1>0, <1>11, <2>1, MovesEffect DEF RemoveStage, HonestCall, Hidden
    <2> QED
      BY <1>0, <1>11, <2>2, MovesEffect, HonestOthers DEF RemoveStage, place
  <1>12. CASE RemoveLock(c)
    <2>1. Trouble => Trouble'
      BY <1>12 DEF RemoveLock, damage, Trouble
    <2>2. HonestCall(c)'
      <3>1. CASE lock
        BY <1>0, <1>12, <2>1, <3>1, MovesEffect
        DEF RemoveLock, HonestCall, Hidden
      <3>2. CASE ~lock
        BY <1>0, <1>12, <2>1, <3>2, MovesEffect
        DEF RemoveLock, HonestCall, Hidden
      <3> QED
        BY <3>1, <3>2
    <2> QED
      BY <1>0, <1>12, <2>2, MovesEffect, HonestOthers DEF RemoveLock, place
  <1> QED
    BY <1>1, <1>2, <1>3, <1>4, <1>6, <1>7, <1>8, <1>9, <1>10, <1>11, <1>12
    DEF Step

LEMMA FaultStaysHonest ==
  ASSUME TypeOK, HonestInv, NEW c \in Callers, IOFailure(c)
  PROVE  HonestInv'
  <1> USE DEF At, Early
  <1>0. /\ HonestCall(c) /\ (mission \in Callers => revision >= 1)
        /\ UNCHANGED place /\ faults \in Nat /\ thefts \in Nat
    BY InitAssumption DEF HonestInv, TypeOK, IOFailure
  <1>1. Trouble'
    BY <1>0 DEF IOFailure, Trouble
  <1>2. PICK code \in FaultCodes(call[c].pc) :
          IF call[c].pc \in {"observing", "checking", "locking", "hashing",
                             "unlock"}
          THEN Exit(c, code)
          ELSE IF At(c, "unstage")
               THEN call' = [call EXCEPT ![c].pc = "unlock", ![c].code = code]
               ELSE Fail(c, code)
    BY DEF IOFailure
  <1>3. /\ code # "ok"
        /\ call[c].pc \in Early \/ (code = "unavailable" /\
             call[c].pc \in {"unlocking", "hashing", "unstage", "unlock"})
    BY <1>2 DEF FaultCodes
  <1>4. /\ call'[c].pc \in {"done", "unstage", "unlock"}
        /\ call'[c].code = code /\ call'[c].published = call[c].published
        /\ \A d \in Callers \ {c} : call'[d] = call[d]
    <2>1. call \in [Callers -> Calls] /\ call[c] \in Calls
      BY DEF TypeOK
    <2>2. CASE Exit(c, code) \/ Fail(c, code)
      BY <2>2, MovesEffect
    <2>3. CASE call' = [call EXCEPT ![c].pc = "unlock", ![c].code = code]
      BY <2>1, <2>3 DEF Calls
    <2> QED
      BY <1>2, <2>2, <2>3
  <1>5. Hidden(c)'
    BY <1>0, <1>1, <1>3, <1>4 DEF HonestCall, Hidden
  <1>6. HonestCall(c)'
    BY <1>3, <1>4, <1>5 DEF HonestCall
  <1> QED
    <2>1. [Next]_vars
      BY DEF Next
    <2> QED
      BY <1>0, <1>4, <1>6, <2>1, HonestOthers DEF place

LEMMA HonestStep == TypeOK /\ OneBuilder /\ HonestInv /\ [Next]_vars => HonestInv'
  <1> SUFFICES ASSUME TypeOK, OneBuilder, HonestInv, [Next]_vars
               PROVE  HonestInv'
    OBVIOUS
  <1> USE DEF At, Early
  <1>0. /\ call \in [Callers -> Calls] /\ revision \in Nat
        /\ (mission \in Callers => revision >= 1)
    BY InitAssumption DEF TypeOK, HonestInv
  <1>1. ASSUME NEW c \in Callers, Begin(c) \/ Crash(c)
        PROVE  HonestInv'
    <2>1. /\ call'[c].pc \in {"observing", "done"} /\ call'[c].code = "none"
          /\ call'[c].published = FALSE
          /\ \A d \in Callers \ {c} : call'[d] = call[d]
          /\ UNCHANGED place
      BY <1>0, <1>1 DEF Begin, Crash, Idle
    <2>2. HonestCall(c)'
      BY <2>1 DEF HonestCall, Hidden
    <2> QED
      BY <1>0, <2>1, <2>2, HonestOthers DEF place
  <1>2. ASSUME NEW c \in Callers, Step(c)
        PROVE  HonestInv'
    BY <1>2, StepStaysHonest
  <1>3. ASSUME NEW c \in Callers, Interrupt(c)
        PROVE  HonestInv'
    <2>0. call[c].pc \in Early /\ UNCHANGED place /\ HonestCall(c)
      BY <1>3 DEF Interrupt, Polls, Building, HonestInv
    <2>1. PICK code \in {"interrupted", "unavailable"} :
            Exit(c, code) \/ Fail(c, code)
      BY <1>3 DEF Interrupt
    <2>2. HonestCall(c)'
      BY <2>0, <2>1, MovesEffect DEF HonestCall, Hidden
    <2> QED
      BY <1>0, <2>0, <2>1, <2>2, MovesEffect, HonestOthers DEF place
  <1>4. ASSUME NEW c \in Callers, IOFailure(c)
        PROVE  HonestInv'
    BY <1>4, FaultStaysHonest
  <1>5. ASSUME call' = call, mission' \in Callers => revision' >= 1
        PROVE  HonestInv'
    <2>1. \A d \in Callers : mission = d => mission' = d
      BY PlaceKept, InitAssumption
    <2>2. Trouble => Trouble'
      BY TroubleStays
    <2> QED
      BY <1>5, <2>1, <2>2 DEF HonestInv, HonestCall, Hidden
  <1>6. CASE StealLock \/ MakeByHand \/ Checkpoint \/ UNCHANGED vars
    BY <1>0, <1>5, <1>6, InitAssumption
    DEF StealLock, MakeByHand, Checkpoint, vars, place
  <1> QED
    BY <1>1, <1>2, <1>3, <1>4, <1>6 DEF Next

LEMMA HonestAlways == Spec => []HonestInv
  <1>1. Init => HonestInv
    BY InitAssumption DEF Init, HonestInv, HonestCall, Hidden, Idle, Early
  <1> QED
    BY <1>1, InitTypeCorrect, OneBuilderAtATime, HonestStep, PTL DEF Spec

(* mission init says 0 only of a mission of its own, 65, 75 and 130 only   *)
(* if it made none, and hides one it made only after a failure or a theft. *)
THEOREM InitExitsAreHonest == Spec => []ExitTellsWhoPublished
  <1>1. TypeOK /\ HonestInv => ExitTellsWhoPublished
    <2> SUFFICES ASSUME TypeOK, HonestInv, NEW c \in Callers, At(c, "done")
                 PROVE  /\ call[c].code = "ok" =>
                             mission = c /\ call[c].printed >= 1
                        /\ call[c].code \in {"data", "temporary", "interrupted"}
                             => ~call[c].published
                        /\ call[c].code = "unavailable" /\ call[c].published
                             => faults + thefts > 0
      BY DEF ExitTellsWhoPublished
    <2>1. HonestCall(c) /\ call[c].published \in BOOLEAN
      BY DEF HonestInv, TypeOK, Calls
    <2>2. /\ call[c].code = "ok" => mission = c /\ call[c].printed >= 1
          /\ call[c].code # "ok" => Hidden(c)
      BY <2>1 DEF HonestCall, At
    <2>3. call[c].published => call[c].published = TRUE
      BY <2>1, Zenon
    <2> QED
      BY <2>2, <2>3 DEF Hidden, Trouble
  <1> QED
    BY <1>1, InitTypeCorrect, HonestAlways, PTL

-----------------------------------------------------------------------------
(* The mission's path is a Publication.                                    *)

Outcomes == [c \in Callers |-> Outcome(c)]

(* A step of c changes the outcome of no other call.                       *)
LEMMA OutcomesMove ==
  ASSUME NEW c \in Callers, \A d \in Callers \ {c} : call'[d] = call[d]
  PROVE  Outcomes' = [Outcomes EXCEPT ![c] = Outcome(c)']
  <1>1. \A d \in Callers \ {c} : Outcome(d)' = Outcome(d)
    BY DEF Outcome, At
  <1> QED
    BY <1>1 DEF Outcomes

(* A call goes on or ends without publishing; HonestInv says that it ends  *)
(* with a code that fits.                                                  *)
LEMMA PathOfCall ==
  ASSUME TypeOK, HonestInv', NEW c \in Callers,
         \A d \in Callers \ {c} : call'[d] = call[d],
         UNCHANGED <<mission, content>>, call[c].pc # "done",
         \/ call'[c].published = call[c].published
         \/ call'[c].pc = "done" /\ call'[c].code = "none"
  PROVE  [Path!Next]_Path!vars
  <1>1. /\ HonestCall(c)' /\ call[c].published \in BOOLEAN
        /\ Outcomes' = [Outcomes EXCEPT ![c] = Outcome(c)']
        /\ Outcomes[c] = Outcome(c)
    BY OutcomesMove DEF HonestInv, TypeOK, Calls, Outcomes
  <1>2. CASE call'[c].pc # "done"
    <2>1. Outcome(c)' = Outcome(c)
      BY <1>2 DEF Outcome, At
    <2>2. Outcomes' = Outcomes
      BY <1>1, <2>1 DEF Outcomes
    <2> QED
      BY <2>2 DEF Path!vars, Outcomes
  <1>3. CASE call'[c].pc = "done"
    <2>1. /\ call'[c].code = "ok" => call'[c].published = TRUE
          /\ call'[c].code # "ok" =>
               (call'[c].published = TRUE => call'[c].code = "unavailable")
      BY <1>1, <1>3 DEF HonestCall, Hidden
    <2>2. Outcome(c)' \in {"ok", "refused", "unknown"}
      BY <1>3 DEF Outcome, At
    <2>3. /\ Outcome(c)' = "ok" => call'[c].code = "ok"
          /\ Outcome(c)' = "refused" =>
               call'[c].code \in {"data", "temporary", "interrupted"}
      BY <1>3 DEF Outcome, At
    <2>4. Outcome(c) = IF call[c].published THEN "published" ELSE "running"
      BY DEF Outcome, At
    <2>5. /\ Outcome(c)' = "ok" => Outcome(c) = "published"
          /\ Outcome(c)' = "refused" => Outcome(c) = "running"
      BY <1>1, <2>1, <2>3, <2>4
    <2>6. Outcome(c) \in {"running", "published"}
      BY <2>4
    <2>7. Path!End(c)
      BY <1>1, <2>2, <2>5, <2>6 DEF Path!End, Path!Becomes, Path!Running, Outcomes
    <2> QED
      BY <2>7 DEF Path!Next
  <1> QED
    BY <1>2, <1>3

LEMMA PathPublish ==
  ASSUME TypeOK, HonestInv, WholeInv, NEW c \in Callers, Publish(c),
         mission = NoMission
  PROVE  Path!Publish(c)
  <1>0. call \in [Callers -> Calls] /\ call[c] \in Calls
    BY DEF TypeOK
  <1>1. /\ mission' = c /\ content' = built[c] /\ call[c].pc = "publishing"
        /\ call'[c].pc = "unlocking" /\ call'[c].published = TRUE
        /\ \A d \in Callers \ {c} : call'[d] = call[d]
    BY <1>0 DEF Publish, At, Calls
  <1>2. content' \in {Files}
    BY <1>1 DEF WholeInv, StageFilled
  <1>3. call[c].published = FALSE
    BY <1>1 DEF HonestInv, HonestCall, Early
  <1>4. Outcomes[c] = "running" /\ Outcome(c)' = "published"
    BY <1>1, <1>3 DEF Outcome, Outcomes, At
  <1>5. Outcomes' = [Outcomes EXCEPT ![c] = "published"]
    BY <1>1, <1>4, OutcomesMove
  <1> QED
    BY <1>1, <1>2, <1>4, <1>5 DEF Path!Publish, Path!Becomes, Outcomes

(* All the other steps of a call.                                          *)
LEMMA StepsOfCalls ==
  ASSUME TypeOK, NEW c \in Callers,
         (Step(c) /\ ~(Publish(c) /\ mission = NoMission))
           \/ Interrupt(c) \/ IOFailure(c)
  PROVE  /\ \A d \in Callers \ {c} : call'[d] = call[d]
         /\ UNCHANGED <<mission, content>> /\ call[c].pc # "done"
         /\ call'[c].published = call[c].published
  <1> USE DEF At
  <1>0. call \in [Callers -> Calls] /\ call[c] \in Calls
    BY DEF TypeOK
  <1>1. CASE Observe(c) \/ CheckAbsent(c) \/ MakeLock(c) \/ MakeStage(c)
    BY <1>1, MovesEffect DEF Observe, CheckAbsent, MakeLock, MakeStage, place
  <1>2. CASE WriteTrace(c) \/ WriteProgress(c) \/ WriteStatus(c)
    BY <1>2, MovesEffect
    DEF WriteTrace, WriteProgress, WriteStatus, WriteFile, place
  <1>3. CASE CheckRaced(c) \/ Unlock(c) \/ RemoveStage(c) \/ RemoveLock(c)
    BY <1>3, MovesEffect DEF CheckRaced, Unlock, RemoveStage, RemoveLock, place
  <1>4. CASE Publish(c) /\ mission # NoMission
    BY <1>4, MovesEffect DEF Publish, place
  <1>5. CASE Report(c)
    BY <1>0, <1>5 DEF Report, place, Calls
  <1>6. CASE Interrupt(c)
    <2>1. PICK code : Exit(c, code) \/ Fail(c, code)
      BY <1>6 DEF Interrupt
    <2> QED
      BY <1>6, <2>1, MovesEffect DEF Interrupt, Polls, Building, place
  <1>7. CASE IOFailure(c)
    <2>1. PICK code \in FaultCodes(call[c].pc) :
            \/ Exit(c, code) \/ Fail(c, code)
            \/ call' = [call EXCEPT ![c].pc = "unlock", ![c].code = code]
      BY <1>7 DEF IOFailure
    <2>2. call[c].pc # "done"
      BY <2>1 DEF FaultCodes
    <2>3. /\ call'[c].published = call[c].published
          /\ \A d \in Callers \ {c} : call'[d] = call[d]
      <3>1. CASE Exit(c, code) \/ Fail(c, code)
        BY <3>1, MovesEffect
      <3>2. CASE call' = [call EXCEPT ![c].pc = "unlock", ![c].code = code]
        BY <1>0, <3>2 DEF Calls
      <3> QED
        BY <2>1, <3>1, <3>2
    <2> QED
      BY <1>7, <2>2, <2>3 DEF IOFailure, place
  <1> QED
    BY <1>1, <1>2, <1>3, <1>4, <1>5, <1>6, <1>7 DEF Step

LEMMA PathStep ==
  ASSUME TypeOK, HonestInv, HonestInv', WholeInv, [Next]_vars
  PROVE  [Path!Next]_Path!vars
  <1>0. call \in [Callers -> Calls]
    BY DEF TypeOK
  <1>1. ASSUME NEW c \in Callers, Publish(c), mission = NoMission
        PROVE  [Path!Next]_Path!vars
    BY <1>1, PathPublish DEF Path!Next
  <1>2. ASSUME NEW c \in Callers,
               (Step(c) /\ ~(Publish(c) /\ mission = NoMission))
                 \/ Interrupt(c) \/ IOFailure(c)
        PROVE  [Path!Next]_Path!vars
    BY <1>2, StepsOfCalls, PathOfCall
  <1>3. ASSUME NEW c \in Callers, Crash(c)
        PROVE  [Path!Next]_Path!vars
    <2>1. /\ \A d \in Callers \ {c} : call'[d] = call[d]
          /\ UNCHANGED <<mission, content>> /\ call[c].pc # "done"
          /\ call'[c].pc = "done" /\ call'[c].code = "none"
      BY <1>0, <1>3 DEF Crash, At, Idle, place
    <2> QED
      BY <2>1, PathOfCall
  <1>4. ASSUME NEW c \in Callers, Begin(c)
        PROVE  [Path!Next]_Path!vars
    <2>1. /\ \A d \in Callers \ {c} : call'[d] = call[d]
          /\ UNCHANGED <<mission, content>> /\ call[c].pc = "done"
          /\ call'[c].pc = "observing" /\ call'[c].published = FALSE
      BY <1>0, <1>4 DEF Begin, At, Idle, place
    <2>2. Outcome(c) \in {"ok", "refused", "unknown"} /\ Outcome(c)' = "running"
      BY <2>1 DEF Outcome, At
    <2>3. /\ Outcomes' = [Outcomes EXCEPT ![c] = "running"]
          /\ Outcomes[c] = Outcome(c)
      BY <2>1, <2>2, OutcomesMove DEF Outcomes
    <2>4. Path!Begin(c)
      BY <2>1, <2>2, <2>3 DEF Path!Begin, Path!Becomes, Path!Finished, Outcomes
    <2> QED
      BY <2>4 DEF Path!Next
  <1>5. ASSUME call' = call
        PROVE  Outcomes' = Outcomes
    BY <1>5 DEF Outcomes, Outcome, At
  <1>6. CASE MakeByHand
    BY <1>5, <1>6 DEF MakeByHand, Path!Next, Path!Usurp, Outcomes
  <1>7. CASE StealLock \/ Checkpoint \/ UNCHANGED vars
    BY <1>5, <1>7 DEF StealLock, Checkpoint, vars, place, Path!vars, Outcomes
  <1> QED
    BY <1>1, <1>2, <1>3, <1>4, <1>6, <1>7 DEF Next, Step

(* mission init, with its lock, its looks and its cleanup, implements the  *)
(* publication of one directory at one path, for any number of callers,    *)
(* kills, failures and stolen locks.                                       *)
THEOREM InitImplementsPublication == Spec => ImplementsPublication
  <1>1. Init => Path!Init
    BY DEF Init, Path!Init, Outcome, At, Idle
  <1>2. Spec => []WholeInv
    <2>1. Init => WholeInv
      BY InitAssumption DEF Init, WholeInv, StageFilled, PublishedWhole, Idle
    <2> QED
      BY <2>1, InitTypeCorrect, WholeStep, PTL DEF Spec
  <1> QED
    BY <1>1, <1>2, InitTypeCorrect, HonestAlways, PathStep, PTL
    DEF Spec, ImplementsPublication, Path!Spec

-----------------------------------------------------------------------------
(* What is left behind.                                                    *)

Staged == {"trace", "progress", "status", "raced", "publishing", "unstage"}

(* Without damage a lock has a call that will remove it, and a staging     *)
(* directory has a call that will publish or remove it.                    *)
TidyInv ==
  Undamaged =>
    /\ lock => \E c \in Callers : call[c].pc \in Locked
    /\ \A c \in Callers : c \in staging => call[c].pc \in Staged

(* A step of c that leaves the lock alone.                                 *)
LEMMA TidyQuiet ==
  ASSUME TidyInv, UNCHANGED damage, NEW c \in Callers,
         \A d \in Callers \ {c} : call'[d] = call[d],
         lock' = lock, call[c].pc \in Locked => call'[c].pc \in Locked,
         Undamaged =>
           \A d \in staging' : d \in staging \/ d = c,
         Undamaged /\ c \in staging' => call'[c].pc \in Staged
  PROVE  TidyInv'
  <1>1. Undamaged' <=> Undamaged
    BY DEF Undamaged, damage
  <1> QED
    BY <1>1 DEF TidyInv

(* A step of c that removes the lock.                                      *)
LEMMA TidyRelease ==
  ASSUME TidyInv, UNCHANGED damage, NEW c \in Callers,
         \A d \in Callers \ {c} : call'[d] = call[d],
         lock' = FALSE, staging' = staging,
         Undamaged => c \notin staging
  PROVE  TidyInv'
  <1>1. Undamaged' <=> Undamaged
    BY DEF Undamaged, damage
  <1> QED
    BY <1>1 DEF TidyInv

LEMMA StepStaysTidy ==
  ASSUME TypeOK, TidyInv, NEW c \in Callers, Step(c)
  PROVE  TidyInv'
  <1> USE DEF At, Staged
  <1>0. /\ call \in [Callers -> Calls] /\ call[c] \in Calls
        /\ Locked = {"staging", "raced", "publishing", "unlocking", "unstage",
                     "unlock", "trace", "progress", "status"}
    BY DEF TypeOK, Locked, Building
  <1>1. Undamaged /\ c \in staging => call[c].pc \in Staged
    BY DEF TidyInv
  <1>2. CASE Observe(c) \/ CheckAbsent(c)
    <2>1. /\ call[c].pc \in {"observing", "checking"}
          /\ lock' = lock /\ staging' = staging /\ UNCHANGED damage
          /\ \A d \in Callers \ {c} : call'[d] = call[d]
      BY <1>2, MovesEffect DEF Observe, CheckAbsent, stages
    <2> QED
      BY <1>0, <1>1, <2>1, TidyQuiet
  <1>3. CASE MakeLock(c)
    <2>0. /\ call[c].pc = "locking" /\ staging' = staging /\ UNCHANGED damage
          /\ \A d \in Callers \ {c} : call'[d] = call[d]
      BY <1>3, MovesEffect DEF MakeLock, stages
    <2>1. CASE lock
      <3>1. lock' = lock
        BY <1>3, <2>1 DEF MakeLock, TypeOK
      <3> QED
        BY <1>0, <1>1, <2>0, <3>1, TidyQuiet
    <2>2. CASE ~lock
      <3>1. call'[c].pc = "staging"
        BY <1>3, <2>2, MovesEffect DEF MakeLock
      <3>2. Undamaged' <=> Undamaged
        BY <2>0 DEF Undamaged, damage
      <3> QED
        BY <1>0, <1>1, <2>0, <3>1, <3>2 DEF TidyInv
    <2> QED
      BY <2>1, <2>2
  <1>4. CASE MakeStage(c)
    <2>1. /\ call'[c].pc = "trace" /\ staging' = staging \union {c}
          /\ lock' = lock /\ UNCHANGED damage
          /\ \A d \in Callers \ {c} : call'[d] = call[d]
      BY <1>4, MovesEffect DEF MakeStage
    <2> QED
      BY <1>0, <2>1, TidyQuiet
  <1>5. ASSUME NEW pc, NEW file, NEW next \in Staged \ {"unstage"},
               WriteFile(c, pc, file, next)
        PROVE  TidyInv'
    <2>1. /\ call'[c].pc = next /\ staging' = staging
          /\ lock' = lock /\ UNCHANGED damage
          /\ \A d \in Callers \ {c} : call'[d] = call[d]
      BY <1>5, MovesEffect DEF WriteFile
    <2> QED
      BY <1>0, <2>1, TidyQuiet
  <1>6. CASE WriteTrace(c) \/ WriteProgress(c) \/ WriteStatus(c)
    BY <1>5, <1>6 DEF WriteTrace, WriteProgress, WriteStatus
  <1>7. CASE CheckRaced(c)
    <2>1. /\ staging' = staging /\ lock' = lock /\ UNCHANGED damage
          /\ \A d \in Callers \ {c} : call'[d] = call[d]
          /\ call'[c].pc = "publishing"
             \/ call'[c].pc = IF c \in staging THEN "unstage" ELSE "unlock"
      BY <1>7, MovesEffect DEF CheckRaced, stages
    <2> QED
      BY <1>0, <2>1, TidyQuiet
  <1>8. CASE Publish(c)
    <2>1. CASE mission = NoMission
      <3>1. /\ call'[c].pc = "unlocking"
            /\ \A d \in Callers \ {c} : call'[d] = call[d]
        BY <1>0, <1>8, <2>1 DEF Publish, Calls
      <3>2. staging' = staging \ {c} /\ lock' = lock /\ UNCHANGED damage
        BY <1>8, <2>1 DEF Publish
      <3> QED
        BY <1>0, <3>1, <3>2, TidyQuiet
    <2>2. CASE mission # NoMission
      <3>1. /\ staging' = staging /\ lock' = lock /\ UNCHANGED damage
            /\ \A d \in Callers \ {c} : call'[d] = call[d]
            /\ call'[c].pc = IF c \in staging THEN "unstage" ELSE "unlock"
        BY <1>8, <2>2, MovesEffect DEF Publish, stages
      <3> QED
        BY <1>0, <3>1, TidyQuiet
    <2> QED
      BY <2>1, <2>2
  <1>9. CASE Unlock(c) \/ RemoveLock(c)
    <2>1. /\ call[c].pc \in {"unlocking", "unlock"}
          /\ staging' = staging /\ lock' = FALSE /\ UNCHANGED damage
      BY <1>9 DEF Unlock, RemoveLock, stages
    <2>2. \A d \in Callers \ {c} : call'[d] = call[d]
      BY <1>9, MovesEffect DEF Unlock, RemoveLock
    <2> QED
      BY <1>1, <2>1, <2>2, TidyRelease
  <1>10. CASE Report(c)
    <2>1. /\ call[c].pc = "hashing" /\ lock' = lock /\ staging' = staging
          /\ UNCHANGED damage
          /\ \A d \in Callers \ {c} : call'[d] = call[d]
      BY <1>0, <1>10 DEF Report, Calls, stages
    <2> QED
      BY <1>0, <1>1, <2>1, TidyQuiet
  <1>11. CASE RemoveStage(c)
    <2>1. /\ call'[c].pc = "unlock" /\ lock' = lock /\ staging' = staging \ {c}
          /\ UNCHANGED damage
          /\ \A d \in Callers \ {c} : call'[d] = call[d]
      BY <1>11, MovesEffect DEF RemoveStage
    <2> QED
      BY <1>0, <2>1, TidyQuiet
  <1> QED
    BY <1>2, <1>3, <1>4, <1>6, <1>7, <1>8, <1>9, <1>10, <1>11 DEF Step

LEMMA TidyStep == TypeOK /\ TidyInv /\ [Next]_vars => TidyInv'
  <1> SUFFICES ASSUME TypeOK, TidyInv, [Next]_vars
               PROVE  TidyInv'
    OBVIOUS
  <1> USE DEF At, Staged
  <1>0. /\ call \in [Callers -> Calls]
        /\ crashes \in Nat /\ faults \in Nat /\ thefts \in Nat
        /\ Locked = {"staging", "raced", "publishing", "unlocking", "unstage",
                     "unlock", "trace", "progress", "status"}
    BY InitAssumption DEF TypeOK, Locked, Building
  <1>1. ASSUME NEW c \in Callers, Begin(c)
        PROVE  TidyInv'
    <2>1. /\ call[c].pc = "done" /\ lock' = lock /\ staging' = staging
          /\ UNCHANGED damage
          /\ \A d \in Callers \ {c} : call'[d] = call[d]
      BY <1>0, <1>1 DEF Begin, stages
    <2>2. Undamaged => c \notin staging
      BY <2>1 DEF TidyInv
    <2> QED
      BY <1>0, <2>1, <2>2, TidyQuiet
  <1>2. ASSUME NEW c \in Callers, Step(c)
        PROVE  TidyInv'
    BY <1>2, StepStaysTidy
  <1>3. ASSUME NEW c \in Callers, Interrupt(c)
        PROVE  TidyInv'
    <2>0. /\ lock' = lock /\ staging' = staging /\ UNCHANGED damage
          /\ Undamaged /\ c \in staging => call[c].pc \in Staged
      BY <1>3 DEF Interrupt, stages, TidyInv
    <2>1. CASE At(c, "observing")
      <3>1. \A d \in Callers \ {c} : call'[d] = call[d]
        BY <1>3, <2>1, MovesEffect DEF Interrupt
      <3> QED
        BY <1>0, <2>0, <2>1, <3>1, TidyQuiet
    <2>2. CASE ~At(c, "observing")
      <3>1. /\ \A d \in Callers \ {c} : call'[d] = call[d]
            /\ call'[c].pc = IF c \in staging THEN "unstage" ELSE "unlock"
        BY <1>3, <2>2, MovesEffect DEF Interrupt
      <3> QED
        BY <1>0, <2>0, <3>1, TidyQuiet
    <2> QED
      BY <2>1, <2>2
  <1>4. ASSUME NEW c \in Callers, IOFailure(c) \/ Crash(c)
        PROVE  TidyInv'
    <2>1. ~Undamaged'
      BY <1>0, <1>4 DEF IOFailure, Crash, Undamaged
    <2> QED
      BY <2>1 DEF TidyInv
  <1>5. CASE StealLock
    <2>1. ~Undamaged'
      BY <1>0, <1>5 DEF StealLock, Undamaged
    <2> QED
      BY <2>1 DEF TidyInv
  <1>6. CASE MakeByHand \/ Checkpoint \/ UNCHANGED vars
    BY <1>6
    DEF MakeByHand, Checkpoint, vars, stages, damage, TidyInv, Undamaged
  <1> QED
    BY <1>1, <1>2, <1>3, <1>4, <1>5, <1>6 DEF Next

(* Unless a call is killed, fails or is robbed, a lock always has a        *)
(* running call and no call ends with its staging directory in place.      *)
THEOREM InitCleansUp == Spec => []NothingLeftBehind
  <1>1. Init => TidyInv
    BY DEF Init, TidyInv
  <1>2. TidyInv => NothingLeftBehind
    BY DEF TidyInv, NothingLeftBehind, At, Locked, Building, Staged
  <1> QED
    BY <1>1, <1>2, InitTypeCorrect, TidyStep, PTL DEF Spec

-----------------------------------------------------------------------------
(* Every call ends.                                                        *)

Left(pc) ==
  CASE pc = "done"       -> 0
    [] pc = "unlock"     -> 1
    [] pc = "unstage"    -> 2
    [] pc = "hashing"    -> 3
    [] pc = "unlocking"  -> 4
    [] pc = "publishing" -> 5
    [] pc = "raced"      -> 6
    [] pc = "status"     -> 7
    [] pc = "progress"   -> 8
    [] pc = "trace"      -> 9
    [] pc = "staging"    -> 10
    [] pc = "locking"    -> 11
    [] pc = "checking"   -> 12
    [] pc = "observing"  -> 13

StepsLeft(c) == Left(call[c].pc)

(* What a call that runs does or suffers.                                  *)
Goes(c) == Step(c) \/ Interrupt(c) \/ IOFailure(c) \/ Crash(c)

(* Every step of a call leaves it fewer steps, failing ones too, and no    *)
(* step of anybody else gives it more.                                     *)
RunsDown ==
  \A c \in Callers :
    /\ StepsLeft(c) \in Nat /\ StepsLeft(c) <= 13
    /\ Goes(c) => StepsLeft(c)' < StepsLeft(c)
    /\ ~At(c, "done") => StepsLeft(c)' <= StepsLeft(c)

LEMMA LeftRange ==
  ASSUME NEW pc \in Pcs
  PROVE  /\ Left(pc) \in Nat /\ Left(pc) <= 13
         /\ Left(pc) = 0 <=> pc = "done"
  <1>1. Left(pc) \in Nat
    BY DEF Left, Pcs, Building
  <1>2. Left(pc) <= 13
    BY DEF Left, Pcs, Building
  <1>3. Left(pc) = 0 <=> pc = "done"
    BY DEF Left, Pcs, Building
  <1> QED
    BY <1>1, <1>2, <1>3

LEMMA StepLowers ==
  ASSUME TypeOK, NEW c \in Callers, Step(c)
  PROVE  StepsLeft(c)' < StepsLeft(c)
  <1> USE DEF At
  <1>0. call \in [Callers -> Calls] /\ call[c] \in Calls
    BY DEF TypeOK
  <1>1. CASE Observe(c)
    BY <1>1, MovesShape DEF Observe, StepsLeft, Left
  <1>2. CASE CheckAbsent(c)
    BY <1>2, MovesShape DEF CheckAbsent, StepsLeft, Left
  <1>3. CASE MakeLock(c)
    BY <1>3, MovesShape DEF MakeLock, StepsLeft, Left
  <1>4. CASE MakeStage(c)
    BY <1>4, MovesShape DEF MakeStage, StepsLeft, Left
  <1>5. CASE WriteTrace(c)
    BY <1>5, MovesShape DEF WriteTrace, WriteFile, StepsLeft, Left
  <1>6. CASE WriteProgress(c)
    BY <1>6, MovesShape DEF WriteProgress, WriteFile, StepsLeft, Left
  <1>7. CASE WriteStatus(c)
    BY <1>7, MovesShape DEF WriteStatus, WriteFile, StepsLeft, Left
  <1>8. CASE CheckRaced(c)
    <2>1. call'[c].pc \in {"publishing", "unstage", "unlock"}
      BY <1>8, MovesShape DEF CheckRaced
    <2> QED
      BY <1>8, <2>1 DEF CheckRaced, StepsLeft, Left
  <1>9. CASE Publish(c)
    <2>1. call'[c].pc \in {"unlocking", "unstage", "unlock"}
      BY <1>0, <1>9, MovesShape DEF Publish, Calls
    <2> QED
      BY <1>9, <2>1 DEF Publish, StepsLeft, Left
  <1>10. CASE Unlock(c)
    <2>1. call'[c].pc \in {"hashing", "unstage", "unlock"}
      BY <1>10, MovesShape DEF Unlock
    <2> QED
      BY <1>10, <2>1 DEF Unlock, StepsLeft, Left
  <1>11. CASE Report(c)
    <2>1. call'[c].pc = "done"
      BY <1>0, <1>11 DEF Report, Calls
    <2> QED
      BY <1>11, <2>1 DEF Report, StepsLeft, Left
  <1>12. CASE RemoveStage(c)
    BY <1>12, MovesShape DEF RemoveStage, StepsLeft, Left
  <1>13. CASE RemoveLock(c)
    BY <1>13, MovesShape DEF RemoveLock, StepsLeft, Left
  <1> QED
    BY <1>1, <1>2, <1>3, <1>4, <1>5, <1>6, <1>7, <1>8, <1>9, <1>10, <1>11,
       <1>12, <1>13 DEF Step

LEMMA AccidentLowers ==
  ASSUME TypeOK, NEW c \in Callers, Interrupt(c) \/ IOFailure(c) \/ Crash(c)
  PROVE  StepsLeft(c)' < StepsLeft(c)
  <1>0. call \in [Callers -> Calls] /\ call[c] \in Calls /\ call[c].pc \in Pcs
    BY DEF TypeOK, Calls
  <1>1. CASE Interrupt(c)
    <2>1. call'[c].pc \in {"done", "unstage", "unlock"}
      BY <1>1, MovesShape DEF Interrupt
    <2> QED
      BY <1>1, <2>1 DEF Interrupt, Polls, Building, StepsLeft, Left
  <1>2. CASE IOFailure(c)
    <2>1. PICK code \in FaultCodes(call[c].pc) :
            IF call[c].pc \in {"observing", "checking", "locking", "hashing",
                               "unlock"}
            THEN Exit(c, code)
            ELSE IF At(c, "unstage")
                 THEN call' = [call EXCEPT ![c].pc = "unlock", ![c].code = code]
                 ELSE Fail(c, code)
      BY <1>2 DEF IOFailure
    <2>2. call[c].pc # "done"
      BY <2>1 DEF FaultCodes
    <2>3. CASE call[c].pc \in {"observing", "checking", "locking", "hashing",
                               "unlock"}
      <3>1. call'[c].pc = "done"
        BY <2>1, <2>3, MovesShape
      <3> QED
        BY <2>3, <3>1 DEF StepsLeft, Left
    <2>4. CASE call[c].pc = "unstage"
      <3>1. call'[c].pc = "unlock"
        BY <1>0, <2>1, <2>4 DEF At, Calls
      <3> QED
        BY <2>4, <3>1 DEF StepsLeft, Left
    <2>5. CASE call[c].pc \in {"staging", "raced", "publishing", "unlocking"}
                                \union Building
      <3>1. call'[c].pc \in {"unstage", "unlock"}
        BY <2>1, <2>5, MovesShape DEF At, Building
      <3> QED
        BY <2>5, <3>1 DEF StepsLeft, Left, Building
    <2> QED
      BY <1>0, <2>2, <2>3, <2>4, <2>5 DEF Pcs
  <1>3. CASE Crash(c)
    <2>1. call'[c].pc = "done" /\ call[c].pc # "done"
      BY <1>0, <1>3 DEF Crash, Idle, At
    <2>2. StepsLeft(c)' = 0
      BY <2>1 DEF StepsLeft, Left
    <2> QED
      BY <1>0, <2>1, <2>2, LeftRange DEF StepsLeft
  <1> QED
    BY <1>1, <1>2, <1>3

LEMMA OthersKeepCall ==
  ASSUME TypeOK, [Next]_vars, NEW c \in Callers, ~Goes(c), ~At(c, "done")
  PROVE  call'[c] = call[c]
  <1>0. call \in [Callers -> Calls]
    BY DEF TypeOK
  <1>1. ASSUME NEW d \in Callers,
               Begin(d) \/ Step(d) \/ Interrupt(d) \/ IOFailure(d) \/ Crash(d)
        PROVE  call'[c] = call[c]
    <2>1. d # c
      BY <1>1 DEF Goes, Begin
    <2>2. CASE Begin(d) \/ Crash(d)
      BY <1>0, <2>1, <2>2 DEF Begin, Crash
    <2>3. CASE Interrupt(d)
      BY <2>1, <2>3, MovesShape DEF Interrupt
    <2>4. CASE IOFailure(d)
      BY <1>0, <2>1, <2>4, MovesShape DEF IOFailure
    <2>5. CASE Step(d)
      <3>1. CASE Observe(d) \/ CheckAbsent(d) \/ MakeLock(d) \/ MakeStage(d)
        BY <2>1, <3>1, MovesShape DEF Observe, CheckAbsent, MakeLock, MakeStage
      <3>2. CASE WriteTrace(d) \/ WriteProgress(d) \/ WriteStatus(d)
        BY <2>1, <3>2, MovesShape
        DEF WriteTrace, WriteProgress, WriteStatus, WriteFile
      <3>3. CASE CheckRaced(d) \/ Unlock(d) \/ RemoveStage(d) \/ RemoveLock(d)
        BY <2>1, <3>3, MovesShape
        DEF CheckRaced, Unlock, RemoveStage, RemoveLock
      <3>4. CASE Publish(d) \/ Report(d)
        BY <1>0, <2>1, <3>4, MovesShape DEF Publish, Report
      <3> QED
        BY <2>5, <3>1, <3>2, <3>3, <3>4 DEF Step
    <2> QED
      BY <1>1, <2>2, <2>3, <2>4, <2>5
  <1>2. CASE StealLock \/ MakeByHand \/ Checkpoint \/ UNCHANGED vars
    BY <1>2 DEF StealLock, MakeByHand, Checkpoint, vars
  <1> QED
    BY <1>1, <1>2 DEF Next

LEMMA RunningDown == TypeOK /\ TypeOK' /\ [Next]_vars => RunsDown
  <1> SUFFICES ASSUME TypeOK, TypeOK', [Next]_vars, NEW c \in Callers
               PROVE  /\ StepsLeft(c) \in Nat /\ StepsLeft(c) <= 13
                      /\ Goes(c) => StepsLeft(c)' < StepsLeft(c)
                      /\ ~At(c, "done") => StepsLeft(c)' <= StepsLeft(c)
    BY DEF RunsDown
  <1>1. /\ StepsLeft(c) \in Nat /\ StepsLeft(c) <= 13
        /\ StepsLeft(c)' \in Nat
    <2>1. call[c].pc \in Pcs /\ call'[c].pc \in Pcs
      BY DEF TypeOK, Calls
    <2> QED
      BY <2>1, LeftRange DEF StepsLeft
  <1>2. Goes(c) => StepsLeft(c)' < StepsLeft(c)
    BY StepLowers, AccidentLowers DEF Goes
  <1>3. ~At(c, "done") /\ ~Goes(c) => StepsLeft(c)' = StepsLeft(c)
    BY OthersKeepCall DEF StepsLeft
  <1> QED
    BY <1>1, <1>2, <1>3

(* A mission init ends after at most thirteen steps of its own: it never   *)
(* waits for another call, and its cleanup never begins twice.             *)
THEOREM InitCallsRunDown == Spec => [][RunsDown]_vars
  BY RunningDown, InitTypeCorrect, PTL DEF Spec
=============================================================================
