-------------------------- MODULE StagePublishProofs --------------------------
(***************************************************************************)
(* What holds of stage for any number of calls, files, edits, crashes,     *)
(* failures and stolen locks.                                              *)
(***************************************************************************)
EXTENDS StagePublish, TLAPS

-----------------------------------------------------------------------------
(* The shapes of the steps.                                                *)

LEMMA Names ==
  /\ {"done", "looking", "locking", "busy", "printing", "working", "contract",
      "listing", "hashing", "copying", "verifying", "polling", "raced",
      "publishing", "unwork", "unlock"} = Pcs
  /\ {"none", "ok", "data", "unavailable", "cantcreate", "locked",
      "rollback_failed", "interrupted"} = Codes
  BY DEF Pcs, Locked, Codes

LEMMA BecomesTyped ==
  ASSUME TypeOK, NEW c \in Stagers, NEW b \in Calls, Becomes(c, b)
  PROVE  /\ call' \in [Stagers -> Calls]
         /\ call'[c] = b
         /\ \A d \in Stagers \ {c} : call'[d] = call[d]
  BY DEF TypeOK, Becomes

LEMMA PlaceSet ==
  ASSUME NEW b \in Calls, NEW pc \in Pcs
  PROVE  LET r == [b EXCEPT !.pc = pc] IN
         /\ r \in Calls /\ r.pc = pc /\ r.code = b.code /\ r.at = b.at
         /\ r.copy = b.copy /\ r.same = b.same /\ r.listed = b.listed
         /\ r.hashed = b.hashed /\ r.from = b.from
         /\ r.published = b.published
  BY DEF Calls

(* What a step of c does to its call: a new place, an outcome, the rest    *)
(* kept.                                                                   *)
OthersKept(c) == \A d \in Stagers \ {c} : call'[d] = call[d]

Moved(c, pc, code) ==
  /\ call' \in [Stagers -> Calls] /\ OthersKept(c)
  /\ call'[c].pc = pc /\ call'[c].code = code
  /\ call'[c].at = call[c].at /\ call'[c].copy = call[c].copy
  /\ call'[c].same = call[c].same /\ call'[c].from = call[c].from
  /\ call'[c].listed = call[c].listed /\ call'[c].hashed = call[c].hashed
  /\ call'[c].published = call[c].published

Noted(c, pc, listed, hashed, from, published) ==
  /\ call' \in [Stagers -> Calls] /\ OthersKept(c)
  /\ call'[c].pc = pc /\ call'[c].code = call[c].code
  /\ call'[c].at = call[c].at /\ call'[c].copy = call[c].copy
  /\ call'[c].same = call[c].same
  /\ call'[c].listed = listed /\ call'[c].hashed = hashed
  /\ call'[c].from = from /\ call'[c].published = published

Scanned(c, pc, at, copy, same) ==
  /\ call' \in [Stagers -> Calls] /\ OthersKept(c)
  /\ call'[c].pc = pc /\ call'[c].code = call[c].code
  /\ call'[c].at = at /\ call'[c].copy = copy /\ call'[c].same = same
  /\ call'[c].from = call[c].from
  /\ call'[c].listed = call[c].listed /\ call'[c].hashed = call[c].hashed
  /\ call'[c].published = call[c].published

LEMMA GotoMoves ==
  ASSUME TypeOK, NEW c \in Stagers, NEW pc \in Pcs, Goto(c, pc)
  PROVE  Moved(c, pc, call[c].code)
  <1> DEFINE b == [call[c] EXCEPT !.pc = pc]
  <1>1. call[c] \in Calls
    BY DEF TypeOK
  <1>2. /\ b \in Calls /\ b.pc = pc /\ b.code = call[c].code
        /\ b.at = call[c].at /\ b.copy = call[c].copy /\ b.same = call[c].same
        /\ b.listed = call[c].listed /\ b.hashed = call[c].hashed
        /\ b.from = call[c].from /\ b.published = call[c].published
    BY <1>1, PlaceSet
  <1>3. Becomes(c, b)
    BY DEF Goto
  <1> HIDE DEF b
  <1> QED
    BY <1>2, <1>3, BecomesTyped DEF Moved, OthersKept

LEMMA OutcomeMoves ==
  ASSUME TypeOK, NEW c \in Stagers, NEW pc \in Pcs, NEW code \in Codes,
         Becomes(c, [call[c] EXCEPT !.pc = pc, !.code = code])
  PROVE  Moved(c, pc, code)
  <1> DEFINE b == [call[c] EXCEPT !.pc = pc, !.code = code]
  <1>1. call[c] \in Calls
    BY DEF TypeOK
  <1>2. /\ b \in Calls /\ b.pc = pc /\ b.code = code
        /\ b.at = call[c].at /\ b.copy = call[c].copy /\ b.same = call[c].same
        /\ b.listed = call[c].listed /\ b.hashed = call[c].hashed
        /\ b.from = call[c].from /\ b.published = call[c].published
    BY <1>1 DEF Calls
  <1>3. Becomes(c, b)
    OBVIOUS
  <1> HIDE DEF b
  <1> QED
    BY <1>2, <1>3, BecomesTyped DEF Moved, OthersKept

LEMMA ExitMoves ==
  ASSUME TypeOK, NEW c \in Stagers, NEW code \in Codes, Exit(c, code)
  PROVE  Moved(c, "done", code)
  <1>1. "done" \in Pcs
    BY Names
  <1> QED
    BY <1>1, OutcomeMoves DEF Exit

LEMMA FailMoves ==
  ASSUME TypeOK, NEW c \in Stagers, NEW code \in Codes, Fail(c, code)
  PROVE  Moved(c, "unwork", code)
  <1>1. "unwork" \in Pcs
    BY Names
  <1> QED
    BY <1>1, OutcomeMoves DEF Fail

(* The steps that only move on, by where they lead.                        *)
LEMMA PlainSteps ==
  ASSUME TypeOK, NEW c \in Stagers
  PROVE  /\ ValidateTarget(c) => \/ Moved(c, "locking", call[c].code)
                                 \/ Moved(c, "done", "cantcreate")
         /\ MakeLock(c) => IF lock THEN Moved(c, "busy", call[c].code)
                                   ELSE Moved(c, "working", call[c].code)
         /\ LockBusy(c) => \/ Moved(c, "done", "locked")
                           \/ Moved(c, "done", "cantcreate")
         /\ MakeWork(c) => Moved(c, "contract", call[c].code)
         /\ CheckContract(c) => \/ Moved(c, "listing", call[c].code)
                                \/ Moved(c, "unwork", "data")
         /\ Poll(c) => Moved(c, "raced", call[c].code)
         /\ Interrupt(c) => Moved(c, "unwork", "interrupted")
         /\ CheckRaced(c) => \/ Moved(c, "publishing", call[c].code)
                             \/ Moved(c, "unwork", "cantcreate")
         /\ RemoveWork(c) => Moved(c, "unlock", call[c].code)
         /\ RemoveLock(c) =>
              \/ ~lock /\ Moved(c, "done", "rollback_failed")
              \/ lock /\ call[c].code = "none" /\ Moved(c, "printing", "none")
              \/ lock /\ call[c].code # "none" /\ Moved(c, "done", call[c].code)
         /\ PrintResult(c) => Moved(c, "done", "ok")
  <1> USE Names
  <1>1. ValidateTarget(c) => \/ Moved(c, "locking", call[c].code)
                             \/ Moved(c, "done", "cantcreate")
    BY GotoMoves, ExitMoves DEF ValidateTarget
  <1>2. MakeLock(c) => IF lock THEN Moved(c, "busy", call[c].code)
                               ELSE Moved(c, "working", call[c].code)
    BY GotoMoves DEF MakeLock
  <1>3. LockBusy(c) => \/ Moved(c, "done", "locked")
                       \/ Moved(c, "done", "cantcreate")
    <2>1. CASE lock
      BY <2>1, ExitMoves DEF LockBusy
    <2>2. CASE ~lock
      BY <2>2, ExitMoves DEF LockBusy
    <2> QED
      BY <2>1, <2>2
  <1>4. MakeWork(c) => Moved(c, "contract", call[c].code)
    BY GotoMoves DEF MakeWork
  <1>5. CheckContract(c) => \/ Moved(c, "listing", call[c].code)
                            \/ Moved(c, "unwork", "data")
    BY GotoMoves, FailMoves DEF CheckContract
  <1>6. Poll(c) => Moved(c, "raced", call[c].code)
    BY GotoMoves DEF Poll
  <1>7. Interrupt(c) => Moved(c, "unwork", "interrupted")
    BY FailMoves DEF Interrupt
  <1>8. CheckRaced(c) => \/ Moved(c, "publishing", call[c].code)
                         \/ Moved(c, "unwork", "cantcreate")
    BY GotoMoves, FailMoves DEF CheckRaced
  <1>9. RemoveWork(c) => Moved(c, "unlock", call[c].code)
    BY GotoMoves DEF RemoveWork
  <1>10. RemoveLock(c) =>
           \/ ~lock /\ Moved(c, "done", "rollback_failed")
           \/ lock /\ call[c].code = "none" /\ Moved(c, "printing", "none")
           \/ lock /\ call[c].code # "none" /\ Moved(c, "done", call[c].code)
    <2> HAVE RemoveLock(c)
    <2>0. call[c].code \in Codes
      BY DEF TypeOK, Calls
    <2>1. CASE ~lock
      BY <2>1, ExitMoves DEF RemoveLock
    <2>2. CASE lock /\ call[c].code = "none"
      BY <2>2, GotoMoves DEF RemoveLock
    <2>3. CASE lock /\ call[c].code # "none"
      BY <2>0, <2>3, ExitMoves DEF RemoveLock
    <2> QED
      BY <2>1, <2>2, <2>3
  <1>11. PrintResult(c) => Moved(c, "done", "ok")
    BY ExitMoves DEF PrintResult
  <1> QED
    BY <1>1, <1>2, <1>3, <1>4, <1>5, <1>6, <1>7, <1>8, <1>9, <1>10, <1>11

LEMMA NotingSteps ==
  ASSUME TypeOK, NEW c \in Stagers
  PROVE  /\ ReadManifest(c) =>
              Noted(c, "hashing", manifest, call[c].hashed, call[c].from,
                    call[c].published)
         /\ HashManifest(c) =>
              Noted(c, "copying", call[c].listed, manifest, Len(log),
                    call[c].published)
         /\ Publish(c) =>
              \/ target = Nothing /\ target' = c /\ tree' = call[c].copy
                 /\ Noted(c, "unwork", call[c].listed, call[c].hashed,
                          call[c].from, TRUE)
              \/ UNCHANGED place /\ Moved(c, "unwork", "cantcreate")
  <1> USE Names
  <1>0. call[c] \in Calls /\ manifest \in Nat /\ Len(log) \in Nat
    BY DEF TypeOK
  <1>1. ReadManifest(c) =>
          Noted(c, "hashing", manifest, call[c].hashed, call[c].from,
                    call[c].published)
    <2> HAVE ReadManifest(c)
    <2> DEFINE b == [call[c] EXCEPT !.pc = "hashing", !.listed = manifest]
    <2>1. /\ b \in Calls /\ b.pc = "hashing" /\ b.code = call[c].code
          /\ b.at = call[c].at /\ b.copy = call[c].copy
          /\ b.same = call[c].same /\ b.listed = manifest
          /\ b.hashed = call[c].hashed /\ b.from = call[c].from
          /\ b.published = call[c].published
      BY <1>0 DEF Calls
    <2>2. Becomes(c, b)
      BY DEF ReadManifest
    <2> HIDE DEF b
    <2> QED
      BY <2>1, <2>2, BecomesTyped DEF Noted, OthersKept
  <1>2. HashManifest(c) =>
          Noted(c, "copying", call[c].listed, manifest, Len(log),
                    call[c].published)
    <2> HAVE HashManifest(c)
    <2> DEFINE b == [call[c] EXCEPT !.pc = "copying", !.hashed = manifest,
                                 !.from = Len(log)]
    <2>1. /\ b \in Calls /\ b.pc = "copying" /\ b.code = call[c].code
          /\ b.at = call[c].at /\ b.copy = call[c].copy
          /\ b.same = call[c].same /\ b.listed = call[c].listed
          /\ b.hashed = manifest /\ b.from = Len(log)
          /\ b.published = call[c].published
      BY <1>0 DEF Calls
    <2>2. Becomes(c, b)
      BY DEF HashManifest
    <2> HIDE DEF b
    <2> QED
      BY <2>1, <2>2, BecomesTyped DEF Noted, OthersKept
  <1>3. Publish(c) =>
          \/ target = Nothing /\ target' = c /\ tree' = call[c].copy
             /\ Noted(c, "unwork", call[c].listed, call[c].hashed,
                          call[c].from, TRUE)
          \/ UNCHANGED place /\ Moved(c, "unwork", "cantcreate")
    <2> HAVE Publish(c)
    <2>1. CASE target = Nothing
      <3> DEFINE b == [call[c] EXCEPT !.pc = "unwork", !.published = TRUE]
      <3>1. /\ b \in Calls /\ b.pc = "unwork" /\ b.code = call[c].code
            /\ b.at = call[c].at /\ b.copy = call[c].copy
            /\ b.same = call[c].same /\ b.listed = call[c].listed
            /\ b.hashed = call[c].hashed /\ b.from = call[c].from
            /\ b.published = TRUE
        BY <1>0 DEF Calls
      <3>2. Becomes(c, b) /\ target' = c /\ tree' = call[c].copy
        BY <2>1 DEF Publish
      <3> HIDE DEF b
      <3> QED
        BY <2>1, <3>1, <3>2, BecomesTyped DEF Noted, OthersKept
    <2>2. CASE target # Nothing
      BY <2>2, FailMoves DEF Publish
    <2> QED
      BY <2>1, <2>2
  <1> QED
    BY <1>1, <1>2, <1>3

LEMMA SourceTyped ==
  ASSUME TypeOK
  PROVE  /\ Len(log) \in Moments /\ Len(log) \in Nat
         /\ \A m \in Moments : log[m] \in Trees
         /\ source \in Trees
  <1>1. Checkouts \subseteq Trees
    BY StageAssumption DEF Trees, Leaves
  <1>2. Len(log) \in Nat /\ Len(log) # 0
    BY DEF TypeOK
  <1>3. \A m \in 1..Len(log) : log[m] \in Checkouts
    BY DEF TypeOK
  <1> QED
    BY <1>1, <1>2, <1>3 DEF Moments, source

(* The two readings of the leaf l.                                         *)
LEMMA CopySteps ==
  ASSUME TypeOK, NEW c \in Stagers, CopyLeaf(c)
  PROVE  LET l == call[c].at IN
         \/ Moved(c, "unwork", "data")
         \/ /\ l = LeafCount /\ source[l] # Missing
            /\ Scanned(c, "verifying", 1, [call[c].copy EXCEPT ![l] = source[l]],
                       call[c].same)
         \/ /\ l # LeafCount /\ source[l] # Missing
            /\ Scanned(c, "copying", l + 1,
                       [call[c].copy EXCEPT ![l] = source[l]], call[c].same)
  <1> USE Names
  <1> DEFINE l == call[c].at
  <1>0. call[c] \in Calls /\ l \in Nat /\ l + 1 \in Nat /\ 1 \in Nat
        /\ call[c].pc = "copying"
        /\ source \in Trees
    BY SourceTyped DEF TypeOK, Calls, CopyLeaf, At
  <1>1. CASE source[l] = Missing
    BY <1>1, FailMoves DEF CopyLeaf
  <1>2. CASE source[l] # Missing /\ l = LeafCount
    <2> DEFINE b == [call[c] EXCEPT !.copy[l] = source[l],
                                    !.pc = "verifying", !.at = 1]
    <2>1. /\ b \in Calls /\ b.pc = "verifying" /\ b.code = call[c].code
          /\ b.at = 1 /\ b.copy = [call[c].copy EXCEPT ![l] = source[l]]
          /\ b.same = call[c].same /\ b.listed = call[c].listed
          /\ b.hashed = call[c].hashed /\ b.from = call[c].from
          /\ b.published = call[c].published
      BY <1>0 DEF Calls, Trees
    <2>2. Becomes(c, b)
      BY <1>2 DEF CopyLeaf
    <2> HIDE DEF b
    <2> QED
      BY <1>2, <2>1, <2>2, BecomesTyped DEF Scanned, OthersKept
  <1>3. CASE source[l] # Missing /\ l # LeafCount
    <2> DEFINE b == [call[c] EXCEPT !.copy[l] = source[l],
                                    !.pc = "copying", !.at = l + 1]
    <2>1. /\ b \in Calls /\ b.pc = "copying" /\ b.code = call[c].code
          /\ b.at = l + 1 /\ b.copy = [call[c].copy EXCEPT ![l] = source[l]]
          /\ b.same = call[c].same /\ b.listed = call[c].listed
          /\ b.hashed = call[c].hashed /\ b.from = call[c].from
          /\ b.published = call[c].published
      BY <1>0 DEF Calls, Trees
    <2>2. Becomes(c, b)
      BY <1>0, <1>3 DEF CopyLeaf
    <2> HIDE DEF b
    <2> QED
      BY <1>3, <2>1, <2>2, BecomesTyped DEF Scanned, OthersKept
  <1> QED
    BY <1>1, <1>2, <1>3

LEMMA CompareMoves ==
  ASSUME TypeOK, NEW c \in Stagers, NEW same \in BOOLEAN, NEW pc \in Pcs,
         NEW n \in Nat,
         Becomes(c, [call[c] EXCEPT !.same = same, !.pc = pc, !.at = n])
  PROVE  Scanned(c, pc, n, call[c].copy, same)
  <1> DEFINE b == [call[c] EXCEPT !.same = same, !.pc = pc, !.at = n]
  <1>1. call[c] \in Calls
    BY DEF TypeOK
  <1>2. /\ b \in Calls /\ b.pc = pc /\ b.code = call[c].code
        /\ b.at = n /\ b.copy = call[c].copy /\ b.same = same
        /\ b.listed = call[c].listed /\ b.hashed = call[c].hashed
        /\ b.from = call[c].from /\ b.published = call[c].published
    BY <1>1 DEF Calls
  <1>3. Becomes(c, b)
    OBVIOUS
  <1> HIDE DEF b
  <1> QED
    BY <1>2, <1>3, BecomesTyped DEF Scanned, OthersKept

LEMMA VerifySteps ==
  ASSUME TypeOK, NEW c \in Stagers, VerifyLeaf(c)
  PROVE  LET l == call[c].at IN
         \/ Moved(c, "unwork", "data")
         \/ \E same \in BOOLEAN :
              /\ same => call[c].same /\ source[l] = call[c].copy[l]
              /\ \/ l = LeafCount /\ same
                    /\ Scanned(c, "polling", l + 1, call[c].copy, same)
                 \/ l # LeafCount
                    /\ Scanned(c, "verifying", l + 1, call[c].copy, same)
  <1> USE Names
  <1> DEFINE l    == call[c].at
             same == call[c].same /\ source[l] = call[c].copy[l]
  <1>0. l \in Nat /\ l + 1 \in Nat /\ call[c].pc = "verifying"
    BY DEF TypeOK, Calls, VerifyLeaf, At
  <1>1. CASE source[l] = Missing \/ (l = LeafCount /\ ~same)
    BY <1>1, FailMoves DEF VerifyLeaf
  <1>2. CASE ~(source[l] = Missing \/ (l = LeafCount /\ ~same)) /\ same
    <2>1. Becomes(c, [call[c] EXCEPT
                        !.same = TRUE,
                        !.pc = IF l = LeafCount THEN "polling" ELSE @,
                        !.at = l + 1])
      BY <1>2 DEF VerifyLeaf
    <2>2. CASE l = LeafCount
      BY <1>0, <1>2, <2>1, <2>2, CompareMoves
    <2>3. CASE l # LeafCount
      BY <1>0, <1>2, <2>1, <2>3, CompareMoves
    <2> QED
      BY <2>2, <2>3
  <1>3. CASE ~(source[l] = Missing \/ (l = LeafCount /\ ~same)) /\ ~same
    <2>1. Becomes(c, [call[c] EXCEPT !.same = FALSE, !.pc = "verifying",
                                     !.at = l + 1])
      BY <1>0, <1>3 DEF VerifyLeaf
    <2>2. Scanned(c, "verifying", l + 1, call[c].copy, FALSE)
      BY <1>0, <2>1, CompareMoves
    <2> QED
      BY <1>3, <2>2
  <1> QED
    BY <1>1, <1>2, <1>3

(* A file operation that fails, by where the call is.                      *)
Building == {"contract", "listing", "hashing", "copying", "verifying",
             "raced", "publishing"}

LEMMA FaultSteps ==
  ASSUME TypeOK, NEW c \in Stagers, IOFailure(c)
  PROVE  \/ call[c].pc \in {"looking", "locking"}
            /\ Moved(c, "done", "cantcreate")
         \/ call[c].pc = "working" /\ Moved(c, "unlock", "cantcreate")
         \/ /\ call[c].pc \in Building
            /\ \E code \in {"data", "unavailable", "cantcreate"} :
                  Moved(c, "unwork", code)
         \/ call[c].pc = "unwork" /\ Moved(c, "unlock", "rollback_failed")
         \/ call[c].pc = "unlock" /\ Moved(c, "done", "rollback_failed")
         \/ call[c].pc = "printing" /\ Moved(c, "done", "unavailable")
  <1> USE Names DEF At
  <1>1. CASE call[c].pc \in {"looking", "locking"}
    BY <1>1, ExitMoves DEF IOFailure
  <1>2. CASE call[c].pc = "working"
    BY <1>2, OutcomeMoves DEF IOFailure
  <1>3. CASE call[c].pc \in {"contract", "listing", "copying", "verifying"}
    BY <1>3, FailMoves DEF IOFailure, Building
  <1>4. CASE call[c].pc = "hashing"
    BY <1>4, FailMoves DEF IOFailure, Building
  <1>5. CASE call[c].pc \in {"raced", "publishing"}
    BY <1>5, FailMoves DEF IOFailure, Building
  <1>6. CASE call[c].pc = "unwork"
    BY <1>6, OutcomeMoves DEF IOFailure
  <1>7. CASE call[c].pc = "unlock"
    BY <1>7, ExitMoves DEF IOFailure
  <1>8. CASE call[c].pc = "printing"
    BY <1>8, ExitMoves DEF IOFailure
  <1>9. CASE call[c].pc \notin {"looking", "locking", "working", "contract",
                                "listing", "copying", "verifying", "hashing",
                                "raced", "publishing", "unwork", "unlock",
                                "printing"}
    BY <1>9 DEF IOFailure
  <1> QED
    BY <1>1, <1>2, <1>3, <1>4, <1>5, <1>6, <1>7, <1>8, <1>9

LEMMA IdleTyped == Idle \in Calls
  <1>1. Bare \in Trees
    BY DEF Bare, Trees
  <1> QED
    BY <1>1, Names DEF Idle, Calls

LEMMA BeginMoves ==
  ASSUME TypeOK, NEW c \in Stagers, Begin(c)
  PROVE  /\ call' \in [Stagers -> Calls] /\ OthersKept(c)
         /\ call'[c].pc = "looking" /\ call'[c].code = "none"
         /\ call'[c].at = 1 /\ call'[c].copy = Bare
         /\ call'[c].same = TRUE /\ call'[c].listed = 0
         /\ call'[c].hashed = 0 /\ call'[c].from = 1
         /\ call'[c].published = FALSE
  <1> DEFINE b == [Idle EXCEPT !.pc = "looking"]
  <1>1. b \in Calls
    BY IdleTyped, Names DEF Calls
  <1>2. /\ b.pc = "looking" /\ b.code = "none" /\ b.at = 1
        /\ b.copy = Bare /\ b.same = TRUE /\ b.listed = 0
        /\ b.hashed = 0 /\ b.from = 1 /\ b.published = FALSE
    BY DEF Idle
  <1>3. Becomes(c, b)
    BY DEF Begin
  <1> HIDE DEF b
  <1> QED
    BY <1>1, <1>2, <1>3, BecomesTyped DEF OthersKept

-----------------------------------------------------------------------------
(* Types.                                                                  *)

LEMMA StepTypesCalls ==
  ASSUME TypeOK, NEW c \in Stagers,
         Begin(c) \/ Step(c) \/ Interrupt(c) \/ IOFailure(c) \/ Crash(c)
  PROVE  call' \in [Stagers -> Calls]
  <1>1. CASE \/ ValidateTarget(c) \/ MakeLock(c) \/ LockBusy(c) \/ MakeWork(c)
             \/ CheckContract(c) \/ Poll(c) \/ CheckRaced(c) \/ RemoveWork(c)
             \/ RemoveLock(c) \/ PrintResult(c) \/ Interrupt(c)
    BY <1>1, PlainSteps DEF Moved
  <1>2. CASE ReadManifest(c) \/ HashManifest(c) \/ Publish(c)
    BY <1>2, NotingSteps DEF Moved, Noted
  <1>3. CASE CopyLeaf(c)
    BY <1>3, CopySteps DEF Moved, Scanned
  <1>4. CASE VerifyLeaf(c)
    BY <1>4, VerifySteps DEF Moved, Scanned
  <1>5. CASE IOFailure(c)
    BY <1>5, FaultSteps DEF Moved
  <1>6. CASE Crash(c)
    BY <1>6, ExitMoves, Names DEF Crash, Moved
  <1>7. CASE Begin(c)
    BY <1>7, BeginMoves
  <1> QED
    BY <1>1, <1>2, <1>3, <1>4, <1>5, <1>6, <1>7 DEF Step

LEMMA TypeStep == TypeOK /\ [Next]_vars => TypeOK'
  <1> SUFFICES ASSUME TypeOK, [Next]_vars
               PROVE  TypeOK'
    OBVIOUS
  <1>1. ASSUME NEW c \in Stagers,
               Begin(c) \/ Step(c) \/ Interrupt(c) \/ IOFailure(c) \/ Crash(c)
        PROVE  TypeOK'
    <2>1. call' \in [Stagers -> Calls]
      BY <1>1, StepTypesCalls
    <2>2. UNCHANGED origin
      BY <1>1 DEF Begin, Step, ValidateTarget, MakeLock, LockBusy, MakeWork,
                  CheckContract, ReadManifest, HashManifest, CopyLeaf,
                  VerifyLeaf, Poll, CheckRaced, Publish, RemoveWork, RemoveLock,
                  PrintResult, Interrupt, IOFailure, Crash
    <2>3. work' \subseteq Stagers /\ lock' \in BOOLEAN
      BY <1>1 DEF TypeOK, Begin, Step, ValidateTarget, MakeLock, LockBusy,
                  MakeWork, CheckContract, ReadManifest, HashManifest, CopyLeaf,
                  VerifyLeaf, Poll, CheckRaced, Publish, RemoveWork, RemoveLock,
                  PrintResult, Interrupt, IOFailure, Crash
    <2>4. crashes' \in Nat /\ faults' \in Nat /\ thefts' \in Nat
      BY <1>1 DEF TypeOK, Begin, Step, ValidateTarget, MakeLock, LockBusy,
                  MakeWork, CheckContract, ReadManifest, HashManifest, CopyLeaf,
                  VerifyLeaf, Poll, CheckRaced, Publish, RemoveWork, RemoveLock,
                  PrintResult, Interrupt, IOFailure, Crash, damage
    <2>5. target' \in Stagers \union {Stranger, Nothing} /\ tree' \in Trees
      <3>1. CASE Publish(c)
        BY <3>1, NotingSteps DEF TypeOK, Calls, place
      <3>2. CASE ~Publish(c)
        BY <1>1, <3>2
        DEF TypeOK, Begin, Step, ValidateTarget, MakeLock, LockBusy,
            MakeWork, CheckContract, ReadManifest, HashManifest, CopyLeaf,
            VerifyLeaf, Poll, CheckRaced, RemoveWork, RemoveLock,
            PrintResult, Interrupt, IOFailure, Crash, place
      <3> QED
        BY <3>1, <3>2
    <2> QED
      BY <2>1, <2>2, <2>3, <2>4, <2>5 DEF TypeOK, origin
  <1>2. CASE StealLock
    <2>1. thefts' \in Nat
      BY <1>2 DEF StealLock, TypeOK
    <2>2. lock' \in BOOLEAN
      BY <1>2 DEF StealLock
    <2>3. UNCHANGED <<origin, place, work, call, crashes, faults>>
      BY <1>2 DEF StealLock
    <2> QED
      BY <2>1, <2>2, <2>3 DEF TypeOK, origin, place
  <1>3. CASE MakeByHand
    BY <1>3 DEF MakeByHand, TypeOK, origin, damage
  <1>4. CASE Edit
    <2>1. manifest' \in Nat
      BY <1>4 DEF Edit, TypeOK
    <2>2. log' \in Seq(Checkouts) /\ log' # <<>>
      <3>1. CASE UNCHANGED log
        BY <3>1 DEF TypeOK
      <3>2. CASE \E t \in Checkouts : log' = Append(log, t)
        BY <3>2 DEF TypeOK
      <3> QED
        BY <1>4, <3>1, <3>2 DEF Edit
    <2> QED
      BY <1>4, <2>1, <2>2 DEF Edit, TypeOK, place, damage
  <1>5. CASE UNCHANGED vars
    BY <1>5 DEF vars, TypeOK, origin, place, damage
  <1> QED
    BY <1>1, <1>2, <1>3, <1>4, <1>5 DEF Next

LEMMA InitTyped == Init => TypeOK
  <1> SUFFICES ASSUME Init
               PROVE  TypeOK
    OBVIOUS
  <1>1. log \in Seq(Checkouts) /\ log # <<>> /\ tree \in Trees
    BY DEF Init, Bare, Trees
  <1>2. lock \in BOOLEAN
    BY DEF Init
  <1>3. work \subseteq Stagers /\ target \in Stagers \union {Stranger, Nothing}
    BY DEF Init
  <1>4. call \in [Stagers -> Calls]
    BY IdleTyped DEF Init
  <1>5. manifest \in Nat /\ crashes \in Nat /\ faults \in Nat /\ thefts \in Nat
    BY DEF Init
  <1> QED
    BY <1>1, <1>2, <1>3, <1>4, <1>5 DEF TypeOK

(* The state of stage is well formed at all times.                         *)
THEOREM StageTypeCorrect == Spec => []TypeOK
  BY InitTyped, TypeStep, PTL DEF Spec

-----------------------------------------------------------------------------
(* What is at the target's path is never replaced, lock or no lock: only   *)
(* the rename and a stranger put something there, and only if nothing is.  *)
THEOREM TargetIsFinal == Spec => Path!FirstStays
  <1>1. ASSUME TypeOK, [Next]_vars, target # Nothing
        PROVE  UNCHANGED place
    <2>1. ASSUME NEW c \in Stagers,
                 Begin(c) \/ Step(c) \/ Interrupt(c) \/ IOFailure(c) \/ Crash(c)
          PROVE  UNCHANGED place
      BY <1>1, <2>1
      DEF Begin, Step, ValidateTarget, MakeLock, LockBusy, MakeWork,
          CheckContract, ReadManifest, HashManifest, CopyLeaf, VerifyLeaf, Poll,
          CheckRaced, Publish, RemoveWork, RemoveLock, PrintResult, Interrupt,
          IOFailure, Crash
    <2>2. CASE StealLock \/ MakeByHand \/ Edit \/ UNCHANGED vars
      BY <1>1, <2>2 DEF StealLock, MakeByHand, Edit, vars
    <2> QED
      BY <1>1, <2>1, <2>2 DEF Next
  <1>2. TypeOK /\ [Next]_vars =>
          [target # Nothing => UNCHANGED <<target, tree>>]_<<target, tree>>
    BY <1>1 DEF place
  <1> QED
    BY <1>2, StageTypeCorrect, PTL DEF Spec, Path!FirstStays

-----------------------------------------------------------------------------
(* What is published.                                                      *)

(* Nothing is ever struck from the log.                                    *)
Grows ==
  /\ Len(log) \in Nat /\ Len(log)' \in Nat /\ Len(log) <= Len(log)'
  /\ \A m \in Moments : log'[m] = log[m]

LEMMA LogGrows ==
  ASSUME TypeOK, UNCHANGED log \/ Edit
  PROVE  Grows
  <1>0. log \in Seq(Checkouts) /\ Len(log) \in Nat
    BY DEF TypeOK
  <1>1. CASE UNCHANGED log
    BY <1>0, <1>1 DEF Grows, Moments
  <1>2. ASSUME NEW t \in Checkouts, log' = Append(log, t)
        PROVE  Grows
    BY <1>0, <1>2 DEF Grows, Moments
  <1> QED
    BY <1>1, <1>2 DEF Edit

(* The leaf l had the contents x at one of the moments from i to j.        *)
Was(l, x, i, j) == \E m \in i..j : log[m][l] = x

LEMMA WasStays ==
  ASSUME Grows, NEW l \in Leaves, NEW x, NEW i \in Nat \ {0},
         Was(l, x, i, Len(log))
  PROVE  Was(l, x, i, Len(log))'
  <1>1. PICK m \in i..Len(log) : log[m][l] = x
    BY DEF Was
  <1>2. m \in Moments /\ m \in i..Len(log)'
    BY <1>1 DEF Moments, Grows
  <1>3. log'[m][l] = x
    BY <1>1, <1>2 DEF Grows
  <1> QED
    BY <1>2, <1>3 DEF Was

LEMMA BackStays ==
  ASSUME Grows, NEW i \in Nat \ {0}, CameBack(i)
  PROVE  CameBack(i)'
  <1>a. PICK j \in i..Len(log), l \in Leaves : \E k \in j + 1..Len(log) :
           /\ log[j][l] # Missing /\ log[k][l] # log[j][l]
           /\ \E m \in k + 1..Len(log) : log[m][l] = log[j][l]
    BY DEF CameBack
  <1>b. PICK k \in j + 1..Len(log) :
           /\ log[j][l] # Missing /\ log[k][l] # log[j][l]
           /\ \E m \in k + 1..Len(log) : log[m][l] = log[j][l]
    BY <1>a
  <1>1. PICK m \in k + 1..Len(log) : log[m][l] = log[j][l]
    BY <1>b
  <1>2. j \in Moments /\ k \in Moments /\ m \in Moments
    BY <1>1 DEF Moments, Grows
  <1>3. log'[j] = log[j] /\ log'[k] = log[k] /\ log'[m] = log[m]
    BY <1>2 DEF Grows
  <1>4. /\ j \in i..Len(log)' /\ k \in j + 1..Len(log)'
        /\ m \in k + 1..Len(log)'
    BY <1>1 DEF Grows
  <1> QED
    BY <1>b, <1>1, <1>3, <1>4 DEF CameBack

LEMMA DiskStays ==
  ASSUME Grows
  PROVE  OnDisk \subseteq OnDisk'
  <1>1. ASSUME NEW t \in OnDisk
        PROVE  t \in OnDisk'
    <2>1. PICK m \in Moments : t = log[m]
      BY DEF OnDisk
    <2>2. m \in Moments' /\ log'[m] = t
      BY <2>1 DEF Grows, Moments
    <2>3. Complete(t) /\ Complete(t)'
      BY DEF OnDisk, Complete
    <2> QED
      BY <2>2, <2>3 DEF OnDisk
  <1> QED
    BY <1>1

LEMMA PatchesStay ==
  ASSUME Grows
  PROVE  Patchworks \subseteq Patchworks'
  <1>1. ASSUME NEW t \in Patchworks
        PROVE  t \in Patchworks'
    <2>1. ASSUME NEW l \in Leaves
          PROVE  \E m \in Moments' : log'[m][l] = t[l]
      <3>1. PICK m \in Moments : log[m][l] = t[l]
        BY DEF Patchworks
      <3>2. m \in Moments' /\ log'[m] = log[m]
        BY <3>1 DEF Grows, Moments
      <3> QED
        BY <3>1, <3>2
    <2>2. t \in Trees /\ Complete(t)
      BY DEF Patchworks
    <2> QED
      BY <2>1, <2>2 DEF Patchworks, Complete
  <1> QED
    BY <1>1

LEMMA DiskPatches ==
  ASSUME TypeOK
  PROVE  OnDisk \subseteq Patchworks
  BY SourceTyped DEF OnDisk, Patchworks

LEMMA PublishableStays ==
  ASSUME TypeOK, TypeOK', Grows
  PROVE  Publishable \subseteq Publishable'
  <1>1. CameBack(1) => CameBack(1)'
    BY BackStays
  <1>2. Patchworks \subseteq Patchworks' /\ OnDisk \subseteq OnDisk'
    BY PatchesStay, DiskStays
  <1>3. OnDisk \subseteq Patchworks
    BY DiskPatches
  <1>4. CASE CameBack(1)
    BY <1>1, <1>2, <1>4 DEF Publishable
  <1>5. CASE ~CameBack(1) /\ CameBack(1)'
    BY <1>2, <1>3, <1>5 DEF Publishable
  <1>6. CASE ~CameBack(1) /\ ~CameBack(1)'
    BY <1>2, <1>6 DEF Publishable
  <1> QED
    BY <1>4, <1>5, <1>6

(* A tree each of whose files was in output/ both before and after one     *)
(* moment was all of output/ at that moment, or some file came back.       *)
LEMMA ReadTwice ==
  ASSUME TypeOK, NEW t \in Trees, NEW i \in Moments, NEW m \in i..Len(log),
         \A l \in Leaves : /\ t[l] # Missing
                           /\ Was(l, t[l], i, m) /\ Was(l, t[l], m, Len(log))
  PROVE  t \in Publishable /\ (t \in OnDisk \/ CameBack(i))
  <1>0. /\ Len(log) \in Nat /\ i \in Nat \ {0} /\ i <= Len(log)
        /\ m \in Moments /\ m \in Nat
    BY SourceTyped DEF Moments
  <1>1. t \in Patchworks
    <2>1. ASSUME NEW l \in Leaves
          PROVE  \E j \in Moments : log[j][l] = t[l]
      <3>1. PICK j \in i..m : log[j][l] = t[l]
        BY DEF Was
      <3>2. j \in Moments
        BY <1>0, <3>1 DEF Moments
      <3> QED
        BY <3>1, <3>2
    <2> QED
      BY <2>1 DEF Patchworks, Complete
  <1>2. ASSUME ~CameBack(i), NEW l \in Leaves
        PROVE  log[m][l] = t[l]
    <2>1. PICK j \in i..m : log[j][l] = t[l]
      BY DEF Was
    <2>2. PICK k \in m..Len(log) : log[k][l] = t[l]
      BY DEF Was
    <2>3. SUFFICES ASSUME log[m][l] # t[l]
                   PROVE  FALSE
      OBVIOUS
    <2>4. j # m /\ k # m
      BY <2>1, <2>2, <2>3
    <2>5. j \in i..Len(log) /\ m \in j + 1..Len(log) /\ k \in m + 1..Len(log)
      BY <1>0, <2>1, <2>2, <2>4
    <2>6. /\ log[j][l] # Missing /\ log[m][l] # log[j][l]
          /\ log[k][l] = log[j][l]
      BY <2>1, <2>2, <2>3
    <2>7. CameBack(i)
      BY <2>5, <2>6 DEF CameBack
    <2> QED
      BY <1>2, <2>7
  <1>3. CASE ~CameBack(i)
    <2>1. log[m] \in Trees
      BY <1>0, SourceTyped
    <2>2. t = log[m]
      BY <1>2, <1>3, <2>1 DEF Trees
    <2>3. t \in OnDisk
      BY <1>0, <2>2 DEF OnDisk, Complete
    <2> QED
      BY <1>1, <1>3, <2>3 DEF Publishable
  <1>4. CASE CameBack(i)
    <2>1. PICK j \in i..Len(log), l \in Leaves : \E k \in j + 1..Len(log) :
             /\ log[j][l] # Missing /\ log[k][l] # log[j][l]
             /\ \E n \in k + 1..Len(log) : log[n][l] = log[j][l]
      BY <1>4 DEF CameBack
    <2>2. j \in 1..Len(log)
      BY <1>0, <2>1
    <2>3. CameBack(1)
      BY <2>1, <2>2 DEF CameBack
    <2> QED
      BY <1>1, <1>4, <2>3 DEF Publishable
  <1> QED
    BY <1>3, <1>4

(* While the files are read again, each leaf of the copy was in output/    *)
(* between the beginning of the copy and the moment m, when the first      *)
(* reading was over, and each that was the same so far was there again     *)
(* between m and now.                                                      *)
Between(c, m) ==
  \A l \in Leaves :
    /\ call[c].copy[l] # Missing /\ Was(l, call[c].copy[l], call[c].from, m)
    /\ call[c].same = TRUE /\ l < call[c].at
         => Was(l, call[c].copy[l], m, Len(log))

Early == {"looking", "locking", "busy", "working", "contract", "listing",
          "hashing"}
Ready == {"polling", "raced", "publishing"}

SnapCall(c) ==
  /\ call[c].pc \in Early => call[c].at = 1
  /\ call[c].pc \in {"copying", "verifying"} => call[c].at \in Leaves
  /\ call[c].from \in Moments
  /\ call[c].pc = "copying" =>
       \A l \in Leaves : l < call[c].at =>
         /\ call[c].copy[l] # Missing
         /\ Was(l, call[c].copy[l], call[c].from, Len(log))
  /\ call[c].pc = "verifying" => \E m \in call[c].from..Len(log) : Between(c, m)
  /\ call[c].pc \in Ready =>
       /\ call[c].copy \in Publishable
       /\ call[c].copy \in OnDisk \/ CameBack(call[c].from)

SnapInv ==
  /\ target \in Stagers => tree \in Publishable
  /\ \A c \in Stagers : SnapCall(c)

LEMMA SnapFrame ==
  ASSUME TypeOK, TypeOK', NEW d \in Stagers, SnapCall(d), call'[d] = call[d],
         Grows
  PROVE  SnapCall(d)'
  <1>0. /\ call[d].from \in Moments /\ call[d].from \in Moments'
        /\ call[d].from \in Nat \ {0} /\ Len(log) \in Nat /\ Len(log)' \in Nat
    BY DEF SnapCall, Grows, Moments
  <1>1. ASSUME call[d].pc = "copying"
        PROVE  \A l \in Leaves : l < call[d].at =>
                 /\ call[d].copy[l] # Missing
                 /\ Was(l, call[d].copy[l], call[d].from, Len(log))'
    BY <1>0, <1>1, WasStays DEF SnapCall
  <1>2. ASSUME call[d].pc = "verifying"
        PROVE  \E m \in call[d].from..Len(log)' : Between(d, m)'
    <2>1. PICK m \in call[d].from..Len(log) : Between(d, m)
      BY <1>2 DEF SnapCall
    <2>2. m \in Nat \ {0} /\ m \in Moments /\ m \in call[d].from..Len(log)'
      BY <1>0, <2>1 DEF Grows, Moments
    <2>3. ASSUME NEW l \in Leaves, Was(l, call[d].copy[l], call[d].from, m)
          PROVE  \E k \in call[d].from..m : log'[k][l] = call[d].copy[l]
      <3>1. PICK k \in call[d].from..m : log[k][l] = call[d].copy[l]
        BY <2>3 DEF Was
      <3>2. k \in Moments
        BY <1>0, <2>2, <3>1 DEF Moments
      <3> QED
        BY <3>1, <3>2 DEF Grows
    <2>4. \A l \in Leaves : Was(l, call[d].copy[l], m, Len(log))
             => Was(l, call[d].copy[l], m, Len(log))'
      BY <2>2, WasStays
    <2>5. Between(d, m)'
      BY <2>1, <2>3, <2>4 DEF Between, Was
    <2> QED
      BY <2>2, <2>5
  <1>3. ASSUME call[d].pc \in Ready
        PROVE  /\ call[d].copy \in Publishable'
               /\ call[d].copy \in OnDisk' \/ CameBack(call[d].from)'
    BY <1>0, <1>3, BackStays, DiskStays, PublishableStays DEF SnapCall
  <1> QED
    BY <1>0, <1>1, <1>2, <1>3 DEF SnapCall

(* What is read off the log changes with it only.                          *)
LEMMA LogKeeps ==
  ASSUME UNCHANGED log
  PROVE  /\ Moments' = Moments /\ Publishable' = Publishable
         /\ OnDisk' = OnDisk /\ \A i : CameBack(i)' = CameBack(i)
         /\ \A l, x, i, j : Was(l, x, i, j)' = Was(l, x, i, j)
  BY DEF Moments, Publishable, OnDisk, Patchworks, CameBack, Complete, Was

(* A step that neither reads a leaf nor publishes.                         *)
LEMMA SnapMoves ==
  ASSUME SnapInv, NEW c \in Stagers, NEW pc, NEW code, Moved(c, pc, code),
         pc \notin {"copying", "verifying"},
         pc \in Early => call[c].pc \in Early,
         pc \in Ready => call[c].pc \in Ready,
         UNCHANGED log
  PROVE  SnapCall(c)'
  <1>1. /\ Moments' = Moments /\ Publishable' = Publishable
        /\ OnDisk' = OnDisk
    BY LogKeeps
  <1>2. CASE pc \in Ready
    <2>1. /\ call'[c].copy = call[c].copy /\ call'[c].from = call[c].from
          /\ call'[c].pc = pc
      BY DEF Moved
    <2>2. CameBack(call[c].from) => CameBack(call[c].from)'
      BY <2>1 DEF CameBack
    <2> QED
      BY <1>1, <1>2, <2>1, <2>2 DEF SnapInv, SnapCall, Early, Ready
  <1>3. CASE pc \notin Ready
    BY <1>1, <1>3 DEF SnapInv, SnapCall, Moved
  <1> QED
    BY <1>2, <1>3

LEMMA SnapCopy ==
  ASSUME TypeOK, TypeOK', SnapInv, NEW c \in Stagers, CopyLeaf(c)
  PROVE  SnapCall(c)'
  <1> DEFINE l == call[c].at
             new == [call[c].copy EXCEPT ![l] = source[l]]
  <1>0. /\ call[c] \in Calls /\ source \in Trees /\ SnapCall(c)
        /\ UNCHANGED log /\ call[c].pc = "copying"
        /\ l \in Leaves /\ LeafCount \in Nat \ {0}
        /\ Len(log) \in Nat /\ call[c].from \in Moments
        /\ call[c].from \in 1..Len(log)
    BY StageAssumption, SourceTyped
    DEF TypeOK, CopyLeaf, origin, SnapInv, SnapCall, At, Moments
  <1>1. CASE Moved(c, "unwork", "data")
    BY <1>0, <1>1, SnapMoves DEF Early, Ready
  <1>2. ASSUME source[l] # Missing, NEW k \in Leaves, k <= l
        PROVE  new[k] # Missing /\ Was(k, new[k], call[c].from, Len(log))
    <2>1. CASE k = l
      <3>1. new[k] = log[Len(log)][l]
        BY <1>0, <2>1 DEF Calls, Trees, source
      <3>2. Len(log) \in call[c].from..Len(log)
        BY <1>0
      <3> QED
        BY <1>2, <2>1, <3>1, <3>2 DEF Was, source
    <2>2. CASE k # l
      <3>1. new[k] = call[c].copy[k]
        BY <1>0, <2>2 DEF Calls, Trees
      <3>2. k < l
        BY <1>2, <2>2, <1>0 DEF Leaves
      <3> QED
        BY <1>0, <3>1, <3>2 DEF SnapCall
    <2> QED
      BY <2>1, <2>2
  <1>3. CASE /\ l = LeafCount /\ source[l] # Missing
             /\ Scanned(c, "verifying", 1, new, call[c].same)
    <2>1. /\ call'[c].pc = "verifying" /\ call'[c].at = 1
          /\ call'[c].copy = new /\ call'[c].from = call[c].from
      BY <1>3 DEF Scanned
    <2>2. /\ 1 \in Leaves /\ \A k \in Leaves : ~(k < 1) /\ k <= l
          /\ Len(log) \in call[c].from..Len(log)
      BY <1>0, <1>3 DEF Leaves
    <2>3. \A k \in Leaves : new[k] # Missing
                            /\ Was(k, new[k], call[c].from, Len(log))
      BY <1>2, <1>3, <2>2
    <2>4. Between(c, Len(log))'
      <3> HIDE DEF new
      <3> QED
        BY <1>0, <2>1, <2>2, <2>3 DEF Between, Was
    <2> QED
      BY <1>0, <2>1, <2>2, <2>4 DEF SnapCall, Early, Ready, Moments
  <1>4. CASE /\ l # LeafCount /\ source[l] # Missing
             /\ Scanned(c, "copying", l + 1, new, call[c].same)
    <2>1. /\ call'[c].pc = "copying" /\ call'[c].at = l + 1
          /\ call'[c].copy = new /\ call'[c].from = call[c].from
      BY <1>4 DEF Scanned
    <2>2. l + 1 \in Leaves /\ \A k \in Leaves : k < l + 1 => k <= l
      BY <1>0, <1>4 DEF Leaves
    <2>3. \A k \in Leaves : k < l + 1 =>
            new[k] # Missing /\ Was(k, new[k], call[c].from, Len(log))
      BY <1>2, <1>4, <2>2
    <2> HIDE DEF new
    <2> QED
      BY <1>0, <2>1, <2>2, <2>3 DEF SnapCall, Early, Ready, Moments, Was
  <1> QED
    BY <1>1, <1>3, <1>4, CopySteps

LEMMA SnapVerify ==
  ASSUME TypeOK, TypeOK', SnapInv, NEW c \in Stagers, VerifyLeaf(c)
  PROVE  SnapCall(c)'
  <1> DEFINE l == call[c].at
             t == call[c].copy
             i == call[c].from
  <1>0. /\ call[c] \in Calls /\ t \in Trees /\ SnapCall(c)
        /\ UNCHANGED log /\ call[c].pc = "verifying"
        /\ l \in Leaves /\ LeafCount \in Nat \ {0} /\ l \in Nat
        /\ Len(log) \in Nat /\ i \in Moments /\ i \in 1..Len(log)
    BY StageAssumption, SourceTyped
    DEF TypeOK, VerifyLeaf, origin, SnapInv, SnapCall, At, Calls, Moments
  <1>1. CASE Moved(c, "unwork", "data")
    BY <1>0, <1>1, SnapMoves DEF Early, Ready
  <1>2. PICK m \in i..Len(log) : Between(c, m)
    BY <1>0 DEF SnapCall
  <1>3. ASSUME source[l] = t[l]
        PROVE  Was(l, t[l], m, Len(log))
    <2>1. Len(log) \in m..Len(log)
      BY <1>0, <1>2
    <2> QED
      BY <1>3, <2>1 DEF Was, source
  <1>4. ASSUME NEW same \in BOOLEAN,
               same => call[c].same /\ source[l] = t[l],
               same = TRUE, NEW k \in Leaves, k < l + 1
        PROVE  Was(k, t[k], m, Len(log))
    <2>1. CASE k = l
      BY <1>3, <1>4, <2>1
    <2>2. CASE k # l
      <3>1. k < l
        BY <1>0, <1>4, <2>2 DEF Leaves
      <3>2. call[c].same = TRUE
        BY <1>0, <1>4 DEF Calls
      <3> QED
        BY <1>2, <3>1, <3>2 DEF Between
    <2> QED
      BY <2>1, <2>2
  <1>5. \A k \in Leaves : t[k] # Missing /\ Was(k, t[k], i, m)
    BY <1>2 DEF Between
  <1>6. ASSUME NEW same \in BOOLEAN,
               same => call[c].same /\ source[l] = t[l],
               \/ l = LeafCount /\ same
                  /\ Scanned(c, "polling", l + 1, t, same)
               \/ l # LeafCount
                  /\ Scanned(c, "verifying", l + 1, t, same)
        PROVE  SnapCall(c)'
    <2>1. CASE l = LeafCount /\ same /\ Scanned(c, "polling", l + 1, t, same)
      <3>1. /\ call'[c].pc = "polling" /\ call'[c].copy = t
            /\ call'[c].from = i
        BY <2>1 DEF Scanned
      <3>2. \A k \in Leaves : Was(k, t[k], m, Len(log))
        <4>1. \A k \in Leaves : k < l + 1
          BY <2>1, <1>0 DEF Leaves
        <4> QED
          BY <1>4, <1>6, <2>1, <4>1
      <3>3. t \in Publishable /\ (t \in OnDisk \/ CameBack(i))
        <4> HIDE DEF t, i
        <4> QED
          BY <1>0, <1>2, <1>5, <3>2, ReadTwice
      <3>4. /\ Moments' = Moments /\ Publishable' = Publishable
            /\ OnDisk' = OnDisk /\ \A j : CameBack(j)' = CameBack(j)
        BY <1>0, LogKeeps
      <3> QED
        BY <1>0, <3>1, <3>3, <3>4 DEF SnapCall, Early, Ready
    <2>2. CASE l # LeafCount /\ Scanned(c, "verifying", l + 1, t, same)
      <3>1. /\ call'[c].pc = "verifying" /\ call'[c].copy = t
            /\ call'[c].at = l + 1 /\ call'[c].same = same
            /\ call'[c].from = i
        BY <2>2 DEF Scanned
      <3>2. \A k \in Leaves : same = TRUE /\ k < l + 1
              => Was(k, t[k], m, Len(log))
        BY <1>4, <1>6
      <3>3. Between(c, m)'
        <4> HIDE DEF t, l, i
        <4> QED
          BY <1>0, <1>5, <3>1, <3>2 DEF Between, Was
      <3>4. l + 1 \in Leaves
        BY <1>0, <2>2 DEF Leaves
      <3> QED
        BY <1>0, <1>2, <3>1, <3>3, <3>4 DEF SnapCall, Early, Ready, Moments
    <2> QED
      BY <1>6, <2>1, <2>2
  <1> QED
    BY <1>1, <1>6, VerifySteps

LEMMA SnapStep ==
  ASSUME TypeOK, TypeOK', SnapInv, NEW c \in Stagers, Step(c) \/ Interrupt(c)
  PROVE  SnapCall(c)'
  <1> USE DEF At, Early, Ready
  <1>0. UNCHANGED log
    BY DEF Step, ValidateTarget, MakeLock, LockBusy, MakeWork,
           CheckContract, ReadManifest, HashManifest, CopyLeaf, VerifyLeaf, Poll,
           CheckRaced, Publish, RemoveWork, RemoveLock, PrintResult, Interrupt,
           origin
  <1>a. Moments' = Moments /\ SnapCall(c)
    BY <1>0, LogKeeps DEF SnapInv
  <1>1. CASE ValidateTarget(c) \/ MakeLock(c) \/ LockBusy(c) \/ MakeWork(c)
             \/ CheckContract(c)
    <2>1. call[c].pc \in Early
      BY <1>1 DEF ValidateTarget, MakeLock, LockBusy, MakeWork, CheckContract
    <2> QED
      BY <1>0, <1>1, <2>1, PlainSteps, SnapMoves
  <1>2. CASE Poll(c) \/ CheckRaced(c)
    <2>1. call[c].pc \in Ready
      BY <1>2 DEF Poll, CheckRaced
    <2> QED
      BY <1>0, <1>2, <2>1, PlainSteps, SnapMoves
  <1>3. CASE RemoveWork(c) \/ RemoveLock(c) \/ PrintResult(c) \/ Interrupt(c)
    BY <1>0, <1>3, PlainSteps, SnapMoves
  <1>4. CASE ReadManifest(c)
    <2>1. call'[c].pc = "hashing" /\ call'[c].at = call[c].at
          /\ call'[c].from = call[c].from /\ call[c].pc \in Early
      BY <1>4, NotingSteps DEF Noted, ReadManifest
    <2> QED
      BY <1>a, <2>1 DEF SnapCall
  <1>5. CASE HashManifest(c)
    <2>1. call'[c].pc = "copying" /\ call'[c].at = call[c].at
          /\ call'[c].from = Len(log) /\ call[c].pc \in Early
      BY <1>5, NotingSteps DEF Noted, HashManifest
    <2>2. call'[c].at = 1
      BY <1>a, <2>1 DEF SnapCall
    <2>3. 1 \in Leaves /\ \A l \in Leaves : ~(l < 1)
      BY StageAssumption DEF Leaves
    <2>4. Len(log) \in Moments
      BY SourceTyped
    <2> QED
      BY <1>a, <2>1, <2>2, <2>3, <2>4 DEF SnapCall
  <1>6. CASE CopyLeaf(c)
    BY <1>6, SnapCopy
  <1>7. CASE VerifyLeaf(c)
    BY <1>7, SnapVerify
  <1>8. CASE Publish(c)
    <2>1. call'[c].pc = "unwork" /\ call'[c].from = call[c].from
      BY <1>8, NotingSteps DEF Noted, Moved
    <2> QED
      BY <1>a, <2>1 DEF SnapCall
  <1> QED
    BY <1>1, <1>2, <1>3, <1>4, <1>5, <1>6, <1>7, <1>8 DEF Step

LEMMA SnapKept == TypeOK /\ SnapInv /\ [Next]_vars => SnapInv'
  <1> SUFFICES ASSUME TypeOK, SnapInv, [Next]_vars
               PROVE  SnapInv'
    OBVIOUS
  <1> DEFINE Genuine == target \in Stagers => tree \in Publishable
  <1>0. TypeOK'
    BY TypeStep
  <1>1. ASSUME NEW c \in Stagers, OthersKept(c), SnapCall(c)', UNCHANGED log,
               Genuine'
        PROVE  SnapInv'
    <2>1. ASSUME NEW d \in Stagers
          PROVE  SnapCall(d)'
      BY <1>0, <1>1, LogGrows, SnapFrame DEF SnapInv, OthersKept
    <2> QED
      BY <1>1, <2>1 DEF SnapInv
  <1>2. ASSUME UNCHANGED place, UNCHANGED log
        PROVE  Genuine'
    BY <1>2, LogKeeps DEF place, SnapInv
  <1>3. ASSUME NEW c \in Stagers, Step(c) \/ Interrupt(c)
        PROVE  SnapInv'
    <2>1. UNCHANGED log
      BY <1>3 DEF Step, ValidateTarget, MakeLock, LockBusy, MakeWork,
             CheckContract, ReadManifest, HashManifest, CopyLeaf, VerifyLeaf,
             Poll, CheckRaced, Publish, RemoveWork, RemoveLock, PrintResult,
             Interrupt, origin
    <2>2. OthersKept(c)
      <3>1. CASE \/ ValidateTarget(c) \/ MakeLock(c) \/ LockBusy(c)
                 \/ MakeWork(c) \/ CheckContract(c) \/ Poll(c) \/ CheckRaced(c)
                 \/ RemoveWork(c) \/ RemoveLock(c) \/ PrintResult(c)
                 \/ Interrupt(c)
        BY <3>1, PlainSteps DEF Moved
      <3>2. CASE ReadManifest(c) \/ HashManifest(c) \/ Publish(c)
        BY <3>2, NotingSteps DEF Moved, Noted
      <3>3. CASE CopyLeaf(c)
        BY <3>3, CopySteps DEF Moved, Scanned
      <3>4. CASE VerifyLeaf(c)
        BY <3>4, VerifySteps DEF Moved, Scanned
      <3> QED
        BY <1>3, <3>1, <3>2, <3>3, <3>4 DEF Step
    <2>3. Genuine'
      <3>1. CASE Publish(c)
        <4>1. call[c].copy \in Publishable /\ Publishable' = Publishable
          BY <2>1, <3>1, LogKeeps DEF Publish, At, SnapInv, SnapCall, Ready
        <4> QED
          BY <1>2, <2>1, <3>1, <4>1, NotingSteps
      <3>2. CASE ~Publish(c)
        BY <1>2, <1>3, <2>1, <3>2
        DEF Step, ValidateTarget, MakeLock, LockBusy, MakeWork,
            CheckContract, ReadManifest, HashManifest, CopyLeaf, VerifyLeaf,
            Poll, CheckRaced, RemoveWork, RemoveLock, PrintResult, Interrupt
      <3> QED
        BY <3>1, <3>2
    <2> QED
      BY <1>0, <1>1, <1>3, <2>1, <2>2, <2>3, SnapStep
  <1>4. ASSUME NEW c \in Stagers, IOFailure(c)
        PROVE  SnapInv'
    <2>1. UNCHANGED log /\ UNCHANGED place
      BY <1>4 DEF IOFailure, origin
    <2>2. PICK pc \in {"done", "unlock", "unwork"}, code \in Codes :
             Moved(c, pc, code)
      BY <1>4, FaultSteps, Names
    <2>3. SnapCall(c)'
      BY <2>1, <2>2, SnapMoves DEF Early, Ready
    <2> QED
      BY <1>1, <1>2, <2>1, <2>2, <2>3 DEF Moved
  <1>5. ASSUME NEW c \in Stagers, Crash(c)
        PROVE  SnapInv'
    <2>1. UNCHANGED log /\ UNCHANGED place
      BY <1>5 DEF Crash, origin
    <2>2. Moved(c, "done", "none")
      BY <1>5, ExitMoves, Names DEF Crash
    <2>3. SnapCall(c)'
      BY <2>1, <2>2, SnapMoves DEF Early, Ready
    <2> QED
      BY <1>1, <1>2, <2>1, <2>2, <2>3 DEF Moved
  <1>6. ASSUME NEW c \in Stagers, Begin(c)
        PROVE  SnapInv'
    <2>1. UNCHANGED log /\ UNCHANGED place
      BY <1>6 DEF Begin, origin
    <2>2. 1 \in Moments'
      BY <2>1, LogKeeps, SourceTyped DEF Moments
    <2>3. SnapCall(c)' /\ OthersKept(c)
      BY <1>6, <2>2, BeginMoves DEF SnapCall, Early, Ready
    <2> QED
      BY <1>1, <1>2, <2>1, <2>3
  <1>7. CASE StealLock \/ MakeByHand \/ UNCHANGED vars
    <2>1. UNCHANGED <<log, call>>
      BY <1>7 DEF StealLock, MakeByHand, vars, origin
    <2>2. Genuine'
      BY <1>2, <1>7, <2>1, StageAssumption DEF StealLock, MakeByHand, vars
    <2> QED
      BY <1>0, <2>1, <2>2, LogGrows, SnapFrame DEF SnapInv
  <1>8. CASE Edit
    <2>1. Grows
      BY <1>8, LogGrows
    <2>2. Genuine'
      BY <1>0, <1>8, <2>1, PublishableStays DEF Edit, place, SnapInv
    <2> QED
      BY <1>0, <1>8, <2>1, <2>2, SnapFrame DEF SnapInv, Edit
  <1> QED
    BY <1>3, <1>4, <1>5, <1>6, <1>7, <1>8 DEF Next

LEMMA SnapAlways == Spec => []SnapInv
  <1>1. Init => SnapInv
    <2> SUFFICES ASSUME Init
                 PROVE  SnapInv
      OBVIOUS
    <2>1. ASSUME NEW c \in Stagers
          PROVE  SnapCall(c)
      <3>1. call[c] = Idle
        BY DEF Init
      <3>2. Idle.pc = "done" /\ Idle.from = 1
        BY DEF Idle
      <3>3. 1 \in Moments
        BY InitTyped, SourceTyped DEF Moments
      <3> QED
        BY <3>1, <3>2, <3>3 DEF SnapCall, Early, Ready
    <2> QED
      BY <2>1, StageAssumption DEF Init, SnapInv
  <1> QED
    BY <1>1, StageTypeCorrect, SnapKept, PTL DEF Spec

(* However output/ is edited while any number of calls copy it, a copy     *)
(* that passes the second reading, and a tree that is published, is, file  *)
(* for file, what output/ was at one moment, unless some file got contents *)
(* back that it had before - for a copy, while the call read.              *)
THEOREM PublishedTreesExisted == Spec => []PublishedIsSnapshot
  <1>1. SnapInv => PublishedIsSnapshot
    BY DEF SnapInv, SnapCall, Ready, PublishedIsSnapshot
  <1> QED
    BY <1>1, SnapAlways, PTL

-----------------------------------------------------------------------------
(* The lock, the exit codes and what is left behind.                       *)

(* Without thefts the calls in the locked part are one, and the lock is    *)
(* there as long as one is; without crashes and failures, no longer.       *)
LockHeld ==
  /\ thefts = 0 =>
       /\ \A c \in Stagers : call[c].pc \in Locked => lock = TRUE
       /\ \A c, d \in Stagers :
            call[c].pc \in Locked /\ call[d].pc \in Locked => c = d
  /\ crashes = 0 /\ faults = 0 /\ thefts = 0 /\ lock = TRUE
       => \E c \in Stagers : call[c].pc \in Locked

Ended == {"unwork", "unlock", "printing", "done"}

Clean == {"data", "cantcreate", "locked", "interrupted"}

Copied == {"copying", "verifying", "polling", "raced", "publishing"}

Trouble == faults + thefts > 0

HonestCall(c) ==
  /\ call[c].pc \notin Ended =>
       call[c].published = FALSE /\ call[c].code = "none"
  /\ call[c].pc \in {"unwork", "unlock", "printing"} /\ call[c].code = "none"
       => call[c].published = TRUE
  /\ call[c].pc = "printing" => call[c].code = "none"
  /\ call[c].code = "ok" => call[c].published = TRUE
  /\ call[c].code \in Clean => call[c].published = FALSE
  /\ call[c].published = TRUE => target = c
  /\ call[c].listed <= manifest
  /\ call[c].pc \in Copied \/ call[c].published = TRUE
       => call[c].listed <= call[c].hashed
  /\ call[c].code \in {"rollback_failed", "unavailable"} => Trouble
  /\ c \in work =>
       \/ call[c].pc \in Locked \ {"working", "unlock"}
       \/ call[c].pc \in {"unlock", "done"} /\ call[c].code = "rollback_failed"
       \/ call[c].pc = "done" /\ call[c].code = "none"

HonestInv == LockHeld /\ \A c \in Stagers : HonestCall(c)

LEMMA HonestFrame ==
  ASSUME TypeOK, TypeOK', NEW d \in Stagers, HonestCall(d), call'[d] = call[d],
         manifest <= manifest', target' = target \/ target = Nothing,
         faults <= faults', thefts <= thefts', d \in work' => d \in work
  PROVE  HonestCall(d)'
  <1>1. /\ call[d] \in Calls /\ manifest \in Nat /\ manifest' \in Nat
        /\ faults \in Nat /\ faults' \in Nat /\ thefts \in Nat /\ thefts' \in Nat
    BY DEF TypeOK
  <1>2. call[d].listed \in Nat
    BY <1>1 DEF Calls
  <1>3. call'[d].listed <= manifest'
    BY <1>1, <1>2 DEF HonestCall
  <1>4. ASSUME call[d].code \in {"rollback_failed", "unavailable"}
        PROVE  Trouble'
    <2>1. faults + thefts > 0
      BY <1>4 DEF HonestCall, Trouble
    <2>2. \A a, b, x, y \in Nat : a <= x /\ b <= y /\ a + b > 0 => x + y > 0
      OBVIOUS
    <2> QED
      BY <1>1, <2>1, <2>2, Zenon DEF Trouble
  <1>5. ASSUME call[d].published = TRUE
        PROVE  target' = d
    <2>1. target = d
      BY <1>5 DEF HonestCall
    <2>2. target # Nothing
      BY <2>1, StageAssumption
    <2> QED
      BY <2>1, <2>2
  <1>6. d \in work' =>
          \/ call[d].pc \in Locked \ {"working", "unlock"}
          \/ call[d].pc \in {"unlock", "done"}
             /\ call[d].code = "rollback_failed"
          \/ call[d].pc = "done" /\ call[d].code = "none"
    BY DEF HonestCall
  <1>7. /\ call[d].pc \notin Ended =>
             call[d].published = FALSE /\ call[d].code = "none"
        /\ call[d].pc \in {"unwork", "unlock", "printing"}
           /\ call[d].code = "none" => call[d].published = TRUE
        /\ call[d].pc = "printing" => call[d].code = "none"
        /\ call[d].code = "ok" => call[d].published = TRUE
        /\ call[d].code \in Clean => call[d].published = FALSE
        /\ call[d].pc \in Copied \/ call[d].published = TRUE
             => call[d].listed <= call[d].hashed
    BY DEF HonestCall
  <1> QED
    BY <1>3, <1>4, <1>5, <1>6, <1>7, Zenon DEF HonestCall

LEMMA LockMoves ==
  ASSUME LockHeld, NEW c \in Stagers, OthersKept(c),
         lock' = lock, thefts' = thefts,
         crashes' = 0 /\ faults' = 0 => crashes = 0 /\ faults = 0,
         call'[c].pc \in Locked => call[c].pc \in Locked,
         \/ crashes' # 0 \/ faults' # 0
         \/ call[c].pc \in Locked => call'[c].pc \in Locked
  PROVE  LockHeld'
  <1>1. \A d \in Stagers : call'[d].pc \in Locked => call[d].pc \in Locked
    BY DEF OthersKept
  <1>2. ASSUME crashes' = 0, faults' = 0, thefts' = 0, lock' = TRUE
        PROVE  \E d \in Stagers : call'[d].pc \in Locked
    <2>1. PICK d \in Stagers : call[d].pc \in Locked
      BY <1>2 DEF LockHeld
    <2> QED
      BY <1>2, <2>1 DEF OthersKept
  <1>3. thefts' = 0 =>
          /\ \A e \in Stagers : call'[e].pc \in Locked => lock' = TRUE
          /\ \A e, d \in Stagers :
               call'[e].pc \in Locked /\ call'[d].pc \in Locked => e = d
    BY <1>1 DEF LockHeld
  <1> QED
    BY <1>2, <1>3 DEF LockHeld

LEMMA LockRelease ==
  ASSUME LockHeld, NEW c \in Stagers, OthersKept(c), lock' = FALSE,
         thefts' = thefts, call[c].pc \in Locked, call'[c].pc \notin Locked
  PROVE  LockHeld'
  <1>1. thefts' = 0 => \A d \in Stagers : call'[d].pc \notin Locked
    BY DEF LockHeld, OthersKept
  <1> QED
    BY <1>1 DEF LockHeld

(* A step that moves on, fails or exits.                                   *)
LEMMA HonestMoves ==
  ASSUME NEW c \in Stagers, HonestCall(c), NEW pc, NEW code,
         Moved(c, pc, code),
         target' = target, manifest' = manifest, Trouble => Trouble',
         pc \notin Ended => code = "none" /\ call[c].pc \notin Ended,
         pc \in {"unwork", "unlock", "printing"} /\ code = "none" =>
           /\ call[c].pc \in {"unwork", "unlock", "printing"}
           /\ call[c].code = "none",
         pc = "printing" => code = "none",
         code = "ok" => call[c].code = "ok" \/ call[c].pc = "printing",
         code \in Clean => call[c].code \in Clean \/ call[c].pc \notin Ended,
         pc \in Copied => call[c].pc \in Copied,
         code \in {"rollback_failed", "unavailable"} =>
           Trouble' \/ call[c].code \in {"rollback_failed", "unavailable"},
         c \in work' =>
           \/ pc \in Locked \ {"working", "unlock"}
           \/ pc \in {"unlock", "done"} /\ code = "rollback_failed"
           \/ pc = "done" /\ code = "none"
  PROVE  HonestCall(c)'
  <1>0. /\ call'[c].pc = pc /\ call'[c].code = code
        /\ call'[c].listed = call[c].listed /\ call'[c].hashed = call[c].hashed
        /\ call'[c].published = call[c].published
    BY DEF Moved
  <1>1. /\ pc \notin Ended => call[c].published = FALSE /\ code = "none"
        /\ pc \in {"unwork", "unlock", "printing"} /\ code = "none"
             => call[c].published = TRUE
        /\ code = "ok" => call[c].published = TRUE
        /\ code \in Clean => call[c].published = FALSE
    BY DEF HonestCall
  <1>2. /\ call[c].published = TRUE => target' = c
        /\ call[c].listed <= manifest'
        /\ pc \in Copied \/ call[c].published = TRUE
             => call[c].listed <= call[c].hashed
        /\ code \in {"rollback_failed", "unavailable"} => Trouble'
    BY DEF HonestCall
  <1> QED
    BY <1>0, <1>1, <1>2 DEF HonestCall

LEMMA HonestStep ==
  ASSUME TypeOK, TypeOK', HonestInv, NEW c \in Stagers, Step(c) \/ Interrupt(c)
  PROVE  HonestCall(c)' /\ LockHeld' /\ OthersKept(c)
         /\ manifest' = manifest /\ (target' = target \/ target = Nothing)
         /\ UNCHANGED damage /\ \A d \in Stagers \ {c} : d \in work' => d \in work
  <1> USE DEF At, Ended, Clean, Copied
  <1>0. /\ HonestCall(c) /\ LockHeld
        /\ call[c] \in Calls /\ call[c].pc \in Pcs /\ call[c].code \in Codes
    BY DEF HonestInv, TypeOK, Calls
  <1>1. UNCHANGED damage /\ UNCHANGED origin
    BY DEF Step, ValidateTarget, MakeLock, LockBusy, MakeWork,
           CheckContract, ReadManifest, HashManifest, CopyLeaf, VerifyLeaf, Poll,
           CheckRaced, Publish, RemoveWork, RemoveLock, PrintResult, Interrupt
  <1>2. manifest' = manifest /\ Trouble = Trouble' /\ crashes' = crashes
        /\ faults' = faults /\ thefts' = thefts
    BY <1>1 DEF damage, origin, Trouble
  <1>3. CASE ValidateTarget(c) \/ LockBusy(c) \/ CheckContract(c) \/ Poll(c)
             \/ CheckRaced(c) \/ PrintResult(c) \/ Interrupt(c)
    <2>1. UNCHANGED <<place, lock, work>>
      BY <1>3 DEF ValidateTarget, LockBusy, CheckContract, Poll, CheckRaced,
                  PrintResult, Interrupt
    <2>2. PICK pc, code : Moved(c, pc, code)
                /\ \/ call[c].pc = "looking" /\ pc = "locking"
                      /\ code = call[c].code
                   \/ call[c].pc \in {"looking", "busy"} /\ pc = "done"
                      /\ code \in {"cantcreate", "locked"}
                   \/ call[c].pc = "contract" /\ pc = "listing"
                      /\ code = call[c].code
                   \/ call[c].pc = "polling" /\ pc = "raced"
                      /\ code = call[c].code
                   \/ call[c].pc = "raced" /\ pc = "publishing"
                      /\ code = call[c].code
                   \/ call[c].pc \in {"contract", "polling", "raced"}
                      /\ pc = "unwork"
                      /\ code \in {"data", "cantcreate", "interrupted"}
                   \/ call[c].pc = "printing" /\ pc = "done" /\ code = "ok"
      BY <1>3, PlainSteps DEF ValidateTarget, LockBusy, CheckContract, Poll,
              CheckRaced, PrintResult, Interrupt, Polled
    <2>3. call'[c].pc = pc /\ OthersKept(c)
      BY <2>2 DEF Moved
    <2>4. LockHeld'
      BY <1>0, <1>2, <2>1, <2>2, <2>3, LockMoves DEF Locked
    <2>5. c \in work' => pc \in Locked \ {"working", "unlock"}
      BY <1>0, <2>1, <2>2 DEF HonestCall, Locked
    <2>6. pc \notin Ended => code = "none"
      BY <1>0, <2>2 DEF HonestCall
    <2>7. HonestCall(c)'
      BY <1>0, <1>2, <2>1, <2>2, <2>5, <2>6, HonestMoves DEF place
    <2> QED
      BY <1>1, <1>2, <2>1, <2>3, <2>4, <2>7 DEF place
  <1>4. CASE MakeLock(c)
    <2>1. /\ UNCHANGED <<place, work>> /\ call[c].pc = "locking" /\ lock' = TRUE
          /\ call[c].code = "none"
      BY <1>0, <1>4 DEF MakeLock, HonestCall
    <2>2. c \notin work'
      BY <1>0, <2>1 DEF HonestCall, Locked
    <2>3. CASE lock
      <3>1. Moved(c, "busy", "none")
        BY <1>4, <2>1, <2>3, PlainSteps
      <3>2. HonestCall(c)'
        BY <1>0, <1>2, <2>1, <2>2, <3>1, HonestMoves DEF place
      <3>3. lock' = lock
        BY <2>1, <2>3 DEF TypeOK
      <3>4. LockHeld'
        BY <1>0, <1>2, <2>1, <3>1, <3>3, LockMoves DEF Moved, Locked
      <3> QED
        BY <1>1, <1>2, <2>1, <3>1, <3>2, <3>4 DEF place, Moved
    <2>4. CASE ~lock
      <3>1. Moved(c, "working", "none")
        BY <1>4, <2>1, <2>4, PlainSteps
      <3>2. HonestCall(c)'
        BY <1>0, <1>2, <2>1, <2>2, <3>1, HonestMoves DEF place
      <3>3. thefts = 0 => \A d \in Stagers : call[d].pc \notin Locked
        BY <1>0, <2>4 DEF LockHeld
      <3>4. call'[c].pc \in Locked /\ OthersKept(c)
        BY <3>1 DEF Moved, Locked
      <3>5. LockHeld'
        BY <1>2, <2>1, <3>3, <3>4 DEF LockHeld, OthersKept
      <3> QED
        BY <1>1, <1>2, <2>1, <3>2, <3>4, <3>5 DEF place
    <2> QED
      BY <2>3, <2>4
  <1>5. CASE MakeWork(c) \/ RemoveWork(c)
    <2>1. UNCHANGED <<place, lock>>
          /\ \A d \in Stagers \ {c} : d \in work' => d \in work
      BY <1>5 DEF MakeWork, RemoveWork
    <2>2. PICK pc \in {"contract", "unlock"} :
            /\ Moved(c, pc, call[c].code)
            /\ pc = "contract" => call[c].pc = "working"
            /\ pc = "unlock" => call[c].pc = "unwork" /\ c \notin work'
      BY <1>5, PlainSteps DEF MakeWork, RemoveWork
    <2>3. call'[c].pc = pc /\ OthersKept(c)
      BY <2>2 DEF Moved
    <2>4. LockHeld'
      BY <1>0, <1>2, <2>1, <2>2, <2>3, LockMoves DEF Locked
    <2>5. pc \notin Ended => call[c].code = "none"
      BY <1>0, <2>2 DEF HonestCall
    <2>6. HonestCall(c)'
      BY <1>0, <1>2, <2>1, <2>2, <2>5, HonestMoves DEF place, Locked
    <2> QED
      BY <1>1, <1>2, <2>1, <2>3, <2>4, <2>6 DEF place
  <1>6. CASE ReadManifest(c) \/ HashManifest(c)
    <2>1. UNCHANGED <<place, lock, work>>
      BY <1>6 DEF ReadManifest, HashManifest
    <2>2. /\ call[c].pc \in {"listing", "hashing"}
          /\ call[c].published = FALSE /\ call[c].code = "none"
          /\ call[c].listed <= manifest /\ manifest \in Nat
          /\ call[c].listed \in Nat
      BY <1>0, <1>6 DEF ReadManifest, HashManifest, HonestCall, TypeOK, Calls
    <2>3. /\ call'[c].pc \in {"hashing", "copying"} /\ OthersKept(c)
          /\ call'[c].published = FALSE /\ call'[c].code = "none"
          /\ call'[c].listed <= manifest
          /\ call'[c].pc = "copying" => call'[c].listed <= call'[c].hashed
      <3>1. CASE ReadManifest(c)
        <4>1. /\ call'[c].pc = "hashing" /\ OthersKept(c)
              /\ call'[c].published = call[c].published
              /\ call'[c].code = call[c].code /\ call'[c].listed = manifest
          BY <3>1, NotingSteps DEF Noted
        <4> QED
          BY <2>2, <4>1
      <3>2. CASE HashManifest(c)
        BY <2>2, <3>2, NotingSteps DEF Noted
      <3> QED
        BY <1>6, <3>1, <3>2
    <2>4. LockHeld'
      BY <1>0, <1>2, <2>1, <2>2, <2>3, LockMoves DEF Locked
    <2>5. HonestCall(c)'
      BY <1>2, <2>3 DEF HonestCall, Locked
    <2> QED
      BY <1>1, <1>2, <2>1, <2>3, <2>4, <2>5 DEF place
  <1>7. CASE CopyLeaf(c) \/ VerifyLeaf(c)
    <2>1. UNCHANGED <<place, lock, work>>
      BY <1>7 DEF CopyLeaf, VerifyLeaf
    <2>2. /\ call[c].pc \in {"copying", "verifying"}
          /\ call[c].published = FALSE /\ call[c].code = "none"
      BY <1>0, <1>7 DEF CopyLeaf, VerifyLeaf, HonestCall
    <2>3. CASE Moved(c, "unwork", "data")
      <3>1. LockHeld'
        BY <1>0, <1>2, <2>1, <2>2, <2>3, LockMoves DEF Locked, Moved
      <3>2. HonestCall(c)'
        BY <1>0, <1>2, <2>1, <2>2, <2>3, HonestMoves DEF place, Locked
      <3> QED
        BY <1>1, <1>2, <2>1, <2>3, <3>1, <3>2 DEF place, Moved
    <2>4. CASE ~Moved(c, "unwork", "data")
      <3>0. PICK pc \in {"copying", "verifying", "polling"} :
              \E at, copy, same : Scanned(c, pc, at, copy, same)
        <4>1. CASE CopyLeaf(c)
          BY <2>4, <4>1, CopySteps
        <4>2. CASE VerifyLeaf(c)
          BY <2>4, <4>2, VerifySteps
        <4> QED
          BY <1>7, <4>1, <4>2
      <3>1. PICK at, copy, same : Scanned(c, pc, at, copy, same)
        BY <3>0
      <3>2. /\ call'[c].pc \in {"copying", "verifying", "polling"}
            /\ call'[c].listed = call[c].listed
            /\ call'[c].hashed = call[c].hashed
            /\ call'[c].published = FALSE /\ call'[c].code = "none"
            /\ OthersKept(c)
        BY <2>2, <3>1 DEF Scanned
      <3>3. LockHeld'
        BY <1>0, <1>2, <2>1, <2>2, <3>2, LockMoves DEF Locked
      <3>4. call[c].listed <= manifest /\ call[c].listed <= call[c].hashed
        BY <1>0, <2>2 DEF HonestCall
      <3>5. HonestCall(c)'
        BY <1>2, <3>2, <3>4 DEF HonestCall, Locked
      <3> QED
        BY <1>1, <1>2, <2>1, <3>2, <3>3, <3>5 DEF place
    <2> QED
      BY <2>3, <2>4
  <1>8. CASE Publish(c)
    <2>1. UNCHANGED <<lock, work>> /\ call[c].pc = "publishing"
      BY <1>8 DEF Publish
    <2>2. /\ call[c].code = "none"
          /\ call[c].listed <= manifest /\ call[c].listed <= call[c].hashed
      BY <1>0, <2>1 DEF HonestCall
    <2>3. CASE target = Nothing /\ target' = c /\ tree' = call[c].copy
               /\ Noted(c, "unwork", call[c].listed, call[c].hashed,
                          call[c].from, TRUE)
      <3>1. /\ call'[c].pc = "unwork" /\ call'[c].listed = call[c].listed
            /\ call'[c].hashed = call[c].hashed /\ target' = c
            /\ call'[c].published = TRUE /\ call'[c].code = "none"
            /\ OthersKept(c) /\ target = Nothing
        BY <2>2, <2>3 DEF Noted
      <3>2. LockHeld'
        BY <1>0, <1>2, <2>1, <3>1, LockMoves DEF Locked
      <3>3. HonestCall(c)'
        BY <1>2, <2>2, <3>1 DEF HonestCall, Locked
      <3> QED
        BY <1>1, <1>2, <2>1, <3>1, <3>2, <3>3
    <2>4. CASE UNCHANGED place /\ Moved(c, "unwork", "cantcreate")
      <3>1. LockHeld'
        BY <1>0, <1>2, <2>1, <2>4, LockMoves DEF Locked, Moved
      <3>2. HonestCall(c)'
        BY <1>0, <1>2, <2>1, <2>2, <2>4, HonestMoves DEF place, Locked
      <3> QED
        BY <1>1, <1>2, <2>1, <2>4, <3>1, <3>2 DEF place, Moved
    <2> QED
      BY <1>8, <2>3, <2>4, NotingSteps
  <1>9. CASE RemoveLock(c)
    <2>1. UNCHANGED <<place, work>> /\ call[c].pc = "unlock" /\ lock' = FALSE
      BY <1>9 DEF RemoveLock
    <2>3. ~lock => thefts > 0 /\ Trouble'
      <3>1. ~lock => thefts # 0
        BY <1>0, <2>1 DEF LockHeld, Locked
      <3>2. thefts \in Nat /\ faults \in Nat
        BY DEF TypeOK
      <3>3. thefts # 0 => thefts > 0 /\ Trouble
        BY <3>2 DEF Trouble
      <3> QED
        BY <1>2, <3>1, <3>3
    <2>4. c \in work' => call[c].code = "rollback_failed"
      BY <1>0, <2>1 DEF HonestCall, Locked
    <2>5. PICK pc, code :
            /\ pc \in {"done", "printing"} /\ Moved(c, pc, code)
            /\ \/ ~lock /\ pc = "done" /\ code = "rollback_failed"
               \/ pc = "printing" /\ code = "none" /\ call[c].code = "none"
               \/ pc = "done" /\ code = call[c].code /\ code # "none"
      BY <1>9, PlainSteps
    <2>6. LockHeld'
      BY <1>0, <1>2, <2>1, <2>5, LockRelease DEF Moved, Locked
    <2>7. HonestCall(c)'
      BY <1>0, <1>2, <2>1, <2>3, <2>4, <2>5, HonestMoves DEF place
    <2> QED
      BY <1>1, <1>2, <2>1, <2>5, <2>6, <2>7 DEF place, Moved
  <1> QED
    BY <1>3, <1>4, <1>5, <1>6, <1>7, <1>8, <1>9 DEF Step

LEMMA HonestKept == TypeOK /\ HonestInv /\ [Next]_vars => HonestInv'
  <1> SUFFICES ASSUME TypeOK, HonestInv, [Next]_vars
               PROVE  HonestInv'
    OBVIOUS
  <1> USE DEF At, Ended, Clean, Copied
  <1>0. /\ TypeOK' /\ manifest \in Nat /\ crashes \in Nat /\ faults \in Nat
        /\ thefts \in Nat /\ crashes' \in Nat /\ faults' \in Nat
        /\ thefts' \in Nat /\ manifest' \in Nat
    BY TypeStep DEF TypeOK
  <1>1. ASSUME NEW c \in Stagers, HonestCall(c)', LockHeld', OthersKept(c),
               manifest' = manifest, target' = target \/ target = Nothing,
               faults <= faults', thefts' = thefts,
               \A d \in Stagers \ {c} : d \in work' => d \in work
        PROVE  HonestInv'
    <2>1. ASSUME NEW d \in Stagers \ {c}
          PROVE  HonestCall(d)'
      <3>1. /\ HonestCall(d) /\ call'[d] = call[d]
            /\ manifest <= manifest' /\ thefts <= thefts'
            /\ d \in work' => d \in work
        BY <1>0, <1>1 DEF HonestInv, OthersKept
      <3> QED
        BY <1>0, <1>1, <3>1, HonestFrame
    <2> QED
      BY <1>1, <2>1 DEF HonestInv
  <1>2. ASSUME NEW c \in Stagers, Step(c) \/ Interrupt(c)
        PROVE  HonestInv'
    <2>1. /\ HonestCall(c)' /\ LockHeld' /\ OthersKept(c)
          /\ manifest' = manifest /\ (target' = target \/ target = Nothing)
          /\ UNCHANGED damage
          /\ \A d \in Stagers \ {c} : d \in work' => d \in work
      BY <1>0, <1>2, HonestStep
    <2>2. faults' = faults /\ thefts' = thefts /\ faults <= faults'
      BY <1>0, <2>1 DEF damage
    <2> QED
      BY <1>1, <2>1, <2>2
  <1>3. ASSUME NEW c \in Stagers, IOFailure(c)
        PROVE  HonestInv'
    <2>1. /\ UNCHANGED <<place, lock, work>> /\ faults' = faults + 1
          /\ manifest' = manifest /\ crashes' = crashes /\ thefts' = thefts
      BY <1>3 DEF IOFailure, origin
    <2>2. faults' # 0 /\ faults <= faults' /\ Trouble'
      BY <1>0, <2>1 DEF Trouble
    <2>3. HonestCall(c) /\ LockHeld
      BY DEF HonestInv
    <2>4. PICK pc, code : Moved(c, pc, code)
            /\ \/ call[c].pc \in {"looking", "locking"} /\ pc = "done"
                  /\ code = "cantcreate"
               \/ call[c].pc = "working" /\ pc = "unlock"
                  /\ code = "cantcreate"
               \/ call[c].pc \in Building /\ pc = "unwork"
                  /\ code \in {"data", "unavailable", "cantcreate"}
               \/ call[c].pc = "unwork" /\ pc = "unlock"
                  /\ code = "rollback_failed"
               \/ call[c].pc = "unlock" /\ pc = "done"
                  /\ code = "rollback_failed"
               \/ call[c].pc = "printing" /\ pc = "done"
                  /\ code = "unavailable"
      BY <1>3, FaultSteps
    <2>5. call'[c].pc = pc /\ OthersKept(c)
      BY <2>4 DEF Moved
    <2>6. LockHeld'
      BY <2>1, <2>2, <2>3, <2>4, <2>5, LockMoves DEF Locked, Building
    <2>7. c \in work' =>
           \/ pc \in Locked \ {"working", "unlock"}
           \/ pc \in {"unlock", "done"} /\ code = "rollback_failed"
           \/ pc = "done" /\ code = "none"
      BY <2>1, <2>3, <2>4 DEF HonestCall, Locked, Building
    <2>8. HonestCall(c)'
      BY <2>1, <2>2, <2>3, <2>4, <2>7, HonestMoves DEF place, Building
    <2> QED
      BY <1>1, <2>1, <2>2, <2>5, <2>6, <2>8 DEF place
  <1>4. ASSUME NEW c \in Stagers, Crash(c)
        PROVE  HonestInv'
    <2>1. /\ UNCHANGED <<place, lock, work>> /\ crashes' = crashes + 1
          /\ manifest' = manifest /\ faults' = faults /\ thefts' = thefts
      BY <1>4 DEF Crash, origin
    <2>2. crashes' # 0 /\ faults <= faults' /\ Trouble' = Trouble
      BY <1>0, <2>1 DEF Trouble
    <2>3. HonestCall(c) /\ LockHeld
      BY DEF HonestInv
    <2>4. Moved(c, "done", "none")
      BY <1>4, ExitMoves, Names DEF Crash
    <2>5. LockHeld'
      BY <2>1, <2>2, <2>3, <2>4, LockMoves DEF Locked, Moved
    <2>6. HonestCall(c)'
      BY <2>1, <2>2, <2>3, <2>4, HonestMoves DEF place
    <2> QED
      BY <1>1, <2>1, <2>2, <2>4, <2>5, <2>6 DEF place, Moved
  <1>5. ASSUME NEW c \in Stagers, Begin(c)
        PROVE  HonestInv'
    <2>1. /\ UNCHANGED <<place, lock, crashes, faults, thefts>>
          /\ manifest' = manifest /\ work' = work \ {c} /\ call[c].pc = "done"
      BY <1>5 DEF Begin, origin, damage
    <2>2. LockHeld
      BY DEF HonestInv
    <2>3. LockHeld'
      BY <1>5, <2>1, <2>2, BeginMoves, LockMoves DEF Locked
    <2>4. 0 <= manifest' /\ faults <= faults'
      BY <1>0, <2>1
    <2>5. HonestCall(c)'
      BY <1>5, <2>1, <2>4, BeginMoves DEF HonestCall
    <2> QED
      BY <1>1, <1>5, <2>1, <2>3, <2>4, <2>5, BeginMoves DEF place
  <1>6. CASE StealLock \/ MakeByHand \/ Edit \/ UNCHANGED vars
    <2>1. /\ UNCHANGED <<work, call, faults, crashes>>
          /\ thefts <= thefts' /\ faults <= faults'
          /\ manifest <= manifest' /\ (target' = target \/ target = Nothing)
      <3>1. CASE StealLock
        BY <1>0, <3>1 DEF StealLock, origin, place
      <3>2. CASE MakeByHand
        BY <1>0, <3>2 DEF MakeByHand, origin, damage
      <3>3. CASE Edit
        BY <1>0, <3>3 DEF Edit, place, damage
      <3>4. CASE UNCHANGED vars
        BY <1>0, <3>4 DEF vars, origin, place, damage
      <3> QED
        BY <1>6, <3>1, <3>2, <3>3, <3>4
    <2>2. ASSUME NEW d \in Stagers
          PROVE  HonestCall(d)'
      BY <1>0, <2>1, <2>2, HonestFrame DEF HonestInv
    <2>3. LockHeld'
      <3>1. CASE StealLock
        <4>1. thefts' # 0
          BY <1>0, <3>1 DEF StealLock
        <4> QED
          BY <4>1 DEF LockHeld
      <3>2. CASE MakeByHand \/ Edit \/ UNCHANGED vars
        BY <2>1, <3>2 DEF MakeByHand, Edit, vars, damage, HonestInv, LockHeld
      <3> QED
        BY <1>6, <3>1, <3>2
    <2> QED
      BY <2>2, <2>3 DEF HonestInv
  <1> QED
    BY <1>2, <1>3, <1>4, <1>5, <1>6 DEF Next

LEMMA HonestAlways == Spec => []HonestInv
  <1>1. Init => HonestInv
    <2> SUFFICES ASSUME Init
                 PROVE  HonestInv
      OBVIOUS
    <2>1. ASSUME NEW c \in Stagers
          PROVE  HonestCall(c) /\ call[c].pc = "done"
      <3>1. /\ call[c].pc = "done" /\ call[c].code = "none"
            /\ call[c].published = FALSE /\ call[c].listed = 0
            /\ call[c].hashed = 0
        BY DEF Init, Idle
      <3>2. manifest = 1 /\ work = {}
        BY DEF Init
      <3> QED
        BY <3>1, <3>2 DEF HonestCall, Ended, Clean, Copied
    <2>2. lock = FALSE
      BY DEF Init
    <2> QED
      BY <2>1, <2>2 DEF HonestInv, LockHeld, Locked
  <1> QED
    BY <1>1, StageTypeCorrect, HonestKept, PTL DEF Spec

(* Exit code 0 names a target this call made, by the manifest whose hash   *)
(* is printed or an older one; 65, 73, 130 and a busy lock mean that it    *)
(* made none; and what hides a target that was made takes a failure or a   *)
(* theft.                                                                  *)
THEOREM StageExitsAreHonest == Spec => []StageExitHonest
  <1>1. ASSUME TypeOK, HonestInv
        PROVE  StageExitHonest
    <2>1. ASSUME NEW c \in Stagers, At(c, "done")
          PROVE  /\ call[c].code = "ok" =>
                      target = c /\ call[c].hashed >= call[c].listed
                 /\ call[c].code \in Clean => ~call[c].published
                 /\ call[c].code \in {"rollback_failed", "unavailable"} =>
                      faults + thefts > 0
      <3>1. HonestCall(c) /\ call[c].hashed \in Nat /\ call[c].listed \in Nat
        BY <1>1 DEF HonestInv, TypeOK, Calls
      <3>2. call[c].code = "ok" =>
              target = c /\ call[c].listed <= call[c].hashed
        BY <3>1 DEF HonestCall
      <3>3. call[c].code \in Clean => ~call[c].published
        BY <3>1 DEF HonestCall
      <3>4. call[c].code \in {"rollback_failed", "unavailable"} =>
              faults + thefts > 0
        BY <3>1, Zenon DEF HonestCall, Trouble
      <3> QED
        BY <3>1, <3>2, <3>3, <3>4
    <2> QED
      BY <2>1 DEF StageExitHonest, Clean
  <1> QED
    BY <1>1, StageTypeCorrect, HonestAlways, PTL

(* A call that was not killed leaves no work directory unless it says so,  *)
(* and, while nothing fails and nobody interferes, no lock.                *)
THEOREM StageCleansUp == Spec => []StageLeavesNothing
  <1>1. ASSUME TypeOK, HonestInv
        PROVE  StageLeavesNothing
    <2>1. ASSUME NEW c \in Stagers, At(c, "done"), c \in work
          PROVE  call[c].code \in {"none", "rollback_failed"}
      BY <1>1, <2>1 DEF HonestInv, HonestCall, At, Locked
    <2>2. ASSUME crashes + faults + thefts = 0, lock
          PROVE  \E c \in Stagers : call[c].pc \in Locked
      <3>1. crashes = 0 /\ faults = 0 /\ thefts = 0
        BY <1>1, <2>2 DEF TypeOK
      <3> QED
        BY <1>1, <2>2, <3>1 DEF HonestInv, LockHeld
    <2> QED
      BY <2>1, <2>2 DEF StageLeavesNothing
  <1> QED
    BY <1>1, StageTypeCorrect, HonestAlways, PTL

-----------------------------------------------------------------------------
(* The target's path is a Publication.                                     *)

Outcomes == [c \in Stagers |-> Outcome(c)]

(* A step of c changes the outcome of no other call.                       *)
LEMMA OutcomesMove ==
  ASSUME NEW c \in Stagers, OthersKept(c)
  PROVE  Outcomes' = [Outcomes EXCEPT ![c] = Outcome(c)']
  <1>1. \A d \in Stagers \ {c} : Outcome(d)' = Outcome(d)
    BY DEF Outcome, At, OthersKept
  <1> QED
    BY <1>1 DEF Outcomes

(* A call goes on or ends without publishing; HonestInv says that it ends  *)
(* with a code that fits.                                                  *)
LEMMA PathOfCall ==
  ASSUME TypeOK, HonestInv', NEW c \in Stagers, OthersKept(c),
         UNCHANGED <<target, tree, log>>, call[c].pc # "done",
         call'[c].published = call[c].published
  PROVE  [Path!Next]_Path!vars
  <1>1. /\ HonestCall(c)' /\ call[c].published \in BOOLEAN
        /\ Outcomes' = [Outcomes EXCEPT ![c] = Outcome(c)']
        /\ Outcomes[c] = Outcome(c)
    BY OutcomesMove DEF HonestInv, TypeOK, Calls, Outcomes
  <1>2. CASE call'[c].pc # "done"
    <2>1. Outcome(c)' = Outcome(c)
      BY <1>2 DEF Outcome, At
    <2>2. Outcomes' = Outcomes
      BY <1>1, <2>1 DEF Outcomes
    <2> QED
      BY <2>2, LogKeeps DEF Path!vars, Outcomes
  <1>3. CASE call'[c].pc = "done"
    <2>1. /\ call'[c].code = "ok" => call'[c].published = TRUE
          /\ call'[c].code \in Clean => call'[c].published = FALSE
      BY <1>1 DEF HonestCall
    <2>2. Outcome(c)' \in {"ok", "refused", "unknown"}
      BY <1>3 DEF Outcome, At
    <2>3. /\ Outcome(c)' = "ok" => call'[c].code = "ok"
          /\ Outcome(c)' = "refused" => call'[c].code \in Clean
      BY <1>3 DEF Outcome, At, Clean
    <2>4. Outcome(c) = IF call[c].published THEN "published" ELSE "running"
      BY DEF Outcome, At
    <2>5. /\ Outcome(c)' = "ok" => Outcome(c) = "published"
          /\ Outcome(c)' = "refused" => Outcome(c) = "running"
      BY <1>1, <2>1, <2>3, <2>4
    <2>6. Outcome(c) \in {"running", "published"}
      BY <2>4
    <2>7. Path!End(c)
      BY <1>1, <2>2, <2>5, <2>6, LogKeeps
      DEF Path!End, Path!Becomes, Path!Running, Outcomes
    <2> QED
      BY <2>7 DEF Path!Next
  <1> QED
    BY <1>2, <1>3

LEMMA PathPublish ==
  ASSUME TypeOK, HonestInv, SnapInv, NEW c \in Stagers, Publish(c),
         target = Nothing /\ target' = c /\ tree' = call[c].copy
           /\ Noted(c, "unwork", call[c].listed, call[c].hashed,
                          call[c].from, TRUE)
  PROVE  Path!Publish(c)
  <1>1. /\ call[c].pc = "publishing" /\ UNCHANGED log
        /\ call'[c].pc = "unwork" /\ call'[c].published = TRUE /\ OthersKept(c)
    BY DEF Publish, At, Noted, origin
  <1>2. tree' \in Publishable /\ Publishable' = Publishable
    BY <1>1, LogKeeps DEF SnapInv, SnapCall, Ready
  <1>3. call[c].published = FALSE
    BY <1>1 DEF HonestInv, HonestCall, Ended
  <1>4. Outcomes[c] = "running" /\ Outcome(c)' = "published"
    BY <1>1, <1>3 DEF Outcome, Outcomes, At
  <1>5. Outcomes' = [Outcomes EXCEPT ![c] = "published"]
    BY <1>1, <1>4, OutcomesMove
  <1> QED
    BY <1>1, <1>2, <1>4, <1>5 DEF Path!Publish, Path!Becomes, Outcomes

(* The other steps of a call.                                              *)
LEMMA StepsOfCalls ==
  ASSUME TypeOK, NEW c \in Stagers,
         (Step(c) /\ ~Publish(c)) \/ Interrupt(c) \/ IOFailure(c) \/ Crash(c)
  PROVE  /\ OthersKept(c) /\ UNCHANGED <<target, tree, log>>
         /\ call[c].pc # "done" /\ call'[c].published = call[c].published
  <1> DEFINE Kept == OthersKept(c) /\ call'[c].published = call[c].published
  <1> USE DEF At
  <1>1. /\ \A pc, code : Moved(c, pc, code) => Kept
        /\ \A pc, listed, hashed, from :
             Noted(c, pc, listed, hashed, from, call[c].published) => Kept
        /\ \A pc, at, copy, same : Scanned(c, pc, at, copy, same) => Kept
    BY DEF Moved, Noted, Scanned
  <1>2. UNCHANGED <<target, tree, log>>
    BY DEF Step, ValidateTarget, MakeLock, LockBusy, MakeWork, CheckContract,
           ReadManifest, HashManifest, CopyLeaf, VerifyLeaf, Poll, CheckRaced,
           RemoveWork, RemoveLock, PrintResult, Interrupt, IOFailure, Crash,
           place, origin
  <1> HIDE DEF Kept
  <1>3. CASE ValidateTarget(c) \/ MakeLock(c) \/ LockBusy(c) \/ MakeWork(c)
             \/ CheckContract(c) \/ Poll(c) \/ Interrupt(c) \/ CheckRaced(c)
             \/ RemoveWork(c) \/ RemoveLock(c) \/ PrintResult(c)
    <2>1. Kept
      BY <1>1, <1>3, PlainSteps
    <2>2. call[c].pc # "done"
      BY <1>3
      DEF ValidateTarget, MakeLock, LockBusy, MakeWork, CheckContract, Poll,
          Interrupt, Polled, CheckRaced, RemoveWork, RemoveLock, PrintResult
    <2> QED
      BY <1>2, <2>1, <2>2 DEF Kept
  <1>4. CASE ReadManifest(c) \/ HashManifest(c)
    <2>1. Kept
      <3>1. CASE ReadManifest(c)
        BY <1>1, <3>1, NotingSteps
      <3>2. CASE HashManifest(c)
        <4>1. Noted(c, "copying", call[c].listed, manifest, Len(log),
                    call[c].published)
          BY <3>2, NotingSteps
        <4> QED
          BY <1>1, <4>1
      <3> QED
        BY <1>4, <3>1, <3>2
    <2> QED
      BY <1>2, <1>4, <2>1 DEF Kept, ReadManifest, HashManifest
  <1>5. CASE CopyLeaf(c)
    <2>1. Kept
      BY <1>1, <1>5, CopySteps
    <2> QED
      BY <1>2, <1>5, <2>1 DEF Kept, CopyLeaf
  <1>6. CASE VerifyLeaf(c)
    <2>1. Kept
      BY <1>1, <1>6, VerifySteps
    <2> QED
      BY <1>2, <1>6, <2>1 DEF Kept, VerifyLeaf
  <1>7. CASE IOFailure(c)
    <2>1. Kept /\ call[c].pc # "done"
      BY <1>1, <1>7, FaultSteps DEF Building
    <2> QED
      BY <1>2, <2>1 DEF Kept
  <1>8. CASE Crash(c)
    <2>1. Moved(c, "done", "none")
      BY <1>8, ExitMoves, Names DEF Crash
    <2> QED
      BY <1>1, <1>2, <1>8, <2>1 DEF Kept, Crash
  <1> QED
    BY <1>3, <1>4, <1>5, <1>6, <1>7, <1>8 DEF Step

LEMMA PathStep ==
  ASSUME TypeOK, HonestInv, HonestInv', SnapInv, [Next]_vars
  PROVE  [Path!Next]_Path!vars
  <1>1. ASSUME NEW c \in Stagers, Publish(c)
        PROVE  [Path!Next]_Path!vars
    <2>1. CASE target = Nothing /\ target' = c /\ tree' = call[c].copy
               /\ Noted(c, "unwork", call[c].listed, call[c].hashed,
                          call[c].from, TRUE)
      BY <1>1, <2>1, PathPublish DEF Path!Next
    <2>2. CASE UNCHANGED place /\ Moved(c, "unwork", "cantcreate")
      <3>1. /\ OthersKept(c) /\ call'[c].published = call[c].published
            /\ UNCHANGED <<target, tree, log>> /\ call[c].pc # "done"
        BY <1>1, <2>2 DEF Moved, Publish, place, origin, At
      <3> QED
        BY <3>1, PathOfCall
    <2> QED
      BY <1>1, <2>1, <2>2, NotingSteps
  <1>2. ASSUME NEW c \in Stagers,
               (Step(c) /\ ~Publish(c)) \/ Interrupt(c) \/ IOFailure(c)
                 \/ Crash(c)
        PROVE  [Path!Next]_Path!vars
    BY <1>2, StepsOfCalls, PathOfCall
  <1>3. ASSUME NEW c \in Stagers, Begin(c)
        PROVE  [Path!Next]_Path!vars
    <2>1. /\ OthersKept(c) /\ UNCHANGED <<target, tree, log>>
          /\ call[c].pc = "done"
          /\ call'[c].pc = "looking" /\ call'[c].published = FALSE
      BY <1>3, BeginMoves DEF Begin, At, place, origin
    <2>2. Outcome(c) \in {"ok", "refused", "unknown"} /\ Outcome(c)' = "running"
      BY <2>1 DEF Outcome, At
    <2>3. /\ Outcomes' = [Outcomes EXCEPT ![c] = "running"]
          /\ Outcomes[c] = Outcome(c)
      BY <2>1, <2>2, OutcomesMove DEF Outcomes
    <2>4. Path!Begin(c)
      BY <2>1, <2>2, <2>3, LogKeeps
      DEF Path!Begin, Path!Becomes, Path!Finished, Outcomes
    <2> QED
      BY <2>4 DEF Path!Next
  <1>4. ASSUME call' = call
        PROVE  Outcomes' = Outcomes
    BY <1>4 DEF Outcomes, Outcome, At
  <1>5. CASE MakeByHand
    BY <1>4, <1>5, LogKeeps
    DEF MakeByHand, origin, Path!Next, Path!Usurp, Outcomes
  <1>6. CASE Edit
    <2>1. Publishable \subseteq Publishable' /\ UNCHANGED <<target, tree, call>>
      BY <1>6, LogGrows, PublishableStays, TypeStep DEF Edit, place
    <2> QED
      BY <1>4, <2>1 DEF Path!Next, Path!Renew, Outcomes
  <1>7. CASE StealLock \/ UNCHANGED vars
    BY <1>4, <1>7, LogKeeps
    DEF StealLock, vars, place, origin, Path!vars, Outcomes
  <1> QED
    BY <1>1, <1>2, <1>3, <1>5, <1>6, <1>7 DEF Next

(* stage, with its lock, its two readings and its cleanup, implements the  *)
(* publication of one directory at one path, for any number of calls,      *)
(* leaves, edits, kills, failures and stolen locks.                        *)
THEOREM StageImplementsPublication == Spec => ImplementsPublication
  <1>1. Init => Path!Init
    BY DEF Init, Path!Init, Outcome, At, Idle
  <1> QED
    BY <1>1, StageTypeCorrect, HonestAlways, SnapAlways, PathStep, PTL
    DEF Spec, ImplementsPublication, Path!Spec

-----------------------------------------------------------------------------
(* Every call ends.                                                        *)

Left(pc, at) ==
  CASE pc = "done"                 -> 0
    [] pc \in {"printing", "busy"} -> 1
    [] pc = "unlock"               -> 2
    [] pc = "unwork"               -> 3
    [] pc = "publishing"           -> 4
    [] pc = "raced"                -> 5
    [] pc = "polling"              -> 6
    [] pc = "verifying"            -> 7 + LeafCount - at
    [] pc = "copying"              -> 7 + 2 * LeafCount - at
    [] pc = "hashing"              -> 7 + 2 * LeafCount
    [] pc = "listing"              -> 8 + 2 * LeafCount
    [] pc = "contract"             -> 9 + 2 * LeafCount
    [] pc = "working"              -> 10 + 2 * LeafCount
    [] pc = "locking"              -> 11 + 2 * LeafCount
    [] pc = "looking"              -> 12 + 2 * LeafCount

StepsLeft(c) == Left(call[c].pc, call[c].at)

(* What a call that runs does or suffers.                                  *)
Goes(c) == Step(c) \/ Interrupt(c) \/ IOFailure(c) \/ Crash(c)

(* Every step of a call leaves it fewer steps, failing ones too, and no    *)
(* step of anybody else gives it more.                                     *)
RunsDown ==
  \A c \in Stagers :
    /\ StepsLeft(c) \in Nat /\ StepsLeft(c) <= 12 + 2 * LeafCount
    /\ Goes(c) => StepsLeft(c)' < StepsLeft(c)
    /\ ~At(c, "done") => StepsLeft(c)' <= StepsLeft(c)

LEMMA LeftRange ==
  ASSUME NEW pc \in Pcs, NEW at \in Nat,
         pc \in {"copying", "verifying"} => at \in Leaves
  PROVE  /\ Left(pc, at) \in Nat /\ Left(pc, at) <= 12 + 2 * LeafCount
         /\ pc # "done" => Left(pc, at) > 0
         /\ pc \in Building => Left(pc, at) > 3
  <1>0. LeafCount \in Nat \ {0}
    BY StageAssumption
  <1>1. CASE pc = "copying"
    <2>1. at \in Nat /\ at <= LeafCount /\ at >= 1
      BY <1>0, <1>1 DEF Leaves
    <2>2. Left(pc, at) = 7 + 2 * LeafCount - at
      BY <1>1 DEF Left
    <2> QED
      BY <1>0, <1>1, <2>1, <2>2
  <1>2. CASE pc = "verifying"
    <2>1. at \in Nat /\ at <= LeafCount /\ at >= 1
      BY <1>0, <1>2 DEF Leaves
    <2>2. Left(pc, at) = 7 + LeafCount - at
      BY <1>2 DEF Left
    <2> QED
      BY <1>0, <1>2, <2>1, <2>2
  <1>3. CASE pc \notin {"copying", "verifying"}
    <2>1. Left(pc, at) \in Nat
      BY <1>0, <1>3, Names DEF Left
    <2>2. Left(pc, at) <= 12 + 2 * LeafCount
      BY <1>0, <1>3, Names DEF Left
    <2>3. pc # "done" => Left(pc, at) > 0
      BY <1>0, <1>3, Names DEF Left
    <2>4. pc \in Building => Left(pc, at) > 3
      BY <1>0, <1>3, Names DEF Left, Building
    <2> QED
      BY <2>1, <2>2, <2>3, <2>4
  <1> QED
    BY <1>1, <1>2, <1>3

(* A step that keeps at.                                                   *)
LEMMA MovingLowers ==
  ASSUME NEW c \in Stagers, NEW pc,
         Left(pc, call[c].at) < Left(call[c].pc, call[c].at)
  PROVE  /\ \A code : Moved(c, pc, code) => StepsLeft(c)' < StepsLeft(c)
         /\ \A listed, hashed, from, published :
              Noted(c, pc, listed, hashed, from, published)
                => StepsLeft(c)' < StepsLeft(c)
  BY DEF Moved, Noted, StepsLeft

LEMMA PlainLowers ==
  ASSUME TypeOK, NEW c \in Stagers,
         \/ ValidateTarget(c) \/ MakeLock(c) \/ LockBusy(c) \/ MakeWork(c)
         \/ CheckContract(c) \/ Poll(c) \/ Interrupt(c) \/ CheckRaced(c)
         \/ RemoveWork(c) \/ RemoveLock(c) \/ PrintResult(c)
  PROVE  StepsLeft(c)' < StepsLeft(c)
  <1> USE DEF At
  <1>0. LeafCount \in Nat
    BY StageAssumption
  <1>1. CASE ValidateTarget(c)
    <2>1. call[c].pc = "looking"
      BY <1>1 DEF ValidateTarget
    <2>2. /\ Left("locking", call[c].at) < Left(call[c].pc, call[c].at)
          /\ Left("done", call[c].at) < Left(call[c].pc, call[c].at)
      BY <1>0, <2>1 DEF Left
    <2> QED
      BY <1>1, <2>2, PlainSteps, MovingLowers
  <1>2. CASE MakeLock(c)
    <2>1. call[c].pc = "locking"
      BY <1>2 DEF MakeLock
    <2>2. /\ Left("busy", call[c].at) < Left(call[c].pc, call[c].at)
          /\ Left("working", call[c].at) < Left(call[c].pc, call[c].at)
      BY <1>0, <2>1 DEF Left
    <2> QED
      BY <1>2, <2>2, PlainSteps, MovingLowers
  <1>3. CASE LockBusy(c)
    <2>1. call[c].pc = "busy"
      BY <1>3 DEF LockBusy
    <2>2. Left("done", call[c].at) < Left(call[c].pc, call[c].at)
      BY <1>0, <2>1 DEF Left
    <2> QED
      BY <1>3, <2>2, PlainSteps, MovingLowers
  <1>4. CASE MakeWork(c)
    <2>1. call[c].pc = "working"
      BY <1>4 DEF MakeWork
    <2>2. Left("contract", call[c].at) < Left(call[c].pc, call[c].at)
      BY <1>0, <2>1 DEF Left
    <2> QED
      BY <1>4, <2>2, PlainSteps, MovingLowers
  <1>5. CASE CheckContract(c)
    <2>1. call[c].pc = "contract"
      BY <1>5 DEF CheckContract
    <2>2. /\ Left("listing", call[c].at) < Left(call[c].pc, call[c].at)
          /\ Left("unwork", call[c].at) < Left(call[c].pc, call[c].at)
      BY <1>0, <2>1 DEF Left
    <2> QED
      BY <1>5, <2>2, PlainSteps, MovingLowers
  <1>6. CASE Poll(c)
    <2>1. call[c].pc = "polling"
      BY <1>6 DEF Poll
    <2>2. Left("raced", call[c].at) < Left(call[c].pc, call[c].at)
      BY <1>0, <2>1 DEF Left
    <2> QED
      BY <1>6, <2>2, PlainSteps, MovingLowers
  <1>7. CASE Interrupt(c)
    <2>1. call[c].pc = "polling"
      BY <1>7 DEF Interrupt, Polled
    <2>2. Left("unwork", call[c].at) < Left(call[c].pc, call[c].at)
      BY <1>0, <2>1 DEF Left
    <2> QED
      BY <1>7, <2>2, PlainSteps, MovingLowers
  <1>8. CASE CheckRaced(c)
    <2>1. call[c].pc = "raced"
      BY <1>8 DEF CheckRaced
    <2>2. /\ Left("publishing", call[c].at) < Left(call[c].pc, call[c].at)
          /\ Left("unwork", call[c].at) < Left(call[c].pc, call[c].at)
      BY <1>0, <2>1 DEF Left
    <2> QED
      BY <1>8, <2>2, PlainSteps, MovingLowers
  <1>9. CASE RemoveWork(c)
    <2>1. call[c].pc = "unwork"
      BY <1>9 DEF RemoveWork
    <2>2. Left("unlock", call[c].at) < Left(call[c].pc, call[c].at)
      BY <1>0, <2>1 DEF Left
    <2> QED
      BY <1>9, <2>2, PlainSteps, MovingLowers
  <1>10. CASE RemoveLock(c)
    <2>1. call[c].pc = "unlock"
      BY <1>10 DEF RemoveLock
    <2>2. /\ Left("printing", call[c].at) < Left(call[c].pc, call[c].at)
          /\ Left("done", call[c].at) < Left(call[c].pc, call[c].at)
      BY <1>0, <2>1 DEF Left
    <2> QED
      BY <1>10, <2>2, PlainSteps, MovingLowers
  <1>11. CASE PrintResult(c)
    <2>1. call[c].pc = "printing"
      BY <1>11 DEF PrintResult
    <2>2. Left("done", call[c].at) < Left(call[c].pc, call[c].at)
      BY <1>0, <2>1 DEF Left
    <2> QED
      BY <1>11, <2>2, PlainSteps, MovingLowers
  <1> QED
    BY <1>1, <1>2, <1>3, <1>4, <1>5, <1>6, <1>7, <1>8, <1>9, <1>10, <1>11

LEMMA NotingLowers ==
  ASSUME TypeOK, SnapInv, NEW c \in Stagers,
         ReadManifest(c) \/ HashManifest(c) \/ Publish(c)
  PROVE  StepsLeft(c)' < StepsLeft(c)
  <1> USE DEF At
  <1>0. LeafCount \in Nat
    BY StageAssumption
  <1>1. CASE ReadManifest(c)
    <2>1. call[c].pc = "listing"
      BY <1>1 DEF ReadManifest
    <2>2. Left("hashing", call[c].at) < Left(call[c].pc, call[c].at)
      BY <1>0, <2>1 DEF Left
    <2> QED
      BY <1>1, <2>2, NotingSteps, MovingLowers
  <1>2. CASE HashManifest(c)
    <2>1. call[c].pc = "hashing" /\ call[c].at = 1
      BY <1>2 DEF HashManifest, SnapInv, SnapCall, Early
    <2>2. Left("copying", call[c].at) < Left(call[c].pc, call[c].at)
      BY <1>0, <2>1 DEF Left
    <2> QED
      BY <1>2, <2>2, NotingSteps, MovingLowers
  <1>3. CASE Publish(c)
    <2>1. call[c].pc = "publishing"
      BY <1>3 DEF Publish
    <2>2. Left("unwork", call[c].at) < Left(call[c].pc, call[c].at)
      BY <1>0, <2>1 DEF Left
    <2> QED
      BY <1>3, <2>2, NotingSteps, MovingLowers
  <1> QED
    BY <1>1, <1>2, <1>3

LEMMA LeafLowers ==
  ASSUME TypeOK, SnapInv, NEW c \in Stagers, CopyLeaf(c) \/ VerifyLeaf(c)
  PROVE  StepsLeft(c)' < StepsLeft(c)
  <1> USE DEF At
  <1> DEFINE l == call[c].at
  <1>0. LeafCount \in Nat \ {0} /\ l \in Nat /\ l >= 1 /\ l <= LeafCount
    <2>1. call[c].pc \in {"copying", "verifying"}
      BY DEF CopyLeaf, VerifyLeaf
    <2>2. l \in Leaves
      BY <2>1 DEF SnapInv, SnapCall
    <2> QED
      BY <2>2, StageAssumption DEF Leaves
  <1>1. \A pc, at, copy, same : Scanned(c, pc, at, copy, same)
          => StepsLeft(c)' = Left(pc, at)
    BY DEF Scanned, StepsLeft
  <1>2. CASE CopyLeaf(c)
    <2>1. StepsLeft(c) = 7 + 2 * LeafCount - l
      BY <1>2 DEF CopyLeaf, StepsLeft, Left
    <2>2. /\ Left("unwork", l) = 3
          /\ Left("verifying", 1) = 6 + LeafCount
          /\ Left("copying", l + 1) = 6 + 2 * LeafCount - l
      BY <1>0 DEF Left
    <2>3. Left("unwork", call[c].at) < Left(call[c].pc, call[c].at)
      BY <1>0, <2>1, <2>2 DEF StepsLeft
    <2>4. CASE \E code : Moved(c, "unwork", code)
      BY <2>3, <2>4, MovingLowers
    <2>5. CASE l = LeafCount /\ StepsLeft(c)' = Left("verifying", 1)
      BY <1>0, <2>1, <2>2, <2>5
    <2>6. CASE StepsLeft(c)' = Left("copying", l + 1)
      BY <1>0, <2>1, <2>2, <2>6
    <2> QED
      BY <1>1, <1>2, <2>4, <2>5, <2>6, CopySteps
  <1>3. CASE VerifyLeaf(c)
    <2>1. StepsLeft(c) = 7 + LeafCount - l
      BY <1>3 DEF VerifyLeaf, StepsLeft, Left
    <2>2. /\ Left("unwork", l) = 3
          /\ Left("polling", l + 1) = 6
          /\ Left("verifying", l + 1) = 6 + LeafCount - l
      BY <1>0 DEF Left
    <2>3. Left("unwork", call[c].at) < Left(call[c].pc, call[c].at)
      BY <1>0, <2>1, <2>2 DEF StepsLeft
    <2>4. CASE \E code : Moved(c, "unwork", code)
      BY <2>3, <2>4, MovingLowers
    <2>5. CASE StepsLeft(c)' = Left("polling", l + 1)
      BY <1>0, <2>1, <2>2, <2>5
    <2>6. CASE StepsLeft(c)' = Left("verifying", l + 1)
      BY <1>0, <2>1, <2>2, <2>6
    <2> QED
      BY <1>1, <1>3, <2>4, <2>5, <2>6, VerifySteps
  <1> QED
    BY <1>2, <1>3

LEMMA AccidentLowers ==
  ASSUME TypeOK, SnapInv, NEW c \in Stagers, IOFailure(c) \/ Crash(c)
  PROVE  StepsLeft(c)' < StepsLeft(c)
  <1> DEFINE Here == Left(call[c].pc, call[c].at)
  <1>0. LeafCount \in Nat
    BY StageAssumption
  <1>1. /\ Here \in Nat
        /\ call[c].pc # "done" => Here > 0
        /\ call[c].pc \in Building => Here > 3
    <2>1. /\ call[c].pc \in Pcs /\ call[c].at \in Nat
          /\ call[c].pc \in {"copying", "verifying"} => call[c].at \in Leaves
      BY DEF TypeOK, Calls, SnapInv, SnapCall
    <2> QED
      BY <2>1, LeftRange
  <1>2. /\ Left("done", call[c].at) = 0
        /\ Left("unlock", call[c].at) = 2
        /\ Left("unwork", call[c].at) = 3
    BY DEF Left
  <1>3. ASSUME NEW code, Moved(c, "done", code), call[c].pc # "done"
        PROVE  StepsLeft(c)' < StepsLeft(c)
    BY <1>1, <1>2, <1>3, MovingLowers
  <1>4. ASSUME NEW code, Moved(c, "unwork", code), call[c].pc \in Building
        PROVE  StepsLeft(c)' < StepsLeft(c)
    BY <1>1, <1>2, <1>4, MovingLowers
  <1>5. ASSUME NEW code, Moved(c, "unlock", code),
               call[c].pc \in {"working", "unwork"}
        PROVE  StepsLeft(c)' < StepsLeft(c)
    <2>1. Left("unlock", call[c].at) < Left(call[c].pc, call[c].at)
      BY <1>0, <1>5 DEF Left
    <2> QED
      BY <1>5, <2>1, MovingLowers
  <1>6. CASE IOFailure(c)
    BY <1>3, <1>4, <1>5, <1>6, FaultSteps
  <1>7. CASE Crash(c)
    <2>1. Moved(c, "done", "none") /\ call[c].pc # "done"
      BY <1>7, ExitMoves, Names DEF Crash, At
    <2> QED
      BY <1>3, <2>1
  <1> QED
    BY <1>6, <1>7

LEMMA OthersKeepCall ==
  ASSUME TypeOK, [Next]_vars, NEW c \in Stagers, ~Goes(c), ~At(c, "done")
  PROVE  call'[c] = call[c]
  <1>1. ASSUME NEW d \in Stagers,
               Begin(d) \/ Step(d) \/ Interrupt(d) \/ IOFailure(d) \/ Crash(d)
        PROVE  call'[c] = call[c]
    <2>1. d # c
      BY <1>1 DEF Goes, Begin
    <2>2. OthersKept(d)
      <3>1. CASE Begin(d)
        BY <3>1, BeginMoves
      <3>2. CASE Publish(d)
        BY <3>2, NotingSteps DEF Noted, Moved
      <3>3. CASE ~Begin(d) /\ ~Publish(d)
        BY <1>1, <3>3, StepsOfCalls
      <3> QED
        BY <3>1, <3>2, <3>3
    <2> QED
      BY <2>1, <2>2 DEF OthersKept
  <1>2. CASE StealLock \/ MakeByHand \/ Edit \/ UNCHANGED vars
    BY <1>2 DEF StealLock, MakeByHand, Edit, vars
  <1> QED
    BY <1>1, <1>2 DEF Next

LEMMA RunningDown ==
  TypeOK /\ TypeOK' /\ SnapInv /\ SnapInv' /\ [Next]_vars => RunsDown
  <1> SUFFICES ASSUME TypeOK, TypeOK', SnapInv, SnapInv', [Next]_vars,
                      NEW c \in Stagers
               PROVE  /\ StepsLeft(c) \in Nat
                      /\ StepsLeft(c) <= 12 + 2 * LeafCount
                      /\ Goes(c) => StepsLeft(c)' < StepsLeft(c)
                      /\ ~At(c, "done") => StepsLeft(c)' <= StepsLeft(c)
    BY DEF RunsDown
  <1>1. /\ StepsLeft(c) \in Nat /\ StepsLeft(c) <= 12 + 2 * LeafCount
        /\ StepsLeft(c)' \in Nat
    <2>1. /\ call[c].pc \in Pcs /\ call[c].at \in Nat
          /\ call[c].pc \in {"copying", "verifying"} => call[c].at \in Leaves
      BY DEF TypeOK, Calls, SnapInv, SnapCall
    <2>2. /\ call'[c].pc \in Pcs /\ call'[c].at \in Nat
          /\ call'[c].pc \in {"copying", "verifying"} => call'[c].at \in Leaves
      BY DEF TypeOK, Calls, SnapInv, SnapCall
    <2> QED
      BY <2>1, <2>2, LeftRange DEF StepsLeft
  <1>2. Goes(c) => StepsLeft(c)' < StepsLeft(c)
    BY PlainLowers, NotingLowers, LeafLowers, AccidentLowers DEF Goes, Step
  <1>3. ~At(c, "done") /\ ~Goes(c) => StepsLeft(c)' = StepsLeft(c)
    BY OthersKeepCall DEF StepsLeft
  <1> QED
    BY <1>1, <1>2, <1>3

(* A stage ends after at most twelve steps of its own and two for each     *)
(* file, however the checkout is edited meanwhile: it never starts its     *)
(* copy or its second reading again.                                       *)
THEOREM StageCallsRunDown == Spec => [][RunsDown]_vars
  BY RunningDown, StageTypeCorrect, SnapAlways, PTL DEF Spec
=============================================================================
