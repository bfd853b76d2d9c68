---------------------------- MODULE MissionStore ----------------------------
(***************************************************************************)
(* One mission directory and the processes that work on it: concurrent     *)
(* "sensai mission checkpoint" and "mission resume" (writers), the         *)
(* lock-free "mission status" (readers), people who write receipts, change *)
(* the analysed sources and, against the instructions, remove or overwrite *)
(* a lock.  The disk is progress.json, status.md, and the lock directory   *)
(* with its owner file.                                                    *)
(*                                                                         *)
(* A call is a sequence of steps, one per read or write of the disk, named *)
(* by the program counter pc.  checkpoint and resume share them; kind says *)
(* where they differ.  Temporary files are not modelled: nothing but the   *)
(* call that made one ever reads it.                                       *)
(*                                                                         *)
(* Operators marked "mistake" are not part of the model.  Each is a        *)
(* plausible slip in the definition that follows it; put in its place, it  *)
(* makes a property fail, which shows that the property watches the code.  *)
(***************************************************************************)
EXTENDS ProgressRules, FiniteSets

CONSTANTS
  Writers,       (* processes that run checkpoint or resume                *)
  Readers,       (* processes that run status                              *)
  Founder,       (* stands for mission init in the hash of revision 1      *)
  Foreigner,     (* token of an owner record none of the writers wrote     *)
  Inputs,        (* digests of the analysed sources                        *)
  Traces,        (* digests of trace.json                                  *)
  BadTraces,     (* the digests of trace files that trace.jq rejects       *)
  Founding,      (* the fingerprints mission init recorded                 *)
  Receipts,      (* the approval receipts people may issue                 *)
  Drafts,        (* what an analyst may put into a candidate               *)
  NoBase, NoOwner, NoPin, NoReceipt,
  MaxRevision,   (* bound: no call starts at or past this revision         *)
  MaxCrashes,    (* bound on killed processes                              *)
  MaxThefts,     (* bound on locks removed or overwritten by hand          *)
  MaxFaults      (* bound on file operations that fail                     *)

Fps     == [inputs : Inputs, trace : Traces]
Receipt == [gate : Gates, verdict : Verdicts, at : Nat, fp : Fps]
Draft   == [phase : Phases, status : Statuses, approvals : SUBSET Receipts]

ASSUME StoreAssumption ==
  /\ Founder \notin Writers /\ Foreigner \notin Writers
  /\ BadTraces \subseteq Traces
  /\ Founding \in Fps
  /\ Receipts \subseteq Receipt
  /\ Drafts \subseteq Draft
  /\ MaxRevision \in Nat
  /\ MaxCrashes \in Nat /\ MaxThefts \in Nat /\ MaxFaults \in Nat
  /\ NoReceipt \notin Receipts
  /\ NoOwner \notin [by : Writers \union {Foreigner}, rev : Nat,
                     sha : Nat \X (Writers \union {Founder})]

(* A file hash names the revision it was made for and its writer; it is    *)
(* compared and never taken apart by the code.                             *)
Shas == Nat \X (Writers \union {Founder})

Docs ==
  [rev : Nat, sha : Shas, base : Shas \union {NoBase}, fp : Fps,
   phase : Phases, status : Statuses, approvals : SUBSET Receipts]

Pins   == [rev : Nat, sha : Shas]
Owners == [by : Writers \union {Foreigner}, rev : Nat, sha : Shas]
Codes  == {"none", "ok", "data", "temporary", "unavailable", "interrupted"}

(* What mission init leaves behind (mission_init.go).                      *)
Genesis ==
  [rev |-> 1, sha |-> <<1, Founder>>, base |-> NoBase, fp |-> Founding,
   phase |-> 0, status |-> "planned", approvals |-> {}]

VARIABLES
  progress,   (* the document in progress.json                             *)
  status,     (* hash of the document status.md was rendered from          *)
  lockDir,    (* the lock directory exists                                 *)
  owner,      (* the owner record in it, or NoOwner                        *)
  world,      (* fingerprints of the sources and trace as they are now     *)
  files,      (* the receipt at each gate's path, or NoReceipt             *)
  issued,     (* history: every receipt a human wrote                      *)
  call,       (* the running or last call of each writer                   *)
  look,       (* the running or last status call of each reader            *)
  crashes, thefts, faults

disk   == <<progress, status, lockDir, owner>>
people == <<world, files, issued>>
damage == <<crashes, thefts, faults>>
vars   == <<disk, people, call, look, damage>>

(* Program counters, in the order a successful call passes them; cleanup   *)
(* leaves from any of them through "failing".                              *)
BeforeCommit == {"locked", "loaded", "pinned", "recorded", "verified",
                 "drafted", "observing", "approving", "staged", "rehashed",
                 "cleared"}
AfterCommit  == {"replaced", "published", "unlinking", "rmdir", "released"}
Pcs == BeforeCommit \union AfterCommit \union {"done", "failing"}

(* mistake: the context is polled once more after the commit               *)
InterruptibleLate == {"locked", "verified", "observing", "approving",
                      "cleared", "replaced"}

(* The steps that poll the context: the ones that run jq or git, the test  *)
(* hook behind the verification, and the last check of all: the lock is    *)
(* verified, the context polled, the file renamed.                         *)
Interruptible == {"locked", "verified", "observing", "approving", "cleared"}

Idle ==
  [pc |-> "done", kind |-> "none", pin |-> NoPin, active |-> Genesis,
   base |-> NoBase, cand |-> Genesis, seen |-> Founding, recorded |-> FALSE,
   committed |-> FALSE, robbed |-> FALSE, code |-> "none", report |-> NoPin]

Calls ==
  [pc : Pcs, kind : {"none", "checkpoint", "resume"}, pin : Pins \union {NoPin},
   active : Docs, base : Shas \union {NoBase}, cand : Docs, seen : Fps,
   recorded : BOOLEAN, committed : BOOLEAN, robbed : BOOLEAN, code : Codes,
   report : Pins \union {NoPin}]

Looks ==
  [pc : {"idle", "read", "hashed", "checked"}, doc : Docs,
   view : {"none", "current", "stale"}]

Unseen == [pc |-> "idle", doc |-> Genesis, view |-> "none"]

TypeOK ==
  /\ progress \in Docs
  /\ status \in Shas
  /\ lockDir \in BOOLEAN
  /\ owner \in Owners \union {NoOwner}
  /\ world \in Fps
  /\ files \in [Gates -> Receipts \union {NoReceipt}]
  /\ issued \subseteq Receipts
  /\ call \in [Writers -> Calls]
  /\ look \in [Readers -> Looks]
  /\ crashes \in Nat /\ thefts \in Nat /\ faults \in Nat

Init ==
  /\ progress = Genesis
  /\ status = Genesis.sha
  /\ lockDir = FALSE
  /\ owner = NoOwner
  /\ world = Founding
  /\ files = [g \in Gates |-> NoReceipt]
  /\ issued = {}
  /\ call = [w \in Writers |-> Idle]
  /\ look = [r \in Readers |-> Unseen]
  /\ crashes = 0 /\ thefts = 0 /\ faults = 0

-----------------------------------------------------------------------------
(* Steps of a call.                                                        *)

Holding(w) == call[w].pc \notin {"done", "released"}

OwnRecord(w) ==
  [by |-> w, rev |-> call[w].active.rev, sha |-> call[w].base]

Verified(w)     == lockDir /\ owner = OwnRecord(w)
OwnerMatches(w) == lockDir /\ owner # NoOwner /\ owner.by = w

Becomes(w, c) == call' = [call EXCEPT ![w] = c]

(* The call is over: only its outcome is left.                             *)
Exit(w, code) ==
  Becomes(w, [Idle EXCEPT !.code = code, !.committed = call[w].committed,
                          !.robbed = call[w].robbed,
                          !.report = call[w].report])

(* An early return: the deferred lock.cleanup() runs next.                 *)
Fail(w, code) ==
  Becomes(w, [Idle EXCEPT !.pc = "failing", !.code = code,
                          !.active = call[w].active, !.base = call[w].base,
                          !.recorded = call[w].recorded,
                          !.committed = call[w].committed,
                          !.robbed = call[w].robbed])

(* The pairs of expected revision and expected hash an analyst may pass:   *)
(* of the file as it is, of its predecessor, the pair the previous call    *)
(* reported; a resume may name none.                                       *)
PinsKnown(w) ==
  {[rev |-> progress.rev, sha |-> progress.sha]}
    \union {[rev |-> progress.rev - 1, sha |-> s] :
              s \in {progress.base} \ {NoBase}}
    \union ({call[w].report} \ {NoPin})

Started(kind, pin) ==
  [Idle EXCEPT !.pc = "locked", !.kind = kind, !.pin = pin]

(* mistake: the lock directory is made as if by mkdir -p                   *)
AcquireLockShared(w) ==
  /\ call[w].pc = "done"
  /\ progress.rev < MaxRevision
  /\ lockDir' = TRUE
  /\ \E pin \in PinsKnown(w) :
       Becomes(w, Started("checkpoint", pin))
  /\ UNCHANGED <<progress, status, owner, people, look, damage>>

AcquireLock(w) ==
  /\ call[w].pc = "done"
  /\ progress.rev < MaxRevision
  /\ ~lockDir
  /\ lockDir' = TRUE
  /\ \E pin \in PinsKnown(w) \union {NoPin} :
       \/ Becomes(w, Started("resume", pin))
       \/ pin # NoPin /\ Becomes(w, Started("checkpoint", pin))
  /\ UNCHANGED <<progress, status, owner, people, look, damage>>

(* mistake: the error of mkdir is returned with no exit code of its own    *)
LockBusyUnmapped(w) ==
  /\ call[w].pc = "done"
  /\ progress.rev < MaxRevision
  /\ lockDir
  /\ Becomes(w, [Idle EXCEPT !.code = "unmapped"])
  /\ UNCHANGED <<disk, people, look, damage>>

(* Mkdir fails: another call holds the lock, or one that died left it.     *)
LockBusy(w) ==
  /\ call[w].pc = "done"
  /\ progress.rev < MaxRevision
  /\ lockDir
  /\ Becomes(w, [Idle EXCEPT !.code = "temporary"])
  /\ UNCHANGED <<disk, people, look, damage>>

LoadActive(w) ==
  /\ call[w].pc = "locked"
  /\ IF world.trace \in BadTraces \/ ~ProgressValid(progress)
     THEN Fail(w, "data")
     ELSE Becomes(w, [call[w] EXCEPT !.pc = "loaded", !.active = progress])
  /\ UNCHANGED <<disk, people, look, damage>>

(* mistake: the expected revision is compared, the expected hash is not    *)
HashActiveByRevision(w) ==
  LET c == call[w] IN
  /\ c.pc = "loaded"
  /\ IF c.pin # NoPin /\ c.pin.rev # c.active.rev
     THEN Fail(w, "temporary")
     ELSE Becomes(w, [call[w] EXCEPT !.pc = "pinned", !.base = progress.sha])
  /\ UNCHANGED <<disk, people, look, damage>>

(* The file is read a second time for its hash.                            *)
HashActive(w) ==
  LET c == call[w] IN
  /\ c.pc = "loaded"
  /\ IF c.pin # NoPin /\ (c.pin.sha # progress.sha \/ c.pin.rev # c.active.rev)
     THEN Fail(w, "temporary")
     ELSE Becomes(w, [call[w] EXCEPT !.pc = "pinned", !.base = progress.sha])
  /\ UNCHANGED <<disk, people, look, damage>>

RecordLock(w) ==
  /\ call[w].pc = "pinned"
  /\ IF lockDir
     THEN /\ owner' = OwnRecord(w)
          /\ Becomes(w, [call[w] EXCEPT !.pc = "recorded", !.recorded = TRUE])
     ELSE /\ Fail(w, "unavailable")
          /\ UNCHANGED owner
  /\ UNCHANGED <<progress, status, lockDir, people, look, damage>>

VerifyLock(w) ==
  /\ call[w].pc = "recorded"
  /\ IF Verified(w)
     THEN Becomes(w, [call[w] EXCEPT !.pc = "verified"])
     ELSE Fail(w, "temporary")
  /\ UNCHANGED <<disk, people, look, damage>>

(* The analyst's file: a draft stamped with the next revision or a wrong   *)
(* one, the pinned hash or an old one, and the fingerprints of the active  *)
(* document or of the sources as they are now.                             *)
Candidates(w) ==
  LET c == call[w] IN
  {[rev |-> rev, sha |-> <<c.active.rev + 1, w>>, base |-> base, fp |-> fp,
    phase |-> d.phase, status |-> d.status, approvals |-> d.approvals] :
     d \in Drafts, rev \in {c.active.rev, c.active.rev + 1},
     base \in {c.base, c.active.base}, fp \in {c.active.fp, world}}

LoadCandidate(w) ==
  /\ call[w].pc = "verified" /\ call[w].kind = "checkpoint"
  /\ \E cand \in Candidates(w) :
       IF ProgressValid(cand)
       THEN Becomes(w, [call[w] EXCEPT !.pc = "drafted", !.cand = cand])
       ELSE Fail(w, "data")
  /\ UNCHANGED <<disk, people, look, damage>>

CheckTerminal(w) ==
  /\ call[w].pc = "verified" /\ call[w].kind = "resume"
  /\ IF call[w].active.status = "completed"
     THEN Fail(w, "data")
     ELSE Becomes(w, [call[w] EXCEPT !.pc = "drafted"])
  /\ UNCHANGED <<disk, people, look, damage>>

(* observe() hashes the sources first and the trace after.                 *)
ObserveInputs(w) ==
  /\ call[w].pc = "drafted"
  /\ Becomes(w, [call[w] EXCEPT !.pc = "observing",
                                !.seen.inputs = world.inputs])
  /\ UNCHANGED <<disk, people, look, damage>>

(* mistake: requireMissionPreconditions is left out                        *)
ObserveTraceUnchecked(w) ==
  /\ call[w].pc = "observing"
  /\ Becomes(w, [call[w] EXCEPT !.pc = "approving", !.seen.trace = world.trace])
  /\ UNCHANGED <<disk, people, look, damage>>

ObserveTrace(w) ==
  LET seen == [call[w].seen EXCEPT !.trace = world.trace] IN
  /\ call[w].pc = "observing"
  /\ IF PreconditionsHold(call[w].active, seen)
     THEN Becomes(w, [call[w] EXCEPT !.pc = "approving", !.seen = seen])
     ELSE Fail(w, "temporary")
  /\ UNCHANGED <<disk, people, look, damage>>

(* The document resume writes: the active one under the next revision.     *)
Renewed(w) ==
  LET c == call[w] IN
  [c.active EXCEPT !.rev = @ + 1, !.sha = <<c.active.rev + 1, w>>,
                   !.base = c.base, !.fp = c.seen]

Proposed(w) == IF call[w].kind = "resume" THEN Renewed(w) ELSE call[w].cand

(* mistake: the candidate is not held against the active document          *)
RejectionUnlinked(w) ==
  IF ReceiptsMatch(Proposed(w), files, call[w].seen) THEN "none" ELSE "data"

(* Approvals, the resume envelope and the transition, in the code's order. *)
Rejection(w) ==
  LET c       == call[w]
      carrier == IF c.kind = "resume" THEN c.active ELSE c.cand
  IN  CASE ~ReceiptsMatch(carrier, files, c.seen) -> "data"
        [] c.kind = "resume"
           /\ ~ResumeValid(c.active, c.base, c.seen, c.active.rev, c.base)
           -> "temporary"
        [] ~TransitionValid(c.active, Proposed(w), c.base, c.seen) -> "data"
        [] OTHER -> "none"

Validate(w) ==
  /\ call[w].pc = "approving"
  /\ IF Rejection(w) = "none"
     THEN Becomes(w, [call[w] EXCEPT !.pc = "staged", !.cand = Proposed(w)])
     ELSE Fail(w, Rejection(w))
  /\ UNCHANGED <<disk, people, look, damage>>

Rehash(w) ==
  /\ call[w].pc = "staged"
  /\ IF progress.sha = call[w].base
     THEN Becomes(w, [call[w] EXCEPT !.pc = "rehashed"])
     ELSE Fail(w, "temporary")
  /\ UNCHANGED <<disk, people, look, damage>>

(* mistake: the owner record is not looked at again before the rename      *)
RecheckNothing(w) ==
  /\ call[w].pc = "rehashed"
  /\ Becomes(w, [call[w] EXCEPT !.pc = "cleared"])
  /\ UNCHANGED <<disk, people, look, damage>>

Recheck(w) ==
  /\ call[w].pc = "rehashed"
  /\ IF Verified(w)
     THEN Becomes(w, [call[w] EXCEPT !.pc = "cleared"])
     ELSE Fail(w, "temporary")
  /\ UNCHANGED <<disk, people, look, damage>>

CommitProgress(w) ==
  /\ call[w].pc = "cleared"
  /\ progress' = call[w].cand
  /\ Becomes(w, [call[w] EXCEPT !.pc = "replaced", !.committed = TRUE])
  /\ UNCHANGED <<status, lockDir, owner, people, look, damage>>

(* mistake: status.md is rendered from the document that was replaced      *)
CommitStatusOfActive(w) ==
  /\ call[w].pc = "replaced"
  /\ status' = call[w].active.sha
  /\ Becomes(w, [call[w] EXCEPT !.pc = "published"])
  /\ UNCHANGED <<progress, lockDir, owner, people, look, damage>>

CommitStatus(w) ==
  /\ call[w].pc = "replaced"
  /\ status' = call[w].cand.sha
  /\ Becomes(w, [call[w] EXCEPT !.pc = "published"])
  /\ UNCHANGED <<progress, lockDir, owner, people, look, damage>>

(* release() refuses a lock whose owner is not this call.                  *)
BeginRelease(w) ==
  /\ call[w].pc = "published"
  /\ IF OwnerMatches(w)
     THEN Becomes(w, [call[w] EXCEPT !.pc = "unlinking"])
     ELSE Fail(w, "unavailable")
  /\ UNCHANGED <<disk, people, look, damage>>

(* The two removals of release() and of cleanup(); code "none" tells that  *)
(* it is release() that runs.  A release that fails is followed by cleanup *)
(* like every other early return.                                          *)
RemovalFailed(w) ==
  IF call[w].code = "none" THEN Fail(w, "unavailable")
                           ELSE Exit(w, "unavailable")

RemoveOwner(w) ==
  /\ call[w].pc = "unlinking"
  /\ IF owner # NoOwner
     THEN /\ owner' = NoOwner
          /\ Becomes(w, [call[w] EXCEPT !.pc = "rmdir"])
     ELSE /\ RemovalFailed(w)
          /\ UNCHANGED owner
  /\ UNCHANGED <<progress, status, lockDir, people, look, damage>>

RemoveDir(w) ==
  /\ call[w].pc = "rmdir"
  /\ IF lockDir /\ owner = NoOwner
     THEN /\ lockDir' = FALSE
          /\ IF call[w].code = "none"
             THEN Becomes(w, [call[w] EXCEPT !.pc = "released"])
             ELSE Exit(w, call[w].code)
     ELSE /\ RemovalFailed(w)
          /\ UNCHANGED lockDir
  /\ UNCHANGED <<progress, status, owner, people, look, damage>>

(* mistake: cleanup gives up a lock it has not recorded yet                *)
CleanupRecorded(w) ==
  /\ call[w].pc = "failing"
  /\ IF call[w].recorded /\ OwnerMatches(w)
     THEN Becomes(w, [call[w] EXCEPT !.pc = "unlinking"])
     ELSE Exit(w, call[w].code)
  /\ UNCHANGED <<disk, people, look, damage>>

(* An unrecorded lock is removed by its path; a recorded one only while    *)
(* the owner file still names this call.                                   *)
Cleanup(w) ==
  /\ call[w].pc = "failing"
  /\ IF ~call[w].recorded
     THEN Becomes(w, [call[w] EXCEPT !.pc = "rmdir"])
     ELSE IF OwnerMatches(w)
          THEN Becomes(w, [call[w] EXCEPT !.pc = "unlinking"])
          ELSE Exit(w, call[w].code)
  /\ UNCHANGED <<disk, people, look, damage>>

(* mistake: the hash of the document that was replaced is printed          *)
ReportOfActive(w) ==
  /\ call[w].pc = "released"
  /\ Becomes(w, [Idle EXCEPT !.code = "ok", !.committed = call[w].committed,
                   !.robbed = call[w].robbed,
                   !.report = [rev |-> call[w].cand.rev, sha |-> call[w].base]])
  /\ UNCHANGED <<disk, people, look, damage>>

(* The hash that is printed is taken after the lock is gone.               *)
Report(w) ==
  /\ call[w].pc = "released"
  /\ Becomes(w, [Idle EXCEPT !.code = "ok", !.committed = call[w].committed,
                   !.robbed = call[w].robbed,
                   !.report = [rev |-> call[w].cand.rev, sha |-> progress.sha]])
  /\ UNCHANGED <<disk, people, look, damage>>

-----------------------------------------------------------------------------
(* What may happen to a call.                                              *)

(* While resume waits for the clock, the interrupt is wrapped into the     *)
(* error of an unavailable clock.                                          *)
InterruptCodes(w) ==
  IF call[w].pc = "approving" /\ call[w].kind = "resume"
  THEN {"interrupted", "unavailable"}
  ELSE {"interrupted"}

Interrupt(w) ==
  /\ call[w].pc \in Interruptible
  /\ \E code \in InterruptCodes(w) : Fail(w, code)
  /\ UNCHANGED <<disk, people, look, damage>>

(* The exit codes of a step whose file operation fails: a document that    *)
(* cannot be read or a tool that cannot be run, an owner record that       *)
(* cannot be read, a file that cannot be written, renamed or hashed.  What *)
(* goes wrong with resume's envelope counts as a lost race.                *)
FaultCodes(w) ==
  CASE call[w].pc = "approving" /\ call[w].kind = "resume"
         -> {"data", "temporary", "unavailable"}
    [] call[w].pc = "approving" /\ call[w].kind # "resume"
         -> {"data", "unavailable"}
    [] call[w].pc \in {"locked", "drafted", "observing"}
         -> {"data", "unavailable"}
    [] call[w].pc = "verified" /\ call[w].kind = "checkpoint"
         -> {"data", "unavailable"}
    [] call[w].pc \in {"recorded", "rehashed"}
         -> {"temporary"}
    [] call[w].pc \in {"loaded", "pinned", "staged", "cleared", "replaced",
                       "published"}
         -> {"unavailable"}
    [] OTHER -> {}

(* A read, a temporary file, a rename or a removal fails.  cleanup() takes *)
(* an owner record it cannot read for another's and leaves the lock.       *)
IOFailure(w) ==
  /\ faults < MaxFaults
  /\ faults' = faults + 1
  /\ \/ \E code \in FaultCodes(w) : Fail(w, code)
     \/ /\ call[w].pc \in {"unlinking", "rmdir"}
        /\ RemovalFailed(w)
     \/ /\ call[w].pc = "released"
        /\ Exit(w, "unavailable")
     \/ /\ call[w].pc = "failing" /\ call[w].recorded
        /\ Exit(w, call[w].code)
  /\ UNCHANGED <<disk, people, look, crashes, thefts>>

(* The process is killed: nothing deferred runs, the lock stays.           *)
Crash(w) ==
  /\ call[w].pc # "done"
  /\ crashes < MaxCrashes
  /\ crashes' = crashes + 1
  /\ Becomes(w, Idle)
  /\ UNCHANGED <<disk, people, look, thefts, faults>>

(* Someone clears the lock of a call that is no longer running.            *)
ClearOrphan ==
  /\ lockDir
  /\ \A w \in Writers : ~Holding(w)
  /\ lockDir' = FALSE
  /\ owner' = NoOwner
  /\ UNCHANGED <<progress, status, people, call, look, damage>>

(* Calls between their owner record and their last check of it: the        *)
(* ones a theft robs.                                                      *)
Guarded == {"recorded", "verified", "drafted", "observing", "approving",
            "staged", "rehashed"}

Rob ==
  call' = [w \in Writers |->
             IF call[w].pc \in Guarded
             THEN [call[w] EXCEPT !.robbed = TRUE] ELSE call[w]]

StealOwner ==
  /\ lockDir
  /\ thefts < MaxThefts
  /\ thefts' = thefts + 1
  /\ owner' = [by |-> Foreigner, rev |-> progress.rev, sha |-> progress.sha]
  /\ Rob
  /\ UNCHANGED <<progress, status, lockDir, people, look, crashes, faults>>

RemoveLockByHand ==
  /\ lockDir
  /\ thefts < MaxThefts
  /\ thefts' = thefts + 1
  /\ lockDir' = FALSE
  /\ owner' = NoOwner
  /\ Rob
  /\ UNCHANGED <<progress, status, people, look, crashes, faults>>

(* A human writes the receipt of a gate, over an earlier one if need be.   *)
WriteReceipt(a) ==
  /\ files' = [files EXCEPT ![a.gate] = a]
  /\ issued' = issued \union {a}
  /\ UNCHANGED <<disk, world, call, look, damage>>

(* The sources or the trace are edited.                                    *)
Drift ==
  /\ world' \in Fps \ {world}
  /\ UNCHANGED <<disk, files, issued, call, look, damage>>

-----------------------------------------------------------------------------
(* mission status takes no lock.                                           *)

ReadProgress(r) ==
  /\ look[r].pc = "idle"
  /\ world.trace \notin BadTraces
  /\ ProgressValid(progress)
  /\ look' = [look EXCEPT ![r] = [Unseen EXCEPT !.pc = "read",
                                                !.doc = progress]]
  /\ UNCHANGED <<disk, people, call, damage>>

(* observe() hashes the sources first and the trace after; sources that do *)
(* not fit end the call either way.                                        *)
LookAtInputs(r) ==
  /\ look[r].pc = "read"
  /\ look' = [look EXCEPT ![r] =
                IF look[r].doc.fp.inputs = world.inputs
                THEN [look[r] EXCEPT !.pc = "hashed"]
                ELSE Unseen]
  /\ UNCHANGED <<disk, people, call, damage>>

CheckWorld(r) ==
  LET seen == [look[r].doc.fp EXCEPT !.trace = world.trace] IN
  /\ look[r].pc = "hashed"
  /\ look' = [look EXCEPT ![r] =
                IF /\ PreconditionsHold(look[r].doc, seen)
                   /\ ReceiptsMatch(look[r].doc, files, seen)
                THEN [look[r] EXCEPT !.pc = "checked"]
                ELSE Unseen]
  /\ UNCHANGED <<disk, people, call, damage>>

(* status.md is current if it is what the document just read renders to.   *)
CompareView(r) ==
  /\ look[r].pc = "checked"
  /\ look' = [look EXCEPT ![r] =
                [Unseen EXCEPT !.view = IF status = look[r].doc.sha
                                        THEN "current" ELSE "stale"]]
  /\ UNCHANGED <<disk, people, call, damage>>

-----------------------------------------------------------------------------

(* What a call does of its own accord.                                     *)
Step(w) ==
  \/ LoadActive(w)     \/ HashActive(w)     \/ RecordLock(w)
  \/ VerifyLock(w)     \/ LoadCandidate(w)  \/ CheckTerminal(w)
  \/ ObserveInputs(w)  \/ ObserveTrace(w)   \/ Validate(w)
  \/ Rehash(w)         \/ Recheck(w)        \/ CommitProgress(w)
  \/ CommitStatus(w)   \/ BeginRelease(w)   \/ RemoveOwner(w)
  \/ RemoveDir(w)      \/ Cleanup(w)        \/ Report(w)

Call(w) ==
  \/ AcquireLock(w)
  \/ LockBusy(w)
  \/ Step(w)
  \/ Interrupt(w)
  \/ IOFailure(w)
  \/ Crash(w)

Look(r) ==
  \/ ReadProgress(r)
  \/ LookAtInputs(r)
  \/ CheckWorld(r)
  \/ CompareView(r)

Outside ==
  \/ ClearOrphan
  \/ StealOwner
  \/ RemoveLockByHand
  \/ \E a \in Receipts : WriteReceipt(a)
  \/ Drift

Next ==
  \/ \E w \in Writers : Call(w)
  \/ \E r \in Readers : Look(r)
  \/ Outside

Spec == Init /\ [][Next]_vars

(* A call that has begun is a running process: its next step is taken.     *)
(* Nothing obliges anyone to start a call, to interrupt one or to remove a *)
(* lock.                                                                   *)
Fairness == \A w \in Writers : WF_vars(Step(w))

FairSpec == Spec /\ Fairness

-----------------------------------------------------------------------------
(* Properties.                                                             *)

Undamaged == crashes + thefts + faults = 0

(* While nobody touches a lock by hand, at most one call is between mkdir  *)
(* and the removal of the lock, however calls crash, fail, are interrupted *)
(* or find the lock of a dead one; from its own record on, the owner file  *)
(* names it.                                                               *)
LockDiscipline ==
  thefts = 0 =>
    /\ \A v, w \in Writers : Holding(v) /\ Holding(w) => v = w
    /\ \A w \in Writers : Holding(w) => lockDir
    /\ \A w \in Writers :
         call[w].pc \in Guarded \union {"cleared", "replaced", "published"}
           => owner = OwnRecord(w)

(* A call that ends by itself, refused, interrupted or done, leaves no     *)
(* lock behind that would refuse every later call.                         *)
NoOrphanLock == Undamaged /\ lockDir => \E w \in Writers : Holding(w)

(* The two renames are not one step, yet status.md lags by at most the     *)
(* commit in flight and never shows a revision that is not there.          *)
StatusTracksProgress ==
  /\ Undamaged => \/ status = progress.sha
                  \/ /\ status = progress.base
                     /\ \E w \in Writers : call[w].pc = "replaced"
  /\ thefts = 0 => status[1] <= progress.rev

(* What the exit code tells about the ledger: success means that this call *)
(* replaced progress.json, and 65, 75 and 130 that it did not.  Only 69 is *)
(* silent, and to hide a commit it takes a failure or a theft.             *)
ExitCodeHonest ==
  \A w \in Writers : call[w].pc = "done" =>
    /\ call[w].code = "ok" => call[w].committed
    /\ call[w].code \in {"data", "temporary", "interrupted"}
         => ~call[w].committed
    /\ call[w].code = "unavailable" /\ call[w].committed
         => faults + thefts > 0

(* The revision and the hash a call prints may be of different documents,  *)
(* since the hash is read after the lock is gone, but the hash is never    *)
(* the older of the two.                                                   *)
ReportNotOlder ==
  \A w \in Writers :
    thefts = 0 /\ call[w].code = "ok"
      => call[w].report.sha[1] >= call[w].report.rev

(* A call whose lock is taken over or removed between its owner record and *)
(* its last look at it commits nothing.                                    *)
RobbedNeverCommits == \A w \in Writers : call[w].robbed => ~call[w].committed

(* Even when locks are stolen, a call that names an expected revision and  *)
(* hash commits nothing but a successor of exactly that pair: not of the   *)
(* document it happened to load, nor of a pair mixed from two documents.   *)
PinnedCommitFollowsBase ==
  \A w \in Writers :
    call[w].pc = "replaced" /\ call[w].pin # NoPin
      => /\ call[w].cand.rev = call[w].pin.rev + 1
         /\ call[w].cand.base = call[w].pin.sha

(* No history of edits, approvals, checkpoints and resumes ever gives the  *)
(* mission other fingerprints than mission init recorded, and no approval  *)
(* of other sources is ever carried.                                       *)
FingerprintsFrozen ==
  /\ progress.fp = Founding
  /\ \A a \in progress.approvals : a \in issued /\ a.fp = Founding

(* A reader that sees "stale" met a commit in flight, one that overtook    *)
(* it, or the trace of a crash, a failure or a theft.                      *)
StaleMeansRace ==
  [][\A r \in Readers :
       look[r].pc = "checked" /\ look'[r].view = "stale"
         => \/ progress # look[r].doc
            \/ \E w \in Writers : call[w].pc = "replaced"
            \/ ~Undamaged]_vars

(* The store implements the ledger: every commit is a compare-and-swap of  *)
(* the head by a legal successor of it.                                    *)
Ledger == INSTANCE MissionLedger
            WITH head <- progress,
                 Shas <- (1..MaxRevision) \X (Writers \union {Founder})

ImplementsLedger == Ledger!Spec

(* A lock is always given back, unless a call is killed, a file operation  *)
(* fails or somebody interferes with the lock.                             *)
LockFreed == lockDir ~> (~lockDir \/ ~Undamaged)
=============================================================================
