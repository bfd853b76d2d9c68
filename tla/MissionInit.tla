----------------------------- MODULE MissionInit -----------------------------
(***************************************************************************)
(* "sensai mission init" run by several processes for one mission id       *)
(* (mission_init.go).  The mission is built in a staging directory of the  *)
(* call's own and appears by one rename that replaces nothing; a lock      *)
(* directory without an owner record keeps calls apart.                    *)
(*                                                                         *)
(* Operators marked "mistake" are not part of the model; see MissionStore. *)
(***************************************************************************)
EXTENDS Naturals

CONSTANTS
  Callers,       (* processes that run mission init                        *)
  Stranger,      (* whoever else makes a directory at the mission's path   *)
  NoMission,     (* nothing is at the mission's path                       *)
  MaxRevision,   (* bound on the checkpoints that follow                   *)
  MaxCrashes, MaxFaults, MaxThefts   (* bounds, as in MissionStore         *)

ASSUME InitAssumption ==
  /\ Stranger \notin Callers
  /\ NoMission \notin Callers \union {Stranger}
  /\ MaxRevision \in Nat \ {0}
  /\ MaxCrashes \in Nat /\ MaxFaults \in Nat /\ MaxThefts \in Nat

Files == {"trace.json", "progress.json", "status.md"}

VARIABLES
  mission,   (* who made the directory at the mission's path               *)
  content,   (* the files in it                                            *)
  revision,  (* of the progress.json in it                                 *)
  lock,      (* .sensai-init-<id>.lock exists                              *)
  staging,   (* the calls that have a staging directory                    *)
  built,     (* the files in it                                            *)
  call,      (* the running or last call of each process                   *)
  crashes, faults, thefts

place  == <<mission, content, revision>>
damage == <<crashes, faults, thefts>>
stages == <<staging, built>>
vars   == <<place, lock, stages, call, damage>>

(* Program counters of a call, in the order of the source.                 *)
Building == {"trace", "progress", "status"}
Pcs == {"done", "observing", "checking", "locking", "staging", "raced",
        "publishing", "unlocking", "hashing", "unstage", "unlock"}
         \union Building
Locked == {"staging", "raced", "publishing", "unlocking", "unstage", "unlock"}
            \union Building
Codes == {"none", "ok", "data", "temporary", "unavailable", "interrupted"}

Calls ==
  [pc : Pcs, code : Codes, published : BOOLEAN, printed : 0..MaxRevision]

Idle == [pc |-> "done", code |-> "none", published |-> FALSE, printed |-> 0]

TypeOK ==
  /\ mission \in Callers \union {Stranger, NoMission}
  /\ content \subseteq Files
  /\ revision \in 0..MaxRevision
  /\ lock \in BOOLEAN
  /\ staging \subseteq Callers
  /\ built \in [Callers -> SUBSET Files]
  /\ call \in [Callers -> Calls]
  /\ crashes \in 0..MaxCrashes
  /\ faults \in 0..MaxFaults
  /\ thefts \in 0..MaxThefts

Init ==
  /\ mission = NoMission /\ content = {} /\ revision = 0
  /\ lock = FALSE
  /\ staging = {} /\ built = [c \in Callers |-> {}]
  /\ call = [c \in Callers |-> Idle]
  /\ crashes = 0 /\ faults = 0 /\ thefts = 0

At(c, pc) == call[c].pc = pc
Goto(c, pc) == call' = [call EXCEPT ![c].pc = pc]
Exit(c, code) == call' = [call EXCEPT ![c].pc = "done", ![c].code = code]

(* An early return with the init lock held: the deferred calls run, the    *)
(* removal of the staging directory first if there is one.                 *)
Fail(c, code) ==
  call' = [call EXCEPT ![c].pc = IF c \in staging THEN "unstage"
                                                     ELSE "unlock",
                       ![c].code = code]

-----------------------------------------------------------------------------

(* A call starts; the arguments and the assets are checked.                *)
Begin(c) ==
  /\ At(c, "done")
  /\ call' = [call EXCEPT ![c] = [Idle EXCEPT !.pc = "observing"]]
  /\ UNCHANGED <<place, lock, stages, damage>>

(* hashTarget, the toolchain, git and the clock, then the parents.         *)
Observe(c) ==
  /\ At(c, "observing")
  /\ Goto(c, "checking")
  /\ UNCHANGED <<place, lock, stages, damage>>

(* mistake: the refusal is returned with no exit code of its own           *)
CheckAbsentUnmapped(c) ==
  /\ At(c, "checking")
  /\ IF mission = NoMission THEN Goto(c, "locking") ELSE Exit(c, "unmapped")
  /\ UNCHANGED <<place, lock, stages, damage>>

CheckAbsent(c) ==
  /\ At(c, "checking")
  /\ IF mission = NoMission THEN Goto(c, "locking") ELSE Exit(c, "temporary")
  /\ UNCHANGED <<place, lock, stages, damage>>

(* mistake: the lock is made as if by MkdirAll                             *)
MakeLockShared(c) ==
  /\ At(c, "locking")
  /\ Goto(c, "staging")
  /\ lock' = TRUE
  /\ UNCHANGED <<place, stages, damage>>

MakeLock(c) ==
  /\ At(c, "locking")
  /\ IF lock THEN Exit(c, "temporary") ELSE Goto(c, "staging")
  /\ lock' = TRUE
  /\ UNCHANGED <<place, stages, damage>>

MakeStage(c) ==
  /\ At(c, "staging")
  /\ staging' = staging \union {c}
  /\ built' = [built EXCEPT ![c] = {}]
  /\ Goto(c, "trace")
  /\ UNCHANGED <<place, lock, damage>>

(* The three files are written and read back through jq one by one.        *)
WriteFile(c, pc, file, next) ==
  /\ At(c, pc)
  /\ built' = [built EXCEPT ![c] = @ \union {file}]
  /\ Goto(c, next)
  /\ UNCHANGED <<place, lock, staging, damage>>

WriteTrace(c)    == WriteFile(c, "trace", "trace.json", "progress")
WriteProgress(c) == WriteFile(c, "progress", "progress.json", "status")

(* mistake: the view is left for the first checkpoint to write             *)
WriteStatusLater(c) ==
  /\ At(c, "status")
  /\ Goto(c, "raced")
  /\ UNCHANGED <<place, lock, stages, damage>>

WriteStatus(c) == WriteFile(c, "status", "status.md", "raced")

(* The path is looked at a second time.                                    *)
CheckRaced(c) ==
  /\ At(c, "raced")
  /\ IF mission = NoMission THEN Goto(c, "publishing") ELSE Fail(c, "temporary")
  /\ UNCHANGED <<place, lock, stages, damage>>

(* mistake: a plain rename, trusting the second look                       *)
PublishReplacing(c) ==
  /\ At(c, "publishing")
  /\ mission' = c /\ content' = built[c] /\ revision' = 1
  /\ staging' = staging \ {c}
  /\ call' = [call EXCEPT ![c].pc = "unlocking", ![c].published = TRUE]
  /\ UNCHANGED <<lock, built, damage>>

(* publishDirectoryNoReplace: one step, refused if anything is there.      *)
Publish(c) ==
  /\ At(c, "publishing")
  /\ IF mission = NoMission
     THEN /\ mission' = c /\ content' = built[c] /\ revision' = 1
          /\ staging' = staging \ {c}
          /\ call' = [call EXCEPT ![c].pc = "unlocking", ![c].published = TRUE]
     ELSE /\ Fail(c, "temporary")
          /\ UNCHANGED <<place, staging>>
  /\ UNCHANGED <<lock, built, damage>>

(* If this removal fails the deferred one tries again.                     *)
Unlock(c) ==
  /\ At(c, "unlocking")
  /\ IF lock THEN Goto(c, "hashing") ELSE Fail(c, "unavailable")
  /\ lock' = FALSE
  /\ UNCHANGED <<place, stages, damage>>

(* The hash that is printed is taken after the lock is gone, and with it   *)
(* goes the constant "revision=1".                                         *)
Report(c) ==
  /\ At(c, "hashing")
  /\ call' = [call EXCEPT ![c].pc = "done", ![c].code = "ok",
                          ![c].printed = revision]
  /\ UNCHANGED <<place, lock, stages, damage>>

(* Deferred: RemoveAll of the stages, Remove of the lock.                   *)
RemoveStage(c) ==
  /\ At(c, "unstage")
  /\ staging' = staging \ {c}
  /\ Goto(c, "unlock")
  /\ UNCHANGED <<place, lock, built, damage>>

(* mistake: the lock is given up only on the way past a publication        *)
DeferNothing(c) ==
  /\ At(c, "unlock")
  /\ Exit(c, call[c].code)
  /\ UNCHANGED <<place, lock, stages, damage>>

RemoveLock(c) ==
  /\ At(c, "unlock")
  /\ Exit(c, IF lock THEN call[c].code ELSE "unavailable")
  /\ lock' = FALSE
  /\ UNCHANGED <<place, stages, damage>>

(* mistake: the context is polled after the rename as well                 *)
PollsLate == {"observing", "raced", "unlocking"} \union Building

(* The steps that run git, jq or the clock, and the poll before the second *)
(* look.                                                                   *)
Polls == {"observing", "raced"} \union Building

(* Before the lock is made, the recipes are compiled by jq, whose          *)
(* interrupt is passed on, and git is run, whose interrupt is wrapped.     *)
Interrupt(c) ==
  /\ call[c].pc \in Polls
  /\ IF At(c, "observing")
     THEN \E code \in {"interrupted", "unavailable"} : Exit(c, code)
     ELSE Fail(c, "interrupted")
  /\ UNCHANGED <<place, lock, stages, damage>>

(* The exit codes of a file operation or a tool that fails at a step.      *)
FaultCodes(pc) ==
  CASE pc \in {"observing", "trace", "progress", "status"}
         -> {"data", "unavailable"}
    [] pc = "raced" -> {"data", "temporary"}
    [] pc \in {"checking", "locking", "staging", "publishing"} -> {"temporary"}
    [] pc \in {"unlocking", "hashing", "unstage", "unlock"} -> {"unavailable"}
    [] OTHER -> {}

IOFailure(c) ==
  /\ faults < MaxFaults
  /\ faults' = faults + 1
  /\ \E code \in FaultCodes(call[c].pc) :
       IF call[c].pc \in {"observing", "checking", "locking", "hashing", "unlock"}
       THEN Exit(c, code)
       ELSE IF At(c, "unstage")
            THEN call' = [call EXCEPT ![c].pc = "unlock", ![c].code = code]
            ELSE Fail(c, code)
  /\ UNCHANGED <<place, lock, stages, crashes, thefts>>

(* The process is killed: its stage and its lock stay.                     *)
Crash(c) ==
  /\ ~At(c, "done")
  /\ crashes < MaxCrashes
  /\ crashes' = crashes + 1
  /\ call' = [call EXCEPT ![c] = Idle]
  /\ staging' = staging \ {c}  (* its name is never used again *)
  /\ UNCHANGED <<place, lock, built, faults, thefts>>

(* Someone removes the lock, or makes the mission directory by hand.       *)
StealLock ==
  /\ lock
  /\ thefts < MaxThefts
  /\ thefts' = thefts + 1
  /\ lock' = FALSE
  /\ UNCHANGED <<place, stages, call, crashes, faults>>

MakeByHand ==
  /\ mission = NoMission
  /\ mission' = Stranger
  /\ UNCHANGED <<content, revision, lock, stages, call, damage>>

(* The mission is in use as soon as it is there, whatever the init lock.   *)
Checkpoint ==
  /\ mission \in Callers
  /\ revision < MaxRevision
  /\ revision' = revision + 1
  /\ UNCHANGED <<mission, content, lock, stages, call, damage>>

Step(c) ==
  \/ Observe(c)    \/ CheckAbsent(c) \/ MakeLock(c)      \/ MakeStage(c)
  \/ WriteTrace(c) \/ WriteProgress(c) \/ WriteStatus(c) \/ CheckRaced(c)
  \/ Publish(c)    \/ Unlock(c)      \/ Report(c)
  \/ RemoveStage(c) \/ RemoveLock(c)

Next ==
  \/ \E c \in Callers :
       Begin(c) \/ Step(c) \/ Interrupt(c) \/ IOFailure(c) \/ Crash(c)
  \/ StealLock
  \/ MakeByHand
  \/ Checkpoint

(* A call that has begun goes on; nothing else is owed.                    *)
Spec == Init /\ [][Next]_vars /\ \A c \in Callers : WF_vars(Step(c))

-----------------------------------------------------------------------------

Undamaged == crashes + faults + thefts = 0

(* The mission's path is a Publication: whatever happens to the init lock, *)
(* to other calls and to this one, what is there first stays, is whole,    *)
(* and no exit code contradicts it.  65, 75 and 130 are refusals.          *)
Outcome(c) ==
  IF ~At(c, "done")
  THEN IF call[c].published THEN "published" ELSE "running"
  ELSE CASE call[c].code = "ok" -> "ok"
         [] call[c].code \in {"data", "temporary", "interrupted"} -> "refused"
         [] OTHER -> "unknown"

Path ==
  INSTANCE Publication WITH
    Makers <- Callers, Nothing <- NoMission, maker <- mission,
    genuine <- {Files}, outcome <- [c \in Callers |-> Outcome(c)]

ImplementsPublication == Path!Spec

(* A mission that init made is whole from its first moment, also when the  *)
(* call dies right after.                                                  *)
PublishedWhole == mission \in Callers => content = Files

(* A call that ends with 0 made the mission that is there; one that ends   *)
(* with 65, 75 or 130 made none.  69 tells nothing, but to hide a new      *)
(* mission it takes a failure or a theft.                                  *)
ExitTellsWhoPublished ==
  \A c \in Callers : At(c, "done") =>
    /\ call[c].code = "ok" => mission = c /\ call[c].printed >= 1
    /\ call[c].code \in {"data", "temporary", "interrupted"}
         => ~call[c].published
    /\ call[c].code = "unavailable" /\ call[c].published
         => faults + thefts > 0

(* Calls that end by themselves leave nothing behind that would stop a     *)
(* later one: neither the lock nor a staging directory.                    *)
NothingLeftBehind ==
  Undamaged =>
    /\ lock => \E c \in Callers : ~At(c, "done")
    /\ \A c \in Callers : At(c, "done") => c \notin staging

(* While locks are left alone, at most one call is between the lock and    *)
(* its removal, though the lock names no owner.                            *)
OneBuilder ==
  thefts = 0 =>
    /\ \A c, d \in Callers :
         call[c].pc \in Locked /\ call[d].pc \in Locked => c = d
    /\ \A c \in Callers : call[c].pc \in Locked => lock

(* The lock is always given back unless something is killed, fails or      *)
(* interferes.                                                             *)
InitLockFreed == lock ~> (~lock \/ ~Undamaged)
=============================================================================
