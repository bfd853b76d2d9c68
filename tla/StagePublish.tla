----------------------------- MODULE StagePublish -----------------------------
(***************************************************************************)
(* "sensai stage <target>" (package_stage.go, package.go): the files the   *)
(* manifest lists are copied into a work directory beside the target, read *)
(* a second time, and published by one rename that replaces nothing.  The  *)
(* source is a checkout that people edit meanwhile, or switch back and     *)
(* forth; several calls may stage the same target; anyone may make         *)
(* something at its path.                                                  *)
(*                                                                         *)
(* Operators marked "mistake" are not part of the model; see MissionStore. *)
(***************************************************************************)
EXTENDS Naturals, Sequences

CONSTANTS
  Stagers,     (* processes that run stage for one target                  *)
  Stranger,    (* whoever else makes something at the target's path        *)
  Nothing,     (* nothing is there                                         *)
  LeafCount,   (* the files in the manifest: 36                            *)
  Contents,    (* what a file may contain, as its hash tells it apart      *)
  Missing,     (* no file is there, or no regular one                      *)
  Checkouts,   (* the trees that people make of output/                    *)
  MaxEdits, MaxCrashes, MaxFaults, MaxThefts, MaxEvents   (* bounds        *)

ASSUME StageAssumption ==
  /\ Stranger \notin Stagers
  /\ Nothing \notin Stagers \union {Stranger}
  /\ LeafCount \in Nat \ {0}
  /\ Missing \notin Contents
  /\ Checkouts \subseteq [1..LeafCount -> Contents \union {Missing}]
  /\ MaxEdits \in Nat /\ MaxCrashes \in Nat
  /\ MaxFaults \in Nat /\ MaxThefts \in Nat /\ MaxEvents \in Nat

(* The leaves in the manifest's order.                                     *)
Leaves == 1..LeafCount
Trees  == [Leaves -> Contents \union {Missing}]
Bare   == [l \in Leaves |-> Missing]

VARIABLES
  log,         (* what output/ has been, tree after tree                   *)
  manifest,    (* version of manifest.txt                                  *)
  target,      (* who made what is at the target's path                    *)
  tree,        (* the files in it                                          *)
  lock,        (* .sensai-package-lock.<base> exists                       *)
  work,        (* the calls that have a work directory                     *)
  call,        (* the running or last call of each process                 *)
  crashes, faults, thefts

origin == <<log, manifest>>
place  == <<target, tree>>
damage == <<crashes, faults, thefts>>
vars   == <<origin, place, lock, work, call, damage>>

(* Program counters, in the order of the source.                           *)
Locked == {"working", "contract", "listing", "hashing", "copying",
           "verifying", "polling", "raced", "publishing", "unwork", "unlock"}
Pcs    == {"done", "looking", "locking", "busy", "printing"} \union Locked

(* 0, 65, 69, 73, 75, 75 and 130; the two of 75 differ in their reason.    *)
Codes == {"none", "ok", "data", "unavailable", "cantcreate", "locked",
          "rollback_failed", "interrupted"}

(* The files under output/ as they are.                                    *)
source == log[Len(log)]

(* at: the next leaf; copy: the files in the work directory; same: the     *)
(* leaves read again so far were as copied; listed, hashed: the version of *)
(* the manifest that was read, and that was hashed; from: the tree in the  *)
(* log that was there when copying began, which the call does not know.    *)
Calls ==
  [pc : Pcs, code : Codes, at : Nat, copy : Trees, same : BOOLEAN,
   listed : Nat, hashed : Nat, from : Nat, published : BOOLEAN]

Idle ==
  [pc |-> "done", code |-> "none", at |-> 1, copy |-> Bare, same |-> TRUE,
   listed |-> 0, hashed |-> 0, from |-> 1, published |-> FALSE]

TypeOK ==
  /\ log \in Seq(Checkouts) /\ log # <<>>
  /\ tree \in Trees
  /\ manifest \in Nat
  /\ target \in Stagers \union {Stranger, Nothing}
  /\ lock \in BOOLEAN
  /\ work \subseteq Stagers
  /\ call \in [Stagers -> Calls]
  /\ crashes \in Nat /\ faults \in Nat /\ thefts \in Nat

Complete(t) == \A l \in Leaves : t[l] # Missing

Init ==
  /\ \E t \in Checkouts : Complete(t) /\ log = <<t>>
  /\ manifest = 1
  /\ target = Nothing /\ tree = Bare
  /\ lock = FALSE /\ work = {}
  /\ call = [c \in Stagers |-> Idle]
  /\ crashes = 0 /\ faults = 0 /\ thefts = 0

(* Edits, kills, failures and thefts are bounded together as well.         *)
Eventful == Len(log) + manifest + crashes + faults + thefts < 2 + MaxEvents

At(c, pc) == call[c].pc = pc
Becomes(c, b) == call' = [call EXCEPT ![c] = b]
Goto(c, pc) == Becomes(c, [call[c] EXCEPT !.pc = pc])
Exit(c, code) == Becomes(c, [call[c] EXCEPT !.pc = "done", !.code = code])

(* mistake: an early return forgets the work directory and the lock        *)
FailAtOnce(c, code) == Exit(c, code)

(* An early return once the work directory is there: the deferred          *)
(* cleanupStage removes it and then the lock.                              *)
Fail(c, code) == Becomes(c, [call[c] EXCEPT !.pc = "unwork", !.code = code])

-----------------------------------------------------------------------------

Begin(c) ==
  /\ At(c, "done")
  /\ Becomes(c, [Idle EXCEPT !.pc = "looking"])
  /\ work' = work \ {c}   (* a new name is drawn each time *)
  /\ UNCHANGED <<origin, place, lock, damage>>

(* mistake: the refusal is returned with no exit code of its own           *)
ValidateTargetUnmapped(c) ==
  /\ At(c, "looking")
  /\ IF target = Nothing THEN Goto(c, "locking") ELSE Exit(c, "unmapped")
  /\ UNCHANGED <<origin, place, lock, work, damage>>

(* Nothing may be at the path yet; a path that is no clean absolute one,   *)
(* or whose parent is not a physical directory, is refused before.         *)
ValidateTarget(c) ==
  /\ At(c, "looking")
  /\ IF target = Nothing THEN Goto(c, "locking") ELSE Exit(c, "cantcreate")
  /\ UNCHANGED <<origin, place, lock, work, damage>>

MakeLock(c) ==
  /\ At(c, "locking")
  /\ IF lock THEN Goto(c, "busy") ELSE Goto(c, "working")
  /\ lock' = TRUE
  /\ UNCHANGED <<origin, place, work, damage>>

(* mkdir failed; whether the lock is to blame is seen only now.            *)
LockBusy(c) ==
  /\ At(c, "busy")
  /\ Exit(c, IF lock THEN "locked" ELSE "cantcreate")
  /\ UNCHANGED <<origin, place, lock, work, damage>>

MakeWork(c) ==
  /\ At(c, "working")
  /\ Goto(c, "contract")
  /\ work' = work \union {c}
  /\ UNCHANGED <<origin, place, lock, damage>>

(* validateSourceContract: the files under output/ are the manifest's.     *)
CheckContract(c) ==
  /\ At(c, "contract")
  /\ IF Complete(source) THEN Goto(c, "listing") ELSE Fail(c, "data")
  /\ UNCHANGED <<origin, place, lock, work, damage>>

ReadManifest(c) ==
  /\ At(c, "listing")
  /\ Becomes(c, [call[c] EXCEPT !.pc = "hashing", !.listed = manifest])
  /\ UNCHANGED <<origin, place, lock, work, damage>>

HashManifest(c) ==
  /\ At(c, "hashing")
  /\ Becomes(c, [call[c] EXCEPT !.pc = "copying", !.hashed = manifest,
                                 !.from = Len(log)])
  /\ UNCHANGED <<origin, place, lock, work, damage>>

CopyLeaf(c) ==
  LET l == call[c].at IN
  /\ At(c, "copying")
  /\ IF source[l] = Missing
     THEN Fail(c, "data")
     ELSE Becomes(c, [call[c] EXCEPT
                        !.copy[l] = source[l],
                        !.pc = IF l = LeafCount THEN "verifying" ELSE @,
                        !.at = IF l = LeafCount THEN 1 ELSE l + 1])
  /\ UNCHANGED <<origin, place, lock, work, damage>>

(* mistake: only the last comparison counts                                *)
VerifyLastLeaf(c) ==
  LET l    == call[c].at
      same == source[l] = call[c].copy[l]
  IN
  /\ At(c, "verifying")
  /\ IF source[l] = Missing \/ (l = LeafCount /\ ~same)
     THEN Fail(c, "data")
     ELSE Becomes(c, [call[c] EXCEPT
                        !.same = same,
                        !.pc = IF l = LeafCount THEN "polling" ELSE @,
                        !.at = l + 1])
  /\ UNCHANGED <<origin, place, lock, work, damage>>

(* verifySourceUnchanged: all are hashed again, then all are compared.     *)
VerifyLeaf(c) ==
  LET l    == call[c].at
      same == call[c].same /\ source[l] = call[c].copy[l]
  IN
  /\ At(c, "verifying")
  /\ IF source[l] = Missing \/ (l = LeafCount /\ ~same)
     THEN Fail(c, "data")
     ELSE Becomes(c, [call[c] EXCEPT
                        !.same = same,
                        !.pc = IF l = LeafCount THEN "polling" ELSE @,
                        !.at = l + 1])
  /\ UNCHANGED <<origin, place, lock, work, damage>>

(* mistake: the context is polled after the rename as well                 *)
PolledLate == {"polling", "unwork"}

(* The one place where a stage looks at its context.                       *)
Polled == {"polling"}

Interrupt(c) ==
  /\ call[c].pc \in Polled
  /\ Fail(c, "interrupted")
  /\ UNCHANGED <<origin, place, lock, work, damage>>

Poll(c) ==
  /\ At(c, "polling")
  /\ Goto(c, "raced")
  /\ UNCHANGED <<origin, place, lock, work, damage>>

CheckRaced(c) ==
  /\ At(c, "raced")
  /\ IF target = Nothing THEN Goto(c, "publishing") ELSE Fail(c, "cantcreate")
  /\ UNCHANGED <<origin, place, lock, work, damage>>

(* mistake: a plain rename, trusting the look before it                    *)
PublishReplacing(c) ==
  /\ At(c, "publishing")
  /\ target' = c /\ tree' = call[c].copy
  /\ Becomes(c, [call[c] EXCEPT !.pc = "unwork", !.published = TRUE])
  /\ UNCHANGED <<origin, lock, work, damage>>

Publish(c) ==
  /\ At(c, "publishing")
  /\ IF target = Nothing
     THEN /\ target' = c /\ tree' = call[c].copy
          /\ Becomes(c, [call[c] EXCEPT !.pc = "unwork", !.published = TRUE])
     ELSE Fail(c, "cantcreate") /\ UNCHANGED place
  /\ UNCHANGED <<origin, lock, work, damage>>

(* cleanupStage, called after the rename or deferred.  Its own failure     *)
(* replaces whatever the call was about to say.                            *)
RemoveWork(c) ==
  /\ At(c, "unwork")
  /\ Goto(c, "unlock")
  /\ work' = work \ {c}
  /\ UNCHANGED <<origin, place, lock, damage>>

RemoveLock(c) ==
  /\ At(c, "unlock")
  /\ CASE ~lock -> Exit(c, "rollback_failed")
       [] lock /\ call[c].code = "none" -> Goto(c, "printing")
       [] OTHER -> Exit(c, call[c].code)
  /\ lock' = FALSE
  /\ UNCHANGED <<origin, place, work, damage>>

PrintResult(c) ==
  /\ At(c, "printing")
  /\ Exit(c, "ok")
  /\ UNCHANGED <<origin, place, lock, work, damage>>

(* A file operation fails: after "hashing", the mkdir of the tree as well. *)
(* MkdirTemp fails with no work directory to remove; a removal that fails  *)
(* lets the next one run.                                                  *)
IOFailure(c) ==
  /\ Eventful
  /\ faults < MaxFaults
  /\ faults' = faults + 1
  /\ CASE call[c].pc \in {"looking", "locking"} -> Exit(c, "cantcreate")
       [] At(c, "working") ->
            Becomes(c, [call[c] EXCEPT !.pc = "unlock", !.code = "cantcreate"])
       [] call[c].pc \in {"contract", "listing", "copying", "verifying"} ->
            Fail(c, "data")
       [] At(c, "hashing") -> Fail(c, "unavailable") \/ Fail(c, "cantcreate")
       [] call[c].pc \in {"raced", "publishing"} -> Fail(c, "cantcreate")
       [] At(c, "unwork") ->
            Becomes(c, [call[c] EXCEPT !.pc = "unlock",
                                       !.code = "rollback_failed"])
       [] At(c, "unlock") -> Exit(c, "rollback_failed")
       [] At(c, "printing") -> Exit(c, "unavailable")
       [] OTHER -> FALSE
  /\ UNCHANGED <<origin, place, lock, work, crashes, thefts>>

(* The process is killed: its work directory and its lock stay.            *)
Crash(c) ==
  /\ ~At(c, "done")
  /\ Eventful
  /\ crashes < MaxCrashes
  /\ crashes' = crashes + 1
  /\ Exit(c, "none")
  /\ UNCHANGED <<origin, place, lock, work, faults, thefts>>

-----------------------------------------------------------------------------
(* Everybody else.                                                         *)

StealLock ==
  /\ lock
  /\ Eventful
  /\ thefts < MaxThefts
  /\ thefts' = thefts + 1
  /\ lock' = FALSE
  /\ UNCHANGED <<origin, place, work, call, crashes, faults>>

MakeByHand ==
  /\ target = Nothing
  /\ target' = Stranger
  /\ UNCHANGED <<origin, tree, lock, work, call, damage>>

(* Files are written, deleted or brought back, one or, when another branch *)
(* is checked out, many; contents that were there before may come again.   *)
Edit ==
  /\ Eventful
  /\ Len(log) + manifest < 2 + MaxEdits
  /\ \/ /\ \E t \in Checkouts \ {source} : log' = Append(log, t)
        /\ UNCHANGED manifest
     \/ /\ manifest' = manifest + 1
        /\ UNCHANGED log
  /\ UNCHANGED <<place, lock, work, call, damage>>

Step(c) ==
  \/ ValidateTarget(c) \/ MakeLock(c)     \/ LockBusy(c)   \/ MakeWork(c)
  \/ CheckContract(c)  \/ ReadManifest(c) \/ HashManifest(c)
  \/ CopyLeaf(c)       \/ VerifyLeaf(c)   \/ Poll(c)       \/ CheckRaced(c)
  \/ Publish(c)        \/ RemoveWork(c)   \/ RemoveLock(c) \/ PrintResult(c)

Next ==
  \/ \E c \in Stagers :
       Begin(c) \/ Step(c) \/ Interrupt(c) \/ IOFailure(c) \/ Crash(c)
  \/ StealLock
  \/ MakeByHand
  \/ Edit

Spec == Init /\ [][Next]_vars

-----------------------------------------------------------------------------

Moments == 1..Len(log)

(* The whole trees that output/ has been.                                  *)
OnDisk == {t \in {log[m] : m \in Moments} : Complete(t)}

(* Since the moment i some file had other contents, or was gone, and then  *)
(* had again the contents it had before.                                   *)
CameBack(i) ==
  \E j \in i..Len(log), l \in Leaves : \E k \in j + 1..Len(log) :
    /\ log[j][l] # Missing /\ log[k][l] # log[j][l]
    /\ \E m \in k + 1..Len(log) : log[m][l] = log[j][l]

(* The trees whose files have all been in output/, each at some moment.    *)
Patchworks ==
  {t \in Trees : Complete(t) /\ \A l \in Leaves :
                                 \E m \in Moments : log[m][l] = t[l]}

(* What may be published: only trees that were there, as long as nothing   *)
(* has come back.                                                          *)
Publishable == IF CameBack(1) THEN Patchworks ELSE OnDisk

(* What passed the second reading is, file for file, a tree that output/   *)
(* was at one moment, however it was edited between and during the two     *)
(* readings - unless the contents of some file came back while the call    *)
(* read: the hashes cannot tell a file that is the same at both readings   *)
(* from one that was another in between, and the copy may then be a        *)
(* patchwork that never existed.                                           *)
PublishedIsSnapshot ==
  /\ \A c \in Stagers : call[c].pc \in {"polling", "raced", "publishing"} =>
       call[c].copy \in OnDisk \/ CameBack(call[c].from)
  /\ target \in Stagers => tree \in Publishable

(* The target's path is a Publication: also when locks are stolen and two  *)
(* calls publish at once, what is there first stays, is a tree as above,   *)
(* and no exit code contradicts it.  65, 73, 130 and a busy lock are       *)
(* refusals.                                                               *)
Outcome(c) ==
  IF ~At(c, "done")
  THEN IF call[c].published THEN "published" ELSE "running"
  ELSE CASE call[c].code = "ok" -> "ok"
         [] call[c].code \in {"data", "cantcreate", "locked", "interrupted"}
              -> "refused"
         [] OTHER -> "unknown"

Path ==
  INSTANCE Publication WITH
    Makers <- Stagers, maker <- target, content <- tree,
    genuine <- Publishable, outcome <- [c \in Stagers |-> Outcome(c)]

ImplementsPublication == Path!Spec

(* 0 means that this call made the target and names no older manifest than *)
(* the one it copied by; 65, 73, 130 and a busy lock mean that it made     *)
(* none.  69 and rollback_failed may hide a target that was made, and take *)
(* a failure or a theft.                                                   *)
StageExitHonest ==
  \A c \in Stagers : At(c, "done") =>
    /\ call[c].code = "ok" => target = c /\ call[c].hashed >= call[c].listed
    /\ call[c].code \in {"data", "cantcreate", "locked", "interrupted"}
         => ~call[c].published
    /\ call[c].code = "rollback_failed"
       \/ (call[c].code = "unavailable" /\ call[c].published)
         => faults + thefts > 0

(* A call that was not killed leaves no work directory unless it says so,  *)
(* and no lock that would refuse the next call.                            *)
StageLeavesNothing ==
  /\ \A c \in Stagers :
       At(c, "done") /\ c \in work => call[c].code \in {"none", "rollback_failed"}
  /\ crashes + faults + thefts = 0 /\ lock
       => \E c \in Stagers : call[c].pc \in Locked
=============================================================================
