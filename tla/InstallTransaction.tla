------------------------- MODULE InstallTransaction -------------------------
(***************************************************************************)
(* "sensai install": concurrent invocations that install one or            *)
(* another version of the managed files into the same home directory, each *)
(* file by file, and take back what they made if they cannot finish        *)
(* (package_install.go, package_install_transaction.go,                    *)
(* package_install_publish.go).  Beside them, people edit the same files.  *)
(*                                                                         *)
(* An invocation runs once; its name is also the identity (inode) of every *)
(* file, directory and lock it makes: the number of an inode that is gone  *)
(* is taken not to come back while the invocation runs.  publishNoReplace  *)
(* is the Unix one: a link, then the removal of the temporary file.        *)
(*                                                                         *)
(* Operators marked "mistake" are not part of the model; see MissionStore. *)
(***************************************************************************)
EXTENDS Naturals, Sequences, SequencesExt

CONSTANTS
  Installers,    (* invocations of install                                 *)
  Someone,       (* made by neither of them                                *)
  Nothing,       (* there is no such file, directory or lock               *)
  Manifest,      (* the managed config files, in manifest order            *)
  Cli,           (* the executable                                         *)
  Dirs,          (* directories that an installation may have to make      *)
  Root,          (* the config root, which it never makes                  *)
  Path,          (* Path[f]: the directories above f, outermost first      *)
  Up,            (* Up[d]: the directory that holds d                      *)
  Versions,      (* contents of the managed files that a source may have   *)
  Foreign,       (* any other content                                      *)
  Homes,         (* what an installation may find: [file, dir]             *)
  MaxTroubles    (* bound on killed processes, file operations that fail,  *)
                 (* and files that people write or remove, together        *)

Order == Append(Manifest, Cli)
Files == ToSet(Order)
Locks == {"config", "cli"}
Made  == [id : Installers \union {Someone}, ver : Versions \union {Foreign}]
Theirs == [id : {Someone}, ver : Versions \union {Foreign}]

ASSUME InstallAssumption ==
  /\ Someone \notin Installers /\ Nothing \notin Installers \union {Someone}
  /\ Nothing \notin Made /\ Nothing \notin Files
  /\ Foreign \notin Versions
  /\ Manifest \in Seq(ToSet(Manifest))
  /\ Cli \notin ToSet(Manifest) /\ Root \notin Dirs
  /\ Path \in [Files -> Seq(Dirs)] /\ Path[Cli] # <<>>
  /\ Up \in [Dirs -> Dirs \union {Root}]
  /\ Homes \subseteq [file : [Files -> Theirs \union {Nothing}],
                      dir : [Dirs -> {Someone, Nothing}]]
  /\ MaxTroubles \in Nat

VARIABLES
  file,      (* the managed files                                          *)
  dir,       (* who made each directory                                    *)
  lock,      (* who made the lock directories                              *)
  temps,     (* temporary files beside a target: <<installer, target>>     *)
  call,      (* the local state of each invocation                         *)
  swept,     (* somebody removed a temporary file in use                   *)
  crashes, faults, edits

home   == <<file, dir>>
damage == <<swept, crashes, faults, edits>>
vars   == <<home, lock, temps, call, damage>>

Finishing == {"undo", "remove", "temps", "unlockcli", "unlockconfig",
              "rmdirs", "finished"}
Pcs == {"idle", "scan", "lockconfig", "lockdirs", "lockcli", "rescan",
        "sources", "ensure", "stage", "link", "unlink", "record", "poll",
        "verify", "done", "dead"} \union Finishing
Codes == {"none", "ok", "data", "cantcreate", "locked", "unavailable",
          "interrupted", "rollback"}

Journal == [file : Files, id : Installers \union {Someone}]

Calls ==
  [pc : Pcs, ver : Versions \union {Foreign}, at : 1..Len(Order) + 1,
   depth : Nat \ {0}, absent : SUBSET Files, created : Seq(Journal),
   temp : Files \union {Nothing}, locks : SUBSET Locks, dirs : Seq(Dirs),
   committed : BOOLEAN, failed : BOOLEAN, swapped : BOOLEAN, code : Codes]

Fresh ==
  [pc |-> "idle", ver |-> Foreign, at |-> 1, depth |-> 1, absent |-> {},
   created |-> <<>>, temp |-> Nothing, locks |-> {}, dirs |-> <<>>,
   committed |-> FALSE, failed |-> FALSE, swapped |-> FALSE, code |-> "none"]

TypeOK ==
  /\ file \in [Files -> Made \union {Nothing}]
  /\ dir \in [Dirs -> Installers \union {Someone, Nothing}]
  /\ lock \in [Locks -> Installers \union {Nothing}]
  /\ temps \subseteq Installers \X Files
  /\ call \in [Installers -> Calls]
  /\ swept \in BOOLEAN
  /\ crashes \in Nat /\ faults \in Nat /\ edits \in Nat

Init ==
  /\ \E h \in Homes : file = h.file /\ dir = h.dir
  /\ lock = [l \in Locks |-> Nothing]
  /\ temps = {}
  /\ call = [p \in Installers |-> Fresh]
  /\ swept = FALSE /\ crashes = 0 /\ faults = 0 /\ edits = 0

-----------------------------------------------------------------------------

At(p, pc)  == call[p].pc = pc
Go(p, c)   == call' = [call EXCEPT ![p] = c]
Exists(d)  == d \in {Root} \union {e \in Dirs : dir[e] # Nothing}
Above(f)   == IF Path[f] = <<>> THEN Root ELSE Last(Path[f])
Current(p) == Order[call[p].at]
Whole(p)   == [id |-> p, ver |-> call[p].ver]

LockPlace(l) == IF l = "config" THEN Root ELSE Above(Cli)

(* Nothing is in d, so that it can be removed.                             *)
Empty(d) ==
  /\ \A f \in Files : Above(f) = d => file[f] = Nothing
  /\ \A e \in Dirs : Up[e] = d => dir[e] = Nothing
  /\ \A l \in Locks : LockPlace(l) = d => lock[l] = Nothing
  /\ \A t \in temps : Above(t[2]) # d

(* An early return: the deferred finish(false) runs.                       *)
Fail(p, code) == Go(p, [call[p] EXCEPT !.pc = "undo", !.code = code])

(* The loop over the absent files: go on with the first one from number i  *)
(* on, or verify.                                                          *)
PublishNext(p, i) ==
  LET c == call[p] IN
  \/ /\ \A j \in i..Len(Order) : Order[j] \notin c.absent
     /\ Go(p, [c EXCEPT !.pc = "verify", !.at = 1])
  \/ \E j \in i..Len(Order) :
       /\ Order[j] \in c.absent
       /\ \A k \in i..j-1 : Order[k] \notin c.absent
       /\ Go(p, [c EXCEPT !.at = j, !.depth = 1,
                          !.pc = IF Order[j] = Cli THEN "stage" ELSE "ensure"])

-----------------------------------------------------------------------------
(* Steps up to the commit.                                                 *)

(* The source tree of one version is copied and hashed in a directory of   *)
(* the call's own; a source that is broken or changing is refused.         *)
Begin(p) ==
  /\ At(p, "idle")
  /\ \E ver \in Versions :
       \/ Go(p, [Fresh EXCEPT !.pc = "scan", !.ver = ver])
       \/ Go(p, [Fresh EXCEPT !.pc = "undo", !.ver = ver, !.code = "data"])
  /\ UNCHANGED <<home, lock, temps, damage>>

(* classify(), file by file, before the locks and again under them.        *)
Classify(p, pc, next) ==
  LET c == call[p] IN
  /\ At(p, pc)
  /\ IF c.at > Len(Order)
     THEN Go(p, [c EXCEPT !.pc = next, !.at = 1, !.depth = 1])
     ELSE LET f == Current(p) IN
          \/ /\ file[f] = Nothing
             /\ Go(p, [c EXCEPT !.at = @ + 1, !.absent = @ \union {f}])
          \/ /\ file[f] # Nothing /\ file[f].ver = c.ver
             /\ Go(p, [c EXCEPT !.at = @ + 1])
          \/ /\ file[f] # Nothing /\ file[f].ver # c.ver
             /\ Fail(p, "cantcreate")
  /\ UNCHANGED <<home, lock, temps, damage>>

(* mistake: a lock that is there is as good as one that was made           *)
MakeLockShared(p, l, pc, next) ==
  /\ At(p, pc)
  /\ lock' = [lock EXCEPT ![l] = p]
  /\ Go(p, [call[p] EXCEPT !.pc = next, !.at = 1, !.depth = 1, !.absent = {},
                           !.locks = @ \union {l}])
  /\ UNCHANGED <<home, temps, damage>>

MakeLock(p, l, pc, next) ==
  /\ At(p, pc)
  /\ IF lock[l] = Nothing /\ Exists(LockPlace(l))
     THEN /\ lock' = [lock EXCEPT ![l] = p]
          /\ Go(p, [call[p] EXCEPT !.pc = next, !.at = 1, !.depth = 1,
                                   !.absent = {}, !.locks = @ \union {l}])
     ELSE /\ Fail(p, "locked")
          /\ UNCHANGED lock
  /\ UNCHANGED <<home, temps, damage>>

LockConfig(p) == MakeLock(p, "config", "lockconfig", "lockdirs")
LockCli(p)    == MakeLock(p, "cli", "lockcli", "rescan")

(* ensureDirectory() for each directory above f in turn.  Its look at the  *)
(* directory and its mkdir are one step here: directories are made under   *)
(* the config lock alone, so what is found missing stays missing, and one  *)
(* above it that a call takes back in between (it has no lock any more)    *)
(* makes mkdir fail as it does when taken back before the look.            *)
EnsureDirectory(p, f, pc, next) ==
  LET c == call[p]
      d == Path[f][c.depth]
  IN
  /\ At(p, pc)
  /\ IF c.depth > Len(Path[f])
     THEN Go(p, [c EXCEPT !.pc = next]) /\ UNCHANGED dir
     ELSE \/ /\ dir[d] # Nothing
             /\ Go(p, [c EXCEPT !.depth = @ + 1])
             /\ UNCHANGED dir
          \/ /\ dir[d] = Nothing /\ Exists(Up[d])
             /\ dir' = [dir EXCEPT ![d] = p]
             /\ Go(p, [c EXCEPT !.depth = @ + 1, !.dirs = Append(@, d)])
          \/ /\ dir[d] = Nothing /\ ~Exists(Up[d])
             /\ Fail(p, "cantcreate")
             /\ UNCHANGED dir
  /\ UNCHANGED <<file, lock, temps, damage>>

(* The sources are hashed again: they are as copied, or they have changed. *)
CheckSources(p) ==
  /\ At(p, "sources")
  /\ \/ PublishNext(p, 1)
     \/ Fail(p, "data")
  /\ UNCHANGED <<home, lock, temps, damage>>

StageTemp(p) ==
  LET f == Current(p) IN
  /\ At(p, "stage")
  /\ IF file[f] = Nothing /\ Exists(Above(f))
     THEN /\ temps' = temps \union {<<p, f>>}
          /\ Go(p, [call[p] EXCEPT !.pc = "link", !.temp = f])
     ELSE /\ Fail(p, "cantcreate")
          /\ UNCHANGED temps
  /\ UNCHANGED <<home, lock, damage>>

Link(p) ==
  LET f == Current(p) IN
  /\ At(p, "link")
  /\ IF file[f] = Nothing /\ <<p, f>> \in temps
     THEN /\ file' = [file EXCEPT ![f] = Whole(p)]
          /\ Go(p, [call[p] EXCEPT !.pc = "unlink"])
     ELSE /\ Fail(p, "cantcreate")
          /\ UNCHANGED file
  /\ UNCHANGED <<dir, lock, temps, damage>>

(* If the temporary file has gone, the link that was made is not seen as   *)
(* this call's, and stays.                                                 *)
Unlink(p) ==
  LET f == Current(p) IN
  /\ At(p, "unlink")
  /\ IF <<p, f>> \in temps
     THEN /\ temps' = temps \ {<<p, f>>}
          /\ Go(p, [call[p] EXCEPT !.pc = "record", !.temp = Nothing])
     ELSE /\ Fail(p, "cantcreate")
          /\ UNCHANGED temps
  /\ UNCHANGED <<home, lock, damage>>

Recorded(c, f) ==
  [c EXCEPT !.created = Append(@, [file |-> f, id |-> file[f].id])]

(* recordCreatedFile(): what is at the path now goes into the journal, if  *)
(* it has the content that was published.                                  *)
RecordCreated(p) ==
  LET c == call[p]
      f == Current(p)
  IN
  /\ At(p, "record")
  /\ IF file[f] # Nothing /\ file[f].ver = c.ver
     THEN Go(p, IF f = Cli THEN [Recorded(c, f) EXCEPT !.pc = "verify",
                                                       !.at = 1]
                           ELSE [Recorded(c, f) EXCEPT !.pc = "poll"])
     ELSE Fail(p, "rollback")
  /\ UNCHANGED <<home, lock, temps, damage>>

(* The context is polled after each config file, and not after the CLI.    *)
Poll(p) ==
  /\ At(p, "poll")
  /\ PublishNext(p, call[p].at + 1)
  /\ UNCHANGED <<home, lock, temps, damage>>

(* mistake: the error of the context is returned with no exit code         *)
InterruptUnmapped(p) ==
  /\ At(p, "poll")
  /\ Fail(p, "unmapped")
  /\ UNCHANGED <<home, lock, temps, damage>>

Interrupt(p) ==
  /\ At(p, "poll")
  /\ Fail(p, "interrupted")
  /\ UNCHANGED <<home, lock, temps, damage>>

(* mistake: finish() takes back what was made whether or not it stands     *)
VerifyThenUndo(p) ==
  LET c == call[p] IN
  /\ At(p, "verify")
  /\ IF c.at > Len(Order)
     THEN Go(p, [c EXCEPT !.pc = "undo", !.committed = TRUE, !.code = "ok"])
     ELSE IF file[Current(p)] # Nothing /\ file[Current(p)].ver = c.ver
          THEN Go(p, [c EXCEPT !.at = @ + 1])
          ELSE Fail(p, "data")
  /\ UNCHANGED <<home, lock, temps, damage>>

(* verifyInstalled(), file by file; after it the installation stands.      *)
Verify(p) ==
  LET c == call[p] IN
  /\ At(p, "verify")
  /\ IF c.at > Len(Order)
     THEN Go(p, [c EXCEPT !.pc = "temps", !.committed = TRUE, !.code = "ok"])
     ELSE IF file[Current(p)] # Nothing /\ file[Current(p)].ver = c.ver
          THEN Go(p, [c EXCEPT !.at = @ + 1])
          ELSE Fail(p, "data")
  /\ UNCHANGED <<home, lock, temps, damage>>

-----------------------------------------------------------------------------
(* finish(): created files in reverse, the temporary file, the locks, and  *)
(* then the directories in reverse.  A step that fails is noted, and the   *)
(* next one is taken.                                                      *)

(* mistake: whatever is at the path is taken for the file that was made    *)
UndoLookAtPath(p) ==
  LET c == call[p] IN
  /\ At(p, "undo")
  /\ IF c.created = <<>> THEN Go(p, [c EXCEPT !.pc = "temps"])
     ELSE Go(p, [c EXCEPT !.pc = "remove", !.swapped = FALSE])
  /\ UNCHANGED <<home, lock, temps, damage>>

(* The last file of the journal must be the same file with the same hash.  *)
UndoLook(p) ==
  LET c == call[p] IN
  /\ At(p, "undo")
  /\ IF c.created = <<>> THEN Go(p, [c EXCEPT !.pc = "temps"])
     ELSE LET made == Last(c.created) IN
          IF file[made.file] = [id |-> made.id, ver |-> c.ver]
          THEN Go(p, [c EXCEPT !.pc = "remove", !.swapped = FALSE])
          ELSE Go(p, [c EXCEPT !.failed = TRUE, !.created = Front(@)])
  /\ UNCHANGED <<home, lock, temps, damage>>

(* os.Remove() by path.                                                    *)
UndoRemove(p) ==
  LET c == call[p]
      f == Last(c.created).file
  IN
  /\ At(p, "remove")
  /\ file' = [file EXCEPT ![f] = Nothing]
  /\ Go(p, [c EXCEPT !.pc = "undo", !.created = Front(@),
                     !.failed = @ \/ file[f] = Nothing])
  /\ UNCHANGED <<dir, lock, temps, damage>>

RemoveTemp(p) ==
  LET c == call[p] IN
  /\ At(p, "temps")
  /\ temps' = temps \ {<<p, c.temp>>}
  /\ Go(p, [c EXCEPT !.pc = "unlockcli", !.temp = Nothing])
  /\ UNCHANGED <<home, lock, damage>>

(* A lock is removed if it is the directory this call made.                *)
ReleaseLock(p, l, pc, next) ==
  LET c == call[p] IN
  /\ At(p, pc)
  /\ IF l \in c.locks /\ lock[l] = p
     THEN lock' = [lock EXCEPT ![l] = Nothing] ELSE UNCHANGED lock
  /\ Go(p, [c EXCEPT !.pc = next, !.locks = @ \ {l},
                     !.failed = @ \/ (l \in c.locks /\ lock[l] # p)])
  /\ UNCHANGED <<home, temps, damage>>

AfterLocks(p)   == IF call[p].committed THEN "finished" ELSE "rmdirs"
UnlockCli(p)    == ReleaseLock(p, "cli", "unlockcli", "unlockconfig")
UnlockConfig(p) == ReleaseLock(p, "config", "unlockconfig", AfterLocks(p))

RemoveDirectory(p) ==
  LET c == call[p] IN
  /\ At(p, "rmdirs")
  /\ IF c.dirs = <<>>
     THEN Go(p, [c EXCEPT !.pc = "finished"]) /\ UNCHANGED dir
     ELSE LET d == Last(c.dirs) IN
          IF dir[d] = p /\ Empty(d)
          THEN /\ dir' = [dir EXCEPT ![d] = Nothing]
               /\ Go(p, [c EXCEPT !.dirs = Front(@)])
          ELSE /\ Go(p, [c EXCEPT !.dirs = Front(@), !.failed = TRUE])
               /\ UNCHANGED dir
  /\ UNCHANGED <<file, lock, temps, damage>>

Done(p, code) ==
  Go(p, [Fresh EXCEPT !.pc = "done", !.ver = call[p].ver,
                      !.committed = call[p].committed, !.code = code])

(* What could not be removed turns every result into rollback_failed.      *)
Finish(p) ==
  /\ At(p, "finished")
  /\ Done(p, IF call[p].failed THEN "rollback" ELSE call[p].code)
  /\ UNCHANGED <<home, lock, temps, damage>>

-----------------------------------------------------------------------------
(* What may happen to an invocation.                                       *)

(* mistake: a link whose temporary file stays is left to itself            *)
ClaimNothing(p) == Fail(p, "cantcreate")

(* The link is made and the removal of the temporary file fails: the file  *)
(* is this call's if it is still the same as the temporary one.            *)
ClaimPublished(p) ==
  LET c == call[p]
      f == Current(p)
  IN  CASE file[f] = Whole(p)
             -> Go(p, [Recorded(c, f) EXCEPT !.pc = "undo",
                                             !.code = "cantcreate"])
        [] file[f] # Nothing /\ file[f] # Whole(p) /\ file[f].id = p
             -> Fail(p, "rollback")
        [] OTHER -> Fail(p, "cantcreate")

FaultCodes(p) ==
  CASE call[p].pc \in {"scan", "rescan", "lockdirs", "ensure"} -> {"cantcreate"}
    [] call[p].pc \in {"lockconfig", "lockcli"} -> {"locked"}
    [] call[p].pc \in {"sources", "verify"} -> {"data"}
    [] call[p].pc \in {"idle", "stage"} -> {"cantcreate", "unavailable"}
    [] call[p].pc = "link" -> {"cantcreate", "data"}
    [] call[p].pc = "record" -> {"rollback"}
    [] OTHER -> {}

(* A directory is made and then cannot be inspected: it is in no journal.  *)
LoseLock(p, l, pc) ==
  /\ At(p, pc)
  /\ lock[l] = Nothing /\ Exists(LockPlace(l))
  /\ lock' = [lock EXCEPT ![l] = p]
  /\ Fail(p, "rollback")
  /\ UNCHANGED <<home, temps>>

LoseDirectory(p) ==
  LET f == IF At(p, "lockdirs") THEN Cli ELSE Current(p)
      d == Path[f][call[p].depth]
  IN
  /\ call[p].pc \in {"lockdirs", "ensure"}
  /\ call[p].depth <= Len(Path[f])
  /\ dir[d] = Nothing /\ Exists(Up[d])
  /\ dir' = [dir EXCEPT ![d] = p]
  /\ Fail(p, "rollback")
  /\ UNCHANGED <<file, lock, temps>>

(* A step of finish() fails: what it was to remove stays.                  *)
SkipRemoval(p) ==
  LET c == [call[p] EXCEPT !.failed = TRUE] IN
  /\ \/ /\ c.pc \in {"undo", "remove"} /\ c.created # <<>>
        /\ Go(p, [c EXCEPT !.pc = "undo", !.created = Front(@)])
     \/ /\ c.pc = "temps" /\ c.temp # Nothing
        /\ Go(p, [c EXCEPT !.pc = "unlockcli", !.temp = Nothing])
     \/ /\ c.pc = "unlockcli" /\ "cli" \in c.locks
        /\ Go(p, [c EXCEPT !.pc = "unlockconfig", !.locks = @ \ {"cli"}])
     \/ /\ c.pc = "unlockconfig" /\ "config" \in c.locks
        /\ Go(p, [c EXCEPT !.pc = AfterLocks(p), !.locks = @ \ {"config"}])
     \/ /\ c.pc = "rmdirs" /\ c.dirs # <<>>
        /\ Go(p, [c EXCEPT !.dirs = Front(@)])
     \/ /\ c.pc = "finished"
        /\ \/ Done(p, "rollback")
           \/ c.code = "ok" /\ ~call[p].failed /\ Done(p, "unavailable")
  /\ UNCHANGED <<home, lock, temps>>

(* A file operation fails.  The last case of SkipRemoval is the output of  *)
(* an installation that stands.                                            *)
IOFailure(p) ==
  /\ crashes + faults + edits < MaxTroubles
  /\ faults' = faults + 1
  /\ \/ /\ \E code \in FaultCodes(p) : Fail(p, code)
        /\ UNCHANGED <<home, lock, temps>>
     \/ /\ At(p, "unlink") /\ <<p, Current(p)>> \in temps
        /\ ClaimPublished(p)
        /\ UNCHANGED <<home, lock, temps>>
     \/ LoseLock(p, "config", "lockconfig")
     \/ LoseLock(p, "cli", "lockcli")
     \/ LoseDirectory(p)
     \/ SkipRemoval(p)
  /\ UNCHANGED <<swept, crashes, edits>>

Running(p) == call[p].pc \notin {"idle", "done", "dead"}

Crash(p) ==
  /\ Running(p)
  /\ crashes + faults + edits < MaxTroubles
  /\ crashes' = crashes + 1
  /\ Go(p, [Fresh EXCEPT !.pc = "dead", !.committed = call[p].committed,
                         !.ver = call[p].ver])
  /\ UNCHANGED <<home, lock, temps, swept, faults, edits>>

(* Someone removes a lock whose maker is no longer running.                *)
ClearOrphan(l) ==
  /\ lock[l] # Nothing /\ ~Running(lock[l])
  /\ lock' = [lock EXCEPT ![l] = Nothing]
  /\ UNCHANGED <<home, temps, call, damage>>

(* Someone replaces, changes in place, or removes a managed file; the      *)
(* locks are not for people.                                               *)
Edit(f) ==
  /\ crashes + faults + edits < MaxTroubles
  /\ edits' = edits + 1
  /\ Exists(Above(f))
  /\ \E x \in Made \union {Nothing} :
       /\ x # file[f]
       /\ x # Nothing => \/ x.id = Someone
                         \/ file[f] # Nothing /\ x.id = file[f].id
       /\ file' = [file EXCEPT ![f] = x]
  /\ call' = [p \in Installers |->
                IF At(p, "remove") /\ Last(call[p].created).file = f
                THEN [call[p] EXCEPT !.swapped = TRUE] ELSE call[p]]
  /\ UNCHANGED <<dir, lock, temps, swept, crashes, faults>>

(* Someone cleans up temporary files while they are in use.                *)
SweepTemp ==
  /\ crashes + faults + edits < MaxTroubles
  /\ edits' = edits + 1
  /\ \E t \in temps : temps' = temps \ {t}
  /\ swept' = TRUE
  /\ UNCHANGED <<home, lock, call, crashes, faults>>

-----------------------------------------------------------------------------

Step(p) ==
  \/ Classify(p, "scan", "lockconfig")
  \/ LockConfig(p)
  \/ EnsureDirectory(p, Cli, "lockdirs", "lockcli")
  \/ LockCli(p)
  \/ Classify(p, "rescan", "sources")
  \/ CheckSources(p)
  \/ EnsureDirectory(p, Current(p), "ensure", "stage")
  \/ StageTemp(p)  \/ Link(p)  \/ Unlink(p)  \/ RecordCreated(p)  \/ Poll(p)
  \/ Verify(p)
  \/ UndoLook(p)   \/ UndoRemove(p)  \/ RemoveTemp(p)
  \/ UnlockCli(p)  \/ UnlockConfig(p)
  \/ RemoveDirectory(p)  \/ Finish(p)

Next ==
  \/ \E p \in Installers :
       Begin(p) \/ Step(p) \/ Interrupt(p) \/ IOFailure(p) \/ Crash(p)
  \/ \E l \in Locks : ClearOrphan(l)
  \/ \E f \in Files : Edit(f)
  \/ SweepTemp

Spec == Init /\ [][Next]_vars

-----------------------------------------------------------------------------
(* Properties.                                                             *)

(* Only an invocation that has both locks changes managed files, through   *)
(* the installation, its undoing, and the orphaned locks of dead ones.     *)
WritesUnderLocks ==
  [][file' # file /\ edits' = edits =>
       \E p \in Installers :
          /\ call'[p] # call[p]
          /\ \A l \in Locks : lock[l] = p]_vars

(* An installation that stands is complete and of one version, and nothing *)
(* another invocation does, finishes or takes back makes it less; only     *)
(* people can.                                                             *)
InstalledStays ==
  edits = 0 =>
    \A p \in Installers : call[p].committed =>
      \A f \in Files : file[f] # Nothing /\ file[f].ver = call[p].ver

(* Nothing is overwritten, and nothing is removed but a file with the      *)
(* content this invocation published, unless it was put there in the       *)
(* instant between the last look at it and its removal.                    *)
OthersFilesKept ==
  [][\A f \in Files :
       file[f] # Nothing /\ file'[f] # file[f] /\ edits' = edits =>
         /\ file'[f] = Nothing
         /\ \E p \in Installers :
              /\ At(p, "remove") /\ ~At(p, "remove")'
              /\ file[f].ver = call[p].ver \/ call[p].swapped]_vars

(* An invocation that ends with anything but rollback_failed leaves no     *)
(* lock and no temporary file, and unless its installation stands, none of *)
(* the files and directories it made.  It takes somebody else's hand on a  *)
(* temporary file to make it forget.                                       *)
LeavesNothing ==
  \A p \in Installers :
    At(p, "done") /\ call[p].code # "rollback" /\ ~swept =>
      /\ \A l \in Locks : lock[l] # p
      /\ \A t \in temps : t[1] # p
      /\ call[p].committed
         \/ /\ \A f \in Files : file[f] # Nothing => file[f].id # p
            /\ \A d \in Dirs : dir[d] # p
=============================================================================
