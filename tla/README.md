# sensai: specifications and proofs

TLA+ models of **sensai**, the Go command line program under `src/cmd/sensai`,
and of the jq rules it ships in `src/output/recipes`. The modules are checked on
small instances with TLC; the results that matter most are proved with TLAPS for
every value of the constants.

sensai keeps a *mission*: the analysis of somebody's sources, in six phases
F0..F5, recorded in a directory `docs/analysis/missions/<id>/` as
`progress.json` (the state of the analysis), `trace.json` (its evidence) and
`status.md` (a rendering of the progress). The program is a short-lived process.
There is no daemon and no database: everything two calls have in common is the
file system, and all coordination is by `mkdir`, by a rename, and by comparing
hashes.

## 1. Inventory

| Component | State it keeps | Operations | Code |
|---|---|---|---|
| Progress rules | none (pure) | document, transition and resume modes; the Go checks around them | `output/recipes/progress.jq`, `mission_validate.go` |
| Mission store | `progress.json`, `status.md`, `.sensai-lock/` with `owner.json`, receipts | `mission checkpoint`, `resume`, `status` | `mission_checkpoint.go`, `mission_resume.go`, `mission_store.go`, `mission_validate.go` |
| Mission init | the mission directory, `.sensai-init-<id>.lock`, a staging directory | `mission init` | `mission_init.go` |
| Mission clock | `updated_at` in `progress.json`; reads the wall clock | `utcNowAfter`, the rule on `updated_at` | `mission_core.go`, `progress.jq` |
| Target hash, path inspection | none; reads a directory tree | `hashTarget`, `resolveProjectPath`, `inspectPathComponents` | `mission_core.go`, `package.go` |
| Trace rules | none (pure) | integrity of the evidence graph | `output/recipes/trace.jq` |
| Installer | installed files, `opencode.json`, target lock and global lock | `install` | `package_install*.go` |
| Stage | the target directory, a work directory and a lock beside it | `stage` | `package_stage.go`, `package.go` |
| Runtime assets, overlay | reads `.sensai/{schemas,recipes}` of the project and the global configuration | choose the layer, check the content | `runtime_assets.go`, `runtime_mission.go` |
| Runtime layout, source contract | none | locate the project, compare the list of files with the manifest | `runtime.go`, `runtime_source.go` |
| Doctor | none | probe the tools | `doctor.go`, `doctor_models.go` |
| CLI dispatch, errors, signals | exit code, cancelled context | parse, dispatch, map errors to 0/64/65/69/73/75/130 | `cli.go`, `cli_error.go`, `main.go`, `signal_*.go` |
| Agents, commands, skills, schemas | none (prose) | read by a language model | `output/**` |

How they interact. A checkpoint or a resume takes the mission lock, reads and
validates progress and trace through the *rules* (it runs jq), fingerprints the
sources (*target hash*, *gitHead*), compares receipts, writes temporary files,
and renames them over `progress.json` and `status.md`. `status` does the reading
half with no lock. `init` makes what they all start from. Every mission command
first resolves the schemas and recipes it works by (*runtime assets*): a project
may override them, the global configuration has the rest, and both may be edited
between the look and the use. The *installer* puts the global ones in place and
*stage* makes a copy of a checkout to install from; neither touches missions. An
analyst (a person or a language model) chooses the candidate documents and the
order of the calls; a human writes the approval receipts; both are outside the
program and modelled as an environment that may do anything well-formed.

What is hard about it, and which properties answer it:

* **Writers race.** Two checkpoints, a checkpoint and a resume. The lock and a
  hash comparison must make each commit a compare-and-swap (`LockDiscipline`,
  `ImplementsLedger`).
* **A commit is two renames**, and a third party reads between them
  (`StatusTracksProgress`, `StaleMeansRace`).
* **State is read, checked and used later**: the file is read twice (once to
  decode, once for its hash), the sources are hashed before the trace, the lock
  is looked at before the rename, the result is hashed after the lock is gone
  (`PinnedCommitFollowsBase`, `FingerprintsFrozen`, `RobbedNeverCommits`,
  `ReportNotOlder`).
* **Any step fails, is interrupted or is the last one before a kill**; deferred
  cleanup must free the lock if it is the call's own and leave it if it is not
  (`NoOrphanLock`, `LockFreed`, `ExitCodeHonest`, `NothingLeftBehind`,
  `PublishedWhole`).
* **The rules are local, what they promise is global**: the recipe looks at two
  consecutive documents, yet what one wants is that no history of documents gets
  past a human gate (`GateOrder`, `NoPhaseSkipped`).
* **The world outside changes between a look and a use**: assets of two layers,
  the analysed sources, a wall clock that is set back (`NoFallThrough`,
  `OwnWritesUnseen`, `SelfTargetStuck`, `ShortLeadWaitedOut`, `CallEnds`).
* **A checkout is copied while people edit it**, file by file, beside other
  calls for the same target (`PublishedIsSnapshot`, `ImplementsPublication`,
  `StageExitHonest`, `StageLeavesNothing`).
* **The installer rolls back** a half-done installation beside other installers
  and other people's edits (`InstalledStays`, `LeavesNothing`,
  `OthersFilesKept`, `WritesUnderLocks`).

`PROJECT.json` lists every hazard at the line where it bites.

## 2. Modules

```
ProgressRules              pure: the jq rules and the Go checks around them
   |
MissionLedger              abstract: one head, compare-and-swap, human approvals
   |        \__ MissionLedgerProofs
MissionStore               detailed: files, lock, steps of calls, crashes, thefts
   |        \__ MissionStoreProofs -> MissionLockProofs, MissionLedgerRefinement
MissionInit                where missions come from
            \__ MissionInitProofs
InstallTransaction         install: locks, publication, rollback
            \__ InstallTransactionProofs
StagePublish               stage: a copy of a moving checkout, published once
            \__ StagePublishProofs
Publication                abstract: one path, one maker for good; MissionInit and
                           StagePublish implement it
TargetHash                 pure: which files a digest is of
   |
MissionInputs              what a mission call takes from outside: assets, sources, clock
            \__ MissionInputsProofs
MC*.tla, *.cfg             instances for TLC
```

### ProgressRules

Operators only. `ProgressValid` is the document mode of `progress.jq`,
`TransitionValid` the transition mode, `ResumeValid` the resume mode;
`ReceiptsMatch` is `validateApprovals` and `PreconditionsHold` is
`requireMissionPreconditions` of `mission_validate.go`. Abstractions: a
fingerprint record has two fields, `inputs` and `trace`, the two that receipts
are bound to. `git_head` and the toolchain are left out: the preconditions and
the transition hold them against what was observed as they do `inputs`, receipts
say nothing of them. Phases, statuses and gates are the code's; an approval is a
record of gate, verdict, time and the fingerprints it was given for. Left out,
too, are titles, notes, and `updated_at` with the rules on it: that an approval
is not recorded later than the document is written, and that a successor's stamp
is later (which is in MissionInputs). What is left out could only refuse more
documents, so these rules allow what the program allows, and more.

### MissionLedger

The promise: a `head` document that only a legal successor of exactly that head
replaces, with the same fingerprints, and approvals that humans issued for
these. `Append` and `Issue` are the only actions. `GateOrder` and
`NoPhaseSkipped` are about all histories of these.

### MissionStore

One mission directory. `progress`, `status`, `lockDir` and `owner` are the disk,
`world` is the sources and the trace as they are, `files` the receipts at the
gates' paths; `call[w]` is the local state of a process that runs checkpoint or
resume, `look[r]` that of a `status` call. A call is one action per read or
write of the disk, in the code's order:

| pc after it | action | code |
|---|---|---|
| `locked` | `AcquireLock`, or `LockBusy` (75) | `acquireLock`, mkdir |
| `loaded` | `LoadActive` | `validateTrace`, `loadProgress` |
| `pinned` | `HashActive` | `hashFile`, then the comparison with the expected hash and revision on the command line |
| `recorded` | `RecordLock` | `record`: owner.json |
| `verified` | `VerifyLock` | `verify` and the test hook |
| `drafted` | `LoadCandidate` / `CheckTerminal` | checkpoint / resume |
| `observing`, `approving` | `ObserveInputs`, `ObserveTrace` | `observe`, `requireMissionPreconditions` |
| `staged` | `Validate` | approvals, resume mode, transition mode, temporary files |
| `rehashed`, `cleared` | `Rehash`, `Recheck` | last look at file and owner |
| `replaced`, `published` | `CommitProgress`, `CommitStatus` | the two renames |
| `unlinking`, `rmdir`, `released` | `BeginRelease`, `RemoveOwner`, `RemoveDir` | `release` |
| `done` | `Report` | the hash that is printed |
| `failing` | `Cleanup` | the deferred `cleanup` |

A `status` call reads in four steps: `ReadProgress`, `LookAtInputs`, `CheckWorld`
(`observe` hashes the sources before the trace) and `CompareView`.

Whatever may happen to a call: `Interrupt` at the steps that poll the context
(the last time after the lock was verified again and before the rename),
`IOFailure` at every file operation, `Crash` anywhere. Around it: `Drift` edits
the sources, `WriteReceipt` is the human, `ClearOrphan` removes the lock of a
dead call, `StealOwner` and `RemoveLockByHand` are what the documents forbid
(`output/commands/sensai/run.md:24`, `resume.md:21`) and what the owner record
exists to survive.

Abstractions: a file hash is a pair of the revision and the writer. A writer
that commits revision n twice (which a stolen lock makes possible) produces the
same pair twice, so the theft run takes equal documents for equal; the code
compares only hashes there too. Temporary files are left out: their names are
random and only their maker uses them. Every failure of `mkdir` is the busy
lock: the code gives all of them 75. `status.md` is represented by the hash of
the document it was rendered from.

### MissionInit

Several `mission init` calls for one id, and a stranger that makes a directory of
that name. The call observes the target, checks that nothing is there, takes the
init lock, stages three files, looks once more, renames the staging directory
without replacing anything, gives the lock back and hashes what is now at the
path (a checkpoint by another call may already have moved it on). Deferred
cleanup runs on every early return and not on a kill.

### Publication

The promise that `mission init` and `stage` make of the path they write to, and
that the rename without replacement (`publishDirectoryNoReplace`) is for: while
nothing is there somebody may put something there, a call only what is genuine
(a whole mission; what is `Publishable` of the checkout); afterwards it stays.
Every call that ends says that it made it (`ok`), that it did not (`refused`),
or leaves it open (`unknown`: a kill, or an exit code that tells nothing), and
it never lies. Both modules map their exit codes to these three (`Outcome`) and
implement it (`ImplementsPublication`), with no word about the locks: those keep
calls from working in vain, the promise does not need them.

### InstallTransaction

Invocations of `install`, each of one version of the managed files, into one
home. `file` and `dir` are the managed files and the directories above them,
each with the identity of its maker (what `os.SameFile` compares) and, for files,
their content; `lock` is the two lock directories, `temps` the temporary files.
A call classifies the targets file by file (`scan`), takes the lock in the
config root, makes `~/.local/bin`, takes the lock there, classifies again
(`rescan`), looks at the sources once more, and publishes the absent files one
by one: directories (`ensure`), temporary file (`stage`), link, removal of the
temporary file (`unlink`), journal (`record`), a poll of the context. After
`verify` it stands. Every way out passes `finish()`: undo in reverse, temporary
file, CLI lock, config lock, directories in reverse. A step of `finish` that
fails is noted and turns the result into `rollback_failed`. The removal of a file is
two steps, the look at inode and hash and the removal by path, because people
edit between them. `Homes` are the states an installation may find.

Abstractions: the look at a directory and its `mkdir` are one step (directories
are made under the config lock alone, so what is found missing stays missing); a
file, a directory and a lock are each known by their maker, as if the number of
a removed inode were not given out again; the private copy of the source tree
and its directory (nobody else uses it; its removal can fail); the checks of the
home directory and of the source contract, which come before anything is
written; symbolic links. On Windows publication is one `MoveFileEx`; the Unix
link and removal modelled here has every behaviour of it and more. A failure
inside the handling of another failure of the same step is not modelled.

### StagePublish

Several calls of `stage` for one target, the checkout they copy from, and a
stranger who may make something at the target's path. A call looks at the path,
takes the lock beside it, makes its work directory, has the source contract
checked (`CheckContract`), reads the manifest for the list of files
(`ReadManifest`), hashes it (`HashManifest`; the contract's check was the first
of three readings), copies file by file, reads all of them a second time
(`VerifyLeaf`), polls its context once, looks at the path again, renames without
replacing, and removes work directory and lock. `Fail` is every early return
with the deferred `cleanupStage`, whose own failure replaces what the call was
about to say.

The checkout is a `log` of trees, the last of them what `output/` is now. An
edit appends any tree of `Checkouts` that differs from it: one file written, or
all at once when another branch is checked out, files missing, contents deleted,
brought back or switched back and forth. What the code compares are hashes, so
it cannot tell a file that is the same at both readings from one that was
another in between. Copy `a` of the first branch, switch, copy `b` of the
second, switch back, verify `a`, switch again, verify `b`: the copy is a
patchwork of two branches and was never a tree. TLC finds just this when
`PublishedIsSnapshot` is stated without its exception, so the property says what
the two readings do give: the copy is a whole tree that `output/` was at one
moment, unless the contents of some file `CameBack` since the call began to copy
(`from`, a history variable); and what is published is in any case made of files
that were in `output/`, each at some moment (`Patchworks`).

Abstractions: a file read while it is written is one that differs in the second
reading; the manifest's list keeps its entries. Modes, the spelling of the
target and its parent are taken as checked.

### TargetHash and MissionInputs

`TargetHash` says which of a project's files a digest depends on: the walk passes
by `.git`, `.omo` and `docs/analysis/missions` when it meets them below its start
and hashes everything when it starts inside one of them. (The first two never
matter: a target must be a path strictly inside the project and the walk of such
a path does not meet the root's `.git`.)

`MissionInputs` is one mission seen from the other side than MissionStore: not
what calls do to each other but what is done to a call. `LookProject`,
`LookGlobal` and `CheckContent` are `resolveOverlayAsset` and the checks after
each asset; `Enter` the directory check and the lock; `ReadMission` the first use
of the recipes, at the paths chosen before; `Observe` the digest of the target;
`LookAtClock` and `Wake` the attempts of `utcNowAfter`; `Commit` the transition
rule on `updated_at` and the new document. Around it, `EditAsset` breaks, removes
or repairs a file of either layer, `EditProject` changes the sources (or puts a
symbolic link among them, `Linked`, at which every walk that meets it ends) or
another mission, `Tick` lets a second
pass and `SetClock` puts the clock anywhere.

Abstractions: calls of the mission follow each other (MissionStore has the
races); an asset is absent, irregular (a directory, say), a symbolic link to a good
file, malformed or good, and all good contents are equal. The look refuses a
link, the readings after it follow one that was put there since, and the
model does the same (`Regular`, `Readable`). A target is a file or a directory, the
empty one included; stamps are whole seconds in one format and zone, so that
they compare as strings as they do as times. A candidate's stamp is anything: an
analyst may write one from the future, and the next resume then waits. The wait
after the last failed attempt is in the code, and in the model. The schema
assets are only checked to be JSON; nothing uses them later. The toolchain's
fingerprint is left out: it is compared as the digest of the target is.

### Operators marked "mistake"

Each module has, directly before some definitions, a variant with a plausible
bug (a dropped guard, a stale value, a missing reset). They are used nowhere in
the models. Put in place of the definition that follows, each makes a property
fail in its run: the evidence that no property here holds by accident.

## 3. Runs

| Run | Configuration | Asks |
|---|---|---|
| Ledger | MCMissionLedger.cfg | Can a legal history get past a human gate or skip a phase? |
| StoreRace | MCStoreRace.cfg | Two writers, one crash, one I/O failure: exclusion, atomicity, honest exit codes, every lock given back, refinement. |
| StoreDrift | MCStoreDrift.cfg | One writer, one reader, sources and receipts changing at any time, a broken trace, a crash: frozen fingerprints, what "stale" tells, refinement. |
| StoreTheft | MCStoreTheft.cfg | Two writers and two thefts: is a stolen lock noticed, do pinned calls stay compare-and-swap? |
| Init | MCMissionInit.cfg | Two callers and a stranger, a crash, a failure, a theft: first mission final, whole, nothing left behind. |
| Install | MCInstall.cfg | Two invocations of one or two versions, an empty or begun home, interrupts, and one kill, I/O failure, edit or swept temporary file: what stands is whole and stays, what fails is taken back, nobody else's file is lost. |
| Stage | MCStage.cfg | Two calls, three edits back and forth between two branches and an empty one, and one kill, failure, theft each, a stranger at the path: is a published tree one that existed, does it stay, do exit codes tell the truth, is anything left behind? |
| Inputs | MCInputs.cfg | Calls of one mission about a directory above the missions, about the missions themselves or about an empty directory; edits of assets and sources, any setting of the clock: overlay, digest, waiting for the clock, and does every call end? |
| StoreDocs | MCStoreDocs.cfg | *Violated*: the documents on candidates with current hashes. |
| StoreFail | MCStoreFail.cfg | *Violated*: the documents on a resume that fails. |
| InitSignal | MCInitSignal.cfg | *Violated*: the documents on exit code 130. |
| InstallSerial | MCInstallSerial.cfg | *Violated*: the documents on installations that run at the same time. |

Bounds, and why they are enough:

* `MaxRevision` bounds the revision past which no call starts. Revision 3 gives
  two commits after init: the shortest history in which a call can hold a pin
  that is two revisions old, lose a race, and retry; and the one that enters F1
  with an approval. The Ledger run, which has no processes, goes to 8, enough
  for F0..F5 and completion.
* Two writers: every property of the store is about one call or a pair of calls,
  and the lock has one holder. The theorems remove the bound for the ones
  proved.
* One crash and one failure in a race, two thefts: one theft can rob a call, the
  second can rob the one that took its place or restore a lock that looks right.
* Two source digests and two trace digests, one of them rejected by `trace.jq`:
  before and after an edit.
* Six receipts in the ledger: a rejection of F0 with a later acceptance that
  overrides it and one at the same time that may not, an F3 acceptance for the
  right and for other sources, and F5. Two in the drift run: for the right and
  for other sources.
* `Drafts` are what the analyst proposes; `Candidates` pairs each with a right
  and a wrong revision, base and fingerprint.
* Three managed files stand for the 36 and the executable: one in the config
  root, one in a directory that has to be made, and the executable two
  directories down where the second lock is. Two versions: an upgrade is a
  conflict, and two versions must never be mixed. `MaxTroubles` bounds kills,
  failures and edits together.
* Stage: two leaves, the fewest with something to edit between one reading and
  the other; `Checkouts` are a branch `x`, a branch `y` that differs from it in
  every file, and one where the files are missing. Three edits, the fewest that
  make a patchwork pass the second reading (there, back and there again), so the
  exception in `PublishedIsSnapshot` happens in the run; `MaxEvents` allows four
  edits, kills, failures and thefts together: a patchwork and one trouble. The
  theorem is for any trees and any number of edits.
* Inputs: one asset of each sort stands for the six (global only, overlaid and
  only checked, overlaid and run by jq); one edit, which is enough to break or
  remove an asset between a look and a use; three attempts instead of four at
  the clock and four seconds, so that a stamp can be ahead by more and by less
  than the attempts wait for. The theorems have no such bounds.
* Symmetry is used in StoreTheft (the writers) and Stage (the calls, and the two
  branches), which check invariants and, in Stage, a refinement that is a
  statement about single steps and treats all calls and contents alike; no
  liveness is checked under symmetry.

The store never deadlocks in these runs even at the last revision because people
can still write receipts or edit sources; the ledger run ends when its revisions
do and an installation when every invocation has run, so these have
`CHECK_DEADLOCK FALSE`.

Fairness. `FairSpec` and MissionInit ask that a call that has begun takes its
next step (weak fairness of the call's own steps, per process): it is a process
that runs to its end, with no loop that waits for another (a busy lock is an
immediate exit 75). Nothing obliges anyone to start a call, to interrupt it, to
clear a lock or to write a receipt. Under that, `LockFreed` says the lock comes
free unless a kill, a failure or a theft is on record, which is the most the code
can promise: it has no lease and no stale-lock detection. In MissionInputs the call
goes on (`WF_vars(Step)`: one process, no lock to wait for in this module) and
time passes (`WF_vars(Tick)`: a sleep of a second ends, however the wall clock is
set meanwhile). `CallEnds` needs both: the loop of `utcNowAfter` ends by its
count of attempts, not by the clock, which may be set back forever.

### Where the code and the documents part

1. **A mission's fingerprints can never change** (StoreDocs).
   `requireMissionPreconditions` (`mission_validate.go:112`) compares the *active*
   document with the sources and the trace as they are now, before the candidate
   is looked at. `run.md:53-56` and `analyze.md:49` tell the analyst to finish
   `trace.json` first and to write a candidate with the current hashes. Any such
   candidate is refused with 75, so a mission whose trace was ever edited is
   stuck. `FingerprintsFrozen` states, and `FingerprintsNeverChange` proves, the
   other side of it.
2. **A failing resume may have committed** (StoreFail). A failure after the first
   rename exits 69 with the new revision in place; `resume.md:50` says that a
   failure changes nothing. `ExitCodeHonest` says exactly how far exit codes can
   be trusted: 0 means committed, 65, 75 and 130 mean not committed, 69 tells
   nothing once a file operation has failed.
3. **An interrupt may exit with 69** (InitSignal). `mission_init.go:37` wraps the
   interrupted error of git as unavailable, and so does `mission_resume.go:88`
   with the clock's; `docs/PRD-go-cli-windows.md:48` says 130.
4. **Installations are not quite serial** (InstallSerial). `finish()` removes the
   locks before the directories (`package_install_transaction.go:189-200`). An
   installation that waited for nothing but the config lock gets in between and
   uses a directory that is about to be removed; the first one then reports
   `rollback_failed`, after which the operations guide
   (`target-repo-preflight-and-operations.md:318`) asks for a manual inspection,
   though nothing went wrong. Line 321 of the same guide says that the lock
   serialises them. `InstalledStays` and `LeavesNothing` hold all the same: no
   installation that stands is hurt, and the leftover is reported.

Two things the properties of the installer state with care. `OthersFilesKept`
excepts a file that somebody puts in place between the look at it and its
removal: POSIX has no removal by identity. `LeavesNothing` excepts temporary files
swept away by somebody else: if one goes between the link and its removal,
`publishedFromTemp` does not recognise the published file, which stays in place
with exit 73 and no word of a failed rollback.

## 4. Proofs

All theorems are checked by `tlapm` with no axioms, no omitted steps and no
assumption other than the `ASSUME`s on constants, which say what they are
(receipts are receipts, bounds are natural numbers, the founder is not a writer).
No theorem bounds the number of writers, readers, callers, receipts, crashes or
revisions.

| Theorem | Module | Argument |
|---|---|---|
| `LedgerTypeCorrect`, `GatesHoldInOrder`, `PhasesAreNotSkipped` | MissionLedgerProofs | `LedgerInv`: types, approvals are issued and bound to the head's fingerprints, phase < revision, and the gates behind the phase are accepted. The recipe checks a gate on the one step that leaves it; `AcceptanceSurvives` carries the acceptance over later steps, from the rule that history keeps approvals. |
| `StoreTypeCorrect` | MissionStoreProofs | `TypeInv` is `TypeOK` with what typing needs of the numbers: the revision in the file is at least 1 (an analyst may name its predecessor), a call that pinned the file has a hash, and a staged candidate's revision is at least 1. One lemma per group of steps. |
| `LockExcludes` | MissionLockProofs | `LockDiscipline` is inductive together with `TypeInv`: a holder's step keeps everyone else from holding (only the holder of `lockDir` removes it), an outsider's step needs `~lockDir`. No theft is the hypothesis in it. |
| `LockIsNeverOrphaned`, `TheRobbedNeverCommit`, `StoreExitsAreHonest` | MissionLockProofs | `PromiseInv` beside `LockDiscipline`: of one call, what its pc and exit code say about its commit, its record and a theft (`CallPart`); of the lock, whose record is in it, and that a robbed call does not find its own there (`OwnerPart`). A robbed call fails at `VerifyLock` or `Recheck`, before it can rename. |
| `FingerprintsNeverChange` | MissionLedgerRefinement | `FrozenInv` follows the founding fingerprints from the file into `active`, through the precondition check into `seen`, through `TransitionValid` into `cand`, and back; approvals follow from `ReceiptsMatch` and from receipts having been issued. It holds with thefts and crashes. |
| `GatesHoldOnDisk`, `PhasesHoldOnDisk` | MissionLedgerRefinement | The ledger's two invariants of the file, with no word about thefts. The refinement cannot give them then: two calls that rob each other may commit the same revision twice. But what `FrozenInv` says of a document (`Bound`) includes what the document has earned (`Earned`: the gates behind its phase are accepted in its own approvals, phase < revision), which is told from the document alone; a successor earns what it has from its pinned predecessor (`SuccessorEarns`), whichever document is in place by then. |
| `StatusFollowsProgress`, `ReportIsNotOlder`, `PinnedCommitsFollow`, `StaleViewsAreRaces` | MissionLedgerRefinement | `HeadInv` on top of `FrozenInv`: what a call has checked of its documents among each other (`PinPart`), that without thefts what it has read is still what is on disk and what it wrote or reports is not ahead of it (`HeadPart`), and that `status.md` renders the document in place unless a call is between its two renames or was stopped there. A reader that says "stale" read the two files around such a pair. |
| `StoreImplementsLedger` | MissionLedgerRefinement | The refinement, without thefts (`MaxThefts = 0` in the statement): `CommitProgress` is a step of `Append`, because the lock and `Recheck` make the pinned document the one in place and `TransitionValid` was asked of exactly that pair; `WriteReceipt` is `Issue`; everything else stutters. |
| `InitTypeCorrect`, `OneBuilderAtATime`, `MissionsAreWhole` | MissionInitProofs | The same shape: types; exclusion without thefts; `WholeInv`, in which a staging directory has the files its call's pc says and a published one has all three. |
| `InitImplementsPublication`, `StageImplementsPublication` | MissionInitProofs, StagePublishProofs | The publishing step is `Publication`'s `Publish`, because at it the stage is complete (`WholeInv`) respectively the copy is `Publishable` (`SnapInv`), and because what is `Publishable` stays so as the log grows; every other step of a call leaves its outcome or ends it, and `HonestInv` says that the code it ends with fits whether it published. |
| `InitExitsAreHonest`, `InitCleansUp` | MissionInitProofs | `HonestInv` says per pc what a call has published and knows of it, `TidyInv` that without damage a lock or a staging directory belongs to a call whose pc will still remove it. |
| `StageTypeCorrect` | StagePublishProofs | Types. |
| `PublishedTreesExisted` | StagePublishProofs | The two readings sandwich a moment: the one, `m`, at which the first of them ended. Each leaf of the copy was in `output/` at a moment from `from` to `m` and, once read again, at a moment from `m` on (`Was`, `Between`). `ReadTwice`: then either every leaf was there at `m` too, and the copy is the tree `log[m]`, or some leaf was another at `m` and `CameBack`. Without that exception the statement is false of the code. |
| `StageExitsAreHonest`, `StageCleansUp` | StagePublishProofs | Per call: what its `code`, `published` and `pc` say about the target, the manifest's versions and the work directory; for the lock, that without damage some call is between its making and its removal. |
| `InputsTypeCorrect` | MissionInputsProofs | Types, with the shape of the call's record and with room for the next revision while a call runs. |
| `BrokenOverlayStops` | MissionInputsProofs | `AssetsInv`: of the assets up to the one in hand each overlaid one is `Settled` (taken from the project when a regular file was there, and read when it could be, or from the global layer after it was absent), `past` knows every state the project's file had meanwhile, and the one in hand has been looked for in the project if the global layer is asked. It needs that no asset is listed twice. |
| `ShortLeadNeverFails` | MissionInputsProofs | `ClockInv`: as long as the clock is not set back, the n-th attempt sees a second at least n after the first, and a call waits only behind a stamp that is ahead of it; so giving up after n attempts takes a stamp n - 1 ahead. |
| `OwnWritesNeverSeen` | MissionInputsProofs | The digest depends on the project's other files only (`DigestOfForeign`): a walk that meets a file of the mission starts above the directory of all missions, where it is cut off, or starts at that directory or inside the mission, which `AboutItself` excepts. |
| `SelfTargetNeverContinues` | MissionInputsProofs | `SelfInv`: `mission init` binds a digest that cannot have the mission's own document in it, and the digest any later call takes does, so none gets past the comparison. |
| `InstallTypeCorrect`, `WritesNeedLocks`, `InstallationsStand` | InstallTransactionProofs | `InstallInv` says of one invocation that both locks are its own from the rescan to the verification and while its journal has a file to take back (`Placed`, `Held`), so no two are there at once; of a verification, that what it has seen stays (`Verified`); and of an installation that stands, that nobody else is between a link and its record or has a journal (`Stands`), so that nobody can take a file back. `QuietStep` settles every step that writes no managed file; `Link`, `UndoRemove` and the commit have lemmas of their own. |
| `FailuresCleanUp` | InstallTransactionProofs | `TidyInv`: everything on the disk that an invocation made is in the list `finish()` will go through, or the file is the one between its link and its record (`Listed`), and the steps of `finish()` find these lists emptied one after the other (`Phased`). A step that fails, or something made and then lost, sets `failed` or the code `rollback`; only a swept temporary file is lost without a word. |
| `OthersFilesStay` | InstallTransactionProofs | `Poised`: what an invocation is about to remove is still there with the content it published, unless somebody edited it since the look. No other invocation can have touched it: both locks are held. |
| `StoreCallsRunDown`, `InitCallsRunDown`, `StageCallsRunDown` | MissionLockProofs, MissionInitProofs, StagePublishProofs | `RunsDown` in each of them: a rank of the call's pc (for `stage` with two for each leaf still to be copied or read again), at most 19, 13 and 12 + 2 * `LeafCount`, goes down with every step of the call, with its failures and with a kill, and no other process raises it. |
| `InstallCallsRunDown` | InstallTransactionProofs | The number of files, directories and journal entries is not bounded, and the journal grows on the way forward, so the measure is a triple in lexicographic order: the part of the installation, what is left of it (files, entries, directories), and within a file what is left of its path and its steps. `BelowIsWellFounded` says that this order has no infinite way down; `GoingLowers` goes through the steps, one lemma per group; `OthersKeepMeasure` through everybody else's. |

The `...RunDown` theorems are what can be proved of termination: no call loops,
starts over or is put back, whatever the schedule. They do not say that a call which
runs has a step to take, nor that it takes it: that is `ENABLED` and fairness,
which TLC checks for the store, `mission init` and mission inputs. For `stage` and
`install` no fairness is stated and no run asks for it.

The refinement of the ledger has as its hypothesis that nobody steals the lock
(`MaxThefts = 0`); the other theorems on the store hold with thefts, kills and
failures, and where these matter the property says so itself. The theorems on
`install` assume that a home has nothing of an invocation in it before it runs
(`Theirs`), that `Nothing` is no file, and that the config root is not one of
the directories it makes.

What is only model-checked:

* `LockFreed`, `InitLockFreed` and `CallEnds`: liveness, and the `ENABLED` in its
  fairness, are outside the prover. The half without fairness, that a call takes
  only so many steps, is proved (`StoreCallsRunDown` and its like).
* What a recursive definition computes for every input would need induction with
  an operator as a parameter. The models have none: loops of the code
  are actions, one per round.


## 5. Plan

Done: the store and its refinement of the ledger; `mission init`; `install`;
`stage`; the clock, the assets and the digest as a mission call meets them.
Every invariant, every action property and every refinement of a passing run is
proved for all values of the constants, and so is the bound on the steps of
every call of the commands that write.

What is left, in this order:

1. The rules of `progress.jq` on identity, todo and provenance, as further
   conjuncts of `ProgressValid` and `TransitionValid`. They compare fields of two
   documents; they are worth it once a property depends on them.
2. `resolveProjectPath` beside somebody who replaces a component of the path by a
   symbolic link between its inspection and its use.
3. `InstallTransaction` with the rename of Windows in place of link and removal, as
   an abstract step that the Unix one is shown to implement.

### Not modelled, and why

* **Trace rules** (`trace.jq`): joins over one immutable document. MissionStore
  knows a trace as accepted or refused; nothing takes a second step.
* **Doctor**: runs tools one after the other and prints; it changes nothing.
* **CLI dispatch, errors, signals**: a table from arguments to functions. The exit
  codes and the interrupts are in the modules of the commands.
* **Runtime layout**: a lookup of paths from the executable's own, with no state.
  The source contract is in StagePublish as `CheckContract`.
* **Agents, commands, skills, schemas**: prose and data for a language model. What
  they say of the program is what the *violated* runs check.
* **Tests and fixtures**: read as a reference.
* In the modules that exist: message texts, the layout of JSON and of `status.md`,
  permissions, and the spelling of arguments: no property here depends on them.
