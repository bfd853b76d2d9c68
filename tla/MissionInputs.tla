----------------------------- MODULE MissionInputs -----------------------------
(***************************************************************************)
(* What a mission call takes from outside its mission directory: the       *)
(* schemas and recipes, from the project or from the global configuration  *)
(* (runtime_assets.go, runtime_mission.go), the digest of the analysed     *)
(* target, and the wall clock (mission_core.go).  All of them change while *)
(* a call runs.  Calls of one mission follow each other here: MissionStore *)
(* says what the lock makes of calls that do not.                          *)
(*                                                                         *)
(* Operators marked "mistake" are not part of the model; see MissionStore. *)
(***************************************************************************)
EXTENDS TargetHash

CONSTANTS
  Chain,       (* the assets, in the order they are resolved, global first *)
  Overlay,     (* those a project may override: .sensai/{schemas,recipes}  *)
  Recipes,     (* those of them that jq runs                               *)
  Targets,     (* the paths a mission may be about                         *)
  NoDigest,
  MaxAttempts, (* looks at the clock: 4                                    *)
  MaxTime, MaxRevision, MaxEdits   (* bounds                               *)

Assets == {Chain[i] : i \in DOMAIN Chain}
Layers == {"project", "global"}
States == {"absent", "irregular", "linked", "malformed", "good"}

(* A link to a good file is no regular file, but reads like one.           *)
Regular  == {"malformed", "good"}
Readable == {"linked", "good"}

Times  == 1..MaxTime

(* The version of the sources whose guide is a symbolic link.              *)
Linked == 0

ASSUME InputsAssumption ==
  /\ Len(Chain) \in Nat \ {0} /\ DOMAIN Chain = 1..Len(Chain)
  /\ \A i, j \in DOMAIN Chain : Chain[i] = Chain[j] => i = j
  /\ Chain[1] \notin Overlay
  /\ Recipes \subseteq Overlay /\ Overlay \subseteq Assets
  /\ Targets \subseteq Seq(STRING)
  /\ MaxAttempts \in Nat \ {0} /\ MaxTime \in Nat \ {0}
  /\ MaxRevision \in Nat \ {0} /\ MaxEdits \in Nat

VARIABLES
  asset,      (* the state of each file, per layer                         *)
  sources,    (* the analysed sources as they are                          *)
  other,      (* revision of another mission beside this one               *)
  target,     (* what this mission is about                                *)
  revision,   (* of its progress.json; 0: mission init has yet to run      *)
  stamp,      (* updated_at in it                                          *)
  bound,      (* the digest in it                                          *)
  now,        (* the wall clock, in whole seconds                          *)
  call,       (* the running or last call                                  *)
  edits

mission == <<target, revision, stamp, bound>>
world   == <<asset, sources, other, edits>>
vars    == <<mission, world, now, call>>

Kinds == {"init", "checkpoint", "resume"}
UnderLock == {"reading", "observing", "clock", "waiting", "committing"}
Preparing == {"project", "global", "content"}
Pcs == {"done", "entering"} \union Preparing \union UnderLock
Codes == {"none", "ok", "data", "temporary", "unavailable", "behind",
          "interrupted"}   (* "behind" is 69, too *)

(* at: index of the asset in hand; from: the layer each was taken from;    *)
(* past: the states each project file has had while the assets were        *)
(* resolved; next: the new stamp; began: the clock at the first look;      *)
(* setBack: it went back since; woken: a second of the wait has passed.    *)
Idle ==
  [pc |-> "done", kind |-> "init", code |-> "none", at |-> 1,
   from |-> [a \in Assets |-> "none"], past |-> [a \in Assets |-> {}],
   seen |-> NoDigest, next |-> 0, tries |-> 0, began |-> 0,
   setBack |-> FALSE, woken |-> FALSE]

Locked == call.kind # "init" /\ call.pc \in UnderLock

Own   == Append(Missions, "own")
Files ==
  {<<"app", "main">>, <<"docs", "guide">>, Missions \o <<"other", "progress">>}
    \union (IF revision > 0 THEN {Append(Own, "progress")} ELSE {})
    \union (IF Locked THEN {Append(Own, "owner")} ELSE {})

(* The files of the project and what they hold.                            *)
Tree ==
  [p \in Files |-> CASE IsPrefix(Append(Missions, "other"), p) -> other
                     [] IsPrefix(Own, p) -> revision
                     [] OTHER -> sources]

TypeOK ==
  /\ asset \in [Layers -> [Assets -> States]]
  /\ sources \in Nat /\ other \in Nat /\ edits \in Nat
  /\ target \in Targets
  /\ revision \in 0..MaxRevision /\ stamp \in Times \union {0}
  /\ now \in Times
  /\ call.pc \in Pcs /\ call.kind \in Kinds /\ call.code \in Codes
  /\ call.at \in DOMAIN Chain
  /\ call.from \in [Assets -> Layers \union {"none"}]
  /\ call.past \in [Assets -> SUBSET States]
  /\ call.next \in Times \union {0} /\ call.began \in Times \union {0}
  /\ call.tries \in 0..(MaxAttempts - 1)
  /\ call.setBack \in BOOLEAN /\ call.woken \in BOOLEAN

Init ==
  /\ asset \in {[l \in Layers |-> [a \in Assets |->
                   IF l = "global" \/ a \in own THEN "good" ELSE "absent"]] :
                   own \in SUBSET Overlay}
  /\ sources = 1 /\ other = 1
  /\ target \in Targets
  /\ revision = 0 /\ stamp = 0 /\ bound = NoDigest
  /\ now = 1
  /\ call = Idle
  /\ edits = 0

Goto(pc) == call' = [call EXCEPT !.pc = pc]

(* Only the outcome of a call is left of it.                               *)
Exit(code) == call' = [Idle EXCEPT !.code = code]

GiveUp == call' = [Idle EXCEPT !.code = "behind", !.began = call.began,
                               !.setBack = call.setBack]

-----------------------------------------------------------------------------
(* prepareMission: the assets one by one.                                  *)

Begin(kind) ==
  /\ call.pc = "done"
  /\ revision < MaxRevision /\ stamp < MaxTime
  /\ call' = [Idle EXCEPT !.pc = "global", !.kind = kind,
                          !.past = [a \in Assets |-> {asset["project"][a]}]]
  /\ UNCHANGED <<mission, world, now>>

Chosen == Chain[call.at]

(* mistake: a project file that is no regular file counts as none          *)
LookProjectLeniently ==
  /\ call.pc = "project"
  /\ IF asset["project"][Chosen] \notin Regular
     THEN Goto("global")
     ELSE call' = [call EXCEPT !.pc = "content", !.from[Chosen] = "project"]
  /\ UNCHANGED <<mission, world, now>>

(* resolveOverlayAsset: only an absent project file leaves the choice to   *)
(* the global layer.                                                       *)
LookProject ==
  LET state == asset["project"][Chosen] IN
  /\ call.pc = "project"
  /\ CASE state = "absent" -> Goto("global")
       [] state \in Regular ->
            call' = [call EXCEPT !.pc = "content", !.from[Chosen] = "project"]
       [] OTHER -> Exit("data")
  /\ UNCHANGED <<mission, world, now>>

LookGlobal ==
  /\ call.pc = "global"
  /\ IF asset["global"][Chosen] \in Regular
     THEN call' = [call EXCEPT !.pc = "content", !.from[Chosen] = "global"]
     ELSE Exit("data")
  /\ UNCHANGED <<mission, world, now>>

(* What is at the path chosen by now.                                      *)
Usable(a) == asset[call.from[a]][a] \in Readable

(* requireJSONPath, or jq compiles the recipe: neither asks again whether  *)
(* the file is a regular one.                                              *)
CheckContent ==
  /\ call.pc = "content"
  /\ CASE ~Usable(Chosen) -> Exit("data")
       [] Usable(Chosen) /\ call.at = Len(Chain) -> Goto("entering")
       [] OTHER -> call' = [call EXCEPT
                              !.at = @ + 1,
                              !.pc = IF Chain[call.at + 1] \in Overlay
                                     THEN "project" ELSE "global"]
  /\ UNCHANGED <<mission, world, now>>

-----------------------------------------------------------------------------
(* The call proper.                                                        *)

(* requireMissionDirectory, then the lock.                                 *)
Enter ==
  /\ call.pc = "entering"
  /\ CASE call.kind = "init" -> Goto("observing")
       [] call.kind # "init" /\ revision > 0 -> Goto("reading")
       [] OTHER -> Exit("data")
  /\ UNCHANGED <<mission, world, now>>

RulesUsable == \A a \in Recipes : Usable(a)

(* validateTrace and loadProgress run the recipes at the paths chosen.     *)
ReadMission ==
  /\ call.pc = "reading"
  /\ IF RulesUsable THEN Goto("observing") ELSE Exit("data")
  /\ UNCHANGED <<mission, world, now>>

(* An empty directory, too, is there to be hashed.                         *)
Paths == Files \union {<<"docs", "drafts">>}

(* The walk ends at the first link it meets.                               *)
LinkMet == sources = Linked /\ <<"docs", "guide">> \in Hashed(target, Files)

(* The target must be what the mission is bound to; mission init binds it. *)
(* A candidate comes with the stamp its author gave it.                    *)
Observe ==
  LET seen == Digest(target, Tree) IN
  /\ call.pc = "observing"
  /\ CASE LinkMet \/ ~Present(target, Paths) -> Exit("data")
       [] call.kind # "init" /\ seen # bound -> Exit("temporary")
       [] call.kind = "checkpoint" /\ seen = bound ->
            \E at \in Times :
               call' = [call EXCEPT !.pc = "committing", !.next = at]
       [] OTHER -> call' = [call EXCEPT !.pc = "clock", !.seen = seen,
                                        !.began = now]
  /\ UNCHANGED <<mission, world, now>>

(* utcNowAfter.                                                            *)
LookAtClock ==
  /\ call.pc = "clock"
  /\ call' = IF call.kind = "init" \/ now > stamp
             THEN [call EXCEPT !.pc = "committing", !.next = now]
             ELSE [call EXCEPT !.pc = "waiting"]
  /\ UNCHANGED <<mission, world, now>>

(* mistake: the attempts are not counted                                   *)
WakeForever ==
  /\ call.pc = "waiting" /\ call.woken
  /\ call' = [call EXCEPT !.pc = "clock", !.woken = FALSE]
  /\ UNCHANGED <<mission, world, now>>

(* mistake: one attempt less                                               *)
WakeShort ==
  /\ call.pc = "waiting" /\ call.woken
  /\ IF call.tries + 2 = MaxAttempts
     THEN GiveUp
     ELSE call' = [call EXCEPT !.pc = "clock", !.tries = @ + 1,
                                  !.woken = FALSE]
  /\ UNCHANGED <<mission, world, now>>

(* mistake: one attempt more                                               *)
WakeOnceMore ==
  /\ call.pc = "waiting" /\ call.woken
  /\ IF call.tries = MaxAttempts
     THEN GiveUp
     ELSE call' = [call EXCEPT !.pc = "clock", !.tries = @ + 1,
                                  !.woken = FALSE]
  /\ UNCHANGED <<mission, world, now>>

(* Every attempt that fails waits a second, the last one in vain.          *)
Wake ==
  /\ call.pc = "waiting" /\ call.woken
  /\ IF call.tries + 1 = MaxAttempts
     THEN GiveUp
     ELSE call' = [call EXCEPT !.pc = "clock", !.tries = @ + 1,
                                  !.woken = FALSE]
  /\ UNCHANGED <<mission, world, now>>

(* The transition rule on updated_at.                                      *)
StampLater == call.next > stamp

(* The rules once more, then the new document (or the new mission).        *)
Commit ==
  /\ call.pc = "committing"
  /\ CASE call.kind = "init" /\ revision > 0 -> Exit("temporary") /\ UNCHANGED mission
       [] ~RulesUsable \/ ~StampLater -> Exit("data") /\ UNCHANGED mission
       [] OTHER -> /\ Exit("ok")
                   /\ revision' = revision + 1 /\ stamp' = call.next
                   /\ bound' = IF call.kind = "init" THEN call.seen ELSE bound
                   /\ UNCHANGED target
  /\ UNCHANGED <<world, now>>

(* The steps that run jq or git, and the wait; what the clock or, in mission *)
(* init, git says of an interrupt is wrapped.                              *)
Interrupt ==
  /\ \/ call.pc \in {"reading", "observing", "committing", "waiting"}
     \/ call.pc = "content" /\ Chosen \in Recipes
  /\ Exit(IF call.pc = "waiting" \/ (call.pc = "observing" /\ call.kind = "init")
          THEN "unavailable" ELSE "interrupted")
  /\ UNCHANGED <<mission, world, now>>

-----------------------------------------------------------------------------
(* Everything else.                                                        *)

(* A second passes; at the bound the clock stops, but not the time.        *)
Tick ==
  /\ now < MaxTime \/ (call.pc = "waiting" /\ ~call.woken)
  /\ now' = IF now < MaxTime THEN now + 1 ELSE now
  /\ call' = [call EXCEPT !.woken = call.pc = "waiting"]
  /\ UNCHANGED <<mission, world>>

SetClock ==
  /\ \E t \in Times \ {now} :
       /\ now' = t
       /\ call' = [call EXCEPT !.setBack =
                      @ \/ (call.pc \in {"clock", "waiting"} /\ t < now)]
  /\ UNCHANGED <<mission, world>>

EditAsset ==
  /\ edits < MaxEdits
  /\ \E l \in Layers, a \in Assets, s \in States :
       /\ l = "project" => a \in Overlay
       /\ asset' = [asset EXCEPT ![l][a] = s]
  /\ call' = IF call.pc \in Preparing
             THEN [call EXCEPT !.past = [a \in Assets |->
                                  @[a] \union {asset'["project"][a]}]]
             ELSE call
  /\ edits' = edits + 1
  /\ UNCHANGED <<mission, sources, other, now>>

EditProject ==
  /\ edits < MaxEdits
  /\ \/ sources' \in {sources + 1, Linked} /\ UNCHANGED other
     \/ other' = other + 1 /\ UNCHANGED sources
  /\ edits' = edits + 1
  /\ UNCHANGED <<mission, asset, now, call>>

Step ==
  \/ LookProject \/ LookGlobal  \/ CheckContent \/ Enter \/ ReadMission
  \/ Observe     \/ LookAtClock \/ Wake         \/ Commit

Next ==
  \/ \E kind \in Kinds : Begin(kind)
  \/ Step
  \/ Interrupt
  \/ Tick
  \/ SetClock
  \/ EditAsset
  \/ EditProject

(* A call that has begun goes on and time passes, whatever the clock says. *)
Spec == Init /\ [][Next]_vars /\ WF_vars(Step) /\ WF_vars(Tick)

-----------------------------------------------------------------------------

(* A call that got past the assets took each from the project only if a    *)
(* regular file was there, and something it could read, and from the       *)
(* global layer only if the project had none: a project file that stays    *)
(* broken stops every call.                                                *)
NoFallThrough ==
  call.pc \in UnderLock =>
    \A a \in Overlay :
       \/ /\ call.from[a] = "project"
          /\ call.past[a] \intersect Regular # {}
          /\ call.past[a] \intersect Readable # {}
       \/ call.from[a] = "global" /\ "absent" \in call.past[a]

(* The target is the directory of all missions, or in this mission's own.  *)
AboutItself == target = Missions \/ IsPrefix(Own, target)

(* Whatever the program writes, locks included, is no change of what a     *)
(* mission is about, unless it is about the missions themselves.           *)
OwnWritesUnseen ==
  [][UNCHANGED <<sources, other>> /\ ~AboutItself
       => Digest(target, Tree)' = Digest(target, Tree)]_vars

(* A mission about the missions sees itself: no call ever continues it.    *)
SelfTargetStuck == target = Missions => revision <= 1

(* A document that is less than MaxAttempts - 1 seconds ahead of a clock   *)
(* that is not set back never makes a resume give up.                      *)
ShortLeadWaitedOut ==
  call.code = "behind" /\ ~call.setBack => stamp >= call.began + MaxAttempts - 1

(* No call hangs, not even one that waits for a clock that is set back     *)
(* again and again.                                                        *)
CallEnds == call.pc # "done" ~> call.pc = "done"
=============================================================================
