------------------------- MODULE MissionInputsProofs -------------------------
(***************************************************************************)
(* What holds of a call's inputs for any assets, targets, attempts and     *)
(* bounds.                                                                 *)
(***************************************************************************)
EXTENDS MissionInputs, TLAPS

-----------------------------------------------------------------------------
(* What the steps make of the call.                                        *)

Fields == {"pc", "kind", "code", "at", "from", "past", "seen", "next", "tries",
           "began", "setBack", "woken"}

Shape == DOMAIN call = Fields

RestKept   == call'.kind = call.kind /\ call'.code = call.code
AssetsKept == /\ call'.at = call.at /\ call'.from = call.from
              /\ call'.past = call.past
ClockKept  == /\ call'.next = call.next /\ call'.tries = call.tries
              /\ call'.began = call.began /\ call'.setBack = call.setBack
              /\ call'.woken = call.woken
SeenKept   == call'.seen = call.seen

AssetsIdle ==
  /\ call'.at = 1 /\ call'.from = [a \in Assets |-> "none"]
  /\ call'.past = [a \in Assets |-> {}]

ClockIdle ==
  /\ call'.next = 0 /\ call'.tries = 0 /\ call'.began = 0
  /\ call'.setBack = FALSE /\ call'.woken = FALSE

LEMMA GotoEffect ==
  ASSUME Shape, NEW pc, Goto(pc)
  PROVE  /\ Shape' /\ call'.pc = pc
         /\ RestKept /\ AssetsKept /\ ClockKept /\ SeenKept
  BY DEF Shape, Fields, Goto, RestKept, AssetsKept, ClockKept, SeenKept

LEMMA ExitEffect ==
  ASSUME NEW code, Exit(code)
  PROVE  /\ Shape' /\ call'.pc = "done" /\ call'.kind = "init"
         /\ call'.code = code /\ AssetsIdle /\ ClockIdle
  BY DEF Exit, Idle, Shape, Fields, AssetsIdle, ClockIdle

LEMMA GiveUpEffect ==
  ASSUME Shape, GiveUp
  PROVE  /\ Shape' /\ call'.pc = "done" /\ call'.kind = "init"
         /\ call'.code = "behind" /\ AssetsIdle
         /\ call'.next = 0 /\ call'.tries = 0 /\ call'.woken = FALSE
         /\ call'.began = call.began /\ call'.setBack = call.setBack
  BY DEF GiveUp, Idle, Shape, Fields, AssetsIdle

LEMMA BeginEffect ==
  ASSUME NEW kind, Begin(kind)
  PROVE  /\ Shape' /\ call'.pc = "global" /\ call'.kind = kind
         /\ call'.code = "none" /\ ClockIdle
         /\ call'.at = 1 /\ call'.from = [a \in Assets |-> "none"]
         /\ call'.past = [a \in Assets |-> {asset["project"][a]}]
  BY DEF Begin, Idle, Shape, Fields, ClockIdle

LEMMA ChooseEffect ==
  ASSUME Shape, NEW layer,
         call' = [call EXCEPT !.pc = "content", !.from[Chosen] = layer]
  PROVE  /\ Shape' /\ call'.pc = "content"
         /\ call'.from = [call.from EXCEPT ![Chosen] = layer]
         /\ call'.at = call.at /\ call'.past = call.past
         /\ RestKept /\ ClockKept /\ SeenKept
  <1> DEFINE chosen == [call.from EXCEPT ![Chosen] = layer]
  <1>1. call' = [call EXCEPT !.pc = "content", !.from = chosen]
    OBVIOUS
  <1> HIDE DEF chosen
  <1>2. /\ Shape' /\ call'.pc = "content" /\ call'.from = chosen
        /\ call'.at = call.at /\ call'.past = call.past
        /\ RestKept /\ ClockKept /\ SeenKept
    BY <1>1 DEF Shape, Fields, RestKept, ClockKept, SeenKept
  <1> QED
    BY <1>2 DEF chosen

LEMMA NextAssetEffect ==
  ASSUME Shape, NEW pc, NEW n,
         call' = [call EXCEPT !.at = n, !.pc = pc]
  PROVE  /\ Shape' /\ call'.pc = pc /\ call'.at = n
         /\ call'.from = call.from /\ call'.past = call.past
         /\ RestKept /\ ClockKept /\ SeenKept
  BY DEF Shape, Fields, RestKept, ClockKept, SeenKept

LEMMA StampEffect ==
  ASSUME Shape, NEW at, call' = [call EXCEPT !.pc = "committing", !.next = at]
  PROVE  /\ Shape' /\ call'.pc = "committing" /\ call'.next = at
         /\ call'.tries = call.tries /\ call'.began = call.began
         /\ call'.setBack = call.setBack /\ call'.woken = call.woken
         /\ RestKept /\ AssetsKept /\ SeenKept
  BY DEF Shape, Fields, RestKept, AssetsKept, SeenKept

LEMMA SeenEffect ==
  ASSUME Shape, NEW seen, NEW t,
         call' = [call EXCEPT !.pc = "clock", !.seen = seen, !.began = t]
  PROVE  /\ Shape' /\ call'.pc = "clock" /\ call'.seen = seen
         /\ call'.began = t /\ call'.next = call.next
         /\ call'.tries = call.tries
         /\ call'.setBack = call.setBack /\ call'.woken = call.woken
         /\ RestKept /\ AssetsKept
  BY DEF Shape, Fields, RestKept, AssetsKept

LEMMA RetryEffect ==
  ASSUME Shape, NEW n,
         call' = [call EXCEPT !.pc = "clock", !.tries = n, !.woken = FALSE]
  PROVE  /\ Shape' /\ call'.pc = "clock" /\ call'.tries = n
         /\ call'.woken = FALSE /\ call'.next = call.next
         /\ call'.began = call.began /\ call'.setBack = call.setBack
         /\ RestKept /\ AssetsKept /\ SeenKept
  BY DEF Shape, Fields, RestKept, AssetsKept, SeenKept

LEMMA WokenEffect ==
  ASSUME Shape, NEW woken \in BOOLEAN, call' = [call EXCEPT !.woken = woken]
  PROVE  /\ Shape' /\ call'.pc = call.pc /\ call'.woken = woken
         /\ call'.next = call.next /\ call'.tries = call.tries
         /\ call'.began = call.began /\ call'.setBack = call.setBack
         /\ RestKept /\ AssetsKept /\ SeenKept
  BY DEF Shape, Fields, RestKept, AssetsKept, SeenKept

LEMMA SetBackEffect ==
  ASSUME Shape, NEW back \in BOOLEAN, call' = [call EXCEPT !.setBack = back]
  PROVE  /\ Shape' /\ call'.pc = call.pc /\ call'.setBack = back
         /\ call'.next = call.next /\ call'.tries = call.tries
         /\ call'.began = call.began /\ call'.woken = call.woken
         /\ RestKept /\ AssetsKept /\ SeenKept
  BY DEF Shape, Fields, RestKept, AssetsKept, SeenKept

LEMMA PastEffect ==
  ASSUME Shape, NEW past, call' = [call EXCEPT !.past = past]
  PROVE  /\ Shape' /\ call'.pc = call.pc /\ call'.past = past
         /\ call'.at = call.at /\ call'.from = call.from
         /\ RestKept /\ ClockKept /\ SeenKept
  BY DEF Shape, Fields, RestKept, ClockKept, SeenKept

(* The call's steps, by what they do to it.                                *)
LEMMA StepEffects ==
  ASSUME Shape
  PROVE  /\ LookProject =>
              \/ /\ asset["project"][Chosen] = "absent" /\ Goto("global")
              \/ Exit("data")
              \/ /\ asset["project"][Chosen] \in Regular
                 /\ call' = [call EXCEPT !.pc = "content",
                                         !.from[Chosen] = "project"]
         /\ LookGlobal =>
              \/ Exit("data")
              \/ call' = [call EXCEPT !.pc = "content",
                                      !.from[Chosen] = "global"]
         /\ CheckContent =>
              \/ Exit("data")
              \/ Usable(Chosen) /\ call.at = Len(Chain) /\ Goto("entering")
              \/ /\ Usable(Chosen) /\ call.at # Len(Chain)
                 /\ \/ /\ Chain[call.at + 1] \in Overlay
                       /\ call' = [call EXCEPT !.at = call.at + 1,
                                               !.pc = "project"]
                    \/ /\ Chain[call.at + 1] \notin Overlay
                       /\ call' = [call EXCEPT !.at = call.at + 1,
                                               !.pc = "global"]
  <1>1. LookProject =>
          \/ /\ asset["project"][Chosen] = "absent" /\ Goto("global")
          \/ Exit("data")
          \/ /\ asset["project"][Chosen] \in Regular
             /\ call' = [call EXCEPT !.pc = "content",
                                     !.from[Chosen] = "project"]
    <2> HAVE LookProject
    <2>1. CASE asset["project"][Chosen] = "absent"
      BY <2>1 DEF LookProject
    <2>2. CASE asset["project"][Chosen] \in Regular
      BY <2>2 DEF LookProject, Regular
    <2>3. CASE asset["project"][Chosen] \notin {"absent"} \union Regular
      BY <2>3 DEF LookProject
    <2> QED
      BY <2>1, <2>2, <2>3
  <1>2. LookGlobal =>
          \/ Exit("data")
          \/ call' = [call EXCEPT !.pc = "content", !.from[Chosen] = "global"]
    BY DEF LookGlobal
  <1>3. CheckContent =>
          \/ Exit("data")
          \/ Usable(Chosen) /\ call.at = Len(Chain) /\ Goto("entering")
          \/ /\ Usable(Chosen) /\ call.at # Len(Chain)
             /\ \/ /\ Chain[call.at + 1] \in Overlay
                   /\ call' = [call EXCEPT !.at = call.at + 1, !.pc = "project"]
                \/ /\ Chain[call.at + 1] \notin Overlay
                   /\ call' = [call EXCEPT !.at = call.at + 1, !.pc = "global"]
    <2> HAVE CheckContent
    <2>1. CASE ~Usable(Chosen)
      BY <2>1 DEF CheckContent
    <2>2. CASE Usable(Chosen) /\ call.at = Len(Chain)
      BY <2>2 DEF CheckContent
    <2>3. CASE Usable(Chosen) /\ call.at # Len(Chain)
      <3>1. CASE Chain[call.at + 1] \in Overlay
        BY <2>3, <3>1 DEF CheckContent, Shape, Fields
      <3>2. CASE Chain[call.at + 1] \notin Overlay
        BY <2>3, <3>2 DEF CheckContent, Shape, Fields
      <3> QED
        BY <2>3, <3>1, <3>2
    <2> QED
      BY <2>1, <2>2, <2>3
  <1> QED
    BY <1>1, <1>2, <1>3

LEMMA ObserveEffects ==
  ASSUME Shape, Observe
  PROVE  \/ Exit("data") \/ Exit("temporary")
         \/ /\ call.kind = "checkpoint" /\ Digest(target, Tree) = bound
            /\ \E at \in Times :
                 call' = [call EXCEPT !.pc = "committing", !.next = at]
         \/ /\ call.kind # "init" => Digest(target, Tree) = bound
            /\ call' = [call EXCEPT !.pc = "clock",
                          !.seen = Digest(target, Tree), !.began = now]
  <1> DEFINE seen == Digest(target, Tree)
             bad  == LinkMet \/ ~Present(target, Paths)
  <1>1. /\ call.pc = "observing"
        /\ CASE bad -> Exit("data")
             [] call.kind # "init" /\ seen # bound -> Exit("temporary")
             [] call.kind = "checkpoint" /\ seen = bound ->
                  \E at \in Times :
                     call' = [call EXCEPT !.pc = "committing", !.next = at]
             [] OTHER -> call' = [call EXCEPT !.pc = "clock", !.seen = seen,
                                              !.began = now]
    BY DEF Observe
  <1> HIDE DEF seen, bad
  <1>2. \/ Exit("data") \/ Exit("temporary")
        \/ /\ call.kind = "checkpoint" /\ seen = bound
           /\ \E at \in Times :
                call' = [call EXCEPT !.pc = "committing", !.next = at]
        \/ /\ call.kind # "init" => seen = bound
           /\ call' = [call EXCEPT !.pc = "clock", !.seen = seen, !.began = now]
    <2>1. CASE bad
      BY <1>1, <2>1
    <2>2. CASE call.kind # "init" /\ seen # bound
      BY <1>1, <2>2
    <2>3. CASE call.kind = "checkpoint" /\ seen = bound
      BY <1>1, <2>3
    <2>4. CASE ~bad /\ ~(call.kind # "init" /\ seen # bound)
               /\ ~(call.kind = "checkpoint" /\ seen = bound)
      BY <1>1, <2>4
    <2> QED
      BY <2>1, <2>2, <2>3, <2>4
  <1> QED
    BY <1>2 DEF seen

LEMMA CommitEffects ==
  ASSUME Commit
  PROVE  \/ (Exit("temporary") \/ Exit("data")) /\ UNCHANGED mission
         \/ /\ Exit("ok") /\ revision' = revision + 1 /\ stamp' = call.next
            /\ call.next > stamp
            /\ call.kind = "init" => ~(revision > 0)
            /\ bound' = IF call.kind = "init" THEN call.seen ELSE bound
            /\ target' = target
  <1>1. CASE call.kind = "init" /\ revision > 0
    BY <1>1 DEF Commit
  <1>2. CASE ~RulesUsable \/ ~StampLater
    BY <1>2 DEF Commit
  <1>3. CASE ~(call.kind = "init" /\ revision > 0) /\ RulesUsable /\ StampLater
    BY <1>3 DEF Commit, StampLater
  <1> QED
    BY <1>1, <1>2, <1>3

LEMMA WakeEffects ==
  ASSUME Shape, Wake
  PROVE  \/ call.tries + 1 = MaxAttempts /\ GiveUp
         \/ call.tries + 1 # MaxAttempts
            /\ call' = [call EXCEPT !.pc = "clock", !.tries = call.tries + 1,
                                    !.woken = FALSE]
  <1>1. CASE call.tries + 1 = MaxAttempts
    BY <1>1 DEF Wake
  <1>2. CASE call.tries + 1 # MaxAttempts
    BY <1>2 DEF Wake, Shape, Fields
  <1> QED
    BY <1>1, <1>2

LEMMA CheckPlaces ==
  ASSUME Shape
  PROVE  /\ LookProject => call.pc = "project"
         /\ LookGlobal => call.pc = "global"
         /\ CheckContent => call.pc = "content"
         /\ Enter => call.pc = "entering" /\ UNCHANGED <<mission, world, now>>
         /\ ReadMission => call.pc = "reading" /\ UNCHANGED <<mission, world, now>>
         /\ Observe => call.pc = "observing" /\ UNCHANGED <<mission, world, now>>
         /\ LookAtClock => call.pc = "clock" /\ UNCHANGED <<mission, world, now>>
         /\ Wake => /\ call.pc = "waiting" /\ call.woken
                    /\ UNCHANGED <<mission, world, now>>
         /\ Commit => call.pc = "committing" /\ UNCHANGED <<world, now>>
         /\ LookProject \/ LookGlobal \/ CheckContent =>
              UNCHANGED <<mission, world, now>>
  BY DEF LookProject, LookGlobal, CheckContent, Enter, ReadMission, Observe,
         LookAtClock, Wake, Commit

LEMMA EnterEffects ==
  /\ Enter => \/ call.kind = "init" /\ Goto("observing")
              \/ call.kind # "init" /\ revision > 0 /\ Goto("reading")
              \/ Exit("data")
  /\ ReadMission => Goto("observing") \/ Exit("data")
  BY DEF Enter, ReadMission

LEMMA ClockEffects ==
  ASSUME LookAtClock
  PROVE  \/ call' = [call EXCEPT !.pc = "committing", !.next = now]
         \/ ~(now > stamp) /\ Goto("waiting")
  BY DEF LookAtClock, Goto

-----------------------------------------------------------------------------
(* Types.                                                                  *)

AssetTyped ==
  /\ call.at \in DOMAIN Chain
  /\ call.from \in [Assets -> Layers \union {"none"}]
  /\ call.past \in [Assets -> SUBSET States]

ClockTyped ==
  /\ call.next \in Times \union {0} /\ call.began \in Times \union {0}
  /\ call.tries \in 0..(MaxAttempts - 1)
  /\ call.setBack \in BOOLEAN /\ call.woken \in BOOLEAN

PlaceTyped == call.pc \in Pcs /\ call.kind \in Kinds /\ call.code \in Codes

WorldTyped ==
  /\ asset \in [Layers -> [Assets -> States]]
  /\ sources \in Nat /\ other \in Nat /\ edits \in Nat
  /\ target \in Targets
  /\ revision \in 0..MaxRevision /\ stamp \in Times \union {0}
  /\ now \in Times

LEMMA TypeParts ==
  TypeOK <=> PlaceTyped /\ AssetTyped /\ ClockTyped /\ WorldTyped
  BY DEF TypeOK, PlaceTyped, AssetTyped, ClockTyped, WorldTyped

LEMMA Names ==
  /\ Pcs = {"done", "entering", "project", "global", "content", "reading",
            "observing", "clock", "waiting", "committing"}
  /\ Codes = {"none", "ok", "data", "temporary", "unavailable", "behind",
              "interrupted"}
  /\ Kinds = {"init", "checkpoint", "resume"}
  /\ Layers = {"project", "global"}
  BY DEF Pcs, Preparing, UnderLock, Codes, Kinds, Layers

LEMMA IdleTyped ==
  /\ AssetsIdle => AssetTyped'
  /\ ClockIdle => ClockTyped'
  <1>1. AssetsIdle => AssetTyped'
    <2>1. 1 \in DOMAIN Chain
      BY InputsAssumption
    <2> QED
      BY <2>1 DEF AssetsIdle, AssetTyped
  <1>2. ClockIdle => ClockTyped'
    <2>1. 0 \in 0..(MaxAttempts - 1) /\ 0 \in Times \union {0}
      BY InputsAssumption
    <2>2. FALSE \in BOOLEAN
      OBVIOUS
    <2> QED
      BY <2>1, <2>2, Zenon DEF ClockIdle, ClockTyped
  <1> QED
    BY <1>1, <1>2

LEMMA ExitTyped ==
  ASSUME NEW code \in Codes, Exit(code)
  PROVE  PlaceTyped' /\ AssetTyped' /\ ClockTyped' /\ Shape'
  BY ExitEffect, IdleTyped, Names DEF PlaceTyped

LEMMA GotoTyped ==
  ASSUME TypeOK, Shape, NEW pc \in Pcs, Goto(pc)
  PROVE  PlaceTyped' /\ AssetTyped' /\ ClockTyped' /\ Shape'
  <1>1. /\ Shape' /\ call'.pc = pc /\ RestKept /\ AssetsKept /\ ClockKept
    BY GotoEffect
  <1>2. PlaceTyped' /\ AssetTyped'
    BY <1>1, TypeParts
    DEF PlaceTyped, AssetTyped, RestKept, AssetsKept
  <1>3. ClockTyped'
    BY <1>1, TypeParts, Zenon DEF ClockTyped, ClockKept
  <1> QED
    BY <1>1, <1>2, <1>3

LEMMA ClockPartKept == ClockTyped /\ ClockKept => ClockTyped'
  BY Zenon DEF ClockTyped, ClockKept

LEMMA AssetPartKept == AssetTyped /\ AssetsKept => AssetTyped'
  BY DEF AssetTyped, AssetsKept

LEMMA PlacePartKept ==
  ASSUME PlaceTyped, RestKept, call'.pc \in Pcs
  PROVE  PlaceTyped'
  BY DEF PlaceTyped, RestKept

LEMMA StepCallTyped ==
  ASSUME TypeOK, Shape, Step
  PROVE  PlaceTyped' /\ AssetTyped' /\ ClockTyped' /\ Shape'
  <1>0. PlaceTyped /\ AssetTyped /\ ClockTyped /\ WorldTyped
    BY TypeParts
  <1>1. CASE LookProject \/ LookGlobal
    <2>1. CASE Goto("global") \/ Exit("data")
      BY <2>1, GotoTyped, ExitTyped, Names
    <2>2. ASSUME NEW layer \in Layers,
                 call' = [call EXCEPT !.pc = "content", !.from[Chosen] = layer]
          PROVE  PlaceTyped' /\ AssetTyped' /\ ClockTyped' /\ Shape'
      <3>1. /\ Shape' /\ call'.pc = "content"
            /\ call'.from = [call.from EXCEPT ![Chosen] = layer]
            /\ call'.at = call.at /\ call'.past = call.past
            /\ RestKept /\ ClockKept
        BY <2>2, ChooseEffect
      <3>2. AssetTyped'
        BY <1>0, <3>1 DEF AssetTyped
      <3>3. "content" \in Pcs
        BY Names
      <3> QED
        BY <1>0, <3>1, <3>2, <3>3, ClockPartKept, PlacePartKept
    <2> QED
      BY <1>1, <2>1, <2>2, StepEffects, Names
  <1>2. CASE CheckContent
    <2>1. CASE Goto("entering") \/ Exit("data")
      BY <2>1, GotoTyped, ExitTyped, Names
    <2>2. ASSUME call.at # Len(Chain), NEW pc \in {"project", "global"},
                 call' = [call EXCEPT !.at = call.at + 1, !.pc = pc]
          PROVE  PlaceTyped' /\ AssetTyped' /\ ClockTyped' /\ Shape'
      <3>1. call.at + 1 \in DOMAIN Chain
        BY <1>0, <2>2, InputsAssumption DEF AssetTyped
      <3>2. /\ Shape' /\ call'.pc = pc /\ call'.at = call.at + 1
            /\ call'.from = call.from /\ call'.past = call.past
            /\ RestKept /\ ClockKept
        BY <2>2, NextAssetEffect
      <3>3. AssetTyped'
        BY <1>0, <3>1, <3>2 DEF AssetTyped
      <3>4. pc \in Pcs
        BY Names
      <3> QED
        BY <1>0, <3>2, <3>3, <3>4, ClockPartKept, PlacePartKept
    <2> QED
      BY <1>2, <2>1, <2>2, StepEffects
  <1>3. CASE Enter \/ ReadMission
    BY <1>3, EnterEffects, GotoTyped, ExitTyped, Names
  <1>4. CASE Observe
    <2>1. CASE Exit("data") \/ Exit("temporary")
      BY <2>1, ExitTyped, Names
    <2>2. ASSUME NEW at \in Times,
                 call' = [call EXCEPT !.pc = "committing", !.next = at]
          PROVE  PlaceTyped' /\ AssetTyped' /\ ClockTyped' /\ Shape'
      <3>1. /\ Shape' /\ call'.pc = "committing" /\ call'.next = at
            /\ call'.tries = call.tries /\ call'.began = call.began
            /\ call'.setBack = call.setBack /\ call'.woken = call.woken
            /\ RestKept /\ AssetsKept
        BY <2>2, StampEffect
      <3>2. ClockTyped'
        BY <1>0, <3>1, Zenon DEF ClockTyped
      <3>3. "committing" \in Pcs
        BY Names
      <3> QED
        BY <1>0, <3>1, <3>2, <3>3, AssetPartKept, PlacePartKept
    <2>3. ASSUME call' = [call EXCEPT !.pc = "clock",
                            !.seen = Digest(target, Tree), !.began = now]
          PROVE  PlaceTyped' /\ AssetTyped' /\ ClockTyped' /\ Shape'
      <3>1. /\ Shape' /\ call'.pc = "clock"
            /\ call'.began = now /\ call'.next = call.next
            /\ call'.tries = call.tries
            /\ call'.setBack = call.setBack /\ call'.woken = call.woken
            /\ RestKept /\ AssetsKept
        BY <2>3, SeenEffect
      <3>2. now \in Times \union {0}
        BY <1>0 DEF WorldTyped
      <3>3. ClockTyped'
        BY <1>0, <3>1, <3>2, Zenon DEF ClockTyped
      <3>4. "clock" \in Pcs
        BY Names
      <3> QED
        BY <1>0, <3>1, <3>3, <3>4, AssetPartKept, PlacePartKept
    <2> QED
      BY <1>4, <2>1, <2>2, <2>3, ObserveEffects
  <1>5. CASE LookAtClock
    <2>1. CASE Goto("waiting")
      BY <2>1, GotoTyped, Names
    <2>2. CASE call' = [call EXCEPT !.pc = "committing", !.next = now]
      <3>1. /\ Shape' /\ call'.pc = "committing" /\ call'.next = now
            /\ call'.tries = call.tries /\ call'.began = call.began
            /\ call'.setBack = call.setBack /\ call'.woken = call.woken
            /\ RestKept /\ AssetsKept
        BY <2>2, StampEffect
      <3>2. now \in Times \union {0}
        BY <1>0 DEF WorldTyped
      <3>3. ClockTyped'
        BY <1>0, <3>1, <3>2, Zenon DEF ClockTyped
      <3>4. "committing" \in Pcs
        BY Names
      <3> QED
        BY <1>0, <3>1, <3>3, <3>4, AssetPartKept, PlacePartKept
    <2> QED
      BY <1>5, <2>1, <2>2, ClockEffects
  <1>6. CASE Wake
    <2>1. CASE call.tries + 1 = MaxAttempts /\ GiveUp
      <3>1. /\ Shape' /\ call'.pc = "done" /\ call'.kind = "init"
            /\ call'.code = "behind" /\ AssetsIdle
            /\ call'.next = 0 /\ call'.tries = 0 /\ call'.woken = FALSE
            /\ call'.began = call.began /\ call'.setBack = call.setBack
        BY <2>1, GiveUpEffect
      <3>2. 0 \in 0..(MaxAttempts - 1) /\ 0 \in Times \union {0}
        BY InputsAssumption
      <3>3. FALSE \in BOOLEAN
        OBVIOUS
      <3>4. ClockTyped'
        BY <1>0, <3>1, <3>2, <3>3, Zenon DEF ClockTyped
      <3> QED
        BY <3>1, <3>4, IdleTyped, Names DEF PlaceTyped
    <2>2. CASE /\ call.tries + 1 # MaxAttempts
               /\ call' = [call EXCEPT !.pc = "clock", !.tries = call.tries + 1,
                                       !.woken = FALSE]
      <3>1. /\ Shape' /\ call'.pc = "clock" /\ call'.tries = call.tries + 1
            /\ call'.woken = FALSE /\ call'.next = call.next
            /\ call'.began = call.began /\ call'.setBack = call.setBack
            /\ RestKept /\ AssetsKept
        BY <2>2, RetryEffect
      <3>2. call.tries + 1 \in 0..(MaxAttempts - 1)
        <4>1. call.tries \in 0..(MaxAttempts - 1)
          BY <1>0 DEF ClockTyped
        <4> QED
          BY <2>2, <4>1, InputsAssumption
      <3>3. FALSE \in BOOLEAN
        OBVIOUS
      <3>4. ClockTyped'
        BY <1>0, <3>1, <3>2, <3>3, Zenon DEF ClockTyped
      <3>5. "clock" \in Pcs
        BY Names
      <3> QED
        BY <1>0, <3>1, <3>4, <3>5, AssetPartKept, PlacePartKept
    <2> QED
      BY <1>6, <2>1, <2>2, WakeEffects
  <1>7. CASE Commit
    BY <1>7, CommitEffects, ExitTyped, Names
  <1> QED
    BY <1>1, <1>2, <1>3, <1>4, <1>5, <1>6, <1>7 DEF Step

(* A running call has room for one more revision and one more second.      *)
Room == call.pc # "done" => revision < MaxRevision /\ stamp < MaxTime

TypeInv == TypeOK /\ Shape /\ Room

LEMMA WorldPartKept ==
  WorldTyped /\ UNCHANGED <<mission, world, now>> => WorldTyped'
  BY DEF WorldTyped, mission, world

LEMMA InterruptEffects ==
  ASSUME Interrupt
  PROVE  /\ call.pc \in {"reading", "observing", "committing", "waiting",
                         "content"}
         /\ Exit("unavailable") \/ Exit("interrupted")
         /\ UNCHANGED <<mission, world, now>>
  <1>1. CASE call.pc = "waiting" \/ (call.pc = "observing" /\ call.kind = "init")
    BY <1>1 DEF Interrupt
  <1>2. CASE ~(call.pc = "waiting"
               \/ (call.pc = "observing" /\ call.kind = "init"))
    BY <1>2 DEF Interrupt
  <1> QED
    BY <1>1, <1>2

LEMMA TickEffects ==
  ASSUME Shape, Tick
  PROVE  /\ Shape' /\ call'.pc = call.pc /\ call'.next = call.next
         /\ call'.tries = call.tries /\ call'.began = call.began
         /\ call'.setBack = call.setBack /\ call'.woken \in BOOLEAN
         /\ call'.woken = TRUE => call.pc = "waiting"
         /\ RestKept /\ AssetsKept /\ SeenKept
         /\ UNCHANGED <<mission, world>>
         /\ now' = IF now < MaxTime THEN now + 1 ELSE now
  <1>1. CASE call.pc = "waiting"
    <2>1. call' = [call EXCEPT !.woken = TRUE]
      BY <1>1 DEF Tick
    <2> QED
      BY <1>1, <2>1, WokenEffect DEF Tick
  <1>2. CASE call.pc # "waiting"
    <2>1. call' = [call EXCEPT !.woken = FALSE]
      BY <1>2 DEF Tick
    <2> QED
      BY <1>2, <2>1, WokenEffect DEF Tick
  <1> QED
    BY <1>1, <1>2

LEMMA SetClockEffects ==
  ASSUME Shape, SetClock, call.setBack \in BOOLEAN
  PROVE  /\ Shape' /\ call'.pc = call.pc /\ call'.next = call.next
         /\ call'.tries = call.tries /\ call'.began = call.began
         /\ call'.woken = call.woken /\ call'.setBack \in BOOLEAN
         /\ call'.setBack = FALSE => call.setBack = FALSE
              /\ (call.pc \in {"clock", "waiting"} => ~(now' < now))
         /\ RestKept /\ AssetsKept /\ SeenKept
         /\ UNCHANGED <<mission, world>>
         /\ now' \in Times
  <1>1. PICK t \in Times :
          /\ now' = t
          /\ call' = [call EXCEPT !.setBack =
                @ \/ (call.pc \in {"clock", "waiting"} /\ t < now)]
    BY DEF SetClock
  <1>2. CASE call.setBack \/ (call.pc \in {"clock", "waiting"} /\ t < now)
    <2>1. call' = [call EXCEPT !.setBack = TRUE]
      BY <1>1, <1>2 DEF Shape, Fields
    <2> QED
      BY <1>1, <2>1, SetBackEffect DEF SetClock
  <1>3. CASE ~(call.setBack \/ (call.pc \in {"clock", "waiting"} /\ t < now))
    <2>1. call' = [call EXCEPT !.setBack = FALSE]
      BY <1>1, <1>3 DEF Shape, Fields
    <2> QED
      BY <1>1, <1>3, <2>1, SetBackEffect DEF SetClock
  <1> QED
    BY <1>2, <1>3

LEMMA EditAssetEffects ==
  ASSUME Shape, WorldTyped, EditAsset
  PROVE  /\ Shape' /\ call'.pc = call.pc /\ call'.at = call.at
         /\ call'.from = call.from /\ RestKept /\ ClockKept /\ SeenKept
         /\ \/ /\ call.pc \in Preparing
               /\ call'.past = [a \in Assets |->
                                  call.past[a] \union {asset'["project"][a]}]
            \/ call.pc \notin Preparing /\ call'.past = call.past
         /\ UNCHANGED <<mission, sources, other, now>> /\ edits' = edits + 1
         /\ asset' \in [Layers -> [Assets -> States]]
  <1>1. /\ UNCHANGED <<mission, sources, other, now>> /\ edits' = edits + 1
        /\ asset' \in [Layers -> [Assets -> States]]
    BY DEF EditAsset, WorldTyped
  <1>2. CASE call.pc \in Preparing
    <2> DEFINE past == [a \in Assets |->
                          call.past[a] \union {asset'["project"][a]}]
    <2>1. call' = [call EXCEPT !.past = past]
      BY <1>2 DEF EditAsset, Shape, Fields
    <2> HIDE DEF past
    <2>2. /\ Shape' /\ call'.pc = call.pc /\ call'.past = past
          /\ call'.at = call.at /\ call'.from = call.from
          /\ RestKept /\ ClockKept /\ SeenKept
      BY <2>1 DEF Shape, Fields, RestKept, ClockKept, SeenKept
    <2> QED
      BY <1>1, <1>2, <2>2 DEF past
  <1>3. CASE call.pc \notin Preparing
    <2>1. call' = call
      BY <1>3 DEF EditAsset
    <2> QED
      BY <1>1, <1>3, <2>1 DEF Shape, RestKept, ClockKept, SeenKept
  <1> QED
    BY <1>2, <1>3

LEMMA StepWorldTyped ==
  ASSUME TypeInv, Step
  PROVE  WorldTyped' /\ Room'
  <1>0. /\ PlaceTyped /\ AssetTyped /\ ClockTyped /\ WorldTyped
        /\ Shape /\ Room
    BY TypeParts DEF TypeInv
  <1>1. CASE LookProject \/ LookGlobal \/ CheckContent \/ Enter \/ ReadMission
             \/ Observe \/ LookAtClock \/ Wake
    <2>1. UNCHANGED <<mission, world, now>> /\ call.pc # "done"
      BY <1>0, <1>1, CheckPlaces
    <2> QED
      BY <1>0, <2>1, WorldPartKept DEF Room, mission
  <1>2. CASE Commit
    <2>1. call'.pc = "done"
      BY <1>2, CommitEffects, ExitEffect
    <2>2. /\ UNCHANGED <<world, now>> /\ call.pc = "committing"
          /\ call.next \in Times \union {0}
          /\ revision \in 0..MaxRevision /\ revision < MaxRevision
      BY <1>0, <1>2, CheckPlaces DEF Room, ClockTyped, WorldTyped
    <2>3. CASE UNCHANGED mission
      BY <1>0, <2>1, <2>2, <2>3, WorldPartKept DEF Room
    <2>4. CASE /\ revision' = revision + 1 /\ stamp' = call.next
               /\ target' = target
      <3>1. revision' \in 0..MaxRevision
        BY <2>2, <2>4, InputsAssumption
      <3> QED
        BY <1>0, <2>1, <2>2, <2>4, <3>1 DEF WorldTyped, Room, world
    <2> QED
      BY <1>2, <2>3, <2>4, CommitEffects
  <1> QED
    BY <1>1, <1>2 DEF Step

LEMMA TypeStep == TypeInv /\ [Next]_vars => TypeInv'
  <1> SUFFICES ASSUME TypeInv, [Next]_vars
               PROVE  TypeInv'
    OBVIOUS
  <1>0. /\ PlaceTyped /\ AssetTyped /\ ClockTyped /\ WorldTyped
        /\ Shape /\ Room /\ TypeOK
    BY TypeParts DEF TypeInv
  <1>q. ASSUME PlaceTyped', AssetTyped', ClockTyped', WorldTyped', Shape', Room'
        PROVE  TypeInv'
    <2>1. TypeOK'
      BY <1>q, Zenon
      DEF TypeOK, PlaceTyped, AssetTyped, ClockTyped, WorldTyped
    <2> QED
      BY <1>q, <2>1 DEF TypeInv
  <1>1. CASE Step
    BY <1>0, <1>1, <1>q, StepCallTyped, StepWorldTyped
  <1>2. ASSUME NEW kind \in Kinds, Begin(kind)
        PROVE  TypeInv'
    <2>1. /\ Shape' /\ call'.pc = "global" /\ call'.kind = kind
          /\ call'.code = "none" /\ ClockIdle
          /\ call'.at = 1 /\ call'.from = [a \in Assets |-> "none"]
          /\ call'.past = [a \in Assets |-> {asset["project"][a]}]
      BY <1>2, BeginEffect
    <2>2. AssetTyped'
      <3>1. 1 \in DOMAIN Chain
        BY InputsAssumption
      <3>2. \A a \in Assets : asset["project"][a] \in States
        BY <1>0, Names DEF WorldTyped
      <3> QED
        BY <2>1, <3>1, <3>2 DEF AssetTyped
    <2>3. PlaceTyped'
      BY <2>1, Names DEF PlaceTyped
    <2>4. WorldTyped' /\ Room'
      BY <1>0, <1>2, WorldPartKept DEF Begin, Room, mission
    <2> QED
      BY <1>q, <2>1, <2>2, <2>3, <2>4, IdleTyped
  <1>3. CASE Interrupt
    <2>1. /\ Exit("unavailable") \/ Exit("interrupted")
          /\ UNCHANGED <<mission, world, now>>
      BY <1>3, InterruptEffects
    <2>2. PlaceTyped' /\ AssetTyped' /\ ClockTyped' /\ Shape'
      BY <2>1, ExitTyped, Names
    <2>3. Room'
      BY <2>1, ExitEffect DEF Room
    <2> QED
      BY <1>0, <1>q, <2>1, <2>2, <2>3, WorldPartKept
  <1>4. CASE Tick
    <2>1. ClockTyped'
      BY <1>0, <1>4, TickEffects, Zenon DEF ClockTyped
    <2>2. PlaceTyped' /\ AssetTyped' /\ Shape' /\ Room'
      BY <1>0, <1>4, TickEffects, AssetPartKept
      DEF PlaceTyped, RestKept, Room, mission
    <2>3. now' \in Times
      BY <1>0, <1>4, TickEffects, InputsAssumption DEF WorldTyped, Times
    <2>4. WorldTyped'
      BY <1>0, <1>4, <2>3, TickEffects DEF WorldTyped, mission, world
    <2> QED
      BY <1>q, <2>1, <2>2, <2>4
  <1>5. CASE SetClock
    <2>0. call.setBack \in BOOLEAN
      BY <1>0 DEF ClockTyped
    <2>1. ClockTyped'
      BY <1>0, <1>5, <2>0, SetClockEffects, Zenon DEF ClockTyped
    <2>2. PlaceTyped' /\ AssetTyped' /\ Shape' /\ Room'
      BY <1>0, <1>5, <2>0, SetClockEffects, AssetPartKept
      DEF PlaceTyped, RestKept, Room, mission
    <2>3. WorldTyped'
      BY <1>0, <1>5, <2>0, SetClockEffects DEF WorldTyped, mission, world
    <2> QED
      BY <1>q, <2>1, <2>2, <2>3
  <1>6. CASE EditAsset
    <2>1. /\ Shape' /\ call'.pc = call.pc /\ RestKept /\ ClockKept
          /\ call'.at = call.at /\ call'.from = call.from
          /\ UNCHANGED <<mission, sources, other, now>> /\ edits' = edits + 1
          /\ asset' \in [Layers -> [Assets -> States]]
      BY <1>0, <1>6, EditAssetEffects
    <2>2. call'.past \in [Assets -> SUBSET States]
      <3>1. \A a \in Assets : asset'["project"][a] \in States
        BY <2>1, Names
      <3> QED
        BY <1>0, <1>6, <3>1, EditAssetEffects DEF AssetTyped
    <2>3. AssetTyped'
      BY <1>0, <2>1, <2>2 DEF AssetTyped
    <2>4. WorldTyped' /\ Room'
      BY <1>0, <2>1 DEF WorldTyped, mission, Room
    <2>5. PlaceTyped' /\ ClockTyped'
      BY <1>0, <2>1, ClockPartKept DEF PlaceTyped, RestKept
    <2> QED
      BY <1>q, <2>1, <2>3, <2>4, <2>5
  <1>7. CASE EditProject
    <2>1. UNCHANGED <<mission, asset, now, call>> /\ edits' = edits + 1
      BY <1>7 DEF EditProject
    <2>2. sources' \in Nat /\ other' \in Nat
      BY <1>0, <1>7 DEF EditProject, WorldTyped, Linked
    <2>3. WorldTyped' /\ Room'
      BY <1>0, <2>1, <2>2 DEF WorldTyped, mission, Room
    <2>4. PlaceTyped' /\ AssetTyped' /\ Shape'
      BY <1>0, <2>1 DEF PlaceTyped, AssetTyped, Shape
    <2>5. ClockTyped'
      BY <1>0, <2>1, Zenon DEF ClockTyped
    <2> QED
      BY <1>q, <2>3, <2>4, <2>5
  <1>8. CASE UNCHANGED vars
    <2>1. UNCHANGED <<mission, world, now>> /\ call' = call
      BY <1>8 DEF vars
    <2>2. PlaceTyped' /\ AssetTyped' /\ Shape' /\ Room'
      BY <1>0, <2>1 DEF PlaceTyped, AssetTyped, Shape, Room, mission
    <2>3. ClockTyped'
      BY <1>0, <2>1, Zenon DEF ClockTyped
    <2> QED
      BY <1>0, <1>q, <2>1, <2>2, <2>3, WorldPartKept
  <1> QED
    BY <1>1, <1>2, <1>3, <1>4, <1>5, <1>6, <1>7, <1>8 DEF Next

LEMMA TypeStart == Init => TypeInv
  <1> SUFFICES ASSUME Init
               PROVE  TypeInv
    OBVIOUS
  <1>1. Shape /\ Room /\ PlaceTyped
    BY Names DEF Init, Idle, Shape, Fields, Room, PlaceTyped
  <1>2. AssetTyped
    <2>1. 1 \in DOMAIN Chain
      BY InputsAssumption
    <2>2. /\ call.at = 1 /\ call.from = [a \in Assets |-> "none"]
          /\ call.past = [a \in Assets |-> {}]
      BY DEF Init, Idle
    <2> QED
      BY <2>1, <2>2 DEF AssetTyped
  <1>3. ClockTyped
    <2>1. 0 \in 0..(MaxAttempts - 1) /\ 0 \in Times \union {0}
      BY InputsAssumption
    <2>2. FALSE \in BOOLEAN
      OBVIOUS
    <2>3. /\ call.next = 0 /\ call.tries = 0 /\ call.began = 0
          /\ call.setBack = FALSE /\ call.woken = FALSE
      BY DEF Init, Idle
    <2> QED
      BY <2>1, <2>2, <2>3, Zenon DEF ClockTyped
  <1>4. WorldTyped
    <2>1. asset \in [Layers -> [Assets -> States]]
      <3>1. PICK own \in SUBSET Overlay :
              asset = [l \in Layers |-> [a \in Assets |->
                         IF l = "global" \/ a \in own THEN "good" ELSE "absent"]]
        BY DEF Init
      <3> QED
        BY <3>1 DEF States
    <2>2. 1 \in Times /\ 0 \in 0..MaxRevision
      BY InputsAssumption DEF Times
    <2> QED
      BY <2>1, <2>2 DEF Init, WorldTyped
  <1> QED
    BY <1>1, <1>2, <1>3, <1>4, TypeParts DEF TypeInv

LEMMA TypeAlways == Spec => []TypeInv
  BY TypeStart, TypeStep, PTL DEF Spec

(* What a call takes from outside is well formed at all times.             *)
THEOREM InputsTypeCorrect == Spec => []TypeOK
  <1>1. TypeInv => TypeOK
    BY DEF TypeInv
  <1> QED
    BY <1>1, TypeAlways, PTL

-----------------------------------------------------------------------------
(* Where the assets come from.                                             *)

Settled(a) ==
  \/ /\ call.from[a] = "project"
     /\ call.past[a] \intersect Regular # {}
     /\ call.past[a] \intersect Readable # {}
  \/ call.from[a] = "global" /\ "absent" \in call.past[a]

ProjectKnown == \A a \in Assets : asset["project"][a] \in call.past[a]

SettledBelow(n) ==
  \A i \in DOMAIN Chain : i < n /\ Chain[i] \in Overlay => Settled(Chain[i])

(* The global layer was turned to for want of a project file.              *)
Passed == Chosen \in Overlay => "absent" \in call.past[Chosen]

(* A regular file was there when the project was looked at.                *)
Found == call.past[Chosen] \intersect Regular # {}

Taken ==
  \/ call.from[Chosen] = "project" /\ Found
  \/ call.from[Chosen] = "global" /\ Passed

Late == {"entering"} \union UnderLock

AssetsInv ==
  /\ call.pc \in Preparing => ProjectKnown /\ SettledBelow(call.at)
  /\ call.pc = "global" => Passed
  /\ call.pc = "content" => Taken
  /\ call.pc \in Late => \A a \in Overlay : Settled(a)

LEMMA Stages ==
  /\ Preparing = {"project", "global", "content"}
  /\ Late = {"entering", "reading", "observing", "clock", "waiting", "committing"}
  /\ UnderLock \subseteq Late
  BY DEF Preparing, Late, UnderLock

LEMMA DoneSettled == call.pc = "done" => AssetsInv
  BY Stages DEF AssetsInv

(* What leaves the assets and the stage of the call alone.                 *)
LEMMA AssetsInvKept ==
  ASSUME AssetsInv, AssetsKept, asset' = asset,
         call'.pc = call.pc \/ (call.pc \in Late /\ call'.pc \in Late)
  PROVE  AssetsInv'
  BY Stages
  DEF AssetsInv, AssetsKept, ProjectKnown, SettledBelow, Settled, Passed, Found,
      Taken, Chosen

LEMMA BeginSettled ==
  ASSUME TypeInv, NEW kind \in Kinds, Begin(kind)
  PROVE  AssetsInv'
  <1>1. /\ call'.pc = "global" /\ call'.at = 1
        /\ call'.past = [a \in Assets |-> {asset["project"][a]}]
        /\ asset' = asset
    BY BeginEffect DEF Begin, world
  <1>2. ProjectKnown' /\ SettledBelow(1)' /\ Passed'
    BY <1>1, InputsAssumption DEF ProjectKnown, SettledBelow, Passed, Chosen
  <1> QED
    BY <1>1, <1>2, Stages DEF AssetsInv

LEMMA LookSettled ==
  ASSUME TypeInv, AssetsInv, LookProject \/ LookGlobal
  PROVE  AssetsInv'
  <1>0. /\ AssetTyped /\ Shape /\ Chosen \in Assets
        /\ call.pc \in Preparing /\ asset' = asset
        /\ ProjectKnown /\ SettledBelow(call.at)
    BY TypeParts, CheckPlaces, Stages
    DEF TypeInv, AssetTyped, AssetsInv, Chosen, Assets, world
  <1>1. CASE Exit("data")
    BY <1>1, ExitEffect, Stages DEF AssetsInv
  <1>2. CASE asset["project"][Chosen] = "absent" /\ Goto("global")
    <2>1. call'.pc = "global" /\ AssetsKept
      BY <1>0, <1>2, GotoEffect
    <2>2. "absent" \in call.past[Chosen]
      BY <1>0, <1>2 DEF ProjectKnown
    <2>3. ProjectKnown' /\ SettledBelow(call.at)' /\ Passed'
      BY <1>0, <2>1, <2>2
      DEF ProjectKnown, SettledBelow, Settled, Passed, Chosen, AssetsKept
    <2> QED
      BY <2>1, <2>3, Stages DEF AssetsInv, AssetsKept
  <1>3. ASSUME NEW layer,
               \/ layer = "project" /\ asset["project"][Chosen] \in Regular
               \/ layer = "global" /\ Passed,
               call' = [call EXCEPT !.pc = "content", !.from[Chosen] = layer]
        PROVE  AssetsInv'
    <2>1. /\ call'.pc = "content" /\ call'.at = call.at /\ call'.past = call.past
          /\ call'.from = [call.from EXCEPT ![Chosen] = layer]
      BY <1>0, <1>3, ChooseEffect
    <2>2. ProjectKnown'
      BY <1>0, <2>1 DEF ProjectKnown
    <2>3. SettledBelow(call.at)'
      <3> SUFFICES ASSUME NEW i \in DOMAIN Chain, i < call.at,
                          Chain[i] \in Overlay
                   PROVE  Settled(Chain[i])'
        BY <2>1 DEF SettledBelow
      <3>1. Chain[i] # Chosen
        BY <1>0, InputsAssumption DEF Chosen, AssetTyped
      <3>2. Settled(Chain[i]) /\ Chain[i] \in Assets
        BY <1>0 DEF SettledBelow, Assets
      <3>3. call'.from[Chain[i]] = call.from[Chain[i]]
        BY <1>0, <2>1, <3>1, <3>2 DEF AssetTyped
      <3> QED
        BY <2>1, <3>2, <3>3 DEF Settled
    <2>4. Taken'
      <3>1. call'.from[Chosen] = layer
        BY <1>0, <2>1 DEF AssetTyped
      <3>2. layer = "project" => Found
        BY <1>0, <1>3 DEF ProjectKnown, Found
      <3> QED
        BY <1>3, <2>1, <3>1, <3>2 DEF Taken, Found, Passed, Chosen
    <2> QED
      BY <2>1, <2>2, <2>3, <2>4, Stages DEF AssetsInv
  <1>4. LookGlobal => Passed
    BY <1>0, CheckPlaces DEF AssetsInv
  <1> QED
    BY <1>0, <1>1, <1>2, <1>3, <1>4, StepEffects

LEMMA CheckSettled ==
  ASSUME TypeInv, AssetsInv, CheckContent
  PROVE  AssetsInv'
  <1>0. /\ AssetTyped /\ Shape /\ Chosen \in Assets
        /\ call.pc = "content" /\ asset' = asset
        /\ ProjectKnown /\ SettledBelow(call.at) /\ Taken
    BY TypeParts, CheckPlaces, Stages
    DEF TypeInv, AssetTyped, AssetsInv, Chosen, Assets, world
  <1>1. CASE Exit("data")
    BY <1>1, ExitEffect, Stages DEF AssetsInv
  <1>2. Usable(Chosen) => SettledBelow(call.at + 1)
    <2> SUFFICES ASSUME Usable(Chosen), NEW i \in DOMAIN Chain,
                        i < call.at + 1, Chain[i] \in Overlay
                 PROVE  Settled(Chain[i])
      BY DEF SettledBelow
    <2>1. CASE i < call.at
      BY <1>0, <2>1 DEF SettledBelow
    <2>2. CASE i = call.at
      <3>1. Chain[i] = Chosen
        BY <2>2 DEF Chosen
      <3>2. call.from[Chosen] = "project" =>
              call.past[Chosen] \intersect Readable # {}
        BY <1>0 DEF Usable, ProjectKnown
      <3> QED
        BY <1>0, <3>1, <3>2 DEF Taken, Found, Passed, Settled
    <2>3. i < call.at \/ i = call.at
      BY <1>0, InputsAssumption DEF AssetTyped
    <2> QED
      BY <2>1, <2>2, <2>3
  <1>3. CASE Usable(Chosen) /\ call.at = Len(Chain) /\ Goto("entering")
    <2>1. call'.pc = "entering" /\ AssetsKept
      BY <1>0, <1>3, GotoEffect
    <2>2. ASSUME NEW a \in Overlay
          PROVE  Settled(a)
      <3>1. PICK i \in DOMAIN Chain : a = Chain[i]
        BY InputsAssumption DEF Assets
      <3>2. i < call.at + 1
        BY <1>3, InputsAssumption
      <3> QED
        BY <1>2, <1>3, <3>1, <3>2 DEF SettledBelow
    <2>3. \A a \in Overlay : Settled(a)'
      BY <2>1, <2>2 DEF Settled, AssetsKept
    <2> QED
      BY <2>1, <2>3, Stages DEF AssetsInv
  <1>4. ASSUME Usable(Chosen), NEW pc,
               pc = "project" \/ (pc = "global" /\ Chain[call.at + 1] \notin Overlay),
               call' = [call EXCEPT !.at = call.at + 1, !.pc = pc]
        PROVE  AssetsInv'
    <2>1. /\ call'.pc = pc /\ call'.at = call.at + 1
          /\ call'.from = call.from /\ call'.past = call.past
      BY <1>0, <1>4, NextAssetEffect
    <2>2. ProjectKnown' /\ SettledBelow(call.at)'
      BY <1>0, <1>2, <1>4, <2>1 DEF ProjectKnown, SettledBelow, Settled
    <2>3. pc = "global" => Passed'
      BY <1>4, <2>1 DEF Passed, Chosen
    <2> QED
      BY <1>4, <2>1, <2>2, <2>3, Stages DEF AssetsInv
  <1> QED
    BY <1>0, <1>1, <1>3, <1>4, StepEffects

LEMMA EditSettled ==
  ASSUME TypeInv, AssetsInv, EditAsset
  PROVE  AssetsInv'
  <1>0. AssetTyped /\ WorldTyped /\ Shape
    BY TypeParts DEF TypeInv
  <1>1. /\ call'.pc = call.pc /\ call'.at = call.at /\ call'.from = call.from
    BY <1>0, EditAssetEffects
  <1>2. CASE call.pc \notin Preparing /\ call'.past = call.past
    BY <1>1, <1>2, Stages DEF AssetsInv, Settled
  <1>3. CASE /\ call.pc \in Preparing
             /\ call'.past = [a \in Assets |->
                                call.past[a] \union {asset'["project"][a]}]
    <2>1. \A a \in Assets : call.past[a] \subseteq call'.past[a]
      BY <1>3
    <2>2. ProjectKnown'
      BY <1>3 DEF ProjectKnown
    <2>3. SettledBelow(call.at)'
      <3>1. \A i \in DOMAIN Chain : Chain[i] \in Assets
        BY DEF Assets
      <3> QED
        BY <1>1, <1>3, <2>1, <3>1 DEF AssetsInv, SettledBelow, Settled
    <2>4. Chosen \in Assets
      BY <1>0 DEF Chosen, Assets, AssetTyped
    <2>5. (Passed => Passed') /\ (Taken => Taken')
      BY <1>1, <2>1, <2>4 DEF Passed, Found, Taken, Chosen
    <2> QED
      BY <1>1, <1>3, <2>2, <2>3, <2>5, Stages DEF AssetsInv
  <1> QED
    BY <1>0, <1>2, <1>3, EditAssetEffects

LEMMA AssetsStep == TypeInv /\ AssetsInv /\ [Next]_vars => AssetsInv'
  <1> SUFFICES ASSUME TypeInv, AssetsInv, [Next]_vars
               PROVE  AssetsInv'
    OBVIOUS
  <1>0. ClockTyped /\ WorldTyped /\ Shape
    BY TypeParts DEF TypeInv
  <1>q. ASSUME NEW code, Exit(code)
        PROVE  AssetsInv'
    BY <1>q, ExitEffect, Stages DEF AssetsInv
  <1>g. ASSUME call.pc \in Late, NEW pc \in Late, Goto(pc), asset' = asset
        PROVE  AssetsInv'
    BY <1>0, <1>g, GotoEffect, AssetsInvKept
  <1>1. CASE LookProject \/ LookGlobal
    BY <1>1, LookSettled
  <1>2. CASE CheckContent
    BY <1>2, CheckSettled
  <1>3. CASE Enter \/ ReadMission
    <2>1. call.pc \in Late /\ asset' = asset
      BY <1>0, <1>3, CheckPlaces, Stages DEF world
    <2> QED
      BY <1>3, <1>q, <1>g, <2>1, EnterEffects, Stages
  <1>4. CASE Observe
    <2>1. call.pc \in Late /\ asset' = asset
      BY <1>0, <1>4, CheckPlaces, Stages DEF world
    <2>2. ASSUME NEW at \in Times,
                 call' = [call EXCEPT !.pc = "committing", !.next = at]
          PROVE  AssetsInv'
      <3>1. call'.pc = "committing" /\ AssetsKept
        BY <1>0, <2>2, StampEffect
      <3> QED
        BY <2>1, <3>1, AssetsInvKept, Stages
    <2>3. ASSUME call' = [call EXCEPT !.pc = "clock",
                            !.seen = Digest(target, Tree), !.began = now]
          PROVE  AssetsInv'
      <3>1. call'.pc = "clock" /\ AssetsKept
        BY <1>0, <2>3, SeenEffect
      <3> QED
        BY <2>1, <3>1, AssetsInvKept, Stages
    <2> QED
      BY <1>0, <1>4, <1>q, <2>2, <2>3, ObserveEffects
  <1>5. CASE LookAtClock
    <2>1. call.pc \in Late /\ asset' = asset
      BY <1>0, <1>5, CheckPlaces, Stages DEF world
    <2>2. CASE call' = [call EXCEPT !.pc = "committing", !.next = now]
      <3>1. call'.pc = "committing" /\ AssetsKept
        BY <1>0, <2>2, StampEffect
      <3> QED
        BY <2>1, <3>1, AssetsInvKept, Stages
    <2> QED
      BY <1>5, <1>g, <2>1, <2>2, ClockEffects, Stages
  <1>6. CASE Wake
    <2>1. call.pc \in Late /\ asset' = asset
      BY <1>0, <1>6, CheckPlaces, Stages DEF world
    <2>2. CASE GiveUp
      BY <1>0, <2>2, GiveUpEffect, Stages DEF AssetsInv
    <2>3. CASE call' = [call EXCEPT !.pc = "clock", !.tries = call.tries + 1,
                                    !.woken = FALSE]
      <3>1. call'.pc = "clock" /\ AssetsKept
        BY <1>0, <2>3, RetryEffect
      <3> QED
        BY <2>1, <3>1, AssetsInvKept, Stages
    <2> QED
      BY <1>0, <1>6, <2>2, <2>3, WakeEffects
  <1>7. CASE Commit
    BY <1>7, <1>q, CommitEffects
  <1>8. ASSUME NEW kind \in Kinds, Begin(kind)
        PROVE  AssetsInv'
    BY <1>8, BeginSettled
  <1>9. CASE Interrupt
    BY <1>9, <1>q, InterruptEffects
  <1>10. CASE Tick
    BY <1>0, <1>10, TickEffects, AssetsInvKept DEF world
  <1>11. CASE SetClock
    <2>1. call.setBack \in BOOLEAN
      BY <1>0 DEF ClockTyped
    <2> QED
      BY <1>0, <1>11, <2>1, SetClockEffects, AssetsInvKept DEF world
  <1>12. CASE EditAsset
    BY <1>12, EditSettled
  <1>13. CASE EditProject \/ UNCHANGED vars
    <2>1. call' = call /\ asset' = asset
      BY <1>13 DEF EditProject, vars, world
    <2> QED
      BY <2>1, AssetsInvKept DEF AssetsKept
  <1> QED
    BY <1>1, <1>2, <1>3, <1>4, <1>5, <1>6, <1>7, <1>8, <1>9, <1>10, <1>11,
       <1>12, <1>13 DEF Next, Step

(* A call that is past the assets used the project's version of an overlay *)
(* asset when it was good, the global one only when it found none.         *)
THEOREM BrokenOverlayStops == Spec => []NoFallThrough
  <1>1. Init => AssetsInv
    BY DoneSettled DEF Init, Idle
  <1>2. AssetsInv => NoFallThrough
    BY Stages DEF AssetsInv, NoFallThrough, Settled
  <1> QED
    BY <1>1, <1>2, TypeAlways, AssetsStep, PTL DEF Spec

-----------------------------------------------------------------------------
(* How long a call waits for its clock.                                    *)

Before == Preparing \union {"entering", "reading", "observing"}

Reached(t) == now >= t \/ now = MaxTime

(* While the clock is not set back each attempt sees a later second, and a *)
(* call waits because the stamp is ahead of the second it saw.             *)
ClockInv ==
  /\ call.pc # "done" => call.code = "none"
  /\ call.pc \in Before => call.tries = 0
  /\ call.woken = TRUE => call.pc = "waiting"
  /\ call.pc = "clock" /\ call.setBack = FALSE =>
       Reached(call.began + call.tries)
  /\ call.pc = "waiting" /\ call.setBack = FALSE =>
       /\ stamp >= call.began + call.tries
       /\ Reached(call.began + call.tries)
       /\ call.woken = TRUE => Reached(call.began + call.tries + 1)
  /\ call.code = "behind" /\ call.setBack = FALSE =>
       stamp >= call.began + MaxAttempts - 1

LEMMA Numbers ==
  ASSUME TypeInv
  PROVE  /\ call.began \in Nat /\ call.tries \in Nat /\ stamp \in Nat
         /\ now \in Nat /\ now <= MaxTime /\ now >= 1
         /\ MaxTime \in Nat /\ MaxAttempts \in Nat
         /\ call.pc # "done" => stamp < MaxTime
  <1>1. /\ call.began \in Times \union {0} /\ call.tries \in 0..(MaxAttempts - 1)
        /\ stamp \in Times \union {0} /\ now \in Times
    BY TypeParts DEF TypeInv, ClockTyped, WorldTyped
  <1> QED
    BY <1>1, InputsAssumption DEF Times, TypeInv, Room

LEMMA BeforeStages ==
  /\ Before = {"project", "global", "content", "entering", "reading", "observing"}
  /\ Late = {"entering", "reading", "observing", "clock", "waiting", "committing"}
  BY DEF Preparing, Before, Late, UnderLock

LEMMA ClockInvKept ==
  ASSUME ClockInv, RestKept, ClockKept, stamp' = stamp, now' = now,
         call'.pc = call.pc \/ (call.pc \in Before /\ call'.pc \in Before)
  PROVE  ClockInv'
  BY BeforeStages DEF ClockInv, RestKept, ClockKept, Reached

LEMMA FreshClock ==
  ASSUME ClockIdle, call'.code # "behind",
         call'.pc = "done" \/ (call'.code = "none" /\ call'.pc \in Before)
  PROVE  ClockInv'
  BY BeforeStages DEF ClockIdle, ClockInv

(* Beyond the clock nothing is left to wait for.                           *)
LEMMA StampedClock ==
  ASSUME TypeInv, ClockInv, call.pc \in {"observing", "clock"}, RestKept,
         call'.pc = "committing", call'.woken = call.woken
  PROVE  ClockInv'
  BY BeforeStages DEF ClockInv, RestKept

LEMMA ObserveClock ==
  ASSUME TypeInv, ClockInv, Observe,
         call' = [call EXCEPT !.pc = "clock", !.seen = Digest(target, Tree),
                              !.began = now]
  PROVE  ClockInv'
  <1>0. Shape
    BY DEF TypeInv
  <1>1. /\ call'.pc = "clock" /\ call'.began = now /\ call'.tries = call.tries
        /\ call'.woken = call.woken /\ RestKept
    BY <1>0, SeenEffect
  <1>2. /\ call.pc = "observing" /\ now' = now
    BY <1>0, CheckPlaces
  <1>3. call'.tries = 0 /\ call'.code = "none" /\ ~(call'.woken = TRUE)
    BY <1>1, <1>2, BeforeStages DEF ClockInv, RestKept
  <1>4. now + 0 = now /\ now >= now
    BY Numbers
  <1>5. Reached(call.began + call.tries)'
    BY <1>1, <1>2, <1>3, <1>4 DEF Reached
  <1> QED
    BY <1>1, <1>3, <1>5, BeforeStages DEF ClockInv

LEMMA LookClock ==
  ASSUME TypeInv, ClockInv, ~(now > stamp), LookAtClock, Goto("waiting")
  PROVE  ClockInv'
  <1>0. Shape
    BY DEF TypeInv
  <1>1. call'.pc = "waiting" /\ RestKept /\ ClockKept
    BY <1>0, GotoEffect
  <1>2. call.pc = "clock" /\ now' = now /\ stamp' = stamp
    BY <1>0, CheckPlaces DEF mission
  <1>3. call.setBack = FALSE =>
          stamp >= call.began + call.tries /\ Reached(call.began + call.tries)
    BY <1>2, Numbers DEF ClockInv, Reached
  <1>4. ~(call.woken = TRUE) /\ call.code = "none"
    BY <1>2 DEF ClockInv
  <1> QED
    BY <1>1, <1>2, <1>3, <1>4, BeforeStages
    DEF ClockInv, Reached, RestKept, ClockKept

LEMMA WakeClock ==
  ASSUME TypeInv, ClockInv, Wake
  PROVE  ClockInv'
  <1>0. Shape /\ ClockTyped
    BY TypeParts DEF TypeInv
  <1>1. /\ call.pc = "waiting" /\ now' = now /\ stamp' = stamp
    BY <1>0, CheckPlaces DEF mission
  <1>2. call.woken = TRUE
    BY <1>0, CheckPlaces, Zenon DEF ClockTyped
  <1>3. call.setBack = FALSE =>
          /\ stamp >= call.began + call.tries
          /\ Reached(call.began + call.tries + 1)
    BY <1>1, <1>2 DEF ClockInv
  <1>4. CASE call.tries + 1 = MaxAttempts /\ GiveUp
    <2>1. /\ call'.pc = "done" /\ call'.code = "behind" /\ call'.woken = FALSE
          /\ call'.began = call.began /\ call'.setBack = call.setBack
      BY <1>0, <1>4, GiveUpEffect
    <2>2. call.setBack = FALSE => stamp >= call.began + MaxAttempts - 1
      BY <1>3, <1>4, Numbers
    <2> QED
      BY <1>1, <2>1, <2>2, BeforeStages DEF ClockInv
  <1>5. CASE call' = [call EXCEPT !.pc = "clock", !.tries = call.tries + 1,
                                  !.woken = FALSE]
    <2>1. /\ call'.pc = "clock" /\ call'.tries = call.tries + 1
          /\ call'.woken = FALSE /\ call'.began = call.began
          /\ call'.setBack = call.setBack /\ RestKept
      BY <1>0, <1>5, RetryEffect
    <2>2. call.began + call.tries + 1 = call.began + (call.tries + 1)
      BY Numbers
    <2>3. call'.setBack = FALSE => Reached(call.began + call.tries)'
      BY <1>1, <1>3, <2>1, <2>2 DEF Reached
    <2>4. call'.code = "none"
      BY <1>1, <2>1 DEF ClockInv, RestKept
    <2> QED
      BY <2>1, <2>3, <2>4, BeforeStages DEF ClockInv
  <1> QED
    BY <1>0, <1>4, <1>5, WakeEffects

LEMMA TickClock ==
  ASSUME TypeInv, ClockInv, Tick
  PROVE  ClockInv'
  <1>0. Shape
    BY DEF TypeInv
  <1>1. /\ call'.pc = call.pc /\ call'.tries = call.tries
        /\ call'.began = call.began /\ call'.setBack = call.setBack
        /\ call'.woken = TRUE => call.pc = "waiting"
        /\ RestKept /\ stamp' = stamp
        /\ now' = IF now < MaxTime THEN now + 1 ELSE now
    BY <1>0, TickEffects DEF mission
  <1>2. \A t \in Nat : Reached(t) => Reached(t)' /\ Reached(t + 1)'
    BY <1>1, Numbers DEF Reached
  <1>3. call.began + call.tries \in Nat
    BY Numbers
  <1>4. Reached(call.began + call.tries) =>
          /\ Reached(call.began + call.tries)'
          /\ Reached(call.began + call.tries + 1)'
    BY <1>1, <1>2, <1>3 DEF Reached
  <1> QED
    BY <1>1, <1>4, BeforeStages DEF ClockInv, RestKept

LEMMA SetClockClock ==
  ASSUME TypeInv, ClockInv, SetClock
  PROVE  ClockInv'
  <1>0. Shape /\ ClockTyped /\ call.setBack \in BOOLEAN
    BY TypeParts DEF TypeInv, ClockTyped
  <1>1. /\ call'.pc = call.pc /\ call'.tries = call.tries
        /\ call'.began = call.began /\ call'.woken = call.woken
        /\ call'.setBack = FALSE => call.setBack = FALSE
             /\ (call.pc \in {"clock", "waiting"} => ~(now' < now))
        /\ RestKept /\ stamp' = stamp /\ now' \in Times
    BY <1>0, SetClockEffects DEF mission
  <1>2. ASSUME ~(now' < now), NEW t \in Nat, Reached(t)
        PROVE  now' >= t \/ now' = MaxTime
    BY <1>1, <1>2, Numbers, InputsAssumption DEF Reached, Times
  <1>3. call.began + call.tries \in Nat /\ call.began + call.tries + 1 \in Nat
    BY Numbers
  <1>4. ~(now' < now) =>
          /\ Reached(call.began + call.tries) => Reached(call.began + call.tries)'
          /\ Reached(call.began + call.tries + 1) =>
               Reached(call.began + call.tries + 1)'
    BY <1>1, <1>2, <1>3 DEF Reached
  <1> QED
    BY <1>1, <1>4, BeforeStages DEF ClockInv, RestKept

LEMMA ClockStep == TypeInv /\ ClockInv /\ [Next]_vars => ClockInv'
  <1> SUFFICES ASSUME TypeInv, ClockInv, [Next]_vars
               PROVE  ClockInv'
    OBVIOUS
  <1>0. Shape /\ WorldTyped
    BY TypeParts DEF TypeInv
  <1>q. ASSUME NEW code, code # "behind", Exit(code)
        PROVE  ClockInv'
    BY <1>q, ExitEffect, FreshClock
  <1>g. ASSUME call.pc \in Before, NEW pc \in Before, Goto(pc),
               stamp' = stamp, now' = now
        PROVE  ClockInv'
    <2>1. call'.pc = pc /\ RestKept /\ ClockKept
      BY <1>0, <1>g, GotoEffect
    <2> QED
      BY <1>g, <2>1, ClockInvKept
  <1>1. CASE LookProject \/ LookGlobal \/ CheckContent
    <2>0. call.pc \in Before /\ stamp' = stamp /\ now' = now
      BY <1>0, <1>1, CheckPlaces, BeforeStages DEF mission
    <2>1. ASSUME NEW layer,
                 call' = [call EXCEPT !.pc = "content", !.from[Chosen] = layer]
          PROVE  ClockInv'
      <3>1. call'.pc = "content" /\ RestKept /\ ClockKept
        BY <1>0, <2>1, ChooseEffect
      <3> QED
        BY <2>0, <3>1, ClockInvKept, BeforeStages
    <2>2. ASSUME NEW pc \in {"project", "global"},
                 call' = [call EXCEPT !.at = call.at + 1, !.pc = pc]
          PROVE  ClockInv'
      <3>1. call'.pc = pc /\ RestKept /\ ClockKept
        BY <1>0, <2>2, NextAssetEffect
      <3> QED
        BY <2>0, <3>1, ClockInvKept, BeforeStages
    <2> QED
      BY <1>0, <1>1, <1>q, <1>g, <2>0, <2>1, <2>2, StepEffects, BeforeStages
  <1>2. CASE Enter \/ ReadMission
    <2>1. call.pc \in Before /\ stamp' = stamp /\ now' = now
      BY <1>0, <1>2, CheckPlaces, BeforeStages DEF mission
    <2> QED
      BY <1>2, <1>q, <1>g, <2>1, EnterEffects, BeforeStages
  <1>3. CASE Observe
    <2>1. ASSUME NEW at \in Times,
                 call' = [call EXCEPT !.pc = "committing", !.next = at]
          PROVE  ClockInv'
      <3>1. call'.pc = "committing" /\ RestKept /\ call'.woken = call.woken
        BY <1>0, <2>1, StampEffect
      <3> QED
        BY <1>0, <1>3, <3>1, CheckPlaces, StampedClock
    <2> QED
      BY <1>0, <1>3, <1>q, <2>1, ObserveClock, ObserveEffects
  <1>4. CASE LookAtClock
    <2>1. CASE call' = [call EXCEPT !.pc = "committing", !.next = now]
      <3>1. call'.pc = "committing" /\ RestKept /\ call'.woken = call.woken
        BY <1>0, <2>1, StampEffect
      <3> QED
        BY <1>0, <1>4, <3>1, CheckPlaces, StampedClock
    <2> QED
      BY <1>4, <2>1, LookClock, ClockEffects
  <1>5. CASE Wake
    BY <1>5, WakeClock
  <1>6. CASE Commit
    BY <1>6, <1>q, CommitEffects
  <1>7. ASSUME NEW kind \in Kinds, Begin(kind)
        PROVE  ClockInv'
    BY <1>7, BeginEffect, FreshClock, BeforeStages
  <1>8. CASE Interrupt
    BY <1>8, <1>q, InterruptEffects
  <1>9. CASE Tick
    BY <1>9, TickClock
  <1>10. CASE SetClock
    BY <1>10, SetClockClock
  <1>11. CASE EditAsset
    <2>1. /\ call'.pc = call.pc /\ RestKept /\ ClockKept
          /\ stamp' = stamp /\ now' = now
      BY <1>0, <1>11, EditAssetEffects DEF mission
    <2> QED
      BY <2>1, ClockInvKept
  <1>12. CASE EditProject \/ UNCHANGED vars
    <2>1. call' = call /\ stamp' = stamp /\ now' = now
      BY <1>12 DEF EditProject, vars, mission
    <2> QED
      BY <2>1, ClockInvKept DEF RestKept, ClockKept
  <1> QED
    BY <1>1, <1>2, <1>3, <1>4, <1>5, <1>6, <1>7, <1>8, <1>9, <1>10, <1>11,
       <1>12 DEF Next, Step

(* A resume gives up only on a document at least MaxAttempts - 1 seconds   *)
(* ahead of a clock that nobody set back.                                  *)
THEOREM ShortLeadNeverFails == Spec => []ShortLeadWaitedOut
  <1>1. Init => ClockInv
    BY BeforeStages DEF Init, Idle, ClockInv
  <1>2. TypeInv /\ ClockInv => ShortLeadWaitedOut
    <2>1. TypeInv => call.setBack \in BOOLEAN
      BY TypeParts DEF TypeInv, ClockTyped
    <2>2. TypeInv /\ ~call.setBack => call.setBack = FALSE
      BY <2>1, Zenon
    <2> QED
      BY <2>2 DEF ClockInv, ShortLeadWaitedOut
  <1> QED
    BY <1>1, <1>2, TypeAlways, ClockStep, PTL DEF Spec

-----------------------------------------------------------------------------
(* A mission about the missions.                                           *)

OwnProgress == Append(Own, "progress")

LEMMA OwnPath ==
  /\ Len(Missions) = 3 /\ Len(OwnProgress) = 5
  /\ OwnProgress[4] = "own" /\ OwnProgress[5] = "progress"
  BY DEF OwnProgress, Own, Missions

LEMMA OwnPathIsItsOwn == ~(revision > 0) => OwnProgress \notin Files
  <1>1. OwnProgress \notin {<<"app", "main">>, <<"docs", "guide">>}
    <2>1. Len(<<"app", "main">>) = 2 /\ Len(<<"docs", "guide">>) = 2
      OBVIOUS
    <2> QED
      BY <2>1, OwnPath
  <1>2. OwnProgress # Missions \o <<"other", "progress">>
    <2>1. (Missions \o <<"other", "progress">>)[4] = "other"
      BY DEF Missions
    <2> QED
      BY <2>1, OwnPath, Zenon
  <1>3. OwnProgress # Append(Own, "owner")
    <2>1. Append(Own, "owner")[5] = "owner"
      BY DEF Own, Missions
    <2> QED
      BY <2>1, OwnPath, Zenon
  <1> QED
    BY <1>1, <1>2, <1>3 DEF Files, OwnProgress

(* The walk started at the missions meets none of the excluded directories *)
(* on its way to the mission's own document.                               *)
LEMMA OwnPathHashed ==
  /\ IsPrefix(Missions, OwnProgress)
  /\ \A d \in Excluded : ~IsStrictPrefix(Missions, d)
  <1>1. IsPrefix(Missions, OwnProgress)
    <2>1. SubSeq(OwnProgress, 1, 3) = SubSeq(Missions, 1, 3)
      BY DEF OwnProgress, Own, Missions
    <2> QED
      BY <2>1, OwnPath DEF IsPrefix
  <1>2. ~IsPrefix(Missions, <<".git">>) /\ ~IsPrefix(Missions, <<".omo">>)
    BY DEF IsPrefix, Missions
  <1> QED
    BY <1>1, <1>2 DEF Excluded, IsStrictPrefix

LEMMA DigestSeesOwn ==
  /\ revision > 0 => OwnProgress \in DOMAIN Digest(Missions, Tree)
  /\ ~(revision > 0) => OwnProgress \notin DOMAIN Digest(target, Tree)
  <1>1. DOMAIN Tree = Files
    BY Zenon DEF Tree
  <1>2. \A start, tree : DOMAIN Digest(start, tree) = Hashed(start, DOMAIN tree)
    BY DEF Digest
  <1>3. revision > 0 => OwnProgress \in DOMAIN Digest(Missions, Tree)
    BY <1>1, <1>2, OwnPathHashed DEF Hashed, Files, OwnProgress
  <1>4. ~(revision > 0) => OwnProgress \notin DOMAIN Digest(target, Tree)
    BY <1>1, <1>2, OwnPathIsItsOwn DEF Hashed
  <1> QED
    BY <1>3, <1>4

Hashing == {"clock", "waiting", "committing"}

(* The digest a mission about the missions is bound to is of a tree without *)
(* its own document, which every later digest has: no call gets past it.   *)
SelfInv ==
  /\ call.kind # "init" /\ call.pc \in UnderLock => revision > 0
  /\ call.kind = "init" /\ call.pc \in Hashing /\ ~(revision > 0) =>
       OwnProgress \notin DOMAIN call.seen
  /\ target = Missions =>
       /\ revision > 0 => OwnProgress \notin DOMAIN bound
       /\ call.kind # "init" => call.pc \notin Hashing
       /\ revision <= 1

LEMMA SelfStages ==
  /\ UnderLock = {"reading", "observing", "clock", "waiting", "committing"}
  /\ Preparing = {"project", "global", "content"}
  /\ Hashing \subseteq UnderLock
  BY DEF UnderLock, Hashing, Preparing

LEMMA SelfOutside ==
  ASSUME SelfInv, UNCHANGED mission, call'.pc \notin UnderLock
  PROVE  SelfInv'
  BY SelfStages DEF SelfInv, mission

LEMMA SelfKept ==
  ASSUME SelfInv, UNCHANGED mission, RestKept, SeenKept,
         call'.pc = call.pc \/ (call.pc \in Hashing /\ call'.pc \in Hashing)
  PROVE  SelfInv'
  BY SelfStages DEF SelfInv, mission, RestKept, SeenKept

LEMMA SelfEnter ==
  ASSUME TypeInv, SelfInv, Enter \/ ReadMission
  PROVE  SelfInv'
  <1>0. Shape /\ UNCHANGED mission
    BY CheckPlaces DEF TypeInv
  <1>1. CASE Exit("data")
    BY <1>0, <1>1, ExitEffect, SelfOutside, SelfStages
  <1>2. ASSUME NEW pc \in {"reading", "observing"}, Goto(pc),
               call.kind = "init" \/ revision > 0
        PROVE  SelfInv'
    <2>1. call'.pc = pc /\ RestKept
      BY <1>0, <1>2, GotoEffect
    <2>2. pc \notin Hashing
      BY DEF Hashing
    <2> QED
      BY <1>0, <1>2, <2>1, <2>2 DEF SelfInv, RestKept, mission
  <1>3. ReadMission => call.kind = "init" \/ revision > 0
    BY <1>0, CheckPlaces, SelfStages DEF SelfInv
  <1> QED
    BY <1>1, <1>2, <1>3, EnterEffects

LEMMA SelfObserve ==
  ASSUME TypeInv, SelfInv, Observe
  PROVE  SelfInv'
  <1>0. Shape /\ UNCHANGED mission /\ call.pc = "observing"
    BY CheckPlaces DEF TypeInv
  <1>1. ASSUME Exit("data") \/ Exit("temporary")
        PROVE  SelfInv'
    BY <1>0, <1>1, ExitEffect, SelfOutside, SelfStages
  <1>2. call.kind # "init" => revision > 0
    BY <1>0, SelfStages DEF SelfInv
  <1>3. target = Missions /\ call.kind # "init" => Digest(target, Tree) # bound
    BY <1>2, DigestSeesOwn DEF SelfInv
  <1>4. ASSUME call.kind # "init", Digest(target, Tree) = bound, RestKept
        PROVE  SelfInv'
    BY <1>0, <1>2, <1>3, <1>4 DEF SelfInv, mission, RestKept
  <1>5. ASSUME NEW at \in Times, call.kind = "checkpoint",
               Digest(target, Tree) = bound,
               call' = [call EXCEPT !.pc = "committing", !.next = at]
        PROVE  SelfInv'
    <2>1. RestKept
      BY <1>0, <1>5, StampEffect
    <2> QED
      BY <1>4, <1>5, <2>1
  <1>6. ASSUME call.kind # "init" => Digest(target, Tree) = bound,
               call' = [call EXCEPT !.pc = "clock",
                          !.seen = Digest(target, Tree), !.began = now]
        PROVE  SelfInv'
    <2>1. RestKept /\ call'.seen = Digest(target, Tree)
      BY <1>0, <1>6, SeenEffect
    <2>2. CASE call.kind = "init"
      BY <1>0, <2>1, <2>2, DigestSeesOwn DEF SelfInv, mission, RestKept
    <2> QED
      BY <1>4, <1>6, <2>1, <2>2
  <1> QED
    BY <1>0, <1>1, <1>5, <1>6, ObserveEffects

LEMMA SelfCommit ==
  ASSUME TypeInv, SelfInv, Commit
  PROVE  SelfInv'
  <1>0. Shape /\ call.pc = "committing" /\ call'.pc = "done"
        /\ revision \in Nat
    BY CheckPlaces, CommitEffects, ExitEffect, TypeParts, InputsAssumption
    DEF TypeInv, WorldTyped
  <1>1. CASE UNCHANGED mission
    BY <1>0, <1>1, SelfOutside, SelfStages
  <1>2. CASE /\ revision' = revision + 1 /\ target' = target
             /\ call.kind = "init" => ~(revision > 0)
             /\ bound' = IF call.kind = "init" THEN call.seen ELSE bound
    <2>1. call'.pc \notin UnderLock /\ call'.pc \notin Hashing
      BY <1>0, SelfStages
    <2>2. CASE target = Missions
      <3>1. call.kind = "init" /\ ~(revision > 0)
        BY <1>0, <1>2, <2>2 DEF SelfInv, Hashing
      <3>2. OwnProgress \notin DOMAIN call.seen
        BY <1>0, <3>1 DEF SelfInv, Hashing
      <3>3. revision' <= 1
        BY <1>0, <1>2, <3>1
      <3>4. (OwnProgress \notin DOMAIN bound)'
        BY <1>2, <3>1, <3>2 DEF OwnProgress, Own
      <3> QED
        BY <2>1, <3>3, <3>4 DEF SelfInv
    <2>3. CASE target # Missions
      BY <1>2, <2>1, <2>3 DEF SelfInv
    <2> QED
      BY <2>2, <2>3
  <1> QED
    BY <1>1, <1>2, CommitEffects

LEMMA SelfStep == TypeInv /\ SelfInv /\ [Next]_vars => SelfInv'
  <1> SUFFICES ASSUME TypeInv, SelfInv, [Next]_vars
               PROVE  SelfInv'
    OBVIOUS
  <1>0. Shape /\ WorldTyped /\ ClockTyped
    BY TypeParts DEF TypeInv
  <1>1. CASE LookProject \/ LookGlobal \/ CheckContent
    <2>0. UNCHANGED mission
      BY <1>0, <1>1, CheckPlaces
    <2>q. ASSUME call'.pc \in {"done", "project", "global", "content", "entering"}
          PROVE  SelfInv'
      BY <2>0, <2>q, SelfOutside, SelfStages
    <2>1. ASSUME NEW pc, Goto(pc)
          PROVE  call'.pc = pc
      BY <1>0, <2>1, GotoEffect
    <2>2. ASSUME NEW layer,
                 call' = [call EXCEPT !.pc = "content", !.from[Chosen] = layer]
          PROVE  call'.pc = "content"
      BY <1>0, <2>2, ChooseEffect
    <2>3. ASSUME NEW pc \in {"project", "global"},
                 call' = [call EXCEPT !.at = call.at + 1, !.pc = pc]
          PROVE  call'.pc = pc
      BY <1>0, <2>3, NextAssetEffect
    <2>4. Exit("data") => call'.pc = "done"
      BY ExitEffect
    <2>5. CASE LookProject
      BY <1>0, <2>5, <2>q, <2>1, <2>2, <2>4, StepEffects
    <2>6. CASE LookGlobal
      BY <1>0, <2>6, <2>q, <2>2, <2>4, StepEffects
    <2>7. CASE CheckContent
      BY <1>0, <2>7, <2>q, <2>1, <2>3, <2>4, StepEffects
    <2> QED
      BY <1>1, <2>5, <2>6, <2>7
  <1>2. CASE Enter \/ ReadMission
    BY <1>2, SelfEnter
  <1>3. CASE Observe
    BY <1>3, SelfObserve
  <1>4. CASE LookAtClock
    <2>0. UNCHANGED mission /\ call.pc = "clock"
      BY <1>0, <1>4, CheckPlaces
    <2>1. call'.pc \in {"committing", "waiting"} /\ RestKept /\ SeenKept
      BY <1>0, <1>4, ClockEffects, StampEffect, GotoEffect
    <2> QED
      BY <2>0, <2>1, SelfKept DEF Hashing
  <1>5. CASE Wake
    <2>0. UNCHANGED mission /\ call.pc = "waiting"
      BY <1>0, <1>5, CheckPlaces
    <2>1. CASE GiveUp
      BY <1>0, <2>0, <2>1, GiveUpEffect, SelfOutside, SelfStages
    <2>2. CASE call' = [call EXCEPT !.pc = "clock", !.tries = call.tries + 1,
                                    !.woken = FALSE]
      <3>1. call'.pc = "clock" /\ RestKept /\ SeenKept
        BY <1>0, <2>2, RetryEffect
      <3> QED
        BY <2>0, <3>1, SelfKept DEF Hashing
    <2> QED
      BY <1>0, <1>5, <2>1, <2>2, WakeEffects
  <1>6. CASE Commit
    BY <1>6, SelfCommit
  <1>7. ASSUME NEW kind \in Kinds, Begin(kind)
        PROVE  SelfInv'
    <2>1. call'.pc = "global" /\ UNCHANGED mission
      BY <1>7, BeginEffect DEF Begin
    <2> QED
      BY <2>1, SelfOutside, SelfStages
  <1>8. CASE Interrupt
    BY <1>8, InterruptEffects, ExitEffect, SelfOutside, SelfStages
  <1>9. CASE Tick
    BY <1>0, <1>9, TickEffects, SelfKept
  <1>10. CASE SetClock
    <2>1. call.setBack \in BOOLEAN
      BY <1>0 DEF ClockTyped
    <2> QED
      BY <1>0, <1>10, <2>1, SetClockEffects, SelfKept
  <1>11. CASE EditAsset
    BY <1>0, <1>11, EditAssetEffects, SelfKept
  <1>12. CASE EditProject \/ UNCHANGED vars
    <2>1. call' = call /\ UNCHANGED mission
      BY <1>12 DEF EditProject, vars
    <2> QED
      BY <2>1, SelfKept DEF RestKept, SeenKept
  <1> QED
    BY <1>1, <1>2, <1>3, <1>4, <1>5, <1>6, <1>7, <1>8, <1>9, <1>10, <1>11,
       <1>12 DEF Next, Step

(* A mission about docs/analysis/missions is never continued: its own      *)
(* documents change the digest that mission init bound it to.              *)
THEOREM SelfTargetNeverContinues == Spec => []SelfTargetStuck
  <1>1. Init => SelfInv
    BY SelfStages DEF Init, Idle, SelfInv
  <1>2. SelfInv => SelfTargetStuck
    BY DEF SelfInv, SelfTargetStuck
  <1> QED
    BY <1>1, <1>2, TypeAlways, SelfStep, PTL DEF Spec
-----------------------------------------------------------------------------
(* What the program writes and what the digest sees.                       *)

(* The paths of the project that are not this mission's own.               *)
Foreign ==
  {<<"app", "main">>, <<"docs", "guide">>, Missions \o <<"other", "progress">>}

(* What paths are made of.  (The provers do not know a literal to be in    *)
(* STRING.)                                                                *)
PathNames ==
  STRING \union {"docs", "analysis", "missions", "own", "progress", "owner"}

LEMMA TargetIsPath == TypeOK => target \in Seq(PathNames)
  <1>1. ASSUME NEW t \in Seq(STRING)
        PROVE  t \in Seq(PathNames)
    <2>1. \A i \in 1..Len(t) : t[i] \in PathNames
      BY DEF PathNames
    <2> QED
      BY <2>1
  <1> QED
    BY <1>1, InputsAssumption DEF TypeOK

LEMMA OwnFiles ==
  \A p \in Files \ Foreign : p \in {Append(Own, "progress"), Append(Own, "owner")}
  BY DEF Files, Foreign

(* A prefix, position by position.                                         *)
LEMMA PrefixIs ==
  ASSUME NEW S, NEW s \in Seq(S), NEW t \in Seq(S)
  PROVE  IsPrefix(s, t) <=> Len(s) <= Len(t) /\ \A i \in 1..Len(s) : s[i] = t[i]
  <1>1. ASSUME Len(s) <= Len(t)
        PROVE  /\ \A i \in 1..Len(s) : /\ SubSeq(s, 1, Len(s))[i] = s[i]
                                       /\ SubSeq(t, 1, Len(s))[i] = t[i]
               /\ Len(SubSeq(s, 1, Len(s))) = Len(SubSeq(t, 1, Len(s)))
               /\ Len(SubSeq(s, 1, Len(s))) = Len(s)
               /\ SubSeq(s, 1, Len(s)) \in Seq(S) /\ SubSeq(t, 1, Len(s)) \in Seq(S)
    BY <1>1
  <1> QED
    BY <1>1 DEF IsPrefix

(* A walk that meets a file two levels below m starts above m, at m, or on *)
(* the way from there to the file.                                         *)
LEMMA PrefixSplit ==
  ASSUME NEW S, NEW m \in Seq(S), NEW o \in S, NEW x \in S, NEW t \in Seq(S),
         IsPrefix(t, Append(Append(m, o), x))
  PROVE  /\ IsPrefix(m, Append(Append(m, o), x))
         /\ IsStrictPrefix(t, m) \/ t = m \/ IsPrefix(Append(m, o), t)
  <1> DEFINE own == Append(m, o)
             p   == Append(own, x)
  <1>1. /\ own \in Seq(S) /\ Len(own) = Len(m) + 1
        /\ \A i \in 1..Len(m) : own[i] = m[i]
    OBVIOUS
  <1>2. IsPrefix(t, p)
    OBVIOUS
  <1> SUFFICES /\ IsPrefix(m, p)
               /\ IsStrictPrefix(t, m) \/ t = m \/ IsPrefix(own, t)
    OBVIOUS
  <1> HIDE DEF own
  <1>3. /\ p \in Seq(S) /\ Len(p) = Len(own) + 1
        /\ \A i \in 1..Len(own) : p[i] = own[i]
    BY <1>1
  <1> HIDE DEF p
  <1>4. /\ Len(t) <= Len(p) /\ \A i \in 1..Len(t) : t[i] = p[i]
    BY <1>2, <1>3, PrefixIs
  <1>5. Len(m) \in Nat /\ Len(t) \in Nat
    OBVIOUS
  <1>6. IsPrefix(m, p)
    <2>1. Len(m) <= Len(p) /\ \A i \in 1..Len(m) : m[i] = p[i]
      BY <1>1, <1>3, <1>5
    <2>2. p \in Seq(S)
      BY <1>3
    <2> QED
      BY <2>1, <2>2, PrefixIs, Zenon
  <1>7. CASE Len(t) < Len(m)
    <2>1. ASSUME NEW i \in 1..Len(t)
          PROVE  t[i] = m[i]
      <3>1. i \in 1..Len(m) /\ i \in 1..Len(own)
        BY <1>1, <1>5, <1>7
      <3> QED
        BY <1>1, <1>3, <1>4, <3>1
    <2>2. IsPrefix(t, m)
      BY <1>5, <1>7, <2>1, PrefixIs
    <2>3. t # m
      BY <1>5, <1>7
    <2> QED
      BY <1>6, <2>2, <2>3 DEF IsStrictPrefix
  <1>8. CASE Len(t) = Len(m)
    <2>1. \A i \in 1..Len(t) : t[i] = m[i]
      BY <1>1, <1>3, <1>4, <1>5, <1>8
    <2>2. t = m
      BY <1>8, <2>1
    <2> QED
      BY <1>6, <2>2
  <1>9. CASE Len(t) > Len(m)
    <2>1. Len(own) <= Len(t) /\ \A i \in 1..Len(own) : own[i] = t[i]
      BY <1>1, <1>3, <1>4, <1>5, <1>9
    <2> QED
      BY <1>1, <1>6, <2>1, PrefixIs
  <1> QED
    BY <1>5, <1>7, <1>8, <1>9

(* A walk that is not about the mission itself passes by its directory.    *)
LEMMA OwnPathsUnseen ==
  ASSUME target \in Seq(PathNames), ~AboutItself,
         NEW name \in {"progress", "owner"}
  PROVE  Append(Own, name) \notin Hashed(target, Files)
  <1> SUFFICES ASSUME Append(Own, name) \in Hashed(target, Files) PROVE FALSE
    OBVIOUS
  <1>1. Missions \in Seq(PathNames)
    BY DEF Missions, PathNames
  <1>2. name \in PathNames /\ "own" \in PathNames
    BY DEF PathNames
  <1>3. IsPrefix(target, Append(Append(Missions, "own"), name))
    BY DEF Hashed, Own
  <1>4. /\ IsPrefix(Missions, Append(Own, name))
        /\ \/ IsStrictPrefix(target, Missions)
           \/ target = Missions \/ IsPrefix(Own, target)
    BY <1>1, <1>2, <1>3, PrefixSplit, Zenon DEF Own
  <1>5. IsStrictPrefix(target, Missions)
    BY <1>4 DEF AboutItself
  <1> QED
    BY <1>4, <1>5 DEF Hashed, Excluded

(* So the digest is one of the other files alone, and what they hold is    *)
(* not up to the mission.                                                  *)
LEMMA DigestOfForeign ==
  ASSUME target \in Seq(PathNames), ~AboutItself
  PROVE  Digest(target, Tree) =
           [p \in Hashed(target, Foreign) |->
              IF IsPrefix(Append(Missions, "other"), p) THEN other ELSE sources]
  <1>1. DOMAIN Tree = Files
    BY Zenon DEF Tree
  <1>2. Hashed(target, Files) = Hashed(target, Foreign)
    <2>1. \A p \in Hashed(target, Files) : p \in Foreign
      BY OwnFiles, OwnPathsUnseen DEF Hashed
    <2>2. Foreign \subseteq Files
      BY DEF Foreign, Files
    <2> QED
      BY <2>1, <2>2 DEF Hashed
  <1>3. \A p \in Foreign : ~IsPrefix(Own, p)
    <2>1. Len(Own) = 4 /\ Own[4] = "own"
      BY DEF Own, Missions
    <2>2. ~IsPrefix(Own, <<"app", "main">>) /\ ~IsPrefix(Own, <<"docs", "guide">>)
      <3>1. Len(<<"app", "main">>) = 2 /\ Len(<<"docs", "guide">>) = 2
        OBVIOUS
      <3> QED
        BY <2>1, <3>1 DEF IsPrefix
    <2>3. ~IsPrefix(Own, Missions \o <<"other", "progress">>)
      <3>1. SubSeq(Own, 1, 4)[4] = "own"
        BY <2>1 DEF Own, Missions
      <3>2. SubSeq(Missions \o <<"other", "progress">>, 1, 4)[4] = "other"
        BY DEF Missions
      <3> QED
        BY <2>1, <3>1, <3>2 DEF IsPrefix
    <2> QED
      BY <2>2, <2>3 DEF Foreign
  <1>4. \A p \in Hashed(target, Foreign) :
          Tree[p] = IF IsPrefix(Append(Missions, "other"), p) THEN other ELSE sources
    <2> TAKE p \in Hashed(target, Foreign)
    <2>1. p \in Files /\ ~IsPrefix(Own, p)
      BY <1>2, <1>3 DEF Hashed
    <2> QED
      BY <2>1 DEF Tree
  <1> QED
    BY <1>1, <1>2, <1>4, Zenon DEF Digest

LEMMA TargetKept == [Next]_vars => target' = target
  <1>1. ASSUME Step PROVE target' = target
    BY <1>1 DEF Step, LookProject, LookGlobal, CheckContent, Enter,
                ReadMission, Observe, LookAtClock, Wake, Commit, mission
  <1>2. ASSUME \/ \E kind \in Kinds : Begin(kind)
               \/ Interrupt \/ Tick \/ SetClock \/ EditAsset \/ EditProject
        PROVE  target' = target
    BY <1>2 DEF Begin, Interrupt, Tick, SetClock, EditAsset, EditProject, mission
  <1> QED
    BY <1>1, <1>2 DEF Next, vars, mission

(* Locks, checkpoints and the mission's own documents never change what    *)
(* hashTarget says of the target, wherever the target is, as long as it is *)
(* neither all missions nor a part of this one.                            *)
THEOREM OwnWritesNeverSeen == Spec => OwnWritesUnseen
  <1>1. TypeInv /\ [Next]_vars =>
          [UNCHANGED <<sources, other>> /\ ~AboutItself
             => Digest(target, Tree)' = Digest(target, Tree)]_vars
    <2> SUFFICES ASSUME TypeInv, [Next]_vars,
                        UNCHANGED <<sources, other>>, ~AboutItself
                 PROVE  Digest(target, Tree)' = Digest(target, Tree)
      OBVIOUS
    <2>1. target' = target /\ target \in Seq(PathNames)
      BY TargetKept, TargetIsPath DEF TypeInv
    <2>2. AboutItself' = AboutItself
      BY <2>1 DEF AboutItself
    <2>3. Digest(target, Tree) =
            [p \in Hashed(target, Foreign) |->
              IF IsPrefix(Append(Missions, "other"), p) THEN other ELSE sources]
      BY <2>1, DigestOfForeign
    <2>4. (Digest(target, Tree) =
            [p \in Hashed(target, Foreign) |->
              IF IsPrefix(Append(Missions, "other"), p) THEN other ELSE sources])'
      <3>1. (target \in Seq(PathNames))' /\ (~AboutItself)'
        BY <2>1, <2>2
      <3> QED
        BY <3>1, DigestOfForeign, PTL
    <2> QED
      BY <2>1, <2>3, <2>4
  <1> QED
    BY <1>1, TypeAlways, PTL DEF Spec, OwnWritesUnseen
=============================================================================
