----------------------- MODULE InstallTransactionProofs -----------------------
(***************************************************************************)
(* Proofs about install, for any number of invocations, managed            *)
(* files, directories, versions and troubles.                              *)
(***************************************************************************)
EXTENDS InstallTransaction, WellFoundedInduction, TLAPS

-----------------------------------------------------------------------------
(* Sequences and the order of the files.                                   *)

LEMMA FrontAndLast ==
  ASSUME NEW S, NEW s \in Seq(S), s # <<>>
  PROVE  Front(s) \in Seq(S) /\ Last(s) \in S
  BY DEF Front, Last

LEMMA OrderFacts ==
  /\ Len(Order) \in Nat
  /\ \A i \in 1..Len(Order) : Order[i] \in Files
  /\ \A f \in Files : \E i \in 1..Len(Order) : f = Order[i]
  /\ Cli \in Files
  <1>1. Manifest \in Seq(ToSet(Manifest) \union {Cli})
    BY InstallAssumption DEF InstallAssumption
  <1>2. Order \in Seq(ToSet(Manifest) \union {Cli})
    BY <1>1 DEF Order
  <1>3. /\ Len(Order) \in Nat
        /\ DOMAIN Order = 1..Len(Order)
        /\ Len(Order) >= 1 /\ Order[Len(Order)] = Cli
    BY <1>1, <1>2 DEF Order
  <1>4. Files = {Order[i] : i \in 1..Len(Order)}
    BY <1>3 DEF Files, ToSet
  <1> QED  BY <1>3, <1>4

-----------------------------------------------------------------------------
(* What is true of one invocation, whatever the others do.                 *)

(* Between the rescan and the verification both locks are held, and while  *)
(* there is anything to take back; an invocation that has committed takes  *)
(* nothing back.                                                           *)
Placed(c) ==
  /\ c.pc \in {"ensure", "stage", "link", "unlink", "record", "poll"}
       => c.at <= Len(Order)
  /\ c.pc \in {"rescan", "sources", "ensure", "stage", "link", "unlink",
               "record", "poll", "verify", "remove"} => c.locks = Locks
  /\ c.pc \in {"lockdirs", "lockcli"} => "config" \in c.locks
  /\ c.created # <<>> /\ c.pc \notin {"temps", "unlockcli", "unlockconfig",
                                      "finished"} => c.locks = Locks
  /\ c.created # <<>> /\ c.pc \in {"temps", "unlockcli", "unlockconfig",
                                   "finished", "rmdirs"} => c.committed
  /\ c.pc = "remove" => c.created # <<>>
  /\ c.pc \in {"idle", "done", "dead"} => c.locks = {}
  /\ c.committed => c.pc \in {"temps", "unlockcli", "unlockconfig",
                              "finished", "done", "dead"}

(* An invocation that may yet take managed files back.                     *)
Unsettled(c) ==
  ~c.committed /\ (c.pc \in {"unlink", "record"} \/ c.created # <<>>)

(* A lock that an invocation counts on is the one that it made.            *)
Held == \A p \in Installers : \A l \in call[p].locks : lock[l] = p

Complete(ver) == \A f \in Files : file[f] # Nothing /\ file[f].ver = ver

(* Beside an installation that stands, nobody can take anything back.      *)
Stands ==
  edits = 0 =>
    \A p \in Installers : call[p].committed =>
      /\ Complete(call[p].ver)
      /\ \A q \in Installers : ~Unsettled(call[q])

(* What has been verified stays as it was seen until the commit.           *)
Verified ==
  edits = 0 =>
    \A p \in Installers : At(p, "verify") =>
      \A i \in 1..Len(Order) : i < call[p].at =>
        /\ file[Order[i]] # Nothing
        /\ file[Order[i]].ver = call[p].ver

InstallInv ==
  /\ TypeOK
  /\ \A p \in Installers : Placed(call[p])
  /\ Held /\ Stands /\ Verified

LEMMA FreshIsCall == Fresh \in Calls
  BY OrderFacts DEF Fresh, Calls, Pcs, Codes

LEMMA InstallInvInit == Init => InstallInv
  <1> SUFFICES ASSUME Init PROVE InstallInv  OBVIOUS
  <1> USE InstallAssumption DEF InstallAssumption
  <1>1. \A p \in Installers : call[p] = Fresh
    BY DEF Init
  <1>2. Fresh \in Calls
    BY FreshIsCall
  <1>3. Placed(Fresh)
    BY DEF Placed, Fresh
  <1>4. TypeOK
    <2>1. call \in [Installers -> Calls]
      BY <1>2 DEF Init
    <2>2. /\ file \in [Files -> Made \union {Nothing}]
          /\ dir \in [Dirs -> Installers \union {Someone, Nothing}]
      <3>1. Theirs \subseteq Made
        BY DEF Theirs, Made
      <3>2. /\ file \in [Files -> Theirs \union {Nothing}]
            /\ dir \in [Dirs -> {Someone, Nothing}]
        BY DEF Init
      <3> QED  BY <3>1, <3>2
    <2>3. lock \in [Locks -> Installers \union {Nothing}]
      BY DEF Init
    <2> QED  BY <2>1, <2>2, <2>3 DEF TypeOK, Init
  <1>5. Held /\ Stands /\ Verified
    BY <1>1 DEF Held, Stands, Verified, At, Fresh
  <1> QED  BY <1>1, <1>3, <1>4, <1>5 DEF InstallInv

-----------------------------------------------------------------------------
(* A step of one invocation.                                               *)

LEMMA GoAlone ==
  ASSUME call \in [Installers -> Calls], NEW p \in Installers,
         NEW c \in Calls, Go(p, c)
  PROVE  /\ call' \in [Installers -> Calls]
         /\ call'[p] = c
         /\ \A q \in Installers : q # p => call'[q] = call[q]
  BY DEF Go

(* What a step that writes no managed file owes to the others: where it    *)
(* goes from b to c, and what it does with the locks.                      *)
Sequel(b, c) ==
  /\ Placed(c)
  /\ c.committed = b.committed
  /\ c.committed => c.ver = b.ver
  /\ Unsettled(c) => Unsettled(b)
  /\ c.pc = "verify" => c.at = 1

Quiet(p, c) ==
  /\ Sequel(call[p], c)
  /\ \A l \in c.locks : lock'[l] = p
  /\ \A l \in Locks : lock[l] \notin {p, Nothing} => lock'[l] = lock[l]

LEMMA QuietStep ==
  ASSUME InstallInv, NEW p \in Installers, NEW c \in Calls, Go(p, c),
         Quiet(p, c), file' = file, edits' = edits
  PROVE  /\ call' \in [Installers -> Calls]
         /\ \A q \in Installers : Placed(call'[q])
         /\ Held' /\ Stands' /\ Verified'
  <1>1. /\ call' \in [Installers -> Calls]
        /\ call'[p] = c
        /\ \A q \in Installers : q # p => call'[q] = call[q]
    BY GoAlone DEF InstallInv, TypeOK
  <1>2. \A q \in Installers : Placed(call'[q])
    BY <1>1 DEF InstallInv, Quiet, Sequel
  <1>3. Held'
    <2> SUFFICES ASSUME NEW q \in Installers, NEW l \in call'[q].locks
                 PROVE  lock'[l] = q
      BY DEF Held
    <2>0. /\ \A m \in c.locks : lock'[m] = p
          /\ \A m \in Locks : lock[m] \notin {p, Nothing} => lock'[m] = lock[m]
      BY Zenon DEF Quiet, Sequel
    <2>1. CASE q = p
      BY <1>1, <2>0, <2>1
    <2>2. CASE q # p
      <3>1. call'[q] = call[q] /\ call[q] \in Calls
        BY <1>1, <2>2 DEF InstallInv, TypeOK
      <3>2. l \in Locks
        BY <3>1 DEF Calls
      <3>3. lock[l] = q
        BY <3>1 DEF InstallInv, Held
      <3>4. q # Nothing
        BY InstallAssumption DEF InstallAssumption
      <3> QED  BY <2>0, <2>2, <3>2, <3>3, <3>4
    <2> QED  BY <2>1, <2>2
  <1>4. Stands'
    <2> SUFFICES ASSUME edits = 0, NEW q \in Installers, call'[q].committed
                 PROVE  /\ \A f \in Files : /\ file[f] # Nothing
                                            /\ file[f].ver = call'[q].ver
                        /\ \A r \in Installers : ~Unsettled(call'[r])
      BY DEF Stands, Complete
    <2>1. call[q].committed /\ call'[q].ver = call[q].ver
      BY <1>1 DEF Quiet, Sequel
    <2>2. /\ Complete(call[q].ver)
          /\ \A r \in Installers : ~Unsettled(call[r])
      BY <2>1 DEF InstallInv, Stands
    <2>3. \A r \in Installers : ~Unsettled(call'[r])
      BY <1>1, <2>2 DEF Quiet, Sequel
    <2> QED  BY <2>1, <2>2, <2>3 DEF Complete
  <1>5. Verified'
    <2> SUFFICES ASSUME edits = 0, NEW q \in Installers,
                        call'[q].pc = "verify",
                        NEW i \in 1..Len(Order), i < call'[q].at
                 PROVE  /\ file[Order[i]] # Nothing
                        /\ file[Order[i]].ver = call'[q].ver
      BY DEF Verified, At
    <2>1. q # p
      BY <1>1, OrderFacts DEF Quiet, Sequel
    <2> QED  BY <1>1, <2>1 DEF InstallInv, Verified, At
  <1> QED  BY <1>1, <1>2, <1>3, <1>4, <1>5

Outcome ==
  /\ call' \in [Installers -> Calls]
  /\ \A q \in Installers : Placed(call'[q])
  /\ Held' /\ Stands' /\ Verified'

LEMMA KeepingLocks ==
  ASSUME InstallInv, NEW p \in Installers, NEW c \in Calls, Go(p, c),
         Sequel(call[p], c), c.locks \subseteq call[p].locks,
         \A l \in Locks : lock[l] # Nothing => lock'[l] = lock[l],
         file' = file, edits' = edits
  PROVE  Outcome
  <1>1. p # Nothing /\ call[p].locks \subseteq Locks
    BY InstallAssumption DEF InstallAssumption, InstallInv, TypeOK, Calls
  <1>2. \A l \in c.locks : lock'[l] = p
    BY <1>1 DEF InstallInv, Held
  <1>3. Quiet(p, c)
    BY <1>2 DEF Quiet
  <1> QED  BY <1>3, QuietStep DEF Outcome

Early == {"idle", "scan", "lockconfig", "lockdirs", "lockcli", "rescan",
          "sources", "ensure", "stage", "link", "unlink", "record", "poll",
          "verify"}

LEMMA FailSequel ==
  ASSUME NEW b \in Calls, Placed(b), b.pc \in Early, NEW code \in Codes
  PROVE  LET c == [b EXCEPT !.pc = "undo", !.code = code] IN
         c \in Calls /\ Sequel(b, c) /\ c.locks = b.locks
  <1> DEFINE c == [b EXCEPT !.pc = "undo", !.code = code]
  <1>1. c \in Calls
    BY DEF Calls, Pcs, Finishing
  <1>2. /\ c.pc = "undo" /\ c.locks = b.locks /\ c.created = b.created
        /\ c.committed = b.committed /\ c.ver = b.ver
    BY DEF Calls
  <1> HIDE DEF c
  <1>3. Sequel(b, c)
    BY <1>2 DEF Placed, Sequel, Unsettled, Early
  <1> QED  BY <1>1, <1>2, <1>3 DEF c

LEMMA Failing ==
  ASSUME InstallInv, NEW p \in Installers, NEW code \in Codes,
         call[p].pc \in Early, Fail(p, code),
         \A l \in Locks : lock[l] # Nothing => lock'[l] = lock[l],
         file' = file, edits' = edits
  PROVE  Outcome
  <1> DEFINE c == [call[p] EXCEPT !.pc = "undo", !.code = code]
  <1>1. call[p] \in Calls /\ Placed(call[p])
    BY DEF InstallInv, TypeOK
  <1>2. c \in Calls /\ Sequel(call[p], c) /\ c.locks = call[p].locks
    BY <1>1, FailSequel
  <1>3. Go(p, c)
    BY DEF Fail
  <1> HIDE DEF c
  <1> QED  BY <1>2, <1>3, KeepingLocks

LEMMA PlacesArePcs ==
  /\ Early \subseteq Pcs /\ Finishing \subseteq Pcs
  /\ "done" \in Pcs /\ "dead" \in Pcs
  BY DEF Early, Pcs

(* Only the numbers change, and the place.                                 *)
Moved(b, c) ==
  /\ c.ver = b.ver /\ c.locks = b.locks /\ c.created = b.created
  /\ c.committed = b.committed

LEMMA AtOne ==
  ASSUME NEW b \in Calls, NEW pc \in Pcs
  PROVE  LET c == [b EXCEPT !.pc = pc, !.at = 1] IN
         c \in Calls /\ c.pc = pc /\ c.at = 1 /\ Moved(b, c)
  <1>1. ASSUME NEW at \in 1..Len(Order) + 1
        PROVE  LET c == [b EXCEPT !.pc = pc, !.at = at] IN
               c \in Calls /\ c.pc = pc /\ c.at = at /\ Moved(b, c)
    BY DEF Calls, Moved
  <1>2. 1 \in 1..Len(Order) + 1
    BY OrderFacts
  <1> QED  BY <1>1, <1>2, Zenon

LEMMA AtAndDepthOne ==
  ASSUME NEW b \in Calls, NEW pc \in Pcs
  PROVE  LET c == [b EXCEPT !.pc = pc, !.at = 1, !.depth = 1] IN
         c \in Calls /\ c.pc = pc /\ c.at = 1 /\ Moved(b, c)
  <1>1. ASSUME NEW at \in 1..Len(Order) + 1, NEW d \in Nat \ {0}
        PROVE  LET c == [b EXCEPT !.pc = pc, !.at = at, !.depth = d] IN
               c \in Calls /\ c.pc = pc /\ c.at = at /\ Moved(b, c)
    BY DEF Calls, Moved
  <1>2. 1 \in 1..Len(Order) + 1 /\ 1 \in Nat \ {0}
    BY OrderFacts
  <1> QED  BY <1>1, <1>2, Zenon

LEMMA AtFileNumber ==
  ASSUME NEW b \in Calls, NEW at \in 1..Len(Order) + 1, NEW pc \in Pcs
  PROVE  LET c == [b EXCEPT !.at = at, !.depth = 1, !.pc = pc] IN
         c \in Calls /\ c.pc = pc /\ c.at = at /\ Moved(b, c)
  <1>1. ASSUME NEW d \in Nat \ {0}
        PROVE  LET c == [b EXCEPT !.at = at, !.depth = d, !.pc = pc] IN
               c \in Calls /\ c.pc = pc /\ c.at = at /\ Moved(b, c)
    BY DEF Calls, Moved
  <1>2. 1 \in Nat \ {0}
    OBVIOUS
  <1> QED  BY <1>1, <1>2, Zenon

(* A step on, from one place before the end to another.                    *)
LEMMA Advance ==
  ASSUME InstallInv, NEW p \in Installers, NEW c \in Calls, Go(p, c),
         call[p].pc \in Early, c.pc \in Early \ {"idle"},
         Moved(call[p], c),
         c.pc \in {"ensure", "stage", "link", "unlink", "record", "poll"}
           => c.at <= Len(Order),
         c.pc \in {"unlink", "record"} => call[p].pc \in {"unlink", "record"},
         \/ call[p].locks = Locks
         \/ c.pc \in {"scan", "lockconfig"}
         \/ c.pc \in {"lockdirs", "lockcli"} /\ "config" \in call[p].locks,
         c.pc = "verify" => c.at = 1,
         UNCHANGED <<file, lock, edits>>
  PROVE  Outcome
  <1>1. call[p] \in Calls /\ Placed(call[p])
    BY DEF InstallInv, TypeOK
  <1>2. call[p].committed = FALSE /\ c.committed = FALSE
    BY <1>1 DEF Calls, Placed, Early, Moved
  <1>3. Placed(c)
    BY <1>1, <1>2 DEF Placed, Early, Moved, Locks
  <1>4. Unsettled(c) => Unsettled(call[p])
    BY <1>2 DEF Unsettled, Moved
  <1>5. Sequel(call[p], c)
    BY <1>2, <1>3, <1>4 DEF Sequel
  <1> QED  BY <1>5, KeepingLocks DEF Moved

LEMMA PublishSequel ==
  ASSUME InstallInv, NEW p \in Installers, NEW i \in 1..Len(Order) + 1,
         call[p].pc \in {"sources", "poll"}, PublishNext(p, i),
         UNCHANGED <<file, lock, edits>>
  PROVE  Outcome
  <1>0. call[p] \in Calls
    BY DEF InstallInv, TypeOK
  <1>1. call[p] \in Calls /\ call[p].locks = Locks
    BY DEF InstallInv, TypeOK, Placed
  <1>2. CASE Go(p, [call[p] EXCEPT !.pc = "verify", !.at = 1])
    <2> DEFINE c == [call[p] EXCEPT !.pc = "verify", !.at = 1]
    <2>0. "verify" \in Pcs
      BY PlacesArePcs DEF Early
    <2>1. c \in Calls /\ c.pc = "verify" /\ c.at = 1 /\ Moved(call[p], c)
      BY <1>0, <2>0, AtOne, Zenon
    <2>2. Go(p, c)
      BY <1>2
    <2> HIDE DEF c
    <2> QED  BY <1>1, <2>1, <2>2, Advance DEF Early
  <1>3. ASSUME NEW j \in i..Len(Order),
               Go(p, [call[p] EXCEPT !.at = j, !.depth = 1,
                        !.pc = IF Order[j] = Cli THEN "stage" ELSE "ensure"])
        PROVE  Outcome
    <2> DEFINE pc == IF Order[j] = Cli THEN "stage" ELSE "ensure"
               c  == [call[p] EXCEPT !.at = j, !.depth = 1, !.pc = pc]
    <2>1. /\ pc \in Pcs /\ pc \in {"stage", "ensure"}
          /\ j \in 1..Len(Order) + 1 /\ j <= Len(Order)
      BY PlacesArePcs, OrderFacts DEF Early
    <2>2. Go(p, c)
      BY <1>3
    <2> HIDE DEF pc
    <2>3. c \in Calls /\ c.pc = pc /\ c.at = j /\ Moved(call[p], c)
      BY <1>0, <2>1, AtFileNumber, Zenon
    <2> HIDE DEF c
    <2> QED  BY <1>1, <2>1, <2>2, <2>3, Advance DEF Early
  <1> QED  BY <1>2, <1>3 DEF PublishNext

-----------------------------------------------------------------------------
(* Each action.  Settings is what TypeOK says of the rest of the state.    *)

Settings ==
  /\ file \in [Files -> Made \union {Nothing}]
  /\ dir \in [Dirs -> Installers \union {Someone, Nothing}]
  /\ lock \in [Locks -> Installers \union {Nothing}]
  /\ temps \subseteq Installers \X Files
  /\ swept \in BOOLEAN
  /\ crashes \in Nat /\ faults \in Nat /\ edits \in Nat

LEMMA Together == Settings' /\ Outcome => InstallInv'
  BY DEF Settings, Outcome, InstallInv, TypeOK

LEMMA Kept ==
  ASSUME InstallInv, UNCHANGED <<home, lock, temps, damage>>
  PROVE  Settings' /\ file' = file /\ edits' = edits /\ lock' = lock
  BY DEF InstallInv, TypeOK, Settings, home, damage

LEMMA BeginStep ==
  ASSUME InstallInv, NEW p \in Installers, Begin(p)
  PROVE  InstallInv'
  <1>1. call[p] \in Calls /\ Placed(call[p]) /\ call[p].pc = "idle"
    BY DEF InstallInv, TypeOK, Begin, At
  <1>2. call[p].committed = FALSE
    BY <1>1 DEF Placed, Calls
  <1>3. Settings' /\ file' = file /\ edits' = edits /\ lock' = lock
    BY Kept DEF Begin
  <1>4. ASSUME NEW ver \in Versions,
               Go(p, [Fresh EXCEPT !.pc = "scan", !.ver = ver])
        PROVE  Outcome
    <2> DEFINE c == [Fresh EXCEPT !.pc = "scan", !.ver = ver]
    <2>0. "scan" \in Pcs
      BY PlacesArePcs DEF Early
    <2>1. c \in Calls
      BY FreshIsCall, <2>0 DEF Calls
    <2>2. /\ c.pc = "scan" /\ c.locks = {}
          /\ c.created = <<>> /\ c.committed = FALSE
      BY DEF Fresh
    <2>3. Go(p, c)
      BY <1>4
    <2> HIDE DEF c
    <2>4. Sequel(call[p], c)
      BY <1>2, <2>1, <2>2 DEF Sequel, Placed, Unsettled
    <2> QED  BY <1>3, <2>1, <2>2, <2>3, <2>4, KeepingLocks
  <1>5. ASSUME NEW ver \in Versions,
               Go(p, [Fresh EXCEPT !.pc = "undo", !.ver = ver, !.code = "data"])
        PROVE  Outcome
    <2> DEFINE c == [Fresh EXCEPT !.pc = "undo", !.ver = ver, !.code = "data"]
    <2>0. "undo" \in Pcs /\ "data" \in Codes
      BY PlacesArePcs DEF Finishing, Codes
    <2>1. c \in Calls
      BY FreshIsCall, <2>0 DEF Calls
    <2>2. /\ c.pc = "undo" /\ c.locks = {}
          /\ c.created = <<>> /\ c.committed = FALSE
      BY DEF Fresh
    <2>3. Go(p, c)
      BY <1>5
    <2> HIDE DEF c
    <2>4. Sequel(call[p], c)
      BY <1>2, <2>1, <2>2 DEF Sequel, Placed, Unsettled
    <2> QED  BY <1>3, <2>1, <2>2, <2>3, <2>4, KeepingLocks
  <1>6. Outcome
    BY <1>4, <1>5 DEF Begin
  <1> QED  BY <1>3, <1>6, Together

LEMMA ClassifyStep ==
  ASSUME InstallInv, NEW p \in Installers, NEW pc, NEW next,
         \/ pc = "scan" /\ next = "lockconfig"
         \/ pc = "rescan" /\ next = "sources",
         Classify(p, pc, next)
  PROVE  InstallInv'
  <1>0. call[p] \in Calls
    BY DEF InstallInv, TypeOK
  <1>1. /\ call[p] \in Calls /\ call[p].pc = pc /\ pc \in {"scan", "rescan"}
        /\ pc = "rescan" => call[p].locks = Locks
    BY DEF InstallInv, TypeOK, Classify, At, Placed
  <1>2. Settings' /\ file' = file /\ edits' = edits /\ lock' = lock
    BY Kept DEF Classify
  <1>3. CASE Fail(p, "cantcreate")
    BY <1>1, <1>2, <1>3, Failing, Together DEF Early, Codes
  <1>4. CASE Go(p, [call[p] EXCEPT !.pc = next, !.at = 1, !.depth = 1])
    <2> DEFINE c == [call[p] EXCEPT !.pc = next, !.at = 1, !.depth = 1]
    <2>0. next \in Pcs
      BY PlacesArePcs DEF Early
    <2>1. c \in Calls /\ c.pc = next /\ Moved(call[p], c)
      BY <1>0, <2>0, AtAndDepthOne, Zenon
    <2>2. Go(p, c)
      BY <1>4
    <2> HIDE DEF c
    <2>3. Outcome
      BY <1>1, <1>2, <2>1, <2>2, Advance DEF Early
    <2> QED  BY <1>2, <2>3, Together
  <1>5. ASSUME NEW absent \in SUBSET Files, call[p].at + 1 \in 1..Len(Order) + 1,
               Go(p, [call[p] EXCEPT !.at = call[p].at + 1, !.absent = absent])
        PROVE  InstallInv'
    <2> DEFINE c == [call[p] EXCEPT !.at = call[p].at + 1, !.absent = absent]
    <2>1. c \in Calls
      BY <1>1, <1>5 DEF Calls
    <2>2. /\ c.pc = pc
          /\ Moved(call[p], c)
      BY <1>1, <1>5 DEF Calls, Moved
    <2>3. Go(p, c)
      BY <1>5
    <2> HIDE DEF c
    <2>4. Outcome
      BY <1>1, <1>2, <2>1, <2>2, <2>3, Advance DEF Early
    <2> QED  BY <1>2, <2>4, Together
  <1>6. call[p].at \in 1..Len(Order) + 1 /\ call[p].absent \in SUBSET Files
    BY <1>1 DEF Calls
  <1>7. CASE call[p].at > Len(Order)
    BY <1>4, <1>7 DEF Classify
  <1>8. CASE ~(call[p].at > Len(Order))
    <2>1. Current(p) \in Files /\ call[p].at + 1 \in 1..Len(Order) + 1
      BY <1>6, <1>8, OrderFacts DEF Current
    <2>2. CASE Go(p, [call[p] EXCEPT !.at = @ + 1,
                                     !.absent = @ \union {Current(p)}])
      BY <1>5, <1>6, <2>1, <2>2
    <2>3. CASE Go(p, [call[p] EXCEPT !.at = @ + 1])
      <3>1. [call[p] EXCEPT !.at = @ + 1]
              = [call[p] EXCEPT !.at = call[p].at + 1, !.absent = call[p].absent]
        BY <1>1 DEF Calls
      <3>2. Go(p, [call[p] EXCEPT !.at = call[p].at + 1,
                                  !.absent = call[p].absent])
        BY <2>3, <3>1
      <3> QED  BY <1>5, <1>6, <2>1, <3>2
    <2> QED  BY <1>3, <1>8, <2>2, <2>3 DEF Classify
  <1> QED  BY <1>7, <1>8

(* From one place to another, with nothing else changed that counts here.  *)
Onward(b, c, pc) ==
  c \in Calls /\ c.pc = pc /\ c.at = b.at /\ Moved(b, c)

LEMMA PcOnly ==
  ASSUME NEW b \in Calls, NEW pc \in Pcs
  PROVE  Onward(b, [b EXCEPT !.pc = pc], pc)
  BY DEF Calls, Moved, Onward

WithLock(b, c, pc, l) ==
  /\ c \in Calls /\ c.pc = pc /\ c.locks = b.locks \union {l}
  /\ c.ver = b.ver /\ c.created = b.created /\ c.committed = b.committed

LEMMA LockMade ==
  ASSUME NEW b \in Calls, NEW pc \in Pcs, NEW l \in Locks
  PROVE  WithLock(b, [b EXCEPT !.pc = pc, !.at = 1, !.depth = 1, !.absent = {},
                               !.locks = @ \union {l}], pc, l)
  <1>1. ASSUME NEW at \in 1..Len(Order) + 1, NEW d \in Nat \ {0}
        PROVE  WithLock(b, [b EXCEPT !.pc = pc, !.at = at, !.depth = d,
                                     !.absent = {}, !.locks = @ \union {l}],
                        pc, l)
    BY DEF Calls, WithLock
  <1>2. 1 \in 1..Len(Order) + 1 /\ 1 \in Nat \ {0}
    BY OrderFacts
  <1> QED  BY <1>1, <1>2, Zenon

LEMMA MakeLockStep ==
  ASSUME InstallInv, NEW p \in Installers, NEW l, NEW pc, NEW next,
         \/ l = "config" /\ pc = "lockconfig" /\ next = "lockdirs"
         \/ l = "cli" /\ pc = "lockcli" /\ next = "rescan",
         MakeLock(p, l, pc, next)
  PROVE  InstallInv'
  <1>0. call[p] \in Calls /\ Placed(call[p]) /\ call[p].pc = pc
    BY DEF InstallInv, TypeOK, MakeLock, At
  <1>1. /\ file' = file /\ edits' = edits /\ home' = home
        /\ temps' = temps /\ damage' = damage
    BY DEF MakeLock, home, damage
  <1>2. CASE Fail(p, "locked") /\ lock' = lock
    <2>1. Outcome
      BY <1>0, <1>1, <1>2, Failing DEF Early, Codes
    <2>2. Settings'
      BY <1>1, <1>2, Kept
    <2> QED  BY <2>1, <2>2, Together
  <1>3. CASE /\ lock[l] = Nothing
             /\ lock' = [lock EXCEPT ![l] = p]
             /\ Go(p, [call[p] EXCEPT !.pc = next, !.at = 1, !.depth = 1,
                                      !.absent = {}, !.locks = @ \union {l}])
    <2> DEFINE c == [call[p] EXCEPT !.pc = next, !.at = 1, !.depth = 1,
                                    !.absent = {}, !.locks = @ \union {l}]
    <2>1. next \in Pcs /\ l \in Locks
      BY PlacesArePcs DEF Early, Locks
    <2>2. WithLock(call[p], c, next, l)
      BY <1>0, <2>1, LockMade, Zenon
    <2>3. Go(p, c)
      BY <1>3
    <2> HIDE DEF c
    <2>4. call[p].locks \subseteq Locks
      BY <1>0 DEF Calls
    <2>5. Sequel(call[p], c)
      BY <1>0, <2>2, <2>4 DEF Sequel, Placed, Unsettled, Locks, WithLock
    <2>6. lock \in [Locks -> Installers \union {Nothing}]
      BY DEF InstallInv, TypeOK
    <2>7. /\ \A m \in Locks : m # l => lock'[m] = lock[m]
          /\ lock'[l] = p /\ lock' \in [Locks -> Installers \union {Nothing}]
      BY <1>3, <2>1, <2>6
    <2>8. Quiet(p, c)
      <3>1. \A m \in c.locks : lock'[m] = p
        BY <2>2, <2>4, <2>7 DEF InstallInv, Held, WithLock
      <3>2. \A m \in Locks : lock[m] \notin {p, Nothing} => lock'[m] = lock[m]
        BY <1>3, <2>7
      <3> QED  BY <2>5, <3>1, <3>2 DEF Quiet
    <2>9. Outcome
      BY <1>1, <2>2, <2>3, <2>8, QuietStep DEF Outcome, WithLock
    <2>10. Settings'
      BY <1>1, <2>7 DEF InstallInv, TypeOK, Settings, home, damage
    <2> QED  BY <2>9, <2>10, Together
  <1> QED  BY <1>2, <1>3 DEF MakeLock

LEMMA DirMade ==
  ASSUME NEW b \in Calls, NEW d \in Dirs
  PROVE  /\ LET c == [b EXCEPT !.depth = @ + 1] IN
            c \in Calls /\ c.pc = b.pc /\ c.at = b.at /\ Moved(b, c)
         /\ LET c == [b EXCEPT !.depth = @ + 1, !.dirs = Append(@, d)] IN
            c \in Calls /\ c.pc = b.pc /\ c.at = b.at /\ Moved(b, c)
  <1>1. ASSUME NEW n \in Nat \ {0}, NEW ds \in Seq(Dirs)
        PROVE  /\ LET c == [b EXCEPT !.depth = n] IN
                  c \in Calls /\ c.pc = b.pc /\ c.at = b.at /\ Moved(b, c)
               /\ LET c == [b EXCEPT !.depth = n, !.dirs = ds] IN
                  c \in Calls /\ c.pc = b.pc /\ c.at = b.at /\ Moved(b, c)
    BY DEF Calls, Moved
  <1>2. b.depth \in Nat \ {0} /\ b.dirs \in Seq(Dirs)
    BY DEF Calls
  <1>3. b.depth + 1 \in Nat \ {0} /\ Append(b.dirs, d) \in Seq(Dirs)
    BY <1>2
  <1> QED  BY <1>1, <1>3, Zenon

LEMMA EnsureStep ==
  ASSUME InstallInv, NEW p \in Installers, NEW f, NEW pc, NEW next,
         \/ pc = "lockdirs" /\ next = "lockcli" /\ f = Cli
         \/ pc = "ensure" /\ next = "stage" /\ f = Current(p),
         EnsureDirectory(p, f, pc, next)
  PROVE  InstallInv'
  <1>0. call[p] \in Calls
    BY DEF InstallInv, TypeOK
  <1>1. /\ Placed(call[p]) /\ call[p].pc = pc /\ call[p].pc \in {"lockdirs", "ensure"}
        /\ pc = "ensure" => call[p].locks = Locks /\ call[p].at <= Len(Order)
        /\ pc = "lockdirs" => "config" \in call[p].locks
        /\ pc \in {"lockdirs", "ensure"} /\ next \in {"lockcli", "stage"}
        /\ next = "stage" <=> pc = "ensure"
    BY DEF InstallInv, EnsureDirectory, At, Placed
  <1>2. /\ file' = file /\ edits' = edits /\ lock' = lock
        /\ temps' = temps /\ damage' = damage
    BY DEF EnsureDirectory, damage
  <1>3. dir' \in [Dirs -> Installers \union {Someone, Nothing}] => Settings'
    BY <1>2 DEF InstallInv, TypeOK, Settings, damage
  <1>4. dir' = dir => Settings'
    BY <1>3 DEF InstallInv, TypeOK
  <1>5. CASE Fail(p, "cantcreate") /\ dir' = dir
    BY <1>1, <1>2, <1>4, <1>5, Failing, Together DEF Early, Codes
  <1>6. CASE Go(p, [call[p] EXCEPT !.pc = next]) /\ dir' = dir
    <2> DEFINE c == [call[p] EXCEPT !.pc = next]
    <2>1. next \in Pcs
      BY PlacesArePcs DEF Early
    <2>2. Onward(call[p], c, next)
      BY <1>0, <2>1, PcOnly, Zenon
    <2>3. Go(p, c)
      BY <1>6
    <2> HIDE DEF c
    <2>4. Outcome
      BY <1>1, <1>2, <2>2, <2>3, Advance DEF Early, Onward
    <2> QED  BY <1>4, <1>6, <2>4, Together
  <1>7. ASSUME NEW c \in Calls, c.pc = call[p].pc, c.at = call[p].at,
               Moved(call[p], c), Go(p, c)
        PROVE  Outcome
    BY <1>1, <1>2, <1>7, Advance DEF Early
  <1>8. CASE ~(call[p].depth > Len(Path[f]))
    <2> DEFINE d == Path[f][call[p].depth]
    <2>1. f \in Files
      <3>1. call[p].at \in 1..Len(Order) + 1
        BY <1>0 DEF Calls
      <3> QED  BY <1>1, <3>1, OrderFacts DEF Current
    <2>2. Path[f] \in Seq(Dirs) /\ call[p].depth \in Nat \ {0}
      BY <1>0, <2>1, InstallAssumption DEF InstallAssumption, Calls
    <2>3. d \in Dirs
      BY <1>8, <2>2
    <2>4. CASE Go(p, [call[p] EXCEPT !.depth = @ + 1]) /\ dir' = dir
      <3> DEFINE c == [call[p] EXCEPT !.depth = @ + 1]
      <3>1. c \in Calls /\ c.pc = call[p].pc /\ c.at = call[p].at /\ Moved(call[p], c)
        BY <1>0, <2>3, DirMade, Zenon
      <3>2. Go(p, c)
        BY <2>4
      <3> HIDE DEF c
      <3> QED  BY <1>4, <1>7, <2>4, <3>1, <3>2, Together
    <2>5. CASE /\ dir' = [dir EXCEPT ![d] = p]
               /\ Go(p, [call[p] EXCEPT !.depth = @ + 1, !.dirs = Append(@, d)])
      <3> DEFINE c == [call[p] EXCEPT !.depth = @ + 1, !.dirs = Append(@, d)]
      <3>1. c \in Calls /\ c.pc = call[p].pc /\ c.at = call[p].at /\ Moved(call[p], c)
        BY <1>0, <2>3, DirMade, Zenon
      <3>2. Go(p, c)
        BY <2>5
      <3> HIDE DEF c
      <3>3. dir' \in [Dirs -> Installers \union {Someone, Nothing}]
        BY <2>5 DEF InstallInv, TypeOK
      <3> QED  BY <1>3, <1>7, <3>1, <3>2, <3>3, Together
    <2> QED  BY <1>5, <1>8, <2>4, <2>5 DEF EnsureDirectory
  <1> QED  BY <1>6, <1>8 DEF EnsureDirectory

LEMMA CheckSourcesStep ==
  ASSUME InstallInv, NEW p \in Installers, CheckSources(p)
  PROVE  InstallInv'
  <1>1. Settings' /\ file' = file /\ edits' = edits /\ lock' = lock
    BY Kept DEF CheckSources
  <1>2. call[p].pc = "sources" /\ 1 \in 1..Len(Order) + 1
    BY OrderFacts DEF CheckSources, At
  <1>3. CASE PublishNext(p, 1)
    BY <1>1, <1>2, <1>3, PublishSequel, Together
  <1>4. CASE Fail(p, "data")
    BY <1>1, <1>2, <1>4, Failing, Together DEF Early, Codes
  <1> QED  BY <1>3, <1>4 DEF CheckSources

LEMMA PollStep ==
  ASSUME InstallInv, NEW p \in Installers, Poll(p) \/ Interrupt(p)
  PROVE  InstallInv'
  <1>1. Settings' /\ file' = file /\ edits' = edits /\ lock' = lock
    BY Kept DEF Poll, Interrupt
  <1>2. call[p] \in Calls /\ Placed(call[p]) /\ call[p].pc = "poll"
    BY DEF Poll, Interrupt, At, InstallInv, TypeOK
  <1>3. call[p].at \in 1..Len(Order) + 1 /\ call[p].at <= Len(Order)
    BY <1>2 DEF Calls, Placed
  <1>4. call[p].at + 1 \in 1..Len(Order) + 1
    BY <1>3, OrderFacts
  <1>5. CASE PublishNext(p, call[p].at + 1)
    BY <1>1, <1>2, <1>4, <1>5, PublishSequel, Together
  <1>6. CASE Fail(p, "interrupted")
    BY <1>1, <1>2, <1>6, Failing, Together DEF Early, Codes
  <1> QED  BY <1>5, <1>6 DEF Poll, Interrupt

LEMMA AtFile ==
  ASSUME InstallInv, NEW p \in Installers,
         call[p].pc \in {"ensure", "stage", "link", "unlink", "record", "poll"}
  PROVE  /\ call[p].locks = Locks
         /\ call[p].at <= Len(Order)
         /\ Current(p) \in Files
  <1>1. call[p] \in Calls /\ Placed(call[p])
    BY DEF InstallInv, TypeOK
  <1>2. call[p].at \in 1..Len(Order) + 1 /\ call[p].at <= Len(Order)
    BY <1>1 DEF Calls, Placed
  <1> QED  BY <1>1, <1>2, OrderFacts DEF Placed, Current

LEMMA TempSet ==
  ASSUME NEW b \in Calls, NEW pc \in Pcs, NEW t \in Files \union {Nothing}
  PROVE  Onward(b, [b EXCEPT !.pc = pc, !.temp = t], pc)
  BY DEF Calls, Moved, Onward

LEMMA StageStep ==
  ASSUME InstallInv, NEW p \in Installers, StageTemp(p)
  PROVE  InstallInv'
  <1>1. /\ file' = file /\ edits' = edits /\ lock' = lock
        /\ dir' = dir /\ damage' = damage
    BY DEF StageTemp, home, damage
  <1>2. call[p] \in Calls /\ call[p].pc = "stage"
    BY DEF StageTemp, At, InstallInv, TypeOK
  <1>3. /\ call[p].locks = Locks /\ call[p].at <= Len(Order)
        /\ Current(p) \in Files
    BY <1>2, AtFile
  <1>4. temps' \subseteq Installers \X Files => Settings'
    BY <1>1 DEF InstallInv, TypeOK, Settings, damage
  <1>5. CASE Fail(p, "cantcreate") /\ temps' = temps
    <2>1. temps' \subseteq Installers \X Files
      BY <1>5 DEF InstallInv, TypeOK
    <2> QED  BY <1>1, <1>2, <1>4, <1>5, <2>1, Failing, Together DEF Early, Codes
  <1>6. CASE /\ temps' = temps \union {<<p, Current(p)>>}
             /\ Go(p, [call[p] EXCEPT !.pc = "link", !.temp = Current(p)])
    <2> DEFINE c == [call[p] EXCEPT !.pc = "link", !.temp = Current(p)]
    <2>1. "link" \in Pcs /\ Current(p) \in Files \union {Nothing}
      BY <1>3, PlacesArePcs DEF Early
    <2>2. Onward(call[p], c, "link")
      BY <1>2, <2>1, TempSet, Zenon
    <2>3. Go(p, c)
      BY <1>6
    <2> HIDE DEF c
    <2>4. Outcome
      BY <1>1, <1>2, <1>3, <2>2, <2>3, Advance DEF Early, Onward
    <2>5. temps' \subseteq Installers \X Files
      BY <1>3, <1>6 DEF InstallInv, TypeOK
    <2> QED  BY <1>4, <2>4, <2>5, Together
  <1> QED  BY <1>5, <1>6 DEF StageTemp

LEMMA UnlinkStep ==
  ASSUME InstallInv, NEW p \in Installers, Unlink(p)
  PROVE  InstallInv'
  <1>1. /\ file' = file /\ edits' = edits /\ lock' = lock
        /\ dir' = dir /\ damage' = damage
    BY DEF Unlink, home, damage
  <1>2. call[p] \in Calls /\ call[p].pc = "unlink"
    BY DEF Unlink, At, InstallInv, TypeOK
  <1>3. /\ call[p].locks = Locks /\ call[p].at <= Len(Order)
        /\ Current(p) \in Files
    BY <1>2, AtFile
  <1>4. temps' \subseteq temps
    BY DEF Unlink
  <1>5. Settings'
    BY <1>1, <1>4 DEF InstallInv, TypeOK, Settings, damage
  <1>6. CASE Fail(p, "cantcreate")
    BY <1>1, <1>2, <1>5, <1>6, Failing, Together DEF Early, Codes
  <1>7. CASE Go(p, [call[p] EXCEPT !.pc = "record", !.temp = Nothing])
    <2> DEFINE c == [call[p] EXCEPT !.pc = "record", !.temp = Nothing]
    <2>1. "record" \in Pcs /\ Nothing \in Files \union {Nothing}
      BY PlacesArePcs DEF Early
    <2>2. Onward(call[p], c, "record")
      BY <1>2, <2>1, TempSet, Zenon
    <2>3. Go(p, c)
      BY <1>7
    <2> HIDE DEF c
    <2>4. Outcome
      BY <1>1, <1>2, <1>3, <2>2, <2>3, Advance DEF Early, Onward
    <2> QED  BY <1>5, <2>4, Together
  <1> QED  BY <1>6, <1>7 DEF Unlink

-----------------------------------------------------------------------------
(* What goes into the journal.                                             *)

Journalled(b, c) ==
  /\ c \in Calls /\ c.pc = b.pc /\ c.at = b.at
  /\ c.ver = b.ver /\ c.locks = b.locks /\ c.committed = b.committed

LEMMA RecordedIsCall ==
  ASSUME InstallInv, NEW b \in Calls, NEW f \in Files, file[f] # Nothing
  PROVE  Journalled(b, Recorded(b, f))
  <1> DEFINE j == [file |-> f, id |-> file[f].id]
  <1>1. file[f] \in Made
    BY DEF InstallInv, TypeOK
  <1>2. j \in Journal
    BY <1>1 DEF Made, Journal
  <1>3. ASSUME NEW created \in Seq(Journal)
        PROVE  Journalled(b, [b EXCEPT !.created = created])
    BY DEF Calls, Journalled
  <1>4. b.created \in Seq(Journal)
    BY DEF Calls
  <1>5. Append(b.created, j) \in Seq(Journal)
    BY <1>2, <1>4
  <1>6. Recorded(b, f) = [b EXCEPT !.created = Append(b.created, j)]
    BY Zenon DEF Recorded
  <1> QED  BY <1>3, <1>5, <1>6, Zenon

LEMMA Recording ==
  ASSUME InstallInv, NEW p \in Installers, NEW c \in Calls, Go(p, c),
         call[p].pc \in {"unlink", "record"},
         c.pc \in {"poll", "verify", "undo"},
         c.pc = "poll" => c.at <= Len(Order),
         c.pc = "verify" => c.at = 1,
         c.locks = call[p].locks, c.committed = call[p].committed,
         UNCHANGED <<file, lock, edits>>
  PROVE  Outcome
  <1>1. call[p] \in Calls /\ Placed(call[p])
    BY DEF InstallInv, TypeOK
  <1>2. call[p].committed = FALSE /\ c.committed = FALSE /\ c.locks = Locks
    BY <1>1 DEF Calls, Placed
  <1>3. Placed(c)
    BY <1>2 DEF Placed
  <1>4. Unsettled(call[p])
    BY <1>2 DEF Unsettled
  <1>5. Sequel(call[p], c)
    BY <1>2, <1>3, <1>4 DEF Sequel
  <1> QED  BY <1>5, KeepingLocks

LEMMA RecordStep ==
  ASSUME InstallInv, NEW p \in Installers, RecordCreated(p)
  PROVE  InstallInv'
  <1> DEFINE f == Current(p)
             b == Recorded(call[p], f)
  <1>1. Settings' /\ file' = file /\ edits' = edits /\ lock' = lock
    BY Kept DEF RecordCreated
  <1>2. call[p] \in Calls /\ call[p].pc = "record"
    BY DEF RecordCreated, At, InstallInv, TypeOK
  <1>3. call[p].at <= Len(Order) /\ f \in Files
    BY <1>2, AtFile
  <1>4. CASE Fail(p, "rollback")
    BY <1>1, <1>2, <1>4, Failing, Together DEF Early, Codes
  <1>5. file[f] # Nothing => Journalled(call[p], b)
    BY <1>2, <1>3, RecordedIsCall
  <1> HIDE DEF f, b
  <1>6. "verify" \in Pcs /\ "poll" \in Pcs
    BY PlacesArePcs DEF Early
  <1>7. CASE file[f] # Nothing /\ Go(p, [b EXCEPT !.pc = "verify", !.at = 1])
    <2> DEFINE c == [b EXCEPT !.pc = "verify", !.at = 1]
    <2>1. b \in Calls
      BY <1>5, <1>7 DEF Journalled
    <2>2. c \in Calls /\ c.pc = "verify" /\ c.at = 1 /\ Moved(b, c)
      BY <1>6, <2>1, AtOne, Zenon
    <2>3. Go(p, c)
      BY <1>7
    <2> HIDE DEF c
    <2>4. Outcome
      BY <1>1, <1>2, <1>5, <1>7, <2>2, <2>3, Recording DEF Moved, Journalled
    <2> QED  BY <1>1, <2>4, Together
  <1>8. CASE file[f] # Nothing /\ Go(p, [b EXCEPT !.pc = "poll"])
    <2> DEFINE c == [b EXCEPT !.pc = "poll"]
    <2>1. b \in Calls
      BY <1>5, <1>8 DEF Journalled
    <2>2. Onward(b, c, "poll")
      BY <1>6, <2>1, PcOnly, Zenon
    <2>3. Go(p, c)
      BY <1>8
    <2> HIDE DEF c
    <2>4. Outcome
      BY <1>1, <1>2, <1>3, <1>5, <1>8, <2>2, <2>3, Recording
         DEF Moved, Journalled, Onward
    <2> QED  BY <1>1, <2>4, Together
  <1>9. \/ Fail(p, "rollback")
        \/ /\ file[f] # Nothing
           /\ \/ Go(p, [b EXCEPT !.pc = "verify", !.at = 1])
              \/ Go(p, [b EXCEPT !.pc = "poll"])
    BY Zenon DEF RecordCreated, f, b
  <1> QED  BY <1>4, <1>7, <1>8, <1>9

LEMMA FailIsCall ==
  ASSUME NEW b \in Calls, NEW pc \in Pcs, NEW code \in Codes
  PROVE  Onward(b, [b EXCEPT !.pc = pc, !.code = code], pc)
  BY DEF Calls, Onward, Moved

LEMMA ClaimStep ==
  ASSUME InstallInv, NEW p \in Installers, call[p].pc = "unlink",
         ClaimPublished(p), UNCHANGED <<file, lock, edits>>
  PROVE  Outcome
  <1> DEFINE f == Current(p)
             b == Recorded(call[p], f)
  <1>1. call[p] \in Calls /\ f \in Files
    BY AtFile DEF InstallInv, TypeOK
  <1>2. CASE \E code \in {"rollback", "cantcreate"} : Fail(p, code)
    BY <1>2, Failing DEF Early, Codes
  <1>3. CASE /\ file[f] = Whole(p)
             /\ Go(p, [b EXCEPT !.pc = "undo", !.code = "cantcreate"])
    <2> DEFINE c == [b EXCEPT !.pc = "undo", !.code = "cantcreate"]
    <2>1. Whole(p) \in Made
      BY <1>1 DEF Whole, Made, Calls
    <2>2. file[f] # Nothing
      BY <1>3, <2>1, InstallAssumption DEF InstallAssumption
    <2>3. Journalled(call[p], b)
      BY <1>1, <2>2, RecordedIsCall
    <2> HIDE DEF b
    <2>4. b \in Calls /\ "undo" \in Pcs /\ "cantcreate" \in Codes
      BY <2>3, PlacesArePcs DEF Journalled, Finishing, Codes
    <2>5. Onward(b, c, "undo")
      BY <2>4, FailIsCall, Zenon
    <2>6. Go(p, c)
      BY <1>3
    <2> HIDE DEF c
    <2> QED  BY <2>3, <2>5, <2>6, Recording DEF Moved, Journalled, Onward
  <1>4. \/ /\ file[f] = Whole(p)
           /\ Go(p, [b EXCEPT !.pc = "undo", !.code = "cantcreate"])
        \/ Fail(p, "rollback") \/ Fail(p, "cantcreate")
    <2>1. CASE file[f] = Whole(p)
      BY <2>1 DEF ClaimPublished
    <2>2. CASE file[f] # Whole(p)
      BY <2>2 DEF ClaimPublished
    <2> QED  BY <2>1, <2>2
  <1> QED  BY <1>2, <1>3, <1>4

-----------------------------------------------------------------------------
(* The steps that write managed files, and the commit.                     *)

(* Two invocations cannot both have both locks.                            *)
LEMMA Exclusion ==
  ASSUME InstallInv, NEW p \in Installers, NEW q \in Installers,
         call[p].locks = Locks, call[q].locks = Locks
  PROVE  p = q
  BY DEF InstallInv, Held, Locks

LEMMA UnsettledHasLocks ==
  ASSUME InstallInv, NEW p \in Installers, Unsettled(call[p])
  PROVE  call[p].locks = Locks
  <1>1. call[p] \in Calls /\ Placed(call[p]) /\ Unsettled(call[p])
    BY DEF InstallInv, TypeOK
  <1>2. call[p].pc \in Pcs
    BY <1>1 DEF Calls
  <1> QED  BY <1>1, <1>2 DEF Placed, Unsettled, Pcs, Finishing

LEMMA WriteStep ==
  ASSUME InstallInv, NEW p \in Installers, NEW c \in Calls, Go(p, c),
         Placed(c), call[p].locks = Locks, c.locks = Locks,
         c.committed = FALSE, c.pc # "verify",
         edits = 0 => \A q \in Installers : ~call[q].committed,
         lock' = lock, edits' = edits
  PROVE  Outcome
  <1>1. /\ call' \in [Installers -> Calls]
        /\ call'[p] = c
        /\ \A q \in Installers : q # p => call'[q] = call[q]
    BY GoAlone DEF InstallInv, TypeOK
  <1>2. \A q \in Installers : Placed(call'[q])
    BY <1>1 DEF InstallInv
  <1>3. Held'
    <2>1. \A l \in Locks : lock[l] = p
      BY DEF InstallInv, Held
    <2> SUFFICES ASSUME NEW q \in Installers, NEW l \in call'[q].locks
                 PROVE  lock[l] = q
      BY DEF Held
    <2>2. CASE q = p
      BY <1>1, <2>1, <2>2
    <2>3. CASE q # p
      BY <1>1, <2>3 DEF InstallInv, Held
    <2> QED  BY <2>2, <2>3
  <1>4. Stands'
    BY <1>1 DEF Stands
  <1>5. Verified'
    <2> SUFFICES ASSUME NEW q \in Installers, call'[q].pc = "verify"
                 PROVE  FALSE
      BY DEF Verified, At
    <2>1. q # p /\ call[q].pc = "verify"
      BY <1>1
    <2>2. call[q].locks = Locks
      BY <2>1 DEF InstallInv, Placed
    <2> QED  BY <2>1, <2>2, Exclusion
  <1> QED  BY <1>1, <1>2, <1>3, <1>4, <1>5 DEF Outcome

LEMMA LinkStep ==
  ASSUME InstallInv, NEW p \in Installers, Link(p)
  PROVE  InstallInv'
  <1> DEFINE f == Current(p)
  <1>1. /\ edits' = edits /\ lock' = lock /\ dir' = dir
        /\ temps' = temps /\ damage' = damage
    BY DEF Link, damage
  <1>2. call[p] \in Calls /\ Placed(call[p]) /\ call[p].pc = "link"
    BY DEF Link, At, InstallInv, TypeOK
  <1>3. call[p].locks = Locks /\ call[p].at <= Len(Order) /\ f \in Files
    BY <1>2, AtFile
  <1>4. file' \in [Files -> Made \union {Nothing}] => Settings'
    BY <1>1 DEF InstallInv, TypeOK, Settings, damage
  <1>5. CASE Fail(p, "cantcreate") /\ file' = file
    BY <1>1, <1>2, <1>4, <1>5, Failing, Together
       DEF Early, Codes, InstallInv, TypeOK
  <1>6. CASE /\ file[f] = Nothing
             /\ file' = [file EXCEPT ![f] = Whole(p)]
             /\ Go(p, [call[p] EXCEPT !.pc = "unlink"])
    <2> DEFINE c == [call[p] EXCEPT !.pc = "unlink"]
    <2>1. "unlink" \in Pcs
      BY PlacesArePcs DEF Early
    <2>2. Onward(call[p], c, "unlink")
      BY <1>2, <2>1, PcOnly, Zenon
    <2>3. Go(p, c)
      BY <1>6
    <2> HIDE DEF c
    <2>4. call[p].committed = FALSE
      BY <1>2 DEF Placed, Calls
    <2>5. Placed(c) /\ c.committed = FALSE /\ c.locks = Locks /\ c.pc = "unlink"
      BY <1>2, <1>3, <2>2, <2>4 DEF Placed, Onward, Moved
    <2>6. edits = 0 => \A q \in Installers : ~call[q].committed
      BY <1>3, <1>6 DEF InstallInv, Stands, Complete
    <2>7. Outcome
      BY <1>1, <1>3, <2>2, <2>3, <2>5, <2>6, WriteStep DEF Onward
    <2>8. Whole(p) \in Made
      BY <1>2 DEF Whole, Made, Calls
    <2>9. file' \in [Files -> Made \union {Nothing}]
      BY <1>3, <1>6, <2>8 DEF InstallInv, TypeOK
    <2> QED  BY <1>4, <2>7, <2>9, Together
  <1> QED  BY <1>5, <1>6 DEF Link

(* Taking the last file off the journal.                                   *)
Shortened(b, c, pc) ==
  /\ c \in Calls /\ c.pc = pc
  /\ c.ver = b.ver /\ c.locks = b.locks /\ c.committed = b.committed

LEMMA FrontIsCall ==
  ASSUME NEW b \in Calls, b.created # <<>>, NEW pc \in Pcs, NEW x \in BOOLEAN
  PROVE  /\ Shortened(b, [b EXCEPT !.pc = pc, !.created = Front(@),
                                   !.failed = x], pc)
         /\ Shortened(b, [b EXCEPT !.failed = x, !.created = Front(@)], b.pc)
  <1>1. b.created \in Seq(Journal)
    BY DEF Calls
  <1>2. Front(b.created) \in Seq(Journal)
    BY <1>1, FrontAndLast
  <1>3. ASSUME NEW s \in Seq(Journal)
        PROVE  /\ Shortened(b, [b EXCEPT !.pc = pc, !.created = s,
                                         !.failed = x], pc)
               /\ Shortened(b, [b EXCEPT !.failed = x, !.created = s], b.pc)
    BY DEF Calls, Shortened
  <1> QED  BY <1>2, <1>3, Zenon

LEMMA UndoRemoveStep ==
  ASSUME InstallInv, NEW p \in Installers, UndoRemove(p)
  PROVE  InstallInv'
  <1> DEFINE f == Last(call[p].created).file
             x == call[p].failed \/ file[f] = Nothing
             c == [call[p] EXCEPT !.pc = "undo", !.created = Front(@),
                                  !.failed = x]
  <1>1. /\ edits' = edits /\ lock' = lock /\ dir' = dir
        /\ temps' = temps /\ damage' = damage
    BY DEF UndoRemove, damage
  <1>2. call[p] \in Calls
    BY DEF InstallInv, TypeOK
  <1>3. /\ Placed(call[p]) /\ call[p].pc = "remove"
        /\ call[p].locks = Locks /\ call[p].created # <<>>
    BY DEF UndoRemove, At, InstallInv, Placed
  <1>4. call[p].committed = FALSE
    BY <1>2, <1>3 DEF Placed, Calls
  <1>5. f \in Files
    <2>1. call[p].created \in Seq(Journal)
      BY <1>2 DEF Calls
    <2>2. Last(call[p].created) \in Journal
      BY <1>3, <2>1, FrontAndLast
    <2> QED  BY <2>2 DEF Journal
  <1>6. Go(p, c) /\ file' = [file EXCEPT ![f] = Nothing]
    BY Zenon DEF UndoRemove
  <1>7. x \in BOOLEAN /\ "undo" \in Pcs
    <2>1. x \in BOOLEAN
      BY Zenon
    <2> QED  BY <2>1, PlacesArePcs DEF Finishing
  <1> HIDE DEF x, f
  <1>8. Shortened(call[p], c, "undo")
    BY <1>2, <1>3, <1>7, FrontIsCall, Zenon
  <1> HIDE DEF c
  <1>9. Placed(c) /\ c.locks = Locks /\ c.committed = FALSE /\ c.pc # "verify"
    BY <1>3, <1>4, <1>8 DEF Placed, Shortened
  <1>10. edits = 0 => \A q \in Installers : ~call[q].committed
    <2>1. Unsettled(call[p])
      BY <1>3, <1>4 DEF Unsettled
    <2> QED  BY <2>1 DEF InstallInv, Stands
  <1>11. Outcome
    BY <1>1, <1>3, <1>6, <1>8, <1>9, <1>10, WriteStep DEF Shortened
  <1>12. Settings'
    BY <1>1, <1>5, <1>6 DEF InstallInv, TypeOK, Settings, damage
  <1> QED  BY <1>11, <1>12, Together

LEMMA UndoLookStep ==
  ASSUME InstallInv, NEW p \in Installers, UndoLook(p)
  PROVE  InstallInv'
  <1>1. Settings' /\ file' = file /\ edits' = edits /\ lock' = lock
    BY Kept DEF UndoLook
  <1>2. call[p] \in Calls
    BY DEF InstallInv, TypeOK
  <1>3. /\ Placed(call[p]) /\ call[p].pc = "undo"
        /\ call[p].created # <<>> => call[p].locks = Locks
    BY DEF UndoLook, At, InstallInv, Placed
  <1>4. call[p].committed = FALSE
    BY <1>2, <1>3 DEF Placed, Calls
  <1>5. ASSUME NEW c \in Calls, Go(p, c), c.locks = call[p].locks,
               c.committed = call[p].committed,
               \/ c.pc = "temps" /\ c.created = <<>>
               \/ /\ c.pc \in {"undo", "remove"} /\ call[p].created # <<>>
                  /\ c.pc = "remove" => c.created # <<>>
        PROVE  InstallInv'
    <2>1. Placed(c)
      BY <1>3, <1>4, <1>5 DEF Placed
    <2>2. Sequel(call[p], c)
      BY <1>4, <1>5, <2>1 DEF Sequel, Unsettled
    <2>3. Outcome
      BY <1>1, <1>5, <2>2, KeepingLocks
    <2> QED  BY <1>1, <2>3, Together
  <1>6. "temps" \in Pcs /\ "remove" \in Pcs
    BY PlacesArePcs DEF Finishing
  <1>7. CASE call[p].created = <<>> /\ Go(p, [call[p] EXCEPT !.pc = "temps"])
    <2> DEFINE c == [call[p] EXCEPT !.pc = "temps"]
    <2>1. Onward(call[p], c, "temps")
      BY <1>2, <1>6, PcOnly, Zenon
    <2>2. Go(p, c)
      BY <1>7
    <2> HIDE DEF c
    <2> QED  BY <1>5, <1>7, <2>1, <2>2 DEF Onward, Moved
  <1>8. CASE /\ call[p].created # <<>>
             /\ Go(p, [call[p] EXCEPT !.pc = "remove", !.swapped = FALSE])
    <2> DEFINE c == [call[p] EXCEPT !.pc = "remove", !.swapped = FALSE]
    <2>1. /\ c \in Calls /\ c.pc = "remove" /\ c.locks = call[p].locks
          /\ c.created = call[p].created
      BY <1>2, <1>6 DEF Calls
    <2>2. c.committed = call[p].committed
      BY <1>2 DEF Calls
    <2>3. Go(p, c)
      BY <1>8
    <2> HIDE DEF c
    <2> QED  BY <1>5, <1>8, <2>1, <2>2, <2>3
  <1>9. CASE /\ call[p].created # <<>>
             /\ Go(p, [call[p] EXCEPT !.failed = TRUE, !.created = Front(@)])
    <2> DEFINE c == [call[p] EXCEPT !.failed = TRUE, !.created = Front(@)]
    <2>1. Shortened(call[p], c, call[p].pc)
      <3>1. TRUE \in BOOLEAN
        OBVIOUS
      <3> QED  BY <1>2, <1>6, <1>9, <3>1, FrontIsCall, Zenon
    <2>2. Go(p, c)
      BY <1>9
    <2> HIDE DEF c
    <2> QED  BY <1>3, <1>5, <1>9, <2>1, <2>2 DEF Shortened
  <1> QED  BY <1>7, <1>8, <1>9 DEF UndoLook

LEMMA CommitStep ==
  ASSUME InstallInv, NEW p \in Installers, NEW c \in Calls, Go(p, c),
         call[p].pc = "verify", call[p].at > Len(Order),
         c.pc = "temps", c.committed = TRUE, c.ver = call[p].ver,
         c.locks = call[p].locks,
         UNCHANGED <<file, lock, edits>>
  PROVE  Outcome
  <1>1. /\ call' \in [Installers -> Calls]
        /\ call'[p] = c
        /\ \A q \in Installers : q # p => call'[q] = call[q]
    BY GoAlone DEF InstallInv, TypeOK
  <1>2. Placed(c)
    BY DEF Placed
  <1>3. \A q \in Installers : Placed(call'[q])
    BY <1>1, <1>2 DEF InstallInv
  <1>4. Held'
    BY <1>1 DEF InstallInv, Held
  <1>5. call[p].locks = Locks /\ call[p].at \in 1..Len(Order) + 1
    BY DEF InstallInv, Placed, TypeOK, Calls
  <1>6. \A q \in Installers : ~Unsettled(call'[q])
    <2> SUFFICES ASSUME NEW q \in Installers, Unsettled(call'[q])
                 PROVE  FALSE
      OBVIOUS
    <2>1. CASE q = p
      BY <1>1, <2>1 DEF Unsettled
    <2>2. CASE q # p
      <3>1. call[q].locks = Locks
        BY <1>1, <2>2, UnsettledHasLocks
      <3> QED  BY <1>5, <2>2, <3>1, Exclusion
    <2> QED  BY <2>1, <2>2
  <1>7. edits = 0 => Complete(call[p].ver)
    <2> SUFFICES ASSUME edits = 0, NEW f \in Files
                 PROVE  file[f] # Nothing /\ file[f].ver = call[p].ver
      BY DEF Complete
    <2>1. PICK i \in 1..Len(Order) : f = Order[i]
      BY OrderFacts
    <2>2. i < call[p].at
      BY <1>5, OrderFacts
    <2> QED  BY <2>1, <2>2 DEF InstallInv, Verified, At
  <1>8. Stands'
    <2> SUFFICES ASSUME edits = 0, NEW q \in Installers, call'[q].committed
                 PROVE  \A f \in Files : /\ file[f] # Nothing
                                         /\ file[f].ver = call'[q].ver
      BY <1>6 DEF Stands, Complete
    <2>1. CASE q = p
      BY <1>1, <1>7, <2>1 DEF Complete
    <2>2. CASE q # p
      BY <1>1, <2>2 DEF InstallInv, Stands, Complete
    <2> QED  BY <2>1, <2>2
  <1>9. Verified'
    <2> SUFFICES ASSUME edits = 0, NEW q \in Installers, call'[q].pc = "verify",
                        NEW i \in 1..Len(Order), i < call'[q].at
                 PROVE  /\ file[Order[i]] # Nothing
                        /\ file[Order[i]].ver = call'[q].ver
      BY DEF Verified, At
    <2>1. q # p
      BY <1>1
    <2> QED  BY <1>1, <2>1 DEF InstallInv, Verified, At
  <1> QED  BY <1>1, <1>3, <1>4, <1>8, <1>9 DEF Outcome

LEMMA LookStep ==
  ASSUME InstallInv, NEW p \in Installers, NEW c \in Calls, Go(p, c),
         call[p].pc = "verify", c.pc = "verify",
         call[p].at <= Len(Order), c.at = call[p].at + 1,
         file[Current(p)] # Nothing, file[Current(p)].ver = call[p].ver,
         Moved(call[p], c), UNCHANGED <<file, lock, edits>>
  PROVE  Outcome
  <1>1. /\ call' \in [Installers -> Calls]
        /\ call'[p] = c
        /\ \A q \in Installers : q # p => call'[q] = call[q]
    BY GoAlone DEF InstallInv, TypeOK
  <1>2. call[p] \in Calls /\ Placed(call[p])
    BY DEF InstallInv, TypeOK
  <1>3. Placed(c)
    BY <1>2 DEF Placed, Moved
  <1>4. \A q \in Installers : Placed(call'[q])
    BY <1>1, <1>3 DEF InstallInv
  <1>5. Held'
    BY <1>1 DEF InstallInv, Held, Moved
  <1>6. \A q \in Installers : /\ call'[q].committed = call[q].committed
                              /\ call'[q].ver = call[q].ver
                              /\ Unsettled(call'[q]) <=> Unsettled(call[q])
    BY <1>1 DEF Moved, Unsettled
  <1>7. Stands'
    <2> SUFFICES ASSUME edits = 0, NEW q \in Installers, call'[q].committed
                 PROVE  /\ \A f \in Files : /\ file[f] # Nothing
                                            /\ file[f].ver = call'[q].ver
                        /\ \A r \in Installers : ~Unsettled(call'[r])
      BY DEF Stands, Complete
    <2> QED  BY <1>6 DEF InstallInv, Stands, Complete
  <1>8. Verified'
    <2> SUFFICES ASSUME edits = 0, NEW q \in Installers, call'[q].pc = "verify",
                        NEW i \in 1..Len(Order), i < call'[q].at
                 PROVE  /\ file[Order[i]] # Nothing
                        /\ file[Order[i]].ver = call'[q].ver
      BY DEF Verified, At
    <2>1. CASE q # p
      BY <1>1, <2>1 DEF InstallInv, Verified, At
    <2>2. CASE q = p
      <3>1. call[p].at \in 1..Len(Order) + 1 /\ i < call[p].at + 1
        BY <1>1, <1>2, <2>2 DEF Calls
      <3>2. i = call[p].at \/ i < call[p].at
        BY <3>1, OrderFacts
      <3>3. CASE i = call[p].at
        BY <1>1, <2>2, <3>3 DEF Current, Moved
      <3>4. CASE i < call[p].at
        BY <1>1, <2>2, <3>4 DEF InstallInv, Verified, At, Moved
      <3> QED  BY <3>2, <3>3, <3>4
    <2> QED  BY <2>1, <2>2
  <1> QED  BY <1>1, <1>4, <1>5, <1>7, <1>8 DEF Outcome

Committing(b, c) ==
  /\ c \in Calls /\ c.pc = "temps" /\ c.committed = TRUE
  /\ c.ver = b.ver /\ c.locks = b.locks

LEMMA CommitIsCall ==
  ASSUME NEW b \in Calls, NEW pc \in Pcs, NEW x \in BOOLEAN, NEW code \in Codes,
         pc = "temps", x = TRUE
  PROVE  Committing(b, [b EXCEPT !.pc = pc, !.committed = x, !.code = code])
  BY DEF Calls, Committing

NextFile(b, c) ==
  c \in Calls /\ c.pc = b.pc /\ c.at = b.at + 1 /\ Moved(b, c)

LEMMA NextIsCall ==
  ASSUME NEW b \in Calls, b.at <= Len(Order)
  PROVE  NextFile(b, [b EXCEPT !.at = @ + 1])
  <1>1. ASSUME NEW at \in 1..Len(Order) + 1, at = b.at + 1
        PROVE  NextFile(b, [b EXCEPT !.at = at])
    BY <1>1 DEF Calls, NextFile, Moved
  <1>2. b.at \in 1..Len(Order) + 1
    BY DEF Calls
  <1>3. b.at + 1 \in 1..Len(Order) + 1
    BY <1>2, OrderFacts
  <1> QED  BY <1>1, <1>3, Zenon

LEMMA VerifyStep ==
  ASSUME InstallInv, NEW p \in Installers, Verify(p)
  PROVE  InstallInv'
  <1>1. Settings' /\ file' = file /\ edits' = edits /\ lock' = lock
    BY Kept DEF Verify
  <1>2. call[p] \in Calls /\ call[p].pc = "verify"
    BY DEF Verify, At, InstallInv, TypeOK
  <1>3. CASE Fail(p, "data")
    BY <1>1, <1>2, <1>3, Failing, Together DEF Early, Codes
  <1>4. CASE /\ call[p].at > Len(Order)
             /\ Go(p, [call[p] EXCEPT !.pc = "temps", !.committed = TRUE,
                                      !.code = "ok"])
    <2> DEFINE c == [call[p] EXCEPT !.pc = "temps", !.committed = TRUE,
                                    !.code = "ok"]
    <2>1. "temps" \in Pcs /\ "ok" \in Codes /\ TRUE \in BOOLEAN
      BY PlacesArePcs DEF Finishing, Codes
    <2>2. Committing(call[p], c)
      BY <1>2, <2>1, CommitIsCall, Zenon
    <2>3. Go(p, c)
      BY <1>4
    <2> HIDE DEF c
    <2>4. Outcome
      BY <1>1, <1>2, <1>4, <2>2, <2>3, CommitStep DEF Committing
    <2> QED  BY <1>1, <2>4, Together
  <1>5. CASE /\ call[p].at <= Len(Order)
             /\ file[Current(p)] # Nothing /\ file[Current(p)].ver = call[p].ver
             /\ Go(p, [call[p] EXCEPT !.at = @ + 1])
    <2> DEFINE c == [call[p] EXCEPT !.at = @ + 1]
    <2>1. NextFile(call[p], c)
      BY <1>2, <1>5, NextIsCall, Zenon
    <2>2. Go(p, c)
      BY <1>5
    <2> HIDE DEF c
    <2>3. Outcome
      BY <1>1, <1>2, <1>5, <2>1, <2>2, LookStep DEF NextFile
    <2> QED  BY <1>1, <2>3, Together
  <1>6. call[p].at > Len(Order) \/ call[p].at <= Len(Order)
    BY <1>2, OrderFacts DEF Calls
  <1> QED  BY <1>3, <1>4, <1>5, <1>6 DEF Verify

-----------------------------------------------------------------------------
(* The rest of finish(), after the files have been taken back.             *)

LEMMA Unwinding ==
  ASSUME InstallInv, NEW p \in Installers, NEW c \in Calls, Go(p, c),
         call[p].pc \in {"temps", "unlockcli", "unlockconfig", "rmdirs",
                        "finished"},
         c.pc \in {"unlockcli", "unlockconfig", "rmdirs", "finished"},
         c.committed => c.pc # "rmdirs",
         c.created = call[p].created, c.committed = call[p].committed,
         c.ver = call[p].ver,
         \A l \in c.locks : l \in call[p].locks /\ lock'[l] = lock[l],
         \A l \in Locks : lock[l] # p => lock'[l] = lock[l],
         file' = file, edits' = edits
  PROVE  Outcome
  <1>1. call[p] \in Calls /\ Placed(call[p])
    BY DEF InstallInv, TypeOK
  <1>2. Placed(c)
    BY <1>1 DEF Placed
  <1>3. Unsettled(c) => Unsettled(call[p])
    BY DEF Unsettled
  <1>4. Sequel(call[p], c)
    BY <1>2, <1>3 DEF Sequel
  <1>5. \A l \in c.locks : lock'[l] = p
    BY DEF InstallInv, Held
  <1>6. Quiet(p, c)
    BY <1>4, <1>5 DEF Quiet
  <1> QED  BY <1>6, QuietStep DEF Outcome

LEMMA Ending ==
  ASSUME InstallInv, NEW p \in Installers, NEW c \in Calls, Go(p, c),
         c.pc \in {"done", "dead"}, c.locks = {}, c.created = <<>>,
         c.committed = call[p].committed, c.ver = call[p].ver,
         UNCHANGED <<file, lock, edits>>
  PROVE  Outcome
  <1>1. Placed(c) /\ ~Unsettled(c)
    BY DEF Placed, Unsettled
  <1>2. Sequel(call[p], c)
    BY <1>1 DEF Sequel
  <1> QED  BY <1>2, KeepingLocks

Ended(b, c, pc) ==
  /\ c \in Calls /\ c.pc = pc /\ c.locks = {} /\ c.created = <<>>
  /\ c.committed = b.committed /\ c.ver = b.ver

LEMMA EndIsCall ==
  ASSUME NEW b \in Calls, NEW pc \in Pcs, NEW code \in Codes
  PROVE  /\ Ended(b, [Fresh EXCEPT !.pc = pc, !.ver = b.ver,
                           !.committed = b.committed, !.code = code], pc)
         /\ Ended(b, [Fresh EXCEPT !.pc = pc, !.committed = b.committed,
                           !.ver = b.ver], pc)
  <1>1. b.ver \in Versions \union {Foreign} /\ b.committed \in BOOLEAN
    BY DEF Calls
  <1>2. Fresh \in Calls /\ Fresh.locks = {} /\ Fresh.created = <<>>
    BY FreshIsCall DEF Fresh
  <1>3. ASSUME NEW f \in Calls, f.locks = {}, f.created = <<>>,
               NEW ver \in Versions \union {Foreign}, NEW x \in BOOLEAN,
               b.ver = ver, b.committed = x
        PROVE  /\ Ended(b, [f EXCEPT !.pc = pc, !.ver = ver,
                                 !.committed = x, !.code = code], pc)
               /\ Ended(b, [f EXCEPT !.pc = pc, !.committed = x,
                                 !.ver = ver], pc)
    BY <1>3 DEF Calls, Ended
  <1> QED  BY <1>1, <1>2, <1>3, Zenon

LEMMA DoneOutcome ==
  ASSUME InstallInv, NEW p \in Installers, NEW code \in Codes, Done(p, code),
         UNCHANGED <<file, lock, edits>>
  PROVE  Outcome
  <1> DEFINE c == [Fresh EXCEPT !.pc = "done", !.ver = call[p].ver,
                                !.committed = call[p].committed, !.code = code]
  <1>1. call[p] \in Calls /\ "done" \in Pcs
    BY PlacesArePcs DEF InstallInv, TypeOK
  <1>2. Ended(call[p], c, "done")
    BY <1>1, EndIsCall, Zenon
  <1>3. Go(p, c)
    BY Zenon DEF Done
  <1> HIDE DEF c
  <1> QED  BY <1>2, <1>3, Ending DEF Ended

LEMMA FinishStep ==
  ASSUME InstallInv, NEW p \in Installers, Finish(p)
  PROVE  InstallInv'
  <1>1. Settings' /\ file' = file /\ edits' = edits /\ lock' = lock
    BY Kept DEF Finish
  <1>2. call[p].code \in Codes /\ "rollback" \in Codes
    BY DEF InstallInv, TypeOK, Calls, Codes
  <1>3. \E code \in Codes : Done(p, code)
    BY <1>2, Zenon DEF Finish
  <1> QED  BY <1>1, <1>3, DoneOutcome, Together

LEMMA CrashStep ==
  ASSUME InstallInv, NEW p \in Installers, Crash(p)
  PROVE  InstallInv'
  <1> DEFINE c == [Fresh EXCEPT !.pc = "dead", !.committed = call[p].committed,
                                !.ver = call[p].ver]
  <1>1. /\ file' = file /\ edits' = edits /\ lock' = lock /\ dir' = dir
        /\ temps' = temps /\ swept' = swept /\ faults' = faults
        /\ crashes' = crashes + 1
    BY DEF Crash, home
  <1>2. call[p] \in Calls /\ "dead" \in Pcs /\ "none" \in Codes
    BY PlacesArePcs DEF InstallInv, TypeOK, Codes
  <1>3. Ended(call[p], c, "dead")
    BY <1>2, EndIsCall, Zenon
  <1>4. Go(p, c)
    BY Zenon DEF Crash
  <1> HIDE DEF c
  <1>5. Outcome
    BY <1>1, <1>3, <1>4, Ending DEF Ended
  <1>6. Settings'
    BY <1>1 DEF InstallInv, TypeOK, Settings
  <1> QED  BY <1>5, <1>6, Together

LEMMA RemoveTempStep ==
  ASSUME InstallInv, NEW p \in Installers, RemoveTemp(p)
  PROVE  InstallInv'
  <1> DEFINE c == [call[p] EXCEPT !.pc = "unlockcli", !.temp = Nothing]
  <1>1. /\ file' = file /\ edits' = edits /\ lock' = lock /\ dir' = dir
        /\ damage' = damage /\ temps' \subseteq temps /\ call[p].pc = "temps"
    BY DEF RemoveTemp, home, damage, At
  <1>2. /\ call[p] \in Calls /\ "unlockcli" \in Pcs
        /\ Nothing \in Files \union {Nothing}
    BY PlacesArePcs DEF InstallInv, TypeOK, Finishing
  <1>3. Onward(call[p], c, "unlockcli")
    BY <1>2, TempSet, Zenon
  <1>4. Go(p, c)
    BY Zenon DEF RemoveTemp
  <1> HIDE DEF c
  <1>5. Outcome
    BY <1>1, <1>3, <1>4, Unwinding DEF Onward, Moved
  <1>6. Settings'
    BY <1>1 DEF InstallInv, TypeOK, Settings, damage
  <1> QED  BY <1>5, <1>6, Together

Unlocked(b, c, pc, l) ==
  /\ c \in Calls /\ c.pc = pc /\ c.locks = b.locks \ {l}
  /\ c.created = b.created /\ c.committed = b.committed /\ c.ver = b.ver

LEMMA UnlockIsCall ==
  ASSUME NEW b \in Calls, NEW pc \in Pcs, NEW l, NEW x \in BOOLEAN
  PROVE  /\ Unlocked(b, [b EXCEPT !.pc = pc, !.locks = @ \ {l}, !.failed = x],
                      pc, l)
         /\ Unlocked(b, [b EXCEPT !.pc = pc, !.locks = @ \ {l}], pc, l)
  BY DEF Calls, Unlocked

LEMMA ReleaseLockStep ==
  ASSUME InstallInv, NEW p \in Installers, NEW l \in Locks, NEW pc, NEW next,
         pc \in {"unlockcli", "unlockconfig"},
         next \in {"unlockconfig", "rmdirs", "finished"},
         call[p].committed => next # "rmdirs",
         ReleaseLock(p, l, pc, next)
  PROVE  InstallInv'
  <1> DEFINE x == call[p].failed \/ (l \in call[p].locks /\ lock[l] # p)
             c == [call[p] EXCEPT !.pc = next, !.locks = @ \ {l}, !.failed = x]
  <1>1. /\ file' = file /\ edits' = edits /\ dir' = dir
        /\ temps' = temps /\ damage' = damage /\ call[p].pc = pc
    BY DEF ReleaseLock, home, damage, At
  <1>2. \/ lock' = lock
        \/ lock[l] = p /\ lock' = [lock EXCEPT ![l] = Nothing]
    BY DEF ReleaseLock
  <1>3. Go(p, c)
    BY Zenon DEF ReleaseLock
  <1>4. x \in BOOLEAN
    BY Zenon
  <1> HIDE DEF x
  <1>5. call[p] \in Calls /\ next \in Pcs
    BY PlacesArePcs DEF InstallInv, TypeOK, Finishing
  <1>6. Unlocked(call[p], c, next, l)
    BY <1>4, <1>5, UnlockIsCall, Zenon
  <1> HIDE DEF c
  <1>7. lock \in [Locks -> Installers \union {Nothing}]
    BY DEF InstallInv, TypeOK
  <1>8. /\ \A m \in Locks : m # l => lock'[m] = lock[m]
        /\ \A m \in Locks : lock[m] # p => lock'[m] = lock[m]
        /\ lock' \in [Locks -> Installers \union {Nothing}]
    BY <1>2, <1>7
  <1>9. \A m \in c.locks : m \in call[p].locks /\ lock'[m] = lock[m]
    <2>1. call[p].locks \subseteq Locks
      BY <1>5 DEF Calls
    <2> QED  BY <1>6, <1>8, <2>1 DEF Unlocked
  <1>10. Outcome
    BY <1>1, <1>3, <1>6, <1>8, <1>9, Unwinding DEF Unlocked
  <1>11. Settings'
    BY <1>1, <1>8 DEF InstallInv, TypeOK, Settings, damage
  <1> QED  BY <1>10, <1>11, Together

LEMMA UnlockStep ==
  ASSUME InstallInv, NEW p \in Installers, UnlockCli(p) \/ UnlockConfig(p)
  PROVE  InstallInv'
  <1>1. CASE UnlockCli(p)
    BY <1>1, ReleaseLockStep DEF UnlockCli, Locks
  <1>2. CASE UnlockConfig(p)
    <2>1. AfterLocks(p) \in {"rmdirs", "finished"}
          /\ (call[p].committed => AfterLocks(p) # "rmdirs")
      BY DEF AfterLocks
    <2> QED  BY <1>2, <2>1, ReleaseLockStep DEF UnlockConfig, Locks
  <1> QED  BY <1>1, <1>2

DirsOff(b, c, pc) ==
  /\ c \in Calls /\ c.pc = pc /\ c.locks = b.locks
  /\ c.created = b.created /\ c.committed = b.committed /\ c.ver = b.ver

LEMMA DirsFront ==
  ASSUME NEW b \in Calls, b.dirs # <<>>, NEW x \in BOOLEAN
  PROVE  /\ DirsOff(b, [b EXCEPT !.dirs = Front(@)], b.pc)
         /\ DirsOff(b, [b EXCEPT !.dirs = Front(@), !.failed = x], b.pc)
  <1>1. b.dirs \in Seq(Dirs)
    BY DEF Calls
  <1>2. Front(b.dirs) \in Seq(Dirs)
    BY <1>1, FrontAndLast
  <1>3. ASSUME NEW ds \in Seq(Dirs)
        PROVE  /\ DirsOff(b, [b EXCEPT !.dirs = ds], b.pc)
               /\ DirsOff(b, [b EXCEPT !.dirs = ds, !.failed = x], b.pc)
    BY DEF Calls, DirsOff
  <1> QED  BY <1>2, <1>3, Zenon

LEMMA RemoveDirectoryStep ==
  ASSUME InstallInv, NEW p \in Installers, RemoveDirectory(p)
  PROVE  InstallInv'
  <1>1. /\ file' = file /\ edits' = edits /\ lock' = lock
        /\ temps' = temps /\ damage' = damage /\ call[p].pc = "rmdirs"
    BY DEF RemoveDirectory, damage, At
  <1>2. call[p] \in Calls /\ Placed(call[p])
    BY DEF InstallInv, TypeOK
  <1>3. call[p].committed = FALSE
    BY <1>1, <1>2 DEF Placed, Calls
  <1>4. dir' \in [Dirs -> Installers \union {Someone, Nothing}]
    BY DEF RemoveDirectory, InstallInv, TypeOK
  <1>5. Settings'
    BY <1>1, <1>4 DEF InstallInv, TypeOK, Settings, damage
  <1>6. ASSUME NEW c, NEW pc \in {"rmdirs", "finished"}, Go(p, c),
               DirsOff(call[p], c, pc)
        PROVE  InstallInv'
    <2>1. Outcome
      BY <1>1, <1>3, <1>6, Unwinding DEF DirsOff
    <2> QED  BY <1>5, <2>1, Together
  <1>7. CASE Go(p, [call[p] EXCEPT !.pc = "finished"])
    <2> DEFINE c == [call[p] EXCEPT !.pc = "finished"]
    <2>1. "finished" \in Pcs
      BY PlacesArePcs DEF Finishing
    <2>2. Onward(call[p], c, "finished")
      BY <1>2, <2>1, PcOnly, Zenon
    <2>3. Go(p, c)
      BY <1>7
    <2> HIDE DEF c
    <2>4. DirsOff(call[p], c, "finished")
      BY <2>2 DEF DirsOff, Onward, Moved
    <2> QED  BY <1>6, <2>3, <2>4
  <1>8. CASE call[p].dirs # <<>> /\ Go(p, [call[p] EXCEPT !.dirs = Front(@)])
    <2> DEFINE c == [call[p] EXCEPT !.dirs = Front(@)]
    <2>1. TRUE \in BOOLEAN
      OBVIOUS
    <2>2. DirsOff(call[p], c, call[p].pc)
      BY <1>2, <1>8, <2>1, DirsFront, Zenon
    <2>3. Go(p, c)
      BY <1>8
    <2> HIDE DEF c
    <2> QED  BY <1>1, <1>6, <2>2, <2>3
  <1>9. CASE /\ call[p].dirs # <<>>
             /\ Go(p, [call[p] EXCEPT !.dirs = Front(@), !.failed = TRUE])
    <2> DEFINE c == [call[p] EXCEPT !.dirs = Front(@), !.failed = TRUE]
    <2>1. TRUE \in BOOLEAN
      OBVIOUS
    <2>2. DirsOff(call[p], c, call[p].pc)
      BY <1>2, <1>9, <2>1, DirsFront, Zenon
    <2>3. Go(p, c)
      BY <1>9
    <2> HIDE DEF c
    <2> QED  BY <1>1, <1>6, <2>2, <2>3
  <1> QED  BY <1>7, <1>8, <1>9 DEF RemoveDirectory

-----------------------------------------------------------------------------
(* File operations that fail.                                              *)

LEMMA LoseLockOutcome ==
  ASSUME InstallInv, NEW p \in Installers, NEW l \in Locks,
         NEW pc \in {"lockconfig", "lockcli"}, LoseLock(p, l, pc), edits' = edits
  PROVE  /\ Outcome
         /\ lock' \in [Locks -> Installers \union {Nothing}]
         /\ UNCHANGED <<home, temps>>
  <1>1. lock \in [Locks -> Installers \union {Nothing}]
    BY DEF InstallInv, TypeOK
  <1>2. lock[l] = Nothing /\ lock' = [lock EXCEPT ![l] = p]
    BY DEF LoseLock
  <1>3. /\ \A m \in Locks : lock[m] # Nothing => lock'[m] = lock[m]
        /\ lock' \in [Locks -> Installers \union {Nothing}]
    BY <1>1, <1>2
  <1>4. call[p].pc \in Early /\ Fail(p, "rollback") /\ file' = file
    BY DEF LoseLock, At, Early, home
  <1>5. Outcome
    BY <1>3, <1>4, Failing DEF Codes
  <1> QED  BY <1>3, <1>5 DEF LoseLock

LEMMA NotedIsCall ==
  ASSUME NEW b \in Calls
  PROVE  DirsOff(b, [b EXCEPT !.failed = TRUE], b.pc)
         /\ [b EXCEPT !.failed = TRUE].dirs = b.dirs
  BY DEF Calls, DirsOff

LEMMA ShortenedIsCall ==
  ASSUME NEW b \in Calls, b.created # <<>>, NEW pc \in Pcs
  PROVE  Shortened(b, [b EXCEPT !.pc = pc, !.created = Front(@)], pc)
  <1>1. b.created \in Seq(Journal)
    BY DEF Calls
  <1>2. Front(b.created) \in Seq(Journal)
    BY <1>1, FrontAndLast
  <1>3. ASSUME NEW s \in Seq(Journal)
        PROVE  Shortened(b, [b EXCEPT !.pc = pc, !.created = s], pc)
    BY DEF Calls, Shortened
  <1> QED  BY <1>2, <1>3, Zenon

LEMMA SkipOutcome ==
  ASSUME InstallInv, NEW p \in Installers, SkipRemoval(p), edits' = edits
  PROVE  Outcome
  <1> DEFINE b == [call[p] EXCEPT !.failed = TRUE]
  <1>1. file' = file /\ lock' = lock
    BY DEF SkipRemoval, home
  <1>2. call[p] \in Calls /\ Placed(call[p])
    BY DEF InstallInv, TypeOK
  <1>3. DirsOff(call[p], b, call[p].pc) /\ b.dirs = call[p].dirs
    BY <1>2, NotedIsCall, Zenon
  <1>4. \/ /\ b.pc \in {"undo", "remove"} /\ b.created # <<>>
           /\ Go(p, [b EXCEPT !.pc = "undo", !.created = Front(@)])
        \/ /\ b.pc = "temps"
           /\ Go(p, [b EXCEPT !.pc = "unlockcli", !.temp = Nothing])
        \/ /\ b.pc = "unlockcli"
           /\ Go(p, [b EXCEPT !.pc = "unlockconfig", !.locks = @ \ {"cli"}])
        \/ /\ b.pc = "unlockconfig"
           /\ Go(p, [b EXCEPT !.pc = AfterLocks(p), !.locks = @ \ {"config"}])
        \/ /\ b.pc = "rmdirs" /\ b.dirs # <<>>
           /\ Go(p, [b EXCEPT !.dirs = Front(@)])
        \/ Done(p, "rollback") \/ Done(p, "unavailable")
    BY Zenon DEF SkipRemoval
  <1> HIDE DEF b
  <1>5. b \in Calls /\ b.pc = call[p].pc /\ b.locks = call[p].locks
        /\ b.created = call[p].created /\ b.committed = call[p].committed
        /\ b.ver = call[p].ver
    BY <1>3 DEF DirsOff
  <1>6. /\ {"undo", "unlockcli", "unlockconfig"} \subseteq Pcs
        /\ AfterLocks(p) \in Pcs /\ AfterLocks(p) \in {"rmdirs", "finished"}
        /\ call[p].committed => AfterLocks(p) # "rmdirs"
    BY PlacesArePcs DEF Finishing, AfterLocks
  <1>7. CASE /\ b.pc \in {"undo", "remove"} /\ b.created # <<>>
             /\ Go(p, [b EXCEPT !.pc = "undo", !.created = Front(@)])
    <2> DEFINE c == [b EXCEPT !.pc = "undo", !.created = Front(@)]
    <2>1. Shortened(b, c, "undo")
      <3>1. "undo" \in Pcs
        BY <1>6
      <3> QED  BY <1>5, <1>7, <3>1, ShortenedIsCall, Zenon
    <2>2. Go(p, c)
      BY <1>7
    <2> HIDE DEF c
    <2>3. call[p].committed = FALSE /\ call[p].locks = Locks
      BY <1>2, <1>5, <1>7 DEF Placed, Calls
    <2>4. Placed(c)
      BY <1>5, <2>1, <2>3 DEF Placed, Shortened
    <2>5. Sequel(call[p], c)
      BY <1>5, <1>7, <2>1, <2>3, <2>4 DEF Sequel, Unsettled, Shortened
    <2> QED  BY <1>1, <1>5, <2>1, <2>2, <2>5, KeepingLocks DEF Shortened
  <1>8. CASE /\ b.pc = "temps"
             /\ Go(p, [b EXCEPT !.pc = "unlockcli", !.temp = Nothing])
    <2> DEFINE c == [b EXCEPT !.pc = "unlockcli", !.temp = Nothing]
    <2>1. "unlockcli" \in Pcs /\ Nothing \in Files \union {Nothing}
      BY <1>6
    <2>2. Onward(b, c, "unlockcli")
      BY <1>5, <2>1, TempSet, Zenon
    <2>3. Go(p, c)
      BY <1>8
    <2> HIDE DEF c
    <2> QED  BY <1>1, <1>5, <1>8, <2>2, <2>3, Unwinding DEF Onward, Moved
  <1>9. ASSUME NEW l, NEW pc \in Pcs, pc \in {"unlockconfig", "rmdirs", "finished"},
               call[p].committed => pc # "rmdirs",
               b.pc \in {"unlockcli", "unlockconfig"},
               Go(p, [b EXCEPT !.pc = pc, !.locks = @ \ {l}])
        PROVE  Outcome
    <2> DEFINE c == [b EXCEPT !.pc = pc, !.locks = @ \ {l}]
    <2>1. TRUE \in BOOLEAN
      OBVIOUS
    <2>2. Unlocked(b, c, pc, l)
      BY <1>5, <2>1, UnlockIsCall, Zenon
    <2>3. Go(p, c)
      BY <1>9
    <2> HIDE DEF c
    <2> QED  BY <1>1, <1>5, <1>9, <2>2, <2>3, Unwinding DEF Unlocked
  <1>10. CASE /\ b.pc = "rmdirs" /\ b.dirs # <<>>
              /\ Go(p, [b EXCEPT !.dirs = Front(@)])
    <2> DEFINE c == [b EXCEPT !.dirs = Front(@)]
    <2>1. TRUE \in BOOLEAN
      OBVIOUS
    <2>2. DirsOff(b, c, b.pc)
      BY <1>5, <1>10, <2>1, DirsFront, Zenon
    <2>3. Go(p, c)
      BY <1>10
    <2> HIDE DEF c
    <2>4. call[p].committed = FALSE
      BY <1>2, <1>5, <1>10 DEF Placed, Calls
    <2> QED  BY <1>1, <1>5, <1>10, <2>2, <2>3, <2>4, Unwinding DEF DirsOff
  <1>11. CASE Done(p, "rollback") \/ Done(p, "unavailable")
    BY <1>1, <1>11, DoneOutcome DEF Codes
  <1> QED  BY <1>4, <1>6, <1>7, <1>8, <1>9, <1>10, <1>11

LEMMA IOFailureStep ==
  ASSUME InstallInv, NEW p \in Installers, IOFailure(p)
  PROVE  InstallInv'
  <1>1. /\ swept' = swept /\ crashes' = crashes /\ edits' = edits
        /\ faults' = faults + 1
    BY DEF IOFailure
  <1>2. /\ UNCHANGED <<file, temps>>
        /\ dir' \in [Dirs -> Installers \union {Someone, Nothing}]
        /\ lock' \in [Locks -> Installers \union {Nothing}]
        => Settings'
    BY <1>1 DEF InstallInv, TypeOK, Settings
  <1>3. UNCHANGED <<home, lock, temps>> => Settings'
    BY <1>2 DEF InstallInv, TypeOK, home
  <1>4. CASE /\ \E code \in FaultCodes(p) : Fail(p, code)
             /\ UNCHANGED <<home, lock, temps>>
    <2>1. PICK code \in FaultCodes(p) : Fail(p, code)
      BY <1>4
    <2>2. code \in Codes /\ call[p].pc \in Early
      BY <2>1 DEF FaultCodes, Codes, Early
    <2> QED  BY <1>1, <1>3, <1>4, <2>1, <2>2, Failing, Together DEF home
  <1>5. CASE /\ At(p, "unlink") /\ ClaimPublished(p)
             /\ UNCHANGED <<home, lock, temps>>
    BY <1>1, <1>3, <1>5, ClaimStep, Together DEF At, home
  <1>6. CASE \/ LoseLock(p, "config", "lockconfig")
             \/ LoseLock(p, "cli", "lockcli")
    <2>1. /\ Outcome
          /\ lock' \in [Locks -> Installers \union {Nothing}]
          /\ UNCHANGED <<home, temps>>
      BY <1>1, <1>6, LoseLockOutcome DEF Locks
    <2> QED  BY <1>2, <2>1, Together DEF home, InstallInv, TypeOK
  <1>7. CASE LoseDirectory(p)
    <2>1. call[p].pc \in Early /\ Fail(p, "rollback")
      BY <1>7 DEF LoseDirectory, Early
    <2>2. UNCHANGED <<file, lock, temps>>
      BY <1>7 DEF LoseDirectory
    <2>3. dir' \in [Dirs -> Installers \union {Someone, Nothing}]
      BY <1>7 DEF LoseDirectory, InstallInv, TypeOK
    <2>4. lock' \in [Locks -> Installers \union {Nothing}]
      BY <2>2 DEF InstallInv, TypeOK
    <2> QED  BY <1>1, <1>2, <2>1, <2>2, <2>3, <2>4, Failing, Together DEF Codes
  <1>8. CASE SkipRemoval(p)
    <2>1. UNCHANGED <<home, lock, temps>>
      BY <1>8 DEF SkipRemoval
    <2> QED  BY <1>1, <1>3, <1>8, <2>1, SkipOutcome, Together
  <1> QED  BY <1>4, <1>5, <1>6, <1>7, <1>8 DEF IOFailure

-----------------------------------------------------------------------------
(* What others do.                                                         *)

LEMMA ClearOrphanStep ==
  ASSUME InstallInv, NEW l \in Locks, ClearOrphan(l)
  PROVE  InstallInv'
  <1>1. /\ UNCHANGED <<home, temps, call, damage>>
        /\ lock[l] # Nothing /\ ~Running(lock[l])
        /\ lock' = [lock EXCEPT ![l] = Nothing]
    BY DEF ClearOrphan
  <1>2. lock \in [Locks -> Installers \union {Nothing}]
    BY DEF InstallInv, TypeOK
  <1>3. Held'
    <2> SUFFICES ASSUME NEW q \in Installers, NEW m \in call[q].locks
                 PROVE  lock'[m] = q
      BY <1>1 DEF Held
    <2>1. lock[m] = q /\ m \in Locks
      BY DEF InstallInv, TypeOK, Held, Calls
    <2>2. m # l
      BY <1>1, <2>1 DEF InstallInv, Placed, Running
    <2> QED  BY <1>1, <1>2, <2>1, <2>2
  <1>4. Stands' /\ Verified'
    BY <1>1 DEF InstallInv, Stands, Verified, Complete, home, damage, At
  <1>5. TypeOK'
    BY <1>1, <1>2 DEF InstallInv, TypeOK, home, damage
  <1> QED  BY <1>1, <1>3, <1>4, <1>5 DEF InstallInv

LEMMA PeopleStep ==
  ASSUME InstallInv, (\E f \in Files : Edit(f)) \/ SweepTemp
  PROVE  InstallInv'
  <1>1. /\ edits' = edits + 1 /\ edits \in Nat
        /\ UNCHANGED <<dir, lock, crashes, faults>>
    BY DEF Edit, SweepTemp, home, InstallInv, TypeOK
  <1>2. file' \in [Files -> Made \union {Nothing}]
    BY DEF Edit, SweepTemp, home, InstallInv, TypeOK
  <1>3. temps' \subseteq Installers \X Files /\ swept' \in BOOLEAN
    BY DEF Edit, SweepTemp, InstallInv, TypeOK
  <1>4. Settings'
    BY <1>1, <1>2, <1>3 DEF Settings, InstallInv, TypeOK
  <1>5. Stands' /\ Verified'
    BY <1>1 DEF Stands, Verified
  <1>6. \A q \in Installers :
          /\ call'[q] \in Calls /\ Placed(call'[q])
          /\ call'[q].locks = call[q].locks
    <2> SUFFICES ASSUME NEW q \in Installers
                 PROVE  /\ call'[q] \in Calls /\ Placed(call'[q])
                        /\ call'[q].locks = call[q].locks
      OBVIOUS
    <2>1. call[q] \in Calls /\ Placed(call[q])
      BY DEF InstallInv, TypeOK
    <2>2. CASE call'[q] = call[q]
      BY <2>1, <2>2
    <2>3. CASE call'[q] = [call[q] EXCEPT !.swapped = TRUE]
      <3> DEFINE c == [call[q] EXCEPT !.swapped = TRUE]
      <3>1. c \in Calls /\ c.pc = call[q].pc /\ c.at = call[q].at
            /\ c.locks = call[q].locks /\ c.created = call[q].created
            /\ c.committed = call[q].committed
        BY <2>1 DEF Calls
      <3> HIDE DEF c
      <3>2. Placed(c)
        BY <2>1, <3>1 DEF Placed
      <3> QED  BY <2>3, <3>1, <3>2 DEF c
    <2>4. call'[q] = call[q] \/ call'[q] = [call[q] EXCEPT !.swapped = TRUE]
      BY DEF Edit, SweepTemp
    <2> QED  BY <2>2, <2>3, <2>4
  <1>7. call' \in [Installers -> Calls]
    <2>1. \/ call' = call
          \/ call' = [q \in Installers |-> call'[q]]
      BY DEF Edit, SweepTemp
    <2> QED  BY <1>6, <2>1 DEF InstallInv, TypeOK
  <1>8. Held'
    BY <1>1, <1>6 DEF InstallInv, Held
  <1> QED  BY <1>4, <1>5, <1>6, <1>7, <1>8, Together DEF Outcome

-----------------------------------------------------------------------------
(* The theorems.                                                           *)

LEMMA InstallInvStep == InstallInv /\ [Next]_vars => InstallInv'
  <1> SUFFICES ASSUME InstallInv, [Next]_vars PROVE InstallInv'
    OBVIOUS
  <1>1. ASSUME NEW p \in Installers, Step(p) PROVE InstallInv'
    <2>1. CASE \/ Classify(p, "scan", "lockconfig")
               \/ Classify(p, "rescan", "sources")
      BY <2>1, ClassifyStep
    <2>2. CASE LockConfig(p) \/ LockCli(p)
      BY <2>2, MakeLockStep DEF LockConfig, LockCli
    <2>3. CASE \/ EnsureDirectory(p, Cli, "lockdirs", "lockcli")
               \/ EnsureDirectory(p, Current(p), "ensure", "stage")
      BY <2>3, EnsureStep
    <2>4. CASE CheckSources(p) \/ StageTemp(p) \/ Link(p) \/ Unlink(p)
      BY <2>4, CheckSourcesStep, StageStep, LinkStep, UnlinkStep
    <2>5. CASE RecordCreated(p) \/ Poll(p) \/ Verify(p)
      BY <2>5, RecordStep, PollStep, VerifyStep
    <2>6. CASE UndoLook(p) \/ UndoRemove(p) \/ RemoveTemp(p)
      BY <2>6, UndoLookStep, UndoRemoveStep, RemoveTempStep
    <2>7. CASE UnlockCli(p) \/ UnlockConfig(p) \/ RemoveDirectory(p) \/ Finish(p)
      BY <2>7, UnlockStep, RemoveDirectoryStep, FinishStep
    <2> QED  BY <1>1, <2>1, <2>2, <2>3, <2>4, <2>5, <2>6, <2>7 DEF Step
  <1>2. ASSUME NEW p \in Installers,
               Begin(p) \/ Interrupt(p) \/ IOFailure(p) \/ Crash(p)
        PROVE  InstallInv'
    BY <1>2, BeginStep, PollStep, IOFailureStep, CrashStep
  <1>3. CASE \/ \E l \in Locks : ClearOrphan(l)
             \/ \E f \in Files : Edit(f)
             \/ SweepTemp
    BY <1>3, ClearOrphanStep, PeopleStep
  <1>4. CASE UNCHANGED vars
    <2>1. UNCHANGED <<home, lock, temps, damage>> /\ call' = call
      BY <1>4 DEF vars
    <2>2. Settings' /\ file' = file /\ edits' = edits /\ lock' = lock
      BY <2>1, Kept
    <2>3. Outcome
      BY <2>1, <2>2 DEF Outcome, InstallInv, TypeOK, Held, Stands, Verified,
                        Complete, At
    <2> QED  BY <2>2, <2>3, Together
  <1> QED  BY <1>1, <1>2, <1>3, <1>4 DEF Next

(* The inductive invariant: where each invocation is and what locks it has *)
(* then, and what of an installation that stands nobody can take back.     *)
THEOREM InstallInvHolds == Spec => []InstallInv
  BY InstallInvInit, InstallInvStep, PTL DEF Spec

(* The state of install always has its type.                               *)
THEOREM InstallTypeCorrect == Spec => []TypeOK
  <1>1. InstallInv => TypeOK
    BY DEF InstallInv
  <1> QED  BY <1>1, InstallInvHolds, PTL

(* Whatever the invocations do, fail at or are killed in, an installation  *)
(* that stands is complete and of one version until somebody edits it.     *)
THEOREM InstallationsStand == Spec => []InstalledStays
  <1>1. InstallInv => InstalledStays
    BY DEF InstallInv, Stands, Complete, InstalledStays
  <1> QED  BY <1>1, InstallInvHolds, PTL

LEMMA WritingSteps ==
  ASSUME NEW p \in Installers, file' # file,
         Begin(p) \/ Step(p) \/ Interrupt(p) \/ IOFailure(p) \/ Crash(p)
  PROVE  Link(p) \/ UndoRemove(p)
  <1>1. ~Begin(p) /\ ~Interrupt(p) /\ ~Crash(p)
    BY DEF Begin, Interrupt, Crash, home
  <1>2. ~IOFailure(p)
    BY DEF IOFailure, LoseLock, LoseDirectory, SkipRemoval, home
  <1>3. /\ \A pc, next : ~Classify(p, pc, next)
        /\ \A l, pc, next : ~MakeLock(p, l, pc, next)
        /\ \A f, pc, next : ~EnsureDirectory(p, f, pc, next)
        /\ \A l, pc, next : ~ReleaseLock(p, l, pc, next)
    BY DEF Classify, MakeLock, EnsureDirectory, ReleaseLock, home
  <1>4. ~CheckSources(p) /\ ~StageTemp(p) /\ ~Unlink(p) /\ ~RecordCreated(p)
    BY DEF CheckSources, StageTemp, Unlink, RecordCreated, home
  <1>5. ~Poll(p) /\ ~Verify(p) /\ ~UndoLook(p) /\ ~RemoveTemp(p)
    BY DEF Poll, Verify, UndoLook, RemoveTemp, home
  <1>6. ~RemoveDirectory(p) /\ ~Finish(p)
    BY DEF RemoveDirectory, Finish, home
  <1> QED  BY <1>1, <1>2, <1>3, <1>4, <1>5, <1>6
           DEF Step, LockConfig, LockCli, UnlockCli, UnlockConfig

LEMMA Writers ==
  ASSUME InstallInv, [Next]_vars, file' # file, edits' = edits
  PROVE  \E p \in Installers : Link(p) \/ UndoRemove(p)
  <1>1. edits \in Nat
    BY DEF InstallInv, TypeOK
  <1>2. edits + 1 # edits
    BY <1>1
  <1>3. ~(\E f \in Files : Edit(f)) /\ ~SweepTemp
    BY <1>2 DEF Edit, SweepTemp
  <1>4. \A l \in Locks : ~ClearOrphan(l)
    BY DEF ClearOrphan, home
  <1>5. ~(UNCHANGED vars)
    BY DEF vars, home
  <1>6. PICK p \in Installers :
          Begin(p) \/ Step(p) \/ Interrupt(p) \/ IOFailure(p) \/ Crash(p)
    BY <1>3, <1>4, <1>5 DEF Next
  <1> QED  BY <1>6, WritingSteps

LEMMA WritersHaveLocks ==
  ASSUME InstallInv, [Next]_vars, file' # file, edits' = edits
  PROVE  \E p \in Installers :
            /\ call'[p] # call[p]
            /\ \A l \in Locks : lock[l] = p
  <1>1. PICK p \in Installers : Link(p) \/ UndoRemove(p)
    BY Writers
  <1>2. /\ call[p] \in Calls /\ call[p].locks = Locks
        /\ call[p].pc \in {"link", "remove"}
    BY <1>1 DEF Link, UndoRemove, At, InstallInv, TypeOK, Placed
  <1>3. \A l \in Locks : lock[l] = p
    BY <1>2 DEF InstallInv, Held
  <1>4. call'[p] # call[p]
    <2>1. CASE Link(p)
      <3>1. call[p].pc = "link" /\ file' # file
        BY <2>1 DEF Link, At
      <3>2. Go(p, [call[p] EXCEPT !.pc = "unlink"])
        BY <2>1, <3>1 DEF Link
      <3>3. call'[p] = [call[p] EXCEPT !.pc = "unlink"]
        BY <3>2 DEF Go, InstallInv, TypeOK
      <3>4. call'[p].pc = "unlink"
        BY <1>2, <3>3 DEF Calls
      <3> QED  BY <3>1, <3>4
    <2>2. CASE UndoRemove(p)
      <3> DEFINE x == call[p].failed
                        \/ file[Last(call[p].created).file] = Nothing
                 c == [call[p] EXCEPT !.pc = "undo", !.created = Front(@),
                                      !.failed = x]
      <3>1. call[p].pc = "remove" /\ call[p].created # <<>>
        BY <2>2 DEF UndoRemove, At, InstallInv, Placed
      <3>2. Go(p, c)
        BY <2>2, Zenon DEF UndoRemove
      <3>3. x \in BOOLEAN
        BY Zenon
      <3>4. "undo" \in Pcs
        BY PlacesArePcs DEF Finishing
      <3> HIDE DEF x
      <3>5. Shortened(call[p], c, "undo")
        BY <1>2, <3>1, <3>3, <3>4, FrontIsCall, Zenon
      <3> HIDE DEF c
      <3>6. call'[p] = c
        BY <3>2 DEF Go, InstallInv, TypeOK
      <3> QED  BY <3>1, <3>5, <3>6 DEF Shortened
    <2> QED  BY <1>1, <2>1, <2>2
  <1> QED  BY <1>3, <1>4

(* Only an invocation that has both locks changes managed files.           *)
THEOREM WritesNeedLocks == Spec => WritesUnderLocks
  <1>1. InstallInv /\ [Next]_vars =>
          [file' # file /\ edits' = edits =>
             \E p \in Installers :
                /\ call'[p] # call[p]
                /\ \A l \in Locks : lock[l] = p]_vars
    BY WritersHaveLocks
  <1> QED  BY <1>1, InstallInvHolds, PTL DEF Spec, WritesUnderLocks

-----------------------------------------------------------------------------
(* What an invocation leaves.                                              *)

(* finish() will tell that something stays, or nobody can tell any more.   *)
Excused(c) == c.pc = "dead" \/ c.failed \/ c.code = "rollback"

InJournal(c, f) == \E i \in 1..Len(c.created) : c.created[i].file = f
InDirs(c, d)    == \E i \in 1..Len(c.dirs) : c.dirs[i] = d

(* Trouble starts finish(), which empties one of the lists after another.  *)
Phased(c) ==
  /\ c.pc = "idle" => c = Fresh
  /\ c.pc \in Early => c.code = "none" /\ ~c.failed
  /\ c.pc = "done" => ~c.failed
  /\ c.temp # Nothing => c.pc \in {"link", "unlink", "undo", "remove", "temps"}
  /\ c.pc \in {"link", "unlink"} => c.temp = Order[c.at]
  /\ c.pc = "unlockconfig" => "cli" \notin c.locks
  /\ c.pc \in {"rmdirs", "finished", "done"} => c.locks = {}
  /\ c.pc \in {"finished", "done"} => c.dirs = <<>> \/ c.committed
  /\ c.pc \in {"temps", "unlockcli", "unlockconfig", "rmdirs", "finished",
               "done"} => c.created = <<>> \/ c.committed

(* What p has on the disk, the locks lk, the temporary files tm, the       *)
(* managed files fl and the directories dr, is in one of its lists.        *)
Listed(p, c, lk, tm, fl, dr, sw) ==
  ~Excused(c) =>
    /\ \A l \in Locks : lk[l] = p => l \in c.locks
    /\ \A f \in Files : <<p, f>> \in tm => c.temp = f
    /\ c.pc = "unlink" => sw \/ <<p, Order[c.at]>> \in tm
    /\ sw \/ c.committed
       \/ \A f \in Files : fl[f] # Nothing /\ fl[f].id = p =>
            \/ InJournal(c, f)
            \/ c.pc \in {"unlink", "record"} /\ f = Order[c.at]
    /\ c.committed \/ \A d \in Dirs : dr[d] = p => InDirs(c, d)

TidyInv ==
  \A p \in Installers :
    /\ Phased(call[p])
    /\ Listed(p, call[p], lock, temps, file, dir, swept)

(* A step of p gives nobody else anything and takes nothing from him.      *)
Unhurt(p) ==
  /\ swept' = swept
  /\ \A q \in Installers \ {p} :
       /\ \A l \in Locks : lock'[l] = q => lock[l] = q
       /\ \A d \in Dirs : dir'[d] = q => dir[d] = q
       /\ \A f \in Files : <<q, f>> \in temps' <=> <<q, f>> \in temps
       /\ \A f \in Files : file'[f] # Nothing /\ file'[f].id = q
                             => file[f] # Nothing /\ file[f].id = q

Tidy(p, c) ==
  /\ Phased(c)
  /\ Listed(p, c, lock', temps', file', dir', swept')

LEMMA TidyStep ==
  ASSUME InstallInv, TidyInv, NEW p \in Installers, NEW c, Go(p, c),
         Unhurt(p), Tidy(p, c)
  PROVE  TidyInv'
  <1>1. call'[p] = c /\ \A q \in Installers \ {p} : call'[q] = call[q]
    BY DEF Go, InstallInv, TypeOK
  <1>2. Phased(call'[p])
        /\ Listed(p, call'[p], lock', temps', file', dir', swept')
    BY <1>1 DEF Tidy
  <1>3. ASSUME NEW q \in Installers \ {p}
        PROVE  /\ Phased(call'[q])
               /\ Listed(q, call'[q], lock', temps', file', dir', swept')
    <2>1. call'[q] = call[q]
      BY <1>1
    <2>2. Phased(call[q]) /\ Listed(q, call[q], lock, temps, file, dir, swept)
      BY DEF TidyInv
    <2>3. call[q] \in Calls
      BY DEF InstallInv, TypeOK
    <2>4. call[q].pc = "unlink" => Order[call[q].at] \in Files
      <3>1. Placed(call[q])
        BY DEF InstallInv
      <3>2. call[q].pc = "unlink" => call[q].at \in 1..Len(Order)
        BY <2>3, <3>1, OrderFacts DEF Placed, Calls
      <3> QED  BY <3>2, OrderFacts
    <2>5. Listed(q, call[q], lock', temps', file', dir', swept')
      BY <2>2, <2>4 DEF Listed, Unhurt
    <2> QED  BY <2>1, <2>2, <2>5
  <1> QED  BY <1>2, <1>3 DEF TidyInv

LEMMA StillUnhurt ==
  ASSUME NEW p, UNCHANGED <<home, lock, temps>>, swept' = swept
  PROVE  Unhurt(p)
  BY DEF Unhurt, home

(* The lists stay as they are.                                             *)
SameLists(b, c) ==
  /\ c.created = b.created /\ c.temp = b.temp /\ c.locks = b.locks
  /\ c.dirs = b.dirs /\ c.committed = b.committed /\ c.failed = b.failed

LEMMA StillListed ==
  ASSUME NEW p, NEW b, NEW c, SameLists(b, c),
         Listed(p, b, lock, temps, file, dir, swept),
         UNCHANGED <<home, lock, temps>>, swept' = swept,
         ~Excused(c) => ~Excused(b), c.pc # "unlink",
         b.pc \in {"unlink", "record"} => swept
  PROVE  Listed(p, c, lock', temps', file', dir', swept')
  <1>1. /\ \A f : InJournal(c, f) = InJournal(b, f)
        /\ \A d : InDirs(c, d) = InDirs(b, d)
    BY DEF InJournal, InDirs, SameLists
  <1> QED  BY <1>1 DEF Listed, SameLists, home

(* A step on within the installation.                                      *)
LEMMA TidyGo ==
  ASSUME InstallInv, TidyInv, NEW p \in Installers, NEW c, Go(p, c),
         SameLists(call[p], c), c.code = call[p].code,
         c.pc \in Early \ {"idle", "link", "unlink"},
         call[p].pc \in Early \ {"idle", "link", "unlink", "record"},
         UNCHANGED <<home, lock, temps>>, swept' = swept
  PROVE  TidyInv'
  <1>1. /\ Phased(call[p])
        /\ Listed(p, call[p], lock, temps, file, dir, swept)
    BY DEF TidyInv
  <1>2. Phased(c)
    BY <1>1 DEF Phased, SameLists, Early
  <1>3. ~Excused(c) => ~Excused(call[p])
    BY <1>1 DEF Phased, Excused, Early
  <1>4. Listed(p, c, lock', temps', file', dir', swept')
    BY <1>1, <1>3, StillListed DEF Early
  <1> QED  BY <1>2, <1>4, StillUnhurt, TidyStep DEF Tidy

LEMMA TidyFail ==
  ASSUME InstallInv, TidyInv, NEW p \in Installers, NEW code,
         call[p].pc \in Early, Fail(p, code), Unhurt(p),
         \/ code = "rollback"
         \/ /\ UNCHANGED <<home, lock, temps>>
            /\ call[p].pc \in {"unlink", "record"} => swept
  PROVE  TidyInv'
  <1> DEFINE c == [call[p] EXCEPT !.pc = "undo", !.code = code]
  <1>1. call[p] \in Calls
    BY DEF InstallInv, TypeOK
  <1>2. c.pc = "undo" /\ c.code = code /\ SameLists(call[p], c)
    BY <1>1 DEF Calls, SameLists
  <1>3. Go(p, c)
    BY DEF Fail
  <1> HIDE DEF c
  <1>4. /\ Phased(call[p])
        /\ Listed(p, call[p], lock, temps, file, dir, swept)
    BY DEF TidyInv
  <1>5. Phased(c)
    BY <1>2, <1>4 DEF Phased, SameLists, Early
  <1>6. Listed(p, c, lock', temps', file', dir', swept')
    <2>1. CASE code = "rollback"
      BY <1>2, <2>1 DEF Listed, Excused
    <2>2. CASE /\ UNCHANGED <<home, lock, temps>>
               /\ call[p].pc \in {"unlink", "record"} => swept
      <3>1. ~Excused(call[p])
        BY <1>4 DEF Phased, Excused, Early
      <3> QED  BY <1>2, <1>4, <2>2, <3>1, StillListed DEF Unhurt
    <2> QED  BY <2>1, <2>2
  <1> QED  BY <1>3, <1>5, <1>6, TidyStep DEF Tidy

LEMMA TidyBegin ==
  ASSUME InstallInv, TidyInv, NEW p \in Installers, Begin(p)
  PROVE  TidyInv'
  <1>1. /\ call[p] = Fresh /\ UNCHANGED <<home, lock, temps>> /\ swept' = swept
        /\ Listed(p, Fresh, lock, temps, file, dir, swept)
    BY DEF Begin, At, TidyInv, Phased, damage
  <1>2. PICK ver \in Versions :
          \/ Go(p, [Fresh EXCEPT !.pc = "scan", !.ver = ver])
          \/ Go(p, [Fresh EXCEPT !.pc = "undo", !.ver = ver, !.code = "data"])
    BY DEF Begin
  <1>3. ASSUME NEW c, Go(p, c), c.pc \in {"scan", "undo"}, SameLists(Fresh, c),
               c.code = "none" \/ c.pc = "undo"
        PROVE  TidyInv'
    <2>1. Phased(c)
      BY <1>3 DEF Phased, SameLists, Fresh, Early
    <2>2. ~Excused(Fresh) /\ Fresh.pc = "idle"
      BY DEF Excused, Fresh
    <2>3. Listed(p, c, lock', temps', file', dir', swept')
      BY <1>1, <1>3, <2>2, StillListed
    <2> QED  BY <1>1, <1>3, <2>1, <2>3, StillUnhurt, TidyStep DEF Tidy
  <1>4. CASE Go(p, [Fresh EXCEPT !.pc = "scan", !.ver = ver])
    <2> DEFINE c == [Fresh EXCEPT !.pc = "scan", !.ver = ver]
    <2>1. c.pc = "scan" /\ SameLists(Fresh, c) /\ c.code = "none"
      BY DEF Fresh, SameLists
    <2>2. Go(p, c)
      BY <1>4
    <2> HIDE DEF c
    <2> QED  BY <1>3, <2>1, <2>2
  <1>5. CASE Go(p, [Fresh EXCEPT !.pc = "undo", !.ver = ver, !.code = "data"])
    <2> DEFINE c == [Fresh EXCEPT !.pc = "undo", !.ver = ver, !.code = "data"]
    <2>1. c.pc = "undo" /\ SameLists(Fresh, c)
      BY DEF Fresh, SameLists
    <2>2. Go(p, c)
      BY <1>5
    <2> HIDE DEF c
    <2> QED  BY <1>3, <2>1, <2>2
  <1> QED  BY <1>2, <1>4, <1>5

LEMMA TidyClassify ==
  ASSUME InstallInv, TidyInv, NEW p \in Installers, NEW pc, NEW next,
         \/ pc = "scan" /\ next = "lockconfig"
         \/ pc = "rescan" /\ next = "sources",
         Classify(p, pc, next)
  PROVE  TidyInv'
  <1> DEFINE b == call[p]
             f == Current(p)
  <1>1. /\ b \in Calls /\ b.pc = pc
        /\ UNCHANGED <<home, lock, temps>> /\ swept' = swept
    BY DEF InstallInv, TypeOK, Classify, At, damage
  <1>2. ASSUME NEW c, Go(p, c), SameLists(b, c), c.code = b.code,
               c.pc \in {pc, next}
        PROVE  TidyInv'
    BY <1>1, <1>2, TidyGo DEF Early
  <1>3. CASE Go(p, [b EXCEPT !.pc = next, !.at = 1, !.depth = 1])
    <2> DEFINE c == [b EXCEPT !.pc = next, !.at = 1, !.depth = 1]
    <2>1. c.pc = next /\ c.code = b.code /\ SameLists(b, c)
      BY <1>1 DEF Calls, SameLists
    <2>2. Go(p, c)
      BY <1>3
    <2> HIDE DEF c
    <2> QED  BY <1>2, <2>1, <2>2
  <1>4. CASE Go(p, [b EXCEPT !.at = @ + 1, !.absent = @ \union {f}])
    <2> DEFINE c == [b EXCEPT !.at = @ + 1, !.absent = @ \union {f}]
    <2>1. c.pc = pc /\ c.code = b.code /\ SameLists(b, c)
      BY <1>1 DEF Calls, SameLists
    <2>2. Go(p, c)
      BY <1>4
    <2> HIDE DEF c
    <2> QED  BY <1>2, <2>1, <2>2
  <1>5. CASE Go(p, [b EXCEPT !.at = @ + 1])
    <2> DEFINE c == [b EXCEPT !.at = @ + 1]
    <2>1. c.pc = pc /\ c.code = b.code /\ SameLists(b, c)
      BY <1>1 DEF Calls, SameLists
    <2>2. Go(p, c)
      BY <1>5
    <2> HIDE DEF c
    <2> QED  BY <1>2, <2>1, <2>2
  <1>6. CASE Fail(p, "cantcreate")
    BY <1>1, <1>6, StillUnhurt, TidyFail DEF Early
  <1>7. \/ Go(p, [b EXCEPT !.pc = next, !.at = 1, !.depth = 1])
        \/ Go(p, [b EXCEPT !.at = @ + 1, !.absent = @ \union {f}])
        \/ Go(p, [b EXCEPT !.at = @ + 1])
        \/ Fail(p, "cantcreate")
    <2>1. CASE b.at > Len(Order)
      BY <2>1, Zenon DEF Classify
    <2>2. CASE ~(b.at > Len(Order))
      BY <2>2, Zenon DEF Classify
    <2> QED  BY <2>1, <2>2
  <1> QED  BY <1>3, <1>4, <1>5, <1>6, <1>7

LEMMA TidyMakeLock ==
  ASSUME InstallInv, TidyInv, NEW p \in Installers, NEW l, NEW pc, NEW next,
         \/ l = "config" /\ pc = "lockconfig" /\ next = "lockdirs"
         \/ l = "cli" /\ pc = "lockcli" /\ next = "rescan",
         MakeLock(p, l, pc, next)
  PROVE  TidyInv'
  <1> DEFINE b == call[p]
  <1>1. /\ b \in Calls /\ b.pc = pc /\ l \in Locks
        /\ UNCHANGED <<home, temps>> /\ swept' = swept
        /\ Phased(b) /\ Listed(p, b, lock, temps, file, dir, swept)
    BY DEF InstallInv, TypeOK, MakeLock, At, damage, TidyInv, Locks
  <1>2. CASE Fail(p, "locked") /\ lock' = lock
    BY <1>1, <1>2, StillUnhurt, TidyFail DEF Early
  <1>3. CASE /\ lock' = [lock EXCEPT ![l] = p]
             /\ Go(p, [b EXCEPT !.pc = next, !.at = 1, !.depth = 1,
                                !.absent = {}, !.locks = @ \union {l}])
    <2> DEFINE c == [b EXCEPT !.pc = next, !.at = 1, !.depth = 1,
                              !.absent = {}, !.locks = @ \union {l}]
    <2>1. /\ c.pc = next /\ c.code = b.code /\ c.locks = b.locks \union {l}
          /\ c.created = b.created /\ c.temp = b.temp /\ c.dirs = b.dirs
          /\ c.committed = b.committed /\ c.failed = b.failed
      BY <1>1 DEF Calls
    <2>2. Go(p, c)
      BY <1>3
    <2> HIDE DEF c
    <2>3. \A m \in Locks : lock'[m] = IF m = l THEN p ELSE lock[m]
      BY <1>1, <1>3 DEF InstallInv, TypeOK
    <2>4. Phased(c)
      BY <1>1, <2>1 DEF Phased, Early
    <2>5. ~Excused(b)
      BY <1>1 DEF Phased, Excused, Early
    <2>6. /\ \A f : InJournal(c, f) = InJournal(b, f)
          /\ \A d : InDirs(c, d) = InDirs(b, d)
      BY <2>1 DEF InJournal, InDirs
    <2>7. Listed(p, c, lock', temps', file', dir', swept')
      BY <1>1, <2>1, <2>3, <2>5, <2>6 DEF Listed, home
    <2>8. Unhurt(p)
      BY <1>1, <2>3 DEF Unhurt, home
    <2> QED  BY <2>2, <2>4, <2>7, <2>8, TidyStep DEF Tidy
  <1> QED  BY <1>2, <1>3 DEF MakeLock

LEMMA AppendKeeps ==
  ASSUME NEW S, NEW s \in Seq(S), NEW x \in S, NEW y,
         (\E i \in 1..Len(s) : s[i] = y) \/ y = x
  PROVE  \E i \in 1..Len(Append(s, x)) : Append(s, x)[i] = y
  <1>1. /\ Len(Append(s, x)) = Len(s) + 1 /\ Len(s) \in Nat
        /\ Append(s, x)[Len(s) + 1] = x
        /\ \A i \in 1..Len(s) : Append(s, x)[i] = s[i]
    OBVIOUS
  <1> QED  BY <1>1

LEMMA FrontKeeps ==
  ASSUME NEW S, NEW s \in Seq(S), s # <<>>, NEW i \in 1..Len(s)
  PROVE  \/ s[i] = Last(s)
         \/ \E j \in 1..Len(Front(s)) : Front(s)[j] = s[i]
  <1>1. /\ Len(s) \in Nat \ {0} /\ Last(s) = s[Len(s)]
        /\ Front(s) = [j \in 1..Len(s) - 1 |-> s[j]]
    BY DEF Last, Front
  <1>2. Len(Front(s)) = Len(s) - 1
    BY <1>1
  <1> QED  BY <1>1, <1>2

LEMMA TidyEnsure ==
  ASSUME InstallInv, TidyInv, NEW p \in Installers, NEW f, NEW pc, NEW next,
         \/ f = Cli /\ pc = "lockdirs" /\ next = "lockcli"
         \/ f = Current(p) /\ pc = "ensure" /\ next = "stage",
         EnsureDirectory(p, f, pc, next)
  PROVE  TidyInv'
  <1> DEFINE b == call[p]
             d == Path[f][b.depth]
  <1>1. /\ b \in Calls /\ b.pc = pc
        /\ UNCHANGED <<file, lock, temps>> /\ swept' = swept
        /\ Phased(b) /\ Listed(p, b, lock, temps, file, dir, swept)
    BY DEF InstallInv, TypeOK, EnsureDirectory, At, damage, TidyInv
  <1>2. ASSUME NEW c, Go(p, c), SameLists(b, c), c.code = b.code,
               c.pc \in {pc, next}, dir' = dir
        PROVE  TidyInv'
    BY <1>1, <1>2, TidyGo DEF Early, home
  <1>3. CASE Go(p, [b EXCEPT !.pc = next]) /\ dir' = dir
    <2> DEFINE c == [b EXCEPT !.pc = next]
    <2>1. c.pc = next /\ c.code = b.code /\ SameLists(b, c)
      BY <1>1 DEF Calls, SameLists
    <2>2. Go(p, c)
      BY <1>3
    <2> HIDE DEF c
    <2> QED  BY <1>2, <1>3, <2>1, <2>2
  <1>4. CASE Go(p, [b EXCEPT !.depth = @ + 1]) /\ dir' = dir
    <2> DEFINE c == [b EXCEPT !.depth = @ + 1]
    <2>1. c.pc = pc /\ c.code = b.code /\ SameLists(b, c)
      BY <1>1 DEF Calls, SameLists
    <2>2. Go(p, c)
      BY <1>4
    <2> HIDE DEF c
    <2> QED  BY <1>2, <1>4, <2>1, <2>2
  <1>5. CASE Fail(p, "cantcreate") /\ dir' = dir
    BY <1>1, <1>5, StillUnhurt, TidyFail DEF Early, home
  <1>6. CASE /\ b.depth <= Len(Path[f])
             /\ dir' = [dir EXCEPT ![d] = p]
             /\ Go(p, [b EXCEPT !.depth = @ + 1, !.dirs = Append(@, d)])
    <2>1. d \in Dirs
      <3>1. f \in Files
        <4>1. pc = "ensure" => b.at \in 1..Len(Order)
          BY <1>1, OrderFacts DEF InstallInv, Placed, Calls
        <4> QED  BY <4>1, OrderFacts DEF Current
      <3>2. Path[f] \in Seq(Dirs)
        BY <3>1, InstallAssumption DEF InstallAssumption
      <3>3. b.depth \in 1..Len(Path[f])
        BY <1>1, <1>6, <3>2 DEF Calls
      <3> QED  BY <3>2, <3>3
    <2> HIDE DEF d
    <2> DEFINE c == [b EXCEPT !.depth = @ + 1, !.dirs = Append(@, d)]
    <2>2. ASSUME NEW s
          PROVE  LET e == [b EXCEPT !.depth = @ + 1, !.dirs = s] IN
                 /\ e.pc = pc /\ e.code = b.code /\ e.locks = b.locks
                 /\ e.created = b.created /\ e.temp = b.temp /\ e.dirs = s
                 /\ e.committed = b.committed /\ e.failed = b.failed
      BY <1>1 DEF Calls
    <2>3. /\ c.pc = pc /\ c.code = b.code /\ c.locks = b.locks
          /\ c.created = b.created /\ c.temp = b.temp
          /\ c.dirs = Append(b.dirs, d)
          /\ c.committed = b.committed /\ c.failed = b.failed
      BY <2>2, Zenon
    <2>4. Go(p, c)
      BY <1>6
    <2> HIDE DEF c
    <2>5. \A e \in Dirs : dir'[e] = IF e = d THEN p ELSE dir[e]
      BY <1>6, <2>1 DEF InstallInv, TypeOK
    <2>6. b.dirs \in Seq(Dirs)
      BY <1>1 DEF Calls
    <2>7. \A e : InDirs(b, e) \/ e = d => InDirs(c, e)
      BY <2>1, <2>3, <2>6, AppendKeeps DEF InDirs
    <2>8. \A g : InJournal(c, g) = InJournal(b, g)
      BY <2>3 DEF InJournal
    <2>9. Phased(c)
      BY <1>1, <2>3 DEF Phased, Early
    <2>10. ~Excused(b)
      BY <1>1 DEF Phased, Excused, Early
    <2>11. Listed(p, c, lock', temps', file', dir', swept')
      BY <1>1, <2>3, <2>5, <2>7, <2>8, <2>10 DEF Listed
    <2>12. Unhurt(p)
      BY <1>1, <2>5 DEF Unhurt
    <2> QED  BY <2>4, <2>9, <2>11, <2>12, TidyStep DEF Tidy
  <1>7. \/ Go(p, [b EXCEPT !.pc = next]) /\ dir' = dir
        \/ Go(p, [b EXCEPT !.depth = @ + 1]) /\ dir' = dir
        \/ Fail(p, "cantcreate") /\ dir' = dir
        \/ /\ b.depth <= Len(Path[f])
           /\ dir' = [dir EXCEPT ![d] = p]
           /\ Go(p, [b EXCEPT !.depth = @ + 1, !.dirs = Append(@, d)])
    <2>1. CASE b.depth > Len(Path[f])
      BY <2>1, Zenon DEF EnsureDirectory
    <2>2. CASE ~(b.depth > Len(Path[f]))
      <3>1. b.depth <= Len(Path[f])
        <4>1. b.depth \in Nat
          BY <1>1 DEF Calls
        <4>2. Len(Path[f]) \in Nat
          <5>1. pc = "ensure" => b.at \in 1..Len(Order)
            BY <1>1, OrderFacts DEF InstallInv, Placed, Calls
          <5>2. f \in Files
            BY <5>1, OrderFacts DEF Current
          <5>3. Path[f] \in Seq(Dirs)
            BY <5>2, InstallAssumption DEF InstallAssumption
          <5> QED  BY <5>3
        <4> QED  BY <2>2, <4>1, <4>2
      <3> QED  BY <2>2, <3>1, Zenon DEF EnsureDirectory
    <2> QED  BY <2>1, <2>2
  <1> QED  BY <1>3, <1>4, <1>5, <1>6, <1>7

LEMMA TidyPublishNext ==
  ASSUME InstallInv, TidyInv, NEW p \in Installers, NEW i,
         call[p].pc \in {"sources", "poll"}, PublishNext(p, i),
         UNCHANGED <<home, lock, temps>>, swept' = swept
  PROVE  TidyInv'
  <1> DEFINE b == call[p]
  <1>1. b \in Calls
    BY DEF InstallInv, TypeOK
  <1>2. ASSUME NEW c, Go(p, c), SameLists(b, c), c.code = b.code,
               c.pc \in {"verify", "stage", "ensure"}
        PROVE  TidyInv'
    BY <1>2, TidyGo DEF Early
  <1>3. CASE Go(p, [b EXCEPT !.pc = "verify", !.at = 1])
    <2> DEFINE c == [b EXCEPT !.pc = "verify", !.at = 1]
    <2>1. c.pc = "verify" /\ c.code = b.code /\ SameLists(b, c)
      BY <1>1 DEF Calls, SameLists
    <2>2. Go(p, c)
      BY <1>3
    <2> HIDE DEF c
    <2> QED  BY <1>2, <2>1, <2>2
  <1>4. ASSUME NEW j, NEW pc \in {"stage", "ensure"},
               Go(p, [b EXCEPT !.at = j, !.depth = 1, !.pc = pc])
        PROVE  TidyInv'
    <2> DEFINE c == [b EXCEPT !.at = j, !.depth = 1, !.pc = pc]
    <2>1. c.pc = pc /\ c.code = b.code /\ SameLists(b, c)
      BY <1>1 DEF Calls, SameLists
    <2>2. Go(p, c)
      BY <1>4
    <2> HIDE DEF c
    <2> QED  BY <1>2, <2>1, <2>2
  <1>5. \/ Go(p, [b EXCEPT !.pc = "verify", !.at = 1])
        \/ \E j, pc : /\ pc \in {"stage", "ensure"}
                      /\ Go(p, [b EXCEPT !.at = j, !.depth = 1, !.pc = pc])
    <2>1. \A j : (IF Order[j] = Cli THEN "stage" ELSE "ensure")
                   \in {"stage", "ensure"}
      OBVIOUS
    <2> QED  BY <2>1, Zenon DEF PublishNext
  <1> QED  BY <1>3, <1>4, <1>5

LEMMA TidyStageTemp ==
  ASSUME InstallInv, TidyInv, NEW p \in Installers, StageTemp(p)
  PROVE  TidyInv'
  <1> DEFINE b == call[p]
             f == Current(p)
  <1>1. /\ b \in Calls /\ b.pc = "stage"
        /\ UNCHANGED <<home, lock>> /\ swept' = swept
        /\ Phased(b) /\ Listed(p, b, lock, temps, file, dir, swept)
    BY DEF InstallInv, TypeOK, StageTemp, At, damage, TidyInv
  <1>2. CASE Fail(p, "cantcreate") /\ temps' = temps
    BY <1>1, <1>2, StillUnhurt, TidyFail DEF Early
  <1>3. CASE /\ temps' = temps \union {<<p, f>>}
             /\ Go(p, [b EXCEPT !.pc = "link", !.temp = f])
    <2> HIDE DEF f
    <2> DEFINE c == [b EXCEPT !.pc = "link", !.temp = f]
    <2>1. /\ c.pc = "link" /\ c.code = b.code /\ c.locks = b.locks
          /\ c.created = b.created /\ c.temp = f /\ c.dirs = b.dirs
          /\ c.committed = b.committed /\ c.failed = b.failed /\ c.at = b.at
      BY <1>1 DEF Calls
    <2>2. Go(p, c)
      BY <1>3
    <2> HIDE DEF c
    <2>3. f = Order[c.at]
      BY <2>1 DEF f, Current
    <2>4. Phased(c)
      BY <1>1, <2>1, <2>3 DEF Phased, Early
    <2>5. ~Excused(b) /\ b.temp = Nothing
      BY <1>1 DEF Phased, Excused, Early
    <2>6. /\ \A g : InJournal(c, g) = InJournal(b, g)
          /\ \A d : InDirs(c, d) = InDirs(b, d)
      BY <2>1 DEF InJournal, InDirs
    <2>7. Nothing \notin Files
      BY InstallAssumption DEF InstallAssumption
    <2>8. Listed(p, c, lock', temps', file', dir', swept')
      BY <1>1, <1>3, <2>1, <2>5, <2>6, <2>7 DEF Listed, home
    <2>9. Unhurt(p)
      BY <1>1, <1>3 DEF Unhurt, home
    <2> QED  BY <2>2, <2>4, <2>8, <2>9, TidyStep DEF Tidy
  <1> QED  BY <1>2, <1>3 DEF StageTemp

LEMMA TidyLink ==
  ASSUME InstallInv, TidyInv, NEW p \in Installers, Link(p)
  PROVE  TidyInv'
  <1> DEFINE b == call[p]
             f == Current(p)
  <1>1. /\ b \in Calls /\ b.pc = "link" /\ f = Order[b.at] /\ f \in Files
        /\ UNCHANGED <<dir, lock, temps>> /\ swept' = swept
        /\ Phased(b) /\ Listed(p, b, lock, temps, file, dir, swept)
    <2>1. b.pc = "link" /\ b \in Calls
      BY DEF InstallInv, TypeOK, Link, At
    <2>2. f \in Files
      BY <2>1, AtFile
    <2> QED  BY <2>1, <2>2 DEF Link, Current, damage, TidyInv
  <1>2. CASE Fail(p, "cantcreate") /\ file' = file
    BY <1>1, <1>2, StillUnhurt, TidyFail DEF Early, home
  <1>3. CASE /\ file[f] = Nothing /\ <<p, f>> \in temps
             /\ file' = [file EXCEPT ![f] = Whole(p)]
             /\ Go(p, [b EXCEPT !.pc = "unlink"])
    <2> DEFINE c == [b EXCEPT !.pc = "unlink"]
    <2>1. c.pc = "unlink" /\ c.code = b.code /\ c.at = b.at /\ SameLists(b, c)
      BY <1>1 DEF Calls, SameLists
    <2>2. Go(p, c)
      BY <1>3
    <2> HIDE DEF c, f
    <2>3. Phased(c)
      BY <1>1, <2>1 DEF Phased, Early, SameLists
    <2>4. ~Excused(b)
      BY <1>1 DEF Phased, Excused, Early
    <2>5. /\ \A g : InJournal(c, g) = InJournal(b, g)
          /\ \A d : InDirs(c, d) = InDirs(b, d)
      BY <2>1 DEF InJournal, InDirs, SameLists
    <2>6. /\ \A g \in Files : g # f => file'[g] = file[g]
          /\ file'[f].id = p
      BY <1>1, <1>3 DEF InstallInv, TypeOK, Whole
    <2>7. Listed(p, c, lock', temps', file', dir', swept')
      BY <1>1, <1>3, <2>1, <2>4, <2>5, <2>6 DEF Listed, SameLists
    <2>8. Unhurt(p)
      BY <1>1, <2>6 DEF Unhurt
    <2> QED  BY <2>2, <2>3, <2>7, <2>8, TidyStep DEF Tidy
  <1> QED  BY <1>2, <1>3 DEF Link

LEMMA TidyUnlink ==
  ASSUME InstallInv, TidyInv, NEW p \in Installers, Unlink(p)
  PROVE  TidyInv'
  <1> DEFINE b == call[p]
             f == Current(p)
  <1>1. /\ b \in Calls /\ b.pc = "unlink" /\ f = Order[b.at] /\ b.temp = f
        /\ UNCHANGED <<home, lock>> /\ swept' = swept
        /\ Phased(b) /\ Listed(p, b, lock, temps, file, dir, swept)
        /\ ~Excused(b)
    <2>1. b.pc = "unlink" /\ b \in Calls /\ Phased(b)
      BY DEF InstallInv, TypeOK, Unlink, At, TidyInv
    <2>2. b.temp = f
      BY <2>1 DEF Phased, Current
    <2>3. ~Excused(b)
      BY <2>1 DEF Phased, Excused, Early
    <2> QED  BY <2>1, <2>2, <2>3 DEF Unlink, Current, damage, TidyInv
  <1>2. CASE /\ <<p, f>> \notin temps
             /\ Fail(p, "cantcreate") /\ temps' = temps
    <2>1. swept
      BY <1>1, <1>2 DEF Listed
    <2> QED  BY <1>1, <1>2, <2>1, StillUnhurt, TidyFail DEF Early
  <1>3. CASE /\ temps' = temps \ {<<p, f>>}
             /\ Go(p, [b EXCEPT !.pc = "record", !.temp = Nothing])
    <2> DEFINE c == [b EXCEPT !.pc = "record", !.temp = Nothing]
    <2>1. /\ c.pc = "record" /\ c.code = b.code /\ c.locks = b.locks
          /\ c.created = b.created /\ c.temp = Nothing /\ c.dirs = b.dirs
          /\ c.committed = b.committed /\ c.failed = b.failed /\ c.at = b.at
      BY <1>1 DEF Calls
    <2>2. Go(p, c)
      BY <1>3
    <2> HIDE DEF c, f
    <2>3. Phased(c)
      BY <1>1, <2>1 DEF Phased, Early
    <2>4. /\ \A g : InJournal(c, g) = InJournal(b, g)
          /\ \A d : InDirs(c, d) = InDirs(b, d)
      BY <2>1 DEF InJournal, InDirs
    <2>5. \A g \in Files : <<p, g>> \notin temps'
      BY <1>1, <1>3 DEF Listed
    <2>6. Listed(p, c, lock', temps', file', dir', swept')
      BY <1>1, <1>3, <2>1, <2>4, <2>5 DEF Listed, home
    <2>7. Unhurt(p)
      BY <1>1, <1>3 DEF Unhurt, home
    <2> QED  BY <2>2, <2>3, <2>6, <2>7, TidyStep DEF Tidy
  <1> QED  BY <1>2, <1>3 DEF Unlink

(* The published file goes into the journal.                               *)
LEMMA TidyRecorded ==
  ASSUME InstallInv, TidyInv, NEW p \in Installers, NEW c, Go(p, c),
         call[p].pc \in {"unlink", "record"}, file[Current(p)] # Nothing,
         c.created = Recorded(call[p], Current(p)).created,
         c.temp = call[p].temp, c.locks = call[p].locks, c.dirs = call[p].dirs,
         c.committed = call[p].committed, c.failed = call[p].failed,
         \/ c.pc = "undo" /\ call[p].pc = "unlink"
         \/ c.pc \in {"verify", "poll"} /\ c.code = call[p].code
            /\ call[p].pc = "record",
         UNCHANGED <<home, lock, temps>>, swept' = swept
  PROVE  TidyInv'
  <1> DEFINE b == call[p]
             f == Current(p)
  <1>1. /\ b \in Calls /\ f \in Files /\ f = Order[b.at]
        /\ Phased(b) /\ Listed(p, b, lock, temps, file, dir, swept)
    BY AtFile DEF InstallInv, TypeOK, TidyInv, Current
  <1> HIDE DEF f
  <1>2. file[f].id \in Installers \union {Someone}
    BY <1>1 DEF InstallInv, TypeOK, Made, f
  <1> DEFINE e == [file |-> f, id |-> file[f].id]
  <1>3. e \in Journal /\ e.file = f
    BY <1>1, <1>2 DEF Journal
  <1>4. b.created \in Seq(Journal)
    BY <1>1 DEF Calls
  <1>5. c.created = Append(b.created, e)
    BY <1>1 DEF Recorded, Calls, f
  <1> HIDE DEF e
  <1>6. \A g : InJournal(b, g) \/ g = f => InJournal(c, g)
    <2> SUFFICES ASSUME NEW g, InJournal(b, g) \/ g = f
                 PROVE  InJournal(c, g)
      OBVIOUS
    <2>1. CASE g = f
      BY <1>3, <1>4, <1>5, <2>1, AppendKeeps DEF InJournal
    <2>2. CASE InJournal(b, g)
      <3>1. PICK i \in 1..Len(b.created) : b.created[i].file = g
        BY <2>2 DEF InJournal
      <3>2. \E j \in 1..Len(c.created) : c.created[j] = b.created[i]
        BY <1>3, <1>4, <1>5, AppendKeeps
      <3> QED  BY <3>1, <3>2 DEF InJournal
    <2> QED  BY <2>1, <2>2
  <1>7. \A d : InDirs(c, d) = InDirs(b, d)
    BY DEF InDirs
  <1>8. ~Excused(b)
    BY <1>1 DEF Phased, Excused, Early
  <1>9. Phased(c)
    BY <1>1 DEF Phased, Early
  <1>10. Listed(p, c, lock', temps', file', dir', swept')
    BY <1>1, <1>6, <1>7, <1>8 DEF Listed, home
  <1> QED  BY <1>9, <1>10, StillUnhurt, TidyStep DEF Tidy

LEMMA TidyRecord ==
  ASSUME InstallInv, TidyInv, NEW p \in Installers, RecordCreated(p)
  PROVE  TidyInv'
  <1> DEFINE b == call[p]
             r == Recorded(b, Current(p))
  <1>1. /\ b \in Calls /\ b.pc = "record"
        /\ UNCHANGED <<home, lock, temps>> /\ swept' = swept
    BY DEF InstallInv, TypeOK, RecordCreated, At, damage
  <1>2. CASE Fail(p, "rollback")
    BY <1>1, <1>2, StillUnhurt, TidyFail DEF Early
  <1>3. ASSUME file[Current(p)] # Nothing
        PROVE  /\ r \in Calls /\ r.temp = b.temp /\ r.locks = b.locks
               /\ r.dirs = b.dirs /\ r.committed = b.committed
               /\ r.failed = b.failed /\ r.code = b.code
    <2>1. Current(p) \in Files
      BY <1>1, AtFile
    <2>2. r \in Calls
      BY <1>1, <1>3, <2>1, RecordedIsCall DEF Journalled
    <2> QED  BY <1>1, <2>2 DEF Recorded, Calls
  <1>4. CASE /\ file[Current(p)] # Nothing
             /\ Go(p, [r EXCEPT !.pc = "verify", !.at = 1])
    <2> HIDE DEF r
    <2> DEFINE c == [r EXCEPT !.pc = "verify", !.at = 1]
    <2>1. /\ c.pc = "verify" /\ c.code = b.code /\ c.created = r.created
          /\ c.temp = b.temp /\ c.locks = b.locks /\ c.dirs = b.dirs
          /\ c.committed = b.committed /\ c.failed = b.failed
      BY <1>3, <1>4 DEF Calls
    <2>2. Go(p, c)
      BY <1>4
    <2> HIDE DEF c
    <2> QED  BY <1>1, <1>4, <2>1, <2>2, TidyRecorded DEF r
  <1>5. CASE /\ file[Current(p)] # Nothing
             /\ Go(p, [r EXCEPT !.pc = "poll"])
    <2> HIDE DEF r
    <2> DEFINE c == [r EXCEPT !.pc = "poll"]
    <2>1. /\ c.pc = "poll" /\ c.code = b.code /\ c.created = r.created
          /\ c.temp = b.temp /\ c.locks = b.locks /\ c.dirs = b.dirs
          /\ c.committed = b.committed /\ c.failed = b.failed
      BY <1>3, <1>5 DEF Calls
    <2>2. Go(p, c)
      BY <1>5
    <2> HIDE DEF c
    <2> QED  BY <1>1, <1>5, <2>1, <2>2, TidyRecorded DEF r
  <1>6. \/ Fail(p, "rollback")
        \/ /\ file[Current(p)] # Nothing
           /\ \/ Go(p, [r EXCEPT !.pc = "verify", !.at = 1])
              \/ Go(p, [r EXCEPT !.pc = "poll"])
    BY Zenon DEF RecordCreated
  <1> QED  BY <1>2, <1>4, <1>5, <1>6

LEMMA TidyVerify ==
  ASSUME InstallInv, TidyInv, NEW p \in Installers, Verify(p)
  PROVE  TidyInv'
  <1> DEFINE b == call[p]
  <1>1. /\ b \in Calls /\ b.pc = "verify"
        /\ UNCHANGED <<home, lock, temps>> /\ swept' = swept
        /\ Phased(b) /\ Listed(p, b, lock, temps, file, dir, swept)
    BY DEF InstallInv, TypeOK, Verify, At, damage, TidyInv
  <1>2. CASE Fail(p, "data")
    BY <1>1, <1>2, StillUnhurt, TidyFail DEF Early
  <1>3. CASE Go(p, [b EXCEPT !.at = @ + 1])
    <2> DEFINE c == [b EXCEPT !.at = @ + 1]
    <2>1. c.pc = "verify" /\ c.code = b.code /\ SameLists(b, c)
      BY <1>1 DEF Calls, SameLists
    <2>2. Go(p, c)
      BY <1>3
    <2> HIDE DEF c
    <2> QED  BY <1>1, <2>1, <2>2, TidyGo DEF Early
  <1>4. CASE Go(p, [b EXCEPT !.pc = "temps", !.committed = TRUE, !.code = "ok"])
    <2> DEFINE c == [b EXCEPT !.pc = "temps", !.committed = TRUE, !.code = "ok"]
    <2>1. /\ c.pc = "temps" /\ c.code = "ok" /\ c.locks = b.locks
          /\ c.temp = b.temp /\ c.committed = TRUE /\ c.failed = b.failed
      BY <1>1 DEF Calls
    <2>2. Go(p, c)
      BY <1>4
    <2> HIDE DEF c
    <2>3. Phased(c)
      BY <1>1, <2>1 DEF Phased, Early
    <2>4. ~Excused(b)
      BY <1>1 DEF Phased, Excused, Early
    <2>5. Listed(p, c, lock', temps', file', dir', swept')
      BY <1>1, <2>1, <2>4 DEF Listed, home
    <2> QED  BY <1>1, <2>2, <2>3, <2>5, StillUnhurt, TidyStep DEF Tidy
  <1> QED  BY <1>2, <1>3, <1>4 DEF Verify

LEMMA TidyUndoLook ==
  ASSUME InstallInv, TidyInv, NEW p \in Installers, UndoLook(p)
  PROVE  TidyInv'
  <1> DEFINE b == call[p]
  <1>1. /\ b \in Calls /\ b.pc = "undo"
        /\ UNCHANGED <<home, lock, temps>> /\ swept' = swept
        /\ Phased(b) /\ Listed(p, b, lock, temps, file, dir, swept)
    BY DEF InstallInv, TypeOK, UndoLook, At, damage, TidyInv
  <1>2. ASSUME NEW c, Go(p, c), SameLists(b, c), c.code = b.code,
               c.pc = "remove" \/ (c.pc = "temps" /\ b.created = <<>>)
        PROVE  TidyInv'
    <2>1. Phased(c)
      BY <1>1, <1>2 DEF Phased, SameLists, Early
    <2>2. ~Excused(c) => ~Excused(b)
      BY <1>1, <1>2 DEF Excused, SameLists
    <2>3. Listed(p, c, lock', temps', file', dir', swept')
      BY <1>1, <1>2, <2>2, StillListed
    <2> QED  BY <1>1, <1>2, <2>1, <2>3, StillUnhurt, TidyStep DEF Tidy
  <1>3. CASE b.created = <<>> /\ Go(p, [b EXCEPT !.pc = "temps"])
    <2> DEFINE c == [b EXCEPT !.pc = "temps"]
    <2>1. c.pc = "temps" /\ c.code = b.code /\ SameLists(b, c)
      BY <1>1 DEF Calls, SameLists
    <2>2. Go(p, c)
      BY <1>3
    <2> HIDE DEF c
    <2> QED  BY <1>2, <1>3, <2>1, <2>2
  <1>4. CASE Go(p, [b EXCEPT !.pc = "remove", !.swapped = FALSE])
    <2> DEFINE c == [b EXCEPT !.pc = "remove", !.swapped = FALSE]
    <2>1. c.pc = "remove" /\ c.code = b.code /\ SameLists(b, c)
      BY <1>1 DEF Calls, SameLists
    <2>2. Go(p, c)
      BY <1>4
    <2> HIDE DEF c
    <2> QED  BY <1>2, <2>1, <2>2
  <1>5. CASE Go(p, [b EXCEPT !.failed = TRUE, !.created = Front(@)])
    <2> DEFINE s == Front(b.created)
               c == [b EXCEPT !.failed = TRUE, !.created = s]
    <2>1. Go(p, c)
      BY <1>5
    <2> HIDE DEF s
    <2>2. c.pc = "undo" /\ c.failed = TRUE
      BY <1>1 DEF Calls
    <2> HIDE DEF c
    <2>3. Phased(c)
      BY <1>1, <2>2 DEF Phased, Early
    <2>4. Listed(p, c, lock', temps', file', dir', swept')
      BY <2>2 DEF Listed, Excused
    <2> QED  BY <1>1, <2>1, <2>3, <2>4, StillUnhurt, TidyStep DEF Tidy
  <1>6. CASE b.created = <<>>
    BY <1>3, <1>6 DEF UndoLook
  <1>7. CASE b.created # <<>>
    <2>1. \/ Go(p, [b EXCEPT !.pc = "remove", !.swapped = FALSE])
          \/ Go(p, [b EXCEPT !.failed = TRUE, !.created = Front(@)])
      BY <1>7, Zenon DEF UndoLook
    <2> QED  BY <1>4, <1>5, <2>1
  <1> QED  BY <1>6, <1>7

LEMMA TidyUndoRemove ==
  ASSUME InstallInv, TidyInv, NEW p \in Installers, UndoRemove(p)
  PROVE  TidyInv'
  <1> DEFINE b == call[p]
             f == Last(b.created).file
             x == b.failed \/ file[f] = Nothing
             s == Front(b.created)
             c == [b EXCEPT !.pc = "undo", !.created = s, !.failed = x]
  <1>1. /\ b \in Calls /\ b.pc = "remove" /\ b.created # <<>>
        /\ UNCHANGED <<dir, lock, temps>> /\ swept' = swept
        /\ Phased(b) /\ Listed(p, b, lock, temps, file, dir, swept)
        /\ file' = [file EXCEPT ![f] = Nothing]
    BY DEF InstallInv, TypeOK, Placed, UndoRemove, At, damage, TidyInv
  <1>2. Go(p, c)
    BY Zenon DEF UndoRemove
  <1>3. b.created \in Seq(Journal)
    BY <1>1 DEF Calls
  <1>4. f \in Files
    <2>1. Last(b.created) \in Journal
      BY <1>1, <1>3, FrontAndLast
    <2> QED  BY <2>1 DEF Journal
  <1>5. /\ file'[f] = Nothing
        /\ \A g \in Files : g # f => file'[g] = file[g]
    BY <1>1, <1>4 DEF InstallInv, TypeOK
  <1>6. \A g : InJournal(b, g) =>
                 g = f \/ \E j \in 1..Len(s) : s[j].file = g
    <2> SUFFICES ASSUME NEW g, InJournal(b, g)
                 PROVE  g = f \/ \E j \in 1..Len(s) : s[j].file = g
      OBVIOUS
    <2>1. PICK i \in 1..Len(b.created) : b.created[i].file = g
      BY DEF InJournal
    <2>2. \/ b.created[i] = Last(b.created)
          \/ \E j \in 1..Len(s) : s[j] = b.created[i]
      BY <1>1, <1>3, FrontKeeps
    <2> QED  BY <2>1, <2>2
  <1> HIDE DEF s, x, f
  <1>7. /\ c.pc = "undo" /\ c.code = b.code /\ c.locks = b.locks
        /\ c.created = s /\ c.temp = b.temp /\ c.dirs = b.dirs
        /\ c.committed = b.committed /\ c.failed = x
    BY <1>1 DEF Calls
  <1>8. b.failed => x
    BY Zenon DEF x
  <1> HIDE DEF c
  <1>9. Phased(c)
    BY <1>1, <1>7 DEF Phased, Early
  <1>10. ~Excused(c) => ~Excused(b)
    <2>1. c.failed = x /\ c.code = b.code /\ b.pc # "dead"
      BY <1>1, <1>7
    <2> QED  BY <1>8, <2>1, Zenon DEF Excused
  <1>11. /\ \A g : InJournal(b, g) => g = f \/ InJournal(c, g)
         /\ \A d : InDirs(c, d) = InDirs(b, d)
    BY <1>6, <1>7 DEF InJournal, InDirs
  <1>12. Listed(p, c, lock', temps', file', dir', swept')
    BY <1>1, <1>5, <1>7, <1>10, <1>11 DEF Listed
  <1>13. Unhurt(p)
    BY <1>1, <1>5 DEF Unhurt
  <1> QED  BY <1>2, <1>9, <1>12, <1>13, TidyStep DEF Tidy

LEMMA TidyRemoveTemp ==
  ASSUME InstallInv, TidyInv, NEW p \in Installers, RemoveTemp(p)
  PROVE  TidyInv'
  <1> DEFINE b == call[p]
             c == [b EXCEPT !.pc = "unlockcli", !.temp = Nothing]
  <1>1. /\ b \in Calls /\ b.pc = "temps"
        /\ UNCHANGED <<home, lock>> /\ swept' = swept
        /\ temps' = temps \ {<<p, b.temp>>}
        /\ Phased(b) /\ Listed(p, b, lock, temps, file, dir, swept)
    BY DEF InstallInv, TypeOK, RemoveTemp, At, damage, TidyInv
  <1>2. Go(p, c)
    BY DEF RemoveTemp
  <1>3. /\ c.pc = "unlockcli" /\ c.code = b.code /\ c.locks = b.locks
        /\ c.created = b.created /\ c.temp = Nothing /\ c.dirs = b.dirs
        /\ c.committed = b.committed /\ c.failed = b.failed
    BY <1>1 DEF Calls
  <1> HIDE DEF c
  <1>4. Phased(c)
    BY <1>1, <1>3 DEF Phased, Early
  <1>5. ~Excused(c) => ~Excused(b)
    BY <1>1, <1>3 DEF Excused
  <1>6. /\ \A g : InJournal(c, g) = InJournal(b, g)
        /\ \A d : InDirs(c, d) = InDirs(b, d)
    BY <1>3 DEF InJournal, InDirs
  <1>7. Listed(p, c, lock', temps', file', dir', swept')
    BY <1>1, <1>3, <1>5, <1>6 DEF Listed, home
  <1>8. Unhurt(p)
    BY <1>1 DEF Unhurt, home
  <1> QED  BY <1>2, <1>4, <1>7, <1>8, TidyStep DEF Tidy

LEMMA TidyReleaseLock ==
  ASSUME InstallInv, TidyInv, NEW p \in Installers,
         NEW l \in Locks, NEW pc, NEW next,
         \/ l = "cli" /\ pc = "unlockcli" /\ next = "unlockconfig"
         \/ l = "config" /\ pc = "unlockconfig" /\ next = AfterLocks(p),
         ReleaseLock(p, l, pc, next)
  PROVE  TidyInv'
  <1> DEFINE b == call[p]
             x == b.failed \/ (l \in b.locks /\ lock[l] # p)
             c == [b EXCEPT !.pc = next, !.locks = @ \ {l}, !.failed = x]
  <1>1. /\ b \in Calls /\ b.pc = pc
        /\ UNCHANGED <<home, temps>> /\ swept' = swept
        /\ Phased(b) /\ Listed(p, b, lock, temps, file, dir, swept)
    BY DEF InstallInv, TypeOK, ReleaseLock, At, damage, TidyInv
  <1>2. Go(p, c)
    BY Zenon DEF ReleaseLock
  <1>3. IF l \in b.locks /\ lock[l] = p
        THEN lock' = [lock EXCEPT ![l] = Nothing] ELSE lock' = lock
    BY DEF ReleaseLock
  <1>4. /\ \A m \in Locks : m # l => lock'[m] = lock[m]
        /\ lock'[l] = Nothing \/ lock'[l] = lock[l]
        /\ l \in b.locks /\ lock[l] = p => lock'[l] = Nothing
    BY <1>3 DEF InstallInv, TypeOK
  <1> HIDE DEF x
  <1>5. /\ c.pc = next /\ c.code = b.code /\ c.locks = b.locks \ {l}
        /\ c.created = b.created /\ c.temp = b.temp /\ c.dirs = b.dirs
        /\ c.committed = b.committed /\ c.failed = x
    BY <1>1 DEF Calls
  <1>6. b.failed => x
    BY Zenon DEF x
  <1> HIDE DEF c
  <1>7. /\ next \in {"unlockconfig", "rmdirs", "finished"}
        /\ next = "finished" => b.committed
        /\ next = "unlockconfig" => l = "cli"
        /\ next # "unlockconfig" => l = "config" /\ pc = "unlockconfig"
    BY DEF AfterLocks
  <1>8. b.locks \subseteq Locks /\ b.temp = Nothing
    BY <1>1 DEF Calls, Phased
  <1>9. Phased(c)
    BY <1>1, <1>5, <1>7, <1>8 DEF Phased, Early, Locks
  <1>10. ~Excused(c) => ~Excused(b)
    <2>1. c.failed = x /\ c.code = b.code /\ b.pc # "dead"
      BY <1>1, <1>5
    <2> QED  BY <1>6, <2>1, Zenon DEF Excused
  <1>11. /\ \A g : InJournal(c, g) = InJournal(b, g)
         /\ \A d : InDirs(c, d) = InDirs(b, d)
    BY <1>5 DEF InJournal, InDirs
  <1>12. Nothing \notin Installers
    BY InstallAssumption DEF InstallAssumption
  <1>13. Listed(p, c, lock', temps', file', dir', swept')
    BY <1>1, <1>4, <1>5, <1>7, <1>10, <1>11, <1>12 DEF Listed, home
  <1>14. Unhurt(p)
    BY <1>1, <1>4, <1>12 DEF Unhurt, home
  <1> QED  BY <1>2, <1>9, <1>13, <1>14, TidyStep DEF Tidy

LEMMA TidyRemoveDirectory ==
  ASSUME InstallInv, TidyInv, NEW p \in Installers, RemoveDirectory(p)
  PROVE  TidyInv'
  <1> DEFINE b == call[p]
             d == Last(b.dirs)
             s == Front(b.dirs)
  <1>1. /\ b \in Calls /\ b.pc = "rmdirs"
        /\ UNCHANGED <<file, lock, temps>> /\ swept' = swept
        /\ Phased(b) /\ Listed(p, b, lock, temps, file, dir, swept)
    BY DEF InstallInv, TypeOK, RemoveDirectory, At, damage, TidyInv
  <1>2. CASE b.dirs = <<>>
    <2> DEFINE c == [b EXCEPT !.pc = "finished"]
    <2>1. Go(p, c) /\ dir' = dir
      BY <1>2 DEF RemoveDirectory
    <2>2. c.pc = "finished" /\ c.code = b.code /\ SameLists(b, c)
      BY <1>1 DEF Calls, SameLists
    <2> HIDE DEF c
    <2>3. Phased(c)
      BY <1>1, <1>2, <2>2 DEF Phased, SameLists, Early
    <2>4. ~Excused(c) => ~Excused(b)
      BY <1>1, <2>2 DEF Excused, SameLists
    <2>5. Listed(p, c, lock', temps', file', dir', swept')
      BY <1>1, <2>1, <2>2, <2>4, StillListed DEF home
    <2> QED  BY <1>1, <2>1, <2>3, <2>5, StillUnhurt, TidyStep DEF Tidy, home
  <1>3. CASE /\ b.dirs # <<>> /\ dir' = [dir EXCEPT ![d] = Nothing]
             /\ dir[d] = p
             /\ Go(p, [b EXCEPT !.dirs = s])
    <2> DEFINE c == [b EXCEPT !.dirs = s]
    <2>1. Go(p, c)
      BY <1>3
    <2>2. b.dirs \in Seq(Dirs)
      BY <1>1 DEF Calls
    <2>3. d \in Dirs
      BY <1>3, <2>2, FrontAndLast
    <2>4. \A e : InDirs(b, e) => e = d \/ \E j \in 1..Len(s) : s[j] = e
      BY <1>3, <2>2, FrontKeeps DEF InDirs
    <2>5. \A e \in Dirs : dir'[e] = IF e = d THEN Nothing ELSE dir[e]
      BY <1>3, <2>3 DEF InstallInv, TypeOK
    <2> HIDE DEF s, d
    <2>6. /\ c.pc = "rmdirs" /\ c.code = b.code /\ c.locks = b.locks
          /\ c.created = b.created /\ c.temp = b.temp /\ c.dirs = s
          /\ c.committed = b.committed /\ c.failed = b.failed
      BY <1>1 DEF Calls
    <2> HIDE DEF c
    <2>7. Phased(c)
      BY <1>1, <2>6 DEF Phased, Early
    <2>8. ~Excused(c) => ~Excused(b)
      BY <1>1, <2>6 DEF Excused
    <2>9. /\ \A g : InJournal(c, g) = InJournal(b, g)
          /\ \A e : InDirs(b, e) => e = d \/ InDirs(c, e)
      BY <2>4, <2>6 DEF InJournal, InDirs
    <2>10. Nothing \notin Installers
      BY InstallAssumption DEF InstallAssumption
    <2>11. Listed(p, c, lock', temps', file', dir', swept')
      BY <1>1, <2>5, <2>6, <2>8, <2>9, <2>10 DEF Listed
    <2>12. Unhurt(p)
      BY <1>1, <2>5, <2>10 DEF Unhurt
    <2> QED  BY <2>1, <2>7, <2>11, <2>12, TidyStep DEF Tidy
  <1>4. CASE Go(p, [b EXCEPT !.dirs = s, !.failed = TRUE]) /\ dir' = dir
    <2> HIDE DEF s
    <2> DEFINE c == [b EXCEPT !.dirs = s, !.failed = TRUE]
    <2>1. Go(p, c)
      BY <1>4
    <2>2. /\ c.pc = "rmdirs" /\ c.failed = TRUE /\ c.locks = b.locks
          /\ c.temp = b.temp /\ c.created = b.created
          /\ c.committed = b.committed
      BY <1>1 DEF Calls
    <2> HIDE DEF c
    <2>3. Phased(c)
      BY <1>1, <2>2 DEF Phased, Early
    <2>4. Listed(p, c, lock', temps', file', dir', swept')
      BY <2>2 DEF Listed, Excused
    <2> QED  BY <1>1, <1>4, <2>1, <2>3, <2>4, StillUnhurt, TidyStep DEF Tidy, home
  <1>5. CASE b.dirs # <<>>
    <2>1. \/ /\ dir' = [dir EXCEPT ![d] = Nothing] /\ dir[d] = p
             /\ Go(p, [b EXCEPT !.dirs = s])
          \/ Go(p, [b EXCEPT !.dirs = s, !.failed = TRUE]) /\ dir' = dir
      BY <1>5, Zenon DEF RemoveDirectory
    <2> QED  BY <1>3, <1>4, <1>5, <2>1
  <1> QED  BY <1>2, <1>5

LEMMA TidyDone ==
  ASSUME InstallInv, TidyInv, NEW p \in Installers, NEW code, Done(p, code),
         call[p].pc = "finished",
         code # "rollback" => ~call[p].failed /\ call[p].code # "rollback",
         UNCHANGED <<home, lock, temps>>, swept' = swept
  PROVE  TidyInv'
  <1> DEFINE b == call[p]
             c == [Fresh EXCEPT !.pc = "done", !.ver = b.ver,
                                !.committed = b.committed, !.code = code]
  <1>1. /\ b \in Calls
        /\ Phased(b) /\ Listed(p, b, lock, temps, file, dir, swept)
    BY DEF InstallInv, TypeOK, TidyInv
  <1>2. Go(p, c)
    BY Zenon DEF Done
  <1>3. /\ c.pc = "done" /\ c.code = code /\ c.locks = {} /\ c.created = <<>>
        /\ c.failed = FALSE
        /\ c.temp = Nothing /\ c.dirs = <<>> /\ c.committed = b.committed
    BY DEF Fresh
  <1> HIDE DEF c
  <1>4. Phased(c)
    BY <1>3 DEF Phased, Early
  <1>5. Listed(p, c, lock', temps', file', dir', swept')
    <2> SUFFICES ASSUME ~Excused(c) PROVE Listed(p, c, lock, temps, file, dir, swept)
      BY DEF Listed, home
    <2>1. ~Excused(b)
      BY <1>3 DEF Excused
    <2>2. /\ b.locks = {} /\ b.temp = Nothing
          /\ b.dirs = <<>> \/ b.committed
          /\ b.created = <<>> \/ b.committed
      BY <1>1 DEF Phased
    <2>3. /\ b.created = <<>> => \A g : ~InJournal(b, g)
          /\ b.dirs = <<>> => \A d : ~InDirs(b, d)
      BY DEF InJournal, InDirs
    <2> QED  BY <1>1, <1>3, <2>1, <2>2, <2>3 DEF Listed
  <1> QED  BY <1>2, <1>4, <1>5, StillUnhurt, TidyStep DEF Tidy

LEMMA TidyFinish ==
  ASSUME InstallInv, TidyInv, NEW p \in Installers, Finish(p)
  PROVE  TidyInv'
  <1>1. /\ call[p].pc = "finished"
        /\ UNCHANGED <<home, lock, temps>> /\ swept' = swept
    BY DEF Finish, At, damage
  <1>2. CASE call[p].failed
    <2>1. Done(p, "rollback")
      BY <1>2, Zenon DEF Finish
    <2> QED  BY <1>1, <2>1, TidyDone
  <1>3. CASE ~call[p].failed
    <2>1. Done(p, call[p].code)
      BY <1>3, Zenon DEF Finish
    <2> QED  BY <1>1, <1>3, <2>1, TidyDone
  <1> QED  BY <1>2, <1>3

(* The published file whose temporary one stays.                           *)
LEMMA TidyClaim ==
  ASSUME InstallInv, TidyInv, NEW p \in Installers, call[p].pc = "unlink",
         ClaimPublished(p), UNCHANGED <<home, lock, temps>>, swept' = swept
  PROVE  TidyInv'
  <1> DEFINE b == call[p]
             f == Current(p)
             r == Recorded(b, f)
  <1>1. /\ b \in Calls /\ f \in Files /\ f = Order[b.at]
        /\ Phased(b) /\ Listed(p, b, lock, temps, file, dir, swept)
    BY AtFile DEF InstallInv, TypeOK, TidyInv, Current
  <1>2. CASE Fail(p, "rollback")
    BY <1>2, StillUnhurt, TidyFail DEF Early
  <1>3. CASE /\ file[f] = Whole(p)
             /\ Go(p, [r EXCEPT !.pc = "undo", !.code = "cantcreate"])
    <2>1. file[f] # Nothing
      <3>1. Whole(p) \in Made
        BY <1>1 DEF Whole, Made, Calls
      <3> QED  BY <1>3, <3>1, InstallAssumption DEF InstallAssumption
    <2>2. r \in Calls
      BY <1>1, <2>1, RecordedIsCall DEF Journalled
    <2>3. /\ r.temp = b.temp /\ r.locks = b.locks /\ r.dirs = b.dirs
          /\ r.committed = b.committed /\ r.failed = b.failed
      BY <1>1, <2>2 DEF Recorded, Calls
    <2> HIDE DEF r
    <2> DEFINE c == [r EXCEPT !.pc = "undo", !.code = "cantcreate"]
    <2>4. /\ c.pc = "undo" /\ c.created = r.created
          /\ c.temp = b.temp /\ c.locks = b.locks /\ c.dirs = b.dirs
          /\ c.committed = b.committed /\ c.failed = b.failed
      BY <2>2, <2>3 DEF Calls
    <2>5. Go(p, c)
      BY <1>3
    <2> HIDE DEF c
    <2> QED  BY <2>1, <2>4, <2>5, TidyRecorded DEF r
  <1>4. CASE /\ file[f] = Nothing \/ file[f].id # p
             /\ Fail(p, "cantcreate")
    <2> DEFINE c == [b EXCEPT !.pc = "undo", !.code = "cantcreate"]
    <2>1. c.pc = "undo" /\ SameLists(b, c)
      BY <1>1 DEF Calls, SameLists
    <2>2. Go(p, c)
      BY <1>4 DEF Fail
    <2> HIDE DEF c
    <2>3. Phased(c)
      BY <1>1, <2>1 DEF Phased, SameLists, Early
    <2>4. ~Excused(b)
      BY <1>1 DEF Phased, Excused, Early
    <2>5. /\ \A g : InJournal(c, g) = InJournal(b, g)
          /\ \A d : InDirs(c, d) = InDirs(b, d)
      BY <2>1 DEF InJournal, InDirs, SameLists
    <2>6. Listed(p, c, lock', temps', file', dir', swept')
      BY <1>1, <1>4, <2>1, <2>4, <2>5 DEF Listed, SameLists, home
    <2> QED  BY <2>2, <2>3, <2>6, StillUnhurt, TidyStep DEF Tidy
  <1>5. CASE file[f] = Whole(p)
    BY <1>3, <1>5 DEF ClaimPublished
  <1>6. CASE file[f] # Whole(p) /\ file[f] # Nothing /\ file[f].id = p
    BY <1>2, <1>6 DEF ClaimPublished
  <1>7. CASE file[f] # Whole(p) /\ (file[f] = Nothing \/ file[f].id # p)
    BY <1>4, <1>7 DEF ClaimPublished
  <1> QED  BY <1>5, <1>6, <1>7

LEMMA TidyLoseLock ==
  ASSUME InstallInv, TidyInv, NEW p \in Installers, NEW l \in Locks,
         NEW pc \in {"lockconfig", "lockcli"}, LoseLock(p, l, pc),
         swept' = swept
  PROVE  TidyInv'
  <1>1. /\ call[p].pc \in Early /\ Fail(p, "rollback")
        /\ UNCHANGED <<home, temps>> /\ lock' = [lock EXCEPT ![l] = p]
    BY DEF LoseLock, At, Early
  <1>2. \A m \in Locks : lock'[m] = p \/ lock'[m] = lock[m]
    BY <1>1 DEF InstallInv, TypeOK
  <1>3. Unhurt(p)
    BY <1>1, <1>2 DEF Unhurt, home
  <1> QED  BY <1>1, <1>3, TidyFail

LEMMA TidyLoseDirectory ==
  ASSUME InstallInv, TidyInv, NEW p \in Installers, LoseDirectory(p),
         swept' = swept
  PROVE  TidyInv'
  <1>1. /\ call[p].pc \in Early /\ Fail(p, "rollback")
        /\ UNCHANGED <<file, lock, temps>>
        /\ \E d : dir' = [dir EXCEPT ![d] = p]
    BY DEF LoseDirectory, Early
  <1>2. \A e \in Dirs : dir'[e] = p \/ dir'[e] = dir[e]
    BY <1>1 DEF InstallInv, TypeOK
  <1>3. Unhurt(p)
    BY <1>1, <1>2 DEF Unhurt
  <1> QED  BY <1>1, <1>3, TidyFail

(* A step of finish() that fails is noted.                                 *)
LEMMA TidyNoted ==
  ASSUME InstallInv, TidyInv, NEW p \in Installers, NEW c, Go(p, c),
         c.failed = TRUE, Phased(c), UNCHANGED <<home, lock, temps>>,
         swept' = swept
  PROVE  TidyInv'
  <1>1. Listed(p, c, lock', temps', file', dir', swept')
    BY DEF Listed, Excused
  <1> QED  BY <1>1, StillUnhurt, TidyStep DEF Tidy

LEMMA TidySkip ==
  ASSUME InstallInv, TidyInv, NEW p \in Installers, SkipRemoval(p),
         swept' = swept
  PROVE  TidyInv'
  <1> DEFINE a == call[p]
             b == [a EXCEPT !.failed = TRUE]
  <1>1. UNCHANGED <<home, lock, temps>> /\ a \in Calls /\ Phased(a)
    BY DEF SkipRemoval, InstallInv, TypeOK, TidyInv
  <1>2. \/ /\ b.pc \in {"undo", "remove"}
           /\ Go(p, [b EXCEPT !.pc = "undo", !.created = Front(@)])
        \/ /\ b.pc = "temps"
           /\ Go(p, [b EXCEPT !.pc = "unlockcli", !.temp = Nothing])
        \/ /\ b.pc = "unlockcli"
           /\ Go(p, [b EXCEPT !.pc = "unlockconfig", !.locks = @ \ {"cli"}])
        \/ /\ b.pc = "unlockconfig"
           /\ Go(p, [b EXCEPT !.pc = AfterLocks(p), !.locks = @ \ {"config"}])
        \/ /\ b.pc = "rmdirs"
           /\ Go(p, [b EXCEPT !.dirs = Front(@)])
        \/ /\ b.pc = "finished"
           /\ \/ Done(p, "rollback")
              \/ b.code = "ok" /\ ~a.failed /\ Done(p, "unavailable")
    BY Zenon DEF SkipRemoval
  <1>3. /\ b \in Calls /\ b.pc = a.pc /\ b.code = a.code /\ b.failed = TRUE
        /\ b.created = a.created /\ b.temp = a.temp /\ b.locks = a.locks
        /\ b.dirs = a.dirs /\ b.committed = a.committed
    BY <1>1 DEF Calls
  <1> HIDE DEF b
  <1>4. CASE /\ b.pc \in {"undo", "remove"}
             /\ Go(p, [b EXCEPT !.pc = "undo", !.created = Front(@)])
    <2> DEFINE s == Front(b.created)
               c == [b EXCEPT !.pc = "undo", !.created = s]
    <2>1. Go(p, c)
      BY <1>4
    <2> HIDE DEF s
    <2>2. c.pc = "undo" /\ c.failed = TRUE
      BY <1>3 DEF Calls
    <2> HIDE DEF c
    <2>3. Phased(c)
      BY <2>2 DEF Phased, Early
    <2> QED  BY <1>1, <2>1, <2>2, <2>3, TidyNoted
  <1>5. CASE /\ b.pc = "temps"
             /\ Go(p, [b EXCEPT !.pc = "unlockcli", !.temp = Nothing])
    <2> DEFINE c == [b EXCEPT !.pc = "unlockcli", !.temp = Nothing]
    <2>1. /\ c.pc = "unlockcli" /\ c.failed = TRUE /\ c.temp = Nothing
          /\ c.created = a.created /\ c.committed = a.committed
      BY <1>3 DEF Calls
    <2>2. Go(p, c)
      BY <1>5
    <2> HIDE DEF c
    <2>3. Phased(c)
      BY <1>1, <1>3, <1>5, <2>1 DEF Phased, Early
    <2> QED  BY <1>1, <2>1, <2>2, <2>3, TidyNoted
  <1>6. ASSUME NEW c, NEW l, Go(p, c), c.failed = TRUE, c.temp = a.temp,
               c.locks = a.locks \ {l}, c.created = a.created,
               c.committed = a.committed,
               \/ b.pc = "unlockcli" /\ c.pc = "unlockconfig" /\ l = "cli"
               \/ /\ b.pc = "unlockconfig" /\ c.pc = AfterLocks(p)
                  /\ l = "config"
        PROVE  TidyInv'
    <2>1. AfterLocks(p) = "rmdirs" \/ (AfterLocks(p) = "finished" /\ a.committed)
      BY DEF AfterLocks
    <2>2. a.locks \subseteq Locks
      BY <1>1 DEF Calls
    <2>3. Phased(c)
      BY <1>1, <1>3, <1>6, <2>1, <2>2 DEF Phased, Early, Locks
    <2> QED  BY <1>1, <1>6, <2>3, TidyNoted
  <1>7. CASE b.pc = "rmdirs" /\ Go(p, [b EXCEPT !.dirs = Front(@)])
    <2> DEFINE s == Front(b.dirs)
               c == [b EXCEPT !.dirs = s]
    <2>1. Go(p, c)
      BY <1>7
    <2> HIDE DEF s
    <2>2. /\ c.pc = "rmdirs" /\ c.failed = TRUE /\ c.temp = a.temp
          /\ c.locks = a.locks
          /\ c.created = a.created /\ c.committed = a.committed
      BY <1>3, <1>7 DEF Calls
    <2> HIDE DEF c
    <2>3. Phased(c)
      BY <1>1, <1>3, <1>7, <2>2 DEF Phased, Early
    <2> QED  BY <1>1, <2>1, <2>2, <2>3, TidyNoted
  <1>8. CASE /\ b.pc = "finished"
             /\ \/ Done(p, "rollback")
                \/ b.code = "ok" /\ ~a.failed /\ Done(p, "unavailable")
    BY <1>1, <1>3, <1>8, TidyDone
  <1>9. CASE /\ b.pc = "unlockcli"
             /\ Go(p, [b EXCEPT !.pc = "unlockconfig", !.locks = @ \ {"cli"}])
    <2> DEFINE c == [b EXCEPT !.pc = "unlockconfig", !.locks = @ \ {"cli"}]
    <2>1. /\ c.failed = TRUE /\ c.temp = a.temp /\ c.created = a.created
          /\ c.locks = a.locks \ {"cli"} /\ c.committed = a.committed
          /\ c.pc = "unlockconfig"
      BY <1>3 DEF Calls
    <2>2. Go(p, c)
      BY <1>9
    <2> HIDE DEF c
    <2> QED  BY <1>6, <1>9, <2>1, <2>2
  <1>10. CASE /\ b.pc = "unlockconfig"
              /\ Go(p, [b EXCEPT !.pc = AfterLocks(p),
                                 !.locks = @ \ {"config"}])
    <2> DEFINE pc == AfterLocks(p)
               c  == [b EXCEPT !.pc = pc, !.locks = @ \ {"config"}]
    <2>1. Go(p, c) /\ pc = AfterLocks(p)
      BY <1>10
    <2> HIDE DEF pc
    <2>2. /\ c.failed = TRUE /\ c.temp = a.temp /\ c.created = a.created
          /\ c.locks = a.locks \ {"config"} /\ c.committed = a.committed
          /\ c.pc = pc
      BY <1>3 DEF Calls
    <2> HIDE DEF c
    <2> QED  BY <1>6, <1>10, <2>1, <2>2
  <1> QED  BY <1>2, <1>4, <1>5, <1>7, <1>8, <1>9, <1>10, Zenon

LEMMA TidyIOFailure ==
  ASSUME InstallInv, TidyInv, NEW p \in Installers, IOFailure(p)
  PROVE  TidyInv'
  <1>1. swept' = swept
    BY DEF IOFailure
  <1>2. CASE /\ \E code \in FaultCodes(p) : Fail(p, code)
             /\ UNCHANGED <<home, lock, temps>>
    <2>1. PICK code \in FaultCodes(p) : Fail(p, code)
      BY <1>2
    <2>2. /\ call[p].pc \in Early /\ call[p].pc # "unlink"
          /\ call[p].pc = "record" => code = "rollback"
      BY <2>1 DEF FaultCodes, Early
    <2> QED  BY <1>1, <1>2, <2>1, <2>2, StillUnhurt, TidyFail
  <1>3. CASE /\ At(p, "unlink") /\ ClaimPublished(p)
             /\ UNCHANGED <<home, lock, temps>>
    BY <1>1, <1>3, TidyClaim DEF At
  <1>4. CASE \/ LoseLock(p, "config", "lockconfig")
             \/ LoseLock(p, "cli", "lockcli")
    BY <1>1, <1>4, TidyLoseLock DEF Locks
  <1>5. CASE LoseDirectory(p)
    BY <1>1, <1>5, TidyLoseDirectory
  <1>6. CASE SkipRemoval(p)
    BY <1>1, <1>6, TidySkip
  <1> QED  BY <1>2, <1>3, <1>4, <1>5, <1>6 DEF IOFailure

(* Nobody can say of a dead invocation what it left.                       *)
LEMMA TidyCrash ==
  ASSUME InstallInv, TidyInv, NEW p \in Installers, Crash(p)
  PROVE  TidyInv'
  <1> DEFINE c == [Fresh EXCEPT !.pc = "dead", !.committed = call[p].committed,
                                !.ver = call[p].ver]
  <1>1. UNCHANGED <<home, lock, temps>> /\ swept' = swept
    BY DEF Crash
  <1>2. Go(p, c)
    BY Zenon DEF Crash
  <1>3. c.pc = "dead" /\ c.temp = Nothing
    BY DEF Fresh
  <1> HIDE DEF c
  <1>4. Phased(c)
    BY <1>3 DEF Phased, Early
  <1>5. Listed(p, c, lock', temps', file', dir', swept')
    BY <1>3 DEF Listed, Excused
  <1> QED  BY <1>1, <1>2, <1>4, <1>5, StillUnhurt, TidyStep DEF Tidy

LEMMA TidyInterrupt ==
  ASSUME InstallInv, TidyInv, NEW p \in Installers, Interrupt(p)
  PROVE  TidyInv'
  <1>1. /\ call[p].pc = "poll" /\ Fail(p, "interrupted")
        /\ UNCHANGED <<home, lock, temps>> /\ swept' = swept
    BY DEF Interrupt, At, damage
  <1> QED  BY <1>1, StillUnhurt, TidyFail DEF Early

(* People make nothing in the name of an invocation.                       *)
LEMMA TidyOthers ==
  ASSUME InstallInv, TidyInv, dir' = dir, swept => swept',
         \A l \in Locks, p \in Installers : lock'[l] = p => lock[l] = p,
         temps' \subseteq temps, temps' = temps \/ swept',
         \A f \in Files, p \in Installers :
           file'[f] # Nothing /\ file'[f].id = p
             => file[f] # Nothing /\ file[f].id = p,
         \A p \in Installers :
           \/ call'[p] = call[p]
           \/ /\ call[p].pc = "remove"
              /\ call'[p] = [call[p] EXCEPT !.swapped = TRUE]
  PROVE  TidyInv'
  <1> SUFFICES ASSUME NEW p \in Installers
               PROVE  /\ Phased(call'[p])
                      /\ Listed(p, call'[p], lock', temps', file', dir', swept')
    BY DEF TidyInv
  <1> DEFINE b == call[p]
             c == call'[p]
  <1>1. b \in Calls /\ Phased(b) /\ Listed(p, b, lock, temps, file, dir, swept)
    BY DEF InstallInv, TypeOK, TidyInv
  <1>2. CASE c = b
    <2>1. b.pc = "unlink" => swept' \/ <<p, Order[b.at]>> \in temps' \/ Excused(b)
      BY <1>1 DEF Listed
    <2> QED  BY <1>1, <1>2, <2>1 DEF Listed
  <1>3. CASE b.pc = "remove" /\ c = [b EXCEPT !.swapped = TRUE]
    <2>1. c.pc = "remove" /\ c.code = b.code /\ SameLists(b, c)
      BY <1>1, <1>3 DEF Calls, SameLists
    <2> HIDE DEF c
    <2>2. Phased(c)
      BY <2>1 DEF Phased, Early
    <2>3. ~Excused(c) => ~Excused(b)
      BY <1>3, <2>1 DEF Excused, SameLists
    <2>4. /\ \A g : InJournal(c, g) = InJournal(b, g)
          /\ \A d : InDirs(c, d) = InDirs(b, d)
      BY <2>1 DEF InJournal, InDirs, SameLists
    <2>5. Listed(p, c, lock', temps', file', dir', swept')
      BY <1>1, <1>3, <2>1, <2>3, <2>4 DEF Listed, SameLists
    <2> QED  BY <2>2, <2>5 DEF c
  <1> QED  BY <1>2, <1>3

LEMMA TidyPeople ==
  ASSUME InstallInv, TidyInv,
         \/ \E l \in Locks : ClearOrphan(l)
         \/ \E f \in Files : Edit(f)
         \/ SweepTemp
  PROVE  TidyInv'
  <1> USE InstallAssumption DEF InstallAssumption
  <1>1. ASSUME NEW l \in Locks, ClearOrphan(l)
        PROVE  TidyInv'
    <2>1. /\ lock' = [lock EXCEPT ![l] = Nothing]
          /\ UNCHANGED <<file, dir, temps, call, swept>>
      BY <1>1 DEF ClearOrphan, home, damage
    <2>2. \A m \in Locks, p \in Installers : lock'[m] = p => lock[m] = p
      BY <2>1 DEF InstallInv, TypeOK
    <2> QED  BY <2>1, <2>2, TidyOthers
  <1>2. ASSUME NEW f \in Files, Edit(f)
        PROVE  TidyInv'
    <2>1. UNCHANGED <<dir, lock, temps, swept>>
      BY <1>2 DEF Edit
    <2>2. PICK x : /\ x # Nothing => \/ x.id = Someone
                                     \/ file[f] # Nothing /\ x.id = file[f].id
                   /\ file' = [file EXCEPT ![f] = x]
      BY <1>2 DEF Edit
    <2>3. \A g \in Files : file'[g] = IF g = f THEN x ELSE file[g]
      BY <2>2 DEF InstallInv, TypeOK
    <2>4. \A g \in Files, p \in Installers :
            file'[g] # Nothing /\ file'[g].id = p
              => file[g] # Nothing /\ file[g].id = p
      BY <2>2, <2>3
    <2>5. \A p \in Installers :
            \/ call'[p] = call[p]
            \/ /\ call[p].pc = "remove"
               /\ call'[p] = [call[p] EXCEPT !.swapped = TRUE]
      BY <1>2 DEF Edit, At
    <2> QED  BY <2>1, <2>4, <2>5, TidyOthers
  <1>3. CASE SweepTemp
    <2>1. /\ UNCHANGED <<file, dir, lock, call>> /\ swept'
          /\ temps' \subseteq temps
      BY <1>3 DEF SweepTemp, home
    <2> QED  BY <2>1, TidyOthers
  <1> QED  BY <1>1, <1>2, <1>3

LEMMA TidyInit == Init => TidyInv
  <1> SUFFICES ASSUME Init, NEW p \in Installers
               PROVE  /\ Phased(call[p])
                      /\ Listed(p, call[p], lock, temps, file, dir, swept)
    BY DEF TidyInv
  <1> USE InstallAssumption DEF InstallAssumption
  <1>1. call[p] = Fresh
    BY DEF Init
  <1>2. Phased(Fresh)
    BY DEF Phased, Fresh, Early
  <1>3. /\ \A l \in Locks : lock[l] # p
        /\ temps = {}
    BY DEF Init
  <1>4. /\ \A f \in Files : file[f] # Nothing => file[f].id = Someone
        /\ \A d \in Dirs : dir[d] # p
    <2>1. /\ file \in [Files -> Theirs \union {Nothing}]
          /\ dir \in [Dirs -> {Someone, Nothing}]
      BY DEF Init
    <2> QED  BY <2>1 DEF Theirs
  <1>5. Fresh.pc = "idle"
    BY DEF Fresh
  <1> QED  BY <1>1, <1>2, <1>3, <1>4, <1>5 DEF Listed

LEMMA TidyInvStep == InstallInv /\ TidyInv /\ [Next]_vars => TidyInv'
  <1> SUFFICES ASSUME InstallInv, TidyInv, [Next]_vars PROVE TidyInv'
    OBVIOUS
  <1>1. ASSUME NEW p \in Installers, Step(p) PROVE TidyInv'
    <2>1. CASE \/ Classify(p, "scan", "lockconfig")
               \/ Classify(p, "rescan", "sources")
      BY <2>1, TidyClassify
    <2>2. CASE LockConfig(p) \/ LockCli(p)
      BY <2>2, TidyMakeLock DEF LockConfig, LockCli
    <2>3. CASE \/ EnsureDirectory(p, Cli, "lockdirs", "lockcli")
               \/ EnsureDirectory(p, Current(p), "ensure", "stage")
      BY <2>3, TidyEnsure
    <2>4. CASE CheckSources(p) \/ Poll(p)
      <3>1. CASE /\ call[p].pc \in {"sources", "poll"}
                 /\ \E i : PublishNext(p, i)
                 /\ UNCHANGED <<home, lock, temps>> /\ swept' = swept
        BY <3>1, TidyPublishNext
      <3>2. CASE /\ call[p].pc = "sources" /\ Fail(p, "data")
                 /\ UNCHANGED <<home, lock, temps>> /\ swept' = swept
        BY <3>2, StillUnhurt, TidyFail DEF Early
      <3> QED  BY <2>4, <3>1, <3>2 DEF CheckSources, Poll, At, damage
    <2>5. CASE StageTemp(p) \/ Link(p) \/ Unlink(p) \/ RecordCreated(p)
      BY <2>5, TidyStageTemp, TidyLink, TidyUnlink, TidyRecord
    <2>6. CASE Verify(p) \/ UndoLook(p) \/ UndoRemove(p) \/ RemoveTemp(p)
      BY <2>6, TidyVerify, TidyUndoLook, TidyUndoRemove, TidyRemoveTemp
    <2>7. CASE UnlockCli(p) \/ UnlockConfig(p)
      BY <2>7, TidyReleaseLock DEF UnlockCli, UnlockConfig, Locks
    <2>8. CASE RemoveDirectory(p) \/ Finish(p)
      BY <2>8, TidyRemoveDirectory, TidyFinish
    <2> QED  BY <1>1, <2>1, <2>2, <2>3, <2>4, <2>5, <2>6, <2>7, <2>8 DEF Step
  <1>2. ASSUME NEW p \in Installers,
               Begin(p) \/ Interrupt(p) \/ IOFailure(p) \/ Crash(p)
        PROVE  TidyInv'
    BY <1>2, TidyBegin, TidyInterrupt, TidyIOFailure, TidyCrash
  <1>3. CASE \/ \E l \in Locks : ClearOrphan(l)
             \/ \E f \in Files : Edit(f)
             \/ SweepTemp
    BY <1>3, TidyPeople
  <1>4. CASE UNCHANGED vars
    <2>1. UNCHANGED <<file, dir, lock, temps, call, swept>>
      BY <1>4 DEF vars, home, damage
    <2> QED  BY <2>1, TidyOthers
  <1> QED  BY <1>1, <1>2, <1>3, <1>4 DEF Next

(* An invocation that ends otherwise than with rollback_failed leaves no   *)
(* lock and no temporary file, and unless its installation stands, nothing *)
(* it made: finish() has emptied every list, and everything was in one.    *)
THEOREM FailuresCleanUp == Spec => []LeavesNothing
  <1>1. InstallInv /\ TidyInv => LeavesNothing
    <2> SUFFICES ASSUME InstallInv, TidyInv, NEW p \in Installers,
                        call[p].pc = "done", call[p].code # "rollback", ~swept
                 PROVE  /\ \A l \in Locks : lock[l] # p
                        /\ \A t \in temps : t[1] # p
                        /\ call[p].committed
                           \/ /\ \A f \in Files :
                                   file[f] # Nothing => file[f].id # p
                              /\ \A d \in Dirs : dir[d] # p
      BY DEF LeavesNothing, At
    <2> DEFINE c == call[p]
    <2>1. /\ c.locks = {} /\ c.temp = Nothing /\ ~Excused(c)
          /\ c.dirs = <<>> \/ c.committed
          /\ c.created = <<>> \/ c.committed
      BY DEF TidyInv, Phased, Excused
    <2>2. /\ c.created = <<>> => \A g : ~InJournal(c, g)
          /\ c.dirs = <<>> => \A d : ~InDirs(c, d)
      BY DEF InJournal, InDirs
    <2>3. /\ \A l \in Locks : lock[l] = p => l \in c.locks
          /\ \A f \in Files : <<p, f>> \in temps => c.temp = f
          /\ c.committed
             \/ \A f \in Files : file[f] # Nothing /\ file[f].id = p
                                   => InJournal(c, f)
          /\ c.committed \/ \A d \in Dirs : dir[d] = p => InDirs(c, d)
      BY <2>1 DEF TidyInv, Listed
    <2>4. \A t \in temps : t[1] # p
      <3> SUFFICES ASSUME NEW t \in temps, t[1] = p PROVE FALSE
        OBVIOUS
      <3>1. t[2] \in Files /\ t = <<p, t[2]>>
        BY DEF InstallInv, TypeOK
      <3>2. Nothing \notin Files
        BY InstallAssumption DEF InstallAssumption
      <3> QED  BY <2>1, <2>3, <3>1, <3>2
    <2> QED  BY <2>1, <2>2, <2>3, <2>4
  <1>2. Spec => [](InstallInv /\ TidyInv)
    BY InstallInvInit, InstallInvStep, TidyInit, TidyInvStep, PTL DEF Spec
  <1> QED  BY <1>1, <1>2, PTL

-----------------------------------------------------------------------------
(* Files of others.                                                        *)

(* What the last look has seen is still there, unless somebody put another *)
(* file there since.                                                       *)
Poised ==
  \A p \in Installers : At(p, "remove") /\ ~call[p].swapped =>
    LET f == Last(call[p].created).file IN
    file[f] # Nothing /\ file[f].ver = call[p].ver

(* A step of p that does not make it ready to remove a file.               *)
Unready(p) == \E c : Go(p, c) /\ c.pc # "remove"

LEMMA UnreadyForward ==
  ASSUME InstallInv, NEW p \in Installers,
         \/ Classify(p, "scan", "lockconfig") \/ Classify(p, "rescan", "sources")
         \/ LockConfig(p) \/ LockCli(p)
         \/ EnsureDirectory(p, Cli, "lockdirs", "lockcli")
         \/ EnsureDirectory(p, Current(p), "ensure", "stage")
         \/ CheckSources(p) \/ StageTemp(p) \/ Link(p) \/ Unlink(p)
         \/ RecordCreated(p) \/ Poll(p) \/ Verify(p) \/ Begin(p) \/ Interrupt(p)
  PROVE  Unready(p)
  <1> DEFINE b == call[p]
  <1>1. b \in Calls
    BY DEF InstallInv, TypeOK
  <1>2. \A code : Fail(p, code) => Unready(p)
    <2> SUFFICES ASSUME NEW code, Fail(p, code) PROVE Unready(p)
      OBVIOUS
    <2> DEFINE c == [b EXCEPT !.pc = "undo", !.code = code]
    <2>1. c.pc = "undo"
      BY <1>1 DEF Calls
    <2>2. Go(p, c)
      BY DEF Fail
    <2> HIDE DEF c
    <2> QED  BY <2>1, <2>2 DEF Unready
  <1>3. \A c : Go(p, c) /\ c.pc # "remove" => Unready(p)
    BY DEF Unready
  <1>4. \A pc, next : Classify(p, pc, next) /\ pc # "remove" /\ next # "remove"
                        => Unready(p)
    BY <1>1, <1>2, <1>3 DEF Classify, At, Calls
  <1>5. CASE LockConfig(p) \/ LockCli(p)
    BY <1>1, <1>2, <1>3, <1>5 DEF LockConfig, LockCli, MakeLock, At, Calls
  <1>6. \A f, pc, next : EnsureDirectory(p, f, pc, next) /\ pc # "remove"
                           /\ next # "remove" => Unready(p)
    BY <1>1, <1>2, <1>3 DEF EnsureDirectory, At, Calls
  <1>7. CASE CheckSources(p) \/ Poll(p)
    BY <1>1, <1>2, <1>3, <1>7 DEF CheckSources, Poll, PublishNext, At, Calls
  <1>8. CASE StageTemp(p) \/ Link(p) \/ Unlink(p)
    BY <1>1, <1>2, <1>3, <1>8 DEF StageTemp, Link, Unlink, At, Calls
  <1>9. CASE RecordCreated(p)
    BY <1>1, <1>2, <1>3, <1>9 DEF RecordCreated, Recorded, At, Calls
  <1>10. CASE Verify(p)
    BY <1>1, <1>2, <1>3, <1>10 DEF Verify, At, Calls
  <1>11. CASE Begin(p) \/ Interrupt(p)
    BY <1>1, <1>2, <1>3, <1>11 DEF Begin, Interrupt, At, Fresh
  <1> QED  BY <1>4, <1>5, <1>6, <1>7, <1>8, <1>9, <1>10, <1>11

LEMMA UnreadyBack ==
  ASSUME InstallInv, NEW p \in Installers,
         \/ UndoRemove(p) \/ RemoveTemp(p) \/ UnlockCli(p) \/ UnlockConfig(p)
         \/ RemoveDirectory(p) \/ Finish(p) \/ IOFailure(p) \/ Crash(p)
  PROVE  Unready(p)
  <1> DEFINE b == call[p]
  <1>1. b \in Calls
    BY DEF InstallInv, TypeOK
  <1>0. \A c : Go(p, c) /\ c.pc # "remove" => Unready(p)
    BY DEF Unready
  <1>2. CASE UndoRemove(p)
    BY <1>0, <1>1, <1>2 DEF UndoRemove, At, Calls
  <1>3. CASE RemoveTemp(p)
    BY <1>0, <1>1, <1>3 DEF RemoveTemp, At, Calls
  <1>4. CASE UnlockCli(p) \/ UnlockConfig(p)
    BY <1>0, <1>1, <1>4 DEF UnlockCli, UnlockConfig, ReleaseLock, AfterLocks,
                           Calls
  <1>5. CASE RemoveDirectory(p)
    BY <1>0, <1>1, <1>5 DEF RemoveDirectory, At, Calls
  <1>6. \A code : Done(p, code) => Unready(p)
    BY <1>0 DEF Done, Fresh
  <1>7. CASE Finish(p)
    BY <1>6, <1>7 DEF Finish
  <1>8. CASE Crash(p)
    BY <1>0, <1>8 DEF Crash, Fresh
  <1>9. \A code : Fail(p, code) => Unready(p)
    <2> SUFFICES ASSUME NEW code, Fail(p, code) PROVE Unready(p)
      OBVIOUS
    <2> DEFINE c == [b EXCEPT !.pc = "undo", !.code = code]
    <2>1. c.pc = "undo"
      BY <1>1 DEF Calls
    <2>2. Go(p, c)
      BY DEF Fail
    <2> HIDE DEF c
    <2> QED  BY <2>1, <2>2 DEF Unready
  <1>10. CASE IOFailure(p)
    <2>1. CASE SkipRemoval(p)
      BY <1>0, <1>1, <1>6, <2>1 DEF SkipRemoval, Calls, AfterLocks
    <2>2. CASE ClaimPublished(p)
      <3>1. CASE file[Current(p)] = Whole(p)
        BY <1>0, <1>1, <2>2, <3>1 DEF ClaimPublished, Recorded, Calls
      <3>2. CASE file[Current(p)] # Whole(p)
        BY <1>9, <2>2, <3>2 DEF ClaimPublished
      <3> QED  BY <3>1, <3>2
    <2> QED  BY <1>9, <1>10, <2>1, <2>2 DEF IOFailure, LoseLock, LoseDirectory
  <1> QED  BY <1>2, <1>3, <1>4, <1>5, <1>7, <1>8, <1>10

(* Who moves, and who writes.                                              *)
LEMMA Movers ==
  ASSUME InstallInv, [Next]_vars
  PROVE  \/ \E p \in Installers : UndoLook(p)
         \/ \E p \in Installers : /\ Unready(p)
                                  /\ file' = file \/ Link(p) \/ UndoRemove(p)
         \/ \E f \in Files : Edit(f)
         \/ call' = call /\ file' = file
  <1>1. ASSUME NEW p \in Installers,
               Begin(p) \/ Step(p) \/ Interrupt(p) \/ IOFailure(p) \/ Crash(p)
        PROVE  UndoLook(p) \/ Unready(p)
    BY <1>1, UnreadyForward, UnreadyBack DEF Step
  <1>2. CASE \E l \in Locks : ClearOrphan(l)
    BY <1>2 DEF ClearOrphan, home
  <1>3. CASE SweepTemp \/ UNCHANGED vars
    BY <1>3 DEF SweepTemp, vars, home
  <1> QED  BY <1>1, <1>2, <1>3, WritingSteps DEF Next

LEMMA PoisedStep == InstallInv /\ Poised /\ [Next]_vars => Poised'
  <1> SUFFICES ASSUME InstallInv, Poised, [Next]_vars, NEW q \in Installers,
                      call'[q].pc = "remove", ~call'[q].swapped
               PROVE  LET f == Last(call'[q].created).file IN
                      file'[f] # Nothing /\ file'[f].ver = call'[q].ver
    BY DEF Poised, At
  <1> DEFINE b == call[q]
  <1>1. b \in Calls /\ call \in [Installers -> Calls]
    BY DEF InstallInv, TypeOK
  <1>2. call'[q] = b => /\ b.locks = Locks
                        /\ LET f == Last(b.created).file IN
                           file[f] # Nothing /\ file[f].ver = b.ver
    BY DEF Poised, At, InstallInv, Placed
  <1>3. ASSUME NEW p \in Installers, UndoLook(p)
        PROVE  LET f == Last(call'[q].created).file IN
               file'[f] # Nothing /\ file'[f].ver = call'[q].ver
    <2>1. file' = file
      BY <1>3 DEF UndoLook, home
    <2>2. CASE p # q
      <3>1. call'[q] = b
        BY <1>1, <1>3, <2>2 DEF UndoLook, Go
      <3> QED  BY <1>2, <2>1, <3>1
    <2>3. CASE p = q
      <3> DEFINE made == Last(b.created)
                 c == [b EXCEPT !.pc = "remove", !.swapped = FALSE]
      <3>1. b.pc = "undo"
        BY <1>3, <2>3 DEF UndoLook, At
      <3>2. /\ b.created # <<>> /\ Go(q, c)
            /\ file[made.file] = [id |-> made.id, ver |-> b.ver]
        <4>1. CASE Go(q, [b EXCEPT !.pc = "temps"])
          <5>1. call'[q].pc = "temps"
            BY <1>1, <4>1 DEF Go, Calls
          <5> QED  BY <5>1
        <4>2. CASE Go(q, [b EXCEPT !.failed = TRUE, !.created = Front(@)])
          <5> DEFINE s == Front(b.created)
          <5>1. Go(q, [b EXCEPT !.failed = TRUE, !.created = s])
            BY <4>2
          <5> HIDE DEF s
          <5>2. call'[q].pc = "undo"
            BY <1>1, <3>1, <5>1 DEF Go, Calls
          <5> QED  BY <5>2
        <4> QED  BY <1>3, <2>3, <4>1, <4>2, Zenon DEF UndoLook
      <3>3. b.created \in Seq(Journal)
        BY <1>1 DEF Calls
      <3>4. made \in Journal
        BY <3>2, <3>3, FrontAndLast
      <3> HIDE DEF made
      <3>5. [id |-> made.id, ver |-> b.ver] \in Made
        BY <1>1, <3>4 DEF Made, Journal, Calls
      <3>6. file[made.file] # Nothing /\ file[made.file].ver = b.ver
        BY <3>2, <3>5, InstallAssumption DEF InstallAssumption
      <3>7. call'[q] = c
        BY <1>1, <3>2 DEF Go
      <3>8. c.created = b.created /\ c.ver = b.ver
        BY <1>1 DEF Calls
      <3> HIDE DEF c
      <3> QED  BY <2>1, <3>6, <3>7, <3>8 DEF made
    <2> QED  BY <2>2, <2>3
  <1>4. ASSUME NEW p \in Installers, Unready(p),
               file' = file \/ Link(p) \/ UndoRemove(p)
        PROVE  LET f == Last(call'[q].created).file IN
               file'[f] # Nothing /\ file'[f].ver = call'[q].ver
    <2>1. p # q /\ call'[q] = b
      BY <1>1, <1>4 DEF Unready, Go
    <2>2. Link(p) \/ UndoRemove(p) => call[p].locks = Locks
      BY DEF Link, UndoRemove, At, InstallInv, Placed
    <2>3. file' = file
      BY <1>2, <1>4, <2>1, <2>2, Exclusion
    <2> QED  BY <1>2, <2>1, <2>3
  <1>5. ASSUME NEW f \in Files, Edit(f)
        PROVE  LET g == Last(call'[q].created).file IN
               file'[g] # Nothing /\ file'[g].ver = call'[q].ver
    <2>1. call'[q] = IF b.pc = "remove" /\ Last(b.created).file = f
                     THEN [b EXCEPT !.swapped = TRUE] ELSE b
      BY <1>5 DEF Edit, At
    <2>2. [b EXCEPT !.swapped = TRUE].swapped
      BY <1>1 DEF Calls
    <2>3. call'[q] = b /\ ~(b.pc = "remove" /\ Last(b.created).file = f)
      BY <2>1, <2>2
    <2>4. b.created \in Seq(Journal) /\ b.created # <<>> /\ b.pc = "remove"
      BY <1>1, <2>3 DEF Calls, InstallInv, Placed
    <2>5. Last(b.created) \in Journal
      BY <2>4, FrontAndLast
    <2>6. Last(b.created).file \in Files /\ Last(b.created).file # f
      BY <2>3, <2>4, <2>5 DEF Journal
    <2>7. \A g \in Files : g # f => file'[g] = file[g]
      BY <1>5 DEF Edit, InstallInv, TypeOK
    <2> QED  BY <1>2, <2>3, <2>6, <2>7
  <1>6. CASE call' = call /\ file' = file
    BY <1>2, <1>6
  <1> QED  BY <1>3, <1>4, <1>5, <1>6, Movers

(* No invocation overwrites a managed file, and it removes one only with   *)
(* the content it published, or one put there since it looked.             *)
THEOREM OthersFilesStay == Spec => OthersFilesKept
  <1>1. ASSUME InstallInv, Poised, [Next]_vars, NEW f \in Files,
               file[f] # Nothing, file'[f] # file[f], edits' = edits
        PROVE  /\ file'[f] = Nothing
               /\ \E p \in Installers :
                    /\ At(p, "remove") /\ ~At(p, "remove")'
                    /\ file[f].ver = call[p].ver \/ call[p].swapped
    <2>1. PICK p \in Installers : Link(p) \/ UndoRemove(p)
      <3>1. file' # file
        BY <1>1
      <3> QED  BY <1>1, <3>1, Writers
    <2>2. ~Link(p)
      <3> SUFFICES ASSUME Link(p) PROVE FALSE
        OBVIOUS
      <3>1. \/ file' = file
            \/ /\ file[Current(p)] = Nothing
               /\ file' = [file EXCEPT ![Current(p)] = Whole(p)]
        BY DEF Link
      <3>2. file'[f] = file[f]
        BY <1>1, <3>1 DEF InstallInv, TypeOK
      <3> QED  BY <1>1, <3>2
    <2>3. UndoRemove(p)
      BY <2>1, <2>2
    <2>4. /\ call[p].pc = "remove"
          /\ file' = [file EXCEPT ![Last(call[p].created).file] = Nothing]
      BY <2>3 DEF UndoRemove, At
    <2>5. f = Last(call[p].created).file /\ file'[f] = Nothing
      BY <1>1, <2>4 DEF InstallInv, TypeOK
    <2>6. call'[p].pc # "remove"
      <3>1. Unready(p)
        BY <1>1, <2>3, UnreadyBack
      <3>2. call \in [Installers -> Calls]
        BY <1>1 DEF InstallInv, TypeOK
      <3> QED  BY <3>1, <3>2 DEF Unready, Go
    <2>7. file[f].ver = call[p].ver \/ call[p].swapped
      BY <1>1, <2>4, <2>5 DEF Poised, At
    <2> QED  BY <2>4, <2>5, <2>6, <2>7 DEF At
  <1>2. InstallInv /\ Poised /\ [Next]_vars =>
          [\A f \in Files :
             file[f] # Nothing /\ file'[f] # file[f] /\ edits' = edits =>
               /\ file'[f] = Nothing
               /\ \E p \in Installers :
                    /\ At(p, "remove") /\ ~At(p, "remove")'
                    /\ file[f].ver = call[p].ver \/ call[p].swapped]_vars
    BY <1>1
  <1>3. Init => Poised
    BY DEF Init, Poised, At, Fresh
  <1>4. Spec => [](InstallInv /\ Poised)
    BY <1>3, InstallInvInit, InstallInvStep, PoisedStep, PTL DEF Spec
  <1> QED  BY <1>2, <1>4, PTL DEF Spec, OthersFilesKept

-----------------------------------------------------------------------------
(* Every invocation ends.  How far it is: the part of the installation it  *)
(* is in; within a part, the files, journal entries or directories it has  *)
(* still to go through; and within a file, the directories above it and    *)
(* the steps that follow.                                                  *)

Publishing == {"ensure", "stage", "link", "unlink", "record", "poll"}

Part(pc) ==
  CASE pc = "scan"                -> 14
    [] pc = "lockconfig"          -> 13
    [] pc = "lockdirs"            -> 12
    [] pc = "lockcli"             -> 11
    [] pc = "rescan"              -> 10
    [] pc = "sources"             -> 9
    [] pc \in Publishing          -> 8
    [] pc = "verify"              -> 7
    [] pc \in {"undo", "remove"}  -> 6
    [] pc = "temps"               -> 5
    [] pc = "unlockcli"           -> 4
    [] pc = "unlockconfig"        -> 3
    [] pc = "rmdirs"              -> 2
    [] pc = "finished"            -> 1
    [] pc \in {"idle", "done", "dead"} -> 0

FileByFile == {"scan", "rescan", "verify"} \union Publishing

Left(c) ==
  CASE c.pc \in FileByFile -> Len(Order) + 1 - c.at
    [] c.pc = "undo"       -> 2 * Len(c.created) + 1
    [] c.pc = "remove"     -> 2 * Len(c.created)
    [] c.pc = "rmdirs"     -> Len(c.dirs)
    [] OTHER               -> 0

ToEnsure(path, depth) ==
  IF depth > Len(path) THEN 0 ELSE Len(path) + 1 - depth

Within(c) ==
  CASE c.pc = "lockdirs" -> ToEnsure(Path[Cli], c.depth)
    [] c.pc = "ensure"   -> 5 + ToEnsure(Path[Order[c.at]], c.depth)
    [] c.pc = "stage"    -> 4
    [] c.pc = "link"     -> 3
    [] c.pc = "unlink"   -> 2
    [] c.pc = "record"   -> 1
    [] OTHER             -> 0

Measure(c) == <<<<Part(c.pc), Left(c)>>, Within(c)>>

Smaller  == OpToRel(<, Nat)
Pairs    == Nat \X Nat
Measures == Pairs \X Nat
Below    == LexPairOrdering(LexPairOrdering(Smaller, Smaller, Nat, Nat),
                            Smaller, Pairs, Nat)

(* What a running invocation does or suffers.                              *)
Goes(p) == Running(p) /\ (Step(p) \/ Interrupt(p) \/ IOFailure(p) \/ Crash(p))

(* Every step of an invocation takes its measure down, failing ones and    *)
(* those that take files back too, and no step of anybody else changes it. *)
RunsDown ==
  \A p \in Installers :
    /\ Goes(p) => <<Measure(call'[p]), Measure(call[p])>> \in Below
    /\ Running(p) /\ ~Goes(p) => Measure(call'[p]) = Measure(call[p])

(* There is no way down without an end.                                    *)
LEMMA BelowIsWellFounded == IsWellFoundedOn(Below, Measures)
  <1>1. IsWellFoundedOn(Smaller, Nat)
    BY NatLessThanWellFounded DEF Smaller
  <1>2. IsWellFoundedOn(LexPairOrdering(Smaller, Smaller, Nat, Nat), Pairs)
    BY <1>1, WFLexPairOrdering DEF Pairs
  <1> QED  BY <1>1, <1>2, WFLexPairOrdering DEF Below, Measures

Sooner(c, b) ==
  \/ Part(c.pc) < Part(b.pc)
  \/ /\ Part(c.pc) = Part(b.pc)
     /\ \/ Left(c) < Left(b)
        \/ Left(c) = Left(b) /\ Within(c) < Within(b)

LEMMA CallNumbers ==
  ASSUME NEW c \in Calls
  PROVE  /\ c.pc \in Pcs
         /\ Len(Order) \in Nat
         /\ c.at \in Nat /\ 1 <= c.at /\ c.at <= Len(Order) + 1
         /\ c.depth \in Nat
         /\ c.created \in Seq(Journal) /\ Len(c.created) \in Nat
         /\ c.dirs \in Seq(Dirs) /\ Len(c.dirs) \in Nat
  <1>1. /\ c.pc \in Pcs /\ c.at \in 1..Len(Order) + 1
        /\ c.depth \in Nat \ {0}
        /\ c.created \in Seq(Journal) /\ c.dirs \in Seq(Dirs)
    BY DEF Calls
  <1> QED  BY <1>1, OrderFacts

LEMMA EnsureNumbers ==
  ASSUME NEW path \in Seq(Dirs), NEW depth \in Nat
  PROVE  /\ ToEnsure(path, depth) \in Nat
         /\ depth <= Len(path)
              => ToEnsure(path, depth + 1) < ToEnsure(path, depth)
  <1>1. Len(path) \in Nat
    OBVIOUS
  <1> QED  BY <1>1 DEF ToEnsure

LEMMA PathsAbove ==
  /\ Path[Cli] \in Seq(Dirs)
  /\ \A i \in 1..Len(Order) : Path[Order[i]] \in Seq(Dirs)
  BY InstallAssumption, OrderFacts DEF InstallAssumption

LEMMA PartNumber ==
  ASSUME NEW pc \in Pcs
  PROVE  /\ Part(pc) \in Nat
         /\ pc \notin {"idle", "done", "dead"} => Part(pc) > 0
  <1>1. Part(pc) \in Nat
    BY DEF Part, Pcs, Finishing, Publishing
  <1>2. pc \notin {"idle", "done", "dead"} => Part(pc) > 0
    BY DEF Part, Pcs, Finishing, Publishing
  <1> QED  BY <1>1, <1>2

LEMMA MeasureTyped ==
  ASSUME NEW c \in Calls, Placed(c)
  PROVE  /\ Part(c.pc) \in Nat /\ Left(c) \in Nat /\ Within(c) \in Nat
         /\ Measure(c) \in Measures
  <1>0. /\ c.pc \in Pcs /\ Len(Order) \in Nat
        /\ c.at \in Nat /\ 1 <= c.at /\ c.at <= Len(Order) + 1
        /\ c.depth \in Nat
        /\ Len(c.created) \in Nat /\ Len(c.dirs) \in Nat
    BY CallNumbers
  <1>1. Part(c.pc) \in Nat
    BY <1>0, PartNumber
  <1>2. Left(c) \in Nat
    BY <1>0 DEF Left
  <1>3. Within(c) \in Nat
    <2>1. CASE c.pc = "lockdirs"
      BY <1>0, <2>1, PathsAbove, EnsureNumbers DEF Within
    <2>2. CASE c.pc = "ensure"
      <3>1. c.at \in 1..Len(Order)
        BY <1>0, <2>2 DEF Placed
      <3>2. ToEnsure(Path[Order[c.at]], c.depth) \in Nat
        BY <1>0, <3>1, PathsAbove, EnsureNumbers
      <3> QED  BY <2>2, <3>2 DEF Within
    <2>3. CASE c.pc \notin {"lockdirs", "ensure"}
      BY <2>3 DEF Within
    <2> QED  BY <2>1, <2>2, <2>3
  <1> QED  BY <1>1, <1>2, <1>3 DEF Measure, Measures, Pairs

LEMMA SoonerIsBelow ==
  ASSUME NEW b \in Calls, NEW c \in Calls, Placed(b), Placed(c), Sooner(c, b)
  PROVE  <<Measure(c), Measure(b)>> \in Below
  <1> DEFINE i == Part(c.pc)  j == Left(c)  k == Within(c)
             l == Part(b.pc)  m == Left(b)  n == Within(b)
  <1>1. i \in Nat /\ j \in Nat /\ k \in Nat /\ l \in Nat /\ m \in Nat /\ n \in Nat
    BY MeasureTyped
  <1>2. i < l \/ (i = l /\ (j < m \/ (j = m /\ k < n)))
    BY DEF Sooner
  <1> HIDE DEF i, j, k, l, m, n
  <1>3. \A x, y \in Nat : x < y => <<x, y>> \in Smaller
    BY DEF Smaller, OpToRel
  <1>4. i < l \/ (i = l /\ j < m)
          => <<<<i, j>>, <<l, m>>>> \in LexPairOrdering(Smaller, Smaller, Nat, Nat)
    BY <1>1, <1>3 DEF LexPairOrdering
  <1>5. <<<<<<i, j>>, k>>, <<<<l, m>>, n>>>> \in Below
    <2>1. CASE i < l \/ (i = l /\ j < m)
      BY <1>1, <1>4, <2>1 DEF Below, LexPairOrdering, Pairs
    <2>2. CASE i = l /\ j = m /\ k < n
      BY <1>1, <1>3, <2>2 DEF Below, LexPairOrdering, Pairs
    <2> QED  BY <1>2, <2>1, <2>2
  <1> QED  BY <1>5 DEF Measure, i, j, k, l, m, n

(* A step of p that takes it further.                                      *)
Lowers(p) == \E c : Go(p, c) /\ Sooner(c, call[p])

LEMMA PartLowers ==
  ASSUME NEW p, NEW c, Go(p, c), Part(c.pc) < Part(call[p].pc)
  PROVE  Lowers(p)
  BY DEF Lowers, Sooner

LEMMA PartValues ==
  /\ Part("scan") = 14 /\ Part("lockconfig") = 13 /\ Part("lockdirs") = 12
  /\ Part("lockcli") = 11 /\ Part("rescan") = 10 /\ Part("sources") = 9
  /\ \A pc \in Publishing : Part(pc) = 8
  /\ Part("verify") = 7
  /\ Part("undo") = 6 /\ Part("remove") = 6
  /\ Part("temps") = 5 /\ Part("unlockcli") = 4 /\ Part("unlockconfig") = 3
  /\ Part("rmdirs") = 2 /\ Part("finished") = 1
  /\ Part("done") = 0 /\ Part("dead") = 0
  <1>1. \A pc \in Publishing : Part(pc) = 8
    <2> SUFFICES ASSUME NEW pc \in Publishing
                 PROVE  Part(pc) = 8
      OBVIOUS
    <2>1. pc = "ensure" \/ pc = "stage" \/ pc = "link" \/ pc = "unlink"
            \/ pc = "record" \/ pc = "poll"
      BY DEF Publishing
    <2> QED  BY <2>1 DEF Part, Publishing
  <1>2. /\ Part("scan") = 14 /\ Part("lockconfig") = 13
        /\ Part("lockdirs") = 12
    BY DEF Part, Publishing
  <1>3. /\ Part("lockcli") = 11 /\ Part("rescan") = 10
        /\ Part("sources") = 9
    BY DEF Part, Publishing
  <1>4. Part("verify") = 7 /\ Part("undo") = 6 /\ Part("remove") = 6
    BY DEF Part, Publishing
  <1>5. /\ Part("temps") = 5 /\ Part("unlockcli") = 4
        /\ Part("unlockconfig") = 3
    BY DEF Part, Publishing
  <1>6. /\ Part("rmdirs") = 2 /\ Part("finished") = 1
        /\ Part("done") = 0 /\ Part("dead") = 0
    BY DEF Part, Publishing
  <1> QED  BY <1>1, <1>2, <1>3, <1>4, <1>5, <1>6

LEMMA LeftValues ==
  ASSUME NEW c
  PROVE  /\ c.pc \in FileByFile => Left(c) = Len(Order) + 1 - c.at
         /\ c.pc = "undo"   => Left(c) = 2 * Len(c.created) + 1
         /\ c.pc = "remove" => Left(c) = 2 * Len(c.created)
         /\ c.pc = "rmdirs" => Left(c) = Len(c.dirs)
         /\ c.pc = "lockdirs" => Left(c) = 0
  <1>1. c.pc \in FileByFile => Left(c) = Len(Order) + 1 - c.at
    <2> SUFFICES ASSUME c.pc \in FileByFile
                 PROVE  Left(c) = Len(Order) + 1 - c.at
      OBVIOUS
    <2>1. c.pc # "undo" /\ c.pc # "remove" /\ c.pc # "rmdirs"
      BY DEF FileByFile, Publishing
    <2> QED  BY <2>1 DEF Left
  <1>2. c.pc = "undo" => Left(c) = 2 * Len(c.created) + 1
    BY DEF Left, FileByFile, Publishing
  <1>3. c.pc = "remove" => Left(c) = 2 * Len(c.created)
    BY DEF Left, FileByFile, Publishing
  <1>4. c.pc = "rmdirs" => Left(c) = Len(c.dirs)
    BY DEF Left, FileByFile, Publishing
  <1>5. c.pc = "lockdirs" => Left(c) = 0
    BY DEF Left, FileByFile, Publishing
  <1> QED  BY <1>1, <1>2, <1>3, <1>4, <1>5

LEMMA FailLowers ==
  ASSUME InstallInv, NEW p \in Installers, NEW code, Fail(p, code),
         call[p].pc \in Early \ {"idle"}
  PROVE  Lowers(p)
  <1> DEFINE c == [call[p] EXCEPT !.pc = "undo", !.code = code]
  <1>1. c.pc = "undo"
    BY DEF InstallInv, TypeOK, Calls
  <1>2. Go(p, c)
    BY DEF Fail
  <1> HIDE DEF c
  <1>3. Part(c.pc) < Part(call[p].pc)
    BY <1>1 DEF Part, Early, Publishing
  <1> QED  BY <1>2, <1>3, PartLowers

(* On to another file of the same pass.                                    *)
LEMMA FileLowers ==
  ASSUME InstallInv, NEW p \in Installers, NEW c, Go(p, c),
         \/ c.pc = call[p].pc /\ c.pc \in FileByFile
         \/ c.pc \in Publishing /\ call[p].pc \in Publishing,
         c.at \in Nat, c.at > call[p].at
  PROVE  Lowers(p)
  <1>1. Len(Order) \in Nat /\ call[p].at \in Nat
    BY CallNumbers DEF InstallInv, TypeOK
  <1>2. Part(c.pc) = Part(call[p].pc)
    BY PartValues
  <1>3. /\ Left(c) = Len(Order) + 1 - c.at
        /\ Left(call[p]) = Len(Order) + 1 - call[p].at
    <2>1. c.pc \in FileByFile /\ call[p].pc \in FileByFile
      BY DEF FileByFile
    <2> QED  BY <2>1, LeftValues
  <1> QED  BY <1>1, <1>2, <1>3 DEF Lowers, Sooner

(* On with the same file.                                                  *)
LEMMA WithinLowers ==
  ASSUME NEW p, NEW c, Go(p, c),
         c.pc \in Publishing, call[p].pc \in Publishing,
         c.at = call[p].at, Within(c) < Within(call[p])
  PROVE  Lowers(p)
  <1>1. Part(c.pc) = Part(call[p].pc)
    BY PartValues
  <1>2. c.pc \in FileByFile /\ call[p].pc \in FileByFile
    BY DEF FileByFile
  <1>3. Left(c) = Left(call[p])
    <2>1. /\ Left(c) = Len(Order) + 1 - c.at
          /\ Left(call[p]) = Len(Order) + 1 - call[p].at
      BY <1>2, LeftValues
    <2> QED  BY <2>1
  <1> QED  BY <1>1, <1>3 DEF Lowers, Sooner

LEMMA ClassifyLowers ==
  ASSUME InstallInv, NEW p \in Installers,
         \/ Classify(p, "scan", "lockconfig")
         \/ Classify(p, "rescan", "sources")
  PROVE  Lowers(p)
  <1> DEFINE b == call[p]
  <1>0. /\ b \in Calls /\ b.at \in Nat
        /\ b.pc \in {"scan", "rescan"}
    BY CallNumbers DEF InstallInv, TypeOK, Classify, At
  <1>1. ASSUME NEW next \in {"lockconfig", "sources"},
               Go(p, [b EXCEPT !.pc = next, !.at = 1, !.depth = 1]),
               next = IF b.pc = "scan" THEN "lockconfig" ELSE "sources"
        PROVE  Lowers(p)
    <2> DEFINE c == [b EXCEPT !.pc = next, !.at = 1, !.depth = 1]
    <2>1. c.pc = next
      BY <1>0 DEF Calls
    <2> HIDE DEF c
    <2>2. Part(c.pc) < Part(b.pc)
      BY <1>0, <1>1, <2>1 DEF Part, Publishing
    <2> QED  BY <1>1, <2>2, PartLowers DEF c
  <1>2. ASSUME NEW c, Go(p, c), c.pc = b.pc, c.at = b.at + 1
        PROVE  Lowers(p)
    BY <1>0, <1>2, FileLowers DEF FileByFile
  <1>3. /\ [b EXCEPT !.at = @ + 1].pc = b.pc
        /\ [b EXCEPT !.at = @ + 1].at = b.at + 1
    BY <1>0 DEF Calls
  <1>4. ASSUME NEW f
        PROVE  LET c == [b EXCEPT !.at = @ + 1, !.absent = @ \union {f}]
               IN  c.pc = b.pc /\ c.at = b.at + 1
    BY <1>0 DEF Calls
  <1>5. \A code : Fail(p, code) => Lowers(p)
    BY <1>0, FailLowers DEF Early
  <1>6. \/ \E next \in {"lockconfig", "sources"} :
             /\ Go(p, [b EXCEPT !.pc = next, !.at = 1, !.depth = 1])
             /\ next = IF b.pc = "scan" THEN "lockconfig" ELSE "sources"
        \/ \E f : Go(p, [b EXCEPT !.at = @ + 1, !.absent = @ \union {f}])
        \/ Go(p, [b EXCEPT !.at = @ + 1])
        \/ Fail(p, "cantcreate")
    BY DEF Classify, At
  <1> QED  BY <1>1, <1>2, <1>3, <1>4, <1>5, <1>6

LEMMA LockingLowers ==
  ASSUME InstallInv, NEW p \in Installers, LockConfig(p) \/ LockCli(p)
  PROVE  Lowers(p)
  <1> DEFINE b == call[p]
             c(next, l) == [b EXCEPT !.pc = next, !.at = 1, !.depth = 1,
                                     !.absent = {}, !.locks = @ \union {l}]
  <1>0. b \in Calls
    BY DEF InstallInv, TypeOK
  <1>1. \A next, l : c(next, l).pc = next
    BY <1>0 DEF Calls
  <1>2. \/ b.pc = "lockconfig" /\ Go(p, c("lockdirs", "config"))
        \/ b.pc = "lockcli" /\ Go(p, c("rescan", "cli"))
        \/ b.pc \in {"lockconfig", "lockcli"} /\ Fail(p, "locked")
    BY DEF LockConfig, LockCli, MakeLock, At
  <1> HIDE DEF c
  <1>3. /\ Part("lockdirs") < Part("lockconfig")
        /\ Part("rescan") < Part("lockcli")
    BY PartValues
  <1>4. b.pc = "lockconfig" /\ Go(p, c("lockdirs", "config")) => Lowers(p)
    BY <1>1, <1>3, PartLowers
  <1>5. b.pc = "lockcli" /\ Go(p, c("rescan", "cli")) => Lowers(p)
    BY <1>1, <1>3, PartLowers
  <1>6. b.pc \in {"lockconfig", "lockcli"} /\ Fail(p, "locked") => Lowers(p)
    BY FailLowers DEF Early
  <1> QED  BY <1>2, <1>4, <1>5, <1>6

LEMMA EnsureLowers ==
  ASSUME InstallInv, NEW p \in Installers,
         \/ EnsureDirectory(p, Cli, "lockdirs", "lockcli")
         \/ EnsureDirectory(p, Current(p), "ensure", "stage")
  PROVE  Lowers(p)
  <1> DEFINE b == call[p]
  <1>0. /\ b \in Calls /\ b.depth \in Nat /\ b.at \in Nat /\ 1 <= b.at
        /\ b.pc \in {"lockdirs", "ensure"}
        /\ b.pc = "ensure" => b.at \in 1..Len(Order)
    BY CallNumbers DEF InstallInv, TypeOK, EnsureDirectory, At, Placed
  <1> DEFINE path == IF b.pc = "lockdirs" THEN Path[Cli] ELSE Path[Order[b.at]]
             next == IF b.pc = "lockdirs" THEN "lockcli" ELSE "stage"
  <1>1. path \in Seq(Dirs) /\ Len(path) \in Nat
    BY <1>0, PathsAbove
  <1>2. \/ Go(p, [b EXCEPT !.pc = next])
        \/ /\ b.depth <= Len(path)
           /\ \/ Go(p, [b EXCEPT !.depth = @ + 1])
              \/ \E d : Go(p, [b EXCEPT !.depth = @ + 1, !.dirs = Append(@, d)])
        \/ Fail(p, "cantcreate")
    <2>1. CASE EnsureDirectory(p, Cli, "lockdirs", "lockcli")
      <3>1. path = Path[Cli] /\ next = "lockcli"
        BY <2>1 DEF EnsureDirectory, At
      <3>2. \/ Go(p, [b EXCEPT !.pc = next])
            \/ /\ ~(b.depth > Len(path))
               /\ \/ Go(p, [b EXCEPT !.depth = @ + 1])
                  \/ \E d : Go(p, [b EXCEPT !.depth = @ + 1,
                                            !.dirs = Append(@, d)])
                  \/ Fail(p, "cantcreate")
        BY <2>1, <3>1, Zenon DEF EnsureDirectory
      <3> HIDE DEF path, next
      <3>3. ~(b.depth > Len(path)) => b.depth <= Len(path)
        BY <1>0, <1>1
      <3> QED  BY <3>2, <3>3, Zenon
    <2>2. CASE EnsureDirectory(p, Current(p), "ensure", "stage")
      <3>1. path = Path[Current(p)] /\ next = "stage"
        BY <2>2 DEF EnsureDirectory, At, Current
      <3>2. \/ Go(p, [b EXCEPT !.pc = next])
            \/ /\ ~(b.depth > Len(path))
               /\ \/ Go(p, [b EXCEPT !.depth = @ + 1])
                  \/ \E d : Go(p, [b EXCEPT !.depth = @ + 1,
                                            !.dirs = Append(@, d)])
                  \/ Fail(p, "cantcreate")
        BY <2>2, <3>1, Zenon DEF EnsureDirectory
      <3> HIDE DEF path, next
      <3>3. ~(b.depth > Len(path)) => b.depth <= Len(path)
        BY <1>0, <1>1
      <3> QED  BY <3>2, <3>3, Zenon
    <2> QED  BY <2>1, <2>2
  <1>3. Within(b) = IF b.pc = "lockdirs" THEN ToEnsure(path, b.depth)
                                         ELSE 5 + ToEnsure(path, b.depth)
    BY <1>0 DEF Within
  <1>4. ToEnsure(path, b.depth) \in Nat
    BY <1>0, <1>1, EnsureNumbers
  <1>5. ASSUME NEW c, Go(p, c), c.pc = b.pc, c.at = b.at,
               c.depth = b.depth + 1, b.depth <= Len(path)
        PROVE  Lowers(p)
    <2>1. /\ Part(c.pc) = Part(b.pc) /\ Left(c) = Left(b)
      <3>1. c.pc = "lockdirs" => Left(c) = Left(b)
        BY <1>5, LeftValues
      <3>2. c.pc = "ensure" => Left(c) = Left(b)
        <4>1. "ensure" \in FileByFile
          BY DEF FileByFile, Publishing
        <4>2. c.pc = "ensure" =>
                /\ Left(c) = Len(Order) + 1 - b.at
                /\ Left(b) = Len(Order) + 1 - b.at
          BY <1>5, <4>1, LeftValues
        <4> QED  BY <4>2
      <3> QED  BY <1>0, <1>5, <3>1, <3>2
    <2>2. Within(c) = IF b.pc = "lockdirs" THEN ToEnsure(path, b.depth + 1)
                                           ELSE 5 + ToEnsure(path, b.depth + 1)
      BY <1>0, <1>5 DEF Within
    <2> HIDE DEF path
    <2>3. /\ ToEnsure(path, b.depth + 1) \in Nat
          /\ ToEnsure(path, b.depth + 1) < ToEnsure(path, b.depth)
      <3>1. b.depth + 1 \in Nat
        BY <1>0
      <3> QED  BY <1>0, <1>1, <1>5, <3>1, EnsureNumbers
    <2>4. Within(c) < Within(b)
      BY <1>0, <1>3, <1>4, <2>2, <2>3
    <2> QED  BY <1>5, <2>1, <2>4 DEF Lowers, Sooner
  <1>6. CASE Go(p, [b EXCEPT !.pc = next])
    <2> DEFINE c == [b EXCEPT !.pc = next]
    <2>1. c.pc = next /\ c.at = b.at
      BY <1>0 DEF Calls
    <2>2. Go(p, c)
      BY <1>6
    <2> HIDE DEF c
    <2>3. CASE b.pc = "lockdirs"
      <3>1. c.pc = "lockcli"
        BY <2>1, <2>3
      <3>2. Part(c.pc) < Part(b.pc)
        BY <2>3, <3>1, PartValues
      <3> QED  BY <2>2, <3>2, PartLowers
    <2>4. CASE b.pc = "ensure"
      <3>1. c.pc = "stage"
        BY <2>1, <2>4
      <3>2. Within(c) = 4 /\ Within(b) = 5 + ToEnsure(path, b.depth)
        BY <1>3, <2>4, <3>1 DEF Within
      <3> HIDE DEF path
      <3>3. Within(c) < Within(b)
        BY <1>4, <3>2
      <3> QED  BY <2>1, <2>2, <2>4, <3>1, <3>3, WithinLowers DEF Publishing
    <2> QED  BY <1>0, <2>3, <2>4
  <1>7. CASE Fail(p, "cantcreate")
    BY <1>0, <1>7, FailLowers DEF Early
  <1>8. LET c == [b EXCEPT !.depth = @ + 1]
        IN  c.pc = b.pc /\ c.at = b.at /\ c.depth = b.depth + 1
    BY <1>0 DEF Calls
  <1>9. ASSUME NEW d
        PROVE  LET c == [b EXCEPT !.depth = @ + 1, !.dirs = Append(@, d)]
               IN  c.pc = b.pc /\ c.at = b.at /\ c.depth = b.depth + 1
    BY <1>0 DEF Calls
  <1> HIDE DEF path, next
  <1> QED  BY <1>2, <1>5, <1>6, <1>7, <1>8, <1>9

LEMMA NextLowers ==
  ASSUME InstallInv, NEW p \in Installers,
         CheckSources(p) \/ Poll(p) \/ Interrupt(p)
  PROVE  Lowers(p)
  <1> DEFINE b == call[p]
  <1>0. /\ b \in Calls /\ b.at \in Nat /\ b.pc \in {"sources", "poll"}
        /\ Len(Order) \in Nat
    BY CallNumbers DEF InstallInv, TypeOK, CheckSources, Poll, Interrupt, At
  <1>1. \A code : Fail(p, code) => Lowers(p)
    BY <1>0, FailLowers DEF Early
  <1>2. ASSUME Go(p, [b EXCEPT !.pc = "verify", !.at = 1])
        PROVE  Lowers(p)
    <2> DEFINE c == [b EXCEPT !.pc = "verify", !.at = 1]
    <2>1. c.pc = "verify"
      BY <1>0 DEF Calls
    <2> HIDE DEF c
    <2>2. Part(c.pc) < Part(b.pc)
      BY <1>0, <2>1 DEF Part, Publishing
    <2> QED  BY <1>2, <2>2, PartLowers DEF c
  <1>3. ASSUME NEW j \in Nat, NEW pc \in {"stage", "ensure"},
               Go(p, [b EXCEPT !.at = j, !.depth = 1, !.pc = pc]),
               b.pc = "sources" \/ j > b.at
        PROVE  Lowers(p)
    <2> DEFINE c == [b EXCEPT !.at = j, !.depth = 1, !.pc = pc]
    <2>1. c.pc = pc /\ c.at = j
      BY <1>0 DEF Calls
    <2>2. Go(p, c)
      BY <1>3
    <2> HIDE DEF c
    <2>3. CASE b.pc = "sources"
      <3>1. Part(c.pc) < Part(b.pc)
        BY <2>1, <2>3 DEF Part, Publishing
      <3> QED  BY <2>2, <3>1, PartLowers
    <2>4. CASE b.pc = "poll"
      BY <1>3, <2>1, <2>2, <2>4, FileLowers DEF Publishing
    <2> QED  BY <1>0, <2>3, <2>4
  <1>4. ASSUME NEW i \in Nat, PublishNext(p, i), b.pc = "sources" \/ i > b.at
        PROVE  Lowers(p)
    <2>1. CASE Go(p, [b EXCEPT !.pc = "verify", !.at = 1])
      BY <1>2, <2>1
    <2>2. ASSUME NEW j \in i..Len(Order),
                 Go(p, [b EXCEPT !.at = j, !.depth = 1,
                                 !.pc = IF Order[j] = Cli THEN "stage"
                                                          ELSE "ensure"])
          PROVE  Lowers(p)
      <3>1. j \in Nat /\ j >= i
        BY <1>0, <2>2
      <3>2. b.pc = "sources" \/ j > b.at
        BY <1>0, <1>4, <3>1
      <3> QED  BY <1>3, <2>2, <3>1, <3>2
    <2> QED  BY <1>4, <2>1, <2>2 DEF PublishNext
  <1>5. b.at + 1 \in Nat /\ b.at + 1 > b.at
    BY <1>0
  <1>6. CASE CheckSources(p)
    BY <1>1, <1>4, <1>6 DEF CheckSources, At
  <1>7. CASE Poll(p)
    BY <1>4, <1>5, <1>7 DEF Poll
  <1>8. CASE Interrupt(p)
    BY <1>1, <1>8 DEF Interrupt
  <1> QED  BY <1>6, <1>7, <1>8

LEMMA FileStepLowers ==
  ASSUME InstallInv, NEW p \in Installers,
         StageTemp(p) \/ Link(p) \/ Unlink(p)
  PROVE  Lowers(p)
  <1> DEFINE b == call[p]
  <1>0. b \in Calls /\ b.pc \in {"stage", "link", "unlink"}
    BY DEF InstallInv, TypeOK, StageTemp, Link, Unlink, At
  <1>1. \A code : Fail(p, code) => Lowers(p)
    BY <1>0, FailLowers DEF Early
  <1>2. ASSUME NEW c, Go(p, c), c.at = b.at,
               \/ b.pc = "stage" /\ c.pc = "link"
               \/ b.pc = "link" /\ c.pc = "unlink"
               \/ b.pc = "unlink" /\ c.pc = "record"
        PROVE  Lowers(p)
    <2>1. Within(c) < Within(b)
      BY <1>2 DEF Within
    <2> QED  BY <1>2, <2>1, WithinLowers DEF Publishing
  <1>3. CASE StageTemp(p)
    <2> DEFINE c == [b EXCEPT !.pc = "link", !.temp = Current(p)]
    <2>1. c.pc = "link" /\ c.at = b.at
      BY <1>0 DEF Calls
    <2>2. b.pc = "stage" /\ (Go(p, c) \/ Fail(p, "cantcreate"))
      BY <1>3 DEF StageTemp, At
    <2> HIDE DEF c
    <2> QED  BY <1>1, <1>2, <2>1, <2>2
  <1>4. CASE Link(p)
    <2> DEFINE c == [b EXCEPT !.pc = "unlink"]
    <2>1. c.pc = "unlink" /\ c.at = b.at
      BY <1>0 DEF Calls
    <2>2. b.pc = "link" /\ (Go(p, c) \/ Fail(p, "cantcreate"))
      BY <1>4 DEF Link, At
    <2> HIDE DEF c
    <2> QED  BY <1>1, <1>2, <2>1, <2>2
  <1>5. CASE Unlink(p)
    <2> DEFINE c == [b EXCEPT !.pc = "record", !.temp = Nothing]
    <2>1. c.pc = "record" /\ c.at = b.at
      BY <1>0 DEF Calls
    <2>2. b.pc = "unlink" /\ (Go(p, c) \/ Fail(p, "cantcreate"))
      BY <1>5 DEF Unlink, At
    <2> HIDE DEF c
    <2> QED  BY <1>1, <1>2, <2>1, <2>2
  <1> QED  BY <1>3, <1>4, <1>5

LEMMA RecordLowers ==
  ASSUME InstallInv, NEW p \in Installers, RecordCreated(p)
  PROVE  Lowers(p)
  <1> DEFINE b == call[p]
             f == Current(p)
             r == Recorded(b, f)
  <1>0. b \in Calls /\ b.pc = "record"
    BY DEF InstallInv, TypeOK, RecordCreated, At
  <1>1. /\ [r EXCEPT !.pc = "verify", !.at = 1].pc = "verify"
        /\ [r EXCEPT !.pc = "poll"].pc = "poll"
        /\ [r EXCEPT !.pc = "poll"].at = b.at
    BY <1>0 DEF Recorded, Calls
  <1>2. \/ Go(p, [r EXCEPT !.pc = "verify", !.at = 1])
        \/ Go(p, [r EXCEPT !.pc = "poll"])
        \/ Fail(p, "rollback")
    BY DEF RecordCreated
  <1> HIDE DEF r
  <1>3. ASSUME NEW c, Go(p, c), c.pc = "verify"
        PROVE  Lowers(p)
    <2>1. Part(c.pc) < Part(b.pc)
      BY <1>0, <1>3 DEF Part, Publishing
    <2> QED  BY <1>3, <2>1, PartLowers
  <1>4. ASSUME NEW c, Go(p, c), c.pc = "poll", c.at = b.at
        PROVE  Lowers(p)
    <2>1. Within(c) < Within(b)
      BY <1>0, <1>4 DEF Within
    <2> QED  BY <1>0, <1>4, <2>1, WithinLowers DEF Publishing
  <1> QED  BY <1>0, <1>1, <1>2, <1>3, <1>4, FailLowers DEF Early

LEMMA VerifyLowers ==
  ASSUME InstallInv, NEW p \in Installers, Verify(p)
  PROVE  Lowers(p)
  <1> DEFINE b == call[p]
             c == [b EXCEPT !.pc = "temps", !.committed = TRUE, !.code = "ok"]
             d == [b EXCEPT !.at = @ + 1]
  <1>0. b \in Calls /\ b.pc = "verify" /\ b.at \in Nat
    BY CallNumbers DEF InstallInv, TypeOK, Verify, At
  <1>1. c.pc = "temps" /\ d.pc = b.pc /\ d.at = b.at + 1
    BY <1>0 DEF Calls
  <1>2. Go(p, c) \/ Go(p, d) \/ Fail(p, "data")
    BY DEF Verify
  <1> HIDE DEF c, d
  <1>3. Part(c.pc) < Part(b.pc)
    BY <1>0, <1>1 DEF Part, Publishing
  <1>4. Go(p, d) => Lowers(p)
    BY <1>0, <1>1, FileLowers DEF FileByFile
  <1> QED  BY <1>0, <1>2, <1>3, <1>4, PartLowers, FailLowers DEF Early

LEMMA FrontShorter ==
  ASSUME NEW S, NEW s \in Seq(S), s # <<>>
  PROVE  /\ Len(s) \in Nat /\ Len(s) > 0
         /\ Len(Front(s)) = Len(s) - 1
  <1>1. Len(s) \in Nat /\ Len(s) > 0
    OBVIOUS
  <1> DEFINE n == Len(s) - 1
  <1>2. n \in Nat /\ 1 <= n + 1 /\ n <= Len(s)
    BY <1>1
  <1> HIDE DEF n
  <1>3. Len(SubSeq(s, 1, n)) = n
    BY <1>1, <1>2
  <1> QED  BY <1>1, <1>3 DEF Front, n

(* On to a later part.                                                     *)
LEMMA LaterLowers ==
  ASSUME NEW p, NEW c, Go(p, c),
         \/ /\ call[p].pc \in {"undo", "remove"} \union {"verify"}
            /\ c.pc \in {"temps"}
         \/ call[p].pc = "temps" /\ c.pc = "unlockcli"
         \/ call[p].pc = "unlockcli" /\ c.pc = "unlockconfig"
         \/ call[p].pc = "unlockconfig" /\ c.pc \in {"rmdirs", "finished"}
         \/ call[p].pc = "rmdirs" /\ c.pc = "finished"
         \/ call[p].pc = "finished" /\ c.pc = "done"
  PROVE  Lowers(p)
  <1>1. Part(c.pc) < Part(call[p].pc)
    <2>1. CASE /\ call[p].pc \in {"undo", "remove"} \union {"verify"}
               /\ c.pc \in {"temps"}
      BY <2>1, PartValues
    <2>2. CASE \/ call[p].pc = "temps" /\ c.pc = "unlockcli"
               \/ call[p].pc = "unlockcli" /\ c.pc = "unlockconfig"
      BY <2>2, PartValues
    <2>3. CASE \/ /\ call[p].pc = "unlockconfig"
                  /\ c.pc \in {"rmdirs", "finished"}
               \/ call[p].pc = "rmdirs" /\ c.pc = "finished"
      BY <2>3, PartValues
    <2>4. CASE call[p].pc = "finished" /\ c.pc = "done"
      BY <2>4, PartValues
    <2> QED  BY <2>1, <2>2, <2>3, <2>4
  <1> QED  BY <1>1, PartLowers

(* One entry of the journal less to take back.                             *)
LEMMA UndoLowers ==
  ASSUME InstallInv, NEW p \in Installers, NEW c, Go(p, c),
         call[p].pc \in {"undo", "remove"}, call[p].created # <<>>,
         c.pc = "undo", c.created = Front(call[p].created)
  PROVE  Lowers(p)
  <1> DEFINE s == call[p].created
  <1>1. s \in Seq(Journal)
    BY CallNumbers DEF InstallInv, TypeOK
  <1>2. Len(s) \in Nat /\ Len(s) > 0 /\ Len(Front(s)) = Len(s) - 1
    BY <1>1, FrontShorter
  <1>3. Part(c.pc) = Part(call[p].pc)
    BY PartValues
  <1>4. Left(c) = 2 * Len(Front(s)) + 1
    BY LeftValues
  <1>5. Left(call[p]) = 2 * Len(s) + 1 \/ Left(call[p]) = 2 * Len(s)
    BY LeftValues
  <1> HIDE DEF s
  <1>6. Left(c) < Left(call[p])
    BY <1>2, <1>4, <1>5
  <1> QED  BY <1>3, <1>6 DEF Lowers, Sooner

LEMMA TakeBackLowers ==
  ASSUME InstallInv, NEW p \in Installers, UndoLook(p) \/ UndoRemove(p)
  PROVE  Lowers(p)
  <1> DEFINE b == call[p]
             c == [b EXCEPT !.pc = "temps"]
             d == [b EXCEPT !.pc = "remove", !.swapped = FALSE]
             e == [b EXCEPT !.failed = TRUE, !.created = Front(@)]
             f == [b EXCEPT !.pc = "undo", !.created = Front(@),
                            !.failed = @ \/ file[Last(b.created).file] = Nothing]
  <1>0. /\ b \in Calls /\ Placed(b) /\ b.created \in Seq(Journal)
        /\ Len(b.created) \in Nat
    BY CallNumbers DEF InstallInv, TypeOK
  <1>1. /\ c.pc = "temps"
        /\ d.pc = "remove" /\ d.created = b.created
        /\ e.pc = b.pc /\ e.created = Front(b.created)
        /\ f.pc = "undo" /\ f.created = Front(b.created)
    BY <1>0 DEF Calls
  <1>2. CASE UndoLook(p)
    <2>1. b.pc = "undo"
      BY <1>2 DEF UndoLook, At
    <2>2. \/ Go(p, c)
          \/ b.created # <<>> /\ (Go(p, d) \/ Go(p, e))
      BY <1>2, Zenon DEF UndoLook
    <2> HIDE DEF c, d, e, f
    <2>3. CASE Go(p, c)
      BY <1>1, <2>1, <2>3, LaterLowers
    <2>4. CASE Go(p, d)
      <3>1. Part(d.pc) = Part(b.pc)
        BY <1>1, <2>1, PartValues
      <3>2. Left(d) = 2 * Len(b.created) /\ Left(b) = 2 * Len(b.created) + 1
        BY <1>1, <2>1, LeftValues
      <3>3. Left(d) < Left(b)
        BY <1>0, <3>2
      <3> QED  BY <2>4, <3>1, <3>3 DEF Lowers, Sooner
    <2>5. CASE b.created # <<>> /\ Go(p, e)
      BY <1>1, <2>1, <2>5, UndoLowers
    <2> QED  BY <2>2, <2>3, <2>4, <2>5
  <1>3. CASE UndoRemove(p)
    <2>1. b.pc = "remove" /\ Go(p, f)
      BY <1>3 DEF UndoRemove, At
    <2>2. b.created # <<>>
      BY <1>0, <2>1 DEF Placed
    <2> HIDE DEF f
    <2> QED  BY <1>1, <2>1, <2>2, UndoLowers
  <1> QED  BY <1>2, <1>3

LEMMA ReleaseLowers ==
  ASSUME InstallInv, NEW p \in Installers,
         RemoveTemp(p) \/ UnlockCli(p) \/ UnlockConfig(p)
  PROVE  Lowers(p)
  <1> DEFINE b == call[p]
  <1>0. b \in Calls
    BY DEF InstallInv, TypeOK
  <1>1. CASE RemoveTemp(p)
    <2> DEFINE c == [b EXCEPT !.pc = "unlockcli", !.temp = Nothing]
    <2>1. c.pc = "unlockcli"
      BY <1>0 DEF Calls
    <2>2. b.pc = "temps" /\ Go(p, c)
      BY <1>1 DEF RemoveTemp, At
    <2> HIDE DEF c
    <2> QED  BY <2>1, <2>2, LaterLowers
  <1>2. ASSUME NEW l, NEW pc, NEW next, ReleaseLock(p, l, pc, next),
               \/ pc = "unlockcli" /\ next = "unlockconfig"
               \/ pc = "unlockconfig" /\ next \in {"rmdirs", "finished"}
        PROVE  Lowers(p)
    <2> DEFINE c == [b EXCEPT !.pc = next, !.locks = @ \ {l},
                              !.failed = @ \/ (l \in b.locks /\ lock[l] # p)]
    <2>1. c.pc = next
      BY <1>0 DEF Calls
    <2>2. b.pc = pc /\ Go(p, c)
      BY <1>2 DEF ReleaseLock, At
    <2> HIDE DEF c
    <2> QED  BY <1>2, <2>1, <2>2, LaterLowers
  <1>3. AfterLocks(p) \in {"rmdirs", "finished"}
    BY DEF AfterLocks
  <1>4. CASE UnlockCli(p)
    BY <1>2, <1>4 DEF UnlockCli
  <1>5. CASE UnlockConfig(p)
    BY <1>2, <1>3, <1>5 DEF UnlockConfig
  <1> QED  BY <1>1, <1>4, <1>5

(* One directory less to remove.                                           *)
LEMMA DirsLowers ==
  ASSUME InstallInv, NEW p \in Installers, NEW c, Go(p, c),
         call[p].pc = "rmdirs", call[p].dirs # <<>>,
         c.pc = "rmdirs", c.dirs = Front(call[p].dirs)
  PROVE  Lowers(p)
  <1> DEFINE s == call[p].dirs
  <1>1. s \in Seq(Dirs)
    BY CallNumbers DEF InstallInv, TypeOK
  <1>2. Len(s) \in Nat /\ Len(s) > 0 /\ Len(Front(s)) = Len(s) - 1
    BY <1>1, FrontShorter
  <1>3. Left(c) = Len(Front(s)) /\ Left(call[p]) = Len(s)
    BY LeftValues
  <1> HIDE DEF s
  <1>4. Left(c) < Left(call[p])
    BY <1>2, <1>3
  <1> QED  BY <1>4 DEF Lowers, Sooner

LEMMA DoneLowers ==
  ASSUME NEW p, NEW code, Done(p, code), call[p].pc = "finished"
  PROVE  Lowers(p)
  <1> DEFINE c == [Fresh EXCEPT !.pc = "done", !.ver = call[p].ver,
                                !.committed = call[p].committed, !.code = code]
  <1>1. c.pc = "done"
    BY DEF Fresh
  <1>2. Go(p, c)
    BY DEF Done
  <1> HIDE DEF c
  <1> QED  BY <1>1, <1>2, LaterLowers

LEMMA EndLowers ==
  ASSUME InstallInv, NEW p \in Installers, RemoveDirectory(p) \/ Finish(p)
  PROVE  Lowers(p)
  <1> DEFINE b == call[p]
             c == [b EXCEPT !.pc = "finished"]
             d == [b EXCEPT !.dirs = Front(@)]
             e == [b EXCEPT !.dirs = Front(@), !.failed = TRUE]
  <1>0. b \in Calls
    BY DEF InstallInv, TypeOK
  <1>1. /\ c.pc = "finished"
        /\ d.pc = b.pc /\ d.dirs = Front(b.dirs)
        /\ e.pc = b.pc /\ e.dirs = Front(b.dirs)
    BY <1>0 DEF Calls
  <1>2. CASE RemoveDirectory(p)
    <2>1. b.pc = "rmdirs"
      BY <1>2 DEF RemoveDirectory, At
    <2>2. \/ Go(p, c)
          \/ b.dirs # <<>> /\ (Go(p, d) \/ Go(p, e))
      BY <1>2, Zenon DEF RemoveDirectory
    <2> HIDE DEF c, d, e
    <2>3. CASE Go(p, c)
      BY <1>1, <2>1, <2>3, LaterLowers
    <2>4. CASE b.dirs # <<>> /\ Go(p, d)
      BY <1>1, <2>1, <2>4, DirsLowers
    <2>5. CASE b.dirs # <<>> /\ Go(p, e)
      BY <1>1, <2>1, <2>5, DirsLowers
    <2> QED  BY <2>2, <2>3, <2>4, <2>5
  <1>3. CASE Finish(p)
    BY <1>3, DoneLowers DEF Finish, At
  <1> QED  BY <1>2, <1>3

LEMMA ClaimLowers ==
  ASSUME InstallInv, NEW p \in Installers, At(p, "unlink"), ClaimPublished(p)
  PROVE  Lowers(p)
  <1> DEFINE b == call[p]
             r == Recorded(b, Current(p))
             c == [r EXCEPT !.pc = "undo", !.code = "cantcreate"]
  <1>0. b \in Calls /\ b.pc = "unlink"
    BY DEF InstallInv, TypeOK, At
  <1>1. c.pc = "undo"
    BY <1>0 DEF Recorded, Calls
  <1>2. Go(p, c) \/ (\E code : Fail(p, code))
    BY Zenon DEF ClaimPublished
  <1> HIDE DEF c
  <1>3. Part(c.pc) < Part(b.pc)
    <2>1. "unlink" \in Publishing
      BY DEF Publishing
    <2> QED  BY <1>0, <1>1, <2>1, PartValues
  <1>4. b.pc \in Early \ {"idle"}
    BY <1>0 DEF Early
  <1> QED  BY <1>2, <1>3, <1>4, PartLowers, FailLowers

LEMMA SkipLowers ==
  ASSUME InstallInv, NEW p \in Installers, SkipRemoval(p)
  PROVE  Lowers(p)
  <1> DEFINE b == [call[p] EXCEPT !.failed = TRUE]
  <1>1. \/ /\ b.pc \in {"undo", "remove"} /\ b.created # <<>>
           /\ Go(p, [b EXCEPT !.pc = "undo", !.created = Front(@)])
        \/ /\ b.pc = "temps"
           /\ Go(p, [b EXCEPT !.pc = "unlockcli", !.temp = Nothing])
        \/ /\ b.pc = "unlockcli"
           /\ Go(p, [b EXCEPT !.pc = "unlockconfig", !.locks = @ \ {"cli"}])
        \/ /\ b.pc = "unlockconfig"
           /\ Go(p, [b EXCEPT !.pc = AfterLocks(p), !.locks = @ \ {"config"}])
        \/ /\ b.pc = "rmdirs" /\ b.dirs # <<>>
           /\ Go(p, [b EXCEPT !.dirs = Front(@)])
        \/ /\ b.pc = "finished"
           /\ Done(p, "rollback") \/ Done(p, "unavailable")
    BY Zenon DEF SkipRemoval
  <1>2. call[p] \in Calls
    BY DEF InstallInv, TypeOK
  <1>3. /\ b \in Calls /\ b.pc = call[p].pc
        /\ b.created = call[p].created /\ b.dirs = call[p].dirs
    BY <1>2 DEF Calls
  <1> HIDE DEF b
  <1>4. AfterLocks(p) \in {"rmdirs", "finished"}
    BY DEF AfterLocks
  <1>5. CASE /\ b.pc \in {"undo", "remove"} /\ b.created # <<>>
             /\ Go(p, [b EXCEPT !.pc = "undo", !.created = Front(@)])
    <2> DEFINE c == [b EXCEPT !.pc = "undo", !.created = Front(@)]
    <2>1. c.pc = "undo" /\ c.created = Front(b.created)
      BY <1>3 DEF Calls
    <2>2. Go(p, c)
      BY <1>5
    <2> HIDE DEF c
    <2> QED  BY <1>3, <1>5, <2>1, <2>2, UndoLowers
  <1>6. ASSUME NEW c, Go(p, c),
               \/ b.pc = "temps" /\ c.pc = "unlockcli"
               \/ b.pc = "unlockcli" /\ c.pc = "unlockconfig"
               \/ b.pc = "unlockconfig" /\ c.pc \in {"rmdirs", "finished"}
        PROVE  Lowers(p)
    BY <1>3, <1>6, LaterLowers
  <1>7. /\ [b EXCEPT !.pc = "unlockcli", !.temp = Nothing].pc = "unlockcli"
        /\ [b EXCEPT !.pc = "unlockconfig",
                     !.locks = @ \ {"cli"}].pc = "unlockconfig"
        /\ [b EXCEPT !.pc = AfterLocks(p),
                     !.locks = @ \ {"config"}].pc = AfterLocks(p)
    BY <1>3 DEF Calls
  <1>8. CASE /\ b.pc = "rmdirs" /\ b.dirs # <<>>
             /\ Go(p, [b EXCEPT !.dirs = Front(@)])
    <2> DEFINE c == [b EXCEPT !.dirs = Front(@)]
    <2>1. c.pc = b.pc /\ c.dirs = Front(b.dirs)
      BY <1>3 DEF Calls
    <2>2. Go(p, c)
      BY <1>8
    <2> HIDE DEF c
    <2> QED  BY <1>3, <1>8, <2>1, <2>2, DirsLowers
  <1>9. CASE /\ b.pc = "finished"
             /\ Done(p, "rollback") \/ Done(p, "unavailable")
    BY <1>3, <1>9, DoneLowers
  <1> QED  BY <1>1, <1>4, <1>5, <1>6, <1>7, <1>8, <1>9

LEMMA IOFailureLowers ==
  ASSUME InstallInv, NEW p \in Installers, Running(p), IOFailure(p)
  PROVE  Lowers(p)
  <1>1. CASE \E code \in FaultCodes(p) : Fail(p, code)
    <2>1. call[p].pc \in Early \ {"idle"}
      BY <1>1 DEF FaultCodes, Early, Running
    <2> QED  BY <1>1, <2>1, FailLowers
  <1>2. CASE At(p, "unlink") /\ ClaimPublished(p)
    BY <1>2, ClaimLowers
  <1>3. CASE \/ LoseLock(p, "config", "lockconfig")
             \/ LoseLock(p, "cli", "lockcli")
    <2>1. Fail(p, "rollback") /\ call[p].pc \in {"lockconfig", "lockcli"}
      BY <1>3 DEF LoseLock, At
    <2> QED  BY <2>1, FailLowers DEF Early
  <1>4. CASE LoseDirectory(p)
    <2>1. Fail(p, "rollback") /\ call[p].pc \in {"lockdirs", "ensure"}
      BY <1>4 DEF LoseDirectory
    <2> QED  BY <2>1, FailLowers DEF Early
  <1>5. CASE SkipRemoval(p)
    BY <1>5, SkipLowers
  <1> QED  BY <1>1, <1>2, <1>3, <1>4, <1>5 DEF IOFailure

LEMMA CrashLowers ==
  ASSUME InstallInv, NEW p \in Installers, Crash(p)
  PROVE  Lowers(p)
  <1> DEFINE c == [Fresh EXCEPT !.pc = "dead",
                                !.committed = call[p].committed,
                                !.ver = call[p].ver]
  <1>1. c.pc = "dead" /\ Go(p, c)
    BY DEF Crash, Fresh
  <1>2. call[p].pc \in Pcs /\ call[p].pc \notin {"idle", "done", "dead"}
    BY DEF Crash, Running, InstallInv, TypeOK, Calls
  <1> HIDE DEF c
  <1>3. Part(c.pc) < Part(call[p].pc)
    BY <1>1, <1>2, PartNumber, PartValues
  <1> QED  BY <1>1, <1>3, PartLowers

LEMMA GoingLowers ==
  ASSUME InstallInv, NEW p \in Installers, Goes(p)
  PROVE  Lowers(p)
  <1>1. CASE Step(p)
    <2>1. CASE \/ Classify(p, "scan", "lockconfig")
               \/ Classify(p, "rescan", "sources")
               \/ LockConfig(p) \/ LockCli(p)
      BY <2>1, ClassifyLowers, LockingLowers
    <2>2. CASE \/ EnsureDirectory(p, Cli, "lockdirs", "lockcli")
               \/ EnsureDirectory(p, Current(p), "ensure", "stage")
      BY <2>2, EnsureLowers
    <2>3. CASE \/ CheckSources(p) \/ Poll(p) \/ StageTemp(p) \/ Link(p)
               \/ Unlink(p) \/ RecordCreated(p) \/ Verify(p)
      BY <2>3, NextLowers, FileStepLowers, RecordLowers, VerifyLowers
    <2>4. CASE \/ UndoLook(p) \/ UndoRemove(p) \/ RemoveTemp(p)
               \/ UnlockCli(p) \/ UnlockConfig(p)
               \/ RemoveDirectory(p) \/ Finish(p)
      BY <2>4, TakeBackLowers, ReleaseLowers, EndLowers
    <2> QED  BY <1>1, <2>1, <2>2, <2>3, <2>4 DEF Step
  <1>2. CASE Interrupt(p)
    BY <1>2, NextLowers
  <1>3. CASE IOFailure(p)
    BY <1>3, IOFailureLowers DEF Goes
  <1>4. CASE Crash(p)
    BY <1>4, CrashLowers
  <1> QED  BY <1>1, <1>2, <1>3, <1>4 DEF Goes

(* Whatever others do, p's place stays.                                    *)
LEMMA OthersKeepMeasure ==
  ASSUME InstallInv, [Next]_vars, NEW p \in Installers, Running(p), ~Goes(p)
  PROVE  Measure(call'[p]) = Measure(call[p])
  <1>0. call \in [Installers -> Calls]
    BY DEF InstallInv, TypeOK
  <1>1. ASSUME NEW q \in Installers,
               Begin(q) \/ Step(q) \/ Interrupt(q) \/ IOFailure(q) \/ Crash(q)
        PROVE  call'[p] = call[p]
    <2>1. q # p
      BY <1>1 DEF Goes, Begin, Running, At
    <2>2. UndoLook(q) \/ Unready(q)
      BY <1>1, UnreadyForward, UnreadyBack DEF Step
    <2>3. \E c : Go(q, c)
      BY <2>2, Zenon DEF UndoLook, Unready
    <2> QED  BY <1>0, <2>1, <2>3 DEF Go
  <1>2. CASE \E l \in Locks : ClearOrphan(l)
    BY <1>2 DEF ClearOrphan
  <1>3. CASE SweepTemp \/ UNCHANGED vars
    BY <1>3 DEF SweepTemp, vars
  <1>4. ASSUME NEW f \in Files, Edit(f)
        PROVE  Measure(call'[p]) = Measure(call[p])
    <2> DEFINE c == [call[p] EXCEPT !.swapped = TRUE]
    <2>1. call'[p] = c \/ call'[p] = call[p]
      BY <1>4 DEF Edit
    <2>2. /\ c.pc = call[p].pc /\ c.at = call[p].at
          /\ c.depth = call[p].depth /\ c.created = call[p].created
          /\ c.dirs = call[p].dirs
      BY <1>0 DEF Calls
    <2> HIDE DEF c
    <2>3. Left(c) = Left(call[p]) /\ Within(c) = Within(call[p])
      BY <2>2 DEF Left, Within
    <2> QED  BY <2>1, <2>2, <2>3 DEF Measure
  <1> QED  BY <1>1, <1>2, <1>3, <1>4 DEF Next

LEMMA RunningDown ==
  InstallInv /\ InstallInv' /\ [Next]_vars => RunsDown
  <1> SUFFICES ASSUME InstallInv, InstallInv', [Next]_vars,
                      NEW p \in Installers
               PROVE  /\ Goes(p) =>
                           <<Measure(call'[p]), Measure(call[p])>> \in Below
                      /\ Running(p) /\ ~Goes(p) =>
                           Measure(call'[p]) = Measure(call[p])
    BY DEF RunsDown
  <1>1. /\ call[p] \in Calls /\ Placed(call[p])
        /\ call'[p] \in Calls /\ Placed(call'[p])
        /\ call \in [Installers -> Calls]
    BY DEF InstallInv, TypeOK
  <1>2. ASSUME Goes(p)
        PROVE  <<Measure(call'[p]), Measure(call[p])>> \in Below
    <2>1. PICK c : Go(p, c) /\ Sooner(c, call[p])
      BY <1>2, GoingLowers DEF Lowers
    <2>2. call'[p] = c
      BY <1>1, <2>1 DEF Go
    <2> QED  BY <1>1, <2>1, <2>2, SoonerIsBelow
  <1> QED  BY <1>2, OthersKeepMeasure

(* An install ends: each of its own steps, of the failing ones and         *)
(* of those that take files back too, takes it further along an order in   *)
(* which there is no infinite way down, and nobody else's step puts it     *)
(* back, so that no contention and no edit makes it start over.            *)
THEOREM InstallCallsRunDown == Spec => [][RunsDown]_vars
  BY RunningDown, InstallInvHolds, PTL DEF Spec
=============================================================================
