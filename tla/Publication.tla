------------------------------ MODULE Publication ------------------------------
(***************************************************************************)
(* What "mission init" and "stage" promise of the path they write to, and  *)
(* the rename that replaces nothing is for (package_stage.go): whoever is  *)
(* first there is there for good, what a command puts there is genuine,    *)
(* and its exit code does not contradict what it did.  MissionInit and     *)
(* StagePublish, with their locks, looks and cleanups, implement it.       *)
(***************************************************************************)
CONSTANTS
  Makers,     (* the calls of the command for this path                    *)
  Stranger,   (* whoever else may put something there                      *)
  Nothing     (* nothing is there                                          *)

VARIABLES
  maker,      (* who made what is at the path                              *)
  content,    (* the files in it                                           *)
  genuine,    (* what a maker may put there                                *)
  outcome     (* of the running or last call of each maker                 *)

vars == <<maker, content, genuine, outcome>>

(* A call that ends says what it did, or leaves it open: a kill, or an     *)
(* exit code that tells nothing.                                           *)
Running  == {"running", "published"}
Finished == {"ok", "refused", "unknown"}

TypeOK ==
  /\ maker \in Makers \union {Stranger, Nothing}
  /\ outcome \in [Makers -> Running \union Finished]

Init ==
  /\ maker = Nothing
  /\ outcome = [c \in Makers |-> "unknown"]

Becomes(c, o) == outcome' = [outcome EXCEPT ![c] = o]

Begin(c) ==
  /\ outcome[c] \in Finished
  /\ Becomes(c, "running")
  /\ UNCHANGED <<maker, content, genuine>>

Publish(c) ==
  /\ outcome[c] = "running"
  /\ maker = Nothing
  /\ maker' = c
  /\ content' \in genuine
  /\ Becomes(c, "published")
  /\ UNCHANGED genuine

(* A call that made what is there never says it did not, and no other call *)
(* says it did.                                                            *)
End(c) ==
  /\ \/ outcome[c] = "running"   /\ Becomes(c, "refused")
     \/ outcome[c] = "published" /\ Becomes(c, "ok")
     \/ outcome[c] \in Running   /\ Becomes(c, "unknown")
  /\ UNCHANGED <<maker, content, genuine>>

(* Somebody else is first.                                                 *)
Usurp ==
  /\ maker = Nothing
  /\ maker' = Stranger
  /\ UNCHANGED <<content, genuine, outcome>>

(* What stage copies from is edited: more trees have existed.              *)
Renew ==
  /\ UNCHANGED <<maker, content, outcome>>
  /\ genuine \subseteq genuine'

Next ==
  \/ Renew
  \/ Usurp
  \/ \E c \in Makers : Begin(c) \/ Publish(c) \/ End(c)

Spec == Init /\ [][Next]_vars

-----------------------------------------------------------------------------

(* Whatever stands at the path stays what it is.                           *)
FirstStays == [][maker # Nothing => UNCHANGED <<maker, content>>]_<<maker, content>>
=============================================================================
