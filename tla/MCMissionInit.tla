---------------------------- MODULE MCMissionInit ----------------------------
(***************************************************************************)
(* The instance of MissionInit that TLC checks (its constants are given by *)
(* the .cfg), and what a document says of it that the code does not do.    *)
(***************************************************************************)
EXTENDS MissionInit

(* docs/PRD-go-cli-windows.md:48 - an interrupt exits with 130.  The one   *)
(* that arrives while init runs git exits with 69.                         *)
InterruptExits130 ==
  [][\A c \in Callers : Interrupt(c) => call'[c].code = "interrupted"]_vars
=============================================================================
