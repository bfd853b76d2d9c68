------------------------ MODULE MCInstallTransaction ------------------------
(***************************************************************************)
(* A home with one file in the config root, one in a directory below it,   *)
(* and the executable two directories down.                                *)
(***************************************************************************)
EXTENDS InstallTransaction

MCManifest == <<"conf", "skill">>
MCDirs == {"skills", "local", "bin"}
MCPath == [f \in {"conf", "skill", "cli"} |->
             CASE f = "conf"  -> <<>>
               [] f = "skill" -> <<"skills">>
               [] f = "cli"   -> <<"local", "bin">>]
MCUp == [d \in MCDirs |-> IF d = "bin" THEN "local" ELSE "root"]

Old(v) == [id |-> Someone, ver |-> v]

Empties ==
  [file |-> [f \in {"conf", "skill", "cli"} |-> Nothing],
   dir  |-> [d \in MCDirs |-> Nothing]]

(* The config file is there already, as in a version, and so is ~/.local.  *)
Begun(v) ==
  [file |-> [Empties.file EXCEPT !["conf"] = Old(v)],
   dir  |-> [Empties.dir EXCEPT !["local"] = Someone]]

MCHomes == {Empties, Begun("v1")}

(* docs/target-repo-preflight-and-operations.md:321 - the lock serialises  *)
(* installations that run at the same time.  Run one after the other, none *)
(* of them fails to take back what it made, unless a file operation fails  *)
(* or somebody changes the files.                                          *)
RollbackFailsOnlyOnTrouble ==
  \A p \in Installers : call[p].code = "rollback" => faults + edits > 0
=============================================================================
