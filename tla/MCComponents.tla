------------------------------ MODULE MCComponents ------------------------------
(***************************************************************************)
(* Instances of the components beside the queue and the lease, for TLC.    *)
(* They share no variable: a behaviour of this specification is one of a   *)
(* single component, `subject', while the others stay as they begin.       *)
(***************************************************************************)
EXTENDS ModelRegistry, ConfigFile, StatusFile, DatabaseFile, Exports, MCChatMatching

VARIABLE subject

vars == <<registryVars, configVars, statusVars, databaseVars, exportVars, chatVars, subject>>

MCRequest == {[formats |-> {"markdown", "csv"}, individual |-> TRUE]}

Init ==
  /\ RegistryInit /\ ConfigInit /\ StatusInit /\ DatabaseInit /\ ExportInit /\ ChatInit
  /\ subject \in {"registry", "config", "status", "database", "exports", "chats"}
  /\ loader.key = CHOOSE m \in Model : TRUE
  /\ subject = "database" \/ (db.applied = {} /\ packages[0] = NoDatabase)
  /\ subject = "exports" \/ data = [w \in Voice |-> "untranscribed"]
  /\ \A r \in ExportRun : run[r].request = CHOOSE q \in Request : TRUE
  /\ subject = "chats" \/ chats = [p \in Path |-> NoContent]

Next ==
  /\ UNCHANGED subject
  /\ \/ /\ subject = "registry" /\ RegistryNext
        /\ UNCHANGED <<configVars, statusVars, databaseVars, exportVars, chatVars>>
     \/ /\ subject = "config" /\ ConfigNext
        /\ UNCHANGED <<registryVars, statusVars, databaseVars, exportVars, chatVars>>
     \/ /\ subject = "status" /\ StatusNext
        /\ UNCHANGED <<registryVars, configVars, databaseVars, exportVars, chatVars>>
     \/ /\ subject = "database" /\ DatabaseNext
        /\ UNCHANGED <<registryVars, configVars, statusVars, exportVars, chatVars>>
     \/ /\ subject = "exports" /\ ExportNext
        /\ UNCHANGED <<registryVars, configVars, statusVars, databaseVars, chatVars>>
     \/ /\ subject = "chats" /\ ChatNext
        /\ UNCHANGED <<registryVars, configVars, statusVars, databaseVars, exportVars>>

Spec == Init /\ [][Next]_vars

\* Every variable has its type; those of the other components do not change.
TypesOK ==
  /\ subject = "registry" => RegistryTypeOK
  /\ subject = "config" => ConfigTypeOK
  /\ subject = "status" => StatusTypeOK
  /\ subject = "database" => DatabaseTypeOK
  /\ subject = "exports" => ExportTypeOK
  /\ subject = "chats" => ChatTypeOK
================================================================================
