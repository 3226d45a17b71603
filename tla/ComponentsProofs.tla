------------------------------ MODULE ComponentsProofs ------------------------------
(***************************************************************************)
(* The six modules beside the queue and the lease, together.               *)
(***************************************************************************)
EXTENDS MCComponents, ModelRegistryProofs, SharedFilesProofs, ChatMatchingProofs

\* A behaviour of MCComponents is one of each of its parts, so that what is proved of a
\* part, for all its behaviours, holds in the run of all of them.
THEOREM Composition ==
  Spec => RegistrySpec /\ ConfigSpec /\ StatusSpec /\ DatabaseSpec /\ ExportSpec /\ ChatSpec
<1>1. Init => RegistryInit /\ ConfigInit /\ StatusInit /\ DatabaseInit /\ ExportInit /\ ChatInit
  BY DEF Init
<1>2. [Next]_vars => [RegistryNext]_registryVars /\ [ConfigNext]_configVars
                     /\ [StatusNext]_statusVars /\ [DatabaseNext]_databaseVars
                     /\ [ExportNext]_exportVars /\ [ChatNext]_chatVars
  BY DEF Next, vars
<1> QED
  BY <1>1, <1>2, PTL DEF Spec, RegistrySpec, ConfigSpec, StatusSpec, DatabaseSpec, ExportSpec,
                         ChatSpec

\* TypesOK: the types of all parts.
THEOREM ComponentTypes == Spec => []TypesOK
<1>1. /\ RegistryTypeOK /\ ConfigTypeOK /\ StatusTypeOK /\ DatabaseTypeOK /\ ExportTypeOK /\ ChatTypeOK
      => TypesOK
  BY DEF TypesOK
<1> QED
  BY <1>1, Composition, RegistryTypes, ConfigTypes, StatusTypes, DatabaseTypes, ExportTypes,
     ChatTypes, PTL

\* So has the whole of them every safety property of its parts, each under the conditions
\* that it names: LoadFindsChoice excepts settings of a newer version, and SchemaHasNoGap
\* and MigratedIsBackedUp a restore that falls into the beginning of a migration.
\* RejectionIsKept is as conditional here as it is for ModelRegistry.
THEOREM ComponentsAreSound ==
  Spec => /\ [](EntryMatchesFolder /\ RecordedHashIsSound /\ FolderIsRegistered) /\ FolderIsFinal
          /\ []LoadFindsChoice
          /\ [](EndedLooksEnded /\ PreviewIsEarned)
          /\ [](SchemaHasNoGap /\ MigratedIsBackedUp /\ NothingIsLost)
          /\ [](FilesAreWhole /\ CompletedIsOneSnapshot /\ IndexLeadsSomewhere)
          /\ [](SelectedNamesRecording /\ CopiesAgree)
          /\ Pinned \notin Refused => []RejectionIsKept
<1>1. RegistrySpec => /\ [](EntryMatchesFolder /\ RecordedHashIsSound /\ FolderIsRegistered)
                      /\ FolderIsFinal
  BY EntriesMatchFolders, RecordedHashes, FoldersAreRegistered, FoldersAreFinal, PTL
<1>2. Pinned \notin Refused /\ RegistrySpec => []RejectionIsKept
  BY RejectionsAreKept
<1>3. ConfigSpec => []LoadFindsChoice
  BY ChoicesAreFound
<1>4. StatusSpec => [](EndedLooksEnded /\ PreviewIsEarned)
  BY EndsAreSeen, PreviewsAreEarned, PTL
<1>5. DatabaseSpec => [](SchemaHasNoGap /\ MigratedIsBackedUp /\ NothingIsLost)
  BY SchemaIsOfAVersion, MigrationsCanBeUndone, RestoresLoseNothing, PTL
<1>6. ExportSpec => [](FilesAreWhole /\ CompletedIsOneSnapshot /\ IndexLeadsSomewhere)
  BY FilesStayWhole, CompletedSnapshots, IndexIsSound, PTL
<1>7. ChatSpec => [](SelectedNamesRecording /\ CopiesAgree)
  BY SelectionsAreSound, CopiesAreCopies, PTL
<1> QED
  BY Composition, <1>1, <1>2, <1>3, <1>4, <1>5, <1>6, <1>7
================================================================================
