------------------------------ MODULE ModelRegistry ------------------------------
(***************************************************************************)
(* ModelRegistry: the folders of downloaded or imported models and         *)
(* registry.json, which describes them.                                    *)
(*                                                                         *)
(* An installation runs in a thread of the window and nothing prevents a   *)
(* second one, of the same model even.  It fills a folder of its own,      *)
(* checks it, renames it to its place and then reads, changes and writes   *)
(* the registry, through one temporary file and without a lock.  A worker  *)
(* finds the folder of its model, reads the registry, loads the model and, *)
(* if the engine refuses it, marks the entry as suspect, in the same way.  *)
(***************************************************************************)
EXTENDS Naturals

CONSTANTS
  Model,        \* the keys of MODELS
  Bundled,      \* those that come with the program and whose files are there
  Artifact,     \* what a complete folder may hold
  Refused,      \* what the engine refuses to load although the files are there
  Pinned,       \* what the bundled folders hold
  Incomplete,   \* what a folder holds whose required files are not all there
  NoArtifact,   \* no folder, no hash
  Job           \* the installations that may run side by side

ASSUME RegistryAssumption ==
  /\ Bundled \subseteq Model
  /\ Refused \subseteq Artifact /\ Pinned \in Artifact
  /\ Incomplete \notin Artifact /\ NoArtifact \notin Artifact /\ Incomplete # NoArtifact

VARIABLES
  folder,       \* models_dir / key
  listing,      \* registry.json
  draft,        \* registry.json.tmp
  job,          \* where each installation is
  loader,       \* where the worker is with its model
  rejected,     \* history: which model failed to load with which files
  undisturbed   \* history: no crash or failure has cut off an update of the
                \* registry, and no two updates have overlapped

registryVars == <<folder, listing, draft, job, loader, rejected, undisturbed>>

Entry == [hash : Artifact, source : {"bundled", "installed"}, verdict : {"verified", "suspect"}]
NoEntry == [hash |-> NoArtifact, source |-> "none", verdict |-> "none"]
Listing == [Model -> Entry \cup {NoEntry}]
NoDraft == [m \in Model |-> NoArtifact]

\* What a thread or the worker has in hand: its model, the files it has filled
\* or resolved, the hash it has read and the registry it is about to write.
Hand == [at : {"idle", "filling", "filled", "promoted", "changed", "drafted",
               "resolved", "hashed", "loaded", "refused"},
         key : Model, files : Artifact \cup {Incomplete, NoArtifact},
         hash : Artifact \cup {NoArtifact}, next : Listing \cup {NoDraft}]

NoHand(h) == [h EXCEPT !.at = "idle", !.files = NoArtifact, !.hash = NoArtifact,
                       !.next = NoDraft]

RegistryTypeOK ==
  /\ folder \in [Model -> Artifact \cup {Incomplete, NoArtifact}]
  /\ listing \in Listing
  /\ draft \in Listing \cup {NoDraft}
  /\ job \in [Job -> Hand]
  /\ loader \in Hand
  /\ rejected \subseteq Model \X Artifact
  /\ undisturbed \in BOOLEAN

RegistryInit ==
  /\ folder = [m \in Model |-> NoArtifact]
  /\ listing = [m \in Model |-> NoEntry]
  /\ draft = NoDraft
  /\ \E m \in Model :
       LET h == [at |-> "idle", key |-> m, files |-> NoArtifact, hash |-> NoArtifact,
                 next |-> NoDraft] IN
       /\ job = [j \in Job |-> h]
       /\ loader = h
  /\ rejected = {}
  /\ undisturbed = TRUE

--------------------------------------------------------------------------------
(* Reading. *)

\* read(): the bundled models are added unless the file has an entry for them.
Shown ==
  [m \in Model |->
     IF listing[m] = NoEntry /\ m \in Bundled
     THEN [hash |-> Pinned, source |-> "bundled", verdict |-> "verified"]
     ELSE listing[m]]

\* resolve_model_path: what is found for a model, an installed folder first.
Resolved(m) ==
  IF folder[m] \in Artifact THEN folder[m]
  ELSE IF m \in Bundled THEN Pinned ELSE NoArtifact

\* Threads and worker alike are between the reading and the renaming.
Updating(h) == h.at \in {"changed", "drafted"}
Registering(h) == h.at = "promoted" \/ Updating(h)

--------------------------------------------------------------------------------
(* An installation. *)

BeginInstall(j, m) ==
  /\ job[j].at = "idle" /\ folder[m] = NoArtifact
  /\ job' = [job EXCEPT ![j].at = "filling", ![j].key = m]
  /\ UNCHANGED <<folder, listing, draft, loader, rejected, undisturbed>>

\* install_from_hub: a bundled model is not downloaded, nor one whose folder exists.
BeginDownload(j, m) == m \notin Bundled /\ BeginInstall(j, m)

\* import_zip does not ask whether the model is bundled.
BeginImport(j, m) == BeginInstall(j, m)

\* The download or the extraction into the partial folder has ended.
FillFolder(j, files) ==
  /\ job[j].at = "filling"
  /\ job' = [job EXCEPT ![j].at = "filled", ![j].files = files]
  /\ UNCHANGED <<folder, listing, draft, loader, rejected, undisturbed>>

\* Mutant: the folder is not checked before it is renamed.
PromoteUnchecked(j) ==
  /\ job[j].at = "filled" /\ folder[job[j].key] = NoArtifact
  /\ folder' = [folder EXCEPT ![job[j].key] = job[j].files]
  /\ job' = [job EXCEPT ![j].at = "promoted"]
  /\ UNCHANGED <<listing, draft, loader, rejected, undisturbed>>

\* Mutant: a folder that has appeared in the meantime is replaced.
PromoteOver(j) ==
  /\ job[j].at = "filled" /\ job[j].files \in Artifact
  /\ folder' = [folder EXCEPT ![job[j].key] = job[j].files]
  /\ job' = [job EXCEPT ![j].at = "promoted"]
  /\ UNCHANGED <<listing, draft, loader, rejected, undisturbed>>

\* _verify_folder, and the renaming, which fails if there is a folder by now.
Promote(j) ==
  /\ job[j].at = "filled" /\ job[j].files \in Artifact
  /\ folder[job[j].key] = NoArtifact
  /\ folder' = [folder EXCEPT ![job[j].key] = job[j].files]
  /\ job' = [job EXCEPT ![j].at = "promoted"]
  /\ UNCHANGED <<listing, draft, loader, rejected, undisturbed>>

\* Mutant: the other models of the registry are forgotten.
EnterModelAlone(j) ==
  /\ job[j].at = "promoted"
  /\ job' = [job EXCEPT ![j].at = "changed",
                        ![j].next = [[m \in Model |-> NoEntry] EXCEPT ![job[j].key] =
                           [hash |-> job[j].files, source |-> "installed",
                            verdict |-> "verified"]]]
  /\ UNCHANGED <<folder, listing, draft, loader, rejected, undisturbed>>

\* _write_registry reads the registry and enters the model.
EnterModel(j) ==
  /\ job[j].at = "promoted"
  /\ job' = [job EXCEPT ![j].at = "changed",
                        ![j].next = [Shown EXCEPT ![job[j].key] =
                           [hash |-> job[j].files, source |-> "installed",
                            verdict |-> "verified"]]]
  /\ UNCHANGED <<folder, listing, draft, loader, rejected, undisturbed>>

\* _save fills the temporary file.
DraftListing(j) ==
  /\ job[j].at = "changed"
  /\ draft' = job[j].next
  /\ job' = [job EXCEPT ![j].at = "drafted"]
  /\ UNCHANGED <<folder, listing, loader, rejected, undisturbed>>

\* _save renames it, whoever has filled it last.
SaveListing(j) ==
  /\ job[j].at = "drafted" /\ draft # NoDraft
  /\ listing' = draft /\ draft' = NoDraft
  /\ job' = [job EXCEPT ![j] = NoHand(@)]
  /\ undisturbed' = (undisturbed /\ ~ Updating(loader)
                       /\ \A i \in Job : i # j => ~ Updating(job[i]))
  /\ UNCHANGED <<folder, loader, rejected>>

\* Any exception, or the end of the window: the partial folder is removed, or
\* stays where nobody looks for it; a folder that has been promoted stays.
InstallFails(j) ==
  /\ job[j].at # "idle"
  /\ job' = [job EXCEPT ![j] = NoHand(@)]
  /\ undisturbed' = (undisturbed /\ ~ Registering(job[j]))
  /\ UNCHANGED <<folder, listing, draft, loader, rejected>>

--------------------------------------------------------------------------------
(* A worker. *)

\* verify without hashes, and resolve_model_path.
Resolve(m) ==
  /\ loader.at = "idle" /\ Resolved(m) # NoArtifact
  /\ loader' = [loader EXCEPT !.at = "resolved", !.key = m, !.files = Resolved(m)]
  /\ UNCHANGED <<folder, listing, draft, job, rejected, undisturbed>>

\* Mutant: the hash is that of the bundled revision whenever there is none.
ReadHashOrPinned ==
  /\ loader.at = "resolved"
  /\ loader' = [loader EXCEPT !.at = "hashed",
                  !.hash = IF Shown[loader.key] = NoEntry THEN Pinned ELSE Shown[loader.key].hash]
  /\ UNCHANGED <<folder, listing, draft, job, rejected, undisturbed>>

\* model_hash, which every attempt of this worker records.
ReadHash ==
  /\ loader.at = "resolved"
  /\ loader' = [loader EXCEPT !.at = "hashed", !.hash = Shown[loader.key].hash]
  /\ UNCHANGED <<folder, listing, draft, job, rejected, undisturbed>>

Load ==
  /\ loader.at = "hashed" /\ loader.files \notin Refused
  /\ loader' = [loader EXCEPT !.at = "loaded"]
  /\ UNCHANGED <<folder, listing, draft, job, rejected, undisturbed>>

LoadFails ==
  /\ loader.at = "hashed" /\ loader.files \in Refused
  /\ loader' = [loader EXCEPT !.at = "refused"]
  /\ rejected' = rejected \cup {<<loader.key, loader.files>>}
  /\ UNCHANGED <<folder, listing, draft, job, undisturbed>>

\* mark_suspect returns when there is no entry.
NothingToMark ==
  /\ loader.at = "refused" /\ Shown[loader.key] = NoEntry
  /\ loader' = NoHand(loader)
  /\ undisturbed' = FALSE
  /\ UNCHANGED <<folder, listing, draft, job, rejected>>

\* Mutant: the mark keeps the verdict that the files are there.
MarkAsVerified ==
  /\ loader.at = "refused" /\ Shown[loader.key] # NoEntry
  /\ loader' = [loader EXCEPT !.at = "changed", !.next = Shown]
  /\ UNCHANGED <<folder, listing, draft, job, rejected, undisturbed>>

\* mark_suspect reads the registry and changes the verdict.
MarkSuspect ==
  /\ loader.at = "refused" /\ Shown[loader.key] # NoEntry
  /\ loader' = [loader EXCEPT !.at = "changed",
                              !.next = [Shown EXCEPT ![loader.key].verdict = "suspect"]]
  /\ UNCHANGED <<folder, listing, draft, job, rejected, undisturbed>>

MarkDraft ==
  /\ loader.at = "changed"
  /\ draft' = loader.next
  /\ loader' = [loader EXCEPT !.at = "drafted"]
  /\ UNCHANGED <<folder, listing, job, rejected, undisturbed>>

MarkSave ==
  /\ loader.at = "drafted" /\ draft # NoDraft
  /\ listing' = draft /\ draft' = NoDraft
  /\ loader' = NoHand(loader)
  /\ undisturbed' = (undisturbed /\ \A j \in Job : ~ Registering(job[j]))
  /\ UNCHANGED <<folder, job, rejected>>

\* The worker ends: its work is done, the renaming fails, or it dies.
WorkerEnds ==
  /\ loader.at # "idle"
  /\ loader' = NoHand(loader)
  /\ undisturbed' = (undisturbed /\ loader.at # "refused" /\ ~ Updating(loader))
  /\ UNCHANGED <<folder, listing, draft, job, rejected>>

--------------------------------------------------------------------------------
Install(j) ==
  \/ \E m \in Model : BeginDownload(j, m) \/ BeginImport(j, m)
  \/ \E files \in Artifact \cup {Incomplete} : FillFolder(j, files)
  \/ Promote(j) \/ EnterModel(j) \/ DraftListing(j) \/ SaveListing(j) \/ InstallFails(j)

LoaderStep ==
  \/ \E m \in Model : Resolve(m)
  \/ ReadHash \/ Load \/ LoadFails
  \/ NothingToMark \/ MarkSuspect \/ MarkDraft \/ MarkSave \/ WorkerEnds

RegistryNext == LoaderStep \/ \E j \in Job : Install(j)

RegistrySpec == RegistryInit /\ [][RegistryNext]_registryVars

--------------------------------------------------------------------------------
(* Properties. *)

\* At the place of a model there are only complete folders, whatever fails or
\* dies, and once there the files never change: a worker that has resolved them
\* runs with what it has resolved.
FolderIsFinal ==
  [][\A m \in Model :
       /\ folder[m] # NoArtifact => folder'[m] = folder[m]
       /\ folder'[m] # Incomplete]_registryVars

\* The entry of an installed model has the hash of the files in its folder, also
\* when two installations of one model race or an update of the registry is lost.
EntryMatchesFolder ==
  \A m \in Model : listing[m].source = "installed" => folder[m] = listing[m].hash

\* The hash that the attempts of a worker record is that of the weights it runs
\* with, or none, for every model that is not bundled.
RecordedHashIsSound ==
  loader.at \in {"hashed", "loaded"} /\ loader.key \notin Bundled =>
    loader.hash \in {loader.files, NoArtifact}

\* When no update was cut off and none overlapped another, every installed folder
\* has an entry, so that the window offers the model.
FolderIsRegistered ==
  undisturbed =>
    \A m \in Model : folder[m] # NoArtifact =>
      \/ listing[m].source = "installed"
      \/ \E j \in Job : job[j].key = m /\ Registering(job[j])

\* In the same case a model the engine has refused is suspect once the mark has
\* been written, and no later installation of another model takes that back.
RejectionIsKept ==
  undisturbed /\ loader.at = "idle" /\ (\A j \in Job : ~ Registering(job[j])) =>
    \A m \in Model : <<m, Resolved(m)>> \in rejected => listing[m].verdict = "suspect"
================================================================================
