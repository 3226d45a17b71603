---------------------------- MODULE ModelRegistryProofs ----------------------------
(***************************************************************************)
(* Proofs about ModelRegistry for any number of models, of contents of     *)
(* their folders and of installations side by side.                        *)
(***************************************************************************)
EXTENDS ModelRegistry, TLAPS

--------------------------------------------------------------------------------
(* The inductive invariant. *)

\* A registry that is true of the folders F: an entry of an installation has the
\* hash of what is there, and only bundled models have the entry of a bundled one.
TrueOf(L, F) ==
  \A m \in Model : /\ L[m].source = "installed" => F[m] = L[m].hash
                   /\ L[m].source = "bundled" => m \in Bundled

\* Every version of the registry that somebody holds is true.
AllTrue ==
  /\ TrueOf(listing, folder)
  /\ draft # NoDraft => TrueOf(draft, folder)
  /\ \A j \in Job : Updating(job[j]) => job[j].next \in Listing /\ TrueOf(job[j].next, folder)
  /\ Updating(loader) => loader.next \in Listing /\ TrueOf(loader.next, folder)

\* An installation that has renamed its folder finds there what it has filled.
PromotedIsThere ==
  \A j \in Job : Registering(job[j]) =>
    job[j].files \in Artifact /\ folder[job[j].key] = job[j].files

\* What a worker has resolved is still what is there.
ResolvedIsThere ==
  loader.at \in {"resolved", "hashed", "loaded", "refused"} =>
    /\ loader.files \in Artifact
    /\ \/ folder[loader.key] = loader.files
       \/ loader.key \in Bundled /\ loader.files = Pinned

RegistryInv ==
  RegistryTypeOK /\ AllTrue /\ PromotedIsThere /\ ResolvedIsThere /\ RecordedHashIsSound

--------------------------------------------------------------------------------
(* Folders. *)

\* What a step may do to the folders: fill a place that is empty.
OnlyFills ==
  \A m \in Model : /\ folder[m] # NoArtifact => folder'[m] = folder[m]
                   /\ folder'[m] # folder[m] => folder'[m] \in Artifact

\* Every step does no more.
LEMMA StepOnlyFills ==
  ASSUME RegistryTypeOK, [RegistryNext]_registryVars PROVE OnlyFills
<1>1. ASSUME NEW j \in Job, Promote(j) PROVE OnlyFills
  BY <1>1 DEF Promote, OnlyFills, RegistryTypeOK, Hand
<1>2. ASSUME UNCHANGED folder PROVE OnlyFills
  BY <1>2 DEF OnlyFills
<1>3. ASSUME NEW j \in Job, Install(j) PROVE OnlyFills
  BY <1>1, <1>2, <1>3 DEF Install, BeginDownload, BeginImport, BeginInstall, FillFolder,
     EnterModel, DraftListing, SaveListing, InstallFails
<1>4. CASE LoaderStep
  BY <1>2, <1>4 DEF LoaderStep, Resolve, ReadHash, Load, LoadFails, NothingToMark, MarkSuspect,
     MarkDraft, MarkSave, WorkerEnds
<1>5. CASE UNCHANGED registryVars
  BY <1>2, <1>5 DEF registryVars
<1> QED
  BY <1>3, <1>4, <1>5 DEF RegistryNext

\* A true registry stays true when an empty place is filled.
LEMMA TruthStays ==
  ASSUME RegistryTypeOK, OnlyFills, NEW L \in Listing, TrueOf(L, folder)
  PROVE  TrueOf(L, folder')
<1> SUFFICES ASSUME NEW m \in Model, L[m].source = "installed" PROVE folder'[m] = L[m].hash
  BY DEF TrueOf
<1>1. L[m] \in Entry
  BY DEF Listing, NoEntry
<1>2. folder[m] = L[m].hash /\ L[m].hash \in Artifact
  BY <1>1 DEF TrueOf, Entry
<1> QED
  BY <1>2, RegistryAssumption DEF OnlyFills

\* What read() returns is a registry, and a true one.
LEMMA ShownIsTrue ==
  ASSUME RegistryTypeOK, TrueOf(listing, folder)
  PROVE  Shown \in Listing /\ TrueOf(Shown, folder)
<1>1. [hash |-> Pinned, source |-> "bundled", verdict |-> "verified"] \in Entry
  BY RegistryAssumption DEF Entry
<1>2. Shown \in Listing
  BY <1>1 DEF Shown, Listing, RegistryTypeOK
<1>3. TrueOf(Shown, folder)
  BY DEF TrueOf, Shown, NoEntry
<1> QED
  BY <1>2, <1>3

--------------------------------------------------------------------------------
(* The steps of an installation keep the invariant. *)

\* Filling, checking and renaming a folder, and giving up.
LEMMA FolderSteps ==
  ASSUME RegistryInv, OnlyFills, NEW j \in Job,
         \/ \E m \in Model : BeginInstall(j, m)
         \/ \E files \in Artifact \cup {Incomplete} : FillFolder(j, files)
         \/ Promote(j) \/ InstallFails(j)
  PROVE  RegistryInv'
<1>1. job \in [Job -> Hand] /\ job[j] \in Hand /\ loader \in Hand
  BY DEF RegistryInv, RegistryTypeOK
<1>2. NoHand(job[j]) \in Hand /\ ~ Registering(NoHand(job[j]))
  BY <1>1 DEF NoHand, Hand, Registering, Updating
<1>3. UNCHANGED <<listing, draft, loader, rejected>>
  BY DEF BeginInstall, FillFolder, Promote, InstallFails
<1>4. /\ job' \in [Job -> Hand]
      /\ folder' \in [Model -> Artifact \cup {Incomplete, NoArtifact}]
      /\ undisturbed' \in BOOLEAN
      /\ \A i \in Job \ {j} : job'[i] = job[i]
      /\ Registering(job'[j]) => Promote(j)
      /\ ~ Updating(job'[j])
  <2>1. ASSUME NEW m \in Model, BeginInstall(j, m) PROVE <1>4!:
    BY <1>1, <2>1 DEF BeginInstall, Hand, RegistryInv, RegistryTypeOK, Registering, Updating
  <2>2. ASSUME NEW files \in Artifact \cup {Incomplete}, FillFolder(j, files) PROVE <1>4!:
    BY <1>1, <2>2 DEF FillFolder, Hand, RegistryInv, RegistryTypeOK, Registering, Updating
  <2>3. CASE Promote(j)
    BY <1>1, <2>3 DEF Promote, Hand, RegistryInv, RegistryTypeOK, Registering, Updating
  <2>4. CASE InstallFails(j)
    BY <1>1, <1>2, <2>4 DEF InstallFails, RegistryInv, RegistryTypeOK, Registering
  <2> QED
    BY <2>1, <2>2, <2>3, <2>4
<1>5. RegistryTypeOK'
  BY <1>3, <1>4 DEF RegistryInv, RegistryTypeOK
<1>6. AllTrue'
  <2>1. TrueOf(listing, folder)'
    BY <1>3, TruthStays DEF RegistryInv, AllTrue, RegistryTypeOK
  <2>2. (draft # NoDraft => TrueOf(draft, folder))'
    BY <1>3, TruthStays DEF RegistryInv, AllTrue, RegistryTypeOK
  <2>3. ASSUME NEW i \in Job, Updating(job'[i])
        PROVE  job'[i].next \in Listing /\ TrueOf(job'[i].next, folder')
    BY <1>4, <2>3, TruthStays DEF RegistryInv, AllTrue
  <2>4. (Updating(loader) => loader.next \in Listing /\ TrueOf(loader.next, folder))'
    BY <1>3, TruthStays DEF RegistryInv, AllTrue
  <2> QED
    BY <2>1, <2>2, <2>3, <2>4 DEF AllTrue
<1>7. PromotedIsThere'
  <2> SUFFICES ASSUME NEW i \in Job, Registering(job'[i])
               PROVE  job'[i].files \in Artifact /\ folder'[job'[i].key] = job'[i].files
    BY DEF PromotedIsThere
  <2>1. CASE i = j
    <3>1. Promote(j)
      BY <1>4, <2>1
    <3> QED
      BY <1>1, <2>1, <3>1 DEF Promote, Hand, RegistryInv, RegistryTypeOK
  <2>2. CASE i # j
    <3>1. job'[i] = job[i] /\ job[i] \in Hand
      BY <1>1, <1>4, <2>2
    <3>2. job[i].files \in Artifact /\ folder[job[i].key] = job[i].files
      BY <3>1 DEF RegistryInv, PromotedIsThere
    <3> QED
      BY <3>1, <3>2, RegistryAssumption DEF OnlyFills, Hand
  <2> QED
    BY <2>1, <2>2
<1>8. ResolvedIsThere'
  BY <1>1, <1>3, RegistryAssumption DEF RegistryInv, ResolvedIsThere, OnlyFills, Hand
<1>9. RecordedHashIsSound'
  BY <1>3 DEF RegistryInv, RecordedHashIsSound
<1> QED
  BY <1>5, <1>6, <1>7, <1>8, <1>9 DEF RegistryInv

\* Reading, drafting and saving the registry.
LEMMA ListingSteps ==
  ASSUME RegistryInv, NEW j \in Job, EnterModel(j) \/ DraftListing(j) \/ SaveListing(j)
  PROVE  RegistryInv'
<1>1. job \in [Job -> Hand] /\ job[j] \in Hand /\ loader \in Hand
  BY DEF RegistryInv, RegistryTypeOK
<1>2. UNCHANGED <<folder, loader, rejected>>
  BY DEF EnterModel, DraftListing, SaveListing
<1>3. CASE EnterModel(j)
  <2> DEFINE entry == [hash |-> job[j].files, source |-> "installed", verdict |-> "verified"]
             entered == [Shown EXCEPT ![job[j].key] = entry]
  <2>1. job[j].files \in Artifact /\ folder[job[j].key] = job[j].files
    BY <1>3 DEF EnterModel, RegistryInv, PromotedIsThere, Registering
  <2>2. entry \in Entry
    BY <2>1 DEF Entry
  <2>3. Shown \in Listing /\ TrueOf(Shown, folder)
    BY ShownIsTrue DEF RegistryInv, AllTrue
  <2>4. entered \in Listing
    BY <2>2, <2>3 DEF Listing
  <2>5. TrueOf(entered, folder)
    BY <1>1, <2>1, <2>3 DEF TrueOf, Listing, Hand
  <2>6. /\ job' \in [Job -> Hand]
        /\ job'[j].next = entered /\ job'[j].files = job[j].files /\ job'[j].key = job[j].key
        /\ \A i \in Job \ {j} : job'[i] = job[i]
    BY <1>1, <1>3, <2>4 DEF EnterModel, Hand
  <2>7. UNCHANGED <<listing, draft, undisturbed>>
    BY <1>3 DEF EnterModel
  <2>8. RegistryTypeOK'
    BY <1>2, <2>6, <2>7 DEF RegistryInv, RegistryTypeOK
  <2>9. AllTrue'
    BY <1>2, <2>4, <2>5, <2>6, <2>7 DEF RegistryInv, AllTrue
  <2>10. PromotedIsThere'
    BY <1>2, <2>1, <2>6 DEF RegistryInv, PromotedIsThere
  <2> QED
    BY <1>2, <2>8, <2>9, <2>10 DEF RegistryInv, ResolvedIsThere, RecordedHashIsSound
<1>4. CASE DraftListing(j)
  <2>1. Updating(job[j]) /\ Registering(job[j])
    BY <1>4 DEF DraftListing, Updating, Registering
  <2>2. job[j].next \in Listing /\ TrueOf(job[j].next, folder)
    BY <2>1 DEF RegistryInv, AllTrue
  <2>3. /\ job' \in [Job -> Hand]
        /\ \A i \in Job : /\ job'[i].next = job[i].next /\ job'[i].files = job[i].files
                          /\ job'[i].key = job[i].key
                          /\ Updating(job'[i]) => Updating(job[i])
                          /\ Registering(job'[i]) => Registering(job[i])
    BY <1>1, <1>4, <2>1 DEF DraftListing, Hand, Updating, Registering
  <2>4. draft' = job[j].next /\ UNCHANGED <<listing, undisturbed>>
    BY <1>4 DEF DraftListing
  <2>5. RegistryTypeOK'
    BY <1>2, <2>2, <2>3, <2>4 DEF RegistryInv, RegistryTypeOK
  <2>6. AllTrue'
    BY <1>2, <2>2, <2>3, <2>4 DEF RegistryInv, AllTrue
  <2>7. PromotedIsThere'
    BY <1>2, <2>3 DEF RegistryInv, PromotedIsThere
  <2> QED
    BY <1>2, <2>5, <2>6, <2>7 DEF RegistryInv, ResolvedIsThere, RecordedHashIsSound
<1>5. CASE SaveListing(j)
  <2>1. NoHand(job[j]) \in Hand /\ ~ Registering(NoHand(job[j])) /\ ~ Updating(NoHand(job[j]))
    BY <1>1 DEF NoHand, Hand, Registering, Updating
  <2>2. job' \in [Job -> Hand] /\ job'[j] = NoHand(job[j]) /\ \A i \in Job \ {j} : job'[i] = job[i]
    BY <1>1, <1>5, <2>1 DEF SaveListing
  <2>3. draft # NoDraft /\ listing' = draft /\ draft' = NoDraft /\ undisturbed' \in BOOLEAN
    BY <1>5 DEF SaveListing, RegistryInv, RegistryTypeOK
  <2>4. RegistryTypeOK'
    BY <1>2, <2>2, <2>3 DEF RegistryInv, RegistryTypeOK
  <2>5. AllTrue'
    BY <1>2, <2>1, <2>2, <2>3 DEF RegistryInv, AllTrue
  <2>6. PromotedIsThere'
    BY <1>2, <2>1, <2>2 DEF RegistryInv, PromotedIsThere
  <2> QED
    BY <1>2, <2>4, <2>5, <2>6 DEF RegistryInv, ResolvedIsThere, RecordedHashIsSound
<1> QED
  BY <1>3, <1>4, <1>5

--------------------------------------------------------------------------------
(* The steps of a worker keep the invariant. *)

\* What all of them leave alone.
LEMMA LoaderAlone == ASSUME LoaderStep PROVE UNCHANGED <<folder, job>>
BY DEF LoaderStep, Resolve, ReadHash, Load, LoadFails, NothingToMark, MarkSuspect, MarkDraft,
   MarkSave, WorkerEnds

\* Finding a model and loading it.
LEMMA LoadingSteps ==
  ASSUME RegistryInv, (\E m \in Model : Resolve(m)) \/ ReadHash \/ Load \/ LoadFails
  PROVE  RegistryInv'
<1>1. loader \in Hand /\ folder \in [Model -> Artifact \cup {Incomplete, NoArtifact}]
  BY DEF RegistryInv, RegistryTypeOK
<1>2. UNCHANGED <<folder, listing, draft, job, undisturbed>>
  BY DEF Resolve, ReadHash, Load, LoadFails
<1>3. Shown \in Listing /\ TrueOf(Shown, folder)
  BY ShownIsTrue DEF RegistryInv, AllTrue
<1>4. /\ loader' \in Hand /\ rejected' \subseteq Model \X Artifact
      /\ ~ Updating(loader') /\ ResolvedIsThere' /\ RecordedHashIsSound'
  <2>1. ASSUME NEW m \in Model, Resolve(m) PROVE <1>4!:
    <3>1. /\ Resolved(m) \in Artifact
          /\ folder[m] = Resolved(m) \/ (m \in Bundled /\ Resolved(m) = Pinned)
      BY <1>1, <2>1, RegistryAssumption DEF Resolve, Resolved
    <3>2. loader' = [loader EXCEPT !.at = "resolved", !.key = m, !.files = Resolved(m)]
      BY <2>1 DEF Resolve
    <3>3. loader' \in Hand /\ loader'.at = "resolved" /\ loader'.key = m /\ loader'.files = Resolved(m)
      BY <1>1, <3>1, <3>2 DEF Hand
    <3> QED
      BY <1>2, <2>1, <3>1, <3>3 DEF Resolve, Updating, ResolvedIsThere, RecordedHashIsSound,
         RegistryInv, RegistryTypeOK
  <2>2. CASE ReadHash
    <3>1. loader' = [loader EXCEPT !.at = "hashed", !.hash = Shown[loader.key].hash] /\ UNCHANGED rejected
          /\ loader.at = "resolved"
      BY <2>2 DEF ReadHash
    <3>2. Shown[loader.key] \in Entry \cup {NoEntry} /\ loader.key \in Model
      BY <1>1, <1>3 DEF Listing, Hand
    <3>3. Shown[loader.key].hash \in Artifact \cup {NoArtifact}
      BY <3>2 DEF Entry, NoEntry
    <3>4. /\ loader' \in Hand /\ loader'.at = "hashed" /\ loader'.key = loader.key
          /\ loader'.files = loader.files /\ loader'.hash = Shown[loader.key].hash
      BY <1>1, <3>1, <3>3 DEF Hand
    <3>5. loader.key \notin Bundled => loader'.hash \in {loader.files, NoArtifact}
      <4>1. ASSUME loader.key \notin Bundled, Shown[loader.key] # NoEntry
            PROVE  Shown[loader.key].hash = loader.files
        <5>1. Shown[loader.key].source = "installed"
          BY <1>3, <3>2, <4>1 DEF Entry, TrueOf
        <5> QED
          BY <1>3, <3>1, <3>2, <4>1, <5>1 DEF TrueOf, RegistryInv, ResolvedIsThere
      <4> QED
        BY <3>4, <4>1 DEF NoEntry
    <3> QED
      BY <1>2, <3>1, <3>4, <3>5 DEF Updating, ResolvedIsThere, RecordedHashIsSound,
         RegistryInv, RegistryTypeOK
  <2>3. CASE Load
    <3>1. /\ loader' \in Hand /\ loader'.at = "loaded" /\ loader'.key = loader.key
          /\ loader'.files = loader.files /\ loader'.hash = loader.hash
          /\ loader.at = "hashed" /\ UNCHANGED rejected
      BY <1>1, <2>3 DEF Load, Hand
    <3> QED
      BY <1>2, <3>1 DEF Updating, ResolvedIsThere, RecordedHashIsSound, RegistryInv, RegistryTypeOK
  <2>4. CASE LoadFails
    <3>1. /\ loader' \in Hand /\ loader'.at = "refused" /\ loader'.key = loader.key
          /\ loader'.files = loader.files /\ loader.at = "hashed"
          /\ rejected' = rejected \cup {<<loader.key, loader.files>>}
      BY <1>1, <2>4 DEF LoadFails, Hand
    <3>2. loader.files \in Artifact /\ loader.key \in Model
      BY <1>1, <3>1 DEF RegistryInv, ResolvedIsThere, Hand
    <3> QED
      BY <1>2, <3>1, <3>2 DEF Updating, ResolvedIsThere, RecordedHashIsSound, RegistryInv, RegistryTypeOK
  <2> QED
    BY <2>1, <2>2, <2>3, <2>4
<1> QED
  BY <1>2, <1>4 DEF RegistryInv, RegistryTypeOK, AllTrue, PromotedIsThere

\* Marking a model as suspect, and the end.
LEMMA MarkingSteps ==
  ASSUME RegistryInv, NothingToMark \/ MarkSuspect \/ MarkDraft \/ MarkSave \/ WorkerEnds
  PROVE  RegistryInv'
<1>1. loader \in Hand
  BY DEF RegistryInv, RegistryTypeOK
<1>2. UNCHANGED <<folder, job, rejected>>
  BY DEF NothingToMark, MarkSuspect, MarkDraft, MarkSave, WorkerEnds
<1>3. NoHand(loader) \in Hand /\ NoHand(loader).at = "idle"
  BY <1>1 DEF NoHand, Hand
<1>4. /\ loader' \in Hand
      /\ loader'.at \in {"idle", "changed", "drafted"}
      /\ listing' \in Listing /\ TrueOf(listing', folder)
      /\ draft' \in Listing \cup {NoDraft} /\ (draft' # NoDraft => TrueOf(draft', folder))
      /\ Updating(loader') => loader'.next \in Listing /\ TrueOf(loader'.next, folder)
      /\ undisturbed' \in BOOLEAN
  <2>1. CASE NothingToMark \/ WorkerEnds
    BY <1>3, <2>1 DEF NothingToMark, WorkerEnds, RegistryInv, RegistryTypeOK, AllTrue, Updating
  <2>2. CASE MarkSuspect
    <3> DEFINE marked == [Shown EXCEPT ![loader.key].verdict = "suspect"]
    <3>1. Shown \in Listing /\ TrueOf(Shown, folder)
      BY ShownIsTrue DEF RegistryInv, AllTrue
    <3>2. Shown[loader.key] \in Entry /\ loader.key \in Model
      BY <1>1, <2>2, <3>1 DEF MarkSuspect, Listing, Hand
    <3>3. [Shown[loader.key] EXCEPT !.verdict = "suspect"] \in Entry
      BY <3>2 DEF Entry
    <3>4. marked \in Listing
      BY <3>1, <3>3 DEF Listing
    <3>5. TrueOf(marked, folder)
      BY <3>1, <3>2 DEF TrueOf, Listing, Entry
    <3>6. loader' = [loader EXCEPT !.at = "changed", !.next = marked]
          /\ UNCHANGED <<listing, draft, undisturbed>>
      BY <2>2 DEF MarkSuspect
    <3>7. loader' \in Hand /\ loader'.at = "changed" /\ loader'.next = marked
      BY <1>1, <3>4, <3>6 DEF Hand
    <3> QED
      BY <3>4, <3>5, <3>6, <3>7 DEF RegistryInv, RegistryTypeOK, AllTrue
  <2>3. CASE MarkDraft
    <3>1. loader.next \in Listing /\ TrueOf(loader.next, folder)
      BY <2>3 DEF MarkDraft, Updating, RegistryInv, AllTrue
    <3>2. loader' \in Hand /\ loader'.at = "drafted" /\ loader'.next = loader.next
      BY <1>1, <2>3 DEF MarkDraft, Hand
    <3> QED
      BY <2>3, <3>1, <3>2 DEF MarkDraft, RegistryInv, RegistryTypeOK, AllTrue
  <2>4. CASE MarkSave
    BY <1>3, <2>4 DEF MarkSave, RegistryInv, RegistryTypeOK, AllTrue, Updating
  <2> QED
    BY <2>1, <2>2, <2>3, <2>4
<1>5. RegistryTypeOK'
  BY <1>2, <1>4 DEF RegistryInv, RegistryTypeOK
<1>6. AllTrue'
  BY <1>2, <1>4 DEF RegistryInv, AllTrue
<1> QED
  BY <1>2, <1>4, <1>5, <1>6 DEF RegistryInv, PromotedIsThere, ResolvedIsThere, RecordedHashIsSound

--------------------------------------------------------------------------------
(* Updates of the registry that do not overlap. *)

\* The worker has found that the engine refuses m, and has not yet said so.
Marking(m) == loader.at \in {"refused", "changed", "drafted"} /\ loader.key = m

Entered(j) ==
  [Shown EXCEPT ![job[j].key] =
     [hash |-> job[j].files, source |-> "installed", verdict |-> "verified"]]

Marked == [Shown EXCEPT ![loader.key].verdict = "suspect"]

\* Whoever updates the registry has read what is still in it, and the temporary
\* file is of one of those that have filled it.
UpdatesAreCurrent ==
  /\ \A j \in Job : Updating(job[j]) => job[j].next = Entered(j)
  /\ Updating(loader) => loader.next = Marked /\ Shown[loader.key] # NoEntry
  /\ (loader.at = "drafted" \/ \E j \in Job : job[j].at = "drafted") =>
       \/ loader.at = "drafted" /\ draft = loader.next
       \/ \E j \in Job : job[j].at = "drafted" /\ draft = job[j].next

EveryFolderHasEntry ==
  \A m \in Model : folder[m] # NoArtifact =>
    \/ listing[m].source = "installed"
    \/ \E j \in Job : job[j].key = m /\ Registering(job[j])

Rejected(m) == \E f \in Artifact : <<m, f>> \in rejected

\* A rejected model is suspect, or the worker is about to make it so; in the second
\* case alone may an installation of it still be unregistered.
RejectedIsMarked ==
  \A m \in Model : Rejected(m) =>
    /\ listing[m].verdict = "suspect" \/ Marking(m)
    /\ \A j \in Job : Registering(job[j]) /\ job[j].key = m => Marking(m)

\* What has been rejected is what lies in the folder.
RejectedIsThere ==
  \A m \in Model, f \in Artifact : <<m, f>> \in rejected => folder[m] = f

SerialInv == undisturbed => UpdatesAreCurrent /\ EveryFolderHasEntry

\* This is kept where the bundled files load: a bundled model that does not may be
\* imported, which takes its mark away.
MarkingInv == RejectedIsThere /\ (undisturbed => RejectedIsMarked)

\* What read() returns has the entries of the registry.
LEMMA ShownKeeps ==
  \A m \in Model : listing[m] # NoEntry => Shown[m] = listing[m]
BY DEF Shown

\* The temporary file, when only one has filled it.
LEMMA DraftIsOwn ==
  ASSUME RegistryInv, UpdatesAreCurrent
  PROVE  /\ \A j \in Job : /\ job[j].at = "drafted" /\ ~ Updating(loader)
                           /\ \A i \in Job : i # j => ~ Updating(job[i])
                           => draft = Entered(j)
         /\ loader.at = "drafted" /\ (\A j \in Job : ~ Updating(job[j])) => draft = Marked
BY DEF UpdatesAreCurrent, Updating

\* An installation keeps its updates current and its folder registered.
LEMMA InstallIsSerial ==
  ASSUME RegistryInv, SerialInv, NEW j \in Job, Install(j) PROVE SerialInv'
<1> SUFFICES ASSUME undisturbed' PROVE (UpdatesAreCurrent /\ EveryFolderHasEntry)'
  BY DEF SerialInv
<1>1. /\ job \in [Job -> Hand] /\ job[j] \in Hand /\ loader \in Hand
      /\ folder \in [Model -> Artifact \cup {Incomplete, NoArtifact}]
  BY DEF RegistryInv, RegistryTypeOK
<1>2. undisturbed /\ UNCHANGED loader
  BY DEF Install, BeginDownload, BeginImport, BeginInstall, FillFolder, Promote, EnterModel,
     DraftListing, SaveListing, InstallFails
<1>3. UpdatesAreCurrent /\ EveryFolderHasEntry
  BY <1>2 DEF SerialInv
<1>4. NoHand(job[j]).at = "idle"
  BY <1>1 DEF NoHand, Hand
<1>5. ASSUME /\ UNCHANGED <<listing, draft>> /\ ~ Updating(job[j]) /\ ~ Updating(job'[j])
             /\ \A i \in Job : i # j => job'[i] = job[i]
      PROVE  UpdatesAreCurrent'
  <2>1. UNCHANGED <<Shown, Marked>> /\ \A i \in Job : i # j => Entered(i)' = Entered(i)
    BY <1>2, <1>5 DEF Shown, Entered, Marked
  <2> QED
    BY <1>2, <1>3, <1>5, <2>1 DEF UpdatesAreCurrent, Updating
<1>6. ASSUME /\ UNCHANGED <<listing, folder>>
             /\ \A i \in Job : i # j => job'[i] = job[i]
             /\ Registering(job[j]) => Registering(job'[j]) /\ job'[j].key = job[j].key
      PROVE  EveryFolderHasEntry'
  BY <1>3, <1>6 DEF EveryFolderHasEntry
<1>7. ASSUME \/ \E m \in Model : BeginInstall(j, m)
             \/ \E files \in Artifact \cup {Incomplete} : FillFolder(j, files)
             \/ InstallFails(j)
      PROVE  (UpdatesAreCurrent /\ EveryFolderHasEntry)'
  <2>1. /\ UNCHANGED <<folder, listing, draft>>
        /\ ~ Registering(job[j]) /\ ~ Registering(job'[j])
        /\ \A i \in Job : i # j => job'[i] = job[i]
    <3>1. ASSUME NEW m \in Model, BeginInstall(j, m) PROVE <2>1!:
      BY <1>1, <3>1 DEF BeginInstall, Hand, Registering, Updating
    <3>2. ASSUME NEW files \in Artifact \cup {Incomplete}, FillFolder(j, files) PROVE <2>1!:
      BY <1>1, <3>2 DEF FillFolder, Hand, Registering, Updating
    <3>3. CASE InstallFails(j)
      BY <1>1, <1>4, <3>3 DEF InstallFails, Registering, Updating
    <3> QED
      BY <1>7, <3>1, <3>2, <3>3
  <2> QED
    BY <1>5, <1>6, <2>1 DEF Registering
<1>8. CASE Promote(j)
  <2>1. /\ UNCHANGED <<listing, draft>> /\ job[j].at = "filled" /\ job'[j].at = "promoted"
        /\ job'[j].key = job[j].key
        /\ \A i \in Job : i # j => job'[i] = job[i]
        /\ \A m \in Model : m # job[j].key => folder'[m] = folder[m]
    BY <1>1, <1>8 DEF Promote, Hand
  <2> QED
    BY <1>3, <1>5, <2>1 DEF EveryFolderHasEntry, Registering, Updating
<1>9. CASE EnterModel(j)
  <2>1. /\ UNCHANGED <<folder, listing, draft>> /\ job[j].at = "promoted" /\ job'[j].at = "changed"
        /\ job'[j].key = job[j].key /\ job'[j].files = job[j].files /\ job'[j].next = Entered(j)
        /\ \A i \in Job : i # j => job'[i] = job[i]
    BY <1>1, <1>9 DEF EnterModel, Hand, Entered
  <2>2. UNCHANGED <<Shown, Marked>> /\ \A i \in Job : Entered(i)' = Entered(i)
    BY <1>2, <2>1 DEF Shown, Entered, Marked
  <2>3. UpdatesAreCurrent'
    BY <1>2, <1>3, <2>1, <2>2 DEF UpdatesAreCurrent, Updating
  <2> QED
    BY <1>6, <2>1, <2>3 DEF Registering, Updating
<1>10. CASE DraftListing(j)
  <2>1. /\ UNCHANGED <<folder, listing>> /\ job[j].at = "changed" /\ job'[j].at = "drafted"
        /\ job'[j].key = job[j].key /\ job'[j].files = job[j].files
        /\ job'[j].next = job[j].next /\ draft' = job[j].next
        /\ \A i \in Job : i # j => job'[i] = job[i]
    BY <1>1, <1>10 DEF DraftListing, Hand
  <2>2. UNCHANGED <<Shown, Marked>> /\ \A i \in Job : Entered(i)' = Entered(i)
    BY <1>2, <2>1 DEF Shown, Entered, Marked
  <2>3. UpdatesAreCurrent'
    BY <1>2, <1>3, <2>1, <2>2 DEF UpdatesAreCurrent, Updating
  <2> QED
    BY <1>6, <2>1, <2>3 DEF Registering, Updating
<1>11. CASE SaveListing(j)
  <2>1. /\ ~ Updating(loader) /\ \A i \in Job : i # j => ~ Updating(job[i])
        /\ UNCHANGED folder /\ listing' = draft /\ job[j].at = "drafted"
        /\ \A i \in Job : i # j => job'[i] = job[i]
        /\ job'[j].at = "idle"
    BY <1>1, <1>4, <1>11 DEF SaveListing
  <2>2. listing' = Entered(j)
    BY <1>3, <2>1, DraftIsOwn
  <2>3. UpdatesAreCurrent'
    BY <1>2, <2>1 DEF UpdatesAreCurrent, Updating
  <2>4. Shown \in Listing
    BY ShownIsTrue DEF RegistryInv, AllTrue
  <2>5. \A m \in Model : listing[m].source = "installed" => listing'[m].source = "installed"
    BY <1>1, <2>2, <2>4, ShownKeeps DEF Entered, Hand, Listing, NoEntry
  <2>6. listing'[job[j].key].source = "installed"
    BY <1>1, <2>2, <2>4 DEF Entered, Hand, Listing
  <2>7. EveryFolderHasEntry'
    BY <1>3, <2>1, <2>5, <2>6 DEF EveryFolderHasEntry
  <2> QED
    BY <2>3, <2>7
<1> QED
  BY <1>7, <1>8, <1>9, <1>10, <1>11 DEF Install, BeginDownload, BeginImport

\* A worker does the same, and what it saves keeps the entries there are.
LEMMA LoaderIsSerial ==
  ASSUME RegistryInv, SerialInv, LoaderStep PROVE SerialInv'
<1> SUFFICES ASSUME undisturbed' PROVE (UpdatesAreCurrent /\ EveryFolderHasEntry)'
  BY DEF SerialInv
<1>1. loader \in Hand /\ NoHand(loader).at = "idle"
  BY DEF RegistryInv, RegistryTypeOK, NoHand, Hand
<1>2. undisturbed /\ UNCHANGED <<folder, job>>
  BY LoaderAlone DEF LoaderStep, Resolve, ReadHash, Load, LoadFails, NothingToMark, MarkSuspect,
     MarkDraft, MarkSave, WorkerEnds
<1>3. UpdatesAreCurrent /\ EveryFolderHasEntry
  BY <1>2 DEF SerialInv
<1>4. CASE MarkSave
  <2>1. /\ \A j \in Job : ~ Registering(job[j])
        /\ loader.at = "drafted" /\ listing' = draft /\ loader'.at = "idle"
    BY <1>1, <1>4 DEF MarkSave
  <2>2. listing' = Marked
    BY <1>3, <2>1, DraftIsOwn DEF Registering
  <2>3. Shown \in Listing /\ Shown[loader.key] # NoEntry /\ loader.key \in Model
    BY <1>1, <1>3, <2>1, ShownIsTrue DEF RegistryInv, AllTrue, UpdatesAreCurrent, Updating, Hand
  <2>4. \A m \in Model : Shown[m].source = listing'[m].source
    BY <2>2, <2>3 DEF Marked, Listing, Entry, NoEntry
  <2>5. \A m \in Model : listing[m].source = "installed" => listing'[m].source = "installed"
    BY <2>4, ShownKeeps DEF NoEntry
  <2>6. UpdatesAreCurrent'
    BY <1>2, <2>1 DEF UpdatesAreCurrent, Updating, Registering
  <2> QED
    BY <1>2, <1>3, <2>5, <2>6 DEF EveryFolderHasEntry
<1>5. ASSUME UNCHANGED listing PROVE EveryFolderHasEntry' /\ Shown' = Shown
             /\ \A j \in Job : Entered(j)' = Entered(j)
  BY <1>2, <1>3, <1>5 DEF EveryFolderHasEntry, Shown, Entered
<1>6. CASE MarkSuspect
  <2>1. /\ loader'.at = "changed" /\ loader'.next = Marked /\ loader'.key = loader.key
        /\ loader.at = "refused" /\ Shown[loader.key] # NoEntry /\ UNCHANGED <<listing, draft>>
    BY <1>1, <1>6 DEF MarkSuspect, Marked, Hand
  <2>2. Marked' = Marked
    BY <1>5, <2>1 DEF Marked
  <2> QED
    BY <1>2, <1>3, <1>5, <2>1, <2>2 DEF UpdatesAreCurrent, Updating
<1>7. CASE MarkDraft
  <2>1. /\ loader.at = "changed" /\ loader'.at = "drafted" /\ loader'.key = loader.key
        /\ loader'.next = loader.next /\ draft' = loader.next /\ UNCHANGED listing
    BY <1>1, <1>7 DEF MarkDraft, Hand
  <2>2. Marked' = Marked
    BY <1>5, <2>1 DEF Marked
  <2> QED
    BY <1>2, <1>3, <1>5, <2>1, <2>2 DEF UpdatesAreCurrent, Updating
<1>8. ASSUME (\E m \in Model : Resolve(m)) \/ ReadHash \/ Load \/ LoadFails \/ NothingToMark \/ WorkerEnds
      PROVE  (UpdatesAreCurrent /\ EveryFolderHasEntry)'
  <2>1. ~ Updating(loader) /\ ~ Updating(loader') /\ UNCHANGED <<listing, draft>>
    BY <1>1, <1>8 DEF Resolve, ReadHash, Load, LoadFails, NothingToMark, WorkerEnds, Updating, Hand
  <2> QED
    BY <1>2, <1>3, <1>5, <2>1 DEF UpdatesAreCurrent, Updating
<1> QED
  BY <1>4, <1>6, <1>7, <1>8 DEF LoaderStep

\* What has been rejected stays where it is.
LEMMA RejectedStays ==
  ASSUME Pinned \notin Refused, RegistryInv, RejectedIsThere, [RegistryNext]_registryVars
  PROVE  RejectedIsThere'
<1> SUFFICES ASSUME NEW m \in Model, NEW f \in Artifact, <<m, f>> \in rejected'
             PROVE  folder'[m] = f
  BY DEF RejectedIsThere
<1>1. OnlyFills
  BY StepOnlyFills DEF RegistryInv
<1>2. CASE <<m, f>> \in rejected
  BY <1>1, <1>2, RegistryAssumption DEF RejectedIsThere, OnlyFills
<1>3. CASE <<m, f>> \notin rejected
  <2>1. LoadFails
    BY <1>3 DEF RegistryNext, registryVars, Install, BeginDownload, BeginImport, BeginInstall,
       FillFolder, Promote, EnterModel, DraftListing, SaveListing, InstallFails, LoaderStep,
       Resolve, ReadHash, Load, NothingToMark, MarkSuspect, MarkDraft, MarkSave, WorkerEnds
  <2>2. /\ loader.key = m /\ loader.files = f /\ loader.files \in Refused
        /\ loader.at = "hashed" /\ UNCHANGED folder
    BY <1>3, <2>1 DEF LoadFails
  <2> QED
    BY <2>2 DEF RegistryInv, ResolvedIsThere
<1> QED
  BY <1>2, <1>3

\* No installation takes a mark away, unless it is disturbed.
LEMMA InstallKeepsMarks ==
  ASSUME RegistryInv, SerialInv, MarkingInv, NEW j \in Job, Install(j), undisturbed'
  PROVE  RejectedIsMarked'
<1>1. /\ job \in [Job -> Hand] /\ job[j] \in Hand
      /\ folder \in [Model -> Artifact \cup {Incomplete, NoArtifact}]
  BY DEF RegistryInv, RegistryTypeOK
<1>2. undisturbed /\ UNCHANGED <<loader, rejected>>
  BY DEF Install, BeginDownload, BeginImport, BeginInstall, FillFolder, Promote, EnterModel,
     DraftListing, SaveListing, InstallFails
<1>3. RejectedIsMarked /\ UpdatesAreCurrent
  BY <1>2 DEF MarkingInv, SerialInv
<1>4. \A m \in Model : /\ Rejected(m)' = Rejected(m) /\ Marking(m)' = Marking(m)
  BY <1>2 DEF Rejected, Marking
<1>5. ASSUME /\ UNCHANGED listing /\ \A i \in Job : i # j => job'[i] = job[i]
             /\ Registering(job'[j]) => Registering(job[j]) /\ job'[j].key = job[j].key
      PROVE  RejectedIsMarked'
  BY <1>3, <1>4, <1>5 DEF RejectedIsMarked
<1>6. NoHand(job[j]).at = "idle"
  BY <1>1 DEF NoHand, Hand
<1>7. ASSUME NEW m \in Model, BeginInstall(j, m) PROVE RejectedIsMarked'
  BY <1>1, <1>5, <1>7 DEF BeginInstall, Hand, Registering, Updating
<1>8. ASSUME NEW files \in Artifact \cup {Incomplete}, FillFolder(j, files) PROVE RejectedIsMarked'
  BY <1>1, <1>5, <1>8 DEF FillFolder, Hand, Registering, Updating
<1>9. CASE InstallFails(j)
  BY <1>1, <1>5, <1>6, <1>9 DEF InstallFails, Registering, Updating
<1>10. CASE EnterModel(j) \/ DraftListing(j)
  <2>1. /\ UNCHANGED listing /\ \A i \in Job : i # j => job'[i] = job[i]
        /\ Registering(job[j]) /\ job'[j].key = job[j].key
    BY <1>1, <1>10 DEF EnterModel, DraftListing, Hand, Registering, Updating
  <2> QED
    BY <1>5, <2>1
<1>11. CASE Promote(j)
  <2>1. /\ UNCHANGED listing /\ \A i \in Job : i # j => job'[i] = job[i]
        /\ folder[job[j].key] = NoArtifact /\ job'[j].key = job[j].key
    BY <1>1, <1>11 DEF Promote, Hand
  <2>2. ~ Rejected(job[j].key)
    BY <1>1, <2>1, RegistryAssumption DEF MarkingInv, RejectedIsThere, Rejected, Hand
  <2> QED
    BY <1>3, <1>4, <2>1, <2>2 DEF RejectedIsMarked
<1>12. CASE SaveListing(j)
  <2>1. /\ ~ Updating(loader) /\ \A i \in Job : i # j => ~ Updating(job[i])
        /\ listing' = draft /\ job[j].at = "drafted" /\ Registering(job[j])
        /\ \A i \in Job : i # j => job'[i] = job[i]
        /\ ~ Registering(job'[j])
    BY <1>1, <1>6, <1>12 DEF SaveListing, Registering, Updating
  <2>2. listing' = Entered(j)
    BY <1>3, <2>1, DraftIsOwn
  <2>3. Shown \in Listing
    BY ShownIsTrue DEF RegistryInv, AllTrue
  <2>4. \A m \in Model : m # job[j].key /\ listing[m].verdict = "suspect"
          => listing'[m].verdict = "suspect"
    BY <2>2, <2>3, ShownKeeps DEF Entered, Listing, NoEntry
  <2>5. Rejected(job[j].key) => Marking(job[j].key)
    BY <1>1, <1>3, <2>1 DEF RejectedIsMarked, Hand
  <2> QED
    BY <1>3, <1>4, <2>1, <2>4, <2>5 DEF RejectedIsMarked
<1> QED
  BY <1>7, <1>8, <1>9, <1>10, <1>11, <1>12 DEF Install, BeginDownload, BeginImport

\* A worker that has seen its model rejected marks it, unless it is disturbed.
LEMMA LoaderKeepsMarks ==
  ASSUME RegistryInv, SerialInv, MarkingInv, LoaderStep, undisturbed'
  PROVE  RejectedIsMarked'
<1>1. loader \in Hand /\ NoHand(loader).at = "idle"
  BY DEF RegistryInv, RegistryTypeOK, NoHand, Hand
<1>2. undisturbed /\ UNCHANGED <<folder, job>>
  BY LoaderAlone DEF LoaderStep, Resolve, ReadHash, Load, LoadFails, NothingToMark, MarkSuspect,
     MarkDraft, MarkSave, WorkerEnds
<1>3. RejectedIsMarked /\ UpdatesAreCurrent
  BY <1>2 DEF MarkingInv, SerialInv
<1>4. ASSUME UNCHANGED <<listing, rejected>>, \A m \in Model : Marking(m) => Marking(m)'
      PROVE  RejectedIsMarked'
  BY <1>2, <1>3, <1>4 DEF RejectedIsMarked, Rejected
<1>5. CASE MarkSave
  <2>1. /\ \A j \in Job : ~ Registering(job[j])
        /\ loader.at = "drafted" /\ listing' = draft /\ UNCHANGED rejected
    BY <1>1, <1>5 DEF MarkSave
  <2>2. listing' = Marked
    BY <1>3, <2>1, DraftIsOwn DEF Registering
  <2>3. Shown \in Listing /\ Shown[loader.key] \in Entry
    <3>1. Shown \in Listing /\ Shown[loader.key] # NoEntry /\ loader.key \in Model
      BY <1>1, <1>3, <2>1, ShownIsTrue DEF RegistryInv, AllTrue, UpdatesAreCurrent, Updating, Hand
    <3> QED
      BY <3>1 DEF Listing
  <2>4. \A m \in Model : listing[m].verdict = "suspect" \/ m = loader.key
          => listing'[m].verdict = "suspect"
    BY <2>2, <2>3, ShownKeeps DEF Marked, Listing, Entry, NoEntry
  <2> QED
    BY <1>2, <1>3, <2>1, <2>4 DEF RejectedIsMarked, Rejected, Marking
<1>6. CASE LoadFails
  <2>1. /\ loader'.at = "refused" /\ loader'.key = loader.key /\ loader.at = "hashed"
        /\ rejected' = rejected \cup {<<loader.key, loader.files>>} /\ UNCHANGED listing
    BY <1>1, <1>6 DEF LoadFails, Hand
  <2>2. \A m \in Model : Rejected(m)' => Rejected(m) \/ Marking(m)'
    BY <2>1 DEF Rejected, Marking
  <2>3. \A m \in Model : ~ Marking(m)
    BY <2>1 DEF Marking
  <2> QED
    BY <1>2, <1>3, <2>1, <2>2, <2>3 DEF RejectedIsMarked
<1>7. CASE MarkSuspect \/ MarkDraft
  BY <1>1, <1>4, <1>7 DEF MarkSuspect, MarkDraft, Marking, Hand
<1>8. CASE (\E m \in Model : Resolve(m)) \/ ReadHash \/ Load \/ NothingToMark \/ WorkerEnds
  <2>1. UNCHANGED <<listing, rejected>> /\ loader.at \notin {"refused", "changed", "drafted"}
    BY <1>1, <1>8 DEF Resolve, ReadHash, Load, NothingToMark, WorkerEnds, Updating
  <2> QED
    BY <1>4, <2>1 DEF Marking
<1> QED
  BY <1>5, <1>6, <1>7, <1>8 DEF LoaderStep

--------------------------------------------------------------------------------
(* The theorems. *)

\* The invariant holds at the start.
LEMMA RegistryStarts == ASSUME RegistryInit PROVE RegistryInv
<1>1. PICK h \in Hand : h.at = "idle" /\ job = [j \in Job |-> h] /\ loader = h
  BY DEF RegistryInit, Hand
<1>2. listing \in Listing /\ TrueOf(listing, folder)
  BY DEF RegistryInit, Listing, TrueOf, NoEntry
<1>3. RegistryTypeOK
  BY <1>1, <1>2 DEF RegistryInit, RegistryTypeOK
<1>4. \A j \in Job : job[j].at = "idle"
  BY <1>1
<1>5. AllTrue /\ PromotedIsThere
  BY <1>1, <1>2, <1>4 DEF RegistryInit, AllTrue, PromotedIsThere, Updating, Registering
<1> QED
  BY <1>1, <1>3, <1>5 DEF RegistryInv, ResolvedIsThere, RecordedHashIsSound

\* Every step keeps it.
LEMMA RegistrySteps ==
  ASSUME RegistryInv, [RegistryNext]_registryVars PROVE RegistryInv'
<1>1. OnlyFills
  BY StepOnlyFills DEF RegistryInv
<1>2. ASSUME NEW j \in Job, Install(j) PROVE RegistryInv'
  <2>1. \/ \E m \in Model : BeginInstall(j, m)
        \/ \E files \in Artifact \cup {Incomplete} : FillFolder(j, files)
        \/ Promote(j) \/ InstallFails(j) \/ EnterModel(j) \/ DraftListing(j) \/ SaveListing(j)
    BY <1>2 DEF Install, BeginDownload, BeginImport
  <2> QED
    BY <1>1, <2>1, FolderSteps, ListingSteps
<1>3. CASE LoaderStep
  BY <1>3, LoadingSteps, MarkingSteps DEF LoaderStep
<1>4. CASE UNCHANGED registryVars
  BY <1>4 DEF registryVars, RegistryInv, RegistryTypeOK, AllTrue, PromotedIsThere, ResolvedIsThere,
     RecordedHashIsSound, Updating, Registering
<1> QED
  BY <1>2, <1>3, <1>4 DEF RegistryNext

\* Whatever installations race, fail or die, the registry is true of the folders and
\* so is every version of it that is about to be written.
THEOREM RegistryInvariant == RegistrySpec => []RegistryInv
BY RegistryStarts, RegistrySteps, PTL DEF RegistrySpec

\* The types of all variables.
THEOREM RegistryTypes == RegistrySpec => []RegistryTypeOK
<1>1. RegistryInv => RegistryTypeOK
  BY DEF RegistryInv
<1> QED
  BY <1>1, RegistryInvariant, PTL

\* The entry of an installed model has the hash of what is in its folder.
THEOREM EntriesMatchFolders == RegistrySpec => []EntryMatchesFolder
<1>1. RegistryInv => EntryMatchesFolder
  BY DEF RegistryInv, AllTrue, TrueOf, EntryMatchesFolder
<1> QED
  BY <1>1, RegistryInvariant, PTL

\* What an attempt records as the hash of its model is the hash of the weights the
\* worker runs with, or none.
THEOREM RecordedHashes == RegistrySpec => []RecordedHashIsSound
<1>1. RegistryInv => RecordedHashIsSound
  BY DEF RegistryInv
<1> QED
  BY <1>1, RegistryInvariant, PTL

\* Undisturbed, every installed folder has an entry, or the update that will give it
\* one is under way.
LEMMA SerialUpdates == RegistrySpec => []SerialInv
<1>1. RegistryInit => SerialInv
  BY DEF RegistryInit, SerialInv, UpdatesAreCurrent, EveryFolderHasEntry, Updating
<1>2. RegistryInv /\ SerialInv /\ [RegistryNext]_registryVars => SerialInv'
  <2>1. ASSUME RegistryInv, SerialInv, UNCHANGED registryVars PROVE SerialInv'
    BY <2>1 DEF registryVars, SerialInv, UpdatesAreCurrent, EveryFolderHasEntry, Updating,
       Registering, Shown, Entered, Marked
  <2> QED
    BY <2>1, InstallIsSerial, LoaderIsSerial DEF RegistryNext
<1> QED
  BY <1>1, <1>2, RegistryInvariant, PTL DEF RegistrySpec

\* An installed model is never left out of the registry by updates that do not
\* overlap and are not cut off.
THEOREM FoldersAreRegistered == RegistrySpec => []FolderIsRegistered
<1>1. SerialInv => FolderIsRegistered
  BY DEF SerialInv, EveryFolderHasEntry, FolderIsRegistered
<1> QED
  BY <1>1, SerialUpdates, PTL

\* A model that the engine has refused stays suspect, if the bundled files load.
THEOREM RejectionsAreKept == (Pinned \notin Refused) /\ RegistrySpec => []RejectionIsKept
<1> SUFFICES ASSUME Pinned \notin Refused PROVE RegistrySpec => []RejectionIsKept
  OBVIOUS
<1>1. RegistryInit => MarkingInv
  BY DEF RegistryInit, MarkingInv, RejectedIsThere, RejectedIsMarked, Rejected
<1>2. RegistryInv /\ SerialInv /\ MarkingInv /\ [RegistryNext]_registryVars => MarkingInv'
  <2> SUFFICES ASSUME RegistryInv, SerialInv, MarkingInv, [RegistryNext]_registryVars
               PROVE  MarkingInv'
    OBVIOUS
  <2>1. RejectedIsThere'
    BY RejectedStays DEF MarkingInv
  <2>2. ASSUME UNCHANGED registryVars, undisturbed' PROVE RejectedIsMarked'
    BY <2>2 DEF registryVars, MarkingInv, RejectedIsMarked, Rejected, Marking, Registering, Updating
  <2> QED
    BY <2>1, <2>2, InstallKeepsMarks, LoaderKeepsMarks DEF RegistryNext, MarkingInv
<1>3. RegistryInv /\ MarkingInv => RejectionIsKept
  <2> SUFFICES ASSUME RegistryInv, MarkingInv, undisturbed, loader.at = "idle",
                      NEW m \in Model, <<m, Resolved(m)>> \in rejected
               PROVE  listing[m].verdict = "suspect"
    BY DEF RejectionIsKept
  <2>1. Rejected(m)
    BY DEF Rejected, RegistryInv, RegistryTypeOK
  <2> QED
    BY <2>1 DEF MarkingInv, RejectedIsMarked, Marking
<1> QED
  BY <1>1, <1>2, <1>3, RegistryInvariant, SerialUpdates, PTL DEF RegistrySpec

\* The folder of a model is complete from its first moment and never changes.
THEOREM FoldersAreFinal == RegistrySpec => FolderIsFinal
<1> DEFINE whole == \A m \in Model : folder[m] # Incomplete
           step == \A m \in Model : /\ folder[m] # NoArtifact => folder'[m] = folder[m]
                                    /\ folder'[m] # Incomplete
<1>1. RegistryInit => whole
  BY RegistryAssumption DEF RegistryInit
<1>2. RegistryInv /\ whole /\ [RegistryNext]_registryVars => step /\ whole'
  <2>1. RegistryInv /\ [RegistryNext]_registryVars => OnlyFills
    BY StepOnlyFills DEF RegistryInv
  <2> QED
    BY <2>1, RegistryAssumption DEF OnlyFills
<1> HIDE DEF whole
<1>3. RegistrySpec => []whole
  BY <1>1, <1>2, RegistryInvariant, PTL DEF RegistrySpec
<1>4. RegistrySpec => [][step]_registryVars
  BY <1>2, <1>3, RegistryInvariant, PTL DEF RegistrySpec
<1> QED
  BY <1>4 DEF FolderIsFinal
================================================================================
