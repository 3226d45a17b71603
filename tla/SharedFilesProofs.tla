------------------------------ MODULE SharedFilesProofs ------------------------------
(***************************************************************************)
(* Proofs about the files that processes share: ConfigFile, for any number *)
(* of writers, folders and values; StatusFile, for any number of workers;  *)
(* DatabaseFile, for any number of processes, of migrations and of         *)
(* seconds; Exports, for any number of exports, folders, recordings and    *)
(* days.  The parts do not use each other.                                 *)
(***************************************************************************)
EXTENDS ConfigFile, StatusFile, DatabaseFile, Exports, TLAPS

--------------------------------------------------------------------------------
(* ConfigFile: type correctness. *)

\* A change gives valid settings.
LEMMA AppliedType ==
  ASSUME NEW c \in Change, NEW s \in Settings PROVE Applied(c, s) \in Settings
<1>1. CASE c.what = "archive"
  <2>1. c.value \in Folder
    BY <1>1 DEF Change
  <2> QED
    BY <1>1, <2>1 DEF Applied, Settings
<1>2. CASE c.what = "files"
  <2>1. c.value \in Folder
    BY <1>2 DEF Change
  <2> QED
    BY <1>2, <2>1 DEF Applied, Settings
<1>3. CASE c.what = "no files"
  BY <1>3 DEF Applied, Settings
<1>4. CASE c.what = "prefs"
  <2>1. c.value \in Pref
    BY <1>4 DEF Change
  <2> QED
    BY <1>4, <2>1 DEF Applied, Settings
<1>5. CASE c.what = "nothing"
  BY <1>5 DEF Applied
<1> QED
  BY <1>1, <1>2, <1>3, <1>4, <1>5 DEF Change

\* So do the defaults and what load() returns.
LEMMA LoadedType == Defaults \in Settings /\ Loaded \in Settings
<1>1. Defaults \in Settings
  BY ConfigAssumption DEF Defaults, Settings
<1> QED
  BY <1>1 DEF Loaded

LEMMA NoSaveType == NoSave \in WriterState /\ NoSave.at = "idle"
<1>1. NoChange \in Change
  BY DEF NoChange, Change
<1> QED
  BY <1>1, LoadedType DEF NoSave, WriterState

\* A save keeps the types, and touches no other.
LEMMA SaveTypes ==
  ASSUME ConfigTypeOK, NEW w \in Writer, SaveStep(w)
  PROVE  /\ ConfigTypeOK'
         /\ \A v \in Writer : v # w => writer'[v] = writer[v]
<1>1. writer \in [Writer -> WriterState] /\ writer[w] \in WriterState
  BY DEF ConfigTypeOK
<1>2. CASE BeginSave(w)
  <2>1. PICK c \in Change :
          writer' = [writer EXCEPT ![w] = [at |-> "changed", change |-> c,
                                           next |-> Applied(c, Loaded)]]
    BY <1>2 DEF BeginSave
  <2>2. [at |-> "changed", change |-> c, next |-> Applied(c, Loaded)] \in WriterState
    BY AppliedType, LoadedType DEF WriterState
  <2>3. saves' \in 0 .. MaxSave
    BY <1>2, ConfigAssumption DEF BeginSave, ConfigTypeOK
  <2> QED
    BY <1>1, <1>2, <2>1, <2>2, <2>3 DEF BeginSave, ConfigTypeOK
<1>3. CASE DraftConfig(w)
  BY <1>1, <1>3 DEF DraftConfig, ConfigTypeOK, WriterState, Written
<1>4. CASE PromoteConfig(w)
  <2>1. config' \in Contents /\ configTemp' \in Written
    BY <1>4 DEF PromoteConfig, ConfigTypeOK, Written, Contents
  <2>2. chosen' \in Settings \cup {Newer} /\ earlier' \subseteq Settings \cup {Newer}
    BY <1>1, <1>4, AppliedType DEF PromoteConfig, Chooses, ConfigTypeOK, WriterState
  <2>3. writer' \in [Writer -> WriterState] /\ \A v \in Writer : v # w => writer'[v] = writer[v]
    BY <1>1, <1>4 DEF PromoteConfig, WriterState
  <2> QED
    BY <1>4, <2>1, <2>2, <2>3 DEF PromoteConfig, ConfigTypeOK
<1>5. CASE DraftLastGood(w)
  BY <1>1, <1>5 DEF DraftLastGood, ConfigTypeOK, WriterState, Written
<1>6. CASE PromoteLastGood(w)
  BY <1>1, <1>6, NoSaveType DEF PromoteLastGood, ConfigTypeOK, Written, Copies
<1>7. CASE SaveFails(w)
  BY <1>1, <1>7, NoSaveType DEF SaveFails, ConfigTypeOK
<1> QED
  BY <1>2, <1>3, <1>4, <1>5, <1>6, <1>7 DEF SaveStep

\* An edit keeps the types, and so does a newer version.
LEMMA EditTypes ==
  ASSUME ConfigTypeOK, EditSettings \/ Spoil \/ RunNewer PROVE ConfigTypeOK'
<1>1. ASSUME NEW c \in Contents, Edit(c)
      PROVE  /\ config' \in Contents /\ edits' \in 0 .. MaxEdit /\ serial' \in BOOLEAN
             /\ UNCHANGED <<configTemp, lastgoodTemp, writer, saves>>
  BY <1>1, ConfigAssumption DEF Edit, ConfigTypeOK
<1>2. ASSUME NEW c \in Settings \cup {Newer}, Chooses(c)
      PROVE  chosen' \in Settings \cup {Newer} /\ earlier' \subseteq Settings \cup {Newer}
  BY <1>2 DEF Chooses, ConfigTypeOK
<1>3. CASE EditSettings
  <2>1. PICK c \in Settings \cup {Missing} :
          Edit(c) /\ Chooses(IF c = Missing THEN Defaults ELSE c)
    <3>1. ASSUME NEW p \in Pref, NEW u \in BOOLEAN, config \in Settings
          PROVE  /\ [config EXCEPT !.prefs = p, !.unknown = u] \in Settings
                 /\ [config EXCEPT !.prefs = p, !.unknown = u] # Missing
      BY <3>1, ContentsAssumption DEF Settings
    <3> QED
      BY <1>3, <3>1 DEF EditSettings
  <2> QED
    BY <1>1, <1>2, <1>3, <2>1, LoadedType DEF EditSettings, Contents, ConfigTypeOK
<1>4. CASE Spoil
  BY <1>1, <1>4 DEF Spoil, Contents, ConfigTypeOK
<1>5. CASE RunNewer
  BY <1>1, <1>2, <1>5 DEF RunNewer, Contents, Copies, ConfigTypeOK
<1> QED
  BY <1>3, <1>4, <1>5

--------------------------------------------------------------------------------
(* ConfigFile: the inductive invariant. *)

\* What a save in progress has in hand, and where it has put it.
InHand(w) ==
  LET s == writer[w] IN
  /\ s.at \in {"changed", "drafted"} => chosen \in Settings /\ s.next = Applied(s.change, chosen)
  /\ s.at = "drafted" => configTemp = s.next
  /\ s.at \in {"promoted", "copied"} => s.next = chosen
  /\ s.at = "copied" => lastgoodTemp = s.next

\* The file has what was chosen unless it is spoilt or of a newer version, the copy has
\* it unless it is behind, and then has what was chosen once; so are the defaults.
FilesFollow ==
  /\ config \in Settings => config = chosen
  /\ config = Missing => chosen = Defaults
  /\ ~ behind => lastgood = chosen /\ chosen \in Settings
  /\ lastgood \in Settings => lastgood \in earlier \cup {chosen}
  /\ Defaults \in earlier \cup {chosen}

\* That is so while saves and edits take turns, and there is then one save at a time.
TurnsKeepChoice ==
  serial =>
    /\ \A v, w \in Writer : Saving(v) /\ Saving(w) => v = w
    /\ FilesFollow
    /\ \A w \in Writer : InHand(w)

ConfigInv == ConfigTypeOK /\ TurnsKeepChoice

\* What load() returns is what was chosen, or was chosen once.
LEMMA LoadedIsChosen ==
  ASSUME ConfigInv, serial, ~ Raises, config # Newer
  PROVE  Loaded = chosen \/ (config = Invalid /\ behind /\ Loaded \in earlier)
<1>1. FilesFollow /\ config \in Contents
  BY DEF ConfigInv, ConfigTypeOK, TurnsKeepChoice
<1>2. CASE config \in Settings
  BY <1>1, <1>2 DEF FilesFollow, Loaded
<1>3. CASE config = Missing
  BY <1>1, <1>3, ContentsAssumption DEF FilesFollow, Loaded
<1>4. CASE config = Invalid
  <2>1. config \notin Settings /\ config \in {Invalid, Newer}
    BY <1>4, ContentsAssumption
  <2>2. Loaded = IF lastgood \in Settings THEN lastgood ELSE Defaults
    BY <2>1 DEF Loaded
  <2> QED
    BY <1>1, <1>4, <2>2 DEF FilesFollow
<1> QED
  BY <1>1, <1>2, <1>3, <1>4 DEF Raises, Contents

--------------------------------------------------------------------------------
(* ConfigFile: the steps keep the invariant. *)

LEMMA SaveKeeps == ASSUME ConfigInv, NEW w \in Writer, SaveStep(w) PROVE ConfigInv'
<1>1. ConfigTypeOK /\ ConfigTypeOK' /\ \A v \in Writer : v # w => writer'[v] = writer[v]
  BY SaveTypes DEF ConfigInv
<1> SUFFICES ASSUME serial'
             PROVE  /\ \A u, v \in Writer : Saving(u)' /\ Saving(v)' => u = v
                    /\ FilesFollow'
                    /\ \A v \in Writer : InHand(v)'
  BY <1>1 DEF ConfigInv, TurnsKeepChoice
<1>2. serial
  BY DEF SaveStep, BeginSave, DraftConfig, PromoteConfig, DraftLastGood, PromoteLastGood, SaveFails
<1>3. \A v \in Writer : v # w => ~ Saving(v) /\ ~ Saving(v)'
  <2>1. CASE BeginSave(w)
    BY <1>1, <2>1 DEF BeginSave, Saving
  <2>2. CASE ~ BeginSave(w)
    <3>1. Saving(w)
      BY <2>2 DEF SaveStep, DraftConfig, PromoteConfig, DraftLastGood, PromoteLastGood, SaveFails, Saving
    <3> QED
      BY <1>1, <1>2, <3>1 DEF ConfigInv, TurnsKeepChoice, Saving
  <2> QED
    BY <2>1, <2>2
<1>4. \A v \in Writer : v # w => InHand(v)'
  BY <1>3 DEF InHand, Saving
<1>5. writer \in [Writer -> WriterState] /\ writer[w] \in WriterState /\ InHand(w)
  BY <1>1, <1>2 DEF ConfigInv, ConfigTypeOK, TurnsKeepChoice
<1>6. FilesFollow
  BY <1>2 DEF ConfigInv, TurnsKeepChoice
<1>7. SUFFICES FilesFollow' /\ InHand(w)'
  BY <1>3, <1>4
<1>8. CASE BeginSave(w)
  <2>1. Loaded = chosen
    BY <1>8 DEF BeginSave
  <2>2. PICK c \in Change :
          writer'[w] = [at |-> "changed", change |-> c, next |-> Applied(c, Loaded)]
    BY <1>5, <1>8 DEF BeginSave
  <2>3. UNCHANGED <<config, lastgood, chosen, earlier, behind>>
    BY <1>8 DEF BeginSave
  <2>4. FilesFollow'
    BY <1>6, <2>3 DEF FilesFollow
  <2> QED
    BY <2>1, <2>2, <2>3, <2>4, LoadedType DEF InHand
<1>9. CASE DraftConfig(w)
  <2>1. /\ writer[w].at = "changed" /\ writer'[w].at = "drafted"
        /\ writer'[w].next = writer[w].next /\ writer'[w].change = writer[w].change
        /\ configTemp' = writer[w].next /\ UNCHANGED <<config, lastgood, chosen, earlier, behind>>
    BY <1>5, <1>9 DEF DraftConfig, WriterState
  <2>2. FilesFollow'
    BY <1>6, <2>1 DEF FilesFollow
  <2> QED
    BY <1>5, <2>1, <2>2 DEF InHand
<1>10. CASE PromoteConfig(w)
  <2>1. /\ writer[w].at = "drafted" /\ writer'[w].at = "promoted"
        /\ writer'[w].next = writer[w].next
        /\ config' = configTemp /\ configTemp # Missing /\ lastgood' = lastgood /\ behind' = TRUE
    BY <1>5, <1>10 DEF PromoteConfig, WriterState
  <2>2. chosen \in Settings /\ chosen # Newer
    BY <1>5, <2>1, ContentsAssumption DEF InHand
  <2>3. chosen' = Applied(writer[w].change, chosen) /\ earlier' = earlier \cup {chosen}
    BY <1>10, <2>2 DEF PromoteConfig, Chooses
  <2>4. config' = chosen' /\ writer'[w].next = chosen'
    BY <1>5, <2>1, <2>3 DEF InHand
  <2>5. FilesFollow'
    BY <1>6, <2>1, <2>3, <2>4 DEF FilesFollow
  <2> QED
    BY <2>1, <2>4, <2>5 DEF InHand
<1>11. CASE DraftLastGood(w)
  <2>1. /\ writer[w].at = "promoted" /\ writer'[w].at = "copied"
        /\ writer'[w].next = writer[w].next
        /\ lastgoodTemp' = writer[w].next /\ UNCHANGED <<config, lastgood, chosen, earlier, behind>>
    BY <1>5, <1>11 DEF DraftLastGood, WriterState
  <2>2. FilesFollow'
    BY <1>6, <2>1 DEF FilesFollow
  <2> QED
    BY <1>5, <2>1, <2>2 DEF InHand
<1>12. CASE PromoteLastGood(w)
  <2>1. /\ writer'[w] = NoSave /\ UNCHANGED <<config, chosen, earlier>>
        /\ lastgood' = lastgoodTemp /\ writer[w].at = "copied"
    BY <1>5, <1>12 DEF PromoteLastGood
  <2>2. lastgood' = chosen' /\ chosen' \in Settings
    BY <1>5, <2>1 DEF InHand, WriterState
  <2>3. FilesFollow'
    BY <1>6, <2>1, <2>2 DEF FilesFollow
  <2> QED
    BY <2>1, <2>3, NoSaveType DEF InHand
<1>13. CASE SaveFails(w)
  <2>1. writer'[w] = NoSave /\ UNCHANGED <<config, lastgood, chosen, earlier, behind>>
    BY <1>5, <1>13 DEF SaveFails
  <2>2. FilesFollow'
    BY <1>6, <2>1 DEF FilesFollow
  <2> QED
    BY <2>1, <2>2, NoSaveType DEF InHand
<1> QED
  BY <1>8, <1>9, <1>10, <1>11, <1>12, <1>13 DEF SaveStep

LEMMA EditKeeps == ASSUME ConfigInv, EditSettings \/ Spoil \/ RunNewer PROVE ConfigInv'
<1>1. ConfigTypeOK /\ ConfigTypeOK'
  BY EditTypes DEF ConfigInv
<1> SUFFICES ASSUME serial' PROVE TurnsKeepChoice'
  BY <1>1 DEF ConfigInv, TurnsKeepChoice
<1>2. serial /\ (\A w \in Writer : ~ Saving(w)) /\ UNCHANGED writer
  BY DEF EditSettings, Spoil, RunNewer, Edit
<1>3. \A w \in Writer : ~ Saving(w)' /\ InHand(w)'
  BY <1>2 DEF InHand, Saving
<1>4. FilesFollow
  BY <1>2 DEF ConfigInv, TurnsKeepChoice
<1>5. CASE EditSettings
  <2>1. ASSUME NEW p \in Pref, NEW u \in BOOLEAN, config \in Settings
        PROVE  [config EXCEPT !.prefs = p, !.unknown = u] \in Settings
    BY <2>1 DEF Settings
  <2>2. /\ behind' /\ lastgood' = lastgood /\ earlier' = earlier \cup {chosen}
        /\ (config' \in Settings /\ config' = chosen') \/ (config' = Missing /\ chosen' = Defaults)
    BY <1>5, <2>1 DEF EditSettings, Edit, Chooses
  <2>3. FilesFollow'
    BY <1>4, <2>2, ContentsAssumption DEF FilesFollow
  <2> QED
    BY <1>3, <2>3 DEF TurnsKeepChoice
<1>6. CASE Spoil
  <2>1. config' \in {Invalid, Mistyped} /\ UNCHANGED <<lastgood, chosen, earlier, behind>>
    BY <1>6 DEF Spoil, Edit
  <2>2. FilesFollow'
    BY <1>4, <2>1, ContentsAssumption DEF FilesFollow
  <2> QED
    BY <1>3, <2>2 DEF TurnsKeepChoice
<1>7. CASE RunNewer
  <2>1. /\ config' = Newer /\ behind' /\ lastgood' \in {lastgood, Newer}
        /\ earlier' = earlier \cup {chosen}
    BY <1>7 DEF RunNewer, Edit, Chooses
  <2>2. FilesFollow'
    BY <1>4, <2>1, ContentsAssumption DEF FilesFollow
  <2> QED
    BY <1>3, <2>2 DEF TurnsKeepChoice
<1> QED
  BY <1>5, <1>6, <1>7

--------------------------------------------------------------------------------
(* ConfigFile: the theorems. *)

\* While saves and edits take turns, the file and its copy hold what was chosen, the
\* copy at least what was chosen once, wherever a save has failed or its process has
\* died, unless the file is spoilt or of a newer version.
THEOREM ConfigInvariant == ConfigSpec => []ConfigInv
<1>1. ConfigInit => ConfigInv
  <2> SUFFICES ASSUME ConfigInit PROVE ConfigInv
    OBVIOUS
  <2>1. ConfigTypeOK
    BY ConfigAssumption, NoSaveType, LoadedType
    DEF ConfigInit, ConfigTypeOK, Contents, Written, Copies
  <2>2. \A w \in Writer : ~ Saving(w) /\ InHand(w)
    BY NoSaveType DEF ConfigInit, Saving, InHand
  <2> QED
    BY <2>1, <2>2, ContentsAssumption DEF ConfigInit, ConfigInv, TurnsKeepChoice, FilesFollow
<1>2. ConfigInv /\ [ConfigNext]_configVars => ConfigInv'
  <2>1. ASSUME ConfigInv, UNCHANGED configVars PROVE ConfigInv'
    BY <2>1 DEF configVars, ConfigInv, ConfigTypeOK, TurnsKeepChoice, FilesFollow, Saving, InHand
  <2> QED
    BY <2>1, SaveKeeps, EditKeeps DEF ConfigNext
<1> QED
  BY <1>1, <1>2, PTL DEF ConfigSpec

\* The types of all variables.
THEOREM ConfigTypes == ConfigSpec => []ConfigTypeOK
<1>1. ConfigInv => ConfigTypeOK
  BY DEF ConfigInv
<1> QED
  BY <1>1, ConfigInvariant, PTL

\* Between two saves, what load() finds is what the user has chosen, or, when the file
\* is spoilt and the copy behind, has chosen once.  Nothing is said of overlapping saves,
\* of a file that load() raises at, and of the settings of a newer version.
THEOREM ChoicesAreFound == ConfigSpec => []LoadFindsChoice
<1>1. ConfigInv => LoadFindsChoice
  BY LoadedIsChosen DEF LoadFindsChoice
<1> QED
  BY <1>1, ConfigInvariant, PTL

--------------------------------------------------------------------------------
(* StatusFile: the inductive invariant. *)

Terminal == {"stopped", "finished", "failed"}

\* What a worker writes agrees with where it goes: it ends after a terminal state
\* and goes on after a live one; a failure names no session.
WritesAgree ==
  \A w \in Worker : worker[w].step # "none" =>
    /\ worker[w].writes \in Payload
    /\ worker[w].next \in IF worker[w].writes.state \in Terminal
                          THEN {"closing", "ended"} ELSE {"preparing", "looping"}
    /\ worker[w].at \in {"booting", "preparing", "looping"}

\* A status that says a session has finished is about one that has nothing to do.
Earned(payload, done) ==
  payload # NoFile /\ payload.state = "finished" => payload.session \in done

AllEarned ==
  /\ Earned(status, exhausted) /\ Earned(statusTemp, exhausted)
  /\ \A w \in Worker : Earned(worker[w].writes, exhausted)
  /\ PreviewIsEarned

\* A worker that still has a state to write.
Owes(w) == worker[w].at \in {"booting", "preparing", "looping"}

\* And has not even filled the temporary file with its last.
OwesFill(w) == Owes(w) /\ ~ (worker[w].step = "rename" /\ worker[w].writes.state \in Terminal)

\* As long as a live state is to be seen, or may come to be, somebody will replace it.
LiveIsOwed ==
  unreported = {} =>
    /\ LooksLive => \E w \in Worker : Owes(w)
    /\ statusTemp # NoFile /\ statusTemp.state \notin Terminal => \E w \in Worker : OwesFill(w)

StatusInv == StatusTypeOK /\ WritesAgree /\ AllEarned /\ LiveIsOwed

--------------------------------------------------------------------------------
(* StatusFile: what the steps do. *)

\* A worker that begins to write.
LEMMA WritesRow ==
  ASSUME StatusTypeOK, NEW w \in Worker, NEW s \in States, NEW n \in Phase, Writes(w, s, n)
  PROVE  /\ worker' \in [Worker -> WorkerState]
         /\ worker'[w].at = worker[w].at /\ worker'[w].step = "fill" /\ worker'[w].next = n
         /\ worker'[w].writes \in Payload /\ worker'[w].writes.state = s
         /\ s # "failed" => worker'[w].writes.session = w
         /\ \A v \in Worker : v # w => worker'[v] = worker[v]
<1> DEFINE payload == [state |-> s, session |-> IF s = "failed" THEN NoWorker ELSE w]
           row == [at |-> worker[w].at, step |-> "fill", writes |-> payload, next |-> n]
<1>1. payload \in Payload
  BY DEF Payload
<1>2. row \in WorkerState
  BY <1>1 DEF WorkerState, StatusTypeOK
<1>3. worker' = [worker EXCEPT ![w] = row]
  BY DEF Writes
<1>4. worker' \in [Worker -> WorkerState] /\ worker'[w] = row
      /\ \A v \in Worker : v # w => worker'[v] = worker[v]
  BY <1>2, <1>3 DEF StatusTypeOK
<1> HIDE DEF row
<1>5. row.at = worker[w].at /\ row.step = "fill" /\ row.next = n /\ row.writes = payload
  BY DEF row
<1> QED
  BY <1>1, <1>4, <1>5

\* A worker that goes to a place.
LEMMA PlaceRow ==
  ASSUME StatusTypeOK, NEW w \in Worker, NEW n \in Phase, worker' = [worker EXCEPT ![w] = AtPhase(n)]
  PROVE  /\ worker' \in [Worker -> WorkerState]
         /\ worker'[w].at = n /\ worker'[w].step = "none" /\ worker'[w].writes = NoFile
         /\ \A v \in Worker : v # w => worker'[v] = worker[v]
<1>1. AtPhase(n) \in WorkerState
  BY DEF AtPhase, WorkerState
<1> QED
  BY <1>1 DEF StatusTypeOK, AtPhase

\* All that matters of a step that begins a write: what is written, after which
\* it goes where, and that a worker says "finished" of itself alone.
Announces(w, s, n) ==
  /\ s \in States /\ n \in Phase /\ Writes(w, s, n)
  /\ Owes(w)
  /\ n \in IF s \in Terminal THEN {"closing", "ended"} ELSE {"preparing", "looping"}
  /\ s = "finished" => w \in exhausted'
  /\ exhausted \subseteq exhausted' /\ exhausted' \subseteq Worker
  /\ leaseOf' \in Worker \cup {NoWorker}
  /\ UNCHANGED <<status, statusTemp, reading, previewed, unreported>>

LEMMA Announcements ==
  ASSUME StatusInv, NEW w \in Worker,
         BootFails(w) \/ Prepares(w) \/ Started(w) \/ Loops(w) \/ Stops(w) \/ Finishes(w) \/ Fails(w)
  PROVE  \E s \in States, n \in Phase : Announces(w, s, n)
<1> USE DEF States, LIVE_WORKER_STATES, Phase, Terminal, IsAt, Owes, Announces
<1>1. leaseOf \in Worker \cup {NoWorker} /\ exhausted \subseteq Worker
  BY DEF StatusInv, StatusTypeOK
<1>2. CASE BootFails(w)
  BY <1>1, <1>2 DEF BootFails
<1>3. CASE Prepares(w)
  BY <1>1, <1>3 DEF Prepares
<1>4. CASE Started(w)
  BY <1>1, <1>4 DEF Started
<1>5. CASE Loops(w)
  BY <1>1, <1>5 DEF Loops
<1>6. CASE Stops(w)
  BY <1>1, <1>6 DEF Stops
<1>7. CASE Finishes(w)
  BY <1>1, <1>7 DEF Finishes
<1>8. CASE Fails(w)
  BY <1>1, <1>8 DEF Fails
<1> QED
  BY <1>2, <1>3, <1>4, <1>5, <1>6, <1>7, <1>8

--------------------------------------------------------------------------------
(* StatusFile: they keep the invariant. *)

LEMMA AnnouncingKeeps ==
  ASSUME StatusInv, NEW w \in Worker, NEW s \in States, NEW n \in Phase, Announces(w, s, n)
  PROVE  StatusInv'
<1>1. /\ worker' \in [Worker -> WorkerState]
      /\ worker'[w].at = worker[w].at /\ worker'[w].step = "fill" /\ worker'[w].next = n
      /\ worker'[w].writes \in Payload /\ worker'[w].writes.state = s
      /\ s # "failed" => worker'[w].writes.session = w
      /\ \A v \in Worker : v # w => worker'[v] = worker[v]
  BY WritesRow DEF Announces, StatusInv
<1>2. StatusTypeOK'
  BY <1>1 DEF Announces, StatusInv, StatusTypeOK
<1>3. WritesAgree'
  BY <1>1 DEF Announces, StatusInv, WritesAgree, Owes
<1>4. AllEarned'
  <2>1. \A p : Earned(p, exhausted) => Earned(p, exhausted')
    BY DEF Announces, Earned
  <2>2. Earned(worker'[w].writes, exhausted')
    BY <1>1 DEF Announces, Earned
  <2>3. \A v \in Worker : Earned(worker'[v].writes, exhausted')
    BY <1>1, <2>1, <2>2 DEF StatusInv, AllEarned
  <2> QED
    BY <2>1, <2>3 DEF Announces, StatusInv, AllEarned, PreviewIsEarned, Earned
<1>5. LiveIsOwed'
  <2>1. OwesFill(w)' /\ Owes(w)'
    BY <1>1 DEF Announces, Owes, OwesFill
  <2> QED
    BY <2>1 DEF LiveIsOwed
<1> QED
  BY <1>2, <1>3, <1>4, <1>5 DEF StatusInv

LEMMA WritingKeeps ==
  ASSUME StatusInv, NEW w \in Worker, FillStatus(w) \/ RenameStatus(w) \/ RenameStatusFails(w)
  PROVE  StatusInv'
<1>1. /\ worker \in [Worker -> WorkerState] /\ worker[w] \in WorkerState
      /\ WritesAgree /\ LiveIsOwed /\ AllEarned /\ StatusTypeOK
  BY DEF StatusInv, StatusTypeOK
<1>2. worker[w].step # "none"
  BY DEF FillStatus, RenameStatus, RenameStatusFails
<1>3. worker[w].writes \in Payload /\ Owes(w)
      /\ worker[w].next \in IF worker[w].writes.state \in Terminal
                            THEN {"closing", "ended"} ELSE {"preparing", "looping"}
  BY <1>1, <1>2 DEF WritesAgree, Owes
<1>4. CASE FillStatus(w)
  <2>1. /\ worker' \in [Worker -> WorkerState]
        /\ worker'[w].at = worker[w].at /\ worker'[w].step = "rename"
        /\ worker'[w].next = worker[w].next /\ worker'[w].writes = worker[w].writes
        /\ \A v \in Worker : v # w => worker'[v] = worker[v]
        /\ statusTemp' = worker[w].writes
        /\ UNCHANGED <<leaseOf, status, reading, previewed, exhausted, unreported>>
    BY <1>1, <1>4 DEF FillStatus, WorkerState
  <2>2. StatusTypeOK' /\ WritesAgree'
    BY <1>1, <1>3, <2>1 DEF StatusTypeOK, WritesAgree, Owes
  <2>3. AllEarned'
    BY <1>1, <2>1 DEF AllEarned, Earned, PreviewIsEarned
  <2>4. Owes(w)' /\ (worker[w].writes.state \notin Terminal => OwesFill(w)')
    BY <1>3, <2>1 DEF Owes, OwesFill
  <2>5. LiveIsOwed'
    BY <2>1, <2>4 DEF LiveIsOwed
  <2> QED
    BY <2>2, <2>3, <2>5 DEF StatusInv
<1>5. CASE RenameStatus(w)
  <2>1. worker[w].next \in Phase /\ worker[w].step = "rename"
    BY <1>1, <1>5 DEF RenameStatus, WorkerState
  <2>2. /\ worker' \in [Worker -> WorkerState]
        /\ worker'[w].at = worker[w].next /\ worker'[w].step = "none" /\ worker'[w].writes = NoFile
        /\ \A v \in Worker : v # w => worker'[v] = worker[v]
    BY <1>1, <1>5, <2>1, PlaceRow DEF RenameStatus
  <2>3. /\ statusTemp # NoFile /\ status' = statusTemp /\ statusTemp' = NoFile
        /\ UNCHANGED <<leaseOf, reading, previewed, exhausted, unreported>>
    BY <1>5 DEF RenameStatus
  <2>4. StatusTypeOK' /\ WritesAgree'
    BY <1>1, <2>2, <2>3 DEF StatusTypeOK, WritesAgree
  <2>5. AllEarned'
    BY <1>1, <2>2, <2>3 DEF AllEarned, Earned, PreviewIsEarned
  <2>6. ASSUME unreported = {}, statusTemp.state \notin Terminal
        PROVE  \E v \in Worker : Owes(v)'
    <3>1. PICK v \in Worker : OwesFill(v)
      BY <1>1, <2>3, <2>6 DEF LiveIsOwed
    <3>2. CASE v = w
      <4>1. worker[w].next \in {"preparing", "looping"}
        BY <1>3, <2>1, <3>1, <3>2 DEF OwesFill
      <4> QED
        BY <2>2, <4>1 DEF Owes
    <3> QED
      BY <2>2, <3>1, <3>2 DEF Owes, OwesFill
  <2>7. LiveIsOwed'
    BY <2>3, <2>6 DEF LiveIsOwed, LooksLive, LIVE_WORKER_STATES, Terminal
  <2> QED
    BY <2>4, <2>5, <2>7 DEF StatusInv
<1>6. CASE RenameStatusFails(w) /\ worker[w].writes.state = "failed"
  <2>1. worker[w].next \in Phase
    BY <1>1 DEF WorkerState
  <2>2. /\ worker' \in [Worker -> WorkerState]
        /\ worker'[w].at = worker[w].next /\ worker'[w].step = "none" /\ worker'[w].writes = NoFile
        /\ \A v \in Worker : v # w => worker'[v] = worker[v]
    BY <1>1, <1>6, <2>1, PlaceRow DEF RenameStatusFails
  <2>3. /\ unreported' = unreported \cup {w}
        /\ UNCHANGED <<leaseOf, status, statusTemp, reading, previewed, exhausted>>
    BY <1>6 DEF RenameStatusFails
  <2>4. StatusTypeOK' /\ WritesAgree'
    BY <1>1, <2>2, <2>3 DEF StatusTypeOK, WritesAgree
  <2>5. AllEarned'
    BY <1>1, <2>2, <2>3 DEF AllEarned, Earned, PreviewIsEarned
  <2>6. LiveIsOwed'
    BY <2>3 DEF LiveIsOwed
  <2> QED
    BY <2>4, <2>5, <2>6 DEF StatusInv
<1>7. CASE RenameStatusFails(w) /\ worker[w].writes.state # "failed"
  <2>1. Announces(w, "failed", "closing")
    BY <1>1, <1>3, <1>7 DEF RenameStatusFails, Announces, States, Phase, Terminal, StatusTypeOK
  <2> QED
    BY <2>1, AnnouncingKeeps DEF Announces
<1> QED
  BY <1>4, <1>5, <1>6, <1>7

\* Being born, closing and dying.
LEMMA LifeKeeps ==
  ASSUME StatusInv, NEW w \in Worker, Start(w) \/ Closes(w) \/ Dies(w)
  PROVE  StatusInv'
<1>1. WritesAgree /\ LiveIsOwed /\ AllEarned /\ StatusTypeOK
  BY DEF StatusInv
<1>2. PICK n \in {"booting", "ended"} : worker' = [worker EXCEPT ![w] = AtPhase(n)]
  BY DEF Start, Closes, Dies
<1>3. n \in Phase
  BY DEF Phase
<1>4. /\ worker' \in [Worker -> WorkerState]
      /\ worker'[w].at = n /\ worker'[w].step = "none" /\ worker'[w].writes = NoFile
      /\ \A v \in Worker : v # w => worker'[v] = worker[v]
  BY <1>1, <1>2, <1>3, PlaceRow
<1>5. /\ UNCHANGED <<status, statusTemp, reading, previewed, exhausted>>
      /\ leaseOf' \in Worker \cup {NoWorker}
      /\ unreported' \in SUBSET Worker /\ (unreported' = {} => unreported = {} /\ ~ Owes(w))
  BY <1>1 DEF Start, Closes, Dies, StatusTypeOK, IsAt, Owes
<1>6. StatusTypeOK' /\ WritesAgree'
  BY <1>1, <1>4, <1>5 DEF StatusTypeOK, WritesAgree
<1>7. AllEarned'
  BY <1>1, <1>4, <1>5 DEF AllEarned, Earned, PreviewIsEarned
<1>8. LiveIsOwed'
  <2>1. ASSUME unreported' = {}, NEW v \in Worker
        PROVE  /\ Owes(v) => Owes(v)'
               /\ OwesFill(v) => OwesFill(v)'
    BY <1>4, <1>5, <2>1 DEF Owes, OwesFill
  <2>2. ASSUME unreported' = {}, LooksLive PROVE \E v \in Worker : Owes(v)'
    BY <1>1, <1>5, <2>1, <2>2 DEF LiveIsOwed
  <2>3. ASSUME unreported' = {}, statusTemp # NoFile, statusTemp.state \notin Terminal
        PROVE  \E v \in Worker : OwesFill(v)'
    BY <1>1, <1>5, <2>1, <2>3 DEF LiveIsOwed
  <2> QED
    BY <1>5, <2>2, <2>3 DEF LiveIsOwed, LooksLive
<1> QED
  BY <1>6, <1>7, <1>8 DEF StatusInv

\* The window, and the lease of a worker that is gone.
LEMMA WindowKeeps ==
  ASSUME StatusInv, Expires \/ Opens \/ Reads \/ UNCHANGED statusVars PROVE StatusInv'
<1>1. WritesAgree /\ LiveIsOwed /\ AllEarned /\ StatusTypeOK
  BY DEF StatusInv
<1>2. /\ UNCHANGED <<worker, status, statusTemp, exhausted, unreported>>
      /\ leaseOf' \in Worker \cup {NoWorker} /\ reading' \in BOOLEAN
  BY <1>1 DEF Expires, Opens, Reads, statusVars, StatusTypeOK
<1>3. previewed' \subseteq exhausted /\ previewed' \subseteq Worker
  <2>1. status.state = "finished" => status # NoFile
    BY DEF NoFile
  <2> QED
    BY <1>1, <2>1 DEF Expires, Opens, Reads, statusVars, StatusTypeOK, AllEarned, Earned, PreviewIsEarned
<1>4. StatusTypeOK' /\ WritesAgree'
  BY <1>1, <1>2, <1>3 DEF StatusTypeOK, WritesAgree
<1>5. AllEarned'
  BY <1>1, <1>2, <1>3 DEF AllEarned, Earned, PreviewIsEarned
<1>6. LiveIsOwed'
  BY <1>1, <1>2 DEF LiveIsOwed, LooksLive, Owes, OwesFill
<1> QED
  BY <1>4, <1>5, <1>6 DEF StatusInv

--------------------------------------------------------------------------------
(* StatusFile: the theorems. *)

\* A live status is owed a terminal one, and only a session with nothing left to do
\* is said to have finished.
THEOREM StatusInvariant == StatusSpec => []StatusInv
<1>1. StatusInit => StatusInv
  <2> SUFFICES ASSUME StatusInit PROVE StatusInv
    OBVIOUS
  <2>1. StatusTypeOK
    BY DEF StatusInit, StatusTypeOK, WorkerState, AtPhase, Phase
  <2>2. WritesAgree /\ AllEarned
    BY DEF StatusInit, WritesAgree, AllEarned, Earned, AtPhase, PreviewIsEarned
  <2>3. LiveIsOwed
    BY DEF StatusInit, LiveIsOwed, LooksLive, NoFile, LIVE_WORKER_STATES
  <2> QED
    BY <2>1, <2>2, <2>3 DEF StatusInv
<1>2. StatusInv /\ [StatusNext]_statusVars => StatusInv'
  <2>1. ASSUME StatusInv, NEW w \in Worker, WorkerStep(w) PROVE StatusInv'
    BY <2>1, Announcements, AnnouncingKeeps, WritingKeeps, LifeKeeps DEF WorkerStep
  <2> QED
    BY <2>1, WindowKeeps DEF StatusNext
<1> QED
  BY <1>1, <1>2, PTL DEF StatusSpec

\* The types of all variables.
THEOREM StatusTypes == StatusSpec => []StatusTypeOK
<1>1. StatusInv => StatusTypeOK
  BY DEF StatusInv
<1> QED
  BY <1>1, StatusInvariant, PTL

\* When every worker has ended, and none has died or failed to report, the window
\* does not show one at work, however their writes of the one file interleaved.
THEOREM EndsAreSeen == StatusSpec => []EndedLooksEnded
<1>1. StatusInv => EndedLooksEnded
  BY DEF StatusInv, LiveIsOwed, EndedLooksEnded, Owes
<1> QED
  BY <1>1, StatusInvariant, PTL

\* The window previews a session only when its worker has found nothing more to do.
THEOREM PreviewsAreEarned == StatusSpec => []PreviewIsEarned
<1>1. StatusInv => PreviewIsEarned
  BY DEF StatusInv, AllEarned
<1> QED
  BY <1>1, StatusInvariant, PTL

--------------------------------------------------------------------------------
(* DatabaseFile: the inductive invariant. *)

NoGap(c) == \E v \in 0 .. LastVersion : c.applied = 1 .. v

\* What an operation works with is the content of a database.
HasContent == \A p \in Process : process[p].at # "idle" => process[p].content \in DatabaseContent

\* What is packed, restored or about to be renamed is of some version, as the database is.
NoGapAnywhere ==
  /\ NoGap(db)
  /\ staging # NoDatabase => NoGap(staging)
  /\ \A s \in Seconds : packages[s] \notin {NoDatabase, Torn} => NoGap(packages[s])
  /\ \A p \in Process : process[p].at # "idle" => NoGap(process[p].content)

\* A migration has begun and has run no script yet.
Begun(p) ==
  \/ process[p].at \in {"pending", "preserving"}
  \/ process[p].at = "migrating" /\ process[p].first

\* A migration has not forgotten a script that is still pending, and the database has
\* all that was in it when the migration began.
NoneForgotten ==
  \A p \in Process :
    /\ process[p].at = "migrating" => Pending(db) \subseteq process[p].todo
    /\ Begun(p) =>
         /\ process[p].todo = Versions \ process[p].content.applied
         /\ process[p].content.applied \subseteq db.applied
         /\ process[p].content.data \subseteq db.data

\* Among the snapshots there is one of the schema of c, with all the commits of c.
HasSnapshot(snapshots, c) ==
  \E s \in Seconds :
    /\ snapshots[<<"pre-migration", s>>] # NoDatabase
    /\ snapshots[<<"pre-migration", s>>].applied = c.applied
    /\ c.data \subseteq snapshots[<<"pre-migration", s>>].data

\* Whoever may still run the first script has a snapshot of what it will change.
FirstIsBackedUp ==
  \A p \in Process :
    /\ Begun(p) /\ process[p].at # "pending"
    /\ process[p].content.applied = db.applied /\ db.applied # {}
    => HasSnapshot(backups, process[p].content)

\* A restore that is about to rename has a snapshot with all the commits.
PreservedIsBackedUp ==
  \A p \in Process : process[p].at \in {"preserved", "staged"} =>
    \E b \in Labels \X Seconds : backups[b] # NoDatabase /\ db.data \subseteq backups[b].data

DatabaseInv ==
  /\ DatabaseTypeOK /\ HasContent
  /\ ~ crossed => NoGapAnywhere /\ NoneForgotten
  /\ ~ crossed /\ ~ raced => FirstIsBackedUp
  /\ ~ raced => PreservedIsBackedUp
  /\ MigratedIsBackedUp /\ NothingIsLost

--------------------------------------------------------------------------------
(* DatabaseFile: snapshots. *)

\* A snapshot leaves the earlier ones, unless it takes the name of one.
SnapshotsStay ==
  \A b \in Labels \X Seconds : backups[b] # NoDatabase => backups'[b] = backups[b]

LEMMA SnapshotTaken ==
  ASSUME DatabaseTypeOK, NEW label \in Labels, TakeSnapshot(label)
  PROVE  /\ backups' \in [Labels \X Seconds -> DatabaseContent \cup {NoDatabase}]
         /\ backups'[<<label, second>>] = db
         /\ raced' \in BOOLEAN
         /\ ~ raced' => ~ raced /\ SnapshotsStay
<1>1. <<label, second>> \in Labels \X Seconds
  BY DEF DatabaseTypeOK
<1> QED
  BY <1>1 DEF TakeSnapshot, DatabaseTypeOK, SnapshotsStay

\* A schema that has a snapshot keeps it.
LEMMA HasSnapshotStays ==
  ASSUME SnapshotsStay, NEW c, HasSnapshot(backups, c) PROVE HasSnapshot(backups', c)
<1>1. \A s \in Seconds : <<"pre-migration", s>> \in Labels \X Seconds
  BY DEF Labels
<1> QED
  BY <1>1 DEF HasSnapshot, SnapshotsStay

\* What follows for the properties when the database stays.
LEMMA BackupsStay ==
  ASSUME DatabaseInv, ~ raced, SnapshotsStay, UNCHANGED <<db, migrated, commits, crossed>>
  PROVE  MigratedIsBackedUp' /\ NothingIsLost'
<1>1. ASSUME ~ crossed, NEW c \in migrated PROVE HasSnapshot(backups', c)
  BY <1>1, HasSnapshotStays DEF DatabaseInv, MigratedIsBackedUp, HasSnapshot
<1>2. \A c \in 1 .. commits :
        c \in db.data \/ \E b \in Labels \X Seconds : backups'[b] # NoDatabase /\ c \in backups'[b].data
  BY DEF DatabaseInv, NothingIsLost, SnapshotsStay
<1> QED
  BY <1>1, <1>2 DEF MigratedIsBackedUp, NothingIsLost, HasSnapshot

--------------------------------------------------------------------------------
(* DatabaseFile: steps of one process that leave the database and the snapshots alone. *)

\* What is asked of the place where such a step leaves its process.
Harmless(p, r) ==
  /\ r \in ProcessState /\ r.at \notin {"preserving", "migrating"}
  /\ r.at # "idle" => r.content \in DatabaseContent /\ (~ crossed => NoGap(r.content))
  /\ r.at = "pending" => r.todo = Pending(db) /\ r.content = db
  /\ r.at \in {"preserved", "staged"} => process[p].at \in {"preserved", "staged"}

LEMMA IdleIsHarmless == ASSUME NEW p \in Process PROVE Harmless(p, Idle)
<1>1. Idle \in ProcessState
  BY DatabaseAssumption DEF Idle, ProcessState, Seconds
<1> QED
  BY <1>1 DEF Harmless, Idle

\* Reading what is pending.
LEMMA PendingIsHarmless ==
  ASSUME DatabaseInv, NEW p \in Process, ReadsPending(p) PROVE Harmless(p, process'[p])
<1>1. /\ DatabaseTypeOK /\ db \in DatabaseContent
      /\ ~ crossed => NoGap(db)
  BY DEF DatabaseInv, DatabaseTypeOK, NoGapAnywhere
<1>2. CASE Pending(db) = {}
  BY <1>1, <1>2, IdleIsHarmless DEF ReadsPending, DatabaseTypeOK
<1>3. CASE Pending(db) # {}
  <2> DEFINE r == [Idle EXCEPT !.at = "pending", !.todo = Pending(db), !.content = db]
  <2>1. process'[p] = r
    BY <1>1, <1>3 DEF ReadsPending, DatabaseTypeOK
  <2>2. r \in ProcessState
    BY <1>1, IdleIsHarmless DEF Harmless, ProcessState, Pending
  <2>3. r.at = "pending" /\ r.todo = Pending(db) /\ r.content = db
    BY DEF Idle
  <2> HIDE DEF r
  <2>4. Harmless(p, r)
    BY <1>1, <2>2, <2>3 DEF Harmless
  <2> QED
    BY <2>1, <2>4
<1> QED
  BY <1>2, <1>3

\* They keep the invariant.
LEMMA HarmlessKeeps ==
  ASSUME DatabaseInv, UNCHANGED <<db, backups, commits, migrated, raced, crossed>>,
         NEW p \in Process, \A q \in Process : q # p => process'[q] = process[q],
         process' \in [Process -> ProcessState],
         Harmless(p, process'[p]),
         staging' \in DatabaseContent \cup {NoDatabase},
         ~ crossed => (staging' # NoDatabase => NoGap(staging')),
         packages' \in [Seconds -> DatabaseContent \cup {NoDatabase, Torn}],
         ~ crossed => \A s \in Seconds : packages'[s] \notin {NoDatabase, Torn} => NoGap(packages'[s]),
         workerOpen' \in BOOLEAN, second' \in Seconds, operations' \in 0 .. MaxOperation
  PROVE  DatabaseInv'
<1>1. DatabaseTypeOK'
  BY DEF DatabaseInv, DatabaseTypeOK
<1>2. HasContent'
  BY DEF DatabaseInv, HasContent, Harmless
<1>3. ~ crossed => NoGapAnywhere'
  BY DEF DatabaseInv, NoGapAnywhere, Harmless, NoGap
<1>4. MigratedIsBackedUp' /\ NothingIsLost'
  BY DEF DatabaseInv, MigratedIsBackedUp, NothingIsLost
<1>5. ASSUME ~ crossed PROVE NoneForgotten'
  <2>1. ASSUME NEW q \in Process, q # p
        PROVE  /\ process'[q].at = "migrating" => Pending(db) \subseteq process'[q].todo
               /\ Begun(q)' => Begun(q)
    BY <1>5, <2>1 DEF DatabaseInv, NoneForgotten, Begun
  <2>2. Begun(p)' => process'[p].todo = Pending(db) /\ process'[p].content = db
    BY DEF Harmless, Begun
  <2>3. process'[p].at # "migrating"
    BY DEF Harmless
  <2> QED
    BY <1>5, <2>1, <2>2, <2>3 DEF DatabaseInv, NoneForgotten, Pending
<1>6. ASSUME ~ crossed, ~ raced PROVE FirstIsBackedUp'
  <2>1. \A q \in Process : q # p => (Begun(q)' <=> Begun(q))
    BY DEF Begun
  <2>2. ~ Begun(p)' \/ process'[p].at = "pending"
    BY DEF Begun, Harmless
  <2> QED
    BY <1>6, <2>1, <2>2 DEF DatabaseInv, FirstIsBackedUp, HasSnapshot
<1>7. ~ raced => PreservedIsBackedUp'
  BY DEF DatabaseInv, PreservedIsBackedUp, Harmless
<1> QED
  BY <1>1, <1>2, <1>3, <1>4, <1>5, <1>6, <1>7 DEF DatabaseInv

\* Beginning a migration, giving one up, packing, and the restore but for its
\* snapshot and its renaming.
LEMMA QuietSteps ==
  ASSUME DatabaseInv, NEW p \in Process,
         \/ BeginMigrate(p) \/ ApplyFails(p) \/ BeginPackage(p) \/ OpenPackage(p)
         \/ ClosePackage(p) \/ (\E s \in Seconds : Check(p, s)) \/ Stage(p)
         \/ MigrateRestored(p) \/ OperationFails(p)
  PROVE  DatabaseInv'
<1>1. /\ DatabaseTypeOK /\ HasContent /\ process \in [Process -> ProcessState]
      /\ process[p] \in ProcessState
      /\ ~ crossed => NoGapAnywhere
  BY DEF DatabaseInv, DatabaseTypeOK
<1>2. /\ UNCHANGED <<db, backups, commits, migrated, raced, crossed, workerOpen, second>>
      /\ \A q \in Process : q # p => process'[q] = process[q]
  BY <1>1 DEF BeginMigrate, ApplyFails, BeginPackage, OpenPackage, ClosePackage, Check, Stage,
     MigrateRestored, OperationFails, ReadsPending
<1>3. operations' \in 0 .. MaxOperation
  <2>1. operations' = operations \/ (operations < MaxOperation /\ operations' = operations + 1)
    BY DEF BeginMigrate, ApplyFails, BeginPackage, OpenPackage, ClosePackage, Check, Stage,
       MigrateRestored, OperationFails
  <2>2. operations \in 0 .. MaxOperation /\ MaxOperation \in Nat
    BY <1>1, DatabaseAssumption DEF DatabaseTypeOK
  <2> QED
    BY <2>1, <2>2
<1>4. process' = [process EXCEPT ![p] = process'[p]]
  BY <1>1 DEF BeginMigrate, ApplyFails, BeginPackage, OpenPackage, ClosePackage, Check, Stage,
     MigrateRestored, OperationFails, ReadsPending
<1>5. /\ Harmless(p, process'[p])
      /\ staging' \in DatabaseContent \cup {NoDatabase}
      /\ ~ crossed => (staging' # NoDatabase => NoGap(staging'))
      /\ packages' \in [Seconds -> DatabaseContent \cup {NoDatabase, Torn}]
      /\ ~ crossed => \A s \in Seconds : packages'[s] \notin {NoDatabase, Torn} => NoGap(packages'[s])
  <2>1. ASSUME UNCHANGED <<staging, packages>>, Harmless(p, process'[p]) PROVE <1>5!:
    BY <1>1, <2>1 DEF NoGapAnywhere, DatabaseTypeOK
  <2>2. CASE BeginMigrate(p) \/ MigrateRestored(p)
    BY <1>1, <2>1, <2>2, PendingIsHarmless DEF BeginMigrate, MigrateRestored
  <2>3. CASE ApplyFails(p) \/ OperationFails(p)
    BY <1>1, <2>1, <2>3, IdleIsHarmless DEF ApplyFails, OperationFails
  <2>4. CASE BeginPackage(p)
    <3> DEFINE r == [Idle EXCEPT !.at = "zipping", !.content = db, !.stamp = second]
    <3>1. process'[p] = r /\ UNCHANGED <<staging, packages>>
      BY <1>1, <2>4 DEF BeginPackage
    <3>2. r \in ProcessState
      BY <1>1, IdleIsHarmless DEF Harmless, ProcessState, DatabaseTypeOK
    <3>3. r.at = "zipping" /\ r.content = db
      BY DEF Idle
    <3>4. db \in DatabaseContent /\ (~ crossed => NoGap(db))
      BY <1>1 DEF NoGapAnywhere, DatabaseTypeOK
    <3> HIDE DEF r
    <3> QED
      BY <2>1, <3>1, <3>2, <3>3, <3>4 DEF Harmless
  <2>5. ASSUME NEW s \in Seconds, Check(p, s) PROVE <1>5!:
    <3> DEFINE r == [Idle EXCEPT !.at = "checked", !.content = packages[s]]
    <3>1. process'[p] = r /\ UNCHANGED <<staging, packages>> /\ packages[s] \notin {NoDatabase, Torn}
      BY <1>1, <2>5 DEF Check
    <3>2. packages[s] \in DatabaseContent /\ (~ crossed => NoGap(packages[s]))
      BY <1>1, <3>1 DEF NoGapAnywhere, DatabaseTypeOK
    <3>3. r \in ProcessState
      BY <3>2, IdleIsHarmless DEF Harmless, ProcessState
    <3>4. r.at = "checked" /\ r.content = packages[s]
      BY DEF Idle
    <3> HIDE DEF r
    <3> QED
      BY <2>1, <3>1, <3>2, <3>3, <3>4 DEF Harmless
  <2>6. CASE OpenPackage(p) \/ ClosePackage(p)
    <3>1. /\ process[p].at \in {"zipping", "zipped"} /\ UNCHANGED staging
          /\ process'[p] = Idle \/ process'[p] = [process[p] EXCEPT !.at = "zipped"]
          /\ \E c \in {Torn, process[p].content} :
               packages' = [packages EXCEPT ![process[p].stamp] = c]
      BY <1>1, <2>6 DEF OpenPackage, ClosePackage
    <3>2. process[p].content \in DatabaseContent /\ (~ crossed => NoGap(process[p].content))
      BY <1>1, <3>1 DEF HasContent, NoGapAnywhere
    <3>3. Harmless(p, [process[p] EXCEPT !.at = "zipped"])
      BY <1>1, <3>2 DEF Harmless, ProcessState
    <3>4. Harmless(p, process'[p])
      BY <3>1, <3>3, IdleIsHarmless
    <3>5. staging' \in DatabaseContent \cup {NoDatabase} /\ (~ crossed => (staging' # NoDatabase => NoGap(staging')))
      BY <1>1, <3>1 DEF NoGapAnywhere, DatabaseTypeOK
    <3>6. PICK c \in {Torn, process[p].content} : packages' = [packages EXCEPT ![process[p].stamp] = c]
      BY <3>1
    <3>7. packages' \in [Seconds -> DatabaseContent \cup {NoDatabase, Torn}]
      BY <1>1, <3>2, <3>6 DEF DatabaseTypeOK
    <3>8. ~ crossed => \A s \in Seconds : packages'[s] \notin {NoDatabase, Torn} => NoGap(packages'[s])
      <4> SUFFICES ASSUME ~ crossed, NEW s \in Seconds, packages'[s] \notin {NoDatabase, Torn}
                   PROVE  NoGap(packages'[s])
        OBVIOUS
      <4>1. packages'[s] = packages[s] \/ packages'[s] = c
        BY <1>1, <3>6 DEF DatabaseTypeOK
      <4> QED
        BY <1>1, <3>2, <4>1 DEF NoGapAnywhere
    <3> QED
      BY <3>4, <3>5, <3>7, <3>8
  <2>7. CASE Stage(p)
    <3>1. /\ process[p].at = "preserved" /\ UNCHANGED packages /\ staging' = process[p].content
          /\ process'[p] = [process[p] EXCEPT !.at = "staged"]
      BY <1>1, <2>7 DEF Stage
    <3>2. process[p].content \in DatabaseContent /\ (~ crossed => NoGap(process[p].content))
      BY <1>1, <3>1 DEF HasContent, NoGapAnywhere
    <3>3. Harmless(p, process'[p])
      BY <1>1, <3>1, <3>2 DEF Harmless, ProcessState
    <3> QED
      BY <1>1, <3>1, <3>2, <3>3 DEF NoGapAnywhere, DatabaseTypeOK
  <2> QED
    BY <2>2, <2>3, <2>4, <2>5, <2>6, <2>7
<1>6. process' \in [Process -> ProcessState]
  BY <1>1, <1>4, <1>5 DEF Harmless
<1>7. workerOpen' \in BOOLEAN /\ second' \in Seconds
  BY <1>1, <1>2 DEF DatabaseTypeOK
<1> HIDE DEF Harmless
<1> QED
  BY <1>2, <1>3, <1>5, <1>6, <1>7, HarmlessKeeps

\* The clock and the worker that opens the database.
LEMMA OutsideSteps ==
  ASSUME DatabaseInv, WorkerOpensOrCloses \/ Tick \/ UNCHANGED databaseVars
  PROVE  DatabaseInv'
<1>1. /\ UNCHANGED <<db, staging, backups, packages, process, commits, operations, migrated,
                     raced, crossed>>
      /\ workerOpen' \in BOOLEAN /\ second' \in Seconds
  <2>1. workerOpen \in BOOLEAN /\ second \in 0 .. MaxSecond /\ MaxSecond \in Nat
    BY DatabaseAssumption DEF DatabaseInv, DatabaseTypeOK, Seconds
  <2>2. CASE Tick
    BY <2>1, <2>2 DEF Tick, Seconds
  <2>3. CASE WorkerOpensOrCloses \/ UNCHANGED databaseVars
    BY <2>1, <2>3 DEF WorkerOpensOrCloses, databaseVars, Seconds
  <2> QED
    BY <2>2, <2>3
<1>2. DatabaseTypeOK'
  BY <1>1 DEF DatabaseInv, DatabaseTypeOK
<1> QED
  BY <1>1, <1>2 DEF DatabaseInv, HasContent, NoGapAnywhere, NoGap, NoneForgotten, Begun, Pending,
     FirstIsBackedUp, HasSnapshot, PreservedIsBackedUp, MigratedIsBackedUp, NothingIsLost

--------------------------------------------------------------------------------
(* DatabaseFile: snapshots, scripts, renamings and commits. *)

\* A step of one process that takes a snapshot, or goes from one to the scripts.
LEMMA PreservingKeeps ==
  ASSUME DatabaseInv, NEW p \in Process,
         process[p].at # "idle", process[p].at # "migrating",
         process' \in [Process -> ProcessState],
         \A q \in Process : q # p => process'[q] = process[q],
         process'[p].at # "idle",
         process'[p].content = process[p].content,
         Begun(p)' => Begun(p) /\ process'[p].todo = process[p].todo,
         process'[p].at = "migrating" => process'[p].first,
         backups' \in [Labels \X Seconds -> DatabaseContent \cup {NoDatabase}], raced' \in BOOLEAN,
         ~ raced' => ~ raced /\ SnapshotsStay,
         UNCHANGED <<db, staging, packages, workerOpen, second, commits, operations, migrated,
                     crossed>>,
         ~ raced' /\ ~ crossed /\ Begun(p)' /\ process[p].content.applied = db.applied /\ db.applied # {}
           => HasSnapshot(backups', process[p].content),
         ~ raced' /\ process'[p].at \in {"preserved", "staged"}
           => \E b \in Labels \X Seconds : backups'[b] # NoDatabase /\ db.data \subseteq backups'[b].data
  PROVE  DatabaseInv'
<1>1. DatabaseTypeOK' /\ HasContent'
  BY DEF DatabaseInv, DatabaseTypeOK, HasContent
<1>2. ~ crossed => NoGapAnywhere'
  BY DEF DatabaseInv, NoGapAnywhere, NoGap
<1>3. \A q \in Process : q # p => (Begun(q)' <=> Begun(q))
  BY DEF Begun
<1>4. ASSUME ~ crossed PROVE NoneForgotten'
  <2> SUFFICES ASSUME NEW q \in Process
               PROVE  /\ process'[q].at = "migrating" => Pending(db) \subseteq process'[q].todo
                      /\ Begun(q)' =>
                           /\ process'[q].todo = Versions \ process'[q].content.applied
                           /\ process'[q].content.applied \subseteq db.applied
                           /\ process'[q].content.data \subseteq db.data
    BY DEF NoneForgotten, Pending
  <2>1. CASE q # p
    BY <1>3, <1>4, <2>1 DEF DatabaseInv, NoneForgotten
  <2>2. CASE q = p
    <3>1. process'[p].at = "migrating" => Begun(p)'
      BY DEF Begun
    <3> QED
      BY <1>4, <2>2, <3>1 DEF DatabaseInv, NoneForgotten, Pending
  <2> QED
    BY <2>1, <2>2
<1>5. ASSUME ~ crossed, ~ raced' PROVE FirstIsBackedUp'
  <2> SUFFICES ASSUME NEW q \in Process, Begun(q)', process'[q].at # "pending",
                      process'[q].content.applied = db.applied, db.applied # {}
               PROVE  HasSnapshot(backups', process'[q].content)
    BY DEF FirstIsBackedUp
  <2>1. CASE q # p
    <3>1. HasSnapshot(backups, process[q].content)
      BY <1>3, <1>5, <2>1 DEF DatabaseInv, FirstIsBackedUp
    <3>2. HasSnapshot(backups', process[q].content)
      BY <1>5, <3>1, HasSnapshotStays
    <3> QED
      BY <2>1, <3>2
  <2>2. CASE q = p
    BY <1>5, <2>2
  <2> QED
    BY <2>1, <2>2
<1>6. ASSUME ~ raced' PROVE PreservedIsBackedUp'
  <2> SUFFICES ASSUME NEW q \in Process, process'[q].at \in {"preserved", "staged"}
               PROVE  \E b \in Labels \X Seconds : backups'[b] # NoDatabase /\ db.data \subseteq backups'[b].data
    BY DEF PreservedIsBackedUp
  <2>1. CASE q # p
    BY <1>6, <2>1 DEF DatabaseInv, PreservedIsBackedUp, SnapshotsStay
  <2> QED
    BY <1>6, <2>1
<1>7. ASSUME ~ raced' PROVE MigratedIsBackedUp' /\ NothingIsLost'
  BY <1>7, BackupsStay
<1> QED
  BY <1>1, <1>2, <1>4, <1>5, <1>6, <1>7 DEF DatabaseInv, MigratedIsBackedUp, NothingIsLost

\* The snapshot before the first script has all that was read.
LEMMA SnapshotKeeps ==
  ASSUME DatabaseInv, NEW p \in Process, Snapshot(p) PROVE DatabaseInv'
<1>1. DatabaseTypeOK /\ process[p] \in ProcessState /\ process[p].at = "pending" /\ Begun(p)
  BY DEF DatabaseInv, DatabaseTypeOK, Snapshot, Begun
<1>2. /\ process' \in [Process -> ProcessState] /\ process'[p].at = "preserving"
      /\ process'[p].content = process[p].content /\ process'[p].todo = process[p].todo
      /\ \A q \in Process : q # p => process'[q] = process[q]
  BY <1>1 DEF Snapshot, DatabaseTypeOK, ProcessState
<1>3. /\ backups' \in [Labels \X Seconds -> DatabaseContent \cup {NoDatabase}] /\ raced' \in BOOLEAN
      /\ ~ raced' => ~ raced /\ SnapshotsStay
      /\ process[p].content.applied # {} => backups'[<<"pre-migration", second>>] = db
  <2>1. CASE process[p].content.applied # {}
    BY <1>1, <2>1, SnapshotTaken DEF Snapshot, Labels
  <2>2. CASE process[p].content.applied = {}
    BY <1>1, <2>2 DEF Snapshot, DatabaseTypeOK, SnapshotsStay
  <2> QED
    BY <2>1, <2>2
<1>4. UNCHANGED <<db, staging, packages, workerOpen, second, commits, operations, migrated, crossed>>
  BY DEF Snapshot
<1>5. ASSUME ~ crossed, process[p].content.applied = db.applied, db.applied # {}
      PROVE  HasSnapshot(backups', process[p].content)
  <2>1. process[p].content.data \subseteq db.data
    BY <1>1, <1>5 DEF DatabaseInv, NoneForgotten
  <2>2. second \in Seconds /\ db # NoDatabase
    BY <1>1, DatabaseAssumption DEF DatabaseTypeOK
  <2>3. backups'[<<"pre-migration", second>>] = db
    BY <1>3, <1>5
  <2> QED
    BY <1>5, <2>1, <2>2, <2>3 DEF HasSnapshot
<1> QED
  BY <1>1, <1>2, <1>3, <1>4, <1>5, PreservingKeeps

\* Opening the connection for the scripts changes nothing that counts.
LEMMA OpenForScriptsKeeps ==
  ASSUME DatabaseInv, NEW p \in Process, OpenForScripts(p) PROVE DatabaseInv'
<1>1. DatabaseTypeOK /\ process[p] \in ProcessState /\ process[p].at = "preserving" /\ Begun(p)
  BY DEF DatabaseInv, DatabaseTypeOK, OpenForScripts, Begun
<1>2. /\ process' \in [Process -> ProcessState] /\ process'[p].at = "migrating" /\ process'[p].first
      /\ process'[p].content = process[p].content /\ process'[p].todo = process[p].todo
      /\ \A q \in Process : q # p => process'[q] = process[q]
  BY <1>1 DEF OpenForScripts, DatabaseTypeOK, ProcessState
<1>3. /\ backups' \in [Labels \X Seconds -> DatabaseContent \cup {NoDatabase}] /\ raced' \in BOOLEAN
      /\ raced' = raced /\ SnapshotsStay
  BY <1>1 DEF OpenForScripts, DatabaseTypeOK, SnapshotsStay
<1>4. UNCHANGED <<db, staging, packages, workerOpen, second, commits, operations, migrated, crossed>>
  BY DEF OpenForScripts
<1>5. ASSUME ~ raced, ~ crossed, process[p].content.applied = db.applied, db.applied # {}
      PROVE  HasSnapshot(backups', process[p].content)
  <2>1. HasSnapshot(backups, process[p].content)
    BY <1>1, <1>5 DEF DatabaseInv, FirstIsBackedUp
  <2> QED
    BY <2>1 DEF OpenForScripts
<1> QED
  BY <1>1, <1>2, <1>3, <1>4, <1>5, PreservingKeeps

\* The snapshot before a restore.
LEMMA PreserveKeeps ==
  ASSUME DatabaseInv, NEW p \in Process, Preserve(p) PROVE DatabaseInv'
<1>1. DatabaseTypeOK /\ process[p] \in ProcessState /\ process[p].at = "checked"
  BY DEF DatabaseInv, DatabaseTypeOK, Preserve
<1>2. /\ process' \in [Process -> ProcessState] /\ process'[p].at = "preserved"
      /\ process'[p].content = process[p].content
      /\ \A q \in Process : q # p => process'[q] = process[q]
  BY <1>1 DEF Preserve, DatabaseTypeOK, ProcessState
<1>3. /\ backups' \in [Labels \X Seconds -> DatabaseContent \cup {NoDatabase}] /\ raced' \in BOOLEAN
      /\ ~ raced' => ~ raced /\ SnapshotsStay
      /\ backups'[<<"pre-restore", second>>] = db
  BY <1>1, SnapshotTaken DEF Preserve, Labels
<1>4. UNCHANGED <<db, staging, packages, workerOpen, second, commits, operations, migrated, crossed>>
  BY DEF Preserve
<1>5. ~ Begun(p)'
  BY <1>2 DEF Begun
<1>6. \E b \in Labels \X Seconds : backups'[b] # NoDatabase /\ db.data \subseteq backups'[b].data
  <2>1. <<"pre-restore", second>> \in Labels \X Seconds /\ db # NoDatabase
    BY <1>1, DatabaseAssumption DEF Labels, DatabaseTypeOK
  <2> QED
    BY <1>3, <2>1
<1> QED
  BY <1>1, <1>2, <1>3, <1>4, <1>5, <1>6, PreservingKeeps

\* One script: the next one, since every process has all that is pending to do.  If
\* it is the first of its migration, the schema is still the one that was read.
LEMMA ApplyKeeps ==
  ASSUME DatabaseInv, NEW p \in Process, NEW v \in Versions, Apply(p, v) PROVE DatabaseInv'
<1>1. /\ DatabaseTypeOK /\ process[p] \in ProcessState /\ process[p].at = "migrating"
      /\ v \in process[p].todo /\ (\A w \in process[p].todo : v <= w) /\ v \notin db.applied
      /\ process[p].todo \subseteq Versions /\ process[p].content \in DatabaseContent
      /\ db \in DatabaseContent
  BY DEF DatabaseInv, DatabaseTypeOK, HasContent, Apply, IsNext, ProcessState
<1>2. LastVersion \in Nat /\ v \in 1 .. LastVersion
  BY DatabaseAssumption DEF Versions
<1>3. db' \in DatabaseContent /\ db'.applied = db.applied \cup {v} /\ db'.data = db.data
  BY <1>1 DEF Apply, DatabaseContent
<1>4. /\ process' \in [Process -> ProcessState]
      /\ \A q \in Process : q # p => process'[q] = process[q]
      /\ \/ process'[p].at = "idle"
         \/ /\ process'[p].at = "migrating" /\ ~ process'[p].first
            /\ process'[p].todo = process[p].todo \ {v} /\ process'[p].content = process[p].content
  <2>1. Idle \in ProcessState /\ Idle.at = "idle"
    BY IdleIsHarmless DEF Harmless, Idle
  <2>2. ASSUME process[p].todo # {v}
        PROVE  /\ AfterScript(p, v) \in ProcessState
               /\ AfterScript(p, v).at = "migrating" /\ ~ AfterScript(p, v).first
               /\ AfterScript(p, v).todo = process[p].todo \ {v}
               /\ AfterScript(p, v).content = process[p].content
    BY <1>1, <2>2 DEF AfterScript, ProcessState
  <2>3. process[p].todo = {v} => AfterScript(p, v) = Idle
    BY DEF AfterScript
  <2>4. process' = [process EXCEPT ![p] = AfterScript(p, v)]
    BY DEF Apply
  <2> QED
    BY <1>1, <2>1, <2>2, <2>3, <2>4 DEF DatabaseTypeOK
<1>5. UNCHANGED <<staging, backups, packages, workerOpen, second, commits, operations, raced, crossed>>
  BY DEF Apply
<1>6. PICK m : m = [db EXCEPT !.data = process[p].content.data]
  OBVIOUS
<1>7. /\ m \in DatabaseContent /\ m.applied = db.applied /\ m.data = process[p].content.data
      /\ migrated' = migrated \/ (process[p].first /\ db.applied # {} /\ migrated' = migrated \cup {m})
  BY <1>1, <1>6 DEF Apply, DatabaseContent
<1>8. DatabaseTypeOK' /\ HasContent'
  BY <1>1, <1>3, <1>4, <1>5, <1>7 DEF DatabaseInv, DatabaseTypeOK, HasContent
<1>9. ASSUME ~ crossed
      PROVE  /\ NoGapAnywhere' /\ NoneForgotten' /\ (~ raced => FirstIsBackedUp')
             /\ process[p].first => process[p].content.applied = db.applied
  <2>1. PICK u \in 0 .. LastVersion : db.applied = 1 .. u
    BY <1>9 DEF DatabaseInv, NoGapAnywhere, NoGap
  <2>2. Pending(db) \subseteq process[p].todo
    BY <1>1, <1>9 DEF DatabaseInv, NoneForgotten
  <2>3. u + 1 = v
    <3>1. ~ (v <= u)
      BY <1>1, <1>2, <2>1
    <3>2. u + 1 \in Versions /\ u + 1 \notin db.applied
      BY <1>2, <2>1, <3>1 DEF Versions
    <3>3. v <= u + 1
      BY <1>1, <2>2, <3>2 DEF Pending
    <3> QED
      BY <1>2, <2>1, <3>1, <3>3
  <2>4. db'.applied = 1 .. v
    BY <1>2, <1>3, <2>1, <2>3
  <2>5. NoGapAnywhere'
    <3>1. NoGap(db)'
      BY <1>2, <2>4 DEF NoGap
    <3>2. NoGapAnywhere
      BY <1>9 DEF DatabaseInv
    <3>3. \A q \in Process : process'[q].at # "idle" =>
            process[q].at # "idle" /\ process'[q].content = process[q].content
      BY <1>1, <1>4
    <3>4. \A q \in Process : process'[q].at # "idle" => NoGap(process'[q].content)
      BY <3>2, <3>3 DEF NoGapAnywhere
    <3>5. /\ staging' # NoDatabase => NoGap(staging')
          /\ \A s \in Seconds : packages'[s] \notin {NoDatabase, Torn} => NoGap(packages'[s])
      BY <1>5, <3>2 DEF NoGapAnywhere
    <3> QED
      BY <3>1, <3>4, <3>5 DEF NoGapAnywhere, NoGap
  <2>6. \A q \in Process : Begun(q)' => q # p /\ Begun(q)
    BY <1>4 DEF Begun
  <2>7. NoneForgotten'
    BY <1>3, <1>4, <1>9, <2>2, <2>6 DEF DatabaseInv, NoneForgotten, Pending
  <2>8. ASSUME ~ raced PROVE FirstIsBackedUp'
    BY <1>1, <1>3, <1>4, <1>9, <2>6 DEF DatabaseInv, NoneForgotten, FirstIsBackedUp
  <2>9. ASSUME process[p].first PROVE process[p].content.applied = db.applied
    <3>1. /\ process[p].todo = Versions \ process[p].content.applied
          /\ process[p].content.applied \subseteq db.applied
      BY <1>1, <1>9, <2>9 DEF DatabaseInv, NoneForgotten, Begun
    <3>2. \A w \in 1 .. u : w \in Versions /\ w \notin process[p].todo
      BY <1>1, <1>2, <2>3 DEF Versions
    <3> QED
      BY <2>1, <3>1, <3>2
  <2> QED
    BY <2>5, <2>7, <2>8, <2>9
<1>10. ~ raced => PreservedIsBackedUp'
  BY <1>3, <1>4, <1>5 DEF DatabaseInv, PreservedIsBackedUp
<1>11. ASSUME ~ crossed, ~ raced PROVE \A c \in migrated' : HasSnapshot(backups, c)
  <2>1. \A c \in migrated : HasSnapshot(backups, c)
    BY <1>11 DEF DatabaseInv, MigratedIsBackedUp, HasSnapshot
  <2>2. ASSUME process[p].first, db.applied # {} PROVE HasSnapshot(backups, m)
    <3>1. process[p].content.applied = db.applied
      BY <1>9, <1>11, <2>2
    <3>2. HasSnapshot(backups, process[p].content)
      BY <1>1, <1>11, <2>2, <3>1 DEF DatabaseInv, FirstIsBackedUp, Begun
    <3> QED
      BY <1>7, <3>1, <3>2 DEF HasSnapshot
  <2> QED
    BY <1>7, <2>1, <2>2
<1>12. MigratedIsBackedUp'
  BY <1>5, <1>11 DEF MigratedIsBackedUp, HasSnapshot
<1>13. NothingIsLost'
  BY <1>3, <1>5 DEF DatabaseInv, NothingIsLost
<1> QED
  BY <1>5, <1>8, <1>9, <1>10, <1>12, <1>13 DEF DatabaseInv

\* The renaming of a restored database, of whatever version: nobody runs scripts, and
\* unless it crosses a migration nobody is about to.
LEMMA ReplaceKeeps ==
  ASSUME DatabaseInv, NEW p \in Process, Replace(p) PROVE DatabaseInv'
<1>1. /\ DatabaseTypeOK /\ process[p] \in ProcessState /\ process[p].at = "staged"
      /\ \A q \in Process : process[q].at # "migrating"
      /\ staging \in DatabaseContent /\ staging # NoDatabase /\ db' = staging /\ staging' = NoDatabase
  BY DEF DatabaseInv, DatabaseTypeOK, Replace, IsOpen
<1>2. /\ process' \in [Process -> ProcessState] /\ process'[p].at = "restored"
      /\ process'[p].content = process[p].content
      /\ \A q \in Process : q # p => process'[q] = process[q]
  BY <1>1 DEF Replace, DatabaseTypeOK, ProcessState
<1>3. /\ UNCHANGED <<backups, packages, workerOpen, second, commits, operations, migrated>>
      /\ raced' \in BOOLEAN /\ crossed' \in BOOLEAN
      /\ ~ raced' => ~ raced /\ \A q \in Process : q # p => process[q].at \notin {"preserved", "staged"}
      /\ ~ crossed' => ~ crossed /\ \A q \in Process : process[q].at \notin {"pending", "preserving"}
  BY <1>1 DEF Replace, DatabaseTypeOK
<1>4. DatabaseTypeOK' /\ HasContent'
  BY <1>1, <1>2, <1>3 DEF DatabaseInv, DatabaseTypeOK, HasContent
<1>5. ~ crossed' => NoGapAnywhere'
  BY <1>1, <1>2, <1>3 DEF DatabaseInv, NoGapAnywhere, NoGap
<1>6. ~ crossed' => \A q \in Process : ~ Begun(q)' /\ process'[q].at # "migrating"
  BY <1>1, <1>2, <1>3 DEF Begun
<1>7. ~ crossed' => NoneForgotten' /\ FirstIsBackedUp'
  BY <1>6 DEF NoneForgotten, FirstIsBackedUp
<1>8. ~ raced' => PreservedIsBackedUp'
  BY <1>2, <1>3 DEF PreservedIsBackedUp
<1>9. ~ crossed' /\ ~ raced' => MigratedIsBackedUp'
  BY <1>3 DEF DatabaseInv, MigratedIsBackedUp
<1>10. ASSUME ~ raced' PROVE NothingIsLost'
  <2>1. PICK b \in Labels \X Seconds : backups[b] # NoDatabase /\ db.data \subseteq backups[b].data
    BY <1>1, <1>3, <1>10 DEF DatabaseInv, PreservedIsBackedUp
  <2> QED
    BY <1>3, <1>10, <2>1 DEF DatabaseInv, NothingIsLost
<1> QED
  BY <1>4, <1>5, <1>7, <1>8, <1>9, <1>10 DEF DatabaseInv, MigratedIsBackedUp, NothingIsLost

\* A commit of somebody else, a migration under way or not.
LEMMA CommitKeeps == ASSUME DatabaseInv, Commit PROVE DatabaseInv'
<1>1. DatabaseTypeOK /\ commits \in 0 .. MaxCommit /\ MaxCommit \in Nat
  BY DatabaseAssumption DEF DatabaseInv, DatabaseTypeOK
<1>2. /\ commits' = commits + 1 /\ commits' \in 1 .. MaxCommit /\ commits' \in 0 .. MaxCommit
      /\ UNCHANGED <<staging, backups, packages, process, workerOpen, second, operations, migrated,
                     crossed>>
  BY <1>1 DEF Commit
<1>3. /\ db' \in DatabaseContent /\ db'.applied = db.applied /\ db'.data = db.data \cup {commits'}
      /\ Pending(db)' = Pending(db)
  BY <1>1, <1>2 DEF Commit, DatabaseTypeOK, DatabaseContent, Commits, Pending
<1>4. /\ raced' \in BOOLEAN
      /\ ~ raced' => ~ raced /\ \A q \in Process : process[q].at \notin {"preserved", "staged"}
  BY <1>1 DEF Commit, DatabaseTypeOK
<1>5. DatabaseTypeOK' /\ HasContent'
  BY <1>1, <1>2, <1>3, <1>4 DEF DatabaseInv, DatabaseTypeOK, HasContent
<1>6. \A q \in Process : Begun(q)' <=> Begun(q)
  BY <1>2 DEF Begun
<1>7. ~ crossed => NoGapAnywhere' /\ NoneForgotten'
  BY <1>2, <1>3, <1>6 DEF DatabaseInv, NoGapAnywhere, NoGap, NoneForgotten
<1>8. ~ crossed /\ ~ raced => FirstIsBackedUp'
  BY <1>2, <1>3, <1>6 DEF DatabaseInv, FirstIsBackedUp, HasSnapshot
<1>9. ~ raced' => PreservedIsBackedUp' /\ MigratedIsBackedUp'
  BY <1>2, <1>4 DEF DatabaseInv, PreservedIsBackedUp, MigratedIsBackedUp
<1>10. ASSUME ~ raced' PROVE NothingIsLost'
  <2>1. \A c \in 1 .. commits' : c \in 1 .. commits \/ c = commits'
    BY <1>1, <1>2
  <2> QED
    BY <1>2, <1>3, <1>4, <1>10, <2>1 DEF DatabaseInv, NothingIsLost
<1> QED
  BY <1>2, <1>4, <1>5, <1>7, <1>8, <1>9, <1>10 DEF DatabaseInv, MigratedIsBackedUp, NothingIsLost

--------------------------------------------------------------------------------
(* DatabaseFile: the theorems. *)

\* Migrations, backups and restores of packages of any version, side by side, cut off
\* anywhere.
THEOREM DatabaseInvariant == DatabaseSpec => []DatabaseInv
<1>1. DatabaseInit => DatabaseInv
  <2> SUFFICES ASSUME DatabaseInit PROVE DatabaseInv
    OBVIOUS
  <2>1. Idle \in ProcessState /\ Idle.at = "idle"
    BY DatabaseAssumption DEF Idle, ProcessState, Seconds
  <2>2. \A v \in 0 .. LastVersion : Earlier(v) \in DatabaseContent /\ NoGap(Earlier(v))
    BY DatabaseAssumption DEF Earlier, NoGap, DatabaseContent, Versions
  <2>3. db \in DatabaseContent /\ NoGap(db)
    BY <2>2 DEF DatabaseInit
  <2>4. \A v \in Versions : v \in 0 .. LastVersion
    BY DatabaseAssumption DEF Versions
  <2>5. PICK c \in {NoDatabase} \cup {Earlier(v) : v \in Versions} :
          packages = [s \in Seconds |-> IF s = 0 THEN c ELSE NoDatabase]
    BY DEF DatabaseInit
  <2>6. /\ packages \in [Seconds -> DatabaseContent \cup {NoDatabase, Torn}]
        /\ \A s \in Seconds : packages[s] \notin {NoDatabase, Torn} => NoGap(packages[s])
    BY <2>2, <2>4, <2>5
  <2>7. DatabaseTypeOK
    <3>1. /\ backups \in [Labels \X Seconds -> DatabaseContent \cup {NoDatabase}]
          /\ process \in [Process -> ProcessState]
      BY <2>1 DEF DatabaseInit
    <3>2. /\ second \in Seconds /\ commits \in 0 .. MaxCommit /\ operations \in 0 .. MaxOperation
      BY DatabaseAssumption DEF DatabaseInit, Seconds
    <3>3. /\ workerOpen \in BOOLEAN /\ migrated \subseteq DatabaseContent /\ raced \in BOOLEAN
          /\ staging \in DatabaseContent \cup {NoDatabase} /\ crossed \in BOOLEAN
      BY DEF DatabaseInit
    <3> QED
      BY <2>3, <2>6, <3>1, <3>2, <3>3 DEF DatabaseTypeOK
  <2>8. \A p \in Process : process[p].at = "idle" /\ ~ Begun(p)
    BY <2>1 DEF DatabaseInit, Begun
  <2>9. HasContent /\ NoGapAnywhere /\ NoneForgotten /\ FirstIsBackedUp /\ PreservedIsBackedUp
    BY <2>3, <2>6, <2>8 DEF DatabaseInit, HasContent, NoGapAnywhere, NoneForgotten, FirstIsBackedUp,
       PreservedIsBackedUp
  <2>10. MigratedIsBackedUp /\ NothingIsLost
    BY DEF DatabaseInit, MigratedIsBackedUp, NothingIsLost
  <2> QED
    BY <2>7, <2>9, <2>10 DEF DatabaseInv
<1>2. DatabaseInv /\ [DatabaseNext]_databaseVars => DatabaseInv'
  BY QuietSteps, OutsideSteps, SnapshotKeeps, OpenForScriptsKeeps, PreserveKeeps, ApplyKeeps,
     ReplaceKeeps, CommitKeeps
     DEF DatabaseNext, Operation
<1> QED
  BY <1>1, <1>2, PTL DEF DatabaseSpec

\* The types of all variables.
THEOREM DatabaseTypes == DatabaseSpec => []DatabaseTypeOK
<1>1. DatabaseInv => DatabaseTypeOK
  BY DEF DatabaseInv
<1> QED
  BY <1>1, DatabaseInvariant, PTL

\* However many processes migrate and restore, and whatever version is restored, the
\* schema is that of some version, until a restore falls between the reading of what
\* is pending and the scripts.
THEOREM SchemaIsOfAVersion == DatabaseSpec => []SchemaHasNoGap
<1>1. DatabaseInv => SchemaHasNoGap
  BY DEF DatabaseInv, NoGapAnywhere, NoGap, SchemaHasNoGap
<1> QED
  BY <1>1, DatabaseInvariant, PTL

\* Every schema that a migration has changed, a restored one as well, is kept in a
\* snapshot with what was committed when the migration began, until two snapshots have
\* the same name, somebody writes during a restore, or a restore crosses a migration.
THEOREM MigrationsCanBeUndone == DatabaseSpec => []MigratedIsBackedUp
<1>1. DatabaseInv => MigratedIsBackedUp
  BY DEF DatabaseInv
<1> QED
  BY <1>1, DatabaseInvariant, PTL

\* No restore loses a commit, unless it comes between its snapshot and the renaming.
THEOREM RestoresLoseNothing == DatabaseSpec => []NothingIsLost
<1>1. DatabaseInv => NothingIsLost
  BY DEF DatabaseInv
<1> QED
  BY <1>1, DatabaseInvariant, PTL

--------------------------------------------------------------------------------
(* Exports: the inductive invariant. *)

Writing(r) == run[r].at \in {"ready", "opened", "closed"}
HoldsFile(r) == run[r].at \in {"opened", "closed"}
Made(r) == Targets(run[r].place, run[r].request, run[r].records)

\* What an export has left is part of what it makes, and it has the first of that in
\* hand.
WorkIsOrdered(r) ==
  /\ Active(r) => run[r].row = "running"
  /\ Writing(r) => run[r].left \subseteq Made(r)
  /\ HoldsFile(r) =>
       /\ run[r].target \in run[r].left
       /\ \A u \in run[r].left : Turn(run[r].target) <= Turn(u)

\* Where only one at a time has written, who writes is the last to have begun.
Alone(r) == Active(r) /\ run[r].place \notin shared => latest[run[r].place] = r

\* There the temporary file in hand has what the export has put into it.
InTemp(r) ==
  HoldsFile(r) /\ run[r].place \notin shared =>
    outputTemp[run[r].place][run[r].target].holds =
      IF run[r].at = "opened" THEN NoOutput ELSE Render(r, run[r].target)

\* The files that an export is done with are there.
DoneIsThere(r) ==
  Writing(r) =>
    \A t \in Made(r) \ run[r].left :
      /\ output[run[r].place][t] # NoOutput
      /\ run[r].place \notin shared => output[run[r].place][t] = Render(r, t)

\* CompletedIsOneSnapshot for one export.
IsSnapshot(r) ==
  run[r].row = "completed" =>
    /\ \A t \in Made(r) : output[run[r].place][t] # NoOutput
    /\ run[r].place \notin shared /\ latest[run[r].place] = r =>
         /\ \A t \in Made(r) : output[run[r].place][t] = Render(r, t)
         /\ run[r].place # Everything => run[r].hash = FilesIn(run[r].place)

RunInv(r) == WorkIsOrdered(r) /\ Alone(r) /\ InTemp(r) /\ DoneIsThere(r) /\ IsSnapshot(r)

\* An unshared folder has only whole temporary files.
TempIsWhole ==
  \A p \in Place \ shared : \A t \in Target : outputTemp[p][t].holds # Mixed

\* An index with only days whose files are in F.
Backed(c, F) ==
  c \in FileContent => \A v \in DOMAIN c : c[v] \in Day /\ F[<<"daily", c[v]>>] # NoOutput

IndexIsBacked ==
  \A p \in Place : /\ Backed(output[p][<<"index">>], output[p])
                   /\ Backed(outputTemp[p][<<"index">>].holds, output[p])

ExportInv ==
  /\ ExportTypeOK
  /\ \A r \in ExportRun : RunInv(r)
  /\ TempIsWhole /\ FilesAreWhole /\ IndexIsBacked

--------------------------------------------------------------------------------
(* Exports: what is made. *)

Held == FileContent \cup {NoOutput, Mixed}
TempFile == [holds : Held, open : SUBSET ExportRun]

\* What is written into a file is the content of one, if its recordings have
\* transcripts.
LEMMA RenderedType ==
  ASSUME NEW s \in Records, NEW t,
         t[1] = "individual" => t[2] \in Exported(s),
         t[1] \in {"daily", "text of day"} => t[2] \in Day
  PROVE  RenderOf(s, t) \in FileContent
<1>1. Contained(t, s) \subseteq Voice
  BY DEF Contained, Dated, Exported
<1>2. \A v \in Contained(t, s) : s[v] \in Day \cup {"undated"}
  BY DEF Contained, Dated, Exported, Records
<1>3. RenderOf(s, t) \in [Contained(t, s) -> Day \cup {"undated"}]
  BY <1>2 DEF RenderOf
<1> QED
  BY <1>1, <1>3 DEF FileContent

\* All files of an export are ones that it can write.
LEMMA TargetsType ==
  ASSUME NEW p \in Place, NEW q \in Request, NEW s \in Records
  PROVE  /\ Targets(p, q, s) \subseteq Target
         /\ \A t \in Targets(p, q, s) : RenderOf(s, t) \in FileContent
<1> SUFFICES ASSUME NEW t \in Targets(p, q, s)
             PROVE  t \in Target /\ RenderOf(s, t) \in FileContent
  OBVIOUS
<1>1. \/ \E k \in {"unknown", "index", "markdown", "text", "csv", "jsonl"} : t = <<k>>
      \/ \E k \in {"daily", "text of day"}, v \in Dated(s) : t = <<k, s[v]>>
      \/ \E v \in Exported(s) : t = <<"individual", v>> \/ t = <<"individual", v, s[v]>>
  <2>1. CASE p = Everything
    BY <2>1 DEF Targets, AllTargets
  <2>2. CASE p # Everything
    <3>1. q.formats \subseteq Format
      BY ExportsAssumption
    <3> QED
      BY <2>2, <3>1 DEF Targets, NamedTargets, Format
  <2> QED
    BY <2>1, <2>2
<1>2. ASSUME NEW k \in {"unknown", "index", "markdown", "text", "csv", "jsonl"}, t = <<k>>
      PROVE  t \in Target /\ t[1] \notin {"individual", "daily", "text of day"}
  <2>1. t[1] = k
    BY <1>2
  <2> QED
    BY <1>2, <2>1 DEF Target
<1>3. ASSUME NEW k \in {"daily", "text of day"}, NEW v \in Dated(s), t = <<k, s[v]>>
      PROVE  t \in Target /\ t[1] # "individual" /\ t[2] \in Day
  <2>1. s[v] \in Day
    BY DEF Dated
  <2>2. t[1] = k /\ t[2] = s[v]
    BY <1>3
  <2> QED
    BY <1>3, <2>1, <2>2 DEF Target
<1>4. ASSUME NEW v \in Exported(s), t = <<"individual", v>> \/ t = <<"individual", v, s[v]>>
      PROVE  t \in Target /\ t[1] = "individual" /\ t[2] \in Exported(s)
  <2>1. v \in Voice /\ s[v] \in Day \cup {"undated"}
    BY DEF Exported, Records
  <2>2. t[1] = "individual" /\ t[2] = v
    BY <1>4
  <2>3. CASE t = <<"individual", v>>
    <3>1. t \in {"individual"} \X Voice
      BY <2>1, <2>3
    <3> QED
      BY <2>2, <3>1 DEF Target
  <2>4. CASE t = <<"individual", v, s[v]>>
    <3>1. t \in {"individual"} \X Voice \X (Day \cup {"undated"})
      BY <2>1, <2>4
    <3> QED
      BY <2>2, <3>1 DEF Target
  <2> QED
    BY <1>4, <2>3, <2>4
<1>5. /\ t \in Target
      /\ t[1] = "individual" => t[2] \in Exported(s)
      /\ t[1] \in {"daily", "text of day"} => t[2] \in Day
  BY <1>1, <1>2, <1>3, <1>4
<1> QED
  BY <1>5, RenderedType

\* The days in an index are files of the same export, and come before it.
LEMMA DaysBeforeIndex ==
  ASSUME NEW p \in Place, NEW q \in Request, NEW s \in Records,
         <<"index">> \in Targets(p, q, s), NEW v \in DOMAIN RenderOf(s, <<"index">>)
  PROVE  LET d == RenderOf(s, <<"index">>)[v] IN
         /\ d \in Day /\ <<"daily", d>> \in Targets(p, q, s)
         /\ ~ (Turn(<<"index">>) <= Turn(<<"daily", d>>))
<1>1. p = Everything
  <2> SUFFICES ASSUME p # Everything PROVE FALSE
    OBVIOUS
  <2>1. <<"index">> \in NamedTargets(q, s)
    BY DEF Targets
  <2>2. <<"index">>[1] = "index"
    OBVIOUS
  <2> QED
    BY <2>1, <2>2, ExportsAssumption DEF NamedTargets, Format
<1>2. Contained(<<"index">>, s) = Dated(s)
  BY DEF Contained
<1>3. v \in Dated(s) /\ RenderOf(s, <<"index">>)[v] = s[v]
  BY <1>2 DEF RenderOf
<1>4. s[v] \in Day /\ <<"daily", s[v]>> \in Targets(p, q, s)
  BY <1>1, <1>3 DEF Dated, Targets, AllTargets
<1>5. Turn(<<"index">>) = 3 /\ Turn(<<"daily", s[v]>>) = 1
  BY DEF Turn
<1> QED
  BY <1>3, <1>4, <1>5

\* An index stays backed while files are only added.
LEMMA BackedGrows ==
  ASSUME NEW c, NEW F, NEW G, Backed(c, F),
         \A t \in Target : F[t] # NoOutput => G[t] # NoOutput
  PROVE  Backed(c, G)
<1>1. \A d \in Day : <<"daily", d>> \in Target
  BY DEF Target
<1> QED
  BY <1>1 DEF Backed

\* The types of what an export has in hand.
LEMMA HandTypes ==
  ASSUME ExportTypeOK, NEW r \in ExportRun, WorkIsOrdered(r)
  PROVE  /\ run[r] \in Run
         /\ run[r].place \in Place /\ run[r].request \in Request /\ run[r].records \in Records
         /\ run[r].target \in Target
         /\ Made(r) \subseteq Target
         /\ \A t \in Made(r) : Render(r, t) \in FileContent
         /\ Writing(r) => run[r].left \subseteq Made(r)
         /\ HoldsFile(r) => run[r].target \in Made(r)
<1>1. /\ run[r] \in Run
      /\ run[r].place \in Place /\ run[r].request \in Request /\ run[r].records \in Records
      /\ run[r].target \in Target
  BY DEF ExportTypeOK, Run
<1>2. Writing(r) => run[r].left \subseteq Made(r)
  BY DEF WorkIsOrdered
<1>3. HoldsFile(r) => run[r].target \in run[r].left /\ Writing(r)
  BY DEF WorkIsOrdered, HoldsFile, Writing
<1> QED
  BY <1>1, <1>2, <1>3, TargetsType DEF Made, Render

--------------------------------------------------------------------------------
(* Exports: the steps. *)

\* Files are never removed.
OutputGrows ==
  \A p \in Place, t \in Target : output[p][t] # NoOutput => output'[p][t] # NoOutput

\* A step that another export makes: who is alone in a folder finds it as it was.
LEMMA OthersKept ==
  ASSUME ExportTypeOK, NEW o \in ExportRun, RunInv(o), run'[o] = run[o],
         shared \subseteq shared', OutputGrows,
         run[o].place \notin shared' /\ Active(o) =>
           /\ latest'[run[o].place] = latest[run[o].place]
           /\ output'[run[o].place] = output[run[o].place]
           /\ outputTemp'[run[o].place] = outputTemp[run[o].place],
         run[o].place \notin shared' /\ latest'[run[o].place] = o =>
           /\ latest[run[o].place] = o
           /\ output'[run[o].place] = output[run[o].place]
  PROVE  RunInv(o)'
<1> USE DEF RunInv
<1>1. /\ Writing(o)' = Writing(o) /\ HoldsFile(o)' = HoldsFile(o) /\ Active(o)' = Active(o)
      /\ Made(o)' = Made(o) /\ \A t : Render(o, t)' = Render(o, t)
  BY DEF Writing, HoldsFile, Active, Made, Render
<1>2. HoldsFile(o) \/ Writing(o) => Active(o)
  BY DEF Writing, HoldsFile, Active
<1>3. run[o].place \in Place /\ Made(o) \subseteq Target
  BY HandTypes
<1>4. WorkIsOrdered(o)' /\ Alone(o)' /\ InTemp(o)'
  BY <1>1, <1>2 DEF WorkIsOrdered, Alone, InTemp
<1>5. DoneIsThere(o)'
  BY <1>1, <1>2, <1>3 DEF DoneIsThere, OutputGrows
<1>6. IsSnapshot(o)'
  <2> SUFFICES ASSUME run[o].row = "completed"
               PROVE  IsSnapshot(o)'
    BY DEF IsSnapshot
  <2>1. \A t \in Made(o) : output'[run[o].place][t] # NoOutput
    BY <1>3 DEF IsSnapshot, OutputGrows
  <2>2. ASSUME run[o].place \notin shared', latest'[run[o].place] = o
        PROVE  \A t \in Made(o) : output'[run[o].place][t] = Render(o, t)
    BY <2>2 DEF IsSnapshot
  <2>3. ASSUME run[o].place \notin shared', latest'[run[o].place] = o,
               NEW p \in Place, p = run[o].place, p # Everything
        PROVE  run[o].hash = FilesIn(p)'
    <3>1. run[o].hash = FilesIn(p) /\ output'[p] = output[p]
      BY <2>3 DEF IsSnapshot
    <3>2. FilesIn(p)' = FilesIn(p)
      BY <2>3, <3>1 DEF FilesIn
    <3> QED
      BY <3>1, <3>2
  <2>4. ASSUME run[o].place \notin shared', latest'[run[o].place] = o,
               run[o].place # Everything
        PROVE  run[o].hash = FilesIn(run[o].place)'
    <3>1. PICK p \in Place : p = run[o].place
      BY <1>3
    <3>2. FilesIn(run[o].place)' = FilesIn(p)'
      BY <3>1 DEF FilesIn
    <3> QED
      BY <2>3, <2>4, <3>1, <3>2
  <2> QED
    BY <1>1, <2>1, <2>2, <2>4 DEF IsSnapshot
<1> QED
  BY <1>4, <1>5, <1>6

\* A step of an export that writes in its own folder disturbs nobody else.
LEMMA StepKeepsOthers ==
  ASSUME ExportInv, NEW r \in ExportRun, Active(r), UNCHANGED <<latest, shared>>, OutputGrows,
         \A p \in Place : p # run[r].place => output'[p] = output[p] /\ outputTemp'[p] = outputTemp[p],
         NEW o \in ExportRun, o # r, run'[o] = run[o]
  PROVE  RunInv(o)'
<1>1. ExportTypeOK /\ RunInv(o) /\ RunInv(r)
  BY DEF ExportInv
<1>2. run[o].place \in Place
  BY <1>1, HandTypes DEF RunInv
<1>3. ASSUME run[o].place = run[r].place, run[o].place \notin shared
      PROVE  latest[run[o].place] # o /\ ~ Active(o)
  BY <1>1, <1>3 DEF RunInv, Alone
<1> QED
  BY <1>1, <1>2, <1>3, OthersKept

\* An index that is backed stays so.
LEMMA BackedStays ==
  ASSUME ExportInv, OutputGrows, NEW p \in Place
  PROVE  /\ Backed(output[p][<<"index">>], output'[p])
         /\ Backed(outputTemp[p][<<"index">>].holds, output'[p])
<1>1. \A t \in Target : output[p][t] # NoOutput => output'[p][t] # NoOutput
  BY DEF OutputGrows
<1>2. Backed(output[p][<<"index">>], output[p]) /\ Backed(outputTemp[p][<<"index">>].holds, output[p])
  BY DEF ExportInv, IndexIsBacked
<1> QED
  BY <1>1, <1>2, BackedGrows

\* An export that begins: whoever is writing in its folder is no longer alone.
LEMMA StartKeeps ==
  ASSUME ExportInv, NEW r \in ExportRun, NEW p \in Place, NEW q \in Request,
         StartExport(r, p, q)
  PROVE  ExportInv'
<1> USE DEF ExportInv
<1>1. /\ run[r].row = "none" /\ run[r] \in Run
      /\ run' = [run EXCEPT ![r] = [run[r] EXCEPT !.row = "running", !.at = "begun",
                                                  !.place = p, !.request = q]]
      /\ shared' = IF \E o \in ExportRun : Active(o) /\ run[o].place = p
                   THEN shared \cup {p} ELSE shared
      /\ latest' = [latest EXCEPT ![p] = r]
      /\ UNCHANGED <<data, output, outputTemp, revisions>>
  BY DEF StartExport, ExportTypeOK
<1>2. /\ run'[r] \in Run /\ run'[r].at = "begun" /\ run'[r].row = "running"
      /\ run'[r].place = p
      /\ \A o \in ExportRun : o # r => run'[o] = run[o]
  BY <1>1 DEF ExportTypeOK, Run
<1>3. shared \subseteq shared' /\ shared' \subseteq Place
  BY <1>1 DEF ExportTypeOK
<1>4. ExportTypeOK'
  BY <1>1, <1>2, <1>3 DEF ExportTypeOK
<1>5. OutputGrows
  BY <1>1 DEF OutputGrows
<1>6. ASSUME NEW o \in ExportRun, o # r PROVE RunInv(o)'
  <2>1. run[o].place \in Place
    BY HandTypes DEF RunInv
  <2>2. run[o].place = p /\ Active(o) => p \in shared'
    BY <1>1
  <2>3. run[o].place # p => latest'[run[o].place] = latest[run[o].place]
    BY <1>1, <2>1 DEF ExportTypeOK
  <2>4. latest'[p] = r
    BY <1>1 DEF ExportTypeOK
  <2> QED
    BY <1>1, <1>2, <1>3, <1>5, <1>6, <2>1, <2>2, <2>3, <2>4, OthersKept
<1>7. RunInv(r)'
  BY <1>1, <1>2 DEF RunInv, WorkIsOrdered, Alone, InTemp, DoneIsThere, IsSnapshot, Active, Writing,
                    HoldsFile, ExportTypeOK
<1>8. TempIsWhole' /\ FilesAreWhole'
  BY <1>1, <1>3 DEF TempIsWhole, FilesAreWhole
<1>9. IndexIsBacked'
  BY <1>1 DEF IndexIsBacked
<1> QED
  BY <1>4, <1>6, <1>7, <1>8, <1>9

\* Reading the records.
LEMMA ReadKeeps ==
  ASSUME ExportInv, NEW r \in ExportRun, ReadRecords(r)
  PROVE  ExportInv'
<1> USE DEF ExportInv
<1>0. run[r] \in Run /\ data \in Records /\ run[r].place \in Place /\ run[r].request \in Request
  BY DEF ExportTypeOK, Run
<1>1. /\ run[r].at = "begun"
      /\ run' = [run EXCEPT ![r] = [run[r] EXCEPT !.at = "ready", !.records = data,
                                     !.left = Targets(run[r].place, run[r].request, data)]]
      /\ UNCHANGED <<data, output, outputTemp, latest, shared, revisions>>
  BY <1>0 DEF ReadRecords, ExportTypeOK
<1>2. Targets(run[r].place, run[r].request, data) \subseteq Target
  BY <1>0, TargetsType
<1>3. /\ run'[r] \in Run /\ run'[r].at = "ready" /\ run'[r].row = run[r].row
      /\ run'[r].place = run[r].place /\ run'[r].left = Made(r)'
      /\ \A o \in ExportRun : o # r => run'[o] = run[o]
  BY <1>0, <1>1, <1>2 DEF ExportTypeOK, Run, Made
<1>4. ExportTypeOK'
  BY <1>1, <1>3 DEF ExportTypeOK
<1>5. OutputGrows
  BY <1>1 DEF OutputGrows
<1>6. Active(r)
  BY <1>1 DEF Active
<1>7. \A o \in ExportRun : o # r => RunInv(o)'
  BY <1>1, <1>3, <1>5, <1>6, StepKeepsOthers
<1>8. RunInv(r)'
  BY <1>1, <1>3, <1>6 DEF RunInv, WorkIsOrdered, Alone, InTemp, DoneIsThere, IsSnapshot, Active,
                          Writing, HoldsFile
<1>9. TempIsWhole' /\ FilesAreWhole' /\ IndexIsBacked'
  BY <1>1 DEF TempIsWhole, FilesAreWhole, IndexIsBacked
<1> QED
  BY <1>4, <1>7, <1>8, <1>9

\* A step in which an export changes only its row and the temporary file of t.
LEMMA TempStepKeeps ==
  ASSUME ExportInv, NEW r \in ExportRun, Active(r),
         NEW x \in Run, run' = [run EXCEPT ![r] = x],
         NEW t \in Target, NEW g \in TempFile,
         outputTemp' = [outputTemp EXCEPT ![run[r].place] =
                          [outputTemp[run[r].place] EXCEPT ![t] = g]],
         UNCHANGED <<data, output, latest, shared, revisions>>,
         g.holds = Mixed => run[r].place \in shared,
         t = <<"index">> => Backed(g.holds, output[run[r].place]),
         RunInv(r)'
  PROVE  ExportInv'
<1> USE DEF ExportInv
<1>1. /\ run[r].place \in Place
      /\ outputTemp[run[r].place] \in [Target -> TempFile]
      /\ outputTemp \in [Place -> [Target -> TempFile]]
  BY DEF ExportTypeOK, Run, TempFile, Held
<1>2. /\ \A p \in Place : p # run[r].place => outputTemp'[p] = outputTemp[p]
      /\ \A u \in Target : outputTemp'[run[r].place][u] =
                             IF u = t THEN g ELSE outputTemp[run[r].place][u]
  BY <1>1
<1>3. outputTemp' \in [Place -> [Target -> TempFile]]
  BY <1>1
<1>4. ExportTypeOK'
  <2>1. run' \in [ExportRun -> Run]
    BY DEF ExportTypeOK
  <2> QED
    BY <1>3, <2>1 DEF ExportTypeOK, TempFile, Held
<1>5. OutputGrows
  BY DEF OutputGrows
<1>6. \A o \in ExportRun : o # r => run'[o] = run[o]
  BY DEF ExportTypeOK
<1>7. \A o \in ExportRun : o # r => RunInv(o)'
  BY <1>2, <1>5, <1>6, StepKeepsOthers
<1>8. TempIsWhole'
  BY <1>2 DEF TempIsWhole
<1>9. FilesAreWhole'
  BY DEF FilesAreWhole
<1>10. IndexIsBacked'
  <2> SUFFICES ASSUME NEW p \in Place
               PROVE  Backed(outputTemp'[p][<<"index">>].holds, output[p])
    BY DEF IndexIsBacked
  <2>1. <<"index">> \in Target
    BY DEF Target
  <2> QED
    BY <1>2, <2>1 DEF IndexIsBacked
<1> QED
  BY <1>4, <1>7, <1>8, <1>9, <1>10

\* The temporary file is opened.
LEMMA OpenKeeps ==
  ASSUME ExportInv, NEW r \in ExportRun, NEW t \in run[r].left, Open(r, t)
  PROVE  ExportInv'
<1>1. RunInv(r) /\ ExportTypeOK /\ run[r].at = "ready"
  BY DEF ExportInv, Open
<1>2. Active(r) /\ Writing(r)
  BY <1>1 DEF Active, Writing
<1>3. /\ run[r] \in Run /\ run[r].place \in Place
      /\ Made(r) \subseteq Target /\ run[r].left \subseteq Made(r) /\ t \in Target
  BY <1>1, <1>2, HandTypes DEF RunInv
<1> DEFINE x == [run[r] EXCEPT !.at = "opened", !.target = t]
           g == [holds |-> NoOutput, open |-> outputTemp[run[r].place][t].open \cup {r}]
<1>4. x \in Run /\ g \in TempFile
  <2>1. x \in Run
    BY <1>3 DEF Run
  <2>2. outputTemp[run[r].place][t] \in TempFile
    BY <1>1, <1>3 DEF ExportTypeOK, TempFile, Held
  <2>3. g \in TempFile
    BY <2>2 DEF TempFile, Held
  <2> QED
    BY <2>1, <2>3
<1>5. /\ run' = [run EXCEPT ![r] = x]
      /\ outputTemp' = [outputTemp EXCEPT ![run[r].place] =
                          [outputTemp[run[r].place] EXCEPT ![t] = g]]
      /\ UNCHANGED <<data, output, latest, shared, revisions>>
      /\ \A u \in run[r].left : Turn(t) <= Turn(u)
  BY <1>1, <1>3 DEF Open, ExportTypeOK
<1>6. g.holds # Mixed /\ Backed(g.holds, output[run[r].place])
  BY OutputAssumption DEF Backed
<1>7. run'[r] = x /\ outputTemp'[run[r].place][t] = g
  BY <1>1, <1>3, <1>5 DEF ExportTypeOK
<1>8. /\ run'[r].at = "opened" /\ run'[r].target = t /\ run'[r].row = run[r].row
      /\ run'[r].place = run[r].place /\ run'[r].request = run[r].request
      /\ run'[r].records = run[r].records /\ run'[r].left = run[r].left
  BY <1>3, <1>7 DEF Run
<1>9. RunInv(r)'
  <2>1. WorkIsOrdered(r)'
    BY <1>1, <1>2, <1>5, <1>8 DEF RunInv, WorkIsOrdered, Active, Writing, HoldsFile, Made
  <2>2. Alone(r)'
    BY <1>1, <1>2, <1>5, <1>8 DEF RunInv, Alone, Active
  <2>3. InTemp(r)'
    BY <1>7, <1>8 DEF InTemp
  <2>4. DoneIsThere(r)'
    BY <1>1, <1>2, <1>5, <1>8 DEF RunInv, DoneIsThere, Writing, Made, Render
  <2>5. IsSnapshot(r)'
    BY <1>1, <1>2, <1>8 DEF RunInv, WorkIsOrdered, IsSnapshot
  <2> QED
    BY <2>1, <2>2, <2>3, <2>4, <2>5 DEF RunInv
<1> HIDE DEF x, g
<1> QED
  BY <1>2, <1>3, <1>4, <1>5, <1>6, <1>9, TempStepKeeps

\* The content is written.
LEMMA CloseKeeps ==
  ASSUME ExportInv, NEW r \in ExportRun, Close(r)
  PROVE  ExportInv'
<1> DEFINE p == run[r].place
           t == run[r].target
<1>1. RunInv(r) /\ ExportTypeOK /\ run[r].at = "opened"
  BY DEF ExportInv, Close
<1>2. Active(r) /\ Writing(r) /\ HoldsFile(r)
  BY <1>1 DEF Active, Writing, HoldsFile
<1>3. /\ run[r] \in Run /\ p \in Place /\ run[r].request \in Request /\ run[r].records \in Records
      /\ t \in Target /\ t \in Made(r) /\ t \in run[r].left
      /\ Render(r, t) \in FileContent
  BY <1>1, <1>2, HandTypes DEF RunInv, WorkIsOrdered
<1>4. outputTemp[p][t] \in TempFile
  BY <1>1, <1>3 DEF ExportTypeOK, TempFile, Held
<1>5. PICK c \in {Render(r, t)} \cup
              (IF outputTemp[p][t].holds \in {NoOutput, Render(r, t)} THEN {} ELSE {Mixed}) :
        outputTemp' = [outputTemp EXCEPT ![p][t] =
                         [holds |-> c, open |-> outputTemp[p][t].open \ {r}]]
  BY <1>1, <1>3, <1>4 DEF Close, ExportTypeOK
<1> DEFINE x == [run[r] EXCEPT !.at = "closed"]
           g == [holds |-> c, open |-> outputTemp[p][t].open \ {r}]
<1>6. x \in Run /\ g \in TempFile
  <2>1. x \in Run
    BY <1>3 DEF Run
  <2>2. c \in Held
    BY <1>3, <1>5 DEF Held
  <2> QED
    BY <1>4, <2>1, <2>2 DEF TempFile
<1>7. /\ run' = [run EXCEPT ![r] = x]
      /\ outputTemp' = [outputTemp EXCEPT ![p] = [outputTemp[p] EXCEPT ![t] = g]]
      /\ UNCHANGED <<data, output, latest, shared, revisions>>
  BY <1>1, <1>3, <1>5 DEF Close, ExportTypeOK
<1>8. run'[r] = x /\ outputTemp'[p][t] = g
  BY <1>1, <1>3, <1>7 DEF ExportTypeOK
<1>9. /\ run'[r].at = "closed" /\ run'[r].target = t /\ run'[r].row = run[r].row
      /\ run'[r].place = p /\ run'[r].request = run[r].request
      /\ run'[r].records = run[r].records /\ run'[r].left = run[r].left
  BY <1>3, <1>8 DEF Run
\* Nobody else had written into the file where the export is alone.
<1>10. p \notin shared => c = Render(r, t)
  BY <1>1, <1>2, <1>5 DEF RunInv, InTemp
<1>11. g.holds = Mixed => p \in shared
  BY <1>3, <1>10, OutputAssumption
<1>12. ASSUME t = <<"index">> PROVE Backed(c, output[p])
  <2> SUFFICES ASSUME c \in FileContent, NEW v \in DOMAIN c
               PROVE  c[v] \in Day /\ output[p][<<"daily", c[v]>>] # NoOutput
    BY DEF Backed
  <2>1. c = RenderOf(run[r].records, <<"index">>)
    BY <1>5, <1>12, OutputAssumption DEF Render
  <2>2. /\ c[v] \in Day /\ <<"daily", c[v]>> \in Made(r)
        /\ ~ (Turn(t) <= Turn(<<"daily", c[v]>>))
    BY <1>3, <1>12, <2>1, DaysBeforeIndex DEF Made
  <2>3. <<"daily", c[v]>> \notin run[r].left
    BY <1>1, <1>2, <2>2 DEF RunInv, WorkIsOrdered
  <2> QED
    BY <1>1, <1>2, <2>2, <2>3 DEF RunInv, DoneIsThere
<1>13. RunInv(r)'
  <2>1. WorkIsOrdered(r)'
    BY <1>1, <1>2, <1>9 DEF RunInv, WorkIsOrdered, Active, Writing, HoldsFile, Made
  <2>2. Alone(r)'
    BY <1>1, <1>2, <1>7, <1>9 DEF RunInv, Alone, Active
  <2>3. InTemp(r)'
    BY <1>7, <1>8, <1>9, <1>10 DEF InTemp, Render
  <2>4. DoneIsThere(r)'
    BY <1>1, <1>2, <1>7, <1>9 DEF RunInv, DoneIsThere, Writing, Made, Render
  <2>5. IsSnapshot(r)'
    BY <1>1, <1>2, <1>9 DEF RunInv, WorkIsOrdered, IsSnapshot
  <2> QED
    BY <2>1, <2>2, <2>3, <2>4, <2>5 DEF RunInv
<1>14. t = <<"index">> => Backed(g.holds, output[p])
  BY <1>12
<1> HIDE DEF x, g
<1> QED
  BY <1>2, <1>3, <1>6, <1>7, <1>11, <1>13, <1>14, TempStepKeeps

\* An export that ends without being completed.
LEMMA LeaveKeeps ==
  ASSUME ExportInv, NEW r \in ExportRun, NEW row \in {"running", "failed"},
         Active(r), Leave(r, row)
  PROVE  ExportInv'
<1> DEFINE p == run[r].place
           t == run[r].target
           x == [run[r] EXCEPT !.at = "idle", !.row = row]
           g == [outputTemp[p][t] EXCEPT !.open = outputTemp[p][t].open \ {r}]
<1>1. RunInv(r) /\ ExportTypeOK
  BY DEF ExportInv
<1>2. run[r] \in Run /\ p \in Place /\ t \in Target
  BY <1>1, HandTypes DEF RunInv
<1>3. outputTemp[p][t] \in TempFile
  BY <1>1, <1>2 DEF ExportTypeOK, TempFile, Held
<1>4. x \in Run /\ g \in TempFile
  BY <1>2, <1>3 DEF Run, TempFile
<1>5. /\ run' = [run EXCEPT ![r] = x]
      /\ outputTemp' = [outputTemp EXCEPT ![p] = [outputTemp[p] EXCEPT ![t] = g]]
      /\ UNCHANGED <<data, output, latest, shared, revisions>>
  BY <1>1, <1>2, <1>3 DEF Leave, ExportTypeOK, TempFile
<1>6. g.holds = outputTemp[p][t].holds
  BY <1>3 DEF TempFile
<1>7. g.holds = Mixed => p \in shared
  BY <1>2, <1>6 DEF ExportInv, TempIsWhole
<1>8. t = <<"index">> => Backed(g.holds, output[p])
  BY <1>2, <1>6 DEF ExportInv, IndexIsBacked
<1>9. run'[r].at = "idle" /\ run'[r].row = row
  BY <1>1, <1>2, <1>5 DEF ExportTypeOK, Run
<1>10. RunInv(r)'
  BY <1>9 DEF RunInv, WorkIsOrdered, Alone, InTemp, DoneIsThere, IsSnapshot, Active, Writing,
              HoldsFile
<1> HIDE DEF x, g
<1> QED
  BY <1>2, <1>4, <1>5, <1>7, <1>8, <1>10, TempStepKeeps

\* The temporary file takes its place.
LEMMA RenameKeeps ==
  ASSUME ExportInv, NEW r \in ExportRun, Rename(r)
  PROVE  ExportInv'
<1> DEFINE p == run[r].place
           t == run[r].target
           c == outputTemp[p][t].holds
           x == [run[r] EXCEPT !.at = "ready", !.left = run[r].left \ {t}]
           g == [holds |-> NoOutput, open |-> {}]
<1>1. RunInv(r) /\ ExportTypeOK /\ run[r].at = "closed"
  BY DEF ExportInv, Rename
<1>2. Active(r) /\ Writing(r) /\ HoldsFile(r)
  BY <1>1 DEF Active, Writing, HoldsFile
<1>3. /\ run[r] \in Run /\ p \in Place /\ t \in Target /\ t \in Made(r) /\ Made(r) \subseteq Target
      /\ run[r].left \subseteq Made(r)
      /\ Render(r, t) \in FileContent
  BY <1>1, <1>2, HandTypes DEF RunInv
<1>4. /\ output \in [Place -> [Target -> Held]] /\ outputTemp \in [Place -> [Target -> TempFile]]
      /\ c \in Held /\ x \in Run /\ g \in TempFile
  <2>1. /\ output \in [Place -> [Target -> Held]] /\ outputTemp \in [Place -> [Target -> TempFile]]
    BY <1>1 DEF ExportTypeOK, TempFile, Held
  <2>2. c \in Held
    BY <1>3, <2>1 DEF TempFile
  <2>3. x \in Run
    BY <1>3 DEF Run
  <2>4. g \in TempFile
    BY DEF TempFile, Held
  <2> QED
    BY <2>1, <2>2, <2>3, <2>4
<1>5. /\ run' = [run EXCEPT ![r] = x]
      /\ output' = [output EXCEPT ![p] = [output[p] EXCEPT ![t] = c]]
      /\ outputTemp' = [outputTemp EXCEPT ![p] = [outputTemp[p] EXCEPT ![t] = g]]
      /\ UNCHANGED <<data, latest, shared, revisions>>
      /\ c # NoOutput
  BY <1>1, <1>3, <1>4 DEF Rename, ExportTypeOK
<1>6. /\ output' \in [Place -> [Target -> Held]] /\ outputTemp' \in [Place -> [Target -> TempFile]]
      /\ \A o \in Place : o # p => output'[o] = output[o] /\ outputTemp'[o] = outputTemp[o]
      /\ \A u \in Target : /\ output'[p][u] = IF u = t THEN c ELSE output[p][u]
                           /\ outputTemp'[p][u] = IF u = t THEN g ELSE outputTemp[p][u]
  <2> HIDE DEF c, g, p, t
  <2>1. output[p] \in [Target -> Held] /\ outputTemp[p] \in [Target -> TempFile]
    BY <1>3, <1>4
  <2>2. /\ [output[p] EXCEPT ![t] = c] \in [Target -> Held]
        /\ [outputTemp[p] EXCEPT ![t] = g] \in [Target -> TempFile]
    BY <1>4, <2>1
  <2>3. output' \in [Place -> [Target -> Held]] /\ outputTemp' \in [Place -> [Target -> TempFile]]
    BY <1>4, <1>5, <2>2
  <2>4. \A o \in Place : o # p => output'[o] = output[o] /\ outputTemp'[o] = outputTemp[o]
    BY <1>4, <1>5
  <2>5. /\ output'[p] = [output[p] EXCEPT ![t] = c]
        /\ outputTemp'[p] = [outputTemp[p] EXCEPT ![t] = g]
    BY <1>3, <1>4, <1>5
  <2>6. ASSUME NEW u \in Target
        PROVE  /\ output'[p][u] = IF u = t THEN c ELSE output[p][u]
               /\ outputTemp'[p][u] = IF u = t THEN g ELSE outputTemp[p][u]
    BY <2>1, <2>5
  <2> QED
    BY <2>3, <2>4, <2>6
<1>7. run'[r] = x /\ \A o \in ExportRun : o # r => run'[o] = run[o]
  BY <1>1, <1>5 DEF ExportTypeOK
<1>8. /\ run'[r].at = "ready" /\ run'[r].target = t /\ run'[r].row = run[r].row
      /\ run'[r].place = p /\ run'[r].request = run[r].request
      /\ run'[r].records = run[r].records /\ run'[r].left = run[r].left \ {t}
  BY <1>3, <1>7 DEF Run
<1> HIDE DEF x
<1>9. ExportTypeOK'
  <2>1. run' \in [ExportRun -> Run]
    BY <1>1, <1>4, <1>5 DEF ExportTypeOK
  <2> QED
    BY <1>1, <1>5, <1>6, <2>1 DEF ExportTypeOK, TempFile, Held
<1>10. OutputGrows
  BY <1>5, <1>6 DEF OutputGrows
<1>11. \A o \in ExportRun : o # r => RunInv(o)'
  BY <1>2, <1>5, <1>6, <1>7, <1>10, StepKeepsOthers
\* Where the export is alone it renames what it has written.
<1>12. p \notin shared => c = Render(r, t)
  BY <1>1, <1>2 DEF RunInv, InTemp
<1>13. RunInv(r)'
  <2>1. WorkIsOrdered(r)'
    BY <1>1, <1>2, <1>8 DEF RunInv, WorkIsOrdered, Active, Writing, HoldsFile, Made
  <2>2. Alone(r)'
    BY <1>1, <1>2, <1>5, <1>8 DEF RunInv, Alone, Active
  <2>3. InTemp(r)'
    BY <1>8 DEF InTemp, HoldsFile
  <2>4. DoneIsThere(r)'
    <3>1. ASSUME NEW u \in Made(r) \ (run[r].left \ {t})
          PROVE  /\ output'[p][u] # NoOutput
                 /\ p \notin shared => output'[p][u] = Render(r, u)
      <4>1. CASE u = t
        <5>1. output'[p][u] = c
          BY <1>3, <1>6, <4>1
        <5> QED
          BY <1>5, <1>12, <4>1, <5>1
      <4>2. CASE u # t
        <5>1. u \in Target /\ u \in Made(r) \ run[r].left
          BY <1>3, <3>1, <4>2
        <5>2. output'[p][u] = output[p][u]
          BY <1>6, <4>2, <5>1
        <5> QED
          BY <1>1, <1>2, <5>1, <5>2 DEF RunInv, DoneIsThere
      <4> QED
        BY <4>1, <4>2
    <3> QED
      BY <1>5, <1>8, <3>1 DEF DoneIsThere, Made, Render
  <2>5. IsSnapshot(r)'
    BY <1>1, <1>2, <1>8 DEF RunInv, WorkIsOrdered, IsSnapshot
  <2> QED
    BY <2>1, <2>2, <2>3, <2>4, <2>5 DEF RunInv
<1>14. TempIsWhole'
  <2>1. g.holds # Mixed
    BY OutputAssumption
  <2> QED
    BY <1>5, <1>6, <2>1 DEF ExportInv, TempIsWhole
<1>15. FilesAreWhole'
  <2>1. p \notin shared => c # Mixed
    BY <1>3, <1>12, OutputAssumption
  <2> QED
    BY <1>5, <1>6, <2>1 DEF ExportInv, FilesAreWhole
<1>16. IndexIsBacked'
  <2>1. <<"index">> \in Target
    BY DEF Target
  <2>2. \A F : Backed(g.holds, F)
    BY OutputAssumption DEF Backed
  <2>3. ASSUME NEW o \in Place
        PROVE  /\ Backed(output'[o][<<"index">>], output'[o])
               /\ Backed(outputTemp'[o][<<"index">>].holds, output'[o])
    <3>1. /\ Backed(output[o][<<"index">>], output'[o])
          /\ Backed(outputTemp[o][<<"index">>].holds, output'[o])
      BY <1>10, BackedStays
    <3>2. CASE o # p
      <4>1. output'[o] = output[o] /\ outputTemp'[o] = outputTemp[o]
        BY <1>6, <3>2
      <4> QED
        BY <3>1, <4>1
    <3>3. CASE o = p
      <4> HIDE DEF c, g, p, t
      <4>1. /\ output'[p][<<"index">>] =
                 IF <<"index">> = t THEN c ELSE output[p][<<"index">>]
            /\ outputTemp'[p][<<"index">>] =
                 IF <<"index">> = t THEN g ELSE outputTemp[p][<<"index">>]
        BY <1>6, <2>1
      <4>2. t = <<"index">> => Backed(c, output'[p])
        BY <3>1, <3>3 DEF c
      <4> QED
        BY <2>2, <3>1, <3>3, <4>1, <4>2
    <3> QED
      BY <3>2, <3>3
  <2> QED
    BY <2>3 DEF IndexIsBacked
<1> QED
  BY <1>9, <1>11, <1>13, <1>14, <1>15, <1>16 DEF ExportInv

\* An export that is completed.
LEMMA CompleteKeeps ==
  ASSUME ExportInv, NEW r \in ExportRun, Complete(r)
  PROVE  ExportInv'
<1> DEFINE p == run[r].place
           x == [run[r] EXCEPT !.at = "idle", !.row = "completed", !.hash = FilesIn(p)]
<1>1. RunInv(r) /\ ExportTypeOK /\ run[r].at = "ready" /\ run[r].left = {}
  BY DEF ExportInv, Complete
<1>2. Active(r) /\ Writing(r)
  BY <1>1 DEF Active, Writing
<1>3. run[r] \in Run /\ p \in Place
  BY <1>1, HandTypes DEF RunInv
<1>4. FilesIn(p) \in [Place -> [Target -> FileContent \cup {NoOutput, Mixed}]]
  BY <1>1 DEF FilesIn, NoFiles, ExportTypeOK
<1>5. x \in Run
  BY <1>3, <1>4 DEF Run
<1>6. /\ run' = [run EXCEPT ![r] = x]
      /\ UNCHANGED <<data, output, outputTemp, latest, shared, revisions>>
  BY <1>1 DEF Complete, ExportTypeOK
<1>7. run'[r] = x /\ \A o \in ExportRun : o # r => run'[o] = run[o]
  BY <1>1, <1>6 DEF ExportTypeOK
<1>8. /\ run'[r].at = "idle" /\ run'[r].row = "completed" /\ run'[r].hash = FilesIn(p)
      /\ run'[r].place = p /\ run'[r].request = run[r].request
      /\ run'[r].records = run[r].records
  BY <1>3, <1>7 DEF Run
<1> HIDE DEF x
<1>9. ExportTypeOK'
  BY <1>1, <1>5, <1>6 DEF ExportTypeOK
<1>10. OutputGrows
  BY <1>6 DEF OutputGrows
<1>11. \A o \in ExportRun : o # r => RunInv(o)'
  BY <1>2, <1>6, <1>7, <1>10, StepKeepsOthers
<1>12. RunInv(r)'
  <2>1. WorkIsOrdered(r)' /\ Alone(r)' /\ InTemp(r)' /\ DoneIsThere(r)'
    BY <1>8 DEF WorkIsOrdered, Alone, InTemp, DoneIsThere, Active, Writing, HoldsFile
  <2>2. \A t \in Made(r) : /\ output[p][t] # NoOutput
                           /\ p \notin shared => output[p][t] = Render(r, t)
    BY <1>1, <1>2 DEF RunInv, DoneIsThere
  <2>3. IsSnapshot(r)'
    <3>1. FilesIn(run[r].place)' = FilesIn(p)
      BY <1>6, <1>8 DEF FilesIn
    <3>2. Made(r)' = Made(r) /\ \A t : Render(r, t)' = Render(r, t)
      BY <1>8 DEF Made, Render
    <3>3. (run[r].hash)' = FilesIn(run[r].place)'
      BY <1>8, <3>1
    <3>4. \A t \in Made(r)' : /\ (output[run[r].place][t])' # NoOutput
                              /\ (run[r].place \notin shared)' =>
                                   (output[run[r].place][t])' = Render(r, t)'
      BY <1>6, <1>8, <2>2, <3>2
    <3> QED
      BY <3>3, <3>4 DEF IsSnapshot
  <2> QED
    BY <2>1, <2>3 DEF RunInv
<1>13. TempIsWhole' /\ FilesAreWhole' /\ IndexIsBacked'
  BY <1>6 DEF ExportInv, TempIsWhole, FilesAreWhole, IndexIsBacked
<1> QED
  BY <1>9, <1>11, <1>12, <1>13 DEF ExportInv

\* A change to the data, or no step.
LEMMA NoExportKeeps ==
  ASSUME ExportInv, UNCHANGED <<output, outputTemp, run, latest, shared>>,
         data' \in Records, revisions' \in 0..MaxRevision
  PROVE  ExportInv'
<1>1. ExportTypeOK'
  BY DEF ExportInv, ExportTypeOK
<1>2. ASSUME NEW r \in ExportRun PROVE RunInv(r)'
  <2>1. RunInv(r)
    BY DEF ExportInv
  <2>2. \A p : FilesIn(p)' = FilesIn(p)
    BY DEF FilesIn
  <2>3. /\ Writing(r)' = Writing(r) /\ HoldsFile(r)' = HoldsFile(r) /\ Active(r)' = Active(r)
        /\ Made(r)' = Made(r) /\ \A t : Render(r, t)' = Render(r, t)
    BY DEF Writing, HoldsFile, Active, Made, Render
  <2>4. IsSnapshot(r)'
    <3>1. FilesIn(run[r].place)' = FilesIn(run[r].place)
      BY DEF FilesIn
    <3> QED
      BY <2>1, <2>3, <3>1 DEF RunInv, IsSnapshot
  <2> QED
    BY <2>1, <2>3, <2>4 DEF RunInv, WorkIsOrdered, Alone, InTemp, DoneIsThere
<1>3. TempIsWhole' /\ FilesAreWhole' /\ IndexIsBacked'
  BY DEF ExportInv, TempIsWhole, FilesAreWhole, IndexIsBacked
<1> QED
  BY <1>1, <1>2, <1>3 DEF ExportInv

--------------------------------------------------------------------------------
(* Exports: the theorems. *)

\* Nothing has been written yet.
LEMMA InitHolds == ExportInit => ExportInv
<1> SUFFICES ASSUME ExportInit PROVE ExportInv
  OBVIOUS
<1>1. PICK q \in Request :
        run = [r \in ExportRun |->
                [row |-> "none", at |-> "idle", place |-> Everything, request |-> q,
                 records |-> [v \in Voice |-> "untranscribed"],
                 target |-> <<"index">>, left |-> {}, hash |-> [p \in Place |-> NoFiles]]]
  BY DEF ExportInit
<1>2. [row |-> "none", at |-> "idle", place |-> Everything, request |-> q,
       records |-> [v \in Voice |-> "untranscribed"],
       target |-> <<"index">>, left |-> {}, hash |-> [p \in Place |-> NoFiles]] \in Run
  BY DEF Run, Place, Records, Target, NoFiles
<1>3. ExportTypeOK
  <2>1. run \in [ExportRun -> Run]
    BY <1>1, <1>2
  <2>2. revisions \in 0..MaxRevision
    BY ExportsAssumption DEF ExportInit
  <2> QED
    BY <2>1, <2>2 DEF ExportInit, ExportTypeOK, NoFiles
<1>4. \A r \in ExportRun : run[r].at = "idle" /\ run[r].row = "none"
  BY <1>1
<1>5. \A r \in ExportRun : RunInv(r)
  BY <1>4 DEF RunInv, WorkIsOrdered, Alone, InTemp, DoneIsThere, IsSnapshot, Active, Writing,
             HoldsFile
<1>6. \A p \in Place, t \in Target :
        output[p][t] = NoOutput /\ outputTemp[p][t].holds = NoOutput
  BY DEF ExportInit, NoFiles
<1>7. TempIsWhole /\ FilesAreWhole
  BY <1>6, OutputAssumption DEF TempIsWhole, FilesAreWhole
<1>8. IndexIsBacked
  <2>1. <<"index">> \in Target
    BY DEF Target
  <2> QED
    BY <1>6, <2>1, OutputAssumption DEF IndexIsBacked, Backed
<1> QED
  BY <1>3, <1>5, <1>7, <1>8 DEF ExportInv

\* All steps together.
LEMMA StepKeeps == ExportInv /\ [ExportNext]_exportVars => ExportInv'
<1> SUFFICES ASSUME ExportInv, [ExportNext]_exportVars PROVE ExportInv'
  OBVIOUS
<1>1. ASSUME NEW r \in ExportRun, NEW p \in Place, NEW q \in Request, StartExport(r, p, q)
      PROVE  ExportInv'
  BY <1>1, StartKeeps
<1>2. ASSUME NEW r \in ExportRun, NEW t \in run[r].left, Open(r, t)
      PROVE  ExportInv'
  BY <1>2, OpenKeeps
<1>3. ASSUME NEW r \in ExportRun, ReadRecords(r) \/ Close(r) \/ Rename(r) \/ Complete(r)
      PROVE  ExportInv'
  BY <1>3, ReadKeeps, CloseKeeps, RenameKeeps, CompleteKeeps
<1>4. ASSUME NEW r \in ExportRun, FailExport(r) \/ AbandonExport(r)
      PROVE  ExportInv'
  BY <1>4, LeaveKeeps DEF FailExport, AbandonExport
<1>5. ASSUME NEW v \in Voice, NEW d \in Day \cup {"undated", "untranscribed"}, Revise(v, d)
      PROVE  ExportInv'
  <2>1. data' \in Records /\ revisions' \in 0..MaxRevision
    BY <1>5, ExportsAssumption DEF Revise, ExportInv, ExportTypeOK, Records
  <2> QED
    BY <1>5, <2>1, NoExportKeeps DEF Revise
<1>6. CASE UNCHANGED exportVars
  <2>1. data' \in Records /\ revisions' \in 0..MaxRevision
    BY <1>6 DEF exportVars, ExportInv, ExportTypeOK
  <2> QED
    BY <1>6, <2>1, NoExportKeeps DEF exportVars
<1> QED
  BY <1>1, <1>2, <1>3, <1>4, <1>5, <1>6 DEF ExportNext

\* What the exports keep at every step.
THEOREM ExportInvariant == ExportSpec => []ExportInv
<1> QED
  BY InitHolds, StepKeeps, PTL DEF ExportSpec

\* Type correctness.
THEOREM ExportTypes == ExportSpec => []ExportTypeOK
<1>1. ExportInv => ExportTypeOK
  BY DEF ExportInv
<1> QED
  BY <1>1, ExportInvariant, PTL

\* FilesAreWhole: where only one export at a time writes, atomic_write never leaves
\* anything but whole files in place.
THEOREM FilesStayWhole == ExportSpec => []FilesAreWhole
<1>1. ExportInv => FilesAreWhole
  BY DEF ExportInv
<1> QED
  BY <1>1, ExportInvariant, PTL

\* CompletedIsOneSnapshot: a completed row means that all files are there, and of one
\* moment until another export begins in the folder.
THEOREM CompletedSnapshots == ExportSpec => []CompletedIsOneSnapshot
<1>1. ExportInv => CompletedIsOneSnapshot
  <2> SUFFICES ASSUME ExportInv, NEW r \in ExportRun, run[r].row = "completed"
               PROVE  /\ \A t \in Made(r) : output[run[r].place][t] # NoOutput
                      /\ run[r].place \notin shared /\ latest[run[r].place] = r =>
                           /\ \A t \in Made(r) : output[run[r].place][t] = Render(r, t)
                           /\ run[r].place # Everything => run[r].hash = FilesIn(run[r].place)
    BY DEF CompletedIsOneSnapshot, Made
  <2> QED
    BY DEF ExportInv, RunInv, IsSnapshot
<1> QED
  BY <1>1, ExportInvariant, PTL

\* IndexLeadsSomewhere: _markdown writes the files of the days before INDEX.md, and no
\* export removes one.
THEOREM IndexIsSound == ExportSpec => []IndexLeadsSomewhere
<1>1. ExportInv => IndexLeadsSomewhere
  BY DEF ExportInv, IndexIsBacked, Backed, IndexLeadsSomewhere
<1> QED
  BY <1>1, ExportInvariant, PTL
================================================================================
