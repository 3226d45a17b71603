-------------------------------- MODULE ConfigFile --------------------------------
(***************************************************************************)
(* ConfigFile: config.toml and its last good copy.                         *)
(*                                                                         *)
(* Every setting is saved by reading the whole file, changing one field    *)
(* and writing the whole file back, in the window, in a thread of it or in *)
(* a second window, without a lock: a temporary file is filled and renamed *)
(* to config.toml, and then the same once more for the copy.  The user may *)
(* edit or delete the file at any time, or run a newer version of the      *)
(* program and come back.  What cannot be read or is not valid is replaced *)
(* by the copy, in memory only; so are the settings of a newer version.    *)
(***************************************************************************)
EXTENDS Naturals

CONSTANTS
  Writer,       \* the threads that save a setting
  Folder,       \* folders with audio files
  NoFolder,     \* no archive folder has been chosen
  Pref,         \* values of all the other settings together
  DefaultPref,  \* their defaults
  Missing,      \* no such file
  Invalid,      \* not TOML, or a value out of range
  Newer,        \* the settings of a version with a newer schema_version
  Mistyped,     \* TOML of a shape that makes a comparison or dict() raise TypeError
  MaxEdit,      \* bound on the edits by hand
  MaxSave       \* bound on the saves that are begun

ASSUME ConfigAssumption ==
  /\ NoFolder \notin Folder /\ DefaultPref \in Pref
  /\ MaxEdit \in Nat /\ MaxSave \in Nat

VARIABLES
  config,       \* config.toml
  configTemp,   \* config.toml.tmp
  lastgood,     \* config.lastgood.toml
  lastgoodTemp, \* config.lastgood.toml.tmp
  writer,       \* where each save is, and the settings it has in hand
  edits,        \* how many edits there have been
  saves,        \* how many saves have been begun
  chosen,       \* history: the settings as the user has last left them
  earlier,      \* history: all settings that the user has had before
  behind,       \* history: the copy has not followed the last of them
  serial        \* history: no two saves have overlapped, no edit has fallen into
                \* one, and none has started from anything but the settings chosen

configVars == <<config, configTemp, lastgood, lastgoodTemp, writer, edits, saves,
                chosen, earlier, behind, serial>>

\* AppConfig as far as it matters: audio_roots, direct_roots, the sections and
\* whether there are tables that this version does not know.
Settings == [archive : Folder \cup {NoFolder}, direct : SUBSET Folder, prefs : Pref,
             unknown : BOOLEAN]

ASSUME ContentsAssumption ==
  /\ Settings \cap {Missing, Invalid, Mistyped, Newer} = {}
  /\ Missing \notin {Invalid, Mistyped, Newer}
  /\ Invalid \notin {Mistyped, Newer} /\ Mistyped # Newer

Defaults == [archive |-> NoFolder, direct |-> {}, prefs |-> DefaultPref, unknown |-> FALSE]

\* What config.toml may hold, and what its copy; save() writes settings that are valid
\* for this version and no others.
Contents == Settings \cup {Missing, Invalid, Mistyped, Newer}
Copies == Settings \cup {Missing, Newer}
Written == Settings \cup {Missing}

\* save_audio_root, also through prepare_test_batch and the wizard;
\* add_audio_files; clear_direct_roots; save_chat_root, set_default_model and the
\* saving of the transcription and export settings; the first save after the wizard.
Change ==
  [what : {"archive", "files"}, value : Folder] \cup [what : {"prefs"}, value : Pref]
    \cup [what : {"no files", "nothing"}, value : {NoFolder}]
NoChange == [what |-> "nothing", value |-> NoFolder]

WriterState == [at : {"idle", "changed", "drafted", "promoted", "copied"}, change : Change,
                next : Settings]
NoSave == [at |-> "idle", change |-> NoChange, next |-> Defaults]

ConfigTypeOK ==
  /\ config \in Contents /\ configTemp \in Written
  /\ lastgood \in Copies /\ lastgoodTemp \in Written
  /\ writer \in [Writer -> WriterState]
  /\ edits \in 0 .. MaxEdit /\ saves \in 0 .. MaxSave
  /\ chosen \in Settings \cup {Newer} /\ earlier \subseteq Settings \cup {Newer}
  /\ behind \in BOOLEAN /\ serial \in BOOLEAN

ConfigInit ==
  /\ config = Missing /\ configTemp = Missing
  /\ lastgood = Missing /\ lastgoodTemp = Missing
  /\ writer = [w \in Writer |-> NoSave]
  /\ edits = 0 /\ saves = 0
  /\ chosen = Defaults /\ earlier = {}
  /\ behind = TRUE /\ serial = TRUE

Saving(w) == writer[w].at # "idle"

--------------------------------------------------------------------------------
(* load(). *)

Raises == config = Mistyped

\* Mutant: the copy is not looked at.
LoadedOrDefault == IF config \in Settings THEN config ELSE Defaults

\* A missing file gives the defaults, whatever the copy holds.  validate() refuses the
\* settings of a newer version, in the copy as well.
Loaded ==
  IF config \in Settings THEN config
  ELSE IF config \in {Invalid, Newer} /\ lastgood \in Settings THEN lastgood
  ELSE Defaults

--------------------------------------------------------------------------------
(* The changes, each of one field. *)

\* The user leaves other settings than before.
Chooses(settings) == chosen' = settings /\ earlier' = earlier \cup {chosen}

Applied(c, s) ==
  CASE c.what = "archive" -> [s EXCEPT !.archive = c.value]
    [] c.what = "files" -> [s EXCEPT !.direct = @ \cup {c.value}]
    [] c.what = "no files" -> [s EXCEPT !.direct = {}]
    [] c.what = "prefs" -> [s EXCEPT !.prefs = c.value]
    [] c.what = "nothing" -> s

--------------------------------------------------------------------------------
(* save(), and the load before it. *)

BeginSave(w) ==
  /\ ~ Saving(w) /\ ~ Raises /\ saves < MaxSave
  /\ saves' = saves + 1
  /\ \E c \in Change :
       writer' = [writer EXCEPT ![w] = [at |-> "changed", change |-> c,
                                        next |-> Applied(c, Loaded)]]
  /\ serial' = (serial /\ (\A v \in Writer : ~ Saving(v)) /\ Loaded = chosen)
  /\ UNCHANGED <<config, configTemp, lastgood, lastgoodTemp, edits, chosen, earlier, behind>>

DraftConfig(w) ==
  /\ writer[w].at = "changed"
  /\ configTemp' = writer[w].next
  /\ writer' = [writer EXCEPT ![w].at = "drafted"]
  /\ UNCHANGED <<config, lastgood, lastgoodTemp, edits, saves, chosen, earlier, behind,
                 serial>>

\* The renaming takes what another save may have put there; without a temporary
\* file it fails (SaveFails).
PromoteConfig(w) ==
  /\ writer[w].at = "drafted" /\ configTemp # Missing
  /\ config' = configTemp /\ configTemp' = Missing
  /\ writer' = [writer EXCEPT ![w].at = "promoted"]
  /\ Chooses(IF chosen = Newer THEN Newer ELSE Applied(writer[w].change, chosen))
  /\ behind' = TRUE
  /\ UNCHANGED <<lastgood, lastgoodTemp, edits, saves, serial>>

DraftLastGood(w) ==
  /\ writer[w].at = "promoted"
  /\ lastgoodTemp' = writer[w].next
  /\ writer' = [writer EXCEPT ![w].at = "copied"]
  /\ UNCHANGED <<config, configTemp, lastgood, edits, saves, chosen, earlier, behind,
                 serial>>

PromoteLastGood(w) ==
  /\ writer[w].at = "copied" /\ lastgoodTemp # Missing
  /\ lastgood' = lastgoodTemp /\ lastgoodTemp' = Missing
  /\ writer' = [writer EXCEPT ![w] = NoSave]
  /\ behind' = FALSE
  /\ UNCHANGED <<config, configTemp, edits, saves, chosen, earlier, serial>>

\* An exception, or the process dies; what has been renamed stays.
SaveFails(w) ==
  /\ Saving(w)
  /\ writer' = [writer EXCEPT ![w] = NoSave]
  /\ UNCHANGED <<config, configTemp, lastgood, lastgoodTemp, edits, saves, chosen, earlier,
                 behind, serial>>

--------------------------------------------------------------------------------
(* The user. *)

Edit(contents) ==
  /\ edits < MaxEdit /\ contents # config
  /\ config' = contents
  /\ edits' = edits + 1
  /\ serial' = (serial /\ \A w \in Writer : ~ Saving(w))
  /\ UNCHANGED <<configTemp, lastgoodTemp, writer, saves>>

\* A setting is changed by hand, or the file deleted.
EditSettings ==
  /\ \/ \E p \in Pref, u \in BOOLEAN :
          /\ config \in Settings
          /\ Edit([config EXCEPT !.prefs = p, !.unknown = u])
          /\ Chooses([config EXCEPT !.prefs = p, !.unknown = u])
     \/ Edit(Missing) /\ Chooses(Defaults)
  /\ behind' = TRUE
  /\ UNCHANGED lastgood

\* The file is spoilt.
Spoil == \E c \in {Invalid, Mistyped} : Edit(c) /\ UNCHANGED <<lastgood, chosen, earlier, behind>>

\* A newer version of the program has saved its settings: in the file, and, unless it
\* has died between the two, in the copy.
RunNewer ==
  /\ Edit(Newer)
  /\ lastgood' \in {lastgood, Newer}
  /\ Chooses(Newer)
  /\ behind' = TRUE

--------------------------------------------------------------------------------
SaveStep(w) ==
  \/ BeginSave(w) \/ DraftConfig(w) \/ PromoteConfig(w)
  \/ DraftLastGood(w) \/ PromoteLastGood(w) \/ SaveFails(w)

ConfigNext == EditSettings \/ Spoil \/ RunNewer \/ \E w \in Writer : SaveStep(w)

ConfigSpec == ConfigInit /\ [][ConfigNext]_configVars

--------------------------------------------------------------------------------
(* Properties. *)

\* Between two saves, what load() finds is what the user has chosen so far, field by
\* field: saving one setting takes no other back, not the archive folder, nor tables
\* that this version does not know; and a spoilt file costs at most what the copy has
\* not followed: load() then finds settings that the user had once, never a mixture.
\* Three things are excepted, because the code does nothing about them: saves and edits
\* that overlap (and a save from anything but the settings chosen); a file that load()
\* raises TypeError at; and the settings of a newer version, which load() does not read
\* and the next save replaces.
LoadFindsChoice ==
  serial /\ (\A w \in Writer : ~ Saving(w)) /\ ~ Raises /\ config # Newer =>
    \/ Loaded = chosen
    \/ config = Invalid /\ behind /\ Loaded \in earlier
================================================================================
