-------------------------------- MODULE Discovery --------------------------------
(***************************************************************************)
(* Discovery: how scans of the audio folder and of single files keep the   *)
(* rows of audio_files, their source versions and their places in step     *)
(* with files that are replaced, renamed, copied, damaged and removed      *)
(* while nobody looks.                                                     *)
(*                                                                         *)
(* A scan runs in a thread of its own and nothing prevents a second one.   *)
(* It lists its files, then takes one after the other: the bytes are read  *)
(* outside any transaction, and one transaction records them.  The worker  *)
(* appears with one step, a finished transcription; what else it and the   *)
(* user do to the rows is the subject of TranscriptionQueue.               *)
(***************************************************************************)
EXTENDS Naturals

CONSTANTS
  Scan,         \* the scans that may run side by side
  MaxPath,      \* the paths below the audio folder, numbered in sorted order
  Nested,       \* those in a folder below the audio folder: they have another
                \* source root when they are added one by one
  Content,      \* the different bytes a file may have
  Gone,         \* no file at that path
  Bad,          \* a file that is empty or cannot be read
  NoDigest,     \* NULL for a digest
  MaxRow,       \* bound on the rows of audio_files
  MaxBegin,     \* bound on the scans that are begun
  MaxChange     \* bound on the changes made to the files

Path == 1 .. MaxPath
Row == 1 .. MaxRow

ASSUME DiscoveryAssumption ==
  /\ MaxPath \in Nat /\ MaxRow \in Nat
  /\ MaxBegin \in Nat /\ MaxChange \in Nat
  /\ Nested \subseteq Path
  /\ Gone \notin Content /\ Bad \notin Content /\ NoDigest \notin Content /\ Gone # Bad

VARIABLES
  count,        \* how many rows audio_files has
  at,           \* source_root_id and current_relative_path
  readable,     \* readable and not zero_byte
  state,        \* current_state
  current,      \* current_source_version_id
  versions,     \* audio_source_versions
  flagged,      \* those with is_current = 1
  active,       \* the active row of audio_path_history
  disk,         \* the files
  changes,      \* how often a file has changed
  begun,        \* how many scans have been begun
  phase,        \* where each scan is
  kind,         \* scan_audio_root or scan_audio_files
  listed,       \* the paths it has listed, all of them in seen at its end
  todo,         \* those it has not recorded yet
  hand,         \* the path whose bytes it has read
  quiet         \* history: neither the files nor another scan's writes have
                \* interfered since the scan began

registry == <<count, at, readable, state, current, versions, flagged, active>>
files == <<disk, changes>>
scans == <<begun, phase, kind, listed, todo, hand>>
vars == <<registry, files, scans, quiet>>

Place == [root : {"archive", "folder"}, path : Path]
NoPlace == [root |-> "none", path |-> 0]
Version == [row : Row, content : Content]
NoVersion == [row |-> 0, content |-> NoDigest]
NoHand == [path |-> 0, digest |-> NoDigest]
Complete == "completed_preferred"
States == {"discovered", Complete, "missing_source", "stale_source_changed"}

TypeOK ==
  /\ count \in 0 .. MaxRow
  /\ at \in [Row -> Place \cup {NoPlace}]
  /\ readable \in [Row -> BOOLEAN]
  /\ state \in [Row -> States]
  /\ current \in [Row -> Version \cup {NoVersion}]
  /\ versions \subseteq Version
  /\ flagged \subseteq Version
  /\ active \in [Row -> Place \cup {NoPlace}]
  /\ disk \in [Path -> Content \cup {Gone, Bad}]
  /\ changes \in 0 .. MaxChange
  /\ begun \in 0 .. MaxBegin
  /\ phase \in [Scan -> {"idle", "walking", "read", "ended"}]
  /\ kind \in [Scan -> {"folder", "files"}]
  /\ listed \in [Scan -> SUBSET Path]
  /\ todo \in [Scan -> SUBSET Path]
  /\ hand \in [Scan -> [path : Path, digest : Content \cup {NoDigest}] \cup {NoHand}]
  /\ quiet \in [Scan -> BOOLEAN]

\* An empty database and any files.
Init ==
  /\ count = 0
  /\ at = [r \in Row |-> NoPlace]
  /\ readable = [r \in Row |-> FALSE]
  /\ state = [r \in Row |-> "discovered"]
  /\ current = [r \in Row |-> NoVersion]
  /\ versions = {} /\ flagged = {}
  /\ active = [r \in Row |-> NoPlace]
  /\ disk \in [Path -> Content \cup {Gone, Bad}]
  /\ changes = 0
  /\ begun = 0
  /\ phase = [s \in Scan |-> "idle"]
  /\ kind = [s \in Scan |-> "folder"]
  /\ listed = [s \in Scan |-> {}]
  /\ todo = [s \in Scan |-> {}]
  /\ hand = [s \in Scan |-> NoHand]
  /\ quiet = [s \in Scan |-> FALSE]

--------------------------------------------------------------------------------
(* Reading the tables. *)

\* The source root and relative path under which a scan looks a file up.
PlaceOf(s, p) ==
  [root |-> IF kind[s] = "files" /\ p \in Nested THEN "folder" ELSE "archive", path |-> p]

Spot(s) == PlaceOf(s, hand[s].path)

At(place) == {r \in Row : at[r] = place}

\* audio_at_path: one of the rows at the place, 0 if there is none.
IsAtPath(s, r) == IF At(Spot(s)) = {} THEN r = 0 ELSE r \in At(Spot(s))

\* Mutant: a digest is looked for among the current versions only.
IsKnownAndCurrent(v, digest) ==
  /\ v \in flagged /\ v.content = digest
  /\ \A w \in flagged : w.content = digest => v.row <= w.row

\* audio_for_sha256: the version with that digest, current ones before others,
\* then the smallest row.
IsKnown(v, digest) ==
  /\ v \in versions /\ v.content = digest
  /\ \A w \in versions :
       w.content = digest =>
         \/ v \in flagged /\ w \notin flagged
         \/ (v \in flagged <=> w \in flagged) /\ v.row <= w.row

IsUnknown(digest) == \A v \in versions : ~ IsKnown(v, digest)

--------------------------------------------------------------------------------
(* The files. *)

\* Somebody replaces, damages, removes or restores a file.
Write(p) ==
  /\ changes < MaxChange
  /\ \E d \in Content \cup {Gone, Bad} : d # disk[p] /\ disk' = [disk EXCEPT ![p] = d]
  /\ changes' = changes + 1
  /\ quiet' = [s \in Scan |-> FALSE]
  /\ UNCHANGED <<registry, scans>>

\* Somebody renames a file, over another one perhaps.
Rename(p, q) ==
  /\ changes < MaxChange
  /\ p # q /\ disk[p] # Gone
  /\ disk' = [disk EXCEPT ![p] = Gone, ![q] = disk[p]]
  /\ changes' = changes + 1
  /\ quiet' = [s \in Scan |-> FALSE]
  /\ UNCHANGED <<registry, scans>>

\* The worker finishes the transcription of a row's file.
Transcribed(r) ==
  /\ readable[r] /\ current[r] # NoVersion /\ state[r] # Complete
  /\ disk[at[r].path] \in Content
  /\ state' = [state EXCEPT ![r] = Complete]
  /\ UNCHANGED <<count, at, readable, current, versions, flagged, active, files, scans, quiet>>

--------------------------------------------------------------------------------
(* One scan. *)

Begin(s, k, S) ==
  /\ phase[s] \in {"idle", "ended"} /\ begun < MaxBegin
  /\ begun' = begun + 1
  /\ phase' = [phase EXCEPT ![s] = "walking"]
  /\ kind' = [kind EXCEPT ![s] = k]
  /\ listed' = [listed EXCEPT ![s] = S]
  /\ todo' = [todo EXCEPT ![s] = S]
  /\ quiet' = [quiet EXCEPT ![s] = TRUE]
  /\ UNCHANGED <<registry, files, hand>>

Existing == {p \in Path : disk[p] # Gone}

\* scan_audio_root: the files of the folder are listed.
BeginFolder(s) == Begin(s, "folder", Existing)

\* scan_audio_files: the given files exist, or nothing is begun.
BeginFiles(s) == \E S \in SUBSET Existing : S # {} /\ Begin(s, "files", S)

\* _scan_one up to its transaction; a file that has gone by now is like one
\* that cannot be read.
Read(s, p) ==
  /\ phase[s] = "walking"
  /\ p \in todo[s] /\ \A q \in todo[s] : p <= q
  /\ phase' = [phase EXCEPT ![s] = "read"]
  /\ hand' = [hand EXCEPT ![s] =
                [path |-> p, digest |-> IF disk[p] \in Content THEN disk[p] ELSE NoDigest]]
  /\ UNCHANGED <<registry, files, begun, kind, listed, todo, quiet>>

\* The transaction of _scan_one is over: on to the next file.
Recorded(s) ==
  /\ phase[s] = "read"
  /\ phase' = [phase EXCEPT ![s] = "walking"]
  /\ todo' = [todo EXCEPT ![s] = @ \ {hand[s].path}]
  /\ hand' = [hand EXCEPT ![s] = NoHand]
  /\ quiet' = [t \in Scan |-> quiet[t] /\ t = s]
  /\ UNCHANGED <<files, begun, kind, listed>>

\* Mutant: only the path history learns of a new place.
ObserveHistoryOnly(s, r) ==
  /\ at' = [at EXCEPT ![r] = IF @ = NoPlace THEN Spot(s) ELSE @]
  /\ readable' = [readable EXCEPT ![r] = hand[s].digest # NoDigest]
  /\ active' = [active EXCEPT ![r] = Spot(s)]

\* update_audio_observation, or create_audio, and record_path.
Observe(s, r) ==
  /\ at' = [at EXCEPT ![r] = Spot(s)]
  /\ readable' = [readable EXCEPT ![r] = hand[s].digest # NoDigest]
  /\ active' = [active EXCEPT ![r] = Spot(s)]

\* Mutant: the version that was current keeps its flag.
MarkAnotherCurrent(v) ==
  /\ flagged' = flagged \cup {v}
  /\ current' = [current EXCEPT ![v.row] = v]

\* mark_source_version_current.
MarkCurrent(v) ==
  /\ flagged' = {w \in flagged : w.row # v.row} \cup {v}
  /\ current' = [current EXCEPT ![v.row] = v]

\* The bytes are those of the current version, or there are none on either side.
Unchanged(s, r) ==
  /\ IsAtPath(s, r) /\ r # 0 /\ current[r].content = hand[s].digest
  /\ Recorded(s) /\ Observe(s, r)
  /\ UNCHANGED <<count, state, current, versions, flagged>>

IsOther(s, r) == IsAtPath(s, r) /\ (r # 0 => current[r].content # hand[s].digest)

\* The row had these bytes before and has them again.
Restored(s, r, v) ==
  /\ IsOther(s, r) /\ hand[s].digest # NoDigest
  /\ IsKnown(v, hand[s].digest) /\ v.row = r
  /\ Recorded(s) /\ Observe(s, r) /\ MarkCurrent(v)
  /\ state' = [state EXCEPT ![r] = "stale_source_changed"]
  /\ UNCHANGED <<count, versions>>

\* The bytes are of another row, which moves here.
Relinked(s, r, v) ==
  /\ IsOther(s, r) /\ hand[s].digest # NoDigest
  /\ IsKnown(v, hand[s].digest) /\ v.row # r
  /\ Recorded(s) /\ Observe(s, v.row)
  /\ UNCHANGED <<count, state, current, versions, flagged>>

\* Mutant: the bytes of an unreadable file are a version as well.
ReplacedByAnything(s, r) ==
  LET v == [row |-> r, content |-> hand[s].digest] IN
  /\ IsOther(s, r) /\ r # 0 /\ IsUnknown(hand[s].digest)
  /\ Recorded(s) /\ Observe(s, r) /\ MarkCurrent(v)
  /\ versions' = versions \cup {v}
  /\ state' = [state EXCEPT ![r] = "stale_source_changed"]
  /\ UNCHANGED count

\* New bytes at the place of a row become a version of it.
Replaced(s, r) ==
  LET v == [row |-> r, content |-> hand[s].digest] IN
  /\ IsOther(s, r) /\ r # 0 /\ hand[s].digest # NoDigest /\ IsUnknown(hand[s].digest)
  /\ Recorded(s) /\ Observe(s, r) /\ MarkCurrent(v)
  /\ versions' = versions \cup {v}
  /\ state' = [state EXCEPT ![r] = "stale_source_changed"]
  /\ UNCHANGED count

\* The file of a row is empty or unreadable now: only that is recorded.
Damaged(s, r) ==
  /\ IsOther(s, r) /\ r # 0 /\ hand[s].digest = NoDigest
  /\ Recorded(s) /\ Observe(s, r)
  /\ UNCHANGED <<count, state, current, versions, flagged>>

\* A new row, and its version.
Created(s) ==
  LET r == count + 1
      v == [row |-> r, content |-> hand[s].digest] IN
  /\ IsAtPath(s, 0) /\ count < MaxRow
  /\ hand[s].digest # NoDigest /\ IsUnknown(hand[s].digest)
  /\ Recorded(s) /\ Observe(s, r) /\ MarkCurrent(v)
  /\ versions' = versions \cup {v}
  /\ state' = [state EXCEPT ![r] = "discovered"]
  /\ count' = r

\* A new row for a file that cannot be read.
CreatedWithoutVersion(s) ==
  LET r == count + 1 IN
  /\ IsAtPath(s, 0) /\ count < MaxRow
  /\ hand[s].digest = NoDigest
  /\ Recorded(s) /\ Observe(s, r)
  /\ state' = [state EXCEPT ![r] = "missing_source"]
  /\ count' = r
  /\ UNCHANGED <<current, versions, flagged>>

\* Mutant: only a row nothing has happened to can be missing.
AbsentIfDiscovered(s) ==
  {r \in Row : /\ kind[s] = "folder" /\ state[r] = "discovered"
               /\ at[r].root = "archive" /\ at[r].path \notin listed[s]}

\* mark_missing_paths, which scan_audio_files does not call.
Absent(s) ==
  {r \in Row : /\ kind[s] = "folder"
               /\ at[r].root = "archive" /\ at[r].path \notin listed[s]}

\* Mutant: a finished transcript is marked as well.
MarkAllMissing(s) ==
  state' = [r \in Row |-> IF r \in Absent(s) THEN "missing_source" ELSE state[r]]

MarkMissing(s) ==
  state' = [r \in Row |-> IF r \in Absent(s) /\ state[r] # Complete THEN "missing_source"
                          ELSE state[r]]

\* The transaction that ends a scan.
Finish(s) ==
  /\ phase[s] = "walking" /\ todo[s] = {}
  /\ MarkMissing(s)
  /\ active' = [r \in Row |-> IF r \in Absent(s) THEN NoPlace ELSE active[r]]
  /\ phase' = [phase EXCEPT ![s] = "ended"]
  /\ quiet' = [t \in Scan |-> quiet[t] /\ t = s]
  /\ UNCHANGED <<count, at, readable, current, versions, flagged, files, begun, kind, listed, todo,
                 hand>>

\* The window is closed, or the database stays locked: what is recorded stays.
Abort(s) ==
  /\ phase[s] \in {"walking", "read"}
  /\ phase' = [phase EXCEPT ![s] = "idle"]
  /\ todo' = [todo EXCEPT ![s] = {}]
  /\ hand' = [hand EXCEPT ![s] = NoHand]
  /\ kind' = [kind EXCEPT ![s] = "folder"]
  /\ listed' = [listed EXCEPT ![s] = {}]
  /\ quiet' = [quiet EXCEPT ![s] = FALSE]
  /\ UNCHANGED <<registry, files, begun>>

--------------------------------------------------------------------------------
Record(s) ==
  \/ \E r \in Row : Unchanged(s, r) \/ Replaced(s, r) \/ Damaged(s, r)
  \/ \E r \in Row, v \in versions : Restored(s, r, v)
  \/ \E r \in Row \cup {0}, v \in versions : Relinked(s, r, v)
  \/ Created(s) \/ CreatedWithoutVersion(s)

ScanStep(s) ==
  \/ BeginFolder(s) \/ BeginFiles(s) \/ Record(s) \/ Finish(s) \/ Abort(s)
  \/ \E p \in Path : Read(s, p)

Outside ==
  \/ \E p \in Path : Write(p)
  \/ \E p, q \in Path : Rename(p, q)
  \/ \E r \in Row : Transcribed(r)

Next == Outside \/ \E s \in Scan : ScanStep(s)

Spec == Init /\ [][Next]_vars

--------------------------------------------------------------------------------
(* Properties. *)

\* The bytes of a recording belong to one row: neither a rename, nor a copy, nor
\* two scans at once make a second one, so nothing is transcribed twice.  The
\* schema asks for it within a row only.
OneOwner ==
  \A v, w \in versions : v.content = w.content => v = w

\* The two records of what is current, the column of audio_files and the flag of
\* audio_source_versions, agree, and point to a version of the row itself.
VersionsAgree ==
  /\ flagged \subseteq versions
  /\ \A r \in Row :
       {v \in flagged : v.row = r} = IF current[r] = NoVersion THEN {} ELSE {current[r]}

\* After a scan that nothing has interfered with, the bytes of every file it has
\* listed belong to a row, and a row that never had other bytes is where they are.
ScanFindsAll ==
  \A s \in Scan : phase[s] = "ended" /\ quiet[s] =>
    \A p \in listed[s] : disk[p] \in Content =>
      \E v \in versions :
        /\ v.content = disk[p]
        /\ \/ \E w \in versions : w.row = v.row /\ w # v
           \/ /\ readable[v.row] /\ active[v.row] = at[v.row]
              /\ \E q \in listed[s] : disk[q] = disk[p] /\ at[v.row] = PlaceOf(s, q)

\* After such a scan of the folder no row claims a place where no file is.
AbsentIsMarked ==
  \A s \in Scan : phase[s] = "ended" /\ quiet[s] /\ kind[s] = "folder" =>
    \A r \in Row : at[r].root = "archive" /\ disk[at[r].path] = Gone =>
      active[r] = NoPlace /\ state[r] \in {Complete, "missing_source"}

\* A finished transcript is put in question when, and only when, other bytes
\* become current: neither by a missing file, a damaged one, nor a move.
VersionDecidesState ==
  [][\A r \in Row : current[r] # NoVersion =>
       /\ state[r] = Complete /\ state'[r] # Complete => current'[r] # current[r]
       /\ current'[r] # current[r] => state'[r] = "stale_source_changed"]_vars

\* The row that a content belongs to, 0 if it has not been seen.
Owner ==
  [c \in Content |-> IF \E v \in versions : v.content = c
                     THEN (CHOOSE v \in versions : v.content = c).row
                     ELSE 0]

Identity == INSTANCE SourceIdentity WITH Rows <- Row, Contents <- Content, NoOwner <- 0,
                                        owner <- Owner

\* Discovery keeps the identity of recordings.
KeepsIdentity == Identity!Spec

\* Refuted.  "SHA-256 source-version tracking" (discovery_service.py): after a
\* scan that nothing has interfered with, a readable file whose bytes are at no
\* other path has a row at its place with these bytes as the current version.
EachFileIsTracked ==
  \A s \in Scan : phase[s] = "ended" /\ quiet[s] =>
    \A p \in listed[s] :
      disk[p] \in Content /\ (\A q \in Path : disk[q] = disk[p] => q = p) =>
        \E r \in Row : at[r] = PlaceOf(s, p) /\ current[r].content = disk[p]
================================================================================
