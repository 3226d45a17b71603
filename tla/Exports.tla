-------------------------------- MODULE Exports --------------------------------
(***************************************************************************)
(* Exports: the files made from the completed transcripts, and export_runs,*)
(* which says of each export how it ended.                                 *)
(*                                                                         *)
(* An export enters a row, reads all records at once and writes file after *)
(* file: into a temporary name, and from there with a rename.  It runs in a*)
(* thread of the window, which does not keep the user from asking for a    *)
(* second one under the same name; the two then share the temporary names. *)
(* Transcripts, corrections and metadata change meanwhile.                 *)
(*                                                                         *)
(* Windows does not rename a file that somebody has open.                  *)
(***************************************************************************)
EXTENDS Naturals, FiniteSets

CONSTANTS
  Voice,        \* the recordings
  Day,          \* the days of WhatsApp timestamps
  ExportName,   \* the folders of named exports, after _safe_name
  Request,      \* what may be asked of one: records [formats, individual]
  ExportRun,    \* the rows of export_runs
  NoOutput,     \* no file of this name
  Mixed,        \* a file two exports have written into
  MaxRevision   \* bound: the changes to the data

Format == {"markdown", "text", "csv", "jsonl"}

ASSUME ExportsAssumption ==
  /\ Request \subseteq [formats : (SUBSET Format) \ {{}}, individual : BOOLEAN]
  /\ MaxRevision \in Nat

VARIABLES
  data,         \* of each recording: no transcript yet, or its day if known
  output,       \* the files, by folder and by what they are
  outputTemp,   \* the temporary files: what they hold and who has them open
  run,          \* each export and its row
  latest,       \* history: the export that began last in each folder
  shared,       \* history: the folders two exports were writing at a time
  revisions     \* bound: the changes to the data so far

exportVars == <<data, output, outputTemp, run, latest, shared, revisions>>

\* The folder of export_all; the named ones are in it.
Everything == "everything"
Place == ExportName \cup {Everything}

Records == [Voice -> Day \cup {"undated", "untranscribed"}]

\* What a file is for: <<kind>>, or <<kind, day or recording>>.  An individual
\* file of export_all has the day in its name, one of a named export has not.
Target ==
  {<<k>> : k \in {"unknown", "index", "markdown", "text", "csv", "jsonl"}}
  \cup ({"daily", "text of day"} \X Day)
  \cup ({"individual"} \X Voice)
  \cup ({"individual"} \X Voice \X (Day \cup {"undated"}))

\* What a file may hold: some of the recordings, as they were.
FileContent == UNION {[V -> Day \cup {"undated"}] : V \in SUBSET Voice}

ASSUME OutputAssumption ==
  {NoOutput, Mixed} \cap FileContent = {} /\ NoOutput # Mixed /\ NoOutput \notin ExportRun

Exported(s) == {v \in Voice : s[v] # "untranscribed"}
Dated(s) == {v \in Voice : s[v] \in Day}

Run == [row : {"none", "running", "completed", "failed"},
        at : {"idle", "begun", "ready", "opened", "closed"},
        place : Place, request : Request, records : Records,
        target : Target, left : SUBSET Target,
        hash : [Place -> [Target -> FileContent \cup {NoOutput, Mixed}]]]

ExportTypeOK ==
  /\ data \in Records
  /\ output \in [Place -> [Target -> FileContent \cup {NoOutput, Mixed}]]
  /\ outputTemp \in [Place -> [Target ->
       [holds : FileContent \cup {NoOutput, Mixed}, open : SUBSET ExportRun]]]
  /\ run \in [ExportRun -> Run]
  /\ latest \in [Place -> ExportRun \cup {NoOutput}]
  /\ shared \subseteq Place
  /\ revisions \in 0..MaxRevision

NoFiles == [t \in Target |-> NoOutput]

ExportInit ==
  /\ data \in Records
  /\ output = [p \in Place |-> NoFiles]
  /\ outputTemp = [p \in Place |-> [t \in Target |-> [holds |-> NoOutput, open |-> {}]]]
  /\ \E q \in Request :
       run = [r \in ExportRun |->
                [row |-> "none", at |-> "idle", place |-> Everything, request |-> q,
                 records |-> [v \in Voice |-> "untranscribed"],
                 target |-> <<"index">>, left |-> {}, hash |-> [p \in Place |-> NoFiles]]]
  /\ latest = [p \in Place |-> NoOutput]
  /\ shared = {}
  /\ revisions = 0

--------------------------------------------------------------------------------
(* What an export writes, and in which order. *)

\* The recordings in a file.
Contained(t, s) ==
  CASE t[1] = "daily" \/ t[1] = "text of day" -> {v \in Voice : s[v] = t[2]}
    [] t[1] = "unknown" -> {v \in Voice : s[v] = "undated"}
    [] t[1] = "index" -> Dated(s)
    [] t[1] = "individual" -> {t[2]}
    [] OTHER -> Exported(s)

RenderOf(s, t) == [v \in Contained(t, s) |-> s[v]]
Render(r, t) == RenderOf(run[r].records, t)

\* export_all: _markdown, _text, _csv, _jsonl.  A file of a day that has no
\* recording any more is left alone, and so is Unknown-Date.md.
AllTargets(q, s) ==
  {<<"daily", s[v]>> : v \in Dated(s)}
  \cup (IF Exported(s) = Dated(s) THEN {} ELSE {<<"unknown">>})
  \cup {<<"index">>, <<"text">>, <<"csv">>, <<"jsonl">>}
  \cup {<<"text of day", s[v]>> : v \in Dated(s)}
  \cup (IF q.individual THEN {<<"individual", v, s[v]>> : v \in Exported(s)} ELSE {})

\* export_selected: only the formats asked for.
NamedTargets(q, s) ==
  {<<f>> : f \in q.formats}
  \cup (IF q.individual /\ "markdown" \in q.formats
        THEN {<<"individual", v>> : v \in Exported(s)} ELSE {})

Targets(p, q, s) == IF p = Everything THEN AllTargets(q, s) ELSE NamedTargets(q, s)

\* Mutant: the index is written before the files it lists.
IndexFirst(t) ==
  CASE t[1] = "index" -> 0
    [] t[1] = "daily" -> 1
    [] OTHER -> 2

Turn(t) ==
  CASE t[1] = "daily" -> 1
    [] t[1] = "unknown" -> 2
    [] t[1] = "index" \/ t[1] = "markdown" -> 3
    [] t[1] = "individual" -> 4
    [] t[1] = "text" -> 5
    [] t[1] = "text of day" -> 6
    [] t[1] = "csv" -> 7
    [] t[1] = "jsonl" -> 8

\* _output_manifest_hash: the folder with all that is in it, temporary files
\* included, which only another export changes.
FilesIn(p) == [o \in Place |-> IF p \in {o, Everything} THEN output[o] ELSE NoFiles]

--------------------------------------------------------------------------------
(* An export. *)

Active(r) == run[r].at # "idle"

\* The row is entered before anything is read.
StartExport(r, p, q) ==
  /\ run[r].row = "none"
  /\ run' = [run EXCEPT ![r].row = "running", ![r].at = "begun",
                        ![r].place = p, ![r].request = q]
  /\ shared' = IF \E o \in ExportRun : Active(o) /\ run[o].place = p
               THEN shared \cup {p} ELSE shared
  /\ latest' = [latest EXCEPT ![p] = r]
  /\ UNCHANGED <<data, output, outputTemp, revisions>>

\* records: one query, in the order of the files to be.
ReadRecords(r) ==
  /\ run[r].at = "begun"
  /\ run' = [run EXCEPT ![r].at = "ready", ![r].records = data,
                        ![r].left = Targets(run[r].place, run[r].request, data)]
  /\ UNCHANGED <<data, output, outputTemp, latest, shared, revisions>>

\* Mutant: the file is written in its place.
OpenInPlace(r, t) ==
  /\ run[r].at = "ready" /\ t \in run[r].left
  /\ \A u \in run[r].left : Turn(t) <= Turn(u)
  /\ outputTemp' = [outputTemp EXCEPT ![run[r].place][t] =
                      [holds |-> NoOutput, open |-> @.open \cup {r}]]
  /\ output' = [output EXCEPT ![run[r].place][t] = Mixed]
  /\ run' = [run EXCEPT ![r].at = "opened", ![r].target = t]
  /\ UNCHANGED <<data, latest, shared, revisions>>

\* atomic_write: the temporary file is opened and emptied, whoever has it open.
Open(r, t) ==
  /\ run[r].at = "ready" /\ t \in run[r].left
  /\ \A u \in run[r].left : Turn(t) <= Turn(u)
  /\ outputTemp' = [outputTemp EXCEPT ![run[r].place][t] =
                      [holds |-> NoOutput, open |-> @.open \cup {r}]]
  /\ run' = [run EXCEPT ![r].at = "opened", ![r].target = t]
  /\ UNCHANGED <<data, output, latest, shared, revisions>>

\* The bytes are written and synchronised.  Over the bytes of another export they
\* may leave the end of those.
Close(r) ==
  LET p == run[r].place  t == run[r].target  f == outputTemp[p][t] IN
  /\ run[r].at = "opened"
  /\ \E c \in {Render(r, t)} \cup (IF f.holds \in {NoOutput, Render(r, t)} THEN {} ELSE {Mixed}) :
       outputTemp' = [outputTemp EXCEPT ![p][t] = [holds |-> c, open |-> @.open \ {r}]]
  /\ run' = [run EXCEPT ![r].at = "closed"]
  /\ UNCHANGED <<data, output, latest, shared, revisions>>

\* The temporary file takes the place of the old one.
Rename(r) ==
  LET p == run[r].place  t == run[r].target  f == outputTemp[p][t] IN
  /\ run[r].at = "closed" /\ f.open = {} /\ f.holds # NoOutput
  /\ output' = [output EXCEPT ![p][t] = f.holds]
  /\ outputTemp' = [outputTemp EXCEPT ![p][t] = [holds |-> NoOutput, open |-> {}]]
  /\ run' = [run EXCEPT ![r].at = "ready", ![r].left = @ \ {t}]
  /\ UNCHANGED <<data, latest, shared, revisions>>

\* Mutant: the row is completed although files are missing.
CompleteEarly(r) ==
  /\ run[r].at = "ready"
  /\ run' = [run EXCEPT ![r].at = "idle", ![r].row = "completed", ![r].hash = FilesIn(run[r].place)]
  /\ UNCHANGED <<data, output, outputTemp, latest, shared, revisions>>

\* The row gets the number of records and the hash of what is in the folder.
Complete(r) ==
  /\ run[r].at = "ready" /\ run[r].left = {}
  /\ run' = [run EXCEPT ![r].at = "idle", ![r].row = "completed", ![r].hash = FilesIn(run[r].place)]
  /\ UNCHANGED <<data, output, outputTemp, latest, shared, revisions>>

\* The temporary file is closed on the way out, with what has been written.
Leave(r, row) ==
  LET p == run[r].place  t == run[r].target IN
  /\ run' = [run EXCEPT ![r].at = "idle", ![r].row = row]
  /\ outputTemp' = [outputTemp EXCEPT ![p][t].open = @ \ {r}]
  /\ UNCHANGED <<data, output, latest, shared, revisions>>

\* OSError: the disk, a file that a program shows, a temporary file that another
\* export has open or has renamed already.
FailExport(r) ==
  /\ Active(r) /\ run[r].at # "begun"
  /\ Leave(r, "failed")

\* Any other exception, or the end of the window: the row stays as it is.
AbandonExport(r) ==
  /\ Active(r)
  /\ Leave(r, "running")

\* Transcription, correction, matching or clearing changes a record.
Revise(v, d) ==
  /\ revisions < MaxRevision /\ data[v] # d
  /\ data' = [data EXCEPT ![v] = d]
  /\ revisions' = revisions + 1
  /\ UNCHANGED <<output, outputTemp, run, latest, shared>>

ExportNext ==
  \/ \E r \in ExportRun :
       \/ \E p \in Place, q \in Request : StartExport(r, p, q)
       \/ \E t \in run[r].left : Open(r, t)
       \/ ReadRecords(r) \/ Close(r) \/ Rename(r) \/ Complete(r)
       \/ FailExport(r) \/ AbandonExport(r)
  \/ \E v \in Voice, d \in Day \cup {"undated", "untranscribed"} : Revise(v, d)

ExportSpec == ExportInit /\ [][ExportNext]_exportVars

--------------------------------------------------------------------------------
(* Properties. *)

\* In a folder that only one export at a time has written there are only whole
\* files, wherever the others failed, raised or died.
FilesAreWhole ==
  \A p \in Place \ shared, t \in Target : output[p][t] # Mixed

\* An export is completed only if all its files are there.  In a folder that only
\* one export at a time has written, and until the next one begins there, all of
\* them are of the one moment it read the records, whatever earlier exports have
\* left behind, and the hash of a named export is that of its folder.
CompletedIsOneSnapshot ==
  \A r \in ExportRun :
    run[r].row = "completed" =>
      LET p == run[r].place  made == Targets(p, run[r].request, run[r].records) IN
      /\ \A t \in made : output[p][t] # NoOutput
      /\ p \notin shared /\ latest[p] = r =>
           /\ \A t \in made : output[p][t] = Render(r, t)
           /\ p # Everything => run[r].hash = FilesIn(p)

\* INDEX.md lists only days whose file is there, in every state that a crash may
\* leave and while two exports write.
IndexLeadsSomewhere ==
  \A p \in Place :
    output[p][<<"index">>] \in FileContent =>
      LET shown == output[p][<<"index">>] IN
      \A v \in DOMAIN shown : output[p][<<"daily", shown[v]>>] # NoOutput
================================================================================
