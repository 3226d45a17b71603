# TLA+ models of different-network-transcribe

The application transcribes voice notes on the user's own machine.  A window
(`app/ui/launch.py`) shows and commands; a separate worker process
(`worker/main.py`) transcribes; a scan of the audio folder finds the files.  They
share one SQLite database and never talk to each other directly.  This directory
models the part of that sharing that is hard to test: who may work, what is
transcribed and when, and what is kept; and the files beside the database, which are
written by several threads and processes without a lock.  All paths below are relative to `src/`.

## 1. The system

| component | code | state it keeps | operations |
|---|---|---|---|
| worker lease | `app/database/worker_repository.py`, `app/services/worker_control_service.py` | `worker_sessions` (state, heartbeat) | acquire, attach, heartbeat, stop, live session |
| worker commands | the same | `worker_commands` | enqueue, next (acknowledges), complete |
| worker process | `worker/main.py`, `worker/runtime.py` | phase of the main thread, `paused`, `idle_since`, heartbeat thread, progress | start, run one, handle command, linger, close |
| queue and attempts | `app/services/queue_service.py`, `worker_repository.py` | `audio_files.current_state`, `transcription_attempts` | prepare, claim, complete, fail, requeue |
| reuse policy | `app/services/reuse_policy.py` | none | decide what a new session does with a file |
| selection | `app/database/repositories.py` | `audio_files.transcription_enabled` | set, set all, replace |
| transcript history | `repositories.py`, `app/services/application_service.py` | attempts, corrections, index | clear |
| corrections and search index | `application_service.py`, `migrations/0001`, `0003`, `0006` | `manual_transcripts`, `transcript_fts` | save a correction, search |
| discovery | `app/services/discovery_service.py` | files, source versions, path history, duplicate groups | scan a folder, scan given files |
| chat import and matching | `app/services/chat_import_service.py`, `metadata_matching_service.py`, `app/matching` | chat exports, voice references, matches | scan, match |
| chat parser | `app/parsing/whatsapp_parser.py` | none | parse an export |
| model registry | `app/transcription/model_registry.py` | model folders, `registry.json` | download, import, verify, mark suspect |
| engine, quality | `app/transcription/engine.py`, `quality.py` | none | transcribe, assess |
| exports | `app/exports/exporters.py` | `export_runs`, output files | export all, export selected |
| configuration | `app/config.py` | `config.toml`, last good copy | load, save |
| migrations, backup | `app/database/migrations.py`, `app/backup/backup_service.py` | schema, backups | migrate, create, restore |
| status file | `worker/runtime.py`, `app/services/worker_status.py` | `worker_status.json` | write, read, derive percent and text |
| window, start-up, logging | `app/ui`, `app/main.py`, `app/paths.py`, `app/logging_setup.py` | widgets, directories, logs | |

How they interact:

- The window inserts a session (the lease), inserts an initial command if it has
  one, and spawns a worker with the session's token.  Later commands are rows for
  the session that is live at that moment.
- The worker attaches to the session, prepares the queue, and then loops: first a
  command, then one file.  A heartbeat thread with a connection of its own renews the
  lease while an inference blocks the main thread.
- The scan runs in the window and writes the same rows of `audio_files` as the
  worker.  So do the selection, a correction and the clearing of history.
- Status, configuration and model registry are files.  Each is written into a
  temporary file with a fixed name, which is then renamed, and each has several
  writers: two workers of which one is ending, threads of the window, the window and
  a worker.
- The window runs imports, installations, exports, matching and backups in threads
  and does not keep the user from starting a second one (`_run_background`).
- Nothing prevents the application from being opened twice.

What is hard: the lease depends on time and two threads renew it; processes die
between two statements; reads are separated from the transactions that rely on
them; one column, `current_state`, is written by four parties and is also the only
record of some facts; ids of deleted attempts and references are given out again; files are read, changed
and written back without a lock; on Windows a file that somebody has open cannot be
renamed over.  `PROJECT.json` lists each hazard at its line, with the properties
about it or the reason why there is none.

## 2. The modules

| module | what it is |
|---|---|
| `SingleWorker` | what the lease promises, in three actions |
| `WorkerLease` | lease, commands, windows, worker main loop, heartbeat thread, time |
| `WorkerLeaseProofs` | theorems about `WorkerLease` |
| `ReusePolicy` | the no-repeat decision as operators |
| `TranscriptionQueue` | files, attempts, index, and the steps of worker, window and scan on them |
| `TranscriptHistory` | what the queue promises about results: kept, in order, the latest shown |
| `TranscriptionQueueProofs` | theorems about `TranscriptionQueue` |
| `TranscriptionSystem` | `WorkerLease` and `TranscriptionQueue` together, each worker process with a memory of its own |
| `TranscriptionSystemProofs` | theorems about `TranscriptionSystem` |
| `SourceIdentity` | what discovery promises: a content keeps its row |
| `Discovery` | rows, places and source versions under renames, copies, replacements and overlapping scans |
| `DiscoveryProofs` | theorems about `Discovery` |
| `ModelRegistry` | model folders and `registry.json` under installations and a worker that overlap and die |
| `ConfigFile` | `config.toml` and its copy: load with its fallback, save in its four steps, edits by hand, a newer version |
| `StatusFile` | `worker_status.json` between overlapping workers and a window that reads it |
| `DatabaseFile` | the database as one file: migrations, snapshots, packages, restores |
| `Exports` | output files and `export_runs` under overlapping, failing exports |
| `ChatMatching` | exported chats, references, and the matches of recordings |
| `ModelRegistryProofs`, `ChatMatchingProofs` | theorems about these |
| `SharedFilesProofs` | theorems about `ConfigFile`, `StatusFile`, `DatabaseFile` and `Exports` |
| `MCComponents` | the six put side by side for one run |
| `ComponentsProofs` | theorems about `MCComponents` |
| `MC...` | what TLC instantiates; each cfg gives the constants of one run |

`WorkerLease` and `TranscriptionQueue` divide the worker between them:
`WorkerLease` says that there is one at a time and when it is told what,
`TranscriptionQueue` assumes one worker and says what it does to the files.
`TranscriptionSystem` puts the two together without that assumption.  The queue
keeps every file at its path and with bytes of its own; `Discovery` is about what
happens when neither holds.  The other six modules share no variable with these or
with each other: the code keeps their state in files and tables of their own.
`PROJECT.json` maps every definition to its lines.

### WorkerLease

| variable | code |
|---|---|
| `session` | `worker_sessions.state`, and the age of `heartbeat_at`, counted to one more than the timeout |
| `commands` | `worker_commands` in the order of ids; pending, taken, done stand for the two timestamps |
| `ui` | a window inside `WorkerControlService.start` or `_command_live` |
| `proc` | where `run_worker` is: `booting` until `attach_lease`, `preparing` until the end of `start()`, `looping`, `handling` and `transcribing` in `run_one`, `leaving` at the `finally`, `joining` and `closed` in `close()`, `exited`; `gone` is a process that ended without `close()` |
| `paused`, `idle` | `WorkerLoop.paused`, `idle_since` of `_drive` |
| `beat` | the heartbeat thread: waiting, or the state it has chosen and is about to write |

One step is one statement or transaction.  The statements of one command handler,
all on the worker's own rows, are one step; a crash between them is covered by a
crash before or after, except that a handled command may then be recorded as not
completed, which nothing reads.  `retry_failed` and `reprocess_selected` are one
kind, `requeue`, since they differ in the files alone.  `claim_next` is a choice
between work and no work.  `Tick` adds one to the age of each live session and to
`idle`.

`Punctual` is the assumption that heartbeats are on time: no holder of a lease (a
window between acquire and spawn, a booting or a working process) lets its
heartbeat grow older than the timeout.  The code does not guarantee it; the run
`lease_stall` drops it.  It says nothing of the join in `close()`: that waits for 3 s, a
statement for 5 s, so a heartbeat chosen before may be written after the session was
stopped, and makes it look live until the process ends and the timeout passes.

### TranscriptionQueue

| variable | code |
|---|---|
| `state`, `enabled`, `readable`, `version`, `preferred`, `manual` | columns of `audio_files`; `readable` is readable and not empty; `version` is the identity of the bytes of the current source version |
| `attempts` | `transcription_attempts` by id: file, version, state |
| `indexed` | what `transcript_fts` holds for a file, by origin |
| `disk`, `changes` | the source file: bytes, missing or unreadable |
| `phase`, `rows`, `hand`, `total`, `finished` | the worker: what `prepare()` has read, the attempt in hand, `SessionProgress` |
| `clearing` | the files of a clear that has looked for a worker and not yet deleted |
| `due` | history variable: files with a reason to be transcribed again |

Each transaction is one step.  Two gaps between a read and its use are kept,
`ReadRows` / `Prepare` and `ClearLooks` / `Clear`.  A worker that prepares for longer
than its heartbeat lasts does not look live, so `ClearLooks` may happen beside it.
`prepare()` is modelled as seeing the bytes of a file; that it trusts an unchanged
size and time is left out.  The file is read when the inference ends, so it may have
changed since the claim.  `Stop` is both an end between two files and a death
anywhere.  The state `verified`, which only queries mention, is left out, and so is
the column `attempt_number`.

`KeepsHistory` maps the finished attempts to the results of `TranscriptHistory`, and
`clearing` to the files whose history the user has asked to clear.

### TranscriptionSystem

The variables are those of `WorkerLease`, the tables and files of `TranscriptionQueue`,
and `memory`: for each session what its process remembers of the queue (`phase`, `rows`,
`hand`, `total`, `finished`).  `Worker(i)` is the queue seen with the memory of session
`i`; a transaction of worker `i` on the files is an action of `Worker(i)`.

| action | code | steps of the two modules |
|---|---|---|
| `PreparesQueue`, `Starts` | `start()` | `ReadRows`, then `Prepare`; then `Prepared`, the first heartbeat |
| `ClaimsFile`, `FindsNothing` | `run_one` with its `claim_next` | both `Claim`s, or `FindNothing` when no file is claimable |
| `Concludes`, `GoesOn` | `run_one` after the inference | `Transcribed`, `NoSpeech` or `Fails`; then the heartbeat |
| `Requeues` | `_handle_command` | `HandleRequeue` and `Command` |
| `Ends` | safe stop, exception, death | the end in the lease and `Stop` |
| `LeaseStep`, `FileStep` | everything that only one of the two has a part in | |
| `ClearLooks` | `clear_transcript_history` | the look at the lease itself |

`Current` is the memory of a worker at work, if there is one; `ImplementsQueue` says
that with it the system is a behaviour of `TranscriptionQueue`.  The queue's own
`ClearLooks` is more liberal than the one here, which sees every worker whose heartbeat
is on time.

### Discovery

| variable | code |
|---|---|
| `count` | how many rows `audio_files` has; no row is ever deleted |
| `at`, `readable`, `state`, `current` | `source_root_id` with `current_relative_path`, `readable` and not `zero_byte`, `current_state`, `current_source_version_id` |
| `versions`, `flagged` | `audio_source_versions` as pairs of row and bytes, and those with `is_current = 1` |
| `active` | the active row of `audio_path_history` of each file |
| `disk`, `changes` | the files, and how often one has changed |
| `phase`, `kind`, `listed`, `todo`, `hand`, `begun` | the locals of each scan, and how many scans there have been |
| `quiet` | history variable: nothing has interfered with the scan |

A scan lists its files, then for each of them reads the bytes (`Read`) and records
them in one transaction (`Record`, with one action per branch of `_scan_one`), and
ends with `Finish`.  Between any two of these steps files change and other scans
write.  `audio_at_path` takes one of several rows at a place without an order, so
the model takes any.  A file in a nested folder is looked up under the audio folder
by one kind of scan and under its own folder by the other, hence two roots.  The
worker appears with `Transcribed` alone.  `duplicate_group` and the counters of the
summary are left out.

### ModelRegistry

| variable | code |
|---|---|
| `folder` | `models_dir / key`: one of the possible complete contents, incomplete, or not there |
| `listing`, `draft` | `registry.json` and its temporary file: hash, source and verdict by model |
| `job` | a thread in `download` or `import_package`: model, files filled, hash, the registry it is about to write |
| `loader` | the worker from `resolve` to `mark_suspect` or the recording of the model's hash |
| `rejected` | history: which files the engine has refused |
| `undisturbed` | history: updates of the registry have neither overlapped nor been cut off |

An update of the registry is three steps, read and change, fill the temporary file,
rename; a job may fail or die between any two.  Bundled models resolve from their own
folder.

### ConfigFile

| variable | code |
|---|---|
| `config`, `configTemp`, `lastgood`, `lastgoodTemp` | the four files; settings, missing, invalid, of a newer version, or of a shape that raises `TypeError` |
| `writer` | a thread in `save()`: its change and the settings in its hand |
| `chosen`, `earlier` | history: what the user has chosen last, and all that came before |
| `behind`, `serial` | history: whether the copy has not followed, whether saves and edits have taken turns and started from what was chosen |

Settings are the archive folder, the direct folders, all other sections as one value,
and whether there are tables that this version does not know.  `load` is the operator
`Loaded`; each caller of `save` is one `Change`.  `RunNewer` is a newer version of the
program that has saved its settings, in the file and perhaps in the copy: `load` refuses
them, and the next save of this version writes over them.

### StatusFile

| variable | code |
|---|---|
| `leaseOf` | the worker whose session is live |
| `worker` | where `run_worker` is between two status writes, or in one: filling or renaming |
| `status`, `statusTemp` | the file and the temporary file all workers share |
| `reading` | the window has the file open in `read_worker_status` |
| `previewed` | `_previewed_finished_sessions` |
| `exhausted`, `unreported` | history: workers that have found nothing more to do, and those that died or could not report |

`RenameStatusFails` is the exception on Windows when the window has the file open, and
leads to the report of a failure through the same file.

### DatabaseFile

| variable | code |
|---|---|
| `db` | the database: the recorded migrations and the commits in it; at first new, or of any version |
| `staging` | the copy that a restore will rename |
| `backups`, `packages` | snapshots by label and second, packages by second; a package may be torn, and of any version |
| `process` | an operation of `migrate`, `create_package` or `restore_backup` between two steps |
| `workerOpen` | a worker has the database open, so that it cannot be replaced |
| `second`, `commits`, `operations` | the clock, other commits, operations begun |
| `migrated` | history: schemas that a first script has changed, with the commits there were when the migration began |
| `raced` | history: two snapshots had one name, or somebody wrote between the snapshot of a restore and its renaming |
| `crossed` | history: a restore has renamed while a migration was between the reading of what is pending and its scripts |

`migrate()` uses three connections, and so has three steps before its scripts: it reads
what is pending (`BeginMigrate`), takes a snapshot (`Snapshot`) and opens the database
(`OpenForScripts`); others commit, migrate or restore in between.  `restore_package` takes
any package and never looks at its `database_schema_version`, so an earlier version may be
restored, which `MigrateRestored`, the `ensure_database()` of `restore_backup`, migrates.

### Exports

| variable | code |
|---|---|
| `data` | of each recording, whether it has a transcript, and its day |
| `output`, `outputTemp` | the files of each folder and their temporary files, with who has these open |
| `run` | an export and its row in `export_runs` |
| `latest`, `shared` | history: the export begun last in a folder, and the folders two exports have written at a time |

The text of a file is the set of recordings in it with their days; `Render` says which
those are for each kind of file, `Targets` which files a request makes.

### ChatMatching

| variable | code |
|---|---|
| `chats` | the files of the chat folder |
| `exports`, `refs`, `matches` | `chat_exports`, `chat_voice_references`, `metadata_matches` |
| `scan` | a thread in `scan`: the files left, and what `_import_one` has read before its transaction |
| `matcher` | a thread in `run`: the references it has read, the recordings left |
| `outdated`, `overlapped` | history: an export was read again after its copy; something was recorded between the reading and the recording of somebody else |

An export has one reference at most, with a time.  `Verdict` is `match_audio`: unique,
resolved by a copy, ambiguous, by time, or nothing.

## 3. The runs

| run | instance | asks | states |
|---|---|---|---|
| `lease` | 2 windows, 2 sessions, 1 command, all faults, punctual | one worker, right session addressed, attach never refused, a dead lease only ages, implements `SingleWorker` | 3.0 million |
| `lease_live` | 1 window, 1 session, 3 commands, all faults, punctual, fair | order of commands, commands answered, dead leases expire | 56 thousand |
| `lease_stall` | 1 window, 2 sessions, no faults, not punctual | is there one worker all the same?  No | |
| `queue` | 2 files, 2 contents, 2 attempts, 1 correction, 2 changes | what is shown is the latest and what is indexed is stored, nothing repeated or retried unasked, implements `TranscriptHistory` | 0.8 million |
| `system` | 1 window, 2 sessions, 1 command, 1 file, 1 attempt, faults, punctual | are the lease and the queue together the queue of one worker | 1.1 million |
| `queue_index` | 1 file, 2 attempts, 1 correction | does the index hold what is shown?  No | |
| `queue_return` | 1 file, 1 attempt, 2 changes | does a failed file stay failed?  No | |
| `queue_abandoned` | 1 file, 2 attempts | does a new session find no abandoned file?  No | |
| `scan` | 2 scans at once, 3 in all, 2 paths, 2 contents, 2 rows, 2 changes | one row per content, a scan left alone finds all, finished transcripts are safe, implements `SourceIdentity` | 1.9 million |
| `scan_tracked` | 1 scan at a time, the same | is every file tracked at its place?  No | |
| `components` | 2 models, 2 installations; 2 config writers, 2 saves, 2 edits; 3 workers; 2 processes, 3 migrations, 2 seconds, 2 operations, 2 commits; 2 exports, 1 recording; 1 scan, 1 matcher, 2 exports, 3 contents, 2 recordings | the sixteen properties of the six modules and their types | 3.8 million |
| `chat_guess` | 1 scan, 2 exports, 3 contents | is a recording left without a sender when its references name two?  No | |

Why the bounds are enough. The lease properties relate two sessions, so two leases from
two windows show every order of an old and a new one; a timeout of one tick separates
fresh, aged and expired; a linger of one tick has the three cases of `_drive`. The
windows are interchangeable, hence the symmetry. Three commands show one done, one in
hand and one waiting. Two contents and two changes let a file change and change back, or
vanish and return. Two files are needed where an attempt could be taken for another's,
and two attempts leave the id of one free while the other is kept; changes and
corrections are of one file, beside an excluded one, since they concern no other
(`OneSubject`). In `system` two leases of one window show a worker that dies with a file
in hand and the next one that begins while the first still has steps to take; the
command is for the first session, and comes in behaviours without a fault so far or
after it; a heartbeat that outlives the join comes in behaviours without either
(`LateBeatAlone`; in `lease` it meets everything). Two scans over two paths show every
order of two transactions and every pair of branches, two changes a rename whose name is
used again and bytes that return, three scans a version replaced and restored; scans and
contents are interchangeable and are model values under symmetry. Two installations race
for one model while the other is bundled and may be broken; two saves and two edits show
saves that overlap, a spoilt file and a newer version before, between and after them;
three workers show two that end and write while a third begins; two processes may both
read the same migrations as pending, or one restore beside the other (a package that is
there at the start stands for one made before), and with three migrations a package can
lack one that the database has while another is still pending, which is what leaves a
gap; two exports share a folder and one recording changes between them; two exports of
three contents are copies, and cease to be when one of them changes. The constants only
bound; that the safety properties do not depend on them is what section 4 proves.

`components` checks six modules in one run because a behaviour of theirs is one of a
single module: `subject` says which, and `MCComponents` leaves the variables of the
others as they begin.  Since the modules share no variable, what holds of each alone
holds of them together (`Composition`), and the run need not interleave them.

`CHECK_DEADLOCK FALSE` is set for the lease, for the system, for discovery, for the components and
for the chats: when the last session, scan or operation is used up and everything has
ended, the model stops because of its bounds.

Fairness (`FairSpec`) is weak fairness of time, of a window in the middle of a call,
of the main thread and of the heartbeat thread: the operating system schedules each of
them, each waits only for the database (bounded by its busy timeout) or sleeps, and an
inference ends.  Users and faults are not fair.

Every property of a passing run has a mutant, a definition that a plausible mistake
in the code would turn into another; TLC finds the property violated with it.

## 4. What is proved

TLAPS proves these for all values of the constants.

- `WorkerLease`, unconditionally: `TypeCorrect`; `CommandOrder`, with the
  strengthening that a taken command belongs to a worker that handles it or ended
  over it (`TakenIsInHand`).
- `WorkerLease`, assuming `Punctual`: `LeaseInvariant`, and from it `OneWorker`,
  `Addressed`, `AttachSucceeds`, `DeadLeasesAge` and the refinement
  `ImplementsSingleWorker`.
- `TranscriptionQueue`, unconditionally: `QueueTypes`, `ShownIsSound`,
  `HistoryIsKept`, `IndexIsBacked`, `NoneRepeatedSilently`, `FailuresStay` and the
  refinement `ImplementsHistory`.
- `TranscriptionSystem`: `SystemKeepsLease` and `MemoryIsOfWorker`, unconditionally;
  assuming `Punctual`, the refinement `ImplementsTheQueue` and, with the theorems about
  the queue, `SystemIsSound`: any number of windows and workers keep its properties.
- `Discovery`, unconditionally: `RegistryInvariant`, and from it `DiscoveryTypes`,
  `BytesHaveOneOwner`, `CurrentVersionsAgree`, `VersionsDecideStates` and the
  refinement `ImplementsSourceIdentity`; `SweepInvariant`, and from both `FilesAreFound`
  and `AbsenceIsMarked`.
- `ModelRegistry`, unconditionally: `RegistryInvariant`, `RegistryTypes`,
  `EntriesMatchFolders`, `RecordedHashes`, `FoldersAreFinal` and
  `FoldersAreRegistered`; and `RejectionsAreKept`, assuming that the engine does not
  refuse the bundled files: a bundled model that it refuses may be imported, and the
  import, rightly, takes the mark away.
- `StatusFile`, `ConfigFile`, `DatabaseFile`, `Exports` and `ChatMatching`,
  unconditionally: their invariants and types, and `EndsAreSeen`, `PreviewsAreEarned`;
  `ChoicesAreFound`; `SchemaIsOfAVersion`, `MigrationsCanBeUndone`,
  `RestoresLoseNothing`; `FilesStayWhole`, `CompletedSnapshots`, `IndexIsSound`;
  `SelectionsAreSound`, `CopiesAreCopies`.
- `MCComponents`, unconditionally: `Composition`, that a behaviour of it is one of each
  of its parts, and from it `ComponentTypes` and `ComponentsAreSound`, that it has the
  types and the safety properties of all of them.

`AtMostOneWorker` is not inductive: it says nothing about a process that is about to
attach.  `LeaseInv` adds that whoever holds a lease, from the window that has just
inserted it to the last step of its worker, holds the newest one and has it live, that
ids are given out without gaps, that no session is spawned twice and that a heartbeat
thread has a process.  The proof that a step of a worker keeps it goes through
`Effect`, which says all that matters of such a step: it touches its own row alone,
and keeps it live while it works.  `Tick` is where
`Punctual` is used.

`PreferredIsSound` needs that the attempt in hand is unfinished, of the file in hand
and the last of all, unless it was cleared (`HandIsOpen`): otherwise `complete_attempt`
could make another file's attempt preferred, or an earlier one than the latest.
`FailedStaysFailed` needs that what `prepare()` has read of a failed file says that it
failed (`FailureIsRead`).  `ImplementsHistory` follows from the invariant of
`PreferredIsSound`: an attempt that ends is later than all that have ended.  `NoSilentRepeat` needs that a queued file with a
transcript of its present version is due, and that rows read by `prepare()` agree
with the table as far as the decision depends on them (`QueuedIsDue`).

`ImplementsTheQueue` rests on `OneWorker`: a worker remembers something of the queue only
while it works (`MemoryInv`), so that nobody else does, before and after its step, and
`Current` is its memory both times.  Each of its actions is then the same action of the
queue (the lemmas `...Mirrored`), a step of anything else leaves `Current` as it is, and
a window that finds no live session finds no worker, since who holds a lease has it live.

`OneOwner` needs itself: because the version found for a digest is the only one, a
digest that is not found is new (`UnknownIsNew`), and a new version then brings no
second owner.  The other parts of `DiscoveryInv` say that a row not yet inserted has
no place and no version, so that a row found at a place exists, and what is in the
hand of a scan.  `Effect` sums up the branches of `_scan_one` for the proofs of the
invariant, of `VersionDecidesState` and of the refinement.

`ScanFindsAll` speaks of the end of a scan; `SweepInv` says what holds in the middle of
one that nothing has interfered with: it knows the files of its folder, has read what
is there, and all files it is done with are found.  That a later file takes none of
these back rests on `RecordFinds`: the one row that a transaction observes has the
bytes in hand, or, if there are none, was at that very place, or has no version.

`EntryMatchesFolder` needs that every version of the registry that anybody holds, in a
file or in hand, is true of the folders (`AllTrue`); it then survives lost updates,
because folders are only ever filled.  What is proved about updates that take turns
needs, besides, that a thread about to write holds the registry as it is.

`EndedLooksEnded` needs that somebody still owes the terminal state: while a live one
is in the status file a worker that has not ended, and while one is in the temporary
file a worker that has not even filled it with its last (`LiveIsOwed`).  The theorem
holds although two workers share that file.

`LoadFindsChoice` needs what the writer has in hand at each step (`TurnsKeepChoice`), and
how the files follow what was chosen (`FilesFollow`): the file has it unless it was
spoilt, and the copy has it or settings from before.  Three cases are excepted in the
property itself, because the code does nothing about them: saves and edits that overlap,
a file that `load` raises `TypeError` at, and the settings of a newer version.

`SchemaHasNoGap` needs that whatever is packed, staged or in hand is without a gap
(`NoGapAnywhere`), of whatever version, and that a migration in progress has every pending
script in its list (`NoneForgotten`): the next script of the list that succeeds is then
the next one of the database.  A restore does not disturb this as long as no migration is
between its reading and its scripts (`crossed`); while the scripts run the database is
open and cannot be renamed over.  `MigratedIsBackedUp` needs that whoever may still run a
first script has a snapshot of what it has read (`FirstIsBackedUp`), and that what it has
read is what it changes: had another process applied a script meanwhile, the first script
of its list would be that one, and fail.

`CopiesAgree` needs that a copy is younger than its original
(`OriginalIsOlder`), and `SelectedNamesRecording` that what the matcher has read is
still there (`SeenIsCurrent`); both only while scans and the matcher take turns.

`CompletedIsOneSnapshot` speaks of completed exports; `ExportInv` follows one in
progress: what it is done with is in place (`DoneIsThere`), and the file in hand is the
first in order of those left (`WorkIsOrdered`).  In a folder that only one at a time
has written, the writer began last there (`Alone`), so no step of it touches the
snapshot of another that still counts, and its temporary file has what it wrote itself
(`InTemp`).  `IndexLeadsSomewhere` needs no such condition: an index is written when the
files of its days are done with (`DaysBeforeIndex`), files are never removed, and a
temporary index is already backed (`IndexIsBacked`), whoever renames it.

Only model-checked: `CommandAnswered` and `DeadLeaseExpires`, because liveness under
fairness is out of the prover's reach; of the latter `DeadLeasesAge` proves the safety
half, that nobody takes up or renews a dead lease.

## 5. What the code does not keep

Six statements of the repository's own comments and documents do not hold; `PROJECT.json`
quotes each one under "findings".

1. *One worker.*  No heartbeat is written while the model loads and while the queue is
   prepared; after ten silent seconds a second worker is let in.
2. *The index follows what is shown.*  A transcription that completes after a correction
   was saved overwrites the indexed correction with the machine's text; in the run it is
   the first one of the file.
3. *A failed file is not tried again unasked.*  A scan that misses the file once
   replaces `failed` by `missing_source`, and the next start queues it.
4. *Crash recovery.*  `recover_stale_sessions` has no caller; a file whose second
   transcription was cut short stays `processing`.
5. *Source versions are tracked.*  Rename a file and give its name to a new one: the new
   bytes become a version of the old row, and the row then follows the old bytes.  One
   row stands for both files from then on, at one place with the version of the other,
   and neither is ever transcribed.
6. *Ambiguous metadata is marked, not guessed.*  An export that was a copy of another
   one still counts as a copy after that one has been read with other contents; of two
   references with different senders the matcher then selects one.

Four more do not hold either.  They are not runs of their own; the property that they would
refute excepts them by name, and they are in the models.

- *Tables of a newer version are carried through* (`app/config.py:222-224`, "so that
  downgrading does not silently destroy a future setting").  Only tables of the same
  `schema_version` are: `validate()` refuses a newer one, `load` returns the copy or the
  defaults, and the next save writes these over it (`RunNewer`; excepted in
  `LoadFindsChoice` by `config # Newer` and, for what follows, by `serial`).
- *A bad config never prevents the start* (`app/config.py:311`).  TOML of a shape that
  makes a comparison or `dict()` raise `TypeError` does (`Mistyped`, `Raises`).
- *Any existing schema is backed up before even the first pending migration changes it*
  (`app/database/migrations.py:133-134`).  A restore that falls between the reading of what
  is pending, or the snapshot, and the scripts puts another schema in their way.  With
  three migrations a package of version 1, restored while a process has read 3 as
  pending on version 2, gets script 3 without script 2; or a restored schema is changed
  that no snapshot with the label `pre-migration` holds (`crossed`).
- *A closed session is over.*  A heartbeat blocked for longer than the join of `close()`
  makes it look live again.  It dies with the process, so the session refuses starts and
  takes commands only until it has expired (`DeadLeaseOnlyAges`, `DeadLeaseExpires`).

## 6. What is not modelled, and the plan

Not modelled, because there is no state whose order or failure matters: the chat parser
(recognition of text line by line), the engine (calls into a library), the packing of
a model (`model_packaging` writes one ZIP), start-up, logging, diagnostics, texts,
widgets and dialogs, the first-run wizard apart from what it saves, and packaging.

Left out of modules that are otherwise complete:

- databases and packages of a newer version, checksums of edited migration scripts, and
  `restore_latest_pre_migration_backup`, which has no caller;
- manual corrections of metadata, which are one statement each;
- the shortcut of `prepare()` by size and time, `duplicate_group`, the counters of
  summaries;
- the end of the heartbeat thread alone, after a statement that waited too long;
- pages lost by the disk: only an exported file and a model package are synchronised, and
  a crash here is one of a process.

Left of the plan: a finer `Requeues`, in which a worker may die between the requeue and
the acknowledgement of its command.
