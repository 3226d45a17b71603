------------------------------- MODULE DatabaseFile -------------------------------
(***************************************************************************)
(* DatabaseFile: the database as one file: its migrations, its snapshots,  *)
(* the backup packages and the restoring of one of them.                   *)
(*                                                                         *)
(* Every start of the window and of a worker migrates, and so does a       *)
(* restore; nothing keeps two of these, or of the other operations, apart. *)
(* What is pending is read in one connection, the snapshot is taken in a   *)
(* second and the scripts run in a third, one transaction each.  A restore *)
(* takes a snapshot of the database, copies that of the package beside it  *)
(* and renames the copy; on Windows this fails while somebody has the      *)
(* database open.  It takes the package of any version: which migrations   *)
(* are in it is not looked at.  Files are named by the second.             *)
(***************************************************************************)
EXTENDS Naturals

CONSTANTS
  Process,      \* those that may migrate, back up or restore at the same time
  LastVersion,  \* the migrations are 1 to LastVersion
  NoDatabase,   \* no such file, or nothing in hand
  Torn,         \* a package that was not written to its end
  MaxCommit,    \* bound on the other commits
  MaxSecond,    \* bound on the clock
  MaxOperation  \* bound on the operations that are begun

Versions == 1 .. LastVersion
Commits == 1 .. MaxCommit
Seconds == 0 .. MaxSecond
Labels == {"pre-migration", "pre-restore"}
\* What the database holds: the migrations recorded in it and the commits.
DatabaseContent == [applied : SUBSET Versions, data : SUBSET Commits]

ASSUME DatabaseAssumption ==
  /\ LastVersion \in Nat /\ MaxCommit \in Nat /\ MaxSecond \in Nat /\ MaxOperation \in Nat
  /\ NoDatabase \notin DatabaseContent /\ Torn \notin DatabaseContent /\ Torn # NoDatabase

VARIABLES
  db,           \* the database file
  staging,      \* the copy beside it, to be renamed
  backups,      \* the snapshots, by label and second
  packages,     \* the packages, by second
  process,      \* where each operation is
  workerOpen,   \* a worker has the database open
  second,       \* the clock, in seconds
  commits,      \* how many other commits there have been
  operations,   \* how many operations have been begun
  migrated,     \* history: the schemas that a first script has changed, each with the
                \* commits there were when its migration began
  raced,        \* history: two snapshots had one name, or somebody wrote between
                \* the snapshot and the renaming of a restore
  crossed       \* history: a restore has fallen between the beginning of a migration
                \* and its scripts

databaseVars == <<db, staging, backups, packages, process, workerOpen, second, commits,
                  operations, migrated, raced, crossed>>

ProcessState ==
  [at : {"idle", "pending", "preserving", "migrating", "checked", "preserved", "staged",
         "restored", "zipping", "zipped"},
   todo : SUBSET Versions,                 \* migrating: the versions still to apply
   first : BOOLEAN,                        \* migrating: none has been applied yet
   content : DatabaseContent \cup {NoDatabase},     \* what was read, is restored or packed
   stamp : Seconds]
Idle == [at |-> "idle", todo |-> {}, first |-> FALSE, content |-> NoDatabase, stamp |-> 0]

DatabaseTypeOK ==
  /\ db \in DatabaseContent
  /\ staging \in DatabaseContent \cup {NoDatabase}
  /\ backups \in [Labels \X Seconds -> DatabaseContent \cup {NoDatabase}]
  /\ packages \in [Seconds -> DatabaseContent \cup {NoDatabase, Torn}]
  /\ process \in [Process -> ProcessState]
  /\ workerOpen \in BOOLEAN
  /\ second \in Seconds /\ commits \in 0 .. MaxCommit /\ operations \in 0 .. MaxOperation
  /\ migrated \subseteq DatabaseContent
  /\ raced \in BOOLEAN /\ crossed \in BOOLEAN

Earlier(v) == [applied |-> 1 .. v, data |-> {}]

\* A new database, or one of this or an earlier version of the program, and perhaps a
\* package of such a version, in a second before the clock goes on.
DatabaseInit ==
  /\ \E v \in 0 .. LastVersion : db = Earlier(v)
  /\ staging = NoDatabase
  /\ backups = [b \in Labels \X Seconds |-> NoDatabase]
  /\ \E c \in {NoDatabase} \cup {Earlier(v) : v \in Versions} :
       packages = [s \in Seconds |-> IF s = 0 THEN c ELSE NoDatabase]
  /\ process = [p \in Process |-> Idle]
  /\ workerOpen = FALSE
  /\ second = 0 /\ commits = 0 /\ operations = 0
  /\ migrated = {}
  /\ raced = FALSE /\ crossed = FALSE

Pending(content) == Versions \ content.applied
IsNext(v, S) == v \in S /\ \A w \in S : v <= w

\* backup_database: the snapshot replaces one of the same label and second.
TakeSnapshot(label) ==
  /\ backups' = [backups EXCEPT ![<<label, second>>] = db]
  /\ raced' = (raced \/ backups[<<label, second>>] # NoDatabase)

--------------------------------------------------------------------------------
(* migrate(). *)

\* What is pending is read; nothing follows when nothing is.
ReadsPending(p) ==
  process' = [process EXCEPT ![p] =
    IF Pending(db) = {} THEN Idle
    ELSE [Idle EXCEPT !.at = "pending", !.todo = Pending(db), !.content = db]]

BeginMigrate(p) ==
  /\ process[p] = Idle /\ operations < MaxOperation /\ Pending(db) # {}
  /\ operations' = operations + 1
  /\ ReadsPending(p)
  /\ UNCHANGED <<db, staging, backups, packages, workerOpen, second, commits, migrated, raced,
                 crossed>>

\* Mutant: the snapshot is left to the caller.
NoSnapshot(p) ==
  /\ process[p].at = "pending"
  /\ process' = [process EXCEPT ![p].at = "preserving"]
  /\ UNCHANGED <<db, staging, backups, packages, workerOpen, second, commits, operations,
                 migrated, raced, crossed>>

\* A snapshot, unless the database was new when it was read.
Snapshot(p) ==
  /\ process[p].at = "pending"
  /\ process' = [process EXCEPT ![p].at = "preserving"]
  /\ IF process[p].content.applied # {} THEN TakeSnapshot("pre-migration")
     ELSE UNCHANGED <<backups, raced>>
  /\ UNCHANGED <<db, staging, packages, workerOpen, second, commits, operations, migrated,
                 crossed>>

\* The connection for the scripts.
OpenForScripts(p) ==
  /\ process[p].at = "preserving"
  /\ process' = [process EXCEPT ![p].at = "migrating", ![p].first = TRUE]
  /\ UNCHANGED <<db, staging, backups, packages, workerOpen, second, commits, operations,
                 migrated, raced, crossed>>

\* The migration goes on to the next script, or is over.
AfterScript(p, v) ==
  IF process[p].todo = {v} THEN Idle
  ELSE [process[p] EXCEPT !.todo = @ \ {v}, !.first = FALSE]

\* Mutant: the scripts run in any order.
ApplyAnyOrder(p, v) ==
  /\ process[p].at = "migrating" /\ v \in process[p].todo /\ v \notin db.applied
  /\ db' = [db EXCEPT !.applied = @ \cup {v}]
  /\ migrated' = IF process[p].first /\ db.applied # {}
                 THEN migrated \cup {[db EXCEPT !.data = process[p].content.data]} ELSE migrated
  /\ process' = [process EXCEPT ![p] = AfterScript(p, v)]
  /\ UNCHANGED <<staging, backups, packages, workerOpen, second, commits, operations, raced,
                 crossed>>

\* One script and its row in one transaction; the row is unique.
Apply(p, v) ==
  /\ process[p].at = "migrating" /\ IsNext(v, process[p].todo) /\ v \notin db.applied
  /\ db' = [db EXCEPT !.applied = @ \cup {v}]
  /\ migrated' = IF process[p].first /\ db.applied # {}
                 THEN migrated \cup {[db EXCEPT !.data = process[p].content.data]} ELSE migrated
  /\ process' = [process EXCEPT ![p] = AfterScript(p, v)]
  /\ UNCHANGED <<staging, backups, packages, workerOpen, second, commits, operations, raced,
                 crossed>>

\* The script fails, on its own account or because another process has run it:
\* it is rolled back and the migration ends.
ApplyFails(p) ==
  /\ process[p].at = "migrating"
  /\ process' = [process EXCEPT ![p] = Idle]
  /\ UNCHANGED <<db, staging, backups, packages, workerOpen, second, commits, operations,
                 migrated, raced, crossed>>

--------------------------------------------------------------------------------
(* create_package(). *)

\* The snapshot that is packed, of any version; one without a schema has no table of
\* migrations to read.
BeginPackage(p) ==
  /\ process[p] = Idle /\ operations < MaxOperation /\ db.applied # {}
  /\ operations' = operations + 1
  /\ process' = [process EXCEPT ![p] = [Idle EXCEPT !.at = "zipping", !.content = db,
                                                    !.stamp = second]]
  /\ UNCHANGED <<db, staging, backups, packages, workerOpen, second, commits, migrated, raced,
                 crossed>>

\* The package is opened under its final name.
OpenPackage(p) ==
  /\ process[p].at = "zipping"
  /\ packages' = [packages EXCEPT ![process[p].stamp] = Torn]
  /\ process' = [process EXCEPT ![p].at = "zipped"]
  /\ UNCHANGED <<db, staging, backups, workerOpen, second, commits, operations, migrated, raced,
                 crossed>>

\* It is complete; its row in the table backups, which nothing reads, follows.
ClosePackage(p) ==
  /\ process[p].at = "zipped"
  /\ packages' = [packages EXCEPT ![process[p].stamp] = process[p].content]
  /\ process' = [process EXCEPT ![p] = Idle]
  /\ UNCHANGED <<db, staging, backups, workerOpen, second, commits, operations, migrated, raced,
                 crossed>>

--------------------------------------------------------------------------------
(* restore_package(), and restore_backup() around it. *)

\* Mutant: what is in the package is not looked at.
CheckNothing(p, s) ==
  /\ process[p] = Idle /\ operations < MaxOperation
  /\ packages[s] # NoDatabase
  /\ operations' = operations + 1
  /\ process' = [process EXCEPT ![p] = [Idle EXCEPT !.at = "checked", !.content = packages[s]]]
  /\ UNCHANGED <<db, staging, backups, packages, workerOpen, second, commits, migrated, raced,
                 crossed>>

\* The package is complete, its hash and its integrity are right; of what version the
\* database in it is does not matter.
Check(p, s) ==
  /\ process[p] = Idle /\ operations < MaxOperation
  /\ packages[s] \notin {NoDatabase, Torn}
  /\ operations' = operations + 1
  /\ process' = [process EXCEPT ![p] = [Idle EXCEPT !.at = "checked", !.content = packages[s]]]
  /\ UNCHANGED <<db, staging, backups, packages, workerOpen, second, commits, migrated, raced,
                 crossed>>

\* Mutant: the database is not preserved when there is a snapshot already.
PreserveOnce(p) ==
  /\ process[p].at = "checked"
  /\ IF \A s \in Seconds : backups[<<"pre-restore", s>>] = NoDatabase
     THEN TakeSnapshot("pre-restore") ELSE UNCHANGED <<backups, raced>>
  /\ process' = [process EXCEPT ![p].at = "preserved"]
  /\ UNCHANGED <<db, staging, packages, workerOpen, second, commits, operations, migrated,
                 crossed>>

Preserve(p) ==
  /\ process[p].at = "checked"
  /\ TakeSnapshot("pre-restore")
  /\ process' = [process EXCEPT ![p].at = "preserved"]
  /\ UNCHANGED <<db, staging, packages, workerOpen, second, commits, operations, migrated,
                 crossed>>

\* The copy has the same name for every restore.
Stage(p) ==
  /\ process[p].at = "preserved"
  /\ staging' = process[p].content
  /\ process' = [process EXCEPT ![p].at = "staged"]
  /\ UNCHANGED <<db, backups, packages, workerOpen, second, commits, operations, migrated, raced,
                 crossed>>

IsOpen == workerOpen \/ \E p \in Process : process[p].at = "migrating"

Replace(p) ==
  /\ process[p].at = "staged" /\ staging # NoDatabase /\ ~ IsOpen
  /\ db' = staging /\ staging' = NoDatabase
  /\ process' = [process EXCEPT ![p].at = "restored"]
  /\ raced' = (raced \/ \E q \in Process \ {p} : process[q].at \in {"preserved", "staged"})
  /\ crossed' = (crossed \/ \E q \in Process : process[q].at \in {"pending", "preserving"})
  /\ UNCHANGED <<backups, packages, workerOpen, second, commits, operations, migrated>>

\* restore_backup migrates what it has restored, which may be of an earlier version.
MigrateRestored(p) ==
  /\ process[p].at = "restored"
  /\ ReadsPending(p)
  /\ UNCHANGED <<db, staging, backups, packages, workerOpen, second, commits, operations,
                 migrated, raced, crossed>>

--------------------------------------------------------------------------------
(* Everybody else. *)

\* An exception ends an operation, or its process dies.
OperationFails(p) ==
  /\ process[p].at \notin {"idle", "migrating"}
  /\ process' = [process EXCEPT ![p] = Idle]
  /\ UNCHANGED <<db, staging, backups, packages, workerOpen, second, commits, operations,
                 migrated, raced, crossed>>

\* The window or a worker commits something, as soon as there are tables.
Commit ==
  /\ commits < MaxCommit /\ db.applied # {}
  /\ commits' = commits + 1
  /\ db' = [db EXCEPT !.data = @ \cup {commits + 1}]
  /\ raced' = (raced \/ \E p \in Process : process[p].at \in {"preserved", "staged"})
  /\ UNCHANGED <<staging, backups, packages, process, workerOpen, second, operations, migrated,
                 crossed>>

\* A worker opens the database for as long as it runs, or closes it.
WorkerOpensOrCloses ==
  /\ workerOpen' = ~ workerOpen
  /\ UNCHANGED <<db, staging, backups, packages, process, second, commits, operations,
                 migrated, raced, crossed>>

Tick ==
  /\ second < MaxSecond
  /\ second' = second + 1
  /\ UNCHANGED <<db, staging, backups, packages, process, workerOpen, commits, operations,
                 migrated, raced, crossed>>

Operation(p) ==
  \/ BeginMigrate(p) \/ Snapshot(p) \/ OpenForScripts(p) \/ ApplyFails(p)
  \/ \E v \in Versions : Apply(p, v)
  \/ BeginPackage(p) \/ OpenPackage(p) \/ ClosePackage(p)
  \/ \E s \in Seconds : Check(p, s)
  \/ Preserve(p) \/ Stage(p) \/ Replace(p) \/ MigrateRestored(p) \/ OperationFails(p)

DatabaseNext ==
  Commit \/ WorkerOpensOrCloses \/ Tick \/ \E p \in Process : Operation(p)

DatabaseSpec == DatabaseInit /\ [][DatabaseNext]_databaseVars

--------------------------------------------------------------------------------
(* Properties. *)

\* The migrations recorded in the database are the first ones, without a gap, however
\* many processes migrate at once, wherever one fails, and whatever version is restored;
\* unless a restore falls between the reading of what is pending and the scripts,
\* against which the code does nothing.
SchemaHasNoGap == ~ crossed => \E v \in 0 .. LastVersion : db.applied = 1 .. v

\* What a migration has changed can be had back, an earlier version that was restored
\* as well: there is a snapshot of the schema from before the first script, with all
\* that had been committed when the migration began.  The same restores are excepted,
\* and snapshots that have replaced one of the same second.
MigratedIsBackedUp ==
  ~ crossed /\ ~ raced =>
    \A c \in migrated : \E s \in Seconds :
      LET snapshot == backups[<<"pre-migration", s>>]
      IN  snapshot # NoDatabase /\ snapshot.applied = c.applied /\ c.data \subseteq snapshot.data

\* No commit is lost by a restore: it is in the database or in a snapshot.
NothingIsLost ==
  ~ raced => \A c \in 1 .. commits :
    c \in db.data \/ \E b \in Labels \X Seconds : backups[b] # NoDatabase /\ c \in backups[b].data
================================================================================
