--------------------------- MODULE TranscriptionQueue ---------------------------
(***************************************************************************)
(* The transcription queue: the columns of audio_files that decide what    *)
(* is transcribed and shown, the rows of transcription_attempts, the full  *)
(* text index, and the three parties that change them: the worker, the     *)
(* user interface and the scan of the audio folder.                        *)
(*                                                                         *)
(* One atomic step is one transaction.  Two gaps between a read and the    *)
(* transaction that relies on it are kept: prepare() reads its rows before *)
(* it begins to write, and the history is cleared after a look at the      *)
(* worker.  That there is one worker at a time is the subject of           *)
(* WorkerLease.  Every file has been scanned once and no two files ever    *)
(* have the same bytes.                                                    *)
(***************************************************************************)
EXTENDS Naturals, FiniteSets, ReusePolicy

CONSTANTS
  MaxFile,      \* the rows of audio_files
  MaxContent,   \* bound on the different bytes a file may have over time
  MaxAttempt,   \* bound on the ids of transcription_attempts
  MaxManual,    \* bound on the manual corrections of a file
  MaxChange,    \* bound on the changes made to source files
  MaxTotal      \* bound on SessionProgress.total, which every requeue raises

ASSUME QueueAssumption ==
  /\ MaxFile \in Nat \ {0} /\ MaxContent \in Nat \ {0}
  /\ MaxAttempt \in Nat /\ MaxManual \in Nat /\ MaxChange \in Nat /\ MaxTotal \in Nat

VARIABLES
  state,        \* audio_files.current_state
  enabled,      \* audio_files.transcription_enabled
  readable,     \* audio_files.readable and not zero_byte
  version,      \* the bytes of the current source version
  preferred,    \* audio_files.preferred_transcript_id, 0 is NULL
  manual,       \* the manual correction preferred, 0 is NULL
  attempts,     \* transcription_attempts
  indexed,      \* the text transcript_fts holds for the file
  disk,         \* the source file itself
  changes,      \* how often a source file has changed
  phase,        \* what the worker is doing
  rows,         \* the rows prepare() has read
  hand,         \* the file and the attempt the worker transcribes
  total,        \* SessionProgress.total
  finished,     \* SessionProgress.finished
  clearing,     \* the files of a clear that has looked at the worker
  due           \* history: files with a reason to be transcribed again: the user
                \* has asked for it, or a scan has found other bytes

columns == <<state, enabled, readable, version, preferred, manual>>
results == <<attempts, indexed>>
source == <<disk, changes>>
worker == <<phase, rows, hand, total, finished>>
vars == <<columns, results, source, worker, clearing, due>>

File == 1 .. MaxFile
Content == 1 .. MaxContent
Gone == 0                       \* no file at that path
Bad == MaxContent + 1           \* a file that is empty or cannot be read
AttemptId == 1 .. MaxAttempt
Complete == "completed_preferred"
States == {"discovered", "queued", "processing", Complete, "failed", "no_speech",
           "excluded", "missing_source", "stale_source_changed"}
AttemptStates == {"processing", "completed", "failed", "no_speech"}

NoAttempt == [file |-> 0, version |-> 0, state |-> "none"]
Attempt == [file : File, version : Content, state : AttemptStates] \cup {NoAttempt}
NoText == [kind |-> "none", id |-> 0]
Text == [kind : {"machine", "manual"}, id : Nat] \cup {NoText}
NoHand == [file |-> 0, attempt |-> 0]
NoRow == [listed |-> FALSE, enabled |-> FALSE, state |-> "discovered", version |-> 1,
          completed |-> FALSE]
Row == [listed : BOOLEAN, enabled : BOOLEAN, state : States, version : Content,
        completed : BOOLEAN]

TypeOK ==
  /\ state \in [File -> States]
  /\ enabled \in [File -> BOOLEAN]
  /\ readable \in [File -> BOOLEAN]
  /\ version \in [File -> Content]
  /\ preferred \in [File -> AttemptId \cup {0}]
  /\ manual \in [File -> 0 .. MaxManual]
  /\ attempts \in [AttemptId -> Attempt]
  /\ indexed \in [File -> Text]
  /\ disk \in [File -> Content \cup {Gone, Bad}]
  /\ changes \in 0 .. MaxChange
  /\ phase \in {"off", "preparing", "ready", "transcribing"}
  /\ rows \in [File -> Row]
  /\ hand \in [file : File, attempt : AttemptId] \cup {NoHand}
  /\ total \in Nat /\ finished \in Nat
  /\ clearing \in SUBSET File
  /\ due \in SUBSET File

\* After the first scan of a folder of good files.
Init ==
  /\ state = [f \in File |-> "discovered"]
  /\ enabled = [f \in File |-> TRUE]
  /\ readable = [f \in File |-> TRUE]
  /\ version = [f \in File |-> 1]
  /\ preferred = [f \in File |-> 0]
  /\ manual = [f \in File |-> 0]
  /\ attempts = [a \in AttemptId |-> NoAttempt]
  /\ indexed = [f \in File |-> NoText]
  /\ disk = [f \in File |-> 1]
  /\ changes = 0
  /\ phase = "off"
  /\ rows = [f \in File |-> NoRow]
  /\ hand = NoHand
  /\ total = 0 /\ finished = 0
  /\ clearing = {}
  /\ due = {}

--------------------------------------------------------------------------------
(* Reading the tables. *)

Exists(a) == attempts[a] # NoAttempt

\* Mutant: the next id is one more than the number of attempts.
IsNextByCount(a) == a = Cardinality({b \in AttemptId : Exists(b)}) + 1

\* SQLite gives the next insert the id after the largest one, so that clearing
\* the last attempts makes their ids available again.
IsNextAttempt(a) ==
  /\ \A b \in AttemptId : b >= a => ~ Exists(b)
  /\ a - 1 \in AttemptId => Exists(a - 1)

\* The preferred attempt is a finished transcript of the current version.
IsTranscribed(f) ==
  /\ preferred[f] # 0
  /\ attempts[preferred[f]].state = "completed"
  /\ attempts[preferred[f]].version = version[f]

\* The rows the user may choose from before a run.
IsCandidate(f) ==
  readable[f] /\ state[f] \notin {Complete, "failed", "no_speech", "missing_source"}

\* What prepare() selects, before it begins its transaction.
Snapshot ==
  [f \in File |-> [listed |-> readable[f], enabled |-> enabled[f], state |-> state[f],
                   version |-> version[f], completed |-> IsTranscribed(f)]]

--------------------------------------------------------------------------------
(* The source files, and the scan that observes them. *)

\* Somebody replaces, damages, removes or restores a source file.
DiskChanges(f) ==
  /\ changes < MaxChange
  /\ \E d \in Content \cup {Gone, Bad} : d # disk[f] /\ disk' = [disk EXCEPT ![f] = d]
  /\ changes' = changes + 1
  /\ UNCHANGED <<columns, results, worker, clearing, due>>

\* Mutant: a file without a digest becomes a version as well.
ScanWithoutDigest(f) ==
  /\ readable' = [readable EXCEPT ![f] = disk[f] \in Content]
  /\ version' = [version EXCEPT ![f] = disk[f]]
  /\ UNCHANGED <<state, enabled, preferred, manual, results, source, worker, clearing, due>>

\* _scan_one: unchanged bytes, or bytes that become the current version.
ScanReadable(f) ==
  /\ disk[f] \in Content
  /\ readable' = [readable EXCEPT ![f] = TRUE]
  /\ version' = [version EXCEPT ![f] = disk[f]]
  /\ state' = IF disk[f] = version[f] THEN state
              ELSE [state EXCEPT ![f] = "stale_source_changed"]
  /\ due' = IF disk[f] = version[f] THEN due ELSE due \cup {f}
  /\ UNCHANGED <<enabled, preferred, manual, results, source, worker, clearing>>

\* _scan_one: no digest, so only the observation is recorded.
ScanUnreadable(f) ==
  /\ disk[f] = Bad
  /\ readable' = [readable EXCEPT ![f] = FALSE]
  /\ UNCHANGED <<state, enabled, version, preferred, manual, results, source, worker, clearing, due>>

\* mark_missing_paths at the end of a scan of the folder.
ScanMissing(f) ==
  /\ disk[f] = Gone
  /\ state[f] # Complete
  /\ state' = [state EXCEPT ![f] = "missing_source"]
  /\ UNCHANGED <<enabled, readable, version, preferred, manual, results, source, worker, clearing, due>>

--------------------------------------------------------------------------------
(* The worker. *)

\* prepare(): the rows are read.
ReadRows ==
  /\ phase = "off"
  /\ phase' = "preparing"
  /\ rows' = Snapshot
  /\ UNCHANGED <<columns, results, source, hand, total, finished, clearing, due>>

\* The decision on a row, from what was read and what is on disk now.
Action(f) ==
  NextAction([source_exists |-> disk[f] # Gone, on_disk |-> disk[f],
              stored |-> rows[f].version, completed |-> rows[f].completed,
              explicit |-> FALSE])

IsExcludedBy(f) ==
  rows[f].listed /\ ~ rows[f].enabled /\ rows[f].state \notin {Complete, "excluded"}

\* Mutant: a failed file is decided on like any other.
IsDecidedAnyway(f) == rows[f].listed /\ rows[f].enabled

IsDecided(f) ==
  rows[f].listed /\ rows[f].enabled /\ rows[f].state \notin {"failed", "no_speech"}

PreparedState(f) ==
  CASE IsExcludedBy(f) -> "excluded"
    [] IsDecided(f) /\ Action(f) = "claimable" -> "queued"
    [] IsDecided(f) /\ Action(f) \in {"missing_source", "stale_source_changed"} -> Action(f)
    [] OTHER -> state[f]

\* prepare(): one transaction writes the decisions and start() fixes the total.
Prepare ==
  /\ phase = "preparing"
  /\ state' = [f \in File |-> PreparedState(f)]
  /\ total' = Cardinality({f \in File : IsDecided(f) /\ Action(f) = "claimable"})
  /\ finished' = 0
  /\ phase' = "ready"
  /\ rows' = [f \in File |-> NoRow]
  /\ UNCHANGED <<enabled, readable, version, preferred, manual, results, source, hand, clearing, due>>

IsClaimable(f) == state[f] = "queued" /\ enabled[f] /\ readable[f]

\* claim_next: the first queued file, and an attempt for it.
Claim(f) ==
  /\ phase = "ready"
  /\ IsClaimable(f) /\ \A g \in File : g < f => ~ IsClaimable(g)
  /\ \E a \in AttemptId :
       /\ IsNextAttempt(a)
       /\ attempts' = [attempts EXCEPT ![a] =
                         [file |-> f, version |-> version[f], state |-> "processing"]]
       /\ hand' = [file |-> f, attempt |-> a]
  /\ state' = [state EXCEPT ![f] = "processing"]
  /\ phase' = "transcribing"
  /\ due' = due \ {f}
  /\ UNCHANGED <<enabled, readable, version, preferred, manual, indexed, source, rows, total,
                 finished, clearing>>

\* An UPDATE of the attempt in hand, without effect when the row is gone.
Conclude(outcome) ==
  attempts' = [attempts EXCEPT ![hand.attempt] =
                 IF Exists(hand.attempt) THEN [@ EXCEPT !.state = outcome] ELSE @]

\* run_one after the inference: count it and look for the next.
Settle(outcome) ==
  /\ state' = [state EXCEPT ![hand.file] = outcome]
  /\ finished' = finished + 1
  /\ phase' = "ready"
  /\ hand' = NoHand
  /\ UNCHANGED <<enabled, readable, version, manual, source, rows, total, clearing, due>>

\* Mutant: foreign keys are not enforced on this connection.
TranscribedUnchecked ==
  /\ phase = "transcribing"
  /\ disk[hand.file] \in Content
  /\ Settle(Complete)
  /\ Conclude("completed")
  /\ preferred' = [preferred EXCEPT ![hand.file] = hand.attempt]
  /\ indexed' = [indexed EXCEPT ![hand.file] = [kind |-> "machine", id |-> hand.attempt]]

\* complete_attempt: the foreign key refuses an attempt that has been cleared.
Transcribed ==
  /\ phase = "transcribing"
  /\ disk[hand.file] \in Content
  /\ Exists(hand.attempt)
  /\ Settle(Complete)
  /\ Conclude("completed")
  /\ preferred' = [preferred EXCEPT ![hand.file] = hand.attempt]
  /\ indexed' = [indexed EXCEPT ![hand.file] = [kind |-> "machine", id |-> hand.attempt]]

\* complete_attempt of a recording without speech.
NoSpeech ==
  /\ phase = "transcribing"
  /\ disk[hand.file] \in Content
  /\ Settle("no_speech")
  /\ Conclude("no_speech")
  /\ UNCHANGED <<preferred, indexed>>

\* The source cannot be read, the engine or a statement raises: fail_attempt.
Fails ==
  /\ phase = "transcribing"
  /\ Settle("failed")
  /\ Conclude("failed")
  /\ UNCHANGED <<preferred, indexed>>

\* requeue_selected for a reprocess command.
RequeueSelected(S) ==
  LET chosen == {f \in S : readable[f]} IN
  /\ phase = "ready"
  /\ total + Cardinality(chosen) <= MaxTotal
  /\ enabled' = [f \in File |-> enabled[f] \/ f \in chosen]
  /\ state' = [f \in File |-> IF f \in chosen THEN "queued" ELSE state[f]]
  /\ total' = total + Cardinality(chosen)
  /\ due' = due \cup chosen
  /\ UNCHANGED <<readable, version, preferred, manual, results, source, phase, rows, hand, finished, clearing>>

\* requeue_failed for a retry command.
RequeueFailed ==
  LET failed == {f \in File : state[f] = "failed" /\ enabled[f] /\ readable[f]} IN
  /\ phase = "ready"
  /\ total + Cardinality(failed) <= MaxTotal
  /\ state' = [f \in File |-> IF f \in failed THEN "queued" ELSE state[f]]
  /\ total' = total + Cardinality(failed)
  /\ due' = due \cup failed
  /\ UNCHANGED <<enabled, readable, version, preferred, manual, results, source, phase, rows, hand, finished, clearing>>

\* The worker ends between two files, or dies anywhere.
Stop ==
  /\ phase # "off"
  /\ phase' = "off"
  /\ rows' = [f \in File |-> NoRow]
  /\ hand' = NoHand
  /\ total' = 0 /\ finished' = 0
  /\ UNCHANGED <<columns, results, source, clearing, due>>

--------------------------------------------------------------------------------
(* The user interface. *)

\* The state a file gets when its checkbox changes.
Toggled(f, on) ==
  CASE ~ on /\ state[f] \notin {Complete, "processing"} -> "excluded"
    [] on /\ state[f] = "excluded" -> "discovered"
    [] OTHER -> state[f]

Toggle(S, on) ==
  /\ enabled' = [f \in File |-> IF f \in S THEN on ELSE enabled[f]]
  /\ state' = [f \in File |-> IF f \in S THEN Toggled(f, on) ELSE state[f]]
  /\ UNCHANGED <<readable, version, preferred, manual, results, source, worker, clearing, due>>

SetEnabled(S, on) == Toggle({f \in S : state[f] # "processing"}, on)

SetAllEnabled(on) == Toggle({f \in File : IsCandidate(f) /\ state[f] # "processing"}, on)

\* Everything that may be chosen is excluded, then the chosen are taken back in.
ReplaceWith(S) ==
  LET offered == {f \in File : IsCandidate(f) /\ state[f] # "processing"} IN
  /\ enabled' = [f \in File |-> IF f \in offered THEN f \in S ELSE enabled[f]]
  /\ state' = [f \in File |-> IF f \notin offered THEN state[f]
                              ELSE IF f \in S THEN "discovered" ELSE "excluded"]
  /\ UNCHANGED <<readable, version, preferred, manual, results, source, worker, clearing, due>>

\* clear_transcript_history looks for a live worker.  One that prepares for
\* longer than its heartbeat lasts is not seen.
ClearLooks(S) ==
  /\ phase \in {"off", "preparing"}
  /\ clearing = {}
  /\ clearing' = S
  /\ UNCHANGED <<columns, results, source, worker, due>>

\* Mutant: the full text index is forgotten.
ClearKeepsIndex ==
  /\ clearing # {}
  /\ preferred' = [f \in File |-> IF f \in clearing THEN 0 ELSE preferred[f]]
  /\ manual' = [f \in File |-> IF f \in clearing THEN 0 ELSE manual[f]]
  /\ enabled' = [f \in File |-> enabled[f] /\ f \notin clearing]
  /\ state' = [f \in File |-> IF f \in clearing /\ readable[f] THEN "discovered" ELSE state[f]]
  /\ attempts' = [a \in AttemptId |-> IF attempts[a].file \in clearing THEN NoAttempt ELSE attempts[a]]
  /\ clearing' = {}
  /\ UNCHANGED <<readable, version, indexed, source, worker, due>>

\* clear_selected.
Clear ==
  /\ clearing # {}
  /\ preferred' = [f \in File |-> IF f \in clearing THEN 0 ELSE preferred[f]]
  /\ manual' = [f \in File |-> IF f \in clearing THEN 0 ELSE manual[f]]
  /\ enabled' = [f \in File |-> enabled[f] /\ f \notin clearing]
  /\ state' = [f \in File |-> IF f \in clearing /\ readable[f] THEN "discovered" ELSE state[f]]
  /\ attempts' = [a \in AttemptId |-> IF attempts[a].file \in clearing THEN NoAttempt ELSE attempts[a]]
  /\ indexed' = [f \in File |-> IF f \in clearing THEN NoText ELSE indexed[f]]
  /\ clearing' = {}
  /\ UNCHANGED <<readable, version, source, worker, due>>

\* save_manual_transcript.
SaveManual(f) ==
  /\ manual[f] < MaxManual
  /\ manual' = [manual EXCEPT ![f] = @ + 1]
  /\ indexed' = [indexed EXCEPT ![f] = [kind |-> "manual", id |-> manual'[f]]]
  /\ UNCHANGED <<state, enabled, readable, version, preferred, attempts, source, worker, clearing, due>>

--------------------------------------------------------------------------------
Chosen == SUBSET File \ {{}}

Scan == \E f \in File : ScanReadable(f) \/ ScanUnreadable(f) \/ ScanMissing(f)

Work ==
  \/ ReadRows \/ Prepare \/ Transcribed \/ NoSpeech \/ Fails
  \/ \E f \in File : Claim(f)

Command == RequeueFailed \/ \E S \in Chosen : RequeueSelected(S)

User ==
  \/ \E S \in Chosen, on \in BOOLEAN : SetEnabled(S, on)
  \/ \E on \in BOOLEAN : SetAllEnabled(on)
  \/ \E S \in SUBSET File : ReplaceWith(S)
  \/ \E S \in Chosen : ClearLooks(S)
  \/ Clear
  \/ \E f \in File : SaveManual(f)

Next == Scan \/ Work \/ Command \/ User \/ Stop \/ \E f \in File : DiskChanges(f)

Spec == Init /\ [][Next]_vars

--------------------------------------------------------------------------------
(* Properties. *)

\* What is shown as the transcript of a file is the latest finished attempt at that
\* very file: neither a cleared, nor a failed, nor somebody else's, although ids of
\* cleared attempts are given out again; and no finished attempt is hidden.
PreferredIsSound ==
  \A f \in File :
    /\ preferred[f] # 0 =>
         attempts[preferred[f]].file = f /\ attempts[preferred[f]].state = "completed"
    /\ \A a \in AttemptId :
         attempts[a].file = f /\ attempts[a].state = "completed" => a <= preferred[f]

\* The index holds a text that is still stored for the file, and one if there is
\* any: "searching transcript bodies still matched text that no longer existed
\* anywhere in the database" (migrations/0006) does not come back.
IndexedTextIsStored ==
  \A f \in File :
    \/ indexed[f] = NoText /\ preferred[f] = 0 /\ manual[f] = 0
    \/ indexed[f] = [kind |-> "machine", id |-> preferred[f]] /\ preferred[f] # 0
    \/ indexed[f] = [kind |-> "manual", id |-> manual[f]] /\ manual[f] # 0

\* A file whose transcript is of the very bytes in place is not transcribed
\* again, unless the user has asked for that or a scan has seen other bytes since
\* the last time: "Transkrip selesai tidak diproses ulang hanya karena model atau
\* format hasil berubah" (README.md).
NoSilentRepeat ==
  [][\A f \in File :
       /\ state[f] # "processing" /\ state'[f] = "processing"
       /\ IsTranscribed(f) /\ disk[f] = version[f]
       => f \in due]_vars

\* A file whose transcription has failed or found no speech is not queued again by
\* prepare(), whatever that has read before: "retry is a distinct user command"
\* (queue_service.py), and that makes the file due.
FailedStaysFailed ==
  [][\A f \in File :
       state[f] \in {"failed", "no_speech"} /\ state'[f] = "queued" => f \in due']_vars

\* A finished attempt stays what it is until the history of its file is cleared.
HistoryIsImmutable ==
  [][\A a \in AttemptId :
       \/ attempts[a].state \in {"none", "processing"}
       \/ attempts'[a] = attempts[a]
       \/ attempts'[a] = NoAttempt /\ attempts[a].file \in clearing]_vars

\* The finished attempts are the results that TranscriptHistory speaks of.
IsFinished(a) == attempts[a].state \notin {"none", "processing"}
Result(a) == [id |-> a, file |-> attempts[a].file, version |-> attempts[a].version,
              outcome |-> attempts[a].state]
Results == {Result(a) : a \in {b \in AttemptId : IsFinished(b)}}

History == INSTANCE TranscriptHistory
             WITH Files <- File, Versions <- Content, Ids <- AttemptId,
                  kept <- Results, shown <- preferred, asked <- clearing

\* Claims, failures, retries, crashes and clears in any order keep the history.
KeepsHistory == History!Spec

\* Refuted.  The index is "derived data ... rebuilt from the authoritative
\* preferred transcripts", a manual correction before a machine's
\* (migrations/0006), so it should hold the text that is shown.
IndexMatchesShown ==
  \A f \in File :
    indexed[f] = CASE manual[f] # 0    -> [kind |-> "manual", id |-> manual[f]]
                   [] manual[f] = 0 /\ preferred[f] # 0 -> [kind |-> "machine", id |-> preferred[f]]
                   [] OTHER            -> NoText

\* The last attempt at a file was at its present bytes, and led to nothing.
HasFailed(f) ==
  \E a \in AttemptId :
    /\ attempts[a].file = f /\ attempts[a].version = version[f]
    /\ attempts[a].state \in {"failed", "no_speech"}
    /\ \A b \in AttemptId : b > a => attempts[b].file # f

\* Refuted.  "A failed/no-speech attempt is not a blank record.  It must never
\* silently become eligible again on an ordinary restart; retry is a distinct
\* user command" (queue_service.py), also for a file that was out of reach for
\* the length of a scan.
ReturnedStaysFailed ==
  [][\A f \in File :
       /\ phase = "preparing" /\ phase' = "ready"
       /\ state[f] = "missing_source" /\ HasFailed(f)
       /\ state'[f] = "queued"
       => f \in due]_vars

\* Refuted.  "Durable ... attempt and crash-recovery persistence"
\* (worker_repository.py): the next session finds no file still marked as being
\* transcribed by one that is gone.
NoneAbandoned ==
  [][phase = "preparing" /\ phase' = "ready"
       => \A f \in File : state'[f] # "processing"]_vars
================================================================================
