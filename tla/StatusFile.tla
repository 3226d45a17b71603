-------------------------------- MODULE StatusFile --------------------------------
(***************************************************************************)
(* StatusFile: worker_status.json, by which workers tell the window how    *)
(* they are.                                                               *)
(*                                                                         *)
(* A worker fills a temporary file, the same for all workers, and renames  *)
(* it.  Two workers overlap when one has given its lease back and has not  *)
(* ended yet.  The window opens the file at every tick of a timer, and on  *)
(* Windows a file that is open cannot be renamed over: the worker gets an  *)
(* exception, reports a failure through the same file, and ends.           *)
(***************************************************************************)
CONSTANTS
  Worker,       \* the workers, one for each session
  NoWorker

ASSUME StatusAssumption == NoWorker \notin Worker

VARIABLES
  leaseOf,      \* the worker whose session is live
  worker,       \* where each worker is
  status,       \* worker_status.json
  statusTemp,   \* worker_status.tmp
  reading,      \* the window has the file open
  previewed,    \* _previewed_finished_sessions
  exhausted,    \* history: the workers that have found nothing more to do
  unreported    \* history: the workers that died, or could not report their end

statusVars == <<leaseOf, worker, status, statusTemp, reading, previewed, exhausted, unreported>>

LIVE_WORKER_STATES == {"preparing", "running", "pausing", "paused", "idle"}
States == LIVE_WORKER_STATES \cup {"stopped", "finished", "failed"}

\* A failure is reported without naming a session.
Payload == [state : States, session : Worker \cup {NoWorker}]
NoFile == [state |-> "none", session |-> NoWorker]

\* A worker between two status writes is at a place; in a write it also has what
\* it writes, and the place it goes to afterwards.
Phase == {"unborn", "booting", "preparing", "looping", "closing", "ended"}
WorkerState == [at : Phase, step : {"none", "fill", "rename"}, writes : Payload \cup {NoFile},
                next : Phase]

StatusTypeOK ==
  /\ leaseOf \in Worker \cup {NoWorker}
  /\ worker \in [Worker -> WorkerState]
  /\ status \in Payload \cup {NoFile} /\ statusTemp \in Payload \cup {NoFile}
  /\ reading \in BOOLEAN
  /\ previewed \subseteq Worker /\ exhausted \subseteq Worker /\ unreported \subseteq Worker

AtPhase(place) == [at |-> place, step |-> "none", writes |-> NoFile, next |-> place]

StatusInit ==
  /\ leaseOf = NoWorker
  /\ worker = [w \in Worker |-> AtPhase("unborn")]
  /\ status = NoFile /\ statusTemp = NoFile
  /\ reading = FALSE
  /\ previewed = {} /\ exhausted = {} /\ unreported = {}

IsAt(w, place) == worker[w].at = place /\ worker[w].step = "none"

\* is_live.
LooksLive == status.state \in LIVE_WORKER_STATES

--------------------------------------------------------------------------------
(* Writing. *)

\* The worker begins to write a state, and goes to a place when it has.
Writes(w, state, next) ==
  worker' = [worker EXCEPT ![w] =
    [at |-> worker[w].at, step |-> "fill",
     writes |-> [state |-> state, session |-> IF state = "failed" THEN NoWorker ELSE w],
     next |-> next]]

FillStatus(w) ==
  /\ worker[w].step = "fill"
  /\ statusTemp' = worker[w].writes
  /\ worker' = [worker EXCEPT ![w].step = "rename"]
  /\ UNCHANGED <<leaseOf, status, reading, previewed, exhausted, unreported>>

RenameStatus(w) ==
  /\ worker[w].step = "rename" /\ statusTemp # NoFile /\ ~ reading
  /\ status' = statusTemp /\ statusTemp' = NoFile
  /\ worker' = [worker EXCEPT ![w] = AtPhase(@.next)]
  /\ UNCHANGED <<leaseOf, reading, previewed, exhausted, unreported>>

\* Mutant: a worker whose report cannot be written ends without another word.
RenameStatusFailsSilently(w) ==
  /\ worker[w].step = "rename" /\ (statusTemp = NoFile \/ reading)
  /\ worker' = [worker EXCEPT ![w] = AtPhase("closing")]
  /\ UNCHANGED <<leaseOf, status, statusTemp, reading, previewed, exhausted, unreported>>

\* The file is open, or another worker has renamed the temporary file: run_worker
\* reports a failure, and when that was the report nothing follows it.
RenameStatusFails(w) ==
  /\ worker[w].step = "rename" /\ (statusTemp = NoFile \/ reading)
  /\ IF worker[w].writes.state = "failed"
     THEN /\ worker' = [worker EXCEPT ![w] = AtPhase(@.next)]
          /\ unreported' = unreported \cup {w}
     ELSE /\ Writes(w, "failed", "closing")
          /\ UNCHANGED unreported
  /\ UNCHANGED <<leaseOf, status, statusTemp, reading, previewed, exhausted>>

--------------------------------------------------------------------------------
(* A worker. *)

\* The window inserts the session and spawns its worker.
Start(w) ==
  /\ IsAt(w, "unborn") /\ leaseOf = NoWorker
  /\ leaseOf' = w
  /\ worker' = [worker EXCEPT ![w] = AtPhase("booting")]
  /\ UNCHANGED <<status, statusTemp, reading, previewed, exhausted, unreported>>

\* No audio folder, no model, or one the engine refuses: reported before the
\* session is attached, which then lives until it expires.
BootFails(w) ==
  /\ IsAt(w, "booting") /\ Writes(w, "failed", "ended")
  /\ UNCHANGED <<leaseOf, status, statusTemp, reading, previewed, exhausted, unreported>>

\* start() after attach_lease, and every 50 rows of prepare().
Prepares(w) ==
  /\ IsAt(w, "booting") \/ IsAt(w, "preparing")
  /\ Writes(w, "preparing", "preparing")
  /\ UNCHANGED <<leaseOf, status, statusTemp, reading, previewed, exhausted, unreported>>

\* The end of start().
Started(w) ==
  /\ IsAt(w, "preparing") /\ Writes(w, "running", "looping")
  /\ UNCHANGED <<leaseOf, status, statusTemp, reading, previewed, exhausted, unreported>>

\* run_one and the commands, except for those that end the worker.
Loops(w) ==
  /\ IsAt(w, "looping")
  /\ \E state \in {"running", "paused", "idle"} : Writes(w, state, "looping")
  /\ UNCHANGED <<leaseOf, status, statusTemp, reading, previewed, exhausted, unreported>>

\* safe_stop and shutdown: the lease is given back first.
Stops(w) ==
  /\ IsAt(w, "looping") /\ Writes(w, "stopped", "closing")
  /\ leaseOf' = IF leaseOf = w THEN NoWorker ELSE leaseOf
  /\ UNCHANGED <<status, statusTemp, reading, previewed, exhausted, unreported>>

\* Mutant: a worker that has waited in vain ends without finish().
EndsUnfinished(w) ==
  /\ IsAt(w, "looping")
  /\ worker' = [worker EXCEPT ![w] = AtPhase("closing")]
  /\ exhausted' = exhausted \cup {w}
  /\ UNCHANGED <<leaseOf, status, statusTemp, reading, previewed, unreported>>

\* _drive has found nothing to do for long enough: finish().
Finishes(w) ==
  /\ IsAt(w, "looping") /\ Writes(w, "finished", "closing")
  /\ exhausted' = exhausted \cup {w}
  /\ UNCHANGED <<leaseOf, status, statusTemp, reading, previewed, unreported>>

\* Mutant: whatever ends the loop is reported as the end of the queue.
FailsAsFinished(w) ==
  /\ IsAt(w, "preparing") \/ IsAt(w, "looping")
  /\ Writes(w, "finished", "closing")
  /\ UNCHANGED <<leaseOf, status, statusTemp, reading, previewed, exhausted, unreported>>

\* Any other exception in start() or _drive.
Fails(w) ==
  /\ IsAt(w, "preparing") \/ IsAt(w, "looping")
  /\ Writes(w, "failed", "closing")
  /\ UNCHANGED <<leaseOf, status, statusTemp, reading, previewed, exhausted, unreported>>

\* close().
Closes(w) ==
  /\ IsAt(w, "closing")
  /\ leaseOf' = IF leaseOf = w THEN NoWorker ELSE leaseOf
  /\ worker' = [worker EXCEPT ![w] = AtPhase("ended")]
  /\ UNCHANGED <<status, statusTemp, reading, previewed, exhausted, unreported>>

Dies(w) ==
  /\ worker[w].at \notin {"unborn", "ended"}
  /\ worker' = [worker EXCEPT ![w] = AtPhase("ended")]
  /\ unreported' = unreported \cup {w}
  /\ UNCHANGED <<leaseOf, status, statusTemp, reading, previewed, exhausted>>

\* The heartbeat of a session without a worker is too old.
Expires ==
  /\ leaseOf # NoWorker /\ worker[leaseOf].at = "ended"
  /\ leaseOf' = NoWorker
  /\ UNCHANGED <<worker, status, statusTemp, reading, previewed, exhausted, unreported>>

--------------------------------------------------------------------------------
(* The window. *)

Opens ==
  /\ ~ reading /\ reading' = TRUE
  /\ UNCHANGED <<leaseOf, worker, status, statusTemp, previewed, exhausted, unreported>>

\* Mutant: any status that is not live has a preview.
PreviewsAnyEnd ==
  /\ reading /\ reading' = FALSE
  /\ previewed' = previewed \cup (IF LooksLive THEN {} ELSE {status.session} \ {NoWorker})
  /\ UNCHANGED <<leaseOf, worker, status, statusTemp, exhausted, unreported>>

\* _refresh_worker_status: the transcripts of a session are shown once it has
\* finished, and not again by this window.
Reads ==
  /\ reading /\ reading' = FALSE
  /\ previewed' = IF status.state = "finished" THEN previewed \cup {status.session}
                  ELSE previewed
  /\ UNCHANGED <<leaseOf, worker, status, statusTemp, exhausted, unreported>>

WorkerStep(w) ==
  \/ FillStatus(w) \/ RenameStatus(w) \/ RenameStatusFails(w)
  \/ Start(w) \/ BootFails(w) \/ Prepares(w) \/ Started(w) \/ Loops(w)
  \/ Stops(w) \/ Finishes(w) \/ Fails(w) \/ Closes(w) \/ Dies(w)

StatusNext == Expires \/ Opens \/ Reads \/ \E w \in Worker : WorkerStep(w)

StatusSpec == StatusInit /\ [][StatusNext]_statusVars

--------------------------------------------------------------------------------
(* Properties. *)

\* When the last worker has ended the window does not show one at work: every way
\* out of run_worker leaves a terminal state behind, also when two workers write
\* through one temporary file.  Excepted are workers that died or could not report.
EndedLooksEnded ==
  (\A w \in Worker : worker[w].at \in {"unborn", "ended"}) /\ unreported = {} =>
    ~ LooksLive

\* The preview opens for a session whose queue was worked off and for no other.
PreviewIsEarned == previewed \subseteq exhausted
================================================================================
