------------------------------ MODULE WorkerLease ------------------------------
(***************************************************************************)
(* The worker lease: the worker_sessions and worker_commands tables, the   *)
(* user interface that inserts into them and spawns workers, and per       *)
(* session one worker process with its main loop and heartbeat thread.     *)
(*                                                                         *)
(* One atomic step is one SQLite statement or transaction with the code    *)
(* around it that no other process sees; the statements of one command     *)
(* handler, all on the worker's own rows, are one step.  Heartbeat times   *)
(* are kept as ages, which Tick advances.  What a worker transcribes is    *)
(* the subject of TranscriptionQueue; here claim_next merely finds work or *)
(* does not.                                                               *)
(***************************************************************************)
EXTENDS Naturals, Sequences, FiniteSets

CONSTANTS
  Window,       \* the running user interfaces; nothing keeps the app from being opened twice
  MaxSession,   \* bound on the rows ever inserted into worker_sessions
  MaxCommand,   \* bound on the rows ever inserted into worker_commands
  Timeout,      \* the 10 s of _is_live, in clock ticks
  IdleExit,     \* the 30 s of _drive, in clock ticks
  Punctual,     \* no lease holder lets its heartbeat grow older than Timeout
  Faults        \* processes may be killed and statements may raise

ASSUME LeaseAssumption ==
  /\ MaxSession \in Nat /\ MaxCommand \in Nat
  /\ Timeout \in Nat /\ IdleExit \in Nat
  /\ Punctual \in BOOLEAN /\ Faults \in BOOLEAN

VARIABLES
  session,      \* worker_sessions: state and age of heartbeat_at
  commands,     \* worker_commands in the order of their ids
  ui,           \* what each user interface is in the middle of
  proc,         \* where the main thread of a session's worker process is
  paused,       \* WorkerLoop.paused
  idle,         \* ticks since idle_since, plus one; 0 is None
  beat          \* the heartbeat thread, or the state it is about to write

vars == <<session, commands, ui, proc, paused, idle, beat>>

Session == 1 .. MaxSession
LiveStates == {"idle", "starting", "running", "pausing", "paused", "stopping"}
SessionStates == LiveStates \cup {"stopped", "failed"}
Kinds == {"pause", "resume", "safe_stop", "requeue"}
                \* "requeue" is retry_failed or reprocess_selected
Working == {"preparing", "looping", "handling", "transcribing"}
Closing == {"leaving", "joining", "closed"}
BeatPhases == {"looping", "handling", "transcribing"} \cup Closing
Phases == {"none", "booting", "exited", "gone"} \cup Working \cup Closing
Row == [state : SessionStates \cup {"none"}, age : 0 .. Timeout + 1]
UiStep == [step : {"free", "acquired"}, id : 0 .. MaxSession, kind : {"none", "requeue"}]
     \cup [step : {"addressed"}, id : Session, kind : Kinds]
Command == [session : Session, kind : Kinds, status : {"pending", "taken", "done"}]

TypeOK ==
  /\ session \in [Session -> Row]
  /\ commands \in Seq(Command)
  /\ ui \in [Window -> UiStep]
  /\ proc \in [Session -> Phases]
  /\ paused \in [Session -> BOOLEAN]
  /\ idle \in [Session -> 0 .. IdleExit + 1]
  /\ beat \in [Session -> {"off", "waiting", "running", "paused"}]

Free == [step |-> "free", id |-> 0, kind |-> "none"]

Init ==
  /\ session = [i \in Session |-> [state |-> "none", age |-> 0]]
  /\ commands = <<>>
  /\ ui = [w \in Window |-> Free]
  /\ proc = [i \in Session |-> "none"]
  /\ paused = [i \in Session |-> FALSE]
  /\ idle = [i \in Session |-> 0]
  /\ beat = [i \in Session |-> "off"]

--------------------------------------------------------------------------------
(* Reading and writing the tables. *)

\* Mutant: a session counts as live for as long as its state says so.
IsLiveByState(i) == session[i].state \in LiveStates

\* A live state and a heartbeat no older than the timeout.
IsLive(i) == session[i].state \in LiveStates /\ session[i].age <= Timeout

\* The session WorkerControlService.live_session answers with.
IsNewestLive(i) == IsLive(i) /\ \A j \in Session : j > i => ~ IsLive(j)

\* SQLite gives the next insert the id after the largest one.
IsNextId(i) ==
  /\ session[i].state = "none"
  /\ \A j \in Session : j < i => session[j].state # "none"

Heartbeat(i, state) == session' = [session EXCEPT ![i] = [state |-> state, age |-> 0]]
SetState(i, state) == session' = [session EXCEPT ![i].state = state]
SetStatus(k, status) == commands' = [commands EXCEPT ![k].status = status]

Insert(i, kind) ==
  Append(commands, [session |-> i, kind |-> kind, status |-> "pending"])
IsPending(k, i) == commands[k].session = i /\ commands[k].status = "pending"
IsTaken(k, i) == commands[k].session = i /\ commands[k].status = "taken"
Pending(i) == {k \in DOMAIN commands : IsPending(k, i)}

\* Mutant: the commands of a session are taken in any order.
AnyPending(k, i) == k \in Pending(i)

\* next_command: the lowest id not yet acknowledged.
IsNextCommand(k, i) == k \in Pending(i) /\ \A m \in Pending(i) : k <= m

Move(i, from, to) == proc[i] = from /\ proc' = [proc EXCEPT ![i] = to]

--------------------------------------------------------------------------------
(* The user interface. *)

Ui(w, step, i, kind) == ui' = [ui EXCEPT ![w] = [step |-> step, id |-> i, kind |-> kind]]
Done(w) == ui' = [ui EXCEPT ![w] = Free]
IsSpawning(w, i) == ui[w].step = "acquired" /\ ui[w].id = i

\* Mutant: a paused session does not refuse a second worker.
AcquireBesidePaused(w, kind) ==
  /\ ui[w].step = "free"
  /\ kind = "none" \/ Len(commands) < MaxCommand
  /\ \A j \in Session : IsLive(j) => session[j].state = "paused"
  /\ \E i \in Session :
       /\ IsNextId(i)
       /\ Heartbeat(i, "starting")
       /\ Ui(w, "acquired", i, kind)
  /\ UNCHANGED <<commands, proc, paused, idle, beat>>

\* start(): acquire_lease, before the process exists.  "kind" is the initial command.
Acquire(w, kind) ==
  /\ ui[w].step = "free"
  /\ kind = "none" \/ Len(commands) < MaxCommand
  /\ \A j \in Session : ~ IsLive(j)
  /\ \E i \in Session :
       /\ IsNextId(i)
       /\ Heartbeat(i, "starting")
       /\ Ui(w, "acquired", i, kind)
  /\ UNCHANGED <<commands, proc, paused, idle, beat>>

\* start(): the initial command is inserted.
Enqueue(w, i) ==
  /\ IsSpawning(w, i) /\ ui[w].kind # "none"
  /\ Len(commands) < MaxCommand
  /\ commands' = Insert(i, ui[w].kind)
  /\ Ui(w, "acquired", i, "none")
  /\ UNCHANGED <<session, proc, paused, idle, beat>>

\* start(): Popen succeeds.
Spawn(w, i) ==
  /\ IsSpawning(w, i) /\ ui[w].kind = "none"
  /\ Move(i, "none", "booting")
  /\ Done(w)
  /\ UNCHANGED <<session, commands, paused, idle, beat>>

\* Mutant: the lease of a worker that cannot be spawned gets a state that the
\* table does not know.
SpawnFailsAborted(w, i) ==
  /\ Faults
  /\ IsSpawning(w, i) /\ ui[w].kind = "none"
  /\ SetState(i, "aborted")
  /\ Done(w)
  /\ UNCHANGED <<commands, proc, paused, idle, beat>>

\* start(): Popen raises OSError and the lease is given back as failed.
SpawnFails(w, i) ==
  /\ Faults
  /\ IsSpawning(w, i) /\ ui[w].kind = "none"
  /\ SetState(i, "failed")
  /\ Done(w)
  /\ UNCHANGED <<commands, proc, paused, idle, beat>>

\* _command_live: look the live session up; the window asks for a resume only
\* when that session shows as paused.
Address(w, i, kind) ==
  /\ ui[w].step = "free"
  /\ Len(commands) < MaxCommand
  /\ IsNewestLive(i)
  /\ kind = "resume" => session[i].state = "paused"
  /\ Ui(w, "addressed", i, kind)
  /\ UNCHANGED <<session, commands, proc, paused, idle, beat>>

\* _command_live: insert the command for the session looked up before.
Send(w, i) ==
  /\ ui[w].step = "addressed" /\ ui[w].id = i
  /\ Len(commands) < MaxCommand
  /\ commands' = Insert(i, ui[w].kind)
  /\ Done(w)
  /\ UNCHANGED <<session, proc, paused, idle, beat>>

UiCrash(w) ==
  /\ Faults
  /\ ui[w].step # "free"
  /\ Done(w)
  /\ UNCHANGED <<session, commands, proc, paused, idle, beat>>

--------------------------------------------------------------------------------
(* The main thread of the worker of session i. *)

\* run_worker returns 3 or 4, or dies, before it has attached to its lease.
BootFails(i) ==
  /\ Faults
  /\ Move(i, "booting", "gone")
  /\ UNCHANGED <<session, commands, ui, paused, idle, beat>>

\* attach_lease: the row must still be the UI's.
Attach(i) ==
  /\ Move(i, "booting", "preparing")
  /\ session[i].state \in {"starting", "idle"}
  /\ Heartbeat(i, "starting")
  /\ UNCHANGED <<commands, ui, paused, idle, beat>>

\* start(): the queue is prepared, only now does the heartbeat thread start.
Prepared(i) ==
  /\ Move(i, "preparing", "looping")
  /\ Heartbeat(i, "running")
  /\ beat' = [beat EXCEPT ![i] = "waiting"]
  /\ UNCHANGED <<commands, ui, paused, idle>>

\* run_one: next_command acknowledges before anything is done about it.
TakeCommand(i) ==
  /\ Move(i, "looping", "handling")
  /\ \E k \in DOMAIN commands :
       /\ IsNextCommand(k, i)
       /\ SetStatus(k, "taken")
  /\ UNCHANGED <<session, ui, paused, idle, beat>>

Complete(i, kind) ==
  \E k \in DOMAIN commands :
    /\ IsTaken(k, i)
    /\ commands[k].kind = kind
    /\ SetStatus(k, "done")

HandleSafeStop(i) ==
  /\ Move(i, "handling", "joining")
  /\ Complete(i, "safe_stop")
  /\ SetState(i, "stopped")
  /\ UNCHANGED <<ui, paused, idle, beat>>

HandlePause(i) ==
  /\ Move(i, "handling", "looping")
  /\ Complete(i, "pause")
  /\ paused' = [paused EXCEPT ![i] = TRUE]
  /\ Heartbeat(i, "paused")
  /\ idle' = [idle EXCEPT ![i] = 0]
  /\ UNCHANGED <<ui, beat>>

HandleResume(i) ==
  /\ Move(i, "handling", "looping")
  /\ Complete(i, "resume")
  /\ paused' = [paused EXCEPT ![i] = FALSE]
  /\ Heartbeat(i, "running")
  /\ idle' = [idle EXCEPT ![i] = 0]
  /\ UNCHANGED <<ui, beat>>

HandleRequeue(i) ==
  /\ Move(i, "handling", "looping")
  /\ Complete(i, "requeue")
  /\ idle' = [idle EXCEPT ![i] = 0]
  /\ UNCHANGED <<session, ui, paused, beat>>

\* run_one while paused.
StayPaused(i) ==
  /\ proc[i] = "looping" /\ Pending(i) = {} /\ paused[i]
  /\ Heartbeat(i, "paused")
  /\ idle' = [idle EXCEPT ![i] = 0]
  /\ UNCHANGED <<commands, ui, proc, paused, beat>>

\* Mutant: claim_next is asked before next_command.
ClaimFirst(i) ==
  /\ ~ paused[i]
  /\ Move(i, "looping", "transcribing")
  /\ UNCHANGED <<session, commands, ui, paused, idle, beat>>

\* run_one: claim_next finds a queued file.
Claim(i) ==
  /\ Pending(i) = {} /\ ~ paused[i]
  /\ Move(i, "looping", "transcribing")
  /\ UNCHANGED <<session, commands, ui, paused, idle, beat>>

Transcribed(i) ==
  /\ Move(i, "transcribing", "looping")
  /\ Heartbeat(i, "running")
  /\ idle' = [idle EXCEPT ![i] = 0]
  /\ UNCHANGED <<commands, ui, paused, beat>>

\* run_one finds nothing to claim, and _drive lingers or ends.
FindNothing(i) ==
  /\ proc[i] = "looping" /\ Pending(i) = {} /\ ~ paused[i]
  /\ Heartbeat(i, "idle")
  /\ IF idle[i] > IdleExit
       THEN Move(i, "looping", "leaving") /\ UNCHANGED idle
       ELSE idle' = [idle EXCEPT ![i] = IF @ = 0 THEN 1 ELSE @] /\ UNCHANGED proc
  /\ UNCHANGED <<commands, ui, paused, beat>>

\* An exception reaches run_worker, which records a failed session.
WorkerFails(i) ==
  /\ Faults
  /\ proc[i] \in Working
  /\ proc' = [proc EXCEPT ![i] = "leaving"]
  /\ SetState(i, "failed")
  /\ UNCHANGED <<commands, ui, paused, idle, beat>>

\* close(): the heartbeat thread is told to end.
BeginClose(i) ==
  /\ Move(i, "leaving", "joining")
  /\ UNCHANGED <<session, commands, ui, paused, idle, beat>>

\* Mutant: the UPDATE of stop() has lost its WHERE.
CloseEverySession(i) ==
  /\ Move(i, "joining", "closed")
  /\ beat[i] # "waiting"
  /\ session' = [j \in Session |-> IF session[j].state = "none" THEN session[j]
                                   ELSE [session[j] EXCEPT !.state = "stopped"]]
  /\ UNCHANGED <<commands, ui, paused, idle, beat>>

\* close(): the join ends or gives up, and the session is stopped.  A thread that waits
\* for its next turn ends at once; one that writes may wait 5 s for the database, and
\* the join only 3.
CloseSession(i) ==
  /\ Move(i, "joining", "closed")
  /\ beat[i] # "waiting"
  /\ SetState(i, "stopped")
  /\ UNCHANGED <<commands, ui, paused, idle, beat>>

\* The process ends, and its daemon thread and its memory with it.
Vanish(i) ==
  /\ beat' = [beat EXCEPT ![i] = "off"]
  /\ paused' = [paused EXCEPT ![i] = FALSE]
  /\ idle' = [idle EXCEPT ![i] = 0]
  /\ UNCHANGED <<session, commands, ui>>

\* Mutant: the heartbeat thread is no daemon and outlives the main thread.
ExitBesideBeat(i) ==
  /\ Move(i, "closed", "exited")
  /\ paused' = [paused EXCEPT ![i] = FALSE]
  /\ idle' = [idle EXCEPT ![i] = 0]
  /\ UNCHANGED <<session, commands, ui, beat>>

Exit(i) == Move(i, "closed", "exited") /\ Vanish(i)

Crash(i) ==
  /\ Faults
  /\ proc[i] \in Working \cup Closing
  /\ proc' = [proc EXCEPT ![i] = "gone"]
  /\ Vanish(i)

--------------------------------------------------------------------------------
(* The heartbeat thread of the worker of session i. *)

\* The wait is over: end when told to, otherwise choose the state to write.
BeatWakes(i) ==
  /\ beat[i] = "waiting"
  /\ beat' = [beat EXCEPT ![i] = IF proc[i] \in {"joining", "closed"} THEN "off"
                                 ELSE IF paused[i] THEN "paused" ELSE "running"]
  /\ UNCHANGED <<session, commands, ui, proc, paused, idle>>

\* The unconditional UPDATE of heartbeat(), some time after the choice.
BeatWrites(i) ==
  /\ beat[i] \in {"running", "paused"}
  /\ Heartbeat(i, beat[i])
  /\ beat' = [beat EXCEPT ![i] = "waiting"]
  /\ UNCHANGED <<commands, ui, proc, paused, idle>>

--------------------------------------------------------------------------------
(* Time. *)

\* The lease of i is somebody's: its process works, boots or is being spawned.
Holding(i) ==
  \/ proc[i] \in Working \cup {"booting"}
  \/ \E w \in Window : IsSpawning(w, i)

Tick ==
  /\ Punctual => \A i \in Session : Holding(i) => session[i].age < Timeout
  /\ session' = [i \in Session |->
                   IF session[i].state \in LiveStates /\ session[i].age <= Timeout
                   THEN [session[i] EXCEPT !.age = @ + 1]
                   ELSE session[i]]      \* the age of an ended session is never read
  /\ idle' = [i \in Session |->     \* every other phase ends in a reset
                IF proc[i] = "looping" /\ idle[i] \in 1 .. IdleExit THEN idle[i] + 1 ELSE idle[i]]
  /\ UNCHANGED <<commands, ui, proc, paused, beat>>

--------------------------------------------------------------------------------
UserActs ==
  \/ \E w \in Window, kind \in {"none", "requeue"} : Acquire(w, kind)
  \/ \E w \in Window, i \in Session, kind \in Kinds : Address(w, i, kind)

UiGoesOn(w) == \E i \in Session : Enqueue(w, i) \/ Spawn(w, i) \/ Send(w, i)

MainThread(i) ==
  \/ Attach(i) \/ Prepared(i) \/ TakeCommand(i)
  \/ HandleSafeStop(i) \/ HandlePause(i) \/ HandleResume(i) \/ HandleRequeue(i)
  \/ StayPaused(i) \/ Claim(i) \/ Transcribed(i) \/ FindNothing(i)
  \/ BeginClose(i) \/ CloseSession(i) \/ Exit(i)

BeatThread(i) == BeatWakes(i) \/ BeatWrites(i)

Fault ==
  \/ \E w \in Window : UiCrash(w) \/ \E i \in Session : SpawnFails(w, i)
  \/ \E i \in Session : BootFails(i) \/ WorkerFails(i) \/ Crash(i)

Next ==
  \/ UserActs \/ Fault \/ Tick
  \/ \E w \in Window : UiGoesOn(w)
  \/ \E i \in Session : MainThread(i) \/ BeatThread(i)

Spec == Init /\ [][Next]_vars

\* Processes and time go on by themselves; users and faults need not.
FairSpec ==
  /\ Spec
  /\ WF_vars(Tick)
  /\ \A w \in Window : WF_vars(UiGoesOn(w))
  /\ \A i \in Session : WF_vars(MainThread(i)) /\ WF_vars(BeatThread(i))

--------------------------------------------------------------------------------
(* Properties. *)

IsWorking(i) == proc[i] \in Working

\* Command k is not handled and its worker works.
IsOwed(k) ==
  /\ k \in DOMAIN commands
  /\ commands[k].status # "done"
  /\ IsWorking(commands[k].session)

\* Never do two worker processes prepare, claim or transcribe at the same time:
\* "v1 menggunakan tepat satu worker" (app/config.py), which acquire_lease
\* enforces with "Proses transkripsi sudah berjalan.".
AtMostOneWorker ==
  \A i, j \in Session : IsWorking(i) /\ IsWorking(j) => i = j

\* The session a command or the state display is resolved to is the one whose
\* worker works, never a later lease nor the leftover of an earlier one.
WorkerIsAddressed ==
  \A i \in Session : IsWorking(i) => IsNewestLive(i)

\* The RuntimeError of attach_lease is never raised at a worker its UI spawned:
\* nobody but the worker writes its row between Popen and attach_lease.
AttachNeverRefused ==
  \A i \in Session : proc[i] = "booting" => session[i].state = "starting"

\* What keeps the properties around it true from step to step.
HolderIsLive == \A i \in Session : Holding(i) => IsLive(i)
HolderIsNewest ==
  \A i, j \in Session : Holding(i) /\ j > i => session[j].state = "none"
IdsAreDense ==
  \A i, j \in Session : i < j /\ session[j].state # "none" => session[i].state # "none"
UnbornIsUntouched == \A i \in Session : session[i].state = "none" => proc[i] = "none"
SpawningIsFresh ==
  \A w \in Window, i \in Session : IsSpawning(w, i) =>
    /\ proc[i] = "none"
    /\ session[i].state = "starting"
    /\ \A v \in Window : IsSpawning(v, i) => v = w
BeatNeedsProcess ==
  \A i \in Session : beat[i] # "off" => proc[i] \in BeatPhases

\* A lease is held by the newest session alone, from the insert of its row to the
\* last step of its worker, and stays live that long: the invariant that makes
\* acquire_lease refuse every second worker.
LeaseInv ==
  /\ HolderIsLive /\ HolderIsNewest
  /\ IdsAreDense /\ UnbornIsUntouched
  /\ SpawningIsFresh /\ AttachNeverRefused
  /\ BeatNeedsProcess

\* Commands of a session are acknowledged in the order of their ids and at most
\* one is in hand: a pause sent before a resume is never handled after it.
CommandsInOrder ==
  \A k, m \in DOMAIN commands :
    k < m /\ commands[k].session = commands[m].session =>
      \/ commands[m].status = "pending"
      \/ commands[k].status = "done"

\* The promises of SingleWorker, with the working sessions as the holders: what
\* acquire_lease, attach_lease and close() achieve together.
Holders == {i \in Session : IsWorking(i)}
Ended == {i \in Session : proc[i] \in Closing \cup {"exited", "gone"}}
Lease == INSTANCE SingleWorker WITH holder <- Holders, spent <- Ended
RefinesSingleWorker == Lease!Spec

\* A command sent to a worker is handled, or that worker ends: neither endless
\* work, nor a pause, nor a long inference starves next_command.
CommandAnswered ==
  \A k \in 1 .. MaxCommand : IsOwed(k) ~> ~ IsOwed(k)

\* A lease that nobody holds any more: its worker has ended, or was never spawned.
IsDead(i) ==
  session[i].state # "none" /\ ~ Holding(i) /\ proc[i] \in {"none", "exited", "gone"}

\* The lease of a dead worker, or of one that was never spawned, does not lock
\* transcription out for ever.
DeadLeaseExpires ==
  \A i \in Session : (IsLive(i) /\ IsDead(i)) ~> ~ IsLive(i)

\* That is so because nobody takes such a lease up again or renews it: no window, no
\* later worker and no heartbeat thread left behind.  A heartbeat that was chosen
\* before close() and written after it may bring the session back to life, but its
\* thread ends with the process, and from then on the lease only ages.
DeadLeaseOnlyAges ==
  [][\A i \in Session : IsDead(i) =>
       IsDead(i)' /\ session'[i].state = session[i].state /\ session'[i].age >= session[i].age]_vars
================================================================================
