--------------------------- MODULE TranscriptionSystem ---------------------------
(***************************************************************************)
(* The workers of WorkerLease on the files of TranscriptionQueue.  Every   *)
(* session has a process with a memory of its own: nothing here says that  *)
(* there is one worker at a time, and that is what TranscriptionQueue      *)
(* takes for granted.                                                      *)
(*                                                                         *)
(* A step of the lease that has no part in the queue leaves files and      *)
(* memory as they are; a transaction of a worker on the files is a step    *)
(* of the queue on that worker's memory; a command, a claim and the end    *)
(* of a worker are steps of both.                                          *)
(***************************************************************************)
EXTENDS WorkerLease

CONSTANTS MaxFile, MaxContent, MaxAttempt, MaxManual, MaxChange, MaxTotal
                \* the bounds of TranscriptionQueue

ASSUME SystemAssumption ==
  /\ MaxFile \in Nat \ {0} /\ MaxContent \in Nat \ {0}
  /\ MaxAttempt \in Nat /\ MaxManual \in Nat /\ MaxChange \in Nat /\ MaxTotal \in Nat

VARIABLES
  state, enabled, readable, version, preferred, manual, attempts, indexed, disk, changes,
  clearing, due,        \* of TranscriptionQueue
  memory                \* what the process of each session remembers of the queue

files == <<state, enabled, readable, version, preferred, manual, attempts, indexed, disk,
           changes, clearing, due>>
systemVars == <<vars, files, memory>>

File == 1 .. MaxFile

\* The queue as the worker of session i works on it.
Worker(i) == INSTANCE TranscriptionQueue
               WITH phase <- memory[i].phase, rows <- memory[i].rows, hand <- memory[i].hand,
                    total <- memory[i].total, finished <- memory[i].finished

NoMemory == [phase |-> "off", rows |-> [f \in File |-> Worker(0)!NoRow],
             hand |-> Worker(0)!NoHand, total |-> 0, finished |-> 0]

\* The memory of the one worker that the queue knows of: of one that has begun to
\* prepare and has not ended.
IsActive(i) == memory[i].phase # "off"
Current == IF \E i \in Session : IsActive(i)
           THEN memory[CHOOSE i \in Session : IsActive(i)] ELSE NoMemory

Queue == INSTANCE TranscriptionQueue
           WITH phase <- Current.phase, rows <- Current.rows, hand <- Current.hand,
                total <- Current.total, finished <- Current.finished

SystemInit ==
  /\ Init
  /\ memory = [i \in Session |-> NoMemory]
  /\ Queue!Init

--------------------------------------------------------------------------------
(* The worker of session i. *)

\* Its memory after a step: the step of the queue says which of these it is.
Becomes(i, phase) ==
  \E rows \in {NoMemory.rows, Worker(i)!Snapshot},
     hand \in [file : File, attempt : 1 .. MaxAttempt] \cup {NoMemory.hand},
     total \in 0 .. MaxFile + MaxTotal,
     finished \in {0, memory[i].finished, memory[i].finished + 1} :
    memory' = [memory EXCEPT ![i] = [phase |-> phase, rows |-> rows, hand |-> hand,
                                     total |-> total, finished |-> finished]]

\* The memory goes with the process, or with the loop that has left.
Forgets(i) ==
  IF IsActive(i) THEN Becomes(i, "off") /\ Worker(i)!Stop ELSE UNCHANGED <<files, memory>>

\* start(): prepare() between attach_lease and the first heartbeat.
PreparesQueue(i) ==
  /\ proc[i] = "preparing"
  /\ \/ Becomes(i, "preparing") /\ Worker(i)!ReadRows
     \/ Becomes(i, "ready") /\ Worker(i)!Prepare
  /\ UNCHANGED vars

Starts(i) ==
  /\ memory[i].phase = "ready"
  /\ Prepared(i)
  /\ UNCHANGED <<files, memory>>

ClaimsFile(i) ==
  /\ Claim(i)
  /\ Becomes(i, "transcribing")
  /\ \E f \in File : Worker(i)!Claim(f)

FindsNothing(i) ==
  /\ \A f \in File : ~ Worker(i)!IsClaimable(f)
  /\ FindNothing(i)
  /\ IF proc'[i] = "leaving" THEN Forgets(i) ELSE UNCHANGED <<files, memory>>

\* run_one: complete_attempt or fail_attempt, before the heartbeat that ends it.
Concludes(i) ==
  /\ proc[i] = "transcribing"
  /\ Becomes(i, "ready")
  /\ Worker(i)!Transcribed \/ Worker(i)!NoSpeech \/ Worker(i)!Fails
  /\ UNCHANGED vars

GoesOn(i) ==
  /\ memory[i].phase = "ready"
  /\ Transcribed(i)
  /\ UNCHANGED <<files, memory>>

Requeues(i) ==
  /\ HandleRequeue(i)
  /\ Becomes(i, "ready")
  /\ Worker(i)!Command

Ends(i) ==
  /\ HandleSafeStop(i) \/ WorkerFails(i) \/ Crash(i)
  /\ Forgets(i)

WorkerStep(i) ==
  \/ PreparesQueue(i) \/ Starts(i) \/ ClaimsFile(i) \/ FindsNothing(i)
  \/ Concludes(i) \/ GoesOn(i) \/ Requeues(i) \/ Ends(i)

--------------------------------------------------------------------------------
(* Everything else. *)

\* The steps of the lease that no file and no memory has a part in.
LeaseStep ==
  /\ \/ UserActs \/ Tick
     \/ \E w \in Window : UiGoesOn(w) \/ UiCrash(w) \/ \E i \in Session : SpawnFails(w, i)
     \/ \E i \in Session :
          \/ BeatThread(i) \/ BootFails(i) \/ Attach(i) \/ TakeCommand(i)
          \/ HandlePause(i) \/ HandleResume(i) \/ StayPaused(i)
          \/ BeginClose(i) \/ CloseSession(i) \/ Exit(i)
  /\ UNCHANGED <<files, memory>>

\* clear_transcript_history refuses while transcription_state() names a session.
ClearLooks(S) ==
  /\ \A i \in Session : ~ IsLive(i)
  /\ clearing = {}
  /\ clearing' = S
  /\ UNCHANGED <<vars, memory>>
  /\ UNCHANGED <<state, enabled, readable, version, preferred, manual, attempts, indexed, disk,
                 changes, due>>

\* Disk, scan and window change files whatever any worker does.
FileStep ==
  /\ UNCHANGED <<vars, memory>>
  /\ \/ Queue!Scan
     \/ \E f \in File : Queue!DiskChanges(f) \/ Queue!SaveManual(f)
     \/ \E on \in BOOLEAN : Queue!SetAllEnabled(on)
     \/ \E S \in Queue!Chosen, on \in BOOLEAN : Queue!SetEnabled(S, on)
     \/ \E S \in SUBSET File : Queue!ReplaceWith(S)
     \/ Queue!Clear

SystemNext ==
  \/ LeaseStep \/ FileStep
  \/ \E S \in Queue!Chosen : ClearLooks(S)
  \/ \E i \in Session : WorkerStep(i)

SystemSpec == SystemInit /\ [][SystemNext]_systemVars

--------------------------------------------------------------------------------
(* Properties. *)

\* A worker remembers something of the queue only while it works, and it has nothing
\* in hand that it has not claimed.
MemoryInv ==
  \A i \in Session :
    /\ IsActive(i) => IsWorking(i)
    /\ ~ IsActive(i) => memory[i] = NoMemory

\* However many windows start workers and however many of them die, the files see
\* one worker at a time: what every worker, window and scan do together is what
\* TranscriptionQueue says, and so has all its properties.
ImplementsQueue == Queue!Spec
================================================================================
