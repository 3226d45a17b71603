------------------------ MODULE TranscriptionSystemProofs ------------------------
(***************************************************************************)
(* The lease makes the queue's assumption true: with heartbeats on time,   *)
(* TranscriptionSystem implements TranscriptionQueue, and what is proved   *)
(* of one worker's queue holds of the files of all workers.                *)
(***************************************************************************)
EXTENDS TranscriptionSystem, WorkerLeaseProofs

--------------------------------------------------------------------------------
(* The lease in the system. *)

\* A step of the system is one of the lease, or leaves the lease as it is.
LEMMA StepOfLease == ASSUME [SystemNext]_systemVars PROVE [Next]_vars
<1>1. LeaseStep => Next
  BY DEF LeaseStep, Next, Fault, MainThread
<1>2. ASSUME NEW i \in Session, WorkerStep(i) PROVE [Next]_vars
  BY <1>2
  DEF WorkerStep, PreparesQueue, Starts, ClaimsFile, FindsNothing, Concludes, GoesOn, Requeues,
      Ends, Next, Fault, MainThread
<1>3. ASSUME NEW S, ClearLooks(S) PROVE UNCHANGED vars
  BY <1>3 DEF ClearLooks
<1> QED
  BY <1>1, <1>2, <1>3 DEF SystemNext, FileStep, systemVars

\* So whatever holds of WorkerLease holds of the lease in the system.
THEOREM SystemKeepsLease == SystemSpec => Spec
<1>1. SystemInit => Init
  BY DEF SystemInit
<1> QED
  BY <1>1, StepOfLease, PTL DEF SystemSpec, Spec

--------------------------------------------------------------------------------
(* The memory of the workers. *)

\* What MemoryInv needs to be inductive.
SystemInv == MemoryInv /\ DOMAIN memory = Session

\* After a step of worker i only its memory is another, and it is in the given phase.
LEMMA BecomesRow ==
  ASSUME SystemInv, NEW i \in Session, NEW phase, Becomes(i, phase)
  PROVE  /\ DOMAIN memory' = Session
         /\ memory'[i].phase = phase
         /\ memory'[i] = [phase |-> memory'[i].phase, rows |-> memory'[i].rows,
                          hand |-> memory'[i].hand, total |-> memory'[i].total,
                          finished |-> memory'[i].finished]
         /\ \A j \in Session : j # i => memory'[j] = memory[j]
<1>1. PICK rows, hand, total, finished :
        memory' = [memory EXCEPT ![i] = [phase |-> phase, rows |-> rows, hand |-> hand,
                                         total |-> total, finished |-> finished]]
  BY DEF Becomes
<1> QED
  BY <1>1 DEF SystemInv

\* A worker that ends leaves no memory.
LEMMA ForgetsRow ==
  ASSUME SystemInv, NEW i \in Session, Forgets(i)
  PROVE  /\ DOMAIN memory' = Session
         /\ memory'[i] = NoMemory
         /\ \A j \in Session : j # i => memory'[j] = memory[j]
<1>1. CASE IsActive(i)
  <2>1. Becomes(i, "off") /\ Worker(i)!Stop
    BY <1>1 DEF Forgets
  <2>2. PICK rows, hand, total, finished :
          memory' = [memory EXCEPT ![i] = [phase |-> "off", rows |-> rows, hand |-> hand,
                                           total |-> total, finished |-> finished]]
    BY <2>1 DEF Becomes
  <2>3. memory'[i] = [phase |-> "off", rows |-> rows, hand |-> hand,
                      total |-> total, finished |-> finished]
    BY <2>2 DEF SystemInv
  <2>4. /\ memory'[i].rows = [f \in File |-> Worker(0)!NoRow]
        /\ memory'[i].hand = Worker(0)!NoHand
        /\ memory'[i].total = 0 /\ memory'[i].finished = 0
    BY <2>1 DEF Worker!Stop, Worker!File, Worker!NoRow, Worker!NoHand, File
  <2>5. memory'[i] = NoMemory
    BY <2>3, <2>4 DEF NoMemory
  <2> QED
    BY <2>2, <2>5 DEF SystemInv
<1>2. CASE ~ IsActive(i)
  BY <1>2 DEF Forgets, SystemInv, MemoryInv
<1> QED
  BY <1>1, <1>2

\* What a fresh process remembers does not depend on the state.
LEMMA NoMemoryIsFixed == NoMemory' = NoMemory
BY DEF NoMemory, Worker!NoRow, Worker!NoHand, File

\* What the step of a worker does to the memory: its own is that of a worker at work,
\* or is gone; nobody else's changes.
LEMMA WorkerRow ==
  ASSUME TypeOK, SystemInv, NEW i \in Session, WorkerStep(i)
  PROVE  /\ DOMAIN memory' = Session
         /\ memory'[i] = NoMemory \/ (IsActive(i)' /\ IsWorking(i)')
         /\ \A j \in Session : j # i => memory'[j] = memory[j] /\ proc'[j] = proc[j]
         /\ IsWorking(i) \/ UNCHANGED <<files, memory>>
<1> DEFINE Kept == /\ DOMAIN memory' = Session
                   /\ \A j \in Session : j # i => memory'[j] = memory[j]
<1>1. ASSUME NEW phase, phase # "off", Becomes(i, phase) PROVE Kept /\ IsActive(i)'
  BY <1>1, BecomesRow DEF IsActive
<1>2. ASSUME Forgets(i) PROVE Kept /\ memory'[i] = NoMemory
  BY <1>2, ForgetsRow
<1>3. ASSUME UNCHANGED memory PROVE Kept
  BY <1>3 DEF SystemInv
<1>4. IsActive(i) => IsWorking(i)
  BY DEF SystemInv, MemoryInv
<1>5. ~ IsActive(i) /\ UNCHANGED memory => memory'[i] = NoMemory
  BY DEF SystemInv, MemoryInv
<1>6. proc \in [Session -> Phases]
  BY DEF TypeOK
<1> USE DEF IsWorking, Working, IsActive, Move
<1>7. CASE PreparesQueue(i)
  BY <1>1, <1>6, <1>7 DEF PreparesQueue, vars
<1>8. CASE Starts(i)
  BY <1>3, <1>6, <1>8 DEF Starts, Prepared
<1>9. CASE ClaimsFile(i)
  BY <1>1, <1>6, <1>9 DEF ClaimsFile, Claim
<1>10. CASE FindsNothing(i)
  <2>1. proc[i] = "looping" /\ (\A j \in Session : j # i => proc'[j] = proc[j])
    BY <1>6, <1>10 DEF FindsNothing, FindNothing
  <2>2. CASE proc'[i] = "leaving"
    BY <1>2, <1>10, <2>1, <2>2 DEF FindsNothing
  <2>3. CASE proc'[i] # "leaving"
    <3>1. proc' = proc
      BY <1>6, <1>10, <2>3 DEF FindsNothing, FindNothing
    <3> QED
      BY <1>3, <1>4, <1>5, <1>10, <2>1, <2>3, <3>1 DEF FindsNothing
  <2> QED
    BY <2>2, <2>3
<1>11. CASE Concludes(i)
  BY <1>1, <1>6, <1>11 DEF Concludes, vars
<1>12. CASE GoesOn(i)
  BY <1>3, <1>6, <1>12 DEF GoesOn, Transcribed
<1>13. CASE Requeues(i)
  BY <1>1, <1>6, <1>13 DEF Requeues, HandleRequeue
<1>14. CASE Ends(i)
  <2>1. /\ \A j \in Session : j # i => proc'[j] = proc[j]
        /\ Forgets(i)
    BY <1>6, <1>14 DEF Ends, HandleSafeStop, WorkerFails, Crash
  <2> QED
    BY <1>2, <1>4, <2>1 DEF Forgets
<1> QED
  BY <1>7, <1>8, <1>9, <1>10, <1>11, <1>12, <1>13, <1>14 DEF WorkerStep

\* No step of LeaseStep ends the work of a worker.
LEMMA LeaseStepGoesOn ==
  ASSUME TypeOK, LeaseStep, NEW j \in Session, IsWorking(j) PROVE IsWorking(j)'
<1>1. proc \in [Session -> Phases]
  BY DEF TypeOK
<1> USE DEF IsWorking, Working, Move
<1>2. CASE UserActs \/ Tick
  BY <1>2 DEF UserActs, Acquire, Address, Tick
<1>3. ASSUME NEW w \in Window, UiGoesOn(w) \/ UiCrash(w) \/ \E i \in Session : SpawnFails(w, i)
      PROVE  IsWorking(j)'
  BY <1>1, <1>3 DEF UiGoesOn, Enqueue, Spawn, Send, UiCrash, SpawnFails
<1>4. ASSUME NEW i \in Session,
             \/ BeatThread(i) \/ BootFails(i) \/ Attach(i) \/ TakeCommand(i)
             \/ HandlePause(i) \/ HandleResume(i) \/ StayPaused(i)
             \/ BeginClose(i) \/ CloseSession(i) \/ Exit(i)
      PROVE  IsWorking(j)'
  BY <1>1, <1>4
  DEF BeatThread, BeatWakes, BeatWrites, BootFails, Attach, TakeCommand, HandlePause, HandleResume,
      StayPaused, BeginClose, CloseSession, Exit
<1> QED
  BY <1>2, <1>3, <1>4 DEF LeaseStep

\* MemoryInv, with what it needs, is inductive.
LEMMA SystemInvStep ==
  ASSUME TypeOK, SystemInv, [SystemNext]_systemVars PROVE SystemInv'
<1>1. CASE LeaseStep
  <2>1. UNCHANGED memory
    BY <1>1 DEF LeaseStep
  <2> QED
    BY <1>1, <2>1, LeaseStepGoesOn, NoMemoryIsFixed DEF SystemInv, MemoryInv, IsActive
<1>2. ASSUME NEW i \in Session, WorkerStep(i) PROVE SystemInv'
  BY <1>2, WorkerRow, NoMemoryIsFixed DEF SystemInv, MemoryInv, IsActive, IsWorking, NoMemory
<1>3. ASSUME UNCHANGED <<vars, memory>> PROVE SystemInv'
  BY <1>3, NoMemoryIsFixed DEF SystemInv, MemoryInv, IsActive, IsWorking, vars
<1> QED
  BY <1>1, <1>2, <1>3 DEF SystemNext, FileStep, ClearLooks, systemVars

\* A worker remembers something of the queue only while it works.
THEOREM MemoryIsOfWorker == SystemSpec => []MemoryInv
<1>1. SystemInit => SystemInv
  BY DEF SystemInit, SystemInv, MemoryInv, IsActive, NoMemory
<1>2. SystemInv => MemoryInv
  BY DEF SystemInv
<1> QED
  BY <1>1, <1>2, SystemInvStep, SystemKeepsLease, TypeCorrect, PTL DEF SystemSpec

--------------------------------------------------------------------------------
(* The worker that the queue knows of. *)

\* Current, of a memory that nobody else has anything in.
LEMMA MemoryAtWork ==
  ASSUME NEW m, NEW i \in Session,
         \A j \in Session : j # i => m[j].phase = "off",
         m[i].phase = "off" => m[i] = NoMemory
  PROVE  m[i] = IF \E j \in Session : m[j].phase # "off"
                THEN m[CHOOSE j \in Session : m[j].phase # "off"] ELSE NoMemory
<1>1. CASE m[i].phase # "off"
  <2>1. \A j \in Session : m[j].phase # "off" <=> j = i
    BY <1>1
  <2>2. (CHOOSE j \in Session : m[j].phase # "off") \in Session
    BY <2>1
  <2>3. (CHOOSE j \in Session : m[j].phase # "off") = i
    BY <2>1
  <2> QED
    BY <1>1, <2>3
<1>2. CASE m[i].phase = "off"
  BY <1>2
<1> QED
  BY <1>1, <1>2

\* Before and after the step of a worker at work, its memory is the one the queue sees.
LEMMA CurrentIsOfWorker ==
  ASSUME TypeOK, SystemInv, AtMostOneWorker, NEW i \in Session, IsWorking(i), WorkerStep(i)
  PROVE  Current = memory[i] /\ Current' = memory'[i]
<1>1. \A j \in Session : j # i => memory[j].phase = "off" /\ memory'[j].phase = "off"
  BY WorkerRow DEF AtMostOneWorker, SystemInv, MemoryInv, IsActive
<1>2. /\ memory[i].phase = "off" => memory[i] = NoMemory
      /\ memory'[i].phase = "off" => memory'[i] = NoMemory
  BY WorkerRow DEF SystemInv, MemoryInv, IsActive
<1>3. Current = memory[i]
  BY <1>1, <1>2, MemoryAtWork DEF Current, IsActive
<1>4. Current' = memory'[i]
  BY <1>1, <1>2, MemoryAtWork, NoMemoryIsFixed DEF Current, IsActive
<1> QED
  BY <1>3, <1>4

\* A step that leaves the memories as they are leaves that of the queue's worker.
LEMMA CurrentStays == ASSUME UNCHANGED memory PROVE Current' = Current
BY NoMemoryIsFixed DEF Current, IsActive

--------------------------------------------------------------------------------
(* A transaction of the worker is a step of the queue. *)

LEMMA ReadRowsMirrored ==
  ASSUME NEW i \in Session, Current = memory[i], Current' = memory'[i], Worker(i)!ReadRows
  PROVE  Queue!ReadRows
BY DEF Worker!ReadRows, Worker!Snapshot, Worker!IsTranscribed, Worker!File,
       Worker!columns, Worker!results, Worker!source,
       Queue!ReadRows, Queue!Snapshot, Queue!IsTranscribed, Queue!File,
       Queue!columns, Queue!results, Queue!source

LEMMA StopMirrored ==
  ASSUME NEW i \in Session, Current = memory[i], Current' = memory'[i], Worker(i)!Stop
  PROVE  Queue!Stop
BY DEF Worker!Stop, Worker!File, Worker!NoRow, Worker!NoHand,
       Worker!columns, Worker!results, Worker!source,
       Queue!Stop, Queue!File, Queue!NoRow, Queue!NoHand,
       Queue!columns, Queue!results, Queue!source

LEMMA DecisionsMirrored ==
  ASSUME NEW i \in Session, Current = memory[i], NEW f
  PROVE  /\ Queue!IsDecided(f) <=> Worker(i)!IsDecided(f)
         /\ Queue!Action(f) = Worker(i)!Action(f)
         /\ Queue!PreparedState(f) = Worker(i)!PreparedState(f)
<1>1. Queue!IsDecided(f) <=> Worker(i)!IsDecided(f)
  BY DEF Worker!IsDecided, Queue!IsDecided
<1>2. Queue!Action(f) = Worker(i)!Action(f)
  BY DEF Worker!Action, Queue!Action, Worker!NextAction, Queue!NextAction,
         Worker!MayReuse, Queue!MayReuse, Worker!Gone, Queue!Gone
<1>3. Queue!IsExcludedBy(f) <=> Worker(i)!IsExcludedBy(f)
  BY DEF Worker!IsExcludedBy, Queue!IsExcludedBy, Worker!Complete, Queue!Complete
<1>4. Queue!PreparedState(f) = Worker(i)!PreparedState(f)
  BY <1>1, <1>2, <1>3 DEF Worker!PreparedState, Queue!PreparedState
<1> QED
  BY <1>1, <1>2, <1>4

LEMMA CountMirrored ==
  ASSUME NEW i \in Session, NEW S PROVE Queue!Cardinality(S) = Worker(i)!Cardinality(S)
BY DEF Queue!Cardinality, Worker!Cardinality

LEMMA PrepareMirrored ==
  ASSUME NEW i \in Session, Current = memory[i], Current' = memory'[i], Worker(i)!Prepare
  PROVE  Queue!Prepare
<1>1. {f \in Queue!File : Queue!IsDecided(f) /\ Queue!Action(f) = "claimable"}
        = {f \in Worker(i)!File : Worker(i)!IsDecided(f) /\ Worker(i)!Action(f) = "claimable"}
  BY DecisionsMirrored DEF Worker!File, Queue!File
<1>2. [f \in Queue!File |-> Queue!PreparedState(f)] = [f \in Worker(i)!File |-> Worker(i)!PreparedState(f)]
  BY DecisionsMirrored DEF Worker!File, Queue!File
<1>3. [f \in Queue!File |-> Queue!NoRow] = [f \in Worker(i)!File |-> Worker(i)!NoRow]
  BY DEF Worker!File, Queue!File, Worker!NoRow, Queue!NoRow
<1> QED
  BY <1>1, <1>2, <1>3, CountMirrored
  DEF Worker!Prepare, Queue!Prepare, Worker!results, Queue!results, Worker!source, Queue!source

LEMMA ClaimMirrored ==
  ASSUME NEW i \in Session, Current = memory[i], Current' = memory'[i],
         NEW f \in File, Worker(i)!Claim(f)
  PROVE  Queue!Claim(f)
<1>1. \A g : Worker(i)!IsClaimable(g) <=> Queue!IsClaimable(g)
  BY DEF Worker!IsClaimable, Queue!IsClaimable
<1>2. \A a : Worker(i)!IsNextAttempt(a) <=> Queue!IsNextAttempt(a)
  BY DEF Worker!IsNextAttempt, Queue!IsNextAttempt, Worker!Exists, Queue!Exists,
         Worker!NoAttempt, Queue!NoAttempt, Worker!AttemptId, Queue!AttemptId
<1> QED
  BY <1>1, <1>2
  DEF Worker!Claim, Queue!Claim, Worker!File, Queue!File, Worker!AttemptId, Queue!AttemptId,
      Worker!source, Queue!source

LEMMA ConclusionMirrored ==
  ASSUME NEW i \in Session, Current = memory[i], Current' = memory'[i],
         Worker(i)!Transcribed \/ Worker(i)!NoSpeech \/ Worker(i)!Fails
  PROVE  Queue!Transcribed \/ Queue!NoSpeech \/ Queue!Fails
<1>1. \A a : Worker(i)!Exists(a) <=> Queue!Exists(a)
  BY DEF Worker!Exists, Queue!Exists, Worker!NoAttempt, Queue!NoAttempt
<1>2. ASSUME NEW outcome, Worker(i)!Conclude(outcome) PROVE Queue!Conclude(outcome)
  BY <1>1, <1>2 DEF Worker!Conclude, Queue!Conclude
<1>3. ASSUME NEW outcome, Worker(i)!Settle(outcome) PROVE Queue!Settle(outcome)
  BY <1>3 DEF Worker!Settle, Queue!Settle, Worker!NoHand, Queue!NoHand, Worker!source, Queue!source
<1> USE DEF Worker!Content, Queue!Content, Worker!Complete, Queue!Complete
<1>4. Worker(i)!Transcribed => Queue!Transcribed
  BY <1>1, <1>2, <1>3 DEF Worker!Transcribed, Queue!Transcribed
<1>5. Worker(i)!NoSpeech => Queue!NoSpeech
  BY <1>2, <1>3 DEF Worker!NoSpeech, Queue!NoSpeech
<1>6. Worker(i)!Fails => Queue!Fails
  BY <1>2, <1>3 DEF Worker!Fails, Queue!Fails
<1> QED
  BY <1>4, <1>5, <1>6

LEMMA CommandMirrored ==
  ASSUME NEW i \in Session, Current = memory[i], Current' = memory'[i], Worker(i)!Command
  PROVE  Queue!Command
<1> USE DEF Worker!File, Queue!File, Worker!results, Queue!results, Worker!source, Queue!source
<1>1. Worker(i)!RequeueFailed => Queue!RequeueFailed
  BY CountMirrored DEF Worker!RequeueFailed, Queue!RequeueFailed
<1>2. ASSUME NEW S, Worker(i)!RequeueSelected(S) PROVE Queue!RequeueSelected(S)
  BY <1>2, CountMirrored DEF Worker!RequeueSelected, Queue!RequeueSelected
<1> QED
  BY <1>1, <1>2 DEF Worker!Command, Queue!Command, Worker!Chosen, Queue!Chosen

--------------------------------------------------------------------------------
(* The system implements the queue. *)

\* What changes neither files nor memories is no step of the queue.
LEMMA StandsStill ==
  ASSUME UNCHANGED <<files, memory>> PROVE UNCHANGED Queue!vars
BY CurrentStays DEF files, Queue!vars, Queue!columns, Queue!results, Queue!source, Queue!worker

\* A worker's step is a step of the queue, or none.
LEMMA WorkerStepImplements ==
  ASSUME TypeOK, SystemInv, AtMostOneWorker, NEW i \in Session, WorkerStep(i)
  PROVE  [Queue!Next]_(Queue!vars)
<1>1. CASE UNCHANGED <<files, memory>>
  BY <1>1, StandsStill
<1>2. CASE ~ UNCHANGED <<files, memory>>
  <2>1. Current = memory[i] /\ Current' = memory'[i]
    BY <1>2, WorkerRow, CurrentIsOfWorker
  <2>2. CASE PreparesQueue(i)
    BY <2>1, <2>2, ReadRowsMirrored, PrepareMirrored DEF PreparesQueue, Queue!Next, Queue!Work
  <2>3. CASE ClaimsFile(i)
    BY <2>1, <2>3, ClaimMirrored DEF ClaimsFile, Queue!Next, Queue!Work, File, Queue!File
  <2>4. CASE Concludes(i)
    BY <2>1, <2>4, ConclusionMirrored DEF Concludes, Queue!Next, Queue!Work
  <2>5. CASE Requeues(i)
    BY <2>1, <2>5, CommandMirrored DEF Requeues, Queue!Next
  <2>6. CASE Forgets(i)
    BY <1>2, <2>1, <2>6, StopMirrored DEF Forgets, Queue!Next
  <2> QED
    BY <1>2, <2>2, <2>3, <2>4, <2>5, <2>6 DEF WorkerStep, Starts, FindsNothing, GoesOn, Ends
<1> QED
  BY <1>1, <1>2

\* The window looks at a lease that every worker holds, so that the queue's has gone.
LEMMA ClearLooksImplements ==
  ASSUME SystemInv, HolderIsLive, NEW S \in Queue!Chosen, ClearLooks(S)
  PROVE  Queue!Next
<1>1. \A j \in Session : ~ IsActive(j)
  BY DEF ClearLooks, HolderIsLive, Holding, SystemInv, MemoryInv, IsWorking
<1>2. Current.phase = "off" /\ Current' = Current
  BY <1>1, CurrentStays DEF ClearLooks, Current, NoMemory
<1>3. Queue!ClearLooks(S)
  BY <1>2 DEF ClearLooks, Queue!ClearLooks, Queue!columns, Queue!results, Queue!source, Queue!worker
<1> QED
  BY <1>3 DEF Queue!Next, Queue!User

\* Every step of the system is a step of the queue, or none.
LEMMA StepImplementsQueue ==
  ASSUME TypeOK, SystemInv, LeaseInv, AtMostOneWorker, [SystemNext]_systemVars
  PROVE  [Queue!Next]_(Queue!vars)
<1>1. CASE LeaseStep
  BY <1>1, StandsStill DEF LeaseStep
<1>2. CASE FileStep
  BY <1>2 DEF FileStep, Queue!Next, Queue!User, File, Queue!File
<1>3. ASSUME NEW S \in Queue!Chosen, ClearLooks(S) PROVE Queue!Next
  BY <1>3, ClearLooksImplements DEF LeaseInv
<1>4. CASE UNCHANGED systemVars
  BY <1>4, StandsStill DEF systemVars
<1> QED
  BY <1>1, <1>2, <1>3, <1>4, WorkerStepImplements DEF SystemNext

\* As long as every worker's heartbeat is on time, the files see one worker at a
\* time: the system of all windows, leases and processes implements the queue.
THEOREM ImplementsTheQueue == ASSUME Punctual PROVE SystemSpec => ImplementsQueue
<1>1. SystemInit => SystemInv /\ Queue!Init
  BY DEF SystemInit, SystemInv, MemoryInv, IsActive, NoMemory
<1> QED
  BY <1>1, SystemInvStep, StepImplementsQueue, SystemKeepsLease, TypeCorrect, OneWorker,
     LeaseInvariant, PTL
  DEF SystemSpec, ImplementsQueue, Queue!Spec

--------------------------------------------------------------------------------
(* What is proved of the queue holds of the system. *)

QueueProofs ==
  INSTANCE TranscriptionQueueProofs
    WITH phase <- Current.phase, rows <- Current.rows, hand <- Current.hand,
         total <- Current.total, finished <- Current.finished

\* The queue that is proved about is the queue of the system.
LEMMA SameQueue ==
  /\ Queue!Init <=> QueueProofs!Init
  /\ Queue!Next <=> QueueProofs!Next
  /\ UNCHANGED Queue!vars <=> UNCHANGED QueueProofs!vars
<1> USE DEF
      Queue!columns, QueueProofs!columns, Queue!results, QueueProofs!results,
      Queue!source, QueueProofs!source, Queue!worker, QueueProofs!worker,
      Queue!File, QueueProofs!File, Queue!Content, QueueProofs!Content,
      Queue!AttemptId, QueueProofs!AttemptId, Queue!Complete, QueueProofs!Complete,
      Queue!NoAttempt, QueueProofs!NoAttempt, Queue!NoHand, QueueProofs!NoHand,
      Queue!NoRow, QueueProofs!NoRow, Queue!Exists, QueueProofs!Exists,
      Queue!IsTranscribed, QueueProofs!IsTranscribed,
      Queue!Cardinality, QueueProofs!Cardinality, Queue!Chosen, QueueProofs!Chosen
<1>1. Queue!Init <=> QueueProofs!Init
  BY DEF Queue!Init, QueueProofs!Init, Queue!NoText, QueueProofs!NoText
<1>2. Queue!Scan <=> QueueProofs!Scan
  BY DEF Queue!Scan, QueueProofs!Scan, Queue!ScanReadable, QueueProofs!ScanReadable,
         Queue!ScanUnreadable, QueueProofs!ScanUnreadable,
         Queue!ScanMissing, QueueProofs!ScanMissing, Queue!Gone, QueueProofs!Gone,
         Queue!Bad, QueueProofs!Bad
<1>3. /\ Queue!ReadRows <=> QueueProofs!ReadRows
      /\ Queue!Stop <=> QueueProofs!Stop
  BY DEF Queue!ReadRows, QueueProofs!ReadRows, Queue!Snapshot, QueueProofs!Snapshot,
         Queue!Stop, QueueProofs!Stop
<1>4. Queue!Prepare <=> QueueProofs!Prepare
  BY DEF Queue!Prepare, QueueProofs!Prepare, Queue!PreparedState, QueueProofs!PreparedState,
         Queue!IsDecided, QueueProofs!IsDecided, Queue!IsExcludedBy, QueueProofs!IsExcludedBy,
         Queue!Action, QueueProofs!Action, Queue!NextAction, QueueProofs!NextAction,
         Queue!MayReuse, QueueProofs!MayReuse, Queue!Gone, QueueProofs!Gone
<1>5. \A f : Queue!Claim(f) <=> QueueProofs!Claim(f)
  BY DEF Queue!Claim, QueueProofs!Claim, Queue!IsClaimable, QueueProofs!IsClaimable,
         Queue!IsNextAttempt, QueueProofs!IsNextAttempt
<1>6. /\ Queue!Transcribed <=> QueueProofs!Transcribed
      /\ Queue!NoSpeech <=> QueueProofs!NoSpeech
      /\ Queue!Fails <=> QueueProofs!Fails
  BY DEF Queue!Transcribed, QueueProofs!Transcribed, Queue!NoSpeech, QueueProofs!NoSpeech,
         Queue!Fails, QueueProofs!Fails, Queue!Settle, QueueProofs!Settle,
         Queue!Conclude, QueueProofs!Conclude
<1>7. Queue!Command <=> QueueProofs!Command
  BY DEF Queue!Command, QueueProofs!Command, Queue!RequeueSelected, QueueProofs!RequeueSelected,
         Queue!RequeueFailed, QueueProofs!RequeueFailed
<1>8. Queue!User <=> QueueProofs!User
  BY DEF Queue!User, QueueProofs!User, Queue!SetEnabled, QueueProofs!SetEnabled,
         Queue!SetAllEnabled, QueueProofs!SetAllEnabled,
         Queue!ReplaceWith, QueueProofs!ReplaceWith, Queue!Toggle, QueueProofs!Toggle,
         Queue!Toggled, QueueProofs!Toggled, Queue!IsCandidate, QueueProofs!IsCandidate,
         Queue!ClearLooks, QueueProofs!ClearLooks, Queue!Clear, QueueProofs!Clear,
         Queue!SaveManual, QueueProofs!SaveManual, Queue!NoText, QueueProofs!NoText
<1>9. \A f : Queue!DiskChanges(f) <=> QueueProofs!DiskChanges(f)
  BY DEF Queue!DiskChanges, QueueProofs!DiskChanges, Queue!Gone, QueueProofs!Gone,
         Queue!Bad, QueueProofs!Bad
<1>10. Queue!Next <=> QueueProofs!Next
  BY <1>2, <1>3, <1>4, <1>5, <1>6, <1>7, <1>8, <1>9
  DEF Queue!Next, QueueProofs!Next, Queue!Work, QueueProofs!Work
<1>11. UNCHANGED Queue!vars <=> UNCHANGED QueueProofs!vars
  BY DEF Queue!vars, QueueProofs!vars
<1> QED
  BY <1>1, <1>10, <1>11

\* And so are its properties.
LEMMA SameProperties ==
  /\ Queue!PreferredIsSound <=> QueueProofs!PreferredIsSound
  /\ Queue!IndexedTextIsStored <=> QueueProofs!IndexedTextIsStored
  /\ Queue!NoSilentRepeat <=> QueueProofs!NoSilentRepeat
  /\ Queue!FailedStaysFailed <=> QueueProofs!FailedStaysFailed
  /\ Queue!KeepsHistory <=> QueueProofs!KeepsHistory
<1> USE DEF Queue!File, QueueProofs!File, Queue!Content, QueueProofs!Content,
      Queue!AttemptId, QueueProofs!AttemptId, Queue!IsTranscribed, QueueProofs!IsTranscribed,
      Queue!NoText, QueueProofs!NoText
<1>1. /\ Queue!PreferredIsSound <=> QueueProofs!PreferredIsSound
      /\ Queue!IndexedTextIsStored <=> QueueProofs!IndexedTextIsStored
  BY DEF Queue!PreferredIsSound, QueueProofs!PreferredIsSound,
         Queue!IndexedTextIsStored, QueueProofs!IndexedTextIsStored
<1>2. /\ Queue!NoSilentRepeat <=> QueueProofs!NoSilentRepeat
      /\ Queue!FailedStaysFailed <=> QueueProofs!FailedStaysFailed
  BY DEF Queue!NoSilentRepeat, QueueProofs!NoSilentRepeat,
         Queue!FailedStaysFailed, QueueProofs!FailedStaysFailed, Queue!vars, QueueProofs!vars,
         Queue!columns, QueueProofs!columns, Queue!results, QueueProofs!results,
         Queue!source, QueueProofs!source, Queue!worker, QueueProofs!worker
<1>3. Queue!KeepsHistory <=> QueueProofs!KeepsHistory
  BY DEF Queue!KeepsHistory, QueueProofs!KeepsHistory,
         Queue!History!Spec, QueueProofs!History!Spec,
         Queue!History!Init, QueueProofs!History!Init,
         Queue!History!Next, QueueProofs!History!Next,
         Queue!History!Outcomes, QueueProofs!History!Outcomes,
         Queue!History!Finish, QueueProofs!History!Finish,
         Queue!History!Ask, QueueProofs!History!Ask,
         Queue!History!Forget, QueueProofs!History!Forget, Queue!Results, QueueProofs!Results,
         Queue!Result, QueueProofs!Result, Queue!IsFinished, QueueProofs!IsFinished
<1> QED
  BY <1>1, <1>2, <1>3

\* With several windows and workers, crashes and restarts: the transcript shown is
\* sound, the index is backed by a stored text, nothing is transcribed twice or
\* tried again in silence, and the history is kept.
THEOREM SystemIsSound ==
  ASSUME Punctual
  PROVE  SystemSpec => /\ []Queue!PreferredIsSound
                       /\ []Queue!IndexedTextIsStored
                       /\ Queue!NoSilentRepeat
                       /\ Queue!FailedStaysFailed
                       /\ Queue!KeepsHistory
<1>1. QueueProofs!QueueAssumption
  BY SystemAssumption DEF QueueProofs!QueueAssumption
<1>2. Queue!Spec => QueueProofs!Spec
  <2>1. [Queue!Next]_(Queue!vars) => [QueueProofs!Next]_(QueueProofs!vars)
    BY SameQueue
  <2>2. Queue!Init => QueueProofs!Init
    BY SameQueue
  <2> QED
    BY <2>1, <2>2, PTL DEF Queue!Spec, QueueProofs!Spec
<1>3. QueueProofs!Spec => []QueueProofs!PreferredIsSound
  BY <1>1, QueueProofs!ShownIsSound
<1>4. QueueProofs!Spec => []QueueProofs!IndexedTextIsStored
  BY <1>1, QueueProofs!IndexIsBacked
<1>5. QueueProofs!Spec => QueueProofs!NoSilentRepeat
  BY <1>1, QueueProofs!NoneRepeatedSilently
<1>6. QueueProofs!Spec => QueueProofs!FailedStaysFailed
  BY <1>1, QueueProofs!FailuresStay
<1>7. QueueProofs!Spec => QueueProofs!KeepsHistory
  BY <1>1, QueueProofs!ImplementsHistory
<1> QED
  BY <1>2, <1>3, <1>4, <1>5, <1>6, <1>7, ImplementsTheQueue, SameProperties, PTL DEF ImplementsQueue

================================================================================
