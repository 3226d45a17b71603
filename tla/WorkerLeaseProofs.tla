--------------------------- MODULE WorkerLeaseProofs ---------------------------
(***************************************************************************)
(* Proofs about WorkerLease, for any number of windows, sessions, commands *)
(* and for any timeouts.                                                   *)
(***************************************************************************)
EXTENDS WorkerLease, TLAPS

Statuses == {"pending", "taken", "done"}

(* What the statements on the tables do. *)

\* What heartbeat() writes: one row, with a new state and no age.
LEMMA HeartbeatRow ==
  ASSUME TypeOK, NEW i \in Session, NEW state \in SessionStates, Heartbeat(i, state)
  PROVE  /\ session' \in [Session -> Row]
         /\ session'[i] = [state |-> state, age |-> 0]
         /\ \A j \in Session : j # i => session'[j] = session[j]
BY LeaseAssumption DEF TypeOK, Heartbeat, Row

\* What an UPDATE of the state writes: one row, whose age stays.
LEMMA SetStateRow ==
  ASSUME TypeOK, NEW i \in Session, NEW state \in SessionStates, SetState(i, state)
  PROVE  /\ session' \in [Session -> Row]
         /\ session'[i].state = state
         /\ \A j \in Session : j # i => session'[j] = session[j]
<1>1. session[i] \in Row
  BY DEF TypeOK
<1>2. /\ [session[i] EXCEPT !.state = state] \in Row
      /\ [session[i] EXCEPT !.state = state].state = state
  BY <1>1 DEF Row
<1>3. session' = [session EXCEPT ![i] = [session[i] EXCEPT !.state = state]]
  BY DEF SetState
<1> QED
  BY <1>2, <1>3 DEF TypeOK

\* What an UPDATE of a command writes: its status, and no other command.
LEMMA SetStatusRow ==
  ASSUME TypeOK, NEW k \in DOMAIN commands, NEW status \in Statuses, SetStatus(k, status)
  PROVE  /\ commands' \in Seq(Command)
         /\ DOMAIN commands' = DOMAIN commands
         /\ commands'[k].status = status
         /\ commands'[k].session = commands[k].session
         /\ \A m \in DOMAIN commands : m # k => commands'[m] = commands[m]
<1>1. commands \in Seq(Command) /\ commands[k] \in Command
  BY DEF TypeOK
<1> DEFINE row == [commands[k] EXCEPT !.status = status]
<1>2. row \in Command /\ row.status = status /\ row.session = commands[k].session
  BY <1>1 DEF Command, Statuses
<1>3. commands' = [commands EXCEPT ![k] = row]
  BY DEF SetStatus
<1> HIDE DEF row
<1> QED
  BY <1>1, <1>2, <1>3

\* What an INSERT into worker_commands does: one pending row after the others.
LEMMA InsertRow ==
  ASSUME TypeOK, NEW i \in Session, NEW kind \in Kinds, commands' = Insert(i, kind)
  PROVE  /\ commands' \in Seq(Command)
         /\ DOMAIN commands' = DOMAIN commands \cup {Len(commands) + 1}
         /\ commands'[Len(commands) + 1] = [session |-> i, kind |-> kind, status |-> "pending"]
         /\ \A m \in DOMAIN commands : commands'[m] = commands[m]
<1> DEFINE row == [session |-> i, kind |-> kind, status |-> "pending"]
<1>1. row \in Command
  BY DEF Command
<1>2. commands' = Append(commands, row) /\ commands \in Seq(Command)
  BY DEF Insert, TypeOK
<1> HIDE DEF row
<1>3. commands' \in Seq(Command) /\ Len(commands') = Len(commands) + 1
  BY <1>1, <1>2
<1>4. commands'[Len(commands) + 1] = row /\ \A m \in DOMAIN commands : commands'[m] = commands[m]
  BY <1>1, <1>2
<1> QED
  BY <1>2, <1>3, <1>4 DEF row

\* A window that is in the middle of something holds a kind of command or none.
LEMMA KindIsKnown ==
  ASSUME TypeOK, NEW w \in Window, ui[w].step = "addressed" \/ ui[w].kind # "none"
  PROVE  ui[w].kind \in Kinds
<1>1. ui[w] \in UiStep
  BY DEF TypeOK
<1> QED
  BY <1>1 DEF UiStep, Kinds

\* Every step of a worker's main thread keeps the types.
LEMMA MainThreadTypes ==
  ASSUME TypeOK, NEW i \in Session, MainThread(i) PROVE TypeOK'
<1>1. ASSUME NEW kind, Complete(i, kind) PROVE commands' \in Seq(Command)
  BY <1>1, SetStatusRow DEF Complete, Statuses
<1>2. ASSUME NEW to \in Phases, NEW from, Move(i, from, to)
      PROVE  proc' \in [Session -> Phases]
  BY <1>2 DEF Move, TypeOK
<1>3. ASSUME NEW state \in SessionStates, Heartbeat(i, state) \/ SetState(i, state)
      PROVE  session' \in [Session -> Row]
  BY <1>3, HeartbeatRow, SetStateRow
<1> USE DEF Phases, Working, Closing, SessionStates, LiveStates
<1>4. CASE Attach(i)
  BY <1>2, <1>3, <1>4 DEF Attach, TypeOK
<1>5. CASE Prepared(i)
  BY <1>2, <1>3, <1>5 DEF Prepared, TypeOK
<1>6. CASE TakeCommand(i)
  BY <1>2, <1>6, SetStatusRow DEF TakeCommand, TypeOK, Statuses
<1>7. CASE HandleSafeStop(i)
  BY <1>1, <1>2, <1>3, <1>7 DEF HandleSafeStop, TypeOK
<1>8. CASE HandlePause(i)
  BY <1>1, <1>2, <1>3, <1>8, LeaseAssumption DEF HandlePause, TypeOK
<1>9. CASE HandleResume(i)
  BY <1>1, <1>2, <1>3, <1>9, LeaseAssumption DEF HandleResume, TypeOK
<1>10. CASE HandleRequeue(i)
  BY <1>1, <1>2, <1>10, LeaseAssumption DEF HandleRequeue, TypeOK
<1>11. CASE StayPaused(i)
  BY <1>3, <1>11, LeaseAssumption DEF StayPaused, TypeOK
<1>12. CASE Claim(i)
  BY <1>2, <1>12 DEF Claim, TypeOK
<1>13. CASE Transcribed(i)
  BY <1>2, <1>3, <1>13, LeaseAssumption DEF Transcribed, TypeOK
<1>14. CASE FindNothing(i)
  BY <1>2, <1>3, <1>14, LeaseAssumption DEF FindNothing, TypeOK
<1>15. CASE BeginClose(i)
  BY <1>2, <1>15 DEF BeginClose, TypeOK
<1>16. CASE CloseSession(i)
  BY <1>2, <1>3, <1>16 DEF CloseSession, TypeOK
<1>17. CASE Exit(i)
  BY <1>2, <1>17, LeaseAssumption DEF Exit, Vanish, TypeOK
<1> QED
  BY <1>4, <1>5, <1>6, <1>7, <1>8, <1>9, <1>10, <1>11, <1>12, <1>13, <1>14, <1>15, <1>16, <1>17
  DEF MainThread

(* Type correctness. *)

\* Every step keeps the types.
LEMMA TypeStep == TypeOK /\ [Next]_vars => TypeOK'
<1> SUFFICES ASSUME TypeOK, [Next]_vars PROVE TypeOK'
  OBVIOUS
<1>1. ASSUME NEW w \in Window, NEW kind \in {"none", "requeue"}, Acquire(w, kind)
      PROVE  TypeOK'
  <2>1. PICK i \in Session : Heartbeat(i, "starting") /\ Ui(w, "acquired", i, kind)
    BY <1>1 DEF Acquire
  <2>2. session' \in [Session -> Row]
    BY <2>1, HeartbeatRow DEF SessionStates, LiveStates
  <2>3. ui' \in [Window -> UiStep]
    BY <2>1, LeaseAssumption DEF TypeOK, Ui, UiStep, Session
  <2> QED
    BY <1>1, <2>2, <2>3 DEF Acquire, TypeOK
<1>2. ASSUME NEW w \in Window, NEW i \in Session, NEW kind \in Kinds, Address(w, i, kind)
      PROVE  TypeOK'
  BY <1>2, LeaseAssumption DEF Address, TypeOK, Ui, UiStep, Session
<1>3. ASSUME NEW w \in Window, Done(w) PROVE ui' \in [Window -> UiStep]
  BY <1>3, LeaseAssumption DEF Done, Free, TypeOK, UiStep
<1>4. ASSUME NEW w \in Window, NEW i \in Session, Spawn(w, i) PROVE TypeOK'
  BY <1>3, <1>4 DEF Spawn, Move, TypeOK, Phases
<1>5. ASSUME NEW w \in Window, NEW i \in Session, Send(w, i) PROVE TypeOK'
  <2>1. ui[w].kind \in Kinds
    BY <1>5, KindIsKnown DEF Send
  <2> QED
    BY <1>3, <1>5, <2>1, InsertRow DEF Send, TypeOK
<1>13. ASSUME NEW w \in Window, NEW i \in Session, Enqueue(w, i) PROVE TypeOK'
  <2>1. ui[w].kind \in Kinds
    BY <1>13, KindIsKnown DEF Enqueue
  <2>2. ui' \in [Window -> UiStep]
    BY <1>13, LeaseAssumption DEF Enqueue, TypeOK, Ui, UiStep, Session
  <2> QED
    BY <1>13, <2>1, <2>2, InsertRow DEF Enqueue, TypeOK
<1>6. ASSUME NEW w \in Window, NEW i \in Session, SpawnFails(w, i) PROVE TypeOK'
  BY <1>3, <1>6, SetStateRow DEF SpawnFails, TypeOK, SessionStates
<1>7. ASSUME NEW w \in Window, UiCrash(w) PROVE TypeOK'
  BY <1>3, <1>7 DEF UiCrash, TypeOK
<1>8. ASSUME NEW i \in Session, MainThread(i) PROVE TypeOK'
  BY <1>8, MainThreadTypes
<1>9. ASSUME NEW i \in Session, BeatThread(i) PROVE TypeOK'
  <2>1. CASE BeatWakes(i)
    BY <2>1 DEF BeatWakes, TypeOK
  <2>2. CASE BeatWrites(i)
    BY <2>2, HeartbeatRow DEF BeatWrites, TypeOK, SessionStates, LiveStates
  <2> QED
    BY <1>9, <2>1, <2>2 DEF BeatThread
<1>10. ASSUME NEW i \in Session, BootFails(i) \/ WorkerFails(i) \/ Crash(i) PROVE TypeOK'
  <2>1. CASE BootFails(i)
    BY <2>1 DEF BootFails, Move, TypeOK, Phases
  <2>2. CASE WorkerFails(i)
    BY <2>2, SetStateRow DEF WorkerFails, TypeOK, SessionStates, Phases, Closing
  <2>3. CASE Crash(i)
    BY <2>3, LeaseAssumption DEF Crash, Vanish, TypeOK, Phases
  <2> QED
    BY <1>10, <2>1, <2>2, <2>3
<1>11. CASE Tick
  BY <1>11, LeaseAssumption DEF Tick, TypeOK, Row
<1>12. CASE UNCHANGED vars
  BY <1>12 DEF vars, TypeOK
<1> QED
  BY <1>1, <1>2, <1>4, <1>5, <1>6, <1>7, <1>8, <1>9, <1>10, <1>11, <1>12, <1>13
  DEF Next, UserActs, UiGoesOn, Fault

\* The tables, the windows and the processes hold what the schema and the code
\* allow, for any number of windows, sessions and commands.
THEOREM TypeCorrect == Spec => []TypeOK
<1>1. Init => TypeOK
  BY LeaseAssumption DEF Init, TypeOK, Row, UiStep, Free, Phases, Session
<1> QED
  BY <1>1, TypeStep, PTL DEF Spec

--------------------------------------------------------------------------------
(* One lease, one holder. *)

\* Where a step of the worker of i may lead: into the lease, out of it, or
\* neither.
Stage(i) ==
  \/ proc[i] \in Working /\ proc'[i] \in Working
  \/ proc[i] = "booting" /\ proc'[i] \in Working
  \/ proc[i] \in Working \cup {"booting"} /\ proc'[i] \in Closing \cup {"gone"}
  \/ proc[i] \in Closing /\ proc'[i] \in Closing \cup {"exited", "gone"}

\* All that the proofs below use of a step of the worker of i.
Effect(i) ==
  /\ ui' = ui
  /\ \A j \in Session : j # i =>
       session'[j] = session[j] /\ proc'[j] = proc[j] /\ beat'[j] = beat[j]
  /\ session'[i].state # "none"
  /\ Stage(i)
  /\ proc'[i] \in Working =>
       session'[i].state \in LiveStates /\ session'[i].age <= Timeout
  /\ beat'[i] # "off" => proc'[i] \in BeatPhases

\* A step of a worker's threads has the effect of its stage: it touches its own
\* row alone and keeps it live while it works.
LEMMA WorkerEffect ==
  ASSUME Punctual, TypeOK, LeaseInv, NEW i \in Session,
         MainThread(i) \/ BeatThread(i) \/ BootFails(i) \/ WorkerFails(i) \/ Crash(i)
  PROVE  Effect(i)
<1>1. /\ session \in [Session -> Row] /\ proc \in [Session -> Phases]
      /\ beat \in [Session -> {"off", "waiting", "running", "paused"}]
      /\ Timeout \in Nat
  BY LeaseAssumption DEF TypeOK
<1>2. /\ proc[i] \in Working \cup {"booting"} => session[i].state \in LiveStates /\ session[i].age <= Timeout
      /\ proc[i] # "none" => session[i].state # "none"
      /\ beat[i] # "off" => proc[i] \in BeatPhases
  BY DEF LeaseInv, HolderIsLive, IsLive, Holding, UnbornIsUntouched, BeatNeedsProcess
<1>3. ASSUME NEW state \in LiveStates, Heartbeat(i, state)
      PROVE  /\ session'[i].state = state /\ session'[i].age = 0
             /\ \A j \in Session : j # i => session'[j] = session[j]
  <2>1. state \in SessionStates
    BY DEF SessionStates
  <2>2. session'[i] = [state |-> state, age |-> 0]
    BY <1>3, <2>1, HeartbeatRow
  <2> QED
    BY <1>3, <2>1, <2>2, HeartbeatRow
<1>4. ASSUME NEW state \in {"stopped", "failed"}, SetState(i, state)
      PROVE  /\ session'[i].state = state
             /\ \A j \in Session : j # i => session'[j] = session[j]
  BY <1>4, SetStateRow DEF SessionStates
<1>5. ASSUME NEW from, NEW to, Move(i, from, to)
      PROVE  /\ proc[i] = from /\ proc'[i] = to
             /\ \A j \in Session : j # i => proc'[j] = proc[j]
  BY <1>1, <1>5 DEF Move
<1> USE DEF Effect, Stage, Working, Closing, BeatPhases, LiveStates
<1>6. CASE Attach(i)
  BY <1>1, <1>2, <1>3, <1>5, <1>6 DEF Attach
<1>7. CASE Prepared(i)
  BY <1>1, <1>2, <1>3, <1>5, <1>7 DEF Prepared
<1>8. CASE TakeCommand(i)
  BY <1>1, <1>2, <1>5, <1>8 DEF TakeCommand
<1>9. CASE HandleSafeStop(i)
  BY <1>1, <1>2, <1>4, <1>5, <1>9 DEF HandleSafeStop
<1>10. CASE HandlePause(i) \/ HandleResume(i)
  BY <1>1, <1>2, <1>3, <1>5, <1>10 DEF HandlePause, HandleResume
<1>11. CASE HandleRequeue(i)
  BY <1>1, <1>2, <1>5, <1>11 DEF HandleRequeue
<1>12. CASE StayPaused(i)
  BY <1>1, <1>2, <1>3, <1>12 DEF StayPaused
<1>13. CASE Claim(i)
  BY <1>1, <1>2, <1>5, <1>13 DEF Claim
<1>14. CASE Transcribed(i)
  BY <1>1, <1>2, <1>3, <1>5, <1>14 DEF Transcribed
<1>15. CASE FindNothing(i)
  BY <1>1, <1>2, <1>3, <1>5, <1>15 DEF FindNothing
<1>16. CASE BeginClose(i)
  BY <1>1, <1>2, <1>5, <1>16 DEF BeginClose
<1>17. CASE CloseSession(i)
  BY <1>1, <1>2, <1>4, <1>5, <1>17 DEF CloseSession
<1>18. CASE Exit(i)
  BY <1>1, <1>2, <1>5, <1>18 DEF Exit, Vanish
<1>19. CASE BeatWakes(i)
  BY <1>1, <1>2, <1>19 DEF BeatWakes
<1>20. CASE BeatWrites(i)
  BY <1>1, <1>2, <1>3, <1>20 DEF BeatWrites
<1>21. CASE BootFails(i)
  BY <1>1, <1>2, <1>5, <1>21 DEF BootFails
<1>22. CASE WorkerFails(i)
  BY <1>1, <1>2, <1>4, <1>22 DEF WorkerFails
<1>23. CASE Crash(i)
  BY <1>1, <1>2, <1>23 DEF Crash, Vanish
<1> HIDE DEF Effect
<1> QED
  BY <1>6, <1>7, <1>8, <1>9, <1>10, <1>11, <1>12, <1>13, <1>14, <1>15, <1>16, <1>17, <1>18,
     <1>19, <1>20, <1>21, <1>22, <1>23
  DEF MainThread, BeatThread

\* A step with such an effect keeps the lease invariant.
LEMMA EffectKeepsLeaseInv ==
  ASSUME TypeOK, LeaseInv, NEW i \in Session, Effect(i) PROVE LeaseInv'
<1>1. /\ \A w \in Window, j \in Session : IsSpawning(w, j)' <=> IsSpawning(w, j)
      /\ \A w \in Window : ~ IsSpawning(w, i)
      /\ proc[i] # "none" /\ proc'[i] # "none"
      /\ session[i].state # "none"
  BY DEF Effect, Stage, IsSpawning, LeaseInv, SpawningIsFresh, UnbornIsUntouched, Working, Closing
<1>2. ASSUME NEW j \in Session, Holding(j)' PROVE Holding(j)
  BY <1>1, <1>2 DEF Holding, Effect, Stage, Working, Closing
<1>3. ASSUME NEW j \in Session PROVE (session'[j].state = "none") <=> (session[j].state = "none")
  BY <1>1 DEF Effect
<1>4. HolderIsLive'
  BY <1>1, <1>2 DEF HolderIsLive, IsLive, LeaseInv, Effect, Stage, Holding, Working, Closing
<1>5. HolderIsNewest' /\ IdsAreDense'
  BY <1>2, <1>3 DEF HolderIsNewest, IdsAreDense, LeaseInv
<1>6. UnbornIsUntouched'
  BY <1>1, <1>3 DEF UnbornIsUntouched, LeaseInv, Effect
<1>7. SpawningIsFresh'
  BY <1>1 DEF SpawningIsFresh, LeaseInv, Effect
<1>8. AttachNeverRefused'
  BY <1>1 DEF AttachNeverRefused, LeaseInv, Effect, Stage, Working, Closing
<1>9. BeatNeedsProcess'
  BY DEF BeatNeedsProcess, LeaseInv, Effect
<1> QED
  BY <1>4, <1>5, <1>6, <1>7, <1>8, <1>9 DEF LeaseInv

\* acquire_lease inserts the newest session while no other is held.
LEMMA AcquireKeepsLeaseInv ==
  ASSUME TypeOK, LeaseInv, NEW w \in Window, NEW kind, Acquire(w, kind) PROVE LeaseInv'
<1>1. PICK i \in Session : /\ IsNextId(i)
                           /\ Heartbeat(i, "starting")
                           /\ Ui(w, "acquired", i, kind)
  BY DEF Acquire
<1>2. /\ \A j \in Session : ~ Holding(j)
      /\ \A v \in Window, j \in Session : ~ IsSpawning(v, j)
  BY DEF Acquire, LeaseInv, HolderIsLive, Holding
<1>3. /\ session'[i].state = "starting" /\ session'[i].age = 0
      /\ \A j \in Session : j # i => session'[j] = session[j]
  <2>1. session'[i] = [state |-> "starting", age |-> 0]
    BY <1>1, HeartbeatRow DEF SessionStates, LiveStates
  <2> QED
    BY <1>1, <2>1, HeartbeatRow DEF SessionStates, LiveStates
<1>4. \A v \in Window, j \in Session : IsSpawning(v, j)' <=> v = w /\ j = i
  BY <1>1, <1>2 DEF TypeOK, Ui, IsSpawning
<1>5. proc' = proc /\ beat' = beat
  BY DEF Acquire
<1>6. /\ session[i].state = "none" /\ proc[i] = "none"
      /\ \A j \in Session : j < i => session[j].state # "none"
      /\ \A j \in Session : j > i => session[j].state = "none"
  BY <1>1, <1>5 DEF IsNextId, LeaseInv, UnbornIsUntouched, IdsAreDense
<1>7. \A j \in Session : Holding(j)' <=> j = i
  BY <1>2, <1>4, <1>5 DEF Holding
<1>8. HolderIsLive'
  BY <1>3, <1>7, LeaseAssumption DEF HolderIsLive, IsLive, LiveStates
<1>9. HolderIsNewest'
  BY <1>3, <1>6, <1>7 DEF HolderIsNewest, Session
<1>10. IdsAreDense'
  BY <1>3, <1>6 DEF IdsAreDense, LeaseInv, Session
<1>11. UnbornIsUntouched'
  BY <1>3, <1>5 DEF UnbornIsUntouched, LeaseInv
<1>12. SpawningIsFresh'
  BY <1>3, <1>4, <1>5, <1>6 DEF SpawningIsFresh
<1>13. AttachNeverRefused'
  BY <1>3, <1>5 DEF AttachNeverRefused, LeaseInv
<1>14. BeatNeedsProcess'
  BY <1>3, <1>5, <1>6 DEF BeatNeedsProcess, LeaseInv
<1> QED
  BY <1>8, <1>9, <1>10, <1>11, <1>12, <1>13, <1>14 DEF LeaseInv

\* A window that spawns the process it has the lease for, or fails to, keeps the
\* lease invariant.
LEMMA SpawningKeepsLeaseInv ==
  ASSUME TypeOK, LeaseInv, NEW w \in Window, NEW i \in Session,
         Spawn(w, i) \/ SpawnFails(w, i)
  PROVE  LeaseInv'
<1>1. /\ IsSpawning(w, i) /\ proc[i] = "none" /\ session[i].state = "starting"
      /\ beat' = beat /\ beat[i] = "off"
  BY DEF Spawn, SpawnFails, LeaseInv, SpawningIsFresh, BeatNeedsProcess, BeatPhases, Closing
<1>2. \A v \in Window, j \in Session : IsSpawning(v, j)' <=> IsSpawning(v, j) /\ j # i
  <2>1. /\ ui'[w].step = "free"
        /\ \A v \in Window : v # w => ui'[v] = ui[v]
    BY DEF Spawn, SpawnFails, Done, Free, TypeOK
  <2>2. \A v \in Window : IsSpawning(v, i) => v = w
    BY <1>1 DEF LeaseInv, SpawningIsFresh
  <2>3. \A j \in Session : IsSpawning(w, j) => j = i
    BY <1>1 DEF IsSpawning
  <2>4. ASSUME NEW v \in Window, NEW j \in Session, v = w
        PROVE  IsSpawning(v, j)' <=> IsSpawning(v, j) /\ j # i
    BY <2>1, <2>3, <2>4 DEF IsSpawning
  <2>5. ASSUME NEW v \in Window, NEW j \in Session, v # w
        PROVE  IsSpawning(v, j)' <=> IsSpawning(v, j) /\ j # i
    <3>1. IsSpawning(v, j)' <=> IsSpawning(v, j)
      BY <2>1, <2>5 DEF IsSpawning
    <3>2. IsSpawning(v, j) => j # i
      BY <2>2, <2>5
    <3> QED
      BY <3>1, <3>2
  <2> QED
    BY <2>4, <2>5
<1>3. \A j \in Session : j # i => session'[j] = session[j] /\ proc'[j] = proc[j]
  BY SetStateRow DEF Spawn, SpawnFails, Move, TypeOK, SessionStates
<1>4. \/ session' = session /\ proc'[i] = "booting"
      \/ session'[i].state = "failed" /\ proc' = proc
  BY SetStateRow DEF Spawn, SpawnFails, Move, TypeOK, SessionStates
<1>5. \A j \in Session : Holding(j)' => Holding(j) /\ session'[j] = session[j]
  BY <1>1, <1>2, <1>3, <1>4 DEF Holding, Working
<1>6. HolderIsLive'
  BY <1>5 DEF HolderIsLive, IsLive, LeaseInv
<1>7. HolderIsNewest' /\ IdsAreDense'
  BY <1>1, <1>3, <1>4, <1>5 DEF HolderIsNewest, IdsAreDense, LeaseInv
<1>8. UnbornIsUntouched'
  BY <1>1, <1>3, <1>4 DEF UnbornIsUntouched, LeaseInv
<1>9. SpawningIsFresh'
  BY <1>2, <1>3 DEF SpawningIsFresh, LeaseInv
<1>10. AttachNeverRefused'
  BY <1>1, <1>3, <1>4 DEF AttachNeverRefused, LeaseInv
<1>11. BeatNeedsProcess'
  BY <1>1, <1>3, <1>4 DEF BeatNeedsProcess, LeaseInv
<1> QED
  BY <1>6, <1>7, <1>8, <1>9, <1>10, <1>11 DEF LeaseInv

\* Time passes without the lease of a punctual holder expiring.
LEMMA TickKeepsLeaseInv ==
  ASSUME Punctual, TypeOK, LeaseInv, Tick PROVE LeaseInv'
<1>1. \A i \in Session : session[i] \in Row
  BY DEF TypeOK
<1>2. \A i \in Session : /\ session'[i].state = session[i].state
                         /\ session'[i].age <= session[i].age + 1
  BY <1>1, LeaseAssumption DEF Tick, Row
<1>3. \A i \in Session : session'[i].age \in Nat
  BY TypeStep, LeaseAssumption DEF Next, TypeOK, Row
<1>4. ui' = ui /\ proc' = proc /\ beat' = beat
  BY DEF Tick
<1>5. \A i \in Session : Holding(i)' <=> Holding(i)
  BY <1>4 DEF Holding, IsSpawning
<1>6. HolderIsLive'
  BY <1>1, <1>2, <1>3, <1>5, LeaseAssumption DEF HolderIsLive, IsLive, LeaseInv, Tick, Row
<1> QED
  BY <1>2, <1>4, <1>5, <1>6
  DEF LeaseInv, HolderIsNewest, IdsAreDense, UnbornIsUntouched, SpawningIsFresh, IsSpawning,
      AttachNeverRefused, BeatNeedsProcess

\* A window that sends a command, looks a session up or dies takes no lease.
LEMMA OtherUiKeepsLeaseInv ==
  ASSUME TypeOK, LeaseInv, NEW w \in Window,
         session' = session, proc' = proc, beat' = beat,
         \E row \in UiStep : /\ row.step = "acquired" => IsSpawning(w, row.id)
                            /\ ui' = [ui EXCEPT ![w] = row]
  PROVE  LeaseInv'
<1>1. \A v \in Window, j \in Session : IsSpawning(v, j)' => IsSpawning(v, j)
  BY DEF IsSpawning, TypeOK
<1>2. \A j \in Session : Holding(j)' => Holding(j)
  BY <1>1 DEF Holding
<1> QED
  BY <1>1, <1>2
  DEF LeaseInv, HolderIsLive, IsLive, HolderIsNewest, IdsAreDense, UnbornIsUntouched,
      SpawningIsFresh, AttachNeverRefused, BeatNeedsProcess

\* Every step keeps the lease invariant.
LEMMA LeaseInvStep ==
  ASSUME Punctual, TypeOK, LeaseInv, [Next]_vars PROVE LeaseInv'
<1>1. ASSUME NEW w \in Window, NEW kind \in {"none", "requeue"}, Acquire(w, kind)
      PROVE  LeaseInv'
  BY <1>1, AcquireKeepsLeaseInv
<1>2. ASSUME NEW w \in Window, NEW i \in Session, Spawn(w, i) \/ SpawnFails(w, i)
      PROVE  LeaseInv'
  BY <1>2, SpawningKeepsLeaseInv
<1>3. ASSUME NEW w \in Window, NEW i \in Session, NEW kind \in Kinds, Address(w, i, kind)
      PROVE  LeaseInv'
  <2> DEFINE row == [step |-> "addressed", id |-> i, kind |-> kind]
  <2>1. row \in UiStep /\ row.step # "acquired" /\ ui' = [ui EXCEPT ![w] = row]
    BY <1>3 DEF Address, Ui, UiStep
  <2> QED
    BY <1>3, <2>1, OtherUiKeepsLeaseInv DEF Address
<1>4. ASSUME NEW w \in Window, (\E i \in Session : Send(w, i)) \/ UiCrash(w)
      PROVE  LeaseInv'
  <2>1. Free \in UiStep /\ Free.step # "acquired" /\ ui' = [ui EXCEPT ![w] = Free]
    BY <1>4, LeaseAssumption DEF Send, UiCrash, Done, Free, UiStep
  <2> QED
    BY <1>4, <2>1, OtherUiKeepsLeaseInv DEF Send, UiCrash
<1>8. ASSUME NEW w \in Window, NEW i \in Session, Enqueue(w, i) PROVE LeaseInv'
  <2> DEFINE row == [step |-> "acquired", id |-> i, kind |-> "none"]
  <2>1. row \in UiStep /\ row.id = i /\ ui' = [ui EXCEPT ![w] = row]
    BY <1>8, LeaseAssumption DEF Enqueue, Ui, UiStep, Session
  <2> QED
    BY <1>8, <2>1, OtherUiKeepsLeaseInv DEF Enqueue
<1>5. ASSUME NEW i \in Session,
             MainThread(i) \/ BeatThread(i) \/ BootFails(i) \/ WorkerFails(i) \/ Crash(i)
      PROVE  LeaseInv'
  BY <1>5, WorkerEffect, EffectKeepsLeaseInv
<1>6. CASE Tick
  BY <1>6, TickKeepsLeaseInv
<1>7. CASE UNCHANGED vars
  BY <1>7
  DEF vars, LeaseInv, HolderIsLive, IsLive, HolderIsNewest, Holding, IdsAreDense, IsSpawning,
      UnbornIsUntouched, SpawningIsFresh, AttachNeverRefused, BeatNeedsProcess
<1> QED
  BY <1>1, <1>2, <1>3, <1>4, <1>5, <1>6, <1>7, <1>8 DEF Next, UserActs, UiGoesOn, Fault

\* While heartbeats are on time, the lease invariant holds for any number of
\* windows and sessions.
THEOREM LeaseInvariant == ASSUME Punctual PROVE Spec => []LeaseInv
<1>1. Init => LeaseInv
  BY DEF Init, LeaseInv, HolderIsLive, HolderIsNewest, Holding, IdsAreDense, IsSpawning, Free,
         UnbornIsUntouched, SpawningIsFresh, AttachNeverRefused, BeatNeedsProcess,
         Working, Session
<1>2. TypeOK /\ LeaseInv /\ [Next]_vars => LeaseInv'
  BY LeaseInvStep
<1> QED
  BY <1>1, <1>2, TypeCorrect, PTL DEF Spec

\* Under the lease invariant only one session can be held.
LEMMA OneHolder ==
  ASSUME LeaseInv, NEW i \in Session, NEW j \in Session, Holding(i), Holding(j)
  PROVE  i = j
<1>1. session[i].state # "none" /\ session[j].state # "none"
  BY DEF LeaseInv, HolderIsLive, IsLive, LiveStates
<1>2. ~ (i < j) /\ ~ (j < i)
  BY <1>1 DEF LeaseInv, HolderIsNewest
<1> QED
  BY <1>2, LeaseAssumption DEF Session

\* Never do two worker processes work on the queue at the same time, however
\* many windows start workers and however many workers die: what acquire_lease
\* is for.
THEOREM OneWorker == ASSUME Punctual PROVE Spec => []AtMostOneWorker
<1>1. LeaseInv => AtMostOneWorker
  BY OneHolder DEF AtMostOneWorker, IsWorking, Holding
<1> QED
  BY <1>1, LeaseInvariant, PTL

\* live_session answers every command with the session whose worker works.
THEOREM Addressed == ASSUME Punctual PROVE Spec => []WorkerIsAddressed
<1>1. LeaseInv => WorkerIsAddressed
  BY DEF WorkerIsAddressed, IsNewestLive, IsWorking, LeaseInv, HolderIsLive, HolderIsNewest,
         Holding, IsLive, LiveStates
<1> QED
  BY <1>1, LeaseInvariant, PTL

\* attach_lease finds the row as the window left it.
THEOREM AttachSucceeds == ASSUME Punctual PROVE Spec => []AttachNeverRefused
BY LeaseInvariant, PTL DEF LeaseInv

\* A dead lease is only ever aged: the safety half of DeadLeaseExpires, whose other
\* half is that time passes.
THEOREM DeadLeasesAge == ASSUME Punctual PROVE Spec => DeadLeaseOnlyAges
<1> DEFINE Ages(i) == /\ IsDead(i)' /\ session'[i].state = session[i].state
                      /\ session'[i].age >= session[i].age
<1>1. ASSUME TypeOK, LeaseInv, NEW i \in Session, IsDead(i), [Next]_vars PROVE Ages(i)
  <2>1. session[i].age \in Nat
    BY <1>1, LeaseAssumption DEF TypeOK, Row
  <2>2. ASSUME session'[i] = session[i], proc'[i] = proc[i],
               \A w \in Window : IsSpawning(w, i)' => IsSpawning(w, i)
        PROVE  Ages(i)
    BY <1>1, <2>1, <2>2 DEF IsDead, Holding
  <2>3. ASSUME NEW w \in Window, NEW kind, Acquire(w, kind) PROVE Ages(i)
    <3>1. PICK j \in Session : /\ IsNextId(j)
                               /\ Heartbeat(j, "starting")
                               /\ Ui(w, "acquired", j, kind)
      BY <2>3 DEF Acquire
    <3>2. i # j
      BY <1>1, <3>1 DEF IsNextId, IsDead
    <3> QED
      BY <1>1, <2>2, <2>3, <3>1, <3>2 DEF Acquire, Heartbeat, Ui, IsSpawning, TypeOK
  <2>4. ASSUME NEW w \in Window, NEW j \in Session, Spawn(w, j) \/ SpawnFails(w, j) PROVE Ages(i)
    <3>1. i # j
      BY <1>1, <2>4 DEF Spawn, SpawnFails, IsDead, Holding
    <3>2. session'[i] = session[i] /\ proc'[i] = proc[i]
      BY <1>1, <2>4, <3>1 DEF Spawn, SpawnFails, Move, SetState, TypeOK
    <3>3. \A v \in Window : IsSpawning(v, i)' => IsSpawning(v, i)
      BY <1>1, <2>4 DEF Spawn, SpawnFails, Done, Free, IsSpawning, TypeOK
    <3> QED
      BY <2>2, <3>2, <3>3
  <2>5. ASSUME NEW w \in Window,
               \/ UiCrash(w)
               \/ \E j \in Session : \/ Enqueue(w, j) \/ Send(w, j)
                                     \/ \E kind \in Kinds : Address(w, j, kind)
        PROVE  Ages(i)
    <3>1. \A v \in Window : IsSpawning(v, i)' => IsSpawning(v, i)
      <4>1. ui \in [Window -> UiStep]
        BY <1>1 DEF TypeOK
      <4>2. ASSUME NEW j \in Session, Enqueue(w, j)
            PROVE  \A v \in Window : IsSpawning(v, i)' => IsSpawning(v, i)
        BY <4>1, <4>2 DEF Enqueue, Ui, IsSpawning
      <4>3. ASSUME NEW j \in Session, NEW kind \in Kinds, Address(w, j, kind)
            PROVE  \A v \in Window : IsSpawning(v, i)' => IsSpawning(v, i)
        BY <4>1, <4>3 DEF Address, Ui, IsSpawning
      <4>4. CASE (\E j \in Session : Send(w, j)) \/ UiCrash(w)
        BY <4>1, <4>4 DEF Send, UiCrash, Done, Free, IsSpawning
      <4> QED
        BY <2>5, <4>2, <4>3, <4>4
    <3> QED
      BY <2>2, <2>5, <3>1 DEF Enqueue, Address, Send, UiCrash
  <2>6. ASSUME NEW j \in Session,
               MainThread(j) \/ BeatThread(j) \/ BootFails(j) \/ WorkerFails(j) \/ Crash(j)
        PROVE  Ages(i)
    <3>1. Effect(j)
      BY <1>1, <2>6, WorkerEffect
    <3>2. i # j
      BY <1>1, <3>1 DEF Effect, Stage, IsDead, Working, Closing
    <3> QED
      BY <2>2, <3>1, <3>2 DEF Effect, IsSpawning
  <2>7. CASE Tick
    <3>1. session[i] \in Row
      BY <1>1 DEF TypeOK
    <3>2. session'[i].state = session[i].state /\ session'[i].age >= session[i].age
      BY <2>1, <2>7, <3>1 DEF Tick, Row
    <3> QED
      BY <1>1, <2>7, <3>2 DEF Tick, IsDead, Holding, IsSpawning
  <2>8. CASE UNCHANGED vars
    BY <2>2, <2>8 DEF vars, IsSpawning
  <2> QED
    BY <1>1, <2>3, <2>4, <2>5, <2>6, <2>7, <2>8 DEF Next, UserActs, UiGoesOn, Fault
<1>2. TypeOK /\ LeaseInv /\ [Next]_vars
      => [\A i \in Session : IsDead(i) =>
            IsDead(i)' /\ session'[i].state = session[i].state
                       /\ session'[i].age >= session[i].age]_vars
  BY <1>1
<1> QED
  BY <1>2, TypeCorrect, LeaseInvariant, PTL DEF Spec, DeadLeaseOnlyAges

--------------------------------------------------------------------------------
(* The refinement. *)

\* A step of a worker's threads is a step of SingleWorker or a stutter.
LEMMA EffectImplements ==
  ASSUME LeaseInv, TypeOK, NEW i \in Session, Effect(i)
  PROVE  [Lease!Next]_<<Holders, Ended>>
<1>1. /\ proc \in [Session -> Phases]
      /\ \A j \in Session : j # i => proc'[j] = proc[j]
  BY DEF TypeOK, Effect
<1> USE DEF Holders, Ended, IsWorking, Working, Closing
<1>2. CASE proc[i] \in Working /\ proc'[i] \in Working
  BY <1>1, <1>2
<1>3. CASE proc[i] = "booting" /\ proc'[i] \in Working
  <2>1. Holders = {}
    BY <1>3, OneHolder DEF Holding
  <2>2. Holders' = {i} /\ Ended' = Ended /\ i \notin Ended
    BY <1>1, <1>3, <2>1
  <2> QED
    BY <2>1, <2>2 DEF Lease!Next, Lease!Take
<1>4. CASE proc[i] \in Working /\ proc'[i] \in Closing \cup {"gone"}
  <2>1. Holders = {i}
    BY <1>4, OneHolder DEF Holding
  <2>2. Holders' = {} /\ Ended' = Ended \cup {i}
    BY <1>1, <1>4, <2>1
  <2> QED
    BY <2>1, <2>2 DEF Lease!Next, Lease!LetGo
<1>5. CASE proc[i] = "booting" /\ proc'[i] \in Closing \cup {"gone"}
  <2>1. i \notin Holders /\ Holders' = Holders /\ Ended' = Ended \cup {i}
    BY <1>1, <1>5
  <2> QED
    BY <2>1 DEF Lease!Next, Lease!Abandon
<1>6. CASE proc[i] \in Closing /\ proc'[i] \in Closing \cup {"exited", "gone"}
  BY <1>1, <1>6
<1> HIDE DEF Holders, Ended, IsWorking, Working, Closing
<1> QED
  BY <1>2, <1>3, <1>4, <1>5, <1>6 DEF Effect, Stage

\* Every step is a step of SingleWorker or a stutter.
LEMMA StepImplements ==
  ASSUME Punctual, TypeOK, LeaseInv, [Next]_vars
  PROVE  [Lease!Next]_<<Holders, Ended>>
<1>1. ASSUME NEW i \in Session,
             MainThread(i) \/ BeatThread(i) \/ BootFails(i) \/ WorkerFails(i) \/ Crash(i)
      PROVE  [Lease!Next]_<<Holders, Ended>>
  BY <1>1, WorkerEffect, EffectImplements
<1>2. ASSUME NEW w \in Window, NEW i \in Session, Spawn(w, i)
      PROVE  Holders' = Holders /\ Ended' = Ended
  BY <1>2 DEF Spawn, Move, TypeOK, Holders, Ended, IsWorking, Working, Closing
<1>3. ASSUME proc' = proc PROVE Holders' = Holders /\ Ended' = Ended
  BY <1>3 DEF Holders, Ended, IsWorking
<1>4. ASSUME NEW w \in Window,
             \/ \E kind \in {"none", "requeue"} : Acquire(w, kind)
             \/ UiCrash(w)
             \/ \E i \in Session : \/ \E kind \in Kinds : Address(w, i, kind)
                                  \/ Enqueue(w, i) \/ Send(w, i) \/ SpawnFails(w, i)
      PROVE  proc' = proc
  BY <1>4 DEF Acquire, UiCrash, Address, Enqueue, Send, SpawnFails
<1>5. ASSUME Tick \/ UNCHANGED vars PROVE proc' = proc
  BY <1>5 DEF Tick, vars
<1> QED
  BY <1>1, <1>2, <1>3, <1>4, <1>5 DEF Next, UserActs, UiGoesOn, Fault

\* The lease implements the single worker it stands for: a session is taken
\* while no other is held, and never again once its process has let go.
THEOREM ImplementsSingleWorker == ASSUME Punctual PROVE Spec => RefinesSingleWorker
<1>1. Init => Lease!Init
  BY DEF Init, Lease!Init, Holders, Ended, IsWorking, Working, Closing
<1>2. TypeOK /\ LeaseInv /\ [Next]_vars => [Lease!Next]_<<Holders, Ended>>
  BY StepImplements
<1> QED
  BY <1>1, <1>2, TypeCorrect, LeaseInvariant, PTL DEF Spec, RefinesSingleWorker, Lease!Spec

--------------------------------------------------------------------------------
(* The order of commands. *)

HandPhases == {"handling", "exited", "gone"} \cup Closing

\* A command is in hand only while its worker handles it, or ended over it.
TakenIsInHand ==
  \A k \in DOMAIN commands :
    commands[k].status = "taken" => proc[commands[k].session] \in HandPhases

\* The strengthening that is inductive.
CommandsInv == CommandsInOrder /\ TakenIsInHand

\* Every command is a row of the table, sent to a session that may exist.
LEMMA CommandRows ==
  ASSUME TypeOK
  PROVE  /\ Len(commands) \in Nat
         /\ \A k \in DOMAIN commands : /\ k \in Nat /\ k <= Len(commands)
                                     /\ commands[k] \in Command
                                     /\ commands[k].session \in Session
<1>1. commands \in Seq(Command)
  BY DEF TypeOK
<1>2. Len(commands) \in Nat /\ DOMAIN commands = 1 .. Len(commands)
  BY <1>1
<1>3. \A k \in DOMAIN commands : commands[k] \in Command
  BY <1>1
<1>4. \A row \in Command : row.session \in Session
  BY DEF Command
<1> QED
  BY <1>2, <1>3, <1>4

\* A step that touches neither commands nor working hands keeps their order.
LEMMA KeepCommands ==
  ASSUME CommandsInv, TypeOK, commands' = commands,
         \A i \in Session : proc[i] \in HandPhases => proc'[i] \in HandPhases
  PROVE  CommandsInv'
<1>1. \A k \in DOMAIN commands : commands[k].session \in Session
  BY CommandRows
<1> QED
  BY <1>1 DEF CommandsInv, CommandsInOrder, TakenIsInHand

\* A new command is the last, so it keeps the order.
LEMMA InsertKeepsOrder ==
  ASSUME CommandsInv, TypeOK, NEW i \in Session, NEW kind \in Kinds,
         commands' = Insert(i, kind), \A j \in Session : proc[j] \in HandPhases => proc'[j] \in HandPhases
  PROVE  CommandsInv'
<1> DEFINE n == Len(commands) + 1
<1>1. /\ DOMAIN commands' = DOMAIN commands \cup {n}
      /\ commands'[n].status = "pending"
      /\ \A k \in DOMAIN commands : commands'[k] = commands[k]
  <2>1. commands'[n] = [session |-> i, kind |-> kind, status |-> "pending"]
    BY InsertRow
  <2>2. commands'[n].status = "pending"
    BY <2>1
  <2> QED
    BY <2>2, InsertRow
<1>2. \A k \in DOMAIN commands : k < n /\ commands[k].session \in Session
  BY CommandRows
<1>3. n \in Nat /\ \A k \in DOMAIN commands : k \in Nat
  BY CommandRows
<1> HIDE DEF n
<1>4. CommandsInOrder'
  BY <1>1, <1>2, <1>3 DEF CommandsInv, CommandsInOrder
<1>5. TakenIsInHand'
  BY <1>1, <1>2 DEF CommandsInv, TakenIsInHand
<1> QED
  BY <1>4, <1>5 DEF CommandsInv

\* next_command takes the first pending command of a session that has none in hand.
LEMMA TakeKeepsOrder ==
  ASSUME CommandsInv, TypeOK, NEW i \in Session, TakeCommand(i) PROVE CommandsInv'
<1>1. PICK k \in DOMAIN commands : IsNextCommand(k, i) /\ SetStatus(k, "taken")
  BY DEF TakeCommand
<1>2. /\ DOMAIN commands' = DOMAIN commands
      /\ commands'[k].status = "taken" /\ commands'[k].session = commands[k].session
      /\ \A m \in DOMAIN commands : m # k => commands'[m] = commands[m]
  BY <1>1, SetStatusRow DEF Statuses
<1>3. /\ \A m \in DOMAIN commands : m \in Nat /\ commands[m] \in Command
      /\ commands[k].session = i
  BY <1>1 DEF TypeOK, IsNextCommand, Pending, IsPending
<1>4. /\ proc[i] = "looping" /\ proc'[i] = "handling"
      /\ \A j \in Session : j # i => proc'[j] = proc[j]
  BY DEF TakeCommand, Move, TypeOK
<1>5. \A m \in DOMAIN commands :
        m < k /\ commands[m].session = i => commands[m].status = "done"
  <2>1. \A m \in DOMAIN commands : commands[m].session = i => commands[m].status # "taken"
    BY <1>4 DEF CommandsInv, TakenIsInHand, HandPhases, Closing
  <2>2. \A m \in DOMAIN commands :
          m < k /\ commands[m].session = i => commands[m].status # "pending"
    BY <1>1, <1>3 DEF IsNextCommand, Pending, IsPending
  <2> QED
    BY <1>3, <2>1, <2>2 DEF Command
<1>6. CommandsInOrder'
  <2> SUFFICES ASSUME NEW a \in DOMAIN commands, NEW b \in DOMAIN commands, a < b,
                      commands'[a].session = commands'[b].session
               PROVE  commands'[b].status = "pending" \/ commands'[a].status = "done"
    BY <1>2 DEF CommandsInOrder
  <2>1. commands[a].session = commands[b].session
    BY <1>2
  <2>2. CASE b = k
    BY <1>2, <1>3, <1>5, <2>1, <2>2
  <2>3. CASE a = k
    <3>1. commands[b].status = "pending"
      BY <1>1, <2>1, <2>3 DEF CommandsInv, CommandsInOrder, IsNextCommand, Pending, IsPending
    <3> QED
      BY <1>2, <1>3, <2>3, <3>1
  <2>4. CASE a # k /\ b # k
    BY <1>2, <2>1, <2>4 DEF CommandsInv, CommandsInOrder
  <2> QED
    BY <2>2, <2>3, <2>4
<1>7. TakenIsInHand'
  <2> SUFFICES ASSUME NEW m \in DOMAIN commands, commands'[m].status = "taken"
               PROVE  proc'[commands'[m].session] \in HandPhases
    BY <1>2 DEF TakenIsInHand
  <2>1. CASE m = k
    BY <1>2, <1>3, <1>4, <2>1 DEF HandPhases
  <2>2. CASE m # k
    BY <1>2, <1>3, <1>4, <2>2 DEF CommandsInv, TakenIsInHand, HandPhases, Closing, Command
  <2> QED
    BY <2>1, <2>2
<1> QED
  BY <1>6, <1>7 DEF CommandsInv

\* complete_command ends the command in hand.
LEMMA CompleteKeepsOrder ==
  ASSUME CommandsInv, TypeOK, NEW i \in Session, NEW kind, Complete(i, kind),
         proc[i] = "handling",
         \A j \in Session : j # i => proc'[j] = proc[j]
  PROVE  CommandsInv'
<1>1. PICK k \in DOMAIN commands : IsTaken(k, i) /\ SetStatus(k, "done")
  BY DEF Complete
<1>2. /\ DOMAIN commands' = DOMAIN commands
      /\ commands'[k].status = "done" /\ commands'[k].session = commands[k].session
      /\ \A m \in DOMAIN commands : m # k => commands'[m] = commands[m]
  BY <1>1, SetStatusRow DEF Statuses
<1>3. /\ \A m \in DOMAIN commands : m \in Nat /\ commands[m] \in Command
      /\ commands[k].session = i /\ commands[k].status = "taken"
  BY <1>1 DEF TypeOK, IsTaken
<1>4. CommandsInOrder'
  <2> SUFFICES ASSUME NEW a \in DOMAIN commands, NEW b \in DOMAIN commands, a < b,
                      commands'[a].session = commands'[b].session
               PROVE  commands'[b].status = "pending" \/ commands'[a].status = "done"
    BY <1>2 DEF CommandsInOrder
  <2>1. commands[a].session = commands[b].session
    BY <1>2
  <2>2. commands[b].status = "pending" \/ commands[a].status = "done"
    BY <2>1 DEF CommandsInv, CommandsInOrder
  <2> QED
    BY <1>2, <1>3, <2>2
<1>5. \A m \in DOMAIN commands : m # k /\ commands[m].session = i => commands[m].status # "taken"
  <2> SUFFICES ASSUME NEW m \in DOMAIN commands, m # k, commands[m].session = i
               PROVE  commands[m].status # "taken"
    OBVIOUS
  <2>1. CASE m < k
    BY <1>3, <2>1 DEF CommandsInv, CommandsInOrder
  <2>2. CASE k < m
    BY <1>3, <2>2 DEF CommandsInv, CommandsInOrder
  <2> QED
    BY <1>3, <2>1, <2>2
<1>6. TakenIsInHand'
  <2> SUFFICES ASSUME NEW m \in DOMAIN commands, commands'[m].status = "taken"
               PROVE  proc'[commands'[m].session] \in HandPhases
    BY <1>2 DEF TakenIsInHand
  <2>1. m # k /\ commands'[m] = commands[m] /\ commands[m].session # i
    BY <1>2, <1>5
  <2>2. commands[m].session \in Session
    BY <1>3 DEF Command
  <2> QED
    BY <2>1, <2>2 DEF CommandsInv, TakenIsInHand
<1> QED
  BY <1>4, <1>6 DEF CommandsInv

\* Every step keeps the commands in order.
LEMMA CommandsInvStep == ASSUME CommandsInv, TypeOK, [Next]_vars PROVE CommandsInv'
<1>1. ASSUME NEW i \in Session, NEW from, NEW to, Move(i, from, to),
             from \in HandPhases => to \in HandPhases
      PROVE  \A j \in Session : proc[j] \in HandPhases => proc'[j] \in HandPhases
  BY <1>1 DEF Move, TypeOK
<1>2. ASSUME NEW w \in Window, NEW kind \in {"none", "requeue"}, Acquire(w, kind)
      PROVE  CommandsInv'
  BY <1>2, KeepCommands DEF Acquire
<1>3. ASSUME NEW w \in Window, NEW i \in Session, Enqueue(w, i) \/ Send(w, i)
      PROVE  CommandsInv'
  <2>1. ui[w].kind \in Kinds
    BY <1>3, KindIsKnown DEF Enqueue, Send
  <2> QED
    BY <1>3, <2>1, InsertKeepsOrder DEF Enqueue, Send
<1>4. ASSUME NEW w \in Window, NEW i \in Session, Spawn(w, i) PROVE CommandsInv'
  BY <1>1, <1>4, KeepCommands DEF Spawn, HandPhases, Closing
<1>5. ASSUME NEW w \in Window,
             UiCrash(w) \/ \E i \in Session : SpawnFails(w, i) \/ \E kind \in Kinds : Address(w, i, kind)
      PROVE  CommandsInv'
  BY <1>5, KeepCommands DEF UiCrash, SpawnFails, Address
<1>6. ASSUME NEW i \in Session, TakeCommand(i) PROVE CommandsInv'
  BY <1>6, TakeKeepsOrder
<1>7. ASSUME NEW i \in Session,
             HandleSafeStop(i) \/ HandlePause(i) \/ HandleResume(i) \/ HandleRequeue(i)
      PROVE  CommandsInv'
  <2>1. proc[i] = "handling" /\ \A j \in Session : j # i => proc'[j] = proc[j]
    BY <1>7 DEF HandleSafeStop, HandlePause, HandleResume, HandleRequeue, Move, TypeOK
  <2>2. PICK kind \in Kinds : Complete(i, kind)
    BY <1>7 DEF HandleSafeStop, HandlePause, HandleResume, HandleRequeue, Kinds
  <2> QED
    BY <2>1, <2>2, CompleteKeepsOrder
<1>8. ASSUME NEW i \in Session,
             \/ Attach(i) \/ Prepared(i) \/ Claim(i) \/ Transcribed(i) \/ BeginClose(i)
             \/ CloseSession(i) \/ Exit(i) \/ BootFails(i)
      PROVE  CommandsInv'
  BY <1>1, <1>8, KeepCommands
  DEF Attach, Prepared, Claim, Transcribed, BeginClose, CloseSession, Exit, Vanish, BootFails,
      HandPhases, Closing
<1>9. ASSUME NEW i \in Session, FindNothing(i) PROVE CommandsInv'
  BY <1>1, <1>9, KeepCommands DEF FindNothing, HandPhases, Closing
<1>10. ASSUME NEW i \in Session, StayPaused(i) \/ BeatThread(i) PROVE CommandsInv'
  BY <1>10, KeepCommands DEF StayPaused, BeatThread, BeatWakes, BeatWrites
<1>11. ASSUME NEW i \in Session, WorkerFails(i) \/ Crash(i) PROVE CommandsInv'
  BY <1>11, KeepCommands DEF WorkerFails, Crash, Vanish, TypeOK, HandPhases, Closing
<1>12. CASE Tick \/ UNCHANGED vars
  BY <1>12, KeepCommands DEF Tick, vars
<1> QED
  BY <1>2, <1>3, <1>4, <1>5, <1>6, <1>7, <1>8, <1>9, <1>10, <1>11, <1>12
  DEF Next, UserActs, UiGoesOn, Fault, MainThread

\* next_command hands the commands of a session out one by one, in the order in
\* which they were sent, whatever stops or kills windows and workers.
THEOREM CommandOrder == Spec => []CommandsInOrder
<1>1. Init => CommandsInv
  BY DEF Init, CommandsInv, CommandsInOrder, TakenIsInHand
<1>2. CommandsInv => CommandsInOrder
  BY DEF CommandsInv
<1> QED
  BY <1>1, <1>2, TypeCorrect, CommandsInvStep, PTL DEF Spec
================================================================================
