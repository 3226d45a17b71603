----------------------------- MODULE SingleWorker -----------------------------
(***************************************************************************)
(* What the lease promises the rest of the application: the database is    *)
(* worked on by one worker process at a time, a session is worked by one   *)
(* process only and is never taken up again once that process has let go.  *)
(***************************************************************************)
CONSTANT Session            \* the rows of worker_sessions

VARIABLES holder,           \* the sessions whose process is working
          spent             \* the sessions whose process has ended

Init == holder = {} /\ spent = {}

Take(i) ==
  /\ holder = {}
  /\ i \notin spent
  /\ holder' = {i}
  /\ spent' = spent

LetGo(i) ==
  /\ holder = {i}
  /\ holder' = {}
  /\ spent' = spent \cup {i}

Abandon(i) ==               \* a process that ends before it has taken the lease
  /\ i \notin holder
  /\ spent' = spent \cup {i}
  /\ holder' = holder

Next == \E i \in Session : Take(i) \/ LetGo(i) \/ Abandon(i)

Spec == Init /\ [][Next]_<<holder, spent>>
================================================================================
