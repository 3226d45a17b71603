-------------------------- MODULE MCTranscriptionSystem --------------------------
(* Instances of TranscriptionSystem for TLC; the cfg gives the constants. *)
EXTENDS TranscriptionSystem

\* Bounds: the command is for the first session, and comes in a behaviour without
\* a fault so far or after it.  A heartbeat outlives the join of close() in behaviours
\* without either.
FirstIsCommanded ==
  /\ \A k \in DOMAIN commands : commands[k].session = 1
  /\ \A w \in Window : ui[w].kind # "none" => ui[w].id = 1
CommandOrFault ==
  commands = <<>> \/ \A i \in Session : proc[i] # "gone" /\ session[i].state # "failed"
LateBeatAlone ==
  \A i \in Session : proc[i] = "closed" /\ beat[i] # "off" =>
    commands = <<>> /\ \A j \in Session : proc[j] # "gone" /\ session[j].state # "failed"
================================================================================
