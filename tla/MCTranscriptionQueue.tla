-------------------------- MODULE MCTranscriptionQueue --------------------------
(* Instances of TranscriptionQueue for TLC; the cfgs give the constants. *)
EXTENDS TranscriptionQueue

\* Bounds: the second file competes for work and for ids of attempts as long as no
\* source has changed and no correction is saved; changes and corrections are of the
\* first, not both at a time, and beside a second file that the user has excluded.
SecondIsAside ==
  /\ state[2] = "excluded" /\ ~ enabled[2] /\ 2 \notin clearing \cup due
  /\ rows[2].state \in {"excluded", NoRow.state} /\ ~ rows[2].enabled
  /\ \A a \in AttemptId : attempts[a].file # 2
OneSubject ==
  /\ disk[2] = 1 /\ manual[2] = 0
  /\ \/ changes = 0 /\ manual[1] = 0
     \/ SecondIsAside /\ (changes = 0 \/ manual[1] = 0)
================================================================================
