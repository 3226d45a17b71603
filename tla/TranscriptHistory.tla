---------------------------- MODULE TranscriptHistory ----------------------------
(***************************************************************************)
(* What the application promises about the results of transcription: a     *)
(* result, once kept, is neither changed nor lost until the user has its   *)
(* file's history cleared; results are numbered in the order they came     *)
(* in; and the transcript shown for a file is the last one kept for it.    *)
(***************************************************************************)
EXTENDS Naturals

CONSTANTS Files, Versions, Ids

VARIABLES kept,             \* the results: id, file, version and outcome
          shown,            \* the id of the transcript shown for a file, 0 if none is
          asked             \* the files whose history the user has asked to clear

Outcomes == {"completed", "no_speech", "failed"}

Init == kept = {} /\ shown = [f \in Files |-> 0] /\ asked = {}

Finish(f, i, v, outcome) ==
  /\ \A k \in kept : k.id < i
  /\ kept' = kept \cup {[id |-> i, file |-> f, version |-> v, outcome |-> outcome]}
  /\ shown' = IF outcome = "completed" THEN [shown EXCEPT ![f] = i] ELSE shown
  /\ asked' = asked

Ask(S) ==
  /\ asked = {}
  /\ asked' = S
  /\ UNCHANGED <<kept, shown>>

Forget ==
  /\ asked # {}
  /\ kept' = {k \in kept : k.file \notin asked}
  /\ shown' = [f \in Files |-> IF f \in asked THEN 0 ELSE shown[f]]
  /\ asked' = {}

Next ==
  \/ \E f \in Files, i \in Ids, v \in Versions, outcome \in Outcomes : Finish(f, i, v, outcome)
  \/ \E S \in SUBSET Files : Ask(S)
  \/ Forget

Spec == Init /\ [][Next]_<<kept, shown, asked>>
================================================================================
