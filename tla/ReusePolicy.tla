------------------------------ MODULE ReusePolicy ------------------------------
(***************************************************************************)
(* The no-repeat decision for one file: what a new session does with it.   *)
(* "on_disk" and "stored" are the identities (SHA-256) of the bytes found  *)
(* and of the bytes recorded; the transcript facts are about the latter.   *)
(***************************************************************************)

\* Mutant: a completed transcript no longer suffices to skip a file.
MayReuseUnlessAsked(s) ==
  /\ s.source_exists
  /\ s.on_disk = s.stored
  /\ s.completed
  /\ s.explicit

\* True means skip inference.
MayReuse(s) ==
  /\ s.source_exists
  /\ s.on_disk = s.stored
  /\ s.completed
  /\ ~ s.explicit

NextAction(s) ==
  CASE MayReuse(s)           -> "skipped_complete"
    [] ~ s.source_exists     -> "missing_source"
    [] s.source_exists /\ s.on_disk # s.stored -> "stale_source_changed"
    [] OTHER                 -> "claimable"
================================================================================
