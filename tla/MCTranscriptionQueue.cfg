\* Two files that share the ids of attempts, or one whose bytes or corrections change.
SPECIFICATION Spec
CONSTANTS
  MaxFile = 2
  MaxContent = 2
  MaxAttempt = 2
  MaxManual = 1
  MaxChange = 2
  MaxTotal = 2
CONSTRAINT OneSubject
INVARIANTS
  TypeOK
  PreferredIsSound
  IndexedTextIsStored
PROPERTIES
  NoSilentRepeat
  FailedStaysFailed
  KeepsHistory
