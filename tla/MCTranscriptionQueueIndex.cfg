\* A correction, and then a transcription of the same file.
SPECIFICATION Spec
CONSTANTS
  MaxFile = 1
  MaxContent = 1
  MaxAttempt = 2
  MaxManual = 1
  MaxChange = 0
  MaxTotal = 1
INVARIANTS
  IndexMatchesShown
