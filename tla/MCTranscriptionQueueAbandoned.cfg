\* A worker that dies in a second transcription.
SPECIFICATION Spec
CONSTANTS
  MaxFile = 1
  MaxContent = 1
  MaxAttempt = 2
  MaxManual = 0
  MaxChange = 0
  MaxTotal = 1
PROPERTIES
  NoneAbandoned
