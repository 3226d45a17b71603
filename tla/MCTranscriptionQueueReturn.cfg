\* A source that is away for the length of a scan.
SPECIFICATION Spec
CONSTANTS
  MaxFile = 1
  MaxContent = 1
  MaxAttempt = 1
  MaxManual = 0
  MaxChange = 2
  MaxTotal = 1
PROPERTIES
  ReturnedStaysFailed
