\* One scan after the other over two files: are both tracked?
SPECIFICATION Spec
CONSTANTS
  Scan = {s1}
  MaxPath = 2
  Nested = {}
  Content = {c1, c2}
  Gone = Gone
  Bad = Bad
  NoDigest = NoDigest
  MaxRow = 2
  MaxBegin = 2
  MaxChange = 2
INVARIANTS
  EachFileIsTracked
CHECK_DEADLOCK FALSE
