\* Two scans side by side over two paths, one of them in a nested folder.
SPECIFICATION Spec
CONSTANTS
  Scan = {s1, s2}
  MaxPath = 2
  Nested = {2}
  Content = {c1, c2}
  Gone = Gone
  Bad = Bad
  NoDigest = NoDigest
  MaxRow = 2
  MaxBegin = 3
  MaxChange = 2
SYMMETRY Symmetry
INVARIANTS
  TypeOK
  OneOwner
  VersionsAgree
  ScanFindsAll
  AbsentIsMarked
PROPERTIES
  VersionDecidesState
  KeepsIdentity
CHECK_DEADLOCK FALSE
