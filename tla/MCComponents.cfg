\* Each of the six components alone.
SPECIFICATION Spec
CONSTANTS
  Model = {small, turbo}
  Bundled = {turbo}
  Artifact = {good, bad}
  Refused = {bad}
  Pinned = good
  Incomplete = Incomplete
  NoArtifact = NoArtifact
  Job = {j1, j2}
  Writer = {w1, w2}
  Folder = {f}
  NoFolder = NoFolder
  Pref = {p, q}
  DefaultPref = p
  Missing = Missing
  Invalid = Invalid
  Mistyped = Mistyped
  Newer = Newer
  MaxEdit = 2
  MaxSave = 2
  Worker = {k1, k2, k3}
  NoWorker = NoWorker
  Process = {m1, m2}
  LastVersion = 3
  NoDatabase = NoDatabase
  Torn = Torn
  MaxCommit = 2
  MaxSecond = 1
  MaxOperation = 2
  Voice = {n1}
  Day = {d}
  ExportName = {e}
  Request <- MCRequest
  ExportRun = {r1, r2}
  NoOutput = NoOutput
  Mixed = Mixed
  MaxRevision = 1
  x = x
  y = y
  z = z
  a = a
  b = b
  u = u
  v = v
  Scan = {s1}
  Path = {p1, p2}
  Content = {x, y, z}
  Audio = {a, b}
  Sender = {u, v}
  Named <- MCNamed
  Said <- MCSaid
  Omitted = Omitted
  NoContent = NoContent
  NoPath = NoPath
  MaxRef = 4
  MaxChange = 2
  MaxBegin = 4
INVARIANTS
  TypesOK
  EntryMatchesFolder
  RecordedHashIsSound
  FolderIsRegistered
  RejectionIsKept
  LoadFindsChoice
  EndedLooksEnded
  PreviewIsEarned
  SchemaHasNoGap
  MigratedIsBackedUp
  NothingIsLost
  FilesAreWhole
  CompletedIsOneSnapshot
  IndexLeadsSomewhere
  SelectedNamesRecording
  CopiesAgree
PROPERTIES
  FolderIsFinal
CHECK_DEADLOCK FALSE
