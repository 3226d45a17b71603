\* Exports that are copies of one another until one of them changes.
SPECIFICATION ChatSpec
CONSTANTS
  x = x
  y = y
  z = z
  a = a
  b = b
  u = u
  v = v
  Scan = {s1}
  Path = {p1, p2}
  Content = {x, y, z}
  Audio = {a, b}
  Sender = {u, v}
  Named <- MCNamed
  Said <- MCSaid
  Omitted = Omitted
  NoContent = NoContent
  NoPath = NoPath
  MaxRef = 4
  MaxChange = 2
  MaxBegin = 4
INVARIANTS
  NeverGuessed
CHECK_DEADLOCK FALSE
