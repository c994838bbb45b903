SPECIFICATION Spec
CONSTANTS
  c1 = c1
  c2 = c2
  Clients = {c1, c2}
  NoClient = NoClient
  r1 = r1
  Rows = {r1}
  i1 = i1
  Info <- MCInfo
  Empty = Empty
  EmptyTyped = TRUE
  SockBuf = 3
  MaxNumber = 1
  MaxDeletes = 1
  Faults = {"fork", "accept", "open", "child", "window"}
\* The parent may exit: the system may really stop.
CHECK_DEADLOCK FALSE
SYMMETRY MCSymmetry
INVARIANT TypeOK
INVARIANT InStep
PROPERTY Atomic
