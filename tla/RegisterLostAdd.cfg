SPECIFICATION Spec
CONSTANTS
  c1 = c1
  c2 = c2
  Clients = {c1, c2}
  NoClient = NoClient
  r1 = r1
  r2 = r2
  Rows = {r1, r2}
  i1 = i1
  Info <- MCInfo
  Empty = Empty
  EmptyTyped = FALSE
  SockBuf = 3
  MaxNumber = 1
  MaxDeletes = 0
  Faults = {}
SYMMETRY MCSymmetry
INVARIANT AddedStays
