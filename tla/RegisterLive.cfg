SPECIFICATION FairSpec
CONSTANTS
  c1 = c1
  c2 = c2
  Clients = {c1, c2}
  NoClient = NoClient
  r1 = r1
  Rows = {r1}
  i1 = i1
  Info <- MCInfo
  Empty = Empty
  EmptyTyped = TRUE
  SockBuf = 3
  MaxNumber = 1
  MaxDeletes = 0
  Faults = {"fork"}
\* A window whose connection was not forked for waits for ever.
CHECK_DEADLOCK FALSE
PROPERTY AllReaped
PROPERTY Answered
PROPERTY Stored
