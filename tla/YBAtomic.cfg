SPECIFICATION FairSpec
CONSTANTS
  c1 = c1
  c2 = c2
  Clients = {c1, c2}
  p1 = p1
  p2 = p2
  Phones = {p1, p2}
  NoPhone = NoPhone
  m1 = m1
  m2 = m2
  Texts = {m1, m2}
  NoThread = NoThread
  End = End
  Fill = Fill
  EndTyped = FALSE
  SockBuf = 1
  MaxPosts = 1
  MaxRepeats = 1
  Faults = {}
CONSTRAINT MCUsers
\* All clients may wedge, leave or hang: the system may really stop.
CHECK_DEADLOCK FALSE
INVARIANT TypeOK
PROPERTY Atomic
PROPERTY AnswerArrives
PROPERTY Delivered
