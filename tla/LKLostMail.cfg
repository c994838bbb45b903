SPECIFICATION Spec
CONSTANTS
  c1 = c1
  c2 = c2
  Clients = {c1, c2}
  Phones = {"a", "b"}
  NoPhone = NoPhone
  Messages = {1, 2, 3}
  To <- MCTo
  From <- MCFrom
  Malformed = {2}
  SockBuf = 2
  NoThread = NoThread
  End = End
  Fill = Fill
  Faults = {}
\* All clients may wedge, leave or hang: the system may really stop.
CHECK_DEADLOCK FALSE
PROPERTY OthersMailSurvives
