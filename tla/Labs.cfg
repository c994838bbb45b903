SPECIFICATION FairSpec
CONSTANTS
  c1 = c1
  c2 = c2
  Blank = Blank
  Char = Char
  Nul = Nul
  Unknown = Unknown
\* Users may have nothing more to enter, and some clients wait for ever.
CHECK_DEADLOCK FALSE
INVARIANT TypeOK
INVARIANT InStep
INVARIANT OwnText
INVARIANT RepliesRight
INVARIANT AnswersRight
PROPERTY SignedIn
PROPERTY ThreadEnds
PROPERTY Served
PROPERTY EchoArrives
PROPERTY RepliesArrive
PROPERTY VerdictArrives
