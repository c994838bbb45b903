SPECIFICATION FairSpec
CONSTANTS
  c1 = c1
  c2 = c2
  Clients = {c1, c2}
  Costs = {2}
  NoNumber = NoNumber
  Documents <- MCDocuments
  MaxWait = 1
  MaxThreads = 2
  Faults = {"accept", "thread"}
INVARIANT TypeOK
INVARIANT AnswerRight
PROPERTY Answered
PROPERTY DiesOnlyRacing
PROPERTY KeepsLastGood
