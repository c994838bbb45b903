SPECIFICATION Spec
CONSTANTS
  MaxConns = 2
  MaxCommands = 1
  IntSize = 1
  TokenSize = 2
  TextSize = 1
  Credentials <- MCCredentials
  Leftovers <- MCLeftovers
  Faults = {"accept", "memory", "kill"}
\* Clients that wait for a byte too many wait for ever.
CHECK_DEADLOCK FALSE
INVARIANT TypeOK
INVARIANT NothingShown
PROPERTY StaysStarved
