SPECIFICATION KSpec
CONSTANTS
  MaxProc = 3
  ForkPrios = {1, 2}
  Tags = {0, 1}
  MaxSem = 2
  NumDev = 1
  MaxValue = 1
  MaxNest = 1
  Calls = {"fork", "join", "quit", "dev", "sem", "semfree"}
INVARIANT JoinNotMissed
PROPERTY Spec
