SPECIFICATION KSpec
CONSTANTS
  MaxProc = 4
  ForkPrios = {1, 2}
  Tags = {0}
  MaxSem = 2
  NumDev = 1
  MaxValue = 1
  MaxNest = 2
  Calls = {"fork", "join", "quit", "dev", "sem", "semfree"}
PROPERTY SwitchesToHead
