SPECIFICATION KSpec
CONSTANTS
  MaxProc = 3
  ForkPrios = {2, 3}
  Tags = {0}
  MaxSem = 2
  NumDev = 1
  MaxValue = 1
  MaxNest = 2
  Calls = {"fork", "join", "quit", "dev", "sem"}
INVARIANTS KTypeOK RunsItself JoinFindsChild HaltsClean WaitersExact
