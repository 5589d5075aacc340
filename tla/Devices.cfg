SPECIFICATION DSpec
CONSTANTS
  MaxProc = 3
  ForkPrios = {2}
  Tags = {0}
  MaxSem = 2
  NumDev = 2
  MaxValue = 2
  MaxNest = 1
  Calls = {"fork", "dev"}
  WakeTicks = 3
  QuantumTicks = 2
  MaxFrames = 1
  Aborts = TRUE
  Statuses = {"ready"}
INVARIANTS DTypeOK RunsItself NoLostWakeup
PROPERTY AnswerIsRead
