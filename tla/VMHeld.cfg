SPECIFICATION VMSpec
CONSTANTS
  u1 = u1
  u2 = u2
  q1 = q1
  q2 = q2
  Users = {u1, u2}
  Pagers = {q1, q2}
  NumPages = 2
  MaxFrames = 3
  MaxBlocks = 3
  Values = {0, 1}
  Zero = 0
  MaxFaults = 2
  Scenarios <- Held
PROPERTY FaultAnswered
CHECK_DEADLOCK FALSE
