SPECIFICATION ClockSpec
CONSTANTS
  Procs = {1, 2}
  Seconds = {1, 2}
  Second = 3
  Wrapped = 16
  WakeSteps = 2
  MaxTold = 2
  MaxLag = 3
  Late = FALSE
PROPERTIES ClockStops
CHECK_DEADLOCK FALSE
