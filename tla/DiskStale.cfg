SPECIFICATION DiskSpec
CONSTANTS
  Requesters = {r1}
  Urgent = {r1}
  TrackSize = 2
  Tracks = 2
  Counts = {1}
  Late = FALSE
INVARIANTS DriversStay
CHECK_DEADLOCK FALSE
