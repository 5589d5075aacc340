SPECIFICATION DiskSpec
CONSTANTS
  Requesters = {r1, r2}
  Urgent = {}
  TrackSize = 2
  Tracks = 2
  Counts = {2}
  Late = FALSE
INVARIANTS DiskTypeOK RequestInOnePlace ReadyCountsQueue TransferExact SeeksOnDisk
PROPERTIES RequestAnswered ShutdownEnds
CHECK_DEADLOCK FALSE
