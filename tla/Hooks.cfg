SPECIFICATION FairSpec
CONSTANTS
  Pumps = {"hotkey"}
  Poller = "process"
  Pids = {1, 2}
  MaxStarts = 2
  MaxChurn = 3
  MaxBlind = 1
INVARIANTS NothingOutlivesStop ReportsAddUp
PROPERTIES ChangesAreReported StopReturnsOncePumping
CHECK_DEADLOCK FALSE
