CONSTANTS
  Heartbeat = heartbeat
  temperatures = temperatures
  Loops = {heartbeat, temperatures}
  Period <- MCPeriod
  Collect <- MCCollect
  Timeout = 1
  Delay = 1
  Misses = 1
  Skews <- MCSkews
  OfflineAfter = 12
  Never = Never
  MaxLives = 2
  MaxTime = 16
SPECIFICATION Spec
INVARIANTS TypeOK AliveIsOnline DeadIsOffline ReturnAnnouncedOnce
PROPERTY EventMeansReturn
CHECK_DEADLOCK FALSE
