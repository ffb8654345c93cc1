\* Three changes, two zones, every fault.
CONSTANTS
  ZONE_COUNT = 2
  FIELDS <- TwoFields
  VALUES = {1, 2}
  NoValue = NoValue
  CHANGES <- TwoZones
  POLL_INTERVAL = 4
  CONNECT_TIMEOUT = 3
  RETRY = 2
  AUTH_BACKOFF = 5
  SOON = 1
  RESCAN_AFTER = 2
  OVERTAKING = FALSE
  FAULTS <- AllFaults
  MAX_FAULTS = 2
SPECIFICATION FairSpec
INVARIANTS NothingLost
PROPERTIES CycleEndsReleased ChangesArrive StatusKeepsComing
