\* A change submitted while the one before it is being written; nothing fails.
CONSTANTS
  ZONE_COUNT = 1
  FIELDS <- OneField
  VALUES = {1, 2}
  NoValue = NoValue
  CHANGES <- OneZone
  POLL_INTERVAL = 30
  CONNECT_TIMEOUT = 15
  RETRY = 5
  AUTH_BACKOFF = 60
  SOON = 2
  RESCAN_AFTER = 3
  OVERTAKING = TRUE
  FAULTS <- NoFaults
  MAX_FAULTS = 0
SPECIFICATION Spec
INVARIANTS NothingLost
