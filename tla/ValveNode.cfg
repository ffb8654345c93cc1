\* One valve with its sensor, the counter wrapping, no failed write.
CONSTANTS
  VALVE_COUNT = 1
  DRIVE_NOMINAL = 1
  DRIVE_CEILING = 2
  BREAK_BEFORE_MAKE = 1
  SENSE_DEBOUNCE = 2
  REDRIVE_LOCKOUT = 2
  SENSE_SETTLE = 1
  SENSE_POLL = 1
  CMD_QUEUE_LEN = 1
  TICK_MOD = 5
  BUILD = "sense"
  RESYNC = FALSE
  COMMANDS <- BothActions
  WRITE_ERRORS <- NoErrors
  CLOCK_WRAPS = TRUE
  SLACK = 0
  MAX_FAULTS = 0
SPECIFICATION FairNodeSpec
INVARIANTS FailedCloseLatched
PROPERTIES SensorFollowed
