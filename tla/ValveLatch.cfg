\* One valve with its sensor; the sensor task may be held up for a whole drive.
CONSTANTS
  VALVE_COUNT = 1
  DRIVE_NOMINAL = 1
  DRIVE_CEILING = 2
  BREAK_BEFORE_MAKE = 1
  SENSE_DEBOUNCE = 1
  REDRIVE_LOCKOUT = 3
  SENSE_SETTLE = 1
  SENSE_POLL = 1
  CMD_QUEUE_LEN = 1
  TICK_MOD = 10
  BUILD = "sense"
  RESYNC = FALSE
  COMMANDS <- OnlyClose
  WRITE_ERRORS <- NoErrors
  CLOCK_WRAPS = FALSE
  SLACK = 3
  MAX_FAULTS = 0
SPECIFICATION NodeSpec
INVARIANTS FailedCloseLatched
