\* The tick counter wraps: the lockout of a valve outlives its 3000 ms.
CONSTANTS
  VALVE_COUNT = 1
  DRIVE_NOMINAL = 2
  DRIVE_CEILING = 3
  BREAK_BEFORE_MAKE = 1
  SENSE_DEBOUNCE = 1
  REDRIVE_LOCKOUT = 4
  SENSE_SETTLE = 1
  SENSE_POLL = 1
  CMD_QUEUE_LEN = 1
  TICK_MOD = 16
  BUILD = "timed"
  RESYNC = FALSE
  COMMANDS <- OneValve
  WRITE_ERRORS <- NoErrors
  CLOCK_WRAPS = TRUE
  SLACK = 0
  MAX_FAULTS = 0
SPECIFICATION Spec
PROPERTIES LockoutExpires
