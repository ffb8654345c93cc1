\* A CLOSE abandoned because its relay write failed.
CONSTANTS
  VALVE_COUNT = 1
  DRIVE_NOMINAL = 1
  DRIVE_CEILING = 2
  BREAK_BEFORE_MAKE = 1
  SENSE_DEBOUNCE = 2
  REDRIVE_LOCKOUT = 2
  SENSE_SETTLE = 1
  SENSE_POLL = 1
  CMD_QUEUE_LEN = 1
  TICK_MOD = 12
  BUILD = "sense"
  RESYNC = FALSE
  COMMANDS <- OnlyClose
  WRITE_ERRORS = {"lost"}
  CLOCK_WRAPS = FALSE
  SLACK = 0
  MAX_FAULTS = 1
SPECIFICATION NodeSpec
INVARIANTS FailedCloseLatched
