\* A failed I2C write that did reach the relay expander.
CONSTANTS
  VALVE_COUNT = 1
  DRIVE_NOMINAL = 2
  DRIVE_CEILING = 3
  BREAK_BEFORE_MAKE = 1
  SENSE_DEBOUNCE = 1
  REDRIVE_LOCKOUT = 4
  SENSE_SETTLE = 1
  SENSE_POLL = 1
  CMD_QUEUE_LEN = 1
  TICK_MOD = 16
  BUILD = "timed"
  RESYNC = FALSE
  COMMANDS <- OneValve
  WRITE_ERRORS = {"landed"}
  CLOCK_WRAPS = FALSE
  SLACK = 0
  MAX_FAULTS = 1
SPECIFICATION Spec
INVARIANTS EnergizedIsWatched
