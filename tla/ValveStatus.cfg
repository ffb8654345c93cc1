\* Two valves of a node without sense circuits, and the status resend.
CONSTANTS
  VALVE_COUNT = 2
  DRIVE_NOMINAL = 1
  DRIVE_CEILING = 2
  BREAK_BEFORE_MAKE = 1
  SENSE_DEBOUNCE = 1
  REDRIVE_LOCKOUT = 2
  SENSE_SETTLE = 1
  SENSE_POLL = 1
  CMD_QUEUE_LEN = 1
  TICK_MOD = 4
  BUILD = "timed"
  RESYNC = TRUE
  COMMANDS <- OpenEach
  WRITE_ERRORS = {"lost"}
  CLOCK_WRAPS = TRUE
  SLACK = 0
  MAX_FAULTS = 1
SPECIFICATION FairSpec
PROPERTIES StatusRepaired
