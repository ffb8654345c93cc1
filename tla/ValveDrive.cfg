\* Two valves, one failed write or timer start, resets, less than one period of the counter.
CONSTANTS
  VALVE_COUNT = 2
  DRIVE_NOMINAL = 2
  DRIVE_CEILING = 3
  BREAK_BEFORE_MAKE = 1
  SENSE_DEBOUNCE = 1
  REDRIVE_LOCKOUT = 4
  SENSE_SETTLE = 1
  SENSE_POLL = 1
  CMD_QUEUE_LEN = 1
  TICK_MOD = 16
  BUILD = "sense"
  RESYNC = FALSE
  COMMANDS <- BothValves
  WRITE_ERRORS = {"lost", "landed"}
  CLOCK_WRAPS = FALSE
  SLACK = 1
  MAX_FAULTS = 1
SPECIFICATION Spec
INVARIANTS ReleasePending CeilingHeld
PROPERTIES BreakBeforeMake LockoutHeld LockoutExpires
