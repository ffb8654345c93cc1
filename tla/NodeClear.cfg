\* The broadcast address as the peer of commands, status or thermostat commands.
SPECIFICATION Spec
CONSTANTS
  NODES = {"A", "B"}
  BUILDS <- MCBuilds
  PARTS <- MCParts
  RX_QUEUE_LEN = 2
  RESETS = 1
  PANELS <- MCPanels
  MAX_I2C_ERRORS = 2
  BOARD_RESETS = 1
CHECK_DEADLOCK FALSE
INVARIANTS ActuatingIsEncrypted
