\* Every node under 120 address configurations, one reset; every board, two lost writes, one reset.
SPECIFICATION Spec
CONSTANTS
  NODES = {"A", "B"}
  BUILDS <- MCBuilds
  PARTS <- MCParts
  RX_QUEUE_LEN = 2
  RESETS = 1
  PANELS <- MCPanels
  MAX_I2C_ERRORS = 2
  BOARD_RESETS = 1
CHECK_DEADLOCK FALSE
INVARIANTS SentUnderItsKey PinsHeld
PROPERTIES FramesArrive
