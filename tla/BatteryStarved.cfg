\* Three batteries: two that are away pass the gate to each other, the third never gets a turn.
CONSTANTS
  SLOT_COUNT = 3
  CONFIGURED <- AllConfigured
  RECONNECT = 5
  POLL_INTERVAL = 30
  OPEN_TIMEOUT = 30
  FAULTS <- NoFaults
SPECIFICATION FairBatterySpec
PROPERTIES EveryBatteryTried
