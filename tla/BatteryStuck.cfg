\* An attempt that fails before the call that started it returns: the slot stays CONNECTING for ever.
CONSTANTS
  SLOT_COUNT = 1
  CONFIGURED <- AllConfigured
  RECONNECT = 5
  POLL_INTERVAL = 30
  OPEN_TIMEOUT = 30
  FAULTS <- RacyStack
SPECIFICATION BatterySpec
INVARIANTS SlotTellsLink
