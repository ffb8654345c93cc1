\* Three batteries, as in the coach, the back-off and the timeout of an attempt in seconds.
CONSTANTS
  SLOT_COUNT = 3
  CONFIGURED <- AllConfigured
  RECONNECT = 5
  POLL_INTERVAL = 6
  OPEN_TIMEOUT = 30
  FAULTS <- PeerFaults
SPECIFICATION FairBatterySpec
INVARIANTS OneAttempt SlotTellsLink
PROPERTIES TurnBehindOneAway
