\* A line without a reading, drawn.
CONSTANTS
  PACKS = {"pack1", "pack2"}
  ZONES = {"zone1", "zone2"}
  PACK_READINGS <- MCPackReadings
  POLL = 1
  HVAC_EVERY = 1
  WD_WINDOW = 2
  SHORE_STALE = 2
SPECIFICATION FairTelemetrySpec
CHECK_DEADLOCK FALSE
INVARIANT NoZeroReading
