\* One light and one tank, short queues, one restart.
CONSTANTS
  LIGHTS <- OneLight
  TANKS <- OneTank
  LIGHT_BYTES <- OnOff
  TANK_READINGS <- SeeLevel
  STATUS_QUEUE_LEN = 1
  TANK_QUEUE_LEN = 1
  RX_QUEUE_LEN = 1
  FIRST_READ = "amount"
  MAX_RESTARTS = 1
SPECIFICATION FairRelaySpec
INVARIANTS PanelShowsTable
PROPERTIES OwnDisplaySpec RemoteDisplaySpec RemoteConverges
