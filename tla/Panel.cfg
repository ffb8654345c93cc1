SPECIFICATION Spec
CONSTANTS
  LIGHTS = {1, 2}
  GRID <- MCGrid
  LIGHTS_OF <- MCLightsOf
  DIMMERS = {"dimmer"}
  GROUPS <- MCGroups
  TX_QUEUE_LEN = 2
  CONFIRM_MAX_RETRIES = 1
  MAX_INPUTS = 2
  MAX_FAULTS = 1
  SCREENS = {0, 1}
  PANEL_DEFAULT_SCREEN = 0
  IDLE_DIM_TIMEOUT = 1
  IDLE_OFF_TIMEOUT = 2
  TANKS = {"grey", "black"}
  VALVE_SCREEN = 1
  VALVE_ARM_WINDOW = 2
  VALVE_STALE = 2
  ZONES = {"front", "rear"}
  SP_MIN_F = 1
  SP_MAX_F = 3
  START_SP = 2
  MAX_TOUCHES = 2
  MAX_PAGE_FAULTS = 1
CHECK_DEADLOCK FALSE
INVARIANTS RampStops DarkScreen
PROPERTIES TapsObeyed PanelRests OpenIsDeliberate FullTankIsLit TouchesArrive PageTellsTruth
