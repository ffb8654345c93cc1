\* The links of the proxy with two faults, those of three batteries with any number;
\* the streams with two losses each.
SPECIFICATION Spec
CONSTANTS
    Clients <- MCClients
    StallTicks = 2
    MaxLinkFaults = 2
    QueueMax = 2
    Ids <- MCIds
    Answers = {17}
    Tags = 3
    Units = 3
    MissesBeforeIdRotate = 2
    StaleTicks = 3
    MaxFaults = 2
    Backlog = 3
    Turns = 2
    PacketLen = 40
    Chunk = 20
    LineIdAt = 38
    StaleAfter = 2
    Losses = 2
    PackReadings = {"low", "high", "cut"}
    EndInside = {"cut"}
    FrameLen = 6
    EndAt = 4
    Split = 3
    BufLen = 10
    PollTicks = 2
    Changes = 2
    FrameFaults = 2
    UNIT_ZONES <- MCUnitZones
    MAX_ZONES = 4
    ARRAY_LEN = 2
    SETTINGS = {0, 1}
    IDLE = 0
    UNIT_CHANGES = 2
    SLOT_COUNT = 3
    CONFIGURED <- AllConfigured
    RECONNECT = 2
    POLL_INTERVAL = 3
    OPEN_TIMEOUT = 4
    FAULTS <- PeerFaults
CHECK_DEADLOCK FALSE
INVARIANTS ReadingHasLink WantedScanRuns OneAttempt SlotTellsLink StoredIsWhole ZonesTold
PROPERTIES ClientsRecover TurnsComeRound StreamsRead
