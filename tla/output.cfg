SPECIFICATION BoundedSpec
CONSTANTS
    d1 = d1
    d2 = d2
    d3 = d3
    None = None
    Desc <- MCDesc
    NewLevels <- MCNewLevels
    FirstLevels <- MCFirstLevels
    LvlImmort = 2
    LvlGod = 3
    LvlGrgod = 4
    LvlCoimpl = 5
    LvlImpl = 5
    SmallBufsize = 4
    LargeBufsize = 7
    MaxPrompt = 1
    Crlf = 1
    OverflowNote = 1
    MaxSockBuf = 11
    ShortLine = 3
    WrapGrowth = 1
    SnoopMark = 1
    Reply = 2
    Notice = 2
    TextLengths = {2, 4}
    MaxConnections = 3
    MaxCommands = 3
    MaxLevelCommands = 1
INVARIANTS
    TypeOK
    QueuesSound
    LargeBuffersAccounted
    SnoopSound
PROPERTIES
    NothingQueuedIsLost
    OutputDrains
CHECK_DEADLOCK FALSE
