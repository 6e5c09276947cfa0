CONSTANTS
    MaxConnections = 2
    BYTE = 8
    UIETHERNET_MAX_RECV = 6
    TAG_CMD = 7
    CMD_GET_PARAM_DESC = 4
    ParamSize <- MCParamSize
    FirstPbuf = 4
    NextPbufs = 5
    MaxParts = 2
    Streams <- Conversations
SPECIFICATION FairSpec
INVARIANTS RoomToCopy RingHoldsUnread CutsDoNotMatter
PROPERTY ReceiveReturns
CHECK_DEADLOCK FALSE
