CONSTANTS
    Conns = {c1, c2}
    NULL = NULL
    UI_CONNECTION_TIMEOUT = 2
    Refs <- MCRefs
    Fields = 2
    Versions = 3
    MaxPreempt = 1
    Batches <- MCBatches
SPECIFICATION FairSpec
INVARIANTS TypeOK OneConnection RepliesToTheSender SensorReplyWhole StreamHandshake
PROPERTIES StreamPacketStable IdleIsReset
