SPECIFICATION FairSpec
CONSTANTS
    Txs = {t1}
    Slots = {s1, s2}
    Transports = {"ws", "http", "off"}
    PollingBlockRange = 1
    MaxBlockRange = 1
    RpcBlockRange = 1
    DbStart = 1
    DbEnd = 0
    CacheSize = 1
    InitHead = 2
    MaxHead = 5
    ReorgDepth = 1
    MaxReorgs = 1
    FaultKinds = {"start", "handle", "gone", "crash"}
    MaxFaults = 1
INVARIANTS TypeOK PollerCovers NoJobDropped PastCovered
PROPERTIES EveryOpIndexed
CHECK_DEADLOCK FALSE
