SPECIFICATION FairSpec
CONSTANTS
    o1 = o1
    Ops = {o1}
    Ts <- TsInstance
    Late = {}
    Life <- LifeInstance
    StartTimestamp = 0
    Period = 3
    RealtimeLag = 1
    DbBatchSize = 2
    QueryBatch = 2
    Concurrency = 1
    InitTime = 4
    MaxTime = 8
    IntervalFaultKinds = {"crash", "start", "fetch", "insert", "status", "complete"}
    OperationFaultKinds = {"crash", "start", "fetch"}
    MaxFaults = 1
INVARIANTS EveryOperationFollowed
PROPERTIES HistorySettled
CHECK_DEADLOCK FALSE
