SPECIFICATION FairSpec
CONSTANTS
    o1 = o1
    o2 = o2
    o3 = o3
    Ops = {o1, o2, o3}
    Ts <- TsInstance
    Late = {}
    StartTimestamp = 0
    Period = 2
    RealtimeLag = 1
    DbBatchSize = 1
    QueryBatch = 2
    Concurrency = 2
    InitTime = 4
    MaxTime = 6
    FaultKinds = {"fetch"}
    MaxFaults = 1
PROPERTIES EveryIntervalCompleted
