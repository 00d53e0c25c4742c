SPECIFICATION FairSpec
CONSTANTS
    o1 = o1
    o2 = o2
    Ops = {o1, o2}
    Ts <- TsInstance
    Life <- LifeWithUnknown
    QueryBatch = 2
    Concurrency = 2
    FaultKinds = {}
    MaxFaults = 2
PROPERTIES EventuallySettled
