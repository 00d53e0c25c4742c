SPECIFICATION FairSpec
CONSTANTS
    o1 = o1
    o2 = o2
    Ops = {o1, o2}
    Ts <- TsInstance
    Life <- LifeMixed
    QueryBatch = 2
    Concurrency = 2
    FaultKinds = {"crash", "start", "fetch", "retry", "absent", "store"}
    MaxFaults = 2
INVARIANTS TypeOK SingleOwner NoStaleAnswer CompletedIsSettled NoOblivion
PROPERTIES KeepsPromise SettledUnlessDropped
