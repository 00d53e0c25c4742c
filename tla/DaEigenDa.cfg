SPECIFICATION FairSpec
CONSTANTS
    Slots = {s1}
    Batches = {0, 1, 2}
    Chains <- ChainsInstance
    Late = {1}
    Prunable = {0}
    CreationBlock = 1
    StartBlock <- LatestBlock
    RpcBatchSize = 1
    SaveBatchSize = 2
    PruningThreshold = 2
    BlobsPerBatch = 2
    U64 = 100
    InitHead = 3
    MaxHead = 4
    FaultKinds = {"crash", "process", "lag"}
    MaxFaults = 2
INVARIANTS TypeOK BatchHasBlobs CountIsWhole BatchesAccounted CatchUpComplete
PROPERTIES EveryBatchIndexed
