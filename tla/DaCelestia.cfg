SPECIFICATION FairSpec
CONSTANTS
    Slots = {s1, s2}
    StartHeight = 4
    InitHead = 2
    MaxHead = 5
    FaultKinds = {"crash", "process", "scan"}
    MaxFaults = 4
INVARIANTS TypeOK NewHeightsAccounted CatchUpCovers
PROPERTIES EveryBlockIndexed
