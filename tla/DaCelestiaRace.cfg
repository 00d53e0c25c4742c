SPECIFICATION Spec
CONSTANTS
    Slots = {s1, s2}
    StartHeight <- LocalHead
    InitHead = 2
    MaxHead = 3
    FaultKinds = {}
    MaxFaults = 0
SYMMETRY SlotSymmetry
INVARIANTS CatchUpMissesNothing
