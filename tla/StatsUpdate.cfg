SPECIFICATION FairSpec
CONSTANTS
    Charts = {1, 2}
    Groups = {"g1", "g2"}
    Members <- MembersInstance
    DependsOn <- DependsOnInstance
    TopStatus <- TopStatusInstance
    Requirement <- RequirementInstance
    Permits = 1
    Retries = 1
    MaxData = 2
    Reupdates <- ReupdatesInstance
    MaxRequests = 1
    FaultKinds = {"update", "api", "crash"}
    MaxFaults = 1
INVARIANTS TypeOK NoCircularWait SetBackNotLost ComputedWhenIndexed
PROPERTIES NeverOlder InitialUpdatesComplete SetBackRecomputed
