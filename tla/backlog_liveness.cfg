SPECIFICATION FairSpec
CONSTANTS
    Owners = {o1, o2}
    Tasks = {t1}
    Expirable = {}
    RangeSize = 2
    RangesPerRead = 1
    GetTasksBatchSize = 1
    MaxTaskBatchSize = 1
    MaxAppends = 1
    FaultKinds = {"move", "crash", "unload", "store", "read", "start"}
    MaxFaults = 1
PROPERTIES
    AcceptedIsDispatched
    StaleOwnerLeaves
