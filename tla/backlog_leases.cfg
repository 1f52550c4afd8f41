SPECIFICATION Spec
CONSTANTS
    Owners = {o1, o2}
    Tasks = {t1}
    Expirable = {t1}
    RangeSize = 1
    RangesPerRead = 2
    GetTasksBatchSize = 1
    MaxTaskBatchSize = 1
    MaxAppends = 2
    FaultKinds = {"move", "store", "start"}
    MaxFaults = 2
SYMMETRY Symmetry
INVARIANTS
    NoTaskLost
    NoTaskSkipped
    TaskIDsFresh
    OneOwnerPerLease
