SPECIFICATION Spec
CONSTANTS
    Owners = {o1}
    Tasks = {t1, t2}
    Expirable = {}
    RangeSize = 2
    RangesPerRead = 1
    GetTasksBatchSize = 2
    MaxTaskBatchSize = 1
    MaxAppends = 1
    FaultKinds = {"store", "read", "start", "full", "crash", "unload"}
    MaxFaults = 2
SYMMETRY Symmetry
INVARIANTS
    TypeOK
    NoTaskLost
    NoTaskSkipped
    AddTaskNeverFatal
    LevelsOrdered
PROPERTIES
    AckLevelNeverMovesBack
