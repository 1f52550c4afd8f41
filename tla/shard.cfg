SPECIFICATION Spec
CONSTANTS
    Contexts = {c1, c2}
    Writes <- MCWrites
    Clock = {0, 4}
    BlockSize = 1
    Precision = 2
    TimeShift = 1
    IOConcurrency = 1
    MaxCalls <- MCMaxCalls
    MaxFaults = 1
SYMMETRY Symmetry
CHECK_DEADLOCK FALSE
INVARIANTS
    TypeOK
    NoWriteBelowWatermark
    RowCoversTasks
    RenewalFencesNoOwnWrite
    DrainWaitsForStore
    AcquiringIsAttended
    StoppedHasNoEngine
    TaskIDsUnique
PROPERTIES
    DeletedWereExecuted
