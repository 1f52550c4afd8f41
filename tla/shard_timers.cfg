SPECIFICATION Spec
CONSTANTS
    Contexts = {c1, c2}
    Writes <- MCWrites
    Clock = {0}
    BlockSize = 1
    Precision = 2
    TimeShift = 4
    IOConcurrency = 1
    MaxCalls <- MCMaxCalls
    MaxFaults = 0
CHECK_DEADLOCK FALSE
PROPERTIES
    TimersDeletedWereExecuted
