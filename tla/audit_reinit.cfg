CONSTANTS
    c1 = c1
    c2 = c2
    c3 = c3
    Calls <- MCCalls
    Events <- MCEvents
    EventOf <- MCEventOf
    HasConn = TRUE
    AuditRetries = 2
    MaxFaults = 1
    MaxCrashes = 0
SPECIFICATION Spec
INVARIANT InitialisationRepeats
