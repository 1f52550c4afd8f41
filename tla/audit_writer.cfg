CONSTANTS
    c1 = c1
    c2 = c2
    c3 = c3
    Calls <- MCCalls
    Events <- MCEvents
    EventOf <- MCEventOf
    HasConn = TRUE
    AuditRetries = 2
    MaxFaults = 2
    MaxCrashes = 1
SPECIFICATION FairSpec
INVARIANTS TypeOK OkMeansStored OneDocumentPerEvent
PROPERTIES ImplementsAuditLog EveryCallEnds
