CONSTANTS
    Requests = {r1}
    Demos = {}
    MaxFaults = 1
SPECIFICATION FairSpec
PROPERTY EveryRequestHasTimer
