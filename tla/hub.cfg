CONSTANTS
    Requests = {r1}
    Demos = {d1}
    MaxFaults = 3
SPECIFICATION FairSpec
INVARIANTS TypeOK WorkflowHasRow NoSilentGap
PROPERTY WorkflowCompletes
