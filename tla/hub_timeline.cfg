CONSTANTS
    Requests = {r1}
    Demos = {}
    MaxFaults = 0
SPECIFICATION Spec
INVARIANT TimelineIsComplete
