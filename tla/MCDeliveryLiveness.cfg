\* One request, three attempts and one tolerated stall.
CONSTANTS
    j1 = j1
    j2 = j2
    e1 = e1
    e2 = e2
    Jobs = {j1}
    Events = {e1, e2}
    Refused = {e2}
    EventOf <- SameEvent
    MaxAttempts = 3
    MaxStalledCount = 1
SPECIFICATION FairSpec
PROPERTIES
    EveryJobSettles
    ImplementsAtLeastOnce
CHECK_DEADLOCK FALSE
