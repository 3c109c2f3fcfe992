\* Two requests with the same event, two attempts each, one tolerated stall.
CONSTANTS
    j1 = j1
    j2 = j2
    e1 = e1
    e2 = e2
    Jobs = {j1, j2}
    Events = {e1, e2}
    Refused = {e2}
    EventOf <- SameEvent
    MaxAttempts = 2
    MaxStalledCount = 1
SPECIFICATION Spec
SYMMETRY JobSymmetry
CONSTRAINT WithinFailureBudget
INVARIANTS
    UsageAtMostOnce
    PayloadBeforeRow
    CompletedMeansDelivered
    AllCompletedMeansDelivered
    StatusIsBacked
    AlertsAreBacked
    RedeliveryNeedsCrash
CHECK_DEADLOCK FALSE
