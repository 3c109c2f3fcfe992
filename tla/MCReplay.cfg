\* A retry of e1 and a batch of e1 and of a refused e2 beside the job of e1.
CONSTANTS
    j1 = j1
    e1 = e1
    e2 = e2
    r1 = r1
    r2 = r2
    r3 = r3
    retry = retry
    batch = batch
    Jobs = {j1}
    Events = {e1, e2}
    Refused = {e2}
    EventOf <- OneJob
    MaxAttempts = 1
    MaxStalledCount = 0
    Replays = {r1, r2, r3}
    RequestOf <- RetryAndBatch
    ReplayedEvent <- TwoOfFirst
    Batches = {batch}
SPECIFICATION ReplaySpec
CONSTRAINTS
    RaceOnFirstEvent
    WorkerFailsEarlyOrWithDelivery
INVARIANTS
    StatusHasDelivery
    ReplayFindsPayload
    NumbersHaveNoGaps
    SuccessWasAnswered
    EndedHasOutcome
CHECK_DEADLOCK FALSE
