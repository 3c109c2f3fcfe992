SPECIFICATION RetentionSpec
CONSTANTS
    u = u  v = v  d1 = d1  d2 = d2  c1 = c1  c2 = c2  e1 = e1  e2 = e2
    Users = {u, v}
    Subscriptions = {d1, d2}
    Events = {e1, e2}
    Runs = {cron}
    cron = cron
    NoPlan = NoPlan
    MaxChanges = 1
    FreeDays = 0
    CleanupDelay = 1
    MaxDay = 3
    OwnerOf <- MCOwnerOf
    CustomerOf <- MCCustomerOf
    EventOwner <- MCEventOwner
    RetentionDays <- MCRetentionDays
CONSTRAINT Bounds
INVARIANTS
    RowIsOneSubscription
PROPERTY ExpiresUnderOwnPlan
