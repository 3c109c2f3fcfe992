SPECIFICATION MCSpec
CONSTANTS
    a1 = a1  a2 = a2  m1 = m1  m2 = m2  t1 = t1  x1 = x1
    s1 = s1  s2 = s2  s3 = s3  e1 = e1  p1 = p1  p2 = p2
    Alerts = {a1, a2}
    Messages = {m1}
    Ticks = {t1}
    Tests = {x1}
    Streams = {s1, s2}
    AllEndpoints = AllEndpoints
    NoAlert = NoAlert
    Deleted = Deleted
    MaxEdits = 1
    MaxDeliveries = 1
    MessageOf <- MCMessageOf
    PageOf <- MCPageOf
    NewAlerts <- MCNewAlerts
CONSTRAINT Bounds
INVARIANTS
    StreamIsGapless
    OneAlertDoesNotStopTheOthers
