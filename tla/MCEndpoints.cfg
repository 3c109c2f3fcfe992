\* Two API requests and a webhook request at a time, three endpoints, plans for
\* none, one and two.
CONSTANTS
    c1 = c1
    c2 = c2
    e1 = e1
    e2 = e2
    e3 = e3
    d1 = d1
    p1 = p1
    NoRow = NoRow
    Idle = Idle
    Projects = {p1}
    Ids = {e1, e2, e3}
    Calls = {c1, c2}
    Deliveries = {d1}
    Limits = {1, 2}
    Modes = {"NONE", "STRICT"}
SPECIFICATION Spec
SYMMETRY MCSymmetry
CONSTRAINT Bounds
INVARIANTS
    OverrunIsBounded
    DeletedEndpointIsSilent
PROPERTY SecretIsKept
CHECK_DEADLOCK FALSE
