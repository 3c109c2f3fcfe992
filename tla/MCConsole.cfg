CONSTANTS
    p1 = p1
    p2 = p2
    a1 = a1
    a2 = a2
    Projects = {p1, p2}
    NoProject = NoProject
    LastEndpoint = 3
    Limit = 2
    OtherKeys = {"alerts"}
    OtherRows <- MCOtherRows
    Alerts = {a1, a2}
    NoAlert = NoAlert
    Types = {"DELIVERY_ERROR_CODE", "DELIVERY_FAILURE_RATE"}
    MaxMoves = 3
SPECIFICATION MCSpec
INVARIANTS
    RestShowsSelection
    ConfigFitsType
    SaveKeepsActivity
PROPERTIES
    DashboardSettles
CHECK_DEADLOCK FALSE
