\* A subscriber who signs in with Google or GitHub is sent to the pricing page.
CONSTANTS
    MaxProjects = 2
    MaxClicks = 5
    MaxFailures = 1
SPECIFICATION Spec
PROPERTY SubscribersReachProjects
CHECK_DEADLOCK FALSE
