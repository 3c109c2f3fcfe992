\* Six things the user, the clock or the provider do, one failing call, two projects.
CONSTANTS
    MaxProjects = 2
    MaxClicks = 6
    MaxFailures = 1
SPECIFICATION FairSpec
INVARIANT RestIsUsable
PROPERTIES
    CompletionIsFinal
    RoutingSettles
CHECK_DEADLOCK FALSE
