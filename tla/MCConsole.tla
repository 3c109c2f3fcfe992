------------------------------ MODULE MCConsole ------------------------------
(* Two projects, up to three endpoints and two alerts, from the pages that *)
(* a user loads: the projects, a project, and the tabs of an endpoint.     *)
EXTENDS AlertRules

CONSTANTS p1, p2, a1, a2

MCOtherRows == AlertRow

None == [of |-> NoProject, is |-> "none"]
Running == [of |-> p1, is |-> "active"]

Loaded == {"projects", "usage"}

\* The projects page of the only project; a project without an endpoint; an
\* endpoint at the plan's limit, where nothing has come; and the alerts.
MCInit ==
    /\ stored = [p \in Projects |-> IF p = p1 THEN 1 ELSE 0]
    /\ lastOpened = NoProject
    /\ rule = [a \in Alerts |-> IF a = a1 THEN [is |-> "live", type |-> DefaultType,
                                                config |-> Needs[DefaultType], active |-> TRUE]
                                ELSE NoRule]
    /\ \E start \in
           {<<ProjectsPage, {p1}, <<Running, None, None>>, Loaded>>,
            <<ProjectPage(p2), {p1, p2}, <<Running, None, None>>, Loaded>>,
            <<EndpointPage(p1, 2, "overview"), {p1, p2}, <<Running, Running, None>>, {}>>,
            <<EndpointPage(p1, 1, "alerts"), {p1}, <<Running, None, None>>, Loaded \cup {p1}>>} :
           /\ page = start[1]
           /\ project = [p \in Projects |-> IF p \in start[2] THEN "live" ELSE "none"]
           /\ endpoint = start[3]
           /\ DashboardInit(start[4])
    /\ AlertsInit

MCSpec == MCInit /\ [][Next]_vars /\ Fairness
=============================================================================
