------------------------------ MODULE Dashboard ------------------------------
(***************************************************************************)
(* How the dashboard of apps/web chooses the project and the endpoint it   *)
(* shows: the URL, the selection of app-shell.tsx, the endpoint remembered *)
(* for each project in localStorage, and the lists in the query cache,     *)
(* beside the API that has the projects and endpoints.  The projects page, *)
(* the switchers of the sidebar, the command palette, the redirect page of *)
(* a project and the create-endpoint dialog all push or replace the URL.   *)
(*                                                                         *)
(* One user in one tab, signed in, with at most one mutation under way.    *)
(* Endpoints are numbered as they are created.                             *)
(***************************************************************************)
EXTENDS Integers, FiniteSets

CONSTANTS
    Projects, NoProject,
    LastEndpoint,  (* bound: endpoints 1..LastEndpoint come, in this order *)
    Limit,         (* the plan's endpointLimit                             *)
    OtherKeys,     (* entries of the cache that other modules use          *)
    OtherRows,     (* and what is in them                                  *)
    MaxMoves       (* bound: clicks, failures, expiries and other tabs     *)

ASSUME DashboardAssumption ==
    /\ NoProject \notin Projects
    /\ Projects \cap OtherKeys = {} /\ {"projects", "usage"} \cap (Projects \cup OtherKeys) = {}
    /\ LastEndpoint \in Nat /\ Limit \in Nat \ {0} /\ MaxMoves \in Nat

Endpoints == 1..LastEndpoint
QueryKeys == {"projects", "usage"} \cup Projects \cup OtherKeys
Rows == Projects \cup Endpoints \cup (Endpoints \X {"active", "paused"}) \cup OtherRows

VARIABLES
    project,    (* none, live or deleted                                   *)
    endpoint,   (* its project, and none, active, paused or deleted        *)
    cache, fetch, (* the query cache: a project's entry is its endpoints   *)
    page,       (* the page shown                                          *)
    going,      (* where router.push or router.replace is going            *)
    seen,       (* what the effects of the shell last ran for              *)
    selected,   (* selectedEndpointId of the shell                         *)
    stored,     (* localStorage: the active endpoint of each project       *)
    lastOpened, (* localStorage: the last opened project                   *)
    dialog,     (* the create-endpoint dialogs                             *)
    request,    (* the mutation under way                                  *)
    announced,  (* history: the endpoints this tab created                 *)
    moves

INSTANCE QueryCache

server == <<project, endpoint>>
queries == <<cache, fetch>>
route == <<page, going, seen, selected>>
storage == <<stored, lastOpened>>
dashboard == <<server, queries, route, storage, dialog, request, announced, moves>>

Tabs == {"overview", "alerts"}
ProjectsPage == [at |-> "projects", project |-> NoProject, endpoint |-> 0, tab |-> "overview"]
ProjectPage(p) == [at |-> "project", project |-> p, endpoint |-> 0, tab |-> "overview"]
EndpointPage(p, e, t) == [at |-> "endpoint", project |-> p, endpoint |-> e, tab |-> t]
Nowhere == [ProjectsPage EXCEPT !.at = "nowhere"]

Places == {"shell", "page", "table"}
\* shown is the endpoint the dialog created, created the createdRef of the
\* redirect page; told is who a pending create will tell: no one, the page that
\* has the dialog, or the dialog too.
Closed == [open |-> FALSE, project |-> NoProject, shown |-> 0, told |-> "none", created |-> FALSE]
Idle == [what |-> "none", at |-> "idle", project |-> NoProject, endpoint |-> 0,
         place |-> "none", awaits |-> {}]

Newest(es) == CHOOSE e \in es : \A x \in es : x <= e

-----------------------------------------------------------------------------
(* What the API has.                                                       *)

EndpointsOf(p) == {e \in Endpoints : endpoint[e].of = p /\ endpoint[e].is \in {"active", "paused"}}

ActiveEndpoints == {e \in Endpoints : endpoint[e].is = "active" /\ project[endpoint[e].of] = "live"}

View(k) ==
    IF k = "projects" THEN {p \in Projects : project[p] = "live"}
    ELSE IF k = "usage" THEN ActiveEndpoints
    ELSE {<<e, endpoint[e].is>> : e \in EndpointsOf(k)}

\* verifyProjectOwnership: 404 for the endpoints of a deleted project.
Found(k) == k \in Projects => project[k] = "live"

-----------------------------------------------------------------------------
(* What the page makes of the cache.                                       *)

OnDashboard == page.at \in {"project", "endpoint"}

Watched(pg) ==
    {"projects", "usage"}
        \cup (IF pg.at \in {"project", "endpoint"} THEN {pg.project} ELSE {})
        \cup (IF pg.tab = "alerts" THEN OtherKeys ELSE {})

Active == Watched(page)

Pending(k) == cache[k].has = "nothing" \/ (cache[k].has = "error" /\ InFlight(k))

Listed == cache["projects"].rows
Known == OnDashboard /\ page.project \in Listed
Shown == IF OnDashboard THEN cache[page.project].rows ELSE {}
List == {row[1] : row \in Shown}

AtEndpointLimit == cache["usage"].has = "data" /\ Cardinality(cache["usage"].rows) >= Limit

\* The dependencies of the shell's two effects.
DepsWithoutEndpoint ==
    IF OnDashboard
    THEN [exists |-> <<Pending("projects"), Known>>, resolve |-> <<Pending(page.project), Shown>>]
    ELSE [exists |-> <<>>, resolve |-> <<>>]
Deps == IF OnDashboard
        THEN [exists |-> <<Pending("projects"), Known>>,
              resolve |-> <<Pending(page.project), Shown, page.endpoint>>]
        ELSE [exists |-> <<>>, resolve |-> <<>>]
Unseen == [exists |-> <<>>, resolve |-> <<>>]

Due == seen # Deps

\* The redirect page renders its dialog while it has no endpoint to go to.
Rendered(w) == w = "page" => page.at = "project" /\ ~Pending(page.project) /\ List = {}
Showing(w) == dialog[w].open /\ Rendered(w)
OnTop(w) == Showing(w) /\ (w = "shell" => ~Showing("page"))

\* The user is slower than effects and redirects, and a dialog keeps the
\* page from clicks.
Move == moves < MaxMoves /\ moves' = moves + 1
Moment == Move /\ ~Due /\ going = Nowhere
Click == Moment /\ \A w \in Places : ~Showing(w)

-----------------------------------------------------------------------------
Come(k) == [has |-> "data", rows |-> View(k), pages |-> 1, stale |-> FALSE, overtaken |-> FALSE]

\* A page that was loaded, of whose queries those of came have come; and what
\* an earlier visit remembers.
DashboardInit(came) ==
    /\ project \in [Projects -> {"none", "live", "deleted"}]
    /\ endpoint \in [Endpoints -> [of : Projects \cup {NoProject},
                                   is : {"none", "active", "paused", "deleted"}]]
    /\ \A e \in Endpoints :
           /\ endpoint[e].is = "none" <=> endpoint[e].of = NoProject
           /\ endpoint[e].of # NoProject => project[endpoint[e].of] # "none"
           /\ endpoint[e].is # "none" => \A x \in 1..e : endpoint[x].is # "none"
    /\ page \in {ProjectsPage} \cup {ProjectPage(p) : p \in Projects}
               \cup {EndpointPage(p, e, t) : p \in Projects, e \in Endpoints, t \in Tabs}
    /\ came \subseteq Active \ OtherKeys
    /\ cache = [k \in QueryKeys |-> IF k \in came THEN Come(k) ELSE Nothing]
    /\ fetch = [k \in QueryKeys |-> IF k \in Active \ came THEN Sent ELSE NoFetch]
    /\ going = Nowhere /\ seen = Unseen /\ selected = 0
    /\ stored \in [Projects -> {0} \cup Endpoints]
    /\ \A p \in Projects : stored[p] # 0 => endpoint[stored[p]].of = p
    /\ lastOpened \in {NoProject} \cup {p \in Projects : project[p] # "none"}
    /\ dialog = [w \in Places |-> Closed]
    /\ request = Idle
    /\ announced = {}
    /\ moves = 0

-----------------------------------------------------------------------------
(* The effects and the router.                                             *)

\* The URL's endpoint, else the remembered one, else the newest.
Target == IF page.endpoint \in List THEN page.endpoint
          ELSE IF stored[page.project] \in List THEN stored[page.project]
          ELSE Newest(List)

\* The two effects of the shell, after those of the redirect page; of two
\* navigations the later counts.
Effects ==
    LET leaves == seen.exists # Deps.exists /\ ~Pending("projects") /\ ~Known
        resolves == OnDashboard /\ seen.resolve # Deps.resolve /\ ~Pending(page.project)
        chosen == IF List = {} THEN 0 ELSE Target
    IN
    /\ Due
    /\ seen' = Deps
    /\ selected' = IF ~OnDashboard THEN 0 ELSE IF resolves THEN chosen ELSE selected
    /\ stored' = IF resolves THEN [stored EXCEPT ![page.project] = chosen] ELSE stored
    /\ going' = IF resolves /\ chosen \notin {0, page.endpoint}
                THEN EndpointPage(page.project, chosen, "overview")
                ELSE IF OnDashboard /\ leaves THEN ProjectsPage ELSE going
    /\ dialog' = IF ~Rendered("page") THEN [dialog EXCEPT !["page"].shown = 0,
                                   !["page"].told = IF @ = "dialog" THEN "page" ELSE @]
                 ELSE IF resolves /\ page.at = "project" THEN [dialog EXCEPT !["page"].open = TRUE]
                 ELSE dialog
    /\ UNCHANGED <<server, queries, page, lastOpened, request, announced, moves>>

\* Components that mount use the entries ks.
Mounting(ks) == [k \in QueryKeys |-> IF k \in ks THEN Subscribed(k)[k] ELSE fetch[k]]

SameShell == OnDashboard /\ going.project = page.project

\* The navigation commits.  The shell is mounted again for another project.
Land ==
    LET survives(w) == CASE w = "shell" -> SameShell
                         [] w = "page" -> SameShell /\ page.at = "project" /\ going.at = "project"
                         [] w = "table" -> page = ProjectsPage /\ going = ProjectsPage
    IN
    /\ going # Nowhere
    /\ page' = going
    /\ going' = Nowhere
    /\ seen' = IF SameShell THEN seen ELSE Unseen
    /\ selected' = IF SameShell THEN selected ELSE 0
    /\ dialog' = [w \in Places |-> IF survives(w) THEN dialog[w] ELSE Closed]
    /\ fetch' = IF going = page THEN fetch
                ELSE Mounting(IF SameShell /\ going.at = "endpoint" /\ going.tab = "overview"
                              THEN {} ELSE Watched(going) \ {"usage"})
    /\ UNCHANGED <<server, cache, storage, request, announced, moves>>

-----------------------------------------------------------------------------
(* Where the user goes.                                                    *)

Go(dest) ==
    /\ going' = dest
    /\ UNCHANGED <<server, queries, page, seen, dialog, request, announced>>

\* getProjectDashboardHref.
DashboardHref(p) ==
    IF stored[p] = 0 THEN ProjectPage(p) ELSE EndpointPage(p, stored[p], "overview")

\* A row of the table, or the card of the last opened project.
openProjectDashboard(p) ==
    /\ page.at = "projects"
    /\ p \in Listed \cup ({lastOpened} \ {NoProject})
    /\ Click /\ Go(DashboardHref(p))
    /\ lastOpened' = p
    /\ UNCHANGED <<selected, stored>>

\* A project without a remembered endpoint gets one of the current project.
setSelectedProjectId(p) ==
    /\ OnDashboard /\ p \in Listed
    /\ Click
    /\ Go(IF stored[p] # 0 \/ List = {} THEN DashboardHref(p)
          ELSE EndpointPage(p, Newest(List), "overview"))
    /\ UNCHANGED <<selected, storage>>

handleSelectEndpoint(e) ==
    /\ Known /\ e \in List
    /\ Click /\ Go(EndpointPage(page.project, e, "overview"))
    /\ selected' = e
    /\ stored' = [stored EXCEPT ![page.project] = e]
    /\ UNCHANGED lastOpened

\* The links to /projects and to /dashboard/p; the palette has them as well,
\* and opens over a dialog.
FollowLink(p) ==
    /\ Moment
    /\ p = NoProject \/ p \in Listed
    /\ Go(IF p = NoProject THEN ProjectsPage ELSE ProjectPage(p))
    /\ UNCHANGED <<selected, storage>>

OpenTab(t) ==
    /\ Known /\ selected # 0
    /\ Click /\ Go(EndpointPage(page.project, selected, t))
    /\ UNCHANGED <<selected, storage>>

-----------------------------------------------------------------------------
(* The create-endpoint dialogs.                                            *)

ProjectOf(w) == IF w = "table" THEN dialog[w].project
                ELSE IF w = "shell" /\ ~Known THEN NoProject ELSE page.project

OpenDialog(w, p) ==
    /\ Click
    /\ CASE w = "table" -> page.at = "projects" /\ p \in Listed
         [] w = "shell" -> Known /\ p = page.project
         [] w = "page" -> page.at = "project" /\ p = page.project /\ Rendered("page")
    /\ dialog' = [dialog EXCEPT ![w].open = TRUE, ![w].project = p]
    /\ UNCHANGED <<server, queries, route, storage, request, announced>>

\* Cancel, Done or Escape: a create under way will be shown by the next opening,
\* and the redirect page leaves, but for an endpoint it created.
CloseDialog(w) ==
    /\ Move /\ ~Due /\ OnTop(w)
    /\ dialog' = [dialog EXCEPT ![w] = [Closed EXCEPT !.told = dialog[w].told]]
    /\ going' = IF w = "page" /\ ~dialog[w].created THEN ProjectsPage ELSE going
    /\ UNCHANGED <<server, queries, page, seen, selected, storage, request, announced>>

CreateAnother(w) ==
    /\ Move /\ ~Due /\ OnTop(w) /\ dialog[w].shown # 0 /\ ~AtEndpointLimit
    /\ dialog' = [dialog EXCEPT ![w].shown = 0]
    /\ UNCHANGED <<server, queries, route, storage, request, announced>>

Send(what, p, e, w) ==
    /\ request.what = "none"
    /\ request' = [what |-> what, at |-> "sent", project |-> p, endpoint |-> e,
                   place |-> w, awaits |-> {}]
    /\ UNCHANGED <<server, queries, route, storage, announced>>

SubmitEndpoint(w) ==
    /\ Move /\ ~Due /\ OnTop(w)
    /\ ~AtEndpointLimit /\ dialog[w].shown = 0 /\ ProjectOf(w) # NoProject
    /\ Send("create endpoint", ProjectOf(w), 0, w)
    /\ dialog' = [dialog EXCEPT ![w].told = "dialog"]

-----------------------------------------------------------------------------
(* The other mutations.                                                    *)

SubmitProject(p) ==
    /\ Click /\ page.at = "projects"
    /\ project[p] = "none"
    /\ Send("create project", p, 0, "table")
    /\ UNCHANGED dialog

\* ConfirmDeleteDialog of the table, or of the sidebar.
ConfirmDelete(p) ==
    /\ Click /\ p \in Listed
    /\ page.at = "projects" \/ p = page.project
    /\ Send("delete project", p, 0, IF page.at = "projects" THEN "table" ELSE "shell")
    /\ UNCHANGED dialog

\* The header of the overview: the status that its detail shows may be old.
handleToggleStatus(status) ==
    /\ Click /\ page.at = "endpoint" /\ page.tab = "overview" /\ Known
    /\ Send(status, page.project, page.endpoint, "page")
    /\ UNCHANGED dialog

-----------------------------------------------------------------------------
(* The API.                                                                *)

Served == request' = [request EXCEPT !.at = "served"]

CreateProject ==
    /\ request.what = "create project"
    /\ project[request.project] = "none"
    /\ project' = [project EXCEPT ![request.project] = "live"]
    /\ Served
    /\ UNCHANGED endpoint

SoftDeleteProject ==
    /\ request.what = "delete project"
    /\ project[request.project] = "live"
    /\ project' = [project EXCEPT ![request.project] = "deleted"]
    /\ Served
    /\ UNCHANGED endpoint

CreateEndpoint(e) ==
    /\ request.what = "create endpoint"
    /\ project[request.project] = "live"
    /\ Cardinality(ActiveEndpoints) < Limit
    /\ endpoint[e].is = "none" /\ \A x \in 1..(e - 1) : endpoint[x].is # "none"
    /\ \E status \in {"active", "paused"} :
           endpoint' = [endpoint EXCEPT ![e] = [of |-> request.project, is |-> status]]
    /\ request' = [request EXCEPT !.at = "served", !.endpoint = e]
    /\ UNCHANGED project

ToggleStatus ==
    /\ request.what \in {"active", "paused"}
    /\ project[request.project] = "live" /\ request.endpoint \in EndpointsOf(request.project)
    /\ endpoint' = [endpoint EXCEPT ![request.endpoint].is = request.what]
    /\ Served
    /\ UNCHANGED project

Serve ==
    /\ request.at = "sent"
    /\ CreateProject \/ SoftDeleteProject \/ ToggleStatus \/ \E e \in Endpoints : CreateEndpoint(e)
    /\ UNCHANGED <<queries, route, storage, dialog, announced, moves>>

Done == /\ request' = Idle
        /\ dialog' = [w \in Places |-> [dialog[w] EXCEPT !.told = "none"]]
        /\ UNCHANGED <<server, queries, route, storage, announced>>

\* 400 or 404.
Refuse ==
    /\ request.at = "sent"
    /\ \/ /\ request.what \in {"create project", "delete project"}
          /\ project[request.project] = "deleted"
       \/ /\ request.what = "create endpoint"
          /\ \/ project[request.project] # "live"
             \/ Cardinality(ActiveEndpoints) >= Limit
             \/ \A e \in Endpoints : endpoint[e].is # "none"
       \/ /\ request.what \in {"active", "paused"}
          /\ project[request.project] # "live" \/ request.endpoint \notin EndpointsOf(request.project)
    /\ Done
    /\ UNCHANGED moves

RequestFails == Move /\ request.at \in {"sent", "served"} /\ Done

\* Another tab.
Elsewhere ==
    /\ Move
    /\ \/ \E p \in Projects : /\ project[p] = "live"
                              /\ project' = [project EXCEPT ![p] = "deleted"]
                              /\ UNCHANGED endpoint
       \/ \E e \in Endpoints : /\ endpoint[e].is \in {"active", "paused"}
                               /\ endpoint' = [endpoint EXCEPT ![e].is = "deleted"]
                               /\ UNCHANGED project
    /\ UNCHANGED <<queries, route, storage, dialog, request, announced>>

-----------------------------------------------------------------------------
(* The answers: what the hook does, and, when the entries it invalidated   *)
(* are there again, what the component does, mounted or not.               *)

Invalidated ==
    IF request.what = "create endpoint" THEN Projects \cup {"usage"}
    ELSE IF request.what \in {"active", "paused"} THEN {request.project}
    ELSE {"projects"}

AnsweredAndAwaitsAll ==
    /\ request.at = "served"
    /\ Invalidate(Invalidated, Active, {})
    /\ request' = [request EXCEPT !.at = "waiting", !.awaits = Invalidated]
    /\ UNCHANGED <<server, route, storage, dialog, announced, moves>>
Answered ==
    /\ request.at = "served"
    /\ Invalidate(Invalidated, Active, {})
    /\ request' = [request EXCEPT !.at = "waiting", !.awaits = Invalidated \cap Active]
    /\ UNCHANGED <<server, route, storage, dialog, announced, moves>>

CreatedProjectOpens ==
    /\ request.what = "create project"
    /\ lastOpened' = request.project
    /\ going' = DashboardHref(request.project)
    /\ UNCHANGED <<stored, dialog, announced>>

DeletedProjectCloses ==
    /\ request.what = "delete project"
    /\ going' = IF request.place = "shell" THEN ProjectsPage ELSE going
    /\ UNCHANGED <<storage, dialog, announced>>

CreatedEndpointShows ==
    LET w == request.place IN
    /\ request.what = "create endpoint"
    /\ stored' = [stored EXCEPT ![request.project] = request.endpoint]
    /\ announced' = announced \cup {request.endpoint}
    /\ dialog' = [dialog EXCEPT ![w].told = "none",
                                 ![w].created = @ \/ dialog[w].told # "none",
                                 ![w].shown = IF dialog[w].told = "dialog" THEN request.endpoint ELSE @]
    /\ UNCHANGED <<lastOpened, going>>

StatusShows ==
    /\ request.what \in {"active", "paused"}
    /\ UNCHANGED <<storage, going, dialog, announced>>

Continue ==
    /\ request.at = "waiting" /\ request.awaits = {}
    /\ CreatedProjectOpens \/ DeletedProjectCloses \/ CreatedEndpointShows \/ StatusShows
    /\ request' = Idle
    /\ UNCHANGED <<server, queries, page, seen, selected, moves>>

-----------------------------------------------------------------------------
(* The queries.                                                            *)

Settles(k) == request' = [request EXCEPT !.awaits = @ \ {k}]

ServerReads(k) ==
    /\ k \notin OtherKeys /\ Found(k)
    /\ Read(k, View(k), 1)
    /\ UNCHANGED <<server, route, storage, dialog, request, announced, moves>>

ListArrives(k) ==
    /\ Arrive(k)
    /\ Settles(k)
    /\ UNCHANGED <<server, route, storage, dialog, announced, moves>>

NotFound(k) ==
    /\ ~Found(k)
    /\ fetch[k].at = "sent"
    /\ Fails(k)
    /\ Settles(k)
    /\ UNCHANGED <<server, route, storage, dialog, announced, moves>>

FetchFails(k) ==
    /\ Move /\ Fails(k)
    /\ Settles(k)
    /\ UNCHANGED <<server, route, storage, dialog, announced>>

TimePasses(k) ==
    /\ Move /\ Age(k)
    /\ UNCHANGED <<server, route, storage, dialog, request, announced>>

-----------------------------------------------------------------------------
\* What the page gives to click, or a dialog of this module.
Clicks ==
    \/ \E p \in Projects : \/ openProjectDashboard(p) \/ setSelectedProjectId(p)
                           \/ SubmitProject(p) \/ ConfirmDelete(p)
                           \/ \E w \in Places : OpenDialog(w, p)
    \/ \E e \in Endpoints : handleSelectEndpoint(e)
    \/ \E t \in Tabs : OpenTab(t)
    \/ \E w \in Places : CloseDialog(w) \/ CreateAnother(w) \/ SubmitEndpoint(w)
    \/ \E status \in {"active", "paused"} : handleToggleStatus(status)

Queries == \E k \in QueryKeys :
    ServerReads(k) \/ ListArrives(k) \/ NotFound(k) \/ FetchFails(k) \/ TimePasses(k)

OtherSteps ==
    \/ \E p \in Projects \cup {NoProject} : FollowLink(p)
    \/ Effects \/ Land
    \/ Serve \/ Refuse \/ RequestFails \/ Elsewhere \/ Answered \/ Continue
    \/ Queries

\* What goes on by itself.
Progress ==
    \/ Effects \/ Land \/ Serve \/ Refuse \/ Answered \/ Continue
    \/ \E k \in QueryKeys : ServerReads(k) \/ ListArrives(k) \/ NotFound(k)

-----------------------------------------------------------------------------
Resting ==
    /\ going = Nowhere /\ ~Due
    /\ request.what = "none"
    /\ \A k \in Active : ~InFlight(k)

(* At rest the page, the switcher and what is remembered agree: a project  *)
(* that the list shows, the URL's endpoint selected and remembered, unless *)
(* one this tab has just created is remembered, or no endpoint at all; and *)
(* a project is never remembered with the endpoint of another.             *)
(* app-shell.tsx and the redirect page each resolve this on their own.     *)
RestShowsSelection ==
    /\ \A p \in Projects : stored[p] # 0 => endpoint[stored[p]].of = p
    /\ Resting /\ OnDashboard =>
           /\ IF List = {} THEN selected = 0
              ELSE /\ page.at = "endpoint" /\ page.endpoint = selected /\ selected \in List
                   /\ stored[page.project] \in {selected} \cup announced

(* Whatever the user clicked, the redirects end: two effects that replace  *)
(* the URL, and handlers that go on after an await, do not chase each      *)
(* other (app-shell.tsx:140-215, the redirect page:29-54).                 *)
DashboardSettles == []<>Resting
=============================================================================
