--------------------------- MODULE ConsoleProofs ---------------------------
(***************************************************************************)
(* Proofs about Dashboard and AlertRules, for any projects, endpoints,     *)
(* alerts and limits: where the dashboard comes to rest it shows what is   *)
(* selected and remembered, and saving an alert keeps what the form does   *)
(* not show.                                                               *)
(***************************************************************************)
EXTENDS AlertRules, WellFoundedInduction, TLAPS

-----------------------------------------------------------------------------
(* The invariant of the dashboard.                                          *)

Pages == {ProjectsPage} \cup {ProjectPage(p) : p \in Projects}
         \cup {EndpointPage(p, e, t) : p \in Projects, e \in Endpoints, t \in Tabs}

Requests ==
    [what : {"none", "create project", "delete project", "create endpoint", "active", "paused"},
     at : {"idle", "sent", "served", "waiting"}, project : Projects \cup {NoProject},
     endpoint : {0} \cup Endpoints, place : {"none"} \cup Places, awaits : SUBSET QueryKeys]

Dialogs == [Places -> [open : BOOLEAN, project : Projects \cup {NoProject}, shown : {0} \cup Endpoints,
                       told : {"none", "page", "dialog"}, created : BOOLEAN]]

ServerTypes ==
    /\ project \in [Projects -> {"none", "live", "deleted"}]
    /\ endpoint \in [Endpoints -> [of : Projects \cup {NoProject},
                                   is : {"none", "active", "paused", "deleted"}]]
    /\ request \in Requests
    /\ request.what # "none" => request.project \in Projects

PageTypes ==
    /\ page \in Pages
    /\ going \in Pages \cup {Nowhere}
    /\ selected \in {0} \cup Endpoints
    /\ stored \in [Projects -> {0} \cup Endpoints]
    /\ lastOpened \in Projects \cup {NoProject}
    /\ dialog \in Dialogs

\* An endpoint has a project that was created; and a project whose creation has
\* still to be told has no endpoint.
OwnersInv ==
    /\ \A e \in Endpoints : endpoint[e].is = "none" <=> endpoint[e].of = NoProject
    /\ \A e \in Endpoints : endpoint[e].of # NoProject => project[endpoint[e].of] # "none"
    /\ request.what = "create project" /\ request.at \in {"served", "waiting"} =>
           \A e \in Endpoints : endpoint[e].of # request.project
    /\ request.what = "create endpoint" /\ request.at \in {"served", "waiting"} =>
           request.endpoint \in Endpoints /\ endpoint[request.endpoint].of = request.project

\* Rows of endpoints, of p.
OfProject(rows, p) ==
    \A row \in rows : row \in Endpoints \X {"active", "paused"} /\ endpoint[row[1]].of = p

QueriesInv ==
    /\ CacheTypeOK({1})
    /\ \A k \in QueryKeys : cache[k].has = "nothing" => cache[k].stale
    /\ \A p \in Projects : OfProject(cache[p].rows, p) /\ OfProject(fetch[p].rows, p)

\* A key the page uses has been asked for.
AskedFor(k) == cache[k].has = "nothing" => InFlight(k)

StoredInv == \A p \in Projects : stored[p] # 0 => endpoint[stored[p]].of = p

\* Where the page will be: no effect and no answer sends it elsewhere meanwhile.
Destination == IF going = Nowhere THEN page ELSE going

\* What the effects made of the endpoints rows, at the URL's endpoint x: it is
\* selected and remembered, or the page is on its way to another.
Resolved(rows, x) ==
    IF rows = {} THEN selected = 0
    ELSE \/ /\ \E row \in rows : row[1] = x
            /\ selected = x
            /\ stored[page.project] \in {x} \cup announced
         \/ Destination.project # page.project \/ Destination.endpoint # x

\* The effects ran for some endpoints of the project, which may be other than it
\* has now, or shows, when they are due again.
SelectionInv ==
    OnDashboard =>
        \/ seen.resolve = <<>>
        \/ \E b \in BOOLEAN, rows \in SUBSET Rows, x \in {0} \cup Endpoints :
               /\ seen.resolve = <<b, rows, x>>
               /\ OfProject(rows, page.project)
               /\ ~b => Resolved(rows, x)

DashboardInv ==
    /\ ServerTypes /\ PageTypes /\ OwnersInv /\ QueriesInv /\ StoredInv
    /\ OnDashboard => AskedFor(page.project)
    /\ SelectionInv

-----------------------------------------------------------------------------
(* The invariant of the alerts.                                             *)

AlertTypes ==
    /\ rule \in [Alerts -> [is : {"none", "live", "deleted"}, type : Types, config : SUBSET Fields,
                            active : BOOLEAN]]
    /\ form \in [open : BOOLEAN, alert : Alerts \cup {NoAlert}, config : SUBSET Fields,
                 active : BOOLEAN, current : BOOLEAN]
    /\ calls \in [Slots -> [at : {"idle", "sent", "served", "waiting", "done"},
                            alert : Alerts \cup {NoAlert}, type : Types, config : SUBSET Fields,
                            active : BOOLEAN, current : BOOLEAN]]
    /\ lost \in BOOLEAN
    /\ cache["alerts"].rows \subseteq AlertRow /\ fetch["alerts"].rows \subseteq AlertRow

\* A call wrote to the rules and has invalidated nothing yet.
Unsettled == \E s \in Slots : calls[s].at = "served"

ShowsActivity(rows) ==
    \A row \in rows : row.id \in Live => row.active = rule[row.id].active

\* What the list shows, or will, is so, but for doubts that show.
ListInv ==
    /\ \/ cache["alerts"].stale \/ cache["alerts"].overtaken \/ Unsettled
       \/ ShowsActivity(cache["alerts"].rows)
    /\ fetch["alerts"].at = "read" =>
           fetch["alerts"].overtaken \/ Unsettled \/ ShowsActivity(fetch["alerts"].rows)

\* While a current form is open no other call is under way than the one it sent.
FormInv ==
    /\ form.current =>
           /\ form.open
           /\ calls["toggle"].at = "idle" /\ calls["delete"].at = "idle"
           /\ calls["form"].at # "idle" =>
                  calls["form"].alert = form.alert /\ calls["form"].active = form.active
           /\ form.alert \in Live => form.active = rule[form.alert].active
    /\ calls["form"].at = "sent" /\ calls["form"].current =>
           /\ calls["toggle"].at # "sent"
           /\ calls["form"].alert \in Live =>
                  calls["form"].active = rule[calls["form"].alert].active

ConsoleInv ==
    /\ DashboardInv /\ AlertTypes /\ ConfigFitsType
    /\ ~lost => ListInv /\ FormInv

-----------------------------------------------------------------------------
(* Pages and keys.                                                          *)

LEMMA EndpointFacts ==
    /\ Endpoints \subseteq Nat /\ 0 \notin Endpoints
    /\ \A e \in Endpoints : e # 0
  BY DashboardAssumption DEF Endpoints

LEMMA Records ==
    /\ ProjectsPage = [at |-> "projects", project |-> NoProject, endpoint |-> 0, tab |-> "overview"]
    /\ Nowhere = [at |-> "nowhere", project |-> NoProject, endpoint |-> 0, tab |-> "overview"]
    /\ \A p : ProjectPage(p) = [at |-> "project", project |-> p, endpoint |-> 0, tab |-> "overview"]
    /\ \A p, e, t : EndpointPage(p, e, t) = [at |-> "endpoint", project |-> p, endpoint |-> e, tab |-> t]
<1>1. ProjectsPage = [at |-> "projects", project |-> NoProject, endpoint |-> 0, tab |-> "overview"]
  BY DEF ProjectsPage
<1>2. Nowhere = [at |-> "nowhere", project |-> NoProject, endpoint |-> 0, tab |-> "overview"]
  BY <1>1 DEF Nowhere
<1> QED  BY <1>1, <1>2 DEF ProjectPage, EndpointPage

LEMMA PageFacts ==
    ASSUME NEW pg \in Pages
    PROVE  /\ pg.at \in {"project", "endpoint"} => pg.project \in Projects
           /\ pg.at \notin {"project", "endpoint"} => pg = ProjectsPage
           /\ pg.endpoint \in {0} \cup Endpoints
           /\ pg.endpoint # 0 => pg.at = "endpoint"
           /\ pg # Nowhere
<1>1. CASE pg = ProjectsPage
  BY <1>1, Records DEF Nowhere
<1>2. CASE \E p \in Projects : pg = ProjectPage(p)
  BY <1>2, Records
<1>3. CASE \E p \in Projects, e \in Endpoints, t \in Tabs : pg = EndpointPage(p, e, t)
  BY <1>3, Records, EndpointFacts
<1> QED  BY <1>1, <1>2, <1>3 DEF Pages

LEMMA PagesHave ==
    /\ ProjectsPage \in Pages /\ ProjectsPage.project = NoProject /\ ProjectsPage.endpoint = 0
    /\ \A p \in Projects : ProjectPage(p) \in Pages /\ ProjectPage(p).project = p
                           /\ ProjectPage(p).endpoint = 0
    /\ \A p \in Projects, e \in Endpoints, t \in Tabs :
           /\ EndpointPage(p, e, t) \in Pages
           /\ EndpointPage(p, e, t).project = p /\ EndpointPage(p, e, t).endpoint = e
  BY Records DEF Pages

LEMMA KeyFacts ==
    /\ "alerts" \in OtherKeys /\ "alerts" \in QueryKeys /\ "alerts" \notin Projects
    /\ {"projects", "usage"} \subseteq QueryKeys /\ Projects \subseteq QueryKeys
    /\ {"projects", "usage"} \cap Projects = {} /\ Projects \cap OtherKeys = {}
    /\ OtherKeys \subseteq QueryKeys
    /\ "overview" \in Tabs
  BY DashboardAssumption, AlertsAssumption DEF QueryKeys, Tabs

-----------------------------------------------------------------------------
(* What a step does to the cache.                                           *)

CacheEntry == [has : {"nothing", "error", "data"}, rows : SUBSET Rows, pages : {1},
               stale : BOOLEAN, overtaken : BOOLEAN]
FetchEntry == [at : {"idle", "sent", "read"}, rows : SUBSET Rows, pages : {1}, overtaken : BOOLEAN]

QueryTypes == cache \in [QueryKeys -> CacheEntry] /\ fetch \in [QueryKeys -> FetchEntry]

\* What becomes of an entry that the server is not reading.
Moved(k) ==
    /\ \/ cache'[k] = cache[k]
       \/ /\ cache'[k].stale /\ cache'[k].rows = cache[k].rows
          /\ cache'[k].has = "nothing" => cache[k].has = "nothing"
       \/ /\ fetch[k].at = "read" /\ cache'[k].has = "data"
          /\ cache'[k].rows = fetch[k].rows /\ cache'[k].overtaken = fetch[k].overtaken
    /\ \/ fetch'[k] = fetch[k]
       \/ fetch'[k].at # "read" /\ fetch'[k].rows = {}
       \/ fetch'[k].overtaken /\ fetch'[k].rows = fetch[k].rows
    /\ InFlight(k) => InFlight(k)' \/ cache'[k].has # "nothing"

LEMMA Typed ==
    /\ QueryTypes <=> CacheTypeOK({1})
    /\ Nothing \in CacheEntry /\ NoFetch \in FetchEntry /\ Sent \in FetchEntry
  BY DEF QueryTypes, CacheTypeOK, CacheEntry, FetchEntry, Nothing, NoFetch, Sent

\* A project keeps its endpoints.
SameOwners == \A e \in Endpoints : endpoint[e].of \in Projects => endpoint'[e].of = endpoint[e].of

LEMMA MovedKeeps ==
    ASSUME QueriesInv, SameOwners, QueryTypes', \A k \in QueryKeys : Moved(k)
    PROVE  /\ QueriesInv'
           /\ \A k \in QueryKeys : AskedFor(k) => AskedFor(k)'
<1>1. QueryTypes
  BY Typed DEF QueriesInv
<1>2. ASSUME NEW k \in QueryKeys
      PROVE  /\ cache'[k].has = "nothing" => cache'[k].stale
             /\ AskedFor(k) => AskedFor(k)'
  BY <1>1 DEF QueriesInv, Moved, AskedFor, QueryTypes, CacheEntry
<1>3. ASSUME NEW p \in Projects
      PROVE  OfProject(cache[p].rows, p)' /\ OfProject(fetch[p].rows, p)'
  <2>1. Moved(p) /\ OfProject(cache[p].rows, p) /\ OfProject(fetch[p].rows, p)
    BY KeyFacts DEF QueriesInv
  <2>2. cache'[p].rows \in {cache[p].rows, fetch[p].rows}
        /\ fetch'[p].rows \in {fetch[p].rows, {}}
    BY <2>1 DEF Moved
  <2> QED  BY <2>1, <2>2 DEF OfProject, SameOwners
<1>4. CacheTypeOK({1})'
  BY DEF QueryTypes, CacheTypeOK, CacheEntry, FetchEntry
<1> QED  BY <1>2, <1>3, <1>4 DEF QueriesInv

LEMMA QueriesSame ==
    ASSUME QueriesInv, UNCHANGED queries
    PROVE  QueryTypes' /\ \A k \in QueryKeys : Moved(k)
  BY Typed DEF QueriesInv, QueryTypes, Moved, queries, InFlight

LEMMA Arrives ==
    ASSUME QueriesInv, NEW j \in QueryKeys, Arrive(j)
    PROVE  QueryTypes' /\ \A k \in QueryKeys : Moved(k)
<1>1. QueryTypes
  BY Typed DEF QueriesInv
<1>2. PICK c \in CacheEntry :
          /\ cache' = [cache EXCEPT ![j] = c] /\ c.has = "data"
          /\ c.rows = fetch[j].rows /\ c.overtaken = fetch[j].overtaken
  <2> DEFINE c == [has |-> "data", rows |-> fetch[j].rows, pages |-> fetch[j].pages,
                   stale |-> FALSE, overtaken |-> fetch[j].overtaken]
  <2>1. c \in CacheEntry /\ c.has = "data" /\ c.rows = fetch[j].rows
        /\ c.overtaken = fetch[j].overtaken
    BY <1>1 DEF QueryTypes, CacheEntry, FetchEntry
  <2>2. cache' = [cache EXCEPT ![j] = c]
    BY DEF Arrive
  <2> HIDE DEF c
  <2> QED  BY <2>1, <2>2
<1>3. fetch' = [fetch EXCEPT ![j] = NoFetch] /\ fetch[j].at = "read"
  BY DEF Arrive
<1>4. QueryTypes'
  BY <1>1, <1>2, <1>3, Typed DEF QueryTypes
<1>5. ASSUME NEW k \in QueryKeys PROVE Moved(k)
  BY <1>1, <1>2, <1>3 DEF QueryTypes, Moved, InFlight, NoFetch
<1> QED  BY <1>4, <1>5

LEMMA GoesStale ==
    ASSUME QueriesInv, NEW j \in QueryKeys, Fails(j) \/ Age(j)
    PROVE  QueryTypes' /\ \A k \in QueryKeys : Moved(k)
<1>1. QueryTypes
  BY Typed DEF QueriesInv
<1>2. \E c \in CacheEntry :
          /\ c.stale /\ c.rows = cache[j].rows /\ c.has # "nothing"
          /\ cache' = [cache EXCEPT ![j] = c] /\ fetch' \in {fetch, [fetch EXCEPT ![j] = NoFetch]}
  <2>1. cache[j] \in CacheEntry /\ cache \in [QueryKeys -> CacheEntry]
    BY <1>1 DEF QueryTypes
  <2>2. CASE Fails(j)
    <3> DEFINE h == IF cache[j].has = "data" THEN "data" ELSE "error"
               c == [cache[j] EXCEPT !.stale = TRUE, !.has = h]
    <3>1. c \in CacheEntry /\ c.stale /\ c.rows = cache[j].rows /\ c.has # "nothing"
      BY <2>1 DEF CacheEntry
    <3>2. cache' = [cache EXCEPT ![j] = c] /\ fetch' = [fetch EXCEPT ![j] = NoFetch]
      BY <2>2 DEF Fails
    <3> HIDE DEF c
    <3> QED  BY <3>1, <3>2
  <2>3. CASE Age(j)
    <3> DEFINE c == [cache[j] EXCEPT !.stale = TRUE]
    <3>1. c \in CacheEntry /\ c.stale /\ c.rows = cache[j].rows /\ c.has # "nothing"
      BY <2>1, <2>3 DEF CacheEntry, Age
    <3>2. cache' = [cache EXCEPT ![j] = c] /\ fetch' = fetch
      BY <2>1, <2>3 DEF Age, CacheEntry
    <3> HIDE DEF c
    <3> QED  BY <3>1, <3>2
  <2> QED  BY <2>2, <2>3
<1>3. QueryTypes'
  BY <1>1, <1>2, Typed DEF QueryTypes
<1>4. ASSUME NEW k \in QueryKeys PROVE Moved(k)
  BY <1>1, <1>2 DEF QueryTypes, Moved, InFlight, NoFetch
<1> QED  BY <1>3, <1>4

LEMMA Invalidates ==
    ASSUME QueriesInv, NEW ks, NEW active, Invalidate(ks, active, {})
    PROVE  /\ QueryTypes' /\ \A k \in QueryKeys : Moved(k)
           /\ \A k \in QueryKeys : k \in ks =>
                  cache'[k].stale /\ (fetch'[k].at = "read" => fetch'[k].overtaken)
<1>1. QueryTypes
  BY Typed DEF QueriesInv
<1>2. ASSUME NEW k \in QueryKeys
      PROVE  /\ Refetched(k) \in FetchEntry /\ Refetched(k).at # "idle"
             /\ Refetched(k).at = "read" => Refetched(k).overtaken
             /\ \/ Refetched(k).rows = {} /\ Refetched(k).at # "read"
                \/ Refetched(k).rows = fetch[k].rows /\ Refetched(k).overtaken
  <2>1. fetch[k] \in FetchEntry
    BY <1>1 DEF QueryTypes
  <2>2. CASE Refetched(k) = Sent
    BY <2>2, Typed DEF Sent
  <2>3. CASE Refetched(k) = [fetch[k] EXCEPT !.overtaken = TRUE] /\ InFlight(k)
    BY <2>1, <2>3 DEF FetchEntry, InFlight
  <2> QED  BY <2>2, <2>3 DEF Refetched
<1>3. \A k \in QueryKeys : [fetch[k] EXCEPT !.overtaken = TRUE] \in FetchEntry
  BY <1>1 DEF QueryTypes, FetchEntry
<1>4. cache' \in [QueryKeys -> CacheEntry]
  BY <1>1 DEF Invalidate, QueryTypes, CacheEntry
<1>5. fetch' \in [QueryKeys -> FetchEntry]
  BY <1>1, <1>2, <1>3 DEF Invalidate, QueryTypes
<1>6. ASSUME NEW k \in QueryKeys
      PROVE  /\ cache'[k].has = cache[k].has /\ cache'[k].rows = cache[k].rows
             /\ IF k \in ks THEN cache'[k].stale ELSE cache'[k] = cache[k]
  BY <1>1 DEF Invalidate, QueryTypes, CacheEntry
<1>7. ASSUME NEW k \in QueryKeys
      PROVE  \/ fetch'[k] = Refetched(k)
             \/ k \in ks /\ InFlight(k) /\ fetch'[k] = [fetch[k] EXCEPT !.overtaken = TRUE]
             \/ fetch'[k] = fetch[k] /\ (k \in ks => ~InFlight(k))
  BY DEF Invalidate
<1>8. ASSUME NEW k \in QueryKeys
      PROVE  /\ Moved(k)
             /\ k \in ks => cache'[k].stale /\ (fetch'[k].at = "read" => fetch'[k].overtaken)
  <2>1. fetch[k] \in FetchEntry
    BY <1>1 DEF QueryTypes
  <2>2. CASE fetch'[k] = Refetched(k)
    BY <1>2, <1>6, <2>2 DEF Moved, InFlight
  <2>3. CASE k \in ks /\ InFlight(k) /\ fetch'[k] = [fetch[k] EXCEPT !.overtaken = TRUE]
    <3>1. fetch'[k].at = fetch[k].at /\ fetch'[k].rows = fetch[k].rows /\ fetch'[k].overtaken
      BY <2>1, <2>3 DEF FetchEntry
    <3> QED  BY <1>6, <2>3, <3>1 DEF Moved, InFlight
  <2>4. CASE fetch'[k] = fetch[k] /\ (k \in ks => ~InFlight(k))
    BY <1>6, <2>4 DEF Moved, InFlight
  <2> QED  BY <1>7, <2>2, <2>3, <2>4
<1> QED  BY <1>4, <1>5, <1>8 DEF QueryTypes

LEMMA Mounts ==
    ASSUME QueriesInv, NEW ks, fetch' \in {fetch, Mounting(ks)}, UNCHANGED cache
    PROVE  /\ QueryTypes' /\ \A k \in QueryKeys : Moved(k)
           /\ fetch' = Mounting(ks) => \A k \in ks \cap QueryKeys : AskedFor(k)'
<1>1. QueryTypes
  BY Typed DEF QueriesInv
<1>2. ASSUME NEW k \in QueryKeys
      PROVE  /\ fetch'[k] = fetch[k] \/ (fetch'[k] = Sent /\ fetch[k].at = "idle")
             /\ fetch' = Mounting(ks) /\ k \in ks /\ cache[k].stale => fetch'[k].at # "idle"
  <2>1. CASE fetch' = fetch /\ fetch' # Mounting(ks)
    BY <2>1
  <2>2. CASE fetch' = Mounting(ks)
    <3>1. Sent.at = "sent"
      BY DEF Sent
    <3>2. fetch'[k] = IF k \in ks THEN Subscribed(k)[k] ELSE fetch[k]
      BY <2>2 DEF Mounting
    <3>3. Subscribed(k)[k] = IF fetch[k].at = "idle" /\ cache[k].stale THEN Sent ELSE fetch[k]
      BY <1>1 DEF QueryTypes, Subscribed
    <3> QED  BY <3>1, <3>2, <3>3
  <2> QED  BY <2>1, <2>2
<1>3. QueryTypes'
  <2>1. fetch' \in [QueryKeys -> FetchEntry]
    BY <1>1, <1>2, Typed DEF QueryTypes, Mounting
  <2> QED  BY <1>1, <2>1 DEF QueryTypes
<1>4. ASSUME NEW k \in QueryKeys PROVE Moved(k)
  BY <1>2 DEF Moved, InFlight, Sent
<1> QED  BY <1>2, <1>3, <1>4 DEF QueriesInv, AskedFor, InFlight

-----------------------------------------------------------------------------
(* Where the page is and goes.                                              *)

LEMMA PageNow ==
    ASSUME PageTypes
    PROVE  /\ OnDashboard => page.project \in Projects
           /\ ~OnDashboard => page = ProjectsPage
           /\ page.endpoint \in {0} \cup Endpoints
           /\ page.endpoint # 0 => page.at = "endpoint"
           /\ going # Nowhere => going \in Pages
  BY PageFacts DEF PageTypes, OnDashboard

LEMMA ListTyped ==
    ASSUME DashboardInv
    PROVE  /\ OnDashboard => /\ Shown \in SUBSET Rows
                             /\ OfProject(Shown, page.project)
                             /\ List \subseteq Endpoints
                             /\ \A e \in List : endpoint[e].of = page.project
           /\ Listed \in SUBSET Rows
<1>1. QueryTypes /\ QueriesInv /\ PageTypes
  BY Typed DEF DashboardInv, QueriesInv
<1>2. \A k \in QueryKeys : cache[k].rows \in SUBSET Rows
  BY <1>1 DEF QueryTypes, CacheEntry
<1>3. ASSUME OnDashboard
      PROVE  Shown \in SUBSET Rows /\ OfProject(Shown, page.project)
  BY <1>1, <1>2, <1>3, PageNow, KeyFacts DEF Shown, QueriesInv
<1>4. ASSUME OnDashboard
      PROVE  List \subseteq Endpoints /\ \A e \in List : endpoint[e].of = page.project
  BY <1>3, <1>4 DEF List, OfProject
<1> QED  BY <1>2, <1>3, <1>4, KeyFacts DEF Listed

\* What the effects ran for, when they are not due.
LEMMA NotDue ==
    ASSUME ~Due, OnDashboard
    PROVE  seen.resolve = <<Pending(page.project), Shown, page.endpoint>>
  BY DEF Due, Deps

\* A step that the selection survives: what it remembers is what this tab created,
\* and it goes away, or goes on, or goes where it likes from a page at rest or of a
\* project that has no endpoint.
LEMMA SelectionKept ==
    ASSUME DashboardInv, SameOwners, UNCHANGED <<page, selected>>, seen'.resolve = seen.resolve,
           announced \subseteq announced',
           OnDashboard =>
               /\ \/ stored'[page.project] = stored[page.project]
                  \/ stored'[page.project] \in announced'
               /\ \/ going' = going
                  \/ going' # Nowhere /\ going'.project # page.project
                  \/ going = Nowhere /\ ~Due
                  \/ \A e \in Endpoints : endpoint[e].of # page.project
    PROVE  SelectionInv'
<1> SUFFICES ASSUME OnDashboard, seen.resolve # <<>>
             PROVE  \E b \in BOOLEAN, rows \in SUBSET Rows, x \in {0} \cup Endpoints :
                        /\ seen'.resolve = <<b, rows, x>>
                        /\ OfProject(rows, page.project)'
                        /\ ~b => Resolved(rows, x)'
  BY DEF SelectionInv, OnDashboard
<1>1. PICK b \in BOOLEAN, rows \in SUBSET Rows, x \in {0} \cup Endpoints :
          /\ seen.resolve = <<b, rows, x>>
          /\ OfProject(rows, page.project)
          /\ ~b => Resolved(rows, x)
  BY DEF DashboardInv, SelectionInv
<1>2. page.project \in Projects
  BY PageNow DEF DashboardInv
<1>3. OfProject(rows, page.project)'
  BY <1>1, <1>2 DEF OfProject, SameOwners
<1>4. ASSUME ~b PROVE Resolved(rows, x)'
  <2>1. CASE rows = {}
    BY <1>1, <1>4, <2>1 DEF Resolved
  <2>2. CASE /\ \E row \in rows : row[1] = x
             /\ selected = x
             /\ stored[page.project] \in {x} \cup announced
    <3>1. stored'[page.project] \in {x} \cup announced'
      BY <2>2
    <3>2. rows # {}
      BY <2>2
    <3> QED  BY <2>2, <3>1, <3>2 DEF Resolved
  <2>3. CASE rows # {} /\ (Destination.project # page.project \/ Destination.endpoint # x)
    <3>1. CASE going' = going
      BY <2>3, <3>1 DEF Resolved, Destination
    <3>2. CASE going' # Nowhere /\ going'.project # page.project
      BY <2>3, <3>2 DEF Resolved, Destination
    <3>3. CASE going = Nowhere /\ ~Due
      <4>1. seen.resolve[3] = page.endpoint /\ seen.resolve[3] = x
        BY <1>1, <3>3, NotDue
      <4> QED  BY <2>3, <3>3, <4>1 DEF Destination
    <3>4. CASE \A e \in Endpoints : endpoint[e].of # page.project
      BY <1>1, <2>3, <3>4 DEF OfProject
    <3> QED  BY <3>1, <3>2, <3>3, <3>4
  <2> QED  BY <1>1, <1>4, <2>1, <2>2, <2>3 DEF Resolved
<1> QED  BY <1>1, <1>3, <1>4

LEMMA StoredKept ==
    ASSUME DashboardInv, SameOwners, UNCHANGED stored
    PROVE  StoredInv'
  BY DEF DashboardInv, PageTypes, StoredInv, SameOwners

\* What the server keeps when it does nothing.
LEMMA ServerSame ==
    ASSUME DashboardInv, UNCHANGED server
    PROVE  /\ SameOwners
           /\ request' \in {request, Idle} => ServerTypes' /\ OwnersInv'
<1>1. Idle \in Requests /\ Idle.what = "none"
  BY DEF Idle, Requests
<1> QED  BY <1>1 DEF DashboardInv, ServerTypes, OwnersInv, SameOwners, server

\* A step that leaves the page where it is.
LEMMA KeptHere ==
    ASSUME DashboardInv, SameOwners, QueryTypes', \A k \in QueryKeys : Moved(k), UNCHANGED page,
           ServerTypes', PageTypes', OwnersInv', StoredInv', SelectionInv'
    PROVE  DashboardInv' /\ Moved("alerts")
<1>1. QueriesInv' /\ \A k \in QueryKeys : AskedFor(k) => AskedFor(k)'
  BY MovedKeeps DEF DashboardInv
<1>2. (OnDashboard => AskedFor(page.project))'
  BY <1>1, PageNow, KeyFacts DEF DashboardInv, OnDashboard
<1> QED  BY <1>1, <1>2, KeyFacts DEF DashboardInv

\* A step of the page alone.
LEMMA PageStep ==
    ASSUME DashboardInv, UNCHANGED <<server, queries, page>>, request' \in {request, Idle},
           PageTypes', StoredInv', SelectionInv'
    PROVE  DashboardInv' /\ Moved("alerts")
<1>1. SameOwners /\ ServerTypes' /\ OwnersInv'
  BY ServerSame
<1>2. QueryTypes' /\ \A k \in QueryKeys : Moved(k)
  BY QueriesSame DEF DashboardInv
<1> QED  BY <1>1, <1>2, KeptHere

-----------------------------------------------------------------------------
(* The newest endpoint.                                                     *)

LEMMA LeastNat ==
    ASSUME NEW T \in SUBSET Nat, T # {}
    PROVE  \E n \in T : \A m \in T : ~(m < n)
<1>1. \E n \in T : \A m \in T : ~(<<m, n>> \in OpToRel(<, Nat))
  BY NatLessThanWellFounded, WFMin
<1>2. PICK n \in T : \A m \in T : ~(<<m, n>> \in OpToRel(<, Nat))
  BY <1>1
<1>3. ASSUME NEW m \in T PROVE ~(m < n)
  BY <1>2 DEF OpToRel
<1> QED  BY <1>3

LEMMA NewestOf ==
    ASSUME NEW es \in SUBSET Endpoints, es # {}
    PROVE  Newest(es) \in es
<1>1. \A e \in es : e \in Int /\ LastEndpoint - e \in Nat
  BY DashboardAssumption DEF Endpoints
<1>2. \E n \in {LastEndpoint - e : e \in es} : \A m \in {LastEndpoint - e : e \in es} : ~(m < n)
  <2> DEFINE T == {LastEndpoint - e : e \in es}
  <2>1. T \in SUBSET Nat /\ T # {}
    BY <1>1
  <2> HIDE DEF T
  <2>2. \E n \in T : \A m \in T : ~(m < n)
    BY <2>1, LeastNat
  <2> QED  BY <2>2 DEF T
<1>3. PICK e \in es : \A x \in es : ~(LastEndpoint - x < LastEndpoint - e)
  BY <1>2
<1>4. \A x \in es : x <= e
  BY <1>1, <1>3, DashboardAssumption
<1> QED  BY <1>4 DEF Newest

-----------------------------------------------------------------------------
(* Where the user goes.                                                     *)

LEMMA HrefTyped ==
    ASSUME PageTypes, NEW p \in Projects
    PROVE  DashboardHref(p) \in Pages /\ DashboardHref(p).project = p
  BY PagesHave, KeyFacts DEF PageTypes, DashboardHref

\* A click that goes to a page from one at rest.
LEMMA GoKeeps ==
    ASSUME DashboardInv, going = Nowhere, ~Due, NEW dest \in Pages, Go(dest),
           UNCHANGED <<selected, stored>>, lastOpened' \in Projects \cup {NoProject}
    PROVE  DashboardInv' /\ Moved("alerts")
<1>1. SameOwners /\ StoredInv'
  BY ServerSame, StoredKept DEF Go
<1>2. SelectionInv'
  BY <1>1, SelectionKept DEF Go
<1>3. PageTypes'
  BY DEF DashboardInv, PageTypes, Go
<1> QED  BY <1>1, <1>2, <1>3, PageStep DEF Go

LEMMA LinksKeep ==
    ASSUME DashboardInv,
           \/ \E p \in Projects : openProjectDashboard(p) \/ setSelectedProjectId(p)
           \/ \E p \in Projects \cup {NoProject} : FollowLink(p)
           \/ \E t \in Tabs : OpenTab(t)
    PROVE  DashboardInv' /\ Moved("alerts")
<1> USE DEF Click, Moment
<1>1. PageTypes
  BY DEF DashboardInv
<1>2. ASSUME NEW p \in Projects, openProjectDashboard(p)
      PROVE  DashboardInv' /\ Moved("alerts")
  BY <1>1, <1>2, HrefTyped, GoKeeps DEF openProjectDashboard
<1>3. ASSUME NEW p \in Projects, setSelectedProjectId(p)
      PROVE  DashboardInv' /\ Moved("alerts")
  <2>1. List # {} => EndpointPage(p, Newest(List), "overview") \in Pages
    BY <1>3, NewestOf, ListTyped, PagesHave, KeyFacts DEF setSelectedProjectId
  <2>2. DashboardHref(p) \in Pages
    BY <1>1, HrefTyped
  <2> QED  BY <1>1, <1>3, <2>1, <2>2, GoKeeps DEF setSelectedProjectId, storage, PageTypes
<1>4. ASSUME NEW p \in Projects \cup {NoProject}, FollowLink(p)
      PROVE  DashboardInv' /\ Moved("alerts")
  <2>1. (IF p = NoProject THEN ProjectsPage ELSE ProjectPage(p)) \in Pages
    BY PagesHave
  <2> QED  BY <1>1, <1>4, <2>1, GoKeeps DEF FollowLink, storage, PageTypes
<1>5. ASSUME NEW t \in Tabs, OpenTab(t)
      PROVE  DashboardInv' /\ Moved("alerts")
  <2>1. page.project \in Projects /\ selected \in Endpoints
    BY <1>1, <1>5, PageNow DEF OpenTab, Known, PageTypes
  <2>2. EndpointPage(page.project, selected, t) \in Pages
    BY <2>1, PagesHave
  <2> QED  BY <1>1, <1>5, <2>2, GoKeeps DEF OpenTab, storage, PageTypes
<1> QED  BY <1>2, <1>3, <1>4, <1>5

\* The switcher: it goes to an endpoint of the list, which it selects, unless it is
\* the one shown.
LEMMA SwitcherKeeps ==
    ASSUME DashboardInv, NEW e \in Endpoints, handleSelectEndpoint(e)
    PROVE  DashboardInv' /\ Moved("alerts")
<1> DEFINE dest == EndpointPage(page.project, e, "overview")
<1>1. /\ OnDashboard /\ page.project \in Projects /\ e \in List /\ e # 0
      /\ ~Due /\ going = Nowhere
  BY PageNow, EndpointFacts
     DEF DashboardInv, handleSelectEndpoint, Known, Click, Moment
<1>2. /\ UNCHANGED <<server, queries, page, seen, dialog, request, announced, lastOpened>>
      /\ going' = dest /\ selected' = e /\ stored' = [stored EXCEPT ![page.project] = e]
  BY DEF handleSelectEndpoint, Go
<1>3. dest \in Pages /\ dest # Nowhere /\ dest.endpoint = e
  BY <1>1, PagesHave, PageFacts, KeyFacts
<1> HIDE DEF dest
<1>4. PageTypes'
  BY <1>1, <1>2, <1>3 DEF DashboardInv, PageTypes
<1>5. stored'[page.project] = e
      /\ \A p \in Projects : p # page.project => stored'[p] = stored[p]
  BY <1>1, <1>2 DEF DashboardInv, PageTypes
<1>6. StoredInv'
  BY <1>1, <1>2, <1>5, ListTyped DEF DashboardInv, StoredInv, server
<1>7. SelectionInv'
  <2> seen.resolve # <<>>
    <3>1. seen.resolve = <<Pending(page.project), Shown, page.endpoint>>
      BY <1>1, NotDue
    <3> QED  BY ONLY <3>1
  <2>1. PICK b \in BOOLEAN, rows \in SUBSET Rows, x \in {0} \cup Endpoints :
            /\ seen.resolve = <<b, rows, x>>
            /\ OfProject(rows, page.project)
    BY <1>1 DEF DashboardInv, SelectionInv
  <2>2. rows = Shown /\ x = page.endpoint
    BY <1>1, <2>1, NotDue
  <2>3. \E row \in rows : row[1] = e
    BY <1>1, <2>2 DEF List
  <2>4. Resolved(rows, x)'
    BY <1>2, <1>3, <1>5, <2>3 DEF Resolved, Destination
  <2>5. OfProject(rows, page.project)'
    BY <1>2, <2>1 DEF OfProject, server
  <2> QED  BY <1>2, <2>1, <2>4, <2>5 DEF SelectionInv
<1> QED  BY <1>2, <1>4, <1>6, <1>7, PageStep

-----------------------------------------------------------------------------
(* The dialogs and what they send.                                          *)

LEMMA DialogFacts ==
    /\ Closed \in [open : BOOLEAN, project : Projects \cup {NoProject}, shown : {0} \cup Endpoints,
                   told : {"none", "page", "dialog"}, created : BOOLEAN]
    /\ \A told \in {"none", "page", "dialog"} :
           [Closed EXCEPT !.told = told]
               \in [open : BOOLEAN, project : Projects \cup {NoProject}, shown : {0} \cup Endpoints,
                    told : {"none", "page", "dialog"}, created : BOOLEAN]
    /\ Idle \in Requests
  BY DEF Closed, Idle, Requests

\* A step that leaves all but the dialogs and the request.
LEMMA DialogStep ==
    ASSUME DashboardInv, UNCHANGED <<server, queries, route, storage, announced>>, dialog' \in Dialogs,
           request' \in {request, Idle}
    PROVE  DashboardInv' /\ Moved("alerts")
<1>1. SameOwners /\ StoredInv' /\ UNCHANGED <<page, going, seen, selected, stored, lastOpened>>
  BY ServerSame, StoredKept DEF route, storage
<1>2. SelectionInv'
  BY <1>1, SelectionKept
<1>3. PageTypes'
  BY <1>1 DEF DashboardInv, PageTypes
<1> QED  BY <1>1, <1>2, <1>3, PageStep

LEMMA DialogsKeep ==
    ASSUME DashboardInv, NEW w \in Places,
           CloseDialog(w) \/ CreateAnother(w) \/ \E p \in Projects : OpenDialog(w, p)
    PROVE  DashboardInv' /\ Moved("alerts")
<1>1. dialog \in Dialogs
  BY DEF DashboardInv, PageTypes
<1>2. CASE CloseDialog(w)
  <2>1. dialog' \in Dialogs
    BY <1>1, <1>2, DialogFacts DEF CloseDialog, Dialogs
  <2>2. SameOwners /\ StoredInv' /\ UNCHANGED <<server, queries, page, seen, selected, stored, lastOpened, announced, request>>
    BY <1>2, ServerSame, StoredKept DEF CloseDialog, storage
  <2>3. going' \in {ProjectsPage, going} /\ ProjectsPage # Nowhere
    BY <1>2, PageFacts, PagesHave DEF CloseDialog
  <2>4. SelectionInv'
    BY <2>2, <2>3, SelectionKept, PageNow, PagesHave, DashboardAssumption DEF DashboardInv
  <2>5. PageTypes'
    BY <2>1, <2>2, <2>3, PagesHave DEF DashboardInv, PageTypes
  <2> QED  BY <2>2, <2>4, <2>5, PageStep
<1>3. CASE CreateAnother(w)
  <2>1. dialog' \in Dialogs
    BY <1>1, <1>3 DEF CreateAnother, Dialogs
  <2> QED  BY <1>3, <2>1, DialogStep DEF CreateAnother
<1>4. ASSUME NEW p \in Projects, OpenDialog(w, p)
      PROVE  DashboardInv' /\ Moved("alerts")
  <2>1. dialog' \in Dialogs
    <3>1. dialog' = [dialog EXCEPT ![w].open = TRUE, ![w].project = p]
      BY <1>4 DEF OpenDialog
    <3>2. [dialog EXCEPT ![w].open = TRUE] \in Dialogs
      BY <1>1 DEF Dialogs
    <3> QED  BY <1>1, <3>1, <3>2 DEF Dialogs
  <2> QED  BY <1>4, <2>1, DialogStep DEF OpenDialog
<1> QED  BY <1>2, <1>3, <1>4

\* A mutation that is sent.
LEMMA SendKeeps ==
    ASSUME DashboardInv, NEW what \in {"create project", "delete project", "create endpoint", "active", "paused"},
           NEW p \in Projects, NEW e \in {0} \cup Endpoints, NEW w \in Places,
           Send(what, p, e, w), dialog' \in Dialogs
    PROVE  DashboardInv' /\ Moved("alerts")
<1>1. /\ SameOwners /\ StoredInv'
      /\ UNCHANGED <<project, endpoint, page, going, seen, selected, stored, lastOpened, announced>>
  BY ServerSame, StoredKept DEF Send, route, storage, server
<1>2. request' \in Requests /\ request'.project = p /\ request'.at = "sent"
  BY DEF Send, Requests
<1>3. ServerTypes' /\ OwnersInv'
  BY <1>1, <1>2 DEF DashboardInv, ServerTypes, OwnersInv
<1>4. SelectionInv'
  BY <1>1, SelectionKept
<1>5. PageTypes'
  BY <1>1 DEF DashboardInv, PageTypes
<1>6. QueryTypes' /\ \A k \in QueryKeys : Moved(k)
  BY QueriesSame DEF DashboardInv, Send
<1> QED  BY <1>1, <1>3, <1>4, <1>5, <1>6, KeptHere

LEMMA SendsKeep ==
    ASSUME DashboardInv,
           \/ \E p \in Projects : SubmitProject(p) \/ ConfirmDelete(p)
           \/ \E w \in Places : SubmitEndpoint(w)
           \/ \E status \in {"active", "paused"} : handleToggleStatus(status)
    PROVE  DashboardInv' /\ Moved("alerts")
<1>1. dialog \in Dialogs /\ {"table", "shell", "page"} = Places
  BY DEF DashboardInv, PageTypes, Places
<1>2. PageTypes
  BY DEF DashboardInv
<1>3. ASSUME NEW p \in Projects, SubmitProject(p) \/ ConfirmDelete(p)
      PROVE  DashboardInv' /\ Moved("alerts")
  BY <1>1, <1>3, SendKeeps DEF SubmitProject, ConfirmDelete
<1>4. ASSUME NEW w \in Places, SubmitEndpoint(w)
      PROVE  DashboardInv' /\ Moved("alerts")
  <2>1. ProjectOf(w) \in Projects
    <3>1. CASE w = "table"
      BY <1>1, <1>4, <3>1 DEF SubmitEndpoint, ProjectOf, Dialogs
    <3>2. CASE w = "shell"
      BY <1>2, <1>4, <3>2, PageNow DEF SubmitEndpoint, ProjectOf, Known
    <3>3. CASE w = "page"
      BY <1>2, <1>4, <3>3, PageNow
         DEF SubmitEndpoint, ProjectOf, OnTop, Showing, Rendered, OnDashboard
    <3> QED  BY <3>1, <3>2, <3>3 DEF Places
  <2>2. dialog' \in Dialogs
    <3>1. dialog' = [dialog EXCEPT ![w].told = "dialog"]
      BY <1>4 DEF SubmitEndpoint
    <3> QED  BY <1>1, <3>1 DEF Dialogs
  <2> QED  BY <1>4, <2>1, <2>2, SendKeeps DEF SubmitEndpoint
<1>5. ASSUME NEW status \in {"active", "paused"}, handleToggleStatus(status)
      PROVE  DashboardInv' /\ Moved("alerts")
  <2>1. page.project \in Projects /\ page.endpoint \in {0} \cup Endpoints
    BY <1>2, <1>5, PageNow DEF handleToggleStatus, Known
  <2> QED  BY <1>1, <1>5, <2>1, SendKeeps DEF handleToggleStatus
<1> QED  BY <1>3, <1>4, <1>5

-----------------------------------------------------------------------------
(* What the server does.                                                    *)

\* A step of the server and of the request.
LEMMA ServerStep ==
    ASSUME DashboardInv, SameOwners, UNCHANGED <<queries, route, storage, dialog, announced>>,
           ServerTypes', OwnersInv'
    PROVE  DashboardInv' /\ Moved("alerts")
<1>1. StoredInv' /\ UNCHANGED <<page, going, seen, selected, stored, lastOpened>>
  BY StoredKept DEF route, storage
<1>2. SelectionInv'
  BY <1>1, SelectionKept
<1>3. PageTypes'
  BY <1>1 DEF DashboardInv, PageTypes
<1>4. QueryTypes' /\ \A k \in QueryKeys : Moved(k)
  BY QueriesSame DEF DashboardInv
<1> QED  BY <1>1, <1>2, <1>3, <1>4, KeptHere

LEMMA ServedKeeps ==
    ASSUME DashboardInv, Serve
    PROVE  DashboardInv' /\ Moved("alerts")
<1>1. ServerTypes /\ OwnersInv
  BY DEF DashboardInv
<1>2. request.at = "sent" /\ UNCHANGED <<queries, route, storage, dialog, announced>>
  BY DEF Serve
<1>3. CASE CreateProject
  <2>1. /\ request.what = "create project" /\ request.project \in Projects
        /\ project[request.project] = "none"
        /\ project' = [project EXCEPT ![request.project] = "live"] /\ endpoint' = endpoint
    BY <1>1, <1>3 DEF CreateProject, ServerTypes
  <2>2. request' \in Requests /\ request'.what = request.what /\ request'.project = request.project
    BY <1>1, <1>3 DEF CreateProject, Served, ServerTypes, Requests
  <2>3. \A e \in Endpoints : endpoint[e].of # request.project
    BY <1>1, <2>1, DashboardAssumption DEF OwnersInv
  <2>4. ServerTypes' /\ SameOwners
    BY <1>1, <2>1, <2>2 DEF ServerTypes, SameOwners
  <2>5. OwnersInv'
    BY <1>1, <2>1, <2>2, <2>3 DEF OwnersInv, ServerTypes
  <2> QED  BY <1>2, <2>4, <2>5, ServerStep
<1>4. CASE SoftDeleteProject
  <2>1. /\ request.what = "delete project" /\ request.project \in Projects
        /\ project' = [project EXCEPT ![request.project] = "deleted"] /\ endpoint' = endpoint
    BY <1>1, <1>4 DEF SoftDeleteProject, ServerTypes
  <2>2. request' \in Requests /\ request'.what = request.what /\ request'.project = request.project
    BY <1>1, <1>4 DEF SoftDeleteProject, Served, ServerTypes, Requests
  <2>3. ServerTypes' /\ SameOwners
    BY <1>1, <2>1, <2>2 DEF ServerTypes, SameOwners
  <2>4. OwnersInv'
    BY <1>1, <2>1, <2>2 DEF OwnersInv, ServerTypes
  <2> QED  BY <1>2, <2>3, <2>4, ServerStep
<1>5. CASE ToggleStatus
  <2> DEFINE x == request.endpoint
  <2>1. /\ request.what \in {"active", "paused"} /\ request.project \in Projects
        /\ x \in Endpoints /\ endpoint[x].is # "none"
        /\ endpoint' = [endpoint EXCEPT ![x].is = request.what] /\ project' = project
    BY <1>1, <1>5 DEF ToggleStatus, ServerTypes, EndpointsOf
  <2>2. request' \in Requests /\ request'.what = request.what /\ request'.project = request.project
    BY <1>1, <1>5 DEF ToggleStatus, Served, ServerTypes, Requests
  <2>3. /\ endpoint' \in [Endpoints -> [of : Projects \cup {NoProject},
                                        is : {"none", "active", "paused", "deleted"}]]
        /\ \A e \in Endpoints : endpoint'[e].of = endpoint[e].of
        /\ \A e \in Endpoints : endpoint'[e].is = "none" <=> endpoint[e].is = "none"
    BY <1>1, <2>1 DEF ServerTypes
  <2>4. ServerTypes' /\ SameOwners
    BY <1>1, <2>1, <2>2, <2>3 DEF ServerTypes, SameOwners
  <2>5. OwnersInv'
    BY <1>1, <2>1, <2>2, <2>3 DEF OwnersInv
  <2> QED  BY <1>2, <2>4, <2>5, ServerStep
<1>6. ASSUME NEW n \in Endpoints, CreateEndpoint(n)
      PROVE  DashboardInv' /\ Moved("alerts")
  <2>1. /\ request.what = "create endpoint" /\ request.project \in Projects
        /\ project[request.project] = "live" /\ endpoint[n].is = "none" /\ project' = project
    BY <1>1, <1>6 DEF CreateEndpoint, ServerTypes
  <2>2. PICK status \in {"active", "paused"} :
            endpoint' = [endpoint EXCEPT ![n] = [of |-> request.project, is |-> status]]
    BY <1>6 DEF CreateEndpoint
  <2>3. /\ request' \in Requests /\ request'.what = request.what
        /\ request'.project = request.project /\ request'.endpoint = n
    BY <1>1, <1>6 DEF CreateEndpoint, ServerTypes, Requests
  <2>4. endpoint[n].of = NoProject
    BY <1>1, <2>1 DEF OwnersInv
  <2>5. /\ endpoint' \in [Endpoints -> [of : Projects \cup {NoProject},
                                        is : {"none", "active", "paused", "deleted"}]]
        /\ endpoint'[n].of = request.project /\ endpoint'[n].is # "none"
        /\ \A e \in Endpoints : e # n => endpoint'[e] = endpoint[e]
    BY <1>1, <2>1, <2>2 DEF ServerTypes
  <2>6. ServerTypes' /\ SameOwners
    BY <1>1, <2>1, <2>3, <2>4, <2>5, DashboardAssumption DEF ServerTypes, SameOwners
  <2>7. OwnersInv'
    <3>1. ASSUME NEW e \in Endpoints
          PROVE  /\ endpoint'[e].is = "none" <=> endpoint'[e].of = NoProject
                 /\ endpoint'[e].of # NoProject => project'[endpoint'[e].of] # "none"
      <4>1. CASE e = n
        BY <2>1, <2>5, <4>1, DashboardAssumption
      <4>2. CASE e # n
        BY <1>1, <2>1, <2>5, <4>2 DEF OwnersInv
      <4> QED  BY <4>1, <4>2
    <3>2. request'.what = "create endpoint" /\ request'.endpoint \in Endpoints
          /\ endpoint'[request'.endpoint].of = request'.project
      BY <2>1, <2>3, <2>5
    <3> QED  BY <3>1, <3>2 DEF OwnersInv
  <2> QED  BY <1>2, <2>6, <2>7, ServerStep
<1> QED  BY <1>3, <1>4, <1>5, <1>6 DEF Serve

LEMMA ElsewhereKeeps ==
    ASSUME DashboardInv, Elsewhere
    PROVE  DashboardInv' /\ Moved("alerts")
<1>1. ServerTypes /\ OwnersInv
  BY DEF DashboardInv
<1>2. UNCHANGED <<queries, route, storage, dialog, request, announced>>
  BY DEF Elsewhere
<1>3. ASSUME NEW p \in Projects, project[p] = "live",
             project' = [project EXCEPT ![p] = "deleted"], UNCHANGED endpoint
      PROVE  DashboardInv' /\ Moved("alerts")
  <2>1. ServerTypes' /\ SameOwners
    BY <1>1, <1>2, <1>3 DEF ServerTypes, SameOwners
  <2>2. OwnersInv'
    BY <1>1, <1>2, <1>3 DEF OwnersInv, ServerTypes
  <2> QED  BY <1>2, <2>1, <2>2, ServerStep
<1>4. ASSUME NEW x \in Endpoints, endpoint[x].is \in {"active", "paused"},
             endpoint' = [endpoint EXCEPT ![x].is = "deleted"], UNCHANGED project
      PROVE  DashboardInv' /\ Moved("alerts")
  <2>1. /\ endpoint' \in [Endpoints -> [of : Projects \cup {NoProject},
                                        is : {"none", "active", "paused", "deleted"}]]
        /\ \A e \in Endpoints : endpoint'[e].of = endpoint[e].of
        /\ \A e \in Endpoints : endpoint'[e].is = "none" <=> endpoint[e].is = "none"
    BY <1>1, <1>4 DEF ServerTypes
  <2>2. ServerTypes' /\ SameOwners
    BY <1>1, <1>2, <1>4, <2>1 DEF ServerTypes, SameOwners
  <2>3. OwnersInv'
    BY <1>1, <1>2, <1>4, <2>1 DEF OwnersInv
  <2> QED  BY <1>2, <2>2, <2>3, ServerStep
<1> QED  BY <1>3, <1>4 DEF Elsewhere

LEMMA DoneKeeps ==
    ASSUME DashboardInv, Done
    PROVE  DashboardInv' /\ Moved("alerts")
<1>1. dialog' \in Dialogs
  BY DEF DashboardInv, PageTypes, Dialogs, Done
<1> QED  BY <1>1, DialogStep DEF Done

LEMMA AnsweredKeeps ==
    ASSUME DashboardInv, Answered
    PROVE  DashboardInv' /\ Moved("alerts")
<1>1. ServerTypes /\ OwnersInv
  BY DEF DashboardInv
<1>2. SameOwners /\ StoredInv'
  BY ServerSame, StoredKept DEF Answered, storage
<1>3. UNCHANGED <<project, endpoint, page, going, seen, selected, stored, lastOpened, dialog, announced>>
  BY DEF Answered, server, route, storage
<1>4. QueryTypes' /\ \A k \in QueryKeys : Moved(k)
  BY Invalidates DEF DashboardInv, Answered
<1>5. Invalidated \subseteq QueryKeys
  BY <1>1, KeyFacts DEF Invalidated, ServerTypes
<1>6. /\ request.at = "served" /\ request' \in Requests /\ request'.what = request.what
      /\ request'.project = request.project /\ request'.endpoint = request.endpoint
  BY <1>1, <1>5 DEF Answered, ServerTypes, Requests
<1>7. ServerTypes' /\ OwnersInv'
  BY <1>1, <1>3, <1>6 DEF ServerTypes, OwnersInv
<1>8. SelectionInv'
  BY <1>2, <1>3, SelectionKept
<1>9. PageTypes'
  BY <1>3 DEF DashboardInv, PageTypes
<1> QED  BY <1>2, <1>3, <1>4, <1>7, <1>8, <1>9, KeptHere

\* The handlers that go on after the refetches.
LEMMA ContinueKeeps ==
    ASSUME DashboardInv, Continue
    PROVE  DashboardInv' /\ Moved("alerts")
<1>1. ServerTypes /\ PageTypes /\ OwnersInv
  BY DEF DashboardInv
<1>2. /\ request.at = "waiting" /\ request' = Idle
      /\ UNCHANGED <<server, queries, page, seen, selected>>
  BY DEF Continue
<1>3. SameOwners
  BY <1>2, ServerSame
<1>4. CASE CreatedProjectOpens
  <2>1. /\ request.what = "create project" /\ request.project \in Projects
        /\ going' = DashboardHref(request.project) /\ lastOpened' = request.project
        /\ UNCHANGED <<stored, dialog, announced>>
    BY <1>1, <1>4 DEF CreatedProjectOpens, ServerTypes
  <2>2. \A e \in Endpoints : endpoint[e].of # request.project
    BY <1>1, <1>2, <2>1 DEF OwnersInv
  <2>3. /\ going' \in Pages /\ going' # Nowhere /\ going'.project = request.project
    BY <1>1, <2>1, HrefTyped, PageFacts
  <2>4. PageTypes'
    BY <1>1, <1>2, <2>1, <2>3 DEF PageTypes
  <2>5. SelectionInv'
    BY <1>2, <1>3, <2>1, <2>2, <2>3, SelectionKept
  <2>6. StoredInv'
    BY <1>3, <2>1, StoredKept
  <2> QED  BY <1>2, <2>4, <2>5, <2>6, PageStep
<1>5. CASE DeletedProjectCloses
  <2>1. /\ going' \in {going, ProjectsPage} /\ UNCHANGED <<stored, lastOpened, dialog, announced>>
    BY <1>5 DEF DeletedProjectCloses, storage
  <2>2. PageTypes'
    BY <1>1, <1>2, <2>1, PagesHave DEF PageTypes
  <2>3. SelectionInv'
    BY <1>1, <1>2, <1>3, <2>1, SelectionKept, PageNow, PagesHave, PageFacts, DashboardAssumption
  <2>4. StoredInv'
    BY <1>3, <2>1, StoredKept
  <2> QED  BY <1>2, <2>2, <2>3, <2>4, PageStep
<1>6. CASE CreatedEndpointShows
  <2>1. /\ request.project \in Projects /\ request.endpoint \in Endpoints
        /\ endpoint[request.endpoint].of = request.project
    BY <1>1, <1>2, <1>6 DEF CreatedEndpointShows, ServerTypes, OwnersInv
  <2>2. /\ stored' = [stored EXCEPT ![request.project] = request.endpoint]
        /\ announced' = announced \cup {request.endpoint}
        /\ UNCHANGED <<lastOpened, going>>
    BY <1>6 DEF CreatedEndpointShows
  <2>3. dialog' \in Dialogs
    <3> DEFINE w == request.place
               told == dialog[w].told
               made == dialog[w].created \/ told # "none"
               shown == IF told = "dialog" THEN request.endpoint ELSE dialog[w].shown
    <3>1. CASE w \in Places
      <4>1. dialog[w] \in [open : BOOLEAN, project : Projects \cup {NoProject},
                           shown : {0} \cup Endpoints, told : {"none", "page", "dialog"},
                           created : BOOLEAN]
        BY <1>1, <3>1 DEF PageTypes, Dialogs
      <4>2. shown \in {0} \cup Endpoints /\ made \in BOOLEAN
        BY <2>1, <4>1
      <4>3. dialog' = [dialog EXCEPT ![w].told = "none", ![w].created = made, ![w].shown = shown]
        BY <1>1, <1>6, <3>1 DEF CreatedEndpointShows, PageTypes, Dialogs
      <4> HIDE DEF made, shown, told
      <4>4. [dialog EXCEPT ![w].told = "none"] \in Dialogs
        BY <1>1, <3>1 DEF PageTypes, Dialogs
      <4> QED  BY <1>1, <3>1, <4>2, <4>3, <4>4 DEF PageTypes, Dialogs
    <3>2. CASE w \notin Places
      BY <1>1, <1>6, <3>2 DEF CreatedEndpointShows, PageTypes, Dialogs
    <3> QED  BY <3>1, <3>2
  <2>4. PageTypes'
    BY <1>1, <1>2, <2>1, <2>2, <2>3 DEF PageTypes
  <2>5. StoredInv'
    BY <1>1, <1>2, <2>1, <2>2 DEF DashboardInv, StoredInv, PageTypes, server
  <2>6. SelectionInv'
    <3>1. OnDashboard => \/ stored'[page.project] = stored[page.project]
                         \/ stored'[page.project] \in announced'
      BY <1>1, <2>1, <2>2, PageNow DEF PageTypes
    <3> QED  BY <1>2, <1>3, <2>2, <3>1, SelectionKept
  <2> QED  BY <1>2, <2>4, <2>5, <2>6, PageStep
<1>7. CASE StatusShows
  <2>1. UNCHANGED <<stored, lastOpened, going, dialog, announced>>
    BY <1>7 DEF StatusShows, storage
  <2>2. PageTypes' /\ StoredInv' /\ SelectionInv'
    BY <1>1, <1>2, <1>3, <2>1, StoredKept, SelectionKept DEF PageTypes
  <2> QED  BY <1>2, <2>2, PageStep
<1> QED  BY <1>4, <1>5, <1>6, <1>7 DEF Continue

-----------------------------------------------------------------------------
(* The effects and the router.                                              *)

\* Either the effects resolve the project's endpoint anew, or what they ran for
\* is as it was.
LEMMA EffectsKeep ==
    ASSUME DashboardInv, Effects
    PROVE  DashboardInv' /\ Moved("alerts")
<1> DEFINE p == page.project
           resolves == OnDashboard /\ seen.resolve # Deps.resolve /\ ~Pending(p)
           chosen == IF List = {} THEN 0 ELSE Target
<1>1. /\ PageTypes /\ StoredInv /\ SameOwners
      /\ UNCHANGED <<server, queries, page, lastOpened, request, announced>>
  BY ServerSame DEF DashboardInv, Effects
<1>2. OnDashboard => /\ p \in Projects
                     /\ chosen \in {0} \cup Endpoints
                     /\ IF List = {} THEN chosen = 0
                        ELSE chosen \in List /\ chosen # 0 /\ endpoint[chosen].of = p
  <2> SUFFICES ASSUME OnDashboard, List # {} PROVE p \in Projects /\ Target \in List
    BY <1>1, PageNow, ListTyped, EndpointFacts
  <2>1. Newest(List) \in List
    BY ListTyped, NewestOf
  <2> QED  BY <1>1, <2>1, PageNow DEF Target
<1>3. /\ seen' = Deps
      /\ selected' = IF ~OnDashboard THEN 0 ELSE IF resolves THEN chosen ELSE selected
      /\ stored' = IF resolves THEN [stored EXCEPT ![p] = chosen] ELSE stored
      /\ IF resolves /\ chosen \notin {0, page.endpoint}
         THEN going' = EndpointPage(p, chosen, "overview")
         ELSE going' \in {going, ProjectsPage} /\ (going' # going => OnDashboard)
  BY DEF Effects
<1>4. dialog' \in Dialogs
  <2>1. \/ \E told \in {"none", "page", "dialog"} :
               dialog' = [dialog EXCEPT !["page"].shown = 0, !["page"].told = told]
        \/ dialog' = [dialog EXCEPT !["page"].open = TRUE] \/ dialog' = dialog
    BY <1>1 DEF Effects, PageTypes, Dialogs, Places
  <2>2. [dialog EXCEPT !["page"].shown = 0] \in Dialogs
    BY <1>1 DEF PageTypes, Dialogs, Places
  <2>3. [dialog EXCEPT !["page"].open = TRUE] \in Dialogs
    BY <1>1 DEF PageTypes, Dialogs, Places
  <2>4. ASSUME NEW told \in {"none", "page", "dialog"}
        PROVE  [dialog EXCEPT !["page"].shown = 0, !["page"].told = told] \in Dialogs
    BY <2>2 DEF Dialogs, Places
  <2> QED  BY <1>1, <2>1, <2>3, <2>4 DEF PageTypes
<1> HIDE DEF chosen
<1>5. resolves /\ chosen \notin {0, page.endpoint} =>
          /\ EndpointPage(p, chosen, "overview") \in Pages
          /\ EndpointPage(p, chosen, "overview").endpoint = chosen
          /\ EndpointPage(p, chosen, "overview") # Nowhere
  BY <1>2, PagesHave, PageFacts, KeyFacts
<1>6. PageTypes'
  <2>1. going' \in Pages \cup {Nowhere}
    BY <1>1, <1>3, <1>5, PagesHave DEF PageTypes
  <2>2. selected' \in {0} \cup Endpoints /\ stored' \in [Projects -> {0} \cup Endpoints]
    BY <1>1, <1>2, <1>3 DEF PageTypes
  <2> QED  BY <1>1, <1>4, <2>1, <2>2 DEF PageTypes
<1>7. StoredInv'
  <2>1. CASE ~resolves
    BY <1>1, <1>3, <2>1 DEF StoredInv, server
  <2>2. CASE resolves
    <3>1. stored' = [stored EXCEPT ![p] = chosen] /\ (chosen # 0 => endpoint[chosen].of = p)
      BY <1>2, <1>3, <2>2
    <3> QED  BY <1>1, <3>1 DEF StoredInv, PageTypes, server
  <2> QED  BY <2>1, <2>2
<1>8. SelectionInv'
  <2>1. CASE OnDashboard /\ ~resolves /\ seen.resolve = Deps.resolve
    <3>1. seen'.resolve = seen.resolve /\ UNCHANGED <<selected, stored>>
      BY <1>3, <2>1
    <3>2. going' = going \/ (going' # Nowhere /\ going'.project # page.project)
      BY <1>1, <1>3, <2>1, PageNow, PagesHave, PageFacts, DashboardAssumption
    <3> QED  BY <1>1, <3>1, <3>2, SelectionKept
  <2>2. CASE OnDashboard /\ ~(~resolves /\ seen.resolve = Deps.resolve)
    <3>1. seen'.resolve = <<Pending(p), Shown, page.endpoint>>
      BY <1>3, <2>2 DEF Deps
    <3>2. Pending(p) \in BOOLEAN /\ Shown \in SUBSET Rows /\ page.endpoint \in {0} \cup Endpoints
      BY <1>1, <2>2, ListTyped, PageNow DEF Pending
    <3>3. OfProject(Shown, p)
      BY <2>2, ListTyped
    <3>4. ASSUME NEW rows, rows = Shown, NEW x, x = page.endpoint
          PROVE  /\ OfProject(rows, page.project)'
                 /\ ~Pending(p) => Resolved(rows, x)'
      <4>1. OfProject(rows, page.project)'
        BY <1>1, <3>3, <3>4 DEF OfProject, server
      <4>2. ASSUME ~Pending(p) PROVE Resolved(rows, x)'
        <5>1. resolves
          BY <2>2, <4>2
        <5>2. selected' = chosen /\ stored'[p] = chosen
          BY <1>1, <1>2, <1>3, <2>2, <5>1 DEF PageTypes
        <5>3. CASE rows = {}
          BY <1>2, <2>2, <3>4, <5>2, <5>3 DEF Resolved, List
        <5>4. CASE rows # {} /\ chosen = x
          <6>1. \E row \in rows : row[1] = x
            BY <1>2, <2>2, <3>4, <5>4 DEF List
          <6> QED  BY <1>1, <5>2, <5>4, <6>1 DEF Resolved
        <5>5. CASE rows # {} /\ chosen # x
          <6>1. chosen \notin {0, page.endpoint}
            BY <1>2, <2>2, <3>4, <5>5 DEF List
          <6>2. going' # Nowhere /\ going'.endpoint = chosen
            BY <1>3, <1>5, <5>1, <6>1
          <6> QED  BY <5>5, <6>2 DEF Resolved, Destination
        <5> QED  BY <5>3, <5>4, <5>5
      <4> QED  BY <4>1, <4>2
    <3> QED  BY <3>1, <3>2, <3>4 DEF SelectionInv
  <2>3. CASE ~OnDashboard
    BY <1>1, <2>3 DEF SelectionInv, OnDashboard
  <2> QED  BY <2>1, <2>2, <2>3
<1> QED  BY <1>1, <1>6, <1>7, <1>8, PageStep

LEMMA LandKeeps ==
    ASSUME DashboardInv, Land
    PROVE  DashboardInv' /\ Moved("alerts")
<1>1. /\ PageTypes /\ QueriesInv
      /\ going \in Pages /\ page' = going /\ going' = Nowhere
      /\ UNCHANGED <<server, cache, stored, lastOpened, request, announced>>
  BY PageNow DEF DashboardInv, Land, storage
<1>2. SameOwners /\ ServerTypes' /\ OwnersInv' /\ StoredInv'
  BY <1>1, ServerSame, StoredKept
<1>3. /\ QueryTypes' /\ \A k \in QueryKeys : Moved(k)
      /\ (OnDashboard => AskedFor(page.project))'
  <2>1. going.at \in {"project", "endpoint"} => going.project \in Projects
    BY <1>1, PageFacts
  <2>2. CASE going = page
    <3>1. fetch' = fetch
      BY <2>2 DEF Land
    <3>2. /\ QueryTypes' /\ \A k \in QueryKeys : Moved(k)
      BY <1>1, <3>1, QueriesSame DEF queries
    <3>3. UNCHANGED <<page, cache, fetch>>
      BY <1>1, <2>2, <3>1
    <3>4. (OnDashboard => AskedFor(page.project))'
      BY <3>3 DEF DashboardInv, OnDashboard, AskedFor, InFlight
    <3> QED  BY <3>2, <3>4
  <2>3. CASE going # page /\ SameShell /\ going.at = "endpoint" /\ going.tab = "overview"
    <3>1. fetch' = Mounting({})
      BY <2>3 DEF Land
    <3>2. QueryTypes' /\ \A k \in QueryKeys : Moved(k)
      BY <1>1, <3>1, Mounts
    <3>3. \A k \in QueryKeys : AskedFor(k) => AskedFor(k)'
      BY <1>1, <1>2, <3>2, MovedKeeps
    <3>4. page.project \in Projects /\ AskedFor(page.project) /\ page'.project = page.project
      BY <1>1, <2>3, PageNow DEF DashboardInv, SameShell
    <3>5. AskedFor(page.project)'
      <4>1. ASSUME NEW k, k = page.project PROVE AskedFor(k)'
        BY <3>3, <3>4, <4>1, KeyFacts
      <4> QED  BY <1>1, <3>4, <4>1 DEF AskedFor, InFlight
    <3> QED  BY <3>2, <3>5
  <2>4. CASE going # page /\ ~(SameShell /\ going.at = "endpoint" /\ going.tab = "overview")
    <3> DEFINE ks == Watched(going) \ {"usage"}
    <3>1. fetch' = Mounting(ks)
      BY <2>4 DEF Land
    <3>2. /\ QueryTypes' /\ \A k \in QueryKeys : Moved(k)
          /\ \A k \in ks \cap QueryKeys : AskedFor(k)'
      BY <1>1, <3>1, Mounts
    <3>3. OnDashboard' => going.project \in ks \cap QueryKeys
      BY <1>1, <2>1, KeyFacts DEF OnDashboard, Watched
    <3>4. (OnDashboard => AskedFor(page.project))'
      BY <1>1, <3>2, <3>3 DEF AskedFor, InFlight
    <3> QED  BY <3>2, <3>4
  <2> QED  BY <2>2, <2>3, <2>4
<1>4. QueriesInv'
  BY <1>1, <1>2, <1>3, MovedKeeps
<1>5. PageTypes'
  <2>1. dialog' \in Dialogs
    <3>1. \A w \in Places : dialog'[w] \in {dialog[w], Closed}
      BY DEF Land
    <3>2. dialog' = [w \in Places |-> dialog'[w]]
      BY DEF Land
    <3> QED  BY <1>1, <3>1, <3>2, DialogFacts DEF PageTypes, Dialogs
  <2>2. selected' \in {selected, 0}
    BY DEF Land
  <2> QED  BY <1>1, <2>1, <2>2 DEF PageTypes
<1>6. SelectionInv'
  <2>1. CASE ~SameShell
    BY <2>1 DEF Land, Unseen, SelectionInv
  <2>2. CASE SameShell
    <3>1. /\ UNCHANGED <<seen, selected, stored, announced>> /\ page'.project = page.project
          /\ OnDashboard /\ Destination = going
      BY <1>1, <2>2 DEF Land, SameShell, Destination
    <3>2. CASE seen.resolve = <<>>
      BY <3>1, <3>2 DEF SelectionInv
    <3>3. CASE seen.resolve # <<>>
      <4>1. PICK b \in BOOLEAN, rows \in SUBSET Rows, x \in {0} \cup Endpoints :
                /\ seen.resolve = <<b, rows, x>>
                /\ OfProject(rows, page.project)
                /\ ~b => Resolved(rows, x)
        BY <3>1, <3>3 DEF DashboardInv, SelectionInv
      <4>2. OfProject(rows, page.project)'
        BY <1>1, <3>1, <4>1 DEF OfProject, server
      <4>3. ~b => Resolved(rows, x)'
        BY <1>1, <3>1, <4>1 DEF Resolved, Destination
      <4> QED  BY <3>1, <4>1, <4>2, <4>3 DEF SelectionInv
    <3> QED  BY <3>2, <3>3
  <2> QED  BY <2>1, <2>2
<1> QED  BY <1>1, <1>2, <1>3, <1>4, <1>5, <1>6, KeyFacts DEF DashboardInv

-----------------------------------------------------------------------------
(* The queries.                                                             *)

\* A step of the queries, and of the request that waits for them.
LEMMA QueryStep ==
    ASSUME DashboardInv, UNCHANGED <<server, route, storage, dialog, announced>>,
           QueryTypes', \A k \in QueryKeys : Moved(k),
           request' = request \/ \E k \in QueryKeys : Settles(k)
    PROVE  DashboardInv' /\ Moved("alerts")
<1>1. SameOwners /\ StoredInv'
      /\ UNCHANGED <<project, endpoint, page, going, seen, selected, stored, lastOpened>>
  BY ServerSame, StoredKept DEF route, storage, server
<1>2. /\ request' \in Requests /\ request'.what = request.what /\ request'.at = request.at
      /\ request'.project = request.project /\ request'.endpoint = request.endpoint
  BY DEF DashboardInv, ServerTypes, Requests, Settles
<1>3. ServerTypes' /\ OwnersInv'
  BY <1>1, <1>2 DEF DashboardInv, ServerTypes, OwnersInv
<1>4. SelectionInv'
  BY <1>1, SelectionKept
<1>5. PageTypes'
  BY <1>1 DEF DashboardInv, PageTypes
<1> QED  BY <1>1, <1>3, <1>4, <1>5, KeptHere

\* What the API answers has the types of rows, and the endpoints of the project.
LEMMA Views ==
    ASSUME NEW k \in QueryKeys, k \notin OtherKeys
    PROVE  View(k) \in SUBSET Rows /\ (k \in Projects => OfProject(View(k), k))
<1>1. CASE k \in Projects
  <2>1. View(k) = {<<e, endpoint[e].is>> : e \in EndpointsOf(k)}
    BY <1>1, KeyFacts DEF View
  <2>2. \A row \in View(k) : row \in Endpoints \X {"active", "paused"} /\ endpoint[row[1]].of = k
    BY <2>1 DEF EndpointsOf
  <2> QED  BY <2>2 DEF OfProject, Rows
<1>2. CASE k \notin Projects
  BY <1>2 DEF View, QueryKeys, Rows, ActiveEndpoints
<1> QED  BY <1>1, <1>2

LEMMA ReadKeeps ==
    ASSUME DashboardInv, NEW k \in QueryKeys, NEW rows \in SUBSET Rows, Read(k, rows, 1),
           k \in Projects => OfProject(rows, k),
           UNCHANGED <<server, route, storage, dialog, request, announced>>
    PROVE  /\ DashboardInv' /\ UNCHANGED cache
           /\ fetch' = [fetch EXCEPT ![k] = fetch'[k]]
           /\ fetch'[k].rows = rows /\ fetch'[k].at = "read"
<1>1. /\ QueryTypes /\ QueriesInv
      /\ SameOwners /\ ServerTypes' /\ OwnersInv' /\ StoredInv'
      /\ UNCHANGED <<project, endpoint, page, going, seen, selected, stored, lastOpened>>
  BY Typed, ServerSame, StoredKept DEF DashboardInv, QueriesInv, route, storage, server
<1>2. PICK f \in FetchEntry : fetch' = [fetch EXCEPT ![k] = f] /\ f.rows = rows /\ f.at = "read"
  <2> DEFINE f == [at |-> "read", rows |-> rows, pages |-> 1, overtaken |-> fetch[k].overtaken]
  <2>1. f \in FetchEntry /\ f.rows = rows /\ f.at = "read"
    BY <1>1 DEF QueryTypes, FetchEntry
  <2>2. fetch' = [fetch EXCEPT ![k] = f]
    BY <1>1 DEF Read, QueryTypes
  <2> HIDE DEF f
  <2> QED  BY <2>1, <2>2
<1>3. UNCHANGED cache
  BY DEF Read
<1>4. QueryTypes' /\ fetch'[k] = f /\ \A j \in QueryKeys : j # k => fetch'[j] = fetch[j]
  BY <1>1, <1>2, <1>3 DEF QueryTypes
<1>5. QueriesInv'
  <2>1. CacheTypeOK({1})'
    BY <1>4 DEF QueryTypes, CacheTypeOK, CacheEntry, FetchEntry
  <2>2. ASSUME NEW p \in Projects
        PROVE  OfProject(cache[p].rows, p)' /\ OfProject(fetch[p].rows, p)'
    <3>1. CASE p = k
      BY <1>1, <1>2, <1>3, <1>4, <3>1, KeyFacts DEF QueriesInv, OfProject
    <3>2. CASE p # k
      BY <1>1, <1>3, <1>4, <3>2, KeyFacts DEF QueriesInv, OfProject
    <3> QED  BY <3>1, <3>2
  <2> QED  BY <1>1, <1>3, <2>1, <2>2 DEF QueriesInv
<1>6. SelectionInv'
  BY <1>1, SelectionKept
<1>7. PageTypes'
  BY <1>1 DEF DashboardInv, PageTypes
<1>8. (OnDashboard => AskedFor(page.project))'
  BY <1>1, <1>2, <1>3, <1>4, PageNow, KeyFacts DEF DashboardInv, OnDashboard, AskedFor, InFlight
<1> QED  BY <1>1, <1>2, <1>3, <1>4, <1>5, <1>6, <1>7, <1>8 DEF DashboardInv

LEMMA QueriesKeep ==
    ASSUME DashboardInv, Queries
    PROVE  DashboardInv' /\ Moved("alerts")
<1>1. QueriesInv
  BY DEF DashboardInv
<1>2. PICK k \in QueryKeys :
          ServerReads(k) \/ ListArrives(k) \/ NotFound(k) \/ FetchFails(k) \/ TimePasses(k)
  BY DEF Queries
<1>3. CASE ServerReads(k)
  <2>1. /\ DashboardInv' /\ UNCHANGED cache /\ fetch' = [fetch EXCEPT ![k] = fetch'[k]]
    BY <1>3, Views, ReadKeeps DEF ServerReads
  <2>2. k # "alerts"
    BY <1>3, KeyFacts DEF ServerReads
  <2>3. fetch'["alerts"] = fetch["alerts"]
    BY <1>1, <2>1, <2>2, KeyFacts, Typed DEF QueriesInv, QueryTypes
  <2> QED  BY <2>1, <2>3 DEF Moved, InFlight
<1>4. CASE ListArrives(k)
  BY <1>1, <1>4, Arrives, QueryStep DEF ListArrives
<1>5. CASE NotFound(k)
  BY <1>1, <1>5, GoesStale, QueryStep DEF NotFound
<1>6. CASE FetchFails(k)
  BY <1>1, <1>6, GoesStale, QueryStep DEF FetchFails
<1>7. CASE TimePasses(k)
  BY <1>1, <1>7, GoesStale, QueryStep DEF TimePasses
<1> QED  BY <1>2, <1>3, <1>4, <1>5, <1>6, <1>7

LEMMA DashboardKeeps ==
    ASSUME DashboardInv, OtherSteps \/ Clicks
    PROVE  DashboardInv' /\ Moved("alerts")
<1>1. CASE Clicks
  BY <1>1, LinksKeep, SwitcherKeeps, DialogsKeep, SendsKeep DEF Clicks
<1>2. CASE OtherSteps
  BY <1>2, LinksKeep, EffectsKeep, LandKeeps, ServedKeeps, DoneKeeps, ElsewhereKeeps,
     AnsweredKeeps, ContinueKeeps, QueriesKeep DEF OtherSteps, Refuse, RequestFails
<1> QED  BY <1>1, <1>2

-----------------------------------------------------------------------------
(* The alerts tab.                                                          *)

Rule == [is : {"none", "live", "deleted"}, type : Types, config : SUBSET Fields, active : BOOLEAN]
Form == [open : BOOLEAN, alert : Alerts \cup {NoAlert}, config : SUBSET Fields,
         active : BOOLEAN, current : BOOLEAN]
Call == [at : {"idle", "sent", "served", "waiting", "done"}, alert : Alerts \cup {NoAlert},
         type : Types, config : SUBSET Fields, active : BOOLEAN, current : BOOLEAN]

LEMMA AlertFacts ==
    /\ AlertTypes <=> /\ rule \in [Alerts -> Rule] /\ form \in Form /\ calls \in [Slots -> Call]
                      /\ lost \in BOOLEAN
                      /\ cache["alerts"].rows \subseteq AlertRow
                      /\ fetch["alerts"].rows \subseteq AlertRow
    /\ NoForm \in Form /\ ~NoForm.open /\ ~NoForm.current
    /\ NoCall \in Call /\ NoCall.at = "idle" /\ NoRule \in Rule /\ NoRule.is # "live"
    /\ Slots = {"form", "toggle", "delete"} /\ Live \subseteq Alerts
<1>1. DefaultType \in Types /\ Needs[DefaultType] \subseteq Fields
  BY AlertsAssumption DEF Fields
<1>2. NoForm \in Form /\ ~NoForm.open /\ ~NoForm.current
  BY <1>1 DEF NoForm, Form
<1>3. NoCall \in Call /\ NoCall.at = "idle" /\ NoRule \in Rule /\ NoRule.is # "live"
  BY <1>1 DEF NoCall, Call, NoRule, Rule
<1> QED  BY <1>2, <1>3 DEF AlertTypes, Rule, Form, Call, Slots, Live

\* A step of the alerts that leaves the dashboard as it is.
LEMMA TabKeeps ==
    ASSUME DashboardInv, UNCHANGED Kept
    PROVE  DashboardInv' /\ UNCHANGED <<cache, fetch>>
  BY DialogStep DEF Kept, DashboardInv, PageTypes, queries

\* A step that writes no rule and settles nothing leaves the list as it was.
LEMMA ListKept ==
    ASSUME ListInv, Moved("alerts"), UNCHANGED rule, Unsettled => Unsettled'
    PROVE  ListInv'
<1>1. (\/ cache["alerts"].stale \/ cache["alerts"].overtaken \/ Unsettled
       \/ ShowsActivity(cache["alerts"].rows))'
  <2>1. CASE cache'["alerts"] = cache["alerts"]
    BY <2>1 DEF ListInv, ShowsActivity, Live
  <2>2. CASE cache'["alerts"].stale
    BY <2>2
  <2>3. CASE /\ fetch["alerts"].at = "read" /\ cache'["alerts"].rows = fetch["alerts"].rows
             /\ cache'["alerts"].overtaken = fetch["alerts"].overtaken
    BY <2>3 DEF ListInv, ShowsActivity, Live
  <2> QED  BY <2>1, <2>2, <2>3 DEF Moved
<1>2. (fetch["alerts"].at = "read" =>
           fetch["alerts"].overtaken \/ Unsettled \/ ShowsActivity(fetch["alerts"].rows))'
  BY DEF ListInv, Moved, ShowsActivity, Live
<1> QED  BY <1>1, <1>2 DEF ListInv

\* What holds of a form and its call when a step starts no other.
LEMMA FormKept ==
    ASSUME FormInv, AlertTypes, UNCHANGED rule,
           form' = form \/ ~form'.current,
           calls'["form"].at = "sent" => calls["form"].at = "sent",
           calls'["form"].at # "idle" =>
               /\ calls["form"].at # "idle" /\ calls'["form"].alert = calls["form"].alert
               /\ calls'["form"].active = calls["form"].active
               /\ calls'["form"].current => calls["form"].current,
           \A s \in {"toggle", "delete"} :
               /\ calls[s].at = "idle" => calls'[s].at = "idle"
               /\ calls'[s].at = "sent" => calls[s].at = "sent"
    PROVE  FormInv'
<1>1. Live' = Live
  BY DEF Live
<1> QED  BY <1>1 DEF FormInv

LEMMA FormsKeep ==
    ASSUME ConsoleInv,
           OpenCreate \/ Cancel \/ \E row \in Rules : OpenEdit(row)
    PROVE  ConsoleInv'
<1>1. /\ DashboardInv /\ AlertTypes /\ ConfigFitsType
      /\ UNCHANGED <<Kept, rule, calls, lost>>
  BY DEF ConsoleInv, OpenCreate, Cancel, OpenEdit
<1>2. DashboardInv' /\ UNCHANGED <<cache, fetch>>
  BY <1>1, TabKeeps
<1>3. ConfigFitsType'
  BY <1>1 DEF ConfigFitsType, Live
<1>4. ~lost => ListInv'
  BY <1>1, <1>2, ListKept DEF ConsoleInv, Moved, Unsettled, InFlight
<1>5. ASSUME form' \in Form, ~form'.current
      PROVE  ConsoleInv'
  <2>1. AlertTypes'
    BY <1>1, <1>2, <1>5 DEF AlertTypes, Form
  <2>2. ~lost => FormInv'
    BY <1>1, <1>5, FormKept DEF ConsoleInv
  <2> QED  BY <1>1, <1>2, <1>3, <1>4, <2>1, <2>2 DEF ConsoleInv
<1>6. CASE OpenCreate
  <2>1. form' \in Form /\ ~form'.current
    BY <1>6, AlertFacts DEF OpenCreate, Form
  <2> QED  BY <1>5, <2>1
<1>7. CASE Cancel
  BY <1>5, <1>7, AlertFacts DEF Cancel
<1>8. ASSUME NEW row \in Rules, OpenEdit(row)
      PROVE  ConsoleInv'
  <2>1. row \in AlertRow
    BY <1>1 DEF AlertTypes, Rules
  <2>2. /\ form' \in Form /\ form'.open /\ form'.alert = row.id /\ form'.active = row.active
        /\ form'.current => Quiet /\ ~cache["alerts"].stale /\ ~cache["alerts"].overtaken
    <3> DEFINE now == Quiet /\ ~cache["alerts"].stale /\ ~cache["alerts"].overtaken
    <3>1. now \in BOOLEAN
      OBVIOUS
    <3>2. form' = [open |-> TRUE, alert |-> row.id, config |-> row.config, active |-> row.active,
                   current |-> now]
      BY <1>8 DEF OpenEdit
    <3> HIDE DEF now
    <3>3. form' \in Form /\ form'.open /\ form'.alert = row.id /\ form'.active = row.active
          /\ form'.current = now
      BY <2>1, <3>1, <3>2 DEF AlertRow, Form
    <3> QED  BY <3>3 DEF now
  <2>3. CASE ~form'.current
    BY <1>5, <2>2, <2>3
  <2>4. CASE form'.current
    <3>1. \A s \in Slots : calls[s].at = "idle"
      BY <2>2, <2>4 DEF Quiet
    <3>2. ~lost /\ form'.alert \in Live => form'.active = rule[form'.alert].active
      BY <2>2, <2>4, <3>1 DEF ConsoleInv, ListInv, Unsettled, ShowsActivity, Rules
    <3>3. ~lost => FormInv'
      BY <1>1, <2>2, <3>1, <3>2, AlertFacts DEF FormInv, Live
    <3>4. AlertTypes'
      BY <1>1, <1>2, <2>2 DEF AlertTypes, Form
    <3> QED  BY <1>1, <1>2, <1>3, <1>4, <3>3, <3>4 DEF ConsoleInv
  <2> QED  BY <2>3, <2>4
<1> QED  BY <1>6, <1>7, <1>8

\* The menus of the rows: nothing else is open.
LEMMA RowsKeep ==
    ASSUME ConsoleInv, NEW row \in Rules, toggleActive(row) \/ handleDelete(row)
    PROVE  ConsoleInv'
<1>1. /\ DashboardInv /\ AlertTypes /\ ConfigFitsType
      /\ UNCHANGED <<Kept, rule, form, lost>> /\ ~form.open
  BY DEF ConsoleInv, toggleActive, handleDelete, ClickRow
<1>2. DashboardInv' /\ UNCHANGED <<cache, fetch>>
  BY <1>1, TabKeeps
<1>3. ConfigFitsType'
  BY <1>1 DEF ConfigFitsType, Live
<1>4. row \in AlertRow
  BY <1>1 DEF AlertTypes, Rules
<1>5. \E s \in {"toggle", "delete"} :
          /\ calls[s].at = "idle" /\ calls' \in [Slots -> Call] /\ calls'[s].at = "sent"
          /\ \A t \in Slots : t # s => /\ calls'[t].at = calls[t].at
                                       /\ calls'[t].current => calls[t].current
                                       /\ calls'[t].alert = calls[t].alert
                                       /\ calls'[t].active = calls[t].active
          /\ s = "toggle" => ~calls'["form"].current
  <2>1. CASE toggleActive(row)
    <3> DEFINE call == [NoCall EXCEPT !.at = "sent", !.alert = row.id, !.active = ~row.active]
               mine == [calls["form"] EXCEPT !.current = FALSE]
    <3>1. call \in Call /\ call.at = "sent"
      BY <1>4, AlertFacts DEF AlertRow, Call
    <3>2. mine \in Call /\ ~mine.current /\ mine.at = calls["form"].at
          /\ mine.alert = calls["form"].alert /\ mine.active = calls["form"].active
      BY <1>1, AlertFacts DEF Call
    <3>3. calls' = [calls EXCEPT !["toggle"] = call, !["form"].current = FALSE]
          /\ calls["toggle"].at = "idle"
      BY <2>1 DEF toggleActive
    <3> HIDE DEF call
    <3>4. calls' = [calls EXCEPT !["toggle"] = call, !["form"] = mine]
      BY <1>1, <3>3, AlertFacts
    <3> HIDE DEF mine
    <3>5. /\ calls' \in [Slots -> Call] /\ calls'["toggle"] = call /\ calls'["form"] = mine
          /\ calls'["delete"] = calls["delete"]
      BY <1>1, <3>1, <3>2, <3>4, AlertFacts
    <3>6. \A t \in Slots : t # "toggle" => /\ calls'[t].at = calls[t].at
                                           /\ calls'[t].current => calls[t].current
                                           /\ calls'[t].alert = calls[t].alert
                                           /\ calls'[t].active = calls[t].active
      BY <3>2, <3>5, AlertFacts
    <3> QED  BY <3>1, <3>2, <3>3, <3>5, <3>6
  <2>2. CASE handleDelete(row)
    <3> DEFINE call == [[NoCall EXCEPT !.alert = row.id] EXCEPT !.at = "sent"]
    <3>1. call \in Call /\ call.at = "sent"
      BY <1>4, AlertFacts DEF AlertRow, Call
    <3>2. calls' = [calls EXCEPT !["delete"] = call] /\ calls["delete"].at = "idle"
      BY <2>2 DEF handleDelete, SendCall
    <3> HIDE DEF call
    <3> QED  BY <1>1, <3>1, <3>2, AlertFacts
  <2> QED  BY <2>1, <2>2
<1>6. AlertTypes'
  BY <1>1, <1>2, <1>5 DEF AlertTypes, Call
<1>7. ~lost => ListInv'
  BY <1>1, <1>2, <1>5, ListKept DEF ConsoleInv, Moved, Unsettled, InFlight
<1>8. ~lost => FormInv'
  <2>1. ~lost => ~form.current
    BY <1>1 DEF ConsoleInv, FormInv
  <2>2. Live' = Live
    BY <1>1 DEF Live
  <2> QED  BY <1>1, <1>5, <2>1, <2>2, AlertFacts DEF ConsoleInv, FormInv
<1> QED  BY <1>1, <1>2, <1>3, <1>6, <1>7, <1>8 DEF ConsoleInv

LEMMA SubmitKeeps ==
    ASSUME ConsoleInv, NEW type \in Types, NEW given \in SUBSET Fields, Submit(type, given)
    PROVE  ConsoleInv'
<1>1. /\ DashboardInv /\ AlertTypes /\ ConfigFitsType
      /\ UNCHANGED <<Kept, rule, form, lost>> /\ form.open
  BY DEF ConsoleInv, Submit
<1>2. DashboardInv' /\ UNCHANGED <<cache, fetch>>
  BY <1>1, TabKeeps
<1>3. ConfigFitsType'
  BY <1>1 DEF ConfigFitsType, Live
<1>4. PICK call \in Call :
          /\ calls["form"].at = "idle" /\ calls' = [calls EXCEPT !["form"] = call]
          /\ call.at = "sent" /\ call.alert = form.alert
          /\ call.active = form.active /\ call.current = form.current
  <2> DEFINE config == (form.config \ Needs[type]) \cup given
             call == [NoCall EXCEPT !.alert = form.alert, !.type = type, !.config = config,
                                    !.active = form.active, !.current = form.current]
             sent == [call EXCEPT !.at = "sent"]
  <2>1. config \in SUBSET Fields /\ form \in Form
    BY <1>1, AlertFacts DEF Form
  <2>2. calls["form"].at = "idle" /\ calls' = [calls EXCEPT !["form"] = sent]
    BY DEF Submit, SendCall
  <2> HIDE DEF config
  <2>3. sent \in Call /\ sent.at = "sent" /\ sent.alert = form.alert
        /\ sent.active = form.active /\ sent.current = form.current
    BY <2>1, AlertFacts DEF Form, Call
  <2> HIDE DEF sent
  <2> QED  BY <2>2, <2>3
<1>5. AlertTypes'
  BY <1>1, <1>2, <1>4 DEF AlertTypes, Call
<1>6. /\ calls'["form"] = call
      /\ \A s \in Slots : s # "form" => calls'[s] = calls[s]
  BY <1>1, <1>4, AlertFacts
<1>7. ~lost => ListInv'
  BY <1>1, <1>2, <1>4, <1>6, ListKept DEF ConsoleInv, Moved, Unsettled, InFlight
<1>8. ~lost => FormInv'
  BY <1>1, <1>4, <1>6, AlertFacts DEF ConsoleInv, FormInv, Live
<1> QED  BY <1>1, <1>2, <1>3, <1>5, <1>7, <1>8 DEF ConsoleInv

\* A served call: who reads the list now may read what was.
LEMMA ServeAlertKeeps ==
    ASSUME ConsoleInv, NEW s \in Slots, ServeAlert(s)
    PROVE  ConsoleInv'
<1>1. /\ DashboardInv /\ AlertTypes /\ ConfigFitsType /\ calls[s].at = "sent"
      /\ UNCHANGED <<Kept, form, lost>> /\ calls' = [calls EXCEPT ![s].at = "served"]
  BY DEF ConsoleInv, ServeAlert
<1>2. DashboardInv' /\ UNCHANGED <<cache, fetch>>
  BY <1>1, TabKeeps
<1>3. /\ calls' \in [Slots -> Call] /\ calls'[s].at = "served"
      /\ calls'[s].alert = calls[s].alert /\ calls'[s].active = calls[s].active
      /\ \A t \in Slots : t # s => calls'[t] = calls[t]
  BY <1>1 DEF AlertTypes, Call
<1>4. ListInv'
  BY <1>2, <1>3 DEF ListInv, Unsettled
<1>5. ASSUME rule' \in [Alerts -> Rule], ConfigFitsType', ~lost => FormInv'
      PROVE  ConsoleInv'
  <2>1. AlertTypes'
    BY <1>1, <1>2, <1>3, <1>5 DEF AlertTypes, Call, Rule
  <2> QED  BY <1>1, <1>2, <1>4, <1>5, <2>1 DEF ConsoleInv
<1>6. CASE s = "form"
  <2>1. PICK a \in Alerts : Save(a)
    BY <1>6 DEF ServeAlert
  <2> DEFINE body == calls["form"]
  <2>2. /\ body \in Call /\ Needs[body.type] \subseteq body.config
        /\ (body.alert = NoAlert /\ rule[a].is = "none") \/ (a = body.alert /\ a \in Live)
    BY <1>1, <1>6, <2>1, AlertFacts DEF Save, Fits, Creates
  <2>3. rule' = [rule EXCEPT ![a] = [is |-> "live", type |-> body.type, config |-> body.config,
                                     active |-> body.active]]
    BY <2>1 DEF Save
  <2>4. /\ rule' \in [Alerts -> Rule] /\ rule'[a].active = body.active
        /\ rule'[a].type = body.type /\ rule'[a].config = body.config
        /\ \A b \in Alerts : b # a => rule'[b] = rule[b]
    BY <1>1, <2>2, <2>3 DEF AlertTypes, Rule, Call
  <2>5. ConfigFitsType'
    BY <1>1, <2>2, <2>4 DEF ConfigFitsType, Live
  <2>6. ~lost => FormInv'
    <3> SUFFICES ASSUME ~lost PROVE FormInv'
      OBVIOUS
    <3>1. FormInv
      BY DEF ConsoleInv
    <3>2. ASSUME form.current, form.alert \in Live'
          PROVE  form.active = rule'[form.alert].active
      <4>1. body.alert = form.alert /\ body.active = form.active
        BY <1>1, <1>6, <3>1, <3>2 DEF FormInv
      <4>2. form.alert = a
        BY <2>2, <3>2, <4>1, AlertsAssumption DEF Live
      <4> QED  BY <2>4, <4>1, <4>2
    <3> QED  BY <1>1, <1>3, <1>6, <3>1, <3>2, AlertFacts DEF FormInv
  <2> QED  BY <1>5, <2>4, <2>5, <2>6
<1>7. CASE s = "toggle"
  <2>1. PICK a \in Alerts : Toggle(a)
    BY <1>7 DEF ServeAlert
  <2>2. calls["toggle"].active \in BOOLEAN
    BY <1>1, AlertFacts DEF Call
  <2>3. /\ rule' \in [Alerts -> Rule]
        /\ \A b \in Alerts : /\ rule'[b].is = rule[b].is /\ rule'[b].type = rule[b].type
                             /\ rule'[b].config = rule[b].config
    <3>1. PICK on \in BOOLEAN : rule' = [rule EXCEPT ![a].active = on]
      BY <2>1, <2>2 DEF Toggle
    <3> QED  BY <1>1, <3>1 DEF AlertTypes, Rule
  <2>4. ConfigFitsType'
    BY <1>1, <2>3 DEF ConfigFitsType, Live
  <2>5. ~lost => FormInv'
    BY <1>1, <1>3, <1>7, AlertFacts DEF ConsoleInv, FormInv
  <2> QED  BY <1>5, <2>3, <2>4, <2>5
<1>8. CASE s = "delete"
  <2>1. PICK a \in Alerts : Delete(a)
    BY <1>8 DEF ServeAlert
  <2>2. /\ rule' \in [Alerts -> Rule]
        /\ \A b \in Alerts : /\ rule'[b].type = rule[b].type /\ rule'[b].config = rule[b].config
                             /\ rule'[b].active = rule[b].active
                             /\ rule'[b].is = "live" => rule[b].is = "live"
    BY <1>1, <2>1 DEF Delete, AlertTypes, Rule
  <2>3. ConfigFitsType'
    BY <1>1, <2>2 DEF ConfigFitsType, Live
  <2>4. Live' \subseteq Live
    BY <2>2 DEF Live
  <2>5. ~lost => FormInv'
    BY <1>1, <1>3, <1>8, <2>2, <2>4, AlertFacts DEF ConsoleInv, FormInv
  <2> QED  BY <1>5, <2>2, <2>3, <2>5
<1> QED  BY <1>6, <1>7, <1>8 DEF Slots

\* A call that ends: what it wrote has been told, or was lost.
LEMMA EndsKeep ==
    ASSUME ConsoleInv, NEW s \in Slots,
           RefuseAlert(s) \/ CallFails(s) \/ AlertContinues(s)
    PROVE  ConsoleInv'
<1>1. /\ DashboardInv /\ AlertTypes /\ ConfigFitsType
      /\ UNCHANGED <<Kept, rule>> /\ calls' = [calls EXCEPT ![s] = NoCall]
      /\ form' \in {form, NoForm} /\ lost' \in BOOLEAN
      /\ ~lost' => ~lost /\ calls[s].at # "served"
  BY AlertFacts DEF ConsoleInv, RefuseAlert, CallFails, AlertContinues
<1>2. DashboardInv' /\ UNCHANGED <<cache, fetch>>
  BY <1>1, TabKeeps
<1>3. /\ calls' \in [Slots -> Call] /\ calls'[s].at = "idle"
      /\ \A t \in Slots : t # s => calls'[t] = calls[t]
  BY <1>1, AlertFacts
<1>4. AlertTypes' /\ ConfigFitsType'
  <2>1. form' \in Form
    BY <1>1, AlertFacts
  <2> QED  BY <1>1, <1>2, <1>3, <2>1 DEF AlertTypes, Call, Form, ConfigFitsType, Live
<1>5. ~lost' => ListInv'
  BY <1>1, <1>2, <1>3, ListKept DEF ConsoleInv, Moved, Unsettled, InFlight
<1>6. ~lost' => FormInv'
  <2>1. \A t \in Slots : calls'[t] = calls[t] \/ calls'[t].at = "idle"
    BY <1>3
  <2> QED  BY <1>1, <2>1, FormKept, AlertFacts DEF ConsoleInv
<1> QED  BY <1>1, <1>2, <1>4, <1>5, <1>6 DEF ConsoleInv

LEMMA AlertAnsweredKeeps ==
    ASSUME ConsoleInv, NEW s \in Slots, AlertAnswered(s)
    PROVE  ConsoleInv'
<1>1. /\ DashboardInv /\ AlertTypes /\ ConfigFitsType /\ QueriesInv /\ calls[s].at = "served"
      /\ UNCHANGED <<server, route, storage, dialog, request, announced, rule, form, lost>>
  BY DEF ConsoleInv, DashboardInv, AlertAnswered
<1>2. /\ QueryTypes' /\ \A k \in QueryKeys : Moved(k)
      /\ cache'["alerts"].stale
      /\ fetch'["alerts"].at = "read" => fetch'["alerts"].overtaken
  BY <1>1, Invalidates, KeyFacts DEF AlertAnswered
<1>3. DashboardInv' /\ Moved("alerts")
  BY <1>1, <1>2, QueryStep
<1>4. /\ calls' \in [Slots -> Call] /\ calls'[s].at \in {"waiting", "done"}
      /\ \A t \in Slots :
             /\ calls'[t].alert = calls[t].alert /\ calls'[t].active = calls[t].active
             /\ calls'[t].current = calls[t].current
             /\ t # s => /\ calls[t].at = "idle" <=> calls'[t].at = "idle"
                         /\ calls[t].at = "sent" <=> calls'[t].at = "sent"
  <2>1. /\ Woken \in [Slots -> Call]
        /\ \A t \in Slots :
               /\ Woken[t].alert = calls[t].alert /\ Woken[t].active = calls[t].active
               /\ Woken[t].current = calls[t].current
               /\ calls[t].at = "idle" <=> Woken[t].at = "idle"
               /\ calls[t].at = "sent" <=> Woken[t].at = "sent"
    BY <1>1 DEF Woken, AlertTypes, Call
  <2>2. PICK at \in {"waiting", "done"} : calls' = [Woken EXCEPT ![s].at = at]
    BY DEF AlertAnswered
  <2> QED  BY <2>1, <2>2 DEF Call
<1>5. AlertTypes' /\ ConfigFitsType'
  BY <1>1, <1>3, <1>4 DEF AlertTypes, Call, ConfigFitsType, Live, Moved
<1>6. ListInv'
  BY <1>2 DEF ListInv
<1>7. ~lost => FormInv'
  <2>1. FormInv => FormInv'
    BY <1>1, <1>4, FormKept, AlertFacts
  <2> QED  BY <2>1 DEF ConsoleInv
<1> QED  BY <1>1, <1>3, <1>5, <1>6, <1>7 DEF ConsoleInv

LEMMA AlertsReadKeeps ==
    ASSUME ConsoleInv, AlertsRead
    PROVE  ConsoleInv'
<1> DEFINE rows == {RowOf(a) : a \in Live}
<1>1. /\ DashboardInv /\ AlertTypes /\ ConfigFitsType
      /\ UNCHANGED <<rule, form, calls, lost>>
  BY DEF ConsoleInv, AlertsRead, alerts
<1>2. rows \subseteq AlertRow /\ rows \in SUBSET Rows
  <2>1. rows \subseteq AlertRow
    BY <1>1 DEF AlertTypes, RowOf, AlertRow, Live
  <2> QED  BY <2>1, AlertsAssumption DEF Rows
<1>3. ShowsActivity(rows)
  BY DEF ShowsActivity, RowOf
<1>4. /\ DashboardInv' /\ UNCHANGED cache /\ fetch'["alerts"].rows = rows
  <2>1. Read("alerts", rows, 1)
        /\ UNCHANGED <<server, route, storage, dialog, request, announced>>
    BY DEF AlertsRead
  <2> HIDE DEF rows
  <2> QED  BY <1>1, <1>2, <2>1, ReadKeeps, KeyFacts
<1>5. AlertTypes' /\ ConfigFitsType'
  <2> HIDE DEF rows
  <2> QED  BY <1>1, <1>2, <1>4 DEF AlertTypes, ConfigFitsType, Live
<1>6. ~lost => ListInv' /\ FormInv'
  <2>1. UNCHANGED Live /\ ShowsActivity(fetch["alerts"].rows)'
    <3> HIDE DEF rows
    <3> QED  BY <1>1, <1>3, <1>4 DEF ShowsActivity, Live
  <2> HIDE DEF rows
  <2> QED  BY <1>1, <1>4, <2>1 DEF ConsoleInv, ListInv, FormInv, Unsettled, ShowsActivity
<1> QED  BY <1>1, <1>4, <1>5, <1>6 DEF ConsoleInv

\* The rest of the dashboard: it closes the form, moves the list and wakes who waits.
LEMMA DashboardStepKeeps ==
    ASSUME ConsoleInv, DashboardStep
    PROVE  ConsoleInv'
<1>1. /\ DashboardInv /\ AlertTypes /\ ConfigFitsType
      /\ form' \in {form, NoForm} /\ calls' \in {calls, Woken} /\ UNCHANGED <<rule, lost>>
  BY DEF ConsoleInv, DashboardStep
<1>2. DashboardInv' /\ Moved("alerts")
  BY <1>1, DashboardKeeps DEF DashboardStep
<1>3. /\ calls' \in [Slots -> Call]
      /\ \A t \in Slots :
             /\ calls'[t].alert = calls[t].alert /\ calls'[t].active = calls[t].active
             /\ calls'[t].current = calls[t].current
             /\ calls[t].at = "idle" <=> calls'[t].at = "idle"
             /\ calls[t].at = "sent" <=> calls'[t].at = "sent"
             /\ calls[t].at = "served" <=> calls'[t].at = "served"
  BY <1>1 DEF Woken, AlertTypes, Call
<1>4. AlertTypes' /\ ConfigFitsType'
  <2>1. form' \in Form
    BY <1>1, AlertFacts
  <2>2. cache'["alerts"].rows \subseteq AlertRow /\ fetch'["alerts"].rows \subseteq AlertRow
    BY <1>1, <1>2 DEF Moved, AlertTypes
  <2> QED  BY <1>1, <1>3, <2>1, <2>2 DEF AlertTypes, Call, Form, ConfigFitsType, Live
<1>5. ~lost => ListInv'
  BY <1>1, <1>2, <1>3, ListKept DEF ConsoleInv, Unsettled
<1>6. ~lost => FormInv'
  <2>1. FormInv => FormInv'
    BY <1>1, <1>3, FormKept, AlertFacts
  <2> QED  BY <2>1 DEF ConsoleInv
<1> QED  BY <1>1, <1>2, <1>4, <1>5, <1>6 DEF ConsoleInv

-----------------------------------------------------------------------------
(* The start.                                                               *)

LEMMA DashboardStarts ==
    ASSUME NEW came \in SUBSET Active, DashboardInit(came)
    PROVE  /\ DashboardInv
           /\ cache["alerts"] = Nothing /\ fetch["alerts"].at # "read" /\ fetch["alerts"].rows = {}
<1>1. /\ page \in Pages /\ came \subseteq Active \ OtherKeys
      /\ cache = [k \in QueryKeys |-> IF k \in came THEN Come(k) ELSE Nothing]
      /\ fetch = [k \in QueryKeys |-> IF k \in Active \ came THEN Sent ELSE NoFetch]
  <2>1. page \in Pages
    BY DEF DashboardInit, Pages
  <2>2. came \subseteq Active \ OtherKeys
    BY DEF DashboardInit
  <2>3. fetch = [k \in QueryKeys |-> IF k \in Active \ came THEN Sent ELSE NoFetch]
    BY DEF DashboardInit
  <2>4. cache = [k \in QueryKeys |-> IF k \in came THEN Come(k) ELSE Nothing]
    BY DEF DashboardInit
  <2> QED  BY <2>1, <2>2, <2>3, <2>4
<1>2. OnDashboard => page.project \in Projects
  BY <1>1, PageFacts DEF OnDashboard
<1>3. ASSUME NEW k \in QueryKeys
      PROVE  /\ cache[k] \in CacheEntry
             /\ IF k \in came THEN cache[k].has = "data" /\ cache[k].rows = View(k) ELSE cache[k] = Nothing
  <2>1. CASE k \in came
    <3>1. View(k) \in SUBSET Rows
      BY <1>1, <2>1, Views
    <3> QED  BY <1>1, <2>1, <3>1 DEF Come, CacheEntry
  <2>2. CASE k \notin came
    BY <1>1, <2>2, Typed
  <2> QED  BY <2>1, <2>2
<1>4. QueryTypes
  BY <1>1, <1>3, Typed DEF QueryTypes
<1>5. QueriesInv
  <2>1. ASSUME NEW p \in Projects PROVE OfProject(cache[p].rows, p) /\ OfProject(fetch[p].rows, p)
    <3>1. fetch[p].rows = {} /\ cache[p].rows \in {{}, View(p)}
      BY <1>1, <1>3, KeyFacts DEF Sent, NoFetch, Nothing
    <3>2. OfProject(View(p), p)
      BY Views, KeyFacts
    <3> QED  BY <3>1, <3>2 DEF OfProject
  <2> QED  BY <1>3, <1>4, <2>1, Typed DEF QueriesInv, Nothing
<1>6. OnDashboard => AskedFor(page.project)
  <2>1. OnDashboard => page.project \in Active
    BY DEF OnDashboard, Active, Watched
  <2> QED  BY <1>1, <1>2, <1>3, <2>1, KeyFacts DEF AskedFor, InFlight, Sent
<1>7. SelectionInv
  BY DEF DashboardInit, SelectionInv, Unseen
<1>8. ServerTypes /\ PageTypes /\ OwnersInv /\ StoredInv
  <2>1. /\ project \in [Projects -> {"none", "live", "deleted"}] /\ request = Idle
        /\ dialog = [w \in Places |-> Closed] /\ selected = 0 /\ going = Nowhere
        /\ lastOpened \in Projects \cup {NoProject}
    <3>1. lastOpened \in {NoProject} \cup {p \in Projects : project[p] # "none"}
      BY DEF DashboardInit
    <3> QED  BY <3>1 DEF DashboardInit
  <2>2. ServerTypes
    BY <2>1, DialogFacts DEF DashboardInit, ServerTypes, Idle
  <2>3. dialog \in Dialogs
    BY <2>1, DialogFacts DEF Dialogs
  <2>4. PageTypes
    BY <1>1, <2>1, <2>3 DEF DashboardInit, PageTypes
  <2>5. OwnersInv /\ StoredInv
    BY <2>1 DEF DashboardInit, OwnersInv, StoredInv, Idle
  <2> QED  BY <2>2, <2>4, <2>5
<1>9. cache["alerts"] = Nothing /\ fetch["alerts"].at # "read" /\ fetch["alerts"].rows = {}
  BY <1>1, <1>3, KeyFacts DEF Sent, NoFetch
<1> QED  BY <1>5, <1>6, <1>7, <1>8, <1>9 DEF DashboardInv

LEMMA ConsoleStarts ==
    ASSUME Init
    PROVE  ConsoleInv
<1>1. /\ DashboardInv
      /\ cache["alerts"] = Nothing /\ fetch["alerts"].at # "read" /\ fetch["alerts"].rows = {}
  BY DashboardStarts DEF Init
<1>2. /\ form = NoForm /\ calls = [s \in Slots |-> NoCall] /\ lost = FALSE
      /\ rule \in [Alerts -> {NoRule} \cup
                       [is : {"live"}, type : Types, config : SUBSET Fields, active : BOOLEAN]]
      /\ \A a \in Live : Fits(rule[a].type, rule[a].config)
  BY DEF Init, AlertsInit
<1>3. rule \in [Alerts -> Rule]
  <2>1. \A r \in [is : {"live"}, type : Types, config : SUBSET Fields, active : BOOLEAN] : r \in Rule
    BY DEF Rule
  <2> QED  BY <1>2, <2>1, AlertFacts
<1>4. AlertTypes
  <2>1. calls \in [Slots -> Call] /\ form \in Form
    BY <1>2, AlertFacts
  <2>2. cache["alerts"].rows \subseteq AlertRow /\ fetch["alerts"].rows \subseteq AlertRow
    BY <1>1 DEF Nothing
  <2> QED  BY <1>2, <1>3, <2>1, <2>2, AlertFacts
<1>5. ConfigFitsType
  BY <1>2 DEF ConfigFitsType, Fits
<1>6. ListInv /\ FormInv
  BY <1>1, <1>2, AlertFacts DEF ListInv, FormInv, Nothing
<1> QED  BY <1>1, <1>4, <1>5, <1>6 DEF ConsoleInv

LEMMA ConsoleKept ==
    ASSUME ConsoleInv, [Next]_vars
    PROVE  ConsoleInv'
<1>1. CASE AlertStep
  BY <1>1, FormsKeep, RowsKeep, SubmitKeeps, ServeAlertKeeps, EndsKeep, AlertAnsweredKeeps,
     AlertsReadKeeps DEF AlertStep
<1>2. CASE DashboardStep
  BY <1>2, DashboardStepKeeps
<1>3. CASE UNCHANGED vars
  <2>1. UNCHANGED Kept /\ UNCHANGED <<rule, form, calls, lost>>
    BY <1>3 DEF vars, dashboard, alerts, Kept
  <2>2. DashboardInv' /\ UNCHANGED <<cache, fetch>>
    BY <2>1, TabKeeps DEF ConsoleInv
  <2> QED  BY <2>1, <2>2 DEF ConsoleInv, AlertTypes, ConfigFitsType, ListInv, FormInv, Unsettled,
                             ShowsActivity, Live
<1> QED  BY <1>1, <1>2, <1>3 DEF Next

LEMMA ConsoleHolds == Spec => []ConsoleInv
<1>1. Init => ConsoleInv
  BY ConsoleStarts
<1>2. ConsoleInv /\ [Next]_vars => ConsoleInv'
  BY ConsoleKept
<1> QED  BY <1>1, <1>2, PTL DEF Spec

-----------------------------------------------------------------------------
(* The theorems.                                                            *)

(* A dashboard at rest shows the endpoint that is selected and remembered, *)
(* one of the project that the URL names, or none where the project has    *)
(* none; and no project is remembered with the endpoint of another.        *)
THEOREM RestShowsWhatIsSelected == Spec => []RestShowsSelection
<1>1. ASSUME ConsoleInv PROVE RestShowsSelection
  <2>1. DashboardInv
    BY <1>1 DEF ConsoleInv
  <2>2. ASSUME Resting, OnDashboard
        PROVE  IF List = {} THEN selected = 0
               ELSE /\ page.at = "endpoint" /\ page.endpoint = selected /\ selected \in List
                    /\ stored[page.project] \in {selected} \cup announced
    <3>1. going = Nowhere /\ ~Due /\ page.project \in Projects
      BY <2>1, <2>2, PageNow DEF Resting, DashboardInv
    <3>2. ~Pending(page.project)
      <4>1. page.project \in Active
        BY <2>2 DEF OnDashboard, Active, Watched
      <4> QED  BY <2>1, <2>2, <4>1 DEF Resting, DashboardInv, AskedFor, Pending
    <3>3. Resolved(Shown, page.endpoint)
      <4>1. PICK b \in BOOLEAN, rows \in SUBSET Rows, x \in {0} \cup Endpoints :
                seen.resolve = <<b, rows, x>> /\ (~b => Resolved(rows, x))
        BY <2>1, <2>2, <3>1, NotDue DEF DashboardInv, SelectionInv
      <4>2. b = Pending(page.project) /\ rows = Shown /\ x = page.endpoint
        BY <2>2, <3>1, <4>1, NotDue
      <4> QED  BY <3>2, <4>1, <4>2
    <3>4. CASE List = {}
      <4>1. Shown = {}
        BY <3>4 DEF List
      <4> QED  BY <3>3, <3>4, <4>1 DEF Resolved
    <3>5. CASE List # {}
      <4>1. /\ page.endpoint \in List /\ selected = page.endpoint
            /\ stored[page.project] \in {page.endpoint} \cup announced
        BY <3>1, <3>3, <3>5 DEF Resolved, List, Destination
      <4>2. page.endpoint # 0
        BY <2>1, <2>2, <4>1, ListTyped, EndpointFacts
      <4> QED  BY <2>1, <3>5, <4>1, <4>2, PageNow DEF DashboardInv
    <3> QED  BY <3>4, <3>5
  <2> QED  BY <2>1, <2>2 DEF RestShowsSelection, DashboardInv, StoredInv
<1> QED  BY <1>1, ConsoleHolds, PTL

(* Every alert that is saved has the fields that the evaluator reads for   *)
(* its type, whatever the form kept of the types chosen before.            *)
THEOREM SavedConfigsFit == Spec => []ConfigFitsType
<1>1. ConsoleInv => ConfigFitsType
  BY DEF ConsoleInv
<1> QED  BY <1>1, ConsoleHolds, PTL

(* A form that was opened on a list without a doubt holds the activity of  *)
(* its alert until its save is served, unless an answer was lost: no save  *)
(* of the edit dialog pauses or activates an alert.                        *)
THEOREM SavingKeepsActivity == Spec => []SaveKeepsActivity
<1>1. ConsoleInv => SaveKeepsActivity
  BY DEF ConsoleInv, FormInv, SaveKeepsActivity
<1> QED  BY <1>1, ConsoleHolds, PTL

=============================================================================
