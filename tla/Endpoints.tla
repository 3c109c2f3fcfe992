------------------------------ MODULE Endpoints ------------------------------
(***************************************************************************)
(* Projects and endpoints of one user: the requests of apps/api            *)
(* (endpoint.controller.ts, endpoint.service.ts, endpoint.repository.ts,   *)
(* project.*.ts) as apps/web sends them, and the ingestion routes that look *)
(* an endpoint up by its token (routes/stripe.ts, routes/github.ts).       *)
(*                                                                         *)
(* Any number of API requests are under way at once, and each await is a   *)
(* step of its own: what a request read before stays what it was.          *)
(***************************************************************************)
EXTENDS Integers, FiniteSets

CONSTANTS
    Projects,    (* the user's projects                                    *)
    Ids,         (* the endpoints there may ever be; a token is its endpoint *)
    Calls,       (* API requests under way at once                         *)
    Deliveries,  (* webhook requests of the providers                      *)
    Limits,      (* endpointLimit of the plans, FREE_TIER_ENDPOINT_LIMIT too *)
    Modes,       (* VerificationMode                                       *)
    NoRow,       (* no Endpoint row                                        *)
    Idle         (* no request                                             *)

VARIABLES
    gone,        (* projects with deletedAt set                            *)
    endpoint,    (* the Endpoint rows                                      *)
    limit,       (* endpointLimit of the user's plan                       *)
    call,        (* an API request, and what it has read                   *)
    request,     (* a webhook request, and the row it found                *)
    failedEvent, (* endpoints with a FAILED event of a wrong signature     *)
    job,         (* what was queued, and how its endpoint was on arrival   *)
    highest,     (* history: the highest limit the user ever had           *)
    resumed      (* history: how often a paused endpoint was made active   *)

apiVars == <<gone, endpoint, limit, call, highest, resumed>>
routeVars == <<request, failedEvent, job>>
vars == <<apiVars, routeVars>>

Unread == -1

Secrets == {"missing", "set"}

Row == [project : Projects, active : BOOLEAN, mode : Modes, secret : Secrets,
        deleted : BOOLEAN]

Changes == {"settings", "status", "delete"}

Call == [op : Changes, project : Projects] \cup
        [op : {"create"}, project : Projects, used : Nat \cup {Unread},
         plan : Limits \cup {Unread}]

ASSUME EndpointsAssumption ==
    /\ IsFiniteSet(Ids)
    /\ IsFiniteSet(Calls) /\ Calls # {}
    /\ Limits \subseteq Nat
    /\ NoRow \notin Row
    /\ Idle \notin Call

TypeOK ==
    /\ gone \subseteq Projects
    /\ endpoint \in [Ids -> Row \cup {NoRow}]
    /\ limit \in Limits
    /\ call \in [Calls -> Call \cup {Idle}]
    /\ highest \in Limits
    /\ resumed \in Nat

Init ==
    /\ gone = {}
    /\ endpoint = [e \in Ids |-> NoRow]
    /\ limit \in Limits
    /\ call = [c \in Calls |-> Idle]
    /\ request = [d \in Deliveries |-> Idle]
    /\ failedEvent = {}
    /\ job = {}
    /\ highest = limit
    /\ resumed = 0

-----------------------------------------------------------------------------
(* The API.                                                                *)

Stands(e) == endpoint[e] # NoRow /\ ~endpoint[e].deleted

\* getActiveEndpointCount counts these.
Active == {e \in Ids : Stands(e) /\ endpoint[e].active /\ endpoint[e].project \notin gone}

\* A request arrives and ensureOwnership finds the project; without it the answer
\* is a 404.  What else the request asks for matters only to its last step.
Begin(c) ==
    /\ call[c] = Idle
    /\ \E p \in Projects \ gone :
        call' \in {[call EXCEPT ![c] = new] : new \in
            [op : Changes, project : {p}] \cup
            [op : {"create"}, project : {p}, used : {Unread}, plan : {Unread}]}
    /\ UNCHANGED <<gone, endpoint, limit, highest, resumed, routeVars>>

Does(c, op) == call[c] # Idle /\ call[c].op = op

\* The two reads of create run in Promise.all, in either order.
ReadPlan(c) ==
    /\ Does(c, "create") /\ call[c].plan = Unread
    /\ call' = [call EXCEPT ![c].plan = limit]
    /\ UNCHANGED <<gone, endpoint, limit, highest, resumed, routeVars>>

CountActive(c) ==
    /\ Does(c, "create") /\ call[c].used = Unread
    /\ call' = [call EXCEPT ![c].used = Cardinality(Active)]
    /\ UNCHANGED <<gone, endpoint, limit, highest, resumed, routeVars>>

Checked(c) == Does(c, "create") /\ call[c].plan # Unread /\ call[c].used # Unread

\* Off by one, the slip the check invites.
AllowsOneMore(c) == Checked(c) /\ call[c].used <= call[c].plan

WithinLimit(c) == Checked(c) /\ call[c].used < call[c].plan

\* The row of a new endpoint: the dialog and the API both want a secret in STRICT
\* mode, and neither counts a paused endpoint's row differently.
NewRows(p) ==
    {row \in Row : row.project = p /\ ~row.deleted
                   /\ (row.mode = "STRICT" => row.secret = "set")}

\* The count is not taken again.
Create(c) ==
    /\ WithinLimit(c)
    /\ \E e \in Ids, row \in NewRows(call[c].project) :
        /\ endpoint[e] = NoRow
        /\ endpoint' = [endpoint EXCEPT ![e] = row]
    /\ call' = [call EXCEPT ![c] = Idle]
    /\ UNCHANGED <<gone, limit, highest, resumed, routeVars>>

\* The limit is reached, or the body is not valid.
Refuse(c) ==
    /\ Checked(c)
    /\ call' = [call EXCEPT ![c] = Idle]
    /\ UNCHANGED <<gone, endpoint, limit, highest, resumed, routeVars>>

\* A settings form that sends its secret field whatever is in it.
SendsBlank(typed) == IF typed = "nothing" THEN "missing" ELSE "set"

\* The form sends every field it shows.  The API never told it the secret: the
\* field is empty unless the user typed one, and an empty field is not sent.  The API
\* would store an empty secret (endpoint.repository.ts:106, 113); no page sends one.
SettingsSecret(typed) == IF typed = "nothing" THEN "undefined" ELSE "set"

Saved(row, mode, sent) ==
    [row EXCEPT !.mode = mode, !.secret = IF sent = "undefined" THEN row.secret ELSE sent]

SaveSettings(row) ==
    {Saved(row, mode, SettingsSecret(typed)) : mode \in Modes, typed \in {"nothing", "new"}}

\* What an update may write; none looks at the limit or at what STRICT needs.
Written(row, op) ==
    CASE op = "settings" -> SaveSettings(row)
      [] op = "status" -> {[row EXCEPT !.active = active] : active \in BOOLEAN}
      [] op = "delete" -> {[row EXCEPT !.deleted = TRUE]}

\* updateMany writes the row of this project that is not deleted, if there is one.
Matches(c, e) == Stands(e) /\ endpoint[e].project = call[c].project

Write(c) ==
    /\ call[c] # Idle /\ call[c].op \in Changes
    /\ \E e \in {f \in Ids : Matches(c, f)} : \E row \in Written(endpoint[e], call[c].op) :
        /\ endpoint' = [endpoint EXCEPT ![e] = row]
        /\ resumed' = IF row.active /\ ~endpoint[e].active THEN resumed + 1 ELSE resumed
    /\ call' = [call EXCEPT ![c] = Idle]
    /\ UNCHANGED <<gone, limit, highest, routeVars>>

\* count = 0, a 404, or the body is not valid.
NotWritten(c) ==
    /\ call[c] # Idle /\ call[c].op \in Changes
    /\ call' = [call EXCEPT ![c] = Idle]
    /\ UNCHANGED <<gone, endpoint, limit, highest, resumed, routeVars>>

\* The project's row alone is marked: its endpoints stay as they are.
DeleteProject(p) ==
    /\ p \notin gone
    /\ gone' = gone \cup {p}
    /\ UNCHANGED <<endpoint, limit, call, highest, resumed, routeVars>>

\* A webhook of the billing provider (module Billing) changed the user's plan.
ChangePlan ==
    /\ limit' \in Limits
    /\ highest' = IF limit' > highest THEN limit' ELSE highest
    /\ UNCHANGED <<gone, endpoint, call, resumed, routeVars>>

-----------------------------------------------------------------------------
(* The ingestion routes.                                                   *)

\* A provider posts to the URL of an endpoint; history: whether the endpoint had
\* been deleted by then.
Arrive(d) ==
    /\ request[d] = Idle
    /\ \E e \in Ids :
        /\ endpoint[e] # NoRow
        /\ request' = [request EXCEPT ![d] =
               [id |-> e, found |-> NoRow,
                wasDeleted |-> endpoint[e].deleted]]
    /\ UNCHANGED <<apiVars, failedEvent, job>>

Finished(d) == request' = [request EXCEPT ![d] = Idle]

Looking(d) == request[d] # Idle /\ request[d].found = NoRow
Found(d) == request[d] # Idle /\ request[d].found # NoRow

\* A lookup that forgets the soft delete.
FindsDeleted(e) == endpoint[e].active

\* Neither lookup asks about the project.
FindEndpoint(e) == Stands(e) /\ endpoint[e].active

Lookup(d) ==
    /\ Looking(d)
    /\ IF FindEndpoint(request[d].id)
       THEN request' = [request EXCEPT ![d].found = endpoint[request[d].id]]
       ELSE Finished(d)
    /\ UNCHANGED <<apiVars, failedEvent, job>>

\* What the route makes of a signature, with the row it found.
Verdict(row, signature) ==
    CASE row.mode = "NONE" -> "accepted"
      [] row.mode # "NONE" /\ signature = "none" -> "missing"
      [] row.mode # "NONE" /\ signature # "none" /\ row.secret = "missing" -> "no secret"
      [] row.mode # "NONE" /\ signature # "none" /\ row.secret = "set" -> signature

Verdicts(d) == {Verdict(request[d].found, signature) :
                    signature \in {"none", "accepted", "wrong"}}

\* The queue takes the job, or the add throws and the provider gets a 500, or a
\* header GitHub sends is missing: a 400.
Enqueue(d) ==
    /\ Found(d) /\ "accepted" \in Verdicts(d)
    /\ Finished(d)
    /\ job' \in {job, job \cup {[wasDeleted |-> request[d].wasDeleted]}}
    /\ UNCHANGED <<apiVars, failedEvent>>

\* A 400, or a 500 where the endpoint has no secret.
Reject(d) ==
    /\ Found(d) /\ Verdicts(d) \cap {"missing", "no secret"} # {}
    /\ Finished(d)
    /\ UNCHANGED <<apiVars, failedEvent, job>>

\* A 400, for GitHub a 401.  Of a wrong signature an event row is left, if its name
\* is not taken and the insert does not throw.
LogVerificationFailure(d) ==
    /\ Found(d) /\ "wrong" \in Verdicts(d)
    /\ Finished(d)
    /\ failedEvent' \in {failedEvent, failedEvent \cup {request[d].id}}
    /\ UNCHANGED <<apiVars, job>>

-----------------------------------------------------------------------------
ApiStep(c) ==
    Begin(c) \/ ReadPlan(c) \/ CountActive(c) \/ Create(c) \/ Refuse(c) \/ Write(c) \/ NotWritten(c)

RouteStep(d) ==
    Arrive(d) \/ Lookup(d) \/ Enqueue(d) \/ Reject(d) \/ LogVerificationFailure(d)

Next ==
    \/ \E c \in Calls : ApiStep(c)
    \/ \E p \in Projects : DeleteProject(p)
    \/ ChangePlan
    \/ \E d \in Deliveries : RouteStep(d)

Spec == Init /\ [][Next]_vars

-----------------------------------------------------------------------------
(* Properties.                                                             *)

\* The active endpoints outnumber the best plan the user ever had by at most one
\* less than the requests that run at once, and by the paused endpoints that were
\* made active again: the check and the insert of create are two calls
\* (endpoint.controller.ts:106, :148), and updateStatus has no check.
OverrunIsBounded ==
    Cardinality(Active) <= highest - 1 + Cardinality(Calls) + resumed

\* Of the requests that the web application sends, none but one with a new secret
\* replaces the signing secret of an endpoint: the API does not send it to the
\* browser, and the settings form, which sends all its fields, must not send the
\* empty one back (endpoint-settings-form.tsx:117).
SecretIsKept ==
    [][\A e \in Ids : endpoint[e] # NoRow /\ endpoint[e].secret = "set"
                        => endpoint'[e].secret = "set"]_vars

\* A webhook that arrives after its endpoint was deleted is not queued
\* (stripe-ingest.service.ts:35, github-ingest.service.ts:35).
DeletedEndpointIsSilent == \A j \in job : ~j.wasDeleted

=============================================================================
