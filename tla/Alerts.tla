------------------------------- MODULE Alerts -------------------------------
(***************************************************************************)
(* The alerts of one user: lib/alert-evaluator.ts, lib/sse-manager.ts and  *)
(* alerts/ in apps/api, and the event stream that the pages of apps/web    *)
(* keep open (use-alert-stream.ts, notification-bell.tsx).                 *)
(*                                                                         *)
(* A message of the Redis channel, a tick of the silence check or a call   *)
(* of the test route starts an evaluation.  Evaluations run side by side,  *)
(* each one alert at a time.                                               *)
(***************************************************************************)
EXTENDS Integers, FiniteSets, Sequences, TLC

CONSTANTS
    Alerts,
    Messages,
    MessageOf,      (* endpoint, errorCode and eventStatus of each message   *)
    Ticks,          (* bound: runs of the silence check                      *)
    Tests,          (* bound: calls of the test route                        *)
    Streams,        (* connections of GET /api/alerts/stream                 *)
    PageOf,         (* the page that opens each                              *)
    NewAlerts,      (* what the create form may send                         *)
    MaxEdits,       (* bound: calls that change an alert                     *)
    MaxDeliveries,  (* bound: rows of deliveries                             *)
    AllEndpoints,   (* the endpointId null                                   *)
    NoAlert, Deleted (* before the create, after the delete                  *)

Evaluations == Messages \cup Ticks \cup Tests
Types == {"errorCode", "eventFailed", "failureRate", "silence"}
Outcomes == {"PENDING", "FAILED", "SUCCESS"}
Configs == {a.config : a \in NewAlerts}

Rows == [active : BOOLEAN, type : Types, endpoint : {a.endpoint : a \in NewAlerts},
         config : Configs]

ASSUME AlertAssumption ==
    /\ Messages \cap Ticks = {} /\ (Messages \cup Ticks) \cap Tests = {}
    /\ MaxEdits \in Nat /\ MaxDeliveries \in Nat
    /\ \A a \in NewAlerts : a.type \in Types /\ a.config.of = a.type
    /\ NoAlert \notin Rows /\ Deleted \notin Rows /\ NoAlert # Deleted

VARIABLES
    alert,      (* rows of alerts                                            *)
    edits,
    deliveries, (* deliveries of the window, by status                       *)
    at,         (* where an evaluation is                                    *)
    listed,     (* the alerts it works on, as listed                         *)
    todo,       (* those it has not handled                                  *)
    current,    (* the one it handles, as a set                              *)
    counted,    (* the counts of a failure rate read so far                  *)
    logged,     (* the alerts whose evaluation or write it logged as failed  *)
    triggers,   (* rows of alert_triggers, by evaluation and alert           *)
    handler,    (* where the stream handler is                               *)
    wire,       (* the client's end of the stream                            *)
    connections,(* the registry of SseManager                                *)
    pushed,     (* the triggers sent                                         *)
    joined,     (* how many of them when the stream was added                *)
    received    (* what a stream has handed to onAlert                       *)

rowVars == <<alert, edits, deliveries>>
evalVars == <<at, listed, todo, current, counted, logged>>
streamVars == <<handler, wire, connections, pushed, joined, received>>
vars == <<rowVars, evalVars, triggers, streamVars>>

-----------------------------------------------------------------------------
Exists(a) == alert[a] \notin {NoAlert, Deleted}

RowOf(new, isActive) ==
    [active |-> isActive, type |-> new.type, endpoint |-> new.endpoint,
     config |-> new.config]

Init ==
    /\ alert \in [Alerts -> {NoAlert} \cup {RowOf(n, TRUE) : n \in NewAlerts}]
    /\ edits = 0
    /\ deliveries = [o \in Outcomes |-> 0]
    /\ at = [e \in Evaluations |-> "idle"]
    /\ listed = [e \in Evaluations |-> {}]
    /\ todo = [e \in Evaluations |-> {}]
    /\ current = [e \in Evaluations |-> {}]
    /\ counted = [e \in Evaluations |-> <<>>]
    /\ logged = [e \in Evaluations |-> {}]
    /\ triggers = {}
    /\ handler = [s \in Streams |-> "none"]
    /\ wire = [s \in Streams |-> "new"]
    /\ connections = {}
    /\ pushed = <<>>
    /\ joined = [s \in Streams |-> 0]
    /\ received = [s \in Streams |-> <<>>]

-----------------------------------------------------------------------------
(* The alert routes.  update finds the row and then writes it by id; a      *)
(* delete in between makes it answer 500 and changes nothing, so the two    *)
(* calls are one step.                                                      *)

WriteAlert(a, row) ==
    /\ edits < MaxEdits
    /\ edits' = edits + 1
    /\ alert' = [alert EXCEPT ![a] = row]
    /\ UNCHANGED <<deliveries, evalVars, streamVars>>

Create(a, new, isActive) ==
    /\ alert[a] = NoAlert
    /\ WriteAlert(a, RowOf(new, isActive))
    /\ UNCHANGED triggers

\* validateConfig runs only when the patch has both fields.
ValidPatch(patch) ==
    "type" \in DOMAIN patch /\ "config" \in DOMAIN patch =>
        patch.config.of = patch.type

Patches ==
    [active : BOOLEAN] \cup [type : Types] \cup [config : Configs]
        \cup [type : Types, config : Configs]

\* The DTO is a partial schema, but Zod 4 fills in the defaults of its absent
\* fields: a patch that does not speak of isActive activates the alert.
Patched(row, patch) == [row EXCEPT
    !.active = IF "active" \in DOMAIN patch THEN patch.active ELSE TRUE,
    !.type = IF "type" \in DOMAIN patch THEN patch.type ELSE @,
    !.config = IF "config" \in DOMAIN patch THEN patch.config ELSE @]

Update(a, patch) ==
    /\ Exists(a)
    /\ ValidPatch(patch)
    /\ WriteAlert(a, Patched(alert[a], patch))
    /\ UNCHANGED triggers

\* The rows of alert_triggers go with their alert.
Delete(a) ==
    /\ Exists(a)
    /\ WriteAlert(a, Deleted)
    /\ triggers' = {k \in triggers : k[2] # a}

-----------------------------------------------------------------------------
(* Deliveries, as the workers of apps/ingestion write them.                 *)

DeliveryCreated ==
    /\ deliveries["PENDING"] + deliveries["FAILED"] + deliveries["SUCCESS"]
           < MaxDeliveries
    /\ deliveries' = [deliveries EXCEPT !["PENDING"] = @ + 1]
    /\ UNCHANGED <<alert, edits, evalVars, triggers, streamVars>>

DeliveryEnded(o) ==
    /\ deliveries["PENDING"] > 0
    /\ deliveries' = [deliveries EXCEPT !["PENDING"] = @ - 1, ![o] = @ + 1]
    /\ UNCHANGED <<alert, edits, evalVars, triggers, streamVars>>

-----------------------------------------------------------------------------
(* The evaluator.                                                           *)

\* What the switch makes of an alert whose config is not of its type: a
\* missing errorCode or threshold equals and bounds nothing, a missing list or
\* window throws.
Fits(config, type) ==
    \/ config.of = type
    \/ type = "silence" /\ config.of = "failureRate"

Throws(config, type) ==
    /\ ~Fits(config, type)
    /\ \/ type \in {"eventFailed", "silence"}
       \/ type = "failureRate" /\ config.of # "silence"

Says(m, row) ==
    /\ Fits(row.config, row.type)
    /\ \/ row.type = "errorCode" /\ MessageOf[m].errorCode = row.config.errorCode
       \/ row.type = "eventFailed" /\ MessageOf[m].eventStatus \in row.config.statuses

Underway(e) == at[e] \notin {"idle", "done", "lost"}

\* The alerts an evaluation of e lists.
Listed(e) ==
    {<<a, alert[a]>> : a \in {b \in Alerts :
        /\ Exists(b)
        /\ alert[b].active
        /\ e \in Ticks => alert[b].type = "silence"}}

\* A message is published once and is gone when nobody listens; and the list is
\* read outside the try blocks.
EvaluationLost(e) ==
    /\ at[e] = "idle"
    /\ at' = [at EXCEPT ![e] = "lost"]
    /\ UNCHANGED <<rowVars, listed, todo, current, counted, logged, triggers, streamVars>>

\* createTestTrigger works on one alert, and refuses a paused one.
StartEvaluation(e) ==
    /\ at[e] = "idle"
    /\ IF e \in Tests THEN \E l \in Listed(e) : listed' = [listed EXCEPT ![e] = {l}]
       ELSE listed' = [listed EXCEPT ![e] = Listed(e)]
    /\ todo' = [todo EXCEPT ![e] = listed'[e]]
    /\ at' = [at EXCEPT ![e] = "loop"]
    /\ UNCHANGED <<rowVars, current, counted, logged, triggers, streamVars>>

ErrorEndsLoop(e, l, x) ==
    /\ at' = [at EXCEPT ![e] = "loop"]
    /\ todo' = [todo EXCEPT ![e] = IF x THEN {} ELSE @ \ {l}]
    /\ current' = [current EXCEPT ![e] = {}]
    /\ counted' = [counted EXCEPT ![e] = <<>>]
    /\ logged' = [logged EXCEPT ![e] = IF x THEN @ \cup {l[1]} ELSE @]
    /\ UNCHANGED listed

\* The alert is done with; x says whether the log has it.
Continue(e, l, x) ==
    /\ at' = [at EXCEPT ![e] = "loop"]
    /\ todo' = [todo EXCEPT ![e] = @ \ {l}]
    /\ current' = [current EXCEPT ![e] = {}]
    /\ counted' = [counted EXCEPT ![e] = <<>>]
    /\ logged' = [logged EXCEPT ![e] = IF x THEN @ \cup {l[1]} ELSE @]
    /\ UNCHANGED listed

Await(e, l, pc) ==
    /\ at' = [at EXCEPT ![e] = pc]
    /\ current' = [current EXCEPT ![e] = {l}]
    /\ UNCHANGED <<listed, todo, counted, logged>>

InScope(e, row) ==
    e \in Messages => row.endpoint \in {AllEndpoints, MessageOf[e].endpoint}

\* Where a turn may go: the silence check counts the events of the window.
Verdicts(e, row) ==
    IF ~InScope(e, row) THEN {"continue"}
    ELSE IF e \in Tests THEN {"create"}
    ELSE IF e \in Messages /\ row.type = "silence" THEN {"continue"}
    ELSE IF Throws(row.config, row.type) THEN {"log"}
    ELSE IF e \in Ticks THEN {"create", "continue"}
    ELSE IF row.type = "failureRate" THEN {"count"}
    ELSE {IF Says(e, row) THEN "create" ELSE "continue"}

\* One turn of the loop, up to its first await.
Consider(e, l) ==
    /\ at[e] = "loop"
    /\ l \in todo[e]
    /\ \E v \in Verdicts(e, l[2]) :
           IF v \in {"create", "count"} THEN Await(e, l, v)
           ELSE Continue(e, l, v = "log")
    /\ UNCHANGED <<rowVars, triggers, streamVars>>

\* Promise.all of two counts: they are read on their own, in either order.
Count(e, which) ==
    /\ at[e] = "count"
    /\ which \notin DOMAIN counted[e]
    /\ counted' = [counted EXCEPT ![e] = @ @@ (which :>
           IF which = "failed" THEN deliveries["FAILED"]
           ELSE deliveries["PENDING"] + deliveries["FAILED"] + deliveries["SUCCESS"])]
    /\ UNCHANGED <<rowVars, at, listed, todo, current, logged, triggers, streamVars>>

ReachesThreshold(c, config) ==
    /\ config.of = "failureRate"
    /\ c.total > 0
    /\ c.failed * 100 >= config.threshold * c.total

CompareRate(e) ==
    /\ at[e] = "count"
    /\ DOMAIN counted[e] = {"total", "failed"}
    /\ \E l \in current[e] :
           IF ReachesThreshold(counted[e], l[2].config) THEN Await(e, l, "create")
           ELSE Continue(e, l, FALSE)
    /\ UNCHANGED <<rowVars, triggers, streamVars>>

\* createTrigger: the foreign key refuses an alert that is gone.
CreateTrigger(e) ==
    /\ at[e] = "create"
    /\ \E l \in current[e] :
           /\ Exists(l[1])
           /\ triggers' = triggers \cup {<<e, l[1]>>}
    /\ at' = [at EXCEPT ![e] = "send"]
    /\ UNCHANGED <<rowVars, listed, todo, current, counted, logged, streamVars>>

\* A query of the turn fails, for a test trigger the whole call does.
QueryFails(e) ==
    /\ at[e] \in {"count", "create"}
    /\ \E l \in current[e] : Continue(e, l, TRUE)
    /\ UNCHANGED <<rowVars, triggers, streamVars>>

\* SseManager.send: a write to a connection that is gone may throw; the
\* connection is then dropped and the others are served.
Push(key, ss, dropped) ==
    /\ pushed' = Append(pushed, key)
    /\ received' = [s \in Streams |-> IF s \in ss /\ wire[s] = "up"
                                      THEN Append(received[s], key) ELSE received[s]]
    /\ connections' = connections \ dropped
    /\ UNCHANGED <<handler, wire, joined>>

Send(e) ==
    /\ at[e] = "send"
    /\ \E l \in current[e], dropped \in SUBSET {s \in connections : wire[s] = "closed"} :
           /\ Push(<<e, l[1]>>, connections, dropped)
           /\ Continue(e, l, FALSE)
    /\ UNCHANGED <<rowVars, triggers>>

EndEvaluation(e) ==
    /\ at[e] = "loop"
    /\ todo[e] = {}
    /\ at' = [at EXCEPT ![e] = "done"]
    /\ UNCHANGED <<rowVars, listed, todo, current, counted, logged, triggers, streamVars>>

-----------------------------------------------------------------------------
(* The stream.                                                              *)

\* EventSource connects, and connects again once a connection is lost.
Ask(s) ==
    /\ wire[s] = "new"
    /\ \A t \in Streams : PageOf[t] = PageOf[s] => wire[t] # "up"
    /\ wire' = [wire EXCEPT ![s] = "up"]
    /\ handler' = [handler EXCEPT ![s] = "auth"]
    /\ UNCHANGED <<rowVars, evalVars, triggers, connections, pushed, joined, received>>

\* requireAuth has verified the token: stream adds the response and then
\* listens for its end.
Add(s) ==
    /\ handler[s] \in {"auth", "deaf"}
    /\ handler' = [handler EXCEPT ![s] = IF @ = "auth" THEN "streaming" ELSE "stuck"]
    /\ connections' = connections \cup {s}
    /\ joined' = [joined EXCEPT ![s] = Len(pushed)]
    /\ UNCHANGED <<rowVars, evalVars, triggers, wire, pushed, received>>

Disconnect(s) ==
    /\ wire[s] = "up"
    /\ wire' = [wire EXCEPT ![s] = "closed"]
    /\ UNCHANGED <<rowVars, evalVars, triggers, handler, connections, pushed, joined,
                   received>>

\* A slip: the entry of the user goes with its first connection.
RemoveUser(s) == connections' = {}

Remove(s) == connections' = connections \ {s}

\* The close event of the request; before stream has run nobody listens.
Closed(s) ==
    /\ wire[s] = "closed"
    /\ \/ /\ handler[s] = "streaming"
          /\ handler' = [handler EXCEPT ![s] = "left"]
          /\ Remove(s)
       \/ /\ handler[s] = "auth"
          /\ handler' = [handler EXCEPT ![s] = "deaf"]
          /\ UNCHANGED connections
    /\ UNCHANGED <<rowVars, evalVars, triggers, wire, pushed, joined, received>>

\* The process ends and starts again: an evaluation under way is gone, and
\* every connection.
Restart ==
    /\ \/ \E e \in Evaluations : Underway(e)
       \/ \E s \in Streams : handler[s] \notin {"none", "left"}
    /\ LET Forget(f, empty) == [e \in Evaluations |-> IF Underway(e) THEN empty ELSE f[e]] IN
           /\ at' = Forget(at, "lost")
           /\ listed' = Forget(listed, {})
           /\ todo' = Forget(todo, {})
           /\ current' = Forget(current, {})
           /\ counted' = Forget(counted, <<>>)
           /\ logged' = Forget(logged, {})
    /\ handler' = [s \in Streams |-> IF handler[s] = "none" THEN "none" ELSE "left"]
    /\ wire' = [s \in Streams |-> IF wire[s] = "up" THEN "closed" ELSE wire[s]]
    /\ connections' = {}
    /\ UNCHANGED <<rowVars, triggers, pushed, joined, received>>

-----------------------------------------------------------------------------
Rest ==
    /\ \A e \in Evaluations : at[e] \in {"done", "lost"}
    /\ UNCHANGED vars

Next ==
    \/ \E a \in Alerts, n \in NewAlerts, b \in BOOLEAN : Create(a, n, b)
    \/ \E a \in Alerts, p \in Patches : Update(a, p)
    \/ \E a \in Alerts : Delete(a)
    \/ DeliveryCreated
    \/ \E o \in {"FAILED", "SUCCESS"} : DeliveryEnded(o)
    \/ \E e \in Evaluations :
           \/ EvaluationLost(e)
           \/ StartEvaluation(e)
           \/ \E l \in todo[e] : Consider(e, l)
           \/ \E w \in {"total", "failed"} : Count(e, w)
           \/ CompareRate(e)
           \/ CreateTrigger(e)
           \/ QueryFails(e)
           \/ Send(e)
           \/ EndEvaluation(e)
    \/ \E s \in Streams : Ask(s) \/ Add(s) \/ Disconnect(s) \/ Closed(s)
    \/ Restart
    \/ Rest

Spec == Init /\ [][Next]_vars

-----------------------------------------------------------------------------
(* An open stream has shown the page every alert sent since it was added,   *)
(* each once and in order, whatever other connections died or were removed  *)
(* meanwhile: the registry is one Set per user, and add, remove and the     *)
(* dropping of a dead peer during send all edit it.                         *)
StreamIsGapless ==
    \A s \in Streams :
        handler[s] = "streaming" /\ wire[s] = "up" =>
            received[s] = SubSeq(pushed, joined[s] + 1, Len(pushed))

(* One alert does not stop the others: an evaluation that ended has a       *)
(* trigger for every alert that was due, although another's config threw,   *)
(* another's query failed or another was deleted under it.                  *)
Due(m, row) == InScope(m, row) /\ Says(m, row)

OneAlertDoesNotStopTheOthers ==
    \A m \in Messages : at[m] = "done" =>
        \A l \in listed[m] :
            Due(m, l[2]) => <<m, l[1]>> \in triggers \/ l[1] \in logged[m] \/ ~Exists(l[1])

=============================================================================
