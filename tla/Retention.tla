----------------------------- MODULE Retention -----------------------------
(***************************************************************************)
(* Retention of webhook events: event-expiration.service.ts, its cron and  *)
(* its maintenance routes in apps/api, with the batch delete of the        *)
(* dashboard.  A run of the expiry lists the users with their plans and    *)
(* then deletes user by user, while billing changes the plans.             *)
(***************************************************************************)
EXTENDS Billing

CONSTANTS
    Events,
    EventOwner,     (* the user of each event's endpoint                     *)
    Runs,           (* runs of the expiry: the cron's and the route's        *)
    RetentionDays,  (* of each tier                                          *)
    FreeDays,       (* FREE_TIER_RETENTION_DAYS                              *)
    CleanupDelay,   (* CLEANUP_DELAY_DAYS                                    *)
    MaxDay          (* bound: days that pass                                 *)

ASSUME RetentionAssumption ==
    /\ EventOwner \in [Events -> Users]
    /\ RetentionDays \in [Tiers -> Nat]
    /\ FreeDays \in Nat /\ CleanupDelay \in Nat /\ MaxDay \in Nat

VARIABLES
    today,
    created,    (* createdAt of an event, -1 before                          *)
    deletedAt,  (* deletedAt, -1 when null                                   *)
    logs,       (* the events that have their logs                           *)
    run,        (* a run: idle, or the users left with the days listed       *)
    held,       (* the retentions a user has had since the run listed them   *)
    selected    (* the events a batch delete found, none when idle           *)

eventVars == <<today, created, deletedAt, logs, run, held, selected>>
retentionVars == <<billingVars, eventVars>>

-----------------------------------------------------------------------------
\* The plan of the row, whatever its status.
Retention(rows, u) ==
    IF rows[u] = {} THEN FreeDays ELSE RetentionDays[(CHOOSE r \in rows[u] : TRUE).plan]

AtRest == [at |-> "idle", todo |-> {}, days |-> [u \in Users |-> FreeDays]]

RetentionInit ==
    /\ BillingInit
    /\ today = 0
    /\ created = [e \in Events |-> -1]
    /\ deletedAt = [e \in Events |-> -1]
    /\ logs = {}
    /\ run = [r \in Runs |-> AtRest]
    /\ held = [r \in Runs |-> [u \in Users |-> {}]]
    /\ selected = {}

NextDay ==
    /\ today < MaxDay
    /\ today' = today + 1
    /\ UNCHANGED <<billingVars, created, deletedAt, logs, run, held, selected>>

Received(e) ==
    /\ created[e] = -1
    /\ created' = [created EXCEPT ![e] = today]
    /\ logs' = logs \cup {e}
    /\ UNCHANGED <<billingVars, today, deletedAt, run, held, selected>>

-----------------------------------------------------------------------------
(* The expiry.                                                              *)

Live(e) == created[e] # -1 /\ deletedAt[e] = -1

Older(day, days) == day < today - days

SoftDelete(es) == deletedAt' = [e \in Events |-> IF e \in es THEN today ELSE deletedAt[e]]

ListUsers(r) ==
    /\ run[r].at = "idle"
    /\ run' = [run EXCEPT ![r] = [at |-> "loop", todo |-> Users,
                                  days |-> [u \in Users |-> Retention(row, u)]]]
    /\ held' = [held EXCEPT ![r] = [u \in Users |-> {Retention(row, u)}]]
    /\ UNCHANGED <<billingVars, today, created, deletedAt, logs, selected>>

\* A slip: no condition on the endpoint's project.
ExpiredOfAnyone(u, days) == {e \in Events : Live(e) /\ Older(created[e], days)}

Expired(u, days) ==
    {e \in Events : Live(e) /\ EventOwner[e] = u /\ Older(created[e], days)}

ExpireUser(r, u) ==
    /\ run[r].at = "loop"
    /\ u \in run[r].todo
    /\ SoftDelete(Expired(u, run[r].days[u]))
    /\ run' = [run EXCEPT ![r].todo = @ \ {u},
                          ![r].at = IF run[r].todo = {u} THEN "cleanup" ELSE @]
    /\ UNCHANGED <<billingVars, today, created, logs, held, selected>>

RunIsOver(r) ==
    /\ run' = [run EXCEPT ![r] = AtRest]
    /\ held' = [held EXCEPT ![r] = [u \in Users |-> {}]]

\* The cron goes on to the logs; the routes run the two on their own.
CleanupLogs(r) ==
    /\ run[r].at = "cleanup"
    /\ logs' = {e \in logs : deletedAt[e] = -1 \/ ~Older(deletedAt[e], CleanupDelay)}
    /\ RunIsOver(r)
    /\ UNCHANGED <<billingVars, today, created, deletedAt, selected>>

\* A query fails, or the process ends: the rest of the run is left undone.
RunEnds(r) ==
    /\ run[r].at # "idle"
    /\ RunIsOver(r)
    /\ UNCHANGED <<billingVars, today, created, deletedAt, logs, selected>>

-----------------------------------------------------------------------------
(* batchSoftDeleteEvents of the dashboard: find, then update by id.         *)

SelectForDelete(u, es) ==
    /\ selected = {}
    /\ selected' = {e \in es : Live(e) /\ EventOwner[e] = u}
    /\ selected' # {}
    /\ UNCHANGED <<billingVars, today, created, deletedAt, logs, run, held>>

DeleteSelected ==
    /\ selected # {}
    /\ SoftDelete(selected)
    /\ selected' = {}
    /\ UNCHANGED <<billingVars, today, created, logs, run, held>>

-----------------------------------------------------------------------------
\* Billing moves on under the runs; held is the record of it.
Bill ==
    /\ BillingNext
    /\ held' = [r \in Runs |-> [u \in Users |->
           IF run[r].at = "idle" THEN held[r][u] ELSE held[r][u] \cup {Retention(row', u)}]]
    /\ UNCHANGED <<today, created, deletedAt, logs, run, selected>>

RetentionNext ==
    \/ Bill
    \/ NextDay
    \/ \E e \in Events : Received(e)
    \/ \E r \in Runs : \/ ListUsers(r) \/ CleanupLogs(r) \/ RunEnds(r)
                       \/ \E u \in Users : ExpireUser(r, u)
    \/ \E u \in Users, es \in SUBSET Events : SelectForDelete(u, es)
    \/ DeleteSelected

RetentionSpec == RetentionInit /\ [][RetentionNext]_retentionVars

-----------------------------------------------------------------------------
(* The expiry deletes an event only when its owner's own plan, at some time *)
(* since the run listed the users, keeps it no longer: other users' plans,  *)
(* the order of the loop and runs that overlap do not matter.               *)
ExpiresUnderOwnPlan ==
    [][\A e \in Events :
          (deletedAt[e] = -1 /\ deletedAt'[e] # -1 /\ selected' = selected) =>
              \E r \in Runs : \E d \in held[r][EventOwner[e]] : Older(created[e], d)]_retentionVars

=============================================================================
