--------------------------- MODULE ServicesProofs ---------------------------
(***************************************************************************)
(* Proofs about what apps/api does beside its requests.                    *)
(*                                                                         *)
(* Billing and Retention: a user's row is one subscription of the user,    *)
(* and a run of the expiry deletes by the owner's own plan.                *)
(*                                                                         *)
(* Alerts: an open stream misses nothing that is sent, every alert that    *)
(* was due has its trigger, and what is sent was stored.                   *)
(***************************************************************************)
EXTENDS Alerts, Retention, SequenceTheorems, TLAPS

-----------------------------------------------------------------------------
(***************************************************************************)
(* Billing and the expiry of events.                                       *)
(***************************************************************************)

-----------------------------------------------------------------------------
(* Billing.                                                                 *)

Customers == {CustomerOf[d] : d \in Subscriptions}
Statuses == {"TRIALING", "ACTIVE", "PAUSED", "CANCELED", "PAST_DUE", "UNPAID"}
Row == [dodo : Subscriptions, customer : Customers, plan : Tiers, status : Statuses]
Remote == [status : {"none", "active", "cancelled", "expired", "failed"},
           product : Tiers \cup {NoPlan}]

\* A handler has what the provider said, a change of plan the row it read.
Handling ==
    {Idle} \cup [at : {"retrieved"}, remote : Remote]
           \cup [at : {"found"}, remote : Remote, existing : BOOLEAN]

Changing == {Idle} \cup [at : {"read", "changed"}, old : Row, tier : Tiers]

BillingTypes ==
    /\ provider \in [Subscriptions -> Remote]
    /\ outbox \subseteq Webhooks
    /\ row \in [Users -> SUBSET Row]
    /\ handling \in [Webhooks -> Handling]
    /\ changing \in [Users -> Changing]
    /\ changes \in 0..MaxChanges

\* A user has one row at most.
OneRow == \A u \in Users : \A r, s \in row[u] : r = s

BillingInv == BillingTypes /\ OneRow /\ RowIsOneSubscription

LEMMA InternalStatus ==
    ASSUME NEW s \in {"none", "active", "cancelled", "expired", "failed"}
    PROVE  mapDodoStatusToInternal(s) \in Statuses
<1>1. DOMAIN Named = {"pending", "active", "paused", "cancelled", "failed", "on_hold"}
  BY DEF Named
<1>2. /\ Named["active"] = "ACTIVE" /\ Named["cancelled"] = "CANCELED" /\ Named["failed"] = "PAST_DUE"
  BY DEF Named
<1> QED  BY <1>1, <1>2 DEF mapDodoStatusToInternal, Statuses

\* An update leaves a row the subscription it is of.
LEMMA RowsUpdated ==
    ASSUME BillingInv, NEW d, NEW f \in [Row -> Row],
           \A r \in Row : f[r].dodo = r.dodo /\ f[r].customer = r.customer,
           row' = [u \in Users |-> IF u \in RowWith(d) THEN {f[r] : r \in row[u]} ELSE row[u]]
    PROVE  row' \in [Users -> SUBSET Row] /\ OneRow' /\ RowIsOneSubscription'
<1> USE DEF BillingInv, BillingTypes
<1>1. row' \in [Users -> SUBSET Row]
  OBVIOUS
<1>2. ASSUME NEW u \in Users, NEW r \in row'[u]
      PROVE  \E q \in row[u] : /\ q \in Row /\ r.dodo = q.dodo /\ r.customer = q.customer
                               /\ r = IF u \in RowWith(d) THEN f[q] ELSE q
  BY <1>2
<1>3. RowIsOneSubscription'
  BY <1>2 DEF RowIsOneSubscription
<1>4. OneRow'
  BY <1>2 DEF OneRow
<1> QED  BY <1>1, <1>3, <1>4

LEMMA StatusSet ==
    ASSUME BillingInv, NEW d \in Subscriptions, NEW t, WebhookSetsStatus(d, t)
    PROVE  row' \in [Users -> SUBSET Row] /\ OneRow' /\ RowIsOneSubscription'
<1> DEFINE status == IF t = "subscription.cancelled" THEN "CANCELED" ELSE "PAST_DUE"
           f == [r \in Row |-> [r EXCEPT !.status = status]]
<1>1. row' = [u \in Users |-> IF u \in RowWith(d) THEN {[r EXCEPT !.status = status] : r \in row[u]} ELSE row[u]]
  BY DEF WebhookSetsStatus, updateSubscriptionByDodoId
<1>2. status \in Statuses
  BY DEF Statuses
<1> HIDE DEF status
<1>3. f \in [Row -> Row] /\ \A r \in Row : f[r].dodo = r.dodo /\ f[r].customer = r.customer
  BY <1>2 DEF Row
<1>4. row' = [u \in Users |-> IF u \in RowWith(d) THEN {f[r] : r \in row[u]} ELSE row[u]]
  BY <1>1 DEF BillingInv, BillingTypes
<1> HIDE DEF f
<1> QED  BY <1>3, <1>4, RowsUpdated

\* What a handler's sync writes, whether or not the row is still as it was found.
LEMMA SyncWrites ==
    ASSUME BillingInv, NEW d \in Subscriptions, NEW remote \in Remote,
           remote.status \in {"none", "active", "cancelled", "expired", "failed"},
           NEW existing \in BOOLEAN, Synced(d, remote, existing)
    PROVE  row' \in [Users -> SUBSET Row] /\ OneRow' /\ RowIsOneSubscription'
<1> DEFINE status == mapDodoStatusToInternal(remote.status)
           f == [r \in Row |-> [r EXCEPT !.status = status,
                                  !.plan = IF remote.product = NoPlan THEN r.plan ELSE remote.product]]
<1>1. status \in Statuses
  BY InternalStatus
<1>2. remote.product \in Tiers \cup {NoPlan}
  BY DEF Remote
<1>3. CASE row' = row
  BY <1>3 DEF BillingInv, BillingTypes, OneRow, RowIsOneSubscription
<1>4. CASE updateSubscriptionByDodoId(d, LAMBDA r : [r EXCEPT !.status = mapDodoStatusToInternal(remote.status),
              !.plan = IF remote.product = NoPlan THEN @ ELSE remote.product])
  <2>1. row' = [u \in Users |-> IF u \in RowWith(d)
             THEN {[r EXCEPT !.status = status,
                      !.plan = IF remote.product = NoPlan THEN r.plan ELSE remote.product] : r \in row[u]}
             ELSE row[u]]
    BY <1>4 DEF updateSubscriptionByDodoId
  <2> HIDE DEF status
  <2>2. f \in [Row -> Row] /\ \A r \in Row : f[r].dodo = r.dodo /\ f[r].customer = r.customer
    BY <1>1, <1>2 DEF Row
  <2>3. row' = [u \in Users |-> IF u \in RowWith(d) THEN {f[r] : r \in row[u]} ELSE row[u]]
    BY <2>1 DEF BillingInv, BillingTypes
  <2> HIDE DEF f
  <2> QED  BY <2>2, <2>3, RowsUpdated
<1>5. CASE /\ remote.product # NoPlan
           /\ upsertSubscription(d, [dodo |-> d, customer |-> CustomerOf[d],
                                     plan |-> remote.product, status |-> status])
  <2> DEFINE new == [dodo |-> d, customer |-> CustomerOf[d], plan |-> remote.product, status |-> status]
  <2>1. row' = [row EXCEPT ![OwnerOf[d]] = {new}] /\ OwnerOf[d] \in Users
    BY <1>5, BillingAssumption DEF upsertSubscription
  <2>2. new \in Row /\ new.dodo = d /\ new.customer = CustomerOf[d]
    BY <1>1, <1>2, <1>5 DEF Row, Customers
  <2> HIDE DEF new, status
  <2> QED  BY <2>1, <2>2 DEF BillingInv, BillingTypes, OneRow, RowIsOneSubscription
<1> QED  BY <1>3, <1>4, <1>5 DEF Synced

LEMMA PlanWritten ==
    ASSUME BillingInv, NEW u \in Users, WritePlan(u)
    PROVE  row' \in [Users -> SUBSET Row] /\ OneRow' /\ RowIsOneSubscription'
<1> DEFINE old == changing[u].old  tier == changing[u].tier
           f == [r \in Row |-> [r EXCEPT !.status = old.status, !.plan = tier]]
<1>1. old \in Row /\ tier \in Tiers
  BY DEF WritePlan, BillingInv, BillingTypes, Changing, Idle
<1>2. old.status \in Statuses
  BY <1>1 DEF Row
<1>3. row' = [v \in Users |-> IF v \in RowWith(old.dodo)
           THEN {[r EXCEPT !.status = old.status, !.plan = tier] : r \in row[v]} ELSE row[v]]
  BY DEF WritePlan, updateSubscriptionByDodoId
<1> HIDE DEF old, tier
<1>4. f \in [Row -> Row] /\ \A r \in Row : f[r].dodo = r.dodo /\ f[r].customer = r.customer
  BY <1>1, <1>2 DEF Row
<1>5. row' = [v \in Users |-> IF v \in RowWith(old.dodo) THEN {f[r] : r \in row[v]} ELSE row[v]]
  BY <1>3 DEF BillingInv, BillingTypes
<1> HIDE DEF f
<1> QED  BY <1>4, <1>5, RowsUpdated

\* The provider's steps.
LEMMA ProviderStep ==
    ASSUME BillingInv, NEW d \in Subscriptions,
           \/ \E p \in Tiers \cup {NoPlan} : Checkout(d, p)
           \/ Cancels(d) \/ Expires(d) \/ PaymentFails(d) \/ Renews(d)
    PROVE  BillingInv'
<1> USE DEF BillingInv, BillingTypes
<1>1. provider[d] \in Remote
  OBVIOUS
<1>2. ASSUME NEW p \in Tiers \cup {NoPlan}, Checkout(d, p) PROVE BillingInv'
  <2>1. provider' \in [Subscriptions -> Remote] /\ outbox' \subseteq Webhooks
    BY <1>2 DEF Checkout, Remote, Report, Webhooks, EventTypes
  <2> QED  BY <1>2, <2>1 DEF Checkout, OneRow, RowIsOneSubscription
<1>3. ASSUME NEW from, NEW to \in {"active", "cancelled", "expired", "failed"}, NEW types \in SUBSET EventTypes,
             ProviderMoves(d, from, to, types)
      PROVE  BillingInv'
  <2>1. provider' \in [Subscriptions -> Remote]
    BY <1>1, <1>3 DEF ProviderMoves, Remote
  <2>2. outbox' \subseteq Webhooks
    BY <1>3 DEF ProviderMoves, Report, Webhooks
  <2>3. changes' \in 0..MaxChanges
    BY <1>3, BillingAssumption DEF ProviderMoves
  <2> QED  BY <1>3, <2>1, <2>2, <2>3 DEF ProviderMoves, OneRow, RowIsOneSubscription
<1>4. CASE Cancels(d)
  BY <1>3, <1>4 DEF Cancels, EventTypes
<1>5. CASE Expires(d)
  <2>1. {} \in SUBSET EventTypes /\ ProviderMoves(d, {"active", "failed"}, "expired", {})
    BY <1>5 DEF Expires
  <2> QED  BY <1>3, <2>1
<1>6. CASE PaymentFails(d)
  BY <1>3, <1>6 DEF PaymentFails, EventTypes
<1>7. CASE Renews(d)
  BY <1>3, <1>7 DEF Renews, EventTypes
<1> QED  BY <1>2, <1>4, <1>5, <1>6, <1>7

LEMMA WebhookStep ==
    ASSUME BillingInv, NEW d \in Subscriptions, NEW t \in EventTypes,
           \/ WebhookSetsStatus(d, t) \/ Retrieve(d, t) \/ FindExisting(d, t)
           \/ WebhookSyncs(d, t) \/ WebhookFails(d, t)
    PROVE  BillingInv'
<1> USE DEF BillingInv, BillingTypes
<1> DEFINE w == <<d, t>>
<1>0. w \in Webhooks
  BY DEF Webhooks
<1>1. ASSUME Answered(w) \/ WillBeSentAgain(w)
      PROVE  handling' \in [Webhooks -> Handling] /\ outbox' \subseteq Webhooks
  BY <1>0, <1>1 DEF Answered, WillBeSentAgain, Handling
<1>2. ASSUME UNCHANGED row PROVE row' \in [Users -> SUBSET Row] /\ OneRow' /\ RowIsOneSubscription'
  BY <1>2 DEF OneRow, RowIsOneSubscription
<1>3. CASE WebhookSetsStatus(d, t)
  <2>1. UNCHANGED <<provider, changing, changes>> /\ (Answered(w) \/ WillBeSentAgain(w))
    BY <1>3 DEF WebhookSetsStatus
  <2> QED  BY <1>1, <1>3, <2>1, StatusSet
<1>4. CASE Retrieve(d, t)
  <2>1. [at |-> "retrieved", remote |-> provider[d]] \in Handling
    BY DEF Handling
  <2> QED  BY <1>0, <1>2, <1>4, <2>1 DEF Retrieve
<1>5. CASE FindExisting(d, t)
  <2>1. handling[w].remote \in Remote
    BY <1>0, <1>5 DEF FindExisting, Handling, Idle
  <2>2. \A b \in BOOLEAN : [at |-> "found", remote |-> handling[w].remote, existing |-> b] \in Handling
    BY <2>1 DEF Handling
  <2>3. (RowWith(d) # {}) \in BOOLEAN
    OBVIOUS
  <2>4. handling' \in [Webhooks -> Handling]
    BY <1>0, <1>5, <2>2, <2>3 DEF FindExisting
  <2> QED  BY <1>2, <1>5, <2>4 DEF FindExisting
<1>6. CASE WebhookSyncs(d, t)
  <2>1. /\ handling[w].at = "found" /\ Synced(d, handling[w].remote, handling[w].existing)
        /\ UNCHANGED <<provider, changing, changes>> /\ (Answered(w) \/ WillBeSentAgain(w))
    BY <1>6 DEF WebhookSyncs
  <2>2. handling[w].remote \in Remote /\ handling[w].existing \in BOOLEAN
    BY <1>0, <2>1 DEF Handling, Idle
  <2>3. handling[w].remote.status \in {"none", "active", "cancelled", "expired", "failed"}
    BY <2>2 DEF Remote
  <2>4. row' \in [Users -> SUBSET Row] /\ OneRow' /\ RowIsOneSubscription'
    BY <2>1, <2>2, <2>3, SyncWrites
  <2> QED  BY <1>1, <2>1, <2>4
<1>7. CASE WebhookFails(d, t)
  <2>1. WillBeSentAgain(w) /\ UNCHANGED <<provider, row, changing, changes>>
    BY <1>7 DEF WebhookFails
  <2> QED  BY <1>1, <1>2, <2>1
<1> QED  BY <1>3, <1>4, <1>5, <1>6, <1>7

LEMMA ChangeStep ==
    ASSUME BillingInv, NEW u \in Users,
           \/ \E t \in Tiers : ReadForChange(u, t)
           \/ ProviderChangesPlan(u) \/ WritePlan(u) \/ ChangeFails(u)
    PROVE  BillingInv'
<1> USE DEF BillingInv, BillingTypes
<1>1. Idle \in Changing
  BY DEF Changing
<1>2. ASSUME NEW t \in Tiers, ReadForChange(u, t) PROVE BillingInv'
  <2>1. PICK r \in row[u] : changing' = [changing EXCEPT ![u] = [at |-> "read", old |-> r, tier |-> t]]
    BY <1>2 DEF ReadForChange
  <2>2. [at |-> "read", old |-> r, tier |-> t] \in Changing
    BY DEF Changing
  <2>3. changes' \in 0..MaxChanges
    BY <1>2, BillingAssumption DEF ReadForChange
  <2> QED  BY <1>2, <2>1, <2>2, <2>3 DEF ReadForChange, OneRow, RowIsOneSubscription
<1>3. CASE ProviderChangesPlan(u)
  <2>1. changing[u] \in [at : {"read", "changed"}, old : Row, tier : Tiers]
    BY <1>3 DEF ProviderChangesPlan, Changing, Idle
  <2>2. changing[u].old.dodo \in Subscriptions /\ changing[u].tier \in Tiers
    BY <2>1 DEF Row
  <2>3. provider' \in [Subscriptions -> Remote]
    <3>1. provider[changing[u].old.dodo] \in Remote
      BY <2>2
    <3> QED  BY <1>3, <2>2, <3>1 DEF ProviderChangesPlan, Remote
  <2>4. outbox' \subseteq Webhooks
    BY <1>3, <2>2 DEF ProviderChangesPlan, Report, Webhooks, EventTypes
  <2>5. changing' \in [Users -> Changing]
    <3>1. [changing[u] EXCEPT !.at = "changed"] \in Changing
      BY <2>1 DEF Changing
    <3> QED  BY <1>3, <3>1 DEF ProviderChangesPlan
  <2> QED  BY <1>3, <2>3, <2>4, <2>5 DEF ProviderChangesPlan, OneRow, RowIsOneSubscription
<1>4. CASE WritePlan(u)
  <2>1. changing' = [changing EXCEPT ![u] = Idle] /\ UNCHANGED <<provider, outbox, handling, changes>>
    BY <1>4 DEF WritePlan
  <2> QED  BY <1>1, <1>4, <2>1, PlanWritten
<1>5. CASE ChangeFails(u)
  BY <1>1, <1>5 DEF ChangeFails, OneRow, RowIsOneSubscription
<1> QED  BY <1>2, <1>3, <1>4, <1>5

LEMMA BillingStep == BillingInv /\ (BillingNext \/ UNCHANGED billingVars) => BillingInv'
<1> SUFFICES ASSUME BillingInv, BillingNext \/ UNCHANGED billingVars PROVE BillingInv'
  OBVIOUS
<1>1. CASE UNCHANGED billingVars
  BY <1>1 DEF billingVars, BillingInv, BillingTypes, OneRow, RowIsOneSubscription
<1>2. CASE BillingNext
  BY <1>2, ProviderStep, WebhookStep, ChangeStep DEF BillingNext, SyncTypes, EventTypes
<1> QED  BY <1>1, <1>2

LEMMA BillingStarts == BillingInit => BillingInv
  BY BillingAssumption DEF BillingInit, BillingInv, BillingTypes, Remote, Handling, Changing, OneRow,
     RowIsOneSubscription

-----------------------------------------------------------------------------
(* The expiry.                                                              *)

RunState == [at : {"idle", "loop", "cleanup"}, todo : SUBSET Users, days : [Users -> Nat]]

EventTypeOK ==
    /\ today \in 0..MaxDay
    /\ created \in [Events -> 0..MaxDay \cup {-1}]
    /\ deletedAt \in [Events -> 0..MaxDay \cup {-1}]
    /\ logs \subseteq Events
    /\ run \in [Runs -> RunState]
    /\ held \in [Runs -> [Users -> SUBSET Nat]]
    /\ selected \subseteq Events

\* While a run goes through the users, the days it listed for each are among those
\* the user's plans have given since.
ListedIsHeld ==
    \A r \in Runs : run[r].at = "loop" => \A u \in Users : run[r].days[u] \in held[r][u]

RetentionInv == BillingInv /\ EventTypeOK /\ ListedIsHeld

LEMMA RetentionDaysOf ==
    ASSUME NEW rows \in [Users -> SUBSET Row], NEW u \in Users
    PROVE  Retention(rows, u) \in Nat
<1>1. CASE rows[u] = {}
  BY <1>1, RetentionAssumption DEF Retention
<1>2. CASE rows[u] # {}
  <2>1. (CHOOSE r \in rows[u] : TRUE) \in Row
    BY <1>2
  <2>2. (CHOOSE r \in rows[u] : TRUE).plan \in Tiers
    BY <2>1 DEF Row
  <2> QED  BY <1>2, <2>2, RetentionAssumption DEF Retention
<1> QED  BY <1>1, <1>2

LEMMA RestIsTyped ==
    AtRest \in RunState
  BY RetentionAssumption DEF AtRest, RunState

\* Taking a user off a run's list leaves a run.
LEMMA UserDoneIsTyped ==
    ASSUME NEW f \in [Runs -> RunState], NEW r \in Runs, NEW u \in Users
    PROVE  [f EXCEPT ![r].todo = @ \ {u},
                     ![r].at = IF f[r].todo = {u} THEN "cleanup" ELSE @] \in [Runs -> RunState]
<1> DEFINE a == IF f[r].todo = {u} THEN "cleanup" ELSE f[r].at
           g == [f[r] EXCEPT !.todo = @ \ {u}, !.at = a]
<1>1. f[r] \in RunState /\ a \in {"idle", "loop", "cleanup"}
  BY DEF RunState
<1>2. g \in RunState
  <2> HIDE DEF a
  <2> QED  BY <1>1 DEF RunState
<1>3. [f EXCEPT ![r].todo = @ \ {u}, ![r].at = IF f[r].todo = {u} THEN "cleanup" ELSE @] = [f EXCEPT ![r] = g]
  OBVIOUS
<1> HIDE DEF g
<1> QED  BY <1>2, <1>3

LEMMA RetentionStep == RetentionInv /\ [RetentionNext]_retentionVars => RetentionInv'
<1> SUFFICES ASSUME RetentionInv, [RetentionNext]_retentionVars PROVE RetentionInv'
  OBVIOUS
<1> USE RetentionAssumption DEF RetentionInv
<1>1. BillingInv'
  BY BillingStep DEF RetentionNext, Bill, NextDay, Received, ListUsers, CleanupLogs, RunEnds, ExpireUser,
     SelectForDelete, DeleteSelected, retentionVars
<1>2. EventTypeOK' /\ ListedIsHeld'
  <2> USE DEF EventTypeOK, RunState
  <2>1. CASE Bill
    <3>1. \A u \in Users : Retention(row', u) \in Nat
      BY <1>1, RetentionDaysOf DEF BillingInv, BillingTypes
    <3>2. held' \in [Runs -> [Users -> SUBSET Nat]]
      BY <2>1, <3>1 DEF Bill
    <3>3. \A r \in Runs, u \in Users : held[r][u] \subseteq held'[r][u]
      BY <2>1 DEF Bill
    <3> QED  BY <2>1, <3>2, <3>3 DEF Bill, ListedIsHeld
  <2>2. CASE NextDay
    BY <2>2 DEF NextDay, ListedIsHeld
  <2>3. ASSUME NEW e \in Events, Received(e) PROVE EventTypeOK' /\ ListedIsHeld'
    BY <2>3 DEF Received, ListedIsHeld
  <2>4. ASSUME NEW r \in Runs, ListUsers(r) PROVE EventTypeOK' /\ ListedIsHeld'
    <3>1. \A u \in Users : Retention(row, u) \in Nat
      BY RetentionDaysOf DEF BillingInv, BillingTypes
    <3>2. /\ run' = [run EXCEPT ![r] = [at |-> "loop", todo |-> Users,
                                        days |-> [u \in Users |-> Retention(row, u)]]]
          /\ held' = [held EXCEPT ![r] = [u \in Users |-> {Retention(row, u)}]]
      BY <2>4 DEF ListUsers
    <3>3. EventTypeOK'
      BY <2>4, <3>1, <3>2 DEF ListUsers
    <3>4. ListedIsHeld'
      BY <3>1, <3>2 DEF ListedIsHeld
    <3> QED  BY <3>3, <3>4
  <2>5. ASSUME NEW r \in Runs, RunIsOver(r), UNCHANGED <<today, created, deletedAt, selected>>,
               logs' \subseteq logs
        PROVE  EventTypeOK' /\ ListedIsHeld'
    <3>1. run' = [run EXCEPT ![r] = AtRest] /\ held' = [held EXCEPT ![r] = [u \in Users |-> {}]]
      BY <2>5 DEF RunIsOver
    <3>2. EventTypeOK'
      BY <2>5, <3>1, RestIsTyped
    <3>3. ListedIsHeld'
      BY <3>1 DEF ListedIsHeld, AtRest
    <3> QED  BY <3>2, <3>3
  <2>6. ASSUME NEW r \in Runs, CleanupLogs(r) \/ RunEnds(r) PROVE EventTypeOK' /\ ListedIsHeld'
    BY <2>5, <2>6 DEF CleanupLogs, RunEnds
  <2>7. ASSUME NEW es, SoftDelete(es) PROVE deletedAt' \in [Events -> 0..MaxDay \cup {-1}]
    BY <2>7 DEF SoftDelete
  <2>8. ASSUME NEW r \in Runs, NEW u \in Users, ExpireUser(r, u) PROVE EventTypeOK' /\ ListedIsHeld'
    <3>1. /\ run[r].at = "loop"
          /\ run' = [run EXCEPT ![r].todo = @ \ {u},
                                ![r].at = IF run[r].todo = {u} THEN "cleanup" ELSE @]
          /\ UNCHANGED <<today, created, logs, held, selected>>
      BY <2>8 DEF ExpireUser
    <3>2. deletedAt' \in [Events -> 0..MaxDay \cup {-1}]
      BY <2>7, <2>8 DEF ExpireUser
    <3>3. run' \in [Runs -> RunState]
      <4>1. run \in [Runs -> RunState]
        OBVIOUS
      <4> HIDE DEF RunState, RetentionInv, EventTypeOK
      <4>2. [run EXCEPT ![r].todo = @ \ {u},
                        ![r].at = IF run[r].todo = {u} THEN "cleanup" ELSE @] \in [Runs -> RunState]
        BY <4>1, UserDoneIsTyped
      <4> QED  BY <3>1, <4>2
    <3>4. \A s \in Runs : run'[s].days = run[s].days /\ (run'[s].at = "loop" => run[s].at = "loop")
      BY <3>1
    <3> QED  BY <3>1, <3>2, <3>3, <3>4 DEF ListedIsHeld
  <2>9. ASSUME NEW u \in Users, NEW es \in SUBSET Events, SelectForDelete(u, es)
        PROVE  EventTypeOK' /\ ListedIsHeld'
    BY <2>9 DEF SelectForDelete, ListedIsHeld
  <2>10. CASE DeleteSelected
    BY <2>7, <2>10 DEF DeleteSelected, ListedIsHeld
  <2>11. CASE UNCHANGED retentionVars
    BY <2>11 DEF retentionVars, eventVars, ListedIsHeld
  <2> QED  BY <2>1, <2>2, <2>3, <2>4, <2>6, <2>8, <2>9, <2>10, <2>11 DEF RetentionNext
<1> QED  BY <1>1, <1>2

LEMMA RetentionStarts == RetentionInit => RetentionInv
<1> SUFFICES ASSUME RetentionInit PROVE RetentionInv
  OBVIOUS
<1>1. BillingInv
  BY BillingStarts DEF RetentionInit
<1>2. EventTypeOK /\ ListedIsHeld
  BY RestIsTyped, RetentionAssumption DEF RetentionInit, EventTypeOK, ListedIsHeld, AtRest
<1> QED  BY <1>1, <1>2 DEF RetentionInv

-----------------------------------------------------------------------------
\* For any users and subscriptions, whatever webhooks come twice, late or in another
\* order beside changes of plan: a user's row is of a subscription of the user, with
\* the customer that pays for it, and there is one at most.
THEOREM RowsAreOneSubscription == RetentionSpec => [](RowIsOneSubscription /\ OneRow)
<1>1. RetentionInv => RowIsOneSubscription /\ OneRow
  BY DEF RetentionInv, BillingInv
<1> QED  BY <1>1, RetentionStarts, RetentionStep, PTL DEF RetentionSpec

\* For any plans, runs and days: the expiry deletes no event that each plan its owner
\* has had since the run began would keep.
THEOREM ExpiryFollowsThePlan == RetentionSpec => ExpiresUnderOwnPlan
<1>1. ASSUME RetentionInv, [RetentionNext]_retentionVars, NEW e \in Events, deletedAt[e] = -1, deletedAt'[e] # -1,
             selected' = selected
      PROVE  \E r \in Runs : \E d \in held[r][EventOwner[e]] : Older(created[e], d)
  <2>1. ~DeleteSelected
    BY <1>1 DEF DeleteSelected
  <2>2. PICK r \in Runs, u \in Users : ExpireUser(r, u)
    BY <1>1, <2>1 DEF RetentionNext, Bill, NextDay, Received, ListUsers, CleanupLogs, RunEnds, SelectForDelete,
       retentionVars, eventVars
  <2>3. e \in Expired(u, run[r].days[u]) /\ run[r].at = "loop"
    BY <1>1, <2>2 DEF ExpireUser, SoftDelete
  <2>4. EventOwner[e] = u /\ Older(created[e], run[r].days[u])
    BY <2>3 DEF Expired
  <2>5. run[r].days[u] \in held[r][u]
    BY <1>1, <2>3 DEF RetentionInv, ListedIsHeld
  <2> QED  BY <2>4, <2>5
<1>2. RetentionInv /\ [RetentionNext]_retentionVars =>
          [\A e \in Events : (deletedAt[e] = -1 /\ deletedAt'[e] # -1 /\ selected' = selected) =>
               \E r \in Runs : \E d \in held[r][EventOwner[e]] : Older(created[e], d)]_retentionVars
  BY <1>1
<1> QED  BY <1>2, RetentionStarts, RetentionStep, PTL DEF RetentionSpec, ExpiresUnderOwnPlan

-----------------------------------------------------------------------------
(***************************************************************************)
(* Alerts and their streams.                                               *)
(***************************************************************************)

USE DEF rowVars, evalVars, streamVars

-----------------------------------------------------------------------------
(* The invariant.                                                           *)

Keys == Evaluations \X Alerts

AlertTypes ==
    /\ alert \in [Alerts -> {NoAlert, Deleted} \cup Rows]
    /\ at \in [Evaluations -> {"idle", "loop", "count", "create", "send", "done", "lost"}]
    /\ listed \in [Evaluations -> SUBSET (Alerts \X Rows)]
    /\ todo \in [Evaluations -> SUBSET (Alerts \X Rows)]
    /\ current \in [Evaluations -> SUBSET (Alerts \X Rows)]
    /\ logged \in [Evaluations -> SUBSET Alerts]
    /\ triggers \subseteq Keys
    /\ handler \in [Streams -> {"none", "auth", "deaf", "streaming", "stuck", "left"}]
    /\ wire \in [Streams -> {"new", "up", "closed"}]
    /\ connections \subseteq Streams
    /\ pushed \in Seq(Keys)
    /\ joined \in [Streams -> 0..Len(pushed)]
    /\ received \in [Streams -> Seq(Keys)]

\* What has become of an alert an evaluation is done with.
Settled(e, l) ==
    e \in Messages /\ Due(e, l[2]) =>
        <<e, l[1]>> \in triggers \/ l[1] \in logged[e] \/ alert[l[1]] = Deleted

\* An evaluation has an alert before it, or has settled it; the one it is at is the
\* one it counts for, or whose trigger it has stored and not yet sent.
EvaluationOK(e) ==
    /\ current[e] \subseteq todo[e] /\ todo[e] \subseteq listed[e]
    /\ \A k, l \in current[e] : k = l
    /\ at[e] \in {"idle", "loop"} => current[e] = {}
    /\ \A l \in listed[e] : alert[l[1]] # NoAlert
    /\ at[e] = "done" => todo[e] = {}
    /\ at[e] # "lost" => \A l \in listed[e] \ todo[e] : Settled(e, l)
    /\ at[e] = "count" => \A l \in current[e] : l[2].type = "failureRate"
    /\ at[e] = "send" => \A l \in current[e] :
           <<e, l[1]>> \in triggers \/ alert[l[1]] = Deleted

\* A stream is in the registry, once and from its handler's run on, until the page
\* closes it.
StreamOK(s) ==
    /\ wire[s] = "new" => handler[s] = "none"
    /\ handler[s] \in {"none", "auth", "deaf"} => received[s] = <<>> /\ s \notin connections
    /\ handler[s] = "streaming" /\ wire[s] = "up" =>
          s \in connections /\ received[s] = SubSeq(pushed, joined[s] + 1, Len(pushed))

\* What was sent had been stored; the trigger may have gone with its alert since.
SentWasStored ==
    \A i \in 1..Len(pushed) : pushed[i] \in triggers \/ alert[pushed[i][2]] = Deleted

AlertInv ==
    /\ AlertTypes
    /\ \A e \in Evaluations : EvaluationOK(e)
    /\ \A s \in Streams : StreamOK(s)
    /\ SentWasStored

-----------------------------------------------------------------------------
(* The routes.                                                              *)

LEMMA NewRow ==
    ASSUME NEW b \in BOOLEAN, NEW n \in NewAlerts
    PROVE  RowOf(n, b) \in Rows
  BY AlertAssumption DEF RowOf, Rows, Configs

LEMMA PatchedRow ==
    ASSUME NEW r \in Rows, NEW p \in Patches
    PROVE  Patched(r, p) \in Rows
<1>1. /\ "active" \in DOMAIN p => p.active \in BOOLEAN
      /\ "type" \in DOMAIN p => p.type \in Types
      /\ "config" \in DOMAIN p => p.config \in Configs
  BY DEF Patches
<1>2. PICK b \in BOOLEAN : b = IF "active" \in DOMAIN p THEN p.active ELSE TRUE
  BY <1>1
<1>3. PICK t \in Types : t = IF "type" \in DOMAIN p THEN p.type ELSE r.type
  BY <1>1 DEF Rows
<1>4. PICK c \in Configs : c = IF "config" \in DOMAIN p THEN p.config ELSE r.config
  BY <1>1 DEF Rows
<1>5. Patched(r, p) = [r EXCEPT !.active = b, !.type = t, !.config = c]
  BY <1>2, <1>3, <1>4 DEF Patched, Rows
<1> QED  BY <1>5 DEF Rows

\* A call that changes an alert neither brings it back nor undoes a trigger.
LEMMA RowWritten ==
    ASSUME AlertInv, NEW a \in Alerts, NEW r \in {Deleted} \cup Rows, WriteAlert(a, r),
           alert[a] # Deleted,
           triggers' = triggers \/ (r = Deleted /\ triggers' = {k \in triggers : k[2] # a})
    PROVE  AlertInv'
<1> USE DEF AlertInv
<1>1. /\ alert' = [alert EXCEPT ![a] = r] /\ UNCHANGED <<evalVars, streamVars>>
  BY DEF WriteAlert
<1>2. /\ alert' \in [Alerts -> {NoAlert, Deleted} \cup Rows] /\ triggers' \subseteq Keys
  BY <1>1 DEF AlertTypes
<1>3. AlertTypes'
  BY <1>1, <1>2 DEF AlertTypes
<1>4. r # NoAlert
  BY AlertAssumption
<1>5. \A b \in Alerts : (alert[b] # NoAlert => alert'[b] # NoAlert)
                        /\ (alert[b] = Deleted => alert'[b] = Deleted)
  BY <1>1, <1>4 DEF AlertTypes
<1>6. \A k \in triggers : k \in triggers' \/ alert'[k[2]] = Deleted
  BY <1>1 DEF AlertTypes, Keys
<1>7. ASSUME NEW e \in Evaluations PROVE EvaluationOK(e)'
  <2>1. EvaluationOK(e) /\ listed[e] \subseteq Alerts \X Rows /\ current[e] \subseteq listed[e]
    BY DEF AlertTypes, EvaluationOK
  <2>2. \A l \in listed[e] : l[1] \in Alerts /\ <<e, l[1]>>[2] = l[1]
    BY <2>1
  <2>3. \A l \in listed[e] : Settled(e, l) => Settled(e, l)'
    BY <1>1, <1>5, <1>6, <2>2 DEF Settled, Due, InScope, Says, Fits
  <2> QED  BY <1>1, <1>5, <1>6, <2>1, <2>2, <2>3 DEF EvaluationOK
<1>8. \A s \in Streams : StreamOK(s)'
  BY <1>1 DEF StreamOK
<1>9. SentWasStored'
  <2>1. ASSUME NEW i \in 1..Len(pushed) PROVE pushed[i] \in Keys /\ pushed[i][2] \in Alerts
    BY DEF AlertTypes, Keys
  <2> QED  BY <1>1, <1>5, <1>6, <2>1 DEF SentWasStored
<1> QED  BY <1>3, <1>7, <1>8, <1>9

LEMMA RoutesStep ==
    ASSUME AlertInv, NEW a \in Alerts,
           \/ \E n \in NewAlerts, b \in BOOLEAN : Create(a, n, b)
           \/ \E p \in Patches : Update(a, p)
           \/ Delete(a)
    PROVE  AlertInv'
<1> USE AlertAssumption
<1>1. ASSUME NEW n \in NewAlerts, NEW b \in BOOLEAN, Create(a, n, b) PROVE AlertInv'
  <2>1. RowOf(n, b) \in Rows
    BY NewRow
  <2> QED  BY <1>1, <2>1, RowWritten DEF Create
<1>2. ASSUME NEW p \in Patches, Update(a, p) PROVE AlertInv'
  <2>1. alert[a] \in Rows
    BY <1>2 DEF Update, Exists, AlertInv, AlertTypes
  <2>2. Patched(alert[a], p) \in Rows
    BY <2>1, PatchedRow
  <2> QED  BY <1>2, <2>1, <2>2, RowWritten DEF Update
<1>3. ASSUME Delete(a) PROVE AlertInv'
  BY <1>3, RowWritten DEF Delete, Exists
<1> QED  BY <1>1, <1>2, <1>3

-----------------------------------------------------------------------------
(* Evaluations.                                                             *)

\* A step of one evaluation leaves the alerts and the streams alone.
LEMMA OthersKept ==
    ASSUME AlertInv, NEW e \in Evaluations, UNCHANGED alert, triggers \subseteq triggers',
           NEW f \in Evaluations, f # e,
           at'[f] = at[f], listed'[f] = listed[f], todo'[f] = todo[f], current'[f] = current[f],
           logged'[f] = logged[f]
    PROVE  EvaluationOK(f)'
<1>1. EvaluationOK(f)
  BY DEF AlertInv
<1>2. \A l : Settled(f, l) => Settled(f, l)'
  BY DEF Settled, Due, InScope, Says, Fits
<1> QED  BY <1>1, <1>2 DEF EvaluationOK

\* The types of a turn's end, and what it keeps of the evaluation.
LEMMA Continued ==
    ASSUME AlertInv, NEW e \in Evaluations, NEW l \in todo[e], NEW x \in BOOLEAN, Continue(e, l, x),
           at[e] \in {"loop", "count", "create", "send"},
           UNCHANGED <<alert, triggers>>, x \/ Settled(e, l)
    PROVE  /\ at' \in [Evaluations -> {"idle", "loop", "count", "create", "send", "done", "lost"}]
           /\ listed' \in [Evaluations -> SUBSET (Alerts \X Rows)]
           /\ todo' \in [Evaluations -> SUBSET (Alerts \X Rows)]
           /\ current' \in [Evaluations -> SUBSET (Alerts \X Rows)]
           /\ logged' \in [Evaluations -> SUBSET Alerts]
           /\ \A f \in Evaluations : EvaluationOK(f)'
<1> USE DEF AlertInv, AlertTypes
<1>1. /\ at' = [at EXCEPT ![e] = "loop"] /\ todo' = [todo EXCEPT ![e] = @ \ {l}]
      /\ current' = [current EXCEPT ![e] = {}] /\ listed' = listed
      /\ logged' = [logged EXCEPT ![e] = IF x THEN @ \cup {l[1]} ELSE @]
  BY DEF Continue
<1>2. l \in Alerts \X Rows /\ l[1] \in Alerts
  OBVIOUS
<1>3. /\ at' \in [Evaluations -> {"idle", "loop", "count", "create", "send", "done", "lost"}]
      /\ listed' \in [Evaluations -> SUBSET (Alerts \X Rows)]
      /\ todo' \in [Evaluations -> SUBSET (Alerts \X Rows)]
      /\ current' \in [Evaluations -> SUBSET (Alerts \X Rows)]
      /\ logged' \in [Evaluations -> SUBSET Alerts]
  BY <1>1, <1>2
<1>4. \A f \in Evaluations : f # e => EvaluationOK(f)'
  BY <1>1, OthersKept
<1>5. EvaluationOK(e)'
  <2>1. /\ at'[e] = "loop" /\ todo'[e] = todo[e] \ {l} /\ current'[e] = {} /\ listed'[e] = listed[e]
        /\ logged[e] \subseteq logged'[e] /\ (x => l[1] \in logged'[e])
    BY <1>1
  <2>2. \A k : Settled(e, k) => Settled(e, k)'
    BY <2>1 DEF Settled, Due, InScope, Says, Fits
  <2>3. Settled(e, l)'
    BY <2>1, <2>2 DEF Settled
  <2> QED  BY <2>1, <2>2, <2>3 DEF EvaluationOK
<1> QED  BY <1>3, <1>4, <1>5

\* A turn that waits.
LEMMA Awaited ==
    ASSUME AlertInv, NEW e \in Evaluations, NEW l \in todo[e], NEW pc \in {"count", "create"},
           Await(e, l, pc), at[e] \in {"loop", "count"}, pc = "count" => l[2].type = "failureRate",
           UNCHANGED <<alert, triggers>>
    PROVE  /\ at' \in [Evaluations -> {"idle", "loop", "count", "create", "send", "done", "lost"}]
           /\ current' \in [Evaluations -> SUBSET (Alerts \X Rows)]
           /\ UNCHANGED <<listed, todo, logged>>
           /\ \A f \in Evaluations : EvaluationOK(f)'
<1> USE DEF AlertInv, AlertTypes
<1>1. /\ at' = [at EXCEPT ![e] = pc] /\ current' = [current EXCEPT ![e] = {l}]
      /\ UNCHANGED <<listed, todo, counted, logged>>
  BY DEF Await
<1>2. \A f \in Evaluations : f # e => EvaluationOK(f)'
  BY <1>1, OthersKept
<1>3. EvaluationOK(e)'
  <2>1. at'[e] = pc /\ current'[e] = {l}
    BY <1>1
  <2>2. \A k : Settled(e, k) => Settled(e, k)'
    BY <1>1 DEF Settled, Due, InScope, Says, Fits
  <2> QED  BY <1>1, <2>1, <2>2 DEF EvaluationOK
<1> QED  BY <1>1, <1>2, <1>3

LEMMA StreamsKept ==
    ASSUME AlertInv, UNCHANGED <<alert, streamVars>>, triggers \subseteq triggers'
    PROVE  (\A s \in Streams : StreamOK(s)') /\ SentWasStored'
  BY DEF AlertInv, StreamOK, SentWasStored

\* What is due is not skipped: the loop goes on to store its trigger.
LEMMA VerdictSettles ==
    ASSUME AlertInv, NEW e \in Evaluations, NEW l, "continue" \in Verdicts(e, l[2])
    PROVE  Settled(e, l)
<1> SUFFICES ASSUME e \in Messages, InScope(e, l[2]), Says(e, l[2]) PROVE FALSE
  BY DEF Settled, Due
<1>1. e \notin Tests /\ e \notin Ticks
  BY AlertAssumption
<1>2. /\ Fits(l[2].config, l[2].type) /\ l[2].type \in {"errorCode", "eventFailed"}
  BY DEF Says
<1>3. ~Throws(l[2].config, l[2].type)
  BY <1>2 DEF Throws
<1> QED  BY <1>1, <1>2, <1>3 DEF Verdicts

LEMMA CountsFailureRates ==
    ASSUME NEW e \in Evaluations, NEW l, "count" \in Verdicts(e, l[2])
    PROVE  l[2].type = "failureRate"
  BY DEF Verdicts

LEMMA TurnStep ==
    ASSUME AlertInv, NEW e \in Evaluations,
           \/ \E l \in todo[e] : Consider(e, l)
           \/ CompareRate(e) \/ QueryFails(e) \/ Send(e)
    PROVE  /\ at' \in [Evaluations -> {"idle", "loop", "count", "create", "send", "done", "lost"}]
           /\ listed' \in [Evaluations -> SUBSET (Alerts \X Rows)]
           /\ todo' \in [Evaluations -> SUBSET (Alerts \X Rows)]
           /\ current' \in [Evaluations -> SUBSET (Alerts \X Rows)]
           /\ logged' \in [Evaluations -> SUBSET Alerts]
           /\ \A f \in Evaluations : EvaluationOK(f)'
<1> DEFINE Goal ==
           /\ at' \in [Evaluations -> {"idle", "loop", "count", "create", "send", "done", "lost"}]
           /\ listed' \in [Evaluations -> SUBSET (Alerts \X Rows)]
           /\ todo' \in [Evaluations -> SUBSET (Alerts \X Rows)]
           /\ current' \in [Evaluations -> SUBSET (Alerts \X Rows)]
           /\ logged' \in [Evaluations -> SUBSET Alerts]
           /\ \A f \in Evaluations : EvaluationOK(f)'
<1>0. UNCHANGED <<alert, triggers>>
  BY DEF Consider, CompareRate, QueryFails, Send
<1>t. /\ listed \in [Evaluations -> SUBSET (Alerts \X Rows)]
      /\ todo \in [Evaluations -> SUBSET (Alerts \X Rows)]
      /\ logged \in [Evaluations -> SUBSET Alerts]
      /\ current[e] \subseteq todo[e] /\ EvaluationOK(e)
  BY DEF AlertInv, AlertTypes, EvaluationOK
<1>1. ASSUME NEW l \in todo[e], Consider(e, l) PROVE Goal
  <2>1. PICK v \in Verdicts(e, l[2]) :
            IF v \in {"create", "count"} THEN Await(e, l, v) ELSE Continue(e, l, v = "log")
    BY <1>1 DEF Consider
  <2>2. at[e] = "loop" /\ v \in {"create", "count", "log", "continue"}
    BY <1>1 DEF Consider, Verdicts
  <2>3. CASE v \in {"create", "count"}
    <3>1. Await(e, l, v) /\ (v = "count" => l[2].type = "failureRate")
      BY <2>1, <2>3, CountsFailureRates
    <3> HIDE DEF Goal
    <3>2. v \in {"count", "create"} /\ at[e] \in {"loop", "count"}
      BY <2>2, <2>3
    <3> QED  BY <1>0, <1>t, <3>1, <3>2, Awaited DEF Goal
  <2>4. CASE v = "log"
    <3>1. Continue(e, l, TRUE)
      BY <2>1, <2>4
    <3> QED  BY <1>0, <2>2, <3>1, Continued
  <2>5. CASE v = "continue"
    <3>1. Continue(e, l, FALSE) /\ Settled(e, l)
      BY <2>1, <2>5, VerdictSettles
    <3> QED  BY <1>0, <2>2, <3>1, Continued
  <2> QED  BY <2>2, <2>3, <2>4, <2>5
<1>2. ASSUME CompareRate(e) PROVE Goal
  <2>1. PICK l \in current[e] : \/ Await(e, l, "create") \/ Continue(e, l, FALSE)
    BY <1>2 DEF CompareRate
  <2>2. at[e] = "count" /\ l \in todo[e] /\ l[2].type = "failureRate"
    BY <1>2, <1>t DEF CompareRate, EvaluationOK
  <2>3. Settled(e, l)
    BY <2>2 DEF Settled, Due, Says
  <2>4. CASE Await(e, l, "create")
    BY <1>0, <1>t, <2>2, <2>4, Awaited
  <2>5. CASE Continue(e, l, FALSE)
    BY <1>0, <2>2, <2>3, <2>5, Continued
  <2> QED  BY <2>1, <2>4, <2>5
<1>3. ASSUME QueryFails(e) PROVE Goal
  <2>1. PICK l \in current[e] : Continue(e, l, TRUE)
    BY <1>3 DEF QueryFails
  <2>2. at[e] \in {"loop", "count", "create", "send"} /\ l \in todo[e]
    BY <1>3, <1>t DEF QueryFails
  <2> QED  BY <1>0, <2>1, <2>2, Continued
<1>4. ASSUME Send(e) PROVE Goal
  <2>1. PICK l \in current[e] : Continue(e, l, FALSE)
    BY <1>4 DEF Send
  <2>2. at[e] = "send" /\ l \in todo[e]
    BY <1>4, <1>t DEF Send
  <2>3. Settled(e, l)
    BY <1>t, <2>2 DEF Settled, EvaluationOK
  <2> QED  BY <1>0, <2>1, <2>2, <2>3, Continued
<1> QED  BY <1>1, <1>2, <1>3, <1>4

\* What is left of the invariant where the streams do nothing.
LEMMA EvaluationTypes ==
    ASSUME AlertInv, UNCHANGED <<alert, streamVars>>, triggers \subseteq triggers', triggers' \subseteq Keys,
           at' \in [Evaluations -> {"idle", "loop", "count", "create", "send", "done", "lost"}],
           listed' \in [Evaluations -> SUBSET (Alerts \X Rows)],
           todo' \in [Evaluations -> SUBSET (Alerts \X Rows)],
           current' \in [Evaluations -> SUBSET (Alerts \X Rows)],
           logged' \in [Evaluations -> SUBSET Alerts],
           \A f \in Evaluations : EvaluationOK(f)'
    PROVE  AlertInv'
<1>1. AlertTypes'
  BY DEF AlertInv, AlertTypes
<1> QED  BY <1>1, StreamsKept DEF AlertInv

LEMMA EvaluationStep ==
    ASSUME AlertInv, NEW e \in Evaluations,
           \/ EvaluationLost(e) \/ StartEvaluation(e)
           \/ (\E w \in {"total", "failed"} : Count(e, w))
           \/ CreateTrigger(e) \/ EndEvaluation(e)
           \/ (\E l \in todo[e] : Consider(e, l)) \/ CompareRate(e) \/ QueryFails(e)
    PROVE  AlertInv'
<1> USE DEF AlertInv, AlertTypes
<1>0. EvaluationOK(e) /\ \A f \in Evaluations : EvaluationOK(f)
  OBVIOUS
<1>1. CASE EvaluationLost(e)
  <2>1. at' = [at EXCEPT ![e] = "lost"] /\ UNCHANGED <<rowVars, listed, todo, current, logged, triggers, streamVars>>
    BY <1>1 DEF EvaluationLost
  <2>2. \A f \in Evaluations : f # e => EvaluationOK(f)'
    BY <2>1, OthersKept
  <2>3. EvaluationOK(e)'
    BY <1>0, <2>1 DEF EvaluationOK
  <2> QED  BY <2>1, <2>2, <2>3, EvaluationTypes
<1>2. CASE StartEvaluation(e)
  <2>1. PICK ls \in SUBSET Listed(e) : listed' = [listed EXCEPT ![e] = ls]
    BY <1>2 DEF StartEvaluation
  <2>2. /\ todo' = [todo EXCEPT ![e] = ls] /\ at' = [at EXCEPT ![e] = "loop"] /\ at[e] = "idle"
        /\ UNCHANGED <<rowVars, current, logged, triggers, streamVars>>
    BY <1>2, <2>1 DEF StartEvaluation
  <2>3. ls \subseteq Alerts \X Rows /\ \A l \in ls : alert[l[1]] # NoAlert
    BY <2>1 DEF Listed, Exists
  <2>4. \A f \in Evaluations : f # e => EvaluationOK(f)'
    BY <2>1, <2>2, OthersKept
  <2>5. current[e] = {}
    BY <1>0, <2>2 DEF EvaluationOK
  <2>6. EvaluationOK(e)'
    BY <2>1, <2>2, <2>3, <2>5 DEF EvaluationOK
  <2> QED  BY <2>1, <2>2, <2>3, <2>4, <2>6, EvaluationTypes
<1>3. ASSUME NEW w \in {"total", "failed"}, Count(e, w) PROVE AlertInv'
  <2>1. UNCHANGED <<rowVars, at, listed, todo, current, logged, triggers, streamVars>>
    BY <1>3 DEF Count
  <2>2. \A f \in Evaluations : EvaluationOK(f)'
    BY <1>0, <2>1 DEF EvaluationOK, Settled, Due, InScope, Says, Fits
  <2> QED  BY <2>1, <2>2, EvaluationTypes
<1>4. CASE CreateTrigger(e)
  <2>1. PICK l \in current[e] : triggers' = triggers \cup {<<e, l[1]>>}
    BY <1>4 DEF CreateTrigger
  <2>2. /\ at' = [at EXCEPT ![e] = "send"] /\ at[e] = "create"
        /\ UNCHANGED <<rowVars, listed, todo, current, logged, streamVars>>
    BY <1>4 DEF CreateTrigger
  <2>3. \A f \in Evaluations : f # e => EvaluationOK(f)'
    BY <2>1, <2>2, OthersKept
  <2>4. current[e] = {l}
    BY <1>0, <2>1, <2>2 DEF EvaluationOK
  <2>5. \A k : Settled(e, k) => Settled(e, k)'
    BY <2>1, <2>2 DEF Settled, Due, InScope, Says, Fits
  <2>6. EvaluationOK(e)'
    BY <1>0, <2>1, <2>2, <2>4, <2>5 DEF EvaluationOK
  <2>7. l[1] \in Alerts
    BY <2>1
  <2> QED  BY <2>1, <2>2, <2>3, <2>6, <2>7, EvaluationTypes DEF Keys
<1>5. CASE EndEvaluation(e)
  <2>1. /\ at' = [at EXCEPT ![e] = "done"] /\ at[e] = "loop" /\ todo[e] = {}
        /\ UNCHANGED <<rowVars, listed, todo, current, logged, triggers, streamVars>>
    BY <1>5 DEF EndEvaluation
  <2>2. \A f \in Evaluations : f # e => EvaluationOK(f)'
    BY <2>1, OthersKept
  <2>3. EvaluationOK(e)'
    BY <1>0, <2>1 DEF EvaluationOK, Settled, Due, InScope, Says, Fits
  <2> QED  BY <2>1, <2>2, <2>3, EvaluationTypes
<1>6. CASE (\E l \in todo[e] : Consider(e, l)) \/ CompareRate(e) \/ QueryFails(e)
  <2>1. UNCHANGED <<alert, triggers, streamVars>>
    BY <1>6 DEF Consider, CompareRate, QueryFails
  <2> QED  BY <1>6, <2>1, TurnStep, EvaluationTypes
<1> QED  BY <1>1, <1>2, <1>3, <1>4, <1>5, <1>6

-----------------------------------------------------------------------------
(* Streams.                                                                 *)

\* A key that is sent is the next of each stream that was in step.
LEMMA NextOfStream ==
    ASSUME NEW q \in Seq(Keys), NEW k \in Keys, NEW j \in 0..Len(q)
    PROVE  SubSeq(Append(q, k), j + 1, Len(q) + 1) = Append(SubSeq(q, j + 1, Len(q)), k)
<1> DEFINE r == Append(q, k)
<1>1. r \in Seq(Keys) /\ Len(r) = Len(q) + 1 /\ r[Len(q) + 1] = k /\ \A i \in 1..Len(q) : r[i] = q[i]
  BY AppendProperties
<1>2. SubSeq(r, j + 1, Len(q) + 1) = SubSeq(r, j + 1, Len(q)) \o <<k>>
  <2>1. PICK n : n = Len(q) + 1
    OBVIOUS
  <2>2. j + 1 \in 1..Len(r) /\ n \in (j + 1)..Len(r) /\ n - 1 = Len(q) /\ r[n] = k
    BY <1>1, <2>1, LenProperties
  <2> HIDE DEF r
  <2>3. SubSeq(r, j + 1, n) = SubSeq(r, j + 1, n - 1) \o << r[n] >>
    BY <1>1, <2>2, SubSeqRecursiveSecond
  <2> QED  BY <2>1, <2>2, <2>3
<1>3. SubSeq(r, j + 1, Len(q)) = SubSeq(q, j + 1, Len(q))
  <2>1. CASE j = Len(q)
    BY <2>1, SubSeqEmpty, LenProperties
  <2>2. CASE j < Len(q)
    <3>1. r = q \o <<k>> /\ <<k>> \in Seq(Keys)
      BY AppendIsConcat
    <3>2. j + 1 \in 1..Len(q) /\ Len(q) \in 1..Len(q)
      BY <2>2, LenProperties
    <3> HIDE DEF r
    <3> QED  BY <3>1, <3>2, SubSeqOfConcat1
  <2> QED  BY <2>1, <2>2, LenProperties
<1>4. SubSeq(q, j + 1, Len(q)) \in Seq(Keys)
  <2>1. j + 1 \in Int /\ Len(q) \in Int /\ \A i \in (j + 1)..Len(q) : q[i] \in Keys
    BY LenProperties, ElementOfSeq
  <2> QED  BY <2>1, SubSeqProperties
<1> QED  BY <1>2, <1>3, <1>4, AppendIsConcat

LEMMA PushStep ==
    ASSUME AlertInv, NEW k \in Keys, NEW dropped \in SUBSET {s \in connections : wire[s] = "closed"},
           Push(k, connections, dropped), UNCHANGED <<alert, triggers>>,
           k \in triggers \/ alert[k[2]] = Deleted
    PROVE  /\ pushed' \in Seq(Keys) /\ connections' \subseteq Streams
           /\ joined' \in [Streams -> 0..Len(pushed')] /\ received' \in [Streams -> Seq(Keys)]
           /\ UNCHANGED <<handler, wire>>
           /\ \A s \in Streams : StreamOK(s)'
           /\ SentWasStored'
<1> USE DEF AlertInv, AlertTypes
<1>1. /\ pushed' = Append(pushed, k) /\ connections' = connections \ dropped
      /\ received' = [s \in Streams |-> IF s \in connections /\ wire[s] = "up"
                                        THEN Append(received[s], k) ELSE received[s]]
      /\ UNCHANGED <<handler, wire, joined>>
  BY DEF Push
<1>2. /\ pushed' \in Seq(Keys) /\ Len(pushed') = Len(pushed) + 1 /\ pushed'[Len(pushed) + 1] = k
      /\ \A i \in 1..Len(pushed) : pushed'[i] = pushed[i]
  BY <1>1, AppendProperties
<1>3. Len(pushed) \in Nat
  BY LenProperties
<1>4. joined' \in [Streams -> 0..Len(pushed')]
  BY <1>1, <1>2, <1>3
<1>5. received' \in [Streams -> Seq(Keys)]
  BY <1>1, AppendProperties
<1>6. ASSUME NEW s \in Streams PROVE StreamOK(s)'
  <2>1. StreamOK(s)
    OBVIOUS
  <2>2. CASE handler[s] = "streaming" /\ wire[s] = "up"
    <3>1. s \in connections /\ s \notin dropped /\ received[s] = SubSeq(pushed, joined[s] + 1, Len(pushed))
      BY <2>1, <2>2 DEF StreamOK
    <3>2. received'[s] = Append(received[s], k)
      BY <1>1, <2>2, <3>1
    <3>3. SubSeq(pushed', joined[s] + 1, Len(pushed) + 1) = Append(SubSeq(pushed, joined[s] + 1, Len(pushed)), k)
      BY <1>1, NextOfStream
    <3> QED  BY <1>1, <1>2, <2>2, <3>1, <3>2, <3>3 DEF StreamOK
  <2>3. CASE ~(handler[s] = "streaming" /\ wire[s] = "up")
    BY <1>1, <2>1, <2>3 DEF StreamOK
  <2> QED  BY <2>2, <2>3
<1>7. SentWasStored'
  <2>1. ASSUME NEW i \in 1..Len(pushed') PROVE pushed'[i] \in triggers \/ alert[pushed'[i][2]] = Deleted
    <3>1. CASE i = Len(pushed) + 1
      BY <1>2, <3>1
    <3>2. CASE i # Len(pushed) + 1
      <4>1. i \in 1..Len(pushed)
        BY <1>2, <1>3, <3>2
      <4> QED  BY <1>2, <4>1 DEF SentWasStored
    <3> QED  BY <3>1, <3>2
  <2> QED  BY <2>1 DEF SentWasStored
<1> QED  BY <1>1, <1>2, <1>4, <1>5, <1>6, <1>7

LEMMA SendStep ==
    ASSUME AlertInv, NEW e \in Evaluations, Send(e)
    PROVE  AlertInv'
<1>1. PICK l \in current[e], dropped \in SUBSET {s \in connections : wire[s] = "closed"} :
          Push(<<e, l[1]>>, connections, dropped)
  BY DEF Send
<1>2. /\ at[e] = "send" /\ UNCHANGED <<alert, triggers>>
  BY DEF Send
<1>3. /\ <<e, l[1]>> \in Keys /\ <<e, l[1]>>[2] = l[1]
      /\ <<e, l[1]>> \in triggers \/ alert[l[1]] = Deleted
  BY <1>1, <1>2 DEF AlertInv, AlertTypes, EvaluationOK, Keys
<1>4. PICK k \in Keys : k = <<e, l[1]>>
  BY <1>3
<1>5. /\ pushed' \in Seq(Keys) /\ connections' \subseteq Streams
      /\ joined' \in [Streams -> 0..Len(pushed')] /\ received' \in [Streams -> Seq(Keys)]
      /\ UNCHANGED <<handler, wire>>
      /\ \A s \in Streams : StreamOK(s)'
      /\ SentWasStored'
  BY <1>1, <1>2, <1>3, <1>4, PushStep
<1>6. /\ at' \in [Evaluations -> {"idle", "loop", "count", "create", "send", "done", "lost"}]
      /\ listed' \in [Evaluations -> SUBSET (Alerts \X Rows)]
      /\ todo' \in [Evaluations -> SUBSET (Alerts \X Rows)]
      /\ current' \in [Evaluations -> SUBSET (Alerts \X Rows)]
      /\ logged' \in [Evaluations -> SUBSET Alerts]
      /\ \A f \in Evaluations : EvaluationOK(f)'
  BY TurnStep
<1>7. AlertTypes'
  BY <1>2, <1>5, <1>6 DEF AlertInv, AlertTypes
<1> QED  BY <1>5, <1>6, <1>7 DEF AlertInv

\* A step of one stream leaves the others as they were.
LEMMA OtherStream ==
    ASSUME AlertInv, NEW s \in Streams, UNCHANGED <<pushed, received>>,
           \A t \in Streams \ {s} :
               /\ handler'[t] = handler[t] /\ wire'[t] = wire[t] /\ joined'[t] = joined[t]
               /\ t \in connections' <=> t \in connections,
           NEW t \in Streams, t # s
    PROVE  StreamOK(t)'
<1>1. StreamOK(t)
  BY DEF AlertInv
<1>2. /\ handler'[t] = handler[t] /\ wire'[t] = wire[t] /\ joined'[t] = joined[t]
      /\ t \in connections' <=> t \in connections
  OBVIOUS
<1> QED  BY <1>1, <1>2 DEF StreamOK

LEMMA StreamStep ==
    ASSUME AlertInv, NEW s \in Streams, Ask(s) \/ Add(s) \/ Disconnect(s) \/ Closed(s)
    PROVE  AlertInv'
<1> USE DEF AlertInv, AlertTypes
<1>1. UNCHANGED <<rowVars, evalVars, triggers, pushed, received>>
  BY DEF Ask, Add, Disconnect, Closed
<1>2. /\ \A e \in Evaluations : EvaluationOK(e)'
      /\ SentWasStored'
  BY <1>1 DEF EvaluationOK, Settled, Due, InScope, Says, Fits, SentWasStored
<1>3. Len(pushed) \in Nat
  BY LenProperties
<1>4. CASE Ask(s)
  <2>1. /\ wire[s] = "new" /\ wire' = [wire EXCEPT ![s] = "up"]
        /\ handler' = [handler EXCEPT ![s] = "auth"] /\ UNCHANGED <<connections, joined>>
    BY <1>4 DEF Ask
  <2>2. received[s] = <<>> /\ s \notin connections
    BY <2>1 DEF StreamOK
  <2>3. \A t \in Streams : t # s => StreamOK(t)'
    BY <1>1, <2>1, OtherStream
  <2>4. wire'[s] = "up" /\ handler'[s] = "auth" /\ received'[s] = <<>> /\ s \notin connections'
    BY <1>1, <2>1, <2>2
  <2>5. StreamOK(s)'
    <3> HIDE DEF AlertInv, AlertTypes
    <3> QED  BY <2>4 DEF StreamOK
  <2> QED  BY <1>1, <1>2, <2>1, <2>3, <2>5
<1>5. CASE Add(s)
  <2>1. /\ handler[s] \in {"auth", "deaf"}
        /\ handler' = [handler EXCEPT ![s] = IF @ = "auth" THEN "streaming" ELSE "stuck"]
        /\ connections' = connections \cup {s} /\ joined' = [joined EXCEPT ![s] = Len(pushed)]
        /\ UNCHANGED wire
    BY <1>5 DEF Add
  <2>2. received[s] = <<>> /\ SubSeq(pushed, Len(pushed) + 1, Len(pushed)) = <<>>
    BY <1>3, <2>1, SubSeqEmpty DEF StreamOK
  <2>3. \A t \in Streams : t # s => StreamOK(t)'
    BY <1>1, <2>1, OtherStream
  <2>4. joined \in [Streams -> 0..Len(pushed)] /\ Len(pushed) \in 0..Len(pushed)
    BY <1>3
  <2>5. joined' \in [Streams -> 0..Len(pushed)]
    BY <2>1, <2>4
  <2>6. /\ joined'[s] = Len(pushed) /\ wire'[s] # "new" /\ handler'[s] \in {"streaming", "stuck"}
        /\ s \in connections' /\ received' = received /\ pushed' = pushed
    BY <1>1, <2>1, <2>4 DEF StreamOK
  <2>7. SubSeq(pushed', joined'[s] + 1, Len(pushed')) = received'[s]
    BY <2>2, <2>6
  <2>8. StreamOK(s)'
    <3> HIDE DEF AlertInv, AlertTypes
    <3> QED  BY <2>6, <2>7 DEF StreamOK
  <2> QED  BY <1>1, <1>2, <2>1, <2>5, <2>3, <2>8
<1>6. CASE Disconnect(s)
  <2>1. wire[s] = "up" /\ wire' = [wire EXCEPT ![s] = "closed"] /\ UNCHANGED <<handler, connections, joined>>
    BY <1>6 DEF Disconnect
  <2>2. \A t \in Streams : t # s => StreamOK(t)'
    BY <1>1, <2>1, OtherStream
  <2>3. StreamOK(s)
    OBVIOUS
  <2>4. /\ wire'[s] = "closed" /\ handler'[s] = handler[s] /\ received'[s] = received[s]
        /\ connections' = connections
    BY <1>1, <2>1
  <2>5. StreamOK(s)'
    <3> HIDE DEF AlertInv, AlertTypes
    <3> QED  BY <2>1, <2>3, <2>4 DEF StreamOK
  <2> QED  BY <1>1, <1>2, <2>1, <2>2, <2>5
<1>7. CASE Closed(s)
  <2>1. /\ wire[s] = "closed" /\ UNCHANGED <<wire, joined>>
        /\ \/ /\ handler[s] = "streaming" /\ handler' = [handler EXCEPT ![s] = "left"]
              /\ connections' = connections \ {s}
           \/ /\ handler[s] = "auth" /\ handler' = [handler EXCEPT ![s] = "deaf"]
              /\ UNCHANGED connections
    BY <1>7 DEF Closed, Remove
  <2>2. \A t \in Streams : t # s => StreamOK(t)'
    BY <1>1, <2>1, OtherStream
  <2>3. StreamOK(s)
    OBVIOUS
  <2>4. /\ wire'[s] = "closed" /\ received'[s] = received[s]
        /\ \/ handler'[s] = "left"
           \/ handler[s] = "auth" /\ handler'[s] = "deaf" /\ connections' = connections
    BY <1>1, <2>1
  <2>5. StreamOK(s)'
    <3> HIDE DEF AlertInv, AlertTypes
    <3> QED  BY <2>3, <2>4 DEF StreamOK
  <2> QED  BY <1>1, <1>2, <2>1, <2>2, <2>5
<1> QED  BY <1>4, <1>5, <1>6, <1>7

LEMMA RestartStep ==
    ASSUME AlertInv, Restart
    PROVE  AlertInv'
<1> USE DEF AlertInv, AlertTypes
<1>1. /\ handler' = [s \in Streams |-> IF handler[s] = "none" THEN "none" ELSE "left"]
      /\ wire' = [s \in Streams |-> IF wire[s] = "up" THEN "closed" ELSE wire[s]]
      /\ connections' = {} /\ UNCHANGED <<rowVars, triggers, pushed, joined, received>>
      /\ at' = [e \in Evaluations |-> IF Underway(e) THEN "lost" ELSE at[e]]
      /\ listed' = [e \in Evaluations |-> IF Underway(e) THEN {} ELSE listed[e]]
      /\ todo' = [e \in Evaluations |-> IF Underway(e) THEN {} ELSE todo[e]]
      /\ current' = [e \in Evaluations |-> IF Underway(e) THEN {} ELSE current[e]]
      /\ logged' = [e \in Evaluations |-> IF Underway(e) THEN {} ELSE logged[e]]
  BY DEF Restart
<1>2. AlertTypes'
  BY <1>1
<1>3. ASSUME NEW s \in Streams PROVE StreamOK(s)'
  BY <1>1 DEF StreamOK
<1>4. SentWasStored'
  BY <1>1 DEF SentWasStored
<1>5. ASSUME NEW e \in Evaluations PROVE EvaluationOK(e)'
  <2>1. CASE Underway(e)
    BY <1>1, <2>1 DEF EvaluationOK
  <2>2. CASE ~Underway(e)
    <3>1. /\ at'[e] = at[e] /\ listed'[e] = listed[e] /\ todo'[e] = todo[e] /\ current'[e] = current[e]
          /\ logged'[e] = logged[e]
      BY <1>1, <2>2
    <3>2. \A l : Settled(e, l) => Settled(e, l)'
      BY <1>1, <3>1 DEF Settled, Due, InScope, Says, Fits
    <3> QED  BY <1>1, <3>1, <3>2 DEF EvaluationOK
  <2> QED  BY <2>1, <2>2
<1> QED  BY <1>2, <1>3, <1>4, <1>5

LEMMA AlertStep == AlertInv /\ [Next]_vars => AlertInv'
<1> SUFFICES ASSUME AlertInv, [Next]_vars PROVE AlertInv'
  OBVIOUS
<1>1. ASSUME UNCHANGED <<alert, evalVars, triggers, streamVars>> PROVE AlertInv'
  BY <1>1 DEF AlertInv, AlertTypes, EvaluationOK, Settled, Due, InScope, Says, Fits, StreamOK, SentWasStored
<1>2. CASE DeliveryCreated \/ (\E o \in {"FAILED", "SUCCESS"} : DeliveryEnded(o)) \/ Rest \/ UNCHANGED vars
  BY <1>1, <1>2 DEF DeliveryCreated, DeliveryEnded, Rest, vars
<1> QED  BY <1>2, RoutesStep, EvaluationStep, SendStep, StreamStep, RestartStep DEF Next

LEMMA AlertInit == Init => AlertInv
<1> SUFFICES ASSUME Init PROVE AlertInv
  OBVIOUS
<1>1. alert \in [Alerts -> {NoAlert, Deleted} \cup Rows]
  <2>1. \A n \in NewAlerts : RowOf(n, TRUE) \in Rows
    BY NewRow, Zenon
  <2>2. {RowOf(n, TRUE) : n \in NewAlerts} \subseteq Rows
    BY <2>1
  <2> QED  BY <2>2 DEF Init
<1>2. pushed = <<>> /\ pushed \in Seq(Keys) /\ Len(pushed) = 0
  BY DEF Init
<1>3. AlertTypes
  BY <1>1, <1>2 DEF Init, AlertTypes
<1>4. \A e \in Evaluations : EvaluationOK(e)
  BY DEF Init, EvaluationOK
<1>5. \A s \in Streams : StreamOK(s)
  BY DEF Init, StreamOK
<1> QED  BY <1>2, <1>3, <1>4, <1>5 DEF AlertInv, SentWasStored

-----------------------------------------------------------------------------
\* For any pages and connections, whichever die, are removed or are dropped by a send
\* meanwhile: an open stream has handed on all that was sent since it was added, in
\* order and once.
THEOREM StreamsAreGapless == Spec => []StreamIsGapless
<1>1. AlertInv => StreamIsGapless
  BY DEF AlertInv, StreamOK, StreamIsGapless
<1> QED  BY <1>1, AlertInit, AlertStep, PTL DEF Spec

\* For any alerts and messages, with edits, failed queries, configs that throw and
\* restarts: an evaluation that ended has a trigger for each alert that was due, or
\* has logged it, or the alert was deleted.
THEOREM EveryDueAlertIsSettled == Spec => []OneAlertDoesNotStopTheOthers
<1>1. ASSUME AlertInv PROVE OneAlertDoesNotStopTheOthers
  <2>1. ASSUME NEW m \in Messages, at[m] = "done", NEW l \in listed[m], Due(m, l[2])
        PROVE  <<m, l[1]>> \in triggers \/ l[1] \in logged[m] \/ ~Exists(l[1])
    <3>1. m \in Evaluations
      BY DEF Evaluations
    <3>2. EvaluationOK(m)
      BY <1>1, <3>1 DEF AlertInv
    <3>3. l \in listed[m] \ todo[m] /\ at[m] # "lost"
      BY <2>1, <3>2 DEF EvaluationOK
    <3>4. Settled(m, l)
      BY <3>2, <3>3 DEF EvaluationOK
    <3> QED  BY <2>1, <3>4 DEF Settled, Exists
  <2> QED  BY <2>1 DEF OneAlertDoesNotStopTheOthers
<1> QED  BY <1>1, AlertInit, AlertStep, PTL DEF Spec

\* A page is told of no trigger the table does not have, unless the alert was deleted
\* since (alert-evaluator.ts:93 stores, then sends).
THEOREM TriggersAreStoredFirst == Spec => []SentWasStored
<1>1. AlertInv => SentWasStored
  BY DEF AlertInv
<1> QED  BY <1>1, AlertInit, AlertStep, PTL DEF Spec

=============================================================================
