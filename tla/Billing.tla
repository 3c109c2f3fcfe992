------------------------------ MODULE Billing ------------------------------
(***************************************************************************)
(* Subscriptions: billing/ in apps/api.  The payment provider keeps the    *)
(* subscriptions and reports by webhook, at least once and in any order;   *)
(* the handlers copy what it says into one row per user.                   *)
(***************************************************************************)
EXTENDS Integers, FiniteSets

CONSTANTS
    Users,
    Subscriptions,  (* of the provider                                       *)
    OwnerOf,        (* metadata.userId of each                               *)
    CustomerOf,     (* customer_id of each                                   *)
    MaxChanges,     (* bound: changes at the provider and calls of changePlan *)
    NoPlan          (* the plan of a product the configuration does not name *)

Tiers == {"STARTER", "PRO"}

ASSUME BillingAssumption ==
    /\ OwnerOf \in [Subscriptions -> Users]
    /\ DOMAIN CustomerOf = Subscriptions
    /\ NoPlan \notin Tiers
    /\ MaxChanges \in Nat

VARIABLES
    provider,   (* status and product of each subscription                   *)
    outbox,     (* webhooks not yet answered with 200                        *)
    row,        (* the user's row, as a set of at most one                   *)
    handling,   (* a webhook's handler: what retrieve returned and whether   *)
                (* the row was there                                         *)
    changing,   (* changePlan of a user: the row it read and the new tier    *)
    changes

billingVars == <<provider, outbox, row, handling, changing, changes>>

-----------------------------------------------------------------------------
Named ==
    [pending |-> "TRIALING", active |-> "ACTIVE", paused |-> "PAUSED",
     cancelled |-> "CANCELED", failed |-> "PAST_DUE", on_hold |-> "UNPAID"]

\* A status the map does not name, such as expired, is ACTIVE.
mapDodoStatusToInternal(s) == IF s \in DOMAIN Named THEN Named[s] ELSE "ACTIVE"

EventTypes == {"subscription.active", "subscription.renewed", "payment.succeeded",
               "subscription.cancelled", "subscription.failed"}
SyncTypes == {"subscription.active", "subscription.renewed", "payment.succeeded"}
Webhooks == Subscriptions \X EventTypes

Idle == [at |-> "idle"]

BillingInit ==
    /\ provider = [d \in Subscriptions |-> [status |-> "none", product |-> NoPlan]]
    /\ outbox = {}
    /\ row = [u \in Users |-> {}]
    /\ handling = [w \in Webhooks |-> Idle]
    /\ changing = [u \in Users |-> Idle]
    /\ changes = 0

-----------------------------------------------------------------------------
(* The provider.  Of its statuses these four are enough here: the handlers *)
(* read a status by the map above and in no other way.                      *)

Report(d, types) == outbox' = outbox \cup {<<d, t>> : t \in types}

\* The checkout session carries the user's id; what it sells is chosen there.
Checkout(d, product) ==
    /\ provider[d].status = "none"
    /\ provider' = [provider EXCEPT ![d] = [status |-> "active", product |-> product]]
    /\ Report(d, {"subscription.active", "payment.succeeded"})
    /\ UNCHANGED <<row, handling, changing, changes>>

ProviderMoves(d, from, to, types) ==
    /\ changes < MaxChanges
    /\ changes' = changes + 1
    /\ provider[d].status \in from
    /\ provider' = [provider EXCEPT ![d].status = to]
    /\ Report(d, types)
    /\ UNCHANGED <<row, handling, changing>>

Cancels(d) == ProviderMoves(d, {"active", "failed"}, "cancelled", {"subscription.cancelled"})
Expires(d) == ProviderMoves(d, {"active", "failed"}, "expired", {})
PaymentFails(d) == ProviderMoves(d, {"active"}, "failed", {"subscription.failed"})
Renews(d) ==
    ProviderMoves(d, {"active", "failed"}, "active",
                  {"subscription.renewed", "payment.succeeded"})

-----------------------------------------------------------------------------
(* handleWebhookEvent.                                                      *)

RowWith(d) == {u \in Users : \E r \in row[u] : r.dodo = d}

updateSubscriptionByDodoId(d, change(_)) ==
    row' = [u \in Users |-> IF u \in RowWith(d) THEN {change(r) : r \in row[u]} ELSE row[u]]

\* A slip: the update leaves the customer's id.
UpsertKeepsCustomer(d, new) ==
    row' = [row EXCEPT ![OwnerOf[d]] =
               IF @ = {} THEN {new} ELSE {[new EXCEPT !.customer = r.customer] : r \in @}]

upsertSubscription(d, new) == row' = [row EXCEPT ![OwnerOf[d]] = {new}]

Answered(w) ==
    /\ handling' = [handling EXCEPT ![w] = Idle]
    /\ outbox' = outbox \ {w}

\* A 400, or an answer that is lost: the provider sends it again.
WillBeSentAgain(w) ==
    /\ handling' = [handling EXCEPT ![w] = Idle]
    /\ UNCHANGED outbox

\* cancelled and failed write their status; there must be a row to update.
WebhookSetsStatus(d, type) ==
    /\ <<d, type>> \in outbox
    /\ RowWith(d) # {}
    /\ updateSubscriptionByDodoId(d, LAMBDA r : [r EXCEPT !.status =
           IF type = "subscription.cancelled" THEN "CANCELED" ELSE "PAST_DUE"])
    /\ Answered(<<d, type>>) \/ WillBeSentAgain(<<d, type>>)
    /\ UNCHANGED <<provider, changing, changes>>

\* syncSubscriptionById asks the provider and then the table.
Retrieve(d, type) ==
    LET w == <<d, type>> IN
    /\ type \in SyncTypes
    /\ w \in outbox /\ handling[w] = Idle
    /\ handling' = [handling EXCEPT ![w] = [at |-> "retrieved", remote |-> provider[d]]]
    /\ UNCHANGED <<provider, outbox, row, changing, changes>>

FindExisting(d, type) ==
    LET w == <<d, type>> IN
    /\ handling[w].at = "retrieved"
    /\ handling' = [handling EXCEPT ![w] =
           [at |-> "found", remote |-> handling[w].remote, existing |-> RowWith(d) # {}]]
    /\ UNCHANGED <<provider, outbox, row, changing, changes>>

\* An unknown product leaves the plan of a row alone and makes no row.
Synced(d, remote, existing) ==
    LET status == mapDodoStatusToInternal(remote.status) IN
    \/ /\ existing
       /\ RowWith(d) # {}
       /\ updateSubscriptionByDodoId(d, LAMBDA r : [r EXCEPT !.status = status,
              !.plan = IF remote.product = NoPlan THEN @ ELSE remote.product])
    \/ /\ ~existing /\ remote.product = NoPlan
       /\ UNCHANGED row
    \/ /\ ~existing /\ remote.product # NoPlan
       /\ upsertSubscription(d, [dodo |-> d, customer |-> CustomerOf[d],
              plan |-> remote.product, status |-> status])

WebhookSyncs(d, type) ==
    LET w == <<d, type>> IN
    /\ handling[w].at = "found"
    /\ Synced(d, handling[w].remote, handling[w].existing)
    /\ Answered(w) \/ WillBeSentAgain(w)
    /\ UNCHANGED <<provider, changing, changes>>

WebhookFails(d, type) ==
    /\ handling[<<d, type>>] # Idle
    /\ WillBeSentAgain(<<d, type>>)
    /\ UNCHANGED <<provider, row, changing, changes>>

-----------------------------------------------------------------------------
(* changePlan writes the row it read, with the new plan.                    *)

ReadForChange(u, tier) ==
    /\ changes < MaxChanges
    /\ changes' = changes + 1
    /\ changing[u] = Idle
    /\ \E r \in row[u] :
           changing' = [changing EXCEPT ![u] = [at |-> "read", old |-> r, tier |-> tier]]
    /\ UNCHANGED <<provider, outbox, row, handling>>

\* The provider takes a change of a subscription that runs, and bills it.
ProviderChangesPlan(u) ==
    /\ changing[u].at = "read"
    /\ LET d == changing[u].old.dodo IN
           /\ provider[d].status \in {"active", "failed"}
           /\ provider' = [provider EXCEPT ![d].product = changing[u].tier]
           /\ Report(d, {"payment.succeeded"})
    /\ changing' = [changing EXCEPT ![u].at = "changed"]
    /\ UNCHANGED <<row, handling, changes>>

WritePlan(u) ==
    /\ changing[u].at = "changed"
    /\ LET old == changing[u].old IN
           /\ RowWith(old.dodo) # {}
           /\ updateSubscriptionByDodoId(old.dodo, LAMBDA r :
                  [r EXCEPT !.status = old.status, !.plan = changing[u].tier])
    /\ changing' = [changing EXCEPT ![u] = Idle]
    /\ UNCHANGED <<provider, outbox, handling, changes>>

ChangeFails(u) ==
    /\ changing[u] # Idle
    /\ changing' = [changing EXCEPT ![u] = Idle]
    /\ UNCHANGED <<provider, outbox, row, handling, changes>>

BillingNext ==
    \/ \E d \in Subscriptions :
           \/ \E p \in Tiers \cup {NoPlan} : Checkout(d, p)
           \/ Cancels(d) \/ Expires(d) \/ PaymentFails(d) \/ Renews(d)
           \/ \E t \in {"subscription.cancelled", "subscription.failed"} :
                  WebhookSetsStatus(d, t)
           \/ \E t \in SyncTypes : \/ Retrieve(d, t) \/ FindExisting(d, t)
                                   \/ WebhookSyncs(d, t) \/ WebhookFails(d, t)
    \/ \E u \in Users :
           \/ \E t \in Tiers : ReadForChange(u, t)
           \/ ProviderChangesPlan(u) \/ WritePlan(u) \/ ChangeFails(u)

-----------------------------------------------------------------------------
(* The portal of createPortalSession opens the account that pays for the    *)
(* subscription changePlan and the webhooks act on, and both are the        *)
(* user's: two subscriptions of one user, say after a second checkout, take *)
(* turns in the row as their webhooks come.                                 *)
RowIsOneSubscription ==
    \A u \in Users : \A r \in row[u] :
        OwnerOf[r.dodo] = u /\ r.customer = CustomerOf[r.dodo]

=============================================================================
