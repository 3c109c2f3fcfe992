---------------------------- MODULE MCRetention ----------------------------
(* One user with two subscriptions and one without, an event of each.       *)
EXTENDS Retention, TLC

CONSTANTS u, v, d1, d2, c1, c2, e1, e2, cron

MCOwnerOf == (d1 :> u) @@ (d2 :> u)
MCCustomerOf == (d1 :> c1) @@ (d2 :> c2)
MCEventOwner == (e1 :> u) @@ (e2 :> v)
MCRetentionDays == [STARTER |-> 1, PRO |-> 2]

(* Bounds of the run: two handlers at a time and both subscriptions while   *)
(* there are no events and no days; then one subscription and its webhooks,  *)
(* one at a time, and no changePlan.                                        *)
Handlers == Cardinality({w \in Webhooks : handling[w] # Idle})
Ageing == today > 0 \/ \E e \in Events : created[e] # -1

Bounds ==
    /\ Handlers <= 2
    /\ Ageing => /\ Cardinality(outbox) <= 1 /\ provider[d2].status = "none"
                 /\ \A x \in Users : changing[x] = Idle
    /\ \A r \in Runs : run[r].at # "idle" => Ageing

=============================================================================
