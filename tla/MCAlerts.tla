------------------------------ MODULE MCAlerts ------------------------------
(* One page that loses a connection and one that keeps it, two alerts.      *)
EXTENDS Alerts

CONSTANTS m1, m2, t1, x1, s1, s2, s3, a1, a2, e1, p1, p2

MCPageOf == (s1 :> p1) @@ (s2 :> p1) @@ (s3 :> p2)
MCMessageOf ==
    (m1 :> [endpoint |-> e1, errorCode |-> "TIMEOUT", eventStatus |-> "FAILED"]) @@
    (m2 :> [endpoint |-> e1, errorCode |-> "NONE", eventStatus |-> "DEAD_LETTER"])

MCNewAlerts ==
    { [type |-> "errorCode", endpoint |-> AllEndpoints,
       config |-> [of |-> "errorCode", errorCode |-> "TIMEOUT"]],
      [type |-> "eventFailed", endpoint |-> e1,
       config |-> [of |-> "eventFailed", statuses |-> {"FAILED", "DEAD_LETTER"}]],
      [type |-> "failureRate", endpoint |-> e1,
       config |-> [of |-> "failureRate", threshold |-> 60]],
      [type |-> "silence", endpoint |-> AllEndpoints,
       config |-> [of |-> "silence"]] }

(* Bounds of the run: an alert of each type beside one on the error code,   *)
(* two evaluations of the three for one alert, or one for two alerts or     *)
(* beside edits or deliveries; and streams that end where there are neither. *)
MCInit ==
    /\ Init
    /\ Exists(a1)
    /\ Exists(a2) => alert[a2].type = "errorCode"

MCSpec == MCInit /\ [][Next]_vars

Deliveries == deliveries["PENDING"] + deliveries["FAILED"] + deliveries["SUCCESS"]

Bounds ==
    /\ Cardinality({e \in Evaluations : at[e] \notin {"idle", "lost"}})
           <= IF edits + Deliveries > 0 \/ Exists(a2) THEN 1 ELSE 2
    /\ Deliveries > 0 => \E a \in Alerts : Exists(a) /\ alert[a].type = "failureRate"
    /\ edits + Deliveries > 0 => \A s \in Streams :
           handler[s] \in IF s = s1 THEN {"none", "streaming"} ELSE {"none"}
    /\ Cardinality({e \in Evaluations : at[e] = "lost"}) <= 1
    /\ edits > 0 => Deliveries = 0

=============================================================================
