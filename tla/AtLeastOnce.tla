---------------------------- MODULE AtLeastOnce ----------------------------
(***************************************************************************)
(* What the delivery pipeline promises for one accepted provider request   *)
(* (a BullMQ job): it stays pending while the destination may be sent the  *)
(* payload, a bounded number of times; it is confirmed only once the       *)
(* destination has received it, otherwise it is given up; and once it is   *)
(* confirmed or given up nothing more is sent for it.  Confirming it needs *)
(* a positive answer of the destination, to any of the sendings.           *)
(***************************************************************************)
EXTENDS Naturals

CONSTANTS Jobs,      (* the accepted requests                              *)
          MaxSends   (* how often the destination may receive one of them  *)

VARIABLES outcome,   (* none, pending, confirmed or abandoned              *)
          received,  (* how often the payload reached the destination      *)
          acked      (* has the destination ever acknowledged it           *)

vars == <<outcome, received, acked>>

Init ==
    /\ outcome = [j \in Jobs |-> "none"]
    /\ received = [j \in Jobs |-> 0]
    /\ acked = [j \in Jobs |-> FALSE]

Accept(j) ==
    /\ outcome[j] = "none"
    /\ outcome' = [outcome EXCEPT ![j] = "pending"]
    /\ UNCHANGED <<received, acked>>

Send(j) ==
    /\ outcome[j] = "pending"
    /\ received[j] < MaxSends
    /\ received' = [received EXCEPT ![j] = @ + 1]
    /\ acked' \in {acked, [acked EXCEPT ![j] = TRUE]}
    /\ UNCHANGED outcome

Confirm(j) ==
    /\ outcome[j] = "pending"
    /\ acked[j]
    /\ outcome' = [outcome EXCEPT ![j] = "confirmed"]
    /\ UNCHANGED <<received, acked>>

GiveUp(j) ==
    /\ outcome[j] = "pending"
    /\ outcome' = [outcome EXCEPT ![j] = "abandoned"]
    /\ UNCHANGED <<received, acked>>

Next == \E j \in Jobs : Accept(j) \/ Send(j) \/ Confirm(j) \/ GiveUp(j)

Spec == Init /\ [][Next]_vars

=============================================================================
