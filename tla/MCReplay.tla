------------------------------ MODULE MCReplay ------------------------------
(* Instances of Replay for TLC: a retry of e1 and a batch of e1 and of e2,  *)
(* the row of a refused request.                                           *)
EXTENDS Replay, TLC

CONSTANTS j1, e1, e2, r1, r2, r3, retry, batch

OneJob == j1 :> e1

RetryAndBatch == (r1 :> retry) @@ (r2 :> batch) @@ (r3 :> batch)

TwoOfFirst == (r1 :> e1) @@ (r2 :> e1) @@ (r3 :> e2)

\* What races is the job of e1 and the replays of e1.  The row of e2 is there before
\* them; it is replayed, and deleted, when the retry of e1 and its job are over.
RaceOnFirstEvent ==
    /\ (job[j1] # "none" \/ \E r \in Replays : replay[r] # "idle") => event[e2] # "NONE"
    /\ (hidden[e2] \/ replay[r3] \in {"readLast", "createRow"} \cup ExecutionCall) =>
          ~Running(r1) /\ job[j1] \in {"completed", "failed"}

\* The worker of e1 crashes before the cache of the event, if it does, and its run
\* fails there or with its delivery; its alerts get out.  DeliveryPipeline's own runs
\* explore the rest.
WorkerFailsEarlyOrWithDelivery ==
    /\ pc[j1] = "lost" => ~cached[e1]
    /\ pc[j1] = "rejected" => HasFailure(j1) \/ ~cached[e1]
    /\ pc[j1] \in {"resolved", "rejected"} /\ cached[e1] => alerts[e1] # {}
    /\ pc[j1] = "persistUnreachable" => received[j1] = 0

=============================================================================
