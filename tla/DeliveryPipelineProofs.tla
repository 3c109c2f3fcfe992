----------------------- MODULE DeliveryPipelineProofs -----------------------
(***************************************************************************)
(* Proofs about DeliveryPipeline, for any number of jobs and events, any   *)
(* assignment of events to jobs, any number of attempts and of stalls; and *)
(* about the replays of Replay beside the workers.                         *)
(***************************************************************************)
EXTENDS Replay, SequenceTheorems, TLAPS

USE DEF Goto, queueVars, runVars, dbVars, outVars

\* Every step is one of these, of one job, or the row of a refused request.
Step(j) == Enqueue(j) \/ Queue(j) \/ Processor(j) \/ FailedHandler(j) \/ Crash(j)

-----------------------------------------------------------------------------
(* Names and rows.                                                          *)

\* What the proofs need of the sets of names.
LEMMA CallFacts ==
    /\ {"putObject", "createEvent", "cache", "usage", "createDelivery", "markProcessing",
        "fetch", "persistUnreachable", "persistSuccess", "persistFailure"} = ThrowingCall
    /\ ThrowingCall \subseteq ProcessorCall
    /\ {"publishSuccess", "publishFailure", "resolved", "rejected"} \subseteq ProcessorCall
    /\ {"findEvent", "deadLetter", "publishDeadLetter"} = HandlerCall
    /\ HandlerCall \cap ProcessorCall = {}
    /\ {"idle", "lost"} \cap (ProcessorCall \cup HandlerCall) = {}
  BY DEF ThrowingCall, SettlingCall, ProcessorCall, HandlerCall

LEMMA StatusFacts ==
    /\ {"none", "waiting", "active", "delayed", "completed", "failed"} = JobState
    /\ {"RECEIVED", "PROCESSING", "DELIVERED", "FAILED", "DEAD_LETTER"} = EventStatus
    /\ {"PENDING", "SUCCESS", "FAILED"} = DeliveryStatus
  BY DEF JobState, EventStatus, DeliveryStatus

NewestPending(j) == deliveries[j] # <<>> /\ deliveries[j][Len(deliveries[j])] = "PENDING"

\* What a job's rows say depends on those rows only.
LEMMA SameRows ==
    ASSUME NEW k, deliveries'[k] = deliveries[k]
    PROVE  /\ HasSuccess(k)' <=> HasSuccess(k)
           /\ HasFailure(k)' <=> HasFailure(k)
           /\ LastSucceeded(k)' <=> LastSucceeded(k)
           /\ NewestPending(k)' <=> NewestPending(k)
  BY DEF HasSuccess, HasFailure, LastSucceeded, NewestPending

\* Writing an outcome replaces the newest row and keeps the others.
LEMMA OutcomeReplacesNewest ==
    ASSUME deliveries \in [Jobs -> Seq(DeliveryStatus)],
           NEW j \in Jobs, deliveries[j] # <<>>,
           NEW s \in DeliveryStatus, SetDelivery(j, s)
    PROVE  /\ deliveries' \in [Jobs -> Seq(DeliveryStatus)]
           /\ Len(deliveries'[j]) = Len(deliveries[j])
           /\ \A n \in 1..Len(deliveries[j]) :
                  deliveries'[j][n] = IF n = Len(deliveries[j]) THEN s ELSE deliveries[j][n]
           /\ \A k \in Jobs : k # j => deliveries'[k] = deliveries[k]
           /\ s = "SUCCESS" => HasSuccess(j)' /\ LastSucceeded(j)'
           /\ s = "FAILED" => HasFailure(j)'
           /\ s # "SUCCESS" => (HasSuccess(j)' => HasSuccess(j))
           /\ NewestPending(j) =>
                 (HasSuccess(j) => HasSuccess(j)') /\ (HasFailure(j) => HasFailure(j)')
<1> DEFINE rows == deliveries[j]
<1>1. rows \in Seq(DeliveryStatus) /\ Len(rows) \in 1..Len(rows)
  BY EmptySeq, LenProperties
<1>2. deliveries' = [deliveries EXCEPT ![j] = [rows EXCEPT ![Len(rows)] = s]]
  BY DEF SetDelivery
<1>3. deliveries'[j] = [rows EXCEPT ![Len(rows)] = s]
  BY <1>2
<1>4. /\ [rows EXCEPT ![Len(rows)] = s] \in Seq(DeliveryStatus)
      /\ Len([rows EXCEPT ![Len(rows)] = s]) = Len(rows)
      /\ \A n \in 1..Len(rows) :
             [rows EXCEPT ![Len(rows)] = s][n] = IF n = Len(rows) THEN s ELSE rows[n]
  BY <1>1, ExceptSeq
<1>5. /\ deliveries' \in [Jobs -> Seq(DeliveryStatus)]
      /\ Len(deliveries'[j]) = Len(rows)
      /\ \A n \in 1..Len(rows) : deliveries'[j][n] = IF n = Len(rows) THEN s ELSE rows[n]
      /\ \A k \in Jobs : k # j => deliveries'[k] = deliveries[k]
  BY <1>2, <1>3, <1>4
<1>6. DOMAIN rows = 1..Len(rows) /\ DOMAIN deliveries'[j] = 1..Len(rows)
  BY <1>1, <1>5, LenProperties
<1>7. deliveries'[j] # <<>>
  BY <1>1, <1>5, EmptySeq
<1>8. /\ s = "SUCCESS" => HasSuccess(j)' /\ LastSucceeded(j)'
      /\ s = "FAILED" => HasFailure(j)'
      /\ s # "SUCCESS" => (HasSuccess(j)' => HasSuccess(j))
  BY <1>1, <1>5, <1>6, <1>7 DEF HasSuccess, HasFailure, LastSucceeded
<1>9. NewestPending(j) =>
         (HasSuccess(j) => HasSuccess(j)') /\ (HasFailure(j) => HasFailure(j)')
  BY <1>1, <1>5, <1>6 DEF HasSuccess, HasFailure, NewestPending
<1> QED  BY <1>5, <1>8, <1>9

\* Creating a delivery adds a PENDING row after the others.
LEMMA CreationAppends ==
    ASSUME deliveries \in [Jobs -> Seq(DeliveryStatus)],
           NEW j \in Jobs, CreateDelivery(j)
    PROVE  /\ deliveries' \in [Jobs -> Seq(DeliveryStatus)]
           /\ Len(deliveries'[j]) = Len(deliveries[j]) + 1
           /\ deliveries'[j] # <<>>
           /\ \A n \in 1..Len(deliveries[j]) : deliveries'[j][n] = deliveries[j][n]
           /\ deliveries'[j][Len(deliveries[j]) + 1] = "PENDING"
           /\ \A k \in Jobs : k # j => deliveries'[k] = deliveries[k]
           /\ NewestPending(j)'
           /\ HasSuccess(j)' <=> HasSuccess(j)
           /\ HasFailure(j)' <=> HasFailure(j)
<1>1. deliveries'[j] = Append(deliveries[j], "PENDING")
  BY DEF CreateDelivery
<1>2. "PENDING" \in DeliveryStatus /\ deliveries[j] \in Seq(DeliveryStatus)
  BY StatusFacts
<1>3. /\ deliveries' \in [Jobs -> Seq(DeliveryStatus)]
      /\ deliveries'[j] # <<>>
      /\ Len(deliveries'[j]) = Len(deliveries[j]) + 1
      /\ \A n \in 1..Len(deliveries[j]) : deliveries'[j][n] = deliveries[j][n]
      /\ deliveries'[j][Len(deliveries[j]) + 1] = "PENDING"
      /\ \A k \in Jobs : k # j => deliveries'[k] = deliveries[k]
  BY <1>1, <1>2, AppendProperties DEF CreateDelivery
<1>4. /\ Len(deliveries[j]) \in Nat
      /\ DOMAIN deliveries[j] = 1..Len(deliveries[j])
      /\ DOMAIN deliveries'[j] = 1..(Len(deliveries[j]) + 1)
  BY <1>2, <1>3, LenProperties
<1>5. NewestPending(j)'
  BY <1>3 DEF NewestPending
<1>6. \A n : n \in DOMAIN deliveries'[j] <=>
              n \in DOMAIN deliveries[j] \/ n = Len(deliveries[j]) + 1
  BY <1>4
<1>7. \A n \in DOMAIN deliveries[j] : deliveries'[j][n] = deliveries[j][n]
  BY <1>3, <1>4
<1>8. HasSuccess(j)' <=> HasSuccess(j)
  BY <1>3, <1>6, <1>7 DEF HasSuccess
<1>9. HasFailure(j)' <=> HasFailure(j)
  BY <1>3, <1>6, <1>7 DEF HasFailure
<1> QED  BY <1>3, <1>5, <1>8, <1>9

\* A publication adds at most its status to those of the event.
LEMMA PublishAdds ==
    ASSUME alerts \in [Events -> SUBSET EventStatus],
           NEW e \in Events, NEW s \in EventStatus, Publish(e, s)
    PROVE  /\ alerts' \in [Events -> SUBSET EventStatus]
           /\ \A f \in Events : alerts'[f] \subseteq alerts[f] \cup (IF f = e THEN {s} ELSE {})
<1>1. CASE alerts' = [alerts EXCEPT ![e] = @ \cup {s}]
  BY <1>1
<1>2. CASE UNCHANGED alerts
  BY <1>2
<1> QED  BY <1>1, <1>2 DEF Publish

-----------------------------------------------------------------------------
(* Types and the queue.                                                     *)

\* TypeOK with unbounded counters.
Types ==
    /\ job \in [Jobs -> JobState]
    /\ attemptsMade \in [Jobs -> Nat]
    /\ stalledCount \in [Jobs -> Nat]
    /\ pc \in [Jobs -> ProcessorCall \cup HandlerCall \cup {"idle", "lost"}]
    /\ isDuplicate \in [Jobs -> BOOLEAN]
    /\ event \in [Events -> EventStatus \cup {"NONE"}]
    /\ deliveries \in [Jobs -> Seq(DeliveryStatus)]
    /\ usage \in [Events -> Nat]
    /\ stored \in [Events -> BOOLEAN]
    /\ cached \in [Events -> BOOLEAN]
    /\ received \in [Jobs -> Nat]
    /\ acked \in [Jobs -> BOOLEAN]
    /\ alerts \in [Events -> SUBSET EventStatus]

\* From markProcessing on a run has a delivery row.
ForwardCall == {"markProcessing", "fetch", "persistUnreachable", "persistSuccess",
                "persistFailure", "publishSuccess", "publishFailure", "resolved"}

RunHasRow == \A j \in Jobs : pc[j] \in ForwardCall => deliveries[j] # <<>>

LEMMA TypesStep ==
    ASSUME Types, RunHasRow, NEW j \in Jobs, Step(j)
    PROVE  Types'
<1> USE PipelineAssumption, CallFacts, StatusFacts DEF Types
<1>1. ASSUME Enqueue(j) PROVE Types'
  BY <1>1 DEF Enqueue
<1>2. ASSUME StartRun(j) PROVE Types'
  BY <1>2 DEF StartRun
<1>3. ASSUME Promote(j) PROVE Types'
  BY <1>3 DEF Promote
<1>4. ASSUME Complete(j) PROVE Types'
  BY <1>4 DEF Complete
<1>5. ASSUME Reject(j) PROVE Types'
  BY <1>5 DEF Reject, HandlerEntry, IsFinal
<1>6. ASSUME RequeueStalled(j) PROVE Types'
  BY <1>6 DEF RequeueStalled
<1>7. ASSUME FailStalled(j) PROVE Types'
  BY <1>7 DEF FailStalled, HandlerEntry, IsFinal
<1>8. ASSUME Crash(j) PROVE Types'
  <2>1. PICK c \in {"lost", "idle"} : pc' = [pc EXCEPT ![j] = c]
    BY <1>8 DEF Crash, Goto
  <2>2. UNCHANGED <<queueVars, isDuplicate, dbVars, outVars>>
    BY <1>8 DEF Crash
  <2> QED  BY <2>1, <2>2
<1>9. ASSUME Throw(j) PROVE Types'
  BY <1>9 DEF Throw
<1>10. ASSUME PutObject(j) PROVE Types'
  BY <1>10 DEF PutObject
<1>11. ASSUME CreateEvent(j) PROVE Types'
  BY <1>11 DEF CreateEvent
<1>12. ASSUME CacheEvent(j) PROVE Types'
  BY <1>12 DEF CacheEvent
<1>13. ASSUME CountUsage(j) PROVE Types'
  BY <1>13 DEF CountUsage
<1>14. ASSUME CreateDelivery(j) PROVE Types'
  BY <1>14, CreationAppends DEF CreateDelivery
<1>15. ASSUME MarkProcessing(j) PROVE Types'
  BY <1>15 DEF MarkProcessing, SetEvent
<1>16. ASSUME FetchResponds(j) PROVE Types'
  <2>1. CASE Goto(j, "persistSuccess") /\ acked' = [acked EXCEPT ![j] = TRUE]
    BY <1>16, <2>1 DEF FetchResponds
  <2>2. CASE Goto(j, "persistFailure") /\ UNCHANGED acked
    BY <1>16, <2>2 DEF FetchResponds
  <2> QED  BY <1>16, <2>1, <2>2 DEF FetchResponds
<1>17. ASSUME FetchUnreachable(j) PROVE Types'
  <2>1. CASE received' = [received EXCEPT ![j] = @ + 1]
    BY <1>17, <2>1 DEF FetchUnreachable
  <2>2. CASE UNCHANGED received
    BY <1>17, <2>2 DEF FetchUnreachable
  <2> QED  BY <1>17, <2>1, <2>2 DEF FetchUnreachable
<1>18. ASSUME PersistUnreachable(j) PROVE Types'
  <2>1. deliveries[j] # <<>>
    BY <1>18 DEF PersistUnreachable, RunHasRow, ForwardCall
  <2>2. deliveries' \in [Jobs -> Seq(DeliveryStatus)]
    BY <1>18, <2>1, OutcomeReplacesNewest DEF PersistUnreachable
  <2> QED  BY <1>18, <2>2 DEF PersistUnreachable, SetEvent
<1>19. ASSUME PersistFailure(j) PROVE Types'
  <2>1. deliveries[j] # <<>>
    BY <1>19 DEF PersistFailure, RunHasRow, ForwardCall
  <2>2. deliveries' \in [Jobs -> Seq(DeliveryStatus)]
    BY <1>19, <2>1, OutcomeReplacesNewest DEF PersistFailure
  <2> QED  BY <1>19, <2>2 DEF PersistFailure, SetEvent
<1>20. ASSUME PersistSuccess(j) PROVE Types'
  <2>1. deliveries[j] # <<>>
    BY <1>20 DEF PersistSuccess, RunHasRow, ForwardCall
  <2>2. deliveries' \in [Jobs -> Seq(DeliveryStatus)]
    BY <1>20, <2>1, OutcomeReplacesNewest DEF PersistSuccess
  <2> QED  BY <1>20, <2>2 DEF PersistSuccess, SetEvent
<1>21. ASSUME PublishSuccess(j) PROVE Types'
  BY <1>21, PublishAdds DEF PublishSuccess
<1>22. ASSUME PublishFailure(j) PROVE Types'
  BY <1>22, PublishAdds DEF PublishFailure
<1>23. ASSUME FindEvent(j) PROVE Types'
  BY <1>23 DEF FindEvent
<1>24. ASSUME DeadLetter(j) PROVE Types'
  BY <1>24 DEF DeadLetter, SetEvent
<1>25. ASSUME PublishDeadLetter(j) PROVE Types'
  BY <1>25, PublishAdds DEF PublishDeadLetter
<1>26. ASSUME HandlerFails(j) PROVE Types'
  BY <1>26 DEF HandlerFails
<1> QED
  BY <1>1, <1>2, <1>3, <1>4, <1>5, <1>6, <1>7, <1>8, <1>9, <1>10, <1>11, <1>12, <1>13,
     <1>14, <1>15, <1>16, <1>17, <1>18, <1>19, <1>20, <1>21, <1>22, <1>23, <1>24, <1>25,
     <1>26 DEF Step, Queue, Processor, FailedHandler

\* Which job states go with which calls of a run: a job is active exactly
\* while it has a run (or lost it in a crash), the failed handler works on an
\* exhausted job, and a job that is not failed has an attempt left.
QueueInv ==
    \A j \in Jobs :
        /\ job[j] = "active" <=> pc[j] \in ProcessorCall \cup {"lost"}
        /\ pc[j] \in HandlerCall => job[j] = "failed" /\ attemptsMade[j] = MaxAttempts
        /\ attemptsMade[j] <= MaxAttempts
        /\ stalledCount[j] <= MaxStalledCount + 1
        /\ job[j] # "failed" =>
               attemptsMade[j] < MaxAttempts /\ stalledCount[j] <= MaxStalledCount

LEMMA QueueStep ==
    ASSUME Types, QueueInv, NEW j \in Jobs, Step(j)
    PROVE  QueueInv'
<1> USE PipelineAssumption, CallFacts, StatusFacts DEF Types, QueueInv
<1>1. ASSUME Enqueue(j) PROVE QueueInv'
  BY <1>1 DEF Enqueue
<1>2. ASSUME StartRun(j) PROVE QueueInv'
  BY <1>2 DEF StartRun
<1>3. ASSUME Promote(j) PROVE QueueInv'
  BY <1>3 DEF Promote
<1>4. ASSUME Complete(j) PROVE QueueInv'
  BY <1>4 DEF Complete
<1>5. ASSUME Reject(j) PROVE QueueInv'
  <2>0. pc[j] \in ProcessorCall \cup {"lost"}
    BY <1>5 DEF Reject
  <2>1. attemptsMade[j] \in Nat /\ attemptsMade[j] < MaxAttempts /\ stalledCount[j] <= MaxStalledCount
    BY <2>0
  <2>2. CASE attemptsMade[j] + 1 = MaxAttempts
    BY <1>5, <2>1, <2>2 DEF Reject, HandlerEntry, IsFinal
  <2>3. CASE attemptsMade[j] + 1 < MaxAttempts
    BY <1>5, <2>1, <2>3 DEF Reject, HandlerEntry, IsFinal
  <2> QED  BY <2>1, <2>2, <2>3, PipelineAssumption
<1>6. ASSUME RequeueStalled(j) PROVE QueueInv'
  BY <1>6 DEF RequeueStalled
<1>7. ASSUME FailStalled(j) PROVE QueueInv'
  <2>0. pc[j] \in ProcessorCall \cup {"lost"}
    BY <1>7 DEF FailStalled
  <2>1. attemptsMade[j] \in Nat /\ attemptsMade[j] < MaxAttempts /\ stalledCount[j] <= MaxStalledCount
    BY <2>0
  <2>2. CASE attemptsMade[j] + 1 = MaxAttempts
    BY <1>7, <2>1, <2>2 DEF FailStalled, HandlerEntry, IsFinal
  <2>3. CASE attemptsMade[j] + 1 < MaxAttempts
    BY <1>7, <2>1, <2>3 DEF FailStalled, HandlerEntry, IsFinal
  <2> QED  BY <2>1, <2>2, <2>3, PipelineAssumption
<1>8. ASSUME Crash(j) PROVE QueueInv'
  <2>1. CASE pc[j] \in ProcessorCall /\ Goto(j, "lost")
    BY <1>8, <2>1 DEF Crash
  <2>2. CASE pc[j] \in HandlerCall /\ Goto(j, "idle")
    BY <1>8, <2>2 DEF Crash
  <2> QED  BY <1>8, <2>1, <2>2 DEF Crash
<1>9. ASSUME Throw(j) PROVE QueueInv'
  BY <1>9 DEF Throw
<1>10. ASSUME PutObject(j) PROVE QueueInv'
  BY <1>10 DEF PutObject
<1>11. ASSUME CreateEvent(j) PROVE QueueInv'
  BY <1>11 DEF CreateEvent
<1>12. ASSUME CacheEvent(j) PROVE QueueInv'
  BY <1>12 DEF CacheEvent
<1>13. ASSUME CountUsage(j) PROVE QueueInv'
  BY <1>13 DEF CountUsage
<1>14. ASSUME CreateDelivery(j) PROVE QueueInv'
  BY <1>14 DEF CreateDelivery
<1>15. ASSUME MarkProcessing(j) PROVE QueueInv'
  BY <1>15 DEF MarkProcessing
<1>16. ASSUME FetchResponds(j) PROVE QueueInv'
  <2>1. CASE Goto(j, "persistSuccess") /\ acked' = [acked EXCEPT ![j] = TRUE]
    BY <1>16, <2>1 DEF FetchResponds
  <2>2. CASE Goto(j, "persistFailure") /\ UNCHANGED acked
    BY <1>16, <2>2 DEF FetchResponds
  <2> QED  BY <1>16, <2>1, <2>2 DEF FetchResponds
<1>17. ASSUME FetchUnreachable(j) PROVE QueueInv'
  <2>1. CASE received' = [received EXCEPT ![j] = @ + 1]
    BY <1>17, <2>1 DEF FetchUnreachable
  <2>2. CASE UNCHANGED received
    BY <1>17, <2>2 DEF FetchUnreachable
  <2> QED  BY <1>17, <2>1, <2>2 DEF FetchUnreachable
<1>18. ASSUME PersistUnreachable(j) PROVE QueueInv'
  BY <1>18 DEF PersistUnreachable
<1>19. ASSUME PersistFailure(j) PROVE QueueInv'
  BY <1>19 DEF PersistFailure
<1>20. ASSUME PersistSuccess(j) PROVE QueueInv'
  BY <1>20 DEF PersistSuccess
<1>21. ASSUME PublishSuccess(j) PROVE QueueInv'
  BY <1>21 DEF PublishSuccess
<1>22. ASSUME PublishFailure(j) PROVE QueueInv'
  BY <1>22 DEF PublishFailure
<1>23. ASSUME FindEvent(j) PROVE QueueInv'
  BY <1>23 DEF FindEvent
<1>24. ASSUME DeadLetter(j) PROVE QueueInv'
  BY <1>24 DEF DeadLetter
<1>25. ASSUME PublishDeadLetter(j) PROVE QueueInv'
  BY <1>25 DEF PublishDeadLetter
<1>26. ASSUME HandlerFails(j) PROVE QueueInv'
  BY <1>26 DEF HandlerFails
<1> QED
  BY <1>1, <1>2, <1>3, <1>4, <1>5, <1>6, <1>7, <1>8, <1>9, <1>10, <1>11, <1>12, <1>13,
     <1>14, <1>15, <1>16, <1>17, <1>18, <1>19, <1>20, <1>21, <1>22, <1>23, <1>24, <1>25,
     <1>26 DEF Step, Queue, Processor, FailedHandler

-----------------------------------------------------------------------------
(* What a step leaves alone.                                                *)

\* A step of one job touches neither the queue state, nor the run, nor the
\* delivery rows of another.
Untouched(k) ==
    /\ job'[k] = job[k]
    /\ attemptsMade'[k] = attemptsMade[k]
    /\ stalledCount'[k] = stalledCount[k]
    /\ pc'[k] = pc[k]
    /\ isDuplicate'[k] = isDuplicate[k]
    /\ deliveries'[k] = deliveries[k]
    /\ received'[k] = received[k]
    /\ acked'[k] = acked[k]

LEMMA OthersUntouched ==
    ASSUME Types, NEW j \in Jobs, Step(j), NEW k \in Jobs, k # j
    PROVE  Untouched(k)
<1> USE DEF Types, Untouched
<1>1. ASSUME Enqueue(j) PROVE Untouched(k)
  BY <1>1 DEF Enqueue
<1>2. ASSUME StartRun(j) PROVE Untouched(k)
  BY <1>2 DEF StartRun
<1>3. ASSUME Promote(j) PROVE Untouched(k)
  BY <1>3 DEF Promote
<1>4. ASSUME Complete(j) PROVE Untouched(k)
  BY <1>4 DEF Complete
<1>5. ASSUME Reject(j) PROVE Untouched(k)
  BY <1>5 DEF Reject
<1>6. ASSUME RequeueStalled(j) PROVE Untouched(k)
  BY <1>6 DEF RequeueStalled
<1>7. ASSUME FailStalled(j) PROVE Untouched(k)
  BY <1>7 DEF FailStalled
<1>8. ASSUME Crash(j) PROVE Untouched(k)
  <2>1. CASE pc[j] \in ProcessorCall /\ Goto(j, "lost")
    BY <1>8, <2>1 DEF Crash
  <2>2. CASE pc[j] \in HandlerCall /\ Goto(j, "idle")
    BY <1>8, <2>2 DEF Crash
  <2> QED  BY <1>8, <2>1, <2>2 DEF Crash
<1>9. ASSUME Throw(j) PROVE Untouched(k)
  BY <1>9 DEF Throw
<1>10. ASSUME PutObject(j) PROVE Untouched(k)
  BY <1>10 DEF PutObject
<1>11. ASSUME CreateEvent(j) PROVE Untouched(k)
  BY <1>11 DEF CreateEvent
<1>12. ASSUME CacheEvent(j) PROVE Untouched(k)
  BY <1>12 DEF CacheEvent
<1>13. ASSUME CountUsage(j) PROVE Untouched(k)
  BY <1>13 DEF CountUsage
<1>14. ASSUME CreateDelivery(j) PROVE Untouched(k)
  BY <1>14 DEF CreateDelivery
<1>15. ASSUME MarkProcessing(j) PROVE Untouched(k)
  BY <1>15 DEF MarkProcessing
<1>16. ASSUME FetchResponds(j) PROVE Untouched(k)
  <2>1. CASE Goto(j, "persistSuccess") /\ acked' = [acked EXCEPT ![j] = TRUE]
    BY <1>16, <2>1 DEF FetchResponds
  <2>2. CASE Goto(j, "persistFailure") /\ UNCHANGED acked
    BY <1>16, <2>2 DEF FetchResponds
  <2> QED  BY <1>16, <2>1, <2>2 DEF FetchResponds
<1>17. ASSUME FetchUnreachable(j) PROVE Untouched(k)
  <2>1. CASE received' = [received EXCEPT ![j] = @ + 1]
    BY <1>17, <2>1 DEF FetchUnreachable
  <2>2. CASE UNCHANGED received
    BY <1>17, <2>2 DEF FetchUnreachable
  <2> QED  BY <1>17, <2>1, <2>2 DEF FetchUnreachable
<1>18. ASSUME PersistUnreachable(j) PROVE Untouched(k)
  BY <1>18 DEF PersistUnreachable, SetDelivery
<1>19. ASSUME PersistFailure(j) PROVE Untouched(k)
  BY <1>19 DEF PersistFailure, SetDelivery
<1>20. ASSUME PersistSuccess(j) PROVE Untouched(k)
  BY <1>20 DEF PersistSuccess, SetDelivery
<1>21. ASSUME PublishSuccess(j) PROVE Untouched(k)
  BY <1>21 DEF PublishSuccess
<1>22. ASSUME PublishFailure(j) PROVE Untouched(k)
  BY <1>22 DEF PublishFailure
<1>23. ASSUME FindEvent(j) PROVE Untouched(k)
  BY <1>23 DEF FindEvent
<1>24. ASSUME DeadLetter(j) PROVE Untouched(k)
  BY <1>24 DEF DeadLetter
<1>25. ASSUME PublishDeadLetter(j) PROVE Untouched(k)
  BY <1>25 DEF PublishDeadLetter
<1>26. ASSUME HandlerFails(j) PROVE Untouched(k)
  BY <1>26 DEF HandlerFails
<1> QED
  BY <1>1, <1>2, <1>3, <1>4, <1>5, <1>6, <1>7, <1>8, <1>9, <1>10, <1>11, <1>12, <1>13,
     <1>14, <1>15, <1>16, <1>17, <1>18, <1>19, <1>20, <1>21, <1>22, <1>23, <1>24, <1>25,
     <1>26 DEF Step, Queue, Processor, FailedHandler

-----------------------------------------------------------------------------
(* The run of one job.                                                      *)

LEMMA LastIsSome ==
    ASSUME Types, NEW j \in Jobs, LastSucceeded(j)
    PROVE  HasSuccess(j)
<1>1. deliveries[j] \in Seq(DeliveryStatus)
  BY DEF Types
<1>2. Len(deliveries[j]) \in DOMAIN deliveries[j]
  BY <1>1, EmptySeq, LenProperties DEF LastSucceeded
<1> QED  BY <1>2 DEF LastSucceeded, HasSuccess

\* Where the run is tells what its job's rows say: from createDelivery to the
\* outcome the newest row is PENDING, after a persisted 2xx it is a SUCCESS;
\* a SUCCESS row was acknowledged by the destination; and a run that goes on
\* although a SUCCESS row exists follows a crash.
RunOK(j) ==
    /\ pc[j] \in {"markProcessing", "fetch", "persistUnreachable", "persistSuccess",
                  "persistFailure"} => NewestPending(j)
    /\ Settled(j) => LastSucceeded(j)
    /\ pc[j] = "publishFailure" => HasFailure(j)
    /\ pc[j] = "persistSuccess" => acked[j]
    /\ HasSuccess(j) => acked[j] /\ (Settled(j) \/ pc[j] = "lost" \/ stalledCount[j] > 0)

RunInv == \A j \in Jobs : RunOK(j)

LEMMA RunInvHasRow == Types /\ RunInv => RunHasRow
<1> SUFFICES ASSUME Types, RunInv, NEW j \in Jobs, pc[j] \in ForwardCall
             PROVE  deliveries[j] # <<>>
  BY DEF RunHasRow
<1>1. RunOK(j)
  BY DEF RunInv
<1>2. CASE pc[j] = "publishFailure"
  <2>1. deliveries[j] \in Seq(DeliveryStatus) /\ HasFailure(j)
    BY <1>1, <1>2 DEF RunOK, Types
  <2>2. Len(deliveries[j]) # 0
    BY <2>1, LenProperties DEF HasFailure
  <2> QED  BY <2>2, EmptySeq
<1>3. CASE pc[j] # "publishFailure"
  BY <1>1, <1>3 DEF ForwardCall, RunOK, Settled, LastSucceeded, NewestPending
<1> QED  BY <1>2, <1>3

\* RunOK of a job whose rows keep what they say.
LEMMA RunStep ==
    ASSUME Types, QueueInv, RunInv, NEW j \in Jobs, Step(j)
    PROVE  RunInv'
<1> SUFFICES RunOK(j)'
  <2> SUFFICES ASSUME NEW k \in Jobs, k # j PROVE RunOK(k)'
    BY DEF RunInv
  <2>1. Untouched(k) /\ RunOK(k)
    BY OthersUntouched DEF RunInv
  <2> QED  BY <2>1, SameRows DEF Untouched, RunOK, Settled
<1> USE RunInvHasRow, CallFacts DEF Types
<1>0. RunOK(j) /\ (job[j] = "active" <=> pc[j] \in ProcessorCall \cup {"lost"})
  BY DEF RunInv, QueueInv
<1> USE <1>0 DEF RunOK, Settled
<1>1. ASSUME Enqueue(j) PROVE RunOK(j)'
  BY <1>1, SameRows DEF Enqueue
<1>2. ASSUME StartRun(j) PROVE RunOK(j)'
  BY <1>2, SameRows DEF StartRun
<1>3. ASSUME Promote(j) PROVE RunOK(j)'
  BY <1>3, SameRows DEF Promote
<1>4. ASSUME Complete(j) PROVE RunOK(j)'
  BY <1>4, SameRows DEF Complete
<1>5. ASSUME Reject(j) PROVE RunOK(j)'
  BY <1>5, SameRows DEF Reject, HandlerEntry
<1>6. ASSUME RequeueStalled(j) PROVE RunOK(j)'
  BY <1>6, SameRows DEF RequeueStalled
<1>7. ASSUME FailStalled(j) PROVE RunOK(j)'
  BY <1>7, SameRows DEF FailStalled, HandlerEntry
<1>8. ASSUME Crash(j) PROVE RunOK(j)'
  <2>1. CASE pc[j] \in ProcessorCall /\ Goto(j, "lost")
    BY <1>8, <2>1, SameRows DEF Crash
  <2>2. CASE pc[j] \in HandlerCall /\ Goto(j, "idle")
    BY <1>8, <2>2, SameRows DEF Crash
  <2> QED  BY <1>8, <2>1, <2>2 DEF Crash
<1>9. ASSUME Throw(j) PROVE RunOK(j)'
  BY <1>9, SameRows DEF Throw
<1>10. ASSUME PutObject(j) PROVE RunOK(j)'
  BY <1>10, SameRows DEF PutObject
<1>11. ASSUME CreateEvent(j) PROVE RunOK(j)'
  BY <1>11, SameRows DEF CreateEvent
<1>12. ASSUME CacheEvent(j) PROVE RunOK(j)'
  BY <1>12, SameRows DEF CacheEvent
<1>13. ASSUME CountUsage(j) PROVE RunOK(j)'
  BY <1>13, SameRows DEF CountUsage
<1>14. ASSUME CreateDelivery(j) PROVE RunOK(j)'
  BY <1>14, CreationAppends DEF CreateDelivery
<1>15. ASSUME MarkProcessing(j) PROVE RunOK(j)'
  BY <1>15, SameRows DEF MarkProcessing
<1>16. ASSUME FetchResponds(j) PROVE RunOK(j)'
  <2>1. CASE Goto(j, "persistSuccess") /\ acked' = [acked EXCEPT ![j] = TRUE]
    BY <1>16, <2>1, SameRows DEF FetchResponds
  <2>2. CASE Goto(j, "persistFailure") /\ UNCHANGED acked
    BY <1>16, <2>2, SameRows DEF FetchResponds
  <2> QED  BY <1>16, <2>1, <2>2 DEF FetchResponds
<1>17. ASSUME FetchUnreachable(j) PROVE RunOK(j)'
  <2>1. CASE received' = [received EXCEPT ![j] = @ + 1]
    BY <1>17, <2>1, SameRows DEF FetchUnreachable
  <2>2. CASE UNCHANGED received
    BY <1>17, <2>2, SameRows DEF FetchUnreachable
  <2> QED  BY <1>17, <2>1, <2>2 DEF FetchUnreachable
<1>18. ASSUME PersistUnreachable(j) PROVE RunOK(j)'
  <2>1. NewestPending(j) /\ deliveries[j] # <<>>
    BY <1>18 DEF PersistUnreachable, NewestPending
  <2> HIDE DEF RunOK
  <2>2. /\ Len(deliveries[j]) \in Nat
        /\ HasSuccess(j)' => HasSuccess(j) \/ pc[j] = "persistSuccess"
        /\ pc[j] = "persistSuccess" => LastSucceeded(j)'
        /\ pc[j] # "persistSuccess" => HasFailure(j)'
    BY <1>18, <2>1, StatusFacts, OutcomeReplacesNewest, LenProperties DEF PersistUnreachable
  <2> QED  BY <1>18, <2>2 DEF PersistUnreachable, RunOK
<1>19. ASSUME PersistFailure(j) PROVE RunOK(j)'
  <2>1. NewestPending(j) /\ deliveries[j] # <<>>
    BY <1>19 DEF PersistFailure, NewestPending
  <2> HIDE DEF RunOK
  <2>2. /\ Len(deliveries[j]) \in Nat
        /\ HasSuccess(j)' => HasSuccess(j) \/ pc[j] = "persistSuccess"
        /\ pc[j] = "persistSuccess" => LastSucceeded(j)'
        /\ pc[j] # "persistSuccess" => HasFailure(j)'
    BY <1>19, <2>1, StatusFacts, OutcomeReplacesNewest, LenProperties DEF PersistFailure
  <2> QED  BY <1>19, <2>2 DEF PersistFailure, RunOK
<1>20. ASSUME PersistSuccess(j) PROVE RunOK(j)'
  <2>1. NewestPending(j) /\ deliveries[j] # <<>>
    BY <1>20 DEF PersistSuccess, NewestPending
  <2> HIDE DEF RunOK
  <2>2. /\ Len(deliveries[j]) \in Nat
        /\ HasSuccess(j)' => HasSuccess(j) \/ pc[j] = "persistSuccess"
        /\ pc[j] = "persistSuccess" => LastSucceeded(j)'
        /\ pc[j] # "persistSuccess" => HasFailure(j)'
    BY <1>20, <2>1, StatusFacts, OutcomeReplacesNewest, LenProperties DEF PersistSuccess
  <2> QED  BY <1>20, <2>2 DEF PersistSuccess, RunOK
<1>21. ASSUME PublishSuccess(j) PROVE RunOK(j)'
  BY <1>21, SameRows DEF PublishSuccess
<1>22. ASSUME PublishFailure(j) PROVE RunOK(j)'
  BY <1>22, SameRows DEF PublishFailure
<1>23. ASSUME FindEvent(j) PROVE RunOK(j)'
  BY <1>23, SameRows DEF FindEvent
<1>24. ASSUME DeadLetter(j) PROVE RunOK(j)'
  BY <1>24, SameRows DEF DeadLetter
<1>25. ASSUME PublishDeadLetter(j) PROVE RunOK(j)'
  BY <1>25, SameRows DEF PublishDeadLetter
<1>26. ASSUME HandlerFails(j) PROVE RunOK(j)'
  BY <1>26, SameRows DEF HandlerFails
<1> QED
  BY <1>1, <1>2, <1>3, <1>4, <1>5, <1>6, <1>7, <1>8, <1>9, <1>10, <1>11, <1>12, <1>13,
     <1>14, <1>15, <1>16, <1>17, <1>18, <1>19, <1>20, <1>21, <1>22, <1>23, <1>24, <1>25,
     <1>26 DEF Step, Queue, Processor, FailedHandler

\* A step creates a delivery row, replaces the PENDING row its run created, or
\* leaves the rows alone.
LEMMA RowsChange ==
    ASSUME RunInv, NEW j \in Jobs, Step(j)
    PROVE  \/ deliveries' = deliveries
           \/ CreateDelivery(j)
           \/ NewestPending(j) /\ \E s \in DeliveryStatus : SetDelivery(j, s)
<1>1. ASSUME PersistUnreachable(j) \/ PersistFailure(j) \/ PersistSuccess(j)
      PROVE  NewestPending(j) /\ \E s \in DeliveryStatus : SetDelivery(j, s)
  BY <1>1, StatusFacts
     DEF PersistUnreachable, PersistFailure, PersistSuccess, RunInv, RunOK
<1>2. ASSUME Queue(j) \/ FailedHandler(j) \/ Enqueue(j) \/ Crash(j)
      PROVE  deliveries' = deliveries
  BY <1>2 DEF Queue, FailedHandler, Enqueue, Crash, StartRun, Promote, Complete, Reject,
              RequeueStalled, FailStalled, FindEvent, DeadLetter, PublishDeadLetter,
              HandlerFails
<1>3. ASSUME Processor(j), ~CreateDelivery(j), ~PersistUnreachable(j),
             ~PersistFailure(j), ~PersistSuccess(j)
      PROVE  deliveries' = deliveries
  BY <1>3 DEF Processor, Throw, PutObject, CreateEvent, CacheEvent, CountUsage,
              MarkProcessing, FetchResponds, FetchUnreachable, PublishSuccess,
              PublishFailure
<1> QED  BY <1>1, <1>2, <1>3 DEF Step

-----------------------------------------------------------------------------
(* Theorems about single jobs.                                              *)

\* The inductive invariant of the queue and of the runs.
JobInv == Types /\ QueueInv /\ RunInv

LEMMA JobInit == Init => JobInv
<1> SUFFICES ASSUME Init PROVE JobInv
  OBVIOUS
<1> USE PipelineAssumption, CallFacts, StatusFacts DEF Init
<1>1. Types
  BY EmptySeq DEF Types
<1>2. QueueInv
  <2>1. \A j \in Jobs : /\ job[j] = "none" /\ pc[j] = "idle"
                        /\ attemptsMade[j] = 0 /\ stalledCount[j] = 0
    OBVIOUS
  <2> HIDE DEF Init
  <2>2. "idle" \notin ProcessorCall \cup {"lost"} /\ "idle" \notin HandlerCall
    OBVIOUS
  <2>3. 0 < MaxAttempts /\ 0 <= MaxStalledCount /\ 0 <= MaxAttempts /\ 0 <= MaxStalledCount + 1
    OBVIOUS
  <2> QED  BY <2>1, <2>2, <2>3 DEF QueueInv
<1>3. ASSUME NEW j \in Jobs PROVE RunOK(j)
  BY DEF RunOK, Settled, HasSuccess
<1> QED  BY <1>1, <1>2, <1>3 DEF JobInv, RunInv

LEMMA JobStutter == JobInv /\ UNCHANGED vars => JobInv'
<1> SUFFICES ASSUME JobInv, UNCHANGED vars PROVE JobInv'
  OBVIOUS
<1> USE DEF JobInv, vars
<1>1. Types'
  BY DEF Types
<1>2. QueueInv'
  BY DEF QueueInv
<1>3. RunInv'
  BY SameRows DEF RunInv, RunOK, Settled
<1> QED  BY <1>1, <1>2, <1>3

LEMMA NextIsStep ==
    Next <=> \/ \E j \in Jobs : Step(j)
             \/ \E e \in Refused : LogVerificationFailure(e)
  BY DEF Next, Step

\* A refused request touches its own row of WebhookEvent, and nothing else.
LEMMA RefusedTouches ==
    ASSUME Types, NEW e \in Refused, LogVerificationFailure(e)
    PROVE  /\ UNCHANGED <<queueVars, runVars, deliveries, usage, stored, cached, outVars>>
           /\ event[e] = "NONE" /\ event'[e] = "FAILED"
           /\ event' \in [Events -> EventStatus \cup {"NONE"}]
           /\ \A f \in Events : f # e => event'[f] = event[f]
  BY PipelineAssumption, StatusFacts DEF Types, LogVerificationFailure, SetEvent

LEMMA RefusedKeepsJobs ==
    ASSUME JobInv, NEW e \in Refused, LogVerificationFailure(e)
    PROVE  JobInv'
<1> USE DEF JobInv
<1>0. /\ UNCHANGED <<queueVars, runVars, deliveries, usage, stored, cached, outVars>>
      /\ event' \in [Events -> EventStatus \cup {"NONE"}]
  BY RefusedTouches
<1>1. Types'
  BY <1>0 DEF Types
<1>2. QueueInv'
  BY <1>0 DEF QueueInv
<1>3. RunInv'
  BY <1>0, SameRows DEF RunInv, RunOK, Settled
<1> QED  BY <1>1, <1>2, <1>3

LEMMA JobInvariant == Spec => []JobInv
<1>1. JobInv /\ Next => JobInv'
  BY NextIsStep, RunInvHasRow, TypesStep, QueueStep, RunStep, RefusedKeepsJobs DEF JobInv
<1>2. JobInv /\ [Next]_vars => JobInv'
  BY <1>1, JobStutter
<1> QED  BY JobInit, <1>2, PTL DEF Spec

\* Type correctness, with the bounds on the attempts and the stalls that the
\* queue enforces: no job is run more often than attempts and stalls allow.
THEOREM TypeCorrect == Spec => []TypeOK
<1>1. JobInv => TypeOK
  <2> SUFFICES ASSUME JobInv PROVE TypeOK
    OBVIOUS
  <2>1. ASSUME NEW j \in Jobs
        PROVE  /\ attemptsMade[j] \in 0..MaxAttempts
               /\ stalledCount[j] \in 0..(MaxStalledCount + 1)
    <3>1. /\ attemptsMade[j] \in Nat /\ attemptsMade[j] <= MaxAttempts
          /\ stalledCount[j] \in Nat /\ stalledCount[j] <= MaxStalledCount + 1
      BY DEF JobInv, Types, QueueInv
    <3> QED  BY <3>1, PipelineAssumption
  <2> QED  BY <2>1 DEF JobInv, Types, TypeOK
<1> QED  BY <1>1, JobInvariant, PTL

\* BullMQ acknowledges a job only after a 2xx of its destination was persisted
\* as the job's newest delivery.
THEOREM CompletedIsDelivered == Spec => []CompletedMeansDelivered
<1>1. JobInv => CompletedMeansDelivered
  BY LastIsSome DEF JobInv, RunInv, RunOK, Settled, CompletedMeansDelivered
<1> QED  BY <1>1, JobInvariant, PTL

\* A job is forwarded again after a persisted success only because of a crash.
THEOREM RedeliveryFollowsCrash == Spec => []RedeliveryNeedsCrash
<1>1. JobInv => RedeliveryNeedsCrash
  BY DEF JobInv, RunInv, RunOK, RedeliveryNeedsCrash
<1> QED  BY <1>1, JobInvariant, PTL

\* An outcome once written to a delivery row stays: what a run overwrites is
\* the PENDING row it created itself.
THEOREM OutcomesStay == Spec => OutcomesAreFinal
<1> DEFINE Kept(k) ==
              \A n \in DOMAIN deliveries[k] :
                  /\ n \in DOMAIN deliveries'[k]
                  /\ deliveries[k][n] # "PENDING" => deliveries'[k][n] = deliveries[k][n]
<1>1. ASSUME JobInv, NEW j \in Jobs, Step(j), NEW k \in Jobs PROVE Kept(k)
  <2> USE <1>1 DEF JobInv
  <2>1. CASE k # j
    BY <2>1, OthersUntouched DEF Untouched
  <2>2. CASE k = j /\ CreateDelivery(j)
    <3>1. /\ deliveries[j] \in Seq(DeliveryStatus) /\ deliveries'[j] \in Seq(DeliveryStatus)
          /\ Len(deliveries'[j]) = Len(deliveries[j]) + 1
          /\ \A n \in 1..Len(deliveries[j]) : deliveries'[j][n] = deliveries[j][n]
      BY <2>2, CreationAppends DEF Types
    <3>2. /\ Len(deliveries[j]) \in Nat
          /\ DOMAIN deliveries[j] = 1..Len(deliveries[j])
          /\ DOMAIN deliveries'[j] = 1..(Len(deliveries[j]) + 1)
      BY <3>1, LenProperties
    <3> QED  BY <2>2, <3>1, <3>2
  <2>3. CASE k = j /\ NewestPending(j) /\ \E s \in DeliveryStatus : SetDelivery(j, s)
    <3>1. PICK s \in DeliveryStatus : SetDelivery(j, s)
      BY <2>3
    <3>2. /\ deliveries[j] \in Seq(DeliveryStatus) /\ deliveries'[j] \in Seq(DeliveryStatus)
          /\ Len(deliveries'[j]) = Len(deliveries[j])
          /\ \A n \in 1..Len(deliveries[j]) :
                 n # Len(deliveries[j]) => deliveries'[j][n] = deliveries[j][n]
      BY <2>3, <3>1, OutcomeReplacesNewest DEF Types, NewestPending
    <3>3. /\ DOMAIN deliveries[j] = 1..Len(deliveries[j])
          /\ DOMAIN deliveries'[j] = 1..Len(deliveries[j])
      BY <3>2, LenProperties
    <3> QED  BY <2>3, <3>2, <3>3 DEF NewestPending
  <2>4. CASE deliveries' = deliveries
    BY <2>4
  <2> QED  BY <2>1, <2>2, <2>3, <2>4, RowsChange
<1>2. ASSUME JobInv, NEW e \in Refused, LogVerificationFailure(e), NEW k \in Jobs PROVE Kept(k)
  BY <1>2, RefusedTouches DEF JobInv
<1>3. JobInv /\ [Next]_vars =>
         [\A j \in Jobs : \A n \in DOMAIN deliveries[j] :
             /\ n \in DOMAIN deliveries'[j]
             /\ deliveries[j][n] # "PENDING" => deliveries'[j][n] = deliveries[j][n]]_vars
  BY <1>1, <1>2, NextIsStep
<1> QED  BY <1>3, JobInvariant, PTL DEF Spec, OutcomesAreFinal

-----------------------------------------------------------------------------
(***************************************************************************)
(* The rows of events, which the runs of several jobs share.               *)
(***************************************************************************)

-----------------------------------------------------------------------------
(* Rows of events.                                                          *)

\* Rows and payloads stay, and a step writes only to the event of its job.
EventFrame(j) ==
    \A e \in Events :
        /\ stored[e] => stored'[e]
        /\ event[e] # "NONE" => event'[e] # "NONE"
        /\ e # EventOf[j] =>
              /\ event'[e] = event[e] /\ stored'[e] = stored[e]
              /\ usage'[e] = usage[e] /\ alerts'[e] = alerts[e]

LEMMA EventStep ==
    ASSUME Types, NEW j \in Jobs, Step(j)
    PROVE  EventFrame(j)
<1> EventOf[j] \in Events
  BY PipelineAssumption
<1> USE DEF Types, EventFrame
<1>1. ASSUME Enqueue(j) PROVE EventFrame(j)
  BY <1>1 DEF Enqueue
<1>2. ASSUME StartRun(j) PROVE EventFrame(j)
  BY <1>2 DEF StartRun
<1>3. ASSUME Promote(j) PROVE EventFrame(j)
  BY <1>3 DEF Promote
<1>4. ASSUME Complete(j) PROVE EventFrame(j)
  BY <1>4 DEF Complete
<1>5. ASSUME Reject(j) PROVE EventFrame(j)
  BY <1>5 DEF Reject
<1>6. ASSUME RequeueStalled(j) PROVE EventFrame(j)
  BY <1>6 DEF RequeueStalled
<1>7. ASSUME FailStalled(j) PROVE EventFrame(j)
  BY <1>7 DEF FailStalled
<1>8. ASSUME Crash(j) PROVE EventFrame(j)
  BY <1>8 DEF Crash
<1>9. ASSUME Throw(j) PROVE EventFrame(j)
  BY <1>9 DEF Throw
<1>10. ASSUME PutObject(j) PROVE EventFrame(j)
  BY <1>10 DEF PutObject
<1>11. ASSUME CreateEvent(j) PROVE EventFrame(j)
  BY <1>11 DEF CreateEvent
<1>12. ASSUME CacheEvent(j) PROVE EventFrame(j)
  BY <1>12 DEF CacheEvent
<1>13. ASSUME CountUsage(j) PROVE EventFrame(j)
  BY <1>13 DEF CountUsage
<1>14. ASSUME CreateDelivery(j) PROVE EventFrame(j)
  BY <1>14 DEF CreateDelivery
<1>15. ASSUME MarkProcessing(j) PROVE EventFrame(j)
  BY <1>15 DEF MarkProcessing, SetEvent
<1>16. ASSUME FetchResponds(j) PROVE EventFrame(j)
  BY <1>16 DEF FetchResponds
<1>17. ASSUME FetchUnreachable(j) PROVE EventFrame(j)
  BY <1>17 DEF FetchUnreachable
<1>18. ASSUME PersistUnreachable(j) PROVE EventFrame(j)
  BY <1>18 DEF PersistUnreachable, SetEvent
<1>19. ASSUME PersistFailure(j) PROVE EventFrame(j)
  BY <1>19 DEF PersistFailure, SetEvent
<1>20. ASSUME PersistSuccess(j) PROVE EventFrame(j)
  BY <1>20 DEF PersistSuccess, SetEvent
<1>21. ASSUME PublishSuccess(j) PROVE EventFrame(j)
  <2>1. CASE UNCHANGED alerts
    BY <1>21, <2>1 DEF PublishSuccess
  <2>2. CASE ~UNCHANGED alerts
    BY <1>21, <2>2 DEF PublishSuccess, Publish
  <2> QED  BY <2>1, <2>2
<1>22. ASSUME PublishFailure(j) PROVE EventFrame(j)
  <2>1. CASE UNCHANGED alerts
    BY <1>22, <2>1 DEF PublishFailure
  <2>2. CASE ~UNCHANGED alerts
    BY <1>22, <2>2 DEF PublishFailure, Publish
  <2> QED  BY <2>1, <2>2
<1>23. ASSUME FindEvent(j) PROVE EventFrame(j)
  BY <1>23 DEF FindEvent
<1>24. ASSUME DeadLetter(j) PROVE EventFrame(j)
  BY <1>24 DEF DeadLetter, SetEvent
<1>25. ASSUME PublishDeadLetter(j) PROVE EventFrame(j)
  <2>1. CASE UNCHANGED alerts
    BY <1>25, <2>1 DEF PublishDeadLetter
  <2>2. CASE ~UNCHANGED alerts
    BY <1>25, <2>2 DEF PublishDeadLetter, Publish
  <2> QED  BY <2>1, <2>2
<1>26. ASSUME HandlerFails(j) PROVE EventFrame(j)
  BY <1>26 DEF HandlerFails
<1> QED
  BY <1>1, <1>2, <1>3, <1>4, <1>5, <1>6, <1>7, <1>8, <1>9, <1>10, <1>11, <1>12, <1>13,
     <1>14, <1>15, <1>16, <1>17, <1>18, <1>19, <1>20, <1>21, <1>22, <1>23, <1>24, <1>25,
     <1>26 DEF Step, Queue, Processor, FailedHandler

\* The calls a run, or the failed handler, makes once the event row exists.
CreatedCall == ForwardCall \cup {"cache", "usage", "createDelivery", "deadLetter"}

\* The row of an accepted event has its payload, and what is past createEvent, or
\* has rows that refer to it, has its event row.  No run touches a refused request.
RowInv ==
    /\ PayloadBeforeRow
    /\ \A e \in Refused : ~stored[e] /\ event[e] \in {"NONE", "FAILED"}
    /\ \A j \in Jobs :
          /\ pc[j] = "createEvent" => stored[EventOf[j]]
          /\ pc[j] \in CreatedCall \/ deliveries[j] # <<>> => event[EventOf[j]] # "NONE"

LEMMA RowStep ==
    ASSUME Types, RowInv, NEW j \in Jobs, Step(j)
    PROVE  RowInv'
<1> DEFINE RowOK(k) ==
              /\ pc[k] = "createEvent" => stored[EventOf[k]]
              /\ pc[k] \in CreatedCall \/ deliveries[k] # <<>> => event[EventOf[k]] # "NONE"
           Payload(e) == event[e] # "NONE" => stored[e]
<1>a. EventFrame(j) /\ \A k \in Jobs : EventOf[k] \in Events \ Refused
  BY EventStep, PipelineAssumption
<1>b. SUFFICES Payload(EventOf[j])' /\ RowOK(j)'
  <2>1. ASSUME NEW k \in Jobs, k # j PROVE RowOK(k)'
    BY <1>a, <2>1, OthersUntouched DEF RowInv, Untouched, EventFrame
  <2>2. ASSUME NEW e \in Events, e # EventOf[j]
        PROVE  event'[e] = event[e] /\ stored'[e] = stored[e]
    BY <1>a, <2>2 DEF EventFrame
  <2>3. \A e \in Refused : ~stored'[e] /\ event'[e] \in {"NONE", "FAILED"}
    BY <1>a, <2>2, PipelineAssumption DEF RowInv
  <2>4. PayloadBeforeRow'
    BY <1>a, <2>2, <2>3 DEF RowInv, PayloadBeforeRow
  <2> QED  BY <1>a, <2>1, <2>3, <2>4 DEF RowInv
<1>c. RowOK(j) /\ Payload(EventOf[j]) /\ EventOf[j] \in Events
  BY <1>a DEF RowInv, PayloadBeforeRow
<1> HIDE DEF RowInv
<1> USE <1>c DEF Types, CreatedCall, ForwardCall
<1>1. ASSUME Enqueue(j) PROVE Payload(EventOf[j])' /\ RowOK(j)'
  BY <1>1 DEF Enqueue
<1>2. ASSUME StartRun(j) PROVE Payload(EventOf[j])' /\ RowOK(j)'
  BY <1>2 DEF StartRun
<1>3. ASSUME Promote(j) PROVE Payload(EventOf[j])' /\ RowOK(j)'
  BY <1>3 DEF Promote
<1>4. ASSUME Complete(j) PROVE Payload(EventOf[j])' /\ RowOK(j)'
  BY <1>4 DEF Complete
<1>5. ASSUME Reject(j) PROVE Payload(EventOf[j])' /\ RowOK(j)'
  BY <1>5 DEF Reject, HandlerEntry
<1>6. ASSUME RequeueStalled(j) PROVE Payload(EventOf[j])' /\ RowOK(j)'
  BY <1>6 DEF RequeueStalled
<1>7. ASSUME FailStalled(j) PROVE Payload(EventOf[j])' /\ RowOK(j)'
  BY <1>7 DEF FailStalled, HandlerEntry
<1>8. ASSUME Crash(j) PROVE Payload(EventOf[j])' /\ RowOK(j)'
  <2>1. CASE pc[j] \in ProcessorCall /\ Goto(j, "lost")
    BY <1>8, <2>1 DEF Crash
  <2>2. CASE pc[j] \in HandlerCall /\ Goto(j, "idle")
    BY <1>8, <2>2 DEF Crash
  <2> QED  BY <1>8, <2>1, <2>2 DEF Crash
<1>9. ASSUME Throw(j) PROVE Payload(EventOf[j])' /\ RowOK(j)'
  BY <1>9 DEF Throw
<1>10. ASSUME PutObject(j) PROVE Payload(EventOf[j])' /\ RowOK(j)'
  BY <1>10 DEF PutObject
<1>11. ASSUME CreateEvent(j) PROVE Payload(EventOf[j])' /\ RowOK(j)'
  BY <1>11 DEF CreateEvent
<1>12. ASSUME CacheEvent(j) PROVE Payload(EventOf[j])' /\ RowOK(j)'
  BY <1>12 DEF CacheEvent
<1>13. ASSUME CountUsage(j) PROVE Payload(EventOf[j])' /\ RowOK(j)'
  BY <1>13 DEF CountUsage
<1>14. ASSUME CreateDelivery(j) PROVE Payload(EventOf[j])' /\ RowOK(j)'
  BY <1>14 DEF CreateDelivery
<1>15. ASSUME MarkProcessing(j) PROVE Payload(EventOf[j])' /\ RowOK(j)'
  BY <1>15 DEF MarkProcessing, SetEvent
<1>16. ASSUME FetchResponds(j) PROVE Payload(EventOf[j])' /\ RowOK(j)'
  <2>1. CASE Goto(j, "persistSuccess") /\ acked' = [acked EXCEPT ![j] = TRUE]
    BY <1>16, <2>1 DEF FetchResponds
  <2>2. CASE Goto(j, "persistFailure") /\ UNCHANGED acked
    BY <1>16, <2>2 DEF FetchResponds
  <2> QED  BY <1>16, <2>1, <2>2 DEF FetchResponds
<1>17. ASSUME FetchUnreachable(j) PROVE Payload(EventOf[j])' /\ RowOK(j)'
  <2>1. CASE received' = [received EXCEPT ![j] = @ + 1]
    BY <1>17, <2>1 DEF FetchUnreachable
  <2>2. CASE UNCHANGED received
    BY <1>17, <2>2 DEF FetchUnreachable
  <2> QED  BY <1>17, <2>1, <2>2 DEF FetchUnreachable
<1>18. ASSUME PersistUnreachable(j) PROVE Payload(EventOf[j])' /\ RowOK(j)'
  BY <1>18 DEF PersistUnreachable, SetEvent
<1>19. ASSUME PersistFailure(j) PROVE Payload(EventOf[j])' /\ RowOK(j)'
  BY <1>19 DEF PersistFailure, SetEvent
<1>20. ASSUME PersistSuccess(j) PROVE Payload(EventOf[j])' /\ RowOK(j)'
  BY <1>20 DEF PersistSuccess, SetEvent
<1>21. ASSUME PublishSuccess(j) PROVE Payload(EventOf[j])' /\ RowOK(j)'
  BY <1>21 DEF PublishSuccess
<1>22. ASSUME PublishFailure(j) PROVE Payload(EventOf[j])' /\ RowOK(j)'
  BY <1>22 DEF PublishFailure
<1>23. ASSUME FindEvent(j) PROVE Payload(EventOf[j])' /\ RowOK(j)'
  BY <1>23 DEF FindEvent
<1>24. ASSUME DeadLetter(j) PROVE Payload(EventOf[j])' /\ RowOK(j)'
  BY <1>24 DEF DeadLetter, SetEvent
<1>25. ASSUME PublishDeadLetter(j) PROVE Payload(EventOf[j])' /\ RowOK(j)'
  BY <1>25 DEF PublishDeadLetter
<1>26. ASSUME HandlerFails(j) PROVE Payload(EventOf[j])' /\ RowOK(j)'
  BY <1>26 DEF HandlerFails
<1> QED
  BY <1>1, <1>2, <1>3, <1>4, <1>5, <1>6, <1>7, <1>8, <1>9, <1>10, <1>11, <1>12, <1>13,
     <1>14, <1>15, <1>16, <1>17, <1>18, <1>19, <1>20, <1>21, <1>22, <1>23, <1>24, <1>25,
     <1>26 DEF Step, Queue, Processor, FailedHandler

-----------------------------------------------------------------------------
(* The usage counter.                                                       *)

\* The run created the event row and has not counted it yet.
Counting(j) == pc[j] \in {"cache", "usage"} /\ ~isDuplicate[j]

\* An event is counted by the one run that created its row: that run is the
\* only one that may still count it, and while it may, the count is 0.
UsageInv ==
    /\ \A e \in Events : usage[e] <= 1
    /\ \A e \in Events : usage[e] # 0 => event[e] # "NONE"
    /\ \A j \in Jobs : Counting(j) => usage[EventOf[j]] = 0
    /\ \A j, k \in Jobs : Counting(j) /\ Counting(k) /\ EventOf[j] = EventOf[k] => j = k

LEMMA CountingFrame ==
    ASSUME Types, NEW j \in Jobs, Step(j), ~CreateEvent(j), ~CountUsage(j)
    PROVE  usage' = usage /\ (Counting(j)' => Counting(j))
<1> USE DEF Types, Counting
<1>1. ASSUME Enqueue(j) \/ Queue(j) \/ FailedHandler(j)
      PROVE  usage' = usage /\ (Counting(j)' => Counting(j))
  BY <1>1 DEF Enqueue, Queue, FailedHandler, StartRun, Promote, Complete, Reject, HandlerEntry,
              RequeueStalled, FailStalled, FindEvent, DeadLetter, PublishDeadLetter,
              HandlerFails
<1>2. ASSUME Crash(j) PROVE usage' = usage /\ (Counting(j)' => Counting(j))
  BY <1>2 DEF Crash
<1>3. ASSUME Processor(j) PROVE usage' = usage /\ (Counting(j)' => Counting(j))
  BY <1>3 DEF Processor, Throw, PutObject, CacheEvent, CreateDelivery, MarkProcessing,
              FetchResponds, FetchUnreachable, PersistUnreachable, PersistFailure,
              PersistSuccess, PublishSuccess, PublishFailure
<1> QED  BY <1>1, <1>2, <1>3 DEF Step

LEMMA UsageStep ==
    ASSUME Types, RowInv, UsageInv, NEW j \in Jobs, Step(j)
    PROVE  UsageInv'
<1> DEFINE e == EventOf[j]
<1>0. /\ \A k \in Jobs : EventOf[k] \in Events
      /\ \A k \in Jobs : k # j => (Counting(k)' <=> Counting(k))
      /\ \A f \in Events : event[f] # "NONE" => event'[f] # "NONE"
      /\ \A k \in Jobs : Counting(k) => event[EventOf[k]] # "NONE"
  BY PipelineAssumption, EventStep, OthersUntouched
     DEF Counting, Untouched, EventFrame, RowInv, CreatedCall
<1>1. CASE CreateEvent(j)
  <2>1. usage' = usage /\ (Counting(j)' => event[e] = "NONE")
    BY <1>1 DEF CreateEvent, Counting, Types
  <2>2. event[e] = "NONE" => usage[e] = 0
    BY <1>0 DEF UsageInv
  <2>3. ASSUME NEW k \in Jobs, NEW l \in Jobs, Counting(k)', Counting(l)',
               EventOf[k] = EventOf[l], k # l
        PROVE  FALSE
    <3>1. CASE k = j
      BY <1>0, <2>1, <2>3, <3>1
    <3>2. CASE l = j
      BY <1>0, <2>1, <2>3, <3>2
    <3>3. CASE k # j /\ l # j
      BY <1>0, <2>3, <3>3 DEF UsageInv
    <3> QED  BY <3>1, <3>2, <3>3
  <2> QED  BY <1>0, <2>1, <2>2, <2>3 DEF UsageInv
<1>2. CASE CountUsage(j)
  <2>1. /\ \A f \in Events \ {e} : usage'[f] = usage[f]
        /\ usage'[e] = IF isDuplicate[j] THEN usage[e] ELSE usage[e] + 1
        /\ pc'[j] = "createDelivery"
        /\ pc[j] = "usage"
        /\ usage[e] \in Nat
    BY <1>0, <1>2 DEF CountUsage, Types
  <2>2. ~Counting(j)'
    BY <2>1 DEF Counting
  <2>3. CASE isDuplicate[j]
    <3>1. \A f \in Events : usage'[f] = usage[f]
      BY <2>1, <2>3
    <3> QED  BY <1>0, <2>2, <3>1 DEF UsageInv
  <2>4. CASE ~isDuplicate[j]
    <3>1. Counting(j) /\ event[e] # "NONE" /\ usage[e] = 0
      BY <1>0, <2>1, <2>4 DEF Counting, UsageInv
    <3>2. usage'[e] = 1 /\ event'[e] # "NONE"
      BY <1>0, <2>1, <2>4, <3>1
    <3>3. \A f \in Events : usage'[f] <= 1 /\ (usage'[f] # 0 => event'[f] # "NONE")
      BY <1>0, <2>1, <3>2 DEF UsageInv
    <3>4. ASSUME NEW k \in Jobs, Counting(k)' PROVE Counting(k) /\ EventOf[k] # e
      BY <1>0, <2>2, <3>1, <3>4 DEF UsageInv
    <3> QED  BY <1>0, <2>1, <3>3, <3>4 DEF UsageInv
  <2> QED  BY <2>3, <2>4
<1>3. CASE ~CreateEvent(j) /\ ~CountUsage(j)
  <2>1. usage' = usage /\ \A k \in Jobs : Counting(k)' => Counting(k)
    BY <1>0, <1>3, CountingFrame
  <2> QED  BY <1>0, <2>1 DEF UsageInv
<1> QED  BY <1>1, <1>2, <1>3

LEMMA OnlyAcks ==
    ASSUME Types, NEW j \in Jobs, Step(j)
    PROVE  acked[j] => acked'[j]
<1> USE DEF Types
<1>1. ASSUME Enqueue(j) \/ Queue(j) \/ FailedHandler(j) \/ Crash(j) PROVE acked' = acked
  BY <1>1 DEF Enqueue, Queue, FailedHandler, Crash, StartRun, Promote, Complete, Reject,
              RequeueStalled, FailStalled, FindEvent, DeadLetter, PublishDeadLetter,
              HandlerFails
<1>2. ASSUME FetchResponds(j) PROVE acked[j] => acked'[j]
  <2>1. CASE acked' = [acked EXCEPT ![j] = TRUE]
    BY <2>1
  <2> QED  BY <1>2, <2>1 DEF FetchResponds
<1>3. ASSUME Processor(j), ~FetchResponds(j) PROVE acked' = acked
  BY <1>3 DEF Processor, Throw, PutObject, CreateEvent, CacheEvent, CountUsage,
              CreateDelivery, MarkProcessing, FetchUnreachable, PersistUnreachable,
              PersistFailure, PersistSuccess, PublishSuccess, PublishFailure
<1> QED  BY <1>1, <1>2, <1>3 DEF Step

LEMMA FailedStays ==
    ASSUME Types, QueueInv, NEW j \in Jobs, Step(j), job[j] = "failed"
    PROVE  job'[j] = "failed" /\ attemptsMade'[j] = attemptsMade[j]
<1>1. pc[j] \notin ProcessorCall \cup {"lost"}
  BY StatusFacts DEF QueueInv
<1>2. CASE Processor(j)
  <2>1. pc[j] \in ProcessorCall
    BY <1>2, CallFacts
       DEF Processor, Throw, PutObject, CreateEvent, CacheEvent, CountUsage, CreateDelivery,
           MarkProcessing, FetchResponds, FetchUnreachable, PersistUnreachable,
           PersistFailure, PersistSuccess, PublishSuccess, PublishFailure
  <2> QED  BY <1>1, <2>1
<1>3. CASE FailedHandler(j) \/ Crash(j)
  BY <1>3 DEF FailedHandler, Crash, FindEvent, DeadLetter, PublishDeadLetter, HandlerFails
<1>4. CASE Enqueue(j) \/ Queue(j)
  BY <1>1, <1>4, CallFacts DEF Enqueue, Queue, StartRun, Promote, Complete, Reject,
                               RequeueStalled, FailStalled
<1> QED  BY <1>2, <1>3, <1>4 DEF Step

-----------------------------------------------------------------------------
(* Statuses and alerts.                                                     *)

\* A job that backs a status goes on backing it: outcomes, acknowledgements
\* and exhaustion are never taken back.
LEMMA BackingStays ==
    ASSUME JobInv, NEW j \in Jobs, Step(j), NEW k \in Jobs, NEW s, Backs(k, s)
    PROVE  Backs(k, s)'
<1> USE DEF JobInv
<1>1. CASE k # j
  <2>1. Untouched(k)
    BY <1>1, OthersUntouched
  <2> QED  BY <2>1, SameRows DEF Untouched, Backs
<1>2. (HasSuccess(j) => HasSuccess(j)') /\ (HasFailure(j) => HasFailure(j)')
  <2>1. CASE deliveries' = deliveries
    BY <2>1, SameRows
  <2>2. CASE CreateDelivery(j)
    BY <2>2, CreationAppends DEF Types
  <2>3. CASE NewestPending(j) /\ \E st \in DeliveryStatus : SetDelivery(j, st)
    BY <2>3, OutcomeReplacesNewest DEF Types, NewestPending
  <2> QED  BY <2>1, <2>2, <2>3, RowsChange
<1>3. acked[j] => acked'[j]
  BY OnlyAcks
<1>4. job[j] = "failed" => job'[j] = "failed" /\ attemptsMade'[j] = attemptsMade[j]
  BY FailedStays
<1> QED  BY <1>1, <1>2, <1>3, <1>4 DEF Backs

\* A status that a step writes, or announces, is backed by the job it works on.
StatusWritten(j) ==
    /\ \A s \in EventStatus :
          event'[EventOf[j]] = s /\ event[EventOf[j]] # s => Backs(j, s)'
    /\ \A s \in alerts'[EventOf[j]] \ alerts[EventOf[j]] : Backs(j, s)'

LEMMA StatusWrites ==
    ASSUME JobInv, NEW j \in Jobs, Step(j)
    PROVE  StatusWritten(j)
<1> EventOf[j] \in Events
  BY PipelineAssumption
<1> USE CallFacts, StatusFacts DEF JobInv, Types, StatusWritten
<1>0. RunOK(j) /\ (pc[j] \in HandlerCall => job[j] = "failed" /\ attemptsMade[j] = MaxAttempts)
  BY DEF RunInv, QueueInv
<1>1. ASSUME Enqueue(j) PROVE StatusWritten(j)
  BY <1>1 DEF Enqueue
<1>2. ASSUME StartRun(j) PROVE StatusWritten(j)
  BY <1>2 DEF StartRun
<1>3. ASSUME Promote(j) PROVE StatusWritten(j)
  BY <1>3 DEF Promote
<1>4. ASSUME Complete(j) PROVE StatusWritten(j)
  BY <1>4 DEF Complete
<1>5. ASSUME Reject(j) PROVE StatusWritten(j)
  BY <1>5 DEF Reject
<1>6. ASSUME RequeueStalled(j) PROVE StatusWritten(j)
  BY <1>6 DEF RequeueStalled
<1>7. ASSUME FailStalled(j) PROVE StatusWritten(j)
  BY <1>7 DEF FailStalled
<1>8. ASSUME Crash(j) PROVE StatusWritten(j)
  BY <1>8 DEF Crash
<1>9. ASSUME Throw(j) PROVE StatusWritten(j)
  BY <1>9 DEF Throw
<1>10. ASSUME PutObject(j) PROVE StatusWritten(j)
  BY <1>10 DEF PutObject
<1>11. ASSUME CreateEvent(j) PROVE StatusWritten(j)
  BY <1>11 DEF CreateEvent, Backs
<1>12. ASSUME CacheEvent(j) PROVE StatusWritten(j)
  BY <1>12 DEF CacheEvent
<1>13. ASSUME CountUsage(j) PROVE StatusWritten(j)
  BY <1>13 DEF CountUsage
<1>14. ASSUME CreateDelivery(j) PROVE StatusWritten(j)
  BY <1>14 DEF CreateDelivery
<1>15. ASSUME MarkProcessing(j) PROVE StatusWritten(j)
  BY <1>15 DEF MarkProcessing, SetEvent, Backs
<1>16. ASSUME FetchResponds(j) PROVE StatusWritten(j)
  BY <1>16 DEF FetchResponds
<1>17. ASSUME FetchUnreachable(j) PROVE StatusWritten(j)
  BY <1>17 DEF FetchUnreachable
<1>18. ASSUME PersistUnreachable(j) PROVE StatusWritten(j)
  <2>1. deliveries[j] # <<>> /\ TRUE
    BY <1>0, <1>18 DEF PersistUnreachable, RunOK, NewestPending
  <2>2. HasFailure(j)'
    BY <1>18, <2>1, OutcomeReplacesNewest DEF PersistUnreachable
  <2> QED  BY <1>18, <2>1, <2>2 DEF PersistUnreachable, SetEvent, Backs
<1>19. ASSUME PersistFailure(j) PROVE StatusWritten(j)
  <2>1. deliveries[j] # <<>> /\ TRUE
    BY <1>0, <1>19 DEF PersistFailure, RunOK, NewestPending
  <2>2. HasFailure(j)'
    BY <1>19, <2>1, OutcomeReplacesNewest DEF PersistFailure
  <2> QED  BY <1>19, <2>1, <2>2 DEF PersistFailure, SetEvent, Backs
<1>20. ASSUME PersistSuccess(j) PROVE StatusWritten(j)
  <2>1. deliveries[j] # <<>> /\ acked[j]
    BY <1>0, <1>20 DEF PersistSuccess, RunOK, NewestPending
  <2>2. HasSuccess(j)'
    BY <1>20, <2>1, OutcomeReplacesNewest DEF PersistSuccess
  <2> QED  BY <1>20, <2>1, <2>2 DEF PersistSuccess, SetEvent, Backs
<1>21. ASSUME PublishSuccess(j) PROVE StatusWritten(j)
  <2>1. HasSuccess(j) /\ acked[j]
    BY <1>0, <1>21, LastIsSome DEF PublishSuccess, RunOK, Settled
  <2>2. /\ Publish(EventOf[j], "DELIVERED")
        /\ alerts \in [Events -> SUBSET EventStatus]
        /\ "DELIVERED" \in EventStatus
    BY <1>21 DEF PublishSuccess
  <2>3. alerts'[EventOf[j]] \subseteq alerts[EventOf[j]] \cup {"DELIVERED"}
    <3> HIDE CallFacts, StatusFacts DEF JobInv, StatusWritten
    <3> QED  BY <2>2, PublishAdds
  <2> QED  BY <1>21, <2>1, <2>3, SameRows DEF PublishSuccess, Backs
<1>22. ASSUME PublishFailure(j) PROVE StatusWritten(j)
  <2>1. HasFailure(j)
    BY <1>0, <1>22, LastIsSome DEF PublishFailure, RunOK, Settled
  <2>2. /\ Publish(EventOf[j], "FAILED")
        /\ alerts \in [Events -> SUBSET EventStatus]
        /\ "FAILED" \in EventStatus
    BY <1>22 DEF PublishFailure
  <2>3. alerts'[EventOf[j]] \subseteq alerts[EventOf[j]] \cup {"FAILED"}
    <3> HIDE CallFacts, StatusFacts DEF JobInv, StatusWritten
    <3> QED  BY <2>2, PublishAdds
  <2> QED  BY <1>22, <2>1, <2>3, SameRows DEF PublishFailure, Backs
<1>23. ASSUME FindEvent(j) PROVE StatusWritten(j)
  BY <1>23 DEF FindEvent
<1>24. ASSUME DeadLetter(j) PROVE StatusWritten(j)
  BY <1>0, <1>24 DEF DeadLetter, SetEvent, Backs
<1>25. ASSUME PublishDeadLetter(j) PROVE StatusWritten(j)
  <2>1. job[j] = "failed" /\ attemptsMade[j] = MaxAttempts
    BY <1>0, <1>25, LastIsSome DEF PublishDeadLetter, RunOK, Settled
  <2>2. /\ Publish(EventOf[j], "DEAD_LETTER")
        /\ alerts \in [Events -> SUBSET EventStatus]
        /\ "DEAD_LETTER" \in EventStatus
    BY <1>25 DEF PublishDeadLetter
  <2>3. alerts'[EventOf[j]] \subseteq alerts[EventOf[j]] \cup {"DEAD_LETTER"}
    <3> HIDE CallFacts, StatusFacts DEF JobInv, StatusWritten
    <3> QED  BY <2>2, PublishAdds
  <2> QED  BY <1>25, <2>1, <2>3, SameRows DEF PublishDeadLetter, Backs
<1>26. ASSUME HandlerFails(j) PROVE StatusWritten(j)
  BY <1>26 DEF HandlerFails
<1> QED
  BY <1>1, <1>2, <1>3, <1>4, <1>5, <1>6, <1>7, <1>8, <1>9, <1>10, <1>11, <1>12, <1>13,
     <1>14, <1>15, <1>16, <1>17, <1>18, <1>19, <1>20, <1>21, <1>22, <1>23, <1>24, <1>25,
     <1>26 DEF Step, Queue, Processor, FailedHandler

\* Every status of a row, and every announced one, has a job that backs it.
StatusInv == StatusIsBacked /\ AlertsAreBacked

LEMMA StatusStep ==
    ASSUME JobInv, StatusInv, NEW j \in Jobs, Step(j)
    PROVE  StatusInv'
<1>0. EventFrame(j) /\ StatusWritten(j) /\ EventOf[j] \in Events
  BY EventStep, StatusWrites, PipelineAssumption DEF JobInv
<1>1. ASSUME NEW e \in Events, NEW s \in EventStatus, event'[e] = s
      PROVE  (\E k \in JobsOf(e) : Backs(k, s)') \/ (e \in Refused /\ s = "FAILED")
  <2>1. CASE event[e] = s
    <3>1. CASE \E k \in JobsOf(e) : Backs(k, s)
      <4>1. PICK k \in JobsOf(e) : Backs(k, s)
        BY <3>1
      <4> QED  BY <4>1, BackingStays DEF JobsOf
    <3>2. CASE e \in Refused /\ s = "FAILED"
      BY <3>2
    <3> QED  BY <1>1, <2>1, <3>1, <3>2, StatusFacts DEF StatusInv, StatusIsBacked
  <2>2. CASE event[e] # s
    BY <1>0, <1>1, <2>2 DEF EventFrame, StatusWritten, JobsOf
  <2> QED  BY <2>1, <2>2
<1>2. ASSUME NEW e \in Events, NEW s \in alerts'[e]
      PROVE  \E k \in JobsOf(e) : Backs(k, s)'
  <2>1. CASE s \in alerts[e]
    <3>1. PICK k \in JobsOf(e) : Backs(k, s)
      BY <2>1 DEF StatusInv, AlertsAreBacked
    <3> QED  BY <3>1, BackingStays DEF JobsOf
  <2>2. CASE s \notin alerts[e]
    BY <1>0, <2>2 DEF EventFrame, StatusWritten, JobsOf
  <2> QED  BY <2>1, <2>2
<1>3. StatusIsBacked'
  <2> SUFFICES ASSUME NEW e \in Events, event'[e] # "NONE"
               PROVE  \/ \E k \in JobsOf(e) : Backs(k, event[e])'
                      \/ e \in Refused /\ event'[e] = "FAILED"
    BY DEF StatusIsBacked, JobsOf
  <2>1. PICK s \in EventStatus : s = event'[e]
    BY TypesStep, RunInvHasRow DEF JobInv, Types
  <2> QED  BY <1>1, <2>1 DEF Backs
<1>4. AlertsAreBacked'
  BY <1>2 DEF AlertsAreBacked, JobsOf
<1> QED  BY <1>3, <1>4 DEF StatusInv

-----------------------------------------------------------------------------
(* The last writer.                                                         *)

\* While an accepted event is neither missing nor DELIVERED, some job of it is accepted
\* and has not settled: its run, or its failed handler, wrote that status.
LastWriterInv ==
    \A e \in Events \ Refused : event[e] \notin {"NONE", "DELIVERED"} =>
        \E j \in JobsOf(e) : job[j] # "none" /\ ~Settled(j)

\* A job settles only by writing DELIVERED, and writes anything else only
\* while it is not settled.
WritesLast(j) ==
    /\ Settled(j)' /\ ~Settled(j) => event'[EventOf[j]] = "DELIVERED"
    /\ event'[EventOf[j]] # event[EventOf[j]] =>
          event'[EventOf[j]] = "DELIVERED" \/ (job'[j] # "none" /\ ~Settled(j)')
    /\ job[j] # "none" => job'[j] # "none"

LEMMA LastWrites ==
    ASSUME Types, QueueInv, NEW j \in Jobs, Step(j)
    PROVE  WritesLast(j)
<1> EventOf[j] \in Events
  BY PipelineAssumption
<1> USE CallFacts, StatusFacts DEF Types, WritesLast, Settled
<1>0. /\ job[j] = "active" <=> pc[j] \in ProcessorCall \cup {"lost"}
      /\ pc[j] \in HandlerCall => job[j] = "failed"
  BY DEF QueueInv
<1> USE <1>0
<1>1. ASSUME Enqueue(j) PROVE WritesLast(j)
  BY <1>1 DEF Enqueue
<1>2. ASSUME StartRun(j) PROVE WritesLast(j)
  BY <1>2 DEF StartRun
<1>3. ASSUME Promote(j) PROVE WritesLast(j)
  BY <1>3 DEF Promote
<1>4. ASSUME Complete(j) PROVE WritesLast(j)
  BY <1>4 DEF Complete
<1>5. ASSUME Reject(j) PROVE WritesLast(j)
  BY <1>5 DEF Reject, HandlerEntry
<1>6. ASSUME RequeueStalled(j) PROVE WritesLast(j)
  BY <1>6 DEF RequeueStalled
<1>7. ASSUME FailStalled(j) PROVE WritesLast(j)
  BY <1>7 DEF FailStalled, HandlerEntry
<1>8. ASSUME Crash(j) PROVE WritesLast(j)
  <2>1. CASE pc[j] \in ProcessorCall /\ Goto(j, "lost")
    BY <1>8, <2>1 DEF Crash
  <2>2. CASE pc[j] \in HandlerCall /\ Goto(j, "idle")
    BY <1>8, <2>2 DEF Crash
  <2> QED  BY <1>8, <2>1, <2>2 DEF Crash
<1>9. ASSUME Throw(j) PROVE WritesLast(j)
  BY <1>9 DEF Throw
<1>10. ASSUME PutObject(j) PROVE WritesLast(j)
  BY <1>10 DEF PutObject
<1>11. ASSUME CreateEvent(j) PROVE WritesLast(j)
  BY <1>11 DEF CreateEvent
<1>12. ASSUME CacheEvent(j) PROVE WritesLast(j)
  BY <1>12 DEF CacheEvent
<1>13. ASSUME CountUsage(j) PROVE WritesLast(j)
  BY <1>13 DEF CountUsage
<1>14. ASSUME CreateDelivery(j) PROVE WritesLast(j)
  BY <1>14 DEF CreateDelivery
<1>15. ASSUME MarkProcessing(j) PROVE WritesLast(j)
  BY <1>15 DEF MarkProcessing, SetEvent
<1>16. ASSUME FetchResponds(j) PROVE WritesLast(j)
  <2>1. CASE Goto(j, "persistSuccess") /\ acked' = [acked EXCEPT ![j] = TRUE]
    BY <1>16, <2>1 DEF FetchResponds
  <2>2. CASE Goto(j, "persistFailure") /\ UNCHANGED acked
    BY <1>16, <2>2 DEF FetchResponds
  <2> QED  BY <1>16, <2>1, <2>2 DEF FetchResponds
<1>17. ASSUME FetchUnreachable(j) PROVE WritesLast(j)
  <2>1. CASE received' = [received EXCEPT ![j] = @ + 1]
    BY <1>17, <2>1 DEF FetchUnreachable
  <2>2. CASE UNCHANGED received
    BY <1>17, <2>2 DEF FetchUnreachable
  <2> QED  BY <1>17, <2>1, <2>2 DEF FetchUnreachable
<1>18. ASSUME PersistUnreachable(j) PROVE WritesLast(j)
  BY <1>18 DEF PersistUnreachable, SetEvent
<1>19. ASSUME PersistFailure(j) PROVE WritesLast(j)
  BY <1>19 DEF PersistFailure, SetEvent
<1>20. ASSUME PersistSuccess(j) PROVE WritesLast(j)
  BY <1>20 DEF PersistSuccess, SetEvent
<1>21. ASSUME PublishSuccess(j) PROVE WritesLast(j)
  BY <1>21 DEF PublishSuccess
<1>22. ASSUME PublishFailure(j) PROVE WritesLast(j)
  BY <1>22 DEF PublishFailure
<1>23. ASSUME FindEvent(j) PROVE WritesLast(j)
  BY <1>23 DEF FindEvent
<1>24. ASSUME DeadLetter(j) PROVE WritesLast(j)
  BY <1>24 DEF DeadLetter, SetEvent
<1>25. ASSUME PublishDeadLetter(j) PROVE WritesLast(j)
  BY <1>25 DEF PublishDeadLetter
<1>26. ASSUME HandlerFails(j) PROVE WritesLast(j)
  BY <1>26 DEF HandlerFails
<1> QED
  BY <1>1, <1>2, <1>3, <1>4, <1>5, <1>6, <1>7, <1>8, <1>9, <1>10, <1>11, <1>12, <1>13,
     <1>14, <1>15, <1>16, <1>17, <1>18, <1>19, <1>20, <1>21, <1>22, <1>23, <1>24, <1>25,
     <1>26 DEF Step, Queue, Processor, FailedHandler

LEMMA LastWriterStep ==
    ASSUME JobInv, LastWriterInv, NEW j \in Jobs, Step(j)
    PROVE  LastWriterInv'
<1>0. WritesLast(j) /\ EventFrame(j) /\ EventOf[j] \in Events
  BY LastWrites, EventStep, PipelineAssumption DEF JobInv
<1>1. ASSUME NEW e \in Events \ Refused, event'[e] \notin {"NONE", "DELIVERED"}
      PROVE  \E k \in JobsOf(e) : job'[k] # "none" /\ ~Settled(k)'
  <2>1. CASE event'[e] # event[e]
    BY <1>0, <1>1, <2>1 DEF EventFrame, WritesLast, JobsOf
  <2>2. CASE event'[e] = event[e]
    <3>1. PICK k \in JobsOf(e) : job[k] # "none" /\ ~Settled(k)
      BY <1>1, <2>2 DEF LastWriterInv
    <3>2. CASE k = j
      BY <1>0, <1>1, <3>1, <3>2 DEF WritesLast, JobsOf
    <3>3. CASE k # j
      <4>1. Untouched(k)
        BY <3>1, <3>3, OthersUntouched DEF JobInv, JobsOf
      <4> QED  BY <3>1, <4>1 DEF Untouched, Settled
    <3> QED  BY <3>2, <3>3
  <2> QED  BY <2>1, <2>2
<1> QED  BY <1>1 DEF LastWriterInv, JobsOf

-----------------------------------------------------------------------------
(* Theorems about events.                                                   *)

\* The inductive invariant of the rows of events.
EventInv == RowInv /\ UsageInv /\ StatusInv /\ LastWriterInv

LEMMA EventInit == Init => EventInv
<1> SUFFICES ASSUME Init PROVE EventInv
  OBVIOUS
<1>1. RowInv
  BY PipelineAssumption, CallFacts DEF Init, RowInv, PayloadBeforeRow, CreatedCall, ForwardCall
<1>2. UsageInv
  BY PipelineAssumption DEF Init, UsageInv, Counting
<1>3. StatusInv
  BY DEF Init, StatusInv, StatusIsBacked, AlertsAreBacked
<1>4. LastWriterInv
  BY DEF Init, LastWriterInv
<1> QED  BY <1>1, <1>2, <1>3, <1>4 DEF EventInv

LEMMA EventStutter == EventInv /\ UNCHANGED vars => EventInv'
<1> SUFFICES ASSUME EventInv, UNCHANGED vars PROVE EventInv'
  OBVIOUS
<1> USE DEF EventInv, vars
<1>1. RowInv'
  BY DEF RowInv, PayloadBeforeRow
<1>2. UsageInv'
  BY DEF UsageInv, Counting
<1>3. StatusInv'
  BY SameRows DEF StatusInv, StatusIsBacked, AlertsAreBacked, Backs, JobsOf
<1>4. LastWriterInv'
  BY DEF LastWriterInv, Settled, JobsOf
<1> QED  BY <1>1, <1>2, <1>3, <1>4

LEMMA RefusedKeepsEvents ==
    ASSUME Types, EventInv, NEW e \in Refused, LogVerificationFailure(e)
    PROVE  EventInv'
<1> USE DEF EventInv
<1>0. /\ UNCHANGED <<queueVars, runVars, deliveries, usage, stored, cached, outVars>>
      /\ event'[e] = "FAILED" /\ \A f \in Events : f # e => event'[f] = event[f]
      /\ e \in Events /\ \A j \in Jobs : EventOf[j] \in Events \ Refused
  BY RefusedTouches, PipelineAssumption
<1>1. RowInv'
  <2>1. \A f \in Refused : ~stored'[f] /\ event'[f] \in {"NONE", "FAILED"}
    BY <1>0, PipelineAssumption DEF RowInv
  <2>2. PayloadBeforeRow'
    BY <1>0, <2>1 DEF RowInv, PayloadBeforeRow
  <2> QED  BY <1>0, <2>1, <2>2 DEF RowInv
<1>2. UsageInv'
  BY <1>0 DEF UsageInv, Counting
<1>3. StatusInv'
  <2>1. \A j \in Jobs : \A s : Backs(j, s)' <=> Backs(j, s)
    BY <1>0, SameRows DEF Backs
  <2> QED  BY <1>0, <2>1 DEF StatusInv, StatusIsBacked, AlertsAreBacked, JobsOf
<1>4. LastWriterInv'
  BY <1>0 DEF LastWriterInv, Settled, JobsOf
<1> QED  BY <1>1, <1>2, <1>3, <1>4

LEMMA EventInvariant == Spec => [](JobInv /\ EventInv)
<1>1. JobInv /\ EventInv /\ Next => EventInv'
  BY NextIsStep, RowStep, UsageStep, StatusStep, LastWriterStep, RefusedKeepsEvents
     DEF JobInv, EventInv
<1>2. JobInv /\ EventInv /\ [Next]_vars => EventInv'
  BY <1>1, EventStutter
<1> QED  BY EventInit, <1>2, JobInvariant, PTL DEF Spec

\* However often an event is repeated, and wherever its runs fail or crash, it
\* is counted against the quota at most once: only the run that created the
\* row may count it.
THEOREM CountedOnce == Spec => []UsageAtMostOnce
<1>1. EventInv => UsageAtMostOnce
  BY DEF EventInv, UsageInv, UsageAtMostOnce
<1> QED  BY <1>1, EventInvariant, PTL

\* The row of an accepted event has its payload in S3, whichever run wrote it and
\* wherever that run stopped; the row of a refused request never has one, as no run of
\* another event stores it there.
THEOREM RowsHavePayload == Spec => []PayloadBeforeRow
<1>1. EventInv => PayloadBeforeRow
  BY DEF EventInv, RowInv
<1> QED  BY <1>1, EventInvariant, PTL

\* The status of a row, whoever wrote it last, is backed by one of its jobs, or is the
\* FAILED of a refused request.
THEOREM StatusesAreBacked == Spec => []StatusIsBacked
<1>1. EventInv => StatusIsBacked
  BY DEF EventInv, StatusInv
<1> QED  BY <1>1, EventInvariant, PTL

\* Nothing is announced before it is persisted.
THEOREM AlertsFollowRows == Spec => []AlertsAreBacked
<1>1. EventInv => AlertsAreBacked
  BY DEF EventInv, StatusInv
<1> QED  BY <1>1, EventInvariant, PTL

\* When all the jobs of an event have completed, its row says DELIVERED, in
\* whatever order their runs overwrote it.
THEOREM CompletedEventIsDelivered == Spec => []AllCompletedMeansDelivered
<1>1. ASSUME JobInv, EventInv, NEW e \in Events, JobsOf(e) # {},
             \A j \in JobsOf(e) : job[j] = "completed"
      PROVE  event[e] = "DELIVERED"
  <2>1. PICK j \in Jobs : EventOf[j] = e /\ job[j] = "completed"
    BY <1>1 DEF JobsOf
  <2>2. deliveries[j] # <<>>
    BY <1>1, <2>1 DEF JobInv, RunInv, RunOK, Settled, LastSucceeded
  <2>3. event[e] # "NONE"
    BY <1>1, <2>1, <2>2 DEF EventInv, RowInv
  <2>4. e \notin Refused
    BY <2>1, PipelineAssumption
  <2> QED  BY <1>1, <2>3, <2>4 DEF EventInv, LastWriterInv, Settled
<1>2. JobInv /\ EventInv => AllCompletedMeansDelivered
  BY <1>1 DEF AllCompletedMeansDelivered
<1> QED  BY <1>2, EventInvariant, PTL

-----------------------------------------------------------------------------
(***************************************************************************)
(* The pipeline implements AtLeastOnce: every step is, for the job it works *)
(* on, an Accept, a Send, a Confirm, a GiveUp or a stutter.                *)
(***************************************************************************)

-----------------------------------------------------------------------------
(* How often the destination receives a job.                                *)

\* The present run, or the one that completed the job, may have posted.
Posted(j) ==
    \/ pc[j] \in {"persistUnreachable", "persistSuccess", "persistFailure", "publishSuccess",
                  "publishFailure", "resolved", "rejected", "lost"}
    \/ job[j] = "completed"

\* Every run posts at most once, and a run that ended without completing the
\* job was counted as an attempt or as a stall.
SendOK(j) ==
    received[j] <= attemptsMade[j] + stalledCount[j] + (IF Posted(j) THEN 1 ELSE 0)

SendInv == \A j \in Jobs : SendOK(j)

LEMMA SendStep ==
    ASSUME Types, QueueInv, SendInv, NEW j \in Jobs, Step(j)
    PROVE  SendInv'
<1>a. SUFFICES SendOK(j)'
  <2>1. ASSUME NEW k \in Jobs, k # j PROVE SendOK(k)'
    <3>1. Untouched(k) /\ SendOK(k)
      BY <2>1, OthersUntouched DEF SendInv
    <3> QED  BY <3>1 DEF Untouched, SendOK, Posted
  <2> QED  BY <2>1 DEF SendInv
<1>b. /\ SendOK(j)
      /\ job[j] = "active" <=> pc[j] \in ProcessorCall \cup {"lost"}
      /\ pc[j] \in HandlerCall => job[j] = "failed"
      /\ received[j] \in Nat /\ attemptsMade[j] \in Nat /\ stalledCount[j] \in Nat
  BY DEF SendInv, QueueInv, Types
<1> HIDE DEF SendInv
<1> USE <1>b, CallFacts DEF Types, SendOK, Posted
<1>1. ASSUME Enqueue(j) PROVE SendOK(j)'
  BY <1>1 DEF Enqueue
<1>2. ASSUME StartRun(j) PROVE SendOK(j)'
  BY <1>2 DEF StartRun
<1>3. ASSUME Promote(j) PROVE SendOK(j)'
  BY <1>3 DEF Promote
<1>4. ASSUME Complete(j) PROVE SendOK(j)'
  BY <1>4 DEF Complete
<1>5. ASSUME Reject(j) PROVE SendOK(j)'
  BY <1>5 DEF Reject, HandlerEntry
<1>6. ASSUME RequeueStalled(j) PROVE SendOK(j)'
  BY <1>6 DEF RequeueStalled
<1>7. ASSUME FailStalled(j) PROVE SendOK(j)'
  BY <1>7 DEF FailStalled, HandlerEntry
<1>8. ASSUME Crash(j) PROVE SendOK(j)'
  <2>1. CASE pc[j] \in ProcessorCall /\ Goto(j, "lost")
    BY <1>8, <2>1 DEF Crash
  <2>2. CASE pc[j] \in HandlerCall /\ Goto(j, "idle")
    BY <1>8, <2>2 DEF Crash
  <2> QED  BY <1>8, <2>1, <2>2 DEF Crash
<1>9. ASSUME Throw(j) PROVE SendOK(j)'
  BY <1>9 DEF Throw
<1>10. ASSUME PutObject(j) PROVE SendOK(j)'
  BY <1>10 DEF PutObject
<1>11. ASSUME CreateEvent(j) PROVE SendOK(j)'
  BY <1>11 DEF CreateEvent
<1>12. ASSUME CacheEvent(j) PROVE SendOK(j)'
  BY <1>12 DEF CacheEvent
<1>13. ASSUME CountUsage(j) PROVE SendOK(j)'
  BY <1>13 DEF CountUsage
<1>14. ASSUME CreateDelivery(j) PROVE SendOK(j)'
  BY <1>14 DEF CreateDelivery
<1>15. ASSUME MarkProcessing(j) PROVE SendOK(j)'
  BY <1>15 DEF MarkProcessing
<1>16. ASSUME FetchResponds(j) PROVE SendOK(j)'
  BY <1>16 DEF FetchResponds
<1>17. ASSUME FetchUnreachable(j) PROVE SendOK(j)'
  BY <1>17 DEF FetchUnreachable
<1>18. ASSUME PersistUnreachable(j) PROVE SendOK(j)'
  BY <1>18 DEF PersistUnreachable
<1>19. ASSUME PersistFailure(j) PROVE SendOK(j)'
  BY <1>19 DEF PersistFailure
<1>20. ASSUME PersistSuccess(j) PROVE SendOK(j)'
  BY <1>20 DEF PersistSuccess
<1>21. ASSUME PublishSuccess(j) PROVE SendOK(j)'
  BY <1>21 DEF PublishSuccess
<1>22. ASSUME PublishFailure(j) PROVE SendOK(j)'
  BY <1>22 DEF PublishFailure
<1>23. ASSUME FindEvent(j) PROVE SendOK(j)'
  BY <1>23 DEF FindEvent
<1>24. ASSUME DeadLetter(j) PROVE SendOK(j)'
  BY <1>24 DEF DeadLetter
<1>25. ASSUME PublishDeadLetter(j) PROVE SendOK(j)'
  BY <1>25 DEF PublishDeadLetter
<1>26. ASSUME HandlerFails(j) PROVE SendOK(j)'
  BY <1>26 DEF HandlerFails
<1> QED
  BY <1>1, <1>2, <1>3, <1>4, <1>5, <1>6, <1>7, <1>8, <1>9, <1>10, <1>11, <1>12, <1>13,
     <1>14, <1>15, <1>16, <1>17, <1>18, <1>19, <1>20, <1>21, <1>22, <1>23, <1>24, <1>25,
     <1>26 DEF Step, Queue, Processor, FailedHandler

-----------------------------------------------------------------------------
(* The refinement mapping.                                                  *)

LEMMA OutcomesAt ==
    ASSUME Types, NEW j \in Jobs
    PROVE  /\ job[j] = "none" => Outcomes[j] = "none"
           /\ job[j] \in {"waiting", "active", "delayed"} => Outcomes[j] = "pending"
           /\ job[j] = "completed" => Outcomes[j] = "confirmed"
           /\ job[j] = "failed" => Outcomes[j] = "abandoned"
  BY DEF Outcomes

\* A step that takes the job from one outcome to another leaves those of the
\* other jobs alone.
LEMMA OutcomesFrame ==
    ASSUME Types, Types', NEW j \in Jobs, Step(j)
    PROVE  Outcomes' = [Outcomes EXCEPT ![j] = Outcomes'[j]]
<1>1. ASSUME NEW k \in Jobs, k # j PROVE Outcomes'[k] = Outcomes[k]
  <2>1. job'[k] = job[k]
    BY <1>1, OthersUntouched DEF Untouched
  <2> QED  BY <2>1 DEF Outcomes
<1>2. Outcomes = [k \in Jobs |-> Outcomes[k]] /\ Outcomes' = [k \in Jobs |-> Outcomes'[k]]
  BY DEF Outcomes
<1> QED  BY <1>1, <1>2

AbstractStep(j) ==
    \/ Abstract!Accept(j) \/ Abstract!Send(j) \/ Abstract!Confirm(j) \/ Abstract!GiveUp(j)
    \/ UNCHANGED Abstract!vars

LEMMA StepRefines ==
    ASSUME JobInv, SendInv, JobInv', NEW j \in Jobs, Step(j)
    PROVE  AbstractStep(j)
<1>a. Types /\ Types' /\ QueueInv /\ RunOK(j)
  BY DEF JobInv, RunInv
<1>b. /\ Outcomes' = [Outcomes EXCEPT ![j] = Outcomes'[j]]
      /\ Outcomes'[j] = Outcomes[j] => Outcomes' = Outcomes
  <2>1. Outcomes = [k \in Jobs |-> Outcomes[k]]
    BY DEF Outcomes
  <2> QED  BY <1>a, <2>1, OutcomesFrame
<1>c. /\ job[j] = "none" => Outcomes[j] = "none"
      /\ job[j] \in {"waiting", "active", "delayed"} => Outcomes[j] = "pending"
  BY <1>a, OutcomesAt
<1>d. /\ job'[j] = "none" => Outcomes'[j] = "none"
      /\ job'[j] \in {"waiting", "active", "delayed"} => Outcomes'[j] = "pending"
      /\ job'[j] = "completed" => Outcomes'[j] = "confirmed"
      /\ job'[j] = "failed" => Outcomes'[j] = "abandoned"
  BY <1>a DEF Types, Outcomes
<1>e. /\ job[j] = "active" <=> pc[j] \in ProcessorCall \cup {"lost"}
      /\ job[j] # "failed" => attemptsMade[j] < MaxAttempts /\ stalledCount[j] <= MaxStalledCount
  BY <1>a DEF QueueInv
<1>f. \/ Enqueue(j) \/ Complete(j) \/ Reject(j) \/ FailStalled(j)
      \/ FetchResponds(j) \/ FetchUnreachable(j)
      \/ /\ received' = received
         /\ acked' = acked
         /\ Outcomes'[j] = Outcomes[j]
  <2>0. ASSUME job'[j] = job[j] PROVE Outcomes'[j] = Outcomes[j]
    BY <2>0 DEF Outcomes
  <2>1. ASSUME StartRun(j) \/ Promote(j) \/ RequeueStalled(j)
        PROVE  received' = received /\ acked' = acked /\ Outcomes'[j] = Outcomes[j]
    BY <1>a, <1>c, <1>d, <1>e, <2>1 DEF Types, StartRun, Promote, RequeueStalled
  <2>2. ASSUME FailedHandler(j) \/ Crash(j)
        PROVE  received' = received /\ acked' = acked /\ Outcomes'[j] = Outcomes[j]
    BY <2>0, <2>2 DEF FailedHandler, Crash, FindEvent, DeadLetter, PublishDeadLetter,
                      HandlerFails
  <2>3. ASSUME Processor(j), ~FetchResponds(j), ~FetchUnreachable(j)
        PROVE  received' = received /\ acked' = acked /\ Outcomes'[j] = Outcomes[j]
    BY <2>0, <2>3 DEF Processor, Throw, PutObject, CreateEvent, CacheEvent, CountUsage,
                      CreateDelivery, MarkProcessing, PersistUnreachable, PersistFailure,
                      PersistSuccess, PublishSuccess, PublishFailure
  <2> QED  BY <2>1, <2>2, <2>3 DEF Step, Queue
<1> USE DEF AbstractStep
<1>1. CASE Enqueue(j)
  <2>1. /\ job[j] = "none" /\ job'[j] = "waiting"
        /\ received' = received /\ acked' = acked
    BY <1>a, <1>1 DEF Types, Enqueue
  <2> QED  BY <1>b, <1>c, <1>d, <2>1 DEF Abstract!Accept
<1>2. CASE Complete(j)
  <2>1. /\ job[j] = "active" /\ job'[j] = "completed"
        /\ received' = received /\ acked' = acked
    BY <1>a, <1>e, <1>2, CallFacts DEF Types, Complete
  <2>2. acked[j]
    BY <1>a, <1>2, LastIsSome DEF Complete, RunOK, Settled
  <2> QED  BY <1>b, <1>c, <1>d, <2>1, <2>2 DEF Abstract!Confirm
<1>3. CASE Reject(j) \/ FailStalled(j)
  <2>1. /\ job[j] = "active" /\ job'[j] \in {"delayed", "failed"}
        /\ received' = received /\ acked' = acked
    BY <1>a, <1>e, <1>3, CallFacts DEF Types, Reject, FailStalled
  <2>2. CASE job'[j] = "delayed"
    BY <1>b, <1>c, <1>d, <2>1, <2>2 DEF Abstract!vars
  <2>3. CASE job'[j] = "failed"
    BY <1>b, <1>c, <1>d, <2>1, <2>3 DEF Abstract!GiveUp
  <2> QED  BY <2>1, <2>2, <2>3
<1>4. CASE FetchResponds(j) \/ FetchUnreachable(j)
  <2>1. /\ pc[j] = "fetch" /\ job' = job
        /\ received' \in {received, [received EXCEPT ![j] = @ + 1]}
        /\ received' = received => acked' = acked
        /\ acked' \in {acked, [acked EXCEPT ![j] = TRUE]}
    BY <1>a, <1>4 DEF Types, FetchResponds, FetchUnreachable
  <2>2. job[j] = "active"
    BY <1>e, <2>1, CallFacts
  <2>3. received[j] < MaxAttempts + MaxStalledCount
    <3>1. ~Posted(j) /\ SendOK(j)
      BY <2>1, <2>2 DEF Posted, SendInv
    <3>2. received[j] <= attemptsMade[j] + stalledCount[j]
      BY <1>a, <3>1 DEF SendOK, Types
    <3> QED  BY <1>a, <1>e, <2>2, <3>2, PipelineAssumption DEF Types
  <2>4. Outcomes' = Outcomes /\ Outcomes[j] = "pending"
    BY <1>b, <1>c, <1>d, <2>1, <2>2
  <2>5. CASE received' = received
    BY <2>1, <2>4, <2>5 DEF Abstract!vars
  <2>6. CASE received' = [received EXCEPT ![j] = @ + 1]
    BY <2>1, <2>3, <2>4, <2>6 DEF Abstract!Send
  <2> QED  BY <2>1, <2>5, <2>6
<1>5. CASE received' = received /\ acked' = acked /\ Outcomes'[j] = Outcomes[j]
  BY <1>b, <1>5 DEF Abstract!vars
<1> QED  BY <1>1, <1>2, <1>3, <1>4, <1>5, <1>f

\* The pipeline implements the abstract delivery service: per accepted request
\* at most attempts + stalls sendings, confirmation only after an
\* acknowledgement, and nothing after confirmation or abandonment.
THEOREM PipelineImplements == Spec => ImplementsAtLeastOnce
<1>1. Init => Abstract!Init /\ SendInv
  <2> SUFFICES ASSUME Init PROVE Abstract!Init /\ SendInv
    OBVIOUS
  <2>1. Abstract!Init
    BY DEF Init, Abstract!Init, Outcomes
  <2>2. \A j \in Jobs : received[j] = 0 /\ attemptsMade[j] = 0 /\ stalledCount[j] = 0
    BY DEF Init
  <2>3. ASSUME NEW j \in Jobs PROVE SendOK(j)
    <3>1. (IF Posted(j) THEN 1 ELSE 0) \in {0, 1}
      OBVIOUS
    <3> HIDE DEF Posted, Init
    <3> QED  BY <2>2, <3>1 DEF SendOK
  <2> QED  BY <2>1, <2>3 DEF SendInv
<1>2. JobInv /\ SendInv /\ [Next]_vars => SendInv'
  <2>1. CASE \E j \in Jobs : Step(j)
    BY <2>1, SendStep DEF JobInv
  <2>2. CASE \E e \in Refused : LogVerificationFailure(e)
    BY <2>2, RefusedTouches DEF JobInv, SendInv, SendOK, Posted
  <2>3. CASE UNCHANGED vars
    BY <2>3 DEF vars, SendInv, SendOK, Posted
  <2> QED  BY <2>1, <2>2, <2>3, NextIsStep
<1>3. JobInv /\ JobInv' /\ SendInv /\ [Next]_vars => [Abstract!Next]_(Abstract!vars)
  <2>1. CASE \E j \in Jobs : Step(j)
    BY <2>1, StepRefines DEF AbstractStep, Abstract!Next
  <2>2. CASE \E e \in Refused : LogVerificationFailure(e)
    BY <2>2, RefusedTouches DEF JobInv, Outcomes, Abstract!vars
  <2>3. CASE UNCHANGED vars
    BY <2>3 DEF vars, Outcomes, Abstract!vars
  <2> QED  BY <2>1, <2>2, <2>3, NextIsStep
<1> QED
  BY <1>1, <1>2, <1>3, JobInvariant, PTL DEF Spec, ImplementsAtLeastOnce, Abstract!Spec

-----------------------------------------------------------------------------
(***************************************************************************)
(* Replays beside the workers.                                             *)
(***************************************************************************)

USE DEF Goto, queueVars, runVars, dbVars, outVars, ToCall, pipelineVars, pipelineButRow, replayVars

-----------------------------------------------------------------------------
ReplayState == RequestCall \cup ExecutionCall \cup {"idle", "ended", "rejected", "lost"}

ReplayTypes ==
    /\ hidden \in [Events -> BOOLEAN]
    /\ replay \in [Replays -> ReplayState]
    /\ lastCount \in [Replays -> Nat]
    /\ row \in [Replays -> DeliveryStatus \cup {"NONE"}]
    /\ retryCount \in [Replays -> Nat]
    /\ answered \in [Replays -> BOOLEAN]

\* Before its row is created a replay has no number; from then on it has an
\* outcome as soon as it ended, unless its event was deleted.  That of a refused
\* request is never posted.
ReplayOK(r) ==
    /\ replay[r] \in {"idle", "listed", "readLast", "createRow"} => row[r] = "NONE"
    /\ replay[r] \in {"getEvent"} \cup ExecutionCall => row[r] # "NONE"
    /\ row[r] = "NONE" => retryCount[r] = 0
    /\ replay[r] \in {"listed", "readLast", "createRow"} \/ row[r] # "NONE" =>
           event[ReplayedEvent[r]] # "NONE"
    /\ replay[r] = "persistSuccess" \/ row[r] = "SUCCESS" => answered[r]
    /\ replay[r] = "ended" /\ row[r] = "PENDING" => hidden[ReplayedEvent[r]]
    /\ ReplayedEvent[r] \in Refused =>
           replay[r] \notin {"fetch", "persistSuccess", "persistFailure"} /\ row[r] # "SUCCESS"

ReplayRunInv == \A r \in Replays : ReplayOK(r)

\* A number is in use, by a replay of the event of r.
Used(n, r) == \E s \in Replays : ReplayedEvent[s] = ReplayedEvent[r] /\ retryCount[s] = n

\* Numbers that were read are in use, and every number but the first follows
\* one in use.
NumberOK(r) ==
    /\ lastCount[r] # 0 => Used(lastCount[r], r)
    /\ retryCount[r] > 1 => Used(retryCount[r] - 1, r)

NumbersInv == \A r \in Replays : NumberOK(r)

ReplayInv ==
    JobInv /\ RowInv /\ ReplayTypes /\ ReplayRunInv /\ NumbersInv /\ StatusHasDelivery

\* The kinds of call are disjoint.
LEMMA ReplayCalls ==
    /\ RequestCall = {"listed", "readLast", "createRow", "getEvent"}
    /\ PersistCall = {"persistSuccess", "persistFailure", "persistNoPayload",
                      "persistNetwork", "persistUnexpected"}
    /\ ExecutionCall = {"getObject", "fetch"} \cup PersistCall
    /\ ReplayState = RequestCall \cup ExecutionCall \cup {"idle", "ended", "rejected", "lost"}
  BY DEF RequestCall, PersistCall, ExecutionCall, ReplayState

-----------------------------------------------------------------------------
(* What a replay does to the pipeline: it may set the row of its event.     *)

WrittenTo(e) == IF e \in Refused THEN {"FAILED"} ELSE {"DELIVERED", "FAILED"}

RowFrame(e) ==
    /\ UNCHANGED pipelineButRow
    /\ event' = event \/ \E s \in WrittenTo(e) : event' = [event EXCEPT ![e] = s]

LEMMA RowFrameKeeps ==
    ASSUME JobInv, RowInv, NEW e \in Events, event[e] # "NONE", RowFrame(e)
    PROVE  JobInv' /\ RowInv'
<1> USE DEF RowFrame, WrittenTo
<1>1. event' \in [Events -> EventStatus \cup {"NONE"}]
  BY StatusFacts DEF JobInv, Types, EventStatus
<1>2. \A f \in Events : event[f] = "NONE" <=> event'[f] = "NONE"
  BY DEF JobInv, Types
<1>3. Types'
  BY <1>1 DEF JobInv, Types
<1>4. QueueInv'
  BY DEF JobInv, QueueInv
<1>5. RunInv'
  BY SameRows DEF JobInv, RunInv, RunOK, Settled
<1>6. RowInv'
  <2>1. \A f \in Refused : event'[f] \in {"NONE", "FAILED"}
    BY PipelineAssumption DEF JobInv, Types, RowInv
  <2>2. PayloadBeforeRow'
    BY <1>2 DEF RowInv, PayloadBeforeRow
  <2> QED  BY <1>2, <2>1, <2>2, PipelineAssumption DEF RowInv
<1> QED  BY <1>3, <1>4, <1>5, <1>6 DEF JobInv

LEMMA ReplayFrame ==
    ASSUME ReplayTypes, ReplayRunInv, NEW r \in Replays, ReplayStep(r)
    PROVE  /\ RowFrame(ReplayedEvent[r])
           /\ event' # event => event[ReplayedEvent[r]] # "NONE"
           /\ hidden' = hidden
<1> USE DEF RowFrame, vars
<1>0. ReplayOK(r)
  BY DEF ReplayRunInv
<1>1. ASSUME ListBatch(r) \/ CheckEvent(r) \/ ReadLast(r) \/ CreateRow(r) \/ GetEvent(r)
             \/ RequestThrows(r) \/ GetObject(r) \/ Post(r)
      PROVE  UNCHANGED pipelineVars /\ hidden' = hidden
  BY <1>1 DEF ListBatch, CheckEvent, ReadLast, CreateRow, GetEvent, RequestThrows,
              GetObject, Post
<1>2. ASSUME PersistOutcome(r) \/ PersistThrows(r)
      PROVE  /\ UNCHANGED pipelineButRow /\ hidden' = hidden
             /\ row[r] # "NONE"
             /\ event' = event \/ WriteOutcome(r)
  BY <1>0, <1>2 DEF PersistOutcome, PersistThrows, ReplayOK, ExecutionCall
<1>3. ASSUME WriteOutcome(r)
      PROVE  \E s \in WrittenTo(ReplayedEvent[r]) :
                 event' = [event EXCEPT ![ReplayedEvent[r]] = s]
  BY <1>0, <1>3 DEF WriteOutcome, SetEvent, Outcome, WrittenTo, ReplayOK
<1>4. row[r] # "NONE" => event[ReplayedEvent[r]] # "NONE"
  BY <1>0 DEF ReplayOK
<1> QED  BY <1>1, <1>2, <1>3, <1>4 DEF ReplayStep

-----------------------------------------------------------------------------
(* Steps of a replay.                                                       *)

LEMMA ReplayTypesStep ==
    ASSUME ReplayTypes, NEW r \in Replays, ReplayStep(r)
    PROVE  ReplayTypes'
<1> USE ReplayCalls, StatusFacts DEF ReplayTypes
<1>1. ASSUME ListBatch(r) PROVE ReplayTypes'
  BY <1>1 DEF ListBatch
<1>2. ASSUME CheckEvent(r) PROVE ReplayTypes'
  BY <1>2 DEF CheckEvent
<1>3. ASSUME ReadLast(r) PROVE ReplayTypes'
  <2>1. PICK n \in Counts(ReplayedEvent[r]) : lastCount' = [lastCount EXCEPT ![r] = n]
    BY <1>3 DEF ReadLast
  <2>2. n \in Nat
    BY <2>1 DEF Counts
  <2> QED  BY <1>3, <2>1, <2>2 DEF ReadLast
<1>4. ASSUME CreateRow(r) PROVE ReplayTypes'
  BY <1>4 DEF CreateRow
<1>5. ASSUME GetEvent(r) PROVE ReplayTypes'
  BY <1>5 DEF GetEvent
<1>6. ASSUME RequestThrows(r) PROVE ReplayTypes'
  BY <1>6 DEF RequestThrows
<1>7. ASSUME GetObject(r) PROVE ReplayTypes'
  BY <1>7 DEF GetObject
<1>8. ASSUME Post(r) PROVE ReplayTypes'
  BY <1>8 DEF Post
<1>9. ASSUME PersistOutcome(r) PROVE ReplayTypes'
  BY <1>9 DEF PersistOutcome, WriteOutcome, Outcome
<1>10. ASSUME PersistThrows(r) PROVE ReplayTypes'
  <2>1. AfterThrow(replay[r]) \in ReplayState
    BY <1>10 DEF PersistThrows, AfterThrow
  <2> QED  BY <1>10, <2>1 DEF PersistThrows, WriteOutcome, Outcome
<1> QED  BY <1>1, <1>2, <1>3, <1>4, <1>5, <1>6, <1>7, <1>8, <1>9, <1>10 DEF ReplayStep

\* A step of a replay leaves another one alone, but for the batch they may share.
OtherReplay(s) ==
    /\ row'[s] = row[s]
    /\ retryCount'[s] = retryCount[s]
    /\ lastCount'[s] = lastCount[s]
    /\ answered'[s] = answered[s]
    /\ \/ replay'[s] = replay[s]
       \/ replay[s] \in {"idle", "listed"} /\ replay'[s] \in {"ended", "rejected"}
       \/ /\ replay[s] = "idle" /\ replay'[s] = "listed"
          /\ event[ReplayedEvent[s]] # "NONE"

LEMMA OtherReplays ==
    ASSUME ReplayTypes, NEW r \in Replays, ReplayStep(r), NEW s \in Replays, s # r
    PROVE  OtherReplay(s)
<1> USE DEF ReplayTypes, OtherReplay
<1>1. ASSUME ListBatch(r) PROVE OtherReplay(s)
  BY <1>1 DEF ListBatch, Visible, Siblings
<1>2. ASSUME RequestThrows(r) PROVE OtherReplay(s)
  BY <1>2 DEF RequestThrows
<1>3. ASSUME CheckEvent(r) \/ CreateRow(r) \/ GetEvent(r) \/ GetObject(r)
      PROVE OtherReplay(s)
  BY <1>3 DEF CheckEvent, CreateRow, GetEvent, GetObject
<1>4. ASSUME ReadLast(r) PROVE OtherReplay(s)
  BY <1>4 DEF ReadLast
<1>5. ASSUME Post(r) PROVE OtherReplay(s)
  BY <1>5 DEF Post
<1>6. ASSUME PersistOutcome(r) PROVE OtherReplay(s)
  BY <1>6 DEF PersistOutcome, WriteOutcome
<1>7. ASSUME PersistThrows(r) PROVE OtherReplay(s)
  BY <1>7 DEF PersistThrows, WriteOutcome
<1> QED  BY <1>1, <1>2, <1>3, <1>4, <1>5, <1>6, <1>7 DEF ReplayStep

LEMMA ReplayRunStep ==
    ASSUME JobInv, RowInv, ReplayTypes, ReplayRunInv, NEW r \in Replays, ReplayStep(r)
    PROVE  ReplayRunInv'
<1> DEFINE e == ReplayedEvent[r]
<1>0. /\ RowFrame(e) /\ hidden' = hidden /\ ReplayOK(r)
      /\ \A f \in Events : event[f] # "NONE" => event'[f] # "NONE"
      /\ \A s \in Replays : ReplayedEvent[s] \in Events
  <2>1. RowFrame(e) /\ hidden' = hidden
    BY ReplayFrame
  <2> QED  BY <2>1, ReplayAssumption DEF ReplayRunInv, RowFrame, WrittenTo, JobInv, Types
<1>a. SUFFICES ReplayOK(r)'
  <2>1. ASSUME NEW s \in Replays, s # r PROVE ReplayOK(s)'
    <3>1. OtherReplay(s) /\ ReplayOK(s)
      BY <2>1, OtherReplays DEF ReplayRunInv
    <3> QED  BY <1>0, <3>1, ReplayCalls DEF OtherReplay, ReplayOK
  <2> QED  BY <2>1 DEF ReplayRunInv
<1> USE ReplayCalls DEF ReplayTypes, ReplayOK
<1>1. ASSUME ListBatch(r) PROVE ReplayOK(r)'
  BY <1>0, <1>1 DEF ListBatch, Siblings, Visible
<1>2. ASSUME CheckEvent(r) PROVE ReplayOK(r)'
  BY <1>0, <1>2 DEF CheckEvent, Ready, Visible
<1>3. ASSUME ReadLast(r) PROVE ReplayOK(r)'
  BY <1>0, <1>3 DEF ReadLast
<1>4. ASSUME CreateRow(r) PROVE ReplayOK(r)'
  BY <1>0, <1>4 DEF CreateRow
<1>5. ASSUME GetEvent(r) PROVE ReplayOK(r)'
  BY <1>0, <1>5 DEF GetEvent, Visible
<1>6. ASSUME RequestThrows(r) PROVE ReplayOK(r)'
  BY <1>0, <1>6 DEF RequestThrows
<1>7. ASSUME GetObject(r) PROVE ReplayOK(r)'
  <2>1. e \in Refused => ~stored[e]
    BY DEF RowInv
  <2> QED  BY <1>0, <1>7, <2>1 DEF GetObject
<1>8. ASSUME Post(r) PROVE ReplayOK(r)'
  BY <1>0, <1>8 DEF Post
<1>9. ASSUME PersistOutcome(r) PROVE ReplayOK(r)'
  BY <1>0, <1>9 DEF PersistOutcome, WriteOutcome, Outcome
<1>10. ASSUME PersistThrows(r) PROVE ReplayOK(r)'
  <2>1. /\ replay[r] \in PersistCall /\ replay'[r] = AfterThrow(replay[r])
        /\ answered' = answered /\ retryCount' = retryCount
        /\ row'[r] = row[r] \/ row'[r] = Outcome(r)
    BY <1>10 DEF PersistThrows, WriteOutcome
  <2>2. AfterThrow(replay[r]) \in {"persistNetwork", "persistUnexpected", "rejected"}
    BY <2>1 DEF AfterThrow
  <2> QED  BY <1>0, <2>1, <2>2 DEF Outcome
<1> QED  BY <1>1, <1>2, <1>3, <1>4, <1>5, <1>6, <1>7, <1>8, <1>9, <1>10 DEF ReplayStep

\* Creating a row uses a number for the first time, and keeps those in use.
LEMMA NumbersStep ==
    ASSUME ReplayTypes, ReplayRunInv, NumbersInv, NEW r \in Replays, ReplayStep(r)
    PROVE  NumbersInv'
<1> USE DEF ReplayTypes
<1>0. /\ ReplayOK(r)
      /\ \A s \in Replays : NumberOK(s)
      /\ \A s \in Replays : s # r => OtherReplay(s)
  BY OtherReplays DEF ReplayRunInv, NumbersInv
<1>1. CASE CreateRow(r)
  <2>1. /\ row[r] = "NONE" /\ retryCount[r] = 0
        /\ retryCount'[r] = lastCount[r] + 1 /\ lastCount'[r] = 0
    BY <1>0, <1>1 DEF CreateRow, ReplayOK
  <2>2. \A s \in Replays \ {r} : retryCount'[s] = retryCount[s] /\ lastCount'[s] = lastCount[s]
    BY <1>0 DEF OtherReplay
  <2>3. ASSUME NEW s \in Replays, NEW n \in Nat, n # 0, Used(n, s) PROVE Used(n, s)'
    <3>1. PICK k \in Replays : ReplayedEvent[k] = ReplayedEvent[s] /\ retryCount[k] = n
      BY <2>3 DEF Used
    <3>2. k # r
      BY <2>1, <2>3, <3>1
    <3> QED  BY <2>2, <3>1, <3>2 DEF Used
  <2>4. NumberOK(r)'
    BY <1>0, <2>1, <2>3 DEF NumberOK
  <2>5. ASSUME NEW s \in Replays, s # r PROVE NumberOK(s)'
    BY <1>0, <2>2, <2>3, <2>5 DEF NumberOK
  <2> QED  BY <2>4, <2>5 DEF NumbersInv
<1>2. CASE ReadLast(r)
  <2>1. PICK n \in Counts(ReplayedEvent[r]) : lastCount' = [lastCount EXCEPT ![r] = n]
    BY <1>2 DEF ReadLast
  <2>2. retryCount' = retryCount
    BY <1>2 DEF ReadLast
  <2>3. n # 0 => Used(n, r)
    BY <2>1 DEF Counts, Used
  <2> QED  BY <1>0, <2>1, <2>2, <2>3 DEF NumbersInv, NumberOK, Used
<1>3. CASE RequestThrows(r)
  <2>1. retryCount' = retryCount /\ lastCount' = [lastCount EXCEPT ![r] = 0]
    BY <1>3 DEF RequestThrows
  <2> QED  BY <1>0, <2>1 DEF NumbersInv, NumberOK, Used
<1>4. CASE ~CreateRow(r) /\ ~ReadLast(r) /\ ~RequestThrows(r)
  <2>1. retryCount' = retryCount /\ lastCount' = lastCount
    BY <1>4 DEF ReplayStep, ListBatch, CheckEvent, GetEvent, GetObject, Post,
                PersistOutcome, PersistThrows
  <2> QED  BY <1>0, <2>1 DEF NumbersInv, NumberOK, Used
<1> QED  BY <1>1, <1>2, <1>3, <1>4

\* StatusHasDelivery, one event at a time.
Replayed(e, st) == \E r \in Replays : ReplayedEvent[r] = e /\ row[r] = st

Forwarded(e) == \E j \in JobsOf(e) : HasSuccess(j)

Failed(e) == \E j \in JobsOf(e) : HasFailure(j)

GivenUp(e) == \E j \in JobsOf(e) : job[j] = "failed" /\ attemptsMade[j] = MaxAttempts

EvidenceFor(e) ==
    /\ event[e] = "DELIVERED" => Forwarded(e) \/ Replayed(e, "SUCCESS")
    /\ event[e] = "FAILED" => Failed(e) \/ Replayed(e, "FAILED") \/ e \in Refused
    /\ event[e] = "DEAD_LETTER" => GivenUp(e)

LEMMA EvidenceOfStatus ==
    /\ StatusHasDelivery <=> \A e \in Events : EvidenceFor(e)
    /\ StatusHasDelivery' <=> \A e \in Events : EvidenceFor(e)'
  BY DEF StatusHasDelivery, EvidenceFor, Replayed, Forwarded, Failed, GivenUp

\* The outcome a replay writes is evidence for the status it writes with it, and
\* a row that stops being evidence was the event's last word no longer.
LEMMA StatusReplayStep ==
    ASSUME JobInv, ReplayTypes, ReplayRunInv, StatusHasDelivery,
           NEW r \in Replays, ReplayStep(r)
    PROVE  StatusHasDelivery'
<1> DEFINE e == ReplayedEvent[r]
<1> USE DEF ReplayTypes
<1>0. /\ UNCHANGED <<job, attemptsMade, deliveries>>
      /\ e \in Events
      /\ \A s \in Replays : s # r => row'[s] = row[s]
  <2>1. RowFrame(e)
    BY ReplayFrame
  <2>2. UNCHANGED <<job, attemptsMade, deliveries>>
    BY <2>1 DEF RowFrame
  <2> QED  BY <2>2, OtherReplays, ReplayAssumption DEF OtherReplay
<1>w. ASSUME NEW f
      PROVE  /\ Forwarded(f)' <=> Forwarded(f)
             /\ Failed(f)' <=> Failed(f)
             /\ GivenUp(f)' <=> GivenUp(f)
  <2>1. /\ job' = job /\ attemptsMade' = attemptsMade
        /\ \A j \in Jobs : deliveries'[j] = deliveries[j]
    BY <1>0
  <2>2. ASSUME NEW j \in Jobs
        PROVE  (HasSuccess(j)' <=> HasSuccess(j)) /\ (HasFailure(j)' <=> HasFailure(j))
    BY <2>1 DEF HasSuccess, HasFailure
  <2>3. Forwarded(f)' <=> Forwarded(f)
    BY <2>2 DEF Forwarded, JobsOf
  <2>4. Failed(f)' <=> Failed(f)
    BY <2>2 DEF Failed, JobsOf
  <2>5. GivenUp(f)' <=> GivenUp(f)
    BY <2>1 DEF GivenUp, JobsOf
  <2> QED  BY <2>3, <2>4, <2>5
<1>1. CASE event' = event /\ (row'[r] = row[r] \/ row[r] = "NONE")
  <2>1. ASSUME NEW s \in Replays, NEW st \in {"SUCCESS", "FAILED"}, row[s] = st
        PROVE  row'[s] = st
    BY <1>0, <1>1, <2>1
  <2>2. ASSUME NEW f \in Events PROVE EvidenceFor(f)'
    <3>1. EvidenceFor(f)
      BY EvidenceOfStatus
    <3>2. /\ Replayed(f, "SUCCESS") => Replayed(f, "SUCCESS")'
          /\ Replayed(f, "FAILED") => Replayed(f, "FAILED")'
      BY <2>1 DEF Replayed
    <3> QED  BY <1>w, <1>0, <1>1, <3>1, <3>2 DEF EvidenceFor
  <2> QED  BY <2>2, EvidenceOfStatus
<1>2. CASE replay[r] \in PersistCall /\ WriteOutcome(r)
  <2>1. /\ row'[r] = Outcome(r)
        /\ event'[e] = IF Outcome(r) = "SUCCESS" THEN "DELIVERED" ELSE "FAILED"
        /\ \A f \in Events : f # e => event'[f] = event[f]
        /\ Outcome(r) \in {"SUCCESS", "FAILED"}
    BY <1>0, <1>2 DEF WriteOutcome, SetEvent, Outcome, JobInv, Types
  <2>2. ASSUME NEW f \in Events, f # e PROVE EvidenceFor(f)'
    <3>1. EvidenceFor(f)
      BY EvidenceOfStatus
    <3>2. /\ Replayed(f, "SUCCESS") => Replayed(f, "SUCCESS")'
          /\ Replayed(f, "FAILED") => Replayed(f, "FAILED")'
      BY <1>0, <2>2 DEF Replayed
    <3> QED  BY <1>w, <1>0, <2>1, <2>2, <3>1, <3>2 DEF EvidenceFor
  <2>3. EvidenceFor(e)'
    <3>1. /\ event'[e] = "DELIVERED" => row'[r] = "SUCCESS"
          /\ event'[e] = "FAILED" => row'[r] = "FAILED"
          /\ event'[e] # "DEAD_LETTER"
      BY <2>1
    <3> QED  BY <3>1 DEF EvidenceFor, Replayed
  <2> QED  BY <2>2, <2>3, EvidenceOfStatus
<1>3. (event' = event /\ (row'[r] = row[r] \/ row[r] = "NONE"))
         \/ (replay[r] \in PersistCall /\ WriteOutcome(r))
  <2>1. ASSUME PersistOutcome(r) \/ PersistThrows(r)
        PROVE  replay[r] \in PersistCall /\ (WriteOutcome(r) \/ (event' = event /\ row' = row))
    BY <2>1 DEF PersistOutcome, PersistThrows
  <2>2. ASSUME ListBatch(r) \/ CheckEvent(r) \/ ReadLast(r) \/ GetEvent(r)
               \/ RequestThrows(r) \/ GetObject(r) \/ Post(r)
        PROVE  event' = event /\ row' = row
    BY <2>2 DEF ListBatch, CheckEvent, ReadLast, GetEvent, RequestThrows, GetObject, Post, vars
  <2>3. ASSUME CreateRow(r) PROVE event' = event /\ row[r] = "NONE"
    BY <2>3 DEF CreateRow, ReplayRunInv, ReplayOK, vars
  <2> QED  BY <2>1, <2>2, <2>3 DEF ReplayStep
<1> QED  BY <1>1, <1>2, <1>3

-----------------------------------------------------------------------------
(* Steps of the workers, deletions and crashes.                             *)

LEMMA WorkerKeeps ==
    ASSUME ReplayInv, NEW j \in Jobs, Step(j), UNCHANGED replayVars
    PROVE  ReplayInv'
<1> USE DEF ReplayInv
<1>0. EventFrame(j) /\ StatusWritten(j) /\ EventOf[j] \in Events
  BY EventStep, StatusWrites, PipelineAssumption DEF JobInv
<1>1. JobInv' /\ RowInv'
  BY RowStep, RunInvHasRow, TypesStep, QueueStep, RunStep DEF JobInv
<1>2. ReplayTypes'
  BY DEF ReplayTypes
<1>3. ReplayRunInv'
  BY <1>0, ReplayAssumption DEF ReplayRunInv, ReplayOK, EventFrame
<1>4. NumbersInv'
  BY DEF NumbersInv, NumberOK, Used
<1>6. row' = row
  OBVIOUS
<1>5. StatusHasDelivery'
  <2>1. ASSUME NEW k \in Jobs, NEW st, Backs(k, st) PROVE Backs(k, st)'
    BY <2>1, BackingStays
  <2>2. ASSUME NEW e
        PROVE  /\ Forwarded(e) => Forwarded(e)'
               /\ Failed(e) => Failed(e)'
               /\ GivenUp(e) => GivenUp(e)'
    <3>1. ASSUME NEW k \in Jobs, HasSuccess(k) PROVE HasSuccess(k)'
      <4>1. Backs(k, "DELIVERED")
        BY <3>1 DEF Backs, JobInv, RunInv, RunOK
      <4> QED  BY <2>1, <4>1 DEF Backs
    <3>2. ASSUME NEW k \in Jobs, HasFailure(k) PROVE HasFailure(k)'
      BY <2>1, <3>2 DEF Backs
    <3>3. ASSUME NEW k \in Jobs, job[k] = "failed" /\ attemptsMade[k] = MaxAttempts
          PROVE  job'[k] = "failed" /\ attemptsMade'[k] = MaxAttempts
      BY <2>1, <3>3 DEF Backs
    <3> QED  BY <3>1, <3>2, <3>3 DEF Forwarded, Failed, GivenUp, JobsOf
  <2>3. ASSUME NEW e \in Events, NEW st \in {"DELIVERED", "FAILED", "DEAD_LETTER"},
               event'[e] = st, event[e] # st
        PROVE  \E k \in JobsOf(e) : Backs(k, st)'
    BY <1>0, <2>3, StatusFacts DEF EventFrame, StatusWritten, JobsOf
  <2>4. ASSUME NEW e \in Events PROVE EvidenceFor(e)'
    <3>1. /\ EvidenceFor(e)
          /\ Replayed(e, "SUCCESS") => Replayed(e, "SUCCESS")'
          /\ Replayed(e, "FAILED") => Replayed(e, "FAILED")'
      BY <1>6, EvidenceOfStatus DEF ReplayInv, Replayed
    <3>2. CASE event'[e] = event[e]
      <4> HIDE DEF ReplayInv
      <4> QED  BY <2>2, <3>1, <3>2 DEF EvidenceFor
    <3>3. CASE event'[e] # event[e]
      BY <2>3, <3>3, StatusFacts DEF EvidenceFor, Backs, Forwarded, Failed, GivenUp
    <3> QED  BY <3>2, <3>3
  <2> QED  BY <2>4, EvidenceOfStatus
<1> QED  BY <1>1, <1>2, <1>3, <1>4, <1>5

LEMMA RefusedKeeps ==
    ASSUME ReplayInv, NEW e \in Refused, LogVerificationFailure(e), UNCHANGED replayVars
    PROVE  ReplayInv'
<1> USE DEF ReplayInv
<1>0. /\ UNCHANGED <<queueVars, runVars, deliveries, usage, stored, cached, outVars>>
      /\ event'[e] = "FAILED" /\ \A f \in Events : f # e => event'[f] = event[f]
      /\ e \in Events /\ \A j \in Jobs : EventOf[j] \in Events \ Refused
  BY RefusedTouches, PipelineAssumption DEF JobInv
<1>1. JobInv'
  BY RefusedKeepsJobs
<1>2. RowInv'
  <2>1. \A f \in Refused : ~stored'[f] /\ event'[f] \in {"NONE", "FAILED"}
    BY <1>0, PipelineAssumption DEF RowInv
  <2>2. PayloadBeforeRow'
    BY <1>0, <2>1 DEF RowInv, PayloadBeforeRow
  <2> QED  BY <1>0, <2>1, <2>2 DEF RowInv
<1>3. ReplayTypes' /\ NumbersInv'
  BY DEF ReplayTypes, NumbersInv, NumberOK, Used
<1>4. ReplayRunInv'
  BY <1>0, ReplayAssumption DEF ReplayRunInv, ReplayOK
<1>5. StatusHasDelivery'
  BY <1>0, SameRows DEF StatusHasDelivery, JobsOf
<1> QED  BY <1>1, <1>2, <1>3, <1>4, <1>5

\* Nothing of the pipeline, nor any row of a replay, changes.
LEMMA ApiKeeps ==
    ASSUME ReplayInv, UNCHANGED <<vars, row, retryCount, answered>>,
           ReplayTypes', ReplayRunInv', NumbersInv'
    PROVE  ReplayInv'
<1>1. JobInv'
  BY JobStutter DEF ReplayInv
<1>2. RowInv' /\ StatusHasDelivery'
  BY SameRows DEF vars, ReplayInv, RowInv, PayloadBeforeRow, StatusHasDelivery, JobsOf
<1> QED  BY <1>1, <1>2 DEF ReplayInv

LEMMA ReplayInductive == ReplayInv /\ [ReplayNext]_<<vars, replayVars>> => ReplayInv'
<1> SUFFICES ASSUME ReplayInv, [ReplayNext]_<<vars, replayVars>> PROVE ReplayInv'
  OBVIOUS
<1>1. CASE Next /\ UNCHANGED replayVars
  BY <1>1, NextIsStep, WorkerKeeps, RefusedKeeps
<1>2. ASSUME NEW r \in Replays, ReplayStep(r) PROVE ReplayInv'
  <2>1. JobInv' /\ RowInv'
    <3>1. CASE event' = event
      <4>1. UNCHANGED vars
        BY <1>2, <3>1, ReplayFrame DEF ReplayInv, RowFrame, vars
      <4> QED  BY <4>1, JobStutter DEF ReplayInv, RowInv, PayloadBeforeRow, vars
    <3>2. CASE event' # event
      BY <1>2, <3>2, ReplayFrame, RowFrameKeeps, ReplayAssumption DEF ReplayInv
    <3> QED  BY <3>1, <3>2
  <2> QED  BY <1>2, <2>1, ReplayTypesStep, ReplayRunStep, NumbersStep, StatusReplayStep
           DEF ReplayInv
<1>3. ASSUME NEW e \in Events, SoftDelete(e) PROVE ReplayInv'
  <2>1. ReplayTypes' /\ ReplayRunInv' /\ NumbersInv'
    BY <1>3, ReplayAssumption
       DEF SoftDelete, ReplayInv, ReplayTypes, ReplayRunInv, ReplayOK, NumbersInv, NumberOK,
           Used, vars
  <2> QED  BY <1>3, <2>1, ApiKeeps DEF SoftDelete
<1>4. CASE ApiCrash
  <2>1. ReplayTypes' /\ ReplayRunInv' /\ NumbersInv'
    BY <1>4, ReplayCalls
       DEF ApiCrash, Running, ReplayInv, ReplayTypes, ReplayRunInv, ReplayOK, NumbersInv,
           NumberOK, Used, vars
  <2> QED  BY <1>4, <2>1, ApiKeeps DEF ApiCrash
<1>5. CASE UNCHANGED <<vars, replayVars>>
  <2>1. ReplayTypes' /\ ReplayRunInv' /\ NumbersInv'
    BY <1>5 DEF ReplayInv, ReplayTypes, ReplayRunInv, ReplayOK, NumbersInv, NumberOK, Used, vars
  <2> QED  BY <1>5, <2>1, ApiKeeps
<1> QED  BY <1>1, <1>2, <1>3, <1>4, <1>5 DEF ReplayNext

LEMMA ReplayInvInit == ReplayInit => ReplayInv
<1> SUFFICES ASSUME ReplayInit PROVE ReplayInv
  OBVIOUS
<1>1. JobInv /\ RowInv
  BY JobInit, EventInit DEF ReplayInit, EventInv
<1>2. ReplayTypes
  BY ReplayCalls DEF ReplayInit, ReplayTypes
<1>3. ReplayRunInv
  BY ReplayCalls DEF ReplayInit, ReplayRunInv, ReplayOK
<1>4. NumbersInv
  BY DEF ReplayInit, NumbersInv, NumberOK
<1>5. StatusHasDelivery
  BY DEF ReplayInit, Init, StatusHasDelivery
<1> QED  BY <1>1, <1>2, <1>3, <1>4, <1>5 DEF ReplayInv

LEMMA ReplayInvariant == ReplaySpec => []ReplayInv
  BY ReplayInvInit, ReplayInductive, PTL DEF ReplaySpec

-----------------------------------------------------------------------------
(* Theorems about replays beside the workers.                               *)

\* Type correctness of the pipeline with replays.
THEOREM ReplayTypeCorrect == ReplaySpec => []ReplayTypeOK
<1>1. JobInv => TypeOK
  <2> SUFFICES ASSUME JobInv PROVE TypeOK
    OBVIOUS
  <2>1. ASSUME NEW j \in Jobs
        PROVE  /\ attemptsMade[j] \in 0..MaxAttempts
               /\ stalledCount[j] \in 0..(MaxStalledCount + 1)
    BY PipelineAssumption DEF JobInv, Types, QueueInv
  <2> QED  BY <2>1 DEF JobInv, Types, TypeOK
<1>2. ReplayInv => ReplayTypeOK
  BY <1>1 DEF ReplayInv, ReplayTypes, ReplayState, ReplayTypeOK
<1> QED  BY <1>2, ReplayInvariant, PTL

\* Whoever wrote the status of an event row last, a worker's run, a replay or
\* one of the catches of a replay, the rows give evidence for it, unless it is the
\* FAILED of a refused request.
THEOREM StatusesHaveDeliveries == ReplaySpec => []StatusHasDelivery
<1>1. ReplayInv => StatusHasDelivery
  BY DEF ReplayInv
<1> QED  BY <1>1, ReplayInvariant, PTL

\* A replay that has a row finds the payload of its event in S3, if the event was
\* accepted.  No replay of a refused request, which has none, is ever posted or
\* succeeds, and whatever its transactions do the request's row stays FAILED.
THEOREM ReplaysFindPayload == ReplaySpec => []ReplayFindsPayload
<1>1. ReplayInv => ReplayFindsPayload
  BY ReplayAssumption
     DEF ReplayInv, RowInv, PayloadBeforeRow, ReplayRunInv, ReplayOK, ReplayFindsPayload
<1> QED  BY <1>1, ReplayInvariant, PTL

\* Concurrent replays of an event skip no retry number.
THEOREM NumbersAreDense == ReplaySpec => []NumbersHaveNoGaps
<1>1. ReplayInv => NumbersHaveNoGaps
  <2> SUFFICES ASSUME ReplayInv, NEW r \in Replays, retryCount[r] > 1
               PROVE  \E s \in Replays : /\ ReplayedEvent[s] = ReplayedEvent[r]
                                        /\ retryCount[s] + 1 = retryCount[r]
    BY DEF NumbersHaveNoGaps
  <2>1. Used(retryCount[r] - 1, r)
    BY DEF ReplayInv, NumbersInv, NumberOK
  <2>2. \A s \in Replays : retryCount[s] \in Nat
    BY DEF ReplayInv, ReplayTypes
  <2> QED  BY <2>1, <2>2 DEF Used
<1> QED  BY <1>1, ReplayInvariant, PTL

\* A replay says SUCCESS only after a 2xx to its own POST.
THEOREM SuccessesWereAnswered == ReplaySpec => []SuccessWasAnswered
<1>1. ReplayInv => SuccessWasAnswered
  BY DEF ReplayInv, ReplayRunInv, ReplayOK, SuccessWasAnswered
<1> QED  BY <1>1, ReplayInvariant, PTL

\* A replay that ends as it should leaves its row PENDING only if the event was
\* deleted meanwhile.
THEOREM EndedReplaysHaveOutcome == ReplaySpec => []EndedHasOutcome
<1>1. ReplayInv => EndedHasOutcome
  BY DEF ReplayInv, ReplayRunInv, ReplayOK, EndedHasOutcome
<1> QED  BY <1>1, ReplayInvariant, PTL

=============================================================================
