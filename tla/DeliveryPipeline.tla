-------------------------- MODULE DeliveryPipeline --------------------------
(***************************************************************************)
(* The background half of apps/ingestion: the BullMQ jobs the routes add,  *)
(* the worker's processor (S3, webhook event row, cache, usage counter,    *)
(* forward, outcome), the retries, the stalled-job recovery and the        *)
(* "failed" handler that dead-letters.  stripe-event.worker.ts and         *)
(* github-event.worker.ts are the same program; the line numbers of the    *)
(* project map are those of the Stripe files.                              *)
(*                                                                         *)
(* A step is what one run does between two awaits.  Events are the         *)
(* (endpointId, eventId) pairs that are the unique key of WebhookEvent;    *)
(* EventLog rows are written with the row they describe and are not kept   *)
(* apart from it.  A request whose signature is refused gets a row of its  *)
(* own, which names no payload, and no job.                                *)
(***************************************************************************)
EXTENDS Naturals, Sequences

CONSTANTS
    Jobs,             (* the provider requests the routes accept            *)
    Events,           (* the (endpoint, provider event id) pairs            *)
    Refused,          (* those the routes give a refused request: failed_   *)
                      (* and the time, or the id of GitHub's delivery        *)
    EventOf,          (* the event each job carries; not one to one: a      *)
                      (* provider repeats a request and queue.add has no id *)
    MaxAttempts,      (* defaultJobOptions.attempts, 5 in the code          *)
    MaxStalledCount   (* BullMQ's maxStalledCount, 1 by default             *)

\* No provider's id begins with failed_.
ASSUME PipelineAssumption ==
    /\ Refused \subseteq Events
    /\ EventOf \in [Jobs -> Events \ Refused]
    /\ MaxAttempts \in Nat \ {0}
    /\ MaxStalledCount \in Nat

VARIABLES
    (* Redis, BullMQ's side of a job *)
    job,            (* none, waiting, active, delayed, completed, failed    *)
    attemptsMade,
    stalledCount,
    (* the run of the processor or of the failed handler, lost in a crash   *)
    pc,             (* the call the run makes next                          *)
    isDuplicate,    (* IngestResult.isDuplicate of the run                  *)
    (* PostgreSQL, S3 and the Redis cache *)
    event,          (* WebhookEvent.status, NONE while there is no row      *)
    deliveries,     (* the Delivery rows each job created, oldest first     *)
    usage,          (* what the event added to Usage.eventCount             *)
    stored,         (* is the payload in S3                                 *)
    cached,         (* is event:<id> in Redis                               *)
    (* seen from outside *)
    received,       (* how often the job's payload reached the destination  *)
    acked,          (* has the destination ever answered the job with a 2xx *)
    alerts          (* the event statuses published on wh:alert:events      *)

queueVars == <<job, attemptsMade, stalledCount>>
runVars   == <<pc, isDuplicate>>
dbVars    == <<event, deliveries, usage, stored, cached>>
outVars   == <<received, acked, alerts>>
vars      == <<queueVars, runVars, dbVars, outVars>>

-----------------------------------------------------------------------------
JobState == {"none", "waiting", "active", "delayed", "completed", "failed"}

EventStatus == {"RECEIVED", "PROCESSING", "DELIVERED", "FAILED", "DEAD_LETTER"}

DeliveryStatus == {"PENDING", "SUCCESS", "FAILED"}

\* The calls of the processor that reject the run when they fail.
ThrowingCall == {"putObject", "createEvent", "cache", "usage", "createDelivery",
                 "markProcessing", "fetch", "persistUnreachable",
                 "persistSuccess", "persistFailure"}

\* publishAlertEvent swallows its own failure; then the promise settles.
SettlingCall == {"publishSuccess", "publishFailure", "resolved", "rejected"}

ProcessorCall == ThrowingCall \cup SettlingCall

\* The awaits of the "failed" handler.
HandlerCall == {"findEvent", "deadLetter", "publishDeadLetter"}

TypeOK ==
    /\ job \in [Jobs -> JobState]
    /\ attemptsMade \in [Jobs -> 0..MaxAttempts]
    /\ stalledCount \in [Jobs -> 0..(MaxStalledCount + 1)]
    /\ pc \in [Jobs -> ProcessorCall \cup HandlerCall \cup {"idle", "lost"}]
    /\ isDuplicate \in [Jobs -> BOOLEAN]
    /\ event \in [Events -> EventStatus \cup {"NONE"}]
    /\ deliveries \in [Jobs -> Seq(DeliveryStatus)]
    /\ usage \in [Events -> Nat]
    /\ stored \in [Events -> BOOLEAN]
    /\ cached \in [Events -> BOOLEAN]
    /\ received \in [Jobs -> Nat]
    /\ acked \in [Jobs -> BOOLEAN]
    /\ alerts \in [Events -> SUBSET EventStatus]

Init ==
    /\ job = [j \in Jobs |-> "none"]
    /\ attemptsMade = [j \in Jobs |-> 0]
    /\ stalledCount = [j \in Jobs |-> 0]
    /\ pc = [j \in Jobs |-> "idle"]
    /\ isDuplicate = [j \in Jobs |-> FALSE]
    /\ event = [e \in Events |-> "NONE"]
    /\ deliveries = [j \in Jobs |-> <<>>]
    /\ usage = [e \in Events |-> 0]
    /\ stored = [e \in Events |-> FALSE]
    /\ cached = [e \in Events |-> FALSE]
    /\ received = [j \in Jobs |-> 0]
    /\ acked = [j \in Jobs |-> FALSE]
    /\ alerts = [e \in Events |-> {}]

Goto(j, call) == pc' = [pc EXCEPT ![j] = call]

SetEvent(e, status) == event' = [event EXCEPT ![e] = status]

\* The run's own delivery row is the newest one of its job.
SetDelivery(j, status) ==
    deliveries' = [deliveries EXCEPT ![j][Len(deliveries[j])] = status]

-----------------------------------------------------------------------------
(* The queue: the route's add, BullMQ's promotion, pick-up and recovery.   *)

\* The route answers 200 (202 for GitHub) after this add.
Enqueue(j) ==
    /\ job[j] = "none"
    /\ job' = [job EXCEPT ![j] = "waiting"]
    /\ UNCHANGED <<attemptsMade, stalledCount, runVars, dbVars, outVars>>

\* logVerificationFailure, whose failures are swallowed: a repetition finds the row.
LogVerificationFailure(e) ==
    /\ event[e] = "NONE"
    /\ SetEvent(e, "FAILED")
    /\ UNCHANGED <<queueVars, runVars, deliveries, usage, stored, cached, outVars>>

\* A slip: the row is created before the payload is stored.
StartRunRowFirst(j) ==
    /\ job[j] = "waiting"
    /\ pc[j] = "idle"
    /\ job' = [job EXCEPT ![j] = "active"]
    /\ Goto(j, "createEvent")
    /\ isDuplicate' = [isDuplicate EXCEPT ![j] = FALSE]
    /\ UNCHANGED <<attemptsMade, stalledCount, dbVars, outVars>>

StartRun(j) ==
    /\ job[j] = "waiting"
    /\ pc[j] = "idle"
    /\ job' = [job EXCEPT ![j] = "active"]
    /\ Goto(j, "putObject")
    /\ isDuplicate' = [isDuplicate EXCEPT ![j] = FALSE]
    /\ UNCHANGED <<attemptsMade, stalledCount, dbVars, outVars>>

\* The backoff of attemptsMade * 15 s is over.
Promote(j) ==
    /\ job[j] = "delayed"
    /\ job' = [job EXCEPT ![j] = "waiting"]
    /\ UNCHANGED <<attemptsMade, stalledCount, runVars, dbVars, outVars>>

Complete(j) ==
    /\ pc[j] = "resolved"
    /\ job' = [job EXCEPT ![j] = "completed"]
    /\ Goto(j, "idle")
    /\ UNCHANGED <<attemptsMade, stalledCount, isDuplicate, dbVars, outVars>>

\* A slip: the last retry but one is taken for the last.
IsFinalEarly(made) == made >= MaxAttempts - 1

\* isFinal of the failed handler, which otherwise only logs.
IsFinal(made) == made >= MaxAttempts

HandlerEntry(made) == IF IsFinal(made) THEN "findEvent" ELSE "idle"

\* A slip: the attempt is not counted.
RejectUncounted(j) ==
    /\ pc[j] = "rejected"
    /\ job' = [job EXCEPT ![j] = "delayed"]
    /\ Goto(j, "idle")
    /\ UNCHANGED <<attemptsMade, stalledCount, isDuplicate, dbVars, outVars>>

\* moveToFailed counts the attempt, then emits "failed".
Reject(j) ==
    LET made == attemptsMade[j] + 1 IN
    /\ pc[j] = "rejected"
    /\ attemptsMade' = [attemptsMade EXCEPT ![j] = made]
    /\ job' = [job EXCEPT ![j] = IF made < MaxAttempts THEN "delayed" ELSE "failed"]
    /\ Goto(j, HandlerEntry(made))
    /\ UNCHANGED <<stalledCount, isDuplicate, dbVars, outVars>>

\* The worker's process dies.  A job it was processing stays active until
\* BullMQ finds its lock expired; a failed handler is simply gone.
Crash(j) ==
    /\ \/ pc[j] \in ProcessorCall /\ Goto(j, "lost")
       \/ pc[j] \in HandlerCall /\ Goto(j, "idle")
    /\ UNCHANGED <<queueVars, isDuplicate, dbVars, outVars>>

RequeueStalled(j) ==
    /\ pc[j] = "lost"
    /\ stalledCount[j] < MaxStalledCount
    /\ stalledCount' = [stalledCount EXCEPT ![j] = @ + 1]
    /\ job' = [job EXCEPT ![j] = "waiting"]
    /\ Goto(j, "idle")
    /\ UNCHANGED <<attemptsMade, isDuplicate, dbVars, outVars>>

\* "job stalled more than allowable limit": not retried, whatever attempts
\* it had left, and "failed" is emitted with the attempts counted so far.
FailStalled(j) ==
    LET made == attemptsMade[j] + 1 IN
    /\ pc[j] = "lost"
    /\ stalledCount[j] = MaxStalledCount
    /\ stalledCount' = [stalledCount EXCEPT ![j] = @ + 1]
    /\ attemptsMade' = [attemptsMade EXCEPT ![j] = made]
    /\ job' = [job EXCEPT ![j] = "failed"]
    /\ Goto(j, HandlerEntry(made))
    /\ UNCHANGED <<isDuplicate, dbVars, outVars>>

-----------------------------------------------------------------------------
(* The processor.  Any of its calls may fail, and then nothing it was      *)
(* about to write is written: assertSafeDestination and the response body  *)
(* are outside every try, so their failure is this step too.               *)

Throw(j) ==
    /\ pc[j] \in ThrowingCall
    /\ Goto(j, "rejected")
    /\ UNCHANGED <<queueVars, isDuplicate, dbVars, outVars>>

\* A slip: a failure of S3 is only logged.
PutObjectOrLog(j) ==
    /\ pc[j] = "putObject"
    /\ stored' \in {stored, [stored EXCEPT ![EventOf[j]] = TRUE]}
    /\ Goto(j, "createEvent")
    /\ UNCHANGED <<queueVars, isDuplicate, event, deliveries, usage, cached, outVars>>

PutObject(j) ==
    /\ pc[j] = "putObject"
    /\ stored' = [stored EXCEPT ![EventOf[j]] = TRUE]
    /\ Goto(j, "createEvent")
    /\ UNCHANGED <<queueVars, isDuplicate, event, deliveries, usage, cached, outVars>>

\* The row and its EVENT_RECEIVED log, or P2002 and the existing row's id.
CreateEvent(j) ==
    LET e == EventOf[j]
        duplicate == event[e] # "NONE"
    IN
    /\ pc[j] = "createEvent"
    /\ event' = [event EXCEPT ![e] = IF duplicate THEN @ ELSE "RECEIVED"]
    /\ isDuplicate' = [isDuplicate EXCEPT ![j] = duplicate]
    /\ Goto(j, "cache")
    /\ UNCHANGED <<queueVars, deliveries, usage, stored, cached, outVars>>

CacheEvent(j) ==
    LET e == EventOf[j] IN
    /\ pc[j] = "cache"
    /\ cached' = [cached EXCEPT ![e] = @ \/ ~isDuplicate[j]]
    /\ Goto(j, "usage")
    /\ UNCHANGED <<queueVars, isDuplicate, event, deliveries, usage, stored, outVars>>

\* A slip: duplicates are counted.
CountUsageAlways(j) ==
    /\ pc[j] = "usage"
    /\ usage' = [usage EXCEPT ![EventOf[j]] = @ + 1]
    /\ Goto(j, "createDelivery")
    /\ UNCHANGED <<queueVars, isDuplicate, event, deliveries, stored, cached, outVars>>

CountUsage(j) ==
    LET e == EventOf[j] IN
    /\ pc[j] = "usage"
    /\ usage' = [usage EXCEPT ![e] = IF isDuplicate[j] THEN @ ELSE @ + 1]
    /\ Goto(j, "createDelivery")
    /\ UNCHANGED <<queueVars, isDuplicate, event, deliveries, stored, cached, outVars>>

CreateDelivery(j) ==
    /\ pc[j] = "createDelivery"
    /\ deliveries' = [deliveries EXCEPT ![j] = Append(@, "PENDING")]
    /\ Goto(j, "markProcessing")
    /\ UNCHANGED <<queueVars, isDuplicate, event, usage, stored, cached, outVars>>

MarkProcessing(j) ==
    /\ pc[j] = "markProcessing"
    /\ SetEvent(EventOf[j], "PROCESSING")
    /\ Goto(j, "fetch")
    /\ UNCHANGED <<queueVars, isDuplicate, deliveries, usage, stored, cached, outVars>>

\* The destination answers; only a 2xx is a success.
FetchResponds(j) ==
    /\ pc[j] = "fetch"
    /\ received' = [received EXCEPT ![j] = @ + 1]
    /\ \/ /\ acked' = [acked EXCEPT ![j] = TRUE]
          /\ Goto(j, "persistSuccess")
       \/ /\ UNCHANGED acked
          /\ Goto(j, "persistFailure")
    /\ UNCHANGED <<queueVars, isDuplicate, dbVars, alerts>>

\* A slip: the alert is published before the failure is persisted.
FetchUnreachableAlertFirst(j) ==
    /\ pc[j] = "fetch"
    /\ alerts' = [alerts EXCEPT ![EventOf[j]] = @ \cup {"FAILED"}]
    /\ Goto(j, "persistUnreachable")
    /\ UNCHANGED <<queueVars, isDuplicate, dbVars, received, acked>>

\* DNS, refusal or the 10 s timeout: the destination may have received the
\* POST all the same.
FetchUnreachable(j) ==
    /\ pc[j] = "fetch"
    /\ \/ received' = [received EXCEPT ![j] = @ + 1]
       \/ UNCHANGED received
    /\ Goto(j, "persistUnreachable")
    /\ UNCHANGED <<queueVars, isDuplicate, dbVars, acked, alerts>>

PersistUnreachable(j) ==
    /\ pc[j] = "persistUnreachable"
    /\ SetDelivery(j, "FAILED")
    /\ SetEvent(EventOf[j], "FAILED")
    /\ Goto(j, "publishFailure")
    /\ UNCHANGED <<queueVars, isDuplicate, usage, stored, cached, outVars>>

PersistFailure(j) ==
    /\ pc[j] = "persistFailure"
    /\ SetDelivery(j, "FAILED")
    /\ SetEvent(EventOf[j], "FAILED")
    /\ Goto(j, "publishFailure")
    /\ UNCHANGED <<queueVars, isDuplicate, usage, stored, cached, outVars>>

\* A slip: a duplicate leaves the event row alone.
PersistSuccessRowOfFirst(j) ==
    /\ pc[j] = "persistSuccess"
    /\ SetDelivery(j, "SUCCESS")
    /\ IF isDuplicate[j] THEN UNCHANGED event ELSE SetEvent(EventOf[j], "DELIVERED")
    /\ Goto(j, "publishSuccess")
    /\ UNCHANGED <<queueVars, isDuplicate, usage, stored, cached, outVars>>

PersistSuccess(j) ==
    /\ pc[j] = "persistSuccess"
    /\ SetDelivery(j, "SUCCESS")
    /\ SetEvent(EventOf[j], "DELIVERED")
    /\ Goto(j, "publishSuccess")
    /\ UNCHANGED <<queueVars, isDuplicate, usage, stored, cached, outVars>>

\* publishAlertEvent, or its swallowed failure.
Publish(e, status) ==
    \/ alerts' = [alerts EXCEPT ![e] = @ \cup {status}]
    \/ UNCHANGED alerts

\* A slip: a publish that fails fails the run.
PublishSuccessOrThrow(j) ==
    /\ pc[j] = "publishSuccess"
    /\ Publish(EventOf[j], "DELIVERED")
    /\ Goto(j, IF alerts' = alerts THEN "rejected" ELSE "resolved")
    /\ UNCHANGED <<queueVars, isDuplicate, dbVars, received, acked>>

PublishSuccess(j) ==
    /\ pc[j] = "publishSuccess"
    /\ Publish(EventOf[j], "DELIVERED")
    /\ Goto(j, "resolved")
    /\ UNCHANGED <<queueVars, isDuplicate, dbVars, received, acked>>

\* A slip: the processor returns instead of throwing.
PublishFailureNoThrow(j) ==
    /\ pc[j] = "publishFailure"
    /\ Publish(EventOf[j], "FAILED")
    /\ Goto(j, "resolved")
    /\ UNCHANGED <<queueVars, isDuplicate, dbVars, received, acked>>

\* Throw AFTER persisting.
PublishFailure(j) ==
    /\ pc[j] = "publishFailure"
    /\ Publish(EventOf[j], "FAILED")
    /\ Goto(j, "rejected")
    /\ UNCHANGED <<queueVars, isDuplicate, dbVars, received, acked>>

-----------------------------------------------------------------------------
(* The failed handler, once the attempts are exhausted.  Its try swallows  *)
(* every failure, and without a row it returns.                            *)

FindEvent(j) ==
    /\ pc[j] = "findEvent"
    /\ Goto(j, IF event[EventOf[j]] = "NONE" THEN "idle" ELSE "deadLetter")
    /\ UNCHANGED <<queueVars, isDuplicate, dbVars, outVars>>

DeadLetter(j) ==
    /\ pc[j] = "deadLetter"
    /\ SetEvent(EventOf[j], "DEAD_LETTER")
    /\ Goto(j, "publishDeadLetter")
    /\ UNCHANGED <<queueVars, isDuplicate, deliveries, usage, stored, cached, outVars>>

PublishDeadLetter(j) ==
    /\ pc[j] = "publishDeadLetter"
    /\ Publish(EventOf[j], "DEAD_LETTER")
    /\ Goto(j, "idle")
    /\ UNCHANGED <<queueVars, isDuplicate, dbVars, received, acked>>

HandlerFails(j) ==
    /\ pc[j] \in {"findEvent", "deadLetter"}
    /\ Goto(j, "idle")
    /\ UNCHANGED <<queueVars, isDuplicate, dbVars, outVars>>

-----------------------------------------------------------------------------
Queue(j) == StartRun(j) \/ Promote(j) \/ Complete(j) \/ Reject(j)
            \/ RequeueStalled(j) \/ FailStalled(j)

Processor(j) ==
    \/ Throw(j) \/ PutObject(j) \/ CreateEvent(j) \/ CacheEvent(j) \/ CountUsage(j)
    \/ CreateDelivery(j) \/ MarkProcessing(j) \/ FetchResponds(j) \/ FetchUnreachable(j)
    \/ PersistUnreachable(j) \/ PersistFailure(j) \/ PersistSuccess(j)
    \/ PublishSuccess(j) \/ PublishFailure(j)

FailedHandler(j) == FindEvent(j) \/ DeadLetter(j) \/ PublishDeadLetter(j) \/ HandlerFails(j)

Next ==
    \/ \E j \in Jobs :
          Enqueue(j) \/ Queue(j) \/ Processor(j) \/ FailedHandler(j) \/ Crash(j)
    \/ \E e \in Refused : LogVerificationFailure(e)

Spec == Init /\ [][Next]_vars

\* Workers keep polling and every await settles (a call returns, fails or the
\* process dies); providers need not send anything and nothing has to crash.
Fairness == \A j \in Jobs : WF_vars(Queue(j) \/ Processor(j) \/ FailedHandler(j))

FairSpec == Spec /\ Fairness

-----------------------------------------------------------------------------
(* Safety.                                                                  *)

JobsOf(e) == {j \in Jobs : EventOf[j] = e}

HasSuccess(j) == \E n \in DOMAIN deliveries[j] : deliveries[j][n] = "SUCCESS"

HasFailure(j) == \E n \in DOMAIN deliveries[j] : deliveries[j][n] = "FAILED"

LastSucceeded(j) == deliveries[j] # <<>> /\ deliveries[j][Len(deliveries[j])] = "SUCCESS"

\* The run has persisted a 2xx; all it may still do is publish and resolve.
Settled(j) == job[j] = "completed" \/ pc[j] \in {"publishSuccess", "resolved"}

\* However many times a provider repeats an event, and wherever runs fail or
\* crash between the row, the cache and the counter (worker steps 2 to 3b), the
\* event is counted against the user's monthly quota at most once.
UsageAtMostOnce == \A e \in Events : usage[e] <= 1

\* The row of an accepted event always has its payload in S3, whatever run created
\* it and wherever that run stopped, failed or was repeated: a replay reads it much
\* later.  Of the rows, those of refused requests alone have none.
PayloadBeforeRow == \A e \in Events : event[e] # "NONE" => (stored[e] <=> e \notin Refused)

\* BullMQ acknowledges a job only after a 2xx of the destination was persisted
\* as the newest delivery of that job: no throw is lost between the two.
CompletedMeansDelivered ==
    \A j \in Jobs : job[j] = "completed" => acked[j] /\ LastSucceeded(j)

\* Runs of duplicate jobs overwrite each other's event status by id alone, yet
\* when the last job of an event completes the row says DELIVERED: the final
\* write of every completed job is a success, so the last writer's is one too.
AllCompletedMeansDelivered ==
    \A e \in Events :
        (JobsOf(e) # {} /\ \A j \in JobsOf(e) : job[j] = "completed") => event[e] = "DELIVERED"

\* What has happened to a job that lets an event, or an alert about it, have a
\* status: DELIVERED takes a persisted 2xx, FAILED a persisted failure, and
\* DEAD_LETTER a job BullMQ gave up after its last attempt (isFinal).
Backs(j, status) ==
    /\ status = "DELIVERED" => HasSuccess(j) /\ acked[j]
    /\ status = "FAILED" => HasFailure(j)
    /\ status = "DEAD_LETTER" => job[j] = "failed" /\ attemptsMade[j] = MaxAttempts

\* The status of an event row, which concurrent runs of duplicate jobs and the
\* failed handler overwrite, is always one that some job of the event backs, or the
\* FAILED of a refused request, which no run touches.
StatusIsBacked ==
    \A e \in Events : event[e] # "NONE" =>
        \/ \E j \in JobsOf(e) : Backs(j, event[e])
        \/ e \in Refused /\ event[e] = "FAILED"

\* What was announced to the alert evaluator had been persisted before.
AlertsAreBacked ==
    \A e \in Events : \A status \in alerts[e] : \E j \in JobsOf(e) : Backs(j, status)

\* A job that persisted a success forwards the payload again only because a
\* worker died before BullMQ heard of it, never because of a retry (given that
\* the transaction at the end of forwardAndPersist did not commit when it throws).
RedeliveryNeedsCrash ==
    \A j \in Jobs : HasSuccess(j) =>
        Settled(j) \/ pc[j] = "lost" \/ stalledCount[j] > 0

-----------------------------------------------------------------------------
(* Steps and liveness.                                                      *)

\* A delivery row that reached SUCCESS or FAILED is audit history: no later
\* run, retry or duplicate rewrites or removes it.
OutcomesAreFinal ==
    [][\A j \in Jobs : \A n \in DOMAIN deliveries[j] :
          /\ n \in DOMAIN deliveries'[j]
          /\ deliveries[j][n] # "PENDING" => deliveries'[j][n] = deliveries[j][n]]_vars

\* The pipeline delivers each accepted request at least once or gives it up,
\* and the destination receives it at most attempts + stalls times.
Outcomes == [j \in Jobs |->
    CASE job[j] = "none"      -> "none"
      [] job[j] = "completed" -> "confirmed"
      [] job[j] = "failed"    -> "abandoned"
      [] OTHER                -> "pending"]

Abstract == INSTANCE AtLeastOnce
    WITH outcome <- Outcomes, MaxSends <- MaxAttempts + MaxStalledCount

ImplementsAtLeastOnce == Abstract!Spec

\* Whatever fails, crashes or stalls, an enqueued job is eventually completed
\* or failed: no state of the retry and recovery cycle is left forever.
EveryJobSettles ==
    \A j \in Jobs : job[j] = "waiting" ~> job[j] \in {"completed", "failed"}

=============================================================================
