------------------------------- MODULE Replay -------------------------------
(***************************************************************************)
(* Event replay in apps/api (webhook.service.ts, webhook.repository.ts)    *)
(* beside the ingestion workers: both write Delivery rows of an event and  *)
(* overwrite WebhookEvent.status.                                          *)
(*                                                                         *)
(* A replay is one createRetryDelivery of a request, "retry" for one event *)
(* or a batch for several, and the executeReplayDelivery that the API      *)
(* process starts for it and does not await.                               *)
(***************************************************************************)
EXTENDS DeliveryPipeline

CONSTANTS
    Replays,        (* the replays users ask for                            *)
    RequestOf,      (* the HTTP request each belongs to                     *)
    ReplayedEvent,  (* the event each replays                               *)
    Batches         (* the requests that are batches                        *)

ASSUME ReplayAssumption ==
    /\ ReplayedEvent \in [Replays -> Events]
    /\ \A r, s \in Replays : (r # s /\ RequestOf[r] = RequestOf[s]) =>
          RequestOf[r] \in Batches /\ ReplayedEvent[r] # ReplayedEvent[s]

VARIABLES
    hidden,     (* is deletedAt of the event set                            *)
    replay,     (* the call the replay makes next                           *)
    lastCount,  (* the greatest retryCount the replay has read              *)
    row,        (* the status of its Delivery row, NONE while there is none *)
    retryCount, (* of its row; a worker's rows have 0                       *)
    answered    (* did a 2xx and its body arrive from the destination       *)

pipelineVars == vars
replayVars == <<hidden, replay, lastCount, row, retryCount, answered>>

\* What of the pipeline a replay leaves alone: all but the event row.
pipelineButRow == <<queueVars, runVars, deliveries, usage, stored, cached, outVars>>

-----------------------------------------------------------------------------
\* createRetryDelivery and, for a single retry, getEventForReplay.
RequestCall == {"listed", "readLast", "createRow", "getEvent"}

\* The calls of updateDeliveryOutcome: after an answer, after an S3 or network
\* failure, and in the catch of the request that started the replay.
PersistCall == {"persistSuccess", "persistFailure", "persistNoPayload",
                "persistNetwork", "persistUnexpected"}

ExecutionCall == {"getObject", "fetch"} \cup PersistCall

Running(r) == replay[r] \in RequestCall \cup ExecutionCall

ReplayTypeOK ==
    /\ TypeOK
    /\ hidden \in [Events -> BOOLEAN]
    /\ replay \in [Replays -> RequestCall \cup ExecutionCall
                               \cup {"idle", "ended", "rejected", "lost"}]
    /\ lastCount \in [Replays -> Nat]
    /\ row \in [Replays -> DeliveryStatus \cup {"NONE"}]
    /\ retryCount \in [Replays -> Nat]
    /\ answered \in [Replays -> BOOLEAN]

ReplayInit ==
    /\ Init
    /\ hidden = [e \in Events |-> FALSE]
    /\ replay = [r \in Replays |-> "idle"]
    /\ lastCount = [r \in Replays |-> 0]
    /\ row = [r \in Replays |-> "NONE"]
    /\ retryCount = [r \in Replays |-> 0]
    /\ answered = [r \in Replays |-> FALSE]

ToCall(r, call) == replay' = [replay EXCEPT ![r] = call]

\* The queries for an event that may be replayed see it, that of a refused request too.
Visible(e) == event[e] # "NONE" /\ ~hidden[e]

InBatch(r) == RequestOf[r] \in Batches

Siblings(r) == {s \in Replays : RequestOf[s] = RequestOf[r]}

-----------------------------------------------------------------------------
(* The request.                                                             *)

\* findEventsByIdsAndUserId: the batch drops what it does not see.
ListBatch(r) ==
    /\ InBatch(r)
    /\ \A s \in Siblings(r) : replay[s] = "idle"
    /\ replay' = [s \in Replays |->
          IF s \notin Siblings(r) THEN replay[s]
          ELSE IF Visible(ReplayedEvent[s]) THEN "listed" ELSE "ended"]
    /\ UNCHANGED <<pipelineVars, hidden, lastCount, row, retryCount, answered>>

\* A retry is checked at once, the events of a batch one after the other.
Ready(r) ==
    \/ ~InBatch(r) /\ replay[r] = "idle"
    \/ /\ replay[r] = "listed"
       /\ \A s \in Siblings(r) : replay[s] \notin {"readLast", "createRow"}

\* 404 for a retry, skipped in a batch.
CheckEvent(r) ==
    /\ Ready(r)
    /\ ToCall(r, IF Visible(ReplayedEvent[r]) THEN "readLast" ELSE "ended")
    /\ UNCHANGED <<pipelineVars, hidden, lastCount, row, retryCount, answered>>

\* The counts of the Delivery rows of an event; 0 stands for no row, too.
Counts(e) == {0} \cup {retryCount[s] : s \in {s \in Replays : ReplayedEvent[s] = e}}

\* A slip: the next number is taken here, and taken again for the row.
ReadNext(r) ==
    LET counts == Counts(ReplayedEvent[r]) IN
    /\ replay[r] = "readLast"
    /\ \E n \in counts : /\ \A m \in counts : m <= n
                         /\ lastCount' = [lastCount EXCEPT ![r] = n + 1]
    /\ ToCall(r, "createRow")
    /\ UNCHANGED <<pipelineVars, hidden, row, retryCount, answered>>

ReadLast(r) ==
    LET counts == Counts(ReplayedEvent[r]) IN
    /\ replay[r] = "readLast"
    /\ \E n \in counts : /\ \A m \in counts : m <= n
                         /\ lastCount' = [lastCount EXCEPT ![r] = n]
    /\ ToCall(r, "createRow")
    /\ UNCHANGED <<pipelineVars, hidden, row, retryCount, answered>>

\* A batch starts the execution at once, a retry reads the event again.
CreateRow(r) ==
    /\ replay[r] = "createRow"
    /\ row' = [row EXCEPT ![r] = "PENDING"]
    /\ retryCount' = [retryCount EXCEPT ![r] = lastCount[r] + 1]
    /\ lastCount' = [lastCount EXCEPT ![r] = 0]
    /\ ToCall(r, IF InBatch(r) THEN "getObject" ELSE "getEvent")
    /\ UNCHANGED <<pipelineVars, hidden, answered>>

\* 201 is answered either way.
GetEvent(r) ==
    /\ replay[r] = "getEvent"
    /\ ToCall(r, IF Visible(ReplayedEvent[r]) THEN "getObject" ELSE "ended")
    /\ UNCHANGED <<pipelineVars, hidden, lastCount, row, retryCount, answered>>

\* A query fails: 500, and a batch goes no further.  What it started goes on.
RequestThrows(r) ==
    /\ Ready(r) \/ replay[r] \in {"readLast", "createRow", "getEvent"}
    /\ replay' = [s \in Replays |->
          IF s = r \/ (s \in Siblings(r) /\ replay[s] = "listed") THEN "rejected"
          ELSE replay[s]]
    /\ lastCount' = [lastCount EXCEPT ![r] = 0]
    /\ UNCHANGED <<pipelineVars, hidden, row, retryCount, answered>>

-----------------------------------------------------------------------------
(* executeReplayDelivery.                                                   *)

\* A slip: without its payload the replay just returns.
GetObjectOrReturn(r) ==
    /\ replay[r] = "getObject"
    /\ \/ stored[ReplayedEvent[r]] /\ ToCall(r, "fetch")
       \/ ToCall(r, "ended")
    /\ UNCHANGED <<pipelineVars, hidden, lastCount, row, retryCount, answered>>

\* S3 may fail; the payloadUrl of a refused request names no bucket.
GetObject(r) ==
    /\ replay[r] = "getObject"
    /\ \/ stored[ReplayedEvent[r]] /\ ToCall(r, "fetch")
       \/ ToCall(r, "persistNoPayload")
    /\ UNCHANGED <<pipelineVars, hidden, lastCount, row, retryCount, answered>>

\* A 2xx; another status; no answer, or one whose body does not arrive.
Post(r) ==
    /\ replay[r] = "fetch"
    /\ \/ /\ answered' = [answered EXCEPT ![r] = TRUE]
          /\ ToCall(r, "persistSuccess")
       \/ /\ UNCHANGED answered
          /\ ToCall(r, "persistFailure") \/ ToCall(r, "persistNetwork")
    /\ UNCHANGED <<pipelineVars, hidden, lastCount, row, retryCount>>

\* A slip: only an answer can be a failure.
OutcomeOfAnswer(r) == IF replay[r] = "persistFailure" THEN "FAILED" ELSE "SUCCESS"

Outcome(r) == IF replay[r] = "persistSuccess" THEN "SUCCESS" ELSE "FAILED"

\* A slip: the outcome is written to the event only.
WriteEventOnly(r) ==
    /\ UNCHANGED row
    /\ SetEvent(ReplayedEvent[r], IF Outcome(r) = "SUCCESS" THEN "DELIVERED" ELSE "FAILED")

\* The transaction of updateDeliveryOutcome.
WriteOutcome(r) ==
    /\ row' = [row EXCEPT ![r] = Outcome(r)]
    /\ SetEvent(ReplayedEvent[r], IF Outcome(r) = "SUCCESS" THEN "DELIVERED" ELSE "FAILED")

PersistOutcome(r) ==
    /\ replay[r] \in PersistCall
    /\ WriteOutcome(r)
    /\ ToCall(r, "ended")
    /\ UNCHANGED <<pipelineButRow, hidden, lastCount, retryCount, answered>>

\* Where a failed transaction goes: the catch around fetch takes the failure to
\* persist an answer for a network error; then the request's catch; then nowhere.
AfterThrow(call) ==
    CASE call \in {"persistSuccess", "persistFailure"}  -> "persistNetwork"
      [] call \in {"persistNoPayload", "persistNetwork"} -> "persistUnexpected"
      [] call = "persistUnexpected"                      -> "rejected"

\* The transaction throws; it may have committed all the same.
PersistThrows(r) ==
    /\ replay[r] \in PersistCall
    /\ \/ WriteOutcome(r)
       \/ UNCHANGED <<row, event>>
    /\ ToCall(r, AfterThrow(replay[r]))
    /\ UNCHANGED <<pipelineButRow, hidden, lastCount, retryCount, answered>>

-----------------------------------------------------------------------------
(* The rest of the API.                                                     *)

\* batchSoftDeleteEvents, expireOldEvents, or the deletion of the endpoint.
SoftDelete(e) ==
    /\ Visible(e)
    /\ hidden' = [hidden EXCEPT ![e] = TRUE]
    /\ UNCHANGED <<pipelineVars, replay, lastCount, row, retryCount, answered>>

\* The API process dies and takes every request and replay with it.
ApiCrash ==
    /\ \E r \in Replays : Running(r)
    /\ replay' = [r \in Replays |-> IF Running(r) THEN "lost" ELSE replay[r]]
    /\ lastCount' = [r \in Replays |-> 0]
    /\ UNCHANGED <<pipelineVars, hidden, row, retryCount, answered>>

ReplayStep(r) ==
    \/ ListBatch(r) \/ CheckEvent(r) \/ ReadLast(r) \/ CreateRow(r) \/ GetEvent(r)
    \/ RequestThrows(r) \/ GetObject(r) \/ Post(r) \/ PersistOutcome(r) \/ PersistThrows(r)

ReplayNext ==
    \/ Next /\ UNCHANGED replayVars
    \/ \E r \in Replays : ReplayStep(r)
    \/ \E e \in Events : SoftDelete(e)
    \/ ApiCrash

ReplaySpec == ReplayInit /\ [][ReplayNext]_<<vars, replayVars>>

-----------------------------------------------------------------------------
(* Safety.                                                                  *)

\* Wherever a worker's run or a replay of the event stops, and whichever wrote
\* last, a terminal status of the event row is the outcome of a delivery row, a job
\* that BullMQ gave up, or the FAILED of a refused request: the two programs never
\* leave a status without evidence.
StatusHasDelivery ==
    \A e \in Events :
        /\ event[e] = "DELIVERED" =>
              \/ \E j \in JobsOf(e) : HasSuccess(j)
              \/ \E r \in Replays : ReplayedEvent[r] = e /\ row[r] = "SUCCESS"
        /\ event[e] = "FAILED" =>
              \/ \E j \in JobsOf(e) : HasFailure(j)
              \/ \E r \in Replays : ReplayedEvent[r] = e /\ row[r] = "FAILED"
              \/ e \in Refused
        /\ event[e] = "DEAD_LETTER" =>
              \E j \in JobsOf(e) : job[j] = "failed" /\ attemptsMade[j] = MaxAttempts

\* A replay that has a row finds the payload the worker stored, which stores it before
\* the event row that the replay's queries see.  The queries see the row of a refused
\* request, too: its replays find nothing, and however many are asked for, and
\* however their transactions fail, none succeeds and the row stays FAILED.
ReplayFindsPayload ==
    \A r \in Replays : row[r] # "NONE" =>
        LET e == ReplayedEvent[r] IN
        IF e \in Refused THEN row[r] # "SUCCESS" /\ event[e] = "FAILED" ELSE stored[e]

\* Concurrent replays may take the same retryCount, but none is skipped: a
\* replay numbered n came after one numbered n - 1 of the same event.
NumbersHaveNoGaps ==
    \A r \in Replays : retryCount[r] > 1 =>
        \E s \in Replays : /\ ReplayedEvent[s] = ReplayedEvent[r]
                           /\ retryCount[s] + 1 = retryCount[r]

\* A replay says SUCCESS only if its own POST was answered with a 2xx, however
\* often its transaction failed or was repeated in the two catches.
SuccessWasAnswered ==
    \A r \in Replays : row[r] = "SUCCESS" => answered[r]

\* A replay whose request was answered has its outcome, unless the process died,
\* the transaction failed in the last catch, or the event was deleted meanwhile.
EndedHasOutcome ==
    \A r \in Replays : (replay[r] = "ended" /\ row[r] = "PENDING") => hidden[ReplayedEvent[r]]

=============================================================================
