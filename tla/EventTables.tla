----------------------------- MODULE EventTables -----------------------------
(***************************************************************************)
(* The pages of an endpoint that list its events and deliveries: the live  *)
(* feed of the overview, the events table with its filters, selection,     *)
(* batch requests and detail sheet, and the deliveries table with its      *)
(* retry buttons, all over one query cache beside the API.                 *)
(*                                                                         *)
(* One tab, one endpoint.  Events and deliveries are only told apart by    *)
(* who they are: an events list has rows <<e, 0>>, a list of deliveries    *)
(* rows <<e, n>>.                                                          *)
(***************************************************************************)
EXTENDS Integers, FiniteSets

CONSTANTS
    LastEvent,   (* bound: events 1..LastEvent come, in this order         *)
    DeliveryIds, (* bound: of the deliveries of an event                   *)
    Texts,       (* what the user may type as a filter                     *)
    NoText,
    Contains,    (* the events a filter matches                            *)
    Limit,       (* rows of a page of the events table: 20                 *)
    FeedLimit,   (* rows of the feed: 8                                    *)
    MaxBatch,    (* events of a batch request: 100                         *)
    MaxMoves     (* bound: clicks, ticks, failures, events and expiries    *)

Events == 1..LastEvent
PageNumbers == 1..(LastEvent + 1)

ASSUME TablesAssumption ==
    /\ LastEvent \in Nat \ {0} /\ DeliveryIds \subseteq Nat /\ 0 \notin DeliveryIds
    /\ NoText \in Texts
    /\ Contains \in [Texts -> SUBSET Events] /\ Contains[NoText] = Events
    /\ {Limit, FeedLimit, MaxBatch} \subseteq Nat \ {0} /\ MaxMoves \in Nat

List(t, p) == [kind |-> "list", text |-> t, page |-> p, event |-> 0]
Feed == [kind |-> "feed", text |-> NoText, page |-> 1, event |-> 0]
Deliveries == [kind |-> "deliveries", text |-> NoText, page |-> 1, event |-> 0]
Detail(e) == [kind |-> "detail", text |-> NoText, page |-> 1, event |-> e]

lists == {List(t, p) : t \in Texts, p \in PageNumbers} \cup {Feed}
QueryKeys == lists \cup {Deliveries} \cup {Detail(e) : e \in Events}
Rows == Events \X ({0} \cup DeliveryIds)

VARIABLES
    arrived, deleted,   (* the events that came; deletedAt                 *)
    deliveries,
    cache, fetch,       (* the query cache                                 *)
    where,              (* the page: overview, events or deliveries        *)
    search,             (* the typed filter, and the debounced one         *)
    page, resetDue,     (* its page; has the reset effect to run           *)
    prev,               (* the list shown while the next one loads         *)
    selected, confirm,  (* the checked events; is the dialog open          *)
    sheet,              (* the event of the detail sheet                   *)
    request,            (* the mutations                                   *)
    gone, told, announced, (* history: deletions and retries answered, and *)
                        (* retries the deliveries table reported           *)
    moves

INSTANCE QueryCache

server == <<arrived, deleted, deliveries>>
queries == <<cache, fetch>>
filters == <<search, page, resetDue, prev>>
choice == <<selected, confirm>>
history == <<gone, told, announced>>
view == <<where, filters, choice, sheet>>
vars == <<server, queries, view, request, history, moves>>

Mutations == {"replay", "delete", "retry"}
Idle == [at |-> "idle", ids |-> {}, from |-> "none", row |-> <<1, 0>>, made |-> {}, here |-> FALSE]

-----------------------------------------------------------------------------
(* What the API lists: newest first, a page at a time.  Count and rows are *)
(* read in one transaction and taken as one read.                          *)

Live == {e \in 1..arrived : e \notin deleted}
Matching(t) == Live \cap Contains[t]

PageOf(found, p, limit) ==
    {e \in found : Cardinality({x \in found : x > e}) \div limit = p - 1}

TotalPages(found, limit) ==
    IF found = {} THEN 1 ELSE (Cardinality(found) + limit - 1) \div limit

DeliveriesOf(e) == {r \in deliveries : r[1] = e}
EndpointDeliveries == {r \in deliveries : r[1] \in Live}

View(k) ==
    CASE k.kind = "list" -> {<<e, 0>> : e \in PageOf(Matching(k.text), k.page, Limit)}
      [] k.kind = "feed" -> {<<e, 0>> : e \in PageOf(Live, 1, FeedLimit)}
      [] k.kind = "detail" -> DeliveriesOf(k.event)
      [] k.kind = "deliveries" -> EndpointDeliveries

Pages(k) == IF k.kind = "list" THEN TotalPages(Matching(k.text), Limit) ELSE 1

\* The rows on screen.
Key == CASE where = "overview" -> Feed
         [] where = "events" -> List(search.debounced, page)
         [] where = "deliveries" -> Deliveries

Active == {Key} \cup {Detail(e) : e \in sheet}

Pending(k) == cache[k].has = "nothing" \/ (cache[k].has = "error" /\ InFlight(k))

\* keepPreviousData: the last list that was shown, until this one is there.
Shown == IF Pending(Key) /\ prev # {} THEN cache[CHOOSE k \in prev : TRUE] ELSE cache[Key]
ShownEvents == {r[1] : r \in Shown.rows}

-----------------------------------------------------------------------------
Fresh(w) ==
    CASE w = "overview" -> Feed [] w = "events" -> List(NoText, 1) [] OTHER -> Deliveries

Init ==
    /\ arrived \in Events
    /\ deleted = {}
    /\ deliveries = {r \in (1..arrived) \X DeliveryIds : \A m \in DeliveryIds : m >= r[2]}
    /\ where \in {"overview", "events", "deliveries"}
    /\ CacheInit({Fresh(where)})
    /\ search = [typed |-> NoText, debounced |-> NoText]
    /\ page = 1 /\ resetDue = FALSE /\ prev = {}
    /\ selected = {} /\ confirm = FALSE /\ sheet = {}
    /\ request = [m \in Mutations |-> Idle]
    /\ gone = {} /\ told = {} /\ announced = {}
    /\ moves = 0

Move == moves < MaxMoves /\ moves' = moves + 1

\* The user is slower than effects, and a modal keeps the page from clicks.
Click == Move /\ ~resetDue /\ ~confirm /\ sheet = {}

\* Another page of the app: the table's state is lost, the cache is not.
GoTo(w) ==
    /\ Move /\ ~resetDue
    /\ w # where /\ where' = w
    /\ search' = [typed |-> NoText, debounced |-> NoText]
    /\ page' = 1 /\ resetDue' = FALSE /\ prev' = {}
    /\ selected' = {} /\ confirm' = FALSE /\ sheet' = {}
    /\ request' = [m \in Mutations |-> [request[m] EXCEPT !.here = FALSE]]
    /\ fetch' = Subscribed(Fresh(w))
    /\ UNCHANGED <<server, cache, history>>

-----------------------------------------------------------------------------
(* Filters and pages of the events table.                                  *)

\* The table now asks for page p of the events that match t.
Query(t, p) ==
    /\ page' = p
    /\ prev' = IF cache[Key].has = "data" THEN {Key} ELSE prev
    /\ fetch' = IF List(t, p) = Key THEN fetch ELSE Subscribed(List(t, p))
    /\ UNCHANGED <<server, cache, where, choice, sheet, request, history>>

Type(t) ==
    /\ Click /\ where = "events"
    /\ t # search.typed
    /\ search' = [search EXCEPT !.typed = t]
    /\ UNCHANGED <<server, queries, where, page, resetDue, prev, choice, sheet, request, history>>

clearFilters ==
    /\ Click /\ where = "events"
    /\ search.typed # NoText
    /\ search' = [search EXCEPT !.typed = NoText]
    /\ Query(search.debounced, 1)
    /\ UNCHANGED resetDue

\* Only a text is waited for: a filter that is cleared stays.
DebouncedText ==
    /\ where = "events"
    /\ search.typed \notin {NoText, search.debounced}
    /\ search' = [search EXCEPT !.debounced = search.typed]
    /\ resetDue' = TRUE
    /\ Query(search.typed, page)
    /\ UNCHANGED moves

\* useDebounced; the new filter is first asked for with the old page.
Debounced ==
    /\ where = "events"
    /\ search.typed # search.debounced
    /\ search' = [search EXCEPT !.debounced = search.typed]
    /\ resetDue' = TRUE
    /\ Query(search.typed, page)
    /\ UNCHANGED moves

ResetPage ==
    /\ resetDue
    /\ resetDue' = FALSE
    /\ Query(search.debounced, 1)
    /\ UNCHANGED <<search, moves>>

\* The buttons go by the pages of the list that is shown.
NextPage ==
    /\ Click /\ where = "events"
    /\ page < Shown.pages
    /\ Query(search.debounced, page + 1)
    /\ UNCHANGED <<search, resetDue>>

PreviousPage ==
    /\ Click /\ where = "events"
    /\ Shown.pages > 1 /\ page > 1
    /\ Query(search.debounced, page - 1)
    /\ UNCHANGED <<search, resetDue>>

\* setInterval of the feed.
Tick ==
    /\ Move /\ where = "overview"
    /\ Invalidate(lists, Active, {})
    /\ UNCHANGED <<server, view, request, history>>

-----------------------------------------------------------------------------
(* Selection and batch requests.                                           *)

Choose(chosen) ==
    /\ Click /\ where = "events"
    /\ ShownEvents # {}
    /\ selected' = chosen
    /\ UNCHANGED <<server, queries, where, filters, confirm, sheet, request, history>>

toggleSelectEvent(e) ==
    e \in ShownEvents /\ Choose(IF e \in selected THEN selected \ {e} ELSE selected \cup {e})

\* It compares sizes: a full selection of another page is cleared.
toggleSelectAll ==
    Choose(IF Cardinality(selected) = Cardinality(ShownEvents) THEN {} ELSE ShownEvents)

Send(m, ids, from, row) ==
    /\ request[m].at = "idle"
    /\ request' = [request EXCEPT ![m] = [at |-> "sent", ids |-> ids, from |-> from,
                                          row |-> row, made |-> {}, here |-> TRUE]]
    /\ UNCHANGED <<server, queries, where, filters, selected, history>>

handleBatchReplay ==
    /\ Click /\ where = "events" /\ selected # {}
    /\ Send("replay", selected, "table", <<1, 0>>)
    /\ UNCHANGED <<confirm, sheet>>

OpenConfirm ==
    /\ Click /\ where = "events" /\ selected # {}
    /\ request["delete"].at = "idle"
    /\ confirm' = TRUE
    /\ UNCHANGED <<server, queries, where, filters, selected, sheet, request, history>>

Cancel ==
    /\ Move /\ confirm /\ confirm' = FALSE
    /\ UNCHANGED <<server, queries, where, filters, selected, sheet, request, history>>

\* What is selected now: a replay may have cleared it behind the dialog.
handleBatchDelete ==
    /\ Move /\ confirm /\ confirm' = FALSE
    /\ Send("delete", selected, "table", <<1, 0>>)
    /\ UNCHANGED sheet

-----------------------------------------------------------------------------
(* The detail sheet of an event, and the retries.                          *)

OpenSheet(e) ==
    /\ Click /\ where = "events" /\ e \in ShownEvents
    /\ sheet' = {e}
    /\ fetch' = Subscribed(Detail(e))
    /\ UNCHANGED <<server, cache, where, filters, choice, request, history>>

CloseSheet ==
    /\ Move /\ sheet # {} /\ sheet' = {}
    /\ UNCHANGED <<server, queries, where, filters, choice, request, history>>

RetryFromEvent(e) ==
    /\ Move /\ ~resetDue /\ e \in sheet
    /\ cache[Detail(e)].has = "data"
    /\ Send("retry", {e}, "event", <<e, 0>>)
    /\ UNCHANGED <<confirm, sheet>>

\* The button of a failed delivery's row, or of its sheet.
RetryFromDelivery(r, from) ==
    /\ Click /\ where = "deliveries" /\ r \in Shown.rows
    /\ Send("retry", {r[1]}, from, r)
    /\ UNCHANGED <<confirm, sheet>>

-----------------------------------------------------------------------------
(* The API.                                                                *)

EventArrives ==
    /\ Move /\ arrived < LastEvent
    /\ arrived' = arrived + 1
    /\ UNCHANGED <<deleted, deliveries, queries, view, request, history>>

\* Expiry, or another tab.
EventDeleted(e) ==
    /\ Move /\ e \in Live
    /\ deleted' = deleted \cup {e}
    /\ UNCHANGED <<arrived, deliveries, queries, view, request, history>>

\* The new row has the next number of its event.
IsNext(e, n) ==
    <<e, n>> \notin deliveries /\ \A m \in DeliveryIds : m < n => <<e, m>> \in deliveries

Creates(m, new) ==
    /\ deliveries' = deliveries \cup new
    /\ request' = [request EXCEPT ![m] = [@ EXCEPT !.at = "done", !.made = new]]
    /\ UNCHANGED <<arrived, deleted>>

TooFewOrMany(ids) == ids = {} \/ Cardinality(ids) > MaxBatch

Serve(m) ==
    LET ids == request[m].ids \cap Live IN
    /\ request[m].at = "sent"
    /\ m \in {"replay", "delete"} => ~TooFewOrMany(request[m].ids)
    /\ \/ /\ m = "delete"
          /\ deleted' = deleted \cup ids
          /\ request' = [request EXCEPT ![m].at = "done"]
          /\ UNCHANGED <<arrived, deliveries>>
       \/ /\ m = "replay" \/ (m = "retry" /\ ids # {})
          /\ \E n \in [ids -> DeliveryIds] :
                 /\ \A e \in ids : IsNext(e, n[e])
                 /\ Creates(m, {<<e, n[e]>> : e \in ids})
    /\ UNCHANGED <<queries, view, history, moves>>

\* 400 or 404.
Refuse(m) ==
    /\ request[m].at = "sent"
    /\ IF m = "retry" THEN request[m].ids \cap Live = {} ELSE TooFewOrMany(request[m].ids)
    /\ request' = [request EXCEPT ![m] = Idle]
    /\ UNCHANGED <<server, queries, view, history, moves>>

\* The call fails, done or not.
RequestFails(m) ==
    /\ Move /\ request[m].at # "idle"
    /\ request' = [request EXCEPT ![m] = Idle]
    /\ UNCHANGED <<server, queries, view, history>>

-----------------------------------------------------------------------------
(* The answers: what the hook does, then what the component does.          *)

ClearSelection(m) == selected' = IF request[m].here THEN {} ELSE selected

ReplayAnswered ==
    /\ request["replay"].at = "done"
    /\ Invalidate(lists, Active, {})
    /\ ClearSelection("replay")
    /\ request' = [request EXCEPT !["replay"] = Idle]
    /\ UNCHANGED <<server, where, filters, confirm, sheet, history, moves>>

\* The list of the table's own key, but no other page or filter.
DeleteAnsweredHere ==
    /\ request["delete"].at = "done"
    /\ Invalidate(lists \cap {Key}, Active, {})
    /\ gone' = gone \cup (request["delete"].ids \cap deleted)
    /\ ClearSelection("delete")
    /\ confirm' = IF request["delete"].here THEN FALSE ELSE confirm
    /\ request' = [request EXCEPT !["delete"] = Idle]
    /\ UNCHANGED <<server, where, filters, sheet, told, announced, moves>>

DeleteAnswered ==
    /\ request["delete"].at = "done"
    /\ Invalidate(lists, Active, {})
    /\ gone' = gone \cup (request["delete"].ids \cap deleted)
    /\ ClearSelection("delete")
    /\ confirm' = IF request["delete"].here THEN FALSE ELSE confirm
    /\ request' = [request EXCEPT !["delete"] = Idle]
    /\ UNCHANGED <<server, where, filters, sheet, told, announced, moves>>

\* mutate's own callback is not called when its row is no longer mounted;
\* the sheet's handler goes on in any case.
RetryAnswered ==
    LET r == request["retry"]
        details == {Detail(e) : e \in r.ids}
        rowReports == r.from = "row" /\ r.here
        sheetReports == r.from = "sheet"
    IN
    /\ r.at = "done"
    /\ Invalidate(details \cup (IF rowReports THEN {Deliveries} ELSE {}), Active,
                  IF sheetReports THEN {Deliveries} ELSE {})
    /\ told' = told \cup r.made
    /\ announced' = announced \cup (IF rowReports \/ sheetReports THEN r.made ELSE {})
    /\ request' = [request EXCEPT !["retry"] = Idle]
    /\ UNCHANGED <<server, view, gone, moves>>

-----------------------------------------------------------------------------
(* The queries.                                                            *)

Found(k) == k.kind = "detail" => k.event \in Live

ServerReads(k) ==
    /\ Found(k)
    /\ Read(k, View(k), Pages(k))
    /\ UNCHANGED <<server, view, request, history, moves>>

\* A row that is no longer listed is unmounted.
ListArrives(k) ==
    /\ Arrive(k)
    /\ request' = [request EXCEPT !["retry"].here =
           @ /\ (k = Deliveries /\ request["retry"].from = "row"
                 => request["retry"].row \in fetch[k].rows)]
    /\ UNCHANGED <<server, view, history, moves>>

NotFound(k) ==
    /\ ~Found(k)
    /\ fetch[k].at = "sent"
    /\ Fails(k)
    /\ UNCHANGED <<server, view, request, history, moves>>

FetchFails(k) ==
    /\ Move /\ Fails(k)
    /\ UNCHANGED <<server, view, request, history>>

TimePasses(k) ==
    /\ Move /\ Age(k)
    /\ UNCHANGED <<server, view, request, history>>

-----------------------------------------------------------------------------
User ==
    \/ \E w \in {"overview", "events", "deliveries"} : GoTo(w)
    \/ \E t \in Texts : Type(t)
    \/ clearFilters \/ NextPage \/ PreviousPage
    \/ \E e \in Events : toggleSelectEvent(e) \/ OpenSheet(e) \/ RetryFromEvent(e)
    \/ toggleSelectAll \/ handleBatchReplay \/ OpenConfirm \/ Cancel \/ handleBatchDelete
    \/ CloseSheet
    \/ \E r \in Rows, from \in {"row", "sheet"} : RetryFromDelivery(r, from)

Api ==
    \/ EventArrives \/ \E e \in Events : EventDeleted(e)
    \/ \E m \in Mutations : Serve(m) \/ Refuse(m) \/ RequestFails(m)

Answers == ReplayAnswered \/ DeleteAnswered \/ RetryAnswered

Queries == \E k \in QueryKeys :
    ServerReads(k) \/ ListArrives(k) \/ NotFound(k) \/ FetchFails(k) \/ TimePasses(k)

Next == User \/ Debounced \/ ResetPage \/ Tick \/ Api \/ Answers \/ Queries

Spec == Init /\ [][Next]_vars

\* Timers and effects run, and a call is answered in the end.
FairSpec ==
    /\ Spec
    /\ WF_vars(Debounced) /\ WF_vars(ResetPage) /\ WF_vars(Answers)
    /\ \A k \in QueryKeys : WF_vars(ServerReads(k) \/ ListArrives(k) \/ NotFound(k))
    /\ \A m \in Mutations : WF_vars(Serve(m) \/ Refuse(m))

-----------------------------------------------------------------------------
\* The types of the variables.
TypeOK ==
    /\ arrived \in 0..LastEvent /\ deleted \subseteq 1..arrived
    /\ deliveries \subseteq Rows
    /\ CacheTypeOK(PageNumbers)
    /\ where \in {"overview", "events", "deliveries"}
    /\ search \in [typed : Texts, debounced : Texts]
    /\ page \in PageNumbers /\ resetDue \in BOOLEAN
    /\ prev = {} \/ \E k \in lists : prev = {k}
    /\ selected \subseteq Events /\ confirm \in BOOLEAN /\ sheet \subseteq Events
    /\ request \in [Mutations -> [at : {"idle", "sent", "done"}, ids : SUBSET Events,
           from : {"none", "table", "event", "row", "sheet"}, row : Rows,
           made : SUBSET Rows, here : BOOLEAN]]
    /\ gone \subseteq Events /\ told \subseteq deliveries /\ announced \subseteq told
    /\ moves \in 0..MaxMoves

Reflects(k, rows) ==
    /\ k \in lists => \A r \in rows : r[1] \notin gone
    /\ k.kind = "detail" => {r \in told : r[1] = k.event} \subseteq rows
    /\ k.kind = "deliveries" => {r \in announced : r[1] \notin deleted} \subseteq rows

\* Taken for fresh, and no fetch under way will replace it.
IsFresh(k) == cache[k].has = "data" /\ ~cache[k].stale /\ ~InFlight(k) /\ ~cache[k].overtaken

(* What the cache takes for fresh shows what the tab was told: no list has *)
(* an event whose deletion was answered, the detail sheet has every retry  *)
(* that was answered, and the deliveries table every retry it reported,    *)
(* unless an invalidation passed the fetch on its way and left it running. *)
(* use-webhook-events.ts invalidates by prefixes of keys, and a response   *)
(* read before the change arrives after it.                                *)
FreshShowsWhatWasTold == \A k \in QueryKeys : IsFresh(k) => Reflects(k, cache[k].rows)

\* Nothing is on its way to the screen.
Settled ==
    /\ ~resetDue
    /\ where = "events" => search.typed = search.debounced
    /\ \A k \in Active : ~InFlight(k) /\ cache[k].has # "nothing"
    /\ \A m \in Mutations : request[m].at = "idle"

(* However the user types, pages, selects and leaves, once they stop the   *)
(* table asks for the filter that is in the box and its answer, or failure,*)
(* is what is shown: the debounce timer, the effect that goes back to page *)
(* 1 and the refetches of the mutations come to rest.                      *)
TablesSettle == []<>Settled
=============================================================================
