-------------------------- MODULE EventTablesProofs --------------------------
(***************************************************************************)
(* Proofs about EventTables: whatever the cache takes for fresh shows what *)
(* the tab was told, for any number of events, filters, pages and clicks.  *)
(***************************************************************************)
EXTENDS EventTables, TLAPS, FiniteSetTheorems

USE DEF server, queries, filters, choice, history, view

-----------------------------------------------------------------------------
(* The invariant.                                                           *)

CacheRows == [has : {"nothing", "error", "data"}, rows : SUBSET Rows,
              pages : PageNumbers, stale : BOOLEAN, overtaken : BOOLEAN]

FetchRows == [at : {"idle", "sent", "read"}, rows : SUBSET Rows,
              pages : PageNumbers, overtaken : BOOLEAN]

\* Only the events table has filters whose reset is due.
ResetInv == resetDue => where = "events"

\* A delivery has an event, a deletion that was answered was done, and so was
\* a retry, for the event it was asked for.
ServerInv ==
    /\ \A r \in deliveries : r[1] \in 1..arrived
    /\ gone \subseteq deleted
    /\ \A m \in Mutations :
           request[m].made \subseteq {r \in deliveries : r[1] \in request[m].ids}

\* A response on its way shows what the tab was told, as a fresh entry does.
KeyOK(k) ==
    /\ fetch[k].at = "read" /\ ~fetch[k].overtaken => Reflects(k, fetch[k].rows)
    /\ IsFresh(k) => Reflects(k, cache[k].rows)

CacheInv == \A k \in QueryKeys : KeyOK(k)

TableInv == TypeOK /\ ResetInv /\ ServerInv /\ CacheInv

-----------------------------------------------------------------------------
(* Keys and pages.                                                          *)

LEMMA Kinds ==
    ASSUME NEW k \in QueryKeys
    PROVE  \/ k \in lists /\ k.kind = "list" /\ k.text \in Texts /\ k.page \in PageNumbers
           \/ k \in lists /\ k.kind = "feed"
           \/ k \notin lists /\ k = Deliveries /\ k.kind = "deliveries"
           \/ k \notin lists /\ k = Detail(k.event) /\ k.kind = "detail" /\ k.event \in Events
<1>1. CASE \E t \in Texts, p \in PageNumbers : k = List(t, p)
  BY <1>1 DEF lists, List
<1>2. CASE k = Feed
  BY <1>2 DEF lists, Feed
<1>3. \A j \in lists : j.kind \in {"list", "feed"}
  BY DEF lists, List, Feed
<1>4. CASE k = Deliveries
  BY <1>3, <1>4 DEF Deliveries
<1>5. CASE \E e \in Events : k = Detail(e)
  BY <1>3, <1>5 DEF Detail
<1> QED  BY <1>1, <1>2, <1>4, <1>5 DEF QueryKeys, lists

LEMMA Keys ==
    /\ \A t \in Texts, p \in PageNumbers : List(t, p) \in lists
    /\ Feed \in lists /\ lists \subseteq QueryKeys
    /\ Deliveries \in QueryKeys
    /\ \A e \in Events : Detail(e) \in QueryKeys
  BY DEF lists, QueryKeys

LEMMA Members ==
    /\ 1 \in Events /\ 1 \in PageNumbers /\ <<1, 0>> \in Rows
    /\ NoText \in Texts
    /\ \A e \in Events : <<e, 0>> \in Rows
    /\ \A r \in Rows : r[1] \in Events
    /\ \A e \in Events, n \in DeliveryIds : <<e, n>> \in Rows
  BY TablesAssumption DEF Events, PageNumbers, Rows

LEMMA RoundedUp ==
    ASSUME NEW c \in Nat, NEW n \in Nat \ {0}
    PROVE  (c + n - 1) \div n \in 0..c + 1
<1> DEFINE q == (c + n - 1) \div n
<1>1. c + n - 1 \in Nat
  OBVIOUS
<1>2. q \in Int /\ q * n <= c + n - 1 /\ c + n - 1 < (q + 1) * n
  BY <1>1, SMT
<1>3. q >= 0
  BY <1>1, <1>2, SMT
<1>4. q <= c + 1
  BY <1>2, SMT
<1> QED  BY <1>2, <1>3, <1>4

LEMMA PagesTyped ==
    ASSUME TypeOK, NEW k \in QueryKeys
    PROVE  Pages(k) \in PageNumbers
<1>1. CASE k.kind = "list"
  <2> DEFINE found == Matching(k.text)
  <2>1. found \subseteq 1..LastEvent
    BY TablesAssumption DEF TypeOK, Matching, Live
  <2>2. IsFiniteSet(1..LastEvent) /\ Cardinality(1..LastEvent) = LastEvent
    <3>1. LastEvent \in Nat \ {0}
      BY TablesAssumption
    <3>2. IsFiniteSet(1..LastEvent) /\ Cardinality(1..LastEvent) = LastEvent - 1 + 1
      BY <3>1, FS_Interval
    <3> QED  BY <3>1, <3>2
  <2>3. Cardinality(found) \in Nat /\ Cardinality(found) <= LastEvent
    BY <2>1, <2>2, FS_Subset, FS_CardinalityType
  <2>4. found # {} => Cardinality(found) # 0
    BY <2>1, <2>2, FS_Subset, FS_EmptySet
  <2>5. (Cardinality(found) + Limit - 1) \div Limit \in 0..Cardinality(found) + 1
    BY <2>3, RoundedUp, TablesAssumption
  <2> QED  BY <1>1, <2>3, <2>4, <2>5, RoundedUp, TablesAssumption DEF Pages, TotalPages, PageNumbers
<1>2. CASE k.kind # "list"
  BY <1>2, Members DEF Pages
<1> QED  BY <1>1, <1>2

LEMMA ViewTyped ==
    ASSUME TypeOK, NEW k \in QueryKeys
    PROVE  View(k) \subseteq Rows
<1>1. arrived \in Nat /\ Live \subseteq Events /\ deliveries \subseteq Rows
  BY TablesAssumption DEF TypeOK, Live, Events
<1>2. \A S \in SUBSET Live : \A p, n : {<<e, 0>> : e \in PageOf(S, p, n)} \subseteq Rows
  BY <1>1, Members DEF PageOf
<1>3. CASE k.kind = "list"
  BY <1>2, <1>3 DEF View, Matching
<1>4. CASE k.kind = "feed"
  BY <1>2, <1>4 DEF View
<1>5. CASE k.kind \in {"detail", "deliveries"}
  BY <1>1, <1>5 DEF View, DeliveriesOf, EndpointDeliveries
<1> QED  BY <1>3, <1>4, <1>5, Kinds

LEMMA KeyTyped ==
    ASSUME TypeOK
    PROVE  /\ Key \in QueryKeys
           /\ where # "deliveries" => Key \in lists
           /\ Shown \in CacheRows
           /\ ShownEvents \subseteq Events
<1>1. search.debounced \in Texts /\ page \in PageNumbers
  BY DEF TypeOK
<1>2. Key \in QueryKeys /\ (where # "deliveries" => Key \in lists)
  BY <1>1, Keys DEF TypeOK, Key
<1>3. \A k \in QueryKeys : cache[k] \in CacheRows
  BY DEF TypeOK, CacheTypeOK, CacheRows
<1>4. prev # {} => (CHOOSE k \in prev : TRUE) \in QueryKeys
  BY Keys DEF TypeOK
<1>5. Shown \in CacheRows
  BY <1>2, <1>3, <1>4 DEF Shown
<1>6. Shown.rows \subseteq Rows
  BY <1>5 DEF CacheRows
<1> QED  BY <1>2, <1>5, <1>6, Members DEF ShownEvents

-----------------------------------------------------------------------------
(* What a step does to the cache.                                           *)

CacheOK == CacheTypeOK(PageNumbers) /\ CacheInv

LEMMA Typed ==
    ASSUME TypeOK
    PROVE  /\ cache \in [QueryKeys -> CacheRows] /\ fetch \in [QueryKeys -> FetchRows]
           /\ Nothing \in CacheRows /\ NoFetch \in FetchRows /\ Sent \in FetchRows
  BY Members DEF TypeOK, CacheTypeOK, CacheRows, FetchRows, Nothing, NoFetch, Sent

LEMMA Untouched ==
    ASSUME TableInv, UNCHANGED <<queries, history>>, deleted \subseteq deleted'
    PROVE  CacheOK'
<1>1. CacheTypeOK(PageNumbers)'
  BY DEF TableInv, TypeOK, CacheTypeOK, queries
<1>2. CacheInv'
  BY DEF TableInv, CacheInv, KeyOK, IsFresh, InFlight, Reflects, queries
<1> QED  BY <1>1, <1>2 DEF CacheOK

LEMMA Subscribes ==
    ASSUME TableInv, NEW j, fetch' \in {fetch, Subscribed(j)}, UNCHANGED <<cache, history>>,
           deleted \subseteq deleted'
    PROVE  CacheOK'
<1>1. CASE fetch' = fetch
  BY <1>1, Untouched DEF queries
<1>2. CASE fetch' = [fetch EXCEPT ![j] = Sent]
  <2>1. CacheTypeOK(PageNumbers)'
    BY <1>2, Typed DEF TableInv, CacheTypeOK, CacheRows, FetchRows
  <2>2. \A k \in QueryKeys : fetch'[k] = fetch[k] \/ fetch'[k] = Sent
    BY <1>2, Typed DEF TableInv
  <2>3. ASSUME NEW k \in QueryKeys PROVE KeyOK(k)'
    BY <2>2 DEF TableInv, CacheInv, KeyOK, IsFresh, InFlight, Reflects, Sent
  <2> QED  BY <2>1, <2>3 DEF CacheOK, CacheInv
<1> QED  BY <1>1, <1>2 DEF Subscribed

LEMMA Invalidates ==
    ASSUME TableInv, NEW ks, NEW active, NEW refetch, Invalidate(ks, active, refetch),
           \A k \in QueryKeys \ (ks \cup refetch) :
               \A rows : Reflects(k, rows) => Reflects(k, rows)'
    PROVE  CacheOK'
<1>1. ASSUME NEW k \in QueryKeys
      PROVE  /\ Refetched(k) \in FetchRows /\ Refetched(k).at # "idle"
             /\ Refetched(k).at = "read" => Refetched(k).overtaken
  BY Typed DEF TableInv, Refetched, InFlight, Sent, FetchRows
<1>2. ASSUME NEW k \in QueryKeys, k \notin ks \cup refetch
      PROVE  KeyOK(k)'
  <2>1. cache'[k] = cache[k] /\ fetch'[k] = fetch[k]
    BY <1>2, Typed DEF TableInv, Invalidate, CacheRows
  <2> QED  BY <1>2, <2>1 DEF TableInv, CacheInv, KeyOK, IsFresh, InFlight
<1>3. ASSUME NEW k \in QueryKeys, k \in ks \cup refetch
      PROVE  KeyOK(k)'
  <2>1. fetch'[k].at = "read" => fetch'[k].overtaken
    BY <1>1, <1>3, Typed DEF TableInv, Invalidate, FetchRows, InFlight
  <2>2. k \in ks => cache'[k].stale
    BY Typed DEF TableInv, Invalidate, CacheRows
  <2>3. k \in refetch => fetch'[k].at # "idle"
    BY <1>1 DEF Invalidate
  <2> QED  BY <1>3, <2>1, <2>2, <2>3 DEF KeyOK, IsFresh, InFlight
<1>4. CacheTypeOK(PageNumbers)'
  <2>1. cache' \in [QueryKeys -> CacheRows]
    BY Typed DEF TableInv, Invalidate, CacheRows
  <2>2. fetch' \in [QueryKeys -> FetchRows]
    BY <1>1, Typed DEF TableInv, Invalidate, FetchRows
  <2> QED  BY <2>1, <2>2 DEF CacheTypeOK, CacheRows, FetchRows
<1> QED  BY <1>2, <1>3, <1>4 DEF CacheOK, CacheInv

LEMMA ReadKeeps ==
    ASSUME TableInv, NEW j \in QueryKeys, Read(j, View(j), Pages(j)),
           UNCHANGED <<deleted, history>>
    PROVE  CacheOK'
<1> DEFINE answer == [at |-> "read", rows |-> View(j), pages |-> Pages(j),
                      overtaken |-> fetch[j].overtaken]
<1>0. fetch' = [fetch EXCEPT ![j] = answer] /\ cache' = cache
  BY Typed DEF TableInv, Read
<1>1. \A k \in QueryKeys : IF k = j THEN fetch'[k] = answer ELSE fetch'[k] = fetch[k]
  BY <1>0, Typed DEF TableInv
<1>2. CacheTypeOK(PageNumbers)'
  <2>1. answer \in FetchRows
    BY Typed, ViewTyped, PagesTyped DEF TableInv, FetchRows
  <2> HIDE DEF answer
  <2> QED  BY <1>0, <2>1, Typed DEF TableInv, CacheTypeOK, FetchRows, CacheRows
<1>3. Reflects(j, View(j))
  <2>1. \A S \in SUBSET Live : \A p, n : \A r \in {<<e, 0>> : e \in PageOf(S, p, n)} : r[1] \notin gone
    <3>1. \A e \in Live : e \notin gone
      BY DEF TableInv, ServerInv, Live
    <3>2. \A S, p, n : PageOf(S, p, n) \subseteq S
      BY DEF PageOf
    <3> HIDE DEF Live, PageOf
    <3> QED  BY <3>1, <3>2
  <2>2. j \in lists => \A r \in View(j) : r[1] \notin gone
    BY <2>1, Kinds DEF View, Matching
  <2>3. j.kind = "detail" => {r \in told : r[1] = j.event} \subseteq View(j)
    BY DEF TableInv, TypeOK, View, DeliveriesOf
  <2>4. j.kind = "deliveries" => {r \in announced : r[1] \notin deleted} \subseteq View(j)
    BY DEF TableInv, TypeOK, ServerInv, View, EndpointDeliveries, Live
  <2> QED  BY <2>2, <2>3, <2>4 DEF Reflects
<1>4. ASSUME NEW k \in QueryKeys PROVE KeyOK(k)'
  <2>1. CASE k = j
    <3>1. Reflects(k, fetch[k].rows)' /\ fetch'[k].at # "idle"
      BY <1>1, <1>3, <2>1 DEF Reflects
    <3> QED  BY <3>1 DEF KeyOK, IsFresh, InFlight
  <2>2. CASE k # j
    BY <1>0, <1>1, <2>2 DEF TableInv, CacheInv, KeyOK, IsFresh, InFlight, Reflects
  <2> QED  BY <2>1, <2>2
<1> QED  BY <1>2, <1>4 DEF CacheOK, CacheInv

LEMMA ArriveKeeps ==
    ASSUME TableInv, NEW j \in QueryKeys, Arrive(j), UNCHANGED <<deleted, history>>
    PROVE  CacheOK'
<1>1. \A k \in QueryKeys : \/ fetch'[k] = fetch[k] /\ cache'[k] = cache[k]
                          \/ /\ fetch'[k].at = "idle" /\ cache'[k].rows = fetch[k].rows
                             /\ cache'[k].overtaken = fetch[k].overtaken /\ fetch[k].at = "read"
  BY Typed DEF TableInv, Arrive, NoFetch
<1>2. CacheTypeOK(PageNumbers)'
  BY Typed DEF TableInv, Arrive, CacheTypeOK, FetchRows, CacheRows
<1>3. ASSUME NEW k \in QueryKeys PROVE KeyOK(k)'
  BY <1>1 DEF TableInv, CacheInv, KeyOK, IsFresh, InFlight, Reflects
<1> QED  BY <1>2, <1>3 DEF CacheOK, CacheInv

LEMMA AgeKeeps ==
    ASSUME TableInv, NEW j \in QueryKeys, Fails(j) \/ Age(j), UNCHANGED <<deleted, history>>
    PROVE  CacheOK'
<1>0. \E c \in CacheRows : /\ c.stale /\ cache' = [cache EXCEPT ![j] = c]
                          /\ fetch' \in {fetch, [fetch EXCEPT ![j] = NoFetch]}
  <2>1. cache[j] \in CacheRows /\ cache \in [QueryKeys -> CacheRows]
    BY Typed DEF TableInv
  <2>2. CASE Fails(j)
    <3> DEFINE h == IF cache[j].has = "data" THEN "data" ELSE "error"
               c == [cache[j] EXCEPT !.stale = TRUE, !.has = h]
    <3>1. c \in CacheRows /\ c.stale
      BY <2>1 DEF CacheRows
    <3>2. cache' = [cache EXCEPT ![j] = c] /\ fetch' = [fetch EXCEPT ![j] = NoFetch]
      BY <2>2 DEF Fails
    <3> HIDE DEF c
    <3> QED  BY <3>1, <3>2
  <2>3. CASE Age(j)
    <3> DEFINE c == [cache[j] EXCEPT !.stale = TRUE]
    <3>1. c \in CacheRows /\ c.stale
      BY <2>1 DEF CacheRows
    <3>2. cache' = [cache EXCEPT ![j] = c] /\ fetch' = fetch
      BY <2>1, <2>3 DEF Age, CacheRows
    <3> HIDE DEF c
    <3> QED  BY <3>1, <3>2
  <2> QED  BY <2>2, <2>3
<1>1. \A k \in QueryKeys : \/ fetch'[k] = fetch[k] /\ cache'[k] = cache[k]
                           \/ cache'[k].stale /\ fetch'[k] \in {fetch[k], NoFetch}
  BY <1>0, Typed DEF TableInv
<1>2. CacheTypeOK(PageNumbers)'
  <2>1. fetch' \in [QueryKeys -> FetchRows] /\ cache' \in [QueryKeys -> CacheRows]
    BY <1>0, Typed DEF TableInv
  <2> QED  BY <2>1 DEF CacheTypeOK, FetchRows, CacheRows
<1>3. ASSUME NEW k \in QueryKeys PROVE KeyOK(k)'
  BY <1>1 DEF TableInv, CacheInv, KeyOK, IsFresh, InFlight, Reflects, NoFetch
<1> QED  BY <1>2, <1>3 DEF CacheOK, CacheInv

-----------------------------------------------------------------------------
(* What a step does besides.                                                *)

RequestRows == [at : {"idle", "sent", "done"}, ids : SUBSET Events,
                from : {"none", "table", "event", "row", "sheet"}, row : Rows,
                made : SUBSET Rows, here : BOOLEAN]

ServerTypes ==
    /\ arrived \in 0..LastEvent /\ deleted \subseteq 1..arrived
    /\ deliveries \subseteq Rows
    /\ gone \subseteq Events /\ told \subseteq deliveries /\ announced \subseteq told

ViewTypes ==
    /\ where \in {"overview", "events", "deliveries"}
    /\ search \in [typed : Texts, debounced : Texts]
    /\ page \in PageNumbers /\ resetDue \in BOOLEAN
    /\ prev = {} \/ \E k \in lists : prev = {k}
    /\ selected \subseteq Events /\ confirm \in BOOLEAN /\ sheet \subseteq Events

LEMMA Parts ==
    TypeOK <=> /\ ServerTypes /\ CacheTypeOK(PageNumbers) /\ ViewTypes
               /\ request \in [Mutations -> RequestRows] /\ moves \in 0..MaxMoves
  BY DEF TypeOK, ServerTypes, ViewTypes, RequestRows

LEMMA PartsNext ==
    ASSUME ServerTypes', ViewTypes', CacheOK', request' \in [Mutations -> RequestRows],
           moves' \in 0..MaxMoves, ResetInv', ServerInv'
    PROVE  TableInv'
  BY DEF TypeOK, ServerTypes, ViewTypes, RequestRows, TableInv, CacheOK

LEMMA MovesTyped ==
    ASSUME TypeOK, Move \/ UNCHANGED moves
    PROVE  moves' \in 0..MaxMoves
  BY TablesAssumption DEF TypeOK, Move

\* A step that leaves the server alone and has no call answered.
LEMMA Rest ==
    ASSUME TableInv, UNCHANGED <<server, history>>, Move \/ UNCHANGED moves,
           ViewTypes', ResetInv', CacheOK', request' \in [Mutations -> RequestRows],
           \A m \in Mutations : \/ request'[m].made = {}
                               \/ /\ request'[m].made = request[m].made
                                  /\ request'[m].ids = request[m].ids
    PROVE  TableInv'
<1>1. ServerTypes'
  BY Parts DEF TableInv, ServerTypes
<1>2. ServerInv'
  BY DEF TableInv, ServerInv
<1> QED  BY <1>1, <1>2, MovesTyped, PartsNext DEF TableInv

LEMMA RestSame ==
    ASSUME TableInv, UNCHANGED <<server, request, history>>, Move \/ UNCHANGED moves,
           ViewTypes', ResetInv', CacheOK'
    PROVE  TableInv'
  BY Rest, Parts DEF TableInv

LEMMA QueryKeeps ==
    ASSUME TableInv, NEW t \in Texts, NEW p \in PageNumbers, Query(t, p), where # "deliveries"
    PROVE  /\ page' = p /\ CacheOK'
           /\ prev' = {} \/ \E k \in lists : prev' = {k}
<1>1. CacheOK'
  BY Subscribes DEF Query
<1>2. prev' = {} \/ \E k \in lists : prev' = {k}
  BY KeyTyped DEF TableInv, TypeOK, Query
<1> QED  BY <1>1, <1>2 DEF Query

LEMMA SendKeeps ==
    ASSUME TableInv, NEW m \in Mutations, NEW ids \in SUBSET Events,
           NEW from \in {"table", "event", "row", "sheet"}, NEW r \in Rows, Send(m, ids, from, r),
           Move, confirm' \in BOOLEAN, sheet' = sheet
    PROVE  TableInv'
<1>1. request \in [Mutations -> RequestRows] /\ ViewTypes
  BY Parts DEF TableInv
<1>2. ViewTypes' /\ ResetInv'
  BY <1>1 DEF TableInv, Send, ViewTypes, ResetInv
<1>3. CacheOK'
  BY Untouched DEF Send
<1>4. request' \in [Mutations -> RequestRows]
  BY <1>1 DEF Send, RequestRows
<1>5. \A i \in Mutations : request'[i].made = {} \/ request'[i] = request[i]
  BY <1>1 DEF Send
<1> QED  BY <1>2, <1>3, <1>4, <1>5, Rest DEF Send

-----------------------------------------------------------------------------
(* Steps of the page.                                                       *)

LEMMA FilterStep ==
    ASSUME TableInv,
           \/ \E t \in Texts : Type(t)
           \/ clearFilters \/ Debounced \/ ResetPage \/ NextPage \/ PreviousPage
    PROVE  TableInv'
<1>0. ViewTypes /\ NoText \in Texts /\ 1 \in PageNumbers /\ TypeOK
  BY Parts, Members DEF TableInv
<1>1. ASSUME NEW t \in Texts, Type(t) PROVE TableInv'
  <2>1. ViewTypes' /\ ResetInv'
    BY <1>0, <1>1 DEF TableInv, Type, ViewTypes, ResetInv
  <2>2. CacheOK'
    BY <1>1, Untouched DEF Type
  <2> QED  BY <1>1, <2>1, <2>2, RestSame DEF Type, Click
<1>2. ASSUME NEW t \in Texts, NEW p \in PageNumbers, Query(t, p), where = "events",
             Move \/ UNCHANGED moves, resetDue' \in BOOLEAN,
             search' \in [typed : Texts, debounced : Texts]
      PROVE  TableInv'
  <2>1. /\ CacheOK' /\ page' \in PageNumbers
        /\ prev' = {} \/ \E k \in lists : prev' = {k}
    BY <1>2, QueryKeeps
  <2>2. ViewTypes' /\ ResetInv'
    BY <1>0, <1>2, <2>1 DEF Query, ViewTypes, ResetInv
  <2> QED  BY <1>2, <2>1, <2>2, RestSame DEF Query
<1>3. search \in [typed : Texts, debounced : Texts] /\ page \in PageNumbers
  BY <1>0 DEF ViewTypes
<1>4. ASSUME clearFilters PROVE TableInv'
  BY <1>0, <1>2, <1>3, <1>4 DEF clearFilters, Click, ViewTypes
<1>5. ASSUME Debounced PROVE TableInv'
  BY <1>2, <1>3, <1>5 DEF Debounced
<1>6. ASSUME ResetPage PROVE TableInv'
  BY <1>0, <1>2, <1>3, <1>6 DEF ResetPage, TableInv, ResetInv
<1>7. ASSUME NextPage PROVE TableInv'
  <2>1. page + 1 \in PageNumbers
    <3>1. Shown.pages \in PageNumbers
      BY <1>0, KeyTyped DEF CacheRows
    <3> QED  BY <1>3, <1>7, <3>1, TablesAssumption DEF NextPage, PageNumbers
  <2> QED  BY <1>0, <1>2, <1>3, <1>7, <2>1 DEF NextPage, Click, ViewTypes
<1>8. ASSUME PreviousPage PROVE TableInv'
  <2>1. page - 1 \in PageNumbers
    BY <1>3, <1>8, TablesAssumption DEF PreviousPage, PageNumbers
  <2> QED  BY <1>0, <1>2, <1>3, <1>8, <2>1 DEF PreviousPage, Click, ViewTypes
<1> QED  BY <1>1, <1>4, <1>5, <1>6, <1>7, <1>8

LEMMA ChoiceStep ==
    ASSUME TableInv,
           \/ \E e \in Events : toggleSelectEvent(e) \/ OpenSheet(e)
           \/ toggleSelectAll \/ OpenConfirm \/ Cancel \/ CloseSheet
    PROVE  TableInv'
<1>0. ViewTypes /\ TypeOK /\ ShownEvents \subseteq Events
  BY Parts, KeyTyped DEF TableInv
<1>1. ASSUME Click \/ Move, UNCHANGED <<server, queries, where, filters, request, history>>,
             selected' \subseteq Events, confirm' \in BOOLEAN, sheet' \subseteq Events
      PROVE  TableInv'
  <2>1. ViewTypes' /\ ResetInv'
    BY <1>0, <1>1 DEF TableInv, ViewTypes, ResetInv
  <2> QED  BY <1>1, <2>1, Untouched, RestSame DEF Click
<1>2. ASSUME NEW chosen \in SUBSET Events, Choose(chosen) PROVE TableInv'
  BY <1>0, <1>1, <1>2 DEF Choose, ViewTypes
<1>3. ASSUME NEW e \in Events, toggleSelectEvent(e) PROVE TableInv'
  BY <1>0, <1>2, <1>3 DEF toggleSelectEvent, ViewTypes
<1>4. ASSUME toggleSelectAll PROVE TableInv'
  BY <1>0, <1>2, <1>4 DEF toggleSelectAll
<1>5. ASSUME OpenConfirm \/ Cancel \/ CloseSheet PROVE TableInv'
  BY <1>0, <1>1, <1>5 DEF OpenConfirm, Cancel, CloseSheet, ViewTypes
<1>6. ASSUME NEW e \in Events, OpenSheet(e) PROVE TableInv'
  <2>1. ViewTypes' /\ ResetInv'
    BY <1>0, <1>6 DEF TableInv, OpenSheet, ViewTypes, ResetInv
  <2>2. CacheOK'
    BY <1>6, Subscribes DEF OpenSheet
  <2> QED  BY <1>6, <2>1, <2>2, RestSame DEF OpenSheet, Click
<1> QED  BY <1>3, <1>4, <1>5, <1>6

LEMMA SendStep ==
    ASSUME TableInv,
           \/ handleBatchReplay \/ handleBatchDelete
           \/ \E e \in Events : RetryFromEvent(e)
           \/ \E r \in Rows, from \in {"row", "sheet"} : RetryFromDelivery(r, from)
    PROVE  TableInv'
<1>0. selected \in SUBSET Events /\ confirm \in BOOLEAN
  BY DEF TableInv, TypeOK
<1>1. ASSUME handleBatchReplay \/ handleBatchDelete PROVE TableInv'
  BY <1>0, <1>1, SendKeeps, Members DEF handleBatchReplay, handleBatchDelete, Click, Mutations
<1>2. ASSUME NEW e \in Events, RetryFromEvent(e) PROVE TableInv'
  BY <1>0, <1>2, SendKeeps, Members DEF RetryFromEvent, Mutations
<1>3. ASSUME NEW r \in Rows, NEW from \in {"row", "sheet"}, RetryFromDelivery(r, from)
      PROVE  TableInv'
  <2>1. {r[1]} \in SUBSET Events
    BY Members
  <2> QED  BY <1>0, <1>3, <2>1, SendKeeps DEF RetryFromDelivery, Click, Mutations
<1> QED  BY <1>1, <1>2, <1>3

LEMMA PageStep ==
    ASSUME TableInv, Tick \/ \E w \in {"overview", "events", "deliveries"} : GoTo(w)
    PROVE  TableInv'
<1>0. ViewTypes /\ request \in [Mutations -> RequestRows]
  BY Parts DEF TableInv
<1>1. ASSUME Tick PROVE TableInv'
  <2>1. CacheOK'
    BY <1>1, Invalidates DEF Tick, Reflects
  <2>2. ViewTypes' /\ ResetInv'
    BY <1>0, <1>1 DEF TableInv, Tick, ViewTypes, ResetInv
  <2> QED  BY <1>1, <2>1, <2>2, RestSame DEF Tick
<1>2. ASSUME NEW w \in {"overview", "events", "deliveries"}, GoTo(w) PROVE TableInv'
  <2>1. CacheOK'
    BY <1>2, Subscribes DEF GoTo
  <2>2. ViewTypes' /\ ResetInv'
    BY <1>0, <1>2, Members DEF GoTo, ViewTypes, ResetInv
  <2>3. /\ request' \in [Mutations -> RequestRows]
        /\ \A m \in Mutations : /\ request'[m].made = request[m].made
                                /\ request'[m].ids = request[m].ids
    <3>1. ASSUME NEW m \in Mutations
          PROVE  /\ request'[m] \in RequestRows
                 /\ request'[m].made = request[m].made /\ request'[m].ids = request[m].ids
      <4>1. request'[m] = [request[m] EXCEPT !.here = FALSE] /\ request[m] \in RequestRows
        BY <1>0, <1>2 DEF GoTo
      <4> QED  BY <4>1 DEF RequestRows
    <3>2. request' = [m \in Mutations |-> request'[m]]
      BY <1>2 DEF GoTo
    <3> QED  BY <3>1, <3>2
  <2> QED  BY <1>2, <2>1, <2>2, <2>3, Rest DEF GoTo
<1> QED  BY <1>1, <1>2

-----------------------------------------------------------------------------
(* Steps of the API, and its answers.                                       *)

LEMMA ApiStep ==
    ASSUME TableInv, Api
    PROVE  TableInv'
<1>0. ServerTypes /\ ViewTypes /\ request \in [Mutations -> RequestRows] /\ TypeOK
  BY Parts DEF TableInv
<1>1. ASSUME UNCHANGED <<queries, view, history>>, deleted \subseteq deleted',
             ServerTypes', ServerInv', request' \in [Mutations -> RequestRows],
             Move \/ UNCHANGED moves
      PROVE  TableInv'
  <2>1. ViewTypes' /\ ResetInv'
    BY <1>0, <1>1 DEF TableInv, ViewTypes, ResetInv
  <2> QED  BY <1>0, <1>1, <2>1, Untouched, MovesTyped, PartsNext
<1>2. ASSUME EventArrives PROVE TableInv'
  <2>1. ServerTypes'
    BY <1>0, <1>2, TablesAssumption DEF EventArrives, ServerTypes
  <2>2. ServerInv'
    BY <1>0, <1>2, TablesAssumption DEF TableInv, EventArrives, ServerInv, ServerTypes
  <2> QED  BY <1>0, <1>1, <1>2, <2>1, <2>2 DEF EventArrives
<1>3. ASSUME NEW e \in Events, EventDeleted(e) PROVE TableInv'
  <2>1. ServerTypes'
    BY <1>0, <1>3 DEF EventDeleted, ServerTypes, Live
  <2>2. ServerInv'
    BY <1>0, <1>3 DEF TableInv, EventDeleted, ServerInv
  <2> QED  BY <1>0, <1>1, <1>3, <2>1, <2>2 DEF EventDeleted
<1>4. ASSUME NEW m \in Mutations, Refuse(m) \/ RequestFails(m) PROVE TableInv'
  <2>1. UNCHANGED <<server, history, queries, view>> /\ request' = [request EXCEPT ![m] = Idle]
    BY <1>4 DEF Refuse, RequestFails
  <2>2. request' \in [Mutations -> RequestRows]
    BY <1>0, <2>1, Members DEF Idle, RequestRows
  <2>3. ServerTypes' /\ ServerInv'
    BY <1>0, <2>1 DEF TableInv, ServerTypes, ServerInv, Idle
  <2> QED  BY <1>1, <1>4, <2>1, <2>2, <2>3 DEF Refuse, RequestFails
<1>5. ASSUME NEW m \in Mutations, Serve(m) PROVE TableInv'
  <2> DEFINE ids == request[m].ids \cap Live
  <2>1. UNCHANGED <<queries, view, history, moves>>
    BY <1>5 DEF Serve
  <2>2. CASE deleted' = deleted \cup ids /\ request' = [request EXCEPT ![m].at = "done"]
             /\ UNCHANGED <<arrived, deliveries>>
    <3>1. request' \in [Mutations -> RequestRows]
      BY <1>0, <2>2 DEF RequestRows
    <3>2. \A i \in Mutations : request'[i].made = request[i].made /\ request'[i].ids = request[i].ids
      BY <1>0, <2>2 DEF RequestRows
    <3>3. ServerTypes'
      BY <1>0, <2>1, <2>2 DEF ServerTypes, Live
    <3>4. ServerInv'
      BY <2>1, <2>2, <3>2 DEF TableInv, ServerInv
    <3> QED  BY <1>1, <2>1, <2>2, <3>1, <3>3, <3>4
  <2>3. CASE \E n \in [ids -> DeliveryIds] : Creates(m, {<<e, n[e]>> : e \in ids})
    <3>1. PICK n \in [ids -> DeliveryIds] : Creates(m, {<<e, n[e]>> : e \in ids})
      BY <2>3
    <3> DEFINE new == {<<e, n[e]>> : e \in ids}
    <3>2. ids \subseteq 1..arrived /\ ids \subseteq Events
      BY <1>0 DEF Live, ServerTypes, RequestRows
    <3>3. new \subseteq Rows /\ \A r \in new : r[1] \in ids
      BY <3>2, Members
    <3> HIDE DEF new
    <3>4. /\ deliveries' = deliveries \cup new /\ UNCHANGED <<arrived, deleted>>
          /\ request' = [request EXCEPT ![m] = [@ EXCEPT !.at = "done", !.made = new]]
      BY <3>1 DEF Creates, new
    <3>5. request' \in [Mutations -> RequestRows]
      <4>1. [request[m] EXCEPT !.at = "done", !.made = new] \in RequestRows
        BY <1>0, <3>3 DEF RequestRows
      <4> QED  BY <1>0, <3>4, <4>1
    <3>6. ServerTypes'
      BY <1>0, <2>1, <3>3, <3>4 DEF ServerTypes
    <3>7. ServerInv'
      <4>1. \A r \in deliveries' : r[1] \in 1..arrived'
        BY <3>2, <3>3, <3>4 DEF TableInv, ServerInv
      <4>2. gone' \subseteq deleted'
        BY <2>1, <3>4 DEF TableInv, ServerInv
      <4>3. ASSUME NEW i \in Mutations
            PROVE  request'[i].made \subseteq {r \in deliveries' : r[1] \in request'[i].ids}
        <5>1. CASE i = m
          BY <1>0, <3>3, <3>4, <5>1 DEF RequestRows
        <5>2. CASE i # m
          BY <1>0, <3>4, <5>2 DEF TableInv, ServerInv
        <5> QED  BY <5>1, <5>2
      <4> QED  BY <4>1, <4>2, <4>3 DEF ServerInv
    <3> QED  BY <1>1, <2>1, <3>4, <3>5, <3>6, <3>7
  <2> QED  BY <1>5, <2>2, <2>3 DEF Serve
<1> QED  BY <1>2, <1>3, <1>4, <1>5 DEF Api

LEMMA AnswerStep ==
    ASSUME TableInv, Answers
    PROVE  TableInv'
<1>0. ServerTypes /\ ViewTypes /\ request \in [Mutations -> RequestRows] /\ Mutations = {"replay", "delete", "retry"}
  BY Parts DEF TableInv, Mutations
<1>1. ASSUME NEW m \in Mutations, request' = [request EXCEPT ![m] = Idle],
             UNCHANGED <<server, where, filters, sheet, moves>>, CacheOK',
             selected' \subseteq Events, confirm' \in BOOLEAN,
             gone' \subseteq gone \cup deleted,
             told' \subseteq told \cup request["retry"].made,
             announced' \subseteq announced \cup request["retry"].made, announced' \subseteq told'
      PROVE  TableInv'
  <2>1. request' \in [Mutations -> RequestRows]
    BY <1>0, <1>1, Members DEF Idle, RequestRows
  <2>2. ServerTypes'
    BY <1>0, <1>1, TablesAssumption DEF TableInv, ServerInv, ServerTypes, Events
  <2>3. ServerInv'
    BY <1>0, <1>1 DEF TableInv, ServerInv, Idle
  <2>4. ViewTypes' /\ ResetInv'
    BY <1>0, <1>1 DEF TableInv, ViewTypes, ResetInv
  <2> QED  BY <1>1, <2>1, <2>2, <2>3, <2>4, MovesTyped, PartsNext DEF TableInv
<1>2. announced \subseteq told
  BY <1>0 DEF ServerTypes
<1>3. ASSUME ReplayAnswered PROVE TableInv'
  <2>1. CacheOK'
    BY <1>3, Invalidates DEF ReplayAnswered, Reflects
  <2> QED  BY <1>0, <1>1, <1>2, <1>3, <2>1 DEF ReplayAnswered, ClearSelection, ViewTypes
<1>4. ASSUME DeleteAnswered PROVE TableInv'
  <2>1. CacheOK'
    BY <1>4, Invalidates DEF DeleteAnswered, Reflects
  <2> QED  BY <1>0, <1>1, <1>2, <1>4, <2>1 DEF DeleteAnswered, ClearSelection, ViewTypes
<1>5. ASSUME RetryAnswered PROVE TableInv'
  <2> DEFINE r == request["retry"]
             details == {Detail(e) : e \in r.ids}
             reports == (r.from = "row" /\ r.here) \/ r.from = "sheet"
  <2>1. \A d \in r.made : d[1] \in r.ids
    BY <1>0 DEF TableInv, ServerInv
  <2>2. ASSUME NEW k \in QueryKeys, NEW rows, k \notin details, reports => k # Deliveries,
               Reflects(k, rows)
        PROVE  Reflects(k, rows)'
    <3>1. /\ told' = told \cup r.made /\ UNCHANGED <<gone, deleted>>
          /\ announced' = IF reports THEN announced \cup r.made ELSE announced
      BY <1>5 DEF RetryAnswered
    <3>2. k.kind = "detail" => k.event \notin r.ids
      BY <2>2, Kinds
    <3>3. k.kind = "deliveries" => announced' = announced
      BY <2>2, <3>1, Kinds
    <3> QED  BY <2>1, <2>2, <3>1, <3>2, <3>3 DEF Reflects
  <2>3. CacheOK'
    <3>1. Invalidate(details \cup (IF r.from = "row" /\ r.here THEN {Deliveries} ELSE {}), Active,
                     IF r.from = "sheet" THEN {Deliveries} ELSE {})
      BY <1>5 DEF RetryAnswered
    <3> QED  BY <2>2, <3>1, Invalidates
  <2> QED  BY <1>0, <1>1, <1>2, <1>5, <2>3 DEF RetryAnswered, ViewTypes
<1> QED  BY <1>3, <1>4, <1>5 DEF Answers

LEMMA QueryStep ==
    ASSUME TableInv, Queries
    PROVE  TableInv'
<1>0. ViewTypes /\ request \in [Mutations -> RequestRows]
  BY Parts DEF TableInv
<1>1. PICK k \in QueryKeys : \/ ServerReads(k) \/ ListArrives(k) \/ NotFound(k)
                            \/ FetchFails(k) \/ TimePasses(k)
  BY DEF Queries
<1>2. UNCHANGED <<server, view, history>> /\ (Move \/ UNCHANGED moves)
  BY <1>1 DEF ServerReads, ListArrives, NotFound, FetchFails, TimePasses
<1>3. ViewTypes' /\ ResetInv'
  BY <1>0, <1>2 DEF TableInv, ViewTypes, ResetInv
<1>4. CacheOK'
  BY <1>1, <1>2, ReadKeeps, ArriveKeeps, AgeKeeps
     DEF ServerReads, ListArrives, NotFound, FetchFails, TimePasses
<1>5. CASE UNCHANGED request
  BY <1>2, <1>3, <1>4, <1>5, RestSame
<1>6. CASE \E b \in BOOLEAN : request' = [request EXCEPT !["retry"].here = b]
  <2>1. PICK b \in BOOLEAN : request' = [request EXCEPT !["retry"].here = b]
    BY <1>6
  <2>2. ASSUME NEW m \in Mutations
        PROVE  /\ request'[m] \in RequestRows
               /\ request'[m].made = request[m].made /\ request'[m].ids = request[m].ids
    <3>1. request[m] \in RequestRows /\ request'[m] \in {request[m], [request[m] EXCEPT !.here = b]}
      BY <1>0, <2>1
    <3> QED  BY <3>1 DEF RequestRows
  <2>3. request' \in [Mutations -> RequestRows]
    BY <1>0, <2>1, <2>2
  <2> QED  BY <1>2, <1>3, <1>4, <2>2, <2>3, Rest
<1>7. ListArrives(k) => \E b \in BOOLEAN : request' = [request EXCEPT !["retry"].here = b]
  <2> DEFINE b == /\ request["retry"].here
                  /\ k = Deliveries /\ request["retry"].from = "row"
                         => request["retry"].row \in fetch[k].rows
  <2>1. ListArrives(k) => request' = [request EXCEPT !["retry"].here = b]
    BY DEF ListArrives
  <2> QED  BY <2>1
<1> QED  BY <1>1, <1>5, <1>6, <1>7 DEF ServerReads, NotFound, FetchFails, TimePasses

-----------------------------------------------------------------------------
LEMMA InitInv == Init => TableInv
<1> SUFFICES ASSUME Init PROVE TableInv
  OBVIOUS
<1>1. Fresh(where) \in QueryKeys
  BY Keys, Members DEF Init, Fresh
<1>2. cache \in [QueryKeys -> CacheRows] /\ fetch \in [QueryKeys -> FetchRows]
  BY Members DEF Init, CacheInit, Nothing, NoFetch, Sent, CacheRows, FetchRows
<1>3. ServerTypes /\ ServerInv
  BY TablesAssumption DEF Init, ServerTypes, ServerInv, Events, Rows, Idle
<1>4. ViewTypes /\ ResetInv
  BY Members DEF Init, ViewTypes, ResetInv
<1>5. request \in [Mutations -> RequestRows] /\ moves \in 0..MaxMoves
  BY Members, TablesAssumption DEF Init, Idle, RequestRows
<1>6. CacheInv
  BY DEF Init, CacheInit, CacheInv, KeyOK, IsFresh, InFlight, Nothing, NoFetch, Sent
<1>7. CacheTypeOK(PageNumbers)
  BY <1>2 DEF CacheTypeOK, CacheRows, FetchRows
<1> QED  BY <1>3, <1>4, <1>5, <1>6, <1>7, Parts DEF TableInv

LEMMA NextInv == TableInv /\ [Next]_vars => TableInv'
<1> SUFFICES ASSUME TableInv, [Next]_vars PROVE TableInv'
  OBVIOUS
<1>1. CASE User
  BY <1>1, FilterStep, ChoiceStep, SendStep, PageStep DEF User
<1>2. CASE Debounced \/ ResetPage
  BY <1>2, FilterStep
<1>3. CASE Tick
  BY <1>3, PageStep
<1>4. CASE Api
  BY <1>4, ApiStep
<1>5. CASE Answers
  BY <1>5, AnswerStep
<1>6. CASE Queries
  BY <1>6, QueryStep
<1>7. CASE UNCHANGED vars
  <2>1. UNCHANGED <<server, queries, view, request, history, moves>>
    BY <1>7 DEF vars
  <2>2. ViewTypes' /\ ResetInv'
    BY <2>1, Parts DEF TableInv, ViewTypes, ResetInv
  <2> QED  BY <2>1, <2>2, Untouched, RestSame
<1> QED  BY <1>1, <1>2, <1>3, <1>4, <1>5, <1>6, <1>7 DEF Next

\* The variables keep their types: every key a table asks for is one of the cache,
\* every page is in range, and every id the page sends is that of an event.
THEOREM TablesAreTyped == Spec => []TypeOK
<1>1. TableInv => TypeOK
  BY DEF TableInv
<1> QED  BY InitInv, NextInv, <1>1, PTL DEF Spec

\* What the cache takes for fresh shows what the tab was told, for any number of
\* events, filters and clicks: the invalidations of the hooks reach every list and
\* sheet that needs them, and what was on its way before them does not count.
THEOREM FreshEntriesShowIt == Spec => []FreshShowsWhatWasTold
<1>1. TableInv => FreshShowsWhatWasTold
  BY DEF TableInv, CacheInv, KeyOK, FreshShowsWhatWasTold
<1> QED  BY InitInv, NextInv, <1>1, PTL DEF Spec
=============================================================================
