----------------------------- MODULE QueryCache -----------------------------
(***************************************************************************)
(* The cache of TanStack Query 5 as the hooks of apps/web use it, with     *)
(* retry off and no refetch on focus (query-provider.tsx).  External code. *)
(* An entry is stale when its time is over, when it was invalidated or     *)
(* when its last fetch failed: a component that subscribes then fetches.   *)
(* overtaken records that an invalidation passed while a fetch it did not  *)
(* restart was under way.                                                  *)
(***************************************************************************)
CONSTANTS QueryKeys, Rows

VARIABLES cache, fetch

Nothing == [has |-> "nothing", rows |-> {}, pages |-> 1, stale |-> TRUE, overtaken |-> FALSE]
NoFetch == [at |-> "idle", rows |-> {}, pages |-> 1, overtaken |-> FALSE]
Sent == [at |-> "sent", rows |-> {}, pages |-> 1, overtaken |-> FALSE]

CacheTypeOK(Pages) ==
    /\ cache \in [QueryKeys -> [has : {"nothing", "error", "data"}, rows : SUBSET Rows,
                                pages : Pages, stale : BOOLEAN, overtaken : BOOLEAN]]
    /\ fetch \in [QueryKeys -> [at : {"idle", "sent", "read"}, rows : SUBSET Rows,
                                pages : Pages, overtaken : BOOLEAN]]

\* The first subscriptions are those of the keys in first.
CacheInit(first) ==
    /\ cache = [k \in QueryKeys |-> Nothing]
    /\ fetch = [k \in QueryKeys |-> IF k \in first THEN Sent ELSE NoFetch]

\* A component now uses k as well.
Subscribed(k) ==
    IF fetch[k].at = "idle" /\ cache[k].stale THEN [fetch EXCEPT ![k] = Sent] ELSE fetch

InFlight(k) == fetch[k].at # "idle"

\* A refetch gives up the fetch under way, but keeps one that is the first.
Refetched(k) ==
    IF InFlight(k) /\ cache[k].has # "data" THEN [fetch[k] EXCEPT !.overtaken = TRUE] ELSE Sent

\* invalidateQueries of the keys ks, and what is refetched besides.
Invalidate(ks, active, refetch) ==
    /\ cache' = [k \in QueryKeys |-> [cache[k] EXCEPT !.stale = @ \/ k \in ks]]
    /\ fetch' = [k \in QueryKeys |->
           IF k \in (ks \cap active) \cup refetch THEN Refetched(k)
           ELSE IF k \in ks /\ InFlight(k) THEN [fetch[k] EXCEPT !.overtaken = TRUE]
           ELSE fetch[k]]

\* The server reads, and its answer comes later.
Read(k, rows, pages) ==
    /\ fetch[k].at = "sent"
    /\ fetch' = [fetch EXCEPT ![k] =
           [at |-> "read", rows |-> rows, pages |-> pages, overtaken |-> @.overtaken]]
    /\ UNCHANGED cache

Arrive(k) ==
    /\ fetch[k].at = "read"
    /\ cache' = [cache EXCEPT ![k] = [has |-> "data", rows |-> fetch[k].rows,
           pages |-> fetch[k].pages, stale |-> FALSE, overtaken |-> fetch[k].overtaken]]
    /\ fetch' = [fetch EXCEPT ![k] = NoFetch]

Fails(k) ==
    /\ InFlight(k)
    /\ cache' = [cache EXCEPT ![k] = [@ EXCEPT !.stale = TRUE,
                                              !.has = IF cache[k].has = "data" THEN "data" ELSE "error"]]
    /\ fetch' = [fetch EXCEPT ![k] = NoFetch]

\* staleTime is over.
Age(k) ==
    /\ cache[k].has = "data" /\ ~cache[k].stale
    /\ cache' = [cache EXCEPT ![k].stale = TRUE]
    /\ UNCHANGED fetch

=============================================================================
