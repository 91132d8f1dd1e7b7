----------------------------- MODULE LiveCache ------------------------------
(***************************************************************************)
(* The record cache of LiveDataService (live.py): lookups of one layer and *)
(* one gridded box, which share an LRU cache, a lock for every layer, and  *)
(* a fetch from the official source when the cache has nothing fresh.      *)
(*                                                                         *)
(* asyncio switches tasks only where a coroutine suspends: in              *)
(* Lock.acquire when the lock is taken, and in the fetch.  Time is counted *)
(* in ticks; an age stops growing once it is past every limit.             *)
(***************************************************************************)
EXTENDS Naturals, SequencesExt

CONSTANTS
    Lookups,      \* slots of callers; a slot makes one lookup after another
    Keys,         \* the cache keys: a layer and a normalized box
    KindOf,       \* the layer of a key
    FreshFor,     \* fresh_seconds, in ticks
    StaleFor,     \* stale_if_error_seconds, in ticks
    MaxEntries,   \* max_cache_entries
    MaxFeatures,  \* max_cached_features
    Sizes         \* the feature counts a fetch may return

Kinds == {KindOf[k] : k \in Keys}
Old == StaleFor + 1

ASSUME CacheAssumption ==
    /\ FreshFor \in Nat /\ StaleFor \in Nat /\ FreshFor <= StaleFor
    /\ MaxEntries \in Nat \ {0}
    /\ MaxFeatures \in Nat
    /\ Sizes \subseteq 0..MaxFeatures  \* max_cached_features >= max_records

VARIABLES
    cache,     \* _cache, least recently used first
    features,  \* _cached_feature_count
    queue,     \* per layer, the lookups waiting for its lock, in order
    fetch,     \* the fetch a slot runs: none, or its key and its age
    stale      \* history: the ages of the records given as stale

vars == <<cache, features, queue, fetch, stale>>

Ages == 0..Old
Entries == [key : Keys, age : Ages, data : Ages, size : Sizes]
Requests == [who : Lookups, key : Keys]
Fetches == [key : Keys, age : Ages]

TypeOK ==
    /\ cache \in Seq(Entries)
    /\ features \in Nat
    /\ queue \in [Kinds -> Seq(Requests)]
    /\ fetch \in [Lookups -> SUBSET Fetches]
    /\ \A r \in Lookups : \A f, g \in fetch[r] : f = g
    /\ stale \subseteq Ages

Init ==
    /\ cache = <<>>
    /\ features = 0
    /\ queue = [kind \in Kinds |-> <<>>]
    /\ fetch = [r \in Lookups |-> {}]
    /\ stale = {}
-----------------------------------------------------------------------------
(***************************************************************************)
(* The cache: _cache_get and _cache_put.                                   *)
(***************************************************************************)
Has(k) == \E i \in DOMAIN cache : cache[i].key = k
Place(k) == CHOOSE i \in DOMAIN cache : cache[i].key = k
Entry(k) == cache[Place(k)]
IsFresh(k) == Has(k) /\ Entry(k).age <= FreshFor
\* Mutant of IsUsable: the stale limit is not asked.
IsUsableAtAnyAge(k) == Has(k)

IsUsable(k) == Has(k) /\ Entry(k).age <= StaleFor

Without(k) == IF Has(k) THEN RemoveAt(cache, Place(k)) ELSE cache

\* _cache_get counts as a use, whatever becomes of the entry.
Touched(k) == IF Has(k) THEN Append(Without(k), Entry(k)) ELSE cache

\* The features of the first n entries of c, for every n.
Held(c) ==
    LET held[n \in 0..Len(c)] == IF n = 0 THEN 0 ELSE held[n - 1] + c[n].size
    IN  held

SizeOf(c) == Held(c)[Len(c)]

\* Entries leave at the front until both limits hold of cache c, whose
\* features the counter puts at n.
Evicted(c, n) ==
    Min({i \in 0..Len(c) : /\ Len(c) - i <= MaxEntries
                           /\ n - Held(c)[i] <= MaxFeatures})

\* Mutant of CachePut: the counter keeps the size of the old entry.
CachePutKeepsOld(e) ==
    LET c == Append(Without(e.key), e)
        n == features + e.size
        i == Evicted(c, n)
    IN  /\ cache' = SubSeq(c, i + 1, Len(c))
        /\ features' = n - Held(c)[i]

CachePut(e) ==
    LET before == IF Has(e.key) THEN Entry(e.key).size ELSE 0
        c == Append(Without(e.key), e)
        n == features - before + e.size
        i == Evicted(c, n)
    IN  /\ cache' = SubSeq(c, i + 1, Len(c))
        /\ features' = n - Held(c)[i]
-----------------------------------------------------------------------------
(***************************************************************************)
(* A lookup: _features.                                                    *)
(***************************************************************************)
Waiting(r) == \E kind \in Kinds : \E i \in DOMAIN queue[kind] : queue[kind][i].who = r
IsIdle(r) == fetch[r] = {} /\ ~Waiting(r)

Fetching(kind) == \E r \in Lookups : \E f \in fetch[r] : KindOf[f.key] = kind
\* Mutant of LockFree: fetches of one layer run side by side.
NoLock(kind) == TRUE

LockFree(kind) == ~Fetching(kind)

StartFetch(r, k) == fetch' = [fetch EXCEPT ![r] = {[key |-> k, age |-> 0]}]

\* Under the lock the cache is asked again before a fetch starts.
UnderLock(r, k) ==
    /\ cache' = Touched(k)
    /\ IF IsFresh(k) THEN UNCHANGED fetch ELSE StartFetch(r, k)

Lookup(r, k) ==
    LET kind == KindOf[k] IN
    /\ IsIdle(r)
    /\ \/ /\ IsFresh(k) \/ (LockFree(kind) /\ queue[kind] = <<>>)
          /\ UnderLock(r, k)
          /\ UNCHANGED queue
       \/ /\ ~IsFresh(k) /\ ~(LockFree(kind) /\ queue[kind] = <<>>)
          /\ cache' = Touched(k)
          /\ queue' = [queue EXCEPT ![kind] = Append(@, [who |-> r, key |-> k])]
          /\ UNCHANGED fetch
    /\ UNCHANGED <<features, stale>>

\* Mutant of GetLock: the cache is not asked again.
GetLockAndFetch(kind) ==
    /\ queue[kind] # <<>> /\ LockFree(kind)
    /\ LET q == Head(queue[kind]) IN StartFetch(q.who, q.key)
    /\ queue' = [queue EXCEPT ![kind] = Tail(@)]
    /\ UNCHANGED <<cache, features, stale>>

\* Lock.release has woken the first waiter.
GetLock(kind) ==
    /\ queue[kind] # <<>> /\ LockFree(kind)
    /\ LET q == Head(queue[kind]) IN UnderLock(q.who, q.key)
    /\ queue' = [queue EXCEPT ![kind] = Tail(@)]
    /\ UNCHANGED <<features, stale>>

EndFetch(r) == fetch' = [fetch EXCEPT ![r] = {}]

\* The queue q once r waits in it no longer.
Left(q, r) ==
    IF \E i \in DOMAIN q : q[i].who = r
    THEN RemoveAt(q, CHOOSE i \in DOMAIN q : q[i].who = r)
    ELSE q

\* _refresh returned every published record: they are timed from its end.
FetchOk(r) ==
    /\ \E f \in fetch[r], n \in Sizes :
          CachePut([key |-> f.key, age |-> 0, data |-> f.age, size |-> n])
    /\ EndFetch(r)
    /\ UNCHANGED <<queue, stale>>

\* An HTTP error, a malformed answer, a limit, a count that does not match.
FetchFailed(r) ==
    /\ \E f \in fetch[r] :
          /\ cache' = Touched(f.key)
          /\ stale' = IF IsUsable(f.key) THEN stale \union {Entry(f.key).age} ELSE stale
    /\ EndFetch(r)
    /\ UNCHANGED <<features, queue>>

\* The caller is cancelled, in the queue or in its fetch; an exception that
\* _features does not expect has the same effect there.
Cancel(r) ==
    /\ ~IsIdle(r)
    /\ queue' = [kind \in Kinds |-> Left(queue[kind], r)]
    /\ EndFetch(r)
    /\ UNCHANGED <<cache, features, stale>>

Older(n) == IF n < Old THEN n + 1 ELSE Old

Tick ==
    /\ cache' = [i \in DOMAIN cache |->
                    [cache[i] EXCEPT !.age = Older(@), !.data = Older(@)]]
    /\ fetch' = [r \in Lookups |-> {[f EXCEPT !.age = Older(@)] : f \in fetch[r]}]
    /\ UNCHANGED <<features, queue, stale>>

Next ==
    \/ \E r \in Lookups :
          \/ \E k \in Keys : Lookup(r, k)
          \/ FetchOk(r)
          \/ FetchFailed(r)
          \/ Cancel(r)
    \/ \E kind \in Kinds : GetLock(kind)
    \/ Tick

Spec == Init /\ [][Next]_vars
-----------------------------------------------------------------------------
\* The counter is the sum of what is cached, so that eviction, which trusts
\* it, keeps both limits through every replacement and eviction.
CacheWithinLimits ==
    /\ features = SizeOf(cache) /\ features <= MaxFeatures
    /\ Len(cache) <= MaxEntries
    /\ \A i, j \in DOMAIN cache : cache[i].key = cache[j].key => i = j

\* No fetch runs for records that are fresh in the cache: of many lookups
\* that miss together, one fetches and the others take what it brought.
NoNeedlessFetch == \A r \in Lookups : \A f \in fetch[r] : ~IsFresh(f.key)

\* The records held for a key are never replaced by ones read from the
\* source before them.
NeverOlder ==
    [][\A i \in DOMAIN cache, j \in DOMAIN cache' :
          /\ cache[i].key = cache'[j].key
          /\ cache'[j].age = 0
          => cache'[j].data <= cache[i].data]_vars

\* Records given as stale are within the stale limit and past the fresh one:
\* a failed fetch never labels stale what another lookup made fresh.
StaleIsBetween == stale \subseteq (FreshFor + 1)..StaleFor
=============================================================================
