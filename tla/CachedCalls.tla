------------------------------ MODULE CachedCalls ------------------------------
(***************************************************************************)
(* @cached over @retry on a coroutine function: AsyncCachedFunction and its  *)
(* _TTLStore (src/decorators/cache.py), RetryDecorator (retry.py).           *)
(*                                                                          *)
(* What the function returns for a key is the key's current version at some  *)
(* moment of the call.  Lock objects are numbered: a caller keeps the number *)
(* it was given, whatever _locks says meanwhile.                             *)
(***************************************************************************)
EXTENDS Integers, Sequences, FiniteSets, Functions

CONSTANTS
    CacheCallers, \* tasks that call the function, again and again
    CacheKeys,    \* argument lists
    CacheTtl,     \* ttl
    CacheSize,    \* maxsize
    CallAttempts, \* attempts of @retry
    MaxFacts,     \* bound: versions a key goes through
    MaxCacheTime  \* bound: clock ticks

\* What `cached` and `retry` accept.
ASSUME CachedCallsAssumption ==
    CacheTtl \in Nat \ {0} /\ CacheSize \in Nat \ {0} /\ CallAttempts \in Nat \ {0}

VARIABLES
    cacheNow,  \* the clock
    facts,     \* each key's current version, outside the cache
    entries,   \* _entries, least recently used first: key, value, expires
    locks,     \* _locks: the lock's number for each key, 0 for none
    waiting,   \* _waiting
    asks,      \* each caller: state, key, lock, attempt, value
    floor,     \* history: the version an invalidation made the oldest acceptable
    owes       \* history: the floor when the caller started

cacheVars == <<cacheNow, facts, entries, locks, waiting, asks, floor, owes>>

LockIds == 1..Cardinality(CacheCallers)
Versions0 == 0..MaxFacts
IdleCall == [state |-> "idle", key |-> CHOOSE k \in CacheKeys : TRUE, lock |-> 0, attempt |-> 0, value |-> 0]

CacheTypeOK ==
    /\ cacheNow \in 0..MaxCacheTime /\ facts \in [CacheKeys -> Versions0]
    /\ \A i \in DOMAIN entries : entries[i] \in [key : CacheKeys, value : Versions0, expires : Nat]
    /\ locks \in [CacheKeys -> {0} \union LockIds]
    /\ waiting \in [CacheKeys -> 0..Cardinality(CacheCallers)]
    /\ asks \in [CacheCallers -> [state : {"idle", "queued", "calling", "read", "backoff", "answered"},
                                  key : CacheKeys, lock : {0} \union LockIds,
                                  attempt : 0..CallAttempts, value : Versions0]]
    /\ floor \in [CacheKeys -> Versions0] /\ owes \in [CacheCallers -> Versions0]

CacheInit ==
    /\ cacheNow = 0 /\ facts = [k \in CacheKeys |-> 0] /\ entries = <<>>
    /\ locks = [k \in CacheKeys |-> 0] /\ waiting = [k \in CacheKeys |-> 0]
    /\ asks = [c \in CacheCallers |-> IdleCall]
    /\ floor = [k \in CacheKeys |-> 0] /\ owes = [c \in CacheCallers |-> 0]

-----------------------------------------------------------------------------
(* _TTLStore.                                                              *)

Without(k) == SelectSeq(entries, LAMBDA e : e.key # k)
Found(k) == {e \in Range(entries) : e.key = k /\ e.expires > cacheNow}

Hit(k) == CHOOSE e \in Found(k) : TRUE

\* peek: an expired entry is deleted, a live one becomes the most recently used.
Peeked(k) == IF Found(k) = {} THEN Without(k) ELSE Append(Without(k), Hit(k))

\* mutant: the entry is added without making room.
Overfull(k, v) == Append(Without(k), [key |-> k, value |-> v, expires |-> cacheNow + CacheTtl])

\* set: a new key evicts the least recently used one when the store is full.
Stored(k, v) ==
    LET kept == Without(k)
        room == IF Len(kept) = Len(entries) /\ Len(entries) >= CacheSize THEN Tail(kept) ELSE kept
    IN Append(room, [key |-> k, value |-> v, expires |-> cacheNow + CacheTtl])

-----------------------------------------------------------------------------
(* AsyncCachedFunction.__call__.                                           *)

\* _acquire_slot: the key's lock, or a new one.
SlotLock(k) ==
    IF locks[k] # 0 THEN locks[k]
    ELSE CHOOSE i \in LockIds : /\ \A c \in CacheCallers : asks[c].lock # i
                                /\ \A kk \in CacheKeys : locks[kk] # i

Ask(c, k) ==
    /\ asks[c].state \in {"idle", "answered"}
    /\ entries' = Peeked(k) /\ owes' = [owes EXCEPT ![c] = floor[k]]
    /\ IF Found(k) # {}
       THEN /\ asks' = [asks EXCEPT ![c] = [IdleCall EXCEPT !.state = "answered", !.key = k,
                                                       !.value = Hit(k).value]]
            /\ UNCHANGED <<locks, waiting>>
       ELSE /\ locks' = [locks EXCEPT ![k] = SlotLock(k)]
            /\ waiting' = [waiting EXCEPT ![k] = @ + 1]
            /\ asks' = [asks EXCEPT ![c] = [IdleCall EXCEPT !.state = "queued", !.key = k, !.lock = SlotLock(k)]]
    /\ UNCHANGED <<cacheNow, facts, floor>>

\* mutant: the lock is dropped by whoever leaves first.
SlotDropped(k) == locks' = [locks EXCEPT ![k] = 0]

\* _release_slot: the last user of the lock drops it.
SlotReleased(k) == locks' = [locks EXCEPT ![k] = IF waiting[k] = 1 THEN 0 ELSE @]

\* The caller leaves `async with lock` and the finally, with an answer or an error.
LeaveSlot(c, next) ==
    /\ asks' = [asks EXCEPT ![c] = next]
    /\ waiting' = [waiting EXCEPT ![asks[c].key] = @ - 1]
    /\ SlotReleased(asks[c].key)

InLock(c) == asks[c].state \in {"calling", "read", "backoff"}

\* The lock is free: a second look, then the call.  (asyncio.Lock is fair; any order is allowed.)
EnterLock(c) ==
    /\ asks[c].state = "queued"
    /\ ~\E d \in CacheCallers : InLock(d) /\ asks[d].lock = asks[c].lock
    /\ LET k == asks[c].key
       IN /\ entries' = Peeked(k)
          /\ IF Found(k) # {}
             THEN LeaveSlot(c, [IdleCall EXCEPT !.state = "answered", !.key = k, !.value = Hit(k).value])
             ELSE /\ asks' = [asks EXCEPT ![c].state = "calling", ![c].attempt = 1]
                  /\ UNCHANGED <<locks, waiting>>
    /\ UNCHANGED <<cacheNow, facts, floor, owes>>

\* The wrapped function reads what it will return.
ReadFact(c) ==
    /\ asks[c].state = "calling"
    /\ asks' = [asks EXCEPT ![c].state = "read", ![c].value = facts[asks[c].key]]
    /\ UNCHANGED <<cacheNow, facts, entries, locks, waiting, floor, owes>>

\* It returns: the value is stored, then given to the caller.
CallReturns(c) ==
    /\ asks[c].state = "read"
    /\ entries' = Stored(asks[c].key, asks[c].value)
    /\ LeaveSlot(c, [asks[c] EXCEPT !.state = "answered", !.lock = 0, !.attempt = 0])
    /\ UNCHANGED <<cacheNow, facts, floor, owes>>

\* It raises: _delay_after says whether to sleep and try again; an error is not cached.
CallRaises(c, retryable) ==
    /\ asks[c].state \in {"calling", "read"}
    /\ IF retryable /\ asks[c].attempt < CallAttempts
       THEN /\ asks' = [asks EXCEPT ![c].state = "backoff", ![c].value = 0]
            /\ UNCHANGED <<locks, waiting>>
       ELSE LeaveSlot(c, IdleCall)
    /\ UNCHANGED <<cacheNow, facts, entries, floor, owes>>

RetryCall(c) ==
    /\ asks[c].state = "backoff"
    /\ asks' = [asks EXCEPT ![c].state = "calling", ![c].attempt = @ + 1]
    /\ UNCHANGED <<cacheNow, facts, entries, locks, waiting, floor, owes>>

\* Cancelled at the lock, in the call or in the back-off: never retried.
CancelCall(c) ==
    /\ asks[c].state \in {"queued", "calling", "read", "backoff"}
    /\ LeaveSlot(c, IdleCall)
    /\ UNCHANGED <<cacheNow, facts, entries, floor, owes>>

-----------------------------------------------------------------------------
(* cache_invalidate, cache_clear and the world.                            *)

InFlight(k) == {c \in CacheCallers : InLock(c) /\ asks[c].key = k}

\* cache_invalidate for one key, cache_clear for all of them; the locks stay.
Invalidate(ks) ==
    /\ entries' = SelectSeq(entries, LAMBDA e : e.key \notin ks)
    /\ floor' = [k \in CacheKeys |-> IF k \in ks /\ InFlight(k) = {} THEN facts[k] ELSE floor[k]]
    /\ UNCHANGED <<cacheNow, facts, locks, waiting, asks, owes>>

ChangeFact(k) ==
    /\ facts[k] < MaxFacts
    /\ facts' = [facts EXCEPT ![k] = @ + 1]
    /\ UNCHANGED <<cacheNow, entries, locks, waiting, asks, floor, owes>>

CacheTick ==
    /\ cacheNow < MaxCacheTime
    /\ cacheNow' = cacheNow + 1
    /\ UNCHANGED <<facts, entries, locks, waiting, asks, floor, owes>>

CacheNext ==
    \/ CacheTick
    \/ \E k \in CacheKeys : ChangeFact(k) \/ Invalidate({k})
    \/ Invalidate(CacheKeys)
    \/ \E c \in CacheCallers :
          \/ EnterLock(c) \/ ReadFact(c) \/ CallReturns(c) \/ RetryCall(c) \/ CancelCall(c)
          \/ \E k \in CacheKeys : Ask(c, k)
          \/ \E r \in BOOLEAN : CallRaises(c, r)

CacheSpec == CacheInit /\ [][CacheNext]_cacheVars

-----------------------------------------------------------------------------
(* Properties.                                                             *)

\* Concurrent misses of a key collapse into one call, through failures, cancellation,
\* invalidation and clearing; every lock is dropped with its last user; the store keeps its
\* bound; and no caller is given a version older than one invalidated before it called,
\* unless a call for the key was in flight at that moment.
MissesCollapse ==
    /\ \A k \in CacheKeys : Cardinality(InFlight(k)) <= 1
    /\ \A k \in CacheKeys : locks[k] # 0 <=> \E c \in CacheCallers : asks[c].lock # 0 /\ asks[c].key = k
    /\ Len(entries) <= CacheSize
    /\ \A c \in CacheCallers : asks[c].state = "answered" => asks[c].value >= owes[c]
=============================================================================
