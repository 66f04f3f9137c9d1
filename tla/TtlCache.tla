------------------------------ MODULE TtlCache ------------------------------
(***************************************************************************)
(* market-data/cache/ttl-manager.js: MarketDataCache, under a TTLManager   *)
(* that gives each kind of data its time to live. The entry last accessed  *)
(* longest ago is evicted when the cache is full; a read starts a new time *)
(* to live, the same for every kind. All kinds share the key of a market.  *)
(***************************************************************************)
EXTENDS Integers, FiniteSets

CONSTANTS
  Keys,
  ShortTTL, LongTTL, \* of the kinds of data: order books, user preferences
  ReadTTL,           \* min(5 minutes, 2 * defaultTTL), which a read gives
  MaxCacheSize,
  Horizon            \* bound: reading of the clock

ASSUME CacheConstantsAssumption ==
  /\ IsFiniteSet(Keys)
  /\ {ShortTTL, LongTTL, ReadTTL, MaxCacheSize, Horizon} \subseteq Nat \ {0}

VARIABLES
  cache,             \* the keys that have an entry
  expiresAt,         \* per key, of its entry
  accessHistory,     \* the keys with a time of access
  accessTime,        \* per key, that time
  hour,
  lastSet, lastRead  \* history: per key, when its entry was set, and read (0: never)

cacheVars == <<cache, expiresAt, accessHistory, accessTime, hour, lastSet, lastRead>>

CacheInit ==
  /\ cache = {} /\ accessHistory = {}
  /\ expiresAt = [k \in Keys |-> 0]
  /\ accessTime = [k \in Keys |-> 0]
  /\ hour = 1
  /\ lastSet = [k \in Keys |-> 0]
  /\ lastRead = [k \in Keys |-> 0]

-----------------------------------------------------------------------------
\* Mutant: an entry is evicted only when the cache is over its size.
OverFull == Cardinality(cache) > MaxCacheSize
Full == Cardinality(cache) >= MaxCacheSize

\* _evictOldest. Of several keys of that time the code takes the first of its
\* map; here it may be any.
Oldest == {k \in accessHistory : \A j \in accessHistory : accessTime[k] <= accessTime[j]}

\* set, which looks at the size before it looks whether the key is there.
setEntry(k, ttl) ==
  \E evicted \in IF Full THEN {{j} : j \in Oldest} ELSE {{}} :
    /\ cache' = (cache \ evicted) \union {k}
    /\ accessHistory' = (accessHistory \ evicted) \union {k}
    /\ expiresAt' = [expiresAt EXCEPT ![k] = hour + ttl]
    /\ accessTime' = [accessTime EXCEPT ![k] = hour]
    /\ lastSet' = [lastSet EXCEPT ![k] = hour]
    /\ lastRead' = [lastRead EXCEPT ![k] = 0]
    /\ UNCHANGED hour

RemoveEntries(ks) ==
  /\ cache' = cache \ ks
  /\ accessHistory' = accessHistory \ ks
  /\ UNCHANGED <<expiresAt, accessTime, hour, lastSet, lastRead>>

Expired(k) == hour > expiresAt[k]

\* get, with the entry's onAccess.
getEntry(k) ==
  /\ k \in cache
  /\ IF Expired(k)
       THEN RemoveEntries({k})
       ELSE /\ expiresAt' = [expiresAt EXCEPT ![k] = hour + ReadTTL]
            /\ accessHistory' = accessHistory \union {k}
            /\ accessTime' = [accessTime EXCEPT ![k] = hour]
            /\ lastRead' = [lastRead EXCEPT ![k] = hour]
            /\ UNCHANGED <<cache, hour, lastSet>>

cleanupExpired == RemoveEntries({k \in cache : Expired(k)})

\* invalidate; invalidateType, whose kind of data decides nothing: the time to
\* live that it sets first (the only use of setTTL) is deleted with the entry.
invalidate(k) == RemoveEntries({k})

clear == RemoveEntries(Keys)

CacheTick ==
  /\ hour < Horizon
  /\ hour' = hour + 1
  /\ UNCHANGED <<cache, expiresAt, accessHistory, accessTime, lastSet, lastRead>>

CacheNext ==
  \/ \E k \in Keys : \/ \E ttl \in {ShortTTL, LongTTL} : setEntry(k, ttl)
                     \/ getEntry(k)
                     \/ invalidate(k)
  \/ cleanupExpired \/ clear
  \/ CacheTick

CacheSpec == CacheInit /\ [][CacheNext]_cacheVars

-----------------------------------------------------------------------------
CacheTypeOK ==
  /\ cache \subseteq Keys /\ accessHistory \subseteq Keys
  /\ expiresAt \in [Keys -> Nat] /\ accessTime \in [Keys -> 0 .. Horizon]
  /\ hour \in 1 .. Horizon
  /\ lastSet \in [Keys -> 0 .. Horizon] /\ lastRead \in [Keys -> 0 .. Horizon]

\* The cache never outgrows its size, and its two maps have the same keys, so
\* that every entry can be evicted. An entry expires by its own time to live
\* only if it was never read: a read gives an order book a longer life than its
\* own, again and again, and user preferences a shorter one.
CacheAccounted ==
  /\ Cardinality(cache) <= MaxCacheSize
  /\ accessHistory = cache
  /\ \A k \in cache :
       /\ accessTime[k] = IF lastRead[k] > 0 THEN lastRead[k] ELSE lastSet[k]
       /\ expiresAt[k] \in IF lastRead[k] > 0
                             THEN {lastRead[k] + ReadTTL}
                             ELSE {lastSet[k] + ShortTTL, lastSet[k] + LongTTL}

=============================================================================
