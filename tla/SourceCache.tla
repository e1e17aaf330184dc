----------------------------- MODULE SourceCache ----------------------------
(***************************************************************************)
(* Source.get_json of src/sources/base.py: what a caller is given when a   *)
(* public source answers, fails, or comes back, over the cache in          *)
(* source_cache (cache_put, cache_get of src/db.py).  Payloads are         *)
(* versions: the source's data changes, and each change is a new version.  *)
(***************************************************************************)
EXTENDS Naturals

CONSTANTS
  Callers,    \* processes asking for the same cache key
  FreshFor,   \* max_age_hours: how long the cache answers unasked
  MaxAge,     \* max_cache_age_hours: what is older is stale
  Retries,    \* attempts of one call
  Horizon     \* bounds the clock, in hours

ASSUME AgeAssumption == FreshFor \in Nat /\ MaxAge \in Nat /\ FreshFor <= MaxAge

VARIABLES
  hour,       \* the clock
  version,    \* what the source would answer now
  reachable,  \* whether it answers at all
  cache,      \* the cached copy: [version, at], or None
  ask,        \* caller -> [at, tried, got]
  answer      \* caller -> the FetchResult of its last call, or None

cacheVars == <<hour, version, reachable, cache, ask, answer>>

None == [none |-> TRUE]

Copy(v, t) == [version |-> v, at |-> t]

Result(copy, fromCache, stale) ==
  [version |-> copy.version, at |-> copy.at, cached |-> fromCache, stale |-> stale]

CacheInit ==
  /\ hour = 0 /\ version = 0 /\ reachable = TRUE /\ cache = None
  /\ ask = [c \in Callers |-> [at |-> "idle", tried |-> 0, got |-> 0]]
  /\ answer = [c \in Callers |-> None]

Age(copy) == hour - copy.at

Give(c, result) ==
  /\ answer' = [answer EXCEPT ![c] = result]
  /\ ask' = [ask EXCEPT ![c] = [at |-> "idle", tried |-> 0, got |-> 0]]

\* The cache is asked first, unless `force` is set.
GetJson(c) ==
  /\ ask[c].at = "idle"
  /\ \E force \in BOOLEAN :
       IF ~force /\ cache # None /\ Age(cache) <= FreshFor
       THEN Give(c, Result(cache, TRUE, FALSE))
       ELSE ask' = [ask EXCEPT ![c].at = "try"] /\ UNCHANGED answer
  /\ UNCHANGED <<hour, version, reachable, cache>>

Attempt(c) ==
  /\ ask[c].at = "try"
  /\ ask[c].tried < Retries
  /\ ask' = [ask EXCEPT ![c].tried = @ + 1,
                        ![c].at = IF reachable THEN "put" ELSE "try",
                        ![c].got = IF reachable THEN version ELSE 0]
  /\ UNCHANGED <<hour, version, reachable, cache, answer>>

\* cache_put is inside the try: when it fails, so has the attempt.
Put(c) ==
  /\ ask[c].at = "put"
  /\ \/ /\ cache' = Copy(ask[c].got, hour)
        /\ Give(c, Result(Copy(ask[c].got, hour), FALSE, FALSE))
     \/ /\ ask' = [ask EXCEPT ![c].at = "try"]
        /\ UNCHANGED <<cache, answer>>
  /\ UNCHANGED <<hour, version, reachable>>

FallBackUnflagged(c) ==
  /\ ask[c].at = "try" /\ ask[c].tried = Retries
  /\ Give(c, IF cache = None THEN None ELSE Result(cache, TRUE, FALSE))
  /\ UNCHANGED <<hour, version, reachable, cache>>

\* Every attempt failed: the cached copy whatever its age, or the exception.
FallBack(c) ==
  /\ ask[c].at = "try" /\ ask[c].tried = Retries
  /\ Give(c, IF cache = None THEN None ELSE Result(cache, TRUE, Age(cache) > MaxAge))
  /\ UNCHANGED <<hour, version, reachable, cache>>

\* Calls last seconds, or, with the network hanging, into the next hour.
Tick ==
  /\ hour < Horizon
  /\ hour' = hour + 1
  /\ UNCHANGED <<version, reachable, cache, ask, answer>>

Publish ==
  /\ version < Horizon
  /\ version' = version + 1
  /\ UNCHANGED <<hour, reachable, cache, ask, answer>>

Outage ==
  /\ reachable' = ~reachable
  /\ UNCHANGED <<hour, version, cache, ask, answer>>

CacheNext ==
  \/ \E c \in Callers : GetJson(c) \/ Attempt(c) \/ Put(c) \/ FallBack(c)
  \/ Tick \/ Publish \/ Outage

CacheSpec == CacheInit /\ [][CacheNext]_cacheVars

-----------------------------------------------------------------------------
(***************************************************************************)
(* Old data is never given as if it were live: an answer more than         *)
(* MaxAge hours old when it is given says so (src/sources/base.py:146),    *)
(* whatever other callers put in the cache meanwhile.                      *)
(***************************************************************************)
OldIsFlagged ==
  [][\A c \in Callers :
       answer'[c] # answer[c] /\ answer'[c] # None =>
         /\ hour - answer'[c].at > MaxAge => answer'[c].stale
         /\ ~answer'[c].cached => answer'[c].at = hour]_cacheVars
=============================================================================
