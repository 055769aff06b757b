------------------------------- MODULE KvCache -------------------------------
(***************************************************************************)
(* The AI key-value cache filter (src/pkg/filter/ai/kvcache), in the parts *)
(* that share no state with each other.                                    *)
(*                                                                         *)
(* The circuit breaker (circuit_breaker.go) under the calls of the filter  *)
(* (doRequestWithRetry of lmcache_client.go, tokenize of token_manager.go):*)
(* a call is admitted under the lock, runs without it and reports its      *)
(* result under the lock, when the breaker may have changed several times. *)
(* A refused call is not retried; a failed one is.                         *)
(*                                                                         *)
(* The token cache: the request looks its tokens up and, when they are     *)
(* there, asks LMCache which instance to prefer; a goroutine of its own    *)
(* then tokenizes what is not cached, stores it, looks the tokens up and   *)
(* acts on what it finds.  The cache is a sync.Map with an atomic counter  *)
(* beside it: entry and counter change in two steps.                       *)
(*                                                                         *)
(* The hot prompts (RecordHot and IsHot of token_manager.go): the times of *)
(* the requests for each prompt are kept for a window, cut to a number of  *)
(* records, swept now and then, and bounded by a number of prompts, of     *)
(* which the one that was seen last stays longest.                         *)
(***************************************************************************)
EXTENDS Integers, Sequences, FiniteSets

CONSTANTS
    NoKey,
    Caller,             \* calls through the breaker
    FailureThreshold,   \* at least one, after ApplyDefaults
    HalfOpenMaxCalls,   \* at least one, after ApplyDefaults
    MaxAttempts,        \* of doRequestWithRetry
    MaxCalls,           \* calls admitted
    Asker,              \* requests with their goroutines
    Key,                \* prompts with their model, in the token cache
    MaxSize,            \* of the token cache
    MaxRequests,
    Prompt,             \* prompts that may be hot
    Window,             \* hotWindow; a sweep is due after half of it
    HotMax,             \* hot_max_records
    Threshold,          \* hot_content_threshold
    MaxTime,
    MaxRecords          \* requests for prompts

VARIABLES
    state,              \* "closed", "open" or "half"
    failureCount,
    halfOpenCalls,
    recovered,          \* RecoveryTimeout has passed since lastFailTime
    caller,
    calls,
    cached,             \* the keys in the map
    expired,            \* those whose TTL has passed
    cacheSize,          \* the counter
    asker,
    requests,
    now,
    hotMap,             \* the times of each prompt, oldest first
    hotMaxKeys,         \* hot_max_keys, zero for no bound
    lastSweep,
    history             \* every request: its prompt and its time

\* What the proofs assume of the constants.  ApplyDefaults makes the threshold
\* positive; a cache whose MaxSize is zero has no bound and no evictions.
KvConstants ==
    /\ FailureThreshold \in Nat \ {0}
    /\ IsFiniteSet(Asker) /\ MaxSize \in Nat \ {0}

-----------------------------------------------------------------------------
(* The circuit breaker                                                     *)

breakerVars == <<state, failureCount, halfOpenCalls, recovered, caller, calls>>

NoCall == [pc |-> "idle", attempt |-> 0, probe |-> FALSE]

BreakerInit ==
    /\ state = "closed" /\ failureCount = 0 /\ halfOpenCalls = 0
    /\ recovered = FALSE
    /\ caller = [c \in Caller |-> NoCall]
    /\ calls = 0

\* The call goes out; probe says that it went out half open.
Admit(c, probe) ==
    /\ calls < MaxCalls /\ calls' = calls + 1
    /\ caller' = [caller EXCEPT ![c] = [pc |-> "call", attempt |-> @.attempt + 1, probe |-> probe]]

\* allow: the call that finds the timeout passed is a probe that is not counted.
allow(c) ==
    /\ caller[c].pc \in {"idle", "retry"}
    /\ \/ /\ state = "closed" /\ Admit(c, FALSE)
          /\ UNCHANGED <<state, halfOpenCalls>>
       \/ /\ state = "open" /\ recovered
          /\ state' = "half" /\ halfOpenCalls' = 0
          /\ Admit(c, TRUE)
       \/ /\ state = "half" /\ halfOpenCalls < HalfOpenMaxCalls
          /\ halfOpenCalls' = halfOpenCalls + 1
          /\ Admit(c, TRUE)
          /\ UNCHANGED state
       \/ /\ \/ state = "open" /\ ~recovered
             \/ state = "half" /\ halfOpenCalls >= HalfOpenMaxCalls
          /\ caller' = [caller EXCEPT ![c] = NoCall]
          /\ UNCHANGED <<state, halfOpenCalls, calls>>
    /\ UNCHANGED <<failureCount, recovered>>

\* A success closes the breaker, also one that went out before it opened; a
\* failure opens it once there are enough in a row.
recordResult(c, ok) ==
    /\ caller[c].pc = "call"
    /\ \/ /\ ok /\ failureCount' = 0 /\ state' = "closed"
          /\ halfOpenCalls' = IF state = "closed" THEN halfOpenCalls ELSE 0
          /\ caller' = [caller EXCEPT ![c] = NoCall]
          /\ UNCHANGED recovered
       \/ /\ ~ok /\ failureCount' = failureCount + 1
          /\ recovered' = FALSE
          /\ state' = IF failureCount' >= FailureThreshold THEN "open" ELSE state
          /\ caller' = [caller EXCEPT ![c] =
                IF @.attempt < MaxAttempts THEN [@ EXCEPT !.pc = "retry"] ELSE NoCall]
          /\ UNCHANGED halfOpenCalls
    /\ UNCHANGED calls

\* The context of a call ends while it waits for its next attempt.
GiveUp(c) ==
    /\ caller[c].pc = "retry"
    /\ caller' = [caller EXCEPT ![c] = NoCall]
    /\ UNCHANGED <<state, failureCount, halfOpenCalls, recovered, calls>>

RecoveryTimeout ==
    /\ state # "closed" /\ ~recovered
    /\ recovered' = TRUE
    /\ UNCHANGED <<state, failureCount, halfOpenCalls, caller, calls>>

BreakerNext ==
    \/ \E c \in Caller :
         allow(c) \/ GiveUp(c) \/ \E ok \in BOOLEAN : recordResult(c, ok)
    \/ RecoveryTimeout

BreakerSpec == BreakerInit /\ [][BreakerNext]_breakerVars

-----------------------------------------------------------------------------
\* A breaker that is half open is never stuck: a probe is under way whose result
\* will close it or open it again, whatever late results of earlier calls came
\* between.  Nothing else leaves this state, for there is no timeout in it.
HalfOpenIsProbed == state = "half" => \E c \in Caller : caller[c].pc = "call" /\ caller[c].probe

-----------------------------------------------------------------------------
(* The token cache                                                         *)

tokenVars == <<cached, expired, cacheSize, asker, requests>>

NoRequest == [pc |-> "idle", key |-> NoKey, lookup |-> FALSE, then |-> "idle"]

TokensInit ==
    /\ cached = {} /\ expired = {} /\ cacheSize = 0
    /\ asker = [c \in Asker |-> NoRequest]
    /\ requests = 0

Go(c, pc) == asker' = [asker EXCEPT ![c].pc = pc]

\* tryRouteToCachedInstance, then the goroutine: an expired entry is deleted.
Decode(c, k) ==
    /\ asker[c].pc = "idle" /\ requests < MaxRequests
    /\ requests' = requests + 1
    /\ asker' = [asker EXCEPT ![c] = [NoRequest EXCEPT !.key = k,
          !.pc = IF k \in cached /\ k \in expired THEN "drop"
                 ELSE IF k \in cached THEN "route" ELSE "manage",
          !.then = "manage"]]
    /\ UNCHANGED <<cached, expired, cacheSize>>

\* The lookup that routes may fail or name no instance.
RouteLookup(c) ==
    /\ asker[c].pc = "route"
    /\ \E done \in BOOLEAN : asker' = [asker EXCEPT ![c].pc = "manage", ![c].lookup = done]
    /\ UNCHANGED <<cached, expired, cacheSize, requests>>

\* The tokens of the cache, unless they expired; else the tokenizer is asked.
GetTokens(c) ==
    LET k == asker[c].key
    IN  \/ k \in cached /\ k \notin expired /\ Go(c, "strategy")
        \/ /\ k \in cached /\ k \in expired
           /\ asker' = [asker EXCEPT ![c].pc = "drop", ![c].then = "tokenize"]
        \/ k \notin cached /\ Go(c, "tokenize")

\* The goroutine; a context that ended stops it.
manageCache(c) ==
    /\ asker[c].pc = "manage"
    /\ asker' = [asker EXCEPT ![c] = NoRequest] \/ GetTokens(c)
    /\ UNCHANGED <<cached, expired, cacheSize, requests>>

\* Mutant: the counter goes down whether or not the entry was still there.
deleteAnyway(c) ==
    LET k == asker[c].key
    IN  /\ asker[c].pc = "drop"
        /\ cached' = cached \ {k} /\ expired' = expired \ {k}
        /\ Go(c, "decrement")
        /\ UNCHANGED <<cacheSize, requests>>

\* deleteCache: only who took the entry out counts it down.
deleteCache(c) ==
    LET k == asker[c].key
    IN  /\ asker[c].pc = "drop"
        /\ cached' = cached \ {k} /\ expired' = expired \ {k}
        /\ Go(c, IF k \in cached THEN "decrement" ELSE asker[c].then)
        /\ UNCHANGED <<cacheSize, requests>>

CountDown(c) ==
    /\ asker[c].pc = "decrement"
    /\ cacheSize' = cacheSize - 1
    /\ Go(c, asker[c].then)
    /\ UNCHANGED <<cached, expired, requests>>

\* The tokenizer answers, or fails, or the breaker refuses.
tokenize(c) ==
    /\ asker[c].pc = "tokenize"
    /\ Go(c, "room") \/ asker' = [asker EXCEPT ![c] = NoRequest]
    /\ UNCHANGED <<cached, expired, cacheSize, requests>>

\* storeCache makes room: evictOne takes any key while the counter is at the
\* bound, and gives up on an empty map.
evictOne(c) ==
    /\ asker[c].pc = "room"
    /\ \/ cacheSize < MaxSize /\ Go(c, "store") /\ UNCHANGED <<cached, expired>>
       \/ cacheSize >= MaxSize /\ cached = {} /\ Go(c, "store") /\ UNCHANGED <<cached, expired>>
       \/ /\ cacheSize >= MaxSize
          /\ \E k \in cached : cached' = cached \ {k} /\ expired' = expired \ {k}
          /\ asker' = [asker EXCEPT ![c].pc = "decrement", ![c].then = "room"]
    /\ UNCHANGED <<cacheSize, requests>>

\* An entry that is there, expired or not, stays.
storeCache(c) ==
    LET k == asker[c].key
    IN  /\ asker[c].pc = "store"
        /\ cached' = cached \cup {k}
        /\ Go(c, IF k \in cached THEN "strategy" ELSE "increment")
        /\ UNCHANGED <<expired, cacheSize, requests>>

CountUp(c) ==
    /\ asker[c].pc = "increment"
    /\ cacheSize' = cacheSize + 1
    /\ Go(c, "strategy")
    /\ UNCHANGED <<cached, expired, requests>>

\* The lookup, unless the route has it, and what the strategy decides; each call
\* may fail and ends the goroutine.
MakeDecision(c) ==
    /\ asker[c].pc = "strategy"
    /\ asker' = [asker EXCEPT ![c] = NoRequest]
    /\ UNCHANGED <<cached, expired, cacheSize, requests>>

Expires(k) ==
    /\ k \in cached \ expired
    /\ expired' = expired \cup {k}
    /\ UNCHANGED <<cached, cacheSize, asker, requests>>

TokensNext ==
    \/ \E c \in Asker :
         \/ \E k \in Key : Decode(c, k)
         \/ RouteLookup(c) \/ manageCache(c) \/ deleteCache(c) \/ CountDown(c) \/ tokenize(c)
         \/ evictOne(c) \/ storeCache(c) \/ CountUp(c) \/ MakeDecision(c)
    \/ \E k \in Key : Expires(k)

TokensSpec == TokensInit /\ [][TokensNext]_tokenVars

-----------------------------------------------------------------------------
Counting(pc) == Cardinality({c \in Asker : asker[c].pc = pc})

\* The counter follows the map: it is off by the steps that are under way and
\* nothing else, so deletions and evictions of the same key by several requests
\* do not let it drift (deleteCache, storeCache).
CounterFollowsTheMap ==
    cacheSize + Counting("increment") - Counting("decrement") = Cardinality(cached)

\* The cache outgrows its bound by the other requests that store at the same
\* moment and no further (storeCache's loop over evictOne).
CacheIsBounded == Cardinality(cached) <= MaxSize + Cardinality(Asker) - 1

-----------------------------------------------------------------------------
(* The hot prompts                                                         *)

promptVars == <<now, hotMap, hotMaxKeys, lastSweep, history>>

PromptsInit ==
    /\ now = 1 /\ lastSweep = 0
    /\ hotMap = [k \in Prompt |-> <<>>]
    /\ hotMaxKeys \in {0, 1}
    /\ history = <<>>

trimHotWindow(entries) == SelectSeq(entries, LAMBDA t : t + Window >= now)

\* The window, and the newest records of it.
Trimmed(entries) ==
    LET e == trimHotWindow(entries)
    IN  IF Len(e) > HotMax THEN SubSeq(e, Len(e) - HotMax + 1, Len(e)) ELSE e

maybeSweepHotMap(map) ==
    IF lastSweep = 0 \/ now - lastSweep >= Window \div 2
    THEN [k \in Prompt |-> Trimmed(map[k])] ELSE map

LastSeen(map, k) == map[k][Len(map[k])]

\* Over the bound: what has expired goes, then those that were seen longest ago,
\* any of them when two were seen at the same time.
enforceHotMapLimit(map) ==
    LET trimmed == [k \in Prompt |-> Trimmed(map[k])]
        held == {k \in Prompt : trimmed[k] # <<>>}
        kept == {S \in SUBSET held :
                   /\ Cardinality(S) = hotMaxKeys
                   /\ \A k \in S, j \in held \ S : LastSeen(trimmed, j) <= LastSeen(trimmed, k)}
    IN  IF hotMaxKeys = 0 \/ Cardinality({k \in Prompt : map[k] # <<>>}) <= hotMaxKeys THEN {map}
        ELSE IF Cardinality(held) <= hotMaxKeys THEN {trimmed}
        ELSE {[k \in Prompt |-> IF k \in S THEN trimmed[k] ELSE <<>>] : S \in kept}

RecordHot(k) ==
    /\ Len(history) < MaxRecords
    /\ history' = Append(history, [key |-> k, at |-> now])
    /\ LET swept == maybeSweepHotMap(hotMap)
       IN  hotMap' \in enforceHotMapLimit([swept EXCEPT ![k] = Trimmed(Append(@, now))])
    /\ lastSweep' = IF lastSweep = 0 \/ now - lastSweep >= Window \div 2 THEN now ELSE lastSweep
    /\ UNCHANGED <<now, hotMaxKeys>>

\* IsHot: it also stores what it has trimmed.
IsHot(k) == Len(Trimmed(hotMap[k])) >= Threshold

AskHot(k) ==
    /\ hotMap' = [hotMap EXCEPT ![k] = Trimmed(@)]
    /\ UNCHANGED <<now, hotMaxKeys, lastSweep, history>>

Tick ==
    /\ now < MaxTime /\ now' = now + 1
    /\ UNCHANGED <<hotMap, hotMaxKeys, lastSweep, history>>

PromptsNext == (\E k \in Prompt : RecordHot(k) \/ AskHot(k)) \/ Tick

PromptsSpec == PromptsInit /\ [][PromptsNext]_promptVars

-----------------------------------------------------------------------------
\* A prompt is hot exactly when the window holds enough requests for it: neither
\* sweeps nor the cut of the records nor questions between them lose one that
\* counts or keep one that does not.  With a bound on the prompts a hot one may
\* be forgotten, and nothing is taken for hot that is not.
HotIsExact ==
    \A k \in Prompt :
        LET recent == Len(SelectSeq(history, LAMBDA h : h.key = k /\ h.at + Window >= now))
        IN  /\ IsHot(k) => recent >= Threshold
            /\ hotMaxKeys = 0 /\ recent >= Threshold => IsHot(k)

\* The bound on the prompts holds after every request, and the prompts that are
\* kept were not seen before those that were dropped.
PromptsAreBounded ==
    LET held == {k \in Prompt : hotMap[k] # <<>>}
    IN  hotMaxKeys > 0 =>
          /\ Cardinality(held) <= hotMaxKeys
          /\ \A i \in DOMAIN history : i = Len(history) =>
               \A k \in held : LastSeen(hotMap, k) = history[i].at

-----------------------------------------------------------------------------
\* The filter keeps its own bookkeeping true under concurrent requests: a half
\* open breaker is being probed, the counter of the token cache follows its map
\* and its bound holds, and a prompt is hot exactly when the window says so.
KvCacheIsSound ==
    HalfOpenIsProbed /\ CounterFollowsTheMap /\ CacheIsBounded /\ HotIsExact /\ PromptsAreBounded
=============================================================================
