------------------------------- MODULE LlmProxy -------------------------------
(***************************************************************************)
(* The LLM proxy filter (src/pkg/filter/llm/proxy/filter.go) and its retry *)
(* policies (src/pkg/cluster/retry): a request tries an endpoint as often  *)
(* as its policy allows and falls back to the next healthy one.  Endpoints *)
(* that failed are skipped until their interval has passed; the failures   *)
(* are kept in a bounded store that all requests and all reloads of the    *)
(* filter share.  Time is what an entry of the store needs of it: whether  *)
(* its interval has passed.                                                *)
(***************************************************************************)
EXTENDS Naturals, Sequences, SequencesExt, FiniteSets

CONSTANTS
    Request,
    Endpoint,      \* the endpoints of the cluster
    Nothing,
    Fallback,      \* those that fall back
    NoPolicy,      \* those whose retry policy cannot be built
    MaxAttempts,   \* of the retry policy: one try and its retries
    MaxEntries,    \* maxCooldownStoreEntries, scaled down
    MaxFailures,   \* failures recorded
    MaxChanges     \* changes of the cluster's endpoints

VARIABLES
    order,         \* the endpoints of the cluster's snapshot, in order
    healthy,
    store,         \* recencyOrder with its entries, the oldest first
    stamp,         \* failures recorded so far, the time of the next one
    req,
    changes,
    lost           \* a request deleted a failure before its time

vars == <<order, healthy, store, stamp, req, changes, lost>>

Idle == [pc |-> "idle", endpoint |-> Nothing, tries |-> 0, seen |-> 0, visited |-> <<>>,
         moved |-> FALSE, answer |-> "none"]

Init ==
    /\ order = SetToSeq(Endpoint) /\ healthy = Endpoint
    /\ store = <<>> /\ stamp = 0
    /\ req = [r \in Request |-> Idle]
    /\ changes = 0
    /\ lost = FALSE

InStore(e) == \E i \in DOMAIN store : store[i].endpoint = e
Entry(e) == store[CHOOSE i \in DOMAIN store : store[i].endpoint = e]
Without(s, e) == SelectSeq(s, LAMBDA x : x.endpoint # e)

\* sweepExpiredExceptLocked: any lookup or failure may find that a sweep is due.
Swept(s, e) == {s, SelectSeq(s, LAMBDA x : x.endpoint = e \/ ~x.passed)}

\* PickNextEndpoint: the next healthy one behind this one, none when it is gone.
PickNextEndpoint(e) ==
    LET at == {i \in DOMAIN order : order[i] = e}
        behind == SelectSeq(order, LAMBDA f : /\ f \in healthy
                                              /\ \E i, j \in DOMAIN order :
                                                   order[i] = e /\ order[j] = f /\ i < j)
    IN  IF at = {} \/ behind = <<>> THEN Nothing ELSE behind[1]

getNextFallbackEndpoint(e) == IF e \in Fallback THEN PickNextEndpoint(e) ELSE Nothing

\* The request goes on with an endpoint; without one it ends, with the last
\* response if there was one.
Proceed(r, e) ==
    req' = [req EXCEPT ![r].endpoint = e, ![r].tries = 0,
              ![r].pc = IF e = Nothing THEN "done" ELSE "cooldown",
              ![r].answer = IF e = Nothing /\ @ = "none" THEN "unavailable" ELSE @]

\* The balancer's choice, or the endpoint that the key-value cache prefers.
Execute(r) ==
    /\ req[r].pc = "idle"
    /\ \/ \E e \in healthy \cap ToSet(order) : Proceed(r, e)
       \/ healthy \cap ToSet(order) = {} /\ Proceed(r, Nothing)
    /\ UNCHANGED <<order, healthy, store, stamp, changes, lost>>

\* lastFailureWithCurrentTTL, under the lock: a failure whose interval has not
\* passed skips the endpoint; one whose interval has passed is to be deleted.
endpointInCooldown(r) ==
    LET e == req[r].endpoint
    IN  /\ req[r].pc = "cooldown"
        /\ store' \in Swept(store, e)
        /\ \/ /\ ~InStore(e)
              /\ req' = [req EXCEPT ![r].pc = "policy"]
           \/ /\ InStore(e) /\ ~Entry(e).passed
              /\ Proceed(r, getNextFallbackEndpoint(e))
           \/ /\ InStore(e) /\ Entry(e).passed
              /\ req' = [req EXCEPT ![r].pc = "delete", ![r].seen = Entry(e).stamp]
        /\ UNCHANGED <<order, healthy, stamp, changes, lost>>

\* Mutant: whatever failure the endpoint has by now is deleted.
deleteLastFailure(r) ==
    LET e == req[r].endpoint
    IN  /\ req[r].pc = "delete"
        /\ store' = Without(store, e)
        /\ lost' = (lost \/ (InStore(e) /\ ~Entry(e).passed))
        /\ req' = [req EXCEPT ![r].pc = "policy"]
        /\ UNCHANGED <<order, healthy, stamp, changes>>

deleteLastFailureIfMatches(r) ==
    LET e == req[r].endpoint
        match == InStore(e) /\ Entry(e).stamp = req[r].seen
    IN  /\ req[r].pc = "delete"
        /\ store' = IF match THEN Without(store, e) ELSE store
        /\ lost' = (lost \/ (match /\ ~Entry(e).passed))
        /\ req' = [req EXCEPT ![r].pc = "policy"]
        /\ UNCHANGED <<order, healthy, stamp, changes>>

\* The policy of the endpoint; one that cannot be built passes it over.
GetRetryPolicy(r) ==
    LET e == req[r].endpoint
    IN  /\ req[r].pc = "policy"
        /\ \/ e \in NoPolicy /\ Proceed(r, getNextFallbackEndpoint(e))
           \/ /\ e \notin NoPolicy
              /\ req' = [req EXCEPT ![r].pc = "try", ![r].visited = Append(@, e)]
        /\ UNCHANGED <<order, healthy, store, stamp, changes, lost>>

\* An attempt: a response that is a success ends the request, another one is
\* retried, an error breaks the loop.
Attempt(r) ==
    /\ req[r].pc = "try" /\ req[r].tries < MaxAttempts
    /\ \/ req' = [req EXCEPT ![r].pc = "done", ![r].answer = "ok"]
       \/ req' = [req EXCEPT ![r].tries = @ + 1, ![r].answer = "status"]
       \/ req' = [req EXCEPT ![r].pc = "failed", ![r].answer = "none"]
    /\ UNCHANGED <<order, healthy, store, stamp, changes, lost>>

Exhausted(r) ==
    /\ req[r].pc = "try" /\ req[r].tries = MaxAttempts
    /\ req' = [req EXCEPT ![r].pc = "failed"]
    /\ UNCHANGED <<order, healthy, store, stamp, changes, lost>>

evictOldestIfFullLocked(s) == IF Len(s) < MaxEntries THEN s ELSE Tail(s)

\* markFailure: the failure becomes the newest; a new endpoint may evict the
\* oldest one.  Then the next endpoint.
markEndpointCooldown(r) ==
    LET e == req[r].endpoint
        new == [endpoint |-> e, stamp |-> stamp + 1, passed |-> FALSE]
    IN  /\ req[r].pc = "failed" /\ stamp < MaxFailures
        /\ stamp' = stamp + 1
        /\ \E swept \in Swept(store, e) :
             LET room == IF InStore(e) THEN Without(swept, e) ELSE evictOldestIfFullLocked(swept)
             IN  store' = Append(room, new)
        /\ Proceed(r, getNextFallbackEndpoint(e))
        /\ UNCHANGED <<order, healthy, changes, lost>>

\* An interval passes.
Passes(i) ==
    /\ ~store[i].passed
    /\ store' = [store EXCEPT ![i].passed = TRUE]
    /\ UNCHANGED <<order, healthy, stamp, req, changes, lost>>

\* The cluster's endpoints change while requests are under way.
Change ==
    /\ changes < MaxChanges /\ changes' = changes + 1
    /\ \/ /\ \E l \in SetToSeqs(Endpoint) \cup {Front(order)} : order' = l
          /\ UNCHANGED healthy
       \/ \E e \in Endpoint :
            /\ healthy' = IF e \in healthy THEN healthy \ {e} ELSE healthy \cup {e}
            /\ UNCHANGED order
    /\ req' = [r \in Request |-> [req[r] EXCEPT !.moved = req[r].pc # "idle"]]
    /\ UNCHANGED <<store, stamp, lost>>

Answered(r) ==
    /\ req[r].pc = "done"
    /\ req' = [req EXCEPT ![r] = Idle]
    /\ UNCHANGED <<order, healthy, store, stamp, changes, lost>>

Step(r) ==
    \/ endpointInCooldown(r) \/ deleteLastFailureIfMatches(r) \/ GetRetryPolicy(r)
    \/ Attempt(r) \/ Exhausted(r) \/ markEndpointCooldown(r)

Next ==
    \/ \E r \in Request : Execute(r) \/ Step(r) \/ Answered(r)
    \/ \E i \in DOMAIN store : Passes(i)
    \/ Change

Spec == Init /\ [][Next]_vars

-----------------------------------------------------------------------------
\* A failure is not forgotten before its interval has passed: a request that
\* found an old failure passed does not delete the newer one that another
\* request recorded since it looked (deleteLastFailureIfMatches).
FailuresAreKept == ~lost

\* One entry per endpoint, and no more than fit, whatever requests do to the
\* store at the same time.
StoreIsBounded ==
    /\ Len(store) <= MaxEntries
    /\ \A i, j \in DOMAIN store : store[i].endpoint = store[j].endpoint => i = j

\* A request tries an endpoint once, with its retries, as long as the cluster
\* stays as it is: falling back always goes forward, past endpoints that are
\* cooling down, unhealthy or without a policy (NextHealthyEndpoint).
TriedOnce ==
    \A r \in Request : ~req[r].moved =>
        \A i, j \in DOMAIN req[r].visited : req[r].visited[i] = req[r].visited[j] => i = j

\* Failures are kept for their interval and within their bound, and no request
\* tries an endpoint twice.
FailoverIsSound == FailuresAreKept /\ StoreIsBounded /\ TriedOnce
=============================================================================
