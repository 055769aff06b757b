------------------------------- MODULE SpringCloud -------------------------------
(***************************************************************************)
(* The Spring Cloud adapter on a Nacos registry: the first fetch, the      *)
(* subscription callbacks and the periodic reconciliation that compares    *)
(* and sets the whole cluster store (pkg/adapter/springcloud/cloud.go,     *)
(* servicediscovery/nacos/nacos.go).                                       *)
(*                                                                         *)
(* An instance belongs to one service, which is a cluster and a route of   *)
(* the same name.  Its value stands for address and metadata.  The         *)
(* registry and its client, which calls back per service, are external.    *)
(***************************************************************************)
EXTENDS Naturals, FiniteSets, Functions

CONSTANTS
    Service, Instance, ServiceOf, Value, Nothing,
    First,      \* the registry at the start
    PageSize,   \* services in the one page of the list that is read
    MaxEdits, MaxFaults

VARIABLES
    registry,       \* Instance -> Value or Nothing
    pushes,         \* services the client has to call back for
    subscribed,     \* services with a callback
    instanceMap,    \* the discovery's cache, of all services together
    callback,       \* Service -> events a callback still has to deliver, or Nothing
    currentService,
    endpoints,      \* the cluster store: Instance -> Value or Nothing
    clusters,       \* the clusters of the store
    bumped,         \* its version has grown since the reconciliation cloned it
    routes,         \* routes of this adapter
    fresh,          \* the reconciliation: [pc, all, fetched, seen]; all: no services are configured
    edits, faults

storeVars == <<endpoints, clusters, bumped>>
discoveryVars == <<pushes, subscribed, instanceMap, callback>>
vars == <<registry, discoveryVars, currentService, storeVars, routes, fresh, edits, faults>>

None == [i \in Instance |-> Nothing]
Present(m) == {i \in Instance : m[i] # Nothing}
Services(m) == {ServiceOf[i] : i \in Present(m)}
Of(s) == {i \in Instance : ServiceOf[i] = s}

Resting(pc) == [fresh EXCEPT !.pc = pc, !.fetched = None, !.seen = None]

\* The adapter's mutex; OnDeleteServiceInstance does not take it.
Locked == fresh.pc = "cas"

-----------------------------------------------------------------------------
\* The registry changes and the client calls back for the service.
Edit(i, value) ==
    /\ edits < MaxEdits /\ registry[i] # value
    /\ registry' = [registry EXCEPT ![i] = value]
    /\ pushes' = pushes \cup ({ServiceOf[i]} \cap subscribed)
    /\ edits' = edits + 1
    /\ UNCHANGED <<subscribed, instanceMap, callback, currentService, storeVars, routes, fresh, faults>>

\* ClusterManager.SetEndpoint creates the cluster if there is none.
SetEndpoint(i, value) ==
    /\ endpoints' = [endpoints EXCEPT ![i] = value]
    /\ clusters' = clusters \cup {ServiceOf[i]}
    /\ bumped' = TRUE

-----------------------------------------------------------------------------
(***************************************************************************)
(* The callbacks                                                           *)
(***************************************************************************)
\* Callback, under cacheLock: the differences between what the client reports
\* of one service and the cache, which the report then replaces.
Callback(s) ==
    LET new == [i \in Instance |-> IF i \in Of(s) THEN registry[i] ELSE Nothing] IN
    /\ s \in pushes /\ callback[s] = Nothing
    /\ pushes' = pushes \ {s}
    /\ instanceMap' = new
    /\ callback' = [callback EXCEPT ![s] =
           [add |-> {<<i, new[i]>> : i \in Present(new) \ Present(instanceMap)},
            del |-> Present(instanceMap) \ Present(new),
            upd |-> {<<i, new[i]>> : i \in {j \in Present(new) \cap Present(instanceMap) :
                                                new[j] # instanceMap[j]}}]]
    /\ UNCHANGED <<registry, subscribed, currentService, storeVars, routes, fresh, edits, faults>>

\* OnAddServiceInstance: a route too if the service is new to the adapter.
OnAddServiceInstance(s) ==
    /\ callback[s] # Nothing /\ ~Locked
    /\ \E e \in callback[s].add :
          /\ callback' = [callback EXCEPT ![s].add = @ \ {e}]
          /\ SetEndpoint(e[1], e[2])
          /\ currentService' = currentService \cup {ServiceOf[e[1]]}
          /\ routes' = IF ServiceOf[e[1]] \in currentService THEN routes
                       ELSE routes \cup {ServiceOf[e[1]]}
    /\ UNCHANGED <<registry, pushes, subscribed, instanceMap, fresh, edits, faults>>

\* OnDeleteServiceInstance: the cluster stays, though empty.
OnDeleteServiceInstance(s) ==
    /\ callback[s] # Nothing /\ callback[s].add = {}
    /\ \E i \in callback[s].del :
          /\ callback' = [callback EXCEPT ![s].del = @ \ {i}]
          /\ endpoints' = [endpoints EXCEPT ![i] = Nothing]
    /\ bumped' = TRUE
    /\ UNCHANGED <<registry, pushes, subscribed, instanceMap, currentService, clusters, routes,
                   fresh, edits, faults>>

OnUpdateServiceInstance(s) ==
    /\ callback[s] # Nothing /\ ~Locked /\ callback[s].add = {} /\ callback[s].del = {}
    /\ \E e \in callback[s].upd :
          /\ callback' = [callback EXCEPT ![s].upd = @ \ {e}]
          /\ SetEndpoint(e[1], e[2])
    /\ UNCHANGED <<registry, pushes, subscribed, instanceMap, currentService, routes, fresh, edits, faults>>

CallbackReturns(s) ==
    /\ callback[s] # Nothing
    /\ callback[s].add = {} /\ callback[s].del = {} /\ callback[s].upd = {}
    /\ callback' = [callback EXCEPT ![s] = Nothing]
    /\ UNCHANGED <<registry, pushes, subscribed, instanceMap, currentService, storeVars, routes,
                   fresh, edits, faults>>

-----------------------------------------------------------------------------
(***************************************************************************)
(* Start and the periodic reconciliation                                   *)
(***************************************************************************)
\* QueryAllServices asks for one page of the registered services, in the registry's
\* order; configured services are all asked for.
BeyondPage == fresh.all /\ Cardinality(Services(registry)) > PageSize
Pages == IF BeyondPage THEN {page \in SUBSET Services(registry) : Cardinality(page) = PageSize}
                       ELSE {Services(registry)}

\* QueryServicesByName; a service whose query fails is left out.  What is found
\* goes into the cache.
Query(page, failed) ==
    [i \in Instance |-> IF ServiceOf[i] \in page \ failed THEN registry[i] ELSE Nothing]
Cached(m) == [i \in Instance |-> IF m[i] # Nothing THEN m[i] ELSE instanceMap[i]]

\* watch: Subscribe to the services the adapter knows.  The client reports at once.
watch(services) ==
    /\ subscribed' = subscribed \cup services
    /\ pushes' = pushes \cup (services \ subscribed)

Failing(failed) == faults + (IF failed = {} THEN 0 ELSE 1)

\* GetAllServicesInfo fails: firstFetch and fetchCompareAndSet return, the ticker goes on.
ListFails ==
    /\ fresh.pc \in {"start", "wait"} /\ fresh.all
    /\ faults < MaxFaults /\ faults' = faults + 1
    /\ fresh' = Resting("wait")
    /\ UNCHANGED <<registry, discoveryVars, currentService, storeVars, routes, edits>>

\* Start: firstFetch, the ticker and watch.
Start(page, failed) ==
    LET found == Query(page, failed) IN
    /\ fresh.pc = "start"
    /\ faults' = Failing(failed) /\ faults' <= MaxFaults
    /\ instanceMap' = Cached(found)
    /\ endpoints' = found /\ clusters' = Services(found) /\ bumped' = TRUE
    /\ routes' = Services(found) /\ currentService' = Services(found)
    /\ watch(Services(found))
    /\ fresh' = Resting("wait")
    /\ UNCHANGED <<registry, callback, edits>>

\* The ticker: fetchCompareAndSet fetches and subscribes before it locks.
Fetch(page, failed) ==
    LET found == Query(page, failed) IN
    /\ fresh.pc = "wait"
    /\ faults' = Failing(failed) /\ faults' <= MaxFaults
    /\ instanceMap' = Cached(found)
    /\ watch(currentService)
    /\ fresh' = [Resting("lock") EXCEPT !.fetched = found]
    /\ UNCHANGED <<registry, callback, currentService, storeVars, routes, edits>>

\* CloneStore, and the routes of clusters that are gone.
Clone ==
    /\ fresh.pc = "lock"
    /\ routes' = routes \ (clusters \ Services(fresh.fetched))
    /\ fresh' = [fresh EXCEPT !.pc = "cas", !.seen = endpoints]
    /\ bumped' = FALSE
    /\ UNCHANGED <<registry, discoveryVars, currentService, endpoints, clusters, edits, faults>>

\* Mutant: the store is set whatever its version.
SetStore ==
    /\ fresh.pc = "cas"
    /\ fresh' = Resting("wait")
    /\ endpoints' = fresh.fetched /\ clusters' = Services(fresh.fetched)
    /\ routes' = routes \cup (Services(fresh.fetched) \ clusters)
    /\ UNCHANGED <<registry, discoveryVars, currentService, bumped, edits, faults>>

\* CompareAndSetStore, then the routes of clusters that are new.
CompareAndSetStore ==
    /\ fresh.pc = "cas"
    /\ fresh' = Resting("wait")
    /\ IF ~bumped
       THEN /\ endpoints' = fresh.fetched /\ clusters' = Services(fresh.fetched)
            /\ routes' = routes \cup (Services(fresh.fetched) \ clusters)
       ELSE UNCHANGED <<endpoints, clusters, routes>>
    /\ UNCHANGED <<registry, discoveryVars, currentService, bumped, edits, faults>>

\* Stop: Unsubscribe and the end of the ticker.
Stop ==
    /\ fresh.pc = "wait" /\ faults < MaxFaults /\ faults' = faults + 1
    /\ fresh' = Resting("stopped")
    /\ subscribed' = subscribed \ currentService /\ pushes' = pushes \cap subscribed'
    /\ UNCHANGED <<registry, instanceMap, callback, currentService, storeVars, routes, edits>>

-----------------------------------------------------------------------------
Init ==
    /\ registry = First
    /\ pushes = {} /\ subscribed = {} /\ instanceMap = None
    /\ callback = [s \in Service |-> Nothing] /\ currentService = {}
    /\ endpoints = None /\ clusters = {} /\ bumped = FALSE /\ routes = {}
    /\ fresh \in [pc : {"start"}, all : BOOLEAN, fetched : {None}, seen : {None}]
    /\ edits = 0 /\ faults = 0

Deliver(s) ==
    \/ Callback(s) \/ OnAddServiceInstance(s) \/ OnDeleteServiceInstance(s)
    \/ OnUpdateServiceInstance(s) \/ CallbackReturns(s)
Reconcile == \/ \E page \in Pages, failed \in SUBSET Service :
                   Start(page, failed) \/ Fetch(page, failed)
             \/ Clone \/ CompareAndSetStore

Next ==
    \/ \E i \in Instance, value \in {Nothing} \cup Value : Edit(i, value)
    \/ \E s \in Service : Deliver(s)
    \/ Reconcile \/ ListFails \/ Stop

\* The ticker goes on and the client delivers.
Fairness == WF_vars(Reconcile) /\ \A s \in Service : WF_vars(Deliver(s))

Spec == Init /\ [][Next]_vars /\ Fairness

-----------------------------------------------------------------------------
(***************************************************************************)
(* The reconciliation replaces the store only as it was when it looked: a  *)
(* deletion that a callback applies meanwhile, without the mutex, is not   *)
(* undone by a store fetched before it was seen.                           *)
(***************************************************************************)
NoLostDeletion ==
    [][(fresh.pc = "cas" /\ fresh'.pc = "wait" /\ endpoints' # endpoints) =>
           endpoints = fresh.seen]_vars

(***************************************************************************)
(* With the periodic reconciliation the endpoints are the registry's in    *)
(* the end, whatever callbacks came late, out of turn or deleted, and      *)
(* however often a query or the compare-and-set failed.  The exception is  *)
(* a registry with more services than one page, when none are configured:  *)
(* the reconciliation drops those it does not read.                        *)
(***************************************************************************)
EndpointsConverge == <>[](fresh.pc = "stopped" \/ BeyondPage \/ endpoints = registry)
=============================================================================
