------------------------------- MODULE ZkDiscovery -------------------------------
(***************************************************************************)
(* The Spring Cloud adapter on ZooKeeper without a periodic reconciliation *)
(* (pkg/adapter/springcloud/servicediscovery/zookeeper): one goroutine     *)
(* watches the services, one per service its instances, all share the      *)
(* cache of instances.  Every change of the cache is told to the adapter   *)
(* (cloud.go) under the cache's lock.                                      *)
(*                                                                         *)
(* Service nodes are created and not removed, as Curator's persistent      *)
(* nodes are; the instances come and go.  A goroutine refreshes by its     *)
(* ticker or by an event of its watch.                                     *)
(***************************************************************************)
EXTENDS Naturals

CONSTANTS
    Service, Instance, ServiceOf,
    Listener,       \* bound: goroutines that watch a service
    MaxFailTimes,   \* failed watches in a row after which a goroutine gives up
    Nothing, MaxEdits, MaxFaults

VARIABLES
    nodes,          \* service nodes
    children,       \* instance nodes
    app,            \* the goroutine of the services: [pc, fails, names]
    lst,            \* Listener -> [pc, svc, fails, add, cur, del]
    svcListeners,   \* Service -> the registered listener, or Nothing
    instanceMap,    \* the cache
    endpoints,      \* of the cluster store
    routes, currentService,
    edits, faults

vars == <<nodes, children, app, lst, svcListeners, instanceMap, endpoints, routes, currentService,
          edits, faults>>
registryVars == <<nodes, children>>
adapterVars == <<instanceMap, endpoints, routes, currentService>>

Of(s) == {i \in Instance : ServiceOf[i] = s}
Fault == faults < MaxFaults /\ faults' = faults + 1
Free == [pc |-> "free", svc |-> Nothing, fails |-> 0, add |-> {}, cur |-> Nothing, del |-> {}]

-----------------------------------------------------------------------------
\* An instance registers, creating its service's node, or leaves.
Register(i) ==
    /\ edits < MaxEdits /\ i \notin children
    /\ children' = children \cup {i} /\ nodes' = nodes \cup {ServiceOf[i]}
    /\ edits' = edits + 1
    /\ UNCHANGED <<app, lst, svcListeners, adapterVars, faults>>

Leave(i) ==
    /\ edits < MaxEdits /\ i \in children
    /\ children' = children \ {i} /\ edits' = edits + 1
    /\ UNCHANGED <<nodes, app, lst, svcListeners, adapterVars, faults>>

-----------------------------------------------------------------------------
\* addServiceInstance: the adapter sets the endpoint, and adds the route of a
\* service new to it.
addServiceInstance(i) ==
    IF i \in instanceMap THEN UNCHANGED adapterVars
    ELSE /\ instanceMap' = instanceMap \cup {i} /\ endpoints' = endpoints \cup {i}
         /\ currentService' = currentService \cup {ServiceOf[i]}
         /\ routes' = IF ServiceOf[i] \in currentService THEN routes ELSE routes \cup {ServiceOf[i]}

\* Mutant: the endpoint is set though the cache has forgotten the instance.
updateUnchecked(i) ==
    /\ endpoints' = endpoints \cup {i}
    /\ UNCHANGED <<instanceMap, routes, currentService>>

\* updateServiceInstance: sets the endpoint if the cache still has the instance.
updateServiceInstance(i) ==
    /\ endpoints' = IF i \in instanceMap THEN endpoints \cup {i} ELSE endpoints
    /\ UNCHANGED <<instanceMap, routes, currentService>>

\* delServiceInstance, for each of ids.
delServiceInstance(ids) ==
    /\ instanceMap' = instanceMap \ ids
    /\ endpoints' = endpoints \ (ids \cap instanceMap)
    /\ UNCHANGED <<routes, currentService>>

-----------------------------------------------------------------------------
(***************************************************************************)
(* The goroutine of the services                                           *)
(***************************************************************************)
\* Start: firstFetch and Subscribe.
Start ==
    /\ app.pc = "start"
    /\ app' = [app EXCEPT !.pc = "watch"]
    /\ instanceMap' = children /\ endpoints' = children
    /\ routes' = {ServiceOf[i] : i \in children} /\ currentService' = routes'
    /\ UNCHANGED <<registryVars, lst, svcListeners, edits, faults>>

\* GetChildrenW; after too many failures the goroutine ends.
AppWatch ==
    /\ app.pc = "watch"
    /\ \/ /\ app' = [app EXCEPT !.pc = "fetch", !.fails = 0]
          /\ UNCHANGED faults
       \/ /\ Fault
          /\ app' = [app EXCEPT !.fails = @ + 1,
                                !.pc = IF app.fails + 1 > MaxFailTimes THEN "gaveup" ELSE "watch"]
    /\ UNCHANGED <<registryVars, lst, svcListeners, adapterVars, edits>>

\* handleEvent reads the services; an error reads as none.
AppFetch ==
    /\ app.pc = "fetch"
    /\ \/ app' = [app EXCEPT !.pc = "apply", !.names = nodes] /\ UNCHANGED faults
       \/ app' = [app EXCEPT !.pc = "apply", !.names = {}] /\ Fault
    /\ UNCHANGED <<registryVars, lst, svcListeners, adapterVars, edits>>

\* The services to start a listener for: those without one, and those without
\* instances, whose listener is forgotten though it runs on.
Needed ==
    {s \in app.names : svcListeners[s] = Nothing \/ Of(s) \cap instanceMap = {}}

\* handleEvent: forgets services that are gone and starts listeners.  What
\* the bound on goroutines leaves no place for waits for the next event.
AppApply ==
    LET gone == {s \in Service : Of(s) \cap instanceMap # {} /\ s \notin app.names} IN
    /\ app.pc = "apply"
    /\ \E pc \in {"watch", "fetch"} : app' = [app EXCEPT !.pc = pc, !.names = {}]
    /\ delServiceInstance(UNION {Of(s) : s \in gone})
    /\ \/ /\ \A s \in Needed, l \in Listener : lst[l].pc # "free"
          /\ svcListeners' = [s \in Service |-> IF s \in gone THEN Nothing ELSE svcListeners[s]]
          /\ UNCHANGED lst
       \/ \E s \in Needed, l \in Listener :
             /\ lst[l].pc = "free"
             /\ lst' = [lst EXCEPT ![l] = [Free EXCEPT !.pc = "watch", !.svc = s]]
             /\ svcListeners' = [t \in Service |-> IF t = s THEN l ELSE IF t \in gone THEN Nothing
                                                   ELSE svcListeners[t]]
    /\ UNCHANGED <<registryVars, edits, faults>>

-----------------------------------------------------------------------------
(***************************************************************************)
(* The goroutine of a service                                              *)
(***************************************************************************)
Watch(l) ==
    /\ lst[l].pc = "watch"
    /\ \/ lst' = [lst EXCEPT ![l].pc = "fetch", ![l].fails = 0] /\ UNCHANGED faults
       \/ /\ Fault
          /\ lst' = [lst EXCEPT ![l].fails = @ + 1,
                        ![l].pc = IF lst[l].fails + 1 > MaxFailTimes THEN "gaveup" ELSE "watch"]
    /\ UNCHANGED <<registryVars, app, svcListeners, adapterVars, edits>>

\* handleEvent reads the children, or none on an error, and the cache without its lock.
FetchChildren(l) ==
    LET s == lst[l].svc
        Reads(found) == lst' = [lst EXCEPT ![l].pc = "apply", ![l].add = found,
                                           ![l].del = (Of(s) \cap instanceMap) \ found]
    IN
    /\ lst[l].pc = "fetch"
    /\ \/ Reads(children \cap Of(s)) /\ UNCHANGED faults
       \/ Reads({}) /\ Fault
    /\ UNCHANGED <<registryVars, app, svcListeners, adapterVars, edits>>

\* The children one by one; one that has left meanwhile cannot be read and is
\* skipped.  Whether it is new is seen before the cache's lock is taken.
ReadChild(l) ==
    /\ lst[l].pc = "apply" /\ lst[l].cur = Nothing
    /\ \E i \in lst[l].add :
          lst' = [lst EXCEPT ![l].add = @ \ {i},
                     ![l].cur = IF i \notin children THEN Nothing
                                ELSE [id |-> i, new |-> i \notin instanceMap]]
    /\ UNCHANGED <<registryVars, app, svcListeners, adapterVars, edits, faults>>

ApplyChild(l) ==
    /\ lst[l].pc = "apply" /\ lst[l].cur # Nothing
    /\ lst' = [lst EXCEPT ![l].cur = Nothing]
    /\ IF lst[l].cur.new THEN addServiceInstance(lst[l].cur.id)
       ELSE updateServiceInstance(lst[l].cur.id)
    /\ UNCHANGED <<registryVars, app, svcListeners, edits, faults>>

\* The instances that are gone, then the ticker or the watch again.
ApplyGone(l) ==
    /\ lst[l].pc = "apply" /\ lst[l].add = {} /\ lst[l].cur = Nothing
    /\ IF lst[l].del # {}
       THEN \E i \in lst[l].del :
              /\ lst' = [lst EXCEPT ![l].del = @ \ {i}]
              /\ delServiceInstance({i})
       ELSE /\ \E pc \in {"watch", "fetch"} : lst' = [lst EXCEPT ![l].pc = pc]
            /\ UNCHANGED adapterVars
    /\ UNCHANGED <<registryVars, app, svcListeners, edits, faults>>

-----------------------------------------------------------------------------
Init ==
    /\ nodes = {} /\ children = {}
    /\ app = [pc |-> "start", fails |-> 0, names |-> {}]
    /\ lst = [l \in Listener |-> Free]
    /\ svcListeners = [s \in Service |-> Nothing]
    /\ instanceMap = {} /\ endpoints = {} /\ routes = {} /\ currentService = {}
    /\ edits = 0 /\ faults = 0

AppStep == Start \/ AppWatch \/ AppFetch \/ AppApply
ListenerStep(l) == Watch(l) \/ FetchChildren(l) \/ ReadChild(l) \/ ApplyChild(l) \/ ApplyGone(l)

Next ==
    \/ \E i \in Instance : Register(i) \/ Leave(i)
    \/ AppStep \/ \E l \in Listener : ListenerStep(l)

\* Goroutines run and tickers tick.
Fairness == WF_vars(AppStep) /\ \A l \in Listener : WF_vars(ListenerStep(l))

Spec == Init /\ [][Next]_vars /\ Fairness

-----------------------------------------------------------------------------
(***************************************************************************)
(* The adapter is told of every change of the cache, though several        *)
(* goroutines may watch one service with different ideas of what is there: *)
(* the endpoints are the cached instances.                                 *)
(***************************************************************************)
EndpointsAreCached == endpoints = instanceMap

(***************************************************************************)
(* A service with endpoints has its route: routes are never taken away.    *)
(***************************************************************************)
EndpointsAreRouted == \A i \in endpoints : ServiceOf[i] \in routes

(***************************************************************************)
(* In the end the endpoints are the instances in ZooKeeper, errors and     *)
(* events that came together notwithstanding, unless a goroutine gave up.  *)
(***************************************************************************)
FollowsZooKeeper ==
    <>[](\/ endpoints = children
         \/ app.pc = "gaveup" \/ \E l \in Listener : lst[l].pc = "gaveup")
=============================================================================
