------------------------- MODULE GatewayController -------------------------
(***************************************************************************)
(* The Kubernetes controller: GatewayReconciler.Reconcile translates one    *)
(* Gateway, its HTTPRoutes and policies into a configuration, writes it to  *)
(* a ConfigMap, asks the running pods to reload it, stamps its hash on the  *)
(* Deployment (which rolls the pods) and reports the outcome as a status    *)
(* condition through an asynchronous updater.                               *)
(*                                                                          *)
(* Reads come from the client's cache and do not fail; every write may.     *)
(* Reconcile returns no error after a failed write, so what brings it back  *)
(* is another event.  An optional value is a sequence of length 0 or 1; the *)
(* hash of a configuration is that configuration.                           *)
(***************************************************************************)
EXTENDS Naturals, Sequences, FiniteSets

CONSTANTS
    Route,          \* HTTPRoutes
    Backend,        \* services that a route may name
    Named,          \* the service that the cluster policies name
    Listeners,      \* sets of listeners that the Gateway may have
    Filters,        \* sets of filters that a filter policy may name
    States,         \* what may become of a service
    NoBackend,      \* the backend of a route that is not attached
    Pod,            \* data plane pods that may exist at once
    MaxObjectEdits, \* edits of the objects
    MaxWriteFailures,\* failed writes
    MaxCrashes      \* controller restarts

VARIABLES
    listeners,      \* the listeners of the Gateway, by name
    backend,        \* the service of each attached route
    service,        \* what the cluster knows of each service
    policy,         \* the policies in the Gateway's namespace
    class,          \* whether the GatewayClass of this controller exists
    cm, deploy, svc,\* ConfigMap, Deployment's hash, whether the Service exists
    pods,           \* the data plane
    queued,         \* a reconcile request is in the work queue
    rec,            \* the reconcile under way
    updates,        \* channel of the status updater
    status,         \* the Programmed condition that the Gateway carries
    lost,           \* the updater dropped the latest condition
    again,          \* a configuration was published a second time
    past,           \* configurations published so far
    obeyed,         \* a pod answered a hot reload with 200
    objectEdits, failures, crashes

inputs == <<listeners, backend, service, policy, class>>
objects == <<cm, deploy, svc, past, again, obeyed>>
reporting == <<updates, status, lost>>
bounds == <<objectEdits, failures, crashes>>
controllerVars == <<inputs, objects, pods, queued, rec, reporting, bounds>>

Idle == [pc |-> "idle"]
NoPod == [phase |-> "none"]
Live == {p \in Pod : pods[p].phase # "none"}
Running == {p \in Pod : pods[p].phase = "running"}

-----------------------------------------------------------------------------
(* The translation                                                           *)

Attached(b) == {r \in Route : b[r] # NoBackend}

\* A service's ready pods, else its cluster address, else nothing.
resolveEndpoints(s) ==
    CASE service[s] = "pods" -> {"pod"}
      [] service[s] = "address" -> {"address"}
      [] OTHER -> {}

\* Clusters of the attached routes; a service that does not exist has none.
TranslateBackendToCluster(b) ==
    [s \in {b[r] : r \in Attached(b)} \cap {s \in Backend : service[s] # "none"} |-> resolveEndpoints(s)]

\* A cluster configuration that lists endpoints replaces what was resolved,
\* and the addresses it resolved itself, by the addresses as they are written.
ApplyClusterConfig(endpoints) ==
    IF policy.cluster = "none" THEN endpoints ELSE {policy.cluster}

\* A service configuration's names are resolved before they are applied; one
\* that cannot be resolved stays as it is.
resolveServiceClusterEndpoints ==
    IF resolveEndpoints(Named) = {} THEN {"name"} ELSE resolveEndpoints(Named)

ApplyClusterPolicy(endpoints) ==
    IF policy.service = "none" THEN endpoints ELSE resolveServiceClusterEndpoints

\* Policies that leave a cluster without endpoints are undone.
Clusters(b) ==
    LET c == TranslateBackendToCluster(b)
        Applied(s) == ApplyClusterPolicy(ApplyClusterConfig(c[s]))
    IN  [s \in DOMAIN c |-> IF s = Named /\ Applied(s) # {} THEN Applied(s) ELSE c[s]]

\* A listener has the routes and the default proxy of its protocol.
convertHTTPListener(b) == [protocol |-> "HTTP", routes |-> b, filters |-> {"httpproxy"}]

convertGRPCListener(b) == [protocol |-> "GRPC", routes |-> b, filters |-> {"grpcproxy"}]

convertTCPListener ==
    [protocol |-> "TCP", routes |-> [r \in Route |-> NoBackend], filters |-> {"dubbo"}]

convertListener(l, b) ==
    CASE l = "http" -> convertHTTPListener(b)
      [] l = "grpc" -> convertGRPCListener(b)
      [] OTHER -> convertTCPListener

\* A filter policy adds its filters to an HTTP listener and drops the default
\* proxy unless it asks for it; a Dubbo proxy always drops it.
mergeFilterConfig(listener, filters) ==
    IF listener.protocol # "HTTP" \/ filters = {}
    THEN listener
    ELSE LET merged == listener.filters \cup filters
         IN  [listener EXCEPT !.filters =
                IF "directdubboproxy" \in filters \/ "httpproxy" \notin filters
                THEN merged \ {"httpproxy"} ELSE merged]

ApplyListenersRefToConfig(ls) == [l \in DOMAIN ls |-> mergeFilterConfig(ls[l], policy.filters)]

\* Timeouts, which no watch brings up to date.
ApplyGatewayPolicy == policy.gateway

ConvertIRToPixiuConfig(b, ls, clusters) ==
    [listeners |-> ApplyListenersRefToConfig([l \in ls |-> convertListener(l, b)]),
     clusters |-> clusters, timeouts |-> ApplyGatewayPolicy]

\* What the watches of the controller follow of a configuration.
Followed(config) == config.listeners
-----------------------------------------------------------------------------
(* The objects change, and the watches map events to the Gateway              *)

\* checkGatewayClass: events count only while the class is there.
Enqueue(relevant) == queued' = (queued \/ (relevant /\ class))

EditGateway ==
    /\ listeners' \in Listeners \ {listeners}
    /\ Enqueue(TRUE)
    /\ UNCHANGED <<backend, service, policy, class>>

\* Mutant: a route that leaves the Gateway is mapped by its new parents only.
routeByNewParents(r, b) ==
    /\ backend' = [backend EXCEPT ![r] = b]
    /\ Enqueue(b # NoBackend)
    /\ UNCHANGED <<listeners, service, policy, class>>

\* Both the old and the new object of an update are mapped.
listGatewaysForHTTPRoute(r, b) ==
    /\ backend' = [backend EXCEPT ![r] = b]
    /\ Enqueue(TRUE)
    /\ UNCHANGED <<listeners, service, policy, class>>

\* EndpointSlices are not watched, and of Services only those the Gateway owns.
EditService(s, state) ==
    /\ service' = [service EXCEPT ![s] = state]
    /\ UNCHANGED <<listeners, backend, policy, class, queued>>

\* A policy is mapped when it targets a Gateway: service configurations sit in
\* policies that do not, and gateway policies are not watched.
EditPolicy ==
    /\ \/ /\ \E e \in {"none", "name"} : policy' = [policy EXCEPT !.cluster = e]
          /\ Enqueue(TRUE)
       \/ /\ \E f \in Filters : policy' = [policy EXCEPT !.filters = f]
          /\ Enqueue(TRUE)
       \/ /\ \E e \in {"none", "name"} : policy' = [policy EXCEPT !.service = e]
          /\ UNCHANGED queued
       \/ /\ policy' = [policy EXCEPT !.gateway = "set"]
          /\ UNCHANGED queued
    /\ policy' # policy
    /\ UNCHANGED <<listeners, backend, service, class>>

\* The class leaves; when it comes back every Gateway of it is enqueued.
EditClass ==
    /\ class' = ~class
    /\ queued' = (queued \/ class')
    /\ UNCHANGED <<listeners, backend, service, policy>>

EditObjects ==
    /\ objectEdits < MaxObjectEdits
    /\ objectEdits' = objectEdits + 1
    /\ \/ EditGateway
       \/ EditPolicy
       \/ EditClass
       \/ \E r \in Route, b \in Backend \cup {NoBackend} : b # backend[r] /\ listGatewaysForHTTPRoute(r, b)
       \/ \E s \in Backend, state \in States : state # service[s] /\ EditService(s, state)
    /\ UNCHANGED <<objects, pods, rec, reporting, failures, crashes>>
-----------------------------------------------------------------------------
(* Reconcile                                                                  *)

Fails == failures < MaxWriteFailures /\ failures' = failures + 1

\* A failed write is remembered for the condition, and the hash is empty.
Failed(pc) == rec' = [rec EXCEPT !.pc = pc, !.hash = <<>>, !.ok = FALSE]

\* TranslateGateway: the routes are listed for the listeners ...
Reconcile ==
    /\ rec.pc = "idle"
    /\ queued
    /\ queued' = FALSE
    /\ rec' = [pc |-> "clusters", ls |-> listeners, b |-> backend, ok |-> TRUE]
    /\ UNCHANGED <<inputs, objects, pods, reporting, bounds>>

\* ... and listed again for the clusters, to which the policies are applied.
Translate ==
    /\ rec.pc = "clusters"
    /\ rec' = [pc |-> "configmap", ok |-> TRUE, hash |-> <<ConvertIRToPixiuConfig(rec.b, rec.ls, Clusters(backend))>>]
    /\ UNCHANGED <<inputs, objects, pods, queued, reporting, bounds>>

ensureGatewayConfigMap ==
    /\ rec.pc = "configmap"
    /\ \/ /\ cm = rec.hash
          /\ rec' = [rec EXCEPT !.pc = "deploy"]
          /\ UNCHANGED <<cm, past, again, failures>>
       \/ /\ cm # rec.hash
          /\ cm' = rec.hash
          /\ again' = (again \/ rec.hash \in past)
          /\ past' = past \cup {rec.hash}
          /\ rec' = [rec EXCEPT !.pc = IF cm = <<>> THEN "deploy" ELSE "reload"]
          /\ UNCHANGED failures
       \/ /\ cm # rec.hash
          /\ Fails
          /\ Failed("deploy")
          /\ UNCHANGED <<cm, past, again>>
    /\ UNCHANGED <<inputs, deploy, svc, obeyed, pods, queued, reporting, objectEdits, crashes>>

\* Some of the running pods answer 200. The gateway's own reload server refuses
\* a caller that is neither local nor has its token, and the controller sends
\* none; a pod that does answer 200 was posted a cached copy of the ConfigMap
\* and applied no more than the differences its reloaders look for, so that
\* what it runs is not known (<<>>).
Reloaded(S) ==
    /\ pods' = [p \in Pod |-> IF p \in S THEN [pods[p] EXCEPT !.config = <<>>] ELSE pods[p]]
    /\ obeyed' = (obeyed \/ S # {})

triggerHotReload ==
    /\ rec.pc = "reload"
    /\ \E S \in SUBSET Running :
        /\ Reloaded(S)
        /\ IF S = {} /\ Live # {} THEN Failed("deploy") ELSE rec' = [rec EXCEPT !.pc = "deploy"]
    /\ UNCHANGED <<inputs, cm, deploy, svc, past, again, queued, reporting, bounds>>

\* The pods are asked again. When none of them obeys, the patch carries the
\* new hash and rolls them. When one does, the hash is set in the copy that
\* the patch is then computed against, so that the patch leaves it out.
patchDeployment ==
    \E S \in SUBSET Running :
        /\ Reloaded(S)
        /\ \/ /\ deploy' = IF S = {} /\ Live # {} THEN <<rec.hash>> ELSE deploy
              /\ Enqueue(deploy' # deploy)
              /\ rec' = [rec EXCEPT !.pc = "service"]
              /\ UNCHANGED failures
           \/ /\ Fails
              /\ Failed("status")
              /\ UNCHANGED <<deploy, queued>>

\* The Deployment as the API server completes it always differs from the one
\* that is wanted, so that it is patched every time.
ensureDataPlane ==
    /\ rec.pc = "deploy"
    /\ \/ /\ deploy = <<rec.hash>>
          /\ rec' = [rec EXCEPT !.pc = "service"]
          /\ UNCHANGED <<deploy, queued, pods, obeyed, failures>>
       \/ /\ deploy # <<>> /\ deploy # <<rec.hash>>
          /\ patchDeployment
       \/ /\ deploy = <<>>
          /\ deploy' = <<rec.hash>>
          /\ Enqueue(TRUE)
          /\ rec' = [rec EXCEPT !.pc = "service"]
          /\ UNCHANGED <<pods, obeyed, failures>>
       \/ /\ deploy \in {<<>>, <<rec.hash>>}
          /\ Fails
          /\ Failed("status")
          /\ UNCHANGED <<deploy, queued, pods, obeyed>>
    /\ UNCHANGED <<inputs, cm, svc, past, again, reporting, objectEdits, crashes>>

ensureService ==
    /\ rec.pc = "service"
    /\ \/ /\ svc' = TRUE
          /\ Enqueue(~svc)
          /\ rec' = [rec EXCEPT !.pc = "status"]
          /\ UNCHANGED failures
       \/ /\ Fails
          /\ Failed("status")
          /\ UNCHANGED <<svc, queued>>
    /\ UNCHANGED <<inputs, cm, deploy, past, again, obeyed, pods, reporting, objectEdits, crashes>>

\* The conditions are handed to the updater and the request is done.
SetGatewayConditionProgrammed ==
    /\ rec.pc = "status"
    /\ updates' = Append(updates, rec.ok)
    /\ rec' = Idle
    /\ UNCHANGED <<inputs, objects, pods, queued, status, lost, bounds>>

\* UpdateHandler.apply: conflicts are retried, any other error drops the update.
updateStatus ==
    /\ updates # <<>>
    /\ updates' = Tail(updates)
    /\ \/ /\ status' = Head(updates)
          /\ lost' = FALSE
          /\ UNCHANGED failures
       \/ /\ Fails
          /\ lost' = TRUE
          /\ UNCHANGED status
    /\ UNCHANGED <<inputs, objects, pods, queued, rec, objectEdits, crashes>>

\* A new controller lists every Gateway whose class matches.
Restart ==
    /\ crashes < MaxCrashes
    /\ crashes' = crashes + 1
    /\ rec' = Idle
    /\ updates' = <<>>
    /\ queued' = class
    /\ UNCHANGED <<inputs, objects, pods, status, lost, objectEdits, failures>>
-----------------------------------------------------------------------------
(* The Deployment's controller and the kubelet: a rolling update with one     *)
(* replica.  A pod mounts the ConfigMap before it runs.                       *)

PodMount(p) ==
    /\ deploy # <<>> /\ cm # <<>>
    /\ pods[p].phase = "none"
    /\ \A q \in Live : pods[q].template # deploy
    /\ pods' = [pods EXCEPT ![p] = [phase |-> "pending", template |-> deploy, config |-> cm]]
    /\ UNCHANGED <<inputs, objects, queued, rec, reporting, bounds>>

PodRun(p) ==
    /\ pods[p].phase = "pending"
    /\ pods' = [pods EXCEPT ![p].phase = "running"]
    /\ UNCHANGED <<inputs, objects, queued, rec, reporting, bounds>>

PodReap(p) ==
    /\ p \in Live
    /\ pods[p].template # deploy
    /\ \/ pods[p].phase = "pending"
       \/ \E q \in Running : pods[q].template = deploy
    /\ pods' = [pods EXCEPT ![p] = NoPod]
    /\ UNCHANGED <<inputs, objects, queued, rec, reporting, bounds>>

ControllerInit ==
    /\ listeners = {"http"}
    /\ backend \in [Route -> {Named, NoBackend}]
    /\ service = [s \in Backend |-> "address"]
    /\ policy = [cluster |-> "none", service |-> "none", filters |-> {}, gateway |-> "none"]
    /\ class \in BOOLEAN
    /\ cm = <<>> /\ deploy = <<>> /\ svc = FALSE
    /\ past = {} /\ again = FALSE /\ obeyed = FALSE
    /\ pods = [p \in Pod |-> NoPod]
    /\ queued = class
    /\ rec = Idle
    /\ updates = <<>> /\ status = FALSE /\ lost = FALSE
    /\ objectEdits = 0 /\ failures = 0 /\ crashes = 0

ReconcileStep ==
    \/ Reconcile \/ Translate \/ ensureGatewayConfigMap \/ triggerHotReload
    \/ ensureDataPlane \/ ensureService \/ SetGatewayConditionProgrammed

PodStep == \E p \in Pod : PodMount(p) \/ PodRun(p) \/ PodReap(p)

ControllerNext == EditObjects \/ ReconcileStep \/ updateStatus \/ Restart \/ PodStep

ControllerSpec == ControllerInit /\ [][ControllerNext]_controllerVars
-----------------------------------------------------------------------------
Settled == ~queued /\ rec = Idle /\ updates = <<>> /\ class /\ ~lost

RolledOut ==
    /\ Live = Running
    /\ \A p \in Live : pods[p].template = deploy

\* When the controller has nothing left to do and the Gateway says that it is
\* programmed, the ConfigMap holds the routes, listeners and filters of the
\* objects the controller follows: an edit that landed between its two reads
\* of the routes, a failed write or a restart is never passed over in silence.
ProgrammedIsCurrent ==
    Settled /\ status =>
        /\ cm # <<>>
        /\ Followed(cm[1]) = Followed(ConvertIRToPixiuConfig(backend, listeners, Clusters(backend)))

\* When, besides, the rollout is over, every pod runs the ConfigMap, although
\* the hot reload failed on every pod: the hash on the Deployment rolls them.
\* The claim leaves out a data plane that answered a reload with 200, whose
\* Deployment keeps its hash whatever the pods made of the text, and contents
\* that were published before: the hash tells a rollout no more than that the
\* content changed.
ProgrammedIsServed ==
    Settled /\ status /\ RolledOut /\ ~again /\ ~obeyed => \A p \in Live : pods[p].config = cm

\* A Gateway that says it is programmed has its objects in the ConfigMap and,
\* where the pods leave the reload to the rollout, on every pod.
ProgrammedIsTrue == ProgrammedIsCurrent /\ ProgrammedIsServed
=============================================================================
