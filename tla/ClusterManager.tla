---------------------------- MODULE ClusterManager ----------------------------
(***************************************************************************)
(* The cluster manager (pkg/server/cluster_manager.go): the list of        *)
(* cluster configs, the runtime cluster serving each name, which names     *)
(* belong to xDS, and the endpoint lifecycle callbacks.                    *)
(*                                                                         *)
(* Four sources write to it: hot reload (AddCluster, UpdateCluster,        *)
(* RemoveCluster), registry adapters (SetEndpoint, DeleteEndpoint), the    *)
(* SpringCloud reconciler (CloneStore/NewStore, CompareAndSetStore) and    *)
(* xDS (ReplaceXDSClusters).  Each call changes the store under the lock   *)
(* in one step; what it does after unlocking - stopping the runtimes it    *)
(* replaced, calling the endpoint handlers - is separate steps that        *)
(* interleave with other calls.                                            *)
(*                                                                         *)
(* The list of configs is modelled as a set: no writer below adds a name   *)
(* that the list has (OwnershipFollowsWrites), so the first config of a    *)
(* name is the only one.  A cluster's endpoints are a function from        *)
(* endpoint ID to address: IDs are unique in a cluster                     *)
(* (assembleClusterEndpoints) and nothing below depends on their order or  *)
(* metadata.  Health lives in ClusterRuntime.                              *)
(***************************************************************************)
EXTENDS Naturals, FiniteSets, Functions

CONSTANTS
    Name,        \* cluster names
    EndpointID,
    Address,
    Payload,     \* endpoint maps a whole-cluster write may carry
    Bootstrap,   \* sets of static clusters the bootstrap file may hold
    Runtime,     \* *cluster.Cluster objects that can be alive at once
    NoRuntime,
    NoCandidate,
    MaxEvents    \* bound: endpoint event numbers, one per store change

\* Endpoints of a cluster and whole cluster sets, as xDS and the reconciler
\* deliver them.
Endpoints == UNION {[S -> Address] : S \in SUBSET EndpointID}
Clusters == UNION {[S -> Payload] : S \in SUBSET Name}

ASSUME ManagerAssumption ==
    /\ MaxEvents \in Nat
    /\ IsFiniteSet(Name)
    /\ Payload \subseteq Endpoints
    /\ Bootstrap \subseteq Clusters
    /\ NoRuntime \notin [object : Runtime, configID : Nat, endpoints : Endpoints]

VARIABLES
    Config,       \* store.Config, without its order
    Version,      \* store.Version
    clustersMap,  \* store.clustersMap: name -> runtime cluster
    running,      \* runtime objects that are started and not stopped
    xdsManaged,
    eventID,      \* nextEndpointEventID
    configIDSeq,
    unlocked,     \* calls past their unlock: what they still stop and announce
    candidate,    \* the reconciler's candidate store
    fileNames,    \* hot reload: cluster names of the file it applied last
    seen, view    \* a consumer of the callbacks, as in EndpointFeed

consumerVars == <<seen, view>>
vars == <<Config, Version, clustersMap, running, xdsManaged, eventID, configIDSeq,
          unlocked, candidate, fileNames, consumerVars>>

Key == Name \X Address

-----------------------------------------------------------------------------
Names == {c.name : c \in Config}

\* endpointAddressSnapshot, as a set of keys.
endpointAddressSnapshot(configs) ==
    UNION {{<<c.name, a>> : a \in Range(c.endpoints)} : c \in configs}

\* The config findClusterConfig returns, as a set of at most one.
Found(n) == {c \in Config : c.name = n}

findClusterConfig(n) == CHOOSE c \in Config : c.name = n

Served == {n \in Name : clustersMap[n] # NoRuntime}

\* The object serving n, as a set of at most one.
ObjectOf(n) == IF n \in Served THEN {clustersMap[n].object} ELSE {}

\* HasEndpointAddress, which reads the runtime and not the config.
PresentKeys == UNION {{<<n, a>> : a \in Range(clustersMap[n].endpoints)} : n \in Served}

Undelivered == UNION {call.announce : call \in unlocked}

Feed == INSTANCE EndpointFeed WITH present <- PresentKeys, pending <- Undelivered

\* New runtime objects for the names in ns; which ones does not matter.
Fresh(ns, used) ==
    LET free == Injection(ns, Runtime \ used)
    IN  {f \in free : f = CHOOSE g \in free : TRUE}

\* A config, numbered by prepareOwnedClusterConfig.  Who wrote it last is not
\* in the code: the properties compare it with what xdsManaged records.
NewConfig(n, endpoints, id, writer) ==
    [name |-> n, id |-> id, endpoints |-> endpoints, writer |-> writer]

\* The numbers of a set of new configs, in the order they come in.
Numbers(m, lastID) == Bijection(DOMAIN m, lastID + 1 .. lastID + Cardinality(DOMAIN m))

NewConfigs(m, ids, writer) == {NewConfig(n, m[n], ids[n], writer) : n \in DOMAIN m}

\* NewClusterWithEndpointSnapshot: a runtime for config c on a new object.
NewCluster(object, c) == [object |-> object, configID |-> c.id, endpoints |-> c.endpoints]

\* A map that serves every config of cs on a new object and keeps other for the rest.
ServeAll(cs, objects, other) ==
    [n \in Name |-> IF n \in DOMAIN objects
                    THEN NewCluster(objects[n], CHOOSE c \in cs : c.name = n)
                    ELSE other[n]]

-----------------------------------------------------------------------------
\* newClusterStore: the static clusters of the bootstrap file.
Init ==
    /\ \E m \in Bootstrap : \E objects \in Fresh(DOMAIN m, {}), ids \in Numbers(m, 0) :
          /\ Config = NewConfigs(m, ids, "other")
          /\ configIDSeq = Cardinality(DOMAIN m)
          /\ clustersMap = ServeAll(Config, objects, [n \in Name |-> NoRuntime])
          /\ running = Range(objects)
          /\ fileNames = DOMAIN m
    /\ Version = 0
    /\ xdsManaged = {}
    /\ eventID = 0
    /\ unlocked = {}
    /\ candidate = NoCandidate
    /\ seen = [k \in Key |-> 0]
    /\ view = PresentKeys

nextEndpointEventIDLocked == eventID < MaxEvents /\ eventID' = eventID + 1

IncreaseVersion == Version' = Version + 1

\* Mutant: addresses that vanished are not announced.
UnlocksWithoutRemovals(stop, old, new) ==
    LET call == [stop |-> stop, announce |-> Feed!Changes({}, new \ old, eventID + 1)]
    IN  unlocked' = IF stop = {} /\ call.announce = {} THEN unlocked ELSE unlocked \cup {call}

\* What the call does after unlocking: stop the objects it replaced, then run
\* the handlers for the difference between two address snapshots.
Unlocks(stop, old, new) ==
    LET call == [stop |-> stop, announce |-> Feed!Changes(old, new, eventID + 1)]
    IN  unlocked' = IF stop = {} /\ call.announce = {} THEN unlocked ELSE unlocked \cup {call}

\* replaceClusterRuntime and stopClusters: n is served from c by object, the
\* object that served it before is stopped unless it is the same.
Serves(n, object, c) ==
    /\ clustersMap' = [clustersMap EXCEPT ![n] = NewCluster(object, c)]
    /\ running' = (running \ ObjectOf(n)) \cup {object}

ServesOnNew(n, c) == \E objects \in Fresh({n}, running) : Serves(n, objects[n], c)

-----------------------------------------------------------------------------
(***************************************************************************)
(* Hot reload (ClusterReloader.HotReload) compares the new file with the   *)
(* one it applied last, not with the store.  AddCluster appends a config   *)
(* and announces its addresses as new, whatever was there before under the *)
(* name; a file that adds a name which a registry or xDS created meanwhile *)
(* hides that cluster without a removal and is left out here.              *)
(***************************************************************************)
AddCluster(n, endpoints) ==
    LET c == NewConfig(n, endpoints, configIDSeq + 1, "other") IN
    /\ n \notin fileNames
    /\ n \notin Names
    /\ fileNames' = fileNames \cup {n}
    /\ nextEndpointEventIDLocked
    /\ IncreaseVersion
    /\ xdsManaged' = xdsManaged \ {n}
    /\ configIDSeq' = c.id
    /\ Config' = Config \cup {c}
    /\ ServesOnNew(n, c)
    /\ Unlocks({}, {}, endpointAddressSnapshot({c}))
    /\ UNCHANGED <<candidate, consumerVars>>

UpdateCluster(n, endpoints) ==
    LET c == NewConfig(n, endpoints, configIDSeq + 1, "other") IN
    /\ n \in fileNames \cap Names
    /\ nextEndpointEventIDLocked
    /\ IncreaseVersion
    /\ xdsManaged' = xdsManaged \ {n}
    /\ configIDSeq' = c.id
    /\ Config' = (Config \ Found(n)) \cup {c}
    /\ ServesOnNew(n, c)
    /\ Unlocks({}, endpointAddressSnapshot(Found(n)), endpointAddressSnapshot({c}))
    /\ UNCHANGED <<candidate, fileNames, consumerVars>>

removeClustersLocked(ns) ==
    /\ Config' = {c \in Config : c.name \notin ns}
    /\ clustersMap' = [n \in Name |-> IF n \in ns THEN NoRuntime ELSE clustersMap[n]]
    /\ running' = running \ UNION {ObjectOf(n) : n \in ns}

RemoveCluster(ns) ==
    /\ ns \subseteq fileNames
    /\ fileNames' = fileNames \ ns
    /\ nextEndpointEventIDLocked
    /\ xdsManaged' = xdsManaged \ ns
    /\ removeClustersLocked(ns)
    /\ IncreaseVersion
    /\ Unlocks({}, endpointAddressSnapshot(Config),
                   endpointAddressSnapshot(Config'))
    /\ UNCHANGED <<configIDSeq, candidate, consumerVars>>

Resync(n, endpoints) ==
    LET c == NewConfig(n, endpoints, findClusterConfig(n).id, "other")
        built == n \in Served /\ clustersMap[n].configID = c.id
    IN  /\ Config' = (Config \ Found(n)) \cup {c}
        /\ IF built THEN Serves(n, clustersMap[n].object, c) ELSE ServesOnNew(n, c)
        /\ Unlocks({}, endpointAddressSnapshot(Found(n)), endpointAddressSnapshot({c}))
        /\ UNCHANGED configIDSeq

\* SetEndpoint on an unknown cluster creates it.
CreateWith(n, endpoints) ==
    LET c == NewConfig(n, endpoints, configIDSeq + 1, "other") IN
    /\ configIDSeq' = c.id
    /\ Config' = Config \cup {c}
    /\ ServesOnNew(n, c)
    /\ Unlocks({}, {}, endpointAddressSnapshot({c}))

\* The endpoints with i at a.
WithEndpoint(endpoints, i, a) ==
    [j \in DOMAIN endpoints \cup {i} |-> IF j = i THEN a ELSE endpoints[j]]

\* Mutant: a registry write forgets the store version.
SetEndpointUnversioned(n, i, a) ==
    /\ nextEndpointEventIDLocked
    /\ UNCHANGED Version
    /\ xdsManaged' = xdsManaged \ {n}
    /\ \/ n \in Names /\ Resync(n, WithEndpoint(findClusterConfig(n).endpoints, i, a))
       \/ n \notin Names /\ CreateWith(n, [j \in {i} |-> a])
    /\ UNCHANGED <<candidate, fileNames, consumerVars>>

(***************************************************************************)
(* i is the ID resolveSetEndpointSlot settles on: a slot that already      *)
(* holds a (idempotent), a slot with another address (replace) or a new    *)
(* one (append).                                                           *)
(***************************************************************************)
SetEndpoint(n, i, a) ==
    /\ nextEndpointEventIDLocked
    /\ IncreaseVersion
    /\ xdsManaged' = xdsManaged \ {n}
    /\ \/ n \in Names /\ Resync(n, WithEndpoint(findClusterConfig(n).endpoints, i, a))
       \/ n \notin Names /\ CreateWith(n, [j \in {i} |-> a])
    /\ UNCHANGED <<candidate, fileNames, consumerVars>>

DeleteEndpoint(n, i) ==
    /\ n \in Names
    /\ nextEndpointEventIDLocked
    /\ IncreaseVersion
    /\ xdsManaged' = xdsManaged \ {n}
    /\ LET old == findClusterConfig(n).endpoints
       IN  Resync(n, Restrict(old, DOMAIN old \ {i}))
    /\ UNCHANGED <<candidate, fileNames, consumerVars>>

\* UpdateCluster and DeleteEndpoint of a name that has no config (any more),
\* and RemoveXDSClusters of names xDS does not own.
MissingCluster ==
    /\ nextEndpointEventIDLocked
    /\ \/ IncreaseVersion /\ \E n \in Name : n \notin Names
       \/ UNCHANGED Version
    /\ UNCHANGED <<Config, clustersMap, running, xdsManaged, configIDSeq, unlocked,
                   candidate, fileNames, consumerVars>>

(***************************************************************************)
(* xDS.  A response that names a cluster somebody else owns is rejected    *)
(* and changes nothing.                                                    *)
(***************************************************************************)
StaticNames == Names \ xdsManaged

\* The configs a new xDS set leaves alone.
KeptConfigs == {c \in Config : c.name \notin xdsManaged}

\* Mutant: runtimes of the old xDS set are forgotten.
NoneReplaced == {}

replacedClusters == UNION {ObjectOf(n) : n \in xdsManaged}

ReplaceXDSClusters(m) ==
    /\ DOMAIN m \cap StaticNames = {}
    /\ nextEndpointEventIDLocked
    /\ IncreaseVersion
    /\ configIDSeq' = configIDSeq + Cardinality(DOMAIN m)
    /\ \E objects \in Fresh(DOMAIN m, running), ids \in Numbers(m, configIDSeq) :
          LET cs == NewConfigs(m, ids, "xDS") IN
          /\ Config' = KeptConfigs \cup cs
          /\ clustersMap' = ServeAll(cs, objects,
                [n \in Name |-> IF n \in StaticNames THEN clustersMap[n] ELSE NoRuntime])
          /\ running' = running \cup Range(objects)
    /\ xdsManaged' = DOMAIN m
    /\ Unlocks(replacedClusters, endpointAddressSnapshot(Config), endpointAddressSnapshot(Config'))
    /\ UNCHANGED <<candidate, fileNames, consumerVars>>

RemoveXDSClusters(ns) ==
    /\ ns \cap xdsManaged # {}
    /\ nextEndpointEventIDLocked
    /\ xdsManaged' = xdsManaged \ ns
    /\ removeClustersLocked(ns \cap xdsManaged)
    /\ IncreaseVersion
    /\ Unlocks({}, endpointAddressSnapshot(Config),
                   endpointAddressSnapshot(Config'))
    /\ UNCHANGED <<configIDSeq, candidate, fileNames, consumerVars>>

(***************************************************************************)
(* The SpringCloud reconciler.  It builds a candidate store for the        *)
(* version it read and swaps it in if the version is still the same; it    *)
(* runs one such cycle at a time.  base is the config the version stood    *)
(* for.                                                                    *)
(***************************************************************************)
NewStore(m) ==
    /\ candidate = NoCandidate
    /\ candidate' = [version |-> Version, clusters |-> m, base |-> Config]
    /\ UNCHANGED <<Config, Version, clustersMap, running, xdsManaged, eventID,
                   configIDSeq, unlocked, fileNames, consumerVars>>

CompareFails ==
    /\ candidate # NoCandidate
    /\ candidate.version # Version
    /\ candidate' = NoCandidate
    /\ UNCHANGED <<Config, Version, clustersMap, running, xdsManaged, eventID,
                   configIDSeq, unlocked, fileNames, consumerVars>>

\* ensureRuntimeClustersFrom: the candidate's map serves its configs and no
\* other, each on a new object.
ensureRuntimeClustersFrom(cs, objects) == ServeAll(cs, objects, [n \in Name |-> NoRuntime])

\* The current runtimes, none of which is in the candidate's map.
runtimeClustersNotIn == UNION {ObjectOf(n) : n \in Name}

CompareAndSetStore ==
    LET m == candidate.clusters IN
    /\ candidate # NoCandidate
    /\ candidate.version = Version
    /\ nextEndpointEventIDLocked
    /\ configIDSeq' = configIDSeq + Cardinality(DOMAIN m)
    /\ \E objects \in Fresh(DOMAIN m, running), ids \in Numbers(m, configIDSeq) :
          LET cs == NewConfigs(m, ids, "other") IN
          /\ Config' = cs
          /\ clustersMap' = ensureRuntimeClustersFrom(cs, objects)
          /\ running' = running \cup Range(objects)
    /\ xdsManaged' = {}
    /\ candidate' = NoCandidate
    /\ Unlocks(runtimeClustersNotIn, endpointAddressSnapshot(Config), endpointAddressSnapshot(Config'))
    /\ UNCHANGED <<Version, fileNames, consumerVars>>

-----------------------------------------------------------------------------
\* After the unlock: stopClusters, then notifyEndpointChanges.
StopReplaced(call) ==
    /\ call.stop # {}
    /\ running' = running \ call.stop
    /\ unlocked' = (unlocked \ {call}) \cup
                      (IF call.announce = {} THEN {} ELSE {[call EXCEPT !.stop = {}]})
    /\ UNCHANGED <<Config, Version, clustersMap, xdsManaged, eventID, configIDSeq,
                   candidate, fileNames, consumerVars>>

Announce(call, e) ==
    /\ call.stop = {}
    /\ e \in call.announce
    /\ unlocked' = (unlocked \ {call}) \cup
                      (IF call.announce = {e} THEN {}
                       ELSE {[call EXCEPT !.announce = @ \ {e}]})
    /\ Feed!Apply(e)
    /\ UNCHANGED <<Config, Version, clustersMap, running, xdsManaged, eventID,
                   configIDSeq, candidate, fileNames>>

Next ==
    \/ \E n \in Name, p \in Payload : AddCluster(n, p) \/ UpdateCluster(n, p)
    \/ \E ns \in SUBSET Name \ {{}} : RemoveCluster(ns)
    \/ \E n \in Name, i \in EndpointID, a \in Address : SetEndpoint(n, i, a)
    \/ \E n \in Name, i \in EndpointID : DeleteEndpoint(n, i)
    \/ MissingCluster
    \/ \E m \in Clusters : ReplaceXDSClusters(m)
    \/ \E ns \in SUBSET Name : RemoveXDSClusters(ns)
    \/ \E m \in Clusters : NewStore(m)
    \/ CompareFails \/ CompareAndSetStore
    \/ \E call \in unlocked : StopReplaced(call)
    \/ \E call \in unlocked : \E e \in call.announce : Announce(call, e)

Spec == Init /\ [][Next]_vars

-----------------------------------------------------------------------------
TypeOK ==
    /\ \A c \in Config : c.name \in Name /\ c.id \in 1 .. configIDSeq
    /\ Version \in Nat
    /\ running \subseteq Runtime
    /\ xdsManaged \subseteq Name
    /\ eventID \in 0 .. MaxEvents
    /\ seen \in [Key -> 0 .. eventID]
    /\ view \subseteq Key

(***************************************************************************)
(* Every runtime that runs its health checks is serving a name or about to *)
(* be stopped by the call that replaced it, and none that serves a name is *)
(* ever stopped - across all the ways ClusterManager replaces runtimes.    *)
(***************************************************************************)
NoOrphanRuntime ==
    LET serving == UNION {ObjectOf(n) : n \in Name}
        doomed == UNION {call.stop : call \in unlocked}
    IN  running = serving \cup doomed /\ serving \cap doomed = {}

(***************************************************************************)
(* A name has one config, and xDS owns the clusters it wrote last and no   *)
(* other: every write by somebody else takes the cluster away from xDS,    *)
(* and an xDS set replaces all that the previous one left.                 *)
(***************************************************************************)
OwnershipFollowsWrites ==
    /\ xdsManaged = {c.name : c \in {d \in Config : d.writer = "xDS"}}
    /\ \A c, d \in Config : c.name = d.name => c = d

(***************************************************************************)
(* The runtime the request path picks endpoints from always has exactly    *)
(* the endpoints of the config the writers see.                            *)
(***************************************************************************)
RuntimeMatchesConfig ==
    /\ Served = Names
    /\ \A n \in Served : /\ clustersMap[n].configID = findClusterConfig(n).id
                         /\ clustersMap[n].endpoints = findClusterConfig(n).endpoints

(***************************************************************************)
(* No write is lost to a reconciliation: when CompareAndSetStore installs  *)
(* a candidate, the store is still the one the candidate was made for.     *)
(***************************************************************************)
CASLosesNoWrite == [][CompareAndSetStore => Config = candidate.base]_vars

(***************************************************************************)
(* An xDS set neither rewrites nor restarts a cluster that hot reload, a   *)
(* registry or the reconciler wrote.                                       *)
(***************************************************************************)
XDSTouchesOnlyItsOwn ==
    [][(\E m \in Clusters : ReplaceXDSClusters(m)) =>
          \A c \in Config : c.writer = "other" =>
             c \in Config' /\ clustersMap'[c.name] = clustersMap[c.name]]_vars

(***************************************************************************)
(* Every write is announced the way EndpointFeed promises the consumers of *)
(* the callbacks, whose knowledge of the live addresses then converges.    *)
(***************************************************************************)
ImplementsFeed == Feed!Spec

\* The consumer is right about every address with nothing newer under way.
ConsumerConverges == Feed!ConsumerConverges

\* The store hangs together through every order of writes: runtimes are those of
\* the configuration or are being stopped, and names belong to their last writer.
StoreIsConsistent == TypeOK /\ NoOrphanRuntime /\ OwnershipFollowsWrites /\ RuntimeMatchesConfig

\* No writer undoes what it did not know of: a compare-and-set loses no write that
\* came between, and an xDS write leaves the clusters of others alone.
WritersKeepOut == CASLosesNoWrite /\ XDSTouchesOnlyItsOwn
=============================================================================
