------------------------- MODULE ClusterManager_proofs -------------------------
(***************************************************************************)
(* The store of the cluster manager hangs together, its writers keep out   *)
(* of each other's way and its announcements are the endpoint feed, for    *)
(* any names, endpoints, addresses, runtimes and number of writes.         *)
(***************************************************************************)
EXTENDS ClusterManager, FiniteSetTheorems, TLAPS

ConfigType == [name : Name, id : Nat, endpoints : Endpoints, writer : {"xDS", "other"}]
RuntimeType == [object : Runtime, configID : Nat, endpoints : Endpoints]
CallType == [stop : SUBSET Runtime, announce : SUBSET Feed!Announcement]

Types ==
    /\ Config \in SUBSET ConfigType
    /\ \A c \in Config : c.id \in 1 .. configIDSeq
    /\ configIDSeq \in Nat
    /\ Version \in Nat
    /\ clustersMap \in [Name -> RuntimeType \cup {NoRuntime}]
    /\ running \in SUBSET Runtime
    /\ xdsManaged \in SUBSET Name
    /\ eventID \in 0 .. MaxEvents
    /\ unlocked \in SUBSET CallType
    /\ seen \in [Key -> 0 .. eventID]
    /\ view \in SUBSET Key

\* A set of configs and a map of runtimes are about the same clusters.
Matching(cs, map) ==
    /\ \A c, d \in cs : c.name = d.name => c = d
    /\ \A n \in Name : map[n] # NoRuntime <=> \E c \in cs : c.name = n
    /\ \A c \in cs : map[c.name].configID = c.id /\ map[c.name].endpoints = c.endpoints

\* xDS owns what it wrote last.
Owned == \A n \in Name : n \in xdsManaged <=> \E c \in Config : c.name = n /\ c.writer = "xDS"

\* An object serves one name, or one call is about to stop it, and no other runs.
Serving(o) == \E n \in Name : clustersMap[n] # NoRuntime /\ clustersMap[n].object = o
Doomed(o) == \E call \in unlocked : o \in call.stop

Objects ==
    /\ \A n, m \in Name :
          (clustersMap[n] # NoRuntime /\ clustersMap[m] # NoRuntime
             /\ clustersMap[n].object = clustersMap[m].object) => n = m
    /\ \A o \in Runtime : o \in running <=> Serving(o) \/ Doomed(o)
    /\ \A o \in Runtime : ~(Serving(o) /\ Doomed(o))

\* No two calls stop the same object or announce the same thing.
Calls ==
    /\ \A call \in unlocked : \A e \in call.announce : e.version <= eventID
    /\ \A c, d \in unlocked : c # d => c.stop \cap d.stop = {} /\ c.announce \cap d.announce = {}

\* A candidate of the current version was made for the current store.
CandidateFits ==
    candidate # NoCandidate => /\ candidate.version \in 0 .. Version
                               /\ candidate.version = Version => Config = candidate.base
                               /\ candidate.clusters \in Clusters

IInv == Types /\ Matching(Config, clustersMap) /\ Owned /\ Objects /\ Calls /\ CandidateFits

-----------------------------------------------------------------------------
\* What the endpoint maps of the writes are made of.
LEMMA EndpointMaps ==
    /\ \A f \in Endpoints : DOMAIN f \in SUBSET EndpointID /\ f \in [DOMAIN f -> Address]
    /\ \A S \in SUBSET EndpointID : \A f \in [S -> Address] : f \in Endpoints
    /\ \A f \in Endpoints : Range(f) \in SUBSET Address
BY DEF Endpoints, Range

LEMMA WithEndpointMap ==
    ASSUME NEW f \in Endpoints, NEW i \in EndpointID, NEW a \in Address
    PROVE  WithEndpoint(f, i, a) \in Endpoints
<1>1. DOMAIN f \cup {i} \in SUBSET EndpointID
    BY EndpointMaps
<1>2. WithEndpoint(f, i, a) \in [DOMAIN f \cup {i} -> Address]
    BY EndpointMaps DEF WithEndpoint
<1> QED BY <1>1, <1>2, EndpointMaps

LEMMA RestrictMap ==
    ASSUME NEW f \in Endpoints, NEW i
    PROVE  Restrict(f, DOMAIN f \ {i}) \in Endpoints
<1>1. DOMAIN f \ {i} \in SUBSET EndpointID
    BY EndpointMaps
<1>2. Restrict(f, DOMAIN f \ {i}) \in [DOMAIN f \ {i} -> Address]
    BY EndpointMaps DEF Restrict
<1> QED BY <1>1, <1>2, EndpointMaps

\* The keys of a set of configs.
LEMMA SnapshotKeys ==
    ASSUME NEW cs \in SUBSET ConfigType
    PROVE  /\ endpointAddressSnapshot(cs) \in SUBSET Key
           /\ \A k : k \in endpointAddressSnapshot(cs) <=>
                       \E c \in cs : \E a \in Range(c.endpoints) : k = <<c.name, a>>
<1>1. \A k : k \in endpointAddressSnapshot(cs) <=>
                \E c \in cs : \E a \in Range(c.endpoints) : k = <<c.name, a>>
    BY DEF endpointAddressSnapshot
<1>2. \A c \in cs : c.name \in Name /\ Range(c.endpoints) \in SUBSET Address
    BY EndpointMaps DEF ConfigType
<1> QED BY <1>1, <1>2 DEF Key

\* HasEndpointAddress and the configs agree.
PresentIn(map) ==
    UNION {{<<n, a>> : a \in Range(map[n].endpoints)} : n \in {m \in Name : map[m] # NoRuntime}}

LEMMA PresentIsConfigured ==
    ASSUME NEW cs \in SUBSET ConfigType, NEW map, Matching(cs, map)
    PROVE  PresentIn(map) = endpointAddressSnapshot(cs)
<1>1. \A k : k \in endpointAddressSnapshot(cs) <=>
                \E c \in cs : \E a \in Range(c.endpoints) : k = <<c.name, a>>
    BY SnapshotKeys
<1>2. \A k : k \in PresentIn(map) <=>
                \E n \in Name : map[n] # NoRuntime /\ \E a \in Range(map[n].endpoints) : k = <<n, a>>
    BY DEF PresentIn
<1>3. ASSUME NEW k, k \in PresentIn(map) PROVE k \in endpointAddressSnapshot(cs)
  <2>1. PICK n \in Name : map[n] # NoRuntime /\ \E a \in Range(map[n].endpoints) : k = <<n, a>>
      BY <1>2, <1>3
  <2>2. PICK c \in cs : c.name = n
      BY <2>1 DEF Matching
  <2>3. map[n].endpoints = c.endpoints
      BY <2>2 DEF Matching
  <2> QED BY <2>1, <2>2, <2>3, <1>1
<1>4. ASSUME NEW k, k \in endpointAddressSnapshot(cs) PROVE k \in PresentIn(map)
  <2>1. PICK c \in cs : \E a \in Range(c.endpoints) : k = <<c.name, a>>
      BY <1>1, <1>4
  <2>2. c.name \in Name /\ map[c.name] # NoRuntime /\ map[c.name].endpoints = c.endpoints
      BY DEF Matching, ConfigType
  <2> QED BY <2>1, <2>2, <1>2
<1> QED BY <1>3, <1>4

\* What endpointStateChanges announces depends on what came and what went.
LEMMA SameChanges ==
    ASSUME NEW old, NEW new, NEW before, NEW after, NEW v,
           new \ old = after \ before, old \ new = before \ after
    PROVE  Feed!Changes(old, new, v) = Feed!Changes(before, after, v)
BY DEF Feed!Changes

LEMMA ChangesTyped ==
    ASSUME NEW old \in SUBSET Key, NEW new \in SUBSET Key, NEW v \in 1 .. MaxEvents
    PROVE  /\ Feed!Changes(old, new, v) \in SUBSET Feed!Announcement
           /\ \A e \in Feed!Changes(old, new, v) : e.version = v
<1> SUFFICES ASSUME NEW e \in Feed!Changes(old, new, v)
             PROVE  e \in Feed!Announcement /\ e.version = v
    OBVIOUS
<1>1. PICK k \in Key : \/ e = [key |-> k, present |-> TRUE, version |-> v]
                      \/ e = [key |-> k, present |-> FALSE, version |-> v]
    BY DEF Feed!Changes
<1>2. CASE e = [key |-> k, present |-> TRUE, version |-> v]
    BY <1>2 DEF Feed!Announcement
<1>3. CASE e = [key |-> k, present |-> FALSE, version |-> v]
    BY <1>3 DEF Feed!Announcement
<1> QED BY <1>1, <1>2, <1>3

-----------------------------------------------------------------------------
\* What a write leaves to do after its unlock is added to what others left.
LEMMA UnlocksCalls ==
    ASSUME Types, Calls, nextEndpointEventIDLocked,
           NEW stop \in SUBSET Runtime, NEW old \in SUBSET Key, NEW new \in SUBSET Key,
           Unlocks(stop, old, new), \A o \in stop : ~Doomed(o)
    PROVE  /\ unlocked' \in SUBSET CallType
           /\ eventID' \in 0 .. MaxEvents /\ eventID' = eventID + 1
           /\ Calls'
           /\ \A o : Doomed(o)' <=> Doomed(o) \/ o \in stop
           /\ Undelivered' = Undelivered \cup Feed!Changes(old, new, eventID + 1)
<1> DEFINE v == eventID + 1
           told == Feed!Changes(old, new, v)
           call == [stop |-> stop, announce |-> told]
<1>1. eventID \in Nat /\ eventID' = v /\ v \in 1 .. MaxEvents /\ eventID' \in 0 .. MaxEvents
    BY ManagerAssumption DEF Types, nextEndpointEventIDLocked
<1>2. told \in SUBSET Feed!Announcement /\ \A e \in told : e.version = v
    BY <1>1, ChangesTyped
<1>3. unlocked' = IF stop = {} /\ told = {} THEN unlocked ELSE unlocked \cup {call}
    BY DEF Unlocks
<1>4. call \in CallType /\ call.stop = stop /\ call.announce = told
    BY <1>2 DEF CallType
<1> HIDE DEF told, call, v
<1>5. \A d \in unlocked : \A e \in d.announce : e.version <= eventID
    BY DEF Calls
<1>6. \A d \in unlocked : d.announce \cap told = {}
    BY <1>1, <1>2, <1>5 DEF v
<1>7. \A d \in unlocked : d.stop \cap stop = {}
    BY DEF Doomed
<1>8. CASE unlocked' = unlocked /\ stop = {} /\ told = {}
  <2>1. \A d \in unlocked : \A e \in d.announce : e.version <= eventID'
      BY <1>1, <1>5 DEF v, Types, CallType, Feed!Announcement
  <2>2. Calls'
      BY <2>1, <1>8 DEF Calls
  <2> QED BY <2>2, <1>1, <1>8 DEF Types, Doomed, Undelivered, told, v
<1>9. CASE unlocked' = unlocked \cup {call}
  <2>1. \A d \in unlocked' : \A e \in d.announce : e.version <= eventID'
      BY <1>1, <1>2, <1>4, <1>5, <1>9 DEF v, Types, CallType, Feed!Announcement
  <2>2. \A c, d \in unlocked' : c # d => c.stop \cap d.stop = {} /\ c.announce \cap d.announce = {}
      BY <1>4, <1>6, <1>7, <1>9 DEF Calls
  <2>3. Calls'
      BY <2>1, <2>2 DEF Calls
  <2>4. \A o : Doomed(o)' <=> Doomed(o) \/ o \in stop
      BY <1>4, <1>9 DEF Doomed
  <2>5. Undelivered' = Undelivered \cup told
      BY <1>4, <1>9 DEF Undelivered
  <2> QED BY <2>3, <2>4, <2>5, <1>1, <1>4, <1>9 DEF Types, told, v
<1> QED BY <1>3, <1>8, <1>9

\* A write that announces what it changed is a change of the feed.
LEMMA WriteIsChange ==
    ASSUME Types, Matching(Config, clustersMap), Types', Matching(Config, clustersMap)',
           nextEndpointEventIDLocked, UNCHANGED consumerVars,
           NEW old, NEW new,
           Undelivered' = Undelivered \cup Feed!Changes(old, new, eventID + 1),
           new \ old = endpointAddressSnapshot(Config') \ endpointAddressSnapshot(Config),
           old \ new = endpointAddressSnapshot(Config) \ endpointAddressSnapshot(Config')
    PROVE  PresentKeys' \in SUBSET Key /\ Feed!Change(PresentKeys')
<1>1. Config \in SUBSET ConfigType /\ Config' \in SUBSET ConfigType
    BY DEF Types
<1>2. PresentKeys = endpointAddressSnapshot(Config)
    BY <1>1, PresentIsConfigured DEF PresentKeys, PresentIn, Served
<1>3. PresentKeys' = endpointAddressSnapshot(Config') /\ PresentKeys' \in SUBSET Key
  <2>1. PresentIn(clustersMap') = endpointAddressSnapshot(Config')
      BY <1>1, PresentIsConfigured
  <2>2. PresentKeys' = PresentIn(clustersMap')
      BY DEF PresentKeys, PresentIn, Served
  <2> QED BY <2>1, <2>2, <1>1, SnapshotKeys
<1>4. Feed!Changes(old, new, eventID + 1) = Feed!Changes(PresentKeys, PresentKeys', eventID + 1)
    BY <1>2, <1>3, SameChanges
<1> QED BY <1>3, <1>4 DEF Feed!Change, nextEndpointEventIDLocked, consumerVars

(***************************************************************************)
(* A write of one cluster: config c takes the place of what n had, on an   *)
(* object that is new or the one that served n.                            *)
(***************************************************************************)
LEMMA WriteOne ==
    ASSUME IInv, NEW n \in Name, NEW c \in ConfigType, c.name = n, c.writer = "other",
           NEW object \in Runtime, object \in ObjectOf(n) \/ object \notin running,
           configIDSeq' \in Nat, configIDSeq <= configIDSeq', c.id \in 1 .. configIDSeq',
           Config' = (Config \ Found(n)) \cup {c},
           Serves(n, object, c),
           xdsManaged' = xdsManaged \ {n},
           nextEndpointEventIDLocked, IncreaseVersion,
           Unlocks({}, endpointAddressSnapshot(Found(n)), endpointAddressSnapshot({c})),
           UNCHANGED <<candidate, consumerVars>>
    PROVE  IInv' /\ PresentKeys' \in SUBSET Key /\ Feed!Change(PresentKeys')
<1> DEFINE r == NewCluster(object, c)
           old == endpointAddressSnapshot(Found(n))
           new == endpointAddressSnapshot({c})
<1> USE DEF IInv
<1>1. /\ r \in RuntimeType /\ r # NoRuntime
      /\ r.object = object /\ r.configID = c.id /\ r.endpoints = c.endpoints
    BY ManagerAssumption DEF NewCluster, RuntimeType, ConfigType
<1>2. /\ clustersMap' = [clustersMap EXCEPT ![n] = r]
      /\ running' = (running \ ObjectOf(n)) \cup {object}
    BY DEF Serves
<1> HIDE DEF r
<1>3. /\ clustersMap' \in [Name -> RuntimeType \cup {NoRuntime}]
      /\ clustersMap'[n] = r /\ \A m \in Name \ {n} : clustersMap'[m] = clustersMap[m]
    BY <1>1, <1>2 DEF Types
<1>4. \A d : d \in Config' <=> d = c \/ (d \in Config /\ d.name # n)
    BY DEF Found
<1>5. Config \in SUBSET ConfigType /\ Config' \in SUBSET ConfigType
    BY <1>4 DEF Types
<1>6. Matching(Config', clustersMap')
    BY <1>1, <1>3, <1>4, <1>5 DEF Matching, ConfigType
<1>7. /\ Found(n) \in SUBSET ConfigType /\ {c} \in SUBSET ConfigType
      /\ old \in SUBSET Key /\ new \in SUBSET Key
    BY <1>5, SnapshotKeys DEF Found
<1>8. /\ unlocked' \in SUBSET CallType
      /\ eventID' \in 0 .. MaxEvents /\ eventID' = eventID + 1
      /\ Calls'
      /\ \A o : Doomed(o)' <=> Doomed(o)
      /\ Undelivered' = Undelivered \cup Feed!Changes(old, new, eventID + 1)
  <2>1. Types /\ Calls /\ {} \in SUBSET Runtime /\ \A o \in {} : ~Doomed(o)
      OBVIOUS
  <2>2. /\ unlocked' \in SUBSET CallType
        /\ eventID' \in 0 .. MaxEvents /\ eventID' = eventID + 1
        /\ Calls'
        /\ \A o : Doomed(o)' <=> Doomed(o) \/ o \in {}
        /\ Undelivered' = Undelivered \cup Feed!Changes(old, new, eventID + 1)
    <3> HIDE DEF old, new, IInv
    <3> QED BY <2>1, <1>7, UnlocksCalls DEF old, new
  <2> QED BY <2>2
<1>9. \A o : o \in ObjectOf(n) <=> clustersMap[n] # NoRuntime /\ clustersMap[n].object = o
    BY DEF ObjectOf, Served
<1>10. Types'
  <2>1. \A d \in Config' : d.id \in 1 .. configIDSeq'
      BY <1>4 DEF Types
  <2>2. running' \in SUBSET Runtime
      BY <1>2 DEF Types
  <2>3. seen' \in [Key -> 0 .. eventID'] /\ view' \in SUBSET Key
      BY <1>8 DEF Types, consumerVars
  <2>4. Version' \in Nat /\ xdsManaged' \in SUBSET Name
      BY DEF Types, IncreaseVersion
  <2> QED BY <2>1, <2>2, <2>3, <2>4, <1>3, <1>5, <1>8 DEF Types
<1>11. Owned'
    BY <1>4 DEF Owned
<1>12. Objects'
  <2>1. \A o : Serving(o) <=> o \in ObjectOf(n) \/ \E m \in Name \ {n} : clustersMap[m] # NoRuntime /\ clustersMap[m].object = o
      BY <1>9 DEF Serving
  <2>2. \A o : Serving(o)' <=> o = object \/ \E m \in Name \ {n} : clustersMap[m] # NoRuntime /\ clustersMap[m].object = o
      BY <1>1, <1>3 DEF Serving
  <2>3. \A m \in Name \ {n} : clustersMap[m] # NoRuntime => clustersMap[m].object \notin ObjectOf(n)
      BY <1>9 DEF Objects
  <2>4. \A m \in Name : clustersMap[m] # NoRuntime => clustersMap[m].object \in running
      BY DEF Objects, Serving, Types, RuntimeType
  <2>5. \A m \in Name \ {n} : clustersMap[m] # NoRuntime => clustersMap[m].object # object
      BY <2>3, <2>4
  <2>6. ~Doomed(object)
      BY <2>1 DEF Objects
  <2>7. \A m, k \in Name : (clustersMap'[m] # NoRuntime /\ clustersMap'[k] # NoRuntime
                              /\ clustersMap'[m].object = clustersMap'[k].object) => m = k
      BY <2>5, <1>1, <1>3 DEF Objects
  <2>8. ASSUME NEW o \in Runtime
        PROVE  (o \in running' <=> Serving(o)' \/ Doomed(o)') /\ ~(Serving(o)' /\ Doomed(o)')
    <3>1. (o \in running <=> Serving(o) \/ Doomed(o)) /\ ~(Serving(o) /\ Doomed(o))
        BY DEF Objects
    <3> QED BY <3>1, <2>1, <2>2, <2>3, <2>6, <1>2, <1>8
  <2> QED BY <2>7, <2>8 DEF Objects
<1>13. CandidateFits'
    BY DEF CandidateFits, IncreaseVersion, Types
<1>14. /\ new \ old = endpointAddressSnapshot(Config') \ endpointAddressSnapshot(Config)
       /\ old \ new = endpointAddressSnapshot(Config) \ endpointAddressSnapshot(Config')
  <2>1. \A k : k \in old <=> \E d \in Config : d.name = n /\ \E a \in Range(d.endpoints) : k = <<d.name, a>>
      BY <1>7, SnapshotKeys DEF Found
  <2>2. \A k : k \in new <=> \E a \in Range(c.endpoints) : k = <<n, a>>
      BY <1>7, SnapshotKeys
  <2> DEFINE rest(k) == \E d \in Config : d.name # n /\ \E a \in Range(d.endpoints) : k = <<d.name, a>>
  <2>3. \A k : k \in endpointAddressSnapshot(Config) <=> k \in old \/ rest(k)
      BY <2>1, <1>5, SnapshotKeys
  <2>4. \A k : k \in endpointAddressSnapshot(Config') <=> k \in new \/ rest(k)
      BY <2>2, <1>4, <1>5, SnapshotKeys
  <2>5. \A k : rest(k) => k \notin old /\ k \notin new
    <3> HIDE DEF old, new, IInv
    <3>1. \A k : k \in new => k[1] = n
        BY <2>2
    <3>2. \A k : k \in old => k[1] = n
        BY <2>1
    <3>3. \A k : rest(k) => k[1] # n
        OBVIOUS
    <3> HIDE DEF rest
    <3> QED BY <3>1, <3>2, <3>3
  <2> HIDE DEF old, new, rest
  <2> QED BY <2>3, <2>4, <2>5
<1>15. IInv'
    BY <1>6, <1>8, <1>10, <1>11, <1>12, <1>13
<1> HIDE DEF old, new, IInv
<1>16. Types /\ Matching(Config, clustersMap)
    BY DEF IInv
<1> QED BY <1>6, <1>8, <1>10, <1>14, <1>15, <1>16, WriteIsChange

\* The announcements of a write of many clusters compare the whole lists.
LEMMA WriteManyCalls ==
    ASSUME IInv, nextEndpointEventIDLocked, Config' \in SUBSET ConfigType,
           NEW stop \in SUBSET Runtime, \A o \in stop : ~Doomed(o),
           Unlocks(stop, endpointAddressSnapshot(Config), endpointAddressSnapshot(Config'))
    PROVE  /\ unlocked' \in SUBSET CallType
           /\ eventID' \in 0 .. MaxEvents /\ eventID' = eventID + 1
           /\ Calls'
           /\ \A o : Doomed(o)' <=> Doomed(o) \/ o \in stop
           /\ Undelivered' = Undelivered \cup Feed!Changes(endpointAddressSnapshot(Config),
                                                          endpointAddressSnapshot(Config'), eventID + 1)
<1>1. Types /\ Calls /\ Config \in SUBSET ConfigType
    BY DEF IInv, Types
<1>2. /\ endpointAddressSnapshot(Config) \in SUBSET Key
      /\ endpointAddressSnapshot(Config') \in SUBSET Key
    BY <1>1, SnapshotKeys
<1> QED BY <1>1, <1>2, UnlocksCalls

(***************************************************************************)
(* The removal of the clusters ns, whose objects are stopped at once.      *)
(***************************************************************************)
LEMMA RemoveMany ==
    ASSUME IInv, NEW ns \in SUBSET Name,
           removeClustersLocked(ns),
           xdsManaged' = xdsManaged \ ns,
           nextEndpointEventIDLocked, IncreaseVersion,
           Unlocks({}, endpointAddressSnapshot(Config), endpointAddressSnapshot(Config')),
           UNCHANGED <<configIDSeq, candidate, consumerVars>>
    PROVE  IInv' /\ PresentKeys' \in SUBSET Key /\ Feed!Change(PresentKeys')
<1> USE DEF IInv
<1>1. /\ Config' = {c \in Config : c.name \notin ns}
      /\ clustersMap' = [n \in Name |-> IF n \in ns THEN NoRuntime ELSE clustersMap[n]]
      /\ running' = running \ UNION {ObjectOf(n) : n \in ns}
    BY DEF removeClustersLocked
<1>2. /\ clustersMap' \in [Name -> RuntimeType \cup {NoRuntime}]
      /\ \A n \in ns : clustersMap'[n] = NoRuntime
      /\ \A n \in Name \ ns : clustersMap'[n] = clustersMap[n]
    BY <1>1 DEF Types
<1>3. Config \in SUBSET ConfigType /\ Config' \in SUBSET ConfigType
    BY <1>1 DEF Types
<1>4. Matching(Config', clustersMap')
    BY <1>1, <1>2, <1>3 DEF Matching, ConfigType
<1>5. /\ unlocked' \in SUBSET CallType
      /\ eventID' \in 0 .. MaxEvents /\ eventID' = eventID + 1
      /\ Calls'
      /\ \A o : Doomed(o)' <=> Doomed(o)
      /\ Undelivered' = Undelivered \cup Feed!Changes(endpointAddressSnapshot(Config),
                                                     endpointAddressSnapshot(Config'), eventID + 1)
  <2>1. {} \in SUBSET Runtime /\ \A o \in {} : ~Doomed(o)
      OBVIOUS
  <2> HIDE DEF IInv
  <2>2. /\ unlocked' \in SUBSET CallType
        /\ eventID' \in 0 .. MaxEvents /\ eventID' = eventID + 1
        /\ Calls'
        /\ \A o : Doomed(o)' <=> Doomed(o) \/ o \in {}
        /\ Undelivered' = Undelivered \cup Feed!Changes(endpointAddressSnapshot(Config),
                                                       endpointAddressSnapshot(Config'), eventID + 1)
      BY <2>1, <1>3, WriteManyCalls
  <2> QED BY <2>2
<1>6. Types'
  <2>1. \A d \in Config' : d.id \in 1 .. configIDSeq'
      BY <1>1 DEF Types
  <2>2. running' \in SUBSET Runtime
      BY <1>1 DEF Types
  <2>3. seen' \in [Key -> 0 .. eventID'] /\ view' \in SUBSET Key
      BY <1>5 DEF Types, consumerVars
  <2>4. Version' \in Nat /\ xdsManaged' \in SUBSET Name /\ configIDSeq' \in Nat
      BY DEF Types, IncreaseVersion
  <2> QED BY <2>1, <2>2, <2>3, <2>4, <1>2, <1>3, <1>5 DEF Types
<1>7. Owned'
    BY <1>1 DEF Owned
<1>8. Objects'
  <2> DEFINE gone == UNION {ObjectOf(n) : n \in ns}
  <2>1. \A o : o \in gone <=> \E n \in ns : clustersMap[n] # NoRuntime /\ clustersMap[n].object = o
      BY DEF ObjectOf, Served
  <2>2. running' = running \ gone
      BY <1>1
  <2> HIDE DEF gone
  <2>3. \A o : Serving(o)' <=> \E n \in Name \ ns : clustersMap[n] # NoRuntime /\ clustersMap[n].object = o
      BY <1>2 DEF Serving
  <2>4. \A o : Serving(o) <=> Serving(o)' \/ o \in gone
      BY <2>1, <2>3 DEF Serving
  <2>5. \A o : ~(Serving(o)' /\ o \in gone)
      BY <2>1, <2>3 DEF Objects
  <2>6. \A m, k \in Name : (clustersMap'[m] # NoRuntime /\ clustersMap'[k] # NoRuntime
                              /\ clustersMap'[m].object = clustersMap'[k].object) => m = k
      BY <1>2 DEF Objects
  <2>7. ASSUME NEW o \in Runtime
        PROVE  (o \in running' <=> Serving(o)' \/ Doomed(o)') /\ ~(Serving(o)' /\ Doomed(o)')
    <3>1. (o \in running <=> Serving(o) \/ Doomed(o)) /\ ~(Serving(o) /\ Doomed(o))
        BY DEF Objects
    <3> QED BY <3>1, <2>2, <2>4, <2>5, <1>5
  <2> QED BY <2>6, <2>7 DEF Objects
<1>9. CandidateFits'
    BY DEF CandidateFits, IncreaseVersion, Types
<1>10. IInv'
    BY <1>4, <1>5, <1>6, <1>7, <1>8, <1>9
<1> HIDE DEF IInv
<1>11. Types /\ Matching(Config, clustersMap)
    BY DEF IInv
<1> QED BY <1>4, <1>5, <1>6, <1>10, <1>11, WriteIsChange

\* New configs and their runtimes, one per name of m.
LEMMA NewConfigsServed ==
    ASSUME NEW m \in Clusters, NEW last \in Nat, NEW ids \in Numbers(m, last),
           NEW who \in {"xDS", "other"}, NEW objects \in [DOMAIN m -> Runtime], NEW other
    PROVE  LET cs == NewConfigs(m, ids, who)
               map == ServeAll(cs, objects, other)
           IN  /\ DOMAIN m \in SUBSET Name
               /\ Cardinality(DOMAIN m) \in Nat
               /\ cs \in SUBSET ConfigType
               /\ \A c \in cs : /\ c.name \in DOMAIN m /\ c.writer = who
                                /\ c.id \in 1 .. last + Cardinality(DOMAIN m)
               /\ \A n \in DOMAIN m : \E c \in cs : c.name = n
               /\ \A c, d \in cs : c.name = d.name => c = d
               /\ \A c \in cs : /\ map[c.name] \in RuntimeType /\ map[c.name] # NoRuntime
                                /\ map[c.name].object = objects[c.name]
                                /\ map[c.name].configID = c.id /\ map[c.name].endpoints = c.endpoints
               /\ \A n \in Name \ DOMAIN m : map[n] = other[n]
               /\ map = [n \in Name |-> map[n]]
<1> DEFINE cs == NewConfigs(m, ids, who)
           map == ServeAll(cs, objects, other)
           config(n) == NewConfig(n, m[n], ids[n], who)
<1>1. DOMAIN m \in SUBSET Name /\ \A n \in DOMAIN m : m[n] \in Endpoints
    BY ManagerAssumption DEF Clusters
<1>2. Cardinality(DOMAIN m) \in Nat
    BY <1>1, ManagerAssumption, FS_Subset, FS_CardinalityType
<1>3. \A n \in DOMAIN m : ids[n] \in Nat /\ ids[n] \in 1 .. last + Cardinality(DOMAIN m)
    BY <1>2 DEF Numbers, Bijection, Injection
<1>4. \A n \in DOMAIN m :
          /\ config(n) \in ConfigType /\ config(n).name = n /\ config(n).writer = who
          /\ config(n).id = ids[n] /\ config(n).endpoints = m[n]
    BY <1>1, <1>3 DEF NewConfig, ConfigType
<1>5. \A c : c \in cs <=> \E n \in DOMAIN m : c = config(n)
    BY DEF NewConfigs
<1> HIDE DEF cs, config
<1>6. /\ \A c \in cs : c \in ConfigType /\ c.name \in DOMAIN m /\ c = config(c.name)
      /\ \A n \in DOMAIN m : config(n) \in cs
    BY <1>4, <1>5
<1>7. ASSUME NEW n \in DOMAIN m
      PROVE  map[n] = NewCluster(objects[n], config(n))
  <2>1. (CHOOSE c \in cs : c.name = n) = config(n)
      BY <1>4, <1>6
  <2> QED BY <2>1, <1>1 DEF ServeAll
<1>8. ASSUME NEW n \in DOMAIN m
      PROVE  LET r == NewCluster(objects[n], config(n))
             IN  /\ r \in RuntimeType /\ r # NoRuntime /\ r.object = objects[n]
                 /\ r.configID = config(n).id /\ r.endpoints = config(n).endpoints
  <2>1. config(n).id \in Nat /\ config(n).endpoints \in Endpoints /\ objects[n] \in Runtime
      BY <1>4 DEF ConfigType
  <2> QED BY <2>1, ManagerAssumption DEF NewCluster, RuntimeType
<1>9. \A n \in Name \ DOMAIN m : map[n] = other[n]
    BY DEF ServeAll
<1>10. map = [n \in Name |-> map[n]]
    BY DEF ServeAll
<1> HIDE DEF map
<1>11. \A c \in cs : c.writer = who /\ c.id \in 1 .. last + Cardinality(DOMAIN m)
    BY <1>3, <1>4, <1>6
<1>12. /\ \A n \in DOMAIN m : \E c \in cs : c.name = n
       /\ \A c, d \in cs : c.name = d.name => c = d
    BY <1>4, <1>6
<1>13. \A c \in cs : /\ map[c.name] \in RuntimeType /\ map[c.name] # NoRuntime
                     /\ map[c.name].object = objects[c.name]
                     /\ map[c.name].configID = c.id /\ map[c.name].endpoints = c.endpoints
    BY <1>6, <1>7, <1>8
<1> QED BY <1>1, <1>2, <1>6, <1>9, <1>10, <1>11, <1>12, <1>13 DEF cs, map

(***************************************************************************)
(* The clusters of m take the place of the clusters with a name in out.    *)
(* The objects of those are stopped after the unlock.                      *)
(***************************************************************************)
LEMMA ReplaceMany ==
    ASSUME IInv, NEW out \in SUBSET Name, NEW m \in Clusters, NEW who \in {"xDS", "other"},
           \A c \in Config : c.name \in DOMAIN m => c.name \in out,
           NEW objects \in Fresh(DOMAIN m, running), NEW ids \in Numbers(m, configIDSeq), NEW other,
           \A n \in Name : other[n] = IF n \in out THEN NoRuntime ELSE clustersMap[n],
           configIDSeq' = configIDSeq + Cardinality(DOMAIN m),
           Config' = {c \in Config : c.name \notin out} \cup NewConfigs(m, ids, who),
           clustersMap' = ServeAll(NewConfigs(m, ids, who), objects, other),
           running' = running \cup Range(objects),
           xdsManaged' \in SUBSET Name, Owned',
           nextEndpointEventIDLocked, Version' \in Nat, CandidateFits',
           Unlocks(UNION {ObjectOf(n) : n \in out},
                   endpointAddressSnapshot(Config), endpointAddressSnapshot(Config')),
           UNCHANGED consumerVars
    PROVE  IInv' /\ PresentKeys' \in SUBSET Key /\ Feed!Change(PresentKeys')
<1> DEFINE cs == NewConfigs(m, ids, who)
           gone == UNION {ObjectOf(n) : n \in out}
<1> USE DEF IInv
<1>1. /\ objects \in [DOMAIN m -> Runtime] /\ \A n \in DOMAIN m : objects[n] \notin running
      /\ \A n, k \in DOMAIN m : objects[n] = objects[k] => n = k
    BY DEF Fresh, Injection, IsInjective
<1>2. configIDSeq \in Nat
    BY DEF Types
<1>3. /\ DOMAIN m \in SUBSET Name
      /\ Cardinality(DOMAIN m) \in Nat
      /\ cs \in SUBSET ConfigType
      /\ \A c \in cs : /\ c.name \in DOMAIN m /\ c.writer = who
                       /\ c.id \in 1 .. configIDSeq + Cardinality(DOMAIN m)
      /\ \A n \in DOMAIN m : \E c \in cs : c.name = n
      /\ \A c, d \in cs : c.name = d.name => c = d
      /\ \A c \in cs : /\ clustersMap'[c.name] \in RuntimeType /\ clustersMap'[c.name] # NoRuntime
                       /\ clustersMap'[c.name].object = objects[c.name]
                       /\ clustersMap'[c.name].configID = c.id
                       /\ clustersMap'[c.name].endpoints = c.endpoints
      /\ \A n \in Name \ DOMAIN m : clustersMap'[n] = other[n]
      /\ clustersMap' = [n \in Name |-> clustersMap'[n]]
    BY <1>1, <1>2, NewConfigsServed
<1>4. Config' = {c \in Config : c.name \notin out} \cup cs
    OBVIOUS
<1> HIDE DEF cs
<1>5. /\ \A n \in Name \ DOMAIN m : clustersMap'[n] = IF n \in out THEN NoRuntime ELSE clustersMap[n]
      /\ \A n \in DOMAIN m : /\ clustersMap'[n] \in RuntimeType /\ clustersMap'[n] # NoRuntime
                             /\ clustersMap'[n].object = objects[n]
    BY <1>3
<1>6. clustersMap' \in [Name -> RuntimeType \cup {NoRuntime}]
  <2>1. \A n \in Name : clustersMap'[n] \in RuntimeType \cup {NoRuntime}
      BY <1>5 DEF Types
  <2> QED BY <2>1, <1>3
<1>7. Config \in SUBSET ConfigType /\ Config' \in SUBSET ConfigType
    BY <1>3, <1>4 DEF Types
<1>8. Matching(Config', clustersMap')
  <2>1. \A c, d \in Config' : c.name = d.name => c = d
      BY <1>3, <1>4 DEF Matching
  <2>2. ASSUME NEW n \in Name PROVE clustersMap'[n] # NoRuntime <=> \E c \in Config' : c.name = n
    <3>1. CASE n \in DOMAIN m
        BY <3>1, <1>3, <1>4, <1>5
    <3>2. CASE n \notin DOMAIN m
      <4>1. clustersMap[n] # NoRuntime <=> \E c \in Config : c.name = n
          BY DEF Matching
      <4>2. \A c \in cs : c.name # n
          BY <3>2, <1>3
      <4> QED BY <3>2, <4>1, <4>2, <1>4, <1>5
    <3> QED BY <3>1, <3>2
  <2>3. ASSUME NEW c \in Config'
        PROVE  clustersMap'[c.name].configID = c.id /\ clustersMap'[c.name].endpoints = c.endpoints
    <3>1. CASE c \in cs
        BY <3>1, <1>3
    <3>2. CASE c \in Config /\ c.name \notin out
      <4>1. c.name \in Name \ DOMAIN m
          BY <3>2, <1>7 DEF ConfigType
      <4>2. clustersMap[c.name].configID = c.id /\ clustersMap[c.name].endpoints = c.endpoints
          BY <3>2 DEF Matching
      <4> QED BY <3>2, <4>1, <4>2, <1>5
    <3> QED BY <3>1, <3>2, <1>4
  <2> QED BY <2>1, <2>2, <2>3 DEF Matching
<1>9. \A o : o \in gone <=> \E n \in out : clustersMap[n] # NoRuntime /\ clustersMap[n].object = o
    BY DEF ObjectOf, Served
<1>10. gone \in SUBSET Runtime /\ \A o \in gone : ~Doomed(o)
  <2>1. \A n \in Name : clustersMap[n] # NoRuntime => clustersMap[n].object \in Runtime
      BY DEF Types, RuntimeType
  <2> HIDE DEF gone
  <2> QED BY <2>1, <1>9 DEF Objects, Serving
<1>11. /\ unlocked' \in SUBSET CallType
       /\ eventID' \in 0 .. MaxEvents /\ eventID' = eventID + 1
       /\ Calls'
       /\ \A o : Doomed(o)' <=> Doomed(o) \/ o \in gone
       /\ Undelivered' = Undelivered \cup Feed!Changes(endpointAddressSnapshot(Config),
                                                      endpointAddressSnapshot(Config'), eventID + 1)
  <2>1. Unlocks(gone, endpointAddressSnapshot(Config), endpointAddressSnapshot(Config'))
      OBVIOUS
  <2> HIDE DEF gone, IInv
  <2> QED BY <2>1, <1>7, <1>10, WriteManyCalls
<1> HIDE DEF gone
<1>12. Types'
  <2>1. \A d \in Config' : d.id \in 1 .. configIDSeq'
      BY <1>2, <1>3, <1>4 DEF Types
  <2>2. running' \in SUBSET Runtime
      BY <1>1 DEF Types, Range
  <2>3. seen' \in [Key -> 0 .. eventID'] /\ view' \in SUBSET Key
      BY <1>11 DEF Types, consumerVars
  <2>4. configIDSeq' \in Nat
      BY <1>2, <1>3
  <2> QED BY <2>1, <2>2, <2>3, <2>4, <1>6, <1>7, <1>11 DEF Types
<1>13. Objects'
  <2> DEFINE kept(o) == \E n \in Name \ out : /\ clustersMap[n] # NoRuntime
                                               /\ clustersMap[n].object = o
  <2>1. \A o : Serving(o) <=> kept(o) \/ o \in gone
      BY <1>9 DEF Serving
  <2>2. \A n \in Name \ out : n \in DOMAIN m => clustersMap[n] = NoRuntime
      BY DEF Matching
  <2>3. \A o : Serving(o)' <=> kept(o) \/ o \in Range(objects)
    <3>1. \A o : o \in Range(objects) <=> \E n \in DOMAIN m : objects[n] = o
        BY <1>1 DEF Range
    <3> QED BY <3>1, <2>2, <1>3, <1>5 DEF Serving
  <2>4. \A o : ~(kept(o) /\ o \in gone)
      BY <1>9 DEF Objects
  <2>5. \A o \in Range(objects) : o \in Runtime /\ o \notin running
      BY <1>1 DEF Range
  <2>6. \A n \in Name : clustersMap[n] # NoRuntime => clustersMap[n].object \in running
      BY DEF Objects, Serving, Types, RuntimeType
  <2> HIDE DEF kept
  <2>7. ASSUME NEW o \in Runtime
        PROVE  (o \in running' <=> Serving(o)' \/ Doomed(o)') /\ ~(Serving(o)' /\ Doomed(o)')
    <3>1. (o \in running <=> Serving(o) \/ Doomed(o)) /\ ~(Serving(o) /\ Doomed(o))
        BY DEF Objects
    <3> QED BY <3>1, <2>1, <2>3, <2>4, <2>5, <1>11
  <2>8. ASSUME NEW n \in Name, NEW k \in Name, clustersMap'[n] # NoRuntime, clustersMap'[k] # NoRuntime,
               clustersMap'[n].object = clustersMap'[k].object
        PROVE  n = k
    <3>1. ASSUME NEW j \in Name, clustersMap'[j] # NoRuntime, j \notin DOMAIN m
          PROVE  clustersMap'[j] = clustersMap[j] /\ clustersMap[j].object \in running
        BY <3>1, <1>5, <2>6
    <3>2. CASE n \in DOMAIN m /\ k \in DOMAIN m
        BY <3>2, <2>8, <1>1, <1>5
    <3>3. CASE n \in DOMAIN m /\ k \notin DOMAIN m
        BY <3>1, <3>3, <2>8, <1>1, <1>5
    <3>4. CASE n \notin DOMAIN m /\ k \in DOMAIN m
        BY <3>1, <3>4, <2>8, <1>1, <1>5
    <3>5. CASE n \notin DOMAIN m /\ k \notin DOMAIN m
        BY <3>1, <3>5, <2>8 DEF Objects
    <3> QED BY <3>2, <3>3, <3>4, <3>5
  <2> QED BY <2>7, <2>8 DEF Objects
<1>14. IInv'
    BY <1>8, <1>11, <1>12, <1>13
<1> HIDE DEF IInv
<1>15. Types /\ Matching(Config, clustersMap)
    BY DEF IInv
<1> QED BY <1>8, <1>11, <1>12, <1>14, <1>15, WriteIsChange

-----------------------------------------------------------------------------
LEMMA InitIInv == Init => IInv /\ Feed!Init
<1> SUFFICES ASSUME Init PROVE IInv /\ Feed!Init
    OBVIOUS
<1> DEFINE none == [n \in Name |-> NoRuntime]
<1>1. PICK m \in Bootstrap : \E objects \in Fresh(DOMAIN m, {}), ids \in Numbers(m, 0) :
          /\ Config = NewConfigs(m, ids, "other")
          /\ configIDSeq = Cardinality(DOMAIN m)
          /\ clustersMap = ServeAll(Config, objects, none)
          /\ running = Range(objects)
    BY DEF Init
<1>2. PICK objects \in Fresh(DOMAIN m, {}), ids \in Numbers(m, 0) :
          /\ Config = NewConfigs(m, ids, "other")
          /\ configIDSeq = Cardinality(DOMAIN m)
          /\ clustersMap = ServeAll(NewConfigs(m, ids, "other"), objects, none)
          /\ running = Range(objects)
    BY <1>1
<1>3. /\ Version = 0 /\ xdsManaged = {} /\ eventID = 0 /\ unlocked = {} /\ candidate = NoCandidate
      /\ seen = [k \in Key |-> 0] /\ view = PresentKeys
    BY DEF Init
<1>4. /\ objects \in [DOMAIN m -> Runtime]
      /\ \A n, k \in DOMAIN m : objects[n] = objects[k] => n = k
    BY DEF Fresh, Injection, IsInjective
<1>5. m \in Clusters /\ 0 \in Nat
    BY ManagerAssumption
<1>6. /\ DOMAIN m \in SUBSET Name
      /\ Cardinality(DOMAIN m) \in Nat
      /\ Config \in SUBSET ConfigType
      /\ \A c \in Config : /\ c.name \in DOMAIN m /\ c.writer = "other"
                           /\ c.id \in 1 .. 0 + Cardinality(DOMAIN m)
      /\ \A n \in DOMAIN m : \E c \in Config : c.name = n
      /\ \A c, d \in Config : c.name = d.name => c = d
      /\ \A c \in Config : /\ clustersMap[c.name] \in RuntimeType /\ clustersMap[c.name] # NoRuntime
                           /\ clustersMap[c.name].object = objects[c.name]
                           /\ clustersMap[c.name].configID = c.id
                           /\ clustersMap[c.name].endpoints = c.endpoints
      /\ \A n \in Name \ DOMAIN m : clustersMap[n] = none[n]
      /\ clustersMap = [n \in Name |-> clustersMap[n]]
    BY <1>2, <1>4, <1>5, NewConfigsServed
<1>7. /\ \A n \in Name \ DOMAIN m : clustersMap[n] = NoRuntime
      /\ \A n \in DOMAIN m : /\ clustersMap[n] \in RuntimeType /\ clustersMap[n] # NoRuntime
                             /\ clustersMap[n].object = objects[n]
    BY <1>6
<1> HIDE DEF none
<1>8. Matching(Config, clustersMap)
    BY <1>6, <1>7 DEF Matching
<1>9. PresentKeys = endpointAddressSnapshot(Config) /\ PresentKeys \in SUBSET Key
    BY <1>6, <1>8, PresentIsConfigured, SnapshotKeys DEF PresentKeys, PresentIn, Served
<1>10. Types
  <2>1. clustersMap \in [Name -> RuntimeType \cup {NoRuntime}]
      BY <1>6, <1>7
  <2>2. running \in SUBSET Runtime
      BY <1>2, <1>4 DEF Range
  <2>3. \A c \in Config : c.id \in 1 .. configIDSeq
      BY <1>2, <1>6
  <2> QED BY <2>1, <2>2, <2>3, <1>2, <1>3, <1>6, <1>9, ManagerAssumption DEF Types
<1>11. Owned /\ Calls /\ CandidateFits
    BY <1>3, <1>6 DEF Owned, Calls, CandidateFits
<1>12. Objects
  <2>1. \A o : Serving(o) <=> o \in Range(objects)
      BY <1>4, <1>6, <1>7 DEF Serving, Range
  <2>2. \A o : ~Doomed(o)
      BY <1>3 DEF Doomed
  <2>3. \A n, k \in Name : (clustersMap[n] # NoRuntime /\ clustersMap[k] # NoRuntime
                             /\ clustersMap[n].object = clustersMap[k].object) => n = k
      BY <1>4, <1>7
  <2> QED BY <2>1, <2>2, <2>3, <1>2 DEF Objects
<1>13. Undelivered = {}
    BY <1>3 DEF Undelivered
<1> QED BY <1>3, <1>8, <1>9, <1>10, <1>11, <1>12, <1>13 DEF IInv, Feed!Init

\* What every step does to the invariant and, seen as a step of the feed.
Preserved == IInv' /\ (Feed!Next \/ UNCHANGED Feed!feedVars)

LEMMA ChangePreserves ==
    ASSUME IInv', PresentKeys' \in SUBSET Key, Feed!Change(PresentKeys')
    PROVE  Preserved
BY DEF Preserved, Feed!Next

\* Objects that are new.
LEMMA NewObject ==
    ASSUME NEW n \in Name, NEW c, ServesOnNew(n, c)
    PROVE  \E object \in Runtime : object \notin running /\ Serves(n, object, c)
BY DEF ServesOnNew, Fresh, Injection

LEMMA NoConfigFound ==
    ASSUME NEW n, n \notin Names
    PROVE  Found(n) = {} /\ endpointAddressSnapshot(Found(n)) = {}
<1>1. Found(n) = {}
    BY DEF Found, Names
<1> QED BY <1>1 DEF endpointAddressSnapshot

\* The config findClusterConfig returns.
LEMMA ConfigFound ==
    ASSUME IInv, NEW n \in Names
    PROVE  /\ findClusterConfig(n) \in Config
           /\ findClusterConfig(n).name = n
           /\ findClusterConfig(n).id \in 1 .. configIDSeq
           /\ findClusterConfig(n).endpoints \in Endpoints
           /\ n \in Name
<1>1. \E c \in Config : c.name = n
    BY DEF Names
<1>2. findClusterConfig(n) \in Config /\ findClusterConfig(n).name = n
    BY <1>1 DEF findClusterConfig
<1> QED BY <1>2 DEF IInv, Types, ConfigType

LEMMA NewConfigTyped ==
    ASSUME NEW n \in Name, NEW endpoints \in Endpoints, NEW id \in Nat
    PROVE  LET c == NewConfig(n, endpoints, id, "other")
           IN  c \in ConfigType /\ c.name = n /\ c.id = id /\ c.writer = "other"
BY DEF NewConfig, ConfigType

-----------------------------------------------------------------------------
\* A cluster that is not there yet, by hot reload or by a registry.
LEMMA AppendStep ==
    ASSUME IInv, NEW n \in Name, n \notin Names, NEW endpoints \in Endpoints,
           NEW c, c = NewConfig(n, endpoints, configIDSeq + 1, "other"),
           xdsManaged' = xdsManaged \ {n}, nextEndpointEventIDLocked, IncreaseVersion,
           configIDSeq' = c.id, Config' = Config \cup {c}, ServesOnNew(n, c),
           Unlocks({}, {}, endpointAddressSnapshot({c})),
           UNCHANGED <<candidate, consumerVars>>
    PROVE  Preserved
<1>1. configIDSeq \in Nat /\ configIDSeq + 1 \in Nat
    BY DEF IInv, Types
<1>2. c \in ConfigType /\ c.name = n /\ c.id = configIDSeq + 1 /\ c.writer = "other"
    BY <1>1, NewConfigTyped
<1>3. PICK object \in Runtime : object \notin running /\ Serves(n, object, c)
    BY NewObject
<1>4. Found(n) = {} /\ endpointAddressSnapshot(Found(n)) = {}
    BY NoConfigFound
<1>5. Config' = (Config \ Found(n)) \cup {c}
    BY <1>4
<1>6. Unlocks({}, endpointAddressSnapshot(Found(n)), endpointAddressSnapshot({c}))
    BY <1>4
<1>7. configIDSeq' \in Nat /\ configIDSeq <= configIDSeq' /\ c.id \in 1 .. configIDSeq'
    BY <1>1, <1>2
<1>8. IInv' /\ PresentKeys' \in SUBSET Key /\ Feed!Change(PresentKeys')
    BY <1>2, <1>3, <1>5, <1>6, <1>7, WriteOne
<1> QED BY <1>8, ChangePreserves

LEMMA AddClusterStep ==
    ASSUME IInv, NEW n \in Name, NEW p \in Payload, AddCluster(n, p)
    PROVE  Preserved
<1>1. p \in Endpoints
    BY ManagerAssumption
<1> QED BY <1>1, AppendStep DEF AddCluster

LEMMA UpdateClusterStep ==
    ASSUME IInv, NEW n \in Name, NEW p \in Payload, UpdateCluster(n, p)
    PROVE  Preserved
<1> DEFINE c == NewConfig(n, p, configIDSeq + 1, "other")
<1>1. configIDSeq \in Nat /\ configIDSeq + 1 \in Nat /\ p \in Endpoints
    BY ManagerAssumption DEF IInv, Types
<1>2. c \in ConfigType /\ c.name = n /\ c.id = configIDSeq + 1 /\ c.writer = "other"
    BY <1>1, NewConfigTyped
<1>3. /\ xdsManaged' = xdsManaged \ {n} /\ nextEndpointEventIDLocked /\ IncreaseVersion
      /\ configIDSeq' = c.id /\ Config' = (Config \ Found(n)) \cup {c} /\ ServesOnNew(n, c)
      /\ Unlocks({}, endpointAddressSnapshot(Found(n)), endpointAddressSnapshot({c}))
      /\ UNCHANGED <<candidate, consumerVars>>
    BY DEF UpdateCluster
<1> HIDE DEF c
<1>4. PICK object \in Runtime : object \notin running /\ Serves(n, object, c)
    BY <1>3, NewObject
<1>5. configIDSeq' \in Nat /\ configIDSeq <= configIDSeq' /\ c.id \in 1 .. configIDSeq'
    BY <1>1, <1>2, <1>3
<1>6. IInv' /\ PresentKeys' \in SUBSET Key /\ Feed!Change(PresentKeys')
    BY <1>2, <1>3, <1>4, <1>5, WriteOne
<1> QED BY <1>6, ChangePreserves

\* The endpoints of a cluster that is there change; its config keeps its number.
LEMMA ResyncStep ==
    ASSUME IInv, NEW n \in Names, NEW endpoints \in Endpoints, Resync(n, endpoints),
           xdsManaged' = xdsManaged \ {n}, nextEndpointEventIDLocked, IncreaseVersion,
           UNCHANGED <<candidate, consumerVars>>
    PROVE  Preserved
<1> DEFINE id == findClusterConfig(n).id
           c == NewConfig(n, endpoints, id, "other")
           built == n \in Served /\ clustersMap[n].configID = c.id
<1>1. configIDSeq \in Nat /\ id \in Nat /\ id \in 1 .. configIDSeq /\ n \in Name
    BY ConfigFound DEF IInv, Types
<1>2. c \in ConfigType /\ c.name = n /\ c.id = id /\ c.writer = "other"
    BY <1>1, NewConfigTyped
<1>3. /\ Config' = (Config \ Found(n)) \cup {c}
      /\ IF built THEN Serves(n, clustersMap[n].object, c) ELSE ServesOnNew(n, c)
      /\ Unlocks({}, endpointAddressSnapshot(Found(n)), endpointAddressSnapshot({c}))
      /\ configIDSeq' = configIDSeq
    BY DEF Resync
<1> HIDE DEF c, id
<1>4. \E object \in Runtime : /\ object \in ObjectOf(n) \/ object \notin running
                              /\ Serves(n, object, c)
  <2>1. CASE built
    <3>1. clustersMap[n].object \in ObjectOf(n) /\ clustersMap[n].object \in Runtime
        BY <2>1, <1>1 DEF ObjectOf, Served, IInv, Types, RuntimeType
    <3> QED BY <2>1, <3>1, <1>3
  <2>2. CASE ~built
      BY <2>2, <1>1, <1>3, NewObject
  <2> QED BY <2>1, <2>2
<1> HIDE DEF built
<1>5. PICK object \in Runtime : (object \in ObjectOf(n) \/ object \notin running) /\ Serves(n, object, c)
    BY <1>4
<1>6. configIDSeq' \in Nat /\ configIDSeq <= configIDSeq' /\ c.id \in 1 .. configIDSeq'
    BY <1>1, <1>2, <1>3
<1>7. IInv' /\ PresentKeys' \in SUBSET Key /\ Feed!Change(PresentKeys')
    BY <1>1, <1>2, <1>3, <1>5, <1>6, WriteOne
<1> QED BY <1>7, ChangePreserves

LEMMA SetEndpointStep ==
    ASSUME IInv, NEW n \in Name, NEW i \in EndpointID, NEW a \in Address, SetEndpoint(n, i, a)
    PROVE  Preserved
<1>1. /\ nextEndpointEventIDLocked /\ IncreaseVersion /\ xdsManaged' = xdsManaged \ {n}
      /\ UNCHANGED <<candidate, consumerVars>>
    BY DEF SetEndpoint
<1>2. CASE n \in Names /\ Resync(n, WithEndpoint(findClusterConfig(n).endpoints, i, a))
  <2>1. WithEndpoint(findClusterConfig(n).endpoints, i, a) \in Endpoints
      BY <1>2, ConfigFound, WithEndpointMap
  <2> QED BY <2>1, <1>1, <1>2, ResyncStep
<1>3. CASE n \notin Names /\ CreateWith(n, [j \in {i} |-> a])
  <2> DEFINE f == [j \in {i} |-> a]
  <2>1. {i} \in SUBSET EndpointID /\ f \in [{i} -> Address]
      OBVIOUS
  <2>2. f \in Endpoints
      BY <2>1, EndpointMaps
  <2>3. CreateWith(n, f)
      BY <1>3
  <2> HIDE DEF f
  <2> QED BY <2>2, <2>3, <1>1, <1>3, AppendStep DEF CreateWith
<1> QED BY <1>2, <1>3 DEF SetEndpoint

LEMMA DeleteEndpointStep ==
    ASSUME IInv, NEW n \in Name, NEW i \in EndpointID, DeleteEndpoint(n, i)
    PROVE  Preserved
<1> DEFINE old == findClusterConfig(n).endpoints
           left == Restrict(old, DOMAIN old \ {i})
<1>1. /\ n \in Names /\ nextEndpointEventIDLocked /\ IncreaseVersion
      /\ xdsManaged' = xdsManaged \ {n}
      /\ Resync(n, left) /\ UNCHANGED <<candidate, consumerVars>>
    BY DEF DeleteEndpoint
<1>2. left \in Endpoints
    BY <1>1, ConfigFound, RestrictMap
<1> HIDE DEF left
<1> QED BY <1>1, <1>2, ResyncStep

LEMMA RemoveClusterStep ==
    ASSUME IInv, NEW ns \in SUBSET Name, RemoveCluster(ns)
    PROVE  Preserved
<1>1. IInv' /\ PresentKeys' \in SUBSET Key /\ Feed!Change(PresentKeys')
    BY RemoveMany DEF RemoveCluster
<1> QED BY <1>1, ChangePreserves

LEMMA RemoveXDSClustersStep ==
    ASSUME IInv, NEW ns \in SUBSET Name, RemoveXDSClusters(ns)
    PROVE  Preserved
<1> DEFINE owned == ns \cap xdsManaged
<1>1. /\ owned \in SUBSET Name /\ removeClustersLocked(owned) /\ xdsManaged' = xdsManaged \ owned
      /\ nextEndpointEventIDLocked /\ IncreaseVersion
      /\ Unlocks({}, endpointAddressSnapshot(Config), endpointAddressSnapshot(Config'))
      /\ UNCHANGED <<configIDSeq, candidate, consumerVars>>
    BY DEF RemoveXDSClusters
<1> HIDE DEF owned
<1>2. IInv' /\ PresentKeys' \in SUBSET Key /\ Feed!Change(PresentKeys')
    BY <1>1, RemoveMany
<1> QED BY <1>2, ChangePreserves

LEMMA ReplaceXDSClustersStep ==
    ASSUME IInv, NEW m \in Clusters, ReplaceXDSClusters(m)
    PROVE  Preserved
<1> DEFINE other == [n \in Name |-> IF n \in StaticNames THEN clustersMap[n] ELSE NoRuntime]
<1>1. PICK objects \in Fresh(DOMAIN m, running), ids \in Numbers(m, configIDSeq) :
          /\ Config' = KeptConfigs \cup NewConfigs(m, ids, "xDS")
          /\ clustersMap' = ServeAll(NewConfigs(m, ids, "xDS"), objects, other)
          /\ running' = running \cup Range(objects)
    BY DEF ReplaceXDSClusters
<1>2. /\ DOMAIN m \cap StaticNames = {} /\ nextEndpointEventIDLocked /\ IncreaseVersion
      /\ configIDSeq' = configIDSeq + Cardinality(DOMAIN m) /\ xdsManaged' = DOMAIN m
      /\ Unlocks(UNION {ObjectOf(n) : n \in xdsManaged},
                 endpointAddressSnapshot(Config), endpointAddressSnapshot(Config'))
      /\ UNCHANGED <<candidate, consumerVars>>
    BY DEF ReplaceXDSClusters, replacedClusters
<1>3. /\ Types /\ Matching(Config, clustersMap) /\ Owned /\ CandidateFits
      /\ xdsManaged \in SUBSET Name /\ configIDSeq \in Nat
    BY DEF IInv, Types
<1>4. \A n \in Name : other[n] = IF n \in xdsManaged THEN NoRuntime ELSE clustersMap[n]
    BY <1>3 DEF Matching, StaticNames, Names
<1>5. \A c \in Config : c.name \in DOMAIN m => c.name \in xdsManaged
    BY <1>2 DEF StaticNames, Names
<1>6. objects \in [DOMAIN m -> Runtime]
    BY DEF Fresh, Injection
<1> HIDE DEF other
<1>7. /\ DOMAIN m \in SUBSET Name
      /\ \A c \in NewConfigs(m, ids, "xDS") : c.name \in DOMAIN m /\ c.writer = "xDS"
      /\ \A n \in DOMAIN m : \E c \in NewConfigs(m, ids, "xDS") : c.name = n
    BY <1>3, <1>6, NewConfigsServed
<1>8. Config' = {c \in Config : c.name \notin xdsManaged} \cup NewConfigs(m, ids, "xDS")
    BY <1>1 DEF KeptConfigs
<1>9. Owned'
  <2>1. \A c \in Config : c.name \in Name
      BY <1>3 DEF Types, ConfigType
  <2>2. \A c \in Config : c.name \notin xdsManaged => c.writer # "xDS"
      BY <2>1, <1>3 DEF Owned
  <2> HIDE DEF IInv
  <2> QED BY <2>2, <1>2, <1>7, <1>8 DEF Owned
<1>10. Version' \in Nat /\ CandidateFits'
    BY <1>2, <1>3 DEF Types, CandidateFits, IncreaseVersion
<1>11. xdsManaged' \in SUBSET Name
    BY <1>2, <1>7
<1>12. IInv' /\ PresentKeys' \in SUBSET Key /\ Feed!Change(PresentKeys')
  <2>1. UNCHANGED consumerVars
      BY <1>2
  <2> HIDE DEF IInv
  <2> QED BY <2>1, <1>1, <1>2, <1>3, <1>4, <1>5, <1>8, <1>9, <1>10, <1>11, ReplaceMany
<1> QED BY <1>12, ChangePreserves

LEMMA CompareAndSetStoreStep ==
    ASSUME IInv, CompareAndSetStore
    PROVE  Preserved
<1> DEFINE m == candidate.clusters
           other == [n \in Name |-> NoRuntime]
<1>1. PICK objects \in Fresh(DOMAIN m, running), ids \in Numbers(m, configIDSeq) :
          /\ Config' = NewConfigs(m, ids, "other")
          /\ clustersMap' = ServeAll(NewConfigs(m, ids, "other"), objects, other)
          /\ running' = running \cup Range(objects)
    BY DEF CompareAndSetStore, ensureRuntimeClustersFrom
<1>2. /\ candidate # NoCandidate /\ nextEndpointEventIDLocked
      /\ configIDSeq' = configIDSeq + Cardinality(DOMAIN m) /\ xdsManaged' = {}
      /\ candidate' = NoCandidate /\ Version' = Version
      /\ Unlocks(UNION {ObjectOf(n) : n \in Name},
                 endpointAddressSnapshot(Config), endpointAddressSnapshot(Config'))
      /\ UNCHANGED consumerVars
    BY DEF CompareAndSetStore, runtimeClustersNotIn
<1>3. Types /\ CandidateFits /\ configIDSeq \in Nat /\ m \in Clusters
    BY <1>2 DEF IInv, Types, CandidateFits
<1>4. \A n \in Name : other[n] = IF n \in Name THEN NoRuntime ELSE clustersMap[n]
    OBVIOUS
<1>5. objects \in [DOMAIN m -> Runtime]
    BY DEF Fresh, Injection
<1> HIDE DEF other, m
<1>6. \A c \in NewConfigs(m, ids, "other") : c.writer = "other"
    BY <1>3, <1>5, NewConfigsServed
<1>7. /\ \A c \in Config : c.name \in Name
      /\ Config' = {c \in Config : c.name \notin Name} \cup NewConfigs(m, ids, "other")
    BY <1>1, <1>3 DEF Types, ConfigType
<1>8. Owned'
    BY <1>1, <1>2, <1>6 DEF Owned
<1>9. Version' \in Nat /\ CandidateFits' /\ xdsManaged' \in SUBSET Name
    BY <1>2, <1>3 DEF Types, CandidateFits
<1>10. IInv' /\ PresentKeys' \in SUBSET Key /\ Feed!Change(PresentKeys')
  <2> HIDE DEF IInv
  <2>1. \A c \in Config : c.name \in DOMAIN m => c.name \in Name
      BY <1>7
  <2> QED BY <2>1, <1>1, <1>2, <1>3, <1>4, <1>7, <1>8, <1>9, ReplaceMany
<1> QED BY <1>10, ChangePreserves

\* A call that finds nothing takes a number and announces nothing.
LEMMA MissingClusterStep ==
    ASSUME IInv, MissingCluster
    PROVE  Preserved
<1> USE DEF IInv
<1>1. /\ UNCHANGED <<Config, clustersMap, running, xdsManaged, configIDSeq, unlocked,
                     candidate, consumerVars>>
      /\ nextEndpointEventIDLocked /\ Version' \in {Version, Version + 1}
    BY DEF MissingCluster, IncreaseVersion
<1>2. eventID \in Nat /\ eventID' = eventID + 1 /\ eventID' \in 0 .. MaxEvents
    BY <1>1, ManagerAssumption DEF Types, nextEndpointEventIDLocked
<1>3. Types'
  <2>1. seen' \in [Key -> 0 .. eventID'] /\ view' \in SUBSET Key
      BY <1>1, <1>2 DEF Types, consumerVars
  <2> QED BY <2>1, <1>1, <1>2 DEF Types
<1>4. Matching(Config', clustersMap') /\ Owned'
    BY <1>1 DEF Owned
<1>5. Objects'
    BY <1>1 DEF Objects, Serving, Doomed
<1>6. Calls'
  <2>1. \A d \in unlocked : \A e \in d.announce : e.version \in Nat /\ e.version <= eventID
      BY DEF Calls, Types, CallType, Feed!Announcement
  <2> QED BY <2>1, <1>1, <1>2 DEF Calls
<1>7. CandidateFits'
    BY <1>1 DEF CandidateFits, Types
<1>8. PresentKeys' = PresentKeys /\ Undelivered' = Undelivered
    BY <1>1 DEF PresentKeys, Served, Undelivered
<1>9. PresentKeys \in SUBSET Key
  <2>1. Config \in SUBSET ConfigType
      BY DEF Types
  <2> QED BY <2>1, PresentIsConfigured, SnapshotKeys DEF PresentKeys, PresentIn, Served
<1>10. Feed!Changes(PresentKeys, PresentKeys, eventID + 1) = {}
    BY DEF Feed!Changes
<1>11. Feed!Change(PresentKeys')
    BY <1>1, <1>8, <1>10 DEF Feed!Change, nextEndpointEventIDLocked, consumerVars
<1> QED BY <1>3, <1>4, <1>5, <1>6, <1>7, <1>8, <1>9, <1>11, ChangePreserves

\* The reconciler begins or gives up: the store is as it was.
LEMMA CandidateStep ==
    ASSUME IInv, CandidateFits',
           UNCHANGED <<Config, Version, clustersMap, running, xdsManaged, eventID,
                       configIDSeq, unlocked, fileNames, consumerVars>>
    PROVE  Preserved
<1>1. Types' /\ Matching(Config', clustersMap') /\ Owned' /\ Calls'
    BY DEF IInv, Types, Owned, Calls, consumerVars
<1>2. Objects'
    BY DEF IInv, Objects, Serving, Doomed
<1>3. UNCHANGED Feed!feedVars
    BY DEF Feed!feedVars, PresentKeys, Served, Undelivered, consumerVars
<1> QED BY <1>1, <1>2, <1>3 DEF Preserved, IInv

LEMMA NewStoreStep ==
    ASSUME IInv, NEW m \in Clusters, NewStore(m)
    PROVE  Preserved
<1>1. Version' = Version /\ Config' = Config /\ Version \in Nat
    BY DEF NewStore, IInv, Types
<1>2. candidate' = [version |-> Version, clusters |-> m, base |-> Config]
    BY DEF NewStore
<1>3. CandidateFits'
    BY <1>1, <1>2 DEF CandidateFits
<1> QED BY <1>3, CandidateStep DEF NewStore

LEMMA CompareFailsStep ==
    ASSUME IInv, CompareFails
    PROVE  Preserved
<1>1. CandidateFits'
    BY DEF CompareFails, CandidateFits
<1> QED BY <1>1, CandidateStep DEF CompareFails

-----------------------------------------------------------------------------
\* A call past its unlock has less to do, and no other call notices.
LEMMA CallShrinks ==
    ASSUME Types, Calls, eventID' = eventID, NEW call \in unlocked, NEW left \in CallType,
           left.stop \subseteq call.stop, left.announce \subseteq call.announce,
           unlocked' = (unlocked \ {call}) \cup
                          (IF left.stop = {} /\ left.announce = {} THEN {} ELSE {left})
    PROVE  /\ unlocked' \in SUBSET CallType
           /\ Calls'
           /\ \A o : Doomed(o)' <=> (Doomed(o) /\ o \notin call.stop) \/ o \in left.stop
           /\ Undelivered' = (Undelivered \ call.announce) \cup left.announce
<1>1. \A d \in unlocked' : d \in unlocked \ {call} \/ d = left
    OBVIOUS
<1>2. \A d \in unlocked \ {call} : d \in unlocked' /\ d.stop \cap call.stop = {}
                                     /\ d.announce \cap call.announce = {}
    BY DEF Calls
<1>3. left \in unlocked' \/ (left.stop = {} /\ left.announce = {})
    OBVIOUS
<1>4. unlocked' \in SUBSET CallType
    BY <1>1 DEF Types
<1>5. \A d \in unlocked' : \A e \in d.announce : e.version <= eventID'
    BY <1>1 DEF Calls
<1>6. \A c, d \in unlocked' : c # d => c.stop \cap d.stop = {} /\ c.announce \cap d.announce = {}
    BY <1>1, <1>2 DEF Calls
<1>7. \A o : Doomed(o)' <=> (Doomed(o) /\ o \notin call.stop) \/ o \in left.stop
  <2>1. ASSUME NEW o, Doomed(o)' PROVE (Doomed(o) /\ o \notin call.stop) \/ o \in left.stop
      BY <2>1, <1>1, <1>2 DEF Doomed
  <2>2. ASSUME NEW o, (Doomed(o) /\ o \notin call.stop) \/ o \in left.stop PROVE Doomed(o)'
      BY <2>2, <1>2, <1>3 DEF Doomed
  <2> QED BY <2>1, <2>2
<1>8. Undelivered' = (Undelivered \ call.announce) \cup left.announce
  <2>1. ASSUME NEW e, e \in Undelivered' PROVE e \in (Undelivered \ call.announce) \cup left.announce
      BY <2>1, <1>1, <1>2 DEF Undelivered
  <2>2. ASSUME NEW e, e \in (Undelivered \ call.announce) \cup left.announce PROVE e \in Undelivered'
      BY <2>2, <1>2, <1>3 DEF Undelivered
  <2> QED BY <2>1, <2>2
<1> QED BY <1>4, <1>5, <1>6, <1>7, <1>8 DEF Calls

LEMMA StopReplacedStep ==
    ASSUME IInv, NEW call \in unlocked, StopReplaced(call)
    PROVE  Preserved
<1> DEFINE left == [call EXCEPT !.stop = {}]
<1>1. call \in CallType
    BY DEF IInv, Types
<1>2. left \in CallType /\ left.stop = {} /\ left.announce = call.announce
    BY <1>1 DEF CallType
<1>3. unlocked' = (unlocked \ {call}) \cup (IF call.announce = {} THEN {} ELSE {left})
    BY DEF StopReplaced
<1>4. /\ running' = running \ call.stop
      /\ UNCHANGED <<Config, Version, clustersMap, xdsManaged, eventID, configIDSeq,
                     candidate, consumerVars>>
    BY DEF StopReplaced
<1> HIDE DEF left
<1>5. unlocked' = (unlocked \ {call}) \cup
                     (IF left.stop = {} /\ left.announce = {} THEN {} ELSE {left})
    BY <1>2, <1>3
<1>6. Types /\ Calls /\ left.stop \subseteq call.stop /\ left.announce \subseteq call.announce
      /\ eventID' = eventID
    BY <1>2, <1>4 DEF IInv
<1>7. /\ unlocked' \in SUBSET CallType
      /\ Calls'
      /\ \A o : Doomed(o)' <=> (Doomed(o) /\ o \notin call.stop) \/ o \in left.stop
      /\ Undelivered' = (Undelivered \ call.announce) \cup left.announce
    BY <1>2, <1>5, <1>6, CallShrinks
<1>8. \A o \in call.stop : Doomed(o)
    BY DEF Doomed
<1>9. call.announce \subseteq Undelivered
    BY DEF Undelivered
<1>10. UNCHANGED Feed!feedVars
  <2>1. Undelivered' = Undelivered
      BY <1>2, <1>7, <1>9
  <2> QED BY <2>1, <1>4 DEF Feed!feedVars, PresentKeys, Served, consumerVars
<1>11. Types'
    BY <1>4, <1>6, <1>7 DEF Types, consumerVars
<1>12. Objects'
  <2>1. \A o : Serving(o)' <=> Serving(o)
      BY <1>4 DEF Serving
  <2>2. \A o : Doomed(o)' <=> Doomed(o) /\ o \notin call.stop
      BY <1>2, <1>7
  <2>3. Objects
      BY DEF IInv
  <2> QED BY <2>1, <2>2, <2>3, <1>4, <1>8 DEF Objects
<1>13. Matching(Config', clustersMap') /\ Owned' /\ CandidateFits'
    BY <1>4 DEF IInv, Owned, CandidateFits
<1> QED BY <1>7, <1>10, <1>11, <1>12, <1>13 DEF IInv, Preserved

LEMMA AnnounceStep ==
    ASSUME IInv, NEW call \in unlocked, NEW e \in call.announce, Announce(call, e)
    PROVE  Preserved
<1> DEFINE left == [call EXCEPT !.announce = @ \ {e}]
<1>1. call \in CallType /\ call.stop = {} /\ e \in Feed!Announcement /\ e \in Undelivered
    BY DEF IInv, Types, CallType, Announce, Undelivered
<1>2. left \in CallType /\ left.stop = {} /\ left.announce = call.announce \ {e}
    BY <1>1 DEF CallType
<1>3. unlocked' = (unlocked \ {call}) \cup (IF call.announce = {e} THEN {} ELSE {left})
    BY DEF Announce
<1>4. /\ Feed!Apply(e)
      /\ UNCHANGED <<Config, Version, clustersMap, running, xdsManaged, eventID, configIDSeq,
                     candidate>>
    BY DEF Announce
<1> HIDE DEF left
<1>5. unlocked' = (unlocked \ {call}) \cup
                     (IF left.stop = {} /\ left.announce = {} THEN {} ELSE {left})
    BY <1>2, <1>3
<1>6. Types /\ Calls /\ left.stop \subseteq call.stop /\ left.announce \subseteq call.announce
      /\ eventID' = eventID
    BY <1>1, <1>2, <1>4 DEF IInv
<1>7. /\ unlocked' \in SUBSET CallType
      /\ Calls'
      /\ \A o : Doomed(o)' <=> (Doomed(o) /\ o \notin call.stop) \/ o \in left.stop
      /\ Undelivered' = (Undelivered \ call.announce) \cup left.announce
    BY <1>2, <1>5, <1>6, CallShrinks
<1>8. Undelivered' = Undelivered \ {e}
  <2>1. call.announce \subseteq Undelivered
      BY DEF Undelivered
  <2> QED BY <2>1, <1>2, <1>7
<1>9. Feed!Deliver(e)
    BY <1>1, <1>4, <1>8 DEF Feed!Deliver, PresentKeys, Served
<1>10. seen' \in [Key -> 0 .. eventID'] /\ view' \in SUBSET Key
  <2>1. e.key \in Key /\ e.version \in 0 .. eventID
      BY <1>1 DEF Feed!Announcement, IInv, Calls
  <2>2. seen \in [Key -> 0 .. eventID] /\ view \in SUBSET Key
      BY <1>6 DEF Types
  <2>3. CASE e.version <= seen[e.key]
      BY <2>2, <2>3, <1>4 DEF Feed!Apply
  <2>4. CASE ~(e.version <= seen[e.key])
    <3>1. /\ seen' = [seen EXCEPT ![e.key] = e.version]
          /\ view' = IF e.present THEN view \cup {e.key} ELSE view \ {e.key}
        BY <2>4, <1>4 DEF Feed!Apply
    <3>2. view' = view \cup {e.key} \/ view' = view \ {e.key}
        BY <3>1, Zenon
    <3> QED BY <3>1, <3>2, <2>1, <2>2, <1>4
  <2> QED BY <2>3, <2>4
<1>11. Types'
    BY <1>4, <1>6, <1>7, <1>10 DEF Types
<1>12. Objects'
  <2>1. \A o : Serving(o)' <=> Serving(o)
      BY <1>4 DEF Serving
  <2>2. \A o : Doomed(o)' <=> Doomed(o)
      BY <1>1, <1>2, <1>7
  <2>3. Objects
      BY DEF IInv
  <2> QED BY <2>1, <2>2, <2>3, <1>4 DEF Objects
<1>13. Matching(Config', clustersMap') /\ Owned' /\ CandidateFits'
    BY <1>4 DEF IInv, Owned, CandidateFits
<1> QED BY <1>1, <1>7, <1>9, <1>11, <1>12, <1>13 DEF IInv, Preserved, Feed!Next

\* Every step keeps the invariant and is a step of the feed, or none.
LEMMA NextStep ==
    ASSUME IInv, [Next]_vars
    PROVE  Preserved
<1>1. ASSUME NEW n \in Name, NEW p \in Payload, AddCluster(n, p) \/ UpdateCluster(n, p)
      PROVE  Preserved
    BY <1>1, AddClusterStep, UpdateClusterStep
<1>2. ASSUME NEW ns \in SUBSET Name, RemoveCluster(ns) \/ RemoveXDSClusters(ns)
      PROVE  Preserved
    BY <1>2, RemoveClusterStep, RemoveXDSClustersStep
<1>3. ASSUME NEW n \in Name, NEW i \in EndpointID, NEW a \in Address, SetEndpoint(n, i, a)
      PROVE  Preserved
    BY <1>3, SetEndpointStep
<1>4. ASSUME NEW n \in Name, NEW i \in EndpointID, DeleteEndpoint(n, i)
      PROVE  Preserved
    BY <1>4, DeleteEndpointStep
<1>5. ASSUME NEW m \in Clusters, ReplaceXDSClusters(m) \/ NewStore(m)
      PROVE  Preserved
    BY <1>5, ReplaceXDSClustersStep, NewStoreStep
<1>6. CASE MissingCluster \/ CompareFails \/ CompareAndSetStore
    BY <1>6, MissingClusterStep, CompareFailsStep, CompareAndSetStoreStep
<1>7. ASSUME NEW call \in unlocked, StopReplaced(call)
      PROVE  Preserved
    BY <1>7, StopReplacedStep
<1>8. ASSUME NEW call \in unlocked, NEW e \in call.announce, Announce(call, e)
      PROVE  Preserved
    BY <1>8, AnnounceStep
<1>9. CASE UNCHANGED vars
  <2>1. UNCHANGED <<Config, Version, clustersMap, running, xdsManaged, eventID,
                    configIDSeq, unlocked, fileNames, consumerVars>> /\ candidate' = candidate
      BY <1>9 DEF vars
  <2>2. CandidateFits'
      BY <2>1 DEF IInv, CandidateFits
  <2> QED BY <2>1, <2>2, CandidateStep
<1> QED BY <1>1, <1>2, <1>3, <1>4, <1>5, <1>6, <1>7, <1>8, <1>9 DEF Next

LEMMA InvariantHolds == Spec => []IInv
<1>1. Init => IInv
    BY InitIInv
<1>2. IInv /\ [Next]_vars => IInv'
    BY NextStep DEF Preserved
<1> QED BY <1>1, <1>2, PTL DEF Spec

-----------------------------------------------------------------------------
(***************************************************************************)
(* Through every order of hot reloads, registry writes, xDS sets and       *)
(* reconciliations, the runtimes that run are those of the configuration   *)
(* or are being stopped, they have its endpoints, and names belong to      *)
(* their last writer.                                                      *)
(***************************************************************************)
THEOREM StoreStaysConsistent == Spec => []StoreIsConsistent
<1>1. IInv => StoreIsConsistent
  <2> SUFFICES ASSUME IInv PROVE StoreIsConsistent
      OBVIOUS
  <2>1. Types /\ Matching(Config, clustersMap) /\ Owned /\ Objects /\ Calls
      BY DEF IInv
  <2>2. TypeOK
      BY <2>1 DEF Types, TypeOK, ConfigType
  <2>3. NoOrphanRuntime
    <3>1. \A o : Serving(o) <=> o \in UNION {ObjectOf(n) : n \in Name}
        BY DEF Serving, ObjectOf, Served
    <3>2. \A o : Doomed(o) <=> o \in UNION {call.stop : call \in unlocked}
        BY DEF Doomed
    <3>3. \A o : Serving(o) \/ Doomed(o) => o \in Runtime
        BY <2>1 DEF Serving, Doomed, Types, RuntimeType, CallType
    <3>4. \A o : o \in running <=> Serving(o) \/ Doomed(o)
        BY <2>1, <3>3 DEF Objects, Types
    <3>5. \A o : ~(Serving(o) /\ Doomed(o))
        BY <2>1, <3>3 DEF Objects
    <3> QED BY <3>1, <3>2, <3>4, <3>5 DEF NoOrphanRuntime
  <2>4. OwnershipFollowsWrites
    <3>1. \A c \in Config : c.name \in Name
        BY <2>1 DEF Types, ConfigType
    <3>2. xdsManaged = {c.name : c \in {d \in Config : d.writer = "xDS"}}
        BY <2>1, <3>1 DEF Owned, Types
    <3> QED BY <2>1, <3>2 DEF OwnershipFollowsWrites, Matching
  <2>5. RuntimeMatchesConfig
    <3>1. Served = Names
        BY <2>1 DEF Served, Names, Matching, Types, ConfigType
    <3>2. ASSUME NEW n \in Served
          PROVE  /\ clustersMap[n].configID = findClusterConfig(n).id
                 /\ clustersMap[n].endpoints = findClusterConfig(n).endpoints
      <4>1. findClusterConfig(n) \in Config /\ findClusterConfig(n).name = n
          BY <3>1, ConfigFound
      <4> QED BY <2>1, <4>1 DEF Matching
    <3> QED BY <3>1, <3>2 DEF RuntimeMatchesConfig
  <2> QED BY <2>2, <2>3, <2>4, <2>5 DEF StoreIsConsistent
<1> QED BY <1>1, InvariantHolds, PTL

\* What ReplaceXDSClusters does to the clusters of others.
LEMMA XDSStep ==
    ASSUME IInv, NEW m \in Clusters, ReplaceXDSClusters(m),
           NEW c \in Config, c.writer = "other"
    PROVE  c \in Config' /\ clustersMap'[c.name] = clustersMap[c.name]
<1> DEFINE other == [n \in Name |-> IF n \in StaticNames THEN clustersMap[n] ELSE NoRuntime]
<1>1. PICK objects \in Fresh(DOMAIN m, running), ids \in Numbers(m, configIDSeq) :
          /\ Config' = KeptConfigs \cup NewConfigs(m, ids, "xDS")
          /\ clustersMap' = ServeAll(NewConfigs(m, ids, "xDS"), objects, other)
    BY DEF ReplaceXDSClusters
<1>2. c.name \in Name /\ configIDSeq \in Nat
    BY DEF IInv, Types, ConfigType
<1>3. c.name \notin xdsManaged
    BY <1>2 DEF IInv, Owned, Matching
<1>4. c.name \in StaticNames /\ c \in KeptConfigs
    BY <1>3 DEF StaticNames, Names, KeptConfigs
<1>5. c.name \notin DOMAIN m
    BY <1>4 DEF ReplaceXDSClusters
<1>6. objects \in [DOMAIN m -> Runtime]
    BY DEF Fresh, Injection
<1>7. clustersMap'[c.name] = other[c.name]
    BY <1>1, <1>2, <1>5, <1>6 DEF ServeAll
<1> QED BY <1>1, <1>2, <1>4, <1>7

(***************************************************************************)
(* Whenever CompareAndSetStore installs a candidate, no write came since   *)
(* the candidate was made; and no xDS set rewrites or restarts a cluster   *)
(* that somebody else wrote.                                               *)
(***************************************************************************)
THEOREM WritersStayApart == Spec => WritersKeepOut
<1>1. IInv /\ [Next]_vars => [CompareAndSetStore => Config = candidate.base]_vars
    BY DEF IInv, CandidateFits, CompareAndSetStore
<1>2. IInv /\ [Next]_vars =>
        [(\E m \in Clusters : ReplaceXDSClusters(m)) =>
            \A c \in Config : c.writer = "other" =>
               c \in Config' /\ clustersMap'[c.name] = clustersMap[c.name]]_vars
    BY XDSStep
<1> QED BY <1>1, <1>2, InvariantHolds, PTL DEF Spec, WritersKeepOut, CASLosesNoWrite, XDSTouchesOnlyItsOwn

(***************************************************************************)
(* Whatever the cluster manager does, its endpoint callbacks keep the      *)
(* promise of EndpointFeed: every write is one numbered change of the set  *)
(* of live addresses and announces exactly what came and what went.        *)
(***************************************************************************)
THEOREM ManagerImplementsFeed == Spec => ImplementsFeed
<1>1. Init => Feed!Init
    BY InitIInv
<1>2. IInv /\ [Next]_vars => [Feed!Next]_(Feed!feedVars)
    BY NextStep DEF Preserved
<1> QED BY <1>1, <1>2, InvariantHolds, PTL DEF Spec, ImplementsFeed, Feed!Spec

(***************************************************************************)
(* So a consumer of the manager's callbacks is right about every address   *)
(* with no newer announcement under way, in whatever order they run.       *)
(***************************************************************************)
COROLLARY ManagerConsumerConverges == Spec => []ConsumerConverges
<1>1. Feed!Spec => []Feed!ConsumerConverges
    BY Feed!FeedConverges, ManagerAssumption DEF Feed!MaxEventsAssumption
<1>2. Feed!ConsumerConverges => ConsumerConverges
    BY DEF ConsumerConverges
<1> QED BY <1>1, <1>2, ManagerImplementsFeed, PTL DEF ImplementsFeed
=============================================================================
