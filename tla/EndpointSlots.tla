----------------------------- MODULE EndpointSlots -----------------------------
(***************************************************************************)
(* Which slot of a cluster a registration takes                            *)
(* (src/pkg/server/cluster_manager.go resolveSetEndpointSlot,              *)
(* assembleClusterEndpoints; src/pkg/model/cluster.go).  An endpoint's ID  *)
(* is the key of its health and its cooldown, so it is unique within a     *)
(* cluster.  A registration that carries an ID claims the slot of that ID; *)
(* one without an ID is found by a hash of its address and credential.  A  *)
(* static list may leave IDs out or repeat them.                           *)
(*                                                                         *)
(* An ID is the sequence of its base and the suffixes "-2", "-3", ... that *)
(* made it unique: <<x, 2>> is "x-2", whether an operator wrote it or      *)
(* StableUniqueEndpointID made it up.  The generated ID of an endpoint is  *)
(* <<a>>, where the address a stands for all that is hashed.               *)
(***************************************************************************)
EXTENDS Naturals, Sequences, SequencesExt, FiniteSets, Functions

CONSTANTS
    Address,       \* address and credential
    Name,          \* IDs that operators and registries choose
    Metadata,      \* what is part of the content and not of the hash
    MaxEndpoints

VARIABLES
    endpoints,     \* ClusterConfig.Endpoints
    byID,          \* EndpointSnapshot.all: the IDs under which health is kept
    claims         \* the content that was last registered under each ID

vars == <<endpoints, byID, claims>>

NoID == <<>>
Content == [addr : Address, meta : Metadata]

\* "x" and, written by an operator, "x-2".
GivenID == UNION {{<<x>>, <<x, 2>>} : x \in Name}

\* What a caller passes: without an ID, with one of its own, or, as the LLM
\* registry does, with the ID that would be generated.
Registration ==
    {[id |-> i, content |-> c] : i \in GivenID \cup {NoID}, c \in Content}
    \cup {[id |-> <<c.addr>>, content |-> c] : c \in Content}

IDs(list) == {list[i].id : i \in DOMAIN list}

GenerateEndpointID(e) == <<e.content.addr>>

StableUniqueEndpointID(e, taken) ==
    LET base == IF e.id = NoID THEN GenerateEndpointID(e) ELSE e.id
        free == {n \in 2..(Cardinality(taken) + 2) : Append(base, n) \notin taken}
    IN  IF base \notin taken THEN base
        ELSE Append(base, CHOOSE n \in free : \A m \in free : n <= m)

\* Every endpoint without an ID, or with one that an earlier endpoint has, gets
\* an ID of its own.
assembleClusterEndpoints(list) ==
    FoldLeft(LAMBDA done, e :
                 Append(done, [e EXCEPT !.id = StableUniqueEndpointID(e, IDs(done))]),
             <<>>, list)

\* The snapshot resolves the IDs again, with the same rule.
newEndpointSnapshot(list) ==
    LET assembled == assembleClusterEndpoints(list)
    IN  [i \in DOMAIN assembled |-> assembled[i].id]

\* What prepareOwnedClusterConfig and RefreshEndpoints make of the endpoints.
Publish(list) ==
    /\ endpoints' = assembleClusterEndpoints(list)
    /\ byID' = newEndpointSnapshot(endpoints')

\* The content, which excludes the name and the ID.
endpointContentEqualForSet(a, b) == a.content = b.content

First(P(_)) ==
    LET hits == {i \in DOMAIN endpoints : P(endpoints[i])}
    IN  IF hits = {} THEN 0 ELSE CHOOSE i \in hits : \A j \in hits : i <= j

\* Mutant: a registration under a known ID with other content is appended.
AppendUpdates(e) ==
    LET i == First(LAMBDA x : x.id = e.id)
    IN  IF i # 0 /\ endpointContentEqualForSet(endpoints[i], e) THEN endpoints
        ELSE Append(endpoints, [e EXCEPT !.id = StableUniqueEndpointID(e, IDs(endpoints))])

resolveSetEndpointSlotByID(e) ==
    LET i == First(LAMBDA x : x.id = e.id)
    IN  IF i = 0 THEN Append(endpoints, e)
        ELSE IF endpointContentEqualForSet(endpoints[i], e) THEN endpoints
        ELSE [endpoints EXCEPT ![i] = e]

\* Only the first endpoint with the same hash is compared.
resolveSetEndpointSlotByHash(e) ==
    LET i == First(LAMBDA x : GenerateEndpointID(x) = GenerateEndpointID(e))
    IN  IF i = 0 THEN Append(endpoints, [e EXCEPT !.id = GenerateEndpointID(e)])
        ELSE IF endpointContentEqualForSet(endpoints[i], e) THEN endpoints
        ELSE Append(endpoints, [e EXCEPT !.id = StableUniqueEndpointID(e, IDs(endpoints))])

SetEndpoint(e) ==
    LET list == IF e.id # NoID THEN resolveSetEndpointSlotByID(e) ELSE resolveSetEndpointSlotByHash(e)
    IN  /\ Len(list) <= MaxEndpoints
        /\ IF list = endpoints THEN UNCHANGED <<endpoints, byID>> ELSE Publish(list)
        /\ claims' = IF e.id = NoID THEN claims
                     ELSE [i \in DOMAIN claims \cup {e.id} |->
                             IF i = e.id THEN e.content ELSE claims[i]]

DeleteEndpoint(id) ==
    LET i == First(LAMBDA x : x.id = id)
    IN  /\ i # 0
        /\ Publish(RemoveAt(endpoints, i))
        /\ claims' = Restrict(claims, DOMAIN claims \ {id})

\* AddCluster and UpdateCluster: a list from a configuration takes the place of
\* all that was registered.
UpdateCluster(list) ==
    /\ Publish(list)
    /\ claims' = <<>>

StaticLists == BoundedSeq([id : {NoID} \cup GivenID, content : Content], 3)

Init ==
    /\ endpoints = <<>>
    /\ byID = <<>>
    /\ claims = <<>>

Next ==
    \/ \E e \in Registration : SetEndpoint(e)
    \/ \E id \in IDs(endpoints) : DeleteEndpoint(id)
    \/ \E list \in StaticLists : endpoints = <<>> /\ UpdateCluster(list)

Spec == Init /\ [][Next]_vars

-----------------------------------------------------------------------------
\* An ID names one endpoint of the cluster, however lists and registrations
\* repeat IDs, leave them out or write what a suffix would have made
\* (assembleClusterEndpoints: "keep them unique per cluster").
IdsAreUnique == Cardinality(IDs(endpoints)) = Len(endpoints)

\* The snapshot keeps health under the ID that the configuration has for the
\* endpoint, though it derives the IDs a second time (StableUniqueEndpointID:
\* "the two paths can never drift").
SnapshotAgrees == byID = [i \in DOMAIN endpoints |-> endpoints[i].id]

\* Under an ID that a registry claimed the cluster has what it registered last:
\* no later registration of another endpoint renames or overwrites it, and no
\* update of it is kept beside the old one.
LastWriteWins ==
    \A id \in DOMAIN claims :
        \E i \in DOMAIN endpoints : endpoints[i].id = id /\ endpoints[i].content = claims[id]

\* Registering again, without an ID, what the cluster already has leaves the
\* cluster as it is (SetEndpoint: "can replay the same instance event without
\* growing the endpoint slice").
ReplayDoesNotGrow ==
    [][\A c \in Content :
          (/\ SetEndpoint([id |-> NoID, content |-> c])
           /\ \E i \in DOMAIN endpoints : endpoints[i].content = c)
          => endpoints' = endpoints]_vars

\* The slots of a cluster hold what was registered last, under IDs of their own.
SlotsAreSound == IdsAreUnique /\ SnapshotAgrees /\ LastWriteWins
=============================================================================
