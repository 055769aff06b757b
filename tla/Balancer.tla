------------------------------- MODULE Balancer -------------------------------
(***************************************************************************)
(* How a request picks an endpoint (src/pkg/cluster/loadbalancer,          *)
(* src/pkg/cluster/cluster.go, ClusterManager.pickOneEndpoint): it loads   *)
(* the snapshot that the cluster published last and asks the balancer of   *)
(* the cluster.  Membership and health publish new snapshots meanwhile.  A *)
(* consistent hash is built on the first pick from a snapshot; a membership*)
(* change passes it on when the healthy hosts are the same, a health change*)
(* never does.  The hash itself is external: it maps a key to one of the   *)
(* hosts that it was built from.  A balancer that is not of this repository*)
(* may keep what it saw and answer with any endpoint of it, so what it     *)
(* answers is looked up in the snapshot.                                   *)
(*                                                                         *)
(* The second part is such a hash, the Maglev lookup table                 *)
(* (loadbalancer/maglev/permutation.go): every host walks the slots in an  *)
(* order of its own and takes the next free one in turn.  The order is a   *)
(* multiplication in uint32 before the modulo, so it may come back to a    *)
(* slot before it saw them all; slots that nobody reached go to the host   *)
(* with the fewest.  Hosts are added and removed later, which fills the    *)
(* table anew.  Wrap is 2^32 scaled down.                                  *)
(***************************************************************************)
EXTENDS Naturals, Sequences, SequencesExt, FiniteSets, Functions

CONSTANTS
    Request,
    Endpoint,      \* endpoint IDs
    Host,
    Nothing,
    MaxSnapshots,  \* snapshots published
    MaxWeight,
    Node,          \* hosts of the Maglev table
    Size,          \* slots of the table, a prime number
    Wrap           \* uint32, scaled down

VARIABLES
    snapshots,     \* every snapshot that was published
    req,           \* the snapshot that a request loaded, and its pick
    policy,        \* the balancer of the cluster: hash, weights, any endpoint, or a plug-in
    weight,        \* the weight of each endpoint's metadata
    offset, skip,  \* the two hashes of each host of the table
    permutations,  \* the hosts in the order in which they take turns
    slots

pickVars == <<snapshots, req, policy, weight>>

Idle == [at |-> 0, picked |-> Nothing, key |-> Nothing]

Current == snapshots[Len(snapshots)]

\* A snapshot: its endpoints in order, the healthy ones, their hosts, the hash.
Snapshot(all, host, healthy, hash) ==
    [all |-> all, host |-> host, healthy |-> healthy, hash |-> hash]

Healthy(s) == SelectSeq(s.all, LAMBDA e : e \in s.healthy)
HealthyHosts(s) == LET h == Healthy(s) IN [i \in DOMAIN h |-> s.host[h[i]]]

Lists == {l \in SeqOf(Endpoint, Cardinality(Endpoint)) : IsInjective(l)}

PickInit ==
    /\ \E host \in [Endpoint -> Host] :
         /\ \A e \in Endpoint : host[e] = SetToSeq(Host)[1] \/ IsInjective(host)
         /\ snapshots = << Snapshot(SetToSeq(Endpoint), host, Endpoint, <<>>) >>
    /\ req = [r \in Request |-> Idle]
    /\ policy \in {"hash", "weight", "any", "plugin"}
    /\ weight \in [Endpoint -> IF policy = "weight" THEN 0..MaxWeight ELSE {0}]

\* Mutant: the hash is passed on whenever as many endpoints are healthy.
reuseByCount(previous, next) ==
    IF Len(HealthyHosts(previous)) = Len(HealthyHosts(next)) THEN previous.hash ELSE <<>>

reuseHealthyConsistentHashFrom(previous, next) ==
    IF HealthyHosts(previous) = HealthyHosts(next) THEN previous.hash ELSE <<>>

\* A membership change: endpoints come, go, move and change their host; those
\* that stay at their host keep their health.
newEndpointSnapshot ==
    /\ Len(snapshots) < MaxSnapshots
    /\ \E all \in Lists, e \in Endpoint, h \in Host :
         LET host == [Current.host EXCEPT ![e] = h]
             stays == {i \in ToSet(Current.all) : host[i] = Current.host[i]}
             healthy == {i \in ToSet(all) : i \notin stays \/ i \in Current.healthy}
             next == Snapshot(all, host, healthy, <<>>)
         IN  snapshots' = Append(snapshots,
               [next EXCEPT !.hash = reuseHealthyConsistentHashFrom(Current, next)])
    /\ UNCHANGED <<req, policy, weight>>

withEndpointHealthForIDs(e) ==
    /\ Len(snapshots) < MaxSnapshots
    /\ e \in ToSet(Current.all)
    /\ snapshots' = Append(snapshots, Snapshot(Current.all, Current.host,
          IF e \in Current.healthy THEN Current.healthy \ {e} ELSE Current.healthy \cup {e}, <<>>))
    /\ UNCHANGED <<req, policy, weight>>

\* The request loads the snapshot; without a healthy endpoint it gets nothing.
pickOneEndpoint(r) ==
    /\ req[r].at = 0
    /\ Current.healthy \cap ToSet(Current.all) # {}
    /\ req' = [req EXCEPT ![r] = [Idle EXCEPT !.at = Len(snapshots)]]
    /\ UNCHANGED <<snapshots, policy, weight>>

HealthyConsistentHash(s) == IF s.hash = <<>> THEN HealthyHosts(s) ELSE s.hash

\* Ring hash and Maglev: the snapshot's hash, built on demand, gives a host; the
\* first healthy endpoint stands in when nobody has it.
HashPick(r) ==
    LET s == snapshots[req[r].at]
        hash == HealthyConsistentHash(s)
    IN  /\ policy = "hash" /\ req[r].at # 0 /\ req[r].picked = Nothing
        /\ snapshots' = [snapshots EXCEPT ![req[r].at].hash = hash]
        /\ \E dst \in ToSet(hash) :
             LET on == SelectSeq(Healthy(s), LAMBDA e : s.host[e] = dst)
             IN  req' = [req EXCEPT ![r].key = dst,
                           ![r].picked = IF on = <<>> THEN Healthy(s)[1] ELSE on[1]]
        /\ UNCHANGED <<policy, weight>>

\* Round robin and random: some healthy endpoint of the snapshot.
AnyPick(r) ==
    /\ policy = "any" /\ req[r].at # 0 /\ req[r].picked = Nothing
    /\ \E e \in ToSet(Healthy(snapshots[req[r].at])) : req' = [req EXCEPT ![r].picked = e]
    /\ UNCHANGED <<snapshots, policy, weight>>

TotalWeight(h) == FoldLeft(LAMBDA sum, e : sum + weight[e], 0, h)

WeightBefore(h, i) == TotalWeight(SubSeq(h, 1, i))

\* The first endpoint whose share of the weights reaches beyond the number.
WeightedEndpoint(h, n) == h[CHOOSE i \in DOMAIN h :
    /\ n < WeightBefore(h, i)
    /\ \A j \in 1..(i - 1) : n >= WeightBefore(h, j)]

WeightRandomPick(r) ==
    LET h == Healthy(snapshots[req[r].at])
    IN  /\ policy = "weight" /\ req[r].at # 0 /\ req[r].picked = Nothing
        /\ \/ TotalWeight(h) = 0 /\ \E e \in ToSet(h) : req' = [req EXCEPT ![r].picked = e]
           \/ \E n \in 0..(TotalWeight(h) - 1) :
                req' = [req EXCEPT ![r].picked = WeightedEndpoint(h, n)]
        /\ UNCHANGED <<snapshots, policy, weight>>

\* What a balancer answered, an endpoint and its host, counts only as a healthy
\* endpoint of the snapshot that is still at that host.
healthyEndpointFromSnapshot(s, e, host) ==
    IF e \in ToSet(Healthy(s)) /\ s.host[e] = host THEN e ELSE Nothing

\* A balancer of another repository: any endpoint, healthy or not, of any
\* snapshot that it was ever given.  The request gets none when that is refused.
pickEndpoint(r) ==
    /\ policy = "plugin" /\ req[r].at # 0 /\ req[r].picked = Nothing
    /\ \E i \in DOMAIN snapshots : \E e \in ToSet(snapshots[i].all) :
         LET host == snapshots[i].host[e]
             found == healthyEndpointFromSnapshot(snapshots[req[r].at], e, host)
         IN  req' = [req EXCEPT ![r] = IF found = Nothing THEN Idle
                                       ELSE [@ EXCEPT !.picked = found, !.key = host]]
    /\ UNCHANGED <<snapshots, policy, weight>>

Use(r) ==
    /\ req[r].picked # Nothing
    /\ req' = [req EXCEPT ![r] = Idle]
    /\ UNCHANGED <<snapshots, policy, weight>>

PickNext ==
    \/ newEndpointSnapshot
    \/ \E e \in Endpoint : withEndpointHealthForIDs(e)
    \/ \E r \in Request :
         \/ pickOneEndpoint(r) \/ HashPick(r) \/ AnyPick(r) \/ WeightRandomPick(r)
         \/ pickEndpoint(r) \/ Use(r)

PickSpec == PickInit /\ [][PickNext]_pickVars

-----------------------------------------------------------------------------
\* A request that is routed by its key reaches the host that the key is mapped
\* to: no snapshot carries a hash of hosts that are not its healthy ones, however
\* membership and health changed since the hash was built, so the stand-in of the
\* balancers is never used (canReuseHealthyConsistentHash).
KeyReachesItsHost ==
    \A r \in Request :
        req[r].key # Nothing => snapshots[req[r].at].host[req[r].picked] = req[r].key

\* No request leaves for an endpoint that its snapshot does not hold as healthy,
\* whatever a balancer kept from earlier snapshots (healthyEndpointFromSnapshot).
PickIsHealthy ==
    \A r \in Request :
        req[r].picked # Nothing => req[r].picked \in ToSet(Healthy(snapshots[req[r].at]))

\* Every healthy endpoint gets exactly its weight's share of the random numbers,
\* and one without weight none (WeightRandom.HandlerWithSnapshot).
WeightsAreShares ==
    LET h == Healthy(Current)
    IN  \A e \in ToSet(h) :
          TotalWeight(h) > 0 =>
            Cardinality({n \in 0..(TotalWeight(h) - 1) : WeightedEndpoint(h, n) = e}) = weight[e]

-----------------------------------------------------------------------------
(* The Maglev table                                                        *)

tableVars == <<offset, skip, permutations, slots>>

position(h, j) == ((offset[h] + j * skip[h]) % Wrap) % Size

\* The first position at or after start whose slot is free, or Size.
FirstFree(s, h, start) ==
    LET free == {j \in start..(Size - 1) : s[position(h, j)] = Nothing}
    IN  IF free = {} THEN Size ELSE Min(free)

\* One turn of a host: t holds the slots, where each host is and its slots.
Turn(t, h) ==
    LET j == FirstFree(t.slots, h, t.next[h])
    IN  IF t.next[h] = Size THEN t
        ELSE IF j = Size THEN [t EXCEPT !.next[h] = j]
        ELSE [t EXCEPT !.next[h] = j, !.hit[h] = @ + 1, !.slots[position(h, j)] = h]

\* The turns of one round, then the next round while a slot is free and an order
\* is not at its end.
RECURSIVE Rounds(_, _, _)
Rounds(t, perms, i) ==
    IF i <= Len(perms) THEN Rounds(Turn(t, perms[i]), perms, i + 1)
    ELSE IF \A h \in ToSet(perms) : t.next[h] = Size THEN t
    ELSE IF \A k \in 0..(Size - 1) : t.slots[k] # Nothing THEN t
    ELSE Rounds(t, perms, 1)

\* The first of those with the fewest takes what is left.
fillMissingSlots(t, perms) ==
    LET least == CHOOSE i \in DOMAIN perms :
                   /\ \A j \in DOMAIN perms : t.hit[perms[i]] <= t.hit[perms[j]]
                   /\ \A j \in 1..(i - 1) : t.hit[perms[i]] < t.hit[perms[j]]
    IN  [i \in 0..(Size - 1) |-> IF t.slots[i] = Nothing THEN perms[least] ELSE t.slots[i]]

Fresh == [slots |-> [i \in 0..(Size - 1) |-> Nothing],
          next |-> [h \in Node |-> 0], hit |-> [h \in Node |-> 0]]

populate(perms) ==
    IF perms = <<>> THEN Fresh.slots
    ELSE fillMissingSlots(Rounds(Fresh, perms, 1), perms)

\* A table of several hosts, whose turns go in the order of a Go map, is the same
\* as one to which they were added in that order.
TableInit ==
    /\ offset \in [Node -> 0..(Size - 1)]
    /\ skip \in [Node -> 1..(Size - 1)]
    /\ permutations = <<>>
    /\ slots = populate(permutations)

add(h) ==
    /\ h \notin ToSet(permutations)
    /\ permutations' = Append(permutations, h)
    /\ slots' = populate(permutations')
    /\ UNCHANGED <<offset, skip>>

remove(h) ==
    /\ h \in ToSet(permutations)
    /\ permutations' = SelectSeq(permutations, LAMBDA g : g # h)
    /\ slots' = populate(permutations')
    /\ UNCHANGED <<offset, skip>>

TableNext == \E h \in Node : add(h) \/ remove(h)

TableSpec == TableInit /\ [][TableNext]_tableVars

-----------------------------------------------------------------------------
Wraps(h) == offset[h] + (Size - 1) * skip[h] >= Wrap

Share(h) == Cardinality({i \in 0..(Size - 1) : slots[i] = h})

\* Every request finds a host that is there: no slot is free and none names a
\* host that was removed, even where the multiplication wraps and the orders do
\* not reach every slot (populate, fillMissingSlots).
EverySlotIsServed ==
    permutations # <<>> => \A i \in 0..(Size - 1) : slots[i] \in ToSet(permutations)

\* The load is even: where no order wraps, the shares of two hosts differ by one
\* slot at most, after any sequence of additions and removals.
SharesAreEven ==
    (\A h \in ToSet(permutations) : ~Wraps(h)) =>
        \A g, h \in ToSet(permutations) : Share(g) <= Share(h) + 1

\* A request reaches an endpoint that is there, by its key or its weight, through
\* any sequence of membership and health changes, and the Maglev table names a
\* living host in every slot and shares them evenly.
PicksAreSound ==
    KeyReachesItsHost /\ PickIsHealthy /\ WeightsAreShares /\ EverySlotIsServed /\ SharesAreEven
=============================================================================
