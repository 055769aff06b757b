---------------------------- MODULE ClusterRuntime ----------------------------
(***************************************************************************)
(* The runtime of one cluster (pkg/cluster/cluster.go) as the cluster      *)
(* manager drives it: the endpoint snapshot requests pick from, published  *)
(* by compare-and-swap both by membership changes, which hold the manager's*)
(* lock, and by health verdicts, which do not; and the replacement of the  *)
(* whole runtime, which freezes the old one and inherits its health.       *)
(*                                                                         *)
(* A config and a snapshot both say which address each endpoint ID has and *)
(* which of them are healthy; a config's health is only the seed.          *)
(* Snapshots are compared by pointer: a loaded one is fresh until another  *)
(* one is published.                                                       *)
(***************************************************************************)
EXTENDS Naturals, Functions

CONSTANTS
    EndpointID,
    Address,
    Object,     \* *Cluster objects: the serving one and those it replaced
    MaxWrites   \* bound: changes the cluster manager makes

ASSUME RuntimeAssumption == MaxWrites \in Nat

Nobody == [at |-> "none"]

View == UNION {[addr : [S -> Address], healthy : SUBSET S] : S \in SUBSET EndpointID}

VARIABLES
    config,    \* c.config.Endpoints of the serving runtime
    checked,   \* whether its config has a health check
    checkers,  \* addresses with a health-check session in the serving runtime
    serving,   \* the object in clustersMap
    snapshot,  \* c.endpoints, per object
    accepting, \* objects with acceptHealthEvents
    updater,   \* the verdict holding healthMu, per object
    writer,    \* the cluster manager's call under way
    verdict,   \* last verdict accepted for an address since it is in the snapshot
    writes

vars == <<config, checked, checkers, serving, snapshot, accepting, updater, writer, verdict, writes>>

-----------------------------------------------------------------------------
IDs(view) == DOMAIN view.addr

\* Endpoints of a view at an address.
At(view, a) == {i \in IDs(view) : view.addr[i] = a}

\* healthyByAddress: every endpoint at the address is healthy.
HealthyByAddress(view, a) == At(view, a) \subseteq view.healthy

(***************************************************************************)
(* endpointSnapshotHealth with inheritance: what was known of this ID at   *)
(* this address, else of this address, else the config's seed.             *)
(***************************************************************************)
InheritedHealth(new, previous, i) ==
    LET a == new.addr[i] IN
    IF i \in At(previous, a) THEN i \in previous.healthy
    ELSE IF At(previous, a) # {} THEN HealthyByAddress(previous, a)
    ELSE i \in new.healthy

newEndpointSnapshot(new, previous, inherit) ==
    [addr |-> new.addr,
     healthy |-> IF inherit THEN {i \in IDs(new) : InheritedHealth(new, previous, i)}
                            ELSE new.healthy]

\* withEndpointAddressHealth.
WithAddressHealth(view, a, healthy) ==
    [view EXCEPT !.healthy = IF healthy THEN @ \cup At(view, a) ELSE @ \ At(view, a)]

\* Verdicts that still matter: those about addresses of the published view.
Kept(view) == [a \in Address |-> IF At(view, a) = {} THEN "none" ELSE verdict[a]]

CheckersFor(view, checks) == IF checks THEN Range(view.addr) ELSE {}

Init ==
    /\ config \in View
    /\ checked \in BOOLEAN
    /\ checkers = CheckersFor(config, checked)
    /\ serving \in Object
    /\ snapshot = [o \in Object |-> config]
    /\ accepting = {serving}
    /\ updater = [o \in Object |-> Nobody]
    /\ writer = Nobody
    /\ verdict = [a \in Address |-> "none"]
    /\ writes = 0

-----------------------------------------------------------------------------
(***************************************************************************)
(* UpdateEndpointAddressHealth(a, healthy), called by a health-check       *)
(* session of the object, one that has been stopped included: it may be    *)
(* handling its last result.  It holds healthMu throughout; a frozen       *)
(* object refuses it, which changes nothing.                               *)
(***************************************************************************)
UpdateHealth(o, a, healthy) ==
    /\ updater[o] = Nobody
    /\ o \in accepting
    /\ checked
    /\ updater' = [updater EXCEPT ![o] = [at |-> "load", address |-> a, healthy |-> healthy]]
    /\ UNCHANGED <<config, checked, checkers, serving, snapshot, accepting, writer, verdict, writes>>

\* A verdict is accepted when the call returns true.
Accepted(u) == verdict' = [verdict EXCEPT ![u.address] = IF u.healthy THEN "up" ELSE "down"]

LoadSnapshot(o) ==
    LET u == updater[o]
        next == WithAddressHealth(snapshot[o], u.address, u.healthy)
    IN
    /\ u.at = "load"
    /\ \/ /\ At(snapshot[o], u.address) = {}   \* unknown address: refused
          /\ updater' = [updater EXCEPT ![o] = Nobody]
          /\ UNCHANGED verdict
       \/ /\ At(snapshot[o], u.address) # {}
          /\ next = snapshot[o]                \* nothing to publish
          /\ updater' = [updater EXCEPT ![o] = Nobody]
          /\ Accepted(u)
       \/ /\ next # snapshot[o]
          /\ updater' = [updater EXCEPT ![o] = [at |-> "cas", address |-> u.address,
                            healthy |-> u.healthy, next |-> next, fresh |-> TRUE]]
          /\ UNCHANGED verdict
    /\ UNCHANGED <<config, checked, checkers, serving, snapshot, accepting, writer, writes>>

\* Somebody published a snapshot of o: what others loaded is stale.
WriterStale(o) == IF writer.at = "cas" /\ o = serving THEN [writer EXCEPT !.fresh = FALSE]
                                                      ELSE writer
UpdaterStale(o) == IF updater[o].at = "cas" THEN [updater[o] EXCEPT !.fresh = FALSE]
                                            ELSE updater[o]

\* Mutant: the new snapshot is stored without comparing.
StoreHealth(o) ==
    LET u == updater[o] IN
    /\ u.at = "cas"
    /\ snapshot' = [snapshot EXCEPT ![o] = u.next]
    /\ updater' = [updater EXCEPT ![o] = Nobody]
    /\ writer' = WriterStale(o)
    /\ Accepted(u)
    /\ UNCHANGED <<config, checked, checkers, serving, accepting, writes>>

SwapHealth(o) ==
    LET u == updater[o] IN
    /\ u.at = "cas"
    /\ \/ /\ u.fresh
          /\ snapshot' = [snapshot EXCEPT ![o] = u.next]
          /\ updater' = [updater EXCEPT ![o] = Nobody]
          /\ writer' = WriterStale(o)
          /\ Accepted(u)
       \/ /\ ~u.fresh
          /\ updater' = [updater EXCEPT ![o] = [at |-> "load", address |-> u.address,
                                                healthy |-> u.healthy]]
          /\ UNCHANGED <<snapshot, writer, verdict>>
    /\ UNCHANGED <<config, checked, checkers, serving, accepting, writes>>

-----------------------------------------------------------------------------
(***************************************************************************)
(* The cluster manager's calls, one at a time.  SetEndpoint and            *)
(* DeleteEndpoint stop the session of an address that loses its last       *)
(* endpoint, write the config, republish the snapshot and start the        *)
(* session of the new address.                                             *)
(***************************************************************************)
WriterStarts == writer = Nobody /\ writes < MaxWrites /\ writes' = writes + 1

\* stopCheck for the address endpoint i leaves.
StopCheck(i) ==
    checkers \ {config.addr[j] : j \in {k \in IDs(config) \cap {i} :
                                          At(config, config.addr[k]) = {i}}}

Edit(new, stopping, starting) ==
    /\ config' = new
    /\ checkers' = stopping
    /\ writer' = [at |-> "load", start |-> starting]

SetEndpoint(i, a, healthy) ==
    LET moves == i \notin At(config, a)
        addr == [j \in IDs(config) \cup {i} |-> IF j = i THEN a ELSE config.addr[j]]
        new == [addr |-> addr, healthy |-> IF healthy THEN config.healthy \cup {i}
                                                      ELSE config.healthy \ {i}]
    IN
    /\ WriterStarts
    /\ new # config
    /\ Edit(new, IF moves THEN StopCheck(i) ELSE checkers, IF checked /\ moves THEN {a} ELSE {})
    /\ UNCHANGED <<checked, serving, snapshot, accepting, updater, verdict>>

DeleteEndpoint(i) ==
    /\ WriterStarts
    /\ i \in IDs(config)
    /\ Edit([addr |-> Restrict(config.addr, IDs(config) \ {i}), healthy |-> config.healthy \ {i}],
            StopCheck(i), {})
    /\ UNCHANGED <<checked, serving, snapshot, accepting, updater, verdict>>

\* RefreshEndpointsFrom: inherits from the snapshot it loads.
LoadForRefresh ==
    /\ writer.at = "load"
    /\ writer' = [at |-> "cas", start |-> writer.start, fresh |-> TRUE,
                  next |-> newEndpointSnapshot(config, snapshot[serving], checked)]
    /\ UNCHANGED <<config, checked, checkers, serving, snapshot, accepting, updater, verdict, writes>>

SwapRefresh ==
    /\ writer.at = "cas"
    /\ \/ /\ writer.fresh
          /\ snapshot' = [snapshot EXCEPT ![serving] = writer.next]
          /\ verdict' = Kept(writer.next)
          /\ updater' = [updater EXCEPT ![serving] = UpdaterStale(serving)]
          /\ checkers' = checkers \cup writer.start
          /\ writer' = Nobody
       \/ /\ ~writer.fresh
          /\ writer' = [at |-> "load", start |-> writer.start]
          /\ UNCHANGED <<checkers, snapshot, updater, verdict>>
    /\ UNCHANGED <<config, checked, serving, accepting, writes>>

\* UpdateCluster and every other way to replace the runtime start here: once
\* no verdict holds healthMu, the old runtime accepts no more.
SnapshotForRuntimeReplacement(new, checks) ==
    /\ WriterStarts
    /\ updater[serving] = Nobody
    /\ accepting' = accepting \ {serving}
    /\ writer' = [at |-> "build", config |-> new, checked |-> checks]
    /\ UNCHANGED <<config, checked, checkers, serving, snapshot, updater, verdict>>

\* The new runtime takes over with its sessions running; the old one's stop.
NewClusterWithEndpointSnapshot(o) ==
    LET view == newEndpointSnapshot(writer.config, snapshot[serving], writer.checked) IN
    /\ writer.at = "build"
    /\ o # serving
    /\ updater[o] = Nobody
    /\ config' = writer.config
    /\ checked' = writer.checked
    /\ checkers' = CheckersFor(writer.config, writer.checked)
    /\ serving' = o
    /\ snapshot' = [snapshot EXCEPT ![o] = view]
    /\ accepting' = accepting \cup {o}
    /\ writer' = Nobody
    /\ verdict' = IF writer.checked THEN Kept(view) ELSE [a \in Address |-> "none"]
    /\ UNCHANGED <<updater, writes>>

Next ==
    \/ \E o \in Object, a \in Address, healthy \in BOOLEAN : UpdateHealth(o, a, healthy)
    \/ \E o \in Object : LoadSnapshot(o) \/ SwapHealth(o)
    \/ \E i \in EndpointID, a \in Address, healthy \in BOOLEAN : SetEndpoint(i, a, healthy)
    \/ \E i \in EndpointID : DeleteEndpoint(i)
    \/ LoadForRefresh \/ SwapRefresh
    \/ \E new \in View, checks \in BOOLEAN : SnapshotForRuntimeReplacement(new, checks)
    \/ \E o \in Object : NewClusterWithEndpointSnapshot(o)

Spec == Init /\ [][Next]_vars

-----------------------------------------------------------------------------
TypeOK ==
    /\ config \in View
    /\ checkers \subseteq Address
    /\ serving \in Object
    /\ snapshot \in [Object -> View]
    /\ accepting \subseteq Object
    /\ verdict \in [Address -> {"none", "up", "down"}]
    /\ writes \in 0 .. MaxWrites

(***************************************************************************)
(* A health verdict that was accepted is never lost: as long as its        *)
(* address stays in the cluster every endpoint there has that health,      *)
(* through concurrent membership changes, endpoints that join or move to   *)
(* the address, and replacements of the runtime.                           *)
(***************************************************************************)
AcceptedVerdictSurvives ==
    \A a \in Address :
        /\ verdict[a] = "up" => At(snapshot[serving], a) \subseteq snapshot[serving].healthy
        /\ verdict[a] = "down" => At(snapshot[serving], a) \cap snapshot[serving].healthy = {}

(***************************************************************************)
(* Requests pick from the configured endpoints: no verdict published next  *)
(* to a membership change brings back the endpoints of before.             *)
(***************************************************************************)
MembershipPublished == writer.at \in {"none", "build"} => snapshot[serving].addr = config.addr

(***************************************************************************)
(* Exactly the addresses of the cluster are probed, though sessions are    *)
(* shared by the endpoints at an address and started and stopped one       *)
(* endpoint at a time.                                                     *)
(***************************************************************************)
CheckersCoverEndpoints == writer = Nobody => checkers = CheckersFor(config, checked)

\* Verdicts and memberships survive each other: no writer's snapshot takes back
\* what a checker was told was accepted, and every address has its checker.
SnapshotsAreSound ==
    TypeOK /\ AcceptedVerdictSurvives /\ MembershipPublished /\ CheckersCoverEndpoints
=============================================================================
