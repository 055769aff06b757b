------------------------------ MODULE MCUpstream ------------------------------
(***************************************************************************)
(* The way to a healthy upstream host, each part in a world of its own:    *)
(* the slots of a cluster (members), the endpoint snapshot of a cluster    *)
(* under membership changes and health verdicts (ClusterRuntime) and one   *)
(* health-check session (EndpointChecker), both of which this module       *)
(* extends, the load balancers (balancer) and the Maglev table (maglev);   *)
(* and behind them, for gRPC, the connections of two addresses that        *)
(* compete for one tombstone (eviction) and the descriptors of a           *)
(* connection's methods (transcode).                                       *)
(***************************************************************************)
EXTENDS ClusterRuntime, EndpointChecker, TLC

CONSTANTS Nothing, k1, k2, x1, x2, x3, r1, r2, e1, e2, h1, h2, h3

VARIABLES
    world,
    endpoints, byID, claims,
    snapshots, req, policy, weight,
    offset, skip, permutations, slots,
    present, eventID, pending, connections, since, open, closed, generations, eventVers, refs, removed,
    tombstones, getters, flights, updates,
    current, methodDescs, state, generation, descClosed, gone, registered, extReg, lock, call

Members == INSTANCE EndpointSlots WITH
    Address <- {h1, h2}, Name <- {e1}, Metadata <- {x1, x2}, MaxEndpoints <- 3

\* The instance is one the proofs are about.
ASSUME CheckerConstants == Constants

Balance == INSTANCE Balancer WITH
    Request <- {r1}, Endpoint <- {e1, e2}, Host <- {h1, h2}, MaxSnapshots <- 3, MaxWeight <- 2,
    Node <- {h1, h2, h3}, Size <- 5, Wrap <- 16

Eviction == INSTANCE GrpcConnectionManager WITH
    Key <- {k1, k2}, Getter <- {r1}, Conn <- {x1, x2, x3}, NoConn <- Nothing,
    MaxTombstones <- 1, MaxEvents <- 2

Transcode == INSTANCE GrpcTranscode WITH
    Request <- {r1, r2}, Absent <- Nothing, MaxConns <- 2,
    closed <- descClosed, removed <- gone, req <- call

memberVars == <<endpoints, byID, claims>>
balanceVars == <<snapshots, req, policy, weight>>
tableVars == <<offset, skip, permutations, slots>>
evictionVars == <<present, eventID, pending, connections, since, open, closed, generations, eventVers,
                  refs, removed, tombstones, getters, flights, updates>>
transcodeVars == <<current, methodDescs, state, generation, descClosed, gone, registered, extReg,
                   lock, call>>
upstreamVars == <<world, memberVars, vars, checkerVars, balanceVars, tableVars, evictionVars, transcodeVars>>

\* The parts that are not looked at stay in one of their initial states.
UpstreamInit ==
    /\ world \in {"members", "runtime", "checker", "balancer", "maglev", "eviction", "transcode"}
    /\ IF world = "runtime" THEN Init
       ELSE /\ config = [addr |-> <<>>, healthy |-> {}] /\ checked = FALSE /\ checkers = {}
            /\ serving = CHOOSE o \in Object : TRUE
            /\ snapshot = [o \in Object |-> config] /\ accepting = {serving}
            /\ updater = [o \in Object |-> Nobody] /\ writer = Nobody
            /\ verdict = [a \in Address |-> "none"] /\ writes = 0
    /\ Members!Init /\ CheckerInit /\ Eviction!Init /\ Transcode!Init
    /\ world # "eviction" => present = {}
    /\ Balance!PickInit
    /\ world # "balancer" => policy = "any" /\ snapshots[1].host = [e \in {e1, e2} |-> h1]
    /\ permutations = <<>> /\ slots = [i \in 0..4 |-> Nothing]
    /\ IF world = "maglev" THEN Balance!TableInit
       ELSE offset = [h \in {h1, h2, h3} |-> 0] /\ skip = [h \in {h1, h2, h3} |-> 1]

InMembers ==
    /\ world = "members"
    /\ UNCHANGED <<world, vars, checkerVars, balanceVars, tableVars, evictionVars, transcodeVars>>
InRuntime ==
    /\ world = "runtime"
    /\ UNCHANGED <<world, memberVars, checkerVars, balanceVars, tableVars, evictionVars, transcodeVars>>
InChecker ==
    /\ world = "checker"
    /\ UNCHANGED <<world, memberVars, vars, balanceVars, tableVars, evictionVars, transcodeVars>>
InBalancer ==
    /\ world = "balancer"
    /\ UNCHANGED <<world, memberVars, vars, checkerVars, tableVars, evictionVars, transcodeVars>>
InMaglev ==
    /\ world = "maglev"
    /\ UNCHANGED <<world, memberVars, vars, checkerVars, balanceVars, evictionVars, transcodeVars>>
InEviction ==
    /\ world = "eviction"
    /\ UNCHANGED <<world, memberVars, vars, checkerVars, balanceVars, tableVars, transcodeVars>>
InTranscode ==
    /\ world = "transcode"
    /\ UNCHANGED <<world, memberVars, vars, checkerVars, balanceVars, tableVars, evictionVars>>

UpstreamNext ==
    \/ InMembers /\ Members!Next
    \/ InRuntime /\ Next
    \/ InChecker /\ CheckerNext
    \/ InBalancer /\ Balance!PickNext
    \/ InMaglev /\ Balance!TableNext
    \/ InEviction /\ Eviction!Next
    \/ InTranscode /\ Transcode!Next

UpstreamSpec == UpstreamInit /\ [][UpstreamNext]_upstreamVars

-----------------------------------------------------------------------------
\* The slots of a cluster hold what was registered last.
SlotsAreSound == Members!SlotsAreSound

\* A request reaches an endpoint that is there, in its share.
PicksAreSound == Balance!PicksAreSound

\* Connections of competing addresses are closed and counted, and methods are
\* called with the descriptors of their connection.
GrpcHostsAreSound ==
    /\ world = "eviction" => Eviction!ConnectionsAreSound
    /\ Transcode!DescriptorsAreSound
=============================================================================
