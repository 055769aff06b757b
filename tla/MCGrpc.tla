-------------------------------- MODULE MCGrpc --------------------------------
(***************************************************************************)
(* The gRPC proxies, each part in a world of its own.  For HTTP requests   *)
(* that become gRPC calls: the connection manager with two requests for    *)
(* one address (connections; GrpcConnectionManager).  For gRPC calls: the  *)
(* relay of one call (relay) and its connections (pool), both of GrpcRelay,*)
(* and its reflection (reflection, files).                                 *)
(***************************************************************************)
EXTENDS GrpcConnectionManager, GrpcRelay, FiniteSets, TLC

CONSTANTS c1, c2, s1, s2, f1, f2, f3

VARIABLES
    world,
    imports, refused, bundles, answers, order,
    entries, stored, built, lookup, leader, expiries, clearing, clears, mixed

Reflection == INSTANCE GrpcReflection WITH
    Caller <- {c1, c2}, Service <- {s1, s2}, MaxBuilds <- 2, MaxExpiries <- 1, MaxClears <- 1, Answers <- {0, 1, 2, 9},
    File <- {f1, f2, f3}, Root <- f1, caller <- lookup

filesVars == <<imports, refused, bundles, answers, order>>
reflectionVars == <<entries, stored, built, lookup, leader, expiries, clearing, clears, mixed>>
grpcVars == <<world, vars, relayVars, poolVars, filesVars, reflectionVars>>

\* The parts that are not looked at stay in one of their initial states.
GrpcInit ==
    /\ world \in {"connections", "relay", "pool", "files", "reflection"}
    /\ Init
    /\ world # "connections" => present = {}
    /\ RelayInit /\ PoolInit /\ Reflection!LookupInit
    /\ world # "relay" => mode = "hybrid" /\ method
    /\ IF world = "files" THEN Reflection!FilesInit
       ELSE /\ imports = [f \in {f1, f2, f3} |-> {}] /\ refused = {} /\ order = <<f1, f2, f3>>
            /\ bundles = FALSE /\ answers = 9

InConnections == world = "connections" /\ UNCHANGED <<world, relayVars, poolVars, filesVars, reflectionVars>>
InRelay == world = "relay" /\ UNCHANGED <<world, vars, poolVars, filesVars, reflectionVars>>
InPool == world = "pool" /\ UNCHANGED <<world, vars, relayVars, filesVars, reflectionVars>>
InFiles == world = "files" /\ UNCHANGED <<world, vars, relayVars, poolVars, reflectionVars>>
InReflection == world = "reflection" /\ UNCHANGED <<world, vars, relayVars, poolVars, filesVars>>

GrpcNext ==
    \/ InConnections /\ Next
    \/ InRelay /\ RelayNext
    \/ InPool /\ PoolNext
    \/ InFiles /\ Reflection!FilesNext
    \/ InReflection /\ Reflection!LookupNext

\* The fairness of GrpcConnectionManager and of GrpcRelay, in their worlds.
GrpcFairness ==
    /\ \A g \in Getter : WF_grpcVars(InConnections /\ GetStep(g))
    /\ \A k \in Key, gen \in 0 .. MaxEvents :
          WF_grpcVars(/\ InConnections
                      /\ \E f \in flights : f.key = k /\ f.gen = gen /\ FlightStep(f))
    /\ WF_grpcVars(InRelay /\ Filter)
    /\ WF_grpcVars(InRelay /\ backend.eof /\ BackendEnd)

GrpcSpec == GrpcInit /\ [][GrpcNext]_grpcVars /\ GrpcFairness

-----------------------------------------------------------------------------
\* What is known of a backend by reflection is sound.
ReflectionIsSound == Reflection!ReflectionIsSound

\* Every request for a connection and every call whose caller has closed its side
\* comes to an end, and an old removal does not close a new connection.
CallsAreServed == KeepsNewConnection /\ EveryGetReturns /\ Answered
=============================================================================
