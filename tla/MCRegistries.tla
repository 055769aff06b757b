----------------------------- MODULE MCRegistries -----------------------------
(***************************************************************************)
(* The registry adapters, each in a world of its own: Spring Cloud over    *)
(* Nacos (cloud) and over ZooKeeper (zk), the Dubbo and LLM adapters over  *)
(* Nacos (dubbo), the Dubbo adapter over ZooKeeper (dubbozk), and the MCP  *)
(* adapter with two publishing goroutines and edits (mcp) and with two     *)
(* servers and registry faults only (mcplive).                             *)
(***************************************************************************)
EXTENDS Naturals, FiniteSets, Sequences

CONSTANTS Nothing, l1, l2, k1, k2

VARIABLES
    world,
    registry, pushes, subscribed, instances, callback, current, store, clusters, bumped,
    cloudRoutes, fresh, cloudEdits, cloudFaults,
    nodes, children, app, lst, svcListeners, instanceMap, endpoints, routes, currentService,
    zkEdits, zkFaults,
    nacos, listed, known, due, caches, missed, kept, served, routed, failTimes, watching, edits, faults,
    providers, exists, connected, root, listener, failures, fired, registered, apis, zkEndpoints,
    changes, errors,
    servers, ctx, gen, watched, consecutiveEmptyLists, tombstones, task, removing, catalog,
    published, tools, overlapped, lost, mcpEdits, mcpFaults

Cloud == INSTANCE SpringCloud WITH
    Service <- {"A", "B"}, Instance <- {"a1", "b1"},
    ServiceOf <- [i \in {"a1", "b1"} |-> IF i = "a1" THEN "A" ELSE "B"],
    Value <- {"v1", "v2"}, First <- [i \in {"a1", "b1"} |-> "v1"], PageSize <- 1,
    MaxEdits <- 1, MaxFaults <- 1,
    instanceMap <- instances, currentService <- current, endpoints <- store,
    routes <- cloudRoutes, edits <- cloudEdits, faults <- cloudFaults

Zk == INSTANCE ZkDiscovery WITH
    Service <- {"A"}, Instance <- {"a1", "a2"}, ServiceOf <- [i \in {"a1", "a2"} |-> "A"],
    Listener <- {l1, l2}, MaxFailTimes <- 1, MaxEdits <- 2, MaxFaults <- 2,
    edits <- zkEdits, faults <- zkFaults

Dubbo == INSTANCE DubboNacos WITH
    Interface <- {"I"}, Application <- {"A"}, Llm <- {"L"}, Instance <- {"a", "b"},
    Steady <- {"a"}, Slot <- {"m", "n"}, MaxFailTimes <- 0, MaxEdits <- 3, MaxFaults <- 1

DubboZoo == INSTANCE DubboZk WITH
    Interface <- {"I"}, Application <- {"A"}, Provider <- {"p", "q", "x"}, Unusable <- {"x"}, Method <- {"m"},
    MaxFailTimes <- 0, MaxEdits <- 2, MaxFaults <- 2,
    failTimes <- failures, endpoints <- zkEndpoints, edits <- changes, faults <- errors

Mcp == INSTANCE McpRegistry WITH
    Server <- {"a"}, Content <- {"t1", "t2", "badurl", "badtool", "garbled"}, Task <- {k1, k2},
    EmptyListTombstoneThreshold <- 2, First <- [s \in {"a"} |-> <<"t1">>],
    MaxVersions <- 2, MaxEdits <- 2, MaxFaults <- 1,
    nacos <- servers, endpoints <- tools, missed <- lost, edits <- mcpEdits, faults <- mcpFaults

McpLive == INSTANCE McpRegistry WITH
    Server <- {"a", "b"}, Content <- {"t1"}, Task <- {k1},
    EmptyListTombstoneThreshold <- 2, First <- [s \in {"a", "b"} |-> <<"t1">>],
    MaxVersions <- 2, MaxEdits <- 0, MaxFaults <- 2,
    nacos <- servers, endpoints <- tools, missed <- lost, edits <- mcpEdits, faults <- mcpFaults

cloudVars == <<registry, pushes, subscribed, instances, callback, current, store, clusters,
               bumped, cloudRoutes, fresh, cloudEdits, cloudFaults>>
zkVars == <<nodes, children, app, lst, svcListeners, instanceMap, endpoints, routes,
            currentService, zkEdits, zkFaults>>
dubboVars == <<nacos, listed, known, due, caches, missed, kept, served, routed, failTimes, watching,
               edits, faults>>
dubboZkVars == <<providers, exists, connected, root, listener, failures, fired, registered, apis,
                 zkEndpoints, changes, errors>>
mcpVars == <<servers, ctx, gen, watched, consecutiveEmptyLists, tombstones, task, removing,
             catalog, published, tools, overlapped, lost, mcpEdits, mcpFaults>>
vars == <<world, cloudVars, zkVars, dubboVars, dubboZkVars, mcpVars>>

Init ==
    /\ world \in {"cloud", "zk", "dubbo", "dubbozk", "mcp", "mcplive"}
    /\ Cloud!Init /\ Zk!Init /\ Dubbo!Init /\ DubboZoo!Init
    /\ IF world = "mcplive" THEN McpLive!Init ELSE Mcp!Init

InCloud == world = "cloud" /\ UNCHANGED <<world, zkVars, dubboVars, dubboZkVars, mcpVars>>
InZk == world = "zk" /\ UNCHANGED <<world, cloudVars, dubboVars, dubboZkVars, mcpVars>>
InDubbo == world = "dubbo" /\ UNCHANGED <<world, cloudVars, zkVars, dubboZkVars, mcpVars>>
InDubboZk == world = "dubbozk" /\ UNCHANGED <<world, cloudVars, zkVars, dubboVars, mcpVars>>
InMcp == world = "mcp" /\ UNCHANGED <<world, cloudVars, zkVars, dubboVars, dubboZkVars>>
InMcpLive == world = "mcplive" /\ UNCHANGED <<world, cloudVars, zkVars, dubboVars, dubboZkVars>>

Next ==
    \/ InCloud /\ Cloud!Next
    \/ InZk /\ Zk!Next
    \/ InDubbo /\ Dubbo!Next
    \/ InDubboZk /\ DubboZoo!Next
    \/ InMcp /\ Mcp!Next
    \/ InMcpLive /\ McpLive!Next

\* The fairness of each adapter, in its world.
Fairness ==
    /\ WF_cloudVars(world = "cloud" /\ Cloud!Reconcile)
    /\ WF_cloudVars(world = "cloud" /\ Cloud!Deliver("A"))
    /\ WF_cloudVars(world = "cloud" /\ Cloud!Deliver("B"))
    /\ WF_zkVars(world = "zk" /\ Zk!AppStep)
    /\ WF_zkVars(world = "zk" /\ Zk!ListenerStep(l1))
    /\ WF_zkVars(world = "zk" /\ Zk!ListenerStep(l2))
    /\ WF_dubboVars(world = "dubbo" /\ Dubbo!Push("L"))
    /\ WF_dubboVars(world = "dubbo" /\ Dubbo!SubscribeLlm("L", TRUE))
    /\ WF_dubboVars(world = "dubbo" /\ Dubbo!ForgetLlm("L", TRUE))
    /\ WF_dubboZkVars(world = "dubbozk" /\ DubboZoo!AppHandleEvent("A"))
    /\ WF_dubboZkVars(world = "dubbozk" /\ DubboZoo!Tick("A"))
    /\ WF_dubboZkVars(world = "dubbozk" /\
                         \E p \in {"p", "q", "x"} : DubboZoo!HandleEvent("A", p, TRUE))
    /\ WF_mcpVars(world = "mcplive" /\ McpLive!Tick /\ gen < 4)
    /\ WF_mcpVars(world = "mcplive" /\ McpLive!Remove)
    /\ WF_mcpVars(world = "mcplive" /\ McpLive!Called(k1))
    /\ WF_mcpVars(world = "mcplive" /\ McpLive!TaskStep(k1))

Spec == Init /\ [][Next]_vars /\ Fairness

-----------------------------------------------------------------------------
\* Spring Cloud: the reconciliation replaces the store only as it was when it
\* looked, and with it the endpoints are the registry's in the end, unless the
\* registry has more services than the page that is read.
CloudFollowsRegistry ==
    Cloud!NoLostDeletion /\ (world = "cloud" => Cloud!EndpointsConverge)

\* Spring Cloud over ZooKeeper: the endpoints are the cached instances and have
\* their route, and they are the instances in ZooKeeper in the end.
ZkFollowsRegistry ==
    /\ [](Zk!EndpointsAreCached /\ Zk!EndpointsAreRouted)
    /\ world = "zk" => Zk!FollowsZooKeeper

\* Dubbo over Nacos: a subscribed service serves the instances that are there and
\* no others, and an LLM service comes to be served by those it keeps, unless a
\* report was lost and none has come since.
NacosIsServed ==
    /\ [](Dubbo!TypeOK /\ Dubbo!SubscribedIsServed /\ Dubbo!GoneIsNotServed)
    /\ world = "dubbo" => Dubbo!LlmIsServed

\* A Dubbo application over ZooKeeper that keeps providers is routed to one of them
\* in the end, while its listeners run and its providers can be parsed.
ApplicationIsRouted == []DubboZoo!TypeOK /\ (world = "dubbozk" => DubboZoo!ApplicationIsRouted)

\* MCP servers: endpoints and catalog agree with what the reconciler knows, unless
\* two publications overlapped, and a registered server is published in the end,
\* unless its last listening or publication failed.
McpIsPublished ==
    /\ [](/\ IF world = "mcplive" THEN McpLive!EndpointsAreTracked ELSE Mcp!EndpointsAreTracked
          /\ world = "mcp" => Mcp!CatalogMatchesEndpoints)
    /\ world = "mcplive" => McpLive!ServersArePublished
=============================================================================
