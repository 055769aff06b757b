------------------------------ MODULE MCControl ------------------------------
(***************************************************************************)
(* How the gateway's own configuration changes, each part in a world of    *)
(* its own: the listener manager (listeners), the graceful shutdown        *)
(* (shutdown), the hot reload (reload), and the Kubernetes controller: the *)
(* configuration it writes for a fleet of gateways (controller), the       *)
(* listener statuses it reports (statuses) and its classes (class).        *)
(* The modules are extended, but for GatewayStatus, an instance.           *)
(***************************************************************************)
EXTENDS ListenerManager, ListenerShutdown, HotReload, GatewayController, TLC

CONSTANTS r1, l1, l2, c1, c2, route, s1, s2, p1, p2, g1, g2

VARIABLES
    world,
    spec, specGeneration, httpRoutes, accepted, missing, requested, outbox, listed,
    unseen, dropped, drops, uneven, editsMade,
    gatewayClass, gateways, cached, late, todo, pass

MCListenerKey == {<<1, "HTTP">>, <<1, "HTTP2">>, <<2, "HTTP">>, <<3, "HTTP">>}
MCStatic == {<<3, "HTTP">>}
MCResources == {{}, {<<1, "HTTP">>, <<2, "HTTP">>}, {<<1, "HTTP2">>, <<2, "HTTP">>},
                {<<1, "HTTP">>, <<1, "HTTP2">>}, {<<1, "HTTP2">>, <<3, "HTTP">>}}

Started == [routes |-> [l \in {l1, l2} |-> 1], clusters |-> [c \in {c1, c2} |-> 1]]

MCConfig ==
    {Started,
     [routes |-> [l \in {l1, l2} |-> 2], clusters |-> (c1 :> 2 @@ c2 :> Absent)],
     [routes |-> [l \in {l1, l2} |-> 2], clusters |-> (c1 :> Absent @@ c2 :> 1)]}

MCListeners == {{"http"}, {"http", "grpc"}, {"http", "tcp"}}
MCFilters == {{}, {"directdubboproxy"}, {"cors", "httpproxy"}}

L(name, port, hostname, kind, tls, from) ==
    [name |-> name, port |-> port, hostname |-> hostname, protocol |-> kind, tls |-> tls,
     from |-> from, kinds |-> IF port = 80 THEN {} ELSE {"HTTPRoute"}]
Web == L("web", 80, <<>>, "HTTP", "none", "All")
Wild == L("wild", 80, <<"*", "b", "c">>, "HTTP", "none", "All")
Exact == L("web", 443, <<"a", "b", "c">>, "HTTPS", "Terminate", "Same")
Chosen == L("chosen", 80, <<"*", "c">>, "HTTP", "none", "Selector")
Passed == L("passed", 443, <<"a", "b", "c">>, "HTTPS", "Passthrough", "All")
Raw == L("raw", 443, <<>>, "TCP", "none", "All")
Grpc == [L("wild", 8080, <<>>, "HTTP", "none", "All") EXCEPT !.kinds = {"GRPCRoute"}]

Ref(section, port, namespace) == [section |-> section, port |-> port, namespace |-> namespace]
R(namespace, hostnames, refs) == [namespace |-> namespace, hostnames |-> hostnames, refs |-> refs]

MCRoutes ==
    {R("ns", {<<"a", "b", "c">>}, <<Ref("", 0, <<>>)>>),
     R("ns", {<<"*", "c">>}, <<Ref("wild", 0, <<>>), Ref("web", 443, <<"ns">>)>>),
     R("ns", {<<"d", "a", "b", "c">>, <<"x">>}, <<Ref("", 80, <<>>)>>),
     R("ns", {<<"*", "a", "b", "c">>}, <<Ref("", 0, <<>>)>>),
     R("ns", {<<"b", "c">>}, <<Ref("", 0, <<>>)>>),
     R("other", {}, <<Ref("web", 0, <<"ns">>)>>)}

Report == INSTANCE GatewayStatus WITH
    Namespace <- "ns", Selected <- {"ns"}, MaxEdits <- 2, MaxOutbox <- 2, MaxDrops <- 1,
    routes <- httpRoutes, generation <- specGeneration,
    Gateway <- {g1, g2}, MaxVersion <- 4, class <- gatewayClass,
    Specs <- {<<Web, Wild>>, <<Wild, Exact>>, <<Exact, Passed>>, <<Raw, Exact>>, <<Chosen, Exact>>, <<Grpc, Web>>},
    Routes <- MCRoutes, FirstRoutes <- {{}} \cup {{r} : r \in MCRoutes}

statusVars == <<spec, specGeneration, httpRoutes, accepted, missing, requested, outbox, listed,
                unseen, dropped, drops, uneven, editsMade>>
classVars == <<gatewayClass, gateways, cached, late, todo, pass>>
controlVars == <<world, listenerVars, shutdownVars, reloadVars, controllerVars, statusVars, classVars>>

\* The parts that are not looked at stay in one of their initial states.
ControlInit ==
    /\ world \in {"listeners", "shutdown", "reload", "controller", "statuses", "class"}
    /\ ListenersInit /\ ShutdownInit /\ ReloadInit /\ ControllerInit /\ Report!StatusInit /\ Report!ClassInit
    /\ world # "shutdown" => protocol = [l \in {l1, l2} |-> "HTTP"]
    /\ world # "controller" => class /\ backend[route] = s1
    /\ world # "statuses" => spec = <<Web, Wild>> /\ httpRoutes = {}

InManager == world = "listeners"
    /\ UNCHANGED <<world, shutdownVars, reloadVars, controllerVars, statusVars, classVars>>
InShutdown == world = "shutdown"
    /\ UNCHANGED <<world, listenerVars, reloadVars, controllerVars, statusVars, classVars>>
InReload == world = "reload"
    /\ UNCHANGED <<world, listenerVars, shutdownVars, controllerVars, statusVars, classVars>>
InController == world = "controller"
    /\ UNCHANGED <<world, listenerVars, shutdownVars, reloadVars, statusVars, classVars>>
InStatuses == world = "statuses"
    /\ UNCHANGED <<world, listenerVars, shutdownVars, reloadVars, controllerVars, classVars>>
InClass == world = "class"
    /\ UNCHANGED <<world, listenerVars, shutdownVars, reloadVars, controllerVars, statusVars>>

ControlNext ==
    \/ InManager /\ ListenersNext
    \/ InShutdown /\ ShutdownNext
    \/ InReload /\ ReloadNext
    \/ InController /\ ControllerNext
    \/ InStatuses /\ Report!StatusNext
    \/ InClass /\ Report!ClassNext

ControlSpec == ControlInit /\ [][ControlNext]_controlVars

-----------------------------------------------------------------------------
\* What the controller reports on Gateways and classes holds.
ReportsAreTrue == world \in {"statuses", "class"} => Report!ReportsAreTrue
=============================================================================
