------------------------------- MODULE McpRegistry -------------------------------
(***************************************************************************)
(* The MCP server adapter: servers and their tools from a Nacos registry   *)
(* into the MCP filter's catalog and the cluster store                     *)
(* (pkg/adapter/mcpserver: registrycenter.go, endpoint_reconciler.go,      *)
(* registry/nacos/controller.go, client.go, converter.go).                 *)
(*                                                                         *)
(* A controller lists the servers and listens to new ones.  Each change a  *)
(* listener is called for becomes a task of its own goroutine, which reads *)
(* the server's state and publishes it, to the catalog and then to the     *)
(* endpoints.  Content stands for the tools of a server: good, "badurl",   *)
(* which the endpoint plan refuses, or "badtool", which the catalog        *)
(* refuses; "none" is a server without tools.                              *)
(***************************************************************************)
EXTENDS Naturals, Sequences

CONSTANTS
    Server, Content,
    Task,                        \* bound: goroutines that publish a change
    EmptyListTombstoneThreshold, \* lists in a row that are empty before all is removed
    First,                       \* Nacos at the start: Server -> contents by version
    Nothing, MaxVersions, MaxEdits, MaxFaults

VARIABLES
    nacos,     \* Server -> sequence of contents, by version; empty if not registered
    ctx,       \* Server -> [gen, version, wrap] of the client, or Nothing; wrap: [version, data]
    gen,       \* listens so far
    watched,   \* of the controller
    consecutiveEmptyLists,
    tombstones,\* servers whose removal the controller has to publish
    task,      \* Task -> [pc, server, gen, version, cfg]
    removing,  \* the removal the controller is publishing, or Nothing
    catalog,   \* the MCP filter's catalog: Server -> content or Nothing
    published, \* endpointReconciler.published
    endpoints, \* cluster store: set of <<server, content>>
    overlapped,\* history: servers two publications of which overlapped
    missed,    \* history: <<s, "listen">> and <<s, "sink">>, what failed last and is not retried
    edits, faults

clientVars == <<ctx, gen>>
controllerVars == <<watched, consecutiveEmptyLists, tombstones, removing>>
sinkVars == <<catalog, published, endpoints, overlapped, missed>>
vars == <<nacos, clientVars, controllerVars, task, sinkVars, edits, faults>>

NoWrap == [version |-> 0, data |-> "none"]
Free == [pc |-> "free", server |-> Nothing, gen |-> 0, version |-> 0, cfg |-> "none"]
Fault == faults < MaxFaults /\ faults' = faults + 1
Registered == {s \in DOMAIN nacos : nacos[s] # <<>>}
Edited == edits < MaxEdits /\ edits' = edits + 1

-----------------------------------------------------------------------------
(***************************************************************************)
(* The registry                                                            *)
(***************************************************************************)
PublishVersion(s, c) ==
    /\ Edited /\ Len(nacos[s]) < MaxVersions
    /\ nacos' = [nacos EXCEPT ![s] = Append(@, c)]
    /\ UNCHANGED <<clientVars, controllerVars, task, sinkVars, faults>>

EditTools(s, c) ==
    /\ Edited /\ nacos[s] # <<>> /\ nacos[s][Len(nacos[s])] # c
    /\ nacos' = [nacos EXCEPT ![s][Len(nacos[s])] = c]
    /\ UNCHANGED <<clientVars, controllerVars, task, sinkVars, faults>>

Withdraw(s) ==
    /\ Edited /\ nacos[s] # <<>>
    /\ nacos' = [nacos EXCEPT ![s] = <<>>]
    /\ UNCHANGED <<clientVars, controllerVars, task, sinkVars, faults>>

-----------------------------------------------------------------------------
\* ApplyPlan, under the reconciler's lock.  A server without tools is not tracked.
ApplyPlan(s, c) ==
    LET none == c \in {"none", Nothing} IN
    /\ published' = [published EXCEPT ![s] = IF none THEN Nothing ELSE c]
    /\ endpoints' = (endpoints \ {<<s, published[s]>>}) \cup (IF none THEN {} ELSE {<<s, c>>})

\* Mutant: the endpoint plan is made only after the catalog is applied.
AcceptableToCatalog(c) == c # "badtool"

\* PrepareServerConfig succeeds, and the catalog accepts.
Acceptable(c) == c \notin {"badurl", "badtool"}

\* The catalog of s has one more change whose endpoints are still to come.
Overlaps(s) ==
    overlapped' = overlapped \cup
        (IF removing = s \/ \E t \in Task : task[t].pc = "endpoints" /\ task[t].server = s THEN {s} ELSE {})

\* The removal of a server: catalog first, then endpoints.
RemoveFromCatalog ==
    /\ removing = Nothing
    /\ \E s \in tombstones :
          /\ tombstones' = tombstones \ {s} /\ removing' = s
          /\ catalog' = [catalog EXCEPT ![s] = Nothing] /\ Overlaps(s)
          /\ missed' = missed \ {<<s, "sink">>}
    /\ UNCHANGED <<nacos, clientVars, watched, consecutiveEmptyLists, task, published, endpoints,
                   edits, faults>>

\* No sink can be bound, or it refuses the removal: the server stays published,
\* and nothing removes it later.
RemovalFails ==
    /\ removing = Nothing /\ Fault
    /\ \E s \in tombstones :
          tombstones' = tombstones \ {s} /\ missed' = missed \cup {<<s, "sink">>}
    /\ UNCHANGED <<nacos, clientVars, watched, consecutiveEmptyLists, removing, task, catalog,
                   published, endpoints, overlapped, edits>>

RemoveEndpoints ==
    /\ removing # Nothing
    /\ removing' = Nothing
    /\ ApplyPlan(removing, Nothing)
    /\ UNCHANGED <<nacos, clientVars, watched, consecutiveEmptyLists, tombstones, task, catalog,
                   overlapped, missed, edits, faults>>

-----------------------------------------------------------------------------
(***************************************************************************)
(* The controller: reconcile                                               *)
(***************************************************************************)
\* The first empty lists are not believed.
Defers(list) ==
    /\ list = {} /\ watched # {}
    /\ consecutiveEmptyLists + 1 < EmptyListTombstoneThreshold

\* CancelListenToServer drops the context, the version of a new one is unknown.
CancelListenToServer == Nothing

\* A failed ListenToMcpServer is tried at the next list.
Reconcile(list, unheard) ==
    LET new == (list \ watched) \ unheard
        gone == watched \ list
    IN
    /\ tombstones = {} /\ removing = Nothing
    /\ IF Defers(list)
       THEN /\ consecutiveEmptyLists' = consecutiveEmptyLists + 1
            /\ UNCHANGED <<clientVars, watched, tombstones>>
       ELSE /\ consecutiveEmptyLists' =
                   IF list # {} THEN 0 ELSE IF watched # {} THEN consecutiveEmptyLists + 1
                   ELSE consecutiveEmptyLists
            /\ watched' = (watched \cup new) \ gone
            /\ tombstones' = gone
            /\ gen' = IF new = {} THEN gen ELSE gen + 1
            /\ ctx' = [s \in Server |->
                          IF s \in new THEN [gen |-> gen + 1, version |-> 0, wrap |-> NoWrap]
                          ELSE IF s \in gone THEN CancelListenToServer ELSE ctx[s]]
    /\ UNCHANGED <<nacos, removing, task, sinkVars, edits>>

\* A list may come back empty, or short of a server whose configuration could not
\* be read.
ListMcpServer == {Registered, {}} \cup {Registered \ {s} : s \in Registered}

\* The ticker; a server may not be listened to.
Tick ==
    \/ \E list \in ListMcpServer :
          Reconcile(list, {}) /\ IF list = Registered THEN UNCHANGED faults ELSE Fault
    \/ \E s \in Registered \ watched : Reconcile(Registered, {s}) /\ Fault

-----------------------------------------------------------------------------
(***************************************************************************)
(* The client's callbacks and the goroutines they start                    *)
(***************************************************************************)
Spawn(t, pc, s, g) ==
    /\ task[t].pc = "free"
    /\ task' = [task EXCEPT ![t] = [Free EXCEPT !.pc = pc, !.server = s, !.gen = g]]

\* versionConfigCallBack, when the latest version differs.
VersionCallback(t, s) ==
    /\ ctx[s] # Nothing /\ nacos[s] # <<>> /\ ctx[s].version # Len(nacos[s])
    /\ ctx' = [ctx EXCEPT ![s].version = Len(nacos[s])]
    /\ Spawn(t, "listen", s, ctx[s].gen)
    /\ UNCHANGED <<nacos, gen, controllerVars, sinkVars, edits, faults>>

\* configListener, when the tools of the version listened to changed.
ToolsCallback(t, s) ==
    /\ ctx[s] # Nothing /\ ctx[s].wrap # NoWrap
    /\ ctx[s].wrap.version <= Len(nacos[s])
    /\ LET c == nacos[s][ctx[s].wrap.version] IN
          ctx[s].wrap.data # c /\ ctx' = [ctx EXCEPT ![s].wrap.data = c]
    /\ Spawn(t, "map", s, ctx[s].gen)
    /\ UNCHANGED <<nacos, gen, controllerVars, sinkVars, edits, faults>>

\* namingCb: the service behind a server changed.
NamingCallback(t, s) ==
    /\ ctx[s] # Nothing /\ ctx[s].wrap # NoWrap /\ Edited
    /\ Spawn(t, "map", s, ctx[s].gen)
    /\ UNCHANGED <<nacos, clientVars, controllerVars, sinkVars, faults>>

\* The context a goroutine works on, if the client still has it.
Mine(t) == ctx[task[t].server] # Nothing /\ ctx[task[t].server].gen = task[t].gen

\* onServerVersionChanged: reads the version and cancels the old listener.
CancelOld(t) ==
    LET s == task[t].server IN
    /\ task[t].pc = "listen"
    /\ IF Mine(t)
       THEN /\ task' = [task EXCEPT ![t].pc = "get", ![t].version = ctx[s].version]
            /\ ctx' = [ctx EXCEPT ![s].wrap = NoWrap]
       ELSE task' = [task EXCEPT ![t].pc = "map"] /\ UNCHANGED ctx
    /\ UNCHANGED <<nacos, gen, controllerVars, sinkVars, edits, faults>>

\* ListenToConfig: reads that version's tools and listens.
ListenToConfig(t) ==
    LET s == task[t].server
        v == task[t].version
    IN
    /\ task[t].pc = "get"
    /\ task' = [task EXCEPT ![t].pc = "map"]
    /\ IF Mine(t) /\ v <= Len(nacos[s])
       THEN ctx' = [ctx EXCEPT ![s].wrap = [version |-> v, data |-> nacos[s][v]]]
       ELSE UNCHANGED ctx
    /\ missed' = missed \ {<<s, "listen">>}
    /\ UNCHANGED <<nacos, gen, controllerVars, catalog, published, endpoints, overlapped, edits, faults>>

\* GetConfig or ListenConfig fails: the version has no listener, and its server
\* is published without tools until there is another version.
ListenFails(t) ==
    /\ task[t].pc = "get" /\ Fault
    /\ task' = [task EXCEPT ![t].pc = "map"]
    /\ missed' = missed \cup {<<task[t].server, "listen">>}
    /\ UNCHANGED <<nacos, clientVars, controllerVars, catalog, published, endpoints, overlapped, edits>>

\* ConvertNacosToolsToToolConfig: tools that cannot be read count as none.
Converted(data) == IF data = "garbled" THEN "none" ELSE data

\* triggerMcpServerChange looks the server up again and maps its configuration.
Map(t) ==
    LET s == task[t].server IN
    /\ task[t].pc = "map"
    /\ task' = [task EXCEPT ![t] = IF ctx[s] = Nothing THEN Free
                                   ELSE [@ EXCEPT !.pc = "catalog", !.cfg = Converted(ctx[s].wrap.data)]]
    /\ UNCHANGED <<nacos, clientVars, controllerVars, sinkVars, edits, faults>>

\* applyServerConfigEvent, the catalog; what it refuses changes nothing.
ApplyCatalog(t) ==
    LET s == task[t].server
        c == task[t].cfg
    IN
    /\ task[t].pc = "catalog"
    /\ IF Acceptable(c)
       THEN /\ catalog' = [catalog EXCEPT ![s] = IF c = "none" THEN Nothing ELSE c]
            /\ Overlaps(s)
            /\ missed' = missed \ {<<s, "sink">>}
            /\ task' = [task EXCEPT ![t].pc = "endpoints"]
       ELSE UNCHANGED <<catalog, overlapped, missed>> /\ task' = [task EXCEPT ![t] = Free]
    /\ UNCHANGED <<nacos, clientVars, controllerVars, published, endpoints, edits, faults>>

\* bindPublicationSink fails: the change is dropped.
BindFails(t) ==
    /\ task[t].pc = "catalog" /\ Fault
    /\ task' = [task EXCEPT ![t] = Free]
    /\ missed' = missed \cup {<<task[t].server, "sink">>}
    /\ UNCHANGED <<nacos, clientVars, controllerVars, catalog, published, endpoints, overlapped, edits>>

\* applyServerConfigEvent, the endpoints; a bad address has no endpoint to set.
ApplyEndpoints(t) ==
    /\ task[t].pc = "endpoints"
    /\ task' = [task EXCEPT ![t] = Free]
    /\ IF task[t].cfg = "badurl" THEN UNCHANGED <<published, endpoints>>
       ELSE ApplyPlan(task[t].server, task[t].cfg)
    /\ UNCHANGED <<nacos, clientVars, controllerVars, catalog, overlapped, missed, edits, faults>>

-----------------------------------------------------------------------------
Init ==
    /\ nacos = First
    /\ ctx = [s \in Server |-> Nothing] /\ gen = 0
    /\ watched = {} /\ consecutiveEmptyLists = 0 /\ tombstones = {} /\ removing = Nothing
    /\ task = [t \in Task |-> Free]
    /\ catalog = [s \in Server |-> Nothing] /\ published = [s \in Server |-> Nothing]
    /\ endpoints = {} /\ overlapped = {} /\ missed = {} /\ edits = 0 /\ faults = 0

Called(t) == \E s \in Server : VersionCallback(t, s) \/ ToolsCallback(t, s)
TaskStep(t) == CancelOld(t) \/ ListenToConfig(t) \/ Map(t) \/ ApplyCatalog(t) \/ ApplyEndpoints(t)
Remove == RemoveFromCatalog \/ RemoveEndpoints

Next ==
    \/ \E s \in Server : Withdraw(s) \/ \E c \in Content : PublishVersion(s, c) \/ EditTools(s, c)
    \/ gen < MaxVersions + MaxFaults /\ Tick
    \/ Remove \/ RemovalFails
    \/ \E t \in Task : ListenFails(t) \/ BindFails(t)
    \/ \E t \in Task : Called(t) \/ TaskStep(t) \/ \E s \in Server : NamingCallback(t, s)

\* The controller's ticker, the registry's callbacks and the goroutines run.
Fairness ==
    /\ WF_vars(Tick /\ gen < MaxVersions + MaxFaults) /\ WF_vars(Remove)
    /\ \A t \in Task : WF_vars(Called(t)) /\ WF_vars(TaskStep(t))

Spec == Init /\ [][Next]_vars /\ Fairness

-----------------------------------------------------------------------------
(***************************************************************************)
(* The endpoints in the cluster store are those the reconciler knows of:   *)
(* none is left behind when tools change, vanish or are published by two   *)
(* goroutines in turn.                                                     *)
(***************************************************************************)
EndpointsAreTracked ==
    endpoints = {<<s, published[s]>> : s \in {r \in Server : published[r] # Nothing}}

(***************************************************************************)
(* The catalog and the endpoints of a server agree whenever no change is   *)
(* on its way, through refusals and removals, unless two publications of   *)
(* it overlapped.                                                          *)
(***************************************************************************)
Quiet == (\A t \in Task : task[t].pc = "free") /\ removing = Nothing
CatalogMatchesEndpoints == Quiet => \A s \in Server \ overlapped : catalog[s] = published[s]

(***************************************************************************)
(* The tools of a registered server are published in the end, through      *)
(* empty and partial lists and servers that could not be listened to,      *)
(* unless the last listening to its tools or its last publication failed:  *)
(* neither is tried again.                                                 *)
(***************************************************************************)
ServersArePublished ==
    <>[](edits = 0 => \A s \in Registered :
            \/ \E w \in {"listen", "sink"} : <<s, w>> \in missed
            \/ catalog[s] = nacos[s][Len(nacos[s])])
=============================================================================
