------------------------------ MODULE HotReload ------------------------------
(***************************************************************************)
(* Reloading the configuration of a running gateway (src/pkg/hotreload).   *)
(* Two goroutines do it with the same reloaders: the coordinator polls the *)
(* configuration center and runs the reloaders in parallel against its own *)
(* record of the current configuration; the reload endpoint runs them one  *)
(* after the other, under a mutex, against the global one                  *)
(* (src/pkg/config/config_load.go). The route reloader clears the listeners*)
(* of the router manager and refreshes the gateway's listeners one by one, *)
(* each of which registers a new coordinator (router_manager.go).          *)
(*                                                                         *)
(* A configuration gives each listener its routes and each cluster its     *)
(* endpoints; Absent is a cluster it does not have. The logger's reloader  *)
(* touches neither and is left out.                                        *)
(***************************************************************************)
EXTENDS Integers, FiniteSets

CONSTANTS
    FileListener, \* listeners of the file
    First,       \* the first of them
    FileCluster,     \* names of clusters
    Config,      \* configurations that can be pushed or requested
    Initial,     \* the configuration the gateway started with
    Absent,      \* no cluster, no configuration
    MaxReloads,  \* reloads of the run
    MaxFailures  \* listeners that refuse their new filter chain

\* A configuration gives every listener its routes and every cluster its endpoints.
ASSUME ConfigAssumption ==
    /\ Absent \notin Config \cup {Initial}
    /\ \A c \in Config \cup {Initial} :
          /\ c.routes = [l \in FileListener |-> c.routes[l]]
          /\ c.clusters = [k \in FileCluster |-> c.clusters[k]]

VARIABLES
    global,     \* config.GetBootstrap()
    boot,       \* the coordinator's record
    remote,     \* what the configuration center reports
    routes,     \* the routes each listener serves
    registered, \* listeners whose coordinator the router manager knows
    clusters,   \* the clusters of the cluster manager
    reload,     \* what each of the two goroutines is doing
    answer,     \* the last answer of the endpoint and the one before
    channels,   \* the goroutines that have changed anything
    tries       \* reloads and failures so far

reloadVars == <<global, boot, remote, routes, registered, clusters, reload, answer,
          channels, tries>>

Channel == {"poll", "http"}

idle ==
    [pc |-> "idle", to |-> Initial, from |-> Initial, todo |-> {}, ok |-> TRUE]

NoAnswer == [to |-> Absent, ok |-> FALSE]

ReloadInit ==
    /\ global = Initial /\ boot = Initial /\ remote = Absent
    /\ routes = Initial.routes /\ registered = FileListener
    /\ clusters = Initial.clusters
    /\ reload = [c \in Channel |-> idle]
    /\ answer = <<NoAnswer, NoAnswer>>
    /\ channels = {}
    /\ tries = [reloads |-> 0, failures |-> 0]

\* The routes of the first listener that has any.
extractRoutes(c) == c.routes[First]

\* RouteReloader.CheckUpdate compares these only: a change of another listener,
\* of a timeout or of a filter is no change.  ClusterReloader.CheckUpdate
\* compares the clusters.
routesChanged(old, new) == extractRoutes(old) # extractRoutes(new)

clustersChanged(old, new) == old.clusters # new.clusters

\* The value at the center changes: onChange parses it.
onChange(c) ==
    /\ remote # c /\ remote' = c
    /\ UNCHANGED <<global, boot, routes, registered, clusters, reload, answer,
                   channels, tries>>

\* Mutant: listeners that have the new routes already are not refreshed.
beginSkipping(ch, from, to) ==
    /\ reload[ch].pc = "idle" /\ tries.reloads < MaxReloads
    /\ reload' = [reload EXCEPT ![ch] =
         [pc |-> "routes", from |-> from, to |-> to, ok |-> TRUE,
          todo |-> IF routesChanged(from, to)
                  THEN {l \in FileListener : routes[l] # to.routes[l]} ELSE {}]]
    /\ registered' = IF routesChanged(from, to) THEN {} ELSE registered
    /\ channels' = channels \cup {ch}
    /\ tries' = [tries EXCEPT !.reloads = @ + 1]
    /\ UNCHANGED <<global, boot, remote, routes, clusters, answer>>

Begin(ch, from, to) ==
    /\ reload[ch].pc = "idle" /\ tries.reloads < MaxReloads
    /\ reload' = [reload EXCEPT ![ch] =
         [pc |-> "routes", from |-> from, to |-> to, ok |-> TRUE,
          todo |-> IF routesChanged(from, to) THEN FileListener ELSE {}]]
    /\ registered' = IF routesChanged(from, to) THEN {} ELSE registered
    /\ channels' = channels \cup {ch}
    /\ tries' = [tries EXCEPT !.reloads = @ + 1]
    /\ UNCHANGED <<global, boot, remote, routes, clusters, answer>>

\* The poller finds a difference in the routes or in the clusters.
Poll ==
    /\ remote # Absent
    /\ routesChanged(boot, remote) \/ clustersChanged(boot, remote)
    /\ Begin("poll", boot, remote)

\* A request to the endpoint, with a body or for the file on disk, that
\* parses and adapts.
ReloadHandler(c) == Begin("http", global, c)

\* UpdateListener of the next listener, and the coordinator of its new chain
\* registers; a chain that cannot be built ends the route reload.
UpdateListener(ch, l) ==
    /\ reload[ch].pc \in {"routes", "clusters"} /\ l \in reload[ch].todo
    /\ \/ /\ routes' = [routes EXCEPT ![l] = reload[ch].to.routes[l]]
          /\ registered' = registered \cup {l}
          /\ reload' = [reload EXCEPT ![ch].todo = @ \ {l}]
          /\ tries' = tries
       \/ /\ tries.failures < MaxFailures
          /\ tries' = [tries EXCEPT !.failures = @ + 1]
          /\ reload' = [reload EXCEPT ![ch].todo = {}, ![ch].ok = FALSE]
          /\ UNCHANGED <<routes, registered>>
    /\ UNCHANGED <<global, boot, remote, clusters, answer, channels>>

\* ClusterReloader.HotReload: the difference between the two records.
reloadClusters(from, to) ==
    [c \in FileCluster |-> IF from.clusters[c] # to.clusters[c]
                       THEN to.clusters[c] ELSE clusters[c]]

\* The poller runs its reloaders side by side, so a failed route reload does
\* not keep it from the clusters; the endpoint stops at the first error.
ReloadClusters(ch) ==
    /\ reload[ch].pc = "routes"
    /\ ch = "http" => reload[ch].todo = {} /\ reload[ch].ok
    /\ clusters' = reloadClusters(reload[ch].from, reload[ch].to)
    /\ reload' = [reload EXCEPT ![ch].pc = "clusters"]
    /\ UNCHANGED <<global, boot, remote, routes, registered, answer,
                   channels, tries>>

\* The poller records the configuration whether or not it was applied.
Polled ==
    /\ reload["poll"].pc = "clusters" /\ reload["poll"].todo = {}
    /\ boot' = reload["poll"].to
    /\ reload' = [reload EXCEPT !["poll"] = idle]
    /\ UNCHANGED <<global, remote, routes, registered, clusters, answer,
                   channels, tries>>

Answer(ok) ==
    /\ answer' = <<answer[2], [to |-> reload["http"].to, ok |-> ok]>>
    /\ reload' = [reload EXCEPT !["http"] = idle]
    /\ UNCHANGED <<boot, remote, routes, registered, clusters,
                   channels, tries>>

SetBootstrap ==
    /\ reload["http"].pc = "clusters"
    /\ global' = reload["http"].to
    /\ Answer(TRUE)

ReloadFailed ==
    /\ reload["http"].pc = "routes" /\ ~reload["http"].ok
    /\ global' = global
    /\ Answer(FALSE)

ReloadNext ==
    \/ \E c \in Config : onChange(c) \/ ReloadHandler(c)
    \/ Poll \/ Polled \/ SetBootstrap \/ ReloadFailed
    \/ \E ch \in Channel :
         \/ ReloadClusters(ch)
         \/ \E l \in FileListener : UpdateListener(ch, l)

ReloadSpec == ReloadInit /\ [][ReloadNext]_reloadVars

-----------------------------------------------------------------------------
(* Properties                                                              *)

Quiet == \A ch \in Channel : reload[ch].pc = "idle"

\* A request that was refused, because a listener could not be refreshed, and
\* that is sent again and accepted is served completely: every listener has
\* its routes and a coordinator that later route edits reach, although the
\* first attempt left some of them updated and all of them unregistered. This
\* is why the global configuration changes only at the end (reloadFromYAML).
RetryIsComplete ==
    LET to == answer[2].to
    IN  (/\ Quiet /\ channels = {"http"}
         /\ answer[2].ok /\ ~answer[1].ok /\ answer[1].to = to) =>
           /\ routes = to.routes
           /\ registered = FileListener
           /\ clusters = to.clusters

\* As long as one of the two goroutines does all the reloading, the clusters
\* of the gateway are those of its record, also after reloads whose route
\* part failed (ClusterReloader.HotReload works on differences and would
\* never repair a deviation).
ClustersFollowTheRecord ==
    Quiet =>
      /\ channels = {"http"} => clusters = global.clusters
      /\ channels = {"poll"} => clusters = boot.clusters

\* A reload over HTTP that failed half-way is made good by the next, and the
\* clusters are those of the goroutine that reloads.  Nothing is said of the
\* routes after a poll whose route reload failed: the poller records the
\* configuration all the same and sees no difference when it polls again.
ReloadIsSound == RetryIsComplete /\ ClustersFollowTheRecord
=============================================================================
