# A TLA+ verification of dubbo-go-pixiu

Pixiu is an API gateway. Requests enter through listeners, pass a chain of
filters, are matched against a route table, and go to an endpoint of an
upstream cluster. Around that request path the configuration changes all the
time: registries add and remove endpoints and routes, xDS servers replace
clusters and listeners, operators edit files, an admin console writes to etcd,
a Kubernetes controller rewrites the gateway's configuration, health checks
flip endpoints. None of those writers waits for requests, and they hardly wait
for each other. That concurrency, and the few algorithms that are hard to get
right (route matching, tool selection, endpoint IDs, the Maglev table,
resolution of proto files), is what these modules model. Parsing, formats and
I/O are left to tests.

## 1. Inventory

| Part (source) | State | Hard part | Correct when |
|---|---|---|---|
| Route coordinator (`pkg/common/router`, `pkg/model/router_snapshot.go`) | edited list, published snapshot, debounce timer, tries | edits land between the timer firing and the lock; overlapping patterns | no edit stays unpublished; the best route is found |
| Cluster manager (`pkg/server/cluster_manager.go`) | store, runtimes, version, xDS ownership, event numbers | five kinds of writers; runtimes stopped and callbacks run after the unlock; IDs derived twice | runtime follows configuration, no write is lost, IDs are unique |
| Endpoint events (`AddEndpointStateHandler`) | numbered changes under way | callbacks of two mutations in either order | a consumer that keeps the latest number agrees with the store |
| Cluster runtime and balancers (`pkg/cluster`) | snapshot behind an atomic pointer, checkers, hash rings | two compare-and-swap loops; a verdict during replacement; reused rings | verdicts and membership survive; picks reach a host that is there |
| Health checks (`pkg/cluster/healthcheck`) | counters, check ID, timers, channels | late answers against deadlines | probing goes on; promotion takes its threshold; Stop is prompt |
| HTTP to gRPC proxy (`pkg/filter/http/grpcproxy`) | connections, generations, pins, tombstones, descriptors | a dial or a lookup outlives its endpoint | no leak, nothing stale is cached, every `Get` returns |
| gRPC network filter (`pkg/filter/network/grpcproxy`) | streams, pool, file registries | goroutines of a call ending in any order; circular imports | callers are told the truth; one sound connection |
| Hot reload (`pkg/hotreload`) | last applied bootstrap, two channels | partial failure and retry | a retried reload is complete |
| Listeners (`pkg/server/listener_manager.go`, `pkg/listener`) | listeners, chains in use, counters | transactions that fail half-way; shutdown against arrivals | no request on a closed chain; none cut off early |
| API configuration (`pkg/config/api_config.go`, `pkg/router`, `pkg/filter/http/apiconfig`) | configuration, trie, watches | one transaction arrives in pieces | only configured routes are served |
| Registry adapters (`pkg/adapter`) | subscriptions, caches, reconcilers | callbacks beside polling; retries; overlapping publications | endpoints and routes follow the registry |
| xDS (`pkg/config/xds`, `admin/xds`, `admin/core`) | streams, versions, caches | a stream breaks between apply and acknowledge | what is announced is applied; convergence |
| MCP server filter (`pkg/filter/mcp`) | sessions, streams, plans, catalog | unlock and re-check everywhere | bounds, authorisation and notifications hold |
| LLM proxy, key-value cache (`pkg/filter/llm`, `pkg/filter/ai`) | cool-downs, breaker, token cache, hot prompts | check and use apart | failures are kept; counters are true |
| HTTP requests, filter manager (`pkg/common/http`, `pkg/common/extension/filter`) | pooled contexts, leased factories | reload under requests; left-over context data | one answer, its own; factories open while leased |
| Kubernetes controllers (`controllers`) | ConfigMap, Deployment, pods, statuses | edits between reads, failed writes, crashes | "programmed" is true |
| Admin console (`admin/logic`) | drafts, published bindings, history, legacy resources in etcd | two clients over compare-and-set | drafts are not lost, routes agree |
| Proxy filters, policy and observability filters, clients, configuration models, commands | little of their own | I/O | not modelled |

How they interact: adapters, xDS, the API watches and hot reload call the
cluster manager, the router manager and the listener manager. The cluster
manager owns one runtime per name; a runtime owns one checker session per
address, which reports verdicts without the manager's lock. Endpoint changes
are announced to handlers after the lock is released; the gRPC connection
manager is such a handler. The router manager forwards edits to every route
coordinator, whose snapshot the request path reads without a lock. The admin
console and the controller are other processes that reach the gateway through
etcd, xDS, or a mounted ConfigMap.

## 2. Modules

One module per part. An `MC...` module puts several parts side by side and gives
their constants values: a behaviour starts in one *world*, a single part, and
stays there while the others rest in an initial state. A world is thus an
independent model; worlds only share a TLC run. Parts with a theorem are extended
(`MCUpstream` extends `ClusterRuntime` and `EndpointChecker`, `MCMcp` `McpSession` and
`McpRouter`, `MCRequest` `FilterManager` and `HttpRequest`, `MCControl` `ListenerManager`,
`ListenerShutdown`, `HotReload` and `GatewayController`,
`MCPropagation` `RouterCoordinator`, `AdminXds` and `AdsClient`, `MCGrpc` `GrpcRelay`),
so that run and theorem are about one definition; the others are instances, as is
`KvCache`, of whose property two parts are proved. The
components that do interact are composed inside their modules (`ClusterManager` and
`GrpcConnectionManager` over `EndpointFeed`, `LegacyResource` over
`RouteBindingStore`, and the registry modules, which hold the registry, the
adapter and the part of the store they write).

| Module | Models |
|---|---|
| `RouterCoordinator` | edits, debounce timer, publishing goroutine; theorems |
| `RouteMatch` | snapshot building and the trie lookup, against a definition of the best route without a trie |
| `EndpointFeed` | abstract: what endpoint callbacks promise a consumer; theorems |
| `ClusterManager` | the store and its writers, shown to implement `EndpointFeed`; theorems, the refinement among them |
| `EndpointSlots` | slots and IDs of a cluster: static lists, registrations with and without IDs |
| `ClusterRuntime` | snapshot publication, verdicts, replacement, checkers per address; theorem |
| `EndpointChecker` | one health-check session; theorem |
| `Balancer` | load balancers over changing snapshots, plug-ins included; the Maglev table with wrapping arithmetic |
| `GrpcConnectionManager` | `Get`, singleflight, events, tombstones, `Close` |
| `GrpcTranscode` | descriptor and extension caches of the HTTP to gRPC filter; theorem |
| `GrpcRelay` | relay of one gRPC call (`Relay...`) and the connection pool (`Pool...`); theorem |
| `GrpcReflection` | registry cache with its expiry and invalidations (`Lookup...`) and resolution of files over every import graph (`Files...`) |
| `HotReload` | polling and HTTP reloads, route and cluster reloaders, router manager registration; theorem |
| `ListenerManager` | xDS listener transactions, port hand-over, rollback, chains in use; theorem |
| `ListenerShutdown` | graceful shutdown of HTTP, HTTP/2, TCP, gRPC and Triple listeners; theorem |
| `ApiConfig` | API configuration following etcd, its trie, dynamic discovery |
| `SpringCloud`, `ZkDiscovery` | Spring Cloud over Nacos with reconciliation; discovery over ZooKeeper |
| `DubboNacos`, `DubboZk` | Dubbo applications and interfaces, and LLM services, over Nacos and ZooKeeper |
| `McpRegistry` | MCP servers in Nacos: polling, tombstones, publication to catalog and endpoints |
| `AdminXds` | etcd, the console's snapshot publisher, and the gateway's delta streams; theorem |
| `AdsClient` | the aggregated stream: CDS, EDS, their join, refusal, reconnection; theorem |
| `McpSession` | sessions, capacity, streams, pending notifications, plan commits; theorem |
| `McpRouter` | every configuration of policy, workflow and progressive selection (`Selection...`); plans, receipts, authorisation, expansion and catalog updates (`Router...`); theorems |
| `HttpRequest`, `FilterManager` | a request with its pooled context and MCP answers; leased filter factories; a theorem each |
| `LlmProxy` | retries, fallback, cool-down store |
| `KvCache` | circuit breaker (`Breaker...`), token cache (`Tokens...`), hot prompts (`Prompts...`); theorems on the first two |
| `GatewayController` | reconciliation into ConfigMap, Deployment and Service, reload of pods, crashes; theorem |
| `GatewayStatus` | listener statuses and the asynchronous updater (`Status...`) and the class controller (`Class...`) |
| `RouteBindingStore`, `LegacyResource` | bindings and legacy resources over etcd |
| `ClusterManager_proofs`, `Upstream_proofs`, `Grpc_proofs`, `Control_proofs`, `Request_proofs` | proofs about the store; the runtime and health checks; the relay and the descriptors; route coordinator, listener transactions, shutdown, reload, both xDS clients and the Kubernetes controller; factories, MCP answers and the key-value cache. The other proofs end their component's module |

Conventions. Variables and actions keep the names of fields and functions; a
step is a critical section, one atomic operation or one call to another
process, and what runs after an unlock is a record carried out later. Data is
reduced to what decisions depend on: a payload is a model value, a decoding
either succeeds or fails, a hash is an arbitrary value. Variables that only
properties read (`covered`, `overlapped`, `past`, `claims`, `seen`...) are
commented where they are declared. Operators introduced by `\* Mutant:` are
deliberate bugs: each is a changed form of the definition it precedes, kept so
that every property can be shown to fail when the code is wrong in that way.
No specification uses them. Code outside `src/` (etcd, Nacos, ZooKeeper, the
Kubernetes API, gRPC streams, timers) is modelled from how it is called.

Choices worth knowing:

* `RouterCoordinator`: `channel` and `waiter` make the hand-over between timer and
  goroutine explicit. Reading a nil timer is a state (`panicked`) outside `TypeOK`.
* `ClusterManager`: a configuration carries an identity, since the code decides
  by pointer whether a runtime belongs to it, and the writer that wrote it. The
  store is a set of configurations: their order decides nothing but which of two
  of one name is found, and names are unique (`StoreIsConsistent`).
  `AddCluster` is called with new names only: a reload that names a cluster a
  registry created finds an empty old state and announces no removals
  (section 6). `UpsertXDSCluster` is called by tests only.
* `EndpointChecker`: the loop and `OnCheck` are split wherever another goroutine
  can see a difference, including `checkID` and `checkTimeout`, which are
  accessed without a lock.
* `ListenerManager`: a transaction holds `rwLock` and, while it publishes, the
  gate of all listeners; each of its stages is a step, with failing chains and
  binds as choices; requests acquire, run and release chains in between.
* `AdminXds`, `AdsClient`: messages may be lost with their stream, never reordered
  within one, as gRPC guarantees.
* `RouteBindingStore`: a request reads, decides and commits in separate steps. The
  reads of a publish after the marker are one step, since every write of what
  they read moves the marker or is compared on its own.
* `McpRouter`: an update publishes under the consumer's lock; taking the snapshot to
  compare with, reading the plans, comparing each and marking the session come
  after it, one step each, since requests and other updates run in between.
* The selection of `McpRouter`, `RouteMatch`, `EndpointSlots`, `Balancer` and the files
  of `GrpcReflection` are mostly operators; their initial states or steps enumerate
  configurations, and properties compare with an independent definition.

## 3. Runs

Deadlock checking is off in all of them: the bounds on edits, events, probes or
writes let every behaviour come to rest, and so does the real system when
nobody changes anything. Each property is a conjunction of named parts defined
and explained in the module of its part, type invariants included.

| Run (module) | Properties | Bounds |
|---|---|---|
| `endpoint_feed` | `ConsumerConverges`: delivery in any order leaves the consumer right | 2 keys, 4 changes |
| `cluster_manager` | `StoreIsConsistent`: runtimes match configurations, none is orphaned, ownership follows writes. `WritersKeepOut`: a compare-and-set loses no write, xDS touches only its own. `ImplementsFeed`: refinement of `EndpointFeed` | 2 names, 2 IDs, 2 addresses, 4 runtimes, 3 numbered changes |
| `admin_routes` (`LegacyResource`) | `RoutesAreSound`: what is published is served, what is deleted is gone, no two methods are recorded or served at one route, no two share an ID, except where a resource was parted from its methods. `DraftsAreSafe`: a publish takes the draft of its moment, a save replaces what its caller saw, a rollback restores what it names unless a save came between its own save and the read after it, and only blind writes part a resource from its methods | 2 clients, 2 names, 2 paths, 3 calls, 2 ID retries; clients, names and paths symmetric |
| `mcp` | `SessionsAreSound`, `PlansAreSound`, `SelectionIsSound`, and `EventuallyNotified`: a connected client learns of every change | 4 sessions for 2 places; 1 session with 2 streams and 2 changes; 2 identities with 3 calls; 2 sources with 2 updates that overlap; all configurations of 3 rules and 2 of 5 workflow rows |
| `propagation` | `NoEditForgotten`: an unpublished route edit has a goroutine that will publish it. `LastEditPublished`: it does, once edits pause. `AdminIsFollowed`, `CacheIsSound` (safety) and `Converges` for the two control planes | 2 route IDs, 1 trie node, 2 routes, 2 timers, 2 goroutines; 3 keys of which one is a prefix of another, 2 writes, 2 faults; 2 clusters, 2 services, 3 edits, 1 fault |
| `registries` | `CloudFollowsRegistry`, `ZkFollowsRegistry`, `NacosIsServed`, `ApplicationIsRouted`, `McpIsPublished`: safety of the caches and, in the end, agreement with the registry where the code gets to know of it | 1 or 2 services with 1 to 3 instances, usable or not, 1 to 3 edits, 1 or 2 faults, a page of 1 service, 2 goroutines where the code starts several |
| `control` | `ChainsAreSound`, `NotCutOffEarly`, `ReloadIsSound`, `ProgrammedIsTrue`, `ReportsAreTrue` | 4 listener keys on 3 ports, 2 transactions, 1 refresh, 1 failure; 2 listeners of any protocol with 2 requests; 3 reloads, 1 failure; 1 edit, 1 failed write, 1 crash, 2 pods; 6 listener lists, 6 routes, 2 edits, a channel of 2 updates, 1 of them dropped; 2 Gateways |
| `upstream_hosts` | `SlotsAreSound`, `SnapshotsAreSound`, `SessionIsSound`, `PicksAreSound`, `GrpcHostsAreSound` | 3 endpoints; 2 objects and 2 writes; thresholds 2 and 3 probes; 3 snapshots; every table of 5 slots for 3 hosts with wrap at 16; 2 keys for 1 tombstone; 2 requests over 2 connections |
| `grpc_proxy` | `ConnectionsAreSound`, `RelayIsSound`, `ReflectionIsSound`, and `CallsAreServed`: every `Get` and every closed call ends, an old removal spares a new connection | 1 key, 2 calls, 3 connections, 2 events; 2 messages each way; 2 failures; 2 callers, 2 services, 1 expiry, 1 invalidation; every import graph of 3 files in every order, over a stream that ends after 0, 1, 2 or all answers |
| `request_path` | `BestIsFound`, `ApiIsSound`, `FactoriesAreSound`, `AnswersAreSound`, `FailoverIsSound`, `KvCacheIsSound` | all lists of 3 of 28 route shapes; 3 etcd writes; 3 factories; 2 requests of 9 kinds over 2 contexts; 3 endpoints, 2 failures, 1 change, 1 entry in the cool-down store; 3 callers, 3 keys, 5 ticks |
| `mcp_change` (`MCMcp`, violation) | `ChangeIsNotLost`: a client whose list is out of date has a change marked, without the exception that `PlansAreSound` makes | those of `mcp` |
| `replay_grows` (`EndpointSlots`, violation) | `ReplayDoesNotGrow`: registering again what is there changes nothing | 1 address, 2 contents, 3 endpoints |

Why the bounds suffice. The hazards are races of two actors and one thing they
share, so two of each, and one more event than the race needs, make them
happen: two timers for a hand-over to go wrong, three numbered changes for
remove, add, remove out of order, one place fewer than sessions for the
capacity check, one failure between two stages for each rollback. The mutants
confirm it: for every property a plausible bug in the mapped code is found
within the same bounds. Where the input is a configuration (routes, selection
rules, import graphs, Maglev orders, listener lists) the runs enumerate all
combinations of shapes that the code treats differently.

### What the violations show

`resolveSetEndpointSlotByHash` compares a registration without an ID with the
first endpoint of the same hash only. The hash covers address and credential,
not metadata. Once two such endpoints with different metadata exist, replaying
the second appends a third copy, and every further replay another one, against
the comment on `setEndpointIdempotent` and the test that pins idempotency for the
first endpoint. `SlotsAreSound` holds nevertheless: the copies get IDs of their
own.

`sessionsWithChangedVisibleSet` compares the stored plans with refreshed ones and
marks the sessions whose visible tools changed. A session whose first `tools/list`
has taken its catalog snapshot and not yet stored its plan has nothing to compare.
The update passes it over, the request then stores and sends the list of the old
catalog, and no `tools/list_changed` is marked; the client keeps the old list until
something else changes. Two updates that overlap pass each other in the same way:
`SetIfCurrent` refuses the plan of one because the other replaced it, and the code
goes on. `docs/ai/mcp/mcp.md:208` says that Pixiu sends the notification when a
session's visible tool set changes, and that the final pending change is not lost.
`PlansAreSound` holds because its part on stale lists excepts such plans
(`slipped`). Calls are authorised by their own snapshot all the same.

### Fairness

All fairness is weak.

* `RouterCoordinator`: an armed timer fires and a runnable goroutine runs. Nothing
  is assumed of adapters: each edit resets the timer and the code sets no upper
  bound, so `LastEditPublished` is conditional on edits stopping.
* `GrpcConnectionManager`: a `Get` and a flight that can run do; a dial ends
  (`dialTimeout`). `GrpcRelay`: the filter's goroutines run, and a backend that saw
  the end of a request ends its answer.
* `McpSession`: goroutines that flush a stream run; writes succeed or fail.
* `AdminXds`, `AdsClient`: server and client steps are taken, and a broken stream is
  opened again, as the retry loops do. Faults are bounded, so they stop.
* `SpringCloud`: the ticker reconciles and pushes are delivered. `ZkDiscovery`,
  `DubboNacos`, `DubboZk`: loops that retry go on; goroutines that give up in the
  code stay gone, and the properties except them. The tickers of `DubboZk` listeners
  fire. `McpRegistry`: the poll goes on and tasks run. Nothing is assumed of what
  the code does not try again: a report with an error, metadata that could not be
  read, a failed listening to tools, a sink that could not be bound.

Edits are finite in every run, so the liveness properties read: after the last
change and the last fault, the parts come to agree.

## 4. Proofs

Proved for every value of the constants, with TLAPS.

| Theorem (module) | States | Assumes |
|---|---|---|
| `TypeCorrect`, `WaiterUnique`, `EditsAreOwned` (`Control_proofs`) | types, so no goroutine reads a nil timer; one goroutine per timer; `NoEditForgotten` | `RouterAssumption` of `RouterCoordinator`: `MaxRoutes` is a natural number, the nil timer is not a timer |
| `FeedTypes`, `FeedConverges` (`EndpointFeed`) | types; `ConsumerConverges` | `MaxEventsAssumption`: the bound on events is a natural number |
| `StoreStaysConsistent`, `WritersStayApart` (`ClusterManager_proofs`) | `StoreIsConsistent`; the action property `WritersKeepOut` | `ManagerAssumption`: the bound on events is a natural number, names are finitely many, no runtime is none |
| `ManagerImplementsFeed`, `ManagerConsumerConverges` (`ClusterManager_proofs`) | the refinement `ImplementsFeed`; its consequence for a consumer of the real manager | the same |
| `RuntimeKeepsSnapshots` (`Upstream_proofs`) | `SnapshotsAreSound` | `RuntimeAssumption`: the bound on writes is a natural number |
| `SessionStaysSound` (`Upstream_proofs`) | `SessionIsSound` | thresholds and number of probes are positive: `CreateHealthCheckWithCallback` puts a default for a threshold of 0 (`healthcheck.go:138`) |
| `SessionsStaySound` (`McpSession`) | `SessionsAreSound` | IDs are numbers, perhaps infinitely many; the capacity is a natural number; `Idle` is neither an ID nor a flush |
| `SelectionStaysSound` (`McpRouter`) | `SelectionIsSound` | nothing: rules, workflows, tools and metadata are arbitrary |
| `PlansStaySound` (`McpRouter`) | `PlansAreSound` | `RouterAssumption` of `McpRouter`: `Allowed` gives every identity a set of tools, the bundles are sets of tools, the threshold is a natural number, `Nothing` is none of the values it stands beside |
| `FactoriesStaySound` (`Request_proofs`) | `FactoriesAreSound` | finitely many requests at a time; numbers are numbers; `Nothing` is no lease and no reload |
| `AnswersStaySound` (`Request_proofs`) | `AnswersAreSound` | `UnsetAssumption`: what a fresh context holds is neither MCP data nor the request it serves |
| `BreakerIsProbed` (`Request_proofs`) | `HalfOpenIsProbed`, a part of `KvCacheIsSound` | the threshold is positive, as `ApplyDefaults` makes it |
| `TokenCacheIsBounded` (`Request_proofs`) | `CounterFollowsTheMap` and `CacheIsBounded`, two parts of `KvCacheIsSound` | finitely many requests at a time; the bound is positive, zero being no bound |
| `ShutdownIsGraceful` (`Control_proofs`) | `NotCutOffEarly` | finitely many requests |
| `ChainsStaySound` (`Control_proofs`) | `ChainsAreSound`: three invariants and an action property | `ListenerAssumption`: finitely many listeners of the file and requests at a time, what is sent is a set of listeners, `NoId` is no number and no listener |
| `ReloadStaysSound` (`Control_proofs`) | `ReloadIsSound` | `ConfigAssumption`: what a configuration is |
| `CacheStaysSound` (`Control_proofs`) | `CacheIsSound` | nothing |
| `AdminStaysFollowed` (`Control_proofs`) | `AdminIsFollowed` | `NothingAssumption`: no snapshot is `Nothing` |
| `ProgrammedStaysTrue` (`Control_proofs`) | `ProgrammedIsTrue` | nothing |
| `RelayStaysSound` (`Grpc_proofs`) | `RelayIsSound` | `NobodyAssumption`: `Nothing` is no caller |
| `DescriptorsStaySound` (`Grpc_proofs`) | `DescriptorsAreSound`, a part of `GrpcHostsAreSound` | there is a connection to begin with |

`SessionStaysSound`, `SessionsStaySound`, `FactoriesStaySound`, `ShutdownIsGraceful`,
`DescriptorsStaySound` and the two about `KvCache` carry their assumptions as a hypothesis, most of them as an
operator (`Constants`, `KvConstants`) that the module of the run assumes, so TLC
evaluates it.

None of the invariants is inductive as it stands. What each proof adds:

* Route coordinator. `FollowsTimer`: the one awake goroutine has not read
  `rm.timer` yet or has read the current one, and the timer's channel is drained
  only after it received. `IdleIsPublished`: with no timer, the published snapshot
  is that of the edited list. An edit in the window between receive and lock
  re-arms a timer whose goroutine is already awake; that goroutine publishes
  everything edited up to the lock.
* Endpoint feed. For each key the consumer is right, or a pending event with a
  higher number corrects it and the one with the highest number says what the
  store says (`RightOrCorrected`, `IsLatest`).
* Cluster manager. `Matching`: the configurations and the map of runtimes are about
  the same names, identity by identity. `Owned`: xDS owns what it wrote last.
  `Objects`: a runtime object serves one name, or exactly one call that has
  unlocked is about to stop it, and nothing else runs. `Calls`: no two of those
  calls stop or announce the same thing. `CandidateFits`: a compare-and-set whose
  version is current was computed from the current store, which is why no write
  is lost. For the refinement, an action maps to the feed's change of the set of
  present keys with as many numbers as it changes keys, an announcement to a
  delivery, and all else to a stutter. The theorem about the feed then holds of
  the manager without another induction.
* Cluster runtime. What a pending compare-and-swap has computed is right for the
  snapshot it loaded, if that is still published (`FreshUpdate`, `FreshRefresh`);
  only the runtime that serves accepts verdicts, none while its successor is
  built (`OneRuntimeAccepts`); accepted verdicts are those shown (`Shows`).
* Health check. The newest check is the one that keeps a session going
  (`GoesOn`): its timer is armed, or its probe is on the way to a deadline, or its
  answer is handled, or some deadline is left. A probe stops the deadline of
  another only before it arms its own, so the last of them stays. A success
  counts once, because its probe is over (`Successes`).
* MCP sessions. A client learns an ID from one `initialize` (`Issued`); a session
  whose handler has run may still be activated when `Stop` overtakes its
  `initialize`, but then no request knows it (`Owned`). A flush that writes to a
  replaced stream will fail and must not be the only one: some *useful* flush is
  there (`Flushed`), and what a flush has read is not newer than what was sent
  when it marks it (`Told`).
* Filter factories. Reference counts are the number of leases (`RefsAreLeases`); a
  factory is in exactly one place, in use, retired, being built, waiting to be
  closed or closed (`OnePlace`, `SomePlace`); retired ones are leased
  (`LeasesKeep`).
* MCP answers. A context serves one request at a time, whatever the pool hands out
  (`OwnContext`); one that held no MCP data when the request got it holds none or
  that request's (`HoldsOwn`); and how far the chain is says whether the request was
  answered (`AnswerOK`), so no later phase answers it again.
* Circuit breaker. While the breaker is not closed, the failures that opened it are
  still counted, so the next failure of any call opens it again. A half open breaker
  thus loses its probe only in the step that leaves the state.
* Token cache. `RoomIsKept` counts a request that has seen room and not stored yet as
  if it had. One that sees room is itself neither storing nor about to count up,
  which leaves at most all the others (`RoomForOne`).
* Shutdown. A counting listener's counter is the number of requests past
  `AddActiveCount` (`Counts`), a draining listener refuses (`Refuses`), and what is
  left on one that is done is only what refuses itself (`Drained`). What `Stop` of a
  gRPC server finds before the time-out had passed the flag and was not counted when
  the wait ended (`Slips`).
* Listener transactions. The references of a chain are the requests that run on it, and
  the closed chains are the retired ones without any (`CountsOK`); a chain that is not
  retired is with a service, or with a transaction or a reload that will retire it
  (`ReachOK`). Only the service that its key has lets requests in, and what a
  transaction staged or removed is no key's (`ServicesOK`). `ServingOK` says, stage by
  stage, which listeners serve and which staged services have their socket, so that
  whatever stage refuses, what the rollback finds is enough. While no transaction
  commits, all listeners of xDS and all requests that were let in and have not taken
  their chain are of one generation (`OneGeneration`); the gate shuts only when there is
  no such request, which is why none of an older generation follows.
* Hot reload. A goroutine that never reloaded left its record alone (`Untouched`);
  while one goroutine does all the reloading, the clusters are those of the record
  it compares with, or of the new configuration once it is past them
  (`FollowsRecord`), and the listeners it is through with are refreshed and
  registered (`Refreshed`). After a refusal the record still differs from what was
  refused (`RefusalIsOpen`), so a retry sees the difference. With both goroutines
  at work none of this holds, and the property does not claim it.
* Aggregated stream. The candidate handed to the manager carries endpoints of the
  services that its own clusters refer to and of no other (`Candidate`); a commit
  takes over clusters and endpoints at once.
* Admin xDS. `ReadIsCurrent`: listeners and clusters are read one after the other,
  and an edit between the two reads has an event in the channel. `OnlyValid`: what
  is published, on its way or being applied was validated.
* Kubernetes controller. A reconcile that nothing has overtaken works on the objects
  as they are, and what it has written so far is its own content (`ReconcileOK`); the
  last report in the channel speaks of the ConfigMap (`ReportOK`); the hashes on the
  Deployment and on the pods are of contents that were published, so that a new
  content finds no pod that was made for it (`PodsOK`). The run has one edit, the
  theorem any number.
* gRPC relay. What each direction has read and not yet sent is one message at most
  (`UpInHand`, `DownInHand`); a half-close is the last thing sent (`EofIsLast`); the
  watcher ends for one of three reasons (`WatcherIsThrough`), and the downward
  direction ends with the caller told everything or of an error (`DownIsThrough`).
  With a watcher that was through in time (`~raced`) the error of a failed backend is
  the one that is left (`FailureIsKept`).
  For the pool: a connection that never broke is in it (`Pooled`), and who dials
  holds the mutex while the pool has none (`DialsAlone`).
* gRPC descriptors. `LookupsAreDated`: as long as the generation is the one a lookup
  read, its state is still that of its connection, and the connection was not removed
  since. A removal moves the generation of the state it takes away, so a lookup of
  another connection, whose state is another one, goes on undisturbed.
* MCP selection. No induction: `SelectForm` reduces stages and outcomes to a closed
  form, the tools that policy allows as far as they are in the workflow's and the
  gate's bundles, or in the fallback's when no workflow matches. The conditions of
  the property follow from it for any rules and metadata.
* MCP plans. `RequestOK` says what a request holds between two critical sections,
  `PlanOK` that the stored plan is of the catalog and identity its version names and
  was earned by calls that succeeded, `UpdateOK` that a generation stands for one
  plan. `ListIsFollowed`: the client was shown the stored plan, and the catalog still
  gives that plan or some update has yet to compare the two. An update takes its
  snapshot apart from applying its change, so a later update may see the catalog
  of an earlier one; the proof needs that step, and it is where the second half of
  `mcp_change` comes from.

Model-checked only:

* Liveness (`LastEditPublished`, `EventuallyNotified`, `Converges`, `CallsAreServed`
  and the registry properties): fairness and ENABLED are outside the prover.
* `BestIsFound`, `PicksAreSound`, `SlotsAreSound` and `ReflectionIsSound` compare an
  algorithm with a reference over all inputs of a bound; for all inputs that
  takes induction over lists and graphs, which the prover does not do. `Balancer`
  and `GrpcReflection` also use `RECURSIVE` operators.
* `ConnectionsAreSound` (also the eviction part of `GrpcHostsAreSound`), `FailoverIsSound`,
  `RoutesAreSound`, `DraftsAreSafe` and the hot-prompt part of `KvCacheIsSound`: the
  models filter and search sequences (`SelectSeq` and the like), whose laws need the
  same induction.
* `ReportsAreTrue` walks host names label by label, and `ApiIsSound` folds and sorts
  sequences of events: the same again.

## 5. Plan

Everything of the inventory that keeps state of its own has a module. What is
left is proof: the parts of `ConnectionsAreSound` of `GrpcConnectionManager` that do not
depend on the order of the tombstones.

## 6. Not modelled, and known limits

Protocol clients and servers, codecs and configuration parsing are I/O or
translation without shared state. Policy filters decide on one request.
Logging, metrics and tracing only write. Generated protobuf code has no logic.
The HTTP and Dubbo proxy filters translate one request at a time. Of the admin
console, accounts, plugins and the web interface are left out; of the
controllers, the field-by-field conversion; of the LLM filters, provider
formats and token counting.

Within modelled parts: late registration of a coordinator with the router
manager, the fan-out of two concurrent route edits, handler (un)registration of
the cluster manager, what a probe does on the wire, `UpsertXDSCluster` and
`RemoveEndpoint` (tests only), the logger's reloader. The cool-down store of
`LlmProxy` has room for one entry in its run, and `HotMax` of `KvCache` equals the
threshold of a hot prompt, below which no prompt would ever be hot; the code does
not require that of its configuration. `ConfiguredHasNode` of `ApiConfig` asks for a
node that was put into the trie at some time, not for one that still answers.

Exceptions. Where the code does not give what one would wish, the property names
the case and claims the rest.

* `RoutesAreUnique` (`LegacyResource`) is about the records and about what the gateway
  serves, which is a method at its *resource's* path (`discovery_service.go:154`).
  A write of a resource that compares nothing (`ModifyResourceInfo` with the path it
  read, overtaken by a move; a batch release over a method without a draft) parts
  the two. The checks compare the records' paths, so a further method can be
  published at the path where a parted one is served. `PartedBlindly` says that
  nothing else parts them.
* `RollbackRestores`: `saveDraft` commits and then reads the draft back
  (`route_binding.go:396`). A save of another client between the two is what the
  rollback then publishes, although the comment at `route_binding.go:1147` has the
  active runtime stay intact when a race is lost. Nothing else is published in its
  place. A rollback whose publication loses leaves the saved draft behind.
* `Converges` (`AdminXds`) leaves out listeners that the gateway could not put in
  place for a reason of its own machine, a port or a chain (`lds.go:154`): after the
  refusal the server has nothing more to send until there is another edit or stream.
* `CloudFollowsRegistry`: with no configured services and more registered than one
  page holds (10, `nacos.go:191`), the reconciliation drops those beyond it.
* `NacosIsServed` (`DubboNacos`): a report with an error, an instance without a usable
  URL and metadata that could not be read are made up for by the next report only,
  and an application's instance that leaves in such a report is never removed.
* `ApplicationIsRouted` (`DubboZk`) claims that providers are reached, not that they
  are forgotten: `DeleteNode` is called with /application/interface, while the APIs
  are at the methods below it, so nothing is removed, although the comments say
  that the API is disabled and all configuration of an interface deleted
  (`service_listener.go:129`, `application_service_listener.go:136`). Listeners that
  gave up, and providers that cannot be parsed, are left out.
* `McpIsPublished` (`McpRegistry`): listening to a version's tools that failed, a sink
  that could not be bound and a refused removal are not tried again; overlapping
  publications of one server are left out.
* `NotCutOffEarly` (`ListenerShutdown`): `Stop` of a gRPC server cuts off a request that
  passed the flag and was not yet counted when the listener found none to wait for
  (`grpc_listener.go:145`); a filter chain whose close fails ends the process.
* `ReloadIsSound` (`HotReload`): a poll whose route reload failed is recorded as applied
  (`hotreload.go:98`) and not repeated; and `CheckUpdate` sees no change of a timeout,
  a filter or a listener after the first (`route_reloader.go:39`).
* `ProgrammedIsTrue` (`GatewayController`): a pod that answers a reload with 200 may run
  anything. It was posted a cached copy and applied only the differences its
  reloaders see. Pods of this gateway refuse a caller without their token
  (`http_handler.go:65`) and leave the reload to the rollout, which is the case the
  property is about. Contents that were published before are left out as well.
* `ReportsAreTrue` (`GatewayStatus`): updates the updater dropped (`status.go:138`), and
  changes of a route's status, which no watch reports. Nothing in the repository
  writes that status, so without another writer the count of attached routes is
  zero. A listener whose certificate is missing is reported as programmed; the
  property says nothing of conditions.
* `FailureIsTold` (`GrpcRelay`): the watcher's `SetError` is unconditional
  (`context.go:53`). If it was not through when the two directions had ended, it may
  set nil over the error that `handleStream` drained, or set its error too late, and
  a failed call is answered with OK (`grpc_proxy_filter.go:275`).
* `ReflectionIsSound`: `InvalidateCache` takes out no entry and a call under way caches
  what it found, so after an invalidation entries of two registries may stand side
  by side until `ClearCache`. Nothing in the gateway calls these operations.
* `KeepsNewConnection` (`GrpcConnectionManager`): a stored connection goes with `Close`,
  with an event newer than any that was handled when it was stored, or with a caller
  that saw the address gone, as long as eviction has not forgotten the tombstone.
* `AnsweredOnce` (`HttpRequest`) leaves out contexts with earlier MCP data and a
  `tools/call` that was answered before the encode phase. A notification is accepted
  with an empty 202, and the backend's answer to a `tools/call` without an ID is
  passed on as it is.
* `ListenerManager` leaves out a port that a rollback cannot bind again, `McpRouter` the
  plans that slipped past a comparison (section 3).

Behaviour met while modelling that no property states:

* `AddCluster` under a name a registry created replaces the runtime and announces
  no removal of its addresses (`cluster_manager.go:142`).
* The negative answer of a probe and its deadline can both count, so fewer
  probes than the threshold may take an endpoint out (`healthcheck.go:304`).
* A `Get` that starts while a present event has unlocked and not yet removed the
  old connection returns that connection (`connection_manager.go:396`).
* A route reload clears coordinators and rebuilds them from the file, so routes
  of an adapter are gone until it adds them again (`route_reloader.go:74`).
