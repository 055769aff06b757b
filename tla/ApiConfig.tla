------------------------------- MODULE ApiConfig -------------------------------
(***************************************************************************)
(* The gateway's copy of the API configuration: the admin server writes    *)
(* runtime resources and methods to etcd; config.LoadAPIConfig reads them, *)
(* watches them and applies the events to apiConfig and, through the       *)
(* registered listener, to the trie that requests are matched against      *)
(* (config/api_config.go, filter/http/apiconfig, router/route.go,          *)
(* common/router/trie).  A dynamic filter has its trie filled by service   *)
(* registries instead (OnAddAPI, OnRemoveAPI).                             *)
(*                                                                         *)
(* A resource is its path, a method its verb; a route is both.  The admin  *)
(* server keeps routes unique (RoutesAreUnique of LegacyResource) and      *)
(* writes a resource before its methods.  Headers, nested resources and    *)
(* the parsing of keys and YAML are left out.                              *)
(***************************************************************************)
EXTENDS Naturals, SequencesExt, FiniteSets

CONSTANTS
    ResourceID, MethodID, Verb,
    LiteralPath,   \* paths whose last segment is literal
    VariablePath,  \* paths that end in a path variable
    URL,           \* upstream URLs that services register
    Within,        \* pairs <<u, w>>: the text of u is part of the text of w
    None,
    MaxWrites      \* bound: transactions of the admin server, calls of the registries

Path == LiteralPath \cup VariablePath
Route == Path \X Verb

VARIABLES
    etcd,       \* runtime keys: [res : ID -> path or None, meth : <<ID, method ID>> -> verb or None]
    conf,       \* apiConfig, in the same form
    trie,       \* route -> [node : none, live or removed, urls : the node's upstream list]
    listener,   \* is the config listener registered?
    watcher,    \* listenResourceAndMethodEvent: off, opening, waiting, handling, stopped
    response,   \* events of the response the open watch has, or that is being handled
    loader,     \* Apply: [at : down, loaded, loading, done, todo : resources to load, from : as read]
    crashed,    \* a nil listener was called
    unseen,     \* a write happened that no response of the watcher carries
    disturbed,  \* an event was applied while the initial resources were loaded
    registered, \* a dynamic filter's routes: route -> URLs services have registered
    writes

vars == <<etcd, conf, trie, listener, watcher, response, loader, crashed, unseen, disturbed,
          registered, writes>>

Config == [res : [ResourceID -> Path \cup {None}],
           meth : [ResourceID \X MethodID -> Verb \cup {None}]]
Empty == [res |-> [i \in ResourceID |-> None], meth |-> [k \in ResourceID \X MethodID |-> None]]

Methods(c, i) == {m \in MethodID : c.meth[<<i, m>>] # None}
RoutesOf(c, i) == IF c.res[i] = None THEN {} ELSE {<<c.res[i], c.meth[<<i, m>>]>> : m \in Methods(c, i)}
Routes(c) == UNION {RoutesOf(c, i) : i \in ResourceID}

-----------------------------------------------------------------------------
(***************************************************************************)
(* Route and trie.  Remove only clears endOfPath; a node keeps its data.   *)
(***************************************************************************)
\* getNode: a removed node is found again, unless it ends in a variable.
Found(t, r) ==
    \/ t[r].node = "live"
    \/ t[r].node = "removed" /\ r[1] \in LiteralPath

Put(t, r) == IF Found(t, r) THEN t ELSE [t EXCEPT ![r] = [node |-> "live", urls |-> << >>]]

\* Mutant: deleting leaves the route in place.
DeleteNothing(t, r) == t

DeleteAPI(t, r) == IF Found(t, r) THEN [t EXCEPT ![r].node = "removed"] ELSE t

\* Every route of a set is put, or deleted; the order does not matter.
PutAll(t, rs) == [r \in Route |-> IF r \in rs THEN Put(t, r)[r] ELSE t[r]]
DeleteAll(t, rs) == [r \in Route |-> IF r \in rs THEN DeleteAPI(t, r)[r] ELSE t[r]]

-----------------------------------------------------------------------------
(***************************************************************************)
(* The admin server's transactions, each with the events it causes.        *)
(***************************************************************************)
PutEvent(i, m, v) == [type |-> "put", res |-> i, method |-> m, val |-> v]
DeleteEvent(i, m) == [type |-> "delete", res |-> i, method |-> m, val |-> None]

\* Events for the resource, then for the methods ms of i in the order of their keys.
Events(i, ms, Event(_)) ==
    LET ids == <<0>> \o SetToSortSeq(ms, <) IN [n \in 1 .. Len(ids) |-> Event(ids[n])]

\* A watch is opened anew for every response, so what is written while none
\* is open, or after the response it is closed with, is not seen.
Deliver(events) ==
    CASE watcher = "off" -> UNCHANGED <<response, unseen>>
      [] watcher = "waiting" /\ response = << >> -> response' = events /\ UNCHANGED unseen
      [] OTHER -> unseen' = TRUE /\ UNCHANGED response

Write(c, events) ==
    /\ loader.at # "dynamic" /\ writes < MaxWrites
    /\ writes' = writes + 1
    /\ etcd' = c
    /\ Deliver(events)
    /\ UNCHANGED <<conf, trie, listener, watcher, loader, crashed, disturbed, registered>>

\* Resource i is published at p with method m; its other methods move along.
AdminPublish(i, p, m, v) ==
    LET c == [res |-> [etcd.res EXCEPT ![i] = p], meth |-> [etcd.meth EXCEPT ![<<i, m>>] = v]]
        written == IF etcd.res[i] = p THEN {m} ELSE Methods(c, i)
    IN
    /\ RoutesOf(c, i) \cap UNION {RoutesOf(etcd, j) : j \in ResourceID \ {i}} = {}
    /\ \A n \in Methods(etcd, i) \ {m} : etcd.meth[<<i, n>>] # v
    /\ Write(c, Events(i, written,
                 LAMBDA n : PutEvent(i, n, IF n = 0 THEN p ELSE c.meth[<<i, n>>])))

AdminDeleteMethod(i, m) ==
    /\ etcd.meth[<<i, m>>] # None
    /\ Write([etcd EXCEPT !.meth[<<i, m>>] = None], <<DeleteEvent(i, m)>>)

Without(c, i) ==
    [res |-> [c.res EXCEPT ![i] = None],
     meth |-> [k \in ResourceID \X MethodID |-> IF k[1] = i THEN None ELSE c.meth[k]]]

AdminDeleteResource(i) ==
    /\ etcd.res[i] # None
    /\ Write(Without(etcd, i), Events(i, Methods(etcd, i), LAMBDA n : DeleteEvent(i, n)))

-----------------------------------------------------------------------------
(***************************************************************************)
(* LoadAPIConfig, then InitAPIsFromConfig, beside the watching goroutine.  *)
(***************************************************************************)
LoadAPIConfig ==
    /\ loader.at = "down"
    /\ conf' = etcd
    /\ loader' = [at |-> "loaded", todo |-> {}, from |-> etcd]
    /\ watcher' = "opening"
    /\ UNCHANGED <<etcd, trie, listener, response, crashed, unseen, disturbed, registered, writes>>

\* No resources: the listener is never registered.
InitAPIsFromConfig ==
    LET ids == {i \in ResourceID : conf.res[i] # None} IN
    /\ loader.at = "loaded" /\ ~crashed
    /\ listener' = (ids # {})
    /\ loader' = [at |-> IF ids = {} THEN "done" ELSE "loading", todo |-> ids, from |-> conf]
    /\ UNCHANGED <<etcd, conf, trie, watcher, response, crashed, unseen, disturbed, registered, writes>>

\* The slice is shared with the watcher and not locked: a resource is loaded
\* as it was when the load began, or as an event has left it.
addAPIFromResource ==
    \E i \in loader.todo, c \in {loader.from, conf} :
        /\ loader.at = "loading" /\ ~crashed
        /\ trie' = PutAll(trie, RoutesOf(c, i))
        /\ loader' = [loader EXCEPT !.todo = @ \ {i}, !.at = IF @ = "loading" /\ loader.todo = {i}
                                                           THEN "done" ELSE @]
        /\ UNCHANGED <<etcd, conf, listener, watcher, response, crashed, unseen, disturbed, registered, writes>>

-----------------------------------------------------------------------------
(***************************************************************************)
(* listenResourceAndMethodEvent                                            *)
(***************************************************************************)
OpenWatch ==
    /\ watcher = "opening" /\ ~crashed
    /\ watcher' = "waiting"
    /\ UNCHANGED <<etcd, conf, trie, listener, response, loader, crashed, unseen, disturbed, registered, writes>>

ReceiveResponse ==
    /\ watcher = "waiting" /\ response # << >>
    /\ watcher' = "handling"
    /\ UNCHANGED <<etcd, conf, trie, listener, response, loader, crashed, unseen, disturbed, registered, writes>>

\* An error response opens the next watch; the events it stands for are gone.
WatchError ==
    /\ watcher = "waiting"
    /\ watcher' = "opening"
    /\ response' = << >>
    /\ unseen' = (unseen \/ response # << >>)
    /\ UNCHANGED <<etcd, conf, trie, listener, loader, crashed, disturbed, registered, writes>>

\* The watch cannot be opened, its channel is closed or the client stopped.
WatchEnds ==
    /\ watcher \in {"opening", "waiting"}
    /\ watcher' = "stopped"
    /\ response' = << >>
    /\ unseen' = (unseen \/ response # << >>)
    /\ UNCHANGED <<etcd, conf, trie, listener, loader, crashed, disturbed, registered, writes>>

\* What an event makes of apiConfig; one that finds nothing changes nothing.
Merged(e) ==
    LET i == e.res  m == e.method IN
    CASE m = 0 /\ e.type = "put" -> [conf EXCEPT !.res[i] = e.val]
      [] m = 0 /\ e.type = "delete" -> Without(conf, i)
      [] m # 0 /\ conf.res[i] # None -> [conf EXCEPT !.meth[<<i, m>>] = e.val]
      [] OTHER -> conf

Calls(e) == \/ e.type = "put" /\ (e.method = 0 \/ conf.res[e.res] # None)
            \/ e.type = "delete" /\ e.method = 0 /\ conf.res[e.res] # None
            \/ e.type = "delete" /\ e.method # 0 /\ conf.meth[<<e.res, e.method>>] # None

\* ResourceChange/Add/Delete take all the resource's routes away and put
\* them back; MethodChange/Add/Delete do so with the one method's route.
Notified(e) ==
    LET i == e.res  m == e.method
        one(c) == IF c.res[i] # None /\ c.meth[<<i, m>>] # None THEN {<<c.res[i], c.meth[<<i, m>>]>>} ELSE {}
    IN  IF m = 0 THEN PutAll(DeleteAll(trie, RoutesOf(conf, i)), RoutesOf(Merged(e), i))
                 ELSE PutAll(DeleteAll(trie, one(conf)), one(Merged(e)))

\* handlePutEvent and handleDeleteEvent, under the config lock.
HandleEvent ==
    LET e == Head(response) IN
    /\ watcher = "handling" /\ ~crashed
    /\ conf' = Merged(e)
    /\ crashed' = (Calls(e) /\ ~listener)
    /\ trie' = IF listener THEN Notified(e) ELSE trie
    /\ disturbed' = (disturbed \/ loader.at = "loading")
    /\ response' = Tail(response)
    /\ watcher' = IF Tail(response) = << >> THEN "opening" ELSE "handling"
    /\ UNCHANGED <<etcd, listener, loader, unseen, registered, writes>>

-----------------------------------------------------------------------------
(***************************************************************************)
(* A dynamic filter.  The services behind a route are the comma-separated  *)
(* URL of its method.                                                      *)
(***************************************************************************)
\* strings.Contains of the joined list.
Mentions(urls, u) == \E n \in 1 .. Len(urls) : urls[n] = u \/ <<u, urls[n]>> \in Within

PutOrUpdateAPI(r, u) ==
    /\ loader.at = "dynamic" /\ writes < MaxWrites
    /\ writes' = writes + 1
    /\ registered' = [registered EXCEPT ![r] = @ \cup {u}]
    /\ trie' = IF ~Found(trie, r) THEN [trie EXCEPT ![r] = [node |-> "live", urls |-> <<u>>]]
               ELSE IF Mentions(trie[r].urls, u) THEN trie
               ELSE [trie EXCEPT ![r].urls = Append(@, u)]
    /\ UNCHANGED <<etcd, conf, listener, watcher, response, loader, crashed, unseen, disturbed>>

RemovedFrom(t, r, u) ==
    LET urls == t[r].urls IN
    CASE ~Found(t, r) -> t
      [] Found(t, r) /\ Len(urls) > 1 -> [t EXCEPT ![r].urls = SelectSeq(@, LAMBDA w : w # u)]
      [] OTHER -> IF Mentions(urls, u) THEN [t EXCEPT ![r].node = "removed"] ELSE t

RemoveAPI(r, u) ==
    /\ u \in registered[r]
    /\ registered' = [registered EXCEPT ![r] = @ \ {u}]
    /\ trie' = RemovedFrom(trie, r, u)
    /\ UNCHANGED <<etcd, conf, listener, watcher, response, loader, crashed, unseen, disturbed, writes>>

-----------------------------------------------------------------------------
Init ==
    /\ etcd = Empty /\ conf = Empty
    /\ trie = [r \in Route |-> [node |-> "none", urls |-> << >>]]
    /\ listener = FALSE /\ watcher = "off" /\ response = << >>
    /\ \E at \in {"down", "dynamic"} : loader = [at |-> at, todo |-> {}, from |-> Empty]
    /\ crashed = FALSE /\ unseen = FALSE /\ disturbed = FALSE
    /\ registered = [r \in Route |-> {}]
    /\ writes = 0

Next ==
    \/ \E i \in ResourceID, m \in MethodID :
          AdminDeleteMethod(i, m) \/ \E p \in Path, v \in Verb : AdminPublish(i, p, m, v)
    \/ \E i \in ResourceID : AdminDeleteResource(i)
    \/ LoadAPIConfig \/ InitAPIsFromConfig \/ addAPIFromResource
    \/ OpenWatch \/ ReceiveResponse \/ WatchError \/ WatchEnds \/ HandleEvent
    \/ \E r \in Route, u \in URL : PutOrUpdateAPI(r, u) \/ RemoveAPI(r, u)

Spec == Init /\ [][Next]_vars

-----------------------------------------------------------------------------
TypeOK ==
    /\ etcd \in Config /\ conf \in Config
    /\ \A r \in Route : trie[r].node \in {"none", "live", "removed"} /\ trie[r].urls \in Seq(URL)
    /\ watcher \in {"off", "opening", "waiting", "handling", "stopped"}
    /\ watcher = "handling" => response # << >>
    /\ loader.at \in {"down", "loaded", "loading", "done", "dynamic"}
    /\ {listener, crashed, unseen, disturbed} \subseteq BOOLEAN
    /\ writes \in 0 .. MaxWrites

(***************************************************************************)
(* Unless a write fell into a gap between two watches, the gateway's       *)
(* configuration is that of etcd once the events at hand are applied, in   *)
(* whatever pieces the transactions arrive.                                *)
(***************************************************************************)
ConfigFollowsEtcd ==
    (watcher \in {"opening", "waiting", "stopped"} /\ response = << >> /\ ~unseen /\ ~crashed)
        => conf = etcd

(***************************************************************************)
(* A gateway that loaded its routes undisturbed matches requests only to   *)
(* routes that its configuration has: no change of a path or a verb and no *)
(* delete leaves a route behind.                                           *)
(***************************************************************************)
ServedOnlyConfigured ==
    (loader.at = "done" /\ listener /\ ~disturbed /\ ~crashed) =>
        \A r \in Route : trie[r].node = "live" => r \in Routes(conf)

(***************************************************************************)
(* Every configured route was put into the trie at some time.              *)
(***************************************************************************)
ConfiguredHasNode ==
    (loader.at = "done" /\ listener /\ ~disturbed /\ ~crashed) =>
        \A r \in Routes(conf) : trie[r].node # "none"

(***************************************************************************)
(* A dynamic filter sends a request only to services that are registered   *)
(* for its route.                                                          *)
(***************************************************************************)
ServedOnlyRegistered ==
    loader.at = "dynamic" =>
        \A r \in Route : trie[r].node = "live" => ToSet(trie[r].urls) \subseteq registered[r]

\* The routes that requests are matched to are the configured ones.
ApiIsSound ==
    TypeOK /\ ConfigFollowsEtcd /\ ServedOnlyConfigured /\ ConfiguredHasNode /\ ServedOnlyRegistered
=============================================================================
