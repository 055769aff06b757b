-------------------------------- MODULE AdminXds --------------------------------
(***************************************************************************)
(* From an admin's edit to a gateway's runtime: clusters and listeners     *)
(* written to etcd (admin/logic/logic.go), the admin server that watches   *)
(* etcd and publishes snapshots (admin/core/xds.go, admin/xds), and the    *)
(* gateway's delta clients for clusters and listeners (pkg/config/xds:     *)
(* apiclient/grpc.go, cds.go, lds.go).                                     *)
(*                                                                         *)
(* A key is one cluster or listener.  Its value is good or bad: bad is     *)
(* what the snapshot builder refuses (an empty name, a duplicate, an       *)
(* invalid address).  A gateway refuses a key of Conflict, a name it owns  *)
(* by its file, and listeners whose address it cannot bind or whose chain  *)
(* it cannot make.  The snapshot cache and the discovery server are the    *)
(* go-control-plane library's: it gives a resource the hash of its content *)
(* as version, sends it when it differs from what the client has, and      *)
(* sends nothing again after a refusal.                                    *)
(***************************************************************************)
EXTENDS Naturals, Sequences

CONSTANTS
    Type, Key, TypeOf, \* TypeOf: Key -> Type
    HasPrefix,         \* HasPrefix[k]: keys that begin with the characters of k, k itself included
    Conflict,
    Nothing,
    MaxWrites, MaxBreaks

\* No snapshot is Nothing.
ASSUME NothingAssumption == Nothing \notin [Type -> SUBSET (Key \X {"good", "bad"})]

VARIABLES
    store,     \* etcd: Key -> {good, bad, Nothing}
    events,    \* events in the watch channel
    loop,      \* watchConfigWithRetry: open, listeners, clusters or wait
    loaded,    \* the listeners a build has read
    retrying,  \* consumeConfigWatch's pending
    published, \* the snapshot in the cache: Type -> content, or Nothing
    streams,   \* per client: its stream is up
    known,     \* per client: what the server believes it has
    inboxes,   \* per client: contents sent and not yet received
    applying,  \* per client: the content handed to the manager, or Nothing
    deltaVersion, \* per client: the version it announces
    runtimes,  \* per type: the content the gateway runs with
    unplaced,  \* per client: what the gateway failed to put in place on this stream, or Nothing
    writes, breaks

watchVars == <<events, loop, loaded, retrying, published>>
clientVars == <<streams, known, inboxes, applying, deltaVersion, runtimes, unplaced>>
adminVars == <<store, watchVars, clientVars, writes, breaks>>

Content(s, type) == {<<k, s[k]>> : k \in {j \in Key : TypeOf[j] = type /\ s[j] # Nothing}}
Bad(content) == \E e \in content : e[2] = "bad"

\* What the gateway refuses of a type: a cluster or a listener that clashes
\* with one of its own file.  setupCluster and setupListeners take all or none.
setupCluster(content) == \A e \in content : e[1] \notin Conflict
setupListeners(content) == \A e \in content : e[1] \notin Conflict
Refused(t, content) ==
    IF t = "clusters" THEN ~setupCluster(content) ELSE ~setupListeners(content)

AdminFault == breaks < MaxBreaks /\ breaks' = breaks + 1

-----------------------------------------------------------------------------
(***************************************************************************)
(* The admin's edits.  Every write is an event for a watch that is open.   *)
(***************************************************************************)
Writes(s) ==
    /\ writes < MaxWrites
    /\ store' = s
    /\ writes' = writes + 1
    /\ events' = IF loop = "open" THEN 0 ELSE events + 1
    /\ UNCHANGED <<loop, loaded, retrying, published, clientVars, breaks>>

\* BizCreateCluster takes a new ID and BizCreateListener a new name.
BizCreate(k, value) == store[k] = Nothing /\ Writes([store EXCEPT ![k] = value])

BizUpdate(k, value) == store[k] \notin {Nothing, value} /\ Writes([store EXCEPT ![k] = value])

\* BizDeleteCluster and BizDeleteListener delete by prefix.
BizDelete(k) ==
    /\ store[k] # Nothing
    /\ Writes([j \in Key |-> IF j \in HasPrefix[k] THEN Nothing ELSE store[j]])

-----------------------------------------------------------------------------
(***************************************************************************)
(* The admin's server                                                      *)
(***************************************************************************)
\* WatchWithPrefix succeeds; the first build follows.
OpenWatch ==
    /\ loop = "open"
    /\ loop' = "listeners" /\ retrying' = FALSE
    /\ UNCHANGED <<store, events, loaded, published, clientVars, writes, breaks>>

LoadListeners ==
    /\ loop = "listeners"
    /\ loop' = "clusters"
    /\ loaded' = Content(store, "listeners")
    /\ UNCHANGED <<store, events, retrying, published, clientVars, writes, breaks>>

\* Mutant: the events that came during the build are taken to be part of it.
PublishThenDrain ==
    LET candidate == [t \in Type |-> IF t = "listeners" THEN loaded ELSE Content(store, t)]
        valid == \A t \in Type : ~Bad(candidate[t])
    IN
    /\ loop = "clusters"
    /\ loop' = "wait" /\ events' = 0
    /\ published' = IF valid THEN candidate ELSE published
    /\ retrying' = ~valid
    /\ UNCHANGED <<store, loaded, clientVars, writes, breaks>>

\* LoadClusters, validation and SetSnapshot; what fails is tried again later.
SetSnapshot ==
    LET candidate == [t \in Type |-> IF t = "listeners" THEN loaded ELSE Content(store, t)]
        valid == \A t \in Type : ~Bad(candidate[t])
    IN
    /\ loop = "clusters"
    /\ loop' = "wait"
    /\ published' = IF valid THEN candidate ELSE published
    /\ retrying' = ~valid
    /\ UNCHANGED <<store, events, loaded, clientVars, writes, breaks>>

\* etcd does not answer a read.
LoadFails ==
    /\ loop \in {"listeners", "clusters"} /\ AdminFault
    /\ loop' = "wait" /\ retrying' = TRUE
    /\ UNCHANGED <<store, events, loaded, published, clientVars, writes>>

\* The ticker; without events a build of the same bad data would fail again.
Retry ==
    /\ loop = "wait" /\ retrying
    /\ loop' = "listeners"
    /\ UNCHANGED <<store, events, loaded, retrying, published, clientVars, writes, breaks>>

\* A response with all events so far.
WatchResponse ==
    /\ loop = "wait" /\ events > 0
    /\ events' = 0
    /\ loop' = "listeners"
    /\ UNCHANGED <<store, loaded, retrying, published, clientVars, writes, breaks>>

\* The channel is closed or cancelled: the loop opens another watch.
WatchBreaks ==
    /\ loop = "wait" /\ AdminFault
    /\ loop' = "open" /\ events' = 0
    /\ UNCHANGED <<store, loaded, retrying, published, clientVars, writes>>

\* The admin restarts with an empty cache.
AdminRestarts ==
    /\ AdminFault
    /\ loop' = "open" /\ events' = 0 /\ retrying' = FALSE /\ published' = Nothing
    /\ streams' = [t \in Type |-> FALSE] /\ inboxes' = [t \in Type |-> <<>>]
    /\ UNCHANGED <<store, loaded, known, applying, deltaVersion, runtimes, unplaced, writes>>

\* The discovery server sends a resource the client does not have.
Respond(t) ==
    /\ streams[t] /\ published # Nothing /\ known[t] # published[t]
    /\ inboxes' = [inboxes EXCEPT ![t] = Append(@, published[t])]
    /\ known' = [known EXCEPT ![t] = published[t]]
    /\ UNCHANGED <<store, watchVars, streams, applying, deltaVersion, runtimes, unplaced, writes, breaks>>

-----------------------------------------------------------------------------
(***************************************************************************)
(* The gateway's clients                                                   *)
(***************************************************************************)
\* connectDelta: the first request names the accepted version.
connectDelta(t) ==
    /\ ~streams[t] /\ applying[t] = Nothing
    /\ streams' = [streams EXCEPT ![t] = TRUE]
    /\ known' = [known EXCEPT ![t] = deltaVersion[t]]
    /\ unplaced' = [unplaced EXCEPT ![t] = Nothing]
    /\ UNCHANGED <<store, watchVars, inboxes, applying, deltaVersion, runtimes, writes, breaks>>

DeltaBreaks(t) ==
    /\ streams[t] /\ AdminFault
    /\ streams' = [streams EXCEPT ![t] = FALSE]
    /\ inboxes' = [inboxes EXCEPT ![t] = <<>>]
    /\ UNCHANGED <<store, watchVars, known, applying, deltaVersion, runtimes, unplaced, writes>>

\* consumeDeltaStream hands a response to the manager and waits.
Receive(t) ==
    /\ streams[t] /\ inboxes[t] # <<>> /\ applying[t] = Nothing
    /\ applying' = [applying EXCEPT ![t] = Head(inboxes[t])]
    /\ inboxes' = [inboxes EXCEPT ![t] = Tail(@)]
    /\ UNCHANGED <<store, watchVars, streams, known, deltaVersion, runtimes, unplaced, writes, breaks>>

\* applyDelta replaces everything or nothing; acceptDeltaResources, and the answer.
\* The stream may be gone by then: the version counts all the same.
applyDelta(t) ==
    LET ok == ~Refused(t, applying[t]) IN
    /\ applying[t] # Nothing
    /\ runtimes' = IF ok THEN [runtimes EXCEPT ![t] = applying[t]] ELSE runtimes
    /\ deltaVersion' = IF ok THEN [deltaVersion EXCEPT ![t] = applying[t]] ELSE deltaVersion
    /\ applying' = [applying EXCEPT ![t] = Nothing]
    /\ unplaced' = [unplaced EXCEPT ![t] = Nothing]
    /\ UNCHANGED <<store, watchVars, streams, known, inboxes, writes, breaks>>

\* ReplaceXDSListeners: a port is taken or a chain cannot be made, all listeners stay
\* as they were, and the answer is a refusal.
ReplaceFails(t) ==
    /\ applying[t] # Nothing /\ t = "listeners" /\ AdminFault
    /\ applying' = [applying EXCEPT ![t] = Nothing]
    /\ unplaced' = [unplaced EXCEPT ![t] = applying[t]]
    /\ UNCHANGED <<store, watchVars, streams, known, inboxes, deltaVersion, runtimes, writes>>

-----------------------------------------------------------------------------
AdminInit ==
    /\ store = [k \in Key |-> Nothing]
    /\ events = 0 /\ loop = "open" /\ loaded = {} /\ retrying = FALSE /\ published = Nothing
    /\ streams = [t \in Type |-> FALSE] /\ known = [t \in Type |-> Nothing]
    /\ inboxes = [t \in Type |-> <<>>] /\ applying = [t \in Type |-> Nothing]
    /\ deltaVersion = [t \in Type |-> Nothing] /\ runtimes = [t \in Type |-> {}]
    /\ unplaced = [t \in Type |-> Nothing]
    /\ writes = 0 /\ breaks = 0

ServerStep == OpenWatch \/ LoadListeners \/ SetSnapshot \/ Retry \/ WatchResponse
ClientStep(t) == Respond(t) \/ connectDelta(t) \/ Receive(t) \/ applyDelta(t)

AdminNext ==
    \/ \E k \in Key : BizDelete(k) \/ \E value \in {"good", "bad"} : BizCreate(k, value) \/ BizUpdate(k, value)
    \/ ServerStep \/ LoadFails \/ WatchBreaks \/ AdminRestarts
    \/ \E t \in Type : ClientStep(t) \/ DeltaBreaks(t) \/ ReplaceFails(t)

\* Goroutines are scheduled, timers fire, and what was sent arrives unless the stream breaks.
AdminFairness == WF_adminVars(ServerStep) /\ \A t \in Type : WF_adminVars(ClientStep(t))

AdminSpec == AdminInit /\ [][AdminNext]_adminVars /\ AdminFairness

-----------------------------------------------------------------------------
(***************************************************************************)
(* An edit is not forgotten: while the published snapshot differs from     *)
(* etcd, the server is building, has an event to read, will retry, or will *)
(* open a new watch and build - though listeners and clusters are read     *)
(* apart and edits fall in between.                                        *)
(***************************************************************************)
NothingForgotten ==
    (loop = "wait" /\ events = 0 /\ ~retrying) =>
        published # Nothing /\ \A t \in Type : published[t] = Content(store, t)

(***************************************************************************)
(* What a client announces when it connects is what the gateway runs with, *)
(* through refusals and broken streams.                                    *)
(***************************************************************************)
AnnouncedIsApplied == \A t \in Type : deltaVersion[t] # Nothing => runtimes[t] = deltaVersion[t]

(***************************************************************************)
(* A gateway never runs with data the snapshot builder refuses, and keeps  *)
(* the last good data when a candidate fails.                              *)
(***************************************************************************)
RuntimeIsValid == \A t \in Type : ~Bad(runtimes[t]) /\ ~Refused(t, runtimes[t])

(***************************************************************************)
(* In the end the gateway runs with what etcd holds, if that is valid.     *)
(* The exception is what it failed to put in place for a reason of its own *)
(* machine: the server has sent it and sends it again only on a new stream *)
(* or after another edit, so until then the gateway stays behind.          *)
(***************************************************************************)
AdminConverges ==
    <>[](\/ \E t \in Type : Bad(Content(store, t)) \/ Refused(t, Content(store, t))
         \/ \A t \in Type : runtimes[t] = Content(store, t)
                           \/ (streams[t] /\ unplaced[t] = Content(store, t)))

\* No edit falls between the watch, the snapshot and the stream, and what the
\* client acknowledged is what the gateway runs with.
AdminIsFollowed == NothingForgotten /\ AnnouncedIsApplied /\ RuntimeIsValid
=============================================================================
