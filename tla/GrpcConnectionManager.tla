------------------------ MODULE GrpcConnectionManager ------------------------
(***************************************************************************)
(* The connection manager of the HTTP gRPC proxy filter                    *)
(* (pkg/filter/http/grpcproxy/connection_manager.go): one connection per   *)
(* endpoint address, shared by requests, dialed on demand through a        *)
(* singleflight group and dropped when the cluster manager announces that  *)
(* the address is gone.                                                    *)
(*                                                                         *)
(* The cluster manager is the one EndpointFeed describes: it changes the   *)
(* set of live addresses, numbers the change and runs the callback later,  *)
(* in any order.  HasEndpointAddress reads the set itself.                 *)
(*                                                                         *)
(* A step is one critical section of m.mu, one sync.Map operation or one   *)
(* presence check.  remove() is one step: nobody else can use the          *)
(* connection between its CompareAndDelete and its Close.                  *)
(***************************************************************************)
EXTENDS Naturals, SequencesExt

CONSTANTS
    Key,            \* connection keys: an address within a cluster
    Getter,         \* calls of Get, with the goroutines a canceled one leaves
    Conn,           \* *grpc.ClientConn objects, used again once unreferenced
    NoConn,
    MaxTombstones,  \* maxEndpointTombstones
    MaxEvents       \* bound: changes of the set of live addresses

ASSUME ConnectionAssumption ==
    /\ NoConn \notin Conn
    /\ MaxTombstones \in Nat
    /\ MaxEvents \in Nat

VARIABLES
    present, eventID, pending,  \* the cluster manager, as in EndpointFeed
    connections,   \* the sync.Map
    since,         \* auxiliary: endpointEventVers when the stored connection was stored
    open,          \* connections dialed and not closed
    closed,
    generations,   \* endpointGenerations
    eventVers,     \* endpointEventVers
    refs,          \* endpointRefs
    removed,       \* endpointRemoved, the keys mapped to true
    tombstones,    \* tombstoneOrder, newest first
    getters,       \* progress of the calls of Get
    flights,       \* creates: the running singleflight functions
    updates        \* UpdateEndpointState past its critical section

feedVars == <<present, eventID, pending>>
mapVars == <<connections, since, open>>
stateVars == <<closed, generations, eventVers, refs, removed, tombstones>>
vars == <<feedVars, mapVars, stateVars, getters, flights, updates>>

Idle == [pc |-> "idle"]

-----------------------------------------------------------------------------
Fresh == [k \in Key |-> 0]

Init ==
    /\ present \in SUBSET Key
    /\ eventID = 0
    /\ pending = {}
    /\ connections = [k \in Key |-> NoConn]
    /\ since = Fresh
    /\ open = {}
    /\ closed = FALSE
    /\ generations = Fresh
    /\ eventVers = Fresh
    /\ refs = Fresh
    /\ removed = {}
    /\ tombstones = <<>>
    /\ getters = [g \in Getter |-> Idle]
    /\ flights = {}
    /\ updates = {}

HasConnection(k) == connections[k] # NoConn

\* isHealthy: a ClientConn is Shutdown once it is closed, and only then.
Healthy(c) == c \in open

\* remove: takes the connection out and closes it if it is still the one there.
Removes(k, c) ==
    IF connections[k] = c
    THEN /\ connections' = [connections EXCEPT ![k] = NoConn]
         /\ open' = open \ {c}
         /\ UNCHANGED since
    ELSE UNCHANGED mapVars

Forget(f, ks) == [k \in Key |-> IF k \in ks THEN 0 ELSE f[k]]

(***************************************************************************)
(* rememberEndpointTombstoneLocked: k becomes the newest tombstone; above  *)
(* the limit the oldest ones without callers or connection are evicted,    *)
(* and with a tombstone all that is known of its key.                      *)
(***************************************************************************)
Remember(k, callers) ==
    LET known == k \in Range(tombstones)
        order == <<k>> \o SelectSeq(tombstones, LAMBDA t : t # k)
        evictable == SelectSeq(order, LAMBDA t : callers[t] = 0 /\ ~HasConnection(t))
        keep == IF known \/ Len(order) <= MaxTombstones THEN Len(evictable)
                ELSE Max({0, Len(evictable) - (Len(order) - MaxTombstones)})
        evicted == {evictable[i] : i \in keep + 1 .. Len(evictable)}
    IN  /\ tombstones' = SelectSeq(order, LAMBDA t : t \notin evicted)
        /\ generations' = Forget(generations, evicted)
        /\ eventVers' = Forget(eventVers, evicted)
        /\ removed' = removed \ evicted

\* discardEndpointStateLocked.
DiscardState(k) ==
    /\ tombstones' = SelectSeq(tombstones, LAMBDA t : t # k)
    /\ generations' = Forget(generations, {k})
    /\ eventVers' = Forget(eventVers, {k})
    /\ removed' = removed \ {k}

-----------------------------------------------------------------------------
(***************************************************************************)
(* Get, up to the singleflight call.  loadHealthy reads endpointRemoved    *)
(* ("load") and then the map ("map"); a hit is checked against the cluster *)
(* manager again ("hit") and dropped if the address is gone ("drop").      *)
(***************************************************************************)
At(g, pc) == getters[g].pc = pc

Goto(g, pc) == getters' = [getters EXCEPT ![g].pc = pc]

Return(g) == getters' = [getters EXCEPT ![g] = Idle]

Get(g, k) ==
    /\ At(g, "idle")
    /\ k \in present
    /\ getters' = [getters EXCEPT ![g] = [pc |-> "load", key |-> k, conn |-> NoConn, gen |-> 0]]
    /\ UNCHANGED <<feedVars, mapVars, stateVars, flights, updates>>

LoadHealthy(g) ==
    /\ At(g, "load")
    /\ Goto(g, IF getters[g].key \in removed THEN "pin" ELSE "map")
    /\ UNCHANGED <<feedVars, mapVars, stateVars, flights, updates>>

\* A connection that is not healthy is removed on the way.
LoadConnection(g) ==
    LET k == getters[g].key
        c == connections[k]
    IN
    /\ At(g, "map")
    /\ IF Healthy(c)
       THEN getters' = [getters EXCEPT ![g].pc = "hit", ![g].conn = c] /\ UNCHANGED mapVars
       ELSE Goto(g, "pin") /\ Removes(k, c)
    /\ UNCHANGED <<feedVars, stateVars, flights, updates>>

ReturnHit(g) ==
    /\ At(g, "hit")
    /\ IF getters[g].key \in present THEN Return(g) ELSE Goto(g, "drop")
    /\ UNCHANGED <<feedVars, mapVars, stateVars, flights, updates>>

DropHit(g) ==
    /\ At(g, "drop")
    /\ Removes(getters[g].key, getters[g].conn)
    /\ Return(g)
    /\ UNCHANGED <<feedVars, stateVars, flights, updates>>

pinEndpoint(g) ==
    LET k == getters[g].key IN
    /\ At(g, "pin")
    /\ IF closed \/ k \in removed
       THEN Return(g) /\ UNCHANGED refs
       ELSE /\ refs' = [refs EXCEPT ![k] = @ + 1]
            /\ getters' = [getters EXCEPT ![g].pc = "join", ![g].gen = generations[k]]
    /\ UNCHANGED <<feedVars, mapVars, closed, generations, eventVers, removed, tombstones,
                   flights, updates>>

\* DoChan: joins the function running for the key and generation or starts it.
DoChan(g) ==
    LET k == getters[g].key
        gen == getters[g].gen
        new == [key |-> k, gen |-> gen, pc |-> "present", conn |-> NoConn]
    IN
    /\ At(g, "join")
    /\ Goto(g, "wait")
    /\ flights' = IF \E f \in flights : f.key = k /\ f.gen = gen THEN flights
                                                                 ELSE flights \cup {new}
    /\ UNCHANGED <<feedVars, mapVars, stateVars, updates>>

-----------------------------------------------------------------------------
(***************************************************************************)
(* The function singleflight runs.  Whatever its result, every caller      *)
(* waiting for it is released at once.                                     *)
(***************************************************************************)
Step(f, pc) == flights' = (flights \ {f}) \cup {[f EXCEPT !.pc = pc]} /\ UNCHANGED getters

Holds(f, pc, c) == /\ flights' = (flights \ {f}) \cup {[f EXCEPT !.pc = pc, !.conn = c]}
                   /\ UNCHANGED getters

Finish(f) ==
    /\ flights' = flights \ {f}
    /\ getters' = [g \in Getter |->
                     IF At(g, "wait") /\ getters[g].key = f.key /\ getters[g].gen = f.gen
                     THEN [getters[g] EXCEPT !.pc = "unpin"] ELSE getters[g]]

CheckPresent(f) ==
    /\ f.pc = "present"
    /\ IF f.key \in present THEN Step(f, "current") ELSE Finish(f)
    /\ UNCHANGED <<feedVars, mapVars, stateVars, updates>>

CheckCurrent(f) ==
    /\ f.pc = "current"
    /\ IF f.key \in removed \/ generations[f.key] # f.gen THEN Finish(f) ELSE Step(f, "load")
    /\ UNCHANGED <<feedVars, mapVars, stateVars, updates>>

ReloadHealthy(f) ==
    /\ f.pc = "load"
    /\ Step(f, IF f.key \in removed THEN "open" ELSE "map")
    /\ UNCHANGED <<feedVars, mapVars, stateVars, updates>>

ReloadConnection(f) ==
    LET c == connections[f.key] IN
    /\ f.pc = "map"
    /\ IF Healthy(c) THEN Holds(f, "hit", c) /\ UNCHANGED mapVars
                     ELSE Step(f, "open") /\ Removes(f.key, c)
    /\ UNCHANGED <<feedVars, stateVars, updates>>

FlightHit(f) ==
    /\ f.pc = "hit"
    /\ IF f.key \in present THEN Finish(f) ELSE Step(f, "drop")
    /\ UNCHANGED <<feedVars, mapVars, stateVars, updates>>

FlightDrops(f) ==
    /\ f.pc = "drop"
    /\ Removes(f.key, f.conn)
    /\ Finish(f)
    /\ UNCHANGED <<feedVars, stateVars, updates>>

CheckClosed(f) ==
    /\ f.pc = "open"
    /\ IF closed THEN Finish(f) ELSE Step(f, "dial")
    /\ UNCHANGED <<feedVars, mapVars, stateVars, updates>>

\* Connections somebody still has a pointer to.
Referenced == open \cup {f.conn : f \in flights} \cup {u.conn : u \in updates}
                   \cup {getters[g].conn : g \in {h \in Getter : ~At(h, "idle")}}

Dial(f) ==
    /\ f.pc = "dial"
    /\ \/ Finish(f) /\ UNCHANGED open   \* the dial failed
       \/ \E c \in Conn \ Referenced :
             /\ c = CHOOSE d \in Conn \ Referenced : TRUE
             /\ Holds(f, "store", c)
             /\ open' = open \cup {c}
    /\ UNCHANGED <<feedVars, connections, since, stateVars, updates>>

\* A connection dialed for another generation is closed, not stored.
Store(f) ==
    /\ f.pc = "store"
    /\ IF closed \/ f.key \in removed \/ generations[f.key] # f.gen
       THEN open' = open \ {f.conn} /\ Finish(f) /\ UNCHANGED <<connections, since>>
       ELSE /\ connections' = [connections EXCEPT ![f.key] = f.conn]
            /\ since' = [since EXCEPT ![f.key] = eventVers[f.key]]
            /\ Step(f, "stored")
            /\ UNCHANGED open
    /\ UNCHANGED <<feedVars, stateVars, updates>>

CheckStored(f) ==
    /\ f.pc = "stored"
    /\ IF f.key \in present THEN Finish(f) ELSE Step(f, "undo")
    /\ UNCHANGED <<feedVars, mapVars, stateVars, updates>>

\* remove, and Close if somebody else had taken it out.
Undo(f) ==
    /\ f.pc = "undo"
    /\ connections' = [connections EXCEPT ![f.key] = IF @ = f.conn THEN NoConn ELSE @]
    /\ open' = open \ {f.conn}
    /\ Finish(f)
    /\ UNCHANGED <<feedVars, since, stateVars, updates>>

unpinEndpoint(g) ==
    LET k == getters[g].key IN
    /\ At(g, "unpin")
    /\ refs' = [refs EXCEPT ![k] = IF @ = 0 THEN 0 ELSE @ - 1]
    /\ IF refs[k] > 1 \/ HasConnection(k)
       THEN UNCHANGED <<generations, eventVers, removed, tombstones>>
       ELSE IF k \in removed THEN Remember(k, refs')
       ELSE IF eventVers[k] = 0 THEN DiscardState(k)
       ELSE UNCHANGED <<generations, eventVers, removed, tombstones>>
    /\ Return(g)
    /\ UNCHANGED <<feedVars, mapVars, closed, flights, updates>>

-----------------------------------------------------------------------------
(***************************************************************************)
(* Endpoint lifecycle.                                                     *)
(***************************************************************************)
Feed == INSTANCE EndpointFeed WITH seen <- eventVers, view <- Key \ removed

StoreChange(new) ==
    /\ eventID < MaxEvents
    /\ eventID' = eventID + 1
    /\ present' = new
    /\ pending' = pending \cup Feed!Changes(present, new, eventID + 1)
    /\ UNCHANGED <<mapVars, stateVars, getters, flights, updates>>

\* Mutant: only the event of an endpoint that is back looks for an old connection.
OwesForAdditions(e) ==
    LET u == [key |-> e.key, conn |-> IF e.present THEN connections[e.key] ELSE NoConn,
              present |-> e.present, version |-> e.version]
    IN  updates' = IF e.present /\ ~HasConnection(e.key) THEN updates ELSE updates \cup {u}

\* What the event leaves to do after the critical section.
UpdateOwes(e) ==
    LET u == [key |-> e.key, conn |-> connections[e.key], present |-> e.present,
              version |-> e.version]
    IN  updates' = IF e.present /\ ~HasConnection(e.key) THEN updates ELSE updates \cup {u}

\* Mutant: an event of an earlier change is handled like a new one.
HandlesLate(e) == closed

\* An event that is not newer than the last one handled is ignored.
Ignored(e) == closed \/ e.version <= eventVers[e.key]

UpdateEndpointState(e) ==
    LET k == e.key IN
    /\ pending' = pending \ {e}
    /\ IF Ignored(e)
       THEN UNCHANGED <<eventVers, generations, removed, tombstones, updates>>
       ELSE /\ eventVers' = [eventVers EXCEPT ![k] = e.version]
            /\ generations' = [generations EXCEPT ![k] = @ + 1]
            /\ removed' = IF e.present THEN removed \ {k} ELSE removed \cup {k}
            /\ tombstones' = IF e.present THEN SelectSeq(tombstones, LAMBDA t : t # k)
                                          ELSE tombstones
            /\ UpdateOwes(e)
    /\ UNCHANGED <<present, eventID, mapVars, closed, refs, getters, flights>>

RemoveFound(u) ==
    /\ u.conn # NoConn
    /\ Removes(u.key, u.conn)
    /\ updates' = (updates \ {u}) \cup (IF u.present THEN {} ELSE {[u EXCEPT !.conn = NoConn]})
    /\ UNCHANGED <<feedVars, stateVars, getters, flights>>

finalizeRemovedEndpoint(u) ==
    /\ u.conn = NoConn
    /\ updates' = updates \ {u}
    /\ IF u.key \in removed /\ refs[u.key] = 0 /\ ~HasConnection(u.key)
       THEN Remember(u.key, refs)
       ELSE UNCHANGED <<generations, eventVers, removed, tombstones>>
    /\ UNCHANGED <<feedVars, mapVars, closed, refs, getters, flights>>

Close ==
    /\ ~closed
    /\ closed' = TRUE
    /\ connections' = [k \in Key |-> NoConn]
    /\ open' = open \ Range(connections)
    /\ generations' = Fresh /\ eventVers' = Fresh /\ refs' = Fresh
    /\ removed' = {} /\ tombstones' = <<>>
    /\ UNCHANGED <<feedVars, since, getters, flights, updates>>

-----------------------------------------------------------------------------
GetStep(g) == \/ LoadHealthy(g) \/ LoadConnection(g) \/ ReturnHit(g) \/ DropHit(g)
              \/ pinEndpoint(g) \/ DoChan(g) \/ unpinEndpoint(g)

FlightStep(f) == \/ CheckPresent(f) \/ CheckCurrent(f) \/ ReloadHealthy(f) \/ ReloadConnection(f)
                 \/ FlightHit(f) \/ FlightDrops(f) \/ CheckClosed(f) \/ Dial(f) \/ Store(f)
                 \/ CheckStored(f) \/ Undo(f)

Next ==
    \/ \E g \in Getter, k \in Key : Get(g, k)
    \/ \E g \in Getter : GetStep(g)
    \/ \E f \in flights : FlightStep(f)
    \/ \E new \in SUBSET Key : StoreChange(new)
    \/ \E e \in pending : UpdateEndpointState(e)
    \/ \E u \in updates : RemoveFound(u) \/ finalizeRemovedEndpoint(u)
    \/ Close

Spec == Init /\ [][Next]_vars

\* Goroutines that can run do run, and every dial ends: dialTimeout bounds it.
Fairness ==
    /\ \A g \in Getter : WF_vars(GetStep(g))
    /\ \A k \in Key, gen \in 0 .. MaxEvents :
          WF_vars(\E f \in flights : f.key = k /\ f.gen = gen /\ FlightStep(f))

LiveSpec == Spec /\ Fairness

-----------------------------------------------------------------------------
Pinned(k) == {g \in Getter : getters[g].pc \in {"join", "wait", "unpin"} /\ getters[g].key = k}

TypeOK ==
    /\ present \subseteq Key
    /\ \A e \in pending : e.key \in Key /\ e.version <= eventID
    /\ connections \in [Key -> Conn \cup {NoConn}]
    /\ open \subseteq Conn
    /\ \A k \in Key : eventVers[k] <= eventID /\ generations[k] <= eventID
    /\ removed \subseteq Key
    /\ IsInjective(tombstones) /\ Range(tombstones) \subseteq removed

(***************************************************************************)
(* No connection is leaked or used after Close: a connection is open       *)
(* exactly while it is the one stored for its key or a dial that has not   *)
(* stored it yet still holds it, in every interleaving of Get, endpoint    *)
(* removal and Close.                                                      *)
(***************************************************************************)
NoLeakedConnection ==
    open = (Range(connections) \ {NoConn}) \cup {f.conn : f \in {h \in flights : h.pc = "store"}}

(***************************************************************************)
(* A connection to an address that is gone does not stay: the event that   *)
(* closes it is still to come, or whoever stored or found it is about to   *)
(* close it.                                                               *)
(***************************************************************************)
RemovedConnectionDoomed ==
    \A k \in Key : HasConnection(k) /\ k \notin present =>
        \/ \E e \in pending : e.key = k /\ e.version > eventVers[k]
        \/ \E u \in updates : u.key = k /\ u.conn = connections[k]
        \/ \E f \in flights : f.key = k /\ f.conn = connections[k]

\* A caller or a dial that held k's connection has seen the address gone and removes it.
SeenGone(k) ==
    \/ \E g \in Getter : At(g, "drop") /\ getters[g].key = k /\ getters[g].conn = connections[k]
    \/ \E f \in flights : /\ f.pc \in {"drop", "undo"}
                         /\ f.key = k /\ f.conn = connections[k]

(***************************************************************************)
(* A delayed removal cannot delete a connection created after the endpoint *)
(* was added again: a stored connection goes only with Close, with an      *)
(* event newer than every one endpointEventVers knew when the connection   *)
(* was stored, or with a caller that saw its address gone.  What eviction  *)
(* of a tombstone has forgotten is not known any more.                     *)
(***************************************************************************)
KeepsNewConnection ==
    [][\A k \in Key : HasConnection(k) /\ connections'[k] # connections[k] =>
          \/ closed'
          \/ SeenGone(k)
          \/ \E u \in updates : /\ u.key = k /\ u.conn = connections[k]
                               /\ u.version > since[k]]_vars

(***************************************************************************)
(* endpointRefs counts the callers between pin and unpin, so no key is     *)
(* evicted and no generation starts over under a running dial.             *)
(***************************************************************************)
RefsCountCallers ==
    ~closed => /\ \A k \in Key : refs[k] = Cardinality(Pinned(k))
               /\ \A f \in flights : Pinned(f.key) # {}

(***************************************************************************)
(* What is kept of removed endpoints stays within maxEndpointTombstones:   *)
(* a tombstone can always be evicted, as it has no caller and no           *)
(* connection, and every removed key that is at rest has one.              *)
(***************************************************************************)
TombstonesBounded ==
    /\ Len(tombstones) <= MaxTombstones
    /\ \A k \in Range(tombstones) : refs[k] = 0 /\ ~HasConnection(k)
    /\ \A k \in removed : \/ k \in Range(tombstones)
                          \/ refs[k] > 0
                          \/ \E u \in updates : u.key = k /\ ~u.present

(***************************************************************************)
(* Every Get returns, however endpoints come and go and whether or not the *)
(* manager is closed meanwhile.                                            *)
(***************************************************************************)
EveryGetReturns == \A g \in Getter : ~At(g, "idle") ~> At(g, "idle")

\* Every connection is in use, in the cache or on its way to be closed, and what
\* is kept of removed endpoints is bounded and still counts its callers.
ConnectionsAreSound ==
    TypeOK /\ NoLeakedConnection /\ RemovedConnectionDoomed /\ RefsCountCallers /\ TombstonesBounded
=============================================================================
