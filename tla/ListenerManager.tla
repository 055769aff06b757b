--------------------------- MODULE ListenerManager ---------------------------
(***************************************************************************)
(* The listener manager of the gateway: listeners keyed by address, port   *)
(* and protocol, the replacement of every xDS listener as one transaction  *)
(* (src/pkg/server/listener_manager.go), the filter chain snapshots that   *)
(* requests pin while they run (src/pkg/listener/listener.go), and the     *)
(* refresh of one listener by a configuration reload.                      *)
(*                                                                         *)
(* A listener service and a filter chain get a number when they are built. *)
(* A chain remembers the generation of the transaction that published its  *)
(* configuration. rwLock is held while stage is one of Locked or a refresh *)
(* is closing its old chain; the publication gate is held in the stages of *)
(* Gated. A bind fails when the port is taken by a listener of this        *)
(* process or, at most MaxBindFailures times, by somebody else.            *)
(***************************************************************************)
EXTENDS Integers, Sequences, FiniteSets, Functions

CONSTANTS
    ListenerKey,     \* listeners that can exist, as <<port, protocol>>
    Static,          \* those of the bootstrap file
    Resources,       \* sets of listeners that the xDS server may send
    Call,            \* requests that can be in flight at once
    NoId,            \* no service, no chain, no listener
    MaxReplacements, \* transactions of the run
    MaxRefreshes,    \* refreshes by a reload
    MaxBindFailures  \* filter chains that cannot be built, foreign binds

ASSUME ListenerAssumption ==
    /\ Static \subseteq ListenerKey /\ IsFiniteSet(Static)
    /\ \A next \in Resources : next \subseteq ListenerKey
    /\ IsFiniteSet(Call)
    /\ NoId \notin Nat /\ NoId \notin ListenerKey

VARIABLES
    active,          \* activeListenerService: key -> number of its service
    xdsManaged,      \* keys that the xDS API created
    listenerService, \* services built: key and chain
    bound,           \* the services that have their socket
    accepting,       \* the services whose active flag is set
    chain,           \* chains built: references and generation
    retiredChains,   \* those that let no request in any more
    closedChains,    \* those that are closed
    stage,           \* where ReplaceXDSListeners is
    txn,             \* its local variables
    refresh,         \* the chain UpdateListener still has to retire
    call,            \* where each request is, its service and its chain
    seen,            \* the newest generation a request of an xDS listener got
    unrestored,      \* keys whose socket a rollback could not bind again
    used             \* transactions, refreshes and failures so far

services == <<listenerService, bound, accepting>>
chains == <<chain, retiredChains, closedChains>>
listenerVars == <<active, xdsManaged, services, chains, stage, txn, refresh, call, seen,
                  unrestored, used>>

NoEntries == [k \in ListenerKey |-> NoId]

Entries(map) == {k \in ListenerKey : map[k] # NoId}

noTxn == [next |-> {}, todo |-> {}, prepared |-> NoEntries, staged |-> NoEntries,
          handoffs |-> NoEntries, closed |-> {}, retired |-> {}, removed |-> {}]

Gated == {"start", "handoff", "rollback", "remove", "commit"}

Locked == Gated \cup {"prepare"}

Readers == {r \in Call : call[r].pc = "loaded"}

newChain(gen) == [refs |-> 0, gen |-> gen]

\* Mutant: a retired chain is closed under the requests that still use it.
retireNow(c) ==
    /\ retiredChains' = retiredChains \cup {c}
    /\ closedChains' = closedChains \cup {c}

retire(c) ==
    /\ retiredChains' = retiredChains \cup {c}
    /\ closedChains' = IF chain[c].refs = 0 THEN closedChains \cup {c} ELSE closedChains

CloseFilterChain(s) ==
    /\ accepting' = accepting \ {s}
    /\ listenerService' = [listenerService EXCEPT ![s].chain = NoId]

ListenersInit ==
    \E order \in Bijection(1..Cardinality(Static), Static) :
      /\ listenerService = [s \in 1..Cardinality(Static) |-> [key |-> order[s], chain |-> s]]
      /\ bound = {} /\ accepting = 1..Cardinality(Static)
      /\ chain = [s \in 1..Cardinality(Static) |-> newChain(0)]
      /\ retiredChains = {} /\ closedChains = {}
      /\ active = [k \in ListenerKey |->
            IF k \in Static THEN CHOOSE s \in 1..Cardinality(Static) : order[s] = k
                            ELSE NoId]
      /\ xdsManaged = {}
      /\ stage = "idle" /\ txn = noTxn /\ refresh = NoId
      /\ call = [r \in Call |-> [pc |-> "idle", service |-> NoId, chain |-> NoId]]
      /\ seen = 0 /\ unrestored = {}
      /\ used = [replacements |-> 0, refreshes |-> 0, failures |-> 0]

Taken(k) == \E s \in bound : listenerService[s].key[1] = k[1]

mayFail == used.failures < MaxBindFailures

failed == [used EXCEPT !.failures = @ + 1]

-----------------------------------------------------------------------------
(* StartListen: the listeners of the file are bound in goroutines.         *)

StartListen(k) ==
    /\ k \in Static /\ active[k] # NoId
    /\ active[k] \notin bound /\ ~Taken(k)
    /\ bound' = bound \cup {active[k]}
    /\ UNCHANGED <<active, xdsManaged, listenerService, accepting, chains, stage, txn, refresh,
                   call, seen, unrestored, used>>

-----------------------------------------------------------------------------
(* ReplaceXDSListeners                                                     *)

ReplaceXDSListeners(next) ==
    /\ stage = "idle" /\ refresh = NoId
    /\ used.replacements < MaxReplacements
    /\ used' = [used EXCEPT !.replacements = @ + 1]
    /\ stage' = "prepare"
    /\ txn' = [noTxn EXCEPT !.next = next, !.todo = next]
    /\ UNCHANGED <<active, xdsManaged, services, chains, refresh, call, seen, unrestored>>

generation == used.replacements

\* The next configuration: a refresh is prepared for a listener xDS owns, a
\* service is staged for a new one, and anything else rejects the whole set.
prepareListenerRefreshSafely(k) ==
    /\ stage = "prepare" /\ k \in txn.todo
    /\ active[k] # NoId /\ k \in xdsManaged
    /\ chain' = Append(chain, newChain(generation))
    /\ txn' = [txn EXCEPT !.todo = @ \ {k}, !.prepared[k] = Len(chain')]
    /\ UNCHANGED <<active, xdsManaged, services, retiredChains, closedChains, stage, refresh, call,
                   seen, unrestored, used>>

createListenerServiceSafely(k) ==
    /\ stage = "prepare" /\ k \in txn.todo /\ active[k] = NoId
    /\ chain' = Append(chain, newChain(generation))
    /\ listenerService' = Append(listenerService, [key |-> k, chain |-> Len(chain')])
    /\ txn' = [txn EXCEPT !.todo = @ \ {k}, !.staged[k] = Len(listenerService')]
    /\ UNCHANGED <<active, xdsManaged, bound, accepting, retiredChains, closedChains, stage,
                   refresh, call, seen, unrestored, used>>

RejectListener(k) ==
    /\ stage = "prepare" /\ k \in txn.todo
    /\ \/ active[k] # NoId /\ k \notin xdsManaged /\ used' = used
       \/ mayFail /\ used' = failed
    /\ stage' = "reject"
    /\ UNCHANGED <<active, xdsManaged, services, chains, txn, refresh, call, seen, unrestored>>

HTTPs == {"HTTP", "HTTP2"}

isHTTPProtocolHandoff(old, next) ==
    /\ old[2] # next[2] /\ {old[2], next[2]} \subseteq HTTPs
    /\ old[1] = next[1]

\* Listeners of xDS that go away and give their port to a staged one.
Heirs(k) ==
    IF k \in xdsManaged \ txn.next /\ active[k] # NoId
    THEN {n \in Entries(txn.staged) : isHTTPProtocolHandoff(k, n)} ELSE {}

FindHandoffs ==
    /\ stage = "prepare" /\ txn.todo = {} /\ Readers = {}
    /\ stage' = "start"
    /\ txn' = [txn EXCEPT !.handoffs = [k \in ListenerKey |->
                 IF Heirs(k) = {} THEN NoId ELSE CHOOSE n \in Heirs(k) : TRUE]]
    /\ UNCHANGED <<active, xdsManaged, services, chains, refresh, call, seen, unrestored, used>>

Waiting ==
    {k \in Entries(txn.staged) :
        k \notin Range(txn.handoffs) /\ txn.staged[k] \notin bound}

startListenerServiceSafely(k) ==
    /\ stage = "start" /\ k \in Waiting
    /\ \/ /\ ~Taken(k)
          /\ bound' = bound \cup {txn.staged[k]}
          /\ UNCHANGED <<stage, used>>
       \/ /\ Taken(k) /\ stage' = "reject"
          /\ UNCHANGED <<bound, used>>
       \/ /\ mayFail /\ used' = failed /\ stage' = "reject"
          /\ UNCHANGED bound
    /\ UNCHANGED <<active, xdsManaged, listenerService, accepting, chains, txn, refresh, call, seen,
                   unrestored>>

StagedBound ==
    /\ stage = "start" /\ Waiting = {}
    /\ stage' = IF Entries(txn.handoffs) = {} THEN "remove" ELSE "handoff"
    /\ UNCHANGED <<active, xdsManaged, services, chains, txn, refresh, call, seen, unrestored, used>>

\* The old listener stops accepting before the new one binds its port.
Handoff(k) ==
    /\ stage = "handoff" /\ k \in Entries(txn.handoffs) \ txn.closed
    /\ accepting' = accepting \ {active[k]}
    /\ \/ /\ bound' = (bound \ {active[k]}) \cup {txn.staged[txn.handoffs[k]]}
          /\ stage' = IF txn.closed \cup {k} = Entries(txn.handoffs) THEN "remove" ELSE stage
          /\ used' = used
       \/ /\ mayFail /\ used' = failed
          /\ bound' = bound \ {active[k]} /\ stage' = "rollback"
    /\ txn' = [txn EXCEPT !.closed = @ \cup {k}]
    /\ UNCHANGED <<active, xdsManaged, listenerService, chains, refresh, call, seen, unrestored>>

\* The new listeners stop, the old ones bind again where that succeeds.
rollbackHandoffs ==
    /\ stage = "rollback"
    /\ \E lost \in SUBSET txn.closed :
         /\ lost # {} => mayFail
         /\ LET new == {txn.staged[txn.handoffs[k]] : k \in txn.closed}
                old == {active[k] : k \in txn.closed \ lost}
            IN  bound' = (bound \cup old) \ new /\ accepting' = accepting \cup old
         /\ unrestored' = unrestored \cup lost
         /\ used' = IF lost = {} THEN used ELSE failed
    /\ stage' = "reject"
    /\ UNCHANGED <<active, xdsManaged, listenerService, chains, txn, refresh, call, seen>>

CommitRemoval ==
    /\ stage = "remove"
    /\ LET gone == xdsManaged \ txn.next
           removed == {active[k] : k \in gone} \ {NoId}
       IN  /\ active' = [k \in ListenerKey |-> IF k \in gone THEN NoId ELSE active[k]]
           /\ accepting' = accepting \ removed
           /\ txn' = [txn EXCEPT !.removed = removed]
    /\ unrestored' = unrestored \cap txn.next
    /\ stage' = "commit"
    /\ UNCHANGED <<xdsManaged, listenerService, bound, chains, refresh, call, seen, used>>

CommitRefresh(k) ==
    /\ stage = "commit" /\ k \in Entries(txn.prepared)
    /\ listenerService' = [listenerService EXCEPT ![active[k]].chain = txn.prepared[k]]
    /\ txn' = [txn EXCEPT !.prepared[k] = NoId,
                          !.retired = @ \cup {listenerService[active[k]].chain}]
    /\ UNCHANGED <<active, xdsManaged, bound, accepting, chains, stage, refresh, call, seen,
                   unrestored, used>>

CommitStaged(k) ==
    /\ stage = "commit" /\ txn.prepared = NoEntries /\ k \in Entries(txn.staged)
    /\ active' = [active EXCEPT ![k] = txn.staged[k]]
    /\ accepting' = accepting \cup {txn.staged[k]}
    /\ txn' = [txn EXCEPT !.staged[k] = NoId]
    /\ UNCHANGED <<xdsManaged, listenerService, bound, chains, stage, refresh, call, seen,
                   unrestored, used>>

PublishListeners ==
    /\ stage = "commit" /\ txn.prepared = NoEntries /\ txn.staged = NoEntries
    /\ xdsManaged' = txn.next
    /\ stage' = "retire"
    /\ UNCHANGED <<active, services, chains, txn, refresh, call, seen, unrestored, used>>

\* After the locks are released: the chains that were replaced, then the
\* services that were removed.
RetireReplaced(c) ==
    /\ stage = "retire" /\ c \in txn.retired
    /\ retire(c)
    /\ txn' = [txn EXCEPT !.retired = @ \ {c}]
    /\ UNCHANGED <<active, xdsManaged, services, chain, stage, refresh, call, seen, unrestored, used>>

CloseService(s) ==
    /\ IF listenerService[s].chain = NoId THEN UNCHANGED <<retiredChains, closedChains>>
                                          ELSE retire(listenerService[s].chain)
    /\ CloseFilterChain(s)
    /\ bound' = bound \ {s}

CloseRemoved(s) ==
    /\ stage = "retire" /\ txn.retired = {} /\ s \in txn.removed
    /\ Readers = {}
    /\ CloseService(s)
    /\ txn' = [txn EXCEPT !.removed = @ \ {s}]
    /\ UNCHANGED <<active, xdsManaged, chain, stage, refresh, call, seen, unrestored, used>>

Replaced ==
    /\ stage = "retire" /\ txn.retired = {} /\ txn.removed = {}
    /\ stage' = "idle" /\ txn' = noTxn
    /\ UNCHANGED <<active, xdsManaged, services, chains, refresh, call, seen, unrestored, used>>

\* The deferred cleanup of a rejected transaction.
ClosePreparedUpdate(k) ==
    /\ stage = "reject" /\ k \in Entries(txn.prepared)
    /\ retire(txn.prepared[k])
    /\ txn' = [txn EXCEPT !.prepared[k] = NoId]
    /\ UNCHANGED <<active, xdsManaged, services, chain, stage, refresh, call, seen, unrestored, used>>

closeStagedListeners(k) ==
    /\ stage = "reject" /\ txn.prepared = NoEntries /\ k \in Entries(txn.staged)
    /\ Readers = {}
    /\ CloseService(txn.staged[k])
    /\ txn' = [txn EXCEPT !.staged[k] = NoId]
    /\ UNCHANGED <<active, xdsManaged, chain, stage, refresh, call, seen, unrestored, used>>

Rejected ==
    /\ stage = "reject" /\ txn.prepared = NoEntries /\ txn.staged = NoEntries
    /\ stage' = "idle" /\ txn' = noTxn
    /\ UNCHANGED <<active, xdsManaged, services, chains, refresh, call, seen, unrestored, used>>

-----------------------------------------------------------------------------
(* UpdateListener, by a reload of the file: the chain of one listener of   *)
(* any origin is replaced and the old one retired. A chain that cannot be  *)
(* built changes nothing here.                                             *)

UpdateListenerService(k) ==
    /\ stage \notin Locked /\ refresh = NoId
    /\ active[k] # NoId /\ used.refreshes < MaxRefreshes
    /\ Readers = {}
    /\ LET old == listenerService[active[k]].chain
       IN  /\ chain' = Append(chain, newChain(chain[old].gen))
           /\ refresh' = old
    /\ listenerService' = [listenerService EXCEPT ![active[k]].chain = Len(chain')]
    /\ used' = [used EXCEPT !.refreshes = @ + 1]
    /\ UNCHANGED <<active, xdsManaged, bound, accepting, retiredChains, closedChains, stage, txn,
                   call, seen, unrestored>>

RetireRefreshed ==
    /\ refresh # NoId
    /\ retire(refresh)
    /\ refresh' = NoId
    /\ UNCHANGED <<active, xdsManaged, services, chain, stage, txn, call, seen, unrestored, used>>

-----------------------------------------------------------------------------
(* Requests                                                                *)

\* A request arrives on a bound socket; its handler runs later, perhaps
\* when the socket is closed.
AcceptCall(r, s) ==
    /\ call[r].pc = "idle" /\ s \in bound
    /\ call' = [call EXCEPT ![r] = [pc |-> "arrived", service |-> s, chain |-> NoId]]
    /\ UNCHANGED <<active, xdsManaged, services, chains, stage, txn, refresh, seen, unrestored, used>>

served(r) == listenerService[call[r].service]

\* WithFilterChain: under the read side of the gate, the flag and the chain.
WithFilterChain(r) ==
    /\ call[r].pc = "arrived" /\ stage \notin Gated
    /\ call' = [call EXCEPT ![r] =
         IF call[r].service \in accepting /\ served(r).chain # NoId
         THEN [@ EXCEPT !.pc = "loaded", !.chain = served(r).chain]
         ELSE [@ EXCEPT !.pc = "idle"]]
    /\ UNCHANGED <<active, xdsManaged, services, chains, stage, txn, refresh, seen, unrestored, used>>

Later(a, b) == IF a > b THEN a ELSE b

acquire(r) ==
    /\ call[r].pc = "loaded"
    /\ LET c == call[r].chain
       IN  \/ /\ c \in retiredChains
              /\ call' = [call EXCEPT ![r].pc = "idle"]
              /\ UNCHANGED <<chain, seen>>
           \/ /\ c \notin retiredChains
              /\ chain' = [chain EXCEPT ![c].refs = @ + 1]
              /\ call' = [call EXCEPT ![r].pc = "running"]
              /\ seen' = IF served(r).key \in Static THEN seen ELSE Later(seen, chain[c].gen)
    /\ UNCHANGED <<active, xdsManaged, services, retiredChains, closedChains, stage, txn, refresh,
                   unrestored, used>>

release(r) ==
    /\ call[r].pc = "running"
    /\ LET c == call[r].chain
       IN  /\ chain' = [chain EXCEPT ![c].refs = @ - 1]
           /\ closedChains' = IF c \in retiredChains /\ chain[c].refs = 1
                              THEN closedChains \cup {c} ELSE closedChains
    /\ call' = [call EXCEPT ![r].pc = "idle"]
    /\ UNCHANGED <<active, xdsManaged, services, retiredChains, stage, txn, refresh, seen,
                   unrestored, used>>

Replacer ==
    \/ \E next \in Resources : ReplaceXDSListeners(next)
    \/ \E k \in ListenerKey :
         \/ prepareListenerRefreshSafely(k) \/ createListenerServiceSafely(k)
         \/ RejectListener(k) \/ startListenerServiceSafely(k) \/ Handoff(k)
         \/ CommitRefresh(k) \/ CommitStaged(k)
         \/ ClosePreparedUpdate(k) \/ closeStagedListeners(k)
    \/ \E c \in txn.retired : RetireReplaced(c)
    \/ \E s \in txn.removed : CloseRemoved(s)
    \/ FindHandoffs \/ StagedBound \/ rollbackHandoffs \/ CommitRemoval
    \/ PublishListeners \/ Replaced \/ Rejected

ListenersNext ==
    \/ Replacer
    \/ \E k \in ListenerKey : StartListen(k) \/ UpdateListenerService(k)
    \/ RetireRefreshed
    \/ \E r \in Call :
         \/ \E s \in bound : AcceptCall(r, s)
         \/ WithFilterChain(r) \/ acquire(r) \/ release(r)

ListenersSpec == ListenersInit /\ [][ListenersNext]_listenerVars

-----------------------------------------------------------------------------
(* Properties                                                              *)

\* A request never runs on a filter chain that was closed: a chain retired
\* by a replacement, a reload or the close of its listener is closed by the
\* last request that holds it (filterChainSnapshot.acquire, release, retire).
NoClosedChain ==
    \A r \in Call : call[r].pc = "running" => call[r].chain \notin closedChains

Held(c) ==
    \/ \E s \in DOMAIN listenerService : listenerService[s].chain = c
    \/ c \in Range(txn.prepared) \cup txn.retired
    \/ refresh # NoId /\ refresh = c
    \/ chain[c].refs > 0

\* A chain that nobody can reach any more is closed, so a rejected
\* replacement, a reload and a removal all return the resources of their
\* filters (ReplaceXDSListeners' deferred cleanup, RetiredUpdate.Close).
NoChainLeaks == \A c \in DOMAIN chain : c \in closedChains \/ Held(c)

\* Between transactions every listener xDS owns is bound and lets requests
\* in, whether the last transaction was committed, refused before it touched
\* a socket or rolled back; the one exception is a listener whose port the
\* rollback could not bind again (rollbackHandoffs).
ManagedIsServing ==
    stage = "idle" =>
      \A k \in xdsManaged \ unrestored :
        /\ active[k] # NoId
        /\ active[k] \in bound /\ active[k] \in accepting
        /\ listenerService[active[k]].chain # NoId

\* The listeners of one transaction change as one: once a request was let
\* into a listener with the new configuration, no request is let into an
\* xDS listener with an older one (updateGate).
NoOlderAfterNewer ==
    [][\A r \in Call :
         (call[r].pc = "loaded" /\ call'[r].pc = "running" /\ served(r).key \notin Static)
           => chain[call[r].chain].gen >= seen]_listenerVars

\* A request finds an open chain on a serving listener, and a chain that nobody
\* can reach is closed, through transactions that fail half-way; and the listeners
\* of one transaction change as one.
ChainsAreSound == [](NoClosedChain /\ NoChainLeaks /\ ManagedIsServing) /\ NoOlderAfterNewer
=============================================================================
