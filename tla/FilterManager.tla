------------------------------ MODULE FilterManager ------------------------------
(***************************************************************************)
(* The HTTP filter manager (common/extension/filter/filter_manager.go,     *)
(* filter_chain.go): the filter factories of a connection manager, which   *)
(* are replaced and closed while requests use them.  A request leases the  *)
(* factories of its chain; a factory that was replaced is closed when its  *)
(* last lease ends.                                                        *)
(*                                                                         *)
(* fm.mu and lifecycleMu make every lookup, swap and release one step.     *)
(* Factories are closed after the locks are released.                      *)
(***************************************************************************)
EXTENDS Integers, FiniteSets

CONSTANTS
    Request, Reloader, Closer, \* goroutines: requests, reloads, Close
    Nothing,
    Filters,      \* filters of a configuration
    MaxFactories  \* bound

VARIABLES
    filtersArray, \* factories in use
    factoryRefs, retired, closed,
    created,      \* factories applied so far: 1 .. created
    reload,       \* per reloader: Nothing, or [built, todo, strict]
    lease,        \* per request: Nothing, or the factories it leased
    ready,        \* per goroutine: factories it took and has yet to close
    closes        \* how often each factory was closed

vars == <<filtersArray, factoryRefs, retired, closed, created, reload, lease, ready, closes>>

Factory == 1 .. MaxFactories
Thread == Request \cup Reloader \cup {Closer}

-----------------------------------------------------------------------------
\* Mutant: a factory that is replaced is closed whether or not it is in use.
retireAll(t, fs) == retired' = retired /\ ready' = [ready EXCEPT ![t] = @ \cup fs]

\* retireFactories: those nobody uses are ready to be closed.
retireFactories(t, fs) ==
    LET unused == {f \in fs : factoryRefs[f] = 0} IN
    /\ retired' = (retired \cup fs) \ unused
    /\ ready' = [ready EXCEPT ![t] = @ \cup unused]

\* CreateFilterChainChecked: the factories of now, leased before the lock is released.
newLeasedFilterChain(r) ==
    /\ lease[r] = Nothing
    /\ lease' = [lease EXCEPT ![r] = filtersArray]
    /\ factoryRefs' = [f \in Factory |-> factoryRefs[f] + (IF f \in filtersArray THEN 1 ELSE 0)]
    /\ UNCHANGED <<filtersArray, retired, closed, created, reload, ready, closes>>

\* Release: at the end of the request, on a failed PrepareFilterChain and on a panic.
releaseFactories(r) ==
    /\ lease[r] # Nothing
    /\ factoryRefs' = [f \in Factory |-> factoryRefs[f] - (IF f \in lease[r] THEN 1 ELSE 0)]
    /\ LET last == {f \in lease[r] \cap retired : factoryRefs[f] = 1} IN
       /\ retired' = retired \ last
       /\ ready' = [ready EXCEPT ![r] = @ \cup last]
    /\ lease' = [lease EXCEPT ![r] = Nothing]
    /\ UNCHANGED <<filtersArray, closed, created, reload, closes>>

closeFactories(t) ==
    /\ ready[t] # {}
    /\ closes' = [f \in Factory |-> closes[f] + (IF f \in ready[t] THEN 1 ELSE 0)]
    /\ ready' = [ready EXCEPT ![t] = {}]
    /\ UNCHANGED <<filtersArray, factoryRefs, retired, closed, created, reload, lease>>

-----------------------------------------------------------------------------
\* reload: a closed manager takes no configuration.
BeginReload(t, strict) ==
    /\ reload[t] = Nothing /\ ~closed /\ created < MaxFactories
    /\ reload' = [reload EXCEPT ![t] = [built |-> {}, todo |-> Filters, strict |-> strict]]
    /\ UNCHANGED <<filtersArray, factoryRefs, retired, closed, created, lease, ready, closes>>

\* Apply creates, configures and starts a factory.
Apply(t) ==
    /\ reload[t] # Nothing /\ reload[t].todo > 0 /\ created < MaxFactories
    /\ created' = created + 1
    /\ reload' = [reload EXCEPT ![t].built = @ \cup {created + 1}, ![t].todo = @ - 1]
    /\ UNCHANGED <<filtersArray, factoryRefs, retired, closed, lease, ready, closes>>

\* A filter that fails closes itself.  A strict reload closes what it built; otherwise the filter is left out.
ApplyFails(t) ==
    /\ reload[t] # Nothing /\ reload[t].todo > 0
    /\ IF reload[t].strict
       THEN /\ ready' = [ready EXCEPT ![t] = @ \cup reload[t].built]
            /\ reload' = [reload EXCEPT ![t] = Nothing]
       ELSE reload' = [reload EXCEPT ![t].todo = @ - 1] /\ UNCHANGED ready
    /\ UNCHANGED <<filtersArray, factoryRefs, retired, closed, created, lease, closes>>

\* The new factories replace the old, unless the manager was closed meanwhile.
Swap(t) ==
    /\ reload[t] # Nothing /\ reload[t].todo = 0
    /\ IF closed
       THEN ready' = [ready EXCEPT ![t] = @ \cup reload[t].built] /\ UNCHANGED <<filtersArray, retired>>
       ELSE filtersArray' = reload[t].built /\ retireFactories(t, filtersArray)
    /\ reload' = [reload EXCEPT ![t] = Nothing]
    /\ UNCHANGED <<factoryRefs, closed, created, lease, closes>>

Close ==
    /\ ~closed
    /\ closed' = TRUE
    /\ filtersArray' = {}
    /\ retireFactories(Closer, filtersArray)
    /\ UNCHANGED <<factoryRefs, created, reload, lease, closes>>

-----------------------------------------------------------------------------
Init ==
    /\ filtersArray = {} /\ factoryRefs = [f \in Factory |-> 0] /\ retired = {}
    /\ closed = FALSE /\ created = 0
    /\ reload = [t \in Reloader |-> Nothing]
    /\ lease = [r \in Request |-> Nothing]
    /\ ready = [t \in Thread |-> {}]
    /\ closes = [f \in Factory |-> 0]

Next ==
    \/ \E r \in Request : newLeasedFilterChain(r) \/ releaseFactories(r)
    \/ \E t \in Reloader :
          Apply(t) \/ ApplyFails(t) \/ Swap(t) \/ \E strict \in BOOLEAN : BeginReload(t, strict)
    \/ Close
    \/ \E t \in Thread : closeFactories(t)

Spec == Init /\ [][Next]_vars

-----------------------------------------------------------------------------
(***************************************************************************)
(* No request runs through a filter whose factory was closed or is about   *)
(* to be: reloads and Close wait for the requests that lease it.           *)
(***************************************************************************)
LeasedIsOpen ==
    \A r \in Request : lease[r] # Nothing =>
        \A f \in lease[r] : closes[f] = 0 /\ \A t \in Thread : f \notin ready[t]

(***************************************************************************)
(* Every factory is in use, leased, being built, about to be closed or     *)
(* closed - one Close, however reloads, requests and Close interleave - so *)
(* that none is left open once a closed manager's requests have ended.     *)
(***************************************************************************)
NoFactoryLeaks ==
    \A f \in 1 .. created :
        LET owners == {t \in Thread : f \in ready[t]}
            held == \/ f \in filtersArray /\ ~closed
                    \/ \E t \in Reloader : reload[t] # Nothing /\ f \in reload[t].built
                    \/ f \in retired /\ \E r \in Request : lease[r] # Nothing /\ f \in lease[r]
        IN  Cardinality(owners) + closes[f] = IF held THEN 0 ELSE 1

\* A factory is open while a request runs through it and is closed once after.
FactoriesAreSound == LeasedIsOpen /\ NoFactoryLeaks

\* What the proofs assume of the constants.
Constants ==
    /\ IsFiniteSet(Request)
    /\ MaxFactories \in Nat /\ Filters \in Nat
    /\ \A fs \in SUBSET Factory : fs # Nothing
    /\ Nothing \notin [built : SUBSET Factory, todo : Nat, strict : BOOLEAN]
=============================================================================
