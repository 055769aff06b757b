-------------------------------- MODULE DubboZk --------------------------------
(***************************************************************************)
(* The ZooKeeper side of the Dubbo registry adapter                        *)
(* (pkg/adapter/dubboregistry/registry/zookeeper and remoting/zookeeper).  *)
(*                                                                         *)
(* A root listener watches the node of all services and starts a listener  *)
(* goroutine for every service it has none for.  A service listener reads  *)
(* the children of its node whenever ZooKeeper reports a change and every  *)
(* ten minutes, and adds an API per method of the FIRST child.  An         *)
(* interface listener remembers the methods it has added and stops at the  *)
(* first one it remembers; an application listener adds everything again.  *)
(* Where the children cannot be read both ask for the deletion of the node *)
(* /application/interface, above the ones the APIs are at: nothing goes.   *)
(***************************************************************************)
EXTENDS Naturals, FiniteSets

CONSTANTS
    Interface,      \* services registered by interface
    Application,    \* services registered by application
    Provider,       \* addresses of providers
    Unusable,       \* the ones whose URL, instance or metadata cannot be parsed
    Method,         \* methods of every service
    MaxFailTimes,   \* a listener gives up after so many failures in a row
    MaxEdits,       \* bound: changes in ZooKeeper
    MaxFaults       \* bound: calls to ZooKeeper that fail

Service == Interface \cup Application

VARIABLES
    providers,   \* providers[s]: children of the node of s
    exists,      \* the services whose node exists
    connected,   \* the client still has its connection
    root,        \* the root listeners still run
    listener,    \* "none", "running" or "exited" per service
    failTimes,   \* failures in a row of each listener's GetChildrenW
    fired,       \* fired[s]: the watch of s has an event, or the ticker has
    registered,  \* registryMethod of each interface listener
    apis,        \* the APIs <<s, m>> of the API config
    endpoints,   \* the endpoints <<s, m, p>> of the cluster manager
    edits, faults

vars == <<providers, exists, connected, root, listener, failTimes, fired, registered,
          apis, endpoints, edits, faults>>

AnyMethod == Method \cup {"*"}

TypeOK ==
    /\ providers \in [Service -> SUBSET Provider]
    /\ exists \in SUBSET Service
    /\ connected \in BOOLEAN
    /\ root \in BOOLEAN
    /\ listener \in [Service -> {"none", "running", "exited"}]
    /\ failTimes \in [Service -> 0 .. MaxFailTimes + 1]
    /\ fired \in SUBSET Service
    /\ registered \in [Service -> SUBSET Method]
    /\ apis \in SUBSET (Service \X AnyMethod)
    /\ endpoints \in SUBSET (Service \X AnyMethod \X Provider)
    /\ edits \in 0 .. MaxEdits
    /\ faults \in 0 .. MaxFaults

Init ==
    /\ providers = [s \in Service |-> {}]
    /\ exists = {}
    /\ connected = TRUE
    /\ root = TRUE
    /\ listener = [s \in Service |-> "none"]
    /\ failTimes = [s \in Service |-> 0]
    /\ fired = {}
    /\ registered = [s \in Service |-> {}]
    /\ apis = {}
    /\ endpoints = {}
    /\ edits = 0
    /\ faults = 0
-----------------------------------------------------------------------------
(* ZooKeeper *)

\* The providers of a service change, and the watch on the node fires.
Edit(s, ps) ==
    /\ edits < MaxEdits
    /\ ps # providers[s]
    /\ edits' = edits + 1
    /\ providers' = [providers EXCEPT ![s] = ps]
    /\ exists' = exists \cup {s}
    /\ fired' = fired \cup {s}
    /\ UNCHANGED <<connected, root, listener, failTimes, registered, apis, endpoints, faults>>

\* The node of a service is deleted.
Vanish(s) ==
    /\ edits < MaxEdits
    /\ s \in exists
    /\ edits' = edits + 1
    /\ providers' = [providers EXCEPT ![s] = {}]
    /\ exists' = exists \ {s}
    /\ fired' = fired \cup {s}
    /\ UNCHANGED <<connected, root, listener, failTimes, registered, apis, endpoints, faults>>

\* HandleZkEvent: a disconnection destroys the client for good.
Disconnect ==
    /\ connected
    /\ faults < MaxFaults
    /\ faults' = faults + 1
    /\ connected' = FALSE
    /\ fired' = Service
    /\ UNCHANGED <<providers, exists, root, listener, failTimes, registered, apis,
                   endpoints, edits>>
-----------------------------------------------------------------------------
(* OnAddAPI and OnDeleteRouter of the adapter *)

OnAddAPI(s, ms, p) ==
    /\ apis' = apis \cup {<<s, m>> : m \in ms}
    /\ endpoints' = endpoints \cup {<<s, m, p>> : m \in ms}

\* DeleteNode unmarks the node of /application/interface.  An API is one level
\* below, at the method or at *, and stays as it is, with its endpoints.
OnDeleteRouter == UNCHANGED <<apis, endpoints>>
-----------------------------------------------------------------------------
(* Listeners *)

\* A root listener starts the listener of a service that has none.
StartListener(s) ==
    /\ connected
    /\ root
    /\ s \in exists
    /\ listener[s] = "none"
    /\ listener' = [listener EXCEPT ![s] = "running"]
    /\ fired' = fired \cup {s}
    /\ UNCHANGED <<providers, exists, connected, root, failTimes, registered, apis,
                   endpoints, edits, faults>>

\* A root listener exits after MaxFailTimes failures of its own.
RootGivesUp ==
    /\ root
    /\ faults < MaxFaults
    /\ faults' = faults + 1
    /\ root' = FALSE
    /\ UNCHANGED <<providers, exists, connected, listener, failTimes, fired, registered,
                   apis, endpoints, edits>>

\* zkIntfListener.handleEvent: an interface without a provider is passed over.
IntfHandleEvent(s) == s \in Interface /\ providers[s] # {} /\ StartListener(s)

\* zkAppListener.handleEvent.
AppHandleEvent(s) == s \in Application /\ StartListener(s)

\* handleEvent of an interface listener, with the first child p: a method
\* that is remembered ends the loop over the methods.
handleInterface(s, p) ==
    IF p \in Unusable \/ registered[s] # {}
    THEN UNCHANGED <<registered, apis, endpoints>>
    ELSE /\ OnAddAPI(s, Method, p)
         /\ registered' = [registered EXCEPT ![s] = Method]

\* Mutant: the application listener adds its APIs only once.
handleApplicationOnce(s, p, ok) ==
    /\ IF p \in Unusable \/ \E e \in endpoints : e[1] = s
       THEN UNCHANGED <<apis, endpoints>>
       ELSE OnAddAPI(s, IF ok THEN Method ELSE {"*"}, p)
    /\ UNCHANGED registered

\* handleEvent of an application listener: an instance getUrls can make nothing
\* of adds nothing; the methods are those of the metadata, or any method when
\* they cannot be read.
handleApplication(s, p, ok) ==
    /\ IF p \in Unusable
       THEN UNCHANGED <<apis, endpoints>>
       ELSE OnAddAPI(s, IF ok THEN Method ELSE {"*"}, p)
    /\ UNCHANGED registered

\* A running listener takes an event of its watch or of its ticker.
Takes(s) ==
    /\ connected
    /\ listener[s] = "running"
    /\ s \in fired
    /\ s \in exists
    /\ fired' = fired \ {s}
    /\ failTimes' = [failTimes EXCEPT ![s] = 0]
    /\ UNCHANGED <<providers, exists, connected, root, listener, edits>>

\* The children are read again: none counts as a failed read.
HandleEvent(s, p, ok) ==
    /\ Takes(s)
    /\ ok \/ (s \in Application /\ faults < MaxFaults)
    /\ faults' = IF ok THEN faults ELSE faults + 1
    /\ IF providers[s] = {}
       THEN OnDeleteRouter /\ UNCHANGED registered
       ELSE /\ p \in providers[s]
            /\ IF s \in Interface THEN handleInterface(s, p)
               ELSE handleApplication(s, p, ok)

\* GetChildren fails inside handleEvent, or getUrls fails to read the instance
\* or its metadata: nothing is added.
ReadFails(s) ==
    /\ Takes(s)
    /\ faults < MaxFaults
    /\ faults' = faults + 1
    /\ OnDeleteRouter
    /\ UNCHANGED registered

\* The ticker of a listener, every ten minutes.
Tick(s) ==
    /\ listener[s] = "running"
    /\ s \notin fired
    /\ fired' = fired \cup {s}
    /\ UNCHANGED <<providers, exists, connected, root, listener, failTimes, registered,
                   apis, endpoints, edits, faults>>

\* GetChildrenW fails: the listener waits and tries again, and exits after
\* MaxFailTimes failures, or at once when the node is gone; it stays registered,
\* so that none is started again.  Without a connection every call fails.
WatchFails(s) ==
    /\ listener[s] = "running"
    /\ s \in fired
    /\ \/ (~connected \/ s \notin exists) /\ UNCHANGED faults
       \/ connected /\ faults < MaxFaults /\ faults' = faults + 1
    /\ failTimes' = [failTimes EXCEPT ![s] = @ + 1]
    /\ listener' = IF (connected /\ s \notin exists) \/ failTimes'[s] > MaxFailTimes
                   THEN [listener EXCEPT ![s] = "exited"] ELSE listener
    /\ UNCHANGED <<providers, exists, connected, root, fired, registered, apis,
                   endpoints, edits>>
-----------------------------------------------------------------------------
Next ==
    \/ \E s \in Service, ps \in SUBSET Provider : Edit(s, ps)
    \/ \E s \in Service : Vanish(s) \/ Tick(s) \/ ReadFails(s) \/ WatchFails(s)
    \/ \E s \in Service : IntfHandleEvent(s) \/ AppHandleEvent(s)
    \/ \E s \in Service, p \in Provider, ok \in BOOLEAN : HandleEvent(s, p, ok)
    \/ Disconnect \/ RootGivesUp

\* The root listener's and the listeners' own goroutines keep running.
Fairness ==
    \A s \in Service :
        /\ WF_vars(IntfHandleEvent(s) \/ AppHandleEvent(s))
        /\ WF_vars(\E p \in Provider : HandleEvent(s, p, TRUE))
        /\ WF_vars(Tick(s))
        /\ WF_vars(WatchFails(s) /\ ~connected)

Spec == Init /\ [][Next]_vars /\ Fairness
-----------------------------------------------------------------------------
(* Properties *)

\* What keeps an application from being read: no connection, a root listener or
\* its own listener that has exited, or a provider that cannot be made sense of.
IsUnread(s) ==
    \/ ~connected
    \/ listener[s] = "exited"
    \/ ~root /\ listener[s] = "none"
    \/ providers[s] \cap Unusable # {}

\* An application that keeps providers is in the end routed to one of them,
\* whatever was read, replaced or failed before: providers that come later are
\* added, and a failed read is made up for by the ticker.
ApplicationIsRouted ==
    \A s \in Application :
        <>[](\/ providers[s] = {} \/ IsUnread(s)
             \/ \E m \in AnyMethod, p \in providers[s] :
                    <<s, m>> \in apis /\ <<s, m, p>> \in endpoints)
=============================================================================
