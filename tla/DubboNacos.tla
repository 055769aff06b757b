------------------------------ MODULE DubboNacos ------------------------------
(***************************************************************************)
(* The Nacos side of the Dubbo and LLM registry adapters                   *)
(* (pkg/adapter/dubboregistry/registry/nacos, pkg/adapter/llmregistry).    *)
(*                                                                         *)
(* A watch goroutine polls the names of the registered services.  For a    *)
(* new one it makes a listener and subscribes it; Nacos then calls the     *)
(* listener back with the whole list of instances whenever it changes, and *)
(* the listener turns the difference to its cache into endpoints and       *)
(* routes.  The three kinds of listener differ in what they do with a      *)
(* subscription that failed, with a service that left the list and with an *)
(* empty list:                                                             *)
(*   interface    one endpoint per exported method of an instance          *)
(*   application  one endpoint per instance under the method "*"           *)
(*   llm          one endpoint per instance, in the cluster its metadata   *)
(*                names; an empty list is ignored                          *)
(* A report may come with an error and is then dropped; an instance whose  *)
(* data makes no URL or endpoint is cached and not served; and an          *)
(* application's URLs are asked of its metadata report, which may fail.    *)
(* None of these is tried again before the next report.                    *)
(***************************************************************************)
EXTENDS Naturals, FiniteSets

CONSTANTS
    Interface,      \* services of the interface listener
    Application,    \* services of the application listener
    Llm,            \* services of the LLM listener
    Instance,       \* addresses (host:port) or instance ids
    Steady,         \* the instances that never change what they export
    Slot,           \* what an instance exports: methods, or its cluster
    MaxFailTimes,   \* a Dubbo watch gives up after so many failures in a row
    MaxEdits,       \* bound: registrations and deregistrations
    MaxFaults       \* bound: calls to Nacos that fail

Service == Interface \cup Application \cup Llm

VARIABLES
    nacos,      \* nacos[s][i]: what instance i of s exports; {} if it is gone
    listed,     \* the services Nacos lists
    known,      \* serviceInfoMap, appInfoMap, subscribedServices
    due,        \* services with a change Nacos has not reported
    caches,     \* caches[s]: instanceMap of each listener Nacos calls back
    missed,     \* services whose last report was dropped, or used in part
    kept,       \* endpoints whose removal failed
    served,     \* the endpoints <<s, slot, i>> in the cluster manager
    routed,     \* the routes <<s, slot>> in the router manager
    failTimes,  \* failures in a row of the Dubbo watch
    watching,   \* the Dubbo watch goroutine runs
    edits, faults

vars == <<nacos, listed, known, due, caches, missed, kept, served, routed,
          failTimes, watching, edits, faults>>

\* What an instance of a service may export.
Values(s, i) ==
    IF s \in Llm THEN {{m} : m \in Slot}
    ELSE IF i \in Steady THEN {Slot}
    ELSE SUBSET Slot \ {{}}

\* An instance without path, interface or protocol, or without a cluster.
Unusable == {"unusable"}

Cache == [Instance -> SUBSET Slot \cup {Unusable}]

Empty == [i \in Instance |-> {}]

TypeOK ==
    /\ nacos \in [Service -> Cache]
    /\ listed \in SUBSET Service
    /\ known \in SUBSET Service
    /\ due \in SUBSET Service
    /\ caches \in [Service -> SUBSET Cache]
    /\ missed \in SUBSET Service
    /\ kept \in SUBSET (Application \X {"*"} \X Instance)
    /\ served \in SUBSET (Service \X (Slot \cup {"*"}) \X Instance)
    /\ routed \in SUBSET (Service \X (Slot \cup {"*"}))
    /\ failTimes \in 0 .. MaxFailTimes + 1
    /\ watching \in BOOLEAN
    /\ edits \in 0 .. MaxEdits
    /\ faults \in 0 .. MaxFaults

Init ==
    /\ nacos = [s \in Service |-> Empty]
    /\ listed = {}
    /\ known = {}
    /\ due = {}
    /\ caches = [s \in Service |-> {}]
    /\ missed = {}
    /\ kept = {}
    /\ served = {}
    /\ routed = {}
    /\ failTimes = 0
    /\ watching = TRUE
    /\ edits = 0
    /\ faults = 0

Exports(c) == {i \in Instance : c[i] # {}}
-----------------------------------------------------------------------------
(* Nacos *)

\* A provider registers, changes what it exports, or leaves.
Edit(s, i, v) ==
    /\ edits < MaxEdits
    /\ v \in Values(s, i) \cup {{}} \cup (IF i \in Steady \/ s \in Application THEN {} ELSE {Unusable})
    /\ nacos[s][i] # v
    /\ edits' = edits + 1
    /\ nacos' = [nacos EXCEPT ![s][i] = v]
    /\ listed' = listed \cup {s}
    /\ due' = due \cup {s}
    /\ UNCHANGED <<known, caches, missed, kept, served, routed, failTimes, watching, faults>>

\* A service without instances leaves the list.
Delist(s) ==
    /\ s \in listed
    /\ Exports(nacos[s]) = {}
    /\ listed' = listed \ {s}
    /\ UNCHANGED <<nacos, known, due, caches, missed, kept, served, routed, failTimes,
                   watching, edits, faults>>
-----------------------------------------------------------------------------
(* Callback: the difference of the reported list to the cache *)

\* What handle makes of an instance: an API per method, one API for any
\* method, or an endpoint of the cluster the metadata names.
Slots(s, v) == IF s \in Application THEN {"*"} ELSE v \ Unusable

Tuples(s, c, is) == UNION {{<<s, m, i>> : m \in Slots(s, c[i])} : i \in is}

\* The instances of the list that are new or differ, and the cached ones the
\* list has no more.  The application listener tests the wrong way round and
\* so handles every listed instance again.
Upserts(s, old, new) ==
    {i \in Exports(new) : s \in Application \/ old[i] # new[i]}

\* Mutant: the instances the list has no more are kept.
DeletesNothing(old, new) == {}

Deletes(old, new) == Exports(old) \ Exports(new)

\* Each listener is called with the list.  OnAddAPI and OnAddEndpoint set the
\* endpoint and add the route; OnRemoveAPI and OnRemoveEndpoint delete the
\* endpoint as the cache describes it and leave the route.  getURLs fails for
\* the instances of lost; the cache is replaced all the same.
Callback(s, new, lost) ==
    LET up == UNION {Tuples(s, new, Upserts(s, old, new) \ lost) : old \in caches[s]}
        down == UNION {Tuples(s, old, Deletes(old, new) \ lost) : old \in caches[s]}
    IN  /\ caches' = [caches EXCEPT ![s] = {new}]
        /\ served' = (served \ down) \cup up
        /\ routed' = IF s \in Llm THEN routed
                     ELSE routed \cup {<<t[1], t[2]>> : t \in up}
        /\ missed' = IF lost \cap Exports(new) = {} THEN missed \ {s} ELSE missed \cup {s}
        /\ kept' = kept \cup UNION {Tuples(s, old, Deletes(old, new) \cap lost) : old \in caches[s]}

\* Nacos reports the instances of a service to its listeners.
Push(s) ==
    /\ s \in due
    /\ due' = due \ {s}
    /\ IF caches[s] = {} \/ (s \in Llm /\ Exports(nacos[s]) = {})
       THEN UNCHANGED <<caches, served, routed, missed, kept>>
       ELSE Callback(s, nacos[s], {})
    /\ UNCHANGED <<nacos, listed, known, failTimes, watching, edits, faults>>

\* The report of an application's instances, some of which have no metadata.
PushWithoutMetadata(s) ==
    /\ s \in due \cap Application /\ caches[s] # {} /\ faults < MaxFaults
    /\ due' = due \ {s} /\ faults' = faults + 1
    /\ \E lost \in SUBSET Instance \ {{}} : Callback(s, nacos[s], lost)
    /\ UNCHANGED <<nacos, listed, known, failTimes, watching, edits>>

\* The listeners are called with an error and return.
PushFails(s) ==
    /\ s \in due /\ caches[s] # {} /\ faults < MaxFaults
    /\ due' = due \ {s} /\ faults' = faults + 1
    /\ missed' = missed \cup {s}
    /\ UNCHANGED <<nacos, listed, known, caches, kept, served, routed, failTimes, watching, edits>>
-----------------------------------------------------------------------------
(* The watch goroutines *)

\* updateServiceList for one Dubbo service that is listed and unknown: the
\* listener is recorded before Subscribe, whatever Subscribe returns.  A
\* fresh listener starts with an empty cache; the one before it is not
\* unsubscribed and goes on answering.
SubscribeDubbo(s, ok) ==
    /\ watching
    /\ s \in (Interface \cup Application) \cap (listed \ known)
    /\ ok \/ faults < MaxFaults
    /\ known' = known \cup {s}
    /\ due' = IF ok THEN due \cup {s} ELSE due
    /\ faults' = IF ok THEN faults ELSE faults + 1
    /\ caches' = IF ok THEN [caches EXCEPT ![s] = @ \cup {Empty}] ELSE caches
    /\ failTimes' = 0
    /\ UNCHANGED <<nacos, listed, missed, kept, served, routed, watching, edits>>

\* A Dubbo service that left the list: its listener is closed and forgotten;
\* Nacos is not told and nothing is removed.
ForgetDubbo(s) ==
    /\ watching
    /\ s \in (Interface \cup Application) \cap (known \ listed)
    /\ known' = known \ {s}
    /\ failTimes' = 0
    /\ UNCHANGED <<nacos, listed, due, caches, missed, kept, served, routed, watching,
                   edits, faults>>

\* GetAllServicesInfo fails in the Dubbo watch, which gives up after
\* MaxFailTimes failures in a row.
PollFails ==
    /\ watching
    /\ faults < MaxFaults
    /\ faults' = faults + 1
    /\ failTimes' = failTimes + 1
    /\ watching' = (failTimes' <= MaxFailTimes)
    /\ UNCHANGED <<nacos, listed, known, due, caches, missed, kept, served, routed, edits>>

\* discoverAndSubscribe of the LLM listener for one unsubscribed service:
\* a failed subscription is forgotten and tried again at the next poll.
SubscribeLlm(s, ok) ==
    /\ s \in Llm \cap (listed \ known)
    /\ ok \/ faults < MaxFaults
    /\ known' = IF ok THEN known \cup {s} ELSE known
    /\ caches' = IF ok THEN [caches EXCEPT ![s] = {Empty}] ELSE caches
    /\ due' = IF ok THEN due \cup {s} ELSE due
    /\ faults' = IF ok THEN faults ELSE faults + 1
    /\ UNCHANGED <<nacos, listed, missed, kept, served, routed, failTimes, watching, edits>>

\* An LLM service that left the list: unsubscribed, and its cache dropped.
ForgetLlm(s, ok) ==
    /\ s \in Llm \cap (known \ listed)
    /\ ok \/ faults < MaxFaults
    /\ faults' = IF ok THEN faults ELSE faults + 1
    /\ known' = IF ok THEN known \ {s} ELSE known
    /\ caches' = IF ok THEN [caches EXCEPT ![s] = {}] ELSE caches
    /\ UNCHANGED <<nacos, listed, due, missed, kept, served, routed, failTimes, watching, edits>>
-----------------------------------------------------------------------------
Next ==
    \/ \E s \in Service, i \in Instance, v \in SUBSET Slot \cup {Unusable} : Edit(s, i, v)
    \/ \E s \in Service : Delist(s) \/ Push(s) \/ PushWithoutMetadata(s) \/ PushFails(s) \/ ForgetDubbo(s)
    \/ \E s \in Service, ok \in BOOLEAN :
            SubscribeDubbo(s, ok) \/ SubscribeLlm(s, ok) \/ ForgetLlm(s, ok)
    \/ PollFails

\* Nacos reports every change; the watches poll for as long as they run.
Fairness ==
    \A s \in Service :
        /\ WF_vars(Push(s))
        /\ WF_vars(SubscribeDubbo(s, TRUE)) /\ WF_vars(ForgetDubbo(s))
        /\ WF_vars(SubscribeLlm(s, TRUE)) /\ WF_vars(ForgetLlm(s, TRUE))

Spec == Init /\ [][Next]_vars /\ Fairness
-----------------------------------------------------------------------------
(* Properties *)

\* What Nacos has registered for a service.
Registered(s) == Tuples(s, nacos[s], Exports(nacos[s]))

\* Once Nacos has nothing left to report, every instance of a service that is
\* subscribed is served for all it exports, although instances change what
\* they export, become unusable, services leave the list and return to a second
\* listener, and each kind of listener diffs against its own cache.  A report
\* that was dropped or used in part is made up for by the next one, not before.
SubscribedIsServed ==
    \A s \in Service \ (due \cup missed) : caches[s] # {} => Registered(s) \subseteq served

\* A subscribed Dubbo service serves no instance that has left, unless it had
\* changed the methods it exports: a listener that replaced another starts
\* with an empty cache and must not miss the instances that left in between.
\* An application's instance that leaves while its metadata cannot be read is
\* never removed (kept): the cache has forgotten it.
GoneIsNotServed ==
    \A s \in (Interface \cup Application) \ (due \cup missed) :
        caches[s] # {} => \A t \in served \ kept :
            t[1] = s /\ t[3] \in Steady => nacos[s][t[3]] # {}

\* An LLM service that keeps its instances is in the end served by all of
\* them, whatever subscriptions failed before, unless its last report was lost.
LlmIsServed ==
    \A s \in Llm : <>[](s \in missed \/ Registered(s) \subseteq served)
=============================================================================
