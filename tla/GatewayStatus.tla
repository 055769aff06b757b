---------------------------- MODULE GatewayStatus ----------------------------
(***************************************************************************)
(* What the Kubernetes controller reports on Gateways and GatewayClasses.  *)
(*                                                                         *)
(* getListenerStatus counts the HTTPRoutes each listener of a Gateway      *)
(* accepts and keeps or renews the status that stands at the listener's    *)
(* index.  The statuses go through a Go map, so their order on the Gateway *)
(* is any, and through the channel of the status updater, which drops an   *)
(* update whose write fails.  Routes count only while their own status     *)
(* names the Gateway; nothing in this program writes that status, other    *)
(* writers may, and no watch reports it, nor a Secret.  A host name is the *)
(* sequence of its labels; <<>> stands for none.                           *)
(*                                                                         *)
(* GatewayClassReconciler puts a finalizer on every class of this          *)
(* controller, accepts the class, and takes the finalizer off again when   *)
(* the class is being deleted and no Gateway names it any more.  Reads come*)
(* from the client's cache, which learns of Gateways late; a write with an *)
(* old resource version is refused.                                        *)
(***************************************************************************)
EXTENDS Naturals, Sequences, FiniteSets, FiniteSetsExt

CONSTANTS
    Specs,          \* listeners that the Gateway may have, in order
    Routes,         \* HTTPRoutes that may exist
    FirstRoutes,    \* sets of them that may be there at first
    Namespace,      \* namespace of the Gateway
    Selected,       \* namespaces that the listeners' selectors match
    MaxEdits,       \* edits of the objects
    MaxOutbox,      \* updates in the updater's channel
    MaxDrops,       \* updates whose write fails
    Gateway,        \* Gateways that may name the class
    MaxVersion      \* writes of the class

VARIABLES
    spec, generation,   \* the Gateway's listeners and metadata.generation
    routes,             \* HTTPRoutes in the cluster
    accepted,           \* those whose status names the Gateway
    missing,            \* the certificate that listeners name is not there
    requested,          \* a request for the Gateway is queued
    outbox,             \* channel of the status updater
    listed,             \* status.listeners
    unseen,             \* routes were accepted or not since the last reconcile
    dropped,            \* the last update was dropped
    drops,              \* updates dropped so far
    uneven,             \* a reconcile treated some listener unlike the others
    editsMade,
    class,              \* the object: phase, finalizer, accepted, version
    gateways,           \* the Gateways that name the class
    cached,             \* those that the client's cache knows
    late,               \* Gateways that the last listing could not know
    todo,               \* a request is queued
    pass                \* the reconcile under way

statusVars == <<spec, generation, routes, accepted, missing, requested, outbox, listed,
                unseen, dropped, drops, uneven, editsMade>>

-----------------------------------------------------------------------------
(* Host names                                                                *)

\* HostnamesMatch walks both names: after a "*" of the mask the next label of
\* the mask is looked for, and the first place where it stands is taken.
HostnamesMatch(mask, name) ==
    LET m == Len(mask)  n == Len(name)
        From(a, b) == {i \in b .. n : name[i] = mask[a]}
        walk[a \in 1 .. m + 1, b \in 1 .. n + 1, wildcard \in BOOLEAN] ==
            IF a > m \/ b > n THEN n - b = m - a
            ELSE IF wildcard /\ From(a, b) = {} THEN FALSE
            ELSE LET at == IF wildcard THEN Min(From(a, b)) ELSE b
                 IN  IF mask[a] = "*" THEN walk[a + 1, at + 1, TRUE]
                     ELSE mask[a] = name[at] /\ walk[a + 1, at + 1, FALSE]
    IN  walk[1, 1, FALSE]

HostnamesIntersect(a, b) == HostnamesMatch(a, b) \/ HostnamesMatch(b, a)

listenerHostnameIntersectWithRouteHostnames(l, hostnames) ==
    \/ hostnames = {}
    \/ l.hostname = <<>>
    \/ \E h \in hostnames : HostnamesIntersect(l.hostname, h)
-----------------------------------------------------------------------------
(* Which routes a listener accepts                                            *)

\* HTTP, or HTTPS that is terminated here.
routeMatchesListenerType(l) ==
    \/ l.protocol = "HTTP"
    \/ l.protocol = "HTTPS" /\ l.tls = "Terminate"

isRouteKindAllowed(l) == l.kinds = {} \/ "HTTPRoute" \in l.kinds

\* "Same" is held against the namespace that the reference names, if any, and a
\* selector against the labels of the route's namespace.
isRouteNamespaceAllowed(r, l, ref) ==
    CASE l.from = "Same" -> r.namespace = (IF ref.namespace = <<>> THEN Namespace ELSE ref.namespace[1])
      [] l.from = "Selector" -> r.namespace \in Selected
      [] OTHER -> TRUE

\* A route that is not allowed is an error, not a refusal.
checkRouteAcceptedByListener(r, l, ref) ==
    IF \/ ref.section \notin {"", l.name} \/ ref.port \notin {0, l.port}
       \/ ~routeMatchesListenerType(l)
       \/ ~listenerHostnameIntersectWithRouteHostnames(l, r.hostnames)
    THEN "no"
    ELSE IF isRouteKindAllowed(l) /\ isRouteNamespaceAllowed(r, l, ref) THEN "yes" ELSE "error"

\* The references of the routes whose status names the Gateway.
References == UNION {{r} \X DOMAIN r.refs : r \in routes \cap accepted}

Verdict(l, rk) == checkRouteAcceptedByListener(rk[1], l, rk[1].refs[rk[2]])

\* Every reference that is accepted counts, whichever Gateway it names.
getAttachedRoutesForListener(l) == Cardinality({rk \in References : Verdict(l, rk) = "yes"})

\* The first error ends the reconcile, before anything is reported.
Refused == \E i \in DOMAIN spec : \E rk \in References : Verdict(spec[i], rk) = "error"
-----------------------------------------------------------------------------
(* The reconcile                                                             *)

\* SetGatewayListenerConditionProgrammed and ..ResolvedRefs: no longer all true.
setListenerCondition(status) == [status EXCEPT !.ok = FALSE]

\* The status that bears the name of a listener whose certificate cannot be
\* read is marked.
processListenerConfig ==
    [i \in DOMAIN listed |->
        IF missing /\ \E k \in DOMAIN spec : spec[k].name = listed[i].name /\ spec[k].protocol = "HTTPS"
        THEN setListenerCondition(listed[i]) ELSE listed[i]]

\* Mutant: conditions are compared without the generation they speak of.
presentWhateverGeneration(status, n) == status.ok /\ status.count = n

\* The four conditions are there, true and of this generation.
IsConditionPresentAndEqual(status, n) ==
    status.ok /\ status.generation = generation /\ status.count = n

\* The status of the i-th listener is the i-th status when that says the same.
statusOf(statuses, i) ==
    LET n == getAttachedRoutesForListener(spec[i])
    IN  IF i \in DOMAIN statuses /\ IsConditionPresentAndEqual(statuses[i], n)
        THEN statuses[i]
        ELSE [name |-> spec[i].name, count |-> n, generation |-> generation, ok |-> TRUE]

Orders(n) == {p \in [1 .. n -> 1 .. n] : \A i, j \in 1 .. n : p[i] = p[j] => i = j}

getListenerStatus(statuses) ==
    {[i \in DOMAIN spec |-> statusOf(statuses, p[i])] : p \in Orders(Len(spec))}

Counts == {getAttachedRoutesForListener(spec[i]) : i \in DOMAIN spec}

\* Reads the Gateway as it is, updates that are still in the channel left out,
\* and hands the statuses to the updater. A refused reconcile comes back.
Reconcile ==
    /\ requested
    /\ ~Refused
    /\ Len(outbox) < MaxOutbox
    /\ requested' = FALSE
    /\ \E statuses \in getListenerStatus(processListenerConfig) : outbox' = Append(outbox, statuses)
    /\ unseen' = FALSE
    /\ uneven' = (uneven \/ missing \/ Cardinality(Counts) > 1)
    /\ UNCHANGED <<spec, generation, routes, accepted, missing, listed, dropped, drops, editsMade>>

\* UpdateHandler.apply: the mutator puts the statuses on the Gateway as it is by
\* then; a conflict is retried and any other error is logged.
apply ==
    /\ outbox # <<>>
    /\ outbox' = Tail(outbox)
    /\ \/ /\ listed' = Head(outbox)
          /\ dropped' = FALSE
          /\ UNCHANGED drops
       \/ /\ drops < MaxDrops
          /\ drops' = drops + 1
          /\ dropped' = TRUE
          /\ UNCHANGED listed
    /\ UNCHANGED <<spec, generation, routes, accepted, missing, requested, unseen, uneven, editsMade>>

\* A resynchronisation brings the Gateway back without any change.
Resync ==
    /\ ~requested
    /\ requested' = TRUE
    /\ UNCHANGED <<spec, generation, routes, accepted, missing, outbox, listed,
                   unseen, dropped, drops, uneven, editsMade>>

\* Generations of Gateways and routes are watched; a route's status and the
\* Secrets are not.
Edit ==
    /\ editsMade < MaxEdits
    /\ editsMade' = editsMade + 1
    /\ \/ /\ spec' \in Specs \ {spec}
          /\ generation' = generation + 1
          /\ requested' = TRUE
          /\ UNCHANGED <<routes, accepted, missing, unseen>>
       \/ /\ \E r \in Routes : routes' = IF r \in routes THEN routes \ {r} ELSE routes \cup {r}
          /\ requested' = TRUE
          /\ UNCHANGED <<spec, generation, accepted, missing, unseen>>
       \/ /\ \E r \in routes : accepted' = IF r \in accepted THEN accepted \ {r} ELSE accepted \cup {r}
          /\ unseen' = TRUE
          /\ UNCHANGED <<spec, generation, routes, missing, requested>>
       \/ /\ missing' = ~missing
          /\ UNCHANGED <<spec, generation, routes, accepted, requested, unseen>>
    /\ UNCHANGED <<outbox, listed, dropped, drops, uneven>>

\* Some routes are there, all of them accepted or none.
StatusInit ==
    /\ spec \in Specs
    /\ generation = 1
    /\ routes \in FirstRoutes
    /\ accepted \in {{}, routes}
    /\ missing = FALSE
    /\ requested = TRUE
    /\ outbox = <<>> /\ listed = <<>>
    /\ unseen = FALSE /\ dropped = FALSE /\ uneven = FALSE
    /\ drops = 0 /\ editsMade = 0

StatusNext == Reconcile \/ apply \/ Resync \/ Edit

StatusSpec == StatusInit /\ [][StatusNext]_statusVars
-----------------------------------------------------------------------------
\* What the Gateway API means: a mask covers the names that end in what
\* follows its wildcard.
Covers(mask, name) ==
    IF Head(mask) = "*"
    THEN Len(name) >= Len(mask) /\ SubSeq(name, Len(name) - Len(mask) + 2, Len(name)) = Tail(mask)
    ELSE mask = name

Attaches(r, l, ref) ==
    /\ ref.section \in {"", l.name} /\ ref.port \in {0, l.port}
    /\ <<l.protocol, l.tls>> \in {<<"HTTP", "none">>, <<"HTTPS", "Terminate">>}
    /\ \/ r.hostnames = {} \/ l.hostname = <<>>
       \/ \E h \in r.hostnames : Covers(h, l.hostname) \/ Covers(l.hostname, h)

AttachedTo(l) ==
    MapThenSumSet(LAMBDA r : Cardinality({k \in DOMAIN r.refs : Attaches(r, l, r.refs[k])}), routes \cap accepted)

\* Nothing is queued and the last update was written.
Reported == ~requested /\ outbox = <<>> /\ ~dropped

\* When the controller is at rest the numbers of attached routes on the Gateway
\* are those of its listeners, by the meaning of sections, protocols and
\* wildcard host names, though the statuses that seemed unchanged were kept
\* and updates were still under way.  The claim leaves out an update that the
\* updater dropped and routes whose status changed since, of which no watch
\* tells; routes that no one accepted count for nothing.  No label occurs
\* twice in a name: the walk does not come back to an earlier choice.
CountsAreCurrent ==
    Reported /\ ~unseen => \A n \in {listed[i].count : i \in DOMAIN listed} \cup {AttachedTo(spec[i]) : i \in DOMAIN spec} :
        Cardinality({i \in DOMAIN listed : listed[i].count = n})
            = Cardinality({i \in DOMAIN spec : AttachedTo(spec[i]) = n})

\* When the controller is at rest every listener has its own status, whatever
\* the order in which earlier ones were written, as long as the listeners were
\* alike: statuses are compared by index, so that with different counts or a
\* missing certificate one listener's status can be kept under another's name.
\* Nothing is said of the conditions in it: the mark of a certificate that
\* cannot be read makes the status differ from the one that is wanted, which
\* then replaces it, so that such a listener is reported as programmed.
OneStatusPerListener ==
    Reported /\ ~uneven =>
        {listed[i].name : i \in DOMAIN listed} = {spec[i].name : i \in DOMAIN spec}

-----------------------------------------------------------------------------
(* The finalizer of a GatewayClass                                         *)

classVars == <<class, gateways, cached, late, todo, pass>>

Rest == [pc |-> "idle"]

-----------------------------------------------------------------------------
(* Users                                                                     *)

Create(g) ==
    /\ g \notin gateways
    /\ gateways' = gateways \cup {g}
    /\ late' = late \cup {g}
    /\ UNCHANGED <<class, cached, todo, pass>>

Remove(g) ==
    /\ g \in gateways
    /\ gateways' = gateways \ {g}
    /\ UNCHANGED <<class, cached, late, todo, pass>>

\* The informer catches up.
Sync ==
    /\ cached # gateways
    /\ cached' = gateways
    /\ UNCHANGED <<class, gateways, late, todo, pass>>

\* Without a finalizer the object goes at once.
Delete ==
    /\ class.phase = "present"
    /\ class.version < MaxVersion
    /\ class' = [class EXCEPT !.phase = IF class.finalizer THEN "deleting" ELSE "gone",
                              !.version = @ + 1]
    /\ todo' = TRUE
    /\ UNCHANGED <<gateways, cached, late, pass>>
-----------------------------------------------------------------------------
(* GatewayClassReconciler.Reconcile                                           *)

\* Get the class and, when it is being deleted, list its Gateways; while there
\* are some the request comes back after five seconds.
Read ==
    /\ pass.pc = "idle" /\ todo
    /\ LET blocked == class.phase = "deleting" /\ class.finalizer /\ cached # {}
       IN  /\ todo' = blocked
           /\ pass' = IF class.phase = "gone" \/ blocked THEN Rest
                      ELSE [pc |-> IF class.phase = "deleting" THEN "release" ELSE "protect",
                            read |-> class]
    /\ late' = gateways \ cached
    /\ UNCHANGED <<class, gateways, cached>>

Conflict == pass.read.version # class.version \/ class.phase = "gone"

\* A write that fails brings the request back.
Refuse ==
    /\ pass.pc \in {"protect", "release"}
    /\ Conflict
    /\ todo' = TRUE
    /\ pass' = Rest
    /\ UNCHANGED <<class, gateways, cached, late>>

\* AddFinalizer and Update, unless it is there.
Protect ==
    /\ pass.pc = "protect"
    /\ \/ pass.read.finalizer /\ UNCHANGED class
       \/ /\ ~pass.read.finalizer
          /\ ~Conflict /\ class.version < MaxVersion
          /\ class' = [class EXCEPT !.finalizer = TRUE, !.version = @ + 1]
    /\ pass' = [pass EXCEPT !.pc = "accept"]
    /\ UNCHANGED <<gateways, cached, late, todo>>

\* The condition goes through the status updater, which reads the object anew
\* and may drop it.
Accept ==
    /\ pass.pc = "accept"
    /\ class' \in {class} \cup (IF class.phase = "gone" THEN {} ELSE {[class EXCEPT !.accepted = TRUE]})
    /\ pass' = Rest
    /\ UNCHANGED <<gateways, cached, late, todo>>

\* RemoveFinalizer and Update: the object goes.  Gateways that were created
\* since the list, or that the cache did not know, keep naming it.
Release ==
    /\ pass.pc = "release"
    /\ ~Conflict
    /\ class' = [class EXCEPT !.phase = "gone", !.finalizer = FALSE]
    /\ pass' = Rest
    /\ UNCHANGED <<gateways, cached, late, todo>>

ClassInit ==
    /\ class = [phase |-> "present", finalizer |-> FALSE, accepted |-> FALSE, version |-> 0]
    /\ gateways = {} /\ cached = {} /\ late = {}
    /\ todo = TRUE
    /\ pass = Rest

ClassNext ==
    \/ \E g \in Gateway : Create(g) \/ Remove(g)
    \/ Sync \/ Delete
    \/ Read \/ Refuse \/ Protect \/ Accept \/ Release

ClassSpec == ClassInit /\ [][ClassNext]_classVars
-----------------------------------------------------------------------------
\* A class that was accepted goes only when no Gateway names it but those that
\* the listing could not know of: conflicting writes, a deletion that comes
\* before the finalizer and Gateways that come and go meanwhile included.
NoOrphanedGateway ==
    class.phase = "gone" /\ class.accepted => gateways \subseteq late

\* What the controller reports holds: the statuses on a Gateway name its
\* listeners and count their routes, and a class it accepted stays while
\* Gateways are known to need it.
ReportsAreTrue == CountsAreCurrent /\ OneStatusPerListener /\ NoOrphanedGateway
=============================================================================
