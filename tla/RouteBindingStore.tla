--------------------------- MODULE RouteBindingStore ---------------------------
(***************************************************************************)
(* The admin server's store of route bindings (admin/logic/                *)
(* route_binding.go) over etcd.  A binding is edited as a draft and        *)
(* published: one transaction writes the published binding, the runtime    *)
(* resource and method the gateways watch, a history record and the        *)
(* generation marker.                                                      *)
(*                                                                         *)
(* etcd is the partial function kv from keys to values with the revision   *)
(* that last wrote them.  A request reads some keys, decides, and commits  *)
(* a transaction that compares revisions; requests of several clients      *)
(* interleave between any two of these steps.  After the marker has been   *)
(* read, the other reads of a publish are one step: every write of what    *)
(* they read either moves the marker or is compared on its own, so a       *)
(* request that sees parts of two states loses its transaction.            *)
(*                                                                         *)
(* A binding's object is its route, an HTTP verb with a path up to what    *)
(* runtimeRouteConflictKey makes of them.  Validation, normalisation and   *)
(* the YAML of the runtime values are left out.                            *)
(***************************************************************************)
EXTENDS Naturals, FiniteSets, FiniteSetsExt, TLC

CONSTANTS
    Client,      \* requests that can be under way at once
    Name,        \* route binding names
    Verb, Path,
    NoCall,
    MaxCalls,    \* bound: requests started
    MaxIDRetries \* maxRouteBindingIDRetries

ASSUME StoreAssumption == MaxCalls \in Nat /\ MaxIDRetries \in Nat \ {0}

VARIABLES
    kv,    \* etcd: key -> [val, rev]
    rev,   \* etcd's revision
    call,  \* per client, the request under way
    calls  \* requests started

vars == <<kv, rev, call, calls>>

Route == [verb : Verb, path : Path]

-----------------------------------------------------------------------------
DraftKey(n) == <<"draft", n>>
PublishedKey(n) == <<"published", n>>
HistoryKey(n, g) == <<"history", n, g>>
ResourceKey(i) == <<"resource", i>>
MethodKey(i, m) == <<"method", i, m>>
Marker == <<"marker">>
ResourceCounter == <<"resourceID">>

Exists(k) == k \in DOMAIN kv
Val(k) == kv[k].val
KeysOf(kind) == {k \in DOMAIN kv : k[1] = kind}

\* Compare(ModRevision(k), "=", r), and Compare(CreateRevision(k), "=", 0) for r = 0.
ModRevision(k) == IF Exists(k) THEN kv[k].rev ELSE 0
Holds(comparisons) == \A cmp \in comparisons : ModRevision(cmp[1]) = cmp[2]

\* A transaction: deletes, then puts.
Txn(comparisons, puts, deletes) ==
    [comparisons |-> comparisons, puts |-> puts, deletes |-> deletes]

\* The keys of a resource's methods, runtime or draft.
Below(k) == {j \in KeysOf(IF k[1] = "resource" THEN "method" ELSE "draft method") : j[2] = k[2]}

\* A resource is always deleted with everything below it
\* (runtimeResourceDeleteOperations, deleteLegacyResource).
Dropped(t) ==
    t.deletes \cup UNION {Below(k) : k \in {j \in t.deletes : j[1] \in {"resource", "draft resource"}}}

Apply(t) ==
    /\ rev' = rev + 1
    /\ kv' = [k \in DOMAIN t.puts |-> [val |-> t.puts[k], rev |-> rev + 1]]
                @@ [k \in DOMAIN kv \ Dropped(t) |-> kv[k]]

\* The request of c goes on as next, with nothing written.
Goes(c, next) == call' = [call EXCEPT ![c] = next] /\ UNCHANGED <<kv, rev, calls>>

\* The console's client c has no request under way.
Idle(c) == call[c] = NoCall /\ calls < MaxCalls

\* A new request of c whose first reads succeed and leave it at next.
Starts(c, next) ==
    /\ Idle(c)
    /\ calls' = calls + 1
    /\ call' = [call EXCEPT ![c] = next]
    /\ UNCHANGED <<kv, rev>>

At(c, step) == call[c] # NoCall /\ call[c].at = step

-----------------------------------------------------------------------------
(***************************************************************************)
(* Saving a draft.  A request is a record of the binding's name, its new   *)
(* object, whether it must create the draft, the draft revision the caller *)
(* saw (0: unconditional), whether the binding must be absent, and the     *)
(* history generation a rollback restores (0: a plain save).               *)
(***************************************************************************)
Accepts(r) ==
    /\ r.create => ~Exists(DraftKey(r.name))
    /\ r.absent => ~Exists(PublishedKey(r.name))
    /\ r.expected > 0 => ModRevision(DraftKey(r.name)) = r.expected

\* The runtime identity of the draft, else of the published binding, else 0.
KnownIdentity(n) ==
    CASE Exists(DraftKey(n)) -> Val(DraftKey(n)).id
      [] ~Exists(DraftKey(n)) /\ Exists(PublishedKey(n)) -> Val(PublishedKey(n)).id
      [] OTHER -> 0

resolveRuntimeIdentity(r) ==
    LET id == KnownIdentity(r.name)
    IN  IF id > 0 THEN [at |-> "commitDraft", req |-> r, id |-> id]
                  ELSE [at |-> "readCounter", req |-> r, tries |-> MaxIDRetries]

saveDraft(c, r) == Accepts(r) /\ Starts(c, resolveRuntimeIdentity(r))

Request(n, object, create, expected) ==
    [name |-> n, object |-> object, create |-> create, expected |-> expected,
     absent |-> FALSE, restores |-> 0]

\* SaveDraft as POST (create) and as PUT, with and without the revision.
SaveDraft(c, n, object) ==
    \/ saveDraft(c, Request(n, object, TRUE, 0))
    \/ \E expected \in {0, ModRevision(DraftKey(n))} :
          saveDraft(c, Request(n, object, FALSE, expected))

\* tryAllocateRuntimeID: the counter, and the highest resource ID in use.
ReadCounter(c) ==
    LET counter == IF Exists(ResourceCounter) THEN Val(ResourceCounter) ELSE 0
        next == Max({counter} \cup {k[2] : k \in KeysOf("resource")}) + 1
    IN
    /\ At(c, "readCounter")
    /\ Goes(c, [at |-> "commitCounter", req |-> call[c].req, tries |-> call[c].tries - 1,
                id |-> next, seen |-> ModRevision(ResourceCounter)])

\* The compare-and-set of the counter; a lost race reads it again.
CommitCounter(c) ==
    LET t == Txn({<<ResourceCounter, call[c].seen>>}, ResourceCounter :> call[c].id, {})
    IN
    /\ At(c, "commitCounter")
    /\ \/ /\ Holds(t.comparisons)
          /\ Apply(t)
          /\ call' = [call EXCEPT ![c] = [at |-> "commitDraft", req |-> @.req, id |-> @.id]]
          /\ UNCHANGED calls
       \/ /\ ~Holds(t.comparisons)
          /\ Goes(c, IF call[c].tries = 0 THEN NoCall
                     ELSE [at |-> "readCounter", req |-> call[c].req, tries |-> call[c].tries])

\* Mutant: the revision the caller saw is not compared again.
commitDraftUnguarded(r) ==
    IF r.create THEN {<<DraftKey(r.name), 0>>} ELSE {}

commitDraftComparisons(r) ==
    CASE r.create -> {<<DraftKey(r.name), 0>>} \cup
                        (IF r.absent THEN {<<PublishedKey(r.name), 0>>} ELSE {})
      [] ~r.create /\ r.expected > 0 -> {<<DraftKey(r.name), r.expected>>}
      [] OTHER -> {}

\* commitDraft.  A rollback goes on to publish what it finds saved.
commitDraft(c) ==
    LET r == call[c].req
        t == Txn(commitDraftComparisons(r),
                 DraftKey(r.name) :> [object |-> r.object, id |-> call[c].id], {})
    IN
    /\ At(c, "commitDraft")
    /\ \/ /\ Holds(t.comparisons)
          /\ Apply(t)
          /\ call' = [call EXCEPT ![c] = IF r.restores = 0 THEN NoCall
                                         ELSE [at |-> "saved", req |-> r, saved |-> rev + 1]]
          /\ UNCHANGED calls
       \/ ~Holds(t.comparisons) /\ Goes(c, NoCall)

-----------------------------------------------------------------------------
(***************************************************************************)
(* Publish and DeleteAndPublish.  The marker is read before anything else. *)
(***************************************************************************)
ReadsMarker(op, n, expected, restores, saved) ==
    [at |-> "prepare", op |-> op, name |-> n, expected |-> expected,
     restores |-> restores, saved |-> saved, marker |-> ModRevision(Marker)]

Publish(c, n) ==
    \E op \in {"publish", "delete"}, expected \in {0, ModRevision(DraftKey(n))} :
        Starts(c, ReadsMarker(op, n, expected, 0, 0))

\* nextPublishedGeneration
NextGeneration == IF Exists(Marker) THEN Val(Marker) + 1 ELSE 1

\* readPublishState and the caller's revision.
StateAccepted(p) ==
    /\ Exists(DraftKey(p.name)) \/ Exists(PublishedKey(p.name))
    /\ p.expected > 0 => ModRevision(DraftKey(p.name)) = p.expected

\* compileSnapshot: no other published binding has the route or the identity.
Compiles(n) ==
    \A k \in KeysOf("published") :
        k[2] # n => /\ Val(k).object # Val(DraftKey(n)).object
                    /\ Val(k).id # Val(DraftKey(n)).id

\* checkRuntimeRouteConflict: no runtime method has the route, save the one
\* the published binding owns.
NoRuntimeConflict(n) ==
    LET own == IF Exists(PublishedKey(n))
               THEN {MethodKey(Val(PublishedKey(n)).id, Val(PublishedKey(n)).id)} ELSE {}
    IN  \A k \in KeysOf("method") \ own : Val(k) # Val(DraftKey(n)).object

buildPublishComparisons(p) ==
    {<<PublishedKey(p.name), ModRevision(PublishedKey(p.name))>>, <<Marker, p.marker>>}
        \cup (IF Exists(DraftKey(p.name))
              THEN {<<DraftKey(p.name), ModRevision(DraftKey(p.name))>>} ELSE {})

\* The runtime resource of the published binding, as a set of at most one.
OldResource(n) == IF Exists(PublishedKey(n)) THEN {ResourceKey(Val(PublishedKey(n)).id)} ELSE {}

Recorded(n, record) == (HistoryKey(n, NextGeneration) :> record) @@ (Marker :> NextGeneration)

\* A history record without a binding.
Deleted == [object |-> NoCall, id |-> 0]

\* buildSinglePublishOperations with a draft: the binding's runtime resource
\* and method are written, those of a former identity removed.
PublishTxn(p) ==
    LET b == Val(DraftKey(p.name)) IN
    Txn(buildPublishComparisons(p),
        (ResourceKey(b.id) :> b.object.path) @@ (MethodKey(b.id, b.id) :> b.object)
            @@ (PublishedKey(p.name) :> b) @@ Recorded(p.name, b),
        OldResource(p.name) \ {ResourceKey(b.id)})

\* DeleteAndPublish, and Publish of a binding whose draft is gone: what exists
\* of draft and published binding is removed, with the runtime identity.
RemovalTxn(p) ==
    Txn(buildPublishComparisons(p), Recorded(p.name, Deleted),
        {k \in {DraftKey(p.name), PublishedKey(p.name)} : Exists(k)} \cup OldResource(p.name))

Prepare(c) ==
    LET p == call[c]
        publishes == p.op = "publish" /\ Exists(DraftKey(p.name))
        ready(t) == [at |-> "commit", op |-> p.op, name |-> p.name, restores |-> p.restores,
                     overtaken |-> p.saved # p.expected, txn |-> t, next |-> NoCall]
    IN
    /\ At(c, "prepare")
    /\ \/ /\ StateAccepted(p) /\ publishes
          /\ Compiles(p.name) /\ NoRuntimeConflict(p.name)
          /\ Goes(c, ready(PublishTxn(p)))
       \/ StateAccepted(p) /\ ~publishes /\ Goes(c, ready(RemovalTxn(p)))
       \/ /\ ~StateAccepted(p) \/ (publishes /\ ~(Compiles(p.name) /\ NoRuntimeConflict(p.name)))
          /\ Goes(c, NoCall)

Commit(c) ==
    LET t == call[c].txn IN
    /\ At(c, "commit")
    /\ \/ /\ Holds(t.comparisons)
          /\ Apply(t)
          /\ call' = [call EXCEPT ![c] = @.next]
          /\ UNCHANGED calls
       \/ ~Holds(t.comparisons) /\ Goes(c, NoCall)

-----------------------------------------------------------------------------
(***************************************************************************)
(* Rollback.  History records never change, so reading one is part of the  *)
(* step that follows.  The caller names the draft revision it saw, or that *)
(* the binding was absent.                                                 *)
(***************************************************************************)
Rollback(c, n, g) ==
    LET record == Val(HistoryKey(n, g))
        request == [Request(n, record.object, ~Exists(DraftKey(n)), ModRevision(DraftKey(n)))
                        EXCEPT !.absent = ~Exists(DraftKey(n)), !.restores = g]
    IN
    /\ Exists(HistoryKey(n, g))
    /\ \/ record # Deleted /\ saveDraft(c, request)
       \/ /\ record = Deleted /\ Exists(DraftKey(n))
          /\ Starts(c, ReadsMarker("delete", n, ModRevision(DraftKey(n)), g, 0))

\* saveDraft reads the draft back, and its revision goes to Publish: the one this
\* rollback stored, or what another client has saved over it in the meantime.
RollbackReadsBack(c) ==
    LET n == call[c].req.name IN
    /\ At(c, "saved")
    /\ Goes(c, IF Exists(DraftKey(n))
               THEN [at |-> "publishSaved", req |-> call[c].req, saved |-> call[c].saved,
                     expected |-> ModRevision(DraftKey(n))]
               ELSE NoCall)

RollbackPublishes(c) ==
    /\ At(c, "publishSaved")
    /\ Goes(c, ReadsMarker("publish", call[c].req.name, call[c].expected,
                            call[c].req.restores, call[c].saved))

-----------------------------------------------------------------------------
Begin(c) ==
    /\ Idle(c)
    /\ \/ \E n \in Name : Publish(c, n) \/ \E object \in Route : SaveDraft(c, n, object)
       \/ \E k \in KeysOf("history") : Rollback(c, k[2], k[3])

Continue(c) ==
    \/ ReadCounter(c) \/ CommitCounter(c) \/ commitDraft(c)
    \/ Prepare(c) \/ Commit(c)
    \/ RollbackReadsBack(c) \/ RollbackPublishes(c)
=============================================================================
