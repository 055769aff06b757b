---------------------------- MODULE LegacyResource ----------------------------
(***************************************************************************)
(* The Resource/Method API kept for older clients (admin/logic/            *)
(* legacy_resource.go and its handlers in admin/controller/configInfo),    *)
(* working on the same etcd and beside the route bindings: its published   *)
(* writes go to the runtime keys that bindings compile to.                 *)
(*                                                                         *)
(* A resource's value is its path; a method's is its verb with the path    *)
(* the method record carries (ResourcePath).  The gateway serves a method  *)
(* at its resource's path, the conflict checks look at the method's own.   *)
(***************************************************************************)
EXTENDS RouteBindingStore

DraftResourceKey(i) == <<"draft resource", i>>
DraftMethodKey(i, m) == <<"draft method", i, m>>
DraftRevisionKey(i) == <<"draft method revision", i>>
MethodCounter == <<"methodID">>

\* The keys of resource i and of its methods, among the drafts or published.
ResourceKeyIn(i, unpublished) == IF unpublished THEN DraftResourceKey(i) ELSE ResourceKey(i)
MethodKeyIn(i, m, unpublished) == IF unpublished THEN DraftMethodKey(i, m) ELSE MethodKey(i, m)
MethodsOf(i, unpublished) ==
    {k \in KeysOf(IF unpublished THEN "draft method" ELSE "method") : k[2] = i}

AsRead(k) == <<k, ModRevision(k)>>
Unconditional == {}

\* The request commits t and goes on as next.
Commits(t, next) ==
    [at |-> "commit", op |-> "legacy", txn |-> t, next |-> next]

\* The request publishes: runtime puts, draft puts in the same transaction.
Publishes(comparisons, puts, drafts, next) ==
    [at |-> "legacyMarker", comparisons |-> comparisons, puts |-> puts, drafts |-> drafts,
     next |-> next]

-----------------------------------------------------------------------------
(***************************************************************************)
(* publishLegacyResourceOperationsWithAdditional                           *)
(***************************************************************************)
LegacyReadsMarker(c) ==
    /\ At(c, "legacyMarker")
    /\ Goes(c, [call[c] EXCEPT !.at = "legacyPrepare",
                               !.comparisons = @ \cup {AsRead(Marker)}])

\* legacyResourcePublishRoutes: the methods, staged or already there, of the
\* resources the operations touch.
CandidateRoutes(puts) ==
    LET touched == {k[2] : k \in DOMAIN puts}
        staged == {k \in DOMAIN puts : k[1] = "method"}
    IN  [k \in staged \cup {j \in KeysOf("method") : j[2] \in touched} |->
            IF k \in staged THEN puts[k] ELSE Val(k)]

\* rejectLegacyAdminRouteBindingWrites
OwnedByBinding(puts) ==
    \E k \in KeysOf("published") :
        MethodKey(Val(k).id, Val(k).id) \in DOMAIN CandidateRoutes(puts)

findLegacyRuntimeRouteConflict(puts) ==
    LET candidates == CandidateRoutes(puts) IN
    \E k \in DOMAIN candidates :
        \/ \E j \in KeysOf("method") \ {k} : Val(j) = candidates[k]
        \/ \E j \in DOMAIN candidates \ {k} : candidates[j] = candidates[k]

LegacyPrepare(c) ==
    LET p == call[c]
        t == Txn(p.comparisons, p.puts @@ p.drafts @@ (Marker :> NextGeneration), {})
        rejected == OwnedByBinding(p.puts) \/ findLegacyRuntimeRouteConflict(p.puts)
    IN
    /\ At(c, "legacyPrepare")
    /\ Goes(c, IF rejected THEN NoCall ELSE Commits(t, p.next))

-----------------------------------------------------------------------------
\* nextLegacyID: read a counter, compare-and-set it, try again when that fails.
NewID(counter, then) == [at |-> "readID", counter |-> counter, tries |-> MaxIDRetries, then |-> then]

ReadID(c) ==
    LET k == call[c].counter IN
    /\ At(c, "readID")
    /\ Goes(c, [at |-> "commitID", counter |-> k, tries |-> call[c].tries - 1,
                then |-> call[c].then, seen |-> ModRevision(k),
                id |-> (IF Exists(k) THEN Val(k) ELSE 0) + 1])

\* What a request does with the ID it was given.
WithID(then, id) ==
    CASE then.op = "create" -> NewID(MethodCounter, [then EXCEPT !.op = "create method", !.id = id])
      [] OTHER -> [at |-> then.op, then |-> then, method |-> id]

CommitID(c) ==
    LET t == Txn({<<call[c].counter, call[c].seen>>}, call[c].counter :> call[c].id, {})
    IN
    /\ At(c, "commitID")
    /\ \/ /\ Holds(t.comparisons)
          /\ Apply(t)
          /\ call' = [call EXCEPT ![c] = WithID(@.then, @.id)]
          /\ UNCHANGED calls
       \/ /\ ~Holds(t.comparisons)
          /\ Goes(c, IF call[c].tries = 0 THEN NoCall
                     ELSE [NewID(call[c].counter, call[c].then) EXCEPT !.tries = call[c].tries])

-----------------------------------------------------------------------------
(***************************************************************************)
(* CreateResourceInfo with one method: published, the runtime and the      *)
(* draft copies are one transaction; as a draft, the resource is stored    *)
(* first and its method in a transaction of its own.                       *)
(***************************************************************************)
CreateResource(c, route, unpublished) ==
    Starts(c, NewID(ResourceCounter, [op |-> "create", id |-> 0, route |-> route,
                                      unpublished |-> unpublished, create |-> TRUE]))

CreateWithMethod(c) ==
    LET then == call[c].then
        i == then.id  m == call[c].method
        runtime == (ResourceKey(i) :> then.route.path) @@ (MethodKey(i, m) :> then.route)
        drafts == (DraftResourceKey(i) :> then.route.path) @@ (DraftMethodKey(i, m) :> then.route)
        absent == {<<k, 0>> : k \in DOMAIN runtime \cup DOMAIN drafts}
        method == [at |-> "save method", then |-> then, method |-> m]
    IN
    /\ At(c, "create method")
    /\ Goes(c, IF then.unpublished
               THEN Commits(Txn({<<DraftResourceKey(i), 0>>},
                                DraftResourceKey(i) :> then.route.path, {}), method)
               ELSE Publishes(absent, runtime, drafts, NoCall))

(***************************************************************************)
(* BizSetResourceMethod: a new method gets an ID, then the resource is     *)
(* read for its path and revision.  A PUT names its method's ID, and one   *)
(* of a published method that is not there creates it.                     *)
(***************************************************************************)
SetMethod(c, i, verb, unpublished) ==
    LET then == [op |-> "save method", id |-> i, route |-> [verb |-> verb, path |-> NoCall],
                 unpublished |-> unpublished, create |-> TRUE]
    IN
    \/ Exists(ResourceKeyIn(i, unpublished)) /\ Starts(c, NewID(MethodCounter, then))
    \/ \E m \in 1 .. MaxCalls :
          Starts(c, [at |-> "save method", then |-> [then EXCEPT !.create = FALSE], method |-> m])

SaveMethod(c) ==
    LET then == call[c].then
        i == then.id
        resource == ResourceKeyIn(i, then.unpublished)
        method == MethodKeyIn(i, call[c].method, then.unpublished)
        value == [verb |-> then.route.verb, path |-> Val(resource)]
        new == {<<method, 0>>}
    IN
    /\ At(c, "save method")
    /\ \/ ~Exists(resource) /\ Goes(c, NoCall)
       \/ /\ Exists(resource) /\ ~then.unpublished
          /\ Goes(c, Publishes({AsRead(resource)} \cup (IF then.create THEN new ELSE {}),
                               method :> value, << >>, NoCall))
       \/ /\ Exists(resource) /\ then.unpublished
          /\ then.create \/ Exists(method)
          /\ Goes(c, Commits(Txn({AsRead(resource), AsRead(DraftRevisionKey(i))}
                                    \cup (IF then.create THEN new ELSE {AsRead(method)}),
                                 (method :> value) @@ (DraftRevisionKey(i) :> 1), {}), NoCall))
       \/ Exists(resource) /\ then.unpublished /\ ~then.create /\ ~Exists(method) /\ Goes(c, NoCall)

(***************************************************************************)
(* ModifyResourceInfo.  A new path takes the methods along, in one         *)
(* transaction against the resource and the methods as they were read;     *)
(* otherwise the resource is written as the caller sent it, whatever it    *)
(* has become meanwhile.                                                   *)
(***************************************************************************)
ModifyResource(c, i, path, unpublished) ==
    LET k == ResourceKeyIn(i, unpublished) IN
    /\ Exists(k)
    /\ Starts(c, IF Val(k) # path
                 THEN [at |-> "move", id |-> i, path |-> path, unpublished |-> unpublished,
                       seen |-> AsRead(k)]
                 ELSE IF unpublished
                 THEN Commits(Txn(Unconditional, k :> path, {}), NoCall)
                 ELSE Publishes(Unconditional, k :> path, << >>, NoCall))

\* buildLegacyMethodUpdateOperations
MovedMethods(i, path, unpublished) ==
    [k \in MethodsOf(i, unpublished) |-> [Val(k) EXCEPT !.path = path]]

\* BizGetMethodListWithRevisions and BizUpdateResourceAndMethods.
MoveResource(c) ==
    LET p == call[c]
        puts == (p.seen[1] :> p.path) @@ MovedMethods(p.id, p.path, p.unpublished)
        snapshot == IF p.unpublished THEN DraftRevisionKey(p.id) ELSE Marker
        comparisons == {p.seen, AsRead(snapshot)}
                          \cup {AsRead(k) : k \in MethodsOf(p.id, p.unpublished)}
    IN
    /\ At(c, "move")
    /\ Goes(c, IF p.unpublished THEN Commits(Txn(comparisons, puts, {}), NoCall)
                                ELSE Publishes(comparisons, puts, << >>, NoCall))

(***************************************************************************)
(* Deletes.  deletePublishedLegacyRuntime refuses what a binding owns; a   *)
(* draft is deleted unless it was found published.                         *)
(***************************************************************************)
DeletePublished(c) ==
    \E k \in KeysOf("resource") \cup KeysOf("method") :
        Starts(c, [at |-> "legacyDelete", key |-> k, marker |-> ModRevision(Marker)])

\* Mutant: deletes do not look for an owner.
OwnsNothing(k) == FALSE

\* A published binding owns the resource, or the very method.
Owned(k) ==
    \E b \in KeysOf("published") :
        Val(b).id = k[2] /\ (k[1] = "resource" \/ k[3] = Val(b).id)

LegacyDelete(c) ==
    LET k == call[c].key
        t == Txn({<<Marker, call[c].marker>>}, Marker :> NextGeneration,
                 {k})
    IN
    /\ At(c, "legacyDelete")
    /\ Goes(c, IF Owned(k) THEN NoCall ELSE Commits(t, NoCall))

DeleteDraft(c) ==
    \/ \E k \in KeysOf("draft resource") :
          /\ ~Exists(ResourceKey(k[2]))
          /\ Starts(c, Commits(Txn(Unconditional, << >>, {k}), NoCall))
    \/ \E k \in KeysOf("draft method") :
          /\ ~Exists(MethodKey(k[2], k[3]))
          /\ Starts(c, Commits(Txn({AsRead(DraftResourceKey(k[2])), AsRead(k),
                                    AsRead(DraftRevisionKey(k[2]))},
                                   DraftRevisionKey(k[2]) :> 1, {k}), NoCall))

(***************************************************************************)
(* BizBatchReleaseResources: the drafts as one read finds them, published  *)
(* resource by resource; the first failure ends the batch.                 *)
(***************************************************************************)
StagedGroup(i) ==
    LET keys == ({DraftResourceKey(i)} \cap DOMAIN kv) \cup MethodsOf(i, TRUE)
    IN  [k \in {IF j[1] = "draft resource" THEN ResourceKey(i) ELSE MethodKey(i, j[3]) : j \in keys}
            |-> IF k[1] = "resource" THEN Val(DraftResourceKey(i)) ELSE Val(DraftMethodKey(i, k[3]))]

BatchRelease(c) ==
    LET ids == {k[2] : k \in KeysOf("draft resource") \cup KeysOf("draft method")}
    IN  ids # {} /\ Starts(c, [at |-> "release", groups |-> [i \in ids |-> StagedGroup(i)]])

ReleaseNext(c) ==
    LET groups == call[c].groups
        i == Min(DOMAIN groups)
        rest == [call[c] EXCEPT !.groups = [j \in DOMAIN groups \ {i} |-> groups[j]]]
    IN
    /\ At(c, "release")
    /\ Goes(c, Publishes(Unconditional, groups[i], << >>,
                         IF DOMAIN groups = {i} THEN NoCall ELSE rest))

-----------------------------------------------------------------------------
\* etcd empty, or after one client saved and published a binding, or created
\* a legacy resource and published it.
SeededBinding(n, object) ==
    LET b == [object |-> object, id |-> 1] IN
    (ResourceCounter :> [val |-> 1, rev |-> 1]) @@ (DraftKey(n) :> [val |-> b, rev |-> 2])
        @@ (PublishedKey(n) :> [val |-> b, rev |-> 3])
        @@ (ResourceKey(1) :> [val |-> object.path, rev |-> 3])
        @@ (MethodKey(1, 1) :> [val |-> object, rev |-> 3])
        @@ (HistoryKey(n, 1) :> [val |-> b, rev |-> 3]) @@ (Marker :> [val |-> 1, rev |-> 3])

SeededResource(route) ==
    (ResourceCounter :> [val |-> 1, rev |-> 1]) @@ (MethodCounter :> [val |-> 1, rev |-> 2])
        @@ (ResourceKey(1) :> [val |-> route.path, rev |-> 3])
        @@ (MethodKey(1, 1) :> [val |-> route, rev |-> 3])
        @@ (DraftResourceKey(1) :> [val |-> route.path, rev |-> 3])
        @@ (DraftMethodKey(1, 1) :> [val |-> route, rev |-> 3])
        @@ (Marker :> [val |-> 1, rev |-> 3])

Init ==
    /\ \/ kv = << >> /\ rev = 0
       \/ rev = 3 /\ \E n \in Name, object \in Route : kv = SeededBinding(n, object)
       \/ rev = 3 /\ \E route \in Route : kv = SeededResource(route)
    /\ call = [c \in Client |-> NoCall]
    /\ calls = 0

LegacyBegin(c) ==
    /\ Idle(c)
    /\ \/ \E route \in Route, unpublished \in BOOLEAN : CreateResource(c, route, unpublished)
       \/ \E unpublished \in BOOLEAN :
             \E k \in KeysOf(IF unpublished THEN "draft resource" ELSE "resource") :
                \/ \E v \in Verb : SetMethod(c, k[2], v, unpublished)
                \/ \E p \in Path : ModifyResource(c, k[2], p, unpublished)
       \/ DeletePublished(c) \/ DeleteDraft(c) \/ BatchRelease(c)

LegacyContinue(c) ==
    \/ LegacyReadsMarker(c) \/ LegacyPrepare(c) \/ ReadID(c) \/ CommitID(c)
    \/ CreateWithMethod(c) \/ SaveMethod(c) \/ MoveResource(c)
    \/ LegacyDelete(c) \/ ReleaseNext(c)

Next == \E c \in Client : Begin(c) \/ Continue(c) \/ LegacyBegin(c) \/ LegacyContinue(c)

Spec == Init /\ [][Next]_vars

-----------------------------------------------------------------------------
TypeOK ==
    /\ rev \in Nat
    /\ \A k \in DOMAIN kv : kv[k].rev \in 1 .. rev
    /\ \A k \in KeysOf("draft") \cup KeysOf("published") :
          Val(k).object \in Route /\ Val(k).id \in Nat \ {0}
    /\ DOMAIN call = Client
    /\ calls \in 0 .. MaxCalls

(***************************************************************************)
(* A published binding is what the gateways serve: its runtime resource    *)
(* and method exist with its route, whatever other publishes, rollbacks    *)
(* and legacy writes are under way, and no two bindings share an identity. *)
(***************************************************************************)
PublishedIsServed ==
    \A k \in KeysOf("published") :
        LET b == Val(k) IN
        /\ Exists(ResourceKey(b.id)) /\ Val(ResourceKey(b.id)) = b.object.path
        /\ Exists(MethodKey(b.id, b.id)) /\ Val(MethodKey(b.id, b.id)) = b.object
        /\ \A j \in KeysOf("published") \ {k} : Val(j).id # b.id

(***************************************************************************)
(* Nothing of a binding that was deleted stays in the runtime: what is     *)
(* found under its former identity was put there by a later request of the *)
(* legacy API.                                                             *)
(***************************************************************************)
RemovedIsGone ==
    \A d \in KeysOf("history") : Val(d) = Deleted =>
        \A k \in KeysOf("history") : k[2] = d[2] /\ k[3] < d[3] =>
            \A j \in KeysOf("resource") \cup KeysOf("method") :
                j[2] = Val(k).id => kv[j].rev > kv[d].rev

\* The gateway serves a method at its resource's path (discovery_service.go
\* MethodAdd, MethodChange).
IsServed(k) == Exists(ResourceKey(k[2]))
ServedRoute(k) == [verb |-> Val(k).verb, path |-> Val(ResourceKey(k[2]))]

\* The resource of method k has another path than the method's own record.
Parted(k) == IsServed(k) /\ Val(ResourceKey(k[2])) # Val(k).path

(***************************************************************************)
(* No two method records claim one route: publishes of bindings and of     *)
(* legacy resources that race cannot both get past their conflict checks.  *)
(* Nor are two methods served at one route, unless a resource was parted   *)
(* from its method: the checks compare the records' paths and do not see   *)
(* where such a method is served (PartedBlindly says how it comes about).  *)
(***************************************************************************)
RoutesAreUnique ==
    \A k \in KeysOf("method") : \A j \in KeysOf("method") \ {k} :
        /\ Val(j) # Val(k)
        /\ (IsServed(k) /\ IsServed(j) /\ ServedRoute(k) = ServedRoute(j)) =>
              Parted(k) \/ Parted(j)

(***************************************************************************)
(* A resource is parted from a method below it by a write that does not    *)
(* compare the resource's revision, and by no other: ModifyResourceInfo    *)
(* with the path it read, overtaken by a move, or a batch release of a     *)
(* moved draft over a method that has no draft.                            *)
(***************************************************************************)
PartedBlindly ==
    [][\A k \in KeysOf("method")' :
          Parted(k)' /\ ~(Exists(k) /\ Parted(k)) =>
             \E c \in Client : /\ At(c, "commit") /\ call'[c] # call[c]
                               /\ ResourceKey(k[2]) \in DOMAIN call[c].txn.puts
                               /\ call[c].op = "legacy"
                               /\ \A cmp \in call[c].txn.comparisons : cmp[1] # ResourceKey(k[2])]_vars

(***************************************************************************)
(* The newest history record of a binding says what is published now, and  *)
(* no generation is used twice.                                            *)
(***************************************************************************)
HistoryIsCurrent ==
    /\ \A n \in Name :
          LET generations == {k[3] : k \in {j \in KeysOf("history") : j[2] = n}}
              latest == HistoryKey(n, Max(generations))
          IN  IF generations = {} THEN ~Exists(PublishedKey(n))
              ELSE IF Val(latest) = Deleted THEN ~Exists(PublishedKey(n))
              ELSE Exists(PublishedKey(n)) /\ Val(PublishedKey(n)) = Val(latest)
    /\ \A k \in KeysOf("history") : \A j \in KeysOf("history") \ {k} : k[3] # j[3]

(***************************************************************************)
(* A runtime identity belongs to one binding or to one legacy resource:    *)
(* the two APIs allocate from one counter in two different ways.           *)
(***************************************************************************)
IdentitiesAreUnique ==
    \A k \in KeysOf("draft") \cup KeysOf("published") :
        /\ \A j \in KeysOf("draft") \cup KeysOf("published") :
              Val(j).id = Val(k).id => j[2] = k[2]
        /\ ~Exists(DraftResourceKey(Val(k).id))

(***************************************************************************)
(* What a publish makes current is the draft of that moment: an edit saved *)
(* while the publish was under way is neither overwritten nor skipped.     *)
(***************************************************************************)
PublishesCurrentDraft ==
    [][\A n \in Name :
          (PublishedKey(n) \in DOMAIN kv' /\ kv'[PublishedKey(n)].rev = rev + 1) =>
             Exists(DraftKey(n)) /\ kv'[PublishedKey(n)].val = Val(DraftKey(n))]_vars

(***************************************************************************)
(* A save that names a revision replaces the draft the caller saw.         *)
(***************************************************************************)
NoLostDraft ==
    [][\A c \in Client :
          (At(c, "commitDraft") /\ call[c].req.expected > 0 /\ kv' # kv /\ call'[c] # call[c]) =>
             ModRevision(DraftKey(call[c].req.name)) = call[c].req.expected]_vars

(***************************************************************************)
(* A rollback makes current what its history record holds, and not what    *)
(* another client has saved since; the exception is a save between the     *)
(* rollback's own save and the read that follows it, which the rollback    *)
(* takes for its own and publishes.                                        *)
(***************************************************************************)
RollbackRestores ==
    [][\A c \in Client :
          (/\ At(c, "commit") /\ call[c].op = "publish" /\ call[c].restores > 0
           /\ kv' # kv /\ call'[c] # call[c] /\ ~call[c].overtaken) =>
             kv'[PublishedKey(call[c].name)].val.object
                = Val(HistoryKey(call[c].name, call[c].restores)).object]_vars

\* What the console says is published is what the gateway reads: published routes
\* are there, deleted ones are gone, no two claim a path, no two share an identity.
RoutesAreSound ==
    /\ TypeOK
    /\ PublishedIsServed /\ RemovedIsGone /\ RoutesAreUnique /\ HistoryIsCurrent /\ IdentitiesAreUnique

\* A publish takes the draft of its moment, a save replaces what its caller saw, a
\* rollback restores what it names, and only blind writes part a route.
DraftsAreSafe == PublishesCurrentDraft /\ NoLostDraft /\ RollbackRestores /\ PartedBlindly

\* Clients, names and paths are interchangeable in what is checked.
Symmetry == Permutations(Client) \cup Permutations(Name) \cup Permutations(Path)
=============================================================================
