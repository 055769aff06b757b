---------------------------- MODULE GrpcReflection ----------------------------
(***************************************************************************)
(* The descriptors of one backend in the gRPC proxy filter                 *)
(* (src/pkg/filter/network/grpcproxy/filter/proxy/reflection_manager.go    *)
(* and descriptor_cache.go): a call looks for its method in a cache whose  *)
(* entries expire; on a miss it takes the registry of the backend, which   *)
(* one call at a time builds by reflection.  ContinueOnError is on, as the *)
(* filter configures it.  The LRU list beside the cache is left out: its   *)
(* evictions do not reach the map that lookups read.  The operations that  *)
(* invalidate the caches are there for the manager's users; nothing in the *)
(* gateway calls them.                                                     *)
(*                                                                         *)
(* The second part is how a registry is built from what a backend reports: *)
(* the manager asks for the file of a service and, depth first, for the    *)
(* files it imports, sorts them by dependency and registers those whose    *)
(* imports are registered.  A backend may refuse files, may answer with    *)
(* the imports beside the file, and may end the stream, after which nothing*)
(* is answered any more.                                                   *)
(***************************************************************************)
EXTENDS Naturals, Sequences, SequencesExt, FiniteSets

CONSTANTS
    Caller,       \* calls in progress
    Service,      \* services of the backend
    Nothing,
    MaxBuilds,    \* reflections
    MaxExpiries,  \* entries that outlive their TTL
    MaxClears,    \* invalidations of the caches
    Answers,      \* how many requests a backend may answer on one stream
    File,         \* proto files of the backend
    Root          \* the file of the service

VARIABLES
    entries,      \* the cache: the registry of a service's descriptor, its age
    stored,       \* fileDescCache: the registry of the backend
    built,        \* what each registry that was built contains
    caller,
    leader,       \* the call that runs the flight of the backend
    expiries,
    clearing,     \* an invalidation under way: what is still to be taken out
    clears,
    mixed,        \* an invalidation left entries or calls of the old registry
    imports,      \* the files that each file imports
    refused,      \* files that the backend does not return
    bundles,      \* the backend returns a file's imports with the file
    answers,      \* requests it answers before it ends the stream
    order         \* an order in which Go iterates over a map of the files

clearVars == <<clearing, clears, mixed>>
lookupVars == <<entries, stored, built, caller, leader, expiries, clearVars>>

Idle == [pc |-> "idle", service |-> Nothing, registry |-> 0, flight |-> Nothing]

NotClearing == [what |-> "no", version |-> {}]

LookupInit ==
    /\ entries = [s \in Service |-> Nothing]
    /\ stored = 0 /\ built = <<>>
    /\ caller = [c \in Caller |-> Idle]
    /\ leader = Nothing
    /\ expiries = 0
    /\ clearing = NotClearing /\ clears = 0 /\ mixed = FALSE

\* Get: an expired entry is taken out by key, in a second step.
GetMethodDescriptor(c, s) ==
    /\ caller[c].pc = "idle"
    /\ \/ /\ entries[s] # Nothing /\ ~entries[s].expired
          /\ UNCHANGED caller
       \/ /\ entries[s] # Nothing /\ entries[s].expired
          /\ caller' = [caller EXCEPT ![c] = [Idle EXCEPT !.pc = "drop", !.service = s]]
       \/ /\ entries[s] = Nothing
          /\ caller' = [caller EXCEPT ![c] = [Idle EXCEPT !.pc = "miss", !.service = s]]
    /\ UNCHANGED <<entries, stored, built, leader, expiries, clearVars>>

DropExpired(c) ==
    /\ caller[c].pc = "drop"
    /\ entries' = [entries EXCEPT ![caller[c].service] = Nothing]
    /\ caller' = [caller EXCEPT ![c].pc = "miss"]
    /\ UNCHANGED <<stored, built, leader, expiries, clearVars>>

\* The look without the flight.
getOrCreateFileRegistry(c) ==
    /\ caller[c].pc = "miss"
    /\ caller' = [caller EXCEPT ![c].pc = IF stored # 0 THEN "have" ELSE "do",
                                ![c].registry = stored]
    /\ UNCHANGED <<entries, stored, built, leader, expiries, clearVars>>

\* The first one leads; those that come while it is at work wait for it.
Do(c) ==
    /\ caller[c].pc = "do"
    /\ \/ leader = Nothing /\ leader' = c /\ caller' = [caller EXCEPT ![c].pc = "check"]
       \/ leader # Nothing /\ UNCHANGED leader /\ caller' = [caller EXCEPT ![c].pc = "wait", ![c].flight = leader]
    /\ UNCHANGED <<entries, stored, built, expiries, clearVars>>

Aboard(c) == {c} \cup {d \in Caller : caller[d].pc = "wait" /\ caller[d].flight = c}

\* The flight ends: its registry goes to everybody that waits for it. One that
\* was forgotten is no longer the backend's.
Land(c, r) ==
    /\ leader' = IF leader = c THEN Nothing ELSE leader
    /\ caller' = [d \in Caller |->
          IF d \in Aboard(c) THEN [caller[d] EXCEPT !.pc = "have", !.registry = r] ELSE caller[d]]

\* Mutant: the flight does not look again.
reflectAlways(c) ==
    /\ caller[c].pc = "check"
    /\ caller' = [caller EXCEPT ![c].pc = "reflect"] /\ UNCHANGED leader
    /\ UNCHANGED <<entries, stored, built, expiries, clearVars>>

DoubleCheck(c) ==
    /\ caller[c].pc = "check"
    /\ \/ stored # 0 /\ Land(c, stored)
       \/ stored = 0 /\ caller' = [caller EXCEPT ![c].pc = "reflect"] /\ UNCHANGED leader
    /\ UNCHANGED <<entries, stored, built, expiries, clearVars>>

\* The registry holds what the service's file declares; it is stored even when
\* the backend refused and nothing is in it.
Reflect(c) ==
    /\ caller[c].pc = "reflect"
    /\ Len(built) < MaxBuilds
    /\ \E found \in {{}, {caller[c].service}, Service} : built' = Append(built, found)
    /\ stored' = Len(built')
    /\ Land(c, Len(built'))
    /\ UNCHANGED <<entries, expiries, clearVars>>

\* The stream cannot be opened: everybody that waits fails.
ReflectFails(c) ==
    /\ caller[c].pc = "reflect"
    /\ leader' = IF leader = c THEN Nothing ELSE leader
    /\ caller' = [d \in Caller |-> IF d \in Aboard(c) THEN Idle ELSE caller[d]]
    /\ UNCHANGED <<entries, stored, built, expiries, clearVars>>

\* The method is found in the registry and cached, or the call fails.
SetWithVersion(c) ==
    LET call == caller[c]
    IN  /\ call.pc = "have"
        /\ caller' = [caller EXCEPT ![c] = Idle]
        /\ entries' = [entries EXCEPT ![call.service] =
              IF call.service \in built[call.registry]
              THEN [registry |-> call.registry, expired |-> FALSE] ELSE @]
        /\ UNCHANGED <<stored, built, leader, expiries, clearVars>>

Expire(s) ==
    /\ entries[s] # Nothing /\ ~entries[s].expired
    /\ expiries < MaxExpiries /\ expiries' = expiries + 1
    /\ entries' = [entries EXCEPT ![s].expired = TRUE]
    /\ UNCHANGED <<stored, built, caller, leader, clearVars>>

\* One tick of the loop: it takes out what is expired.
cleanupLoop ==
    /\ \E s \in Service : entries[s] # Nothing /\ entries[s].expired
    /\ entries' = [s \in Service |->
          IF entries[s] # Nothing /\ entries[s].expired THEN Nothing ELSE entries[s]]
    /\ UNCHANGED <<stored, built, caller, leader, expiries, clearVars>>

Busy == \E c \in Caller : caller[c].pc # "idle"
Kept == \E s \in Service : entries[s] # Nothing

\* The registry goes and its flight is forgotten; entries and calls stay.
ForgetRegistry ==
    /\ stored' = 0
    /\ leader' = Nothing
    /\ UNCHANGED <<built, caller, expiries>>

InvalidateCache ==
    /\ clears < MaxClears /\ clears' = clears + 1
    /\ ForgetRegistry
    /\ mixed' = (mixed \/ Busy \/ Kept)
    /\ UNCHANGED <<entries, clearing>>

\* The entries first, then the registry.
ClearCache ==
    \/ /\ clearing = NotClearing
       /\ clears < MaxClears /\ clears' = clears + 1
       /\ clearing' = [NotClearing EXCEPT !.what = "registry"]
       /\ entries' = [s \in Service |-> Nothing]
       /\ UNCHANGED <<stored, built, caller, leader, expiries, mixed>>
    \/ /\ clearing.what = "registry"
       /\ clearing' = NotClearing
       /\ ForgetRegistry
       /\ mixed' = (Busy \/ Kept)
       /\ UNCHANGED <<entries, clears>>

\* The registry first, then the entries: here those of the registry's version,
\* which its file names make up.
InvalidateByVersion ==
    \/ /\ clearing = NotClearing /\ stored # 0
       /\ clears < MaxClears /\ clears' = clears + 1
       /\ clearing' = [what |-> "entries", version |-> built[stored]]
       /\ ForgetRegistry
       /\ mixed' = (mixed \/ Busy \/ Kept)
       /\ UNCHANGED entries
    \/ /\ clearing.what = "entries"
       /\ clearing' = NotClearing
       /\ entries' = [s \in Service |->
             IF entries[s] # Nothing /\ built[entries[s].registry] = clearing.version THEN Nothing ELSE entries[s]]
       /\ mixed' = (mixed /\ (Busy \/ Kept'))
       /\ UNCHANGED <<stored, built, caller, leader, expiries, clears>>

LookupNext ==
    \/ \E c \in Caller :
         \/ \E s \in Service : GetMethodDescriptor(c, s)
         \/ DropExpired(c) \/ getOrCreateFileRegistry(c) \/ Do(c) \/ DoubleCheck(c)
         \/ Reflect(c) \/ ReflectFails(c) \/ SetWithVersion(c)
    \/ \E s \in Service : Expire(s)
    \/ cleanupLoop
    \/ InvalidateCache \/ ClearCache \/ InvalidateByVersion

LookupSpec == LookupInit /\ [][LookupNext]_lookupVars

-----------------------------------------------------------------------------
\* The descriptors of a backend all come from one registry, so that the message
\* types of two of its services are the same types: callers that missed the
\* cache before the flight of another one ended do not build a second registry
\* (getOrCreateFileRegistry's second look inside the flight).  An invalidation
\* that left entries or calls of the old registry behind is left out:
\* InvalidateCache takes no entry out, and a call that was under way caches
\* what it found.  ClearCache makes the claim good again when no call was.
OneRegistry ==
    ~mixed => \A s, t \in Service :
        entries[s] # Nothing /\ entries[t] # Nothing => entries[s].registry = entries[t].registry

-----------------------------------------------------------------------------
(* The registry of a backend                                               *)

fileVars == <<imports, refused, bundles, answers, order>>

FilesInit ==
    /\ imports \in [File -> SUBSET File]
    /\ refused \in SUBSET (File \ {Root})
    /\ bundles \in BOOLEAN
    /\ answers \in Answers
    /\ order \in SetToSeqs(File)

\* Another backend is asked.
FilesNext ==
    /\ refused' \in SUBSET (File \ {Root})
    /\ UNCHANGED <<imports, bundles, answers, order>>

FilesSpec == FilesInit /\ [][FilesNext]_fileVars

Imported(f) == SelectSeq(order, LAMBDA g : g \in imports[f])

\* The files in the answer to a request for f.
Response(f) ==
    IF bundles THEN <<f>> \o SelectSeq(Imported(f), LAMBDA g : g # f /\ g \notin refused) ELSE <<f>>

\* acc holds the files found so far, which also tells what is resolved, the
\* missing ones, the requests made and whether the stream has ended.  A request
\* that meets the end of the stream returns what there is, and so does every
\* later one.
RECURSIVE resolveDependencies(_, _)
RECURSIVE addFiles(_, _)
resolveDependencies(deps, acc) ==
    IF deps = <<>> THEN acc
    ELSE LET dep == Head(deps)
             asked == [acc EXCEPT !.asked = @ + 1]
         IN  CASE dep \in ToSet(acc.result) -> resolveDependencies(Tail(deps), acc)
               [] dep \notin ToSet(acc.result) /\ acc.asked >= answers -> [acc EXCEPT !.ended = TRUE]
               [] OTHER -> resolveDependencies(Tail(deps),
                     IF dep \in refused THEN [asked EXCEPT !.missing = @ \cup {dep}]
                     ELSE addFiles(Response(dep), asked))

addFiles(fds, acc) ==
    IF fds = <<>> THEN acc
    ELSE addFiles(Tail(fds),
           IF Head(fds) \in ToSet(acc.result) THEN acc
           ELSE resolveDependencies(Imported(Head(fds)), [acc EXCEPT !.result = Append(@, Head(fds))]))

\* The files that come with the service's own are resolved before their imports.
resolveServiceFileDescriptors ==
    IF answers = 0 THEN [result |-> <<>>, missing |-> {}, asked |-> 0, ended |-> TRUE]
    ELSE FoldLeft(LAMBDA acc, f : resolveDependencies(Imported(f), acc),
                  [result |-> Response(Root), missing |-> {}, asked |-> 1, ended |-> FALSE],
                  Response(Root))

\* The depth-first visit: a file on the stack is skipped.
RECURSIVE visit(_, _, _, _)
visit(names, fds, inStack, result) ==
    IF names = <<>> THEN result
    ELSE LET name == Head(names)
             skip == name \in inStack \/ name \in ToSet(result) \/ name \notin fds
             below == visit(Imported(name), fds, inStack \cup {name}, result)
         IN  visit(Tail(names), fds, inStack, IF skip THEN result ELSE Append(below, name))

topologicalSort(fds) == visit(SelectSeq(order, LAMBDA f : f \in fds), fds, {}, <<>>)

\* NewFile needs every import to be registered.
buildFileRegistry(fds) ==
    FoldLeft(LAMBDA files, f : IF imports[f] \subseteq files THEN files \cup {f} ELSE files,
             {}, topologicalSort(fds))

-----------------------------------------------------------------------------
(* The reference                                                           *)

\* What can be reached from the root through files that the backend returns.
RECURSIVE Reach(_)
Reach(S) ==
    LET T == S \cup (UNION {imports[f] : f \in S} \ refused)
    IN  IF T = S THEN S ELSE Reach(T)

RECURSIVE Below(_)
Below(S) ==
    LET T == S \cup UNION {imports[f] : f \in S}
    IN  IF T = S THEN S ELSE Below(T)

\* A file is sound when everything below it was found and no import is circular.
Sound(f, fds) ==
    LET below == Below(imports[f])
    IN  /\ f \notin below /\ below \subseteq fds
        /\ \A g \in below : g \notin Below(imports[g])

\* The files of a service are asked for exactly as far as they are needed:
\* every file that can be reached is found once, and what is reported missing
\* is what the backend refused of them, however the imports are shared, nested
\* or circular and whatever else an answer holds (resolveDependencies with its
\* map of resolved files).  When the backend ends the stream some of them are
\* neither found nor missing, and still nothing else is.
ResolvesClosure ==
    LET r == resolveServiceFileDescriptors
        lacking == UNION {imports[f] : f \in Reach({Root})} \cap refused
    IN  /\ ToSet(r.result) \subseteq Reach({Root}) /\ r.missing \subseteq lacking
        /\ ~r.ended => ToSet(r.result) = Reach({Root}) /\ r.missing = lacking
        /\ IsInjective(r.result)

\* A service can be called by reflection exactly when all it needs was found:
\* a missing or a circular import costs the files above it and no others, in
\* whatever order Go iterates over the files and wherever the stream ended
\* (topologicalSort, buildFileRegistry).
RegistersSound ==
    LET fds == ToSet(resolveServiceFileDescriptors.result)
    IN  buildFileRegistry(fds) = {f \in fds : Sound(f, fds)}

\* What the filter knows of a backend by reflection is sound: one registry until
\* it is invalidated, with the files that were found whole and no other, in
\* whatever order calls and files come.
ReflectionIsSound == OneRegistry /\ ResolvesClosure /\ RegistersSound
=============================================================================
