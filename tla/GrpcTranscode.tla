----------------------------- MODULE GrpcTranscode -----------------------------
(***************************************************************************)
(* The HTTP to gRPC filter (src/pkg/filter/http/grpcproxy): a request gets *)
(* a connection, looks its method up by server reflection or in local proto*)
(* files, without a lock, and caches it per connection; it registers the   *)
(* extensions of the method's messages in a registry that all requests     *)
(* share, and calls.  A failed call invalidates the connection, which takes*)
(* its descriptors out of the cache while other lookups are under way.  The*)
(* connections themselves are the module GrpcConnectionManager: here the   *)
(* manager hands out the current one, and replaces it when it is removed.  *)
(***************************************************************************)
EXTENDS Naturals, Sequences, FiniteSets

CONSTANTS
    Request,
    Absent,       \* no method, nobody
    MaxConns      \* connections, one after the other

\* A method is its input and its output message.
Method == {<<"in", "out">>, <<"in", "out2">>}

VARIABLES
    current,      \* the connection that the manager hands out
    methodDescs,  \* per connection: the cached methods, with their lookup
    state,        \* connectionStates: the state of each connection, 0 for none
    generation,   \* the generation of every state that was ever made
    closed,       \* closed, which also counts closeGeneration
    removed,      \* the connections that were removed
    registered,   \* messages marked as registered
    extReg,       \* messages whose extensions are known
    lock,         \* who holds extensionMu
    req

vars == <<current, methodDescs, state, generation, closed, removed, registered, extReg, lock, req>>

Conn == 1..MaxConns
Start == [pc |-> "start", conn |-> 0, method |-> Absent, state |-> 0, generation |-> 0,
          early |-> {}]

Init ==
    /\ current = 1
    /\ methodDescs = [c \in Conn |-> {}]
    /\ state = [c \in Conn |-> 0] /\ generation = <<>>
    /\ closed = FALSE /\ removed = {}
    /\ registered = {} /\ extReg = {} /\ lock = Absent
    /\ req = [r \in Request |-> Start]

Go(r, pc) == req' = [req EXCEPT ![r].pc = pc]

Decode(r) ==
    /\ req[r].pc = "start"
    /\ \E m \in Method :
         req' = [req EXCEPT ![r] = [Start EXCEPT !.pc = "source", !.conn = current, !.method = m]]
    /\ UNCHANGED <<current, methodDescs, state, generation, closed, removed, registered, extReg, lock>>

\* Reflection over the connection, the local files, or both; none when the strategy
\* names none that there is.
getDescriptorSource(r) ==
    /\ req[r].pc = "source"
    /\ Go(r, "lookup") \/ Go(r, "fail")
    /\ UNCHANGED <<current, methodDescs, state, generation, closed, removed, registered, extReg, lock>>

\* A cached method, or the generation to compare with after the lookup.  The
\* connections that are already removed are noted for the properties.
getMethodDescriptor(r) ==
    LET c == req[r].conn
        fresh == state[c] = 0
        s == IF fresh THEN Len(generation) + 1 ELSE state[c]
    IN  /\ req[r].pc = "lookup"
        /\ \/ closed /\ Go(r, "fail") /\ UNCHANGED <<state, generation>>
           \/ /\ ~closed /\ \E d \in methodDescs[c] : d.method = req[r].method
              /\ Go(r, "extensions") /\ UNCHANGED <<state, generation>>
           \/ /\ ~closed /\ \A d \in methodDescs[c] : d.method # req[r].method
              /\ state' = [state EXCEPT ![c] = s]
              /\ generation' = IF fresh THEN Append(generation, 0) ELSE generation
              /\ req' = [req EXCEPT ![r].pc = "find", ![r].state = s,
                           ![r].generation = generation'[s], ![r].early = removed]
        /\ UNCHANGED <<current, methodDescs, closed, removed, registered, extReg, lock>>

\* The sources: reflection, then the files; both may not know the service.
FindSymbol(r) ==
    /\ req[r].pc = "find"
    /\ Go(r, "store") \/ Go(r, "fail")
    /\ UNCHANGED <<current, methodDescs, state, generation, closed, removed, registered, extReg, lock>>

\* Mutant: what was looked up is cached whatever happened meanwhile.
storeAnyway(r) ==
    LET c == req[r].conn
    IN  /\ req[r].pc = "store"
        /\ methodDescs' = [methodDescs EXCEPT ![c] =
              @ \cup {[method |-> req[r].method, early |-> req[r].early]}]
        /\ Go(r, "extensions")
        /\ UNCHANGED <<current, state, generation, closed, removed, registered, extReg, lock>>

StoreDescriptor(r) ==
    LET c == req[r].conn
        stale == closed \/ generation[req[r].state] # req[r].generation
        known == \E d \in methodDescs[c] : d.method = req[r].method
    IN  /\ req[r].pc = "store"
        /\ \/ stale /\ Go(r, "fail") /\ UNCHANGED methodDescs
           \/ /\ ~stale /\ Go(r, "extensions")
              /\ methodDescs' = IF known THEN methodDescs
                 ELSE [methodDescs EXCEPT ![c] =
                         @ \cup {[method |-> req[r].method, early |-> req[r].early]}]
        /\ UNCHANGED <<current, state, generation, closed, removed, registered, extReg, lock>>

\* The look under the read lock, which a writer excludes.
registerExtension(r) ==
    LET known == {req[r].method[1], req[r].method[2]} \subseteq registered
    IN  /\ req[r].pc = "extensions" /\ lock = Absent
        /\ Go(r, IF known THEN "invoke" ELSE "lock")
        /\ UNCHANGED <<current, methodDescs, state, generation, closed, removed, registered, extReg, lock>>

LockExtensions(r) ==
    /\ req[r].pc = "lock" /\ lock = Absent
    /\ lock' = r /\ Go(r, "register")
    /\ UNCHANGED <<current, methodDescs, state, generation, closed, removed, registered, extReg>>

\* The input, then the output; the lock is kept while the source is asked, and
\* a failure keeps what was registered before it.
RegisterExtension(r) ==
    LET input == req[r].method[1]  output == req[r].method[2]
        todo == {input, output} \ registered
        next == IF input \in todo THEN input ELSE output
    IN  /\ req[r].pc = "register"
        /\ \/ /\ todo # {}
              /\ extReg' = extReg \cup {next} /\ registered' = registered \cup {next}
              /\ UNCHANGED <<lock, req>>
           \/ todo # {} /\ lock' = Absent /\ Go(r, "fail") /\ UNCHANGED <<extReg, registered>>
           \/ todo = {} /\ lock' = Absent /\ Go(r, "invoke") /\ UNCHANGED <<extReg, registered>>
        /\ UNCHANGED <<current, methodDescs, state, generation, closed, removed>>

\* removeConnection, through the manager: the state outlives its entry in the
\* map for the lookups that hold it.
Removal(c) ==
    /\ methodDescs' = [methodDescs EXCEPT ![c] = {}]
    /\ state' = [state EXCEPT ![c] = 0]
    /\ generation' = IF state[c] = 0 THEN generation ELSE [generation EXCEPT ![state[c]] = @ + 1]
    /\ removed' = removed \cup {c}

\* The call succeeds, or fails and invalidates its connection, which the
\* manager removes when it is still the current one.
Invoke(r) ==
    LET c == req[r].conn
    IN  /\ req[r].pc = "invoke"
        /\ \/ Go(r, "done") /\ UNCHANGED <<current, methodDescs, state, generation, removed>>
           \/ /\ Go(r, "fail") /\ (c = current => current < MaxConns)
              /\ IF c = current
                 THEN current' = current + 1 /\ Removal(c)
                 ELSE UNCHANGED <<current, methodDescs, state, generation, removed>>
        /\ UNCHANGED <<closed, registered, extReg, lock>>

\* The endpoint goes: the connection is removed under the feet of its requests.
EndpointRemoved ==
    /\ current < MaxConns /\ current' = current + 1
    /\ Removal(current)
    /\ UNCHANGED <<closed, registered, extReg, lock, req>>

\* The factory is retired.
Close ==
    /\ ~closed /\ closed' = TRUE
    /\ methodDescs' = [c \in Conn |-> {}] /\ state' = [c \in Conn |-> 0]
    /\ UNCHANGED <<current, generation, removed, registered, extReg, lock, req>>

Finish(r) ==
    /\ req[r].pc \in {"done", "fail"}
    /\ req' = [req EXCEPT ![r] = Start]
    /\ UNCHANGED <<current, methodDescs, state, generation, closed, removed, registered, extReg, lock>>

Next ==
    \/ \E r \in Request :
         \/ Decode(r) \/ getDescriptorSource(r) \/ getMethodDescriptor(r) \/ FindSymbol(r)
         \/ StoreDescriptor(r)
         \/ registerExtension(r) \/ LockExtensions(r) \/ RegisterExtension(r)
         \/ Invoke(r) \/ Finish(r)
    \/ EndpointRemoved
    \/ Close

Spec == Init /\ [][Next]_vars

-----------------------------------------------------------------------------
\* A lookup that was under way when its connection was removed, or when the
\* factory was closed, leaves nothing in the cache: what is cached for a removed
\* connection was asked for after the removal, by a request that still held it
\* (the generations of removeConnection, Close and getMethodDescriptor).
NoStaleDescriptor ==
    /\ \A c \in Conn, d \in UNION {methodDescs[k] : k \in Conn} :
         c \in removed /\ d \in methodDescs[c] => c \in d.early
    /\ closed => \A c \in Conn : methodDescs[c] = {}

\* A method is only called once the extensions of both its messages are known,
\* whichever requests registered them and wherever a registration failed
\* (registerExtension's look under the read lock, RegisterExtension).
ExtensionsAreKnown ==
    \A r \in Request : req[r].pc = "invoke" => {req[r].method[1], req[r].method[2]} \subseteq extReg

\* A method is called with descriptors of the connection it goes to.
DescriptorsAreSound == NoStaleDescriptor /\ ExtensionsAreKnown
=============================================================================
