------------------------------ MODULE GrpcRelay ------------------------------
(***************************************************************************)
(* One call through the gRPC proxy filter                                  *)
(* (src/pkg/filter/network/grpcproxy/filter/proxy/grpc_proxy_filter.go):   *)
(* handleStream opens a stream to the backend and starts a goroutine for   *)
(* each direction and a watcher that takes the first error; it waits for   *)
(* the two directions, drains the error channel and returns, and the       *)
(* connection manager answers the call with what the context then says.    *)
(*                                                                         *)
(* Messages are counted.  A method streams from the client or takes one    *)
(* message; only a descriptor tells the filter which.                      *)
(*                                                                         *)
(* The second part is the pool of connections behind the calls: callers    *)
(* look into it without a lock, then under it, and dial while they hold it;*)
(* a goroutine per connection takes a bad one out.  gRPC itself moves a    *)
(* connection between good and bad (Ready and TransientFailure); Close     *)
(* shuts every pooled connection down.                                     *)
(***************************************************************************)
EXTENDS Naturals, Sequences, FiniteSets

CONSTANTS
    MaxMessages, \* messages of a client that streams
    MaxReplies,  \* messages of the backend
    Caller,      \* requests that want a connection
    Address,     \* backends
    Nothing,     \* no connection, nobody
    MaxFailures  \* connections that break and dials that fail

\* Connections are numbered and requests have names.
ASSUME NobodyAssumption == Nothing \notin Nat \cup Caller

VARIABLES
    mode,      \* ReflectionMode
    method,    \* whether the method streams from the client
    streaming, \* what the filter takes it for
    client,    \* the caller: messages sent and received, state of its stream
    backend,   \* the server: messages, half-close seen, status
    up, down,  \* the two directions: where they are, messages read
    watcher,   \* the goroutine that waits for an error
    main,      \* handleStream
    errChan,   \* reported errors, and whether the channel is closed
    done,      \* doneChan is closed
    error,     \* ctx.Error is set
    raced,     \* the watcher was not through when the directions had ended
    pool,      \* clientConnPool: the connection of each address
    conn,      \* connections dialled so far
    caller,    \* where each request is in getOrCreateConnection
    mu,        \* who holds the mutex
    monitor,   \* what the goroutine of each connection does
    failures

relayVars == <<mode, method, streaming, client, backend, up, down, watcher, main,
          errChan, done, error, raced>>

RelayInit ==
    /\ mode \in {"passthrough", "reflection", "hybrid"}
    /\ method \in BOOLEAN
    /\ streaming = FALSE
    /\ client = [sent |-> 0, got |-> 0, state |-> "open"]
    /\ backend = [got |-> 0, sent |-> 0, eof |-> FALSE, status |-> "none"]
    /\ up = [pc |-> "idle", read |-> 0] /\ down = [pc |-> "idle", read |-> 0]
    /\ watcher = "idle" /\ main = "start"
    /\ errChan = [queue |-> 0, closed |-> FALSE]
    /\ done = FALSE /\ error = FALSE /\ raced = FALSE

Gone == client.state = "gone"

-----------------------------------------------------------------------------
(* The caller and the backend                                              *)

ClientSend ==
    /\ client.state = "open"
    /\ client.sent < (IF method THEN MaxMessages ELSE 1)
    /\ client' = [client EXCEPT !.sent = @ + 1]
    /\ UNCHANGED <<mode, method, streaming, backend, up, down, watcher, main, errChan, done, error, raced>>

\* The caller closes its side, or goes away and cancels the context.
ClientClose ==
    /\ \/ client.state = "open" /\ client' = [client EXCEPT !.state = "half"]
       \/ ~Gone /\ client' = [client EXCEPT !.state = "gone"]
    /\ UNCHANGED <<mode, method, streaming, backend, up, down, watcher, main, errChan, done, error, raced>>

Opened == up.pc # "idle"

\* A method that takes one message answers after the half-close.
BackendReply ==
    /\ Opened /\ backend.status = "none" /\ backend.sent < MaxReplies
    /\ backend.eof \/ (method /\ backend.got > 0)
    /\ backend' = [backend EXCEPT !.sent = @ + 1]
    /\ UNCHANGED <<mode, method, streaming, client, up, down, watcher, main, errChan, done, error, raced>>

BackendEnd ==
    /\ Opened /\ backend.status = "none"
    /\ \/ /\ backend.eof \/ method
          /\ backend' = [backend EXCEPT !.status = "ok"]
       \/ backend' = [backend EXCEPT !.status = "error"]
    /\ UNCHANGED <<mode, method, streaming, client, up, down, watcher, main, errChan, done, error, raced>>

-----------------------------------------------------------------------------
(* handleStream                                                            *)

\* GetMethodDescriptor, then NewStream and the goroutines.  Hybrid falls back
\* to passing bytes through when there is no descriptor.
handleStream ==
    /\ main = "start"
    /\ \/ /\ main' = "wait" /\ watcher' = "select"
          /\ \/ mode # "passthrough" /\ streaming' = method
             \/ mode # "reflection" /\ streaming' = FALSE
          /\ up' = [up EXCEPT !.pc = IF streaming' THEN "top" ELSE "recv"]
          /\ down' = [down EXCEPT !.pc = "top"]
          /\ error' = error
       \/ /\ main' = "return" /\ error' = TRUE
          /\ UNCHANGED <<streaming, up, down, watcher>>
    /\ UNCHANGED <<mode, method, client, backend, errChan, done, raced>>

Report == errChan' = [errChan EXCEPT !.queue = @ + 1]

\* RecvMsg from the caller: a message, the half-close, or an error.
forwardClientToServer ==
    /\ up.pc = "recv"
    /\ \/ /\ ~Gone /\ client.sent > up.read
          /\ up' = [pc |-> "send", read |-> up.read + 1]
          /\ UNCHANGED <<backend, errChan>>
       \/ /\ client.state = "half" /\ client.sent = up.read
          /\ up' = [up EXCEPT !.pc = "done"]
          /\ backend' = [backend EXCEPT !.eof = TRUE]
          /\ UNCHANGED errChan
       \/ /\ Gone
          /\ up' = [up EXCEPT !.pc = "done"]
          /\ Report
          /\ UNCHANGED backend
    /\ UNCHANGED <<mode, method, streaming, client, down, watcher, main, done, error, raced>>

\* SendMsg to the backend; a method that is not taken for a streaming one is
\* half-closed after its first message.
SendToBackend ==
    /\ up.pc = "send"
    /\ \/ /\ ~Gone /\ backend.status = "none"
          /\ backend' = [backend EXCEPT !.got = @ + 1, !.eof = ~streaming]
          /\ up' = [up EXCEPT !.pc = IF streaming THEN "top" ELSE "done"]
          /\ UNCHANGED errChan
       \/ /\ Gone \/ backend.status # "none"
          /\ up' = [up EXCEPT !.pc = "done"]
          /\ Report
          /\ UNCHANGED backend
    /\ UNCHANGED <<mode, method, streaming, client, down, watcher, main, done, error, raced>>

\* The loops look at doneChan before they block.
LoopTop ==
    /\ \/ /\ up.pc = "top"
          /\ up' = [up EXCEPT !.pc = IF done THEN "done" ELSE "recv"]
          /\ UNCHANGED down
       \/ /\ down.pc = "top"
          /\ down' = [down EXCEPT !.pc = IF done THEN "done" ELSE "recv"]
          /\ UNCHANGED up
    /\ UNCHANGED <<mode, method, streaming, client, backend, watcher, main, errChan, done, error, raced>>

\* RecvMsg from the backend: its messages, then its status; a cancelled
\* context is an error.
forwardServerToClient ==
    /\ down.pc = "recv"
    /\ \/ /\ ~Gone /\ backend.sent > down.read
          /\ down' = [pc |-> "send", read |-> down.read + 1]
          /\ UNCHANGED errChan
       \/ /\ ~Gone /\ backend.sent = down.read /\ backend.status = "ok"
          /\ down' = [down EXCEPT !.pc = "done"]
          /\ UNCHANGED errChan
       \/ /\ Gone \/ (backend.sent = down.read /\ backend.status = "error")
          /\ down' = [down EXCEPT !.pc = "done"]
          /\ Report
    /\ UNCHANGED <<mode, method, streaming, client, backend, up, watcher, main, done, error, raced>>

SendToClient ==
    /\ down.pc = "send"
    /\ \/ /\ ~Gone
          /\ client' = [client EXCEPT !.got = @ + 1]
          /\ down' = [down EXCEPT !.pc = "top"]
          /\ UNCHANGED errChan
       \/ /\ Gone
          /\ down' = [down EXCEPT !.pc = "done"]
          /\ Report
          /\ UNCHANGED client
    /\ UNCHANGED <<mode, method, streaming, backend, up, watcher, main, done, error, raced>>

\* The watcher's select: the context is done, an error, or the closed channel,
\* which yields no error.
Watch ==
    /\ watcher = "select"
    /\ \/ /\ Gone /\ watcher' = "close" /\ UNCHANGED errChan
       \/ /\ errChan.queue > 0
          /\ errChan' = [errChan EXCEPT !.queue = @ - 1]
          /\ watcher' = "set"
       \/ /\ errChan.queue = 0 /\ errChan.closed
          /\ watcher' = "clear" /\ UNCHANGED errChan
    /\ UNCHANGED <<mode, method, streaming, client, backend, up, down, main, done, error, raced>>

WatcherSetError ==
    /\ watcher \in {"set", "clear"}
    /\ error' = (watcher = "set")
    /\ watcher' = "close"
    /\ UNCHANGED <<mode, method, streaming, client, backend, up, down, main, errChan, done, raced>>

CloseDone ==
    /\ watcher = "close" /\ watcher' = "done" /\ done' = TRUE
    /\ UNCHANGED <<mode, method, streaming, client, backend, up, down, main, errChan, error, raced>>

\* Mutant: the call ends with the first direction that ends.
waitForOne ==
    /\ main = "wait" /\ (up.pc = "done" \/ down.pc = "done")
    /\ main' = "drain"
    /\ errChan' = [errChan EXCEPT !.closed = TRUE]
    /\ raced' = (watcher # "done")
    /\ UNCHANGED <<mode, method, streaming, client, backend, up, down, watcher, done, error>>

Wait ==
    /\ main = "wait" /\ up.pc = "done" /\ down.pc = "done"
    /\ main' = "drain"
    /\ errChan' = [errChan EXCEPT !.closed = TRUE]
    /\ raced' = (watcher # "done")
    /\ UNCHANGED <<mode, method, streaming, client, backend, up, down, watcher, done, error>>

Drain ==
    /\ main = "drain"
    /\ IF errChan.queue > 0
       THEN /\ errChan' = [errChan EXCEPT !.queue = @ - 1]
            /\ error' = TRUE /\ main' = main
       ELSE main' = "return" /\ UNCHANGED <<errChan, error>>
    /\ UNCHANGED <<mode, method, streaming, client, backend, up, down, watcher, done, raced>>

\* OnStreamRPC returns ctx.Error.
OnStreamRPC ==
    /\ main = "return" /\ main' = IF error THEN "failed" ELSE "ok"
    /\ UNCHANGED <<mode, method, streaming, client, backend, up, down, watcher, errChan, done, error, raced>>

Filter ==
    \/ handleStream \/ forwardClientToServer \/ SendToBackend \/ LoopTop
    \/ forwardServerToClient \/ SendToClient
    \/ Watch \/ WatcherSetError \/ CloseDone \/ Wait \/ Drain \/ OnStreamRPC

RelayNext == ClientSend \/ ClientClose \/ BackendReply \/ BackendEnd \/ Filter

\* A backend that has the whole request comes to an end; the goroutines run.
RelayFairness == WF_relayVars(Filter) /\ WF_relayVars(backend.eof /\ BackendEnd)

RelaySpec == RelayInit /\ [][RelayNext]_relayVars /\ RelayFairness

-----------------------------------------------------------------------------
\* A backend that sees the end of the request has the whole of it: when the
\* caller goes away half-way, or a send fails, the stream is not half-closed.
\* The claim leaves out methods that stream from the client and whose
\* descriptor the filter does not have.
EndIsComplete ==
    backend.eof /\ ~(method /\ ~streaming) => backend.got = client.sent

\* When the backend has succeeded and the call is answered with success, the
\* caller has every message of the backend, although the two directions, the
\* watcher and the caller end in any order.
OkIsDelivered ==
    main = "ok" /\ backend.status = "ok" /\ ~Gone => client.got = backend.sent

\* A call is answered with success only when the backend has succeeded, unless
\* the watcher was not through when handleStream stopped waiting: it then has
\* taken the error out of the channel and not set it yet, or it takes the
\* closed channel for an error and sets nil over the error that was drained, and
\* a call that the backend failed is answered as a success.
FailureIsTold ==
    main = "ok" /\ ~Gone /\ ~raced => backend.status = "ok"

\* A call whose caller has closed its side or has gone away is answered: no
\* goroutine of the filter waits for another for ever.
Answered == (client.state # "open") ~> (main \in {"ok", "failed"})

-----------------------------------------------------------------------------
(* The connections                                                         *)

poolVars == <<pool, conn, caller, mu, monitor, failures>>

PoolInit ==
    /\ pool = [a \in Address |-> Nothing]
    /\ conn = <<>> /\ monitor = <<>>
    /\ caller = [c \in Caller |-> [pc |-> "idle", address |-> Nothing, got |-> Nothing]]
    /\ mu = Nothing
    /\ failures = 0

Usable(a) == pool[a] # Nothing /\ conn[pool[a]].state = "good"

\* The optimistic look, without a lock.
getOrCreateConnection(c, a) ==
    /\ caller[c].pc = "idle"
    /\ caller' = [caller EXCEPT ![c] =
          IF Usable(a) THEN [pc |-> "got", address |-> a, got |-> pool[a]]
          ELSE [pc |-> "lock", address |-> a, got |-> Nothing]]
    /\ UNCHANGED <<pool, conn, mu, monitor, failures>>

\* The second look, under the lock; a bad connection is taken out.
DoubleCheck(c) ==
    LET a == caller[c].address
    IN  /\ caller[c].pc = "lock" /\ mu = Nothing
        /\ \/ /\ Usable(a)
              /\ caller' = [caller EXCEPT ![c].pc = "got", ![c].got = pool[a]]
              /\ UNCHANGED <<pool, mu>>
           \/ /\ ~Usable(a)
              /\ pool' = [pool EXCEPT ![a] = Nothing]
              /\ mu' = c
              /\ caller' = [caller EXCEPT ![c].pc = "dial"]
        /\ UNCHANGED <<conn, monitor, failures>>

createConnection(c) ==
    LET a == caller[c].address
    IN  /\ caller[c].pc = "dial" /\ mu = c
        /\ mu' = Nothing
        /\ \/ /\ conn' = Append(conn, [address |-> a, state |-> "good", broke |-> FALSE])
              /\ monitor' = Append(monitor, "watch")
              /\ pool' = [pool EXCEPT ![a] = Len(conn')]
              /\ caller' = [caller EXCEPT ![c].pc = "got", ![c].got = Len(conn')]
              /\ UNCHANGED failures
           \/ /\ failures < MaxFailures /\ failures' = failures + 1
              /\ caller' = [caller EXCEPT ![c] = [pc |-> "idle", address |-> Nothing, got |-> Nothing]]
              /\ UNCHANGED <<conn, pool, monitor>>

Release(c) ==
    /\ caller[c].pc = "got"
    /\ caller' = [caller EXCEPT ![c] = [pc |-> "idle", address |-> Nothing, got |-> Nothing]]
    /\ UNCHANGED <<pool, conn, mu, monitor, failures>>

\* gRPC: a connection breaks, and may come back.
Breaks(i) ==
    /\ conn[i].state = "good" /\ failures < MaxFailures
    /\ failures' = failures + 1
    /\ conn' = [conn EXCEPT ![i].state = "bad", ![i].broke = TRUE]
    /\ UNCHANGED <<pool, caller, mu, monitor>>

Recovers(i) ==
    /\ conn[i].state = "bad"
    /\ conn' = [conn EXCEPT ![i].state = "good"]
    /\ UNCHANGED <<pool, caller, mu, monitor, failures>>

monitorConnection(i) ==
    /\ monitor[i] = "watch" /\ conn[i].state # "good"
    /\ monitor' = [monitor EXCEPT ![i] = "remove"]
    /\ UNCHANGED <<pool, conn, caller, mu, failures>>

RemoveBroken(i) ==
    /\ monitor[i] = "remove" /\ mu = Nothing
    /\ monitor' = [monitor EXCEPT ![i] = "done"]
    /\ pool' = [pool EXCEPT ![conn[i].address] = IF @ = i THEN Nothing ELSE @]
    /\ UNCHANGED <<conn, caller, mu, failures>>

\* Close shuts the pooled connections down and leaves them in the pool; a
\* request that is on its way may still dial.
ClosePool ==
    /\ conn' = [i \in DOMAIN conn |->
          IF \E a \in Address : pool[a] = i
          THEN [conn[i] EXCEPT !.state = "closed", !.broke = TRUE] ELSE conn[i]]
    /\ conn' # conn /\ failures < MaxFailures
    /\ failures' = failures + 1
    /\ UNCHANGED <<pool, caller, mu, monitor>>

PoolNext ==
    \/ ClosePool
    \/ \E c \in Caller :
         \/ \E a \in Address : getOrCreateConnection(c, a)
         \/ DoubleCheck(c) \/ createConnection(c) \/ Release(c)
    \/ \E i \in DOMAIN conn :
         \/ Breaks(i) \/ Recovers(i) \/ monitorConnection(i) \/ RemoveBroken(i)

PoolSpec == PoolInit /\ [][PoolNext]_poolVars

-----------------------------------------------------------------------------
\* A backend has one connection that never broke, whatever callers raced to
\* create it and however late the monitor of an earlier one runs: nobody dials
\* a backend whose connection is sound.
OneSoundConnection ==
    \A i, j \in DOMAIN conn :
        conn[i].address = conn[j].address /\ ~conn[i].broke /\ ~conn[j].broke => i = j

\* What a caller and a backend are told is the truth: no half request is passed
\* off as a whole one, no half answer as a success, no failure as a success but
\* for the watcher's race, and no sound connection is dialled twice.
RelayIsSound == EndIsComplete /\ OkIsDelivered /\ FailureIsTold /\ OneSoundConnection
=============================================================================
