--------------------------- MODULE ListenerShutdown ---------------------------
(***************************************************************************)
(* The graceful shutdown of the gateway: a signal starts a timer that ends *)
(* the process, and asks every listener to drain                           *)
(* (gracefulShutdownInit in src/pkg/server/listener_manager.go). Each      *)
(* protocol drains in its own way: HTTP waits for its connections, HTTP/2, *)
(* TCP and Triple count their requests and refuse new ones, gRPC does both *)
(* (src/pkg/listener). The process exits when every listener is done, when *)
(* one of them reports an error, or when the timer fires.                  *)
(***************************************************************************)
EXTENDS Integers, FiniteSets

CONSTANTS
    Listener, \* the listeners
    Request,  \* requests that can be in flight at once
    NoListener   \* the listener of an idle request

Counting == {"HTTP2", "TCP", "TRIPLE"}

Protocol == Counting \cup {"HTTP", "GRPC"}

VARIABLES
    protocol, \* the protocol of each listener
    reject,   \* rejectRequests of each listener
    count,    \* ActiveCount of each listener
    drain,    \* where ShutDown of each listener is
    request,  \* where each request is, and its listener
    signal,   \* the process was signalled
    expired,  \* the shutdown timeout has passed
    broken,   \* a filter chain reported an error when it was closed
    exited,   \* the process is gone
    slipped,  \* <<r, l>>: let in by gRPC listener l, not counted when its wait ended
    cut       \* <<r, l>>: cut off by Stop of the gRPC server of l before the timeout

shutdownVars == <<protocol, reject, count, drain, request, signal, expired, broken,
          exited, slipped, cut>>

ShutdownInit ==
    /\ protocol \in [Listener -> Protocol]
    /\ reject = [l \in Listener |-> FALSE]
    /\ count = [l \in Listener |-> 0]
    /\ drain = [l \in Listener |-> "serving"]
    /\ request = [r \in Request |-> [pc |-> "idle", at |-> NoListener]]
    /\ signal = FALSE /\ expired = FALSE /\ broken = FALSE /\ exited = FALSE
    /\ slipped = {} /\ cut = {}

At(l, pcs) == {r \in Request : request[r].at = l /\ request[r].pc \in pcs}

Gone(requests, rs) ==
    [r \in Request |-> IF r \in rs THEN [pc |-> "idle", at |-> NoListener]
                       ELSE requests[r]]

-----------------------------------------------------------------------------
(* Requests                                                                *)

\* A request reaches a listener; srv.Shutdown has closed an HTTP socket
\* from the moment it is called.
Arrive(r, l) ==
    /\ ~exited /\ request[r].pc = "idle"
    /\ drain[l] = "serving" \/ (drain[l] = "waiting" /\ protocol[l] # "HTTP")
    /\ request' = [request EXCEPT ![r] = [pc |-> "arrived", at |-> l]]
    /\ UNCHANGED <<protocol, reject, count, drain, signal, expired, broken,
                   exited, slipped, cut>>

ServeHTTP(r) ==
    LET l == request[r].at
    IN  /\ ~exited /\ request[r].pc = "arrived" /\ protocol[l] = "HTTP"
        /\ request' = [request EXCEPT ![r].pc = "running"]
        /\ UNCHANGED <<protocol, reject, count, drain, signal, expired,
                       broken, exited, slipped, cut>>

\* Mutant: a counting listener looks at the flag before it counts.
checkThenCount(r) ==
    LET l == request[r].at
    IN  /\ ~exited /\ request[r].pc = "arrived" /\ protocol[l] \in Counting
        /\ request' = IF reject[l] THEN Gone(request, {r})
                      ELSE [request EXCEPT ![r].pc = "admitted"]
        /\ UNCHANGED <<protocol, reject, count, drain, signal, expired,
                       broken, exited, slipped, cut>>

\* HTTP/2, TCP and Triple: count, then look at the flag.
AddActiveCount(r) ==
    LET l == request[r].at
    IN  /\ ~exited /\ request[r].pc = "arrived" /\ protocol[l] \in Counting
        /\ count' = [count EXCEPT ![l] = @ + 1]
        /\ request' = [request EXCEPT ![r].pc = "counted"]
        /\ UNCHANGED <<protocol, reject, drain, signal, expired, broken,
                       exited, slipped, cut>>

RejectRequests(r) ==
    LET l == request[r].at
    IN  /\ ~exited /\ request[r].pc = "counted"
        /\ \/ /\ reject[l]
              /\ count' = [count EXCEPT ![l] = @ - 1]
              /\ request' = Gone(request, {r})
           \/ /\ ~reject[l] /\ count' = count
              /\ request' = [request EXCEPT ![r].pc = "running"]
        /\ UNCHANGED <<protocol, reject, drain, signal, expired, broken,
                       exited, slipped, cut>>

\* gRPC: look at the flag, then count.
proxyStreamHandler(r) ==
    LET l == request[r].at
    IN  /\ ~exited /\ request[r].pc = "arrived" /\ protocol[l] = "GRPC"
        /\ request' = IF reject[l] THEN Gone(request, {r})
                      ELSE [request EXCEPT ![r].pc = "admitted"]
        /\ UNCHANGED <<protocol, reject, count, drain, signal, expired,
                       broken, exited, slipped, cut>>

CountStream(r) ==
    /\ ~exited /\ request[r].pc = "admitted"
    /\ count' = [count EXCEPT ![request[r].at] = @ + 1]
    /\ request' = [request EXCEPT ![r].pc = "running"]
    /\ UNCHANGED <<protocol, reject, drain, signal, expired, broken, exited,
                   slipped, cut>>

Finish(r) ==
    LET l == request[r].at
    IN  /\ ~exited /\ request[r].pc = "running"
        /\ count' = [count EXCEPT ![l] =
                       IF protocol[l] = "HTTP" THEN @ ELSE @ - 1]
        /\ request' = Gone(request, {r})
        /\ UNCHANGED <<protocol, reject, drain, signal, expired, broken,
                       exited, slipped, cut>>

-----------------------------------------------------------------------------
(* The shutdown                                                            *)

gracefulShutdownInit ==
    /\ ~signal /\ signal' = TRUE
    /\ UNCHANGED <<protocol, reject, count, drain, request, expired, broken,
                   exited, slipped, cut>>

ShutDown(l) ==
    /\ ~exited /\ signal /\ drain[l] = "serving"
    /\ drain' = [drain EXCEPT ![l] = "waiting"]
    /\ reject' = [reject EXCEPT ![l] = protocol[l] # "HTTP"]
    /\ UNCHANGED <<protocol, count, request, signal, expired, broken, exited,
                   slipped, cut>>

\* The loop of a counting listener ends; Done is called before the server is
\* closed. gRPC goes on to stop its server.
waitForActiveRequests(l) ==
    /\ ~exited /\ drain[l] = "waiting" /\ protocol[l] # "HTTP"
    /\ expired \/ count[l] = 0
    /\ drain' = [drain EXCEPT ![l] =
            IF protocol[l] = "GRPC" THEN "stopping" ELSE "done"]
    /\ slipped' = slipped \cup (At(l, {"admitted"}) \X {l})
    /\ UNCHANGED <<protocol, reject, count, request, signal, expired, broken,
                   exited, cut>>

\* GracefulStop waits for every handler; after defaultShutdownTimeout, which
\* has nothing to do with the shutdown timeout, Stop cuts them off, and they
\* count themselves off as they return.
gracefulStopServer(l) ==
    /\ ~exited /\ drain[l] = "stopping"
    /\ drain' = [drain EXCEPT ![l] = "done"]
    /\ request' = Gone(request, At(l, {"arrived", "admitted", "running"}))
    /\ count' = [count EXCEPT ![l] = 0]
    /\ cut' = IF expired THEN cut ELSE cut \cup (At(l, {"admitted", "running"}) \X {l})
    /\ UNCHANGED <<protocol, reject, signal, expired, broken, exited, slipped>>

\* srv.Shutdown returns when no connection is active, or with an error at the
\* timeout; an error of it, or of the filter chain, ends the process.
ShutdownHTTP(l) ==
    /\ ~exited /\ drain[l] = "waiting" /\ protocol[l] = "HTTP"
    /\ \/ /\ At(l, {"arrived", "running"}) = {}
          /\ drain' = [drain EXCEPT ![l] = "done"]
          /\ UNCHANGED <<broken, exited>>
       \/ /\ At(l, {"arrived", "running"}) = {}
          /\ broken' = TRUE /\ exited' = TRUE /\ UNCHANGED drain
       \/ /\ expired /\ exited' = TRUE /\ UNCHANGED <<broken, drain>>
    /\ UNCHANGED <<protocol, reject, count, request, signal, expired, slipped, cut>>

Timeout ==
    /\ signal /\ ~expired /\ expired' = TRUE
    /\ UNCHANGED <<protocol, reject, count, drain, request, signal, broken,
                   exited, slipped, cut>>

AfterFunc ==
    /\ expired /\ ~exited /\ exited' = TRUE
    /\ UNCHANGED <<protocol, reject, count, drain, request, signal, expired,
                   broken, slipped, cut>>

ExitWhenDone ==
    /\ ~exited /\ signal /\ \A l \in Listener : drain[l] = "done"
    /\ exited' = TRUE
    /\ UNCHANGED <<protocol, reject, count, drain, request, signal, expired,
                   broken, slipped, cut>>

ShutdownNext ==
    \/ \E r \in Request :
         \/ \E l \in Listener : Arrive(r, l)
         \/ ServeHTTP(r) \/ AddActiveCount(r) \/ RejectRequests(r)
         \/ proxyStreamHandler(r) \/ CountStream(r) \/ Finish(r)
    \/ \E l \in Listener :
         \/ ShutDown(l) \/ waitForActiveRequests(l) \/ gracefulStopServer(l)
         \/ ShutdownHTTP(l)
    \/ gracefulShutdownInit \/ Timeout \/ AfterFunc \/ ExitWhenDone

ShutdownSpec == ShutdownInit /\ [][ShutdownNext]_shutdownVars

-----------------------------------------------------------------------------
(* Properties                                                              *)

\* A request that was let in is not cut off by the end of its listener, or of
\* the process, before the shutdown timeout has passed, however its arrival
\* interleaves with the refusal of new requests. Two exceptions: an HTTP
\* listener whose filter chain reports an error when it is closed ends the
\* process at once (gracefulShutdownInit, ShutDown); and Stop of a gRPC server,
\* early as it may come, cuts off a request that had passed the look at the
\* flag and was not yet counted when the listener found no request to wait for
\* (proxyStreamHandler, gracefulStopServer), and no other.
NotCutOffEarly ==
    /\ cut \subseteq slipped
    /\ (~expired /\ ~broken) =>
        \A r \in Request : request[r].pc \in {"running", "admitted"} =>
            ~exited /\ drain[request[r].at] # "done"
=============================================================================
