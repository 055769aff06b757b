---------------------------- MODULE Control_proofs ----------------------------
(***************************************************************************)
(* Proofs about the parts that change a running gateway: the debounced     *)
(* publication of route edits (RouterCoordinator), the graceful shutdown   *)
(* (ListenerShutdown), the listener transactions (ListenerManager), the    *)
(* hot reload (HotReload), the two control planes: the client of an ADS    *)
(* server (AdsClient) and the admin console's delta xDS (AdminXds), and    *)
(* the Kubernetes controller (GatewayController).                          *)
(***************************************************************************)
EXTENDS RouterCoordinator, ListenerShutdown, ListenerManager, HotReload, AdminXds, AdsClient,
        GatewayController, FiniteSetTheorems, SequenceTheorems, TLAPS

-----------------------------------------------------------------------------
(***************************************************************************)
(* Route edits, for any number of routes, timers and goroutines            *)
(***************************************************************************)
\* The goroutine reads the timer rm.timer holds, and until it has received the
\* channel of that timer can still deliver.
FollowsTimer ==
    \A w \in Waiter :
       /\ waiter[w].state = "asleep" => waiter[w].reads = NoTimer
       /\ waiter[w].state = "started" => waiter[w].reads = NoTimer
       /\ waiter[w].state \in {"waiting", "woken"} => waiter[w].reads = timer
       /\ waiter[w].state \in {"started", "waiting"} => channel[timer] \in {"armed", "fired"}

\* Without a timer there is nothing left to publish.
IdleIsPublished == timer = NoTimer => mainSnapshot = ToSnapshot(nextSnapshot)

RouterInv == TypeOK /\ OneWaiterPerTimer /\ FollowsTimer /\ IdleIsPublished

LEMMA RouterInvInit == Init => RouterInv
BY RouterAssumption DEF Init, RouterInv, TypeOK, OneWaiterPerTimer, FollowsTimer,
   IdleIsPublished, Awake, Asleep

\* An edit keeps the invariant whatever the new list is: it always leaves a
\* timer and a goroutine behind.
LEMMA ScheduleKeepsInv ==
    RouterInv /\ schedulePublishLocked => RouterInv'
<1> SUFFICES ASSUME RouterInv, schedulePublishLocked PROVE RouterInv'
    OBVIOUS
<1> USE RouterAssumption DEF RouterInv, FollowsTimer, Awake, Asleep
<1>1. CASE NewTimer
  <2>0. PICK t \in TimerObj, w \in Waiter :
          /\ Unreferenced(t)
          /\ waiter[w] = Asleep
          /\ timer' = t
          /\ channel' = [channel EXCEPT ![t] = "armed"]
          /\ StartsWaiter(w)
      BY <1>1 DEF NewTimer
  <2>1. \A v \in Waiter : waiter[v] = Asleep
      BY <1>1 DEF NewTimer, OneWaiterPerTimer
  <2>2. TypeOK'
      BY <2>0 DEF TypeOK, StartsWaiter
  <2>3. \A v \in Waiter : waiter'[v] = IF v = w THEN [state |-> "started", reads |-> NoTimer]
                                                ELSE Asleep
      BY <2>0, <2>1 DEF TypeOK, StartsWaiter
  <2>4. OneWaiterPerTimer'
      BY <2>0, <2>3 DEF OneWaiterPerTimer
  <2>5. FollowsTimer'
      BY <2>0, <2>3 DEF TypeOK
  <2>6. IdleIsPublished'
      BY <2>0 DEF IdleIsPublished
  <2> QED BY <2>2, <2>4, <2>5, <2>6
<1>2. CASE ResetTimer
  <2>1. TypeOK' /\ OneWaiterPerTimer' /\ FollowsTimer'
      BY <1>2 DEF ResetTimer, TypeOK, OneWaiterPerTimer
  <2>2. IdleIsPublished'
      BY <1>2 DEF ResetTimer, IdleIsPublished
  <2> QED BY <2>1, <2>2
<1> QED BY <1>1, <1>2 DEF schedulePublishLocked

LEMMA RouterInvNext == RouterInv /\ [Next]_vars => RouterInv'
<1> SUFFICES ASSUME RouterInv, [Next]_vars PROVE RouterInv'
    OBVIOUS
<1>1. CASE Edit
    BY <1>1, ScheduleKeepsInv DEF Edit, OnAddRouter, OnDeleteRouter
<1>2. ASSUME NEW t \in TimerObj, TimerFires(t) PROVE RouterInv'
  <2> USE RouterAssumption, <1>2 DEF RouterInv, TimerFires
  <2>1. TypeOK' /\ OneWaiterPerTimer' /\ FollowsTimer'
      BY DEF TypeOK, OneWaiterPerTimer, FollowsTimer, Awake, Asleep
  <2>2. IdleIsPublished'
      BY DEF IdleIsPublished
  <2> QED BY <2>1, <2>2
<1>3. ASSUME NEW w \in Waiter, AwaitEvaluatesTimer(w) PROVE RouterInv'
  <2> USE RouterAssumption, <1>3 DEF RouterInv, AwaitEvaluatesTimer
  <2>0. timer # NoTimer
      BY DEF OneWaiterPerTimer, Awake, Asleep
  <2>1. TypeOK' /\ OneWaiterPerTimer' /\ FollowsTimer'
      BY <2>0 DEF TypeOK, OneWaiterPerTimer, FollowsTimer, Awake, Asleep
  <2>2. IdleIsPublished'
      BY DEF IdleIsPublished
  <2> QED BY <2>1, <2>2
<1>4. ASSUME NEW w \in Waiter, AwaitReceives(w) PROVE RouterInv'
  <2> USE RouterAssumption, <1>4 DEF RouterInv, AwaitReceives, Receives
  <2>0. \A v \in Waiter : v # w => waiter[v] = Asleep
      BY DEF OneWaiterPerTimer, Awake, Asleep
  <2>1. waiter[w].reads = timer /\ timer \in TimerObj
      BY DEF TypeOK, OneWaiterPerTimer, FollowsTimer, Awake, Asleep
  <2>2. TypeOK' /\ OneWaiterPerTimer' /\ FollowsTimer'
      BY <2>0, <2>1 DEF TypeOK, OneWaiterPerTimer, FollowsTimer, Awake, Asleep
  <2>3. IdleIsPublished'
      BY DEF IdleIsPublished
  <2> QED BY <2>2, <2>3
<1>5. ASSUME NEW w \in Waiter, AwaitPublishes(w) PROVE RouterInv'
  <2> USE RouterAssumption, <1>5 DEF RouterInv, AwaitPublishes
  <2>0. \A v \in Waiter : waiter'[v] = Asleep
      BY DEF TypeOK, OneWaiterPerTimer, Awake, Asleep
  <2>1. TypeOK' /\ OneWaiterPerTimer' /\ FollowsTimer'
      BY <2>0 DEF TypeOK, OneWaiterPerTimer, FollowsTimer, Awake, Asleep
  <2>2. IdleIsPublished'
      BY DEF IdleIsPublished, publishLocked
  <2> QED BY <2>1, <2>2
<1>6. CASE UNCHANGED vars
    BY <1>6 DEF vars, RouterInv, TypeOK, OneWaiterPerTimer, FollowsTimer, IdleIsPublished,
       Awake, Asleep
<1> QED BY <1>1, <1>2, <1>3, <1>4, <1>5, <1>6 DEF Next

\* The goroutines of awaitAndPublish keep the types of the debounce machinery;
\* none of them dereferences a nil rm.timer.
THEOREM TypeCorrect == Spec => []TypeOK
<1>1. RouterInv => TypeOK
    BY DEF RouterInv
<1> QED BY <1>1, RouterInvInit, RouterInvNext, PTL DEF Spec

\* There is one publishing goroutine while there is a timer, none otherwise.
THEOREM WaiterUnique == Spec => []OneWaiterPerTimer
<1>1. RouterInv => OneWaiterPerTimer
    BY DEF RouterInv
<1> QED BY <1>1, RouterInvInit, RouterInvNext, PTL DEF Spec

\* An edit of OnAddRouter or OnDeleteRouter that is not published yet always
\* has a goroutine on its way to publish it.
THEOREM EditsAreOwned == Spec => []NoEditForgotten
<1>1. RouterInv => NoEditForgotten
  <2> SUFFICES ASSUME RouterInv, mainSnapshot # ToSnapshot(nextSnapshot)
               PROVE \E w \in Waiter : WillPublish(w)
      BY DEF NoEditForgotten
  <2>1. timer # NoTimer
      BY DEF RouterInv, IdleIsPublished
  <2>2. PICK w \in Waiter : Awake(w)
      BY <2>1 DEF RouterInv, OneWaiterPerTimer
  <2>3. waiter[w] \in [state : {"asleep", "started", "waiting", "woken"},
                       reads : TimerObj \cup {NoTimer}]
      BY DEF RouterInv, TypeOK
  <2>4. waiter[w].state # "asleep"
      BY <2>2, <2>3 DEF RouterInv, FollowsTimer, Awake, Asleep
  <2>5. WillPublish(w)
      BY <2>3, <2>4 DEF RouterInv, FollowsTimer, WillPublish
  <2> QED BY <2>5
<1> QED BY <1>1, RouterInvInit, RouterInvNext, PTL DEF Spec

-----------------------------------------------------------------------------
(***************************************************************************)
(* The graceful shutdown, for any listeners and any finite set of requests *)
(***************************************************************************)
Places == {"idle", "arrived", "counted", "admitted", "running"}

ShutdownTypes ==
    /\ protocol \in [Listener -> Protocol]
    /\ reject \in [Listener -> BOOLEAN]
    /\ count \in [Listener -> Int]
    /\ drain \in [Listener -> {"serving", "waiting", "stopping", "done"}]
    /\ request \in [Request -> [pc : Places, at : Listener \cup {NoListener}]]

\* A request is where its listener's protocol takes it.
Placed ==
    \A r \in Request :
        LET l == request[r].at IN
        /\ request[r].pc # "idle" => l \in Listener
        /\ request[r].pc = "counted" => protocol[l] \in Counting
        /\ request[r].pc = "admitted" => protocol[l] = "GRPC"

\* A listener counts the requests past AddActiveCount, unless it is an HTTP one.
Counts ==
    \A l \in Listener : protocol[l] # "HTTP" =>
        count[l] = Cardinality(At(l, {"counted", "running"}))

\* A listener that drains refuses, unless its socket is closed; only gRPC has a
\* server to stop after that.
Refuses ==
    \A l \in Listener :
        /\ drain[l] # "serving" /\ protocol[l] # "HTTP" => reject[l]
        /\ drain[l] = "stopping" => protocol[l] = "GRPC"

\* What is left on a listener that is done.
Drained ==
    \A l \in Listener : drain[l] = "done" =>
        \A r \in Request : request[r].at = l =>
            /\ protocol[l] \in {"HTTP", "GRPC"} => request[r].pc = "idle"
            /\ ~expired => request[r].pc # "running"

ExitIsInOrder == exited /\ ~expired /\ ~broken => \A l \in Listener : drain[l] = "done"

\* While a gRPC server is being stopped, before the timeout, its listener has no
\* request that was counted when the wait ended.
Slips ==
    /\ cut \subseteq slipped
    /\ \A r \in Request :
          LET l == request[r].at IN
          request[r].pc \in {"admitted", "running"} /\ drain[l] = "stopping" /\ ~expired =>
              <<r, l>> \in slipped

ShutdownInv == ShutdownTypes /\ Placed /\ Counts /\ Refuses /\ Drained /\ ExitIsInOrder /\ Slips

LEMMA ShutdownInvInit == IsFiniteSet(Request) /\ ShutdownInit => ShutdownInv
<1> SUFFICES ASSUME IsFiniteSet(Request), ShutdownInit PROVE ShutdownInv
    OBVIOUS
<1> USE DEF ShutdownInit
<1>1. ShutdownTypes
    BY DEF ShutdownTypes, Places, Protocol, Counting
<1>2. \A l \in Listener : At(l, {"counted", "running"}) = {}
    BY DEF At
<1>3. Counts
    BY <1>2, FS_EmptySet DEF Counts
<1>4. Placed /\ Refuses /\ Drained /\ ExitIsInOrder /\ Slips
    BY DEF Placed, Refuses, Drained, ExitIsInOrder, Slips
<1> QED BY <1>1, <1>3, <1>4 DEF ShutdownInv

\* What a request contributes to the counter of l.
Tally(l, pc, at) == IF at = l /\ pc \in {"counted", "running"} THEN 1 ELSE 0

\* How a counter follows one request.
LEMMA CountOne ==
    ASSUME IsFiniteSet(Request), ShutdownInv, NEW r \in Request, NEW pc \in Places, NEW at \in Listener \cup {NoListener},
           request' = [request EXCEPT ![r] = [pc |-> pc, at |-> at]], protocol' = protocol,
           count' \in [Listener -> Int],
           \A l \in Listener : protocol[l] # "HTTP" =>
               count'[l] = count[l] - Tally(l, request[r].pc, request[r].at) + Tally(l, pc, at)
    PROVE  Counts'
<1> SUFFICES ASSUME NEW l \in Listener, protocol[l] # "HTTP"
             PROVE  count'[l] = Cardinality(At(l, {"counted", "running"})')
    BY DEF Counts
<1> DEFINE now == At(l, {"counted", "running"})
           then == At(l, {"counted", "running"})'
           was == request[r].at = l /\ request[r].pc \in {"counted", "running"}
           is == at = l /\ pc \in {"counted", "running"}
<1>1. now \in SUBSET Request /\ then \in SUBSET Request
    BY DEF At
<1>2. IsFiniteSet(now) /\ IsFiniteSet(then) /\ Cardinality(now) \in Nat
    BY <1>1, FS_Subset, FS_CardinalityType
<1>3. then = IF is THEN now \cup {r} ELSE now \ {r}
    BY DEF At, ShutdownInv, ShutdownTypes
<1>4. r \in now <=> was
    BY DEF At
<1>5. count[l] = Cardinality(now)
    BY DEF ShutdownInv, Counts
<1>6. count'[l] = count[l] - (IF was THEN 1 ELSE 0) + (IF is THEN 1 ELSE 0)
    BY DEF Tally
<1>7. /\ Cardinality(now \cup {r}) = IF r \in now THEN Cardinality(now) ELSE Cardinality(now) + 1
      /\ Cardinality(now \ {r}) = IF r \in now THEN Cardinality(now) - 1 ELSE Cardinality(now)
  <2> HIDE DEF now
  <2> QED BY <1>2, FS_AddElement, FS_RemoveElement
<1>8. Cardinality(then) = Cardinality(now) - (IF was THEN 1 ELSE 0) + (IF is THEN 1 ELSE 0)
  <2> HIDE DEF now, then
  <2>1. CASE was /\ is
      BY <2>1, <1>2, <1>3, <1>4, <1>7
  <2>2. CASE was /\ ~is
      BY <2>2, <1>2, <1>3, <1>4, <1>7
  <2>3. CASE ~was /\ is
      BY <2>3, <1>2, <1>3, <1>4, <1>7
  <2>4. CASE ~was /\ ~is
      BY <2>4, <1>2, <1>3, <1>4, <1>7
  <2> QED BY <2>1, <2>2, <2>3, <2>4
<1> HIDE DEF now, then, was, is
<1> QED BY <1>5, <1>6, <1>8 DEF then

\* One request moves on.
LEMMA RequestMoves ==
    ASSUME IsFiniteSet(Request), ShutdownInv, ~exited, NEW r \in Request, NEW pc \in Places, NEW at \in Listener \cup {NoListener},
           request' = [request EXCEPT ![r] = [pc |-> pc, at |-> at]],
           pc # "idle" => at \in Listener,
           pc = "counted" => protocol[at] \in Counting,
           pc = "admitted" => protocol[at] = "GRPC",
           pc # "idle" /\ drain[at] = "done" => protocol[at] \in Counting /\ pc # "running",
           count' \in [Listener -> Int],
           \A l \in Listener : protocol[l] # "HTTP" =>
               count'[l] = count[l] - Tally(l, request[r].pc, request[r].at) + Tally(l, pc, at),
           pc \in {"admitted", "running"} /\ drain[at] = "stopping" =>
               request[r].pc = "admitted" /\ request[r].at = at,
           UNCHANGED <<protocol, reject, drain, expired, broken, exited, slipped, cut>>
    PROVE  ShutdownInv'
<1>1. Counts'
    BY CountOne
<1>2. request'[r] = [pc |-> pc, at |-> at] /\ \A p \in Request \ {r} : request'[p] = request[p]
    BY DEF ShutdownInv, ShutdownTypes
<1>3. ShutdownTypes'
    BY DEF ShutdownInv, ShutdownTypes
<1>4. Placed'
    BY <1>2 DEF ShutdownInv, Placed
<1>5. Drained'
    BY <1>2 DEF ShutdownInv, Drained, Counting
<1>6. Refuses' /\ ExitIsInOrder'
    BY DEF ShutdownInv, Refuses, ExitIsInOrder
<1>7. Slips'
    BY <1>2 DEF ShutdownInv, Slips
<1> QED BY <1>1, <1>3, <1>4, <1>5, <1>6, <1>7 DEF ShutdownInv

\* A request that is over.
LEMMA OneGone ==
    ASSUME ShutdownInv, NEW r \in Request
    PROVE  Gone(request, {r}) = [request EXCEPT ![r] = [pc |-> "idle", at |-> NoListener]]
BY DEF Gone, ShutdownInv, ShutdownTypes

\* What the invariant says of a request on its way.
LEMMA OnItsWay ==
    ASSUME ShutdownInv, NEW r \in Request, request[r].pc # "idle"
    PROVE  LET l == request[r].at IN
           /\ l \in Listener /\ protocol[l] \in Protocol /\ count[l] \in Int
           /\ request[r].pc = "counted" => protocol[l] \in Counting
           /\ request[r].pc = "admitted" => protocol[l] = "GRPC"
           /\ drain[l] = "done" => protocol[l] \notin {"HTTP", "GRPC"}
           /\ drain[l] # "serving" /\ protocol[l] # "HTTP" => reject[l]
           /\ drain[l] = "stopping" => protocol[l] = "GRPC"
BY DEF ShutdownInv, ShutdownTypes, Placed, Drained, Refuses

LEMMA RequestStep ==
    ASSUME IsFiniteSet(Request), ShutdownInv, NEW r \in Request,
           \/ \E l \in Listener : Arrive(r, l)
           \/ ServeHTTP(r) \/ AddActiveCount(r) \/ RejectRequests(r)
           \/ proxyStreamHandler(r) \/ CountStream(r) \/ Finish(r)
    PROVE  ShutdownInv'
<1> DEFINE at == request[r].at
           pc == request[r].pc
           Moves(p, a) == /\ p \in Places /\ a \in Listener \cup {NoListener}
                          /\ request' = [request EXCEPT ![r] = [pc |-> p, at |-> a]]
                          /\ p # "idle" => a \in Listener
                          /\ p = "counted" => protocol[a] \in Counting
                          /\ p = "admitted" => protocol[a] = "GRPC"
                          /\ p # "idle" /\ drain[a] = "done" => protocol[a] \in Counting /\ p # "running"
                          /\ p \in {"admitted", "running"} /\ drain[a] = "stopping" => pc = "admitted" /\ at = a
           Counted(p, a) == /\ count' \in [Listener -> Int]
                            /\ \A l \in Listener : protocol[l] # "HTTP" =>
                                  count'[l] = count[l] - Tally(l, pc, at) + Tally(l, p, a)
           Rest == ~exited /\ UNCHANGED <<protocol, reject, drain, expired, broken, exited, slipped, cut>>
<1>1. ASSUME NEW p, NEW a, Moves(p, a), Counted(p, a), Rest PROVE ShutdownInv'
    BY <1>1, RequestMoves
<1>2. /\ count \in [Listener -> Int] /\ request \in [Request -> [pc : Places, at : Listener \cup {NoListener}]]
      /\ pc \in Places /\ at \in Listener \cup {NoListener}
    BY DEF ShutdownInv, ShutdownTypes
<1>3. ASSUME NEW p \in Places
      PROVE  [request EXCEPT ![r].pc = p] = [request EXCEPT ![r] = [pc |-> p, at |-> at]]
  <2>1. request[r] \in [pc : Places, at : Listener \cup {NoListener}]
      BY <1>2
  <2>2. [request[r] EXCEPT !.pc = p] = [pc |-> p, at |-> request[r].at]
      BY <2>1
  <2>3. [request EXCEPT ![r].pc = p] = [request EXCEPT ![r] = [request[r] EXCEPT !.pc = p]]
      OBVIOUS
  <2> QED BY <2>2, <2>3
<1>4. pc # "idle" => /\ at \in Listener /\ protocol[at] \in Protocol
                     /\ pc = "counted" => protocol[at] \in Counting
                     /\ pc = "admitted" => protocol[at] = "GRPC"
                     /\ drain[at] = "done" => protocol[at] \notin {"HTTP", "GRPC"}
                     /\ drain[at] # "serving" /\ protocol[at] # "HTTP" => reject[at]
                     /\ drain[at] = "stopping" => protocol[at] = "GRPC"
    BY OnItsWay
<1>5. Gone(request, {r}) = [request EXCEPT ![r] = [pc |-> "idle", at |-> NoListener]]
    BY OneGone
<1> USE DEF Places, Counting, Protocol
<1>6. ASSUME NEW l \in Listener, Arrive(r, l) PROVE ShutdownInv'
  <2>1. Moves("arrived", l) /\ Rest
      BY <1>6 DEF Arrive
  <2>2. Counted("arrived", l)
      BY <1>2, <1>6 DEF Arrive, Tally
  <2> QED BY <2>1, <2>2, <1>1
<1>7. CASE ServeHTTP(r)
  <2>1. Moves("running", at) /\ Rest
      BY <1>3, <1>4, <1>7 DEF ServeHTTP
  <2>2. Counted("running", at)
      BY <1>2, <1>7 DEF ServeHTTP, Tally
  <2> QED BY <2>1, <2>2, <1>1
<1>8. CASE AddActiveCount(r)
  <2>1. Moves("counted", at) /\ Rest
      BY <1>3, <1>4, <1>8 DEF AddActiveCount
  <2>2. Counted("counted", at)
      BY <1>2, <1>4, <1>8 DEF AddActiveCount, Tally
  <2> QED BY <2>1, <2>2, <1>1
<1>9. CASE RejectRequests(r)
  <2>1. Rest /\ pc = "counted"
      BY <1>9 DEF RejectRequests
  <2>2. CASE reject[at] /\ count' = [count EXCEPT ![at] = @ - 1] /\ request' = Gone(request, {r})
    <3>1. Moves("idle", NoListener)
        BY <2>2, <1>5
    <3>2. Counted("idle", NoListener)
        BY <2>1, <2>2, <1>2, <1>4 DEF Tally
    <3> QED BY <3>1, <3>2, <2>1, <1>1
  <2>3. CASE ~reject[at] /\ count' = count /\ request' = [request EXCEPT ![r].pc = "running"]
    <3>1. Moves("running", at)
        BY <2>1, <2>3, <1>3, <1>4
    <3>2. Counted("running", at)
        BY <2>1, <2>3, <1>2 DEF Tally
    <3> QED BY <3>1, <3>2, <2>1, <1>1
  <2> QED BY <2>2, <2>3, <1>9 DEF RejectRequests
<1>10. CASE proxyStreamHandler(r)
  <2>1. Rest /\ pc = "arrived" /\ count' = count /\ protocol[at] = "GRPC"
      BY <1>10 DEF proxyStreamHandler
  <2>2. CASE request' = Gone(request, {r})
    <3>1. Moves("idle", NoListener)
        BY <2>2, <1>5
    <3>2. Counted("idle", NoListener)
        BY <2>1, <1>2 DEF Tally
    <3> QED BY <3>1, <3>2, <2>1, <1>1
  <2>3. CASE ~reject[at] /\ request' = [request EXCEPT ![r].pc = "admitted"]
    <3>1. Moves("admitted", at)
        BY <2>1, <2>3, <1>3, <1>4
    <3>2. Counted("admitted", at)
        BY <2>1, <1>2 DEF Tally
    <3> HIDE DEF Moves, Counted, Rest
    <3> QED BY <3>1, <3>2, <2>1, <1>1
  <2> QED BY <2>2, <2>3, <1>10 DEF proxyStreamHandler
<1>11. CASE CountStream(r)
  <2>1. Moves("running", at) /\ Rest
      BY <1>3, <1>4, <1>11 DEF CountStream
  <2>2. Counted("running", at)
      BY <1>2, <1>4, <1>11 DEF CountStream, Tally
  <2> QED BY <2>1, <2>2, <1>1
<1>12. CASE Finish(r)
  <2>1. Moves("idle", NoListener) /\ Rest
      BY <1>5, <1>12 DEF Finish
  <2>2. Counted("idle", NoListener)
    <3>1. pc = "running" /\ count' = [count EXCEPT ![at] = IF protocol[at] = "HTTP" THEN @ ELSE @ - 1]
        BY <1>12 DEF Finish
    <3> QED BY <3>1, <1>2, <1>4 DEF Tally
  <2> QED BY <2>1, <2>2, <1>1
<1> QED BY <1>6, <1>7, <1>8, <1>9, <1>10, <1>11, <1>12

-----------------------------------------------------------------------------
\* A listener goes on with its shutdown; requests and counters stay.
LEMMA ListenerMoves ==
    ASSUME IsFiniteSet(Request), ShutdownInv,
           drain' \in [Listener -> {"serving", "waiting", "stopping", "done"}],
           reject' \in [Listener -> BOOLEAN],
           Refuses', Drained', ExitIsInOrder', Slips',
           UNCHANGED <<protocol, count, request>>
    PROVE  ShutdownInv'
<1>1. ShutdownTypes'
    BY DEF ShutdownInv, ShutdownTypes
<1>2. Placed'
    BY DEF ShutdownInv, Placed
<1>3. Counts'
    BY DEF ShutdownInv, Counts, At
<1> QED BY <1>1, <1>2, <1>3 DEF ShutdownInv

LEMMA ShutDownStep ==
    ASSUME IsFiniteSet(Request), ShutdownInv, NEW l \in Listener, ShutDown(l)
    PROVE  ShutdownInv'
<1> USE DEF ShutdownInv, ShutdownTypes, ShutDown
<1>1. /\ drain' \in [Listener -> {"serving", "waiting", "stopping", "done"}]
      /\ reject' \in [Listener -> BOOLEAN]
    <2>1. (protocol[l] # "HTTP") \in BOOLEAN
        OBVIOUS
    <2> QED BY <2>1
<1>2. Refuses'
    BY DEF Refuses
<1>3. Drained' /\ ExitIsInOrder' /\ Slips'
    BY DEF Drained, ExitIsInOrder, Slips
<1> QED BY <1>1, <1>2, <1>3, ListenerMoves

LEMMA waitForActiveRequestsStep ==
    ASSUME IsFiniteSet(Request), ShutdownInv, NEW l \in Listener, waitForActiveRequests(l)
    PROVE  ShutdownInv'
<1> USE DEF ShutdownInv, ShutdownTypes, waitForActiveRequests
<1>1. /\ drain' \in [Listener -> {"serving", "waiting", "stopping", "done"}]
      /\ reject' \in [Listener -> BOOLEAN]
    OBVIOUS
<1>2. Refuses' /\ ExitIsInOrder'
    BY DEF Refuses, ExitIsInOrder
<1>4. ASSUME ~expired, NEW r \in Request, request[r].at = l
      PROVE  request[r].pc # "running"
  <2>1. Cardinality(At(l, {"counted", "running"})) = 0
      BY <1>4 DEF Counts
  <2>2. IsFiniteSet(At(l, {"counted", "running"}))
      BY FS_Subset DEF At
  <2>3. At(l, {"counted", "running"}) = {}
      BY <2>1, <2>2, FS_EmptySet
  <2> QED BY <2>3, <1>4 DEF At
<1>5. Slips'
  <2>1. cut' \subseteq slipped' /\ slipped \subseteq slipped'
      BY DEF Slips
  <2> SUFFICES ASSUME NEW r \in Request, request[r].pc \in {"admitted", "running"}, ~expired,
                      drain'[request[r].at] = "stopping"
               PROVE  <<r, request[r].at>> \in slipped'
      BY <2>1 DEF Slips
  <2>2. CASE request[r].at = l
    <3>1. r \in At(l, {"admitted"})
        BY <2>2, <1>4 DEF At
    <3> QED BY <3>1, <2>2
  <2>3. CASE request[r].at # l
    <3>1. drain[request[r].at] = "stopping"
        BY <2>3 DEF Placed
    <3> QED BY <3>1, <2>1 DEF Slips
  <2> QED BY <2>2, <2>3
<1>3. Drained'
  <2>2. protocol[l] \in Counting \cup {"GRPC"} /\ drain[l] = "waiting"
      BY DEF Protocol
  <2>3. CASE protocol[l] = "GRPC"
      BY <2>3 DEF Drained
  <2>4. CASE protocol[l] \in Counting
    <3>1. protocol[l] \notin {"HTTP", "GRPC"} /\ drain' = [drain EXCEPT ![l] = "done"]
        BY <2>4 DEF Counting
    <3> QED BY <3>1, <1>4, <2>4 DEF Drained
  <2> QED BY <2>2, <2>3, <2>4
<1> QED BY <1>1, <1>2, <1>3, <1>5, ListenerMoves

LEMMA ShutdownHTTPStep ==
    ASSUME IsFiniteSet(Request), ShutdownInv, NEW l \in Listener, ShutdownHTTP(l)
    PROVE  ShutdownInv'
<1> USE DEF ShutdownInv, ShutdownTypes, ShutdownHTTP
<1>1. /\ drain' \in [Listener -> {"serving", "waiting", "stopping", "done"}]
      /\ reject' \in [Listener -> BOOLEAN]
    OBVIOUS
<1>2. Refuses'
    BY DEF Refuses
<1>3. ExitIsInOrder'
    BY DEF ExitIsInOrder
<1>4. Drained'
  <2>1. CASE drain' = [drain EXCEPT ![l] = "done"] /\ At(l, {"arrived", "running"}) = {}
    <3>1. ASSUME NEW r \in Request, request[r].at = l PROVE request[r].pc = "idle"
      <4>1. request[r].pc \notin {"arrived", "running"}
          BY <2>1, <3>1 DEF At
      <4> QED BY <4>1, <3>1 DEF Placed, Places, Counting
    <3> QED BY <3>1, <2>1 DEF Drained
  <2>2. CASE drain' = drain
      BY <2>2 DEF Drained
  <2> QED BY <2>1, <2>2
<1>5. Slips'
    BY DEF Slips, Placed
<1> QED BY <1>1, <1>2, <1>3, <1>4, <1>5, ListenerMoves

\* Stop removes requests from a listener that does not count them.
LEMMA gracefulStopServerStep ==
    ASSUME IsFiniteSet(Request), ShutdownInv, NEW l \in Listener, gracefulStopServer(l)
    PROVE  ShutdownInv'
<1> USE DEF ShutdownInv, ShutdownTypes, gracefulStopServer
<1> DEFINE over == At(l, {"arrived", "admitted", "running"})
<1>1. /\ drain[l] = "stopping" /\ protocol[l] = "GRPC"
      /\ drain' = [drain EXCEPT ![l] = "done"] /\ request' = Gone(request, over)
      /\ count' = [count EXCEPT ![l] = 0]
      /\ UNCHANGED <<protocol, reject, expired, broken, exited, slipped>>
    BY DEF Refuses
<1>2. /\ \A r \in over : request'[r] = [pc |-> "idle", at |-> NoListener] /\ request[r].at = l
      /\ \A r \in Request \ over : request'[r] = request[r]
      /\ over \in SUBSET Request
      /\ request' \in [Request -> [pc : Places, at : Listener \cup {NoListener}]]
    BY <1>1 DEF Gone, At, Places
<1>3. \A r \in Request \ over : request[r].at = l => request[r].pc = "idle"
  <2>1. \A r \in Request : request[r].at = l => request[r].pc # "counted"
      BY <1>1 DEF Placed, Counting
  <2> QED BY <2>1 DEF At, Places
<1> HIDE DEF over
<1>4. ShutdownTypes'
    BY <1>1, <1>2
<1>5. Placed'
    BY <1>1, <1>2 DEF Placed
<1>6. Counts'
  <2> SUFFICES ASSUME NEW k \in Listener, protocol[k] # "HTTP"
               PROVE  count'[k] = Cardinality(At(k, {"counted", "running"})')
      BY <1>1 DEF Counts
  <2>1. CASE k = l
    <3>1. At(l, {"counted", "running"})' = {}
        BY <1>1, <1>2, <1>3 DEF At
    <3> QED BY <3>1, <2>1, <1>1, FS_EmptySet
  <2>2. CASE k # l
    <3>1. At(k, {"counted", "running"})' = At(k, {"counted", "running"})
        BY <2>2, <1>2 DEF At
    <3> QED BY <3>1, <2>2, <1>1 DEF Counts
  <2> QED BY <2>1, <2>2
<1>7. Refuses' /\ ExitIsInOrder'
    BY <1>1 DEF Refuses, ExitIsInOrder
<1>8. Drained'
    BY <1>1, <1>2, <1>3 DEF Drained
<1>9. Slips'
  <2>1. cut' \subseteq slipped
    <3>1. ~expired => At(l, {"admitted", "running"}) \X {l} \subseteq slipped
        BY <1>1 DEF Slips, At
    <3> QED BY <3>1 DEF Slips
  <2> SUFFICES ASSUME NEW r \in Request, request'[r].pc \in {"admitted", "running"}, ~expired,
                      drain'[request'[r].at] = "stopping"
               PROVE  <<r, request'[r].at>> \in slipped
      BY <1>1, <2>1 DEF Slips
  <2>2. request'[r] = request[r]
      BY <1>2
  <2>3. drain[request[r].at] = "stopping"
      BY <2>2, <1>1 DEF Placed
  <2> QED BY <2>2, <2>3 DEF Slips
<1> QED BY <1>4, <1>5, <1>6, <1>7, <1>8, <1>9

\* The process is signalled, times out or ends.
LEMMA ProcessStep ==
    ASSUME IsFiniteSet(Request), ShutdownInv,
           gracefulShutdownInit \/ Timeout \/ AfterFunc \/ ExitWhenDone \/ UNCHANGED shutdownVars
    PROVE  ShutdownInv'
<1>1. UNCHANGED <<protocol, reject, count, drain, request, broken, slipped, cut>> /\ (expired' = expired \/ expired')
    BY DEF gracefulShutdownInit, Timeout, AfterFunc, ExitWhenDone, shutdownVars
<1>2. Refuses' /\ Drained' /\ Slips'
    BY <1>1 DEF ShutdownInv, Refuses, Drained, Slips
<1>3. ExitIsInOrder'
    BY DEF ShutdownInv, ExitIsInOrder, gracefulShutdownInit, Timeout, AfterFunc, ExitWhenDone, shutdownVars
<1> QED BY <1>1, <1>2, <1>3, ListenerMoves DEF ShutdownInv, ShutdownTypes

LEMMA ShutdownInvNext ==
    ASSUME IsFiniteSet(Request), ShutdownInv, [ShutdownNext]_shutdownVars
    PROVE  ShutdownInv'
BY RequestStep, ShutDownStep, waitForActiveRequestsStep, gracefulStopServerStep, ShutdownHTTPStep,
   ProcessStep DEF ShutdownNext

(***************************************************************************)
(* However many listeners of whatever protocols drain and however many     *)
(* requests arrive meanwhile, none that was let in is cut off before the   *)
(* shutdown timeout, unless closing a filter chain fails or gRPC let it in *)
(* and had not counted it when the wait of its listener ended.             *)
(***************************************************************************)
THEOREM ShutdownIsGraceful ==
    ASSUME IsFiniteSet(Request)
    PROVE  ShutdownSpec => []NotCutOffEarly
<1>1. ShutdownInit => ShutdownInv
    BY ShutdownInvInit
<1>2. ShutdownInv /\ [ShutdownNext]_shutdownVars => ShutdownInv'
    BY ShutdownInvNext
<1>3. ShutdownInv => NotCutOffEarly
  <2>3. ShutdownInv => cut \subseteq slipped
      BY DEF ShutdownInv, Slips
  <2> SUFFICES ASSUME ShutdownInv, ~expired, ~broken, NEW r \in Request, request[r].pc \in {"running", "admitted"}
               PROVE  ~exited /\ drain[request[r].at] # "done"
      BY <2>3 DEF NotCutOffEarly
  <2>1. request[r].at \in Listener /\ (request[r].pc = "admitted" => protocol[request[r].at] = "GRPC")
      BY DEF ShutdownInv, Placed
  <2>2. drain[request[r].at] # "done"
      BY <2>1 DEF ShutdownInv, Drained
  <2> QED BY <2>1, <2>2 DEF ShutdownInv, ExitIsInOrder
<1> QED BY <1>1, <1>2, <1>3, PTL DEF ShutdownSpec

-----------------------------------------------------------------------------
(***************************************************************************)
(* The hot reload (HotReload)                                              *)
(***************************************************************************)
Configs == Config \cup {Initial}

Work == [pc : {"idle", "routes", "clusters"}, to : Configs, from : Configs,
         todo : SUBSET FileListener, ok : BOOLEAN]

Answers == [to : Configs \cup {Absent}, ok : BOOLEAN]

ReloadTypes ==
    /\ global \in Configs /\ boot \in Configs /\ remote \in Configs \cup {Absent}
    /\ routes = [l \in FileListener |-> routes[l]]
    /\ registered \subseteq FileListener
    /\ reload \in [Channel -> Work]
    /\ channels \subseteq Channel
    /\ answer \in Answers \X Answers

\* The record a goroutine compares with and changes in the end.
Record(ch) == IF ch = "http" THEN global ELSE boot

\* A goroutine that has not reloaded yet is idle and its record is as it was.
Untouched ==
    /\ \A ch \in Channel : ch \notin channels => reload[ch].pc = "idle" /\ Record(ch) = Initial
    /\ channels = {} => clusters = Initial.clusters
    /\ "http" \notin channels => answer[2].to = Absent

\* A goroutine that does all the reloading works on the difference with its
\* record, which the clusters follow until they are those of the new configuration.
FollowsRecord ==
    \A ch \in Channel : channels = {ch} =>
        /\ reload[ch].pc # "idle" => reload[ch].from = Record(ch)
        /\ reload[ch].pc \in {"idle", "routes"} => clusters = Record(ch).clusters
        /\ reload[ch].pc = "clusters" => clusters = reload[ch].to.clusters

\* A request that changes the routes has refreshed and registered the listeners it
\* is through with; one that does not change them cannot fail.
Refreshed ==
    LET r == reload["http"] IN
    (channels = {"http"} /\ r.pc # "idle") =>
        /\ r.todo # {} \/ ~r.ok => routesChanged(r.from, r.to)
        /\ r.pc = "clusters" => r.todo = {} /\ r.ok
        /\ r.ok /\ routesChanged(r.from, r.to) =>
              \A l \in FileListener \ r.todo : routes[l] = r.to.routes[l] /\ l \in registered

\* After a refusal the record still differs from what was refused.
RefusalIsOpen ==
    (channels = {"http"} /\ ~answer[2].ok /\ answer[2].to # Absent) =>
        routesChanged(global, answer[2].to)

ReloadInv ==
    /\ ReloadTypes /\ Untouched /\ FollowsRecord /\ Refreshed /\ RefusalIsOpen /\ RetryIsComplete

LEMMA ChannelFacts == \A ch \in Channel : ch = "http" \/ ch = "poll"
BY DEF Channel

LEMMA ReloadInvInit == ReloadInit => ReloadInv
<1> SUFFICES ASSUME ReloadInit PROVE ReloadInv
  OBVIOUS
<1> USE ConfigAssumption DEF ReloadInit
<1>1. ReloadTypes
  BY DEF ReloadTypes, Configs, Work, Answers, idle, NoAnswer, Channel
<1>2. Untouched
  BY DEF Untouched, Record, idle, NoAnswer
<1>3. FollowsRecord /\ Refreshed /\ RefusalIsOpen /\ RetryIsComplete
  BY DEF FollowsRecord, Refreshed, RefusalIsOpen, RetryIsComplete
<1> QED BY <1>1, <1>2, <1>3 DEF ReloadInv

LEMMA ReloadKept ==
    ASSUME ReloadInv, remote' \in Configs \cup {Absent},
           UNCHANGED <<global, boot, routes, registered, clusters, reload, answer, channels>>
    PROVE  ReloadInv'
BY DEF ReloadInv, ReloadTypes, Untouched, Record, FollowsRecord, Refreshed, RefusalIsOpen,
       RetryIsComplete, Quiet

\* Either goroutine begins from its own record.
LEMMA BeginKeepsInv ==
    ASSUME ReloadInv, NEW ch \in Channel, NEW to \in Configs, Begin(ch, Record(ch), to)
    PROVE  ReloadInv'
<1> DEFINE changed == routesChanged(Record(ch), to)
           work == [pc |-> "routes", from |-> Record(ch), to |-> to, ok |-> TRUE,
                    todo |-> IF changed THEN FileListener ELSE {}]
<1>1. /\ reload[ch].pc = "idle"
      /\ reload' = [reload EXCEPT ![ch] = work]
      /\ registered' = IF changed THEN {} ELSE registered
      /\ channels' = channels \cup {ch}
      /\ UNCHANGED <<global, boot, remote, routes, clusters, answer>>
  BY DEF Begin
<1>2. /\ work \in Work /\ work.pc = "routes" /\ work.from = Record(ch) /\ work.to = to
      /\ work.ok = TRUE /\ work.todo = IF changed THEN FileListener ELSE {}
  BY DEF ReloadInv, ReloadTypes, Work, Record
<1> HIDE DEF work
<1>3. ReloadTypes'
  BY <1>1, <1>2 DEF ReloadInv, ReloadTypes
<1>4. \A d \in Channel : reload'[d] = IF d = ch THEN work ELSE reload[d]
  BY <1>1 DEF ReloadInv, ReloadTypes
<1>5. Record(ch)' = Record(ch) /\ \A d \in Channel : Record(d)' = Record(d)
  BY <1>1 DEF Record
<1>6. Untouched'
  BY <1>1, <1>4, <1>5 DEF ReloadInv, Untouched
<1>7. channels' = {ch} => clusters = Record(ch).clusters
  BY <1>1 DEF ReloadInv, Untouched, FollowsRecord
<1>8. FollowsRecord'
  BY <1>1, <1>2, <1>4, <1>5, <1>7 DEF FollowsRecord
<1>9. Refreshed'
  BY <1>1, <1>2, <1>4, ChannelFacts DEF Refreshed, Channel
<1>10. RefusalIsOpen'
  <2>1. ASSUME channels' = {"http"}, ~answer[2].ok, answer[2].to # Absent
        PROVE  routesChanged(global, answer[2].to)
    BY <1>1, <2>1 DEF ReloadInv, RefusalIsOpen, Untouched
  <2> QED BY <1>1, <2>1 DEF RefusalIsOpen
<1>11. RetryIsComplete'
  BY <1>2, <1>4 DEF RetryIsComplete, Quiet
<1> QED BY <1>3, <1>6, <1>8, <1>9, <1>10, <1>11 DEF ReloadInv

\* A listener is refreshed, or refuses and ends the route part.
LEMMA UpdateKeepsInv ==
    ASSUME ReloadInv, NEW ch \in Channel, NEW l \in FileListener, UpdateListener(ch, l)
    PROVE  ReloadInv'
<1>1. /\ reload[ch].pc \in {"routes", "clusters"} /\ l \in reload[ch].todo
      /\ UNCHANGED <<global, boot, remote, clusters, answer, channels>>
  BY DEF UpdateListener
<1>2. ch \in channels /\ reload[ch].pc # "idle" /\ reload[ch] \in Work
  BY <1>1 DEF ReloadInv, Untouched, ReloadTypes
<1>3. ~Quiet'
  <2>1. reload'[ch].pc = reload[ch].pc
    BY <1>2 DEF UpdateListener, ReloadInv, ReloadTypes, Work
  <2> QED BY <1>2, <2>1 DEF Quiet
<1>4. RetryIsComplete'
  BY <1>3 DEF RetryIsComplete
<1>5. RefusalIsOpen'
  BY <1>1 DEF ReloadInv, RefusalIsOpen
<1>6. CASE /\ routes' = [routes EXCEPT ![l] = reload[ch].to.routes[l]]
           /\ registered' = registered \cup {l}
           /\ reload' = [reload EXCEPT ![ch].todo = @ \ {l}]
  <2> DEFINE r == reload[ch]
             work == [reload[ch] EXCEPT !.todo = @ \ {l}]
  <2>1. /\ work \in Work /\ work.pc = r.pc /\ work.from = r.from /\ work.to = r.to
        /\ work.ok = r.ok /\ work.todo = r.todo \ {l}
    BY <1>2 DEF Work
  <2>2. \A d \in Channel : reload'[d] = IF d = ch THEN work ELSE reload[d]
    BY <1>6 DEF ReloadInv, ReloadTypes
  <2>3. reload' = [d \in Channel |-> reload'[d]]
    BY <1>6 DEF ReloadInv, ReloadTypes
  <2> HIDE DEF work
  <2>4. ReloadTypes'
    BY <1>1, <1>6, <2>1, <2>2, <2>3 DEF ReloadInv, ReloadTypes
  <2>5. Untouched' /\ FollowsRecord'
    BY <1>1, <2>1, <2>2 DEF ReloadInv, Untouched, FollowsRecord, Record
  <2>6. Refreshed'
    <3>1. CASE channels' # {"http"}
      BY <3>1 DEF Refreshed
    <3>2. CASE channels' = {"http"}
      <4>1. ch = "http" /\ Refreshed /\ channels = {"http"}
        BY <1>1, <1>2, <3>2 DEF ReloadInv
      <4>2. reload'["http"] = work
        BY <2>2, <4>1
      <4>3. /\ r.todo # {} \/ ~r.ok => routesChanged(r.from, r.to)
            /\ r.pc = "clusters" => r.todo = {} /\ r.ok
            /\ r.ok /\ routesChanged(r.from, r.to) =>
                  \A k \in FileListener \ r.todo : routes[k] = r.to.routes[k] /\ k \in registered
        BY <1>2, <4>1 DEF Refreshed
      <4>4. \A k \in FileListener : routes'[k] = IF k = l THEN r.to.routes[l] ELSE routes[k]
        BY <1>6 DEF ReloadInv, ReloadTypes
      <4>5. r.ok /\ routesChanged(r.from, r.to) =>
               \A k \in FileListener \ work.todo :
                   routes'[k] = r.to.routes[k] /\ k \in registered'
        BY <1>6, <2>1, <4>3, <4>4
      <4> QED BY <1>1, <2>1, <4>2, <4>3, <4>5 DEF Refreshed, routesChanged, extractRoutes
    <3> QED BY <3>1, <3>2
  <2> QED BY <1>4, <1>5, <2>4, <2>5, <2>6 DEF ReloadInv
<1>7. CASE /\ reload' = [reload EXCEPT ![ch].todo = {}, ![ch].ok = FALSE]
           /\ UNCHANGED <<routes, registered>>
  <2> DEFINE r == reload[ch]
             work == [reload[ch] EXCEPT !.todo = {}, !.ok = FALSE]
  <2>1. /\ work \in Work /\ work.pc = r.pc /\ work.from = r.from /\ work.to = r.to
        /\ work.ok = FALSE /\ work.todo = {}
    BY <1>2 DEF Work
  <2>2. \A d \in Channel : reload'[d] = IF d = ch THEN work ELSE reload[d]
    BY <1>7 DEF ReloadInv, ReloadTypes
  <2>3. reload' = [d \in Channel |-> reload'[d]]
    BY <1>7 DEF ReloadInv, ReloadTypes
  <2> HIDE DEF work
  <2>4. ReloadTypes'
    BY <1>1, <1>7, <2>1, <2>2, <2>3 DEF ReloadInv, ReloadTypes
  <2>5. Untouched' /\ FollowsRecord'
    BY <1>1, <2>1, <2>2 DEF ReloadInv, Untouched, FollowsRecord, Record
  <2>6. Refreshed'
    <3>1. CASE channels' # {"http"}
      BY <3>1 DEF Refreshed
    <3>2. CASE channels' = {"http"}
      <4>1. ch = "http" /\ Refreshed /\ channels = {"http"}
        BY <1>1, <1>2, <3>2 DEF ReloadInv
      <4>2. reload'["http"] = work
        BY <2>2, <4>1
      <4>3. routesChanged(r.from, r.to) /\ r.pc # "clusters"
        BY <1>1, <1>2, <4>1 DEF Refreshed
      <4> QED BY <1>1, <2>1, <4>2, <4>3 DEF Refreshed, routesChanged, extractRoutes
    <3> QED BY <3>1, <3>2
  <2> QED BY <1>4, <1>5, <2>4, <2>5, <2>6 DEF ReloadInv
<1> QED BY <1>6, <1>7 DEF UpdateListener

\* The difference of two configurations, applied to the clusters of the first,
\* gives those of the second.
LEMMA DifferenceApplies ==
    ASSUME NEW from \in Configs, NEW to \in Configs, clusters = from.clusters
    PROVE  reloadClusters(from, to) = to.clusters
BY ConfigAssumption DEF Configs, reloadClusters

LEMMA ClustersKeepInv ==
    ASSUME ReloadInv, NEW ch \in Channel, ReloadClusters(ch) PROVE ReloadInv'
<1> DEFINE r == reload[ch]
           work == [reload[ch] EXCEPT !.pc = "clusters"]
<1>1. /\ r.pc = "routes" /\ (ch = "http" => r.todo = {} /\ r.ok)
      /\ clusters' = reloadClusters(r.from, r.to)
      /\ reload' = [reload EXCEPT ![ch].pc = "clusters"]
      /\ UNCHANGED <<global, boot, remote, routes, registered, answer, channels>>
  BY DEF ReloadClusters
<1>2. ch \in channels /\ r \in Work
  BY <1>1 DEF ReloadInv, Untouched, ReloadTypes
<1>3. /\ work \in Work /\ work.pc = "clusters" /\ work.from = r.from /\ work.to = r.to
      /\ work.ok = r.ok /\ work.todo = r.todo
  BY <1>2 DEF Work
<1>4. \A d \in Channel : reload'[d] = IF d = ch THEN work ELSE reload[d]
  BY <1>1 DEF ReloadInv, ReloadTypes
<1>5. reload' = [d \in Channel |-> reload'[d]]
  BY <1>1 DEF ReloadInv, ReloadTypes
<1> HIDE DEF work
<1>6. ReloadTypes'
  BY <1>1, <1>3, <1>4, <1>5 DEF ReloadInv, ReloadTypes
<1>7. Untouched'
  BY <1>1, <1>2, <1>3, <1>4 DEF ReloadInv, Untouched, Record
<1>8. FollowsRecord'
  <2>1. channels = {ch} => clusters' = r.to.clusters
    BY <1>1, <1>2, DifferenceApplies DEF ReloadInv, FollowsRecord, Work
  <2>2. channels = {ch} => r.from = Record(ch)
    BY <1>1 DEF ReloadInv, FollowsRecord
  <2>3. \A d \in Channel : Record(d)' = Record(d)
    BY <1>1 DEF Record
  <2> QED BY <1>1, <1>2, <1>3, <1>4, <2>1, <2>2, <2>3 DEF FollowsRecord
<1>9. Refreshed'
  <2>1. CASE channels' # {"http"}
    BY <2>1 DEF Refreshed
  <2>2. CASE channels' = {"http"}
    <3>1. ch = "http" /\ Refreshed /\ channels = {"http"}
      BY <1>1, <1>2, <2>2 DEF ReloadInv
    <3>2. reload'["http"] = work
      BY <1>4, <3>1
    <3> QED BY <1>1, <1>3, <3>1, <3>2 DEF Refreshed, routesChanged, extractRoutes
  <2> QED BY <2>1, <2>2
<1>10. RefusalIsOpen'
  BY <1>1 DEF ReloadInv, RefusalIsOpen
<1>11. RetryIsComplete'
  BY <1>3, <1>4 DEF RetryIsComplete, Quiet
<1> QED BY <1>6, <1>7, <1>8, <1>9, <1>10, <1>11 DEF ReloadInv

\* A goroutine that has gone idle and the other as it was.
LEMMA GoesIdle ==
    ASSUME ReloadTypes, NEW ch \in Channel, reload' = [reload EXCEPT ![ch] = idle]
    PROVE  /\ reload' \in [Channel -> Work]
           /\ \A d \in Channel : reload'[d] = IF d = ch THEN idle ELSE reload[d]
           /\ idle.pc = "idle"
<1>1. idle \in Work /\ idle.pc = "idle"
  BY DEF idle, Work, Configs
<1> HIDE DEF idle
<1> QED BY <1>1 DEF ReloadTypes

\* The poller records what it went for, applied or not.
LEMMA PolledKeepsInv == ASSUME ReloadInv, Polled PROVE ReloadInv'
<1>1. /\ reload["poll"].pc = "clusters" /\ boot' = reload["poll"].to
      /\ reload' = [reload EXCEPT !["poll"] = idle]
      /\ UNCHANGED <<global, remote, routes, registered, clusters, answer, channels>>
  BY DEF Polled
<1>2. "poll" \in Channel /\ "http" \in Channel /\ "http" # "poll"
  BY DEF Channel
<1>3. /\ reload' \in [Channel -> Work]
      /\ \A d \in Channel : reload'[d] = IF d = "poll" THEN idle ELSE reload[d]
      /\ idle.pc = "idle"
  BY <1>1, <1>2, GoesIdle DEF ReloadInv
<1> HIDE DEF idle
<1>4. "poll" \in channels /\ reload["poll"].to \in Configs
  BY <1>1, <1>2 DEF ReloadInv, Untouched, ReloadTypes, Work
<1>5. ReloadTypes'
  BY <1>1, <1>3, <1>4 DEF ReloadInv, ReloadTypes
<1>6. Untouched'
  BY <1>1, <1>2, <1>3, <1>4, ChannelFacts DEF ReloadInv, Untouched, Record
<1>7. FollowsRecord'
  BY <1>1, <1>2, <1>3, <1>4, ChannelFacts DEF ReloadInv, FollowsRecord, Record
<1>8. Refreshed' /\ RefusalIsOpen' /\ RetryIsComplete'
  BY <1>1, <1>2, <1>4 DEF Refreshed, RefusalIsOpen, RetryIsComplete
<1> QED BY <1>5, <1>6, <1>7, <1>8 DEF ReloadInv

\* Answers of the endpoint: the history moves on and the goroutine goes idle.
LEMMA AnswerFacts ==
    ASSUME ReloadInv, NEW ok \in BOOLEAN, Answer(ok), reload["http"].pc # "idle",
           global' \in Configs
    PROVE  /\ ReloadTypes'
           /\ "http" \in channels /\ UNCHANGED <<boot, routes, registered, clusters, channels>>
           /\ reload["http"] \in Work
           /\ answer'[1] = answer[2]
           /\ answer'[2].to = reload["http"].to /\ answer'[2].ok = ok
           /\ \A d \in Channel : d # "http" => reload'[d] = reload[d]
           /\ reload'["http"].pc = "idle"
<1>1. /\ answer' = <<answer[2], [to |-> reload["http"].to, ok |-> ok]>>
      /\ reload' = [reload EXCEPT !["http"] = idle]
      /\ UNCHANGED <<boot, remote, routes, registered, clusters, channels>>
  BY DEF Answer
<1>2. "http" \in Channel
  BY DEF Channel
<1>3. /\ reload' \in [Channel -> Work]
      /\ \A d \in Channel : reload'[d] = IF d = "http" THEN idle ELSE reload[d]
      /\ idle.pc = "idle"
  BY <1>1, <1>2, GoesIdle DEF ReloadInv
<1> HIDE DEF idle
<1>4. reload["http"] \in Work /\ "http" \in channels
  BY <1>2 DEF ReloadInv, ReloadTypes, Untouched
<1>5. answer' \in Answers \X Answers
  BY <1>1, <1>4 DEF ReloadInv, ReloadTypes, Answers, Work
<1>6. ReloadTypes'
  BY <1>1, <1>3, <1>5 DEF ReloadInv, ReloadTypes
<1>7. /\ answer'[1] = answer[2]
      /\ answer'[2].to = reload["http"].to /\ answer'[2].ok = ok
  BY <1>1
<1> QED BY <1>1, <1>2, <1>3, <1>4, <1>6, <1>7

\* The request was applied: the record follows, and if the same request had been
\* refused before, nothing of it is missing.
LEMMA SetBootstrapKeepsInv == ASSUME ReloadInv, SetBootstrap PROVE ReloadInv'
<1> DEFINE r == reload["http"]
<1>1. r.pc = "clusters" /\ global' = r.to /\ Answer(TRUE)
  BY DEF SetBootstrap
<1>2. "http" \in Channel /\ "poll" \in Channel /\ "http" # "poll" /\ r \in Work
  BY DEF Channel, ReloadInv, ReloadTypes
<1>3. r.to \in Configs /\ r.pc # "idle"
  BY <1>1, <1>2 DEF Work
<1>4. /\ ReloadTypes'
      /\ "http" \in channels /\ UNCHANGED <<boot, routes, registered, clusters, channels>>
      /\ answer'[1] = answer[2]
      /\ answer'[2].to = r.to /\ answer'[2].ok = TRUE
      /\ \A d \in Channel : d # "http" => reload'[d] = reload[d]
      /\ reload'["http"].pc = "idle"
  BY <1>1, <1>3, AnswerFacts
<1>5. Untouched'
  BY <1>2, <1>4, ChannelFacts DEF ReloadInv, Untouched, Record
<1>6. FollowsRecord'
  <2>1. channels = {"http"} => clusters = r.to.clusters
    BY <1>1, <1>2 DEF ReloadInv, FollowsRecord
  <2> QED BY <1>1, <1>2, <1>4, <2>1, ChannelFacts DEF FollowsRecord, Record
<1>7. Refreshed' /\ RefusalIsOpen'
  BY <1>4 DEF Refreshed, RefusalIsOpen
<1>8. RetryIsComplete'
  <2> SUFFICES ASSUME channels = {"http"}, ~answer[2].ok, answer[2].to = r.to
               PROVE  routes = r.to.routes /\ registered = FileListener /\ clusters = r.to.clusters
    BY <1>4 DEF RetryIsComplete
  <2>1. routesChanged(global, r.to) /\ r.from = global
    BY <1>1, <1>2, <1>3, ConfigAssumption
       DEF ReloadInv, RefusalIsOpen, FollowsRecord, Record, Configs
  <2>2. r.ok /\ r.todo = {} /\ \A l \in FileListener : routes[l] = r.to.routes[l] /\ l \in registered
    BY <1>1, <1>3, <2>1 DEF ReloadInv, Refreshed
  <2>3. clusters = r.to.clusters
    BY <1>1, <1>2 DEF ReloadInv, FollowsRecord
  <2>4. r.to.routes = [l \in FileListener |-> r.to.routes[l]]
    BY <1>3, ConfigAssumption DEF Configs
  <2>5. routes = [l \in FileListener |-> routes[l]] /\ registered \subseteq FileListener
    BY DEF ReloadInv, ReloadTypes
  <2>6. routes = r.to.routes
    BY <2>2, <2>4, <2>5
  <2> QED BY <2>2, <2>3, <2>5, <2>6
<1> QED BY <1>4, <1>5, <1>6, <1>7, <1>8 DEF ReloadInv

\* A refused request leaves the record, and so the difference, as it was.
LEMMA FailureKeepsInv == ASSUME ReloadInv, ReloadFailed PROVE ReloadInv'
<1> DEFINE r == reload["http"]
<1>1. r.pc = "routes" /\ ~r.ok /\ global' = global /\ Answer(FALSE)
  BY DEF ReloadFailed
<1>2. "http" \in Channel /\ "poll" \in Channel /\ "http" # "poll"
  BY DEF Channel
<1>3. global' \in Configs /\ r.pc # "idle"
  BY <1>1 DEF ReloadInv, ReloadTypes
<1>4. /\ ReloadTypes'
      /\ "http" \in channels /\ UNCHANGED <<boot, routes, registered, clusters, channels>>
      /\ answer'[1] = answer[2]
      /\ answer'[2].to = r.to /\ answer'[2].ok = FALSE
      /\ \A d \in Channel : d # "http" => reload'[d] = reload[d]
      /\ reload'["http"].pc = "idle"
  BY <1>1, <1>3, AnswerFacts
<1>5. Untouched' /\ FollowsRecord'
  BY <1>1, <1>2, <1>4, ChannelFacts DEF ReloadInv, Untouched, FollowsRecord, Record
<1>6. Refreshed' /\ RetryIsComplete'
  BY <1>4 DEF Refreshed, RetryIsComplete
<1>7. channels = {"http"} => routesChanged(r.from, r.to) /\ r.from = global
  BY <1>1, <1>2, <1>3 DEF ReloadInv, Refreshed, FollowsRecord, Record
<1>8. RefusalIsOpen'
  BY <1>1, <1>4, <1>7 DEF RefusalIsOpen, routesChanged, extractRoutes
<1> QED BY <1>4, <1>5, <1>6, <1>8 DEF ReloadInv

LEMMA ReloadInvNext == ReloadInv /\ [ReloadNext]_reloadVars => ReloadInv'
<1> SUFFICES ASSUME ReloadInv, [ReloadNext]_reloadVars PROVE ReloadInv'
  OBVIOUS
<1>1. ASSUME NEW c \in Config, onChange(c) PROVE ReloadInv'
  BY <1>1, ReloadKept DEF onChange, Configs
<1>2. ASSUME NEW c \in Config, ReloadHandler(c) PROVE ReloadInv'
  <2>1. "http" \in Channel /\ Record("http") = global /\ c \in Configs
    BY DEF Channel, Record, Configs
  <2> QED BY <1>2, <2>1, BeginKeepsInv DEF ReloadHandler
<1>3. CASE Poll
  <2>1. "poll" \in Channel /\ Record("poll") = boot /\ remote \in Configs
    BY <1>3 DEF Channel, Record, Poll, ReloadInv, ReloadTypes
  <2> QED BY <1>3, <2>1, BeginKeepsInv DEF Poll
<1>4. CASE Polled \/ SetBootstrap \/ ReloadFailed
  BY <1>4, PolledKeepsInv, SetBootstrapKeepsInv, FailureKeepsInv
<1>5. ASSUME NEW ch \in Channel, ReloadClusters(ch) PROVE ReloadInv'
  BY <1>5, ClustersKeepInv
<1>6. ASSUME NEW ch \in Channel, NEW l \in FileListener, UpdateListener(ch, l) PROVE ReloadInv'
  BY <1>6, UpdateKeepsInv
<1>7. CASE UNCHANGED reloadVars
  BY <1>7, ReloadKept DEF reloadVars, ReloadInv, ReloadTypes
<1> QED BY <1>1, <1>2, <1>3, <1>4, <1>5, <1>6, <1>7 DEF ReloadNext

(***************************************************************************)
(* For any listeners, clusters and configurations, and any number of       *)
(* reloads and refusals: a request that was refused and is accepted when   *)
(* repeated is served completely, and the clusters are those of the record *)
(* of the goroutine that does the reloading (reloadFromYAML, hotReload,    *)
(* ClusterReloader.HotReload).                                             *)
(***************************************************************************)
THEOREM ReloadStaysSound == ReloadSpec => []ReloadIsSound
<1>1. ReloadInv => ReloadIsSound
  <2>1. ReloadInv => ClustersFollowTheRecord
    BY DEF ReloadInv, FollowsRecord, ClustersFollowTheRecord, Quiet, Record, Channel
  <2> QED BY <2>1 DEF ReloadInv, ReloadIsSound
<1> QED BY <1>1, ReloadInvInit, ReloadInvNext, PTL DEF ReloadSpec

-----------------------------------------------------------------------------
(***************************************************************************)
(* The ADS client                                                          *)
(***************************************************************************)
IsFcn(f) == f = [x \in DOMAIN f |-> f[x]]

(***************************************************************************)
(* The candidate that is with the manager carries endpoints of the         *)
(* services its own clusters refer to: Apply takes both over at once.      *)
(***************************************************************************)
Candidate ==
    publishing # None =>
        IsFcn(publishing.asg) /\ DOMAIN publishing.asg \subseteq referenceNames(publishing.refs)

CacheInv == RuntimeIsCache /\ NoStaleAssignment /\ IsFcn(assignments) /\ Candidate

\* Clusters without endpoints make no runtime.
LEMMA NothingConverts ==
    ASSUME NEW refs PROVE convertCachedEDS(Empty, refs) = Empty
BY DEF convertCachedEDS, Empty

\* What is retained belongs to the new references; of nothing, nothing is retained.
LEMMA RetainedIsReferred ==
    ASSUME NEW asg, NEW refs
    PROVE  /\ IsFcn(retainEDSAssignments(asg, refs))
           /\ DOMAIN retainEDSAssignments(asg, refs) \subseteq referenceNames(refs)
           /\ asg = Empty => retainEDSAssignments(asg, refs) = Empty
BY DEF retainEDSAssignments, Restrict, IsFcn, Empty

\* A merge of endpoints the references name stays within them, and a merge of none
\* changes nothing.
LEMMA MergedIsReferred ==
    ASSUME NEW asg, IsFcn(asg), NEW news, NEW refs,
           DOMAIN asg \subseteq referenceNames(refs),
           DOMAIN news \subseteq referenceNames(refs)
    PROVE  /\ IsFcn(mergeEDSAssignments(asg, news))
           /\ DOMAIN mergeEDSAssignments(asg, news) \subseteq referenceNames(refs)
           /\ news = Empty => mergeEDSAssignments(asg, news) = asg
BY DEF mergeEDSAssignments, IsFcn, Empty

LEMMA CacheInvInit == AdsInit => CacheInv
<1> SUFFICES ASSUME AdsInit PROVE CacheInv
  OBVIOUS
<1>1. runtime = convertCachedEDS(assignments, references)
  BY NothingConverts DEF AdsInit
<1>2. NoStaleAssignment /\ IsFcn(assignments) /\ Candidate
  BY DEF AdsInit, NoStaleAssignment, IsFcn, Candidate, Empty
<1> QED BY <1>1, <1>2 DEF CacheInv, RuntimeIsCache

\* Steps that leave the cache, the candidate and the runtime alone.
LEMMA CacheInvKept ==
    ASSUME CacheInv, UNCHANGED <<cacheVars, publishing, runtime>>,
           stream = "closed" => stream' = "closed"
    PROVE  CacheInv'
BY DEF CacheInv, cacheVars, RuntimeIsCache, NoStaleAssignment, IsFcn, Candidate

LEMMA CacheInvReceiveCDS == ASSUME CacheInv, ReceiveCDS PROVE CacheInv'
<1> DEFINE content == Head(inbox).content
           refs == decodeCDSReferences(content)
           asg == retainEDSAssignments(assignments, refs)
<1>1. UNCHANGED <<stream, runtime>> /\ stream = "up"
  BY DEF ReceiveCDS
<1>2. \/ UNCHANGED <<cacheVars, publishing>>
      \/ UNCHANGED cacheVars /\ publishing' = [type |-> "cds", refs |-> refs, asg |-> asg]
      \/ /\ assignments = Empty /\ UNCHANGED publishing
         /\ references' = refs /\ assignments' = asg
  BY DEF ReceiveCDS, Refuse, Publish, Accept
<1>3. /\ IsFcn(asg) /\ DOMAIN asg \subseteq referenceNames(refs)
      /\ assignments = Empty => asg = Empty
  BY RetainedIsReferred
<1> HIDE DEF refs, asg
<1>4. CASE UNCHANGED <<cacheVars, publishing>>
  BY <1>1, <1>4, CacheInvKept
<1>5. CASE UNCHANGED cacheVars /\ publishing' = [type |-> "cds", refs |-> refs, asg |-> asg]
  BY <1>1, <1>3, <1>5
     DEF CacheInv, cacheVars, RuntimeIsCache, NoStaleAssignment, IsFcn, Candidate
<1>6. CASE /\ assignments = Empty /\ UNCHANGED publishing
           /\ references' = refs /\ assignments' = asg
  <2>1. runtime = Empty
    BY <1>1, <1>6, NothingConverts DEF CacheInv, RuntimeIsCache
  <2>2. convertCachedEDS(assignments', references') = Empty
    BY <1>3, <1>6, NothingConverts
  <2> QED BY <1>1, <1>3, <1>6, <2>1, <2>2
             DEF CacheInv, RuntimeIsCache, NoStaleAssignment, IsFcn, Candidate
<1> QED BY <1>2, <1>4, <1>5, <1>6

LEMMA CacheInvReceiveEDS == ASSUME CacheInv, ReceiveEDS PROVE CacheInv'
<1> DEFINE content == Head(inbox).content
           news == Restrict(content, DOMAIN content \cap referenceNames(references))
           asg == mergeEDSAssignments(assignments, news)
<1>1. UNCHANGED <<stream, runtime>>
  BY DEF ReceiveEDS
<1>2. \/ UNCHANGED <<cacheVars, publishing>>
      \/ UNCHANGED cacheVars /\ publishing' = [type |-> "eds", refs |-> references, asg |-> asg]
      \/ /\ news = Empty /\ UNCHANGED publishing
         /\ references' = references /\ assignments' = asg
  BY DEF ReceiveEDS, Refuse, Publish, Accept
<1>3. DOMAIN news \subseteq referenceNames(references)
  BY DEF Restrict
<1> HIDE DEF news
<1>4. /\ IsFcn(asg) /\ DOMAIN asg \subseteq referenceNames(references)
      /\ news = Empty => asg = assignments
  BY <1>3, MergedIsReferred DEF CacheInv, NoStaleAssignment
<1> HIDE DEF asg
<1>5. CASE \/ UNCHANGED <<cacheVars, publishing>>
           \/ /\ news = Empty /\ UNCHANGED publishing
              /\ references' = references /\ assignments' = asg
  BY <1>1, <1>4, <1>5, CacheInvKept DEF cacheVars
<1>6. CASE UNCHANGED cacheVars /\ publishing' = [type |-> "eds", refs |-> references, asg |-> asg]
  BY <1>1, <1>4, <1>6
     DEF CacheInv, cacheVars, RuntimeIsCache, NoStaleAssignment, IsFcn, Candidate
<1> QED BY <1>2, <1>5, <1>6

LEMMA CacheInvApply == ASSUME CacheInv, Apply PROVE CacheInv'
<1>1. publishing # None /\ publishing' = None /\ UNCHANGED stream
  BY DEF Apply
<1>2. \/ /\ UNCHANGED cacheVars /\ stream = "closed"
      \/ /\ UNCHANGED <<cacheVars, runtime>>
      \/ /\ runtime' = convertCachedEDS(publishing.asg, publishing.refs)
         /\ references' = publishing.refs /\ assignments' = publishing.asg
  BY DEF Apply, Accept, Refuse
<1>3. CASE UNCHANGED cacheVars /\ stream = "closed"
  BY <1>1, <1>3 DEF CacheInv, cacheVars, RuntimeIsCache, NoStaleAssignment, IsFcn, Candidate
<1>4. CASE UNCHANGED <<cacheVars, runtime>>
  BY <1>1, <1>4 DEF CacheInv, cacheVars, RuntimeIsCache, NoStaleAssignment, IsFcn, Candidate
<1>5. CASE /\ runtime' = convertCachedEDS(publishing.asg, publishing.refs)
           /\ references' = publishing.refs /\ assignments' = publishing.asg
  BY <1>1, <1>5 DEF CacheInv, RuntimeIsCache, NoStaleAssignment, IsFcn, Candidate
<1> QED BY <1>2, <1>3, <1>4, <1>5

LEMMA CacheInvNext == CacheInv /\ [AdsNext]_adsVars => CacheInv'
<1> SUFFICES ASSUME CacheInv, [AdsNext]_adsVars PROVE CacheInv'
  OBVIOUS
<1>1. CASE ReceiveCDS
  BY <1>1, CacheInvReceiveCDS
<1>2. CASE ReceiveEDS
  BY <1>2, CacheInvReceiveEDS
<1>3. CASE Apply
  BY <1>3, CacheInvApply
<1>4. CASE \E c \in Cluster, value \in Service \cup {"bad", None} : EditCluster(c, value)
  BY <1>4, CacheInvKept DEF EditCluster
<1>5. CASE \E s \in Service, value \in Value \cup {"bad"} : EditEndpoints(s, value)
  BY <1>5, CacheInvKept DEF EditEndpoints
<1>6. CASE RespondCDS
  BY <1>6, CacheInvKept DEF RespondCDS
<1>7. CASE RespondEDS
  BY <1>7, CacheInvKept DEF RespondEDS
<1>8. CASE connectADS
  BY <1>8, CacheInvKept DEF connectADS
<1>9. CASE StreamBreaks \/ Stop
  BY <1>9, CacheInvKept DEF StreamBreaks, Stop
<1>10. CASE UNCHANGED adsVars
  BY <1>10, CacheInvKept DEF adsVars
<1> QED BY <1>1, <1>2, <1>3, <1>4, <1>5, <1>6, <1>7, <1>8, <1>9, <1>10 DEF AdsNext, Steps

(***************************************************************************)
(* Whatever the server holds, edits and sends, however often streams break *)
(* and managers refuse, the gateway runs with what the accepted clusters   *)
(* and endpoints make together and keeps no endpoints of a service it gave *)
(* up (consumeADSStream, CdsManager.applyDelta).                           *)
(***************************************************************************)
THEOREM CacheStaysSound == AdsSpec => []CacheIsSound
<1>1. CacheInv => CacheIsSound
  BY DEF CacheInv, CacheIsSound
<1> QED BY <1>1, CacheInvInit, CacheInvNext, PTL DEF AdsSpec

-----------------------------------------------------------------------------
(***************************************************************************)
(* The admin console's delta xDS                                           *)
(***************************************************************************)
Contents == SUBSET (Key \X {"good", "bad"})
Valids == {content \in Contents : ~Bad(content)}

StoreTypes ==
    /\ store \in [Key -> {"good", "bad", Nothing}]
    /\ events \in Nat
    /\ loaded \in Contents

\* What was published, is on its way or is being applied was validated.
OnlyValid ==
    /\ published \in [Type -> Valids] \cup {Nothing}
    /\ inboxes \in [Type -> Seq(Valids)]
    /\ applying \in [Type -> Valids \cup {Nothing}]

RuntimeTypes ==
    /\ runtimes \in [Type -> Valids]
    /\ deltaVersion \in [Type -> Valids \cup {Nothing}]
    /\ \A t \in Type : ~Refused(t, runtimes[t])

\* The listeners a build has read are those of the store unless an event says
\* otherwise: listeners and clusters are read apart, and an edit between them
\* is in the channel.
ReadIsCurrent ==
    (loop = "clusters" /\ events = 0) => loaded = Content(store, "listeners")

WatchInv == StoreTypes /\ ReadIsCurrent /\ NothingForgotten
DeltaInv == OnlyValid /\ RuntimeTypes /\ AnnouncedIsApplied
AdminInv == WatchInv /\ DeltaInv

LEMMA ContentType ==
    ASSUME NEW s \in [Key -> {"good", "bad", Nothing}], NEW type
    PROVE  Content(s, type) \in Contents
BY DEF Content, Contents

LEMMA AdminInvInit == AdminInit => AdminInv
<1> SUFFICES ASSUME AdminInit PROVE AdminInv
  OBVIOUS
<1>1. {} \in Valids /\ \A t \in Type : ~Refused(t, {})
  BY DEF Valids, Contents, Bad, Refused, setupCluster, setupListeners
<1>2. WatchInv
  BY DEF AdminInit, WatchInv, StoreTypes, Contents, ReadIsCurrent, NothingForgotten
<1>3. DeltaInv
  BY <1>1 DEF AdminInit, DeltaInv, OnlyValid, RuntimeTypes, AnnouncedIsApplied
<1> QED BY <1>2, <1>3 DEF AdminInv

LEMMA WatchKept ==
    ASSUME WatchInv, UNCHANGED <<store, watchVars>> PROVE WatchInv'
BY DEF WatchInv, watchVars, StoreTypes, ReadIsCurrent, NothingForgotten, Content

LEMMA DeltaKept ==
    ASSUME DeltaInv, UNCHANGED <<published, clientVars>> PROVE DeltaInv'
BY DEF DeltaInv, clientVars, OnlyValid, RuntimeTypes, AnnouncedIsApplied

\* An edit is an event for an open watch; without one, no build is trusted.
LEMMA WritesKeepsAdminInv ==
    ASSUME AdminInv, NEW s \in [Key -> {"good", "bad", Nothing}], Writes(s) PROVE AdminInv'
<1>1. DeltaInv'
  BY DeltaKept DEF AdminInv, Writes
<1>2. StoreTypes'
  BY DEF AdminInv, WatchInv, StoreTypes, Writes
<1>3. loop' = loop /\ (loop = "open" \/ events' # 0)
  BY DEF AdminInv, WatchInv, StoreTypes, Writes
<1>4. ReadIsCurrent' /\ NothingForgotten'
  BY <1>3 DEF ReadIsCurrent, NothingForgotten
<1> QED BY <1>1, <1>2, <1>4 DEF AdminInv, WatchInv

\* The snapshot that is set is the store's unless an event has come in since.
LEMMA SetSnapshotKeepsAdminInv == ASSUME AdminInv, SetSnapshot PROVE AdminInv'
<1> DEFINE candidate ==
             [t \in Type |-> IF t = "listeners" THEN loaded ELSE Content(store, t)]
           valid == \A t \in Type : ~Bad(candidate[t])
<1>1. candidate \in [Type -> Contents]
  BY ContentType DEF AdminInv, WatchInv, StoreTypes
<1>2. /\ loop = "clusters" /\ loop' = "wait"
      /\ published' = IF valid THEN candidate ELSE published
      /\ retrying' = ~valid
      /\ UNCHANGED <<store, events, loaded, clientVars>>
  BY DEF SetSnapshot
<1>3. valid => candidate \in [Type -> Valids]
  BY <1>1 DEF Valids
<1>4. candidate # Nothing
  BY <1>1, NothingAssumption DEF Contents
<1>5. events = 0 => \A t \in Type : candidate[t] = Content(store, t)
  BY <1>2 DEF AdminInv, WatchInv, ReadIsCurrent
<1> HIDE DEF candidate, valid
<1>6. OnlyValid'
  BY <1>2, <1>3 DEF AdminInv, DeltaInv, OnlyValid, clientVars
<1>7. RuntimeTypes' /\ AnnouncedIsApplied'
  BY <1>2 DEF AdminInv, DeltaInv, RuntimeTypes, AnnouncedIsApplied, clientVars
<1>8. StoreTypes' /\ ReadIsCurrent'
  BY <1>2 DEF AdminInv, WatchInv, StoreTypes, ReadIsCurrent
<1>9. NothingForgotten'
  BY <1>2, <1>4, <1>5 DEF NothingForgotten, Content
<1> QED BY <1>6, <1>7, <1>8, <1>9 DEF AdminInv, WatchInv, DeltaInv

\* The other steps of the server leave the store and the clients alone.
LEMMA ServerKeepsAdminInv ==
    ASSUME AdminInv, OpenWatch \/ LoadListeners \/ LoadFails \/ Retry \/ WatchResponse \/ WatchBreaks
    PROVE  AdminInv'
<1>1. DeltaInv'
  BY DeltaKept DEF AdminInv, OpenWatch, LoadListeners, LoadFails, Retry, WatchResponse, WatchBreaks
<1>2. Content(store, "listeners") \in Contents
  BY ContentType DEF AdminInv, WatchInv, StoreTypes
<1>3. StoreTypes'
  BY <1>2 DEF AdminInv, WatchInv, StoreTypes, OpenWatch, LoadListeners, LoadFails, Retry,
              WatchResponse, WatchBreaks
<1>4. ReadIsCurrent'
  BY DEF AdminInv, WatchInv, ReadIsCurrent, Content, OpenWatch, LoadListeners, LoadFails, Retry,
         WatchResponse, WatchBreaks
<1>5. NothingForgotten'
  BY DEF NothingForgotten, OpenWatch, LoadListeners, LoadFails, Retry, WatchResponse, WatchBreaks
<1> QED BY <1>1, <1>3, <1>4, <1>5 DEF AdminInv, WatchInv

LEMMA RestartKeepsAdminInv == ASSUME AdminInv, AdminRestarts PROVE AdminInv'
<1>1. WatchInv'
  BY DEF AdminInv, WatchInv, StoreTypes, ReadIsCurrent, NothingForgotten, AdminRestarts
<1>2. OnlyValid'
  BY DEF AdminInv, DeltaInv, OnlyValid, AdminRestarts
<1>3. RuntimeTypes' /\ AnnouncedIsApplied'
  BY DEF AdminInv, DeltaInv, RuntimeTypes, AnnouncedIsApplied, AdminRestarts
<1> QED BY <1>1, <1>2, <1>3 DEF AdminInv, DeltaInv

\* A stream delivers what was published when it was sent, or loses it.
LEMMA StreamKeepsAdminInv ==
    ASSUME AdminInv, NEW t \in Type,
           Respond(t) \/ connectDelta(t) \/ DeltaBreaks(t) \/ Receive(t)
    PROVE  AdminInv'
<1>1. WatchInv'
  BY WatchKept DEF AdminInv, Respond, connectDelta, DeltaBreaks, Receive
<1>2. RuntimeTypes' /\ AnnouncedIsApplied'
  BY DEF AdminInv, DeltaInv, RuntimeTypes, AnnouncedIsApplied, Respond, connectDelta,
         DeltaBreaks, Receive
<1>3. OnlyValid'
  <2>1. CASE Respond(t)
    BY <2>1 DEF AdminInv, DeltaInv, OnlyValid, Respond, watchVars
  <2>2. CASE connectDelta(t)
    BY <2>2 DEF AdminInv, DeltaInv, OnlyValid, connectDelta, watchVars
  <2>3. CASE DeltaBreaks(t)
    BY <2>3 DEF AdminInv, DeltaInv, OnlyValid, DeltaBreaks, watchVars
  <2>4. CASE Receive(t)
    <3>1. inboxes[t] \in Seq(Valids) /\ inboxes[t] # <<>>
      BY <2>4 DEF AdminInv, DeltaInv, OnlyValid, Receive
    <3>2. Head(inboxes[t]) \in Valids /\ Tail(inboxes[t]) \in Seq(Valids)
      BY <3>1
    <3> QED BY <2>4, <3>2 DEF AdminInv, DeltaInv, OnlyValid, Receive, watchVars
  <2> QED BY <2>1, <2>2, <2>3, <2>4
<1> QED BY <1>1, <1>2, <1>3 DEF AdminInv, DeltaInv

LEMMA ApplyKeepsAdminInv == ASSUME AdminInv, NEW t \in Type, applyDelta(t) PROVE AdminInv'
<1>1. WatchInv'
  BY WatchKept DEF AdminInv, applyDelta
<1>2. applying[t] \in Valids
  BY DEF AdminInv, DeltaInv, OnlyValid, applyDelta
<1>3. OnlyValid'
  BY DEF AdminInv, DeltaInv, OnlyValid, applyDelta, watchVars
<1>4. CASE Refused(t, applying[t])
  <2>1. UNCHANGED <<runtimes, deltaVersion>>
    BY <1>4 DEF applyDelta
  <2> QED BY <1>1, <1>3, <2>1 DEF AdminInv, DeltaInv, RuntimeTypes, AnnouncedIsApplied
<1>5. CASE ~Refused(t, applying[t])
  <2>1. /\ runtimes' = [runtimes EXCEPT ![t] = applying[t]]
        /\ deltaVersion' = [deltaVersion EXCEPT ![t] = applying[t]]
    BY <1>5 DEF applyDelta
  <2>2. RuntimeTypes'
    BY <1>2, <1>5, <2>1 DEF AdminInv, DeltaInv, RuntimeTypes
  <2>3. AnnouncedIsApplied'
    BY <2>1 DEF AdminInv, DeltaInv, RuntimeTypes, AnnouncedIsApplied
  <2> QED BY <1>1, <1>3, <2>2, <2>3 DEF AdminInv, DeltaInv
<1> QED BY <1>4, <1>5

\* Listeners that could not be put in place leave everything as it was.
LEMMA ReplaceFailsKeepsAdminInv == ASSUME AdminInv, NEW t \in Type, ReplaceFails(t) PROVE AdminInv'
<1>1. WatchInv'
  BY WatchKept DEF AdminInv, ReplaceFails
<1>2. OnlyValid'
  BY DEF AdminInv, DeltaInv, OnlyValid, ReplaceFails, watchVars
<1>3. RuntimeTypes' /\ AnnouncedIsApplied'
  BY DEF AdminInv, DeltaInv, RuntimeTypes, AnnouncedIsApplied, ReplaceFails
<1> QED BY <1>1, <1>2, <1>3 DEF AdminInv, DeltaInv

LEMMA AdminInvNext == AdminInv /\ [AdminNext]_adminVars => AdminInv'
<1> SUFFICES ASSUME AdminInv, [AdminNext]_adminVars PROVE AdminInv'
  OBVIOUS
<1>1. ASSUME NEW k \in Key, BizDelete(k) PROVE AdminInv'
  <2>1. [j \in Key |-> IF j \in HasPrefix[k] THEN Nothing ELSE store[j]]
          \in [Key -> {"good", "bad", Nothing}]
    BY DEF AdminInv, WatchInv, StoreTypes
  <2> QED BY <1>1, <2>1, WritesKeepsAdminInv DEF BizDelete
<1>2. ASSUME NEW k \in Key, NEW value \in {"good", "bad"}, BizCreate(k, value) \/ BizUpdate(k, value)
      PROVE  AdminInv'
  <2>1. [store EXCEPT ![k] = value] \in [Key -> {"good", "bad", Nothing}]
    BY DEF AdminInv, WatchInv, StoreTypes
  <2> QED BY <1>2, <2>1, WritesKeepsAdminInv DEF BizCreate, BizUpdate
<1>3. CASE ServerStep \/ LoadFails \/ WatchBreaks \/ AdminRestarts
  BY <1>3, SetSnapshotKeepsAdminInv, ServerKeepsAdminInv, RestartKeepsAdminInv DEF ServerStep
<1>4. ASSUME NEW t \in Type, ClientStep(t) \/ DeltaBreaks(t) \/ ReplaceFails(t) PROVE AdminInv'
  BY <1>4, StreamKeepsAdminInv, ApplyKeepsAdminInv, ReplaceFailsKeepsAdminInv DEF ClientStep
<1>5. CASE UNCHANGED adminVars
  BY <1>5, WatchKept, DeltaKept DEF adminVars, AdminInv, watchVars
<1> QED BY <1>1, <1>2, <1>3, <1>4, <1>5 DEF AdminNext

(***************************************************************************)
(* For any keys and types, any number of edits, restarts and broken        *)
(* streams: no edit is forgotten by the watch (consumeConfigWatch), what a *)
(* client announces is what the gateway runs with, and that was validated  *)
(* by the builder and clashes with nothing of its own.                     *)
(***************************************************************************)
THEOREM AdminStaysFollowed == AdminSpec => []AdminIsFollowed
<1>1. AdminInv => AdminIsFollowed
  BY DEF AdminInv, WatchInv, DeltaInv, AdminIsFollowed, RuntimeTypes, RuntimeIsValid, Valids
<1> QED BY <1>1, AdminInvInit, AdminInvNext, PTL DEF AdminSpec

-----------------------------------------------------------------------------
(***************************************************************************)
(* The Kubernetes controller, for any routes, services, listeners, filters *)
(* and pods, and any number of edits, failed writes and restarts           *)
(***************************************************************************)
\* What a configuration of these routes and listeners has for the watches.
Wanted == ApplyListenersRefToConfig([l \in listeners |-> convertListener(l, backend)])

\* No edit that counts came since the last reconcile began.
UpToDate == class /\ ~queued

Stage == {"configmap", "reload", "deploy", "service", "status"}
Writing(pc, config) == [pc : {pc}, ok : {TRUE}, hash : {<<config>>}]
Broken(pc) == [pc : {pc}, ok : {FALSE}, hash : {<<>>}]
Reading(ls, b) == [pc : {"clusters"}, ls : {ls}, b : {b}, ok : {TRUE}]
PodOf(template, config) == [phase : {"pending", "running"}, template : {template}, config : {config}]

Flag == {"none", "name"}
Policy == [cluster : Flag, service : Flag, filters : Filters \cup {{}}, gateway : {"none", "set"}]

ControllerTypes ==
    /\ policy \in Policy
    /\ class \in BOOLEAN /\ queued \in BOOLEAN /\ again \in BOOLEAN /\ obeyed \in BOOLEAN
    /\ status \in BOOLEAN /\ lost \in BOOLEAN /\ updates \in Seq(BOOLEAN)
    /\ pods = [p \in Pod |-> pods[p]]
    /\ \A p \in Pod : pods[p] = NoPod \/ \E t, c : pods[p] \in PodOf(t, c)

\* The pods run the ConfigMap, or the hash on the Deployment will roll them.
ServedSoon ==
    \/ again \/ obeyed
    \/ deploy = <<cm>>
    \/ \A p \in Live : pods[p].config = cm

\* A reconcile that nothing has overtaken works on the objects as they are, and
\* one that has written the ConfigMap finds its own content there.
ReconcileOK ==
    \/ rec = Idle
    \/ \E ls, b : rec \in Reading(ls, b) /\ (UpToDate => ls = listeners /\ b = backend)
    \/ \E pc \in Stage : \E config :
         /\ rec \in Writing(pc, config)
         /\ UpToDate => Followed(config) = Wanted
         /\ pc # "configmap" => cm = <<config>>
         /\ pc \in {"service", "status"} => ServedSoon
    \/ \E pc \in {"deploy", "service", "status"} : rec \in Broken(pc)

\* The condition that the Gateway will carry.
LastReport == IF updates = <<>> THEN ~lost /\ status ELSE updates[Len(updates)]

ReportOK ==
    rec = Idle /\ UpToDate /\ LastReport =>
        cm # <<>> /\ Followed(cm[1]) = Wanted /\ ServedSoon

\* Hashes on the Deployment and its pods are of published contents, or empty; a
\* pod that was made for the content of the ConfigMap, and that no reload
\* changed, runs it.
PodsOK ==
    /\ cm # <<>> => cm \in past
    /\ deploy = <<>> \/ \E h \in past \cup {<<>>} : deploy = <<h>>
    /\ deploy = <<>> => Live = {}
    /\ \A p \in Live : \E h \in past \cup {<<>>} : pods[p].template = <<h>>
    /\ cm # <<>> /\ ~again /\ ~obeyed => \A p \in Live : pods[p].template = <<cm>> => pods[p].config = cm

ControllerInv == ControllerTypes /\ ReconcileOK /\ ReportOK /\ PodsOK

LEMMA ControllerInvInit == ControllerInit => ControllerInv
<1> SUFFICES ASSUME ControllerInit PROVE ControllerInv
  OBVIOUS
<1>1. ControllerTypes
  <2>1. policy \in Policy
    BY DEF ControllerInit, Policy, Flag
  <2>2. /\ class \in BOOLEAN /\ queued \in BOOLEAN /\ again \in BOOLEAN /\ obeyed \in BOOLEAN
        /\ status \in BOOLEAN /\ lost \in BOOLEAN
    BY Zenon DEF ControllerInit
  <2>3. updates \in Seq(BOOLEAN) /\ pods = [p \in Pod |-> NoPod]
    BY DEF ControllerInit
  <2> QED BY <2>1, <2>2, <2>3 DEF ControllerTypes
<1>2. Live = {}
  BY DEF ControllerInit, Live, NoPod
<1>3. ReconcileOK /\ ReportOK
  BY DEF ControllerInit, ReconcileOK, ReportOK, UpToDate
<1>4. PodsOK
  BY <1>2 DEF ControllerInit, PodsOK
<1> QED BY <1>1, <1>3, <1>4 DEF ControllerInv

\* The stages are told apart by their names.
LEMMA StagesDiffer ==
    /\ Idle.pc = "idle"
    /\ \A ls, b : \A r \in Reading(ls, b) : r.pc = "clusters" /\ r.ls = ls /\ r.b = b
    /\ \A pc, config : \A r \in Writing(pc, config) : r.pc = pc /\ r.hash = <<config>> /\ r.ok = TRUE
    /\ \A pc : \A r \in Broken(pc) : r.pc = pc /\ r.hash = <<>> /\ r.ok = FALSE
BY DEF Idle, Reading, Writing, Broken

LEMMA StagesMove ==
    ASSUME NEW q
    PROVE  /\ \A pc, config : \A r \in Writing(pc, config) :
                 /\ [r EXCEPT !.pc = q] \in Writing(q, config)
                 /\ [r EXCEPT !.pc = q, !.hash = <<>>, !.ok = FALSE] \in Broken(q)
           /\ \A pc : \A r \in Broken(pc) :
                 /\ [r EXCEPT !.pc = q] \in Broken(q)
                 /\ [r EXCEPT !.pc = q, !.hash = <<>>, !.ok = FALSE] \in Broken(q)
<1>1. ASSUME NEW pc, NEW config, NEW r \in Writing(pc, config)
      PROVE  [r EXCEPT !.pc = q] \in Writing(q, config)
  BY <1>1 DEF Writing
<1>2. ASSUME NEW pc, NEW config, NEW r \in Writing(pc, config)
      PROVE  [r EXCEPT !.pc = q, !.hash = <<>>, !.ok = FALSE] \in Broken(q)
  BY <1>2 DEF Writing, Broken
<1>3. ASSUME NEW pc, NEW r \in Broken(pc) PROVE [r EXCEPT !.pc = q] \in Broken(q)
  BY <1>3 DEF Broken
<1>4. ASSUME NEW pc, NEW r \in Broken(pc)
      PROVE  [r EXCEPT !.pc = q, !.hash = <<>>, !.ok = FALSE] \in Broken(q)
  BY <1>4 DEF Broken
<1> QED BY <1>1, <1>2, <1>3, <1>4

\* What a step leaves alone when it leaves the objects and the pods alone.
LEMMA SameObjects ==
    ASSUME UNCHANGED <<objects, pods>>
    PROVE  (PodsOK <=> PodsOK') /\ (ServedSoon <=> ServedSoon') /\ cm' = cm /\ Live' = Live
<1>1. UNCHANGED <<cm, deploy, past, again, obeyed, pods>>
  BY DEF objects
<1> QED BY <1>1 DEF PodsOK, ServedSoon, Live

LEMMA SameInputs ==
    ASSUME UNCHANGED inputs
    PROVE  Wanted' = Wanted /\ class' = class /\ policy' = policy
           /\ listeners' = listeners /\ backend' = backend
<1>1. UNCHANGED <<listeners, backend, service, policy, class>>
  BY DEF inputs
<1> QED BY <1>1 DEF Wanted, ApplyListenersRefToConfig, convertListener, convertHTTPListener,
                    convertGRPCListener, convertTCPListener, mergeFilterConfig

(***************************************************************************)
(* An edit that counts is noticed: without a request in the queue and with *)
(* the class there, nothing that the watches follow has changed.           *)
(***************************************************************************)
LEMMA EditsAreNoticed ==
    ASSUME ControllerTypes, EditObjects
    PROVE  /\ policy' \in Policy /\ class' \in BOOLEAN /\ queued' \in BOOLEAN
           /\ UpToDate' => /\ UpToDate /\ Wanted' = Wanted
                           /\ listeners' = listeners /\ backend' = backend
<1> DEFINE Goal == /\ policy' \in Policy /\ class' \in BOOLEAN /\ queued' \in BOOLEAN
                   /\ UpToDate' => /\ UpToDate /\ Wanted' = Wanted
                                   /\ listeners' = listeners /\ backend' = backend
<1>0. policy \in Policy /\ class \in BOOLEAN /\ queued \in BOOLEAN
  BY DEF ControllerTypes
<1>1. ASSUME policy' \in Policy, class' = class, queued' = (queued \/ class) PROVE Goal
  BY <1>0, <1>1, Zenon DEF UpToDate
<1>2. CASE EditGateway
  BY <1>0, <1>1, <1>2, Zenon DEF EditGateway, Enqueue
<1>3. CASE \E r \in Route, b \in Backend \cup {NoBackend} : listGatewaysForHTTPRoute(r, b)
  BY <1>0, <1>1, <1>3, Zenon DEF listGatewaysForHTTPRoute, Enqueue
<1>4. CASE EditClass
  BY <1>0, <1>4, Zenon DEF EditClass, UpToDate
<1>5. ASSUME UNCHANGED <<listeners, backend, class, queued>>, policy'.filters = policy.filters, policy' \in Policy
      PROVE  Goal
  <2>1. Wanted' = Wanted
    BY <1>5 DEF Wanted, ApplyListenersRefToConfig, convertListener, convertHTTPListener,
                convertGRPCListener, convertTCPListener, mergeFilterConfig
  <2> QED BY <1>0, <1>5, <2>1 DEF UpToDate
<1>6. CASE \E s \in Backend, state \in States : EditService(s, state)
  BY <1>0, <1>5, <1>6 DEF EditService
<1>7. CASE EditPolicy
  <2>1. CASE \E e \in Flag : policy' = [policy EXCEPT !.cluster = e] /\ Enqueue(TRUE)
    <3>1. policy' \in Policy
      BY <1>0, <2>1 DEF Policy
    <3> QED BY <1>7, <2>1, <3>1, <1>1, Zenon DEF EditPolicy, Enqueue
  <2>2. CASE \E f \in Filters : policy' = [policy EXCEPT !.filters = f] /\ Enqueue(TRUE)
    <3>1. policy' \in Policy
      BY <1>0, <2>2 DEF Policy
    <3> QED BY <1>7, <2>2, <3>1, <1>1, Zenon DEF EditPolicy, Enqueue
  <2>3. CASE \E e \in Flag : policy' = [policy EXCEPT !.service = e] /\ UNCHANGED queued
    <3>1. policy' \in Policy /\ policy'.filters = policy.filters
      BY <1>0, <2>3 DEF Policy
    <3> QED BY <1>5, <1>7, <2>3, <3>1 DEF EditPolicy
  <2>4. CASE policy' = [policy EXCEPT !.gateway = "set"] /\ UNCHANGED queued
    <3>1. policy' \in Policy /\ policy'.filters = policy.filters
      BY <1>0, <2>4 DEF Policy
    <3> QED BY <1>5, <1>7, <2>4, <3>1 DEF EditPolicy
  <2> QED BY <1>7, <2>1, <2>2, <2>3, <2>4 DEF EditPolicy, Flag
<1> QED BY <1>2, <1>3, <1>4, <1>6, <1>7 DEF EditObjects

LEMMA EditStep == ASSUME ControllerInv, EditObjects PROVE ControllerInv'
<1> USE DEF ControllerInv
<1>1. UNCHANGED <<objects, pods, rec, reporting>>
  BY DEF EditObjects
<1>2. /\ policy' \in Policy /\ class' \in BOOLEAN /\ queued' \in BOOLEAN
      /\ UpToDate' => /\ UpToDate /\ Wanted' = Wanted
                      /\ listeners' = listeners /\ backend' = backend
  BY EditsAreNoticed
<1>3. PodsOK' /\ (ServedSoon <=> ServedSoon') /\ cm' = cm
  BY <1>1, SameObjects
<1>4. UNCHANGED <<again, obeyed, pods, updates, status, lost, rec>>
  BY <1>1 DEF objects, reporting
<1>5. ControllerTypes'
  BY <1>2, <1>4 DEF ControllerTypes
<1>6. ReconcileOK'
  BY <1>2, <1>3, <1>4 DEF ReconcileOK
<1>7. ReportOK'
  BY <1>2, <1>3, <1>4 DEF ReportOK, LastReport
<1> QED BY <1>3, <1>5, <1>6, <1>7

LEMMA ReadSteps == ASSUME ControllerInv, Reconcile \/ Translate PROVE ControllerInv'
<1> USE DEF ControllerInv
<1>1. UNCHANGED <<inputs, objects, pods, reporting>>
  BY DEF Reconcile, Translate
<1>2. PodsOK' /\ cm' = cm
  BY <1>1, SameObjects
<1>3. Wanted' = Wanted /\ class' = class /\ policy' = policy /\ listeners' = listeners /\ backend' = backend
  BY <1>1, SameInputs
<1>4. UNCHANGED <<again, obeyed, pods, updates, status, lost>> /\ queued' \in BOOLEAN
  BY <1>1, Zenon DEF objects, reporting, Reconcile, Translate, ControllerTypes
<1>5. ControllerTypes'
  BY <1>3, <1>4 DEF ControllerTypes
<1>6. CASE Reconcile
  <2>1. rec' \in Reading(listeners, backend)
    BY <1>6 DEF Reconcile, Reading
  <2>2. rec' # Idle
    BY <2>1, StagesDiffer
  <2> QED BY <1>2, <1>3, <1>5, <2>1, <2>2 DEF ReconcileOK, ReportOK
<1>7. CASE Translate
  <2> DEFINE config == ConvertIRToPixiuConfig(rec.b, rec.ls, Clusters(backend))
  <2>1. rec' \in Writing("configmap", config) /\ rec.pc = "clusters" /\ queued' = queued
    BY <1>7 DEF Translate, Writing
  <2>2. PICK ls, b : rec \in Reading(ls, b) /\ (UpToDate => ls = listeners /\ b = backend)
    BY <2>1, StagesDiffer DEF ReconcileOK, Stage
  <2>3. UpToDate => rec.ls = listeners /\ rec.b = backend
    BY <2>2, StagesDiffer
  <2>4. UpToDate => Followed(config) = Wanted
    BY <2>3 DEF Followed, ConvertIRToPixiuConfig, Wanted
  <2>5. rec' # Idle
    BY <2>1, StagesDiffer
  <2> HIDE DEF config
  <2>6. ReconcileOK'
    BY <1>3, <2>1, <2>4 DEF ReconcileOK, Stage, UpToDate
  <2> QED BY <1>2, <1>5, <2>5, <2>6 DEF ReportOK
<1> QED BY <1>6, <1>7

LEMMA AtStage ==
    ASSUME ReconcileOK, rec.pc \in Stage
    PROVE  \/ \E config : /\ rec \in Writing(rec.pc, config)
                          /\ UpToDate => Followed(config) = Wanted
                          /\ rec.pc # "configmap" => cm = <<config>>
                          /\ rec.pc \in {"service", "status"} => ServedSoon
           \/ rec \in Broken(rec.pc) /\ rec.pc \in {"deploy", "service", "status"}
BY StagesDiffer DEF ReconcileOK, Stage

\* A reconcile that goes on is no reconcile that is over.
LEMMA GoesOn ==
    ASSUME ControllerTypes', ReconcileOK', PodsOK', rec'.pc # "idle"
    PROVE  ControllerInv'
<1>1. rec' # Idle
  BY StagesDiffer
<1> QED BY <1>1 DEF ControllerInv, ReportOK

LEMMA ensureGatewayConfigMapStep == ASSUME ControllerInv, ensureGatewayConfigMap PROVE ControllerInv'
<1> USE DEF ControllerInv
<1>1. /\ UNCHANGED <<inputs, deploy, obeyed, pods, queued, updates, status, lost>>
      /\ rec.pc = "configmap"
  BY DEF ensureGatewayConfigMap, reporting
<1>2. PICK config : rec \in Writing("configmap", config) /\ (UpToDate => Followed(config) = Wanted)
  BY <1>1, AtStage DEF Stage
<1>3. rec.hash = <<config>>
  BY <1>2, StagesDiffer
<1>4. /\ Wanted' = Wanted /\ UpToDate' = UpToDate /\ policy' = policy /\ class' = class
      /\ Live' = Live
  BY <1>1, SameInputs DEF UpToDate, Live
<1>5. CASE cm = rec.hash /\ rec' = [rec EXCEPT !.pc = "deploy"] /\ UNCHANGED <<cm, past, again>>
  <2>1. rec' \in Writing("deploy", config)
    BY <1>2, <1>5, StagesMove
  <2>2. ReconcileOK'
    BY <1>2, <1>3, <1>4, <1>5, <2>1 DEF ReconcileOK, Stage
  <2>3. ControllerTypes'
    BY <1>1, <1>4, <1>5 DEF ControllerTypes
  <2>4. PodsOK'
    BY <1>1, <1>4, <1>5 DEF PodsOK
  <2> QED BY <2>1, <2>2, <2>3, <2>4, GoesOn, StagesDiffer
<1>6. CASE /\ cm' = rec.hash /\ again' = (again \/ rec.hash \in past)
           /\ past' = past \cup {rec.hash}
           /\ rec' = [rec EXCEPT !.pc = IF cm = <<>> THEN "deploy" ELSE "reload"]
  <2>1. PICK q \in {"deploy", "reload"} : rec' = [rec EXCEPT !.pc = q]
    BY <1>6
  <2>2. rec' \in Writing(q, config)
    BY <1>2, <2>1, StagesMove
  <2>3. cm' = <<config>>
    BY <1>3, <1>6
  <2>4. ReconcileOK'
    BY <1>2, <1>4, <2>2, <2>3 DEF ReconcileOK, Stage
  <2>5. again' \in BOOLEAN
    BY <1>6, Zenon DEF ControllerTypes
  <2>6. ControllerTypes'
    BY <1>1, <1>4, <2>5 DEF ControllerTypes
  <2>7. PodsOK'
    <3>1. cm' \in past' /\ past \subseteq past'
      BY <1>6
    <3>2. ~again' => rec.hash \notin past
      BY <1>6, Zenon
    <3>3. rec.hash # <<>>
      BY <1>3
    <3>4. ~again' => \A p \in Live : pods[p].template # <<cm'>>
      BY <1>6, <3>2, <3>3 DEF PodsOK
    <3> QED BY <1>1, <1>4, <3>1, <3>4 DEF PodsOK
  <2>8. rec'.pc # "idle"
    BY <2>2, StagesDiffer
  <2> QED BY <2>4, <2>6, <2>7, <2>8, GoesOn
<1>7. CASE Failed("deploy") /\ UNCHANGED <<cm, past, again>>
  <2>1. rec' \in Broken("deploy")
    BY <1>2, <1>7, StagesMove DEF Failed
  <2>2. ReconcileOK'
    BY <2>1 DEF ReconcileOK
  <2>3. ControllerTypes'
    BY <1>1, <1>4, <1>7 DEF ControllerTypes
  <2>4. PodsOK'
    BY <1>1, <1>4, <1>7 DEF PodsOK
  <2> QED BY <2>1, <2>2, <2>3, <2>4, GoesOn, StagesDiffer
<1> QED BY <1>5, <1>6, <1>7 DEF ensureGatewayConfigMap

\* The pods that answer a reload keep their hash; the others keep what they run.
LEMMA ReloadedPods ==
    ASSUME ControllerTypes, NEW S \in SUBSET Running, Reloaded(S)
    PROVE  /\ Live' = Live
           /\ pods' = [p \in Pod |-> pods'[p]]
           /\ \A p \in Pod : pods'[p] = NoPod \/ \E t, c : pods'[p] \in PodOf(t, c)
           /\ \A p \in Live : /\ pods'[p].template = pods[p].template
                               /\ pods'[p].config = IF p \in S THEN <<>> ELSE pods[p].config
           /\ obeyed' \in BOOLEAN /\ (obeyed \/ S # {} => obeyed') /\ (S = {} => obeyed' = obeyed)
<1>1. pods' = [p \in Pod |-> IF p \in S THEN [pods[p] EXCEPT !.config = <<>>] ELSE pods[p]]
  BY DEF Reloaded
<1>2. ASSUME NEW p \in S PROVE /\ p \in Live /\ \E t, c : pods'[p] \in PodOf(t, c)
                               /\ pods'[p].phase # "none" /\ pods'[p].config = <<>>
                               /\ pods'[p].template = pods[p].template
  <2>1. p \in Pod /\ pods[p].phase = "running"
    BY DEF Running
  <2>2. PICK t, c : pods[p] \in PodOf(t, c)
    BY <2>1 DEF ControllerTypes, NoPod
  <2>3. pods'[p] = [pods[p] EXCEPT !.config = <<>>]
    BY <1>1, <2>1
  <2>4. pods'[p] \in PodOf(t, <<>>)
    BY <2>2, <2>3 DEF PodOf
  <2> QED BY <2>1, <2>2, <2>4 DEF PodOf, Live
<1>3. \A p \in Pod \ S : pods'[p] = pods[p]
  BY <1>1
<1>4. Live' = Live
  BY <1>2, <1>3 DEF Live
<1>5. obeyed' \in BOOLEAN /\ (obeyed \/ S # {} => obeyed') /\ (S = {} => obeyed' = obeyed)
  BY Zenon DEF ControllerTypes, Reloaded
<1> QED BY <1>1, <1>2, <1>3, <1>4, <1>5 DEF ControllerTypes, Live

\* Reloading disturbs neither the hashes nor the pods made for the content.
LEMMA ReloadKeepsPods ==
    ASSUME ControllerTypes, PodsOK, NEW S \in SUBSET Running, Reloaded(S),
           UNCHANGED <<cm, deploy, past, again>>
    PROVE  PodsOK'
BY ReloadedPods DEF PodsOK

LEMMA triggerHotReloadStep == ASSUME ControllerInv, triggerHotReload PROVE ControllerInv'
<1> USE DEF ControllerInv
<1>1. UNCHANGED <<inputs, cm, deploy, past, again, queued, updates, status, lost>> /\ rec.pc = "reload"
  BY DEF triggerHotReload, reporting
<1>2. PICK S \in SUBSET Running :
         /\ Reloaded(S)
         /\ Failed("deploy") \/ rec' = [rec EXCEPT !.pc = "deploy"]
  BY DEF triggerHotReload
<1>3. PICK config : /\ rec \in Writing("reload", config)
                    /\ UpToDate => Followed(config) = Wanted
                    /\ cm = <<config>>
  BY <1>1, AtStage DEF Stage
<1>4. Wanted' = Wanted /\ UpToDate' = UpToDate /\ policy' = policy /\ class' = class
  BY <1>1, SameInputs DEF UpToDate
<1>5. rec' \in Broken("deploy") \/ rec' \in Writing("deploy", config)
  <2>1. CASE Failed("deploy")
    BY <1>3, <2>1, StagesMove DEF Failed
  <2>2. CASE rec' = [rec EXCEPT !.pc = "deploy"]
    BY <1>3, <2>2, StagesMove
  <2> QED BY <1>2, <2>1, <2>2
<1>6. ReconcileOK'
  BY <1>1, <1>3, <1>4, <1>5 DEF ReconcileOK, Stage
<1>7. PodsOK'
  BY <1>1, <1>2, ReloadKeepsPods
<1>8. ControllerTypes'
  <2>1. /\ pods' = [p \in Pod |-> pods'[p]] /\ obeyed' \in BOOLEAN
        /\ \A p \in Pod : pods'[p] = NoPod \/ \E t, c : pods'[p] \in PodOf(t, c)
    BY <1>2, ReloadedPods
  <2> QED BY <1>1, <1>4, <2>1 DEF ControllerTypes
<1>9. rec'.pc # "idle"
  BY <1>5, StagesDiffer
<1> QED BY <1>6, <1>7, <1>8, <1>9, GoesOn

\* From one write to the next, and to the end of one that failed.
LEMMA WriteSucceeds ==
    ASSUME ReconcileOK, rec.pc \in {"deploy", "service"}, UNCHANGED <<inputs, cm>>, UpToDate' => UpToDate,
           NEW q \in {"service", "status"}, rec' = [rec EXCEPT !.pc = q],
           cm = rec.hash /\ cm # <<>> => ServedSoon'
    PROVE  ReconcileOK' /\ rec'.pc # "idle"
<1>1. Wanted' = Wanted
  BY SameInputs
<1>2. CASE rec \in Broken(rec.pc)
  <2>1. rec' \in Broken(q)
    BY <1>2, StagesMove
  <2> QED BY <2>1, StagesDiffer DEF ReconcileOK
<1>3. ASSUME NEW config, rec \in Writing(rec.pc, config), cm = <<config>>,
             UpToDate => Followed(config) = Wanted
      PROVE  ReconcileOK' /\ rec'.pc # "idle"
  <2>1. rec' \in Writing(q, config)
    BY <1>3, StagesMove
  <2>2. ServedSoon'
    BY <1>3, StagesDiffer
  <2> QED BY <1>1, <1>3, <2>1, <2>2, StagesDiffer DEF ReconcileOK, Stage
<1> QED BY <1>2, <1>3, AtStage DEF Stage

LEMMA WriteFails ==
    ASSUME ReconcileOK, rec.pc \in {"deploy", "service"}, Failed("status")
    PROVE  ReconcileOK' /\ rec'.pc # "idle"
<1>1. rec' = [rec EXCEPT !.pc = "status", !.hash = <<>>, !.ok = FALSE]
  BY DEF Failed
<1>2. (\E config : rec \in Writing(rec.pc, config)) \/ rec \in Broken(rec.pc)
  BY AtStage DEF Stage
<1>3. rec' \in Broken("status")
  BY <1>1, <1>2, StagesMove
<1> QED BY <1>3, StagesDiffer DEF ReconcileOK

\* A request more in the queue makes nothing up to date.
LEMMA Enqueued ==
    ASSUME ControllerTypes, UNCHANGED inputs, UNCHANGED queued \/ \E x : Enqueue(x)
    PROVE  queued' \in BOOLEAN /\ class' \in BOOLEAN /\ policy' \in Policy /\ (UpToDate' => UpToDate)
<1>1. class' = class /\ policy' = policy
  BY SameInputs
<1>2. queued \in BOOLEAN /\ class \in BOOLEAN /\ policy \in Policy
  BY DEF ControllerTypes
<1> QED BY <1>1, <1>2, Zenon DEF Enqueue, UpToDate

LEMMA patchDeploymentStep ==
    ASSUME ControllerInv, rec.pc = "deploy", patchDeployment, deploy # <<>>,
           UNCHANGED <<inputs, cm, past, again, updates, status, lost>>
    PROVE  ControllerInv'
<1> USE DEF ControllerInv
<1>1. PICK S \in SUBSET Running :
         /\ Reloaded(S)
         /\ \/ /\ deploy' = IF S = {} /\ Live # {} THEN <<rec.hash>> ELSE deploy
               /\ Enqueue(deploy' # deploy)
               /\ rec' = [rec EXCEPT !.pc = "service"]
            \/ /\ Failed("status")
               /\ UNCHANGED <<deploy, queued>>
  BY DEF patchDeployment
<1>2. queued' \in BOOLEAN /\ class' \in BOOLEAN /\ policy' \in Policy /\ (UpToDate' => UpToDate)
  BY <1>1, Enqueued
<1>3. /\ Live' = Live
      /\ pods' = [p \in Pod |-> pods'[p]]
      /\ \A p \in Pod : pods'[p] = NoPod \/ \E t, c : pods'[p] \in PodOf(t, c)
      /\ \A p \in Live : /\ pods'[p].template = pods[p].template
                          /\ pods'[p].config = IF p \in S THEN <<>> ELSE pods[p].config
  BY <1>1, ReloadedPods
<1>4. obeyed' \in BOOLEAN /\ (obeyed \/ S # {} => obeyed') /\ (S = {} => obeyed' = obeyed)
  BY <1>1, ReloadedPods
<1>5. ControllerTypes'
  BY <1>2, <1>3, <1>4 DEF ControllerTypes
<1>6. rec.hash \in past \cup {<<>>}
  BY AtStage, StagesDiffer DEF Stage, PodsOK
<1>7. deploy' = deploy \/ deploy' = <<rec.hash>>
  BY <1>1
<1>8. PodsOK'
  BY <1>3, <1>4, <1>6, <1>7 DEF PodsOK
<1>9. ReconcileOK' /\ rec'.pc # "idle"
  <2>1. CASE Failed("status")
    BY <2>1, WriteFails
  <2>2. CASE /\ deploy' = IF S = {} /\ Live # {} THEN <<rec.hash>> ELSE deploy
             /\ rec' = [rec EXCEPT !.pc = "service"]
    <3>1. ASSUME cm = rec.hash PROVE ServedSoon'
      <4>1. CASE S = {} /\ Live # {}
        BY <2>2, <3>1, <4>1 DEF ServedSoon
      <4>2. CASE Live = {}
        BY <1>3, <4>2 DEF ServedSoon
      <4>3. CASE S # {}
        BY <1>4, <4>3 DEF ServedSoon
      <4> QED BY <4>1, <4>2, <4>3
    <3> QED BY <1>2, <2>2, <3>1, WriteSucceeds
  <2> QED BY <1>1, <2>1, <2>2
<1> QED BY <1>5, <1>8, <1>9, GoesOn

LEMMA ensureDataPlaneStep == ASSUME ControllerInv, ensureDataPlane PROVE ControllerInv'
<1> USE DEF ControllerInv
<1>1. rec.pc = "deploy" /\ UNCHANGED <<inputs, cm, past, again, updates, status, lost>>
  BY DEF ensureDataPlane, reporting
<1>2. CASE deploy # <<>> /\ patchDeployment
  BY <1>1, <1>2, patchDeploymentStep
<1>3. ASSUME UNCHANGED <<pods, obeyed>>, UNCHANGED queued \/ \E x : Enqueue(x)
      PROVE  ControllerTypes' /\ Live' = Live /\ (UpToDate' => UpToDate)
  <2>1. queued' \in BOOLEAN /\ class' \in BOOLEAN /\ policy' \in Policy /\ (UpToDate' => UpToDate)
    BY <1>1, <1>3, Enqueued
  <2> QED BY <1>1, <1>3, <2>1 DEF ControllerTypes, Live
<1>4. CASE /\ deploy = <<rec.hash>> /\ rec' = [rec EXCEPT !.pc = "service"]
           /\ UNCHANGED <<deploy, queued, pods, obeyed>>
  <2>1. ControllerTypes' /\ Live' = Live /\ (UpToDate' => UpToDate)
    BY <1>3, <1>4
  <2>2. cm = rec.hash => ServedSoon'
    BY <1>1, <1>4 DEF ServedSoon
  <2>3. ReconcileOK' /\ rec'.pc # "idle"
    BY <1>1, <1>4, <2>1, <2>2, WriteSucceeds
  <2>4. PodsOK'
    BY <1>1, <1>4, <2>1 DEF PodsOK
  <2> QED BY <2>1, <2>3, <2>4, GoesOn
<1>5. CASE /\ deploy = <<>> /\ deploy' = <<rec.hash>> /\ Enqueue(TRUE)
           /\ rec' = [rec EXCEPT !.pc = "service"] /\ UNCHANGED <<pods, obeyed>>
  <2>1. ControllerTypes' /\ Live' = Live /\ (UpToDate' => UpToDate)
    BY <1>3, <1>5
  <2>2. cm = rec.hash => ServedSoon'
    BY <1>1, <1>5 DEF ServedSoon
  <2>3. ReconcileOK' /\ rec'.pc # "idle"
    BY <1>1, <1>5, <2>1, <2>2, WriteSucceeds
  <2>4. rec.hash \in past \cup {<<>>}
    BY <1>1, AtStage, StagesDiffer DEF Stage, PodsOK
  <2>5. PodsOK'
    BY <1>1, <1>5, <2>1, <2>4 DEF PodsOK
  <2> QED BY <2>1, <2>3, <2>5, GoesOn
<1>6. CASE Failed("status") /\ UNCHANGED <<deploy, queued, pods, obeyed>>
  <2>1. ControllerTypes' /\ Live' = Live
    BY <1>3, <1>6
  <2>2. ReconcileOK' /\ rec'.pc # "idle"
    BY <1>1, <1>6, WriteFails
  <2>3. PodsOK'
    BY <1>1, <1>6, <2>1 DEF PodsOK
  <2> QED BY <2>1, <2>2, <2>3, GoesOn
<1> QED BY <1>2, <1>4, <1>5, <1>6 DEF ensureDataPlane

LEMMA ensureServiceStep == ASSUME ControllerInv, ensureService PROVE ControllerInv'
<1> USE DEF ControllerInv
<1>1. /\ rec.pc = "service"
      /\ UNCHANGED <<inputs, cm, deploy, past, again, obeyed, pods, updates, status, lost>>
      /\ UNCHANGED queued \/ \E x : Enqueue(x)
  BY DEF ensureService, reporting
<1>2. queued' \in BOOLEAN /\ class' \in BOOLEAN /\ policy' \in Policy /\ (UpToDate' => UpToDate)
  BY <1>1, Enqueued
<1>3. ControllerTypes' /\ Live' = Live
  BY <1>1, <1>2 DEF ControllerTypes, Live
<1>4. PodsOK' /\ (ServedSoon => ServedSoon')
  BY <1>1, <1>3 DEF PodsOK, ServedSoon
<1>5. ReconcileOK' /\ rec'.pc # "idle"
  <2>1. CASE Failed("status")
    BY <1>1, <2>1, WriteFails
  <2>2. CASE rec' = [rec EXCEPT !.pc = "status"]
    <3>1. cm = rec.hash /\ cm # <<>> => ServedSoon
      BY <1>1, AtStage, StagesDiffer DEF Stage
    <3> QED BY <1>1, <1>2, <1>4, <2>2, <3>1, WriteSucceeds
  <2> QED BY <2>1, <2>2 DEF ensureService
<1> QED BY <1>3, <1>4, <1>5, GoesOn

\* The outcome of the reconcile is the last that is reported.
LEMMA SetGatewayConditionProgrammedStep ==
    ASSUME ControllerInv, SetGatewayConditionProgrammed PROVE ControllerInv'
<1> USE DEF ControllerInv
<1>1. /\ rec.pc = "status" /\ rec' = Idle /\ updates' = Append(updates, rec.ok)
      /\ UNCHANGED <<inputs, objects, pods, queued, status, lost>>
  BY DEF SetGatewayConditionProgrammed
<1>2. PodsOK' /\ (ServedSoon <=> ServedSoon') /\ cm' = cm
  BY <1>1, SameObjects
<1>3. Wanted' = Wanted /\ UpToDate' = UpToDate /\ class' = class /\ policy' = policy
  BY <1>1, SameInputs DEF UpToDate
<1>4. updates \in Seq(BOOLEAN) /\ rec.ok \in BOOLEAN
  <2>1. (\E config : rec \in Writing("status", config)) \/ rec \in Broken("status")
    BY <1>1, AtStage DEF Stage
  <2>2. rec.ok = TRUE \/ rec.ok = FALSE
    BY <2>1, StagesDiffer
  <2>3. rec.ok \in BOOLEAN
    BY <2>2, Zenon
  <2> QED BY <2>3 DEF ControllerTypes
<1>5. updates' \in Seq(BOOLEAN) /\ updates' # <<>> /\ updates'[Len(updates')] = rec.ok
  BY <1>1, <1>4
<1>6. ControllerTypes'
  BY <1>1, <1>3, <1>5 DEF ControllerTypes, objects
<1>7. ReconcileOK'
  BY <1>1 DEF ReconcileOK
<1>8. ReportOK'
  <2>1. CASE rec.ok = FALSE
    <3>1. ~LastReport'
      BY <1>5, <2>1 DEF LastReport
    <3> QED BY <3>1 DEF ReportOK
  <2>2. CASE rec.ok = TRUE
    <3>1. PICK config : (UpToDate => Followed(config) = Wanted) /\ cm = <<config>> /\ ServedSoon
      BY <1>1, <2>2, AtStage, StagesDiffer DEF Stage
    <3>2. cm' # <<>> /\ cm'[1] = config
      BY <1>2, <3>1
    <3> QED BY <1>2, <1>3, <3>1, <3>2 DEF ReportOK
  <2> QED BY <1>4, <2>1, <2>2
<1> QED BY <1>2, <1>6, <1>7, <1>8

LEMMA TailOfOne ==
    ASSUME NEW S, NEW seq \in Seq(S), seq # <<>>, Tail(seq) = <<>>
    PROVE  Len(seq) = 1
<1>1. Len(seq) \in Nat /\ Len(seq) # 0
  OBVIOUS
<1>2. Len(Tail(seq)) = Len(seq) - 1
  BY <1>1
<1>3. Len(<<>>) = 0
  OBVIOUS
<1>4. Len(seq) - 1 = 0
  BY <1>2, <1>3
<1> QED BY <1>1, <1>4

LEMMA updateStatusStep == ASSUME ControllerInv, updateStatus PROVE ControllerInv'
<1> USE DEF ControllerInv
<1>1. /\ updates # <<>> /\ updates' = Tail(updates)
      /\ \/ status' = Head(updates) /\ lost' = FALSE
         \/ lost' = TRUE /\ status' = status
      /\ UNCHANGED <<inputs, objects, pods, queued, rec>>
  BY DEF updateStatus
<1>2. PodsOK' /\ (ServedSoon <=> ServedSoon') /\ cm' = cm
  BY <1>1, SameObjects
<1>3. /\ Wanted' = Wanted /\ UpToDate' = UpToDate /\ class' = class /\ policy' = policy
      /\ listeners' = listeners /\ backend' = backend
  BY <1>1, SameInputs DEF UpToDate
<1>4. updates \in Seq(BOOLEAN) /\ status \in BOOLEAN
  BY DEF ControllerTypes
<1>5. updates' \in Seq(BOOLEAN) /\ Head(updates) \in BOOLEAN
  BY <1>1, <1>4
<1>6. status' \in BOOLEAN /\ lost' \in BOOLEAN
  BY <1>1, <1>4, <1>5, Zenon
<1>7. ControllerTypes'
  BY <1>1, <1>3, <1>5, <1>6 DEF ControllerTypes, objects
<1>8. ReconcileOK'
  BY <1>1, <1>2, <1>3 DEF ReconcileOK
<1>9. LastReport' => LastReport
  <2>1. CASE updates' # <<>>
    <3>1. updates'[Len(updates')] = updates[Len(updates)]
      BY <1>1, <1>4, <2>1
    <3> QED BY <1>1, <2>1, <3>1 DEF LastReport
  <2>2. CASE updates' = <<>>
    <3>1. Len(updates) = 1
      BY <1>1, <1>4, <2>2, TailOfOne
    <3>2. Head(updates) = updates[Len(updates)]
      BY <1>4, <3>1
    <3>3. LastReport' = (~lost' /\ status') /\ LastReport = updates[Len(updates)]
      BY <1>1, <2>2 DEF LastReport
    <3> QED BY <1>1, <3>2, <3>3, Zenon
  <2> QED BY <2>1, <2>2
<1>10. ReportOK'
  BY <1>1, <1>2, <1>3, <1>9 DEF ReportOK
<1> QED BY <1>2, <1>7, <1>8, <1>10

\* A new controller begins anew, if the class is there to begin with.
LEMMA RestartStep == ASSUME ControllerInv, Restart PROVE ControllerInv'
<1> USE DEF ControllerInv
<1>1. /\ rec' = Idle /\ updates' = <<>> /\ queued' = class
      /\ UNCHANGED <<inputs, objects, pods, status, lost>>
  BY DEF Restart
<1>2. PodsOK'
  BY <1>1, SameObjects
<1>3. class' = class /\ policy' = policy /\ class \in BOOLEAN
  BY <1>1, SameInputs DEF ControllerTypes
<1>4. ~UpToDate'
  BY <1>1, <1>3, Zenon DEF UpToDate
<1>5. ControllerTypes'
  BY <1>1, <1>3 DEF ControllerTypes, objects
<1> QED BY <1>1, <1>2, <1>4, <1>5 DEF ReconcileOK, ReportOK

\* Pods come with the ConfigMap as it is, run, and go.
LEMMA PodSteps == ASSUME ControllerInv, PodStep PROVE ControllerInv'
<1> USE DEF ControllerInv
<1>1. PICK p \in Pod : PodMount(p) \/ PodRun(p) \/ PodReap(p)
  BY DEF PodStep
<1>2. UNCHANGED <<inputs, cm, deploy, past, again, obeyed, queued, rec, updates, status, lost>>
  BY <1>1 DEF PodMount, PodRun, PodReap, objects, reporting
<1>3. /\ Wanted' = Wanted /\ UpToDate' = UpToDate /\ class' = class /\ policy' = policy
      /\ listeners' = listeners /\ backend' = backend
  BY <1>2, SameInputs DEF UpToDate
<1>4. pods = [q \in Pod |-> pods[q]]
  BY DEF ControllerTypes
<1>5. /\ pods' = [q \in Pod |-> pods'[q]]
      /\ \A q \in Pod \ {p} : pods'[q] = pods[q]
      /\ \/ pods'[p] = NoPod
         \/ /\ cm # <<>> /\ deploy # <<>>
            /\ pods'[p] \in PodOf(deploy, cm)
         \/ /\ p \in Live /\ \E t, c : pods'[p] \in PodOf(t, c)
            /\ pods'[p].template = pods[p].template /\ pods'[p].config = pods[p].config
  <2>1. CASE PodMount(p)
    BY <1>4, <2>1 DEF PodMount, PodOf
  <2>2. CASE PodReap(p)
    BY <1>4, <2>2 DEF PodReap
  <2>3. CASE PodRun(p)
    <3>1. pods[p].phase = "pending" /\ pods' = [pods EXCEPT ![p] = [pods[p] EXCEPT !.phase = "running"]]
      BY <2>3 DEF PodRun
    <3>2. PICK t, c : pods[p] \in PodOf(t, c)
      BY <3>1 DEF ControllerTypes, NoPod
    <3>3. [pods[p] EXCEPT !.phase = "running"] \in PodOf(t, c)
      BY <3>2 DEF PodOf
    <3>4. pods'[p] \in PodOf(t, c)
      BY <1>4, <3>1, <3>3
    <3>5. pods'[p].template = pods[p].template /\ pods'[p].config = pods[p].config
      BY <3>2, <3>4 DEF PodOf
    <3> QED BY <1>4, <3>1, <3>4, <3>5 DEF Live
  <2> QED BY <1>1, <2>1, <2>2, <2>3
<1>6. ControllerTypes'
  BY <1>2, <1>3, <1>5 DEF ControllerTypes
<1>7. /\ \A q \in Live' : \/ q \in Live /\ pods'[q].template = pods[q].template /\ pods'[q].config = pods[q].config
                        \/ /\ cm # <<>> /\ deploy # <<>>
                           /\ pods'[q].template = deploy /\ pods'[q].config = cm
  BY <1>5 DEF Live, PodOf, NoPod
<1>8. PodsOK'
  BY <1>2, <1>7 DEF PodsOK
<1>9. ServedSoon => ServedSoon'
  BY <1>2, <1>7 DEF ServedSoon
<1>10. ReconcileOK'
  BY <1>2, <1>3, <1>9 DEF ReconcileOK
<1>11. ReportOK'
  BY <1>2, <1>3, <1>9 DEF ReportOK, LastReport
<1> QED BY <1>6, <1>8, <1>10, <1>11

LEMMA ControllerInvNext == ControllerInv /\ [ControllerNext]_controllerVars => ControllerInv'
<1> SUFFICES ASSUME ControllerInv, [ControllerNext]_controllerVars PROVE ControllerInv'
  OBVIOUS
<1>1. CASE UNCHANGED controllerVars
  <2>1. UNCHANGED <<inputs, objects, pods, queued, rec, reporting>>
    BY <1>1 DEF controllerVars
  <2>2. (PodsOK <=> PodsOK') /\ (ServedSoon <=> ServedSoon') /\ cm' = cm
    BY <2>1, SameObjects
  <2>3. /\ Wanted' = Wanted /\ class' = class /\ policy' = policy
        /\ listeners' = listeners /\ backend' = backend
    BY <2>1, SameInputs
  <2>4. UNCHANGED <<queued, rec, updates, status, lost, again, obeyed, pods>>
    BY <2>1 DEF reporting, objects
  <2>5. ControllerTypes' /\ PodsOK'
    BY <2>2, <2>3, <2>4 DEF ControllerInv, ControllerTypes
  <2>6. ReconcileOK'
    BY <2>2, <2>3, <2>4 DEF ControllerInv, ReconcileOK, UpToDate
  <2>7. ReportOK'
    BY <2>2, <2>3, <2>4 DEF ControllerInv, ReportOK, UpToDate, LastReport
  <2> QED BY <2>5, <2>6, <2>7 DEF ControllerInv
<1>2. CASE ReconcileStep
  BY <1>2, ReadSteps, ensureGatewayConfigMapStep, triggerHotReloadStep, ensureDataPlaneStep,
     ensureServiceStep, SetGatewayConditionProgrammedStep DEF ReconcileStep
<1> QED BY <1>1, <1>2, EditStep, updateStatusStep, RestartStep, PodSteps DEF ControllerNext

(***************************************************************************)
(* A Gateway that says it is programmed, once the controller is at rest,   *)
(* has its routes, listeners and filters in the ConfigMap; pods that leave *)
(* the reload to the rollout run that once it is over.  This holds for any *)
(* objects and any number of edits between the steps of Reconcile, failed  *)
(* writes, restarts and pods.                                              *)
(***************************************************************************)
THEOREM ProgrammedStaysTrue == ControllerSpec => []ProgrammedIsTrue
<1>1. ControllerInv => ProgrammedIsTrue
  <2> SUFFICES ASSUME ControllerInv PROVE ProgrammedIsTrue
    OBVIOUS
  <2>1. ASSUME Settled, status PROVE cm # <<>> /\ Followed(cm[1]) = Wanted /\ ServedSoon
    <3>1. rec = Idle /\ UpToDate /\ LastReport
      BY <2>1 DEF Settled, UpToDate, LastReport
    <3> QED BY <3>1 DEF ControllerInv, ReportOK
  <2>2. Followed(ConvertIRToPixiuConfig(backend, listeners, Clusters(backend))) = Wanted
    BY DEF Followed, ConvertIRToPixiuConfig, Wanted
  <2>3. ProgrammedIsCurrent
    BY <2>1, <2>2 DEF ProgrammedIsCurrent
  <2>4. ProgrammedIsServed
    <3> SUFFICES ASSUME Settled, status, RolledOut, ~again, ~obeyed, NEW p \in Live
                 PROVE  pods[p].config = cm
      BY DEF ProgrammedIsServed
    <3>1. deploy = <<cm>> \/ pods[p].config = cm
      BY <2>1 DEF ServedSoon
    <3>2. deploy = <<cm>> => pods[p].template = <<cm>>
      BY DEF RolledOut
    <3> QED BY <2>1, <3>1, <3>2 DEF ControllerInv, PodsOK
  <2> QED BY <2>3, <2>4 DEF ProgrammedIsTrue
<1> QED BY <1>1, ControllerInvInit, ControllerInvNext, PTL DEF ControllerSpec
-----------------------------------------------------------------------------
(***************************************************************************)
(* The listener manager, for any listeners, requests and transactions      *)
(***************************************************************************)
Transaction == [next : SUBSET ListenerKey, todo : SUBSET ListenerKey,
                prepared : [ListenerKey -> Nat \cup {NoId}], staged : [ListenerKey -> Nat \cup {NoId}],
                handoffs : [ListenerKey -> ListenerKey \cup {NoId}], closed : SUBSET ListenerKey,
                retired : SUBSET Nat, removed : SUBSET Nat]

ServiceRecord == [key : ListenerKey, chain : Nat \cup {NoId}]
ChainRecord == [refs : Nat, gen : Nat]
CallRecord == [pc : {"idle", "arrived", "loaded", "running"}, service : Nat \cup {NoId},
               chain : Nat \cup {NoId}]

ServiceId == 1..Len(listenerService)
ChainId == 1..Len(chain)

ListenerTypes ==
    /\ listenerService \in Seq(ServiceRecord) /\ chain \in Seq(ChainRecord)
    /\ active \in [ListenerKey -> Nat \cup {NoId}] /\ xdsManaged \subseteq ListenerKey
    /\ bound \subseteq ServiceId /\ accepting \subseteq ServiceId
    /\ retiredChains \subseteq ChainId
    /\ stage \in {"idle", "prepare", "start", "handoff", "rollback", "remove", "commit", "retire",
                  "reject"}
    /\ txn \in Transaction
    /\ refresh \in ChainId \cup {NoId}
    /\ call \in [Call -> CallRecord]
    /\ seen \in Nat
    /\ used \in [replacements : Nat, refreshes : Nat, failures : Nat]

\* The calls are at services and on chains that were built.
CallsOK ==
    \A r \in Call :
        /\ call[r].pc # "idle" => call[r].service \in ServiceId
        /\ call[r].pc \in {"loaded", "running"} => call[r].chain \in ChainId

Runs(c) == {r \in Call : call[r].pc = "running" /\ call[r].chain = c}

\* The references of a chain are the requests that run on it, and it is closed when it is
\* retired and has none.
CountsOK ==
    /\ \A c \in ChainId : chain[c].refs = Cardinality(Runs(c))
    /\ closedChains = {c \in retiredChains : chain[c].refs = 0}

\* A chain that is not retired is somewhere: with a service, or with a transaction or a
\* refresh that has yet to retire it.
Reached(c) ==
    \/ \E s \in ServiceId : listenerService[s].chain = c
    \/ \E k \in ListenerKey : txn.prepared[k] = c
    \/ c \in txn.retired
    \/ refresh = c

ReachOK == \A c \in ChainId : c \in retiredChains \/ Reached(c)

\* A key has one service at a time, which has a chain; only such a service lets requests
\* in.  Staged services are for keys that have none, and the removed ones have no key.
ServicesOK ==
    /\ \A s \in ServiceId : listenerService[s].chain \in ChainId \cup {NoId}
    /\ \A k \in ListenerKey : active[k] # NoId =>
          /\ active[k] \in ServiceId /\ listenerService[active[k]].key = k
          /\ listenerService[active[k]].chain # NoId
    /\ \A s \in accepting : active[listenerService[s].key] = s
    /\ \A k \in ListenerKey : txn.staged[k] # NoId =>
          /\ txn.staged[k] \in ServiceId /\ listenerService[txn.staged[k]].key = k
          /\ listenerService[txn.staged[k]].chain # NoId /\ active[k] = NoId
    /\ \A s \in txn.removed :
          /\ s \in ServiceId
          /\ active[listenerService[s].key] # s /\ txn.staged[listenerService[s].key] # s

\* What a transaction has prepared is for listeners that stay, and what it has staged is for
\* new ones; between them and what is left to do, they are all that it was sent.
TxnOK ==
    /\ \A k \in ListenerKey : txn.prepared[k] # NoId =>
          /\ txn.prepared[k] \in ChainId /\ chain[txn.prepared[k]].gen = generation
          /\ k \in xdsManaged /\ k \in txn.next /\ active[k] # NoId
    /\ \A k \in ListenerKey : txn.staged[k] # NoId =>
          k \in txn.next /\ chain[listenerService[txn.staged[k]].chain].gen = generation
    /\ txn.retired \subseteq ChainId
    /\ stage \notin {"commit", "retire"} => txn.retired = {} /\ txn.removed = {}
    /\ stage = "retire" => txn.prepared = NoEntries /\ txn.staged = NoEntries
    /\ stage = "idle" => txn = noTxn
    /\ stage \in {"prepare", "start", "handoff", "rollback", "remove"} =>
          \A k \in txn.next : k \in txn.todo \/ txn.prepared[k] # NoId \/ txn.staged[k] # NoId
    /\ stage \in Gated => txn.todo = {}
    /\ txn.todo \subseteq txn.next
    /\ \A k \in txn.todo : txn.prepared[k] = NoId /\ txn.staged[k] = NoId

\* The hand-overs are from listeners that go to staged ones.
HandoffsOK ==
    /\ stage \in {"start", "handoff", "rollback", "remove"} =>
          \A k \in ListenerKey : txn.handoffs[k] # NoId =>
             /\ k \in xdsManaged /\ k \notin txn.next /\ active[k] # NoId
             /\ txn.staged[txn.handoffs[k]] # NoId
    /\ txn.closed \subseteq Entries(txn.handoffs)
    /\ stage \in {"prepare", "start"} => txn.closed = {}

Serving(k) == active[k] # NoId /\ active[k] \in bound /\ active[k] \in accepting

\* Who serves at every stage, and which of the staged services have their socket.
ServingOK ==
    /\ stage \in {"idle", "prepare", "start", "reject", "retire"} =>
          \A k \in xdsManaged \ unrestored : Serving(k)
    /\ stage \in {"handoff", "rollback"} =>
          \A k \in xdsManaged \ (unrestored \cup txn.closed) : Serving(k)
    /\ stage = "remove" => \A k \in (xdsManaged \cap txn.next) \ unrestored : Serving(k)
    /\ stage = "commit" => \A k \in txn.next \ unrestored : Serving(k) \/ txn.staged[k] # NoId
    /\ stage = "handoff" => \A k \in Entries(txn.staged) :
          \/ txn.staged[k] \in bound
          \/ \E h \in Entries(txn.handoffs) \ txn.closed : txn.handoffs[h] = k
    /\ stage \in {"remove", "commit"} => \A k \in Entries(txn.staged) : txn.staged[k] \in bound

Gen(k) == chain[listenerService[active[k]].chain].gen

\* The listeners of xDS have one generation, and so have the requests that were let into
\* one; while a transaction is committed, nobody is let in.
OneGeneration(g) ==
    /\ seen <= g /\ g <= generation
    /\ \A k \in ListenerKey \ Static : active[k] # NoId => k \in xdsManaged /\ Gen(k) = g
    /\ \A r \in Call : call[r].pc = "loaded" /\ served(r).key \notin Static =>
          chain[call[r].chain].gen = g

GenerationsOK ==
    /\ stage \in Gated => Readers = {}
    /\ stage # "commit" => \E g \in 0..generation : OneGeneration(g)
    /\ stage = "commit" =>
          /\ seen <= generation
          /\ \A k \in ListenerKey \ Static : active[k] # NoId =>
                k \in txn.next /\ (txn.prepared[k] # NoId \/ Gen(k) = generation)

ListenerInv == /\ ListenerTypes /\ CallsOK /\ CountsOK /\ ReachOK /\ ServicesOK /\ TxnOK
               /\ HandoffsOK /\ ServingOK /\ GenerationsOK
-----------------------------------------------------------------------------
\* What the type of the variables says of their parts.
LEMMA ListenerPartTypes ==
    ASSUME ListenerInv
    PROVE  /\ Len(chain) \in Nat /\ Len(listenerService) \in Nat
           /\ DOMAIN chain = ChainId /\ DOMAIN listenerService = ServiceId
           /\ \A c \in ChainId : chain[c] \in ChainRecord /\ chain[c].refs \in Nat /\ chain[c].gen \in Nat
           /\ \A s \in ServiceId : listenerService[s] \in ServiceRecord
                /\ listenerService[s].key \in ListenerKey
           /\ generation \in Nat
           /\ txn.next \subseteq ListenerKey /\ txn.todo \subseteq ListenerKey
           /\ txn.closed \subseteq ListenerKey
           /\ txn.prepared \in [ListenerKey -> Nat \cup {NoId}]
           /\ txn.staged \in [ListenerKey -> Nat \cup {NoId}]
           /\ txn.handoffs \in [ListenerKey -> ListenerKey \cup {NoId}]
<1> USE DEF ListenerInv, ListenerTypes
<1>1. /\ Len(chain) \in Nat /\ Len(listenerService) \in Nat
      /\ DOMAIN chain = ChainId /\ DOMAIN listenerService = ServiceId
    BY DEF ChainId, ServiceId
<1>2. \A c \in ChainId : chain[c] \in ChainRecord BY DEF ChainId
<1>3. \A s \in ServiceId : listenerService[s] \in ServiceRecord BY DEF ServiceId
<1>4. generation \in Nat BY DEF generation
<1>5. /\ txn.next \subseteq ListenerKey /\ txn.todo \subseteq ListenerKey
      /\ txn.closed \subseteq ListenerKey
      /\ txn.prepared \in [ListenerKey -> Nat \cup {NoId}]
      /\ txn.staged \in [ListenerKey -> Nat \cup {NoId}]
      /\ txn.handoffs \in [ListenerKey -> ListenerKey \cup {NoId}]
    BY DEF Transaction
<1> QED BY <1>1, <1>2, <1>3, <1>4, <1>5 DEF ChainRecord, ServiceRecord

\* What the invariant says of one listener that is active, staged or prepared.
LEMMA ActiveFacts ==
    ASSUME ListenerInv, NEW k \in ListenerKey, active[k] # NoId
    PROVE  /\ active[k] \in ServiceId /\ listenerService[active[k]].key = k
           /\ listenerService[active[k]].chain \in ChainId
           /\ listenerService[active[k]].chain # NoId /\ txn.staged[k] = NoId
BY DEF ListenerInv, ServicesOK

LEMMA StagedFacts ==
    ASSUME ListenerInv, NEW k \in ListenerKey, txn.staged[k] # NoId
    PROVE  /\ txn.staged[k] \in ServiceId /\ listenerService[txn.staged[k]].key = k
           /\ listenerService[txn.staged[k]].chain \in ChainId
           /\ listenerService[txn.staged[k]].chain # NoId /\ active[k] = NoId
           /\ k \in txn.next /\ chain[listenerService[txn.staged[k]].chain].gen = generation
<1>1. /\ txn.staged[k] \in ServiceId /\ listenerService[txn.staged[k]].key = k
      /\ listenerService[txn.staged[k]].chain \in ChainId
      /\ listenerService[txn.staged[k]].chain # NoId /\ active[k] = NoId
    BY DEF ListenerInv, ServicesOK
<1>2. k \in txn.next /\ chain[listenerService[txn.staged[k]].chain].gen = generation
    BY DEF ListenerInv, TxnOK
<1> QED BY <1>1, <1>2

LEMMA PreparedFacts ==
    ASSUME ListenerInv, NEW k \in ListenerKey, txn.prepared[k] # NoId
    PROVE  /\ txn.prepared[k] \in ChainId /\ chain[txn.prepared[k]].gen = generation
           /\ k \in xdsManaged /\ k \in txn.next /\ active[k] # NoId
BY DEF ListenerInv, TxnOK

\* A request arrives, and is let in with the chain of its service or sent away.
LEMMA EnterStep ==
    ASSUME ListenerInv, NEW r \in Call, (\E s \in bound : AcceptCall(r, s)) \/ WithFilterChain(r)
    PROVE  ListenerInv'
<1> USE DEF services, chains
<1>1. UNCHANGED <<active, xdsManaged, services, chains, stage, txn, refresh, seen, unrestored, used>>
    BY DEF AcceptCall, WithFilterChain
<1>2. call \in [Call -> CallRecord] BY DEF ListenerInv, ListenerTypes
<1>3. /\ call' \in [Call -> CallRecord] /\ \A q \in Call : q # r => call'[q] = call[q]
      /\ call[r].pc # "running" /\ call'[r].pc # "running" /\ call[r].pc # "loaded"
      /\ call'[r].pc # "idle" => call'[r].service \in ServiceId
      /\ call'[r].pc = "loaded" =>
            /\ stage \notin Gated
            /\ call'[r].service \in accepting
            /\ call'[r].chain = listenerService[call'[r].service].chain
            /\ call'[r].chain # NoId
  <2>1. CASE \E s \in bound : AcceptCall(r, s)
    <3>1. PICK s \in bound : AcceptCall(r, s) BY <2>1
    <3>2. s \in Nat /\ s \in ServiceId BY DEF ListenerInv, ListenerTypes, ServiceId
    <3> DEFINE new == [pc |-> "arrived", service |-> s, chain |-> NoId]
    <3>3. new \in CallRecord /\ new.pc = "arrived" /\ new.service = s BY <3>2 DEF CallRecord
    <3>4. call' = [call EXCEPT ![r] = new] /\ call[r].pc = "idle" BY <3>1 DEF AcceptCall
    <3> HIDE DEF new
    <3> QED BY <1>2, <3>2, <3>3, <3>4
  <2>2. CASE WithFilterChain(r)
    <3> DEFINE c == served(r).chain
    <3>1. call[r].pc = "arrived" /\ stage \notin Gated BY <2>2 DEF WithFilterChain
    <3>2. call[r].service \in ServiceId BY <3>1 DEF ListenerInv, CallsOK
    <3>3. c \in Nat \cup {NoId} BY <3>2, ListenerPartTypes DEF served, ServiceRecord
    <3>4. CASE call[r].service \in accepting /\ c # NoId
      <4>1. call' = [call EXCEPT ![r] = [@ EXCEPT !.pc = "loaded", !.chain = c]]
          BY <2>2, <3>4 DEF WithFilterChain
      <4>2. /\ call' \in [Call -> CallRecord] /\ \A q \in Call : q # r => call'[q] = call[q]
            /\ call'[r].pc = "loaded" /\ call'[r].service = call[r].service /\ call'[r].chain = c
          BY <1>2, <3>3, <4>1 DEF CallRecord
      <4> QED BY <3>1, <3>2, <3>4, <4>2 DEF served
    <3>5. CASE ~(call[r].service \in accepting /\ c # NoId)
      <4>1. call' = [call EXCEPT ![r] = [@ EXCEPT !.pc = "idle"]]
          BY <2>2, <3>5 DEF WithFilterChain
      <4>2. /\ call' \in [Call -> CallRecord] /\ \A q \in Call : q # r => call'[q] = call[q]
            /\ call'[r].pc = "idle"
          BY <1>2, <4>1 DEF CallRecord
      <4> QED BY <3>1, <4>2
    <3> QED BY <3>4, <3>5
  <2> QED BY <2>1, <2>2
<1>4. ListenerTypes' BY <1>1, <1>3 DEF ListenerInv, ListenerTypes, ServiceId, ChainId
<1>5. CallsOK'
  <2>1. call'[r].pc = "loaded" => call'[r].chain \in ChainId
      BY <1>3 DEF ListenerInv, ServicesOK
  <2> QED BY <1>1, <1>3, <2>1 DEF ListenerInv, CallsOK, ServiceId, ChainId
<1>6. CountsOK'
  <2>1. \A c : Runs(c)' = Runs(c) BY <1>3 DEF Runs
  <2> QED BY <1>1, <2>1 DEF ListenerInv, CountsOK, ChainId
<1>7. ReachOK' BY <1>1 DEF ListenerInv, ReachOK, Reached, ServiceId, ChainId
<1>8. ServicesOK' BY <1>1 DEF ListenerInv, ServicesOK, ServiceId, ChainId
<1>9. TxnOK' BY <1>1 DEF ListenerInv, TxnOK, ChainId, generation
<1>10. HandoffsOK' BY <1>1 DEF ListenerInv, HandoffsOK, Entries
<1>11. ServingOK' BY <1>1 DEF ListenerInv, ServingOK, Serving, Entries
<1>12. GenerationsOK'
  <2>1. stage' \in Gated => Readers' = {} BY <1>1, <1>3 DEF ListenerInv, GenerationsOK, Readers
  <2>2. ASSUME NEW g \in 0..generation, OneGeneration(g) PROVE OneGeneration(g)'
    <3>1. ASSUME call'[r].pc = "loaded", served(r)'.key \notin Static
          PROVE  chain'[call'[r].chain].gen = g
      <4>1. PICK k \in ListenerKey : k = listenerService[call'[r].service].key
          BY <1>3, <3>1, ListenerPartTypes
      <4>2. active[k] = call'[r].service /\ k \notin Static
          BY <1>1, <1>3, <3>1, <4>1 DEF ListenerInv, ServicesOK, served
      <4>3. active[k] # NoId BY <1>3, <3>1, <4>2, ListenerAssumption DEF ServiceId
      <4> QED BY <1>1, <1>3, <2>2, <3>1, <4>2, <4>3 DEF OneGeneration, Gen
    <3>2. \A q \in Call : q # r => served(q)' = served(q) BY <1>1, <1>3 DEF served
    <3> QED BY <1>1, <1>3, <2>2, <3>1, <3>2 DEF OneGeneration, Gen, generation
  <2>3. stage # "commit" => (\E g \in 0..generation : OneGeneration(g))'
      BY <1>1, <2>2 DEF ListenerInv, GenerationsOK, generation
  <2> QED BY <1>1, <2>1, <2>3 DEF ListenerInv, GenerationsOK, Gen, generation
<1> QED BY <1>4, <1>5, <1>6, <1>7, <1>8, <1>9, <1>10, <1>11, <1>12 DEF ListenerInv

LEMMA RunsFinite == \A c : IsFiniteSet(Runs(c))
<1>1. \A c : Runs(c) \subseteq Call BY DEF Runs
<1> QED BY <1>1, ListenerAssumption, FS_Subset

\* A reference more or less leaves the chains what they are.
LEMMA RefsStep ==
    ASSUME ListenerInv, NEW c \in ChainId, NEW n \in Nat, chain' = [chain EXCEPT ![c].refs = n]
    PROVE  /\ chain' \in Seq(ChainRecord) /\ Len(chain') = Len(chain) /\ ChainId' = ChainId
           /\ chain'[c].refs = n
           /\ \A d \in ChainId : d # c => chain'[d] = chain[d]
           /\ \A d \in ChainId : chain'[d].gen = chain[d].gen
<1>1. chain \in Seq(ChainRecord) BY DEF ListenerInv, ListenerTypes
<1> DEFINE new == [chain[c] EXCEPT !.refs = n]
<1>2. new \in ChainRecord /\ new.refs = n /\ new.gen = chain[c].gen
    BY ListenerPartTypes DEF ChainRecord
<1>3. chain' = [chain EXCEPT ![c] = new] OBVIOUS
<1> HIDE DEF new
<1>4. chain' \in Seq(ChainRecord) /\ Len(chain') = Len(chain) BY <1>1, <1>2, <1>3 DEF ChainId
<1>5. \A d \in ChainId : chain'[d] = IF d = c THEN new ELSE chain[d]
    BY <1>1, <1>3 DEF ChainId
<1> QED BY <1>2, <1>4, <1>5 DEF ChainId

\* A request takes its chain, unless it was retired in between; it has the generation of
\* the listeners, so no later one gets an older chain.
LEMMA acquireStep ==
    ASSUME ListenerInv, NEW r \in Call, acquire(r)
    PROVE  /\ ListenerInv'
           /\ call'[r].pc = "running" /\ served(r).key \notin Static => chain[call[r].chain].gen >= seen
<1> USE DEF services
<1>1. /\ UNCHANGED <<active, xdsManaged, services, retiredChains, closedChains, stage, txn, refresh,
                     unrestored, used>>
      /\ call[r].pc = "loaded"
    BY DEF acquire
<1>2. call \in [Call -> CallRecord] BY DEF ListenerInv, ListenerTypes
<1>3. PICK c \in ChainId : c = call[r].chain BY <1>1 DEF ListenerInv, CallsOK
<1>4. stage \notin Gated /\ stage # "commit"
    BY <1>1 DEF ListenerInv, GenerationsOK, Readers, Gated
<1>5. PICK g \in 0..generation : OneGeneration(g) BY <1>4 DEF ListenerInv, GenerationsOK
<1>6. served(r).key \notin Static => chain[c].gen = g BY <1>1, <1>3, <1>5 DEF OneGeneration
<1>7. chain[c].gen \in Nat /\ seen \in Nat /\ g \in Nat /\ seen <= g
    BY <1>3, <1>5, ListenerPartTypes DEF OneGeneration, ListenerInv, ListenerTypes
<1>8. CASE c \in retiredChains
  <2>1. call' = [call EXCEPT ![r].pc = "idle"] /\ UNCHANGED <<chain, seen>>
      BY <1>3, <1>8 DEF acquire
  <2>2. /\ call' \in [Call -> CallRecord] /\ \A q \in Call : q # r => call'[q] = call[q]
        /\ call'[r].pc = "idle"
      BY <1>2, <2>1 DEF CallRecord
  <2>3. ListenerTypes' BY <1>1, <2>1, <2>2 DEF ListenerInv, ListenerTypes, ServiceId, ChainId
  <2>4. CallsOK' BY <1>1, <2>1, <2>2 DEF ListenerInv, CallsOK, ServiceId, ChainId
  <2>5. CountsOK'
    <3>1. \A d : Runs(d)' = Runs(d) BY <1>1, <2>2 DEF Runs
    <3> QED BY <1>1, <2>1, <3>1 DEF ListenerInv, CountsOK, ChainId
  <2>6. ReachOK' BY <1>1, <2>1 DEF ListenerInv, ReachOK, Reached, ServiceId, ChainId
  <2>7. ServicesOK' BY <1>1, <2>1 DEF ListenerInv, ServicesOK, ServiceId, ChainId
  <2>8. TxnOK' BY <1>1, <2>1 DEF ListenerInv, TxnOK, ChainId, generation
  <2>9. HandoffsOK' BY <1>1 DEF ListenerInv, HandoffsOK, Entries
  <2>10. ServingOK' BY <1>1 DEF ListenerInv, ServingOK, Serving, Entries
  <2>11. GenerationsOK'
    <3>1. \A q \in Call : q # r => served(q)' = served(q) BY <1>1, <2>2 DEF served
    <3>2. OneGeneration(g)' BY <1>1, <1>5, <2>1, <2>2, <3>1 DEF OneGeneration, Gen, generation
    <3> QED BY <1>1, <1>4, <3>2 DEF GenerationsOK, generation
  <2> QED BY <2>2, <2>3, <2>4, <2>5, <2>6, <2>7, <2>8, <2>9, <2>10, <2>11 DEF ListenerInv
<1>9. CASE c \notin retiredChains
  <2>1. /\ call' = [call EXCEPT ![r].pc = "running"]
        /\ chain' = [chain EXCEPT ![c].refs = @ + 1]
        /\ seen' = IF served(r).key \in Static THEN seen ELSE Later(seen, chain[c].gen)
      BY <1>3, <1>9 DEF acquire
  <2>2. /\ call' \in [Call -> CallRecord] /\ \A q \in Call : q # r => call'[q] = call[q]
        /\ call'[r].pc = "running" /\ call'[r].chain = c /\ call'[r].service = call[r].service
      BY <1>2, <1>3, <2>1 DEF CallRecord
  <2>3. /\ chain' \in Seq(ChainRecord) /\ Len(chain') = Len(chain) /\ ChainId' = ChainId
        /\ chain'[c].refs = chain[c].refs + 1
        /\ \A d \in ChainId : d # c => chain'[d] = chain[d]
        /\ \A d \in ChainId : chain'[d].gen = chain[d].gen
    <3>1. chain[c].refs + 1 \in Nat BY ListenerPartTypes
    <3> QED BY <2>1, <3>1, RefsStep
  <2>4. seen' \in Nat /\ seen' <= g BY <1>6, <1>7, <2>1 DEF Later
  <2>5. ListenerTypes' BY <1>1, <2>2, <2>3, <2>4 DEF ListenerInv, ListenerTypes, ServiceId, ChainId
  <2>6. CallsOK' BY <1>1, <1>3, <2>2, <2>3 DEF ListenerInv, CallsOK, ServiceId
  <2>7. CountsOK'
    <3>1. Runs(c)' = Runs(c) \cup {r} /\ r \notin Runs(c) BY <1>1, <2>2 DEF Runs
    <3>2. \A d \in ChainId : d # c => Runs(d)' = Runs(d) BY <1>1, <2>2 DEF Runs
    <3>3. Cardinality(Runs(c)') = Cardinality(Runs(c)) + 1
      <4>1. Cardinality(Runs(c) \cup {r}) = Cardinality(Runs(c)) + 1
          BY <3>1, RunsFinite, FS_AddElement
      <4> QED BY <3>1, <4>1
    <3>4. \A d \in ChainId' : chain'[d].refs = Cardinality(Runs(d)')
        BY <2>3, <3>2, <3>3 DEF ListenerInv, CountsOK
    <3>5. closedChains' = {d \in retiredChains' : chain'[d].refs = 0}
      <4>1. \A d \in retiredChains : chain'[d].refs = chain[d].refs
          BY <1>9, <2>3 DEF ListenerInv, ListenerTypes
      <4> QED BY <1>1, <4>1 DEF ListenerInv, CountsOK
    <3> QED BY <3>4, <3>5 DEF CountsOK
  <2>8. ReachOK' BY <1>1, <2>3 DEF ListenerInv, ReachOK, Reached, ServiceId
  <2>9. ServicesOK' BY <1>1, <2>3 DEF ListenerInv, ServicesOK, ServiceId
  <2>10. TxnOK'
    <3>1. \A k \in ListenerKey : txn.staged[k] # NoId => listenerService[txn.staged[k]].chain \in ChainId
        BY DEF ListenerInv, ServicesOK
    <3> QED BY <1>1, <2>3, <3>1 DEF ListenerInv, TxnOK, generation
  <2>11. HandoffsOK' BY <1>1 DEF ListenerInv, HandoffsOK, Entries
  <2>12. ServingOK' BY <1>1 DEF ListenerInv, ServingOK, Serving, Entries
  <2>13. GenerationsOK'
    <3>1. \A q \in Call : served(q)' = served(q) BY <1>1, <2>2 DEF served
    <3>2. \A k \in ListenerKey : active[k] # NoId => Gen(k)' = Gen(k)
        BY <1>1, <2>3 DEF ListenerInv, ServicesOK, Gen
    <3>3. \A q \in Call : call'[q].pc = "loaded" =>
             call[q].pc = "loaded" /\ call'[q].chain = call[q].chain
             /\ chain'[call[q].chain].gen = chain[call[q].chain].gen
        BY <2>2, <2>3 DEF ListenerInv, CallsOK
    <3>4. OneGeneration(g)' BY <1>1, <1>5, <2>4, <3>1, <3>2, <3>3 DEF OneGeneration, generation
    <3> QED BY <1>1, <1>4, <3>4 DEF GenerationsOK, generation
  <2> QED BY <1>3, <1>6, <1>7, <2>5, <2>6, <2>7, <2>8, <2>9, <2>10, <2>11, <2>12, <2>13 DEF ListenerInv
<1> QED BY <1>8, <1>9

\* The last request on a retired chain closes it.
LEMMA releaseStep ==
    ASSUME ListenerInv, NEW r \in Call, release(r)
    PROVE  ListenerInv'
<1> USE DEF services
<1>0. PICK c \in ChainId : c = call[r].chain BY DEF release, ListenerInv, CallsOK
<1>1. /\ UNCHANGED <<active, xdsManaged, services, retiredChains, stage, txn, refresh, seen,
                     unrestored, used>>
      /\ call[r].pc = "running" /\ call' = [call EXCEPT ![r].pc = "idle"]
      /\ chain' = [chain EXCEPT ![c].refs = @ - 1]
      /\ closedChains' = IF c \in retiredChains /\ chain[c].refs = 1
                         THEN closedChains \cup {c} ELSE closedChains
    BY <1>0 DEF release
<1>2. call \in [Call -> CallRecord] BY DEF ListenerInv, ListenerTypes
<1>3. /\ call' \in [Call -> CallRecord] /\ \A q \in Call : q # r => call'[q] = call[q]
      /\ call'[r].pc = "idle" /\ call'[r].chain = c /\ call'[r].service = call[r].service
    BY <1>0, <1>1, <1>2 DEF CallRecord
<1>4. /\ Runs(c)' = Runs(c) \ {r} /\ r \in Runs(c)
      /\ \A d \in ChainId : d # c => Runs(d)' = Runs(d)
    BY <1>0, <1>1, <1>3 DEF Runs
<1>5. /\ Cardinality(Runs(c)') = Cardinality(Runs(c)) - 1 /\ Cardinality(Runs(c)) \in Nat
      /\ Cardinality(Runs(c)) # 0
  <2>1. Cardinality(Runs(c) \ {r}) = Cardinality(Runs(c)) - 1 /\ IsFiniteSet(Runs(c) \ {r})
      BY <1>4, RunsFinite, FS_RemoveElement
  <2>2. Cardinality(Runs(c)) \in Nat /\ Cardinality(Runs(c) \ {r}) \in Nat
      BY <2>1, RunsFinite, FS_CardinalityType
  <2> QED BY <1>4, <2>1, <2>2
<1>6. chain[c].refs = Cardinality(Runs(c)) BY DEF ListenerInv, CountsOK
<1>7. /\ chain' \in Seq(ChainRecord) /\ Len(chain') = Len(chain) /\ ChainId' = ChainId
      /\ chain'[c].refs = chain[c].refs - 1
      /\ \A d \in ChainId : d # c => chain'[d] = chain[d]
      /\ \A d \in ChainId : chain'[d].gen = chain[d].gen
  <2>1. chain[c].refs - 1 \in Nat BY <1>5, <1>6
  <2> QED BY <1>1, <2>1, RefsStep
<1>8. ListenerTypes' BY <1>1, <1>3, <1>7 DEF ListenerInv, ListenerTypes, ServiceId, ChainId
<1>9. CallsOK' BY <1>1, <1>2, <1>3, <1>7 DEF ListenerInv, CallsOK, ServiceId
<1>10. CountsOK'
  <2>1. \A d \in ChainId' : chain'[d].refs = Cardinality(Runs(d)')
      BY <1>4, <1>5, <1>6, <1>7 DEF ListenerInv, CountsOK
  <2>2. closedChains' = {d \in retiredChains' : chain'[d].refs = 0}
    <3>1. closedChains = {d \in retiredChains : chain[d].refs = 0} /\ retiredChains \subseteq ChainId
        BY DEF ListenerInv, CountsOK, ListenerTypes
    <3>2. chain[c].refs = 1 <=> chain'[c].refs = 0 BY <1>5, <1>6, <1>7
    <3>3. c \notin closedChains BY <1>5, <1>6, <3>1
    <3>4. CASE c \in retiredChains /\ chain[c].refs = 1 BY <1>1, <1>7, <3>1, <3>2, <3>4
    <3>5. CASE ~(c \in retiredChains /\ chain[c].refs = 1) BY <1>1, <1>7, <3>1, <3>2, <3>3, <3>5
    <3> QED BY <3>4, <3>5
  <2> QED BY <2>1, <2>2 DEF CountsOK
<1>11. ReachOK' BY <1>1, <1>7 DEF ListenerInv, ReachOK, Reached, ServiceId
<1>12. ServicesOK' BY <1>1, <1>7 DEF ListenerInv, ServicesOK, ServiceId
<1>13. TxnOK'
  <2>1. \A k \in ListenerKey : txn.staged[k] # NoId => listenerService[txn.staged[k]].chain \in ChainId
      BY DEF ListenerInv, ServicesOK
  <2> QED BY <1>1, <1>7, <2>1 DEF ListenerInv, TxnOK, generation
<1>14. HandoffsOK' BY <1>1 DEF ListenerInv, HandoffsOK, Entries
<1>15. ServingOK' BY <1>1 DEF ListenerInv, ServingOK, Serving, Entries
<1>16. GenerationsOK'
  <2>1. \A q \in Call : served(q)' = served(q) BY <1>1, <1>3 DEF served
  <2>2. \A k \in ListenerKey : active[k] # NoId => Gen(k)' = Gen(k)
      BY <1>1, <1>7 DEF ListenerInv, ServicesOK, Gen
  <2>3. \A q \in Call : call'[q].pc = "loaded" =>
           call[q].pc = "loaded" /\ call'[q].chain = call[q].chain
           /\ chain'[call[q].chain].gen = chain[call[q].chain].gen
      BY <1>3, <1>7 DEF ListenerInv, CallsOK
  <2>4. \A g \in 0..generation : OneGeneration(g) => OneGeneration(g)'
      BY <1>1, <2>1, <2>2, <2>3 DEF OneGeneration, generation
  <2>5. Readers' \subseteq Readers BY <2>3 DEF Readers
  <2> QED BY <1>1, <2>2, <2>4, <2>5 DEF ListenerInv, GenerationsOK, generation
<1> QED BY <1>8, <1>9, <1>10, <1>11, <1>12, <1>13, <1>14, <1>15, <1>16 DEF ListenerInv
\* Where nothing but the stage, the transaction and the sockets changes, requests and chains
\* stay what they are.
LEMMA QuietStep ==
    ASSUME ListenerInv,
           UNCHANGED <<active, xdsManaged, listenerService, chain, retiredChains, closedChains, refresh,
                       call, seen>>,
           generation' \in Nat, generation <= generation',
           stage # "commit", stage' # "commit", stage' \in Gated => Readers = {}
    PROVE  CallsOK' /\ CountsOK' /\ GenerationsOK'
<1>1. CallsOK' BY DEF ListenerInv, CallsOK, ServiceId, ChainId
<1>2. CountsOK' BY DEF ListenerInv, CountsOK, Runs, ChainId
<1>3. PICK g \in 0..generation : OneGeneration(g) BY DEF ListenerInv, GenerationsOK
<1>4. g \in 0..generation' BY <1>3, ListenerPartTypes
<1>5. OneGeneration(g)'
    BY <1>3, <1>4, ListenerPartTypes DEF OneGeneration, Gen, served
<1>6. Readers' = Readers BY DEF Readers
<1> QED BY <1>1, <1>2, <1>4, <1>5, <1>6 DEF GenerationsOK

\* What a failure counts is not a transaction.
LEMMA failedIsQuiet ==
    ASSUME ListenerInv, used' = used \/ used' = failed
    PROVE  /\ generation' = generation /\ generation \in Nat
           /\ used' \in [replacements : Nat, refreshes : Nat, failures : Nat]
BY DEF ListenerInv, ListenerTypes, generation, failed

\* A listener of the file gets its socket.
LEMMA StartListenStep ==
    ASSUME ListenerInv, NEW k \in ListenerKey, StartListen(k)
    PROVE  ListenerInv'
<1> USE DEF chains
<1>1. /\ UNCHANGED <<active, xdsManaged, listenerService, accepting, chains, stage, txn, refresh, call,
                     seen, unrestored, used>>
      /\ active[k] # NoId /\ bound' = bound \cup {active[k]}
    BY DEF StartListen
<1>2. active[k] \in ServiceId BY <1>1 DEF ListenerInv, ServicesOK
<1>3. ListenerTypes' BY <1>1, <1>2 DEF ListenerInv, ListenerTypes, ServiceId, ChainId
<1>4. CallsOK' /\ CountsOK' BY <1>1 DEF ListenerInv, CallsOK, CountsOK, Runs, ServiceId, ChainId
<1>5. ReachOK' BY <1>1 DEF ListenerInv, ReachOK, Reached, ServiceId, ChainId
<1>6. ServicesOK' BY <1>1 DEF ListenerInv, ServicesOK, ServiceId, ChainId
<1>7. TxnOK' BY <1>1 DEF ListenerInv, TxnOK, ChainId, generation
<1>8. HandoffsOK' BY <1>1 DEF ListenerInv, HandoffsOK, Entries
<1>9. ServingOK' BY <1>1 DEF ListenerInv, ServingOK, Serving, Entries
<1>10. GenerationsOK'
    BY <1>1 DEF ListenerInv, GenerationsOK, OneGeneration, Gen, served, Readers, generation
<1> QED BY <1>3, <1>4, <1>5, <1>6, <1>7, <1>8, <1>9, <1>10 DEF ListenerInv

\* A transaction begins with nothing but what is left to do.
LEMMA ReplaceStep ==
    ASSUME ListenerInv, NEW next \in Resources, ReplaceXDSListeners(next)
    PROVE  ListenerInv'
<1> USE DEF services, chains
<1>1. /\ UNCHANGED <<active, xdsManaged, services, chains, refresh, call, seen, unrestored>>
      /\ stage = "idle" /\ stage' = "prepare" /\ txn' = [noTxn EXCEPT !.next = next, !.todo = next]
      /\ used' = [used EXCEPT !.replacements = @ + 1]
    BY DEF ReplaceXDSListeners
<1>2. next \subseteq ListenerKey BY ListenerAssumption
<1>3. /\ txn'.next = next /\ txn'.todo = next /\ txn'.prepared = NoEntries /\ txn'.staged = NoEntries
      /\ txn'.handoffs = NoEntries /\ txn'.closed = {} /\ txn'.retired = {} /\ txn'.removed = {}
      /\ txn' \in Transaction
  <2>1. noTxn \in [next : {{}}, todo : {{}}, prepared : {NoEntries}, staged : {NoEntries},
                   handoffs : {NoEntries}, closed : {{}}, retired : {{}}, removed : {{}}]
      BY DEF noTxn
  <2>2. txn' \in [next : {next}, todo : {next}, prepared : {NoEntries}, staged : {NoEntries},
                  handoffs : {NoEntries}, closed : {{}}, retired : {{}}, removed : {{}}]
      BY <1>1, <2>1
  <2>3. /\ NoEntries \in [ListenerKey -> Nat \cup {NoId}]
        /\ NoEntries \in [ListenerKey -> ListenerKey \cup {NoId}]
      BY DEF NoEntries
  <2> QED BY <1>2, <2>2, <2>3 DEF Transaction
<1>4. /\ generation' = generation + 1 /\ generation \in Nat
      /\ used' \in [replacements : Nat, refreshes : Nat, failures : Nat]
  <2>1. used \in [replacements : Nat, refreshes : Nat, failures : Nat]
      BY DEF ListenerInv, ListenerTypes
  <2> QED BY <1>1, <2>1 DEF generation
<1>5. \A k \in ListenerKey : NoEntries[k] = NoId BY DEF NoEntries
<1>6. txn.prepared = NoEntries /\ txn.retired = {}
    BY <1>1 DEF ListenerInv, TxnOK, noTxn
<1>7. ListenerTypes' BY <1>1, <1>3, <1>4 DEF ListenerInv, ListenerTypes, ServiceId, ChainId
<1>8. CallsOK' /\ CountsOK' /\ GenerationsOK' BY <1>1, <1>4, QuietStep DEF Gated
<1>9. ReachOK' BY <1>1, <1>3, <1>6 DEF ListenerInv, ReachOK, Reached, ServiceId, ChainId
<1>10. ServicesOK' BY <1>1, <1>3, <1>5 DEF ListenerInv, ServicesOK, ServiceId, ChainId
<1>11. TxnOK' BY <1>1, <1>2, <1>3, <1>5 DEF TxnOK, Gated
<1>12. HandoffsOK' BY <1>1, <1>3 DEF HandoffsOK
<1>13. ServingOK' BY <1>1, <1>3 DEF ListenerInv, ServingOK, Serving
<1> QED BY <1>7, <1>8, <1>9, <1>10, <1>11, <1>12, <1>13 DEF ListenerInv

\* A new chain is nobody's yet, and leaves the others what they are.
LEMMA GrowStep ==
    ASSUME ListenerInv, NEW g \in Nat, chain' = Append(chain, newChain(g)),
           UNCHANGED <<call, retiredChains, closedChains>>
    PROVE  /\ chain' \in Seq(ChainRecord) /\ Len(chain') = Len(chain) + 1 /\ Len(chain') \in Nat
           /\ ChainId' = ChainId \cup {Len(chain')} /\ Len(chain') \notin ChainId
           /\ \A c \in ChainId : chain'[c] = chain[c]
           /\ chain'[Len(chain')].gen = g
           /\ CountsOK'
<1>1. chain \in Seq(ChainRecord) /\ newChain(g) \in ChainRecord
      /\ newChain(g).gen = g /\ newChain(g).refs = 0
    BY DEF ListenerInv, ListenerTypes, newChain, ChainRecord
<1>2. /\ chain' \in Seq(ChainRecord) /\ Len(chain') = Len(chain) + 1 /\ Len(chain') \in Nat
      /\ ChainId' = ChainId \cup {Len(chain')} /\ Len(chain') \notin ChainId
      /\ \A c \in ChainId : chain'[c] = chain[c]
      /\ chain'[Len(chain')] = newChain(g)
    BY <1>1 DEF ChainId
<1>3. CountsOK'
  <2>1. \A c : Runs(c)' = Runs(c) BY DEF Runs
  <2>2. Runs(Len(chain') ) = {} BY <1>2 DEF ListenerInv, CallsOK, Runs
  <2>3. Cardinality({}) = 0 BY FS_EmptySet
  <2>4. \A c \in ChainId' : chain'[c].refs = Cardinality(Runs(c)')
      BY <1>1, <1>2, <2>1, <2>2, <2>3 DEF ListenerInv, CountsOK
  <2>5. closedChains' = {c \in retiredChains' : chain'[c].refs = 0}
      BY <1>2 DEF ListenerInv, CountsOK, ListenerTypes
  <2> QED BY <2>4, <2>5 DEF CountsOK
<1> QED BY <1>1, <1>2, <1>3

\* A refresh is prepared for a listener that stays.
LEMMA prepareStep ==
    ASSUME ListenerInv, NEW k \in ListenerKey, prepareListenerRefreshSafely(k)
    PROVE  ListenerInv'
<1> USE DEF services
<1>1. /\ UNCHANGED <<active, xdsManaged, services, retiredChains, closedChains, stage, refresh, call,
                     seen, unrestored, used>>
      /\ stage = "prepare" /\ k \in txn.todo /\ active[k] # NoId /\ k \in xdsManaged
      /\ chain' = Append(chain, newChain(generation))
      /\ txn' = [txn EXCEPT !.todo = @ \ {k}, !.prepared[k] = Len(chain')]
    BY DEF prepareListenerRefreshSafely
<1>2. generation \in Nat /\ generation' = generation BY <1>1, ListenerPartTypes DEF generation
<1>3. /\ chain' \in Seq(ChainRecord) /\ Len(chain') = Len(chain) + 1 /\ Len(chain') \in Nat
      /\ ChainId' = ChainId \cup {Len(chain')} /\ Len(chain') \notin ChainId
      /\ \A c \in ChainId : chain'[c] = chain[c]
      /\ chain'[Len(chain')].gen = generation
      /\ CountsOK'
    BY <1>1, <1>2, GrowStep
<1>4. /\ txn'.next = txn.next /\ txn'.todo = txn.todo \ {k} /\ txn'.staged = txn.staged
      /\ txn'.prepared = [txn.prepared EXCEPT ![k] = Len(chain')]
      /\ txn'.handoffs = txn.handoffs /\ txn'.closed = txn.closed /\ txn'.retired = txn.retired
      /\ txn'.removed = txn.removed /\ txn' \in Transaction
    BY <1>1, <1>3 DEF ListenerInv, ListenerTypes, Transaction
<1>5. /\ txn'.prepared[k] = Len(chain') /\ \A n \in ListenerKey : n # k => txn'.prepared[n] = txn.prepared[n]
      /\ txn.prepared[k] = NoId
    BY <1>1, <1>4, ListenerPartTypes DEF ListenerInv, TxnOK
<1>6. Len(chain') # NoId /\ NoId \notin ChainId BY <1>3, ListenerAssumption DEF ChainId
<1>7. ListenerTypes' BY <1>1, <1>3, <1>4 DEF ListenerInv, ListenerTypes, ServiceId
<1>8. CallsOK' BY <1>1, <1>3 DEF ListenerInv, CallsOK, ServiceId
<1>9. ReachOK'
  <2>1. ASSUME NEW c \in ChainId, Reached(c) PROVE Reached(c)'
      BY <1>1, <1>4, <1>5, <1>6, <2>1 DEF Reached, ServiceId
  <2>2. PICK new \in ChainId' : new = Len(chain') BY <1>3
  <2>3. Reached(new)' BY <1>5, <2>2 DEF Reached
  <2> QED BY <1>1, <1>3, <2>1, <2>2, <2>3 DEF ListenerInv, ReachOK
<1>10. ServicesOK' BY <1>1, <1>3, <1>4 DEF ListenerInv, ServicesOK, ServiceId
<1>11. TxnOK'
  <2>1. \A n \in ListenerKey : txn'.prepared[n] # NoId =>
          /\ txn'.prepared[n] \in ChainId' /\ chain'[txn'.prepared[n]].gen = generation
          /\ n \in xdsManaged /\ n \in txn.next /\ active[n] # NoId
    <3>1. k \in txn.next BY <1>1, ListenerPartTypes DEF ListenerInv, TxnOK
    <3> TAKE n \in ListenerKey
    <3>2. CASE n = k BY <1>1, <1>3, <1>5, <3>1, <3>2
    <3>3. CASE n # k BY <1>3, <1>5, <3>3, PreparedFacts
    <3> QED BY <3>2, <3>3
  <2>2. \A n \in ListenerKey : txn'.staged[n] # NoId =>
          n \in txn.next /\ chain'[listenerService[txn.staged[n]].chain].gen = generation
    <3>1. \A n \in ListenerKey : txn.staged[n] # NoId => listenerService[txn.staged[n]].chain \in ChainId
        BY DEF ListenerInv, ServicesOK
    <3> QED BY <1>3, <1>4, <3>1 DEF ListenerInv, TxnOK
  <2>3. \A n \in txn'.next : n \in txn'.todo \/ txn'.prepared[n] # NoId \/ txn'.staged[n] # NoId
      BY <1>1, <1>4, <1>5, <1>6, ListenerPartTypes DEF ListenerInv, TxnOK
  <2>4. txn'.todo \subseteq txn'.next /\ \A n \in txn'.todo : txn'.prepared[n] = NoId /\ txn'.staged[n] = NoId
      BY <1>4, <1>5, ListenerPartTypes DEF ListenerInv, TxnOK
  <2>5. txn'.retired \subseteq ChainId' /\ txn'.retired = {} /\ txn'.removed = {}
      BY <1>1, <1>3, <1>4 DEF ListenerInv, TxnOK
  <2> QED BY <1>1, <1>2, <1>4, <2>1, <2>2, <2>3, <2>4, <2>5 DEF TxnOK, Gated
<1>12. HandoffsOK' BY <1>1, <1>4 DEF ListenerInv, HandoffsOK, Entries
<1>13. ServingOK' BY <1>1, <1>4 DEF ListenerInv, ServingOK, Serving, Entries
<1>14. GenerationsOK'
  <2>1. PICK g \in 0..generation : OneGeneration(g) BY <1>1 DEF ListenerInv, GenerationsOK
  <2>2. \A n \in ListenerKey : active[n] # NoId => Gen(n)' = Gen(n)
      BY <1>1, <1>3, ActiveFacts DEF Gen
  <2>3. \A r \in Call : call[r].pc = "loaded" => chain'[call[r].chain] = chain[call[r].chain]
      BY <1>3 DEF ListenerInv, CallsOK
  <2>4. OneGeneration(g)' BY <1>1, <1>2, <2>1, <2>2, <2>3 DEF OneGeneration, served
  <2> QED BY <1>1, <1>2, <2>4 DEF GenerationsOK, Gated
<1> QED BY <1>3, <1>7, <1>8, <1>9, <1>10, <1>11, <1>12, <1>13, <1>14 DEF ListenerInv

\* A new service is staged for a key that has none.
LEMMA createStep ==
    ASSUME ListenerInv, NEW k \in ListenerKey, createListenerServiceSafely(k)
    PROVE  ListenerInv'
<1>1. /\ UNCHANGED <<active, xdsManaged, bound, accepting, retiredChains, closedChains, stage, refresh,
                     call, seen, unrestored, used>>
      /\ stage = "prepare" /\ k \in txn.todo /\ active[k] = NoId
      /\ chain' = Append(chain, newChain(generation))
      /\ listenerService' = Append(listenerService, [key |-> k, chain |-> Len(chain')])
      /\ txn' = [txn EXCEPT !.todo = @ \ {k}, !.staged[k] = Len(listenerService')]
    BY DEF createListenerServiceSafely
<1>2. generation \in Nat /\ generation' = generation BY <1>1, ListenerPartTypes DEF generation
<1>3. /\ chain' \in Seq(ChainRecord) /\ Len(chain') = Len(chain) + 1 /\ Len(chain') \in Nat
      /\ ChainId' = ChainId \cup {Len(chain')} /\ Len(chain') \notin ChainId
      /\ \A c \in ChainId : chain'[c] = chain[c]
      /\ chain'[Len(chain')].gen = generation
      /\ CountsOK'
    BY <1>1, <1>2, GrowStep
<1>4. /\ listenerService' \in Seq(ServiceRecord) /\ Len(listenerService') \in Nat
      /\ ServiceId' = ServiceId \cup {Len(listenerService')} /\ Len(listenerService') \notin ServiceId
      /\ \A s \in ServiceId : listenerService'[s] = listenerService[s]
      /\ listenerService'[Len(listenerService')].key = k
      /\ listenerService'[Len(listenerService')].chain = Len(chain')
  <2> DEFINE new == [key |-> k, chain |-> Len(chain')]
  <2>1. new \in ServiceRecord /\ new.key = k /\ new.chain = Len(chain') BY <1>3 DEF ServiceRecord
  <2>2. listenerService \in Seq(ServiceRecord) BY DEF ListenerInv, ListenerTypes
  <2>3. listenerService' = Append(listenerService, new) BY <1>1
  <2> HIDE DEF new
  <2> QED BY <2>1, <2>2, <2>3 DEF ServiceId
<1>5. /\ txn'.next = txn.next /\ txn'.todo = txn.todo \ {k} /\ txn'.prepared = txn.prepared
      /\ txn'.staged = [txn.staged EXCEPT ![k] = Len(listenerService')]
      /\ txn'.handoffs = txn.handoffs /\ txn'.closed = txn.closed /\ txn'.retired = txn.retired
      /\ txn'.removed = txn.removed /\ txn' \in Transaction
    BY <1>1, <1>4 DEF ListenerInv, ListenerTypes, Transaction
<1>6. /\ txn'.staged[k] = Len(listenerService')
      /\ \A n \in ListenerKey : n # k => txn'.staged[n] = txn.staged[n]
      /\ txn.staged[k] = NoId /\ txn.retired = {} /\ txn.removed = {}
    BY <1>1, <1>5, ListenerPartTypes DEF ListenerInv, TxnOK
<1>7. Len(chain') # NoId /\ NoId \notin ChainId /\ Len(listenerService') # NoId
    BY <1>3, <1>4, ListenerAssumption DEF ChainId
<1>8. ListenerTypes' BY <1>1, <1>3, <1>4, <1>5 DEF ListenerInv, ListenerTypes
<1>9. CallsOK' BY <1>1, <1>3, <1>4 DEF ListenerInv, CallsOK
<1>10. ReachOK'
  <2>1. ASSUME NEW c \in ChainId, Reached(c) PROVE Reached(c)'
      BY <1>1, <1>4, <1>5, <2>1 DEF Reached
  <2>2. PICK new \in ChainId' : new = Len(chain') BY <1>3
  <2>3. Reached(new)' BY <1>4, <2>2 DEF Reached
  <2> QED BY <1>1, <1>3, <2>1, <2>2, <2>3 DEF ListenerInv, ReachOK
<1>11. ServicesOK'
  <2>1. \A s \in ServiceId' : listenerService'[s].chain \in ChainId' \cup {NoId}
      BY <1>3, <1>4 DEF ListenerInv, ServicesOK
  <2>2. \A n \in ListenerKey : active'[n] # NoId =>
          /\ active'[n] \in ServiceId' /\ listenerService'[active'[n]].key = n
          /\ listenerService'[active'[n]].chain # NoId
      BY <1>1, <1>4, ActiveFacts
  <2>3. \A s \in accepting' : active'[listenerService'[s].key] = s
      BY <1>1, <1>4 DEF ListenerInv, ServicesOK, ListenerTypes
  <2>4. \A n \in ListenerKey : txn'.staged[n] # NoId =>
          /\ txn'.staged[n] \in ServiceId' /\ listenerService'[txn'.staged[n]].key = n
          /\ listenerService'[txn'.staged[n]].chain # NoId /\ active'[n] = NoId
    <3> TAKE n \in ListenerKey
    <3>1. CASE n = k
      <4>1. txn'.staged[n] = Len(listenerService') /\ Len(listenerService') \in ServiceId'
          BY <1>4, <1>6, <3>1
      <4> QED BY <1>1, <1>4, <1>7, <3>1, <4>1
    <3>2. CASE n # k /\ txn'.staged[n] # NoId
      <4>1. /\ txn'.staged[n] = txn.staged[n] /\ txn.staged[n] \in ServiceId
            /\ listenerService[txn.staged[n]].key = n /\ active[n] = NoId
            /\ listenerService[txn.staged[n]].chain # NoId
          BY <1>6, <3>2, StagedFacts
      <4>2. listenerService'[txn.staged[n]] = listenerService[txn.staged[n]] BY <1>4, <4>1
      <4>3. ServiceId \subseteq ServiceId' /\ active'[n] = active[n] BY <1>1, <1>4
      <4> QED BY <4>1, <4>2, <4>3
    <3> QED BY <3>1, <3>2
  <2> QED BY <1>5, <1>6, <2>1, <2>2, <2>3, <2>4 DEF ServicesOK
<1>12. TxnOK'
  <2>0. k \in txn.next BY <1>1, ListenerPartTypes DEF ListenerInv, TxnOK
  <2>1. \A n \in ListenerKey : txn'.prepared[n] # NoId =>
          /\ txn'.prepared[n] \in ChainId' /\ chain'[txn'.prepared[n]].gen = generation
          /\ n \in xdsManaged /\ n \in txn.next /\ active[n] # NoId
      BY <1>3, <1>5, PreparedFacts
  <2>2. \A n \in ListenerKey : txn'.staged[n] # NoId =>
          n \in txn.next /\ chain'[listenerService'[txn'.staged[n]].chain].gen = generation
    <3>1. \A n \in ListenerKey : txn.staged[n] # NoId =>
             txn.staged[n] \in ServiceId /\ listenerService[txn.staged[n]].chain \in ChainId
        BY DEF ListenerInv, ServicesOK
    <3>2. \A n \in ListenerKey : n # k /\ txn.staged[n] # NoId =>
             n \in txn.next /\ chain'[listenerService'[txn.staged[n]].chain].gen = generation
        BY <1>3, <1>4, <3>1 DEF ListenerInv, TxnOK
    <3> QED BY <1>3, <1>4, <1>6, <2>0, <3>2
  <2>3. \A n \in txn'.next : n \in txn'.todo \/ txn'.prepared[n] # NoId \/ txn'.staged[n] # NoId
      BY <1>1, <1>5, <1>6, <1>7, ListenerPartTypes DEF ListenerInv, TxnOK
  <2>4. txn'.todo \subseteq txn'.next /\ \A n \in txn'.todo : txn'.prepared[n] = NoId /\ txn'.staged[n] = NoId
      BY <1>5, <1>6, ListenerPartTypes DEF ListenerInv, TxnOK
  <2>5. txn'.retired \subseteq ChainId' /\ txn'.retired = {} /\ txn'.removed = {} BY <1>5, <1>6
  <2> QED BY <1>1, <1>2, <1>5, <2>1, <2>2, <2>3, <2>4, <2>5 DEF TxnOK, Gated
<1>13. HandoffsOK' BY <1>1, <1>5 DEF ListenerInv, HandoffsOK, Entries
<1>14. ServingOK' BY <1>1, <1>5 DEF ListenerInv, ServingOK, Serving, Entries
<1>15. GenerationsOK'
  <2>1. PICK g \in 0..generation : OneGeneration(g) BY <1>1 DEF ListenerInv, GenerationsOK
  <2>2. \A n \in ListenerKey : active[n] # NoId => Gen(n)' = Gen(n)
    <3> TAKE n \in ListenerKey
    <3> HAVE active[n] # NoId
    <3>1. /\ active[n] \in ServiceId /\ listenerService[active[n]].chain \in ChainId
          /\ listenerService'[active[n]] = listenerService[active[n]]
        BY <1>4, ActiveFacts
    <3> QED BY <1>1, <1>3, <3>1 DEF Gen
  <2>3. \A r \in Call : call[r].pc = "loaded" =>
           chain'[call[r].chain] = chain[call[r].chain] /\ served(r)' = served(r)
      BY <1>1, <1>3, <1>4 DEF ListenerInv, CallsOK, served
  <2>4. OneGeneration(g)' BY <1>1, <1>2, <2>1, <2>2, <2>3 DEF OneGeneration
  <2> QED BY <1>1, <1>2, <2>4 DEF GenerationsOK, Gated
<1> QED BY <1>3, <1>8, <1>9, <1>10, <1>11, <1>12, <1>13, <1>14, <1>15 DEF ListenerInv

\* A transaction is refused before it touched a listener that serves.
LEMMA RefusalStep ==
    ASSUME ListenerInv, stage \in {"prepare", "start"}, stage' = "reject", used' = used \/ used' = failed,
           UNCHANGED <<active, xdsManaged, services, chains, txn, refresh, call, seen, unrestored>>
    PROVE  ListenerInv'
<1> USE DEF services, chains
<1>1. /\ generation' = generation /\ generation \in Nat
      /\ used' \in [replacements : Nat, refreshes : Nat, failures : Nat]
    BY failedIsQuiet
<1>2. ListenerTypes' BY <1>1 DEF ListenerInv, ListenerTypes, ServiceId, ChainId
<1>3. CallsOK' /\ CountsOK' /\ GenerationsOK' BY <1>1, QuietStep DEF Gated
<1>4. ReachOK' BY DEF ListenerInv, ReachOK, Reached, ServiceId, ChainId
<1>5. ServicesOK' BY DEF ListenerInv, ServicesOK, ServiceId, ChainId
<1>6. TxnOK' BY <1>1 DEF ListenerInv, TxnOK, ChainId, Gated
<1>7. HandoffsOK' BY DEF ListenerInv, HandoffsOK, Entries
<1>8. ServingOK' BY DEF ListenerInv, ServingOK, Serving, Entries
<1> QED BY <1>2, <1>3, <1>4, <1>5, <1>6, <1>7, <1>8 DEF ListenerInv

\* The hand-overs are found, with the gate shut.
LEMMA FindHandoffsStep ==
    ASSUME ListenerInv, FindHandoffs
    PROVE  ListenerInv'
<1> USE DEF services, chains
<1> DEFINE found == [k \in ListenerKey |-> IF Heirs(k) = {} THEN NoId ELSE CHOOSE n \in Heirs(k) : TRUE]
<1>1. /\ UNCHANGED <<active, xdsManaged, services, chains, refresh, call, seen, unrestored, used>>
      /\ stage = "prepare" /\ txn.todo = {} /\ Readers = {} /\ stage' = "start"
      /\ txn' = [txn EXCEPT !.handoffs = found]
    BY DEF FindHandoffs
<1>2. \A k \in ListenerKey : found[k] # NoId => found[k] \in Heirs(k) OBVIOUS
<1>3. \A k \in ListenerKey : found[k] # NoId =>
          /\ k \in xdsManaged /\ k \notin txn.next /\ active[k] # NoId
          /\ found[k] \in ListenerKey /\ txn.staged[found[k]] # NoId
    BY <1>2 DEF Heirs, Entries
<1>4. found \in [ListenerKey -> ListenerKey \cup {NoId}] BY <1>3
<1> HIDE DEF found
<1>5. /\ txn'.next = txn.next /\ txn'.todo = txn.todo /\ txn'.prepared = txn.prepared
      /\ txn'.staged = txn.staged /\ txn'.handoffs = found /\ txn'.closed = txn.closed
      /\ txn'.retired = txn.retired /\ txn'.removed = txn.removed /\ txn' \in Transaction
    BY <1>1, <1>4 DEF ListenerInv, ListenerTypes, Transaction
<1>6. generation' = generation /\ generation \in Nat BY <1>1, ListenerPartTypes DEF generation
<1>7. ListenerTypes' BY <1>1, <1>5 DEF ListenerInv, ListenerTypes, ServiceId, ChainId
<1>8. CallsOK' /\ CountsOK' /\ GenerationsOK' BY <1>1, <1>6, QuietStep
<1>9. ReachOK' BY <1>1, <1>5 DEF ListenerInv, ReachOK, Reached, ServiceId, ChainId
<1>10. ServicesOK' BY <1>1, <1>5 DEF ListenerInv, ServicesOK, ServiceId, ChainId
<1>11. TxnOK' BY <1>1, <1>5, <1>6 DEF ListenerInv, TxnOK, ChainId
<1>12. HandoffsOK' BY <1>1, <1>3, <1>5 DEF ListenerInv, HandoffsOK
<1>13. ServingOK' BY <1>1, <1>5 DEF ListenerInv, ServingOK, Serving
<1> QED BY <1>7, <1>8, <1>9, <1>10, <1>11, <1>12, <1>13 DEF ListenerInv

\* A staged service gets its socket, or the transaction is refused.
LEMMA startStep ==
    ASSUME ListenerInv, NEW k \in ListenerKey, startListenerServiceSafely(k)
    PROVE  ListenerInv'
<1> USE DEF chains
<1>1. /\ UNCHANGED <<active, xdsManaged, listenerService, accepting, chains, txn, refresh, call, seen,
                     unrestored>>
      /\ stage = "start" /\ txn.staged[k] # NoId
    BY DEF startListenerServiceSafely, Waiting, Entries
<1>2. CASE bound' = bound \cup {txn.staged[k]} /\ UNCHANGED <<stage, used>>
  <2>1. txn.staged[k] \in ServiceId BY <1>1, StagedFacts
  <2>2. generation' = generation /\ generation \in Nat BY <1>2, ListenerPartTypes DEF generation
  <2>3. Readers = {} BY <1>1 DEF ListenerInv, GenerationsOK, Gated
  <2>4. ListenerTypes' BY <1>1, <1>2, <2>1 DEF ListenerInv, ListenerTypes, ServiceId, ChainId
  <2>5. CallsOK' /\ CountsOK' /\ GenerationsOK' BY <1>1, <1>2, <2>2, <2>3, QuietStep
  <2>6. ReachOK' BY <1>1 DEF ListenerInv, ReachOK, Reached, ServiceId, ChainId
  <2>7. ServicesOK' BY <1>1 DEF ListenerInv, ServicesOK, ServiceId, ChainId
  <2>8. TxnOK' BY <1>1, <1>2, <2>2 DEF ListenerInv, TxnOK, ChainId
  <2>9. HandoffsOK' BY <1>1, <1>2 DEF ListenerInv, HandoffsOK, Entries
  <2>10. ServingOK' BY <1>1, <1>2 DEF ListenerInv, ServingOK, Serving, Entries
  <2> QED BY <2>4, <2>5, <2>6, <2>7, <2>8, <2>9, <2>10 DEF ListenerInv
<1>3. CASE stage' = "reject" /\ UNCHANGED bound /\ (used' = used \/ used' = failed)
    BY <1>1, <1>3, RefusalStep DEF services
<1> QED BY <1>2, <1>3 DEF startListenerServiceSafely

\* All staged services have their socket, but for those that wait for a hand-over.
LEMMA StagedBoundStep ==
    ASSUME ListenerInv, StagedBound
    PROVE  ListenerInv'
<1> USE DEF services, chains
<1>1. /\ UNCHANGED <<active, xdsManaged, services, chains, txn, refresh, call, seen, unrestored, used>>
      /\ stage = "start" /\ Waiting = {}
      /\ stage' = IF Entries(txn.handoffs) = {} THEN "remove" ELSE "handoff"
    BY DEF StagedBound
<1>2. generation' = generation /\ generation \in Nat BY <1>1, ListenerPartTypes DEF generation
<1>3. Readers = {} /\ txn.closed = {} /\ txn.todo = {}
    BY <1>1 DEF ListenerInv, GenerationsOK, HandoffsOK, TxnOK, Gated
<1>4. \A k \in Entries(txn.staged) :
          \/ txn.staged[k] \in bound
          \/ \E h \in Entries(txn.handoffs) : txn.handoffs[h] = k
  <2> TAKE k \in Entries(txn.staged)
  <2>1. k \in ListenerKey /\ k # NoId BY ListenerAssumption DEF Entries
  <2>2. CASE k \in Range(txn.handoffs)
    <3>1. PICK h \in DOMAIN txn.handoffs : txn.handoffs[h] = k BY <2>2 DEF Range
    <3> QED BY <2>1, <3>1, ListenerPartTypes DEF Entries
  <2> QED BY <1>1, <2>2 DEF Waiting
<1>5. ListenerTypes' BY <1>1 DEF ListenerInv, ListenerTypes, ServiceId, ChainId
<1>6. CallsOK' /\ CountsOK' /\ GenerationsOK' BY <1>1, <1>2, <1>3, QuietStep
<1>7. ReachOK' BY <1>1 DEF ListenerInv, ReachOK, Reached, ServiceId, ChainId
<1>8. ServicesOK' BY <1>1 DEF ListenerInv, ServicesOK, ServiceId, ChainId
<1>9. TxnOK' BY <1>1, <1>2, <1>3 DEF ListenerInv, TxnOK, ChainId
<1>10. HandoffsOK' BY <1>1 DEF ListenerInv, HandoffsOK, Entries
<1>11. ServingOK' BY <1>1, <1>3, <1>4 DEF ListenerInv, ServingOK, Serving, Entries
<1> QED BY <1>5, <1>6, <1>7, <1>8, <1>9, <1>10, <1>11 DEF ListenerInv

\* Services are told apart by their keys: what is active under one key is neither active
\* under another nor staged.
LEMMA OtherService ==
    ASSUME ListenerInv, NEW k \in ListenerKey, active[k] # NoId, NEW n \in ListenerKey
    PROVE  /\ n # k => active[n] # active[k]
           /\ txn.staged[n] # active[k]
<1>1. n # k => active[n] # active[k] BY ActiveFacts
<1>2. ASSUME txn.staged[n] = active[k] PROVE FALSE
  <2>1. listenerService[active[k]].key = k /\ txn.staged[k] = NoId BY ActiveFacts
  <2>2. listenerService[active[k]].key = n BY <1>2, StagedFacts
  <2> QED BY <1>2, <2>1, <2>2
<1> QED BY <1>1, <1>2

\* An old listener gives its port to a staged one, or neither has it.
LEMMA HandoffStep ==
    ASSUME ListenerInv, NEW k \in ListenerKey, Handoff(k)
    PROVE  ListenerInv'
<1> USE DEF chains
<1>1. /\ UNCHANGED <<active, xdsManaged, listenerService, chains, refresh, call, seen, unrestored>>
      /\ stage = "handoff" /\ txn.handoffs[k] # NoId /\ k \notin txn.closed
      /\ accepting' = accepting \ {active[k]}
      /\ txn' = [txn EXCEPT !.closed = @ \cup {k}]
      /\ used' = used \/ used' = failed
      /\ \/ /\ bound' = (bound \ {active[k]}) \cup {txn.staged[txn.handoffs[k]]}
            /\ stage' = IF txn.closed \cup {k} = Entries(txn.handoffs) THEN "remove" ELSE stage
         \/ bound' = bound \ {active[k]} /\ stage' = "rollback"
    BY DEF Handoff, Entries
<1>2. /\ k \in xdsManaged /\ k \notin txn.next /\ active[k] # NoId
      /\ txn.staged[txn.handoffs[k]] # NoId /\ txn.handoffs[k] \in ListenerKey
    BY <1>1, ListenerPartTypes DEF ListenerInv, HandoffsOK
<1>3. /\ txn'.next = txn.next /\ txn'.todo = txn.todo /\ txn'.prepared = txn.prepared
      /\ txn'.staged = txn.staged /\ txn'.handoffs = txn.handoffs /\ txn'.closed = txn.closed \cup {k}
      /\ txn'.retired = txn.retired /\ txn'.removed = txn.removed /\ txn' \in Transaction
    BY <1>1 DEF ListenerInv, ListenerTypes, Transaction
<1>4. /\ generation' = generation /\ generation \in Nat
      /\ used' \in [replacements : Nat, refreshes : Nat, failures : Nat]
    BY <1>1, failedIsQuiet
<1>5. Readers = {} /\ txn.todo = {} BY <1>1 DEF ListenerInv, GenerationsOK, TxnOK, Gated
<1>6. txn.staged[txn.handoffs[k]] \in ServiceId BY <1>2, StagedFacts
<1>7. stage' \in {"handoff", "remove", "rollback"} BY <1>1
<1>8. ListenerTypes'
    BY <1>1, <1>3, <1>4, <1>6, <1>7 DEF ListenerInv, ListenerTypes, ServiceId, ChainId
<1>9. CallsOK' /\ CountsOK' /\ GenerationsOK' BY <1>1, <1>4, <1>5, <1>7, QuietStep
<1>10. ReachOK' BY <1>1, <1>3 DEF ListenerInv, ReachOK, Reached, ServiceId, ChainId
<1>11. ServicesOK' BY <1>1, <1>3 DEF ListenerInv, ServicesOK, ServiceId, ChainId
<1>12. TxnOK' BY <1>1, <1>3, <1>4, <1>5, <1>7 DEF ListenerInv, TxnOK, ChainId
<1>13. HandoffsOK' BY <1>1, <1>3, <1>7 DEF ListenerInv, HandoffsOK, Entries
<1>14. ServingOK'
  <2>1. \A n \in xdsManaged \ (unrestored \cup txn'.closed) : Serving(n)'
    <3> TAKE n \in xdsManaged \ (unrestored \cup txn'.closed)
    <3>1. n \in ListenerKey /\ n # k BY <1>3 DEF ListenerInv, ListenerTypes
    <3>2. Serving(n) BY <1>1, <1>3 DEF ListenerInv, ServingOK
    <3>3. active[n] # active[k] BY <1>2, <3>1, OtherService
    <3> QED BY <1>1, <3>2, <3>3 DEF Serving
  <2>2. txn.closed \subseteq Entries(txn.handoffs) /\ \A h \in Entries(txn.handoffs) : h \notin txn.next
      BY <1>1 DEF ListenerInv, HandoffsOK, Entries
  <2>3. \A n \in (xdsManaged \cap txn.next) \ unrestored : Serving(n)'
      BY <1>2, <1>3, <2>1, <2>2
  <2>4. CASE stage' = "rollback" BY <1>1, <1>3, <2>1, <2>4 DEF ServingOK
  <2>5. CASE stage' # "rollback"
    <3>1. bound' = (bound \ {active[k]}) \cup {txn.staged[txn.handoffs[k]]} BY <1>1, <2>5
    <3>2. \A n \in Entries(txn.staged) :
             \/ txn.staged[n] \in bound'
             \/ \E h \in Entries(txn.handoffs) \ txn'.closed : txn.handoffs[h] = n
      <4> TAKE n \in Entries(txn.staged)
      <4>1. n \in ListenerKey BY DEF Entries
      <4>2. txn.staged[n] # active[k] BY <1>2, <4>1, OtherService
      <4>3. CASE txn.staged[n] \in bound BY <3>1, <4>2, <4>3
      <4>4. CASE \E h \in Entries(txn.handoffs) \ txn.closed : txn.handoffs[h] = n
          BY <1>3, <3>1, <4>4
      <4> QED BY <1>1, <4>3, <4>4 DEF ListenerInv, ServingOK
    <3>3. Entries(txn'.staged) = Entries(txn.staged) /\ Entries(txn'.handoffs) = Entries(txn.handoffs)
        BY <1>3
    <3>4. CASE stage' = "handoff" BY <1>1, <1>3, <2>1, <3>2, <3>3, <3>4 DEF ServingOK
    <3>5. CASE stage' = "remove"
      <4>1. txn'.closed = Entries(txn.handoffs) BY <1>1, <1>3, <2>5, <3>5
      <4> QED BY <1>1, <1>3, <2>3, <3>2, <3>3, <3>5, <4>1 DEF ServingOK
    <3> QED BY <1>7, <2>5, <3>4, <3>5
  <2> QED BY <2>4, <2>5
<1> QED BY <1>8, <1>9, <1>10, <1>11, <1>12, <1>13, <1>14 DEF ListenerInv

\* The old listeners serve again, or are noted.
LEMMA rollbackStep ==
    ASSUME ListenerInv, rollbackHandoffs
    PROVE  ListenerInv'
<1> USE DEF chains
<1>1. PICK unbound \in SUBSET txn.closed :
         /\ bound' = (bound \cup {active[k] : k \in txn.closed \ unbound})
                        \ {txn.staged[txn.handoffs[k]] : k \in txn.closed}
         /\ accepting' = accepting \cup {active[k] : k \in txn.closed \ unbound}
         /\ unrestored' = unrestored \cup unbound
         /\ used' = used \/ used' = failed
    BY DEF rollbackHandoffs
<1>2. /\ UNCHANGED <<active, xdsManaged, listenerService, chains, txn, refresh, call, seen>>
      /\ stage = "rollback" /\ stage' = "reject"
    BY DEF rollbackHandoffs
<1>3. /\ generation' = generation /\ generation \in Nat
      /\ used' \in [replacements : Nat, refreshes : Nat, failures : Nat]
    BY <1>1, failedIsQuiet
<1>4. \A k \in txn.closed : k \in ListenerKey /\ active[k] # NoId /\ txn.handoffs[k] \in ListenerKey
    BY <1>2, ListenerPartTypes DEF ListenerInv, HandoffsOK, Entries
<1>5. \A k \in txn.closed : active[k] \in ServiceId /\ listenerService[active[k]].key = k
    BY <1>4, ActiveFacts
<1>6. \A n \in ListenerKey : active[n] # NoId =>
         active[n] \notin {txn.staged[txn.handoffs[k]] : k \in txn.closed}
    BY <1>4, OtherService
<1>7. ListenerTypes'
  <2>1. {active[k] : k \in txn.closed \ unbound} \subseteq ServiceId BY <1>5
  <2>2. bound' \subseteq ServiceId /\ accepting' \subseteq ServiceId
      BY <1>1, <2>1 DEF ListenerInv, ListenerTypes
  <2> QED BY <1>2, <1>3, <2>2 DEF ListenerInv, ListenerTypes, ServiceId, ChainId
<1>8. CallsOK' /\ CountsOK' /\ GenerationsOK' BY <1>2, <1>3, QuietStep DEF Gated
<1>9. ReachOK' BY <1>2 DEF ListenerInv, ReachOK, Reached, ServiceId, ChainId
<1>10. ServicesOK'
  <2>1. \A s \in accepting' : active[listenerService[s].key] = s
      BY <1>1, <1>5 DEF ListenerInv, ServicesOK
  <2> QED BY <1>2, <2>1 DEF ListenerInv, ServicesOK, ServiceId, ChainId
<1>11. TxnOK' BY <1>2, <1>3 DEF ListenerInv, TxnOK, ChainId, Gated
<1>12. HandoffsOK' BY <1>2 DEF ListenerInv, HandoffsOK, Entries
<1>13. ServingOK'
  <2>1. \A n \in xdsManaged \ unrestored' : Serving(n)'
    <3> TAKE n \in xdsManaged \ unrestored'
    <3>1. n \in ListenerKey BY DEF ListenerInv, ListenerTypes
    <3>2. CASE n \in txn.closed
      <4>1. active[n] \in {active[k] : k \in txn.closed \ unbound} BY <1>1, <3>2
      <4> QED BY <1>1, <1>2, <1>4, <1>6, <3>1, <3>2, <4>1 DEF Serving
    <3>3. CASE n \notin txn.closed
      <4>1. Serving(n) BY <1>1, <1>2, <3>3 DEF ListenerInv, ServingOK
      <4> QED BY <1>1, <1>2, <1>6, <3>1, <4>1 DEF Serving
    <3> QED BY <3>2, <3>3
  <2> QED BY <1>2, <2>1 DEF ServingOK
<1> QED BY <1>7, <1>8, <1>9, <1>10, <1>11, <1>12, <1>13 DEF ListenerInv

\* The listeners that go are out of the map, and let nobody in.
LEMMA CommitRemovalStep ==
    ASSUME ListenerInv, CommitRemoval
    PROVE  ListenerInv'
<1> USE DEF chains
<1> DEFINE gone == xdsManaged \ txn.next
           removed == {active[k] : k \in gone} \ {NoId}
<1>1. /\ UNCHANGED <<xdsManaged, listenerService, bound, chains, refresh, call, seen, used>>
      /\ stage = "remove" /\ stage' = "commit" /\ unrestored' = unrestored \cap txn.next
      /\ active' = [k \in ListenerKey |-> IF k \in gone THEN NoId ELSE active[k]]
      /\ accepting' = accepting \ removed
      /\ txn' = [txn EXCEPT !.removed = removed]
    BY DEF CommitRemoval
<1>2. \A s \in removed : \E k \in gone : s = active[k] /\ active[k] # NoId OBVIOUS
<1>3. \A s \in removed :
         /\ s \in ServiceId /\ s \in Nat /\ listenerService[s].key \in gone
         /\ txn.staged[listenerService[s].key] # s
  <2> TAKE s \in removed
  <2>1. PICK k \in gone : s = active[k] /\ active[k] # NoId BY <1>2
  <2>2. k \in ListenerKey BY DEF ListenerInv, ListenerTypes
  <2>3. s \in ServiceId /\ listenerService[s].key = k /\ txn.staged[k] = NoId
      BY <2>1, <2>2, ActiveFacts
  <2> QED BY <2>1, <2>3 DEF ServiceId
<1>4. \A k \in ListenerKey : active[k] # NoId /\ k \in gone => active[k] \in removed OBVIOUS
<1>5. \A k \in ListenerKey : active[k] # NoId /\ k \notin gone => active[k] \notin removed
    BY <1>3, ActiveFacts
<1> HIDE DEF removed
<1>6. /\ txn'.next = txn.next /\ txn'.todo = txn.todo /\ txn'.prepared = txn.prepared
      /\ txn'.staged = txn.staged /\ txn'.handoffs = txn.handoffs /\ txn'.closed = txn.closed
      /\ txn'.retired = txn.retired /\ txn'.removed = removed /\ txn' \in Transaction
    BY <1>1, <1>3 DEF ListenerInv, ListenerTypes, Transaction
<1>7. \A k \in ListenerKey : active'[k] = IF k \in gone THEN NoId ELSE active[k] BY <1>1
<1>8. generation' = generation /\ generation \in Nat BY <1>1, ListenerPartTypes DEF generation
<1>9. Readers = {} /\ txn.todo = {} /\ txn.retired = {}
    BY <1>1 DEF ListenerInv, GenerationsOK, TxnOK, Gated
<1>10. \A k \in txn.next : k \in ListenerKey /\ (txn.prepared[k] # NoId \/ txn.staged[k] # NoId)
    BY <1>1, <1>9, ListenerPartTypes DEF ListenerInv, TxnOK
<1>11. ListenerTypes'
  <2>1. active' \in [ListenerKey -> Nat \cup {NoId}] BY <1>1 DEF ListenerInv, ListenerTypes
  <2> QED BY <1>1, <1>6, <2>1 DEF ListenerInv, ListenerTypes, ServiceId, ChainId
<1>12. CallsOK' /\ CountsOK' BY <1>1 DEF ListenerInv, CallsOK, CountsOK, Runs, ServiceId, ChainId
<1>13. ReachOK' BY <1>1, <1>6 DEF ListenerInv, ReachOK, Reached, ServiceId, ChainId
<1>14. ServicesOK'
  <2>1. \A s \in ServiceId : listenerService[s].chain \in ChainId \cup {NoId}
      BY DEF ListenerInv, ServicesOK
  <2>2. \A k \in ListenerKey : active'[k] # NoId =>
          /\ active'[k] \in ServiceId /\ listenerService[active'[k]].key = k
          /\ listenerService[active'[k]].chain # NoId
      BY <1>7, ActiveFacts
  <2>3. \A s \in accepting' : active'[listenerService[s].key] = s
    <3> TAKE s \in accepting'
    <3>1. PICK k \in ListenerKey : k = listenerService[s].key
        BY <1>1, ListenerPartTypes DEF ListenerInv, ListenerTypes
    <3>2. active[k] = s /\ s \in ServiceId /\ s \notin removed
        BY <1>1, <3>1 DEF ListenerInv, ServicesOK, ListenerTypes
    <3>3. active[k] # NoId BY <3>2, ListenerAssumption DEF ServiceId
    <3> QED BY <1>4, <1>7, <3>1, <3>2, <3>3
  <2>4. \A k \in ListenerKey : txn.staged[k] # NoId =>
          /\ txn.staged[k] \in ServiceId /\ listenerService[txn.staged[k]].key = k
          /\ listenerService[txn.staged[k]].chain # NoId /\ active'[k] = NoId
      BY <1>7, StagedFacts
  <2>5. \A s \in removed :
          /\ s \in ServiceId
          /\ active'[listenerService[s].key] # s /\ txn.staged[listenerService[s].key] # s
      BY <1>3, <1>7, ListenerPartTypes, ListenerAssumption
  <2> QED BY <1>1, <1>6, <2>1, <2>2, <2>3, <2>4, <2>5 DEF ServicesOK, ServiceId, ChainId
<1>15. TxnOK'
  <2>1. \A k \in ListenerKey : txn.prepared[k] # NoId =>
          /\ txn.prepared[k] \in ChainId /\ chain[txn.prepared[k]].gen = generation
          /\ k \in xdsManaged /\ k \in txn.next /\ active'[k] # NoId
      BY <1>7, PreparedFacts
  <2>2. \A k \in ListenerKey : txn.staged[k] # NoId =>
          k \in txn.next /\ chain[listenerService[txn.staged[k]].chain].gen = generation
      BY StagedFacts
  <2> QED BY <1>1, <1>6, <1>8, <1>9, <2>1, <2>2 DEF TxnOK, ChainId
<1>16. HandoffsOK' BY <1>1, <1>6 DEF ListenerInv, HandoffsOK, Entries
<1>17. ServingOK'
  <2>1. \A k \in txn.next \ unrestored' : Serving(k)' \/ txn.staged[k] # NoId
    <3> TAKE k \in txn.next \ unrestored'
    <3>1. CASE txn.prepared[k] # NoId
      <4>1. k \in ListenerKey /\ k \in xdsManaged BY <1>10, <3>1, PreparedFacts
      <4>2. Serving(k) BY <1>1, <4>1 DEF ListenerInv, ServingOK
      <4>3. active[k] \notin removed /\ active'[k] = active[k] BY <1>5, <1>7, <4>1, <4>2 DEF Serving
      <4> QED BY <1>1, <4>2, <4>3 DEF Serving
    <3> QED BY <1>10, <3>1
  <2>2. \A k \in Entries(txn.staged) : txn.staged[k] \in bound BY <1>1 DEF ListenerInv, ServingOK
  <2> QED BY <1>1, <1>6, <2>1, <2>2 DEF ServingOK, Entries
<1>18. GenerationsOK'
  <2>1. PICK g \in 0..generation : OneGeneration(g) BY <1>1 DEF ListenerInv, GenerationsOK
  <2>2. seen <= generation BY <1>8, <2>1 DEF OneGeneration, ListenerInv, ListenerTypes
  <2>3. \A k \in ListenerKey \ Static : active'[k] # NoId => k \in txn.next /\ txn.prepared[k] # NoId
    <3> TAKE k \in ListenerKey \ Static
    <3> HAVE active'[k] # NoId
    <3>1. active[k] # NoId /\ k \notin gone BY <1>7
    <3>2. k \in txn.next BY <2>1, <3>1 DEF OneGeneration
    <3>3. txn.staged[k] = NoId BY <3>1, ActiveFacts
    <3> QED BY <1>10, <3>2, <3>3
  <2>4. Readers' = {} BY <1>1, <1>9 DEF Readers
  <2> QED BY <1>1, <1>6, <1>8, <2>2, <2>3, <2>4 DEF GenerationsOK
<1> QED BY <1>11, <1>12, <1>13, <1>14, <1>15, <1>16, <1>17, <1>18 DEF ListenerInv

\* Another chain leaves a service with its key.
LEMMA ServiceChainStep ==
    ASSUME ListenerInv, NEW a \in ServiceId, NEW c \in Nat \cup {NoId},
           listenerService' = [listenerService EXCEPT ![a].chain = c]
    PROVE  /\ listenerService' \in Seq(ServiceRecord) /\ ServiceId' = ServiceId
           /\ listenerService'[a].chain = c
           /\ \A s \in ServiceId : s # a => listenerService'[s] = listenerService[s]
           /\ \A s \in ServiceId : listenerService'[s].key = listenerService[s].key
<1>1. listenerService \in Seq(ServiceRecord) BY DEF ListenerInv, ListenerTypes
<1> DEFINE new == [listenerService[a] EXCEPT !.chain = c]
<1>2. new \in ServiceRecord /\ new.chain = c /\ new.key = listenerService[a].key
    BY ListenerPartTypes DEF ServiceRecord
<1>3. listenerService' = [listenerService EXCEPT ![a] = new] OBVIOUS
<1> HIDE DEF new
<1>4. listenerService' \in Seq(ServiceRecord) /\ ServiceId' = ServiceId BY <1>1, <1>2, <1>3 DEF ServiceId
<1>5. \A s \in ServiceId : listenerService'[s] = IF s = a THEN new ELSE listenerService[s]
    BY <1>1, <1>3 DEF ServiceId
<1> QED BY <1>2, <1>4, <1>5

\* A listener that stays gets its new chain; the old one waits to be retired.
LEMMA CommitRefreshStep ==
    ASSUME ListenerInv, NEW k \in ListenerKey, CommitRefresh(k)
    PROVE  ListenerInv'
<1> USE DEF chains
<1>1. /\ UNCHANGED <<active, xdsManaged, bound, accepting, chains, stage, refresh, call, seen, unrestored,
                     used>>
      /\ stage = "commit" /\ txn.prepared[k] # NoId
      /\ listenerService' = [listenerService EXCEPT ![active[k]].chain = txn.prepared[k]]
      /\ txn' = [txn EXCEPT !.prepared[k] = NoId,
                            !.retired = @ \cup {listenerService[active[k]].chain}]
    BY DEF CommitRefresh, Entries
<1>2. PICK a \in ServiceId, new \in ChainId, old \in ChainId :
         a = active[k] /\ new = txn.prepared[k] /\ old = listenerService[active[k]].chain
    BY <1>1, PreparedFacts, ActiveFacts
<1>3. /\ listenerService' \in Seq(ServiceRecord) /\ ServiceId' = ServiceId
      /\ listenerService'[a].chain = new /\ \A s \in ServiceId : s # a => listenerService'[s] = listenerService[s]
      /\ \A s \in ServiceId : listenerService'[s].key = listenerService[s].key
  <2>1. new \in Nat BY DEF ChainId
  <2> QED BY <1>1, <1>2, <2>1, ServiceChainStep
<1>4. /\ txn'.next = txn.next /\ txn'.todo = txn.todo
      /\ txn'.prepared = [txn.prepared EXCEPT ![k] = NoId]
      /\ txn'.staged = txn.staged /\ txn'.handoffs = txn.handoffs /\ txn'.closed = txn.closed
      /\ txn'.retired = txn.retired \cup {old} /\ txn'.removed = txn.removed /\ txn' \in Transaction
  <2>1. old \in Nat BY DEF ChainId
  <2> QED BY <1>1, <1>2, <2>1 DEF ListenerInv, ListenerTypes, Transaction
<1>5. txn'.prepared[k] = NoId /\ \A n \in ListenerKey : n # k => txn'.prepared[n] = txn.prepared[n]
    BY <1>4, ListenerPartTypes
<1>6. generation' = generation /\ generation \in Nat BY <1>1, ListenerPartTypes DEF generation
<1>7. \A n \in ListenerKey : txn.staged[n] # a BY <1>1, <1>2, PreparedFacts, OtherService
<1>8. \A n \in ListenerKey : n # k => active[n] # a BY <1>1, <1>2, PreparedFacts, OtherService
<1>9. ListenerTypes' BY <1>1, <1>3, <1>4 DEF ListenerInv, ListenerTypes, ChainId
<1>10. CallsOK' /\ CountsOK' BY <1>1, <1>3 DEF ListenerInv, CallsOK, CountsOK, Runs, ChainId
<1>11. ReachOK'
  <2>1. ASSUME NEW c \in ChainId, Reached(c) PROVE Reached(c)'
    <3>1. CASE \E s \in ServiceId : listenerService[s].chain = c
        BY <1>2, <1>3, <1>4, <3>1 DEF Reached
    <3>2. CASE \E n \in ListenerKey : txn.prepared[n] = c
        BY <1>2, <1>3, <1>5, <3>2 DEF Reached
    <3>3. CASE c \in txn.retired \/ refresh = c BY <1>1, <1>4, <3>3 DEF Reached
    <3> QED BY <2>1, <3>1, <3>2, <3>3 DEF Reached
  <2> QED BY <1>1, <2>1 DEF ListenerInv, ReachOK, ChainId
<1>12. ServicesOK'
  <2>1. \A s \in ServiceId : listenerService'[s].chain \in ChainId \cup {NoId}
      BY <1>3 DEF ListenerInv, ServicesOK
  <2>2. \A n \in ListenerKey : active[n] # NoId =>
          /\ active[n] \in ServiceId /\ listenerService'[active[n]].key = n
          /\ listenerService'[active[n]].chain # NoId
    <3> TAKE n \in ListenerKey
    <3> HAVE active[n] # NoId
    <3>1. /\ active[n] \in ServiceId /\ listenerService[active[n]].key = n
          /\ listenerService[active[n]].chain # NoId
        BY ActiveFacts
    <3>2. new # NoId BY ListenerAssumption DEF ChainId
    <3> QED BY <1>3, <3>1, <3>2
  <2>3. \A s \in accepting : active[listenerService'[s].key] = s
      BY <1>3 DEF ListenerInv, ServicesOK, ListenerTypes
  <2>4. \A n \in ListenerKey : txn.staged[n] # NoId =>
          /\ txn.staged[n] \in ServiceId /\ listenerService'[txn.staged[n]].key = n
          /\ listenerService'[txn.staged[n]].chain # NoId /\ active[n] = NoId
    <3> TAKE n \in ListenerKey
    <3> HAVE txn.staged[n] # NoId
    <3>1. /\ txn.staged[n] \in ServiceId /\ listenerService[txn.staged[n]].key = n
          /\ listenerService[txn.staged[n]].chain # NoId /\ active[n] = NoId
        BY StagedFacts
    <3>2. listenerService'[txn.staged[n]] = listenerService[txn.staged[n]] BY <1>3, <1>7, <3>1
    <3> QED BY <3>1, <3>2
  <2>5. \A s \in txn.removed :
          /\ s \in ServiceId
          /\ active[listenerService'[s].key] # s /\ txn.staged[listenerService'[s].key] # s
      BY <1>3 DEF ListenerInv, ServicesOK
  <2> QED BY <1>1, <1>3, <1>4, <2>1, <2>2, <2>3, <2>4, <2>5 DEF ServicesOK, ChainId
<1>13. TxnOK'
  <2>1. \A n \in ListenerKey : txn'.prepared[n] # NoId =>
          /\ txn'.prepared[n] \in ChainId /\ chain[txn'.prepared[n]].gen = generation
          /\ n \in xdsManaged /\ n \in txn.next /\ active[n] # NoId
      BY <1>5, PreparedFacts
  <2>2. \A n \in ListenerKey : txn.staged[n] # NoId =>
          n \in txn.next /\ chain[listenerService'[txn.staged[n]].chain].gen = generation
    <3> TAKE n \in ListenerKey
    <3> HAVE txn.staged[n] # NoId
    <3>1. txn.staged[n] \in ServiceId BY StagedFacts
    <3>2. listenerService'[txn.staged[n]] = listenerService[txn.staged[n]] BY <1>3, <1>7, <3>1
    <3> QED BY <3>2, StagedFacts
  <2>3. txn'.retired \subseteq ChainId BY <1>4 DEF ListenerInv, TxnOK
  <2>4. txn.todo = {} BY <1>1 DEF ListenerInv, TxnOK, Gated
  <2> QED BY <1>1, <1>4, <1>6, <2>1, <2>2, <2>3, <2>4 DEF TxnOK, ChainId
<1>14. HandoffsOK' BY <1>1, <1>4 DEF ListenerInv, HandoffsOK, Entries
<1>15. ServingOK' BY <1>1, <1>4 DEF ListenerInv, ServingOK, Serving, Entries
<1>16. GenerationsOK'
  <2>1. Gen(k)' = generation BY <1>1, <1>2, <1>3, PreparedFacts DEF Gen
  <2>2. \A n \in ListenerKey : n # k /\ active[n] # NoId => Gen(n)' = Gen(n)
    <3> TAKE n \in ListenerKey
    <3> HAVE n # k /\ active[n] # NoId
    <3>1. active[n] \in ServiceId BY ActiveFacts
    <3> QED BY <1>1, <1>3, <1>8, <3>1 DEF Gen
  <2>3. \A n \in ListenerKey \ Static : active[n] # NoId =>
           n \in txn.next /\ (txn'.prepared[n] # NoId \/ Gen(n)' = generation)
    <3> TAKE n \in ListenerKey \ Static
    <3> HAVE active[n] # NoId
    <3>1. n \in txn.next /\ (txn.prepared[n] # NoId \/ Gen(n) = generation)
        BY <1>1 DEF ListenerInv, GenerationsOK
    <3>2. CASE n = k BY <2>1, <3>1, <3>2
    <3>3. CASE n # k BY <1>5, <2>2, <3>1, <3>3
    <3> QED BY <3>2, <3>3
  <2>4. seen <= generation /\ Readers' = {} BY <1>1 DEF ListenerInv, GenerationsOK, Gated, Readers
  <2> QED BY <1>1, <1>4, <1>6, <2>3, <2>4 DEF GenerationsOK
<1> QED BY <1>9, <1>10, <1>11, <1>12, <1>13, <1>14, <1>15, <1>16 DEF ListenerInv

\* A listener that nobody may replace, or that cannot be built, refuses the transaction.
LEMMA RejectStep ==
    ASSUME ListenerInv, NEW k \in ListenerKey, RejectListener(k)
    PROVE  ListenerInv'
BY RefusalStep DEF RejectListener

\* A staged service becomes its key's.
LEMMA CommitStagedStep ==
    ASSUME ListenerInv, NEW k \in ListenerKey, CommitStaged(k)
    PROVE  ListenerInv'
<1> USE DEF chains
<1>1. /\ UNCHANGED <<xdsManaged, listenerService, bound, chains, stage, refresh, call, seen, unrestored, used>>
      /\ stage = "commit" /\ txn.staged[k] # NoId
      /\ active' = [active EXCEPT ![k] = txn.staged[k]]
      /\ accepting' = accepting \cup {txn.staged[k]}
      /\ txn' = [txn EXCEPT !.staged[k] = NoId]
    BY DEF CommitStaged, Entries
<1>2. PICK a \in ServiceId : a = txn.staged[k] BY <1>1, StagedFacts
<1>3. /\ listenerService[a].key = k /\ listenerService[a].chain # NoId /\ active[k] = NoId /\ k \in txn.next
      /\ chain[listenerService[a].chain].gen = generation
    BY <1>1, <1>2, StagedFacts
<1>4. /\ txn'.next = txn.next /\ txn'.todo = txn.todo /\ txn'.prepared = txn.prepared
      /\ txn'.staged = [txn.staged EXCEPT ![k] = NoId]
      /\ txn'.handoffs = txn.handoffs /\ txn'.closed = txn.closed
      /\ txn'.retired = txn.retired /\ txn'.removed = txn.removed /\ txn' \in Transaction
    BY <1>1 DEF ListenerInv, ListenerTypes, Transaction
<1>5. txn'.staged[k] = NoId /\ \A n \in ListenerKey : n # k => txn'.staged[n] = txn.staged[n]
    BY <1>4, ListenerPartTypes
<1>6. /\ active' \in [ListenerKey -> Nat \cup {NoId}] /\ active'[k] = a
      /\ \A n \in ListenerKey : n # k => active'[n] = active[n]
    BY <1>1, <1>2 DEF ListenerInv, ListenerTypes, ServiceId
<1>7. generation' = generation /\ generation \in Nat BY <1>1, ListenerPartTypes DEF generation
<1>8. a # NoId BY <1>1, <1>2
<1>9. ListenerTypes' BY <1>1, <1>2, <1>4, <1>6 DEF ListenerInv, ListenerTypes, ServiceId, ChainId
<1>10. CallsOK' /\ CountsOK' BY <1>1 DEF ListenerInv, CallsOK, CountsOK, Runs, ServiceId, ChainId
<1>11. ReachOK' BY <1>1, <1>4 DEF ListenerInv, ReachOK, Reached, ServiceId, ChainId
<1>12. ServicesOK'
  <2>1. \A s \in ServiceId : listenerService[s].chain \in ChainId \cup {NoId}
      BY DEF ListenerInv, ServicesOK
  <2>2. \A n \in ListenerKey : active'[n] # NoId =>
          /\ active'[n] \in ServiceId /\ listenerService[active'[n]].key = n
          /\ listenerService[active'[n]].chain # NoId
      BY <1>3, <1>6, ActiveFacts
  <2>3. \A s \in accepting' : active'[listenerService[s].key] = s
    <3> TAKE s \in accepting'
    <3>1. CASE s = a BY <1>3, <1>6, <3>1
    <3>2. CASE s \in accepting
      <4>1. PICK n \in ListenerKey : n = listenerService[s].key
          BY <3>2, ListenerPartTypes DEF ListenerInv, ListenerTypes
      <4>2. active[n] = s /\ s \in ServiceId BY <3>2, <4>1 DEF ListenerInv, ServicesOK, ListenerTypes
      <4>3. n # k BY <1>3, <4>2, ListenerAssumption DEF ServiceId
      <4> QED BY <1>6, <4>1, <4>2, <4>3
    <3> QED BY <1>1, <1>2, <3>1, <3>2
  <2>4. \A n \in ListenerKey : txn'.staged[n] # NoId =>
          /\ txn'.staged[n] \in ServiceId /\ listenerService[txn'.staged[n]].key = n
          /\ listenerService[txn'.staged[n]].chain # NoId /\ active'[n] = NoId
      BY <1>5, <1>6, StagedFacts
  <2>5. \A s \in txn.removed :
          /\ s \in ServiceId
          /\ active'[listenerService[s].key] # s /\ txn'.staged[listenerService[s].key] # s
    <3> TAKE s \in txn.removed
    <3>1. PICK n \in ListenerKey : n = listenerService[s].key
        BY ListenerPartTypes DEF ListenerInv, ServicesOK
    <3>2. s \in ServiceId /\ active[n] # s /\ txn.staged[n] # s BY <3>1 DEF ListenerInv, ServicesOK
    <3>3. NoId # s BY <3>2, ListenerAssumption DEF ServiceId
    <3> QED BY <1>2, <1>5, <1>6, <3>1, <3>2, <3>3
  <2> QED BY <1>1, <1>4, <2>1, <2>2, <2>3, <2>4, <2>5 DEF ServicesOK, ServiceId, ChainId
<1>13. TxnOK'
  <2>1. \A n \in ListenerKey : txn.prepared[n] # NoId =>
          /\ txn.prepared[n] \in ChainId /\ chain[txn.prepared[n]].gen = generation
          /\ n \in xdsManaged /\ n \in txn.next /\ active'[n] # NoId
      BY <1>6, <1>8, PreparedFacts
  <2>2. \A n \in ListenerKey : txn'.staged[n] # NoId =>
          n \in txn.next /\ chain[listenerService[txn'.staged[n]].chain].gen = generation
      BY <1>5, StagedFacts
  <2>3. txn.todo = {} /\ txn.retired \subseteq ChainId BY <1>1 DEF ListenerInv, TxnOK, Gated
  <2> QED BY <1>1, <1>4, <1>7, <2>1, <2>2, <2>3 DEF TxnOK, ChainId
<1>14. HandoffsOK' BY <1>1, <1>4 DEF ListenerInv, HandoffsOK, Entries
<1>15. ServingOK'
  <2>1. \A n \in txn.next \ unrestored : Serving(n)' \/ txn'.staged[n] # NoId
    <3> TAKE n \in txn.next \ unrestored
    <3>1. n \in ListenerKey BY ListenerPartTypes
    <3>2. CASE n = k
      <4>1. a \in bound BY <1>1, <1>2 DEF ListenerInv, ServingOK, Entries
      <4> QED BY <1>1, <1>2, <1>6, <1>8, <3>2, <4>1 DEF Serving
    <3>3. CASE n # k
      <4>1. Serving(n) \/ txn.staged[n] # NoId BY <1>1 DEF ListenerInv, ServingOK
      <4> QED BY <1>1, <1>5, <1>6, <3>1, <3>3, <4>1 DEF Serving
    <3> QED BY <3>2, <3>3
  <2>2. \A n \in Entries(txn'.staged) : txn'.staged[n] \in bound
      BY <1>1, <1>5 DEF ListenerInv, ServingOK, Entries
  <2> QED BY <1>1, <1>4, <2>1, <2>2 DEF ServingOK
<1>16. GenerationsOK'
  <2>1. Gen(k)' = generation BY <1>1, <1>3, <1>6 DEF Gen
  <2>2. \A n \in ListenerKey \ Static : active'[n] # NoId =>
           n \in txn.next /\ (txn.prepared[n] # NoId \/ Gen(n)' = generation)
    <3> TAKE n \in ListenerKey \ Static
    <3> HAVE active'[n] # NoId
    <3>1. CASE n = k BY <1>3, <2>1, <3>1
    <3>2. CASE n # k
      <4>1. active[n] # NoId /\ Gen(n)' = Gen(n) BY <1>1, <1>6, <3>2 DEF Gen
      <4> QED BY <1>1, <4>1 DEF ListenerInv, GenerationsOK
    <3> QED BY <3>1, <3>2
  <2>3. seen <= generation /\ Readers' = {} BY <1>1 DEF ListenerInv, GenerationsOK, Gated, Readers
  <2> QED BY <1>1, <1>4, <1>7, <2>2, <2>3 DEF GenerationsOK
<1> QED BY <1>9, <1>10, <1>11, <1>12, <1>13, <1>14, <1>15, <1>16 DEF ListenerInv

\* What was committed is xDS's, all of one generation, and the gate opens.
LEMMA PublishStep ==
    ASSUME ListenerInv, PublishListeners
    PROVE  ListenerInv'
<1> USE DEF services, chains
<1>1. /\ UNCHANGED <<active, services, chains, txn, refresh, call, seen, unrestored, used>>
      /\ stage = "commit" /\ txn.prepared = NoEntries /\ txn.staged = NoEntries
      /\ xdsManaged' = txn.next /\ stage' = "retire"
    BY DEF PublishListeners
<1>2. \A k \in ListenerKey : txn.prepared[k] = NoId /\ txn.staged[k] = NoId BY <1>1 DEF NoEntries
<1>3. generation' = generation /\ generation \in Nat BY <1>1, ListenerPartTypes DEF generation
<1>4. ListenerTypes' BY <1>1, ListenerPartTypes DEF ListenerInv, ListenerTypes, ServiceId, ChainId
<1>5. CallsOK' /\ CountsOK' BY <1>1 DEF ListenerInv, CallsOK, CountsOK, Runs, ServiceId, ChainId
<1>6. ReachOK' BY <1>1 DEF ListenerInv, ReachOK, Reached, ServiceId, ChainId
<1>7. ServicesOK' BY <1>1 DEF ListenerInv, ServicesOK, ServiceId, ChainId
<1>8. TxnOK'
  <2>1. txn.todo = {} /\ txn.retired \subseteq ChainId BY <1>1 DEF ListenerInv, TxnOK, Gated
  <2> QED BY <1>1, <1>2, <1>3, <2>1 DEF TxnOK, ChainId, Gated
<1>9. HandoffsOK' BY <1>1 DEF ListenerInv, HandoffsOK, Entries
<1>10. ServingOK'
  <2>1. \A k \in txn.next \ unrestored : Serving(k)
      BY <1>1, <1>2, ListenerPartTypes DEF ListenerInv, ServingOK
  <2> QED BY <1>1, <2>1 DEF ServingOK, Serving
<1>11. GenerationsOK'
  <2>1. seen <= generation /\ Readers = {} BY <1>1 DEF ListenerInv, GenerationsOK, Gated
  <2>2. \A k \in ListenerKey \ Static : active[k] # NoId => k \in txn.next /\ Gen(k) = generation
      BY <1>1, <1>2 DEF ListenerInv, GenerationsOK
  <2>3. \A r \in Call : call[r].pc # "loaded" BY <2>1 DEF Readers
  <2>4. PICK g \in 0..generation : g = generation BY <1>3
  <2>5. OneGeneration(g)' BY <1>1, <1>3, <2>1, <2>2, <2>3, <2>4 DEF OneGeneration, Gen
  <2> QED BY <1>1, <1>3, <2>5 DEF GenerationsOK, Gated
<1> QED BY <1>4, <1>5, <1>6, <1>7, <1>8, <1>9, <1>10, <1>11 DEF ListenerInv

\* A chain that is retired is closed at once, or by the last request on it.
LEMMA RetireStep ==
    ASSUME ListenerInv, NEW c \in ChainId, retire(c), UNCHANGED <<chain, call>>
    PROVE  CountsOK' /\ retiredChains' = retiredChains \cup {c} /\ retiredChains' \subseteq ChainId
<1>1. /\ retiredChains' = retiredChains \cup {c}
      /\ closedChains' = IF chain[c].refs = 0 THEN closedChains \cup {c} ELSE closedChains
    BY DEF retire
<1>2. closedChains = {d \in retiredChains : chain[d].refs = 0} /\ retiredChains \subseteq ChainId
    BY DEF ListenerInv, CountsOK, ListenerTypes
<1>3. closedChains' = {d \in retiredChains' : chain'[d].refs = 0} BY <1>1, <1>2
<1>4. \A d \in ChainId' : chain'[d].refs = Cardinality(Runs(d)')
    BY DEF ListenerInv, CountsOK, Runs, ChainId
<1> QED BY <1>1, <1>2, <1>3, <1>4 DEF CountsOK

\* Where chains are retired and nothing else changes, the rest of the invariant stays.
LEMMA RetiringStep ==
    ASSUME ListenerInv, NEW c \in ChainId, retire(c),
           UNCHANGED <<active, xdsManaged, services, chain, stage, call, seen, unrestored, used>>,
           txn' \in Transaction, refresh' \in ChainId \cup {NoId},
           txn'.next = txn.next, txn'.todo = txn.todo, txn'.staged = txn.staged,
           txn'.handoffs = txn.handoffs, txn'.closed = txn.closed, txn'.removed = txn.removed,
           txn'.retired \subseteq txn.retired,
           \A k \in ListenerKey : txn'.prepared[k] \in {txn.prepared[k], NoId},
           stage \notin {"reject"} => txn'.prepared = txn.prepared,
           stage = "idle" => txn' = txn,
           \A d \in ChainId : d # c /\ Reached(d) => Reached(d)'
    PROVE  ListenerInv'
<1> USE DEF services
<1>1. CountsOK' /\ retiredChains' = retiredChains \cup {c} /\ retiredChains' \subseteq ChainId
    BY RetireStep
<1>2. generation' = generation BY DEF generation
<1>3. ListenerTypes' BY <1>1 DEF ListenerInv, ListenerTypes, ServiceId, ChainId
<1>4. CallsOK' BY DEF ListenerInv, CallsOK, ServiceId, ChainId
<1>5. ReachOK' BY <1>1 DEF ListenerInv, ReachOK, ChainId
<1>6. ServicesOK' BY DEF ListenerInv, ServicesOK, ServiceId, ChainId
<1>7. TxnOK'
  <2>1. \A k \in ListenerKey : txn'.prepared[k] # NoId =>
          /\ txn'.prepared[k] \in ChainId /\ chain[txn'.prepared[k]].gen = generation
          /\ k \in xdsManaged /\ k \in txn.next /\ active[k] # NoId
      BY PreparedFacts
  <2>2. \A k \in ListenerKey : txn.staged[k] # NoId =>
          k \in txn.next /\ chain[listenerService[txn.staged[k]].chain].gen = generation
      BY StagedFacts
  <2>3. /\ txn'.retired \subseteq ChainId
        /\ stage \notin {"commit", "retire"} => txn'.retired = {} /\ txn'.removed = {}
        /\ stage = "retire" => txn'.prepared = NoEntries /\ txn'.staged = NoEntries
        /\ stage = "idle" => txn' = noTxn
        /\ stage \in Gated => txn'.todo = {}
        /\ txn'.todo \subseteq txn'.next
      BY DEF ListenerInv, TxnOK
  <2>4. \A k \in txn'.todo : txn'.prepared[k] = NoId /\ txn'.staged[k] = NoId
      BY ListenerPartTypes DEF ListenerInv, TxnOK
  <2>5. stage \in {"prepare", "start", "handoff", "rollback", "remove"} =>
          \A k \in txn'.next : k \in txn'.todo \/ txn'.prepared[k] # NoId \/ txn'.staged[k] # NoId
      BY DEF ListenerInv, TxnOK
  <2> QED BY <1>2, <2>1, <2>2, <2>3, <2>4, <2>5 DEF TxnOK, ChainId
<1>8. HandoffsOK' BY DEF ListenerInv, HandoffsOK, Entries
<1>9. ServingOK' BY DEF ListenerInv, ServingOK, Serving, Entries
<1>10. GenerationsOK'
  <2>1. stage \in Gated => Readers' = {} BY DEF ListenerInv, GenerationsOK, Readers
  <2>2. \A g \in 0..generation : OneGeneration(g) => OneGeneration(g)'
      BY <1>2 DEF OneGeneration, Gen, served
  <2>3. stage = "commit" =>
          /\ seen <= generation
          /\ \A k \in ListenerKey \ Static : active[k] # NoId =>
                k \in txn.next /\ (txn'.prepared[k] # NoId \/ Gen(k)' = generation)
      BY DEF ListenerInv, GenerationsOK, Gen
  <2>4. stage # "commit" => \E g \in 0..generation : OneGeneration(g)
      BY DEF ListenerInv, GenerationsOK
  <2> QED BY <1>2, <2>1, <2>2, <2>3, <2>4 DEF GenerationsOK
<1> QED BY <1>1, <1>3, <1>4, <1>5, <1>6, <1>7, <1>8, <1>9, <1>10 DEF ListenerInv

\* A chain that was replaced is retired.
LEMMA RetireReplacedStep ==
    ASSUME ListenerInv, NEW c \in txn.retired, RetireReplaced(c)
    PROVE  ListenerInv'
<1>1. /\ UNCHANGED <<active, xdsManaged, services, chain, stage, refresh, call, seen, unrestored, used>>
      /\ stage = "retire" /\ retire(c) /\ txn' = [txn EXCEPT !.retired = @ \ {c}]
    BY DEF RetireReplaced
<1>2. c \in ChainId BY DEF ListenerInv, TxnOK
<1>3. /\ txn'.next = txn.next /\ txn'.todo = txn.todo /\ txn'.prepared = txn.prepared
      /\ txn'.staged = txn.staged /\ txn'.handoffs = txn.handoffs /\ txn'.closed = txn.closed
      /\ txn'.retired = txn.retired \ {c} /\ txn'.removed = txn.removed /\ txn' \in Transaction
    BY <1>1 DEF ListenerInv, ListenerTypes, Transaction
<1>4. \A d \in ChainId : d # c /\ Reached(d) => Reached(d)'
    BY <1>1, <1>3 DEF Reached, services, ServiceId
<1>5. refresh' \in ChainId \cup {NoId} BY <1>1 DEF ListenerInv, ListenerTypes
<1> QED BY <1>1, <1>2, <1>3, <1>4, <1>5, RetiringStep

\* A chain that was prepared for a transaction that is refused is retired.
LEMMA ClosePreparedStep ==
    ASSUME ListenerInv, NEW k \in ListenerKey, ClosePreparedUpdate(k)
    PROVE  ListenerInv'
<1>1. /\ UNCHANGED <<active, xdsManaged, services, chain, stage, refresh, call, seen, unrestored, used>>
      /\ stage = "reject" /\ txn.prepared[k] # NoId /\ retire(txn.prepared[k])
      /\ txn' = [txn EXCEPT !.prepared[k] = NoId]
    BY DEF ClosePreparedUpdate, Entries
<1>2. PICK c \in ChainId : c = txn.prepared[k] BY <1>1, PreparedFacts
<1>3. /\ txn'.next = txn.next /\ txn'.todo = txn.todo
      /\ txn'.prepared = [txn.prepared EXCEPT ![k] = NoId]
      /\ txn'.staged = txn.staged /\ txn'.handoffs = txn.handoffs /\ txn'.closed = txn.closed
      /\ txn'.retired = txn.retired /\ txn'.removed = txn.removed /\ txn' \in Transaction
    BY <1>1 DEF ListenerInv, ListenerTypes, Transaction
<1>4. \A n \in ListenerKey : txn'.prepared[n] = IF n = k THEN NoId ELSE txn.prepared[n]
    BY <1>3, ListenerPartTypes
<1>5. \A d \in ChainId : d # c /\ Reached(d) => Reached(d)'
    BY <1>1, <1>2, <1>3, <1>4 DEF Reached, services, ServiceId
<1>6. refresh' \in ChainId \cup {NoId} BY <1>1 DEF ListenerInv, ListenerTypes
<1> QED BY <1>1, <1>2, <1>3, <1>4, <1>5, <1>6, RetiringStep

\* The chain that a reload replaced is retired.
LEMMA RetireRefreshedStep ==
    ASSUME ListenerInv, RetireRefreshed
    PROVE  ListenerInv'
<1>1. /\ UNCHANGED <<active, xdsManaged, services, chain, stage, txn, call, seen, unrestored, used>>
      /\ refresh # NoId /\ retire(refresh) /\ refresh' = NoId
    BY DEF RetireRefreshed
<1>2. PICK c \in ChainId : c = refresh BY <1>1 DEF ListenerInv, ListenerTypes
<1>3. \A d \in ChainId : d # c /\ Reached(d) => Reached(d)'
    BY <1>1, <1>2 DEF Reached, services, ServiceId
<1>4. txn' \in Transaction BY <1>1 DEF ListenerInv, ListenerTypes
<1> QED BY <1>1, <1>2, <1>3, <1>4, RetiringStep

\* A transaction ends when it has nothing left to retire or to close.
LEMMA EndStep ==
    ASSUME ListenerInv, Replaced \/ Rejected
    PROVE  ListenerInv'
<1> USE DEF services, chains
<1>1. /\ UNCHANGED <<active, xdsManaged, services, chains, refresh, call, seen, unrestored, used>>
      /\ stage \in {"retire", "reject"} /\ stage' = "idle" /\ txn' = noTxn
    BY DEF Replaced, Rejected
<1>2. txn.prepared = NoEntries /\ txn.staged = NoEntries /\ txn.retired = {} /\ txn.removed = {}
    BY DEF Replaced, Rejected, ListenerInv, TxnOK
<1>3. /\ txn'.next = {} /\ txn'.todo = {} /\ txn'.prepared = NoEntries /\ txn'.staged = NoEntries
      /\ txn'.handoffs = NoEntries /\ txn'.closed = {} /\ txn'.retired = {} /\ txn'.removed = {}
      /\ txn' \in Transaction
  <2>1. txn' \in [next : {{}}, todo : {{}}, prepared : {NoEntries}, staged : {NoEntries},
                  handoffs : {NoEntries}, closed : {{}}, retired : {{}}, removed : {{}}]
      BY <1>1 DEF noTxn
  <2>2. /\ NoEntries \in [ListenerKey -> Nat \cup {NoId}]
        /\ NoEntries \in [ListenerKey -> ListenerKey \cup {NoId}]
      BY DEF NoEntries
  <2> QED BY <2>1, <2>2 DEF Transaction
<1>4. \A k \in ListenerKey : NoEntries[k] = NoId BY DEF NoEntries
<1>5. generation' = generation /\ generation \in Nat BY <1>1, ListenerPartTypes DEF generation
<1>6. ListenerTypes' BY <1>1, <1>3 DEF ListenerInv, ListenerTypes, ServiceId, ChainId
<1>7. CallsOK' /\ CountsOK' /\ GenerationsOK' BY <1>1, <1>5, QuietStep DEF Gated
<1>8. ReachOK' BY <1>1, <1>2, <1>3 DEF ListenerInv, ReachOK, Reached, ServiceId, ChainId
<1>9. ServicesOK' BY <1>1, <1>3, <1>4 DEF ListenerInv, ServicesOK, ServiceId, ChainId
<1>10. TxnOK' BY <1>1, <1>3, <1>4 DEF TxnOK, Gated
<1>11. HandoffsOK' BY <1>1, <1>3 DEF HandoffsOK
<1>12. ServingOK' BY <1>1, <1>3 DEF ListenerInv, ServingOK, Serving
<1> QED BY <1>6, <1>7, <1>8, <1>9, <1>10, <1>11, <1>12 DEF ListenerInv

\* A service that no key has is closed: its chain is retired.
LEMMA CloseServiceStep ==
    ASSUME ListenerInv, NEW s \in ServiceId, CloseService(s), Readers = {},
           UNCHANGED <<active, xdsManaged, chain, stage, refresh, call, seen, unrestored, used>>,
           stage \in {"retire", "reject"}, \A n \in ListenerKey : active[n] # s,
           txn' \in Transaction,
           txn'.next = txn.next, txn'.todo = txn.todo, txn'.prepared = txn.prepared,
           txn'.handoffs = txn.handoffs, txn'.closed = txn.closed, txn'.retired = txn.retired,
           txn'.removed \subseteq txn.removed,
           stage = "retire" => txn'.staged = txn.staged,
           \A n \in ListenerKey : txn'.staged[n] \in {txn.staged[n], NoId} /\ txn'.staged[n] # s
    PROVE  ListenerInv'
<1>1. /\ listenerService' = [listenerService EXCEPT ![s].chain = NoId]
      /\ bound' = bound \ {s} /\ accepting' = accepting \ {s}
    BY DEF CloseService, CloseFilterChain
<1>2. /\ listenerService' \in Seq(ServiceRecord) /\ ServiceId' = ServiceId
      /\ listenerService'[s].chain = NoId
      /\ \A n \in ServiceId : n # s => listenerService'[n] = listenerService[n]
      /\ \A n \in ServiceId : listenerService'[n].key = listenerService[n].key
    BY <1>1, ServiceChainStep
<1>3. /\ CountsOK' /\ retiredChains' \subseteq ChainId /\ retiredChains \subseteq retiredChains'
      /\ listenerService[s].chain # NoId => listenerService[s].chain \in retiredChains'
  <2>1. CASE listenerService[s].chain = NoId
    <3>1. UNCHANGED <<retiredChains, closedChains>> BY <2>1 DEF CloseService
    <3> QED BY <2>1, <3>1 DEF ListenerInv, CountsOK, Runs, ChainId, ListenerTypes
  <2>2. CASE listenerService[s].chain # NoId
    <3>1. PICK c \in ChainId : c = listenerService[s].chain BY <2>2 DEF ListenerInv, ServicesOK
    <3>2. retire(c) BY <2>2, <3>1 DEF CloseService
    <3> QED BY <3>1, <3>2, RetireStep
  <2> QED BY <2>1, <2>2
<1>4. generation' = generation BY DEF generation
<1>5. ChainId' = ChainId BY DEF ChainId
<1>6. ListenerTypes' BY <1>1, <1>2, <1>3, <1>5 DEF ListenerInv, ListenerTypes
<1>7. CallsOK' BY <1>2, <1>5 DEF ListenerInv, CallsOK
<1>8. ReachOK'
  <2>1. ASSUME NEW c \in ChainId, c \notin retiredChains', Reached(c) PROVE Reached(c)'
    <3>1. CASE \E n \in ServiceId : listenerService[n].chain = c
      <4>1. PICK n \in ServiceId : listenerService[n].chain = c BY <3>1
      <4>2. c # NoId BY ListenerAssumption DEF ChainId
      <4>3. n # s BY <1>3, <2>1, <4>1, <4>2
      <4> QED BY <1>2, <4>1, <4>3 DEF Reached
    <3>2. CASE ~ \E n \in ServiceId : listenerService[n].chain = c BY <2>1, <3>2 DEF Reached
    <3> QED BY <3>1, <3>2
  <2> QED BY <1>3, <1>5, <2>1 DEF ListenerInv, ReachOK
<1>9. ServicesOK'
  <2>1. \A n \in ServiceId : listenerService'[n].chain \in ChainId \cup {NoId}
      BY <1>2 DEF ListenerInv, ServicesOK
  <2>2. \A n \in ListenerKey : active[n] # NoId =>
          /\ active[n] \in ServiceId /\ listenerService'[active[n]].key = n
          /\ listenerService'[active[n]].chain # NoId
      BY <1>2, ActiveFacts
  <2>3. \A n \in accepting' : active[listenerService'[n].key] = n
      BY <1>1, <1>2 DEF ListenerInv, ServicesOK, ListenerTypes
  <2>4. \A n \in ListenerKey : txn'.staged[n] # NoId =>
          /\ txn'.staged[n] \in ServiceId /\ listenerService'[txn'.staged[n]].key = n
          /\ listenerService'[txn'.staged[n]].chain # NoId /\ active[n] = NoId
    <3> TAKE n \in ListenerKey
    <3> HAVE txn'.staged[n] # NoId
    <3>1. txn'.staged[n] = txn.staged[n] /\ txn.staged[n] # s OBVIOUS
    <3>2. /\ txn.staged[n] \in ServiceId /\ listenerService[txn.staged[n]].key = n
          /\ listenerService[txn.staged[n]].chain # NoId /\ active[n] = NoId
        BY <3>1, StagedFacts
    <3>3. listenerService'[txn.staged[n]] = listenerService[txn.staged[n]] BY <1>2, <3>1, <3>2
    <3> QED BY <3>1, <3>2, <3>3
  <2>5. \A n \in txn'.removed :
          /\ n \in ServiceId
          /\ active[listenerService'[n].key] # n /\ txn'.staged[listenerService'[n].key] # n
    <3> TAKE n \in txn'.removed
    <3>1. n \in ServiceId /\ n # NoId
        BY ListenerAssumption DEF ListenerInv, ServicesOK, ServiceId
    <3>2. PICK k \in ListenerKey : k = listenerService[n].key BY <3>1, ListenerPartTypes
    <3>3. active[k] # n /\ txn.staged[k] # n BY <3>2 DEF ListenerInv, ServicesOK
    <3> QED BY <1>2, <3>1, <3>2, <3>3
  <2> QED BY <1>2, <1>5, <2>1, <2>2, <2>3, <2>4, <2>5 DEF ServicesOK
<1>10. TxnOK'
  <2>1. \A k \in ListenerKey : txn.prepared[k] # NoId =>
          /\ txn.prepared[k] \in ChainId /\ chain[txn.prepared[k]].gen = generation
          /\ k \in xdsManaged /\ k \in txn.next /\ active[k] # NoId
      BY PreparedFacts
  <2>2. \A n \in ListenerKey : txn'.staged[n] # NoId =>
          n \in txn.next /\ chain[listenerService'[txn'.staged[n]].chain].gen = generation
    <3> TAKE n \in ListenerKey
    <3> HAVE txn'.staged[n] # NoId
    <3>1. txn'.staged[n] = txn.staged[n] /\ txn.staged[n] # s OBVIOUS
    <3>2. listenerService'[txn.staged[n]] = listenerService[txn.staged[n]] BY <1>2, <3>1, StagedFacts
    <3> QED BY <3>1, <3>2, StagedFacts
  <2>3. /\ txn.retired \subseteq ChainId
        /\ stage = "reject" => txn'.retired = {} /\ txn'.removed = {}
        /\ stage = "retire" => txn'.prepared = NoEntries /\ txn'.staged = NoEntries
        /\ txn.todo \subseteq txn.next
      BY DEF ListenerInv, TxnOK
  <2>4. \A k \in txn.todo : txn.prepared[k] = NoId /\ txn'.staged[k] = NoId
      BY ListenerPartTypes DEF ListenerInv, TxnOK
  <2> QED BY <1>4, <1>5, <2>1, <2>2, <2>3, <2>4 DEF TxnOK, Gated
<1>11. HandoffsOK' BY DEF ListenerInv, HandoffsOK, Entries
<1>12. ServingOK'
  <2>1. \A k \in xdsManaged \ unrestored : Serving(k) /\ k \in ListenerKey
      BY DEF ListenerInv, ServingOK, ListenerTypes
  <2>2. \A k \in xdsManaged \ unrestored : Serving(k)' BY <1>1, <2>1 DEF Serving
  <2> QED BY <2>2 DEF ServingOK
<1>13. GenerationsOK'
  <2>1. PICK g \in 0..generation : OneGeneration(g) BY DEF ListenerInv, GenerationsOK
  <2>2. \A k \in ListenerKey : active[k] # NoId => Gen(k)' = Gen(k)
    <3> TAKE k \in ListenerKey
    <3> HAVE active[k] # NoId
    <3>1. listenerService'[active[k]] = listenerService[active[k]] BY <1>2, ActiveFacts
    <3> QED BY <3>1 DEF Gen
  <2>3. \A r \in Call : call[r].pc # "loaded" BY DEF Readers
  <2>4. OneGeneration(g)' BY <1>4, <2>1, <2>2, <2>3 DEF OneGeneration
  <2> QED BY <1>4, <2>4 DEF GenerationsOK, Gated
<1> QED BY <1>3, <1>6, <1>7, <1>8, <1>9, <1>10, <1>11, <1>12, <1>13 DEF ListenerInv

\* A listener that went is closed.
LEMMA CloseRemovedStep ==
    ASSUME ListenerInv, NEW s \in txn.removed, CloseRemoved(s)
    PROVE  ListenerInv'
<1>1. /\ UNCHANGED <<active, xdsManaged, chain, stage, refresh, call, seen, unrestored, used>>
      /\ stage = "retire" /\ Readers = {} /\ CloseService(s)
      /\ txn' = [txn EXCEPT !.removed = @ \ {s}]
    BY DEF CloseRemoved
<1>2. s \in ServiceId /\ active[listenerService[s].key] # s BY DEF ListenerInv, ServicesOK
<1>3. s # NoId BY <1>2, ListenerAssumption DEF ServiceId
<1>4. \A n \in ListenerKey : active[n] # s BY <1>2, <1>3, ActiveFacts
<1>5. /\ txn'.next = txn.next /\ txn'.todo = txn.todo /\ txn'.prepared = txn.prepared
      /\ txn'.staged = txn.staged /\ txn'.handoffs = txn.handoffs /\ txn'.closed = txn.closed
      /\ txn'.retired = txn.retired /\ txn'.removed = txn.removed \ {s} /\ txn' \in Transaction
    BY <1>1 DEF ListenerInv, ListenerTypes, Transaction
<1>6. \A n \in ListenerKey : txn.staged[n] = NoId BY <1>1 DEF ListenerInv, TxnOK, NoEntries
<1> QED BY <1>1, <1>2, <1>3, <1>4, <1>5, <1>6, CloseServiceStep

\* A staged service of a transaction that is refused is closed.
LEMMA closeStagedStep ==
    ASSUME ListenerInv, NEW k \in ListenerKey, closeStagedListeners(k)
    PROVE  ListenerInv'
<1>1. /\ UNCHANGED <<active, xdsManaged, chain, stage, refresh, call, seen, unrestored, used>>
      /\ stage = "reject" /\ txn.staged[k] # NoId /\ Readers = {} /\ CloseService(txn.staged[k])
      /\ txn' = [txn EXCEPT !.staged[k] = NoId]
    BY DEF closeStagedListeners, Entries
<1>2. PICK s \in ServiceId : s = txn.staged[k] BY <1>1, StagedFacts
<1>3. listenerService[s].key = k /\ active[k] = NoId /\ s # NoId BY <1>1, <1>2, StagedFacts
<1>4. \A n \in ListenerKey : active[n] # s BY <1>3, ActiveFacts
<1>5. /\ txn'.next = txn.next /\ txn'.todo = txn.todo /\ txn'.prepared = txn.prepared
      /\ txn'.staged = [txn.staged EXCEPT ![k] = NoId]
      /\ txn'.handoffs = txn.handoffs /\ txn'.closed = txn.closed
      /\ txn'.retired = txn.retired /\ txn'.removed = txn.removed /\ txn' \in Transaction
    BY <1>1 DEF ListenerInv, ListenerTypes, Transaction
<1>6. \A n \in ListenerKey : txn'.staged[n] = IF n = k THEN NoId ELSE txn.staged[n]
    BY <1>5, ListenerPartTypes
<1>7. \A n \in ListenerKey : n # k => txn.staged[n] # s BY <1>3, StagedFacts
<1> QED BY <1>1, <1>2, <1>3, <1>4, <1>5, <1>6, <1>7, CloseServiceStep

\* A reload gives one listener another chain of the same generation.
LEMMA UpdateStep ==
    ASSUME ListenerInv, NEW k \in ListenerKey, UpdateListenerService(k)
    PROVE  ListenerInv'
<1>1. /\ UNCHANGED <<active, xdsManaged, bound, accepting, retiredChains, closedChains, stage, txn, call,
                     seen, unrestored>>
      /\ stage \notin Locked /\ refresh = NoId /\ active[k] # NoId /\ Readers = {}
      /\ chain' = Append(chain, newChain(chain[listenerService[active[k]].chain].gen))
      /\ refresh' = listenerService[active[k]].chain
      /\ listenerService' = [listenerService EXCEPT ![active[k]].chain = Len(chain')]
      /\ used' = [used EXCEPT !.refreshes = @ + 1]
    BY DEF UpdateListenerService
<1>2. PICK a \in ServiceId, old \in ChainId, gen \in Nat :
         a = active[k] /\ old = listenerService[active[k]].chain /\ gen = chain[old].gen
  <2>1. active[k] \in ServiceId /\ listenerService[active[k]].chain \in ChainId BY <1>1, ActiveFacts
  <2>2. \A c \in ChainId : chain[c].gen \in Nat BY ListenerPartTypes
  <2> QED BY <2>1, <2>2
<1>3. /\ chain' \in Seq(ChainRecord) /\ Len(chain') = Len(chain) + 1 /\ Len(chain') \in Nat
      /\ ChainId' = ChainId \cup {Len(chain')} /\ Len(chain') \notin ChainId
      /\ \A c \in ChainId : chain'[c] = chain[c]
      /\ chain'[Len(chain')].gen = gen
      /\ CountsOK'
  <2>1. chain' = Append(chain, newChain(gen)) BY <1>1, <1>2
  <2> QED BY <1>1, <2>1, GrowStep
<1>4. /\ listenerService' \in Seq(ServiceRecord) /\ ServiceId' = ServiceId
      /\ listenerService'[a].chain = Len(chain')
      /\ \A s \in ServiceId : s # a => listenerService'[s] = listenerService[s]
      /\ \A s \in ServiceId : listenerService'[s].key = listenerService[s].key
  <2>1. PICK new \in Nat : new = Len(chain') BY <1>3
  <2>2. listenerService' = [listenerService EXCEPT ![a].chain = new] BY <1>1, <1>2, <2>1
  <2> QED BY <2>1, <2>2, ServiceChainStep
<1>5. /\ generation' = generation /\ used' \in [replacements : Nat, refreshes : Nat, failures : Nat]
  <2>1. used \in [replacements : Nat, refreshes : Nat, failures : Nat]
      BY DEF ListenerInv, ListenerTypes
  <2>2. used' = [used EXCEPT !.refreshes = @ + 1] BY <1>1
  <2> QED BY <2>1, <2>2 DEF generation
<1>6. \A n \in ListenerKey : txn.staged[n] # a BY <1>1, <1>2, OtherService
<1>7. \A n \in ListenerKey : n # k => active[n] # a BY <1>1, <1>2, OtherService
<1>8. Len(chain') # NoId /\ NoId \notin ChainId BY <1>3, ListenerAssumption DEF ChainId
<1>9. stage \in {"idle", "retire", "reject"} BY <1>1 DEF ListenerInv, ListenerTypes, Locked, Gated
<1>10. ListenerTypes' BY <1>1, <1>2, <1>3, <1>4, <1>5 DEF ListenerInv, ListenerTypes
<1>11. CallsOK' BY <1>1, <1>3, <1>4 DEF ListenerInv, CallsOK
<1>12. ReachOK'
  <2>1. ASSUME NEW c \in ChainId, Reached(c) PROVE Reached(c)'
    <3>1. CASE \E s \in ServiceId : listenerService[s].chain = c
        BY <1>1, <1>2, <1>4, <3>1 DEF Reached
    <3>2. CASE (\E n \in ListenerKey : txn.prepared[n] = c) \/ c \in txn.retired
        BY <1>1, <3>2 DEF Reached
    <3> QED BY <1>1, <1>8, <2>1, <3>1, <3>2 DEF Reached
  <2>2. PICK new \in ChainId' : new = Len(chain') BY <1>3
  <2>3. Reached(new)' BY <1>4, <2>2 DEF Reached
  <2> QED BY <1>1, <1>3, <2>1, <2>2, <2>3 DEF ListenerInv, ReachOK
<1>13. ServicesOK'
  <2>1. \A s \in ServiceId : listenerService'[s].chain \in ChainId' \cup {NoId}
      BY <1>3, <1>4 DEF ListenerInv, ServicesOK
  <2>2. \A n \in ListenerKey : active[n] # NoId =>
          /\ active[n] \in ServiceId /\ listenerService'[active[n]].key = n
          /\ listenerService'[active[n]].chain # NoId
    <3> TAKE n \in ListenerKey
    <3> HAVE active[n] # NoId
    <3>1. /\ active[n] \in ServiceId /\ listenerService[active[n]].key = n
          /\ listenerService[active[n]].chain # NoId
        BY ActiveFacts
    <3> QED BY <1>4, <1>8, <3>1
  <2>3. \A s \in accepting : active[listenerService'[s].key] = s
      BY <1>4 DEF ListenerInv, ServicesOK, ListenerTypes
  <2>4. \A n \in ListenerKey : txn.staged[n] # NoId =>
          /\ txn.staged[n] \in ServiceId /\ listenerService'[txn.staged[n]].key = n
          /\ listenerService'[txn.staged[n]].chain # NoId /\ active[n] = NoId
    <3> TAKE n \in ListenerKey
    <3> HAVE txn.staged[n] # NoId
    <3>1. /\ txn.staged[n] \in ServiceId /\ listenerService[txn.staged[n]].key = n
          /\ listenerService[txn.staged[n]].chain # NoId /\ active[n] = NoId
        BY StagedFacts
    <3>2. listenerService'[txn.staged[n]] = listenerService[txn.staged[n]] BY <1>4, <1>6, <3>1
    <3> QED BY <3>1, <3>2
  <2>5. \A s \in txn.removed :
          /\ s \in ServiceId
          /\ active[listenerService'[s].key] # s /\ txn.staged[listenerService'[s].key] # s
      BY <1>4 DEF ListenerInv, ServicesOK
  <2> QED BY <1>1, <1>4, <2>1, <2>2, <2>3, <2>4, <2>5 DEF ServicesOK
<1>14. TxnOK'
  <2>1. \A n \in ListenerKey : txn.prepared[n] # NoId =>
          /\ txn.prepared[n] \in ChainId' /\ chain'[txn.prepared[n]].gen = generation
          /\ n \in xdsManaged /\ n \in txn.next /\ active[n] # NoId
      BY <1>3, PreparedFacts
  <2>2. \A n \in ListenerKey : txn.staged[n] # NoId =>
          n \in txn.next /\ chain'[listenerService'[txn.staged[n]].chain].gen = generation
    <3> TAKE n \in ListenerKey
    <3> HAVE txn.staged[n] # NoId
    <3>1. txn.staged[n] \in ServiceId /\ listenerService[txn.staged[n]].chain \in ChainId BY StagedFacts
    <3>2. listenerService'[txn.staged[n]] = listenerService[txn.staged[n]] BY <1>4, <1>6, <3>1
    <3> QED BY <1>3, <3>1, <3>2, StagedFacts
  <2> QED BY <1>1, <1>3, <1>5, <2>1, <2>2 DEF ListenerInv, TxnOK
<1>15. HandoffsOK' BY <1>1 DEF ListenerInv, HandoffsOK, Entries
<1>16. ServingOK' BY <1>1 DEF ListenerInv, ServingOK, Serving, Entries
<1>17. GenerationsOK'
  <2>1. PICK g \in 0..generation : OneGeneration(g) BY <1>9 DEF ListenerInv, GenerationsOK
  <2>2. \A n \in ListenerKey : active[n] # NoId => Gen(n)' = Gen(n)
    <3> TAKE n \in ListenerKey
    <3> HAVE active[n] # NoId
    <3>1. CASE n = k BY <1>1, <1>2, <1>3, <1>4, <3>1 DEF Gen
    <3>2. CASE n # k
      <4>1. active[n] \in ServiceId /\ listenerService[active[n]].chain \in ChainId BY ActiveFacts
      <4>2. listenerService'[active[n]] = listenerService[active[n]] BY <1>4, <1>7, <3>2, <4>1
      <4> QED BY <1>1, <1>3, <4>1, <4>2 DEF Gen
    <3> QED BY <3>1, <3>2
  <2>3. \A r \in Call : call[r].pc # "loaded" BY <1>1 DEF Readers
  <2>4. OneGeneration(g)' BY <1>1, <1>5, <2>1, <2>2, <2>3 DEF OneGeneration
  <2> QED BY <1>1, <1>5, <1>9, <2>4 DEF GenerationsOK, Gated
<1> QED BY <1>3, <1>10, <1>11, <1>12, <1>13, <1>14, <1>15, <1>16, <1>17 DEF ListenerInv

\* The listeners of the file have a service and a chain each.
LEMMA ListenersInitially == ListenersInit => ListenerInv
<1> SUFFICES ASSUME ListenersInit PROVE ListenerInv
    OBVIOUS
<1> DEFINE n == Cardinality(Static)
<1>1. n \in Nat BY ListenerAssumption, FS_CardinalityType
<1>2. PICK order \in Bijection(1..n, Static) :
         /\ listenerService = [s \in 1..n |-> [key |-> order[s], chain |-> s]]
         /\ bound = {} /\ accepting = 1..n
         /\ chain = [s \in 1..n |-> newChain(0)]
         /\ retiredChains = {} /\ closedChains = {}
         /\ active = [k \in ListenerKey |->
               IF k \in Static THEN CHOOSE s \in 1..n : order[s] = k ELSE NoId]
         /\ xdsManaged = {}
         /\ stage = "idle" /\ txn = noTxn /\ refresh = NoId
         /\ call = [r \in Call |-> [pc |-> "idle", service |-> NoId, chain |-> NoId]]
         /\ seen = 0 /\ unrestored = {}
         /\ used = [replacements |-> 0, refreshes |-> 0, failures |-> 0]
    BY DEF ListenersInit
<1> HIDE DEF n
<1>3. /\ order \in [1..n -> Static] /\ \A k \in Static : \E s \in 1..n : order[s] = k
      /\ \A s, t \in 1..n : order[s] = order[t] => s = t
    BY <1>2 DEF Bijection, Injection, Surjection, IsInjective
<1>4. \A s \in 1..n : order[s] \in ListenerKey BY <1>3, ListenerAssumption
<1>5. \A s \in 1..n : [key |-> order[s], chain |-> s] \in ServiceRecord BY <1>4 DEF ServiceRecord
<1>6. listenerService \in Seq(ServiceRecord) /\ Len(listenerService) = n /\ ServiceId = 1..n
    BY <1>1, <1>2, <1>5 DEF ServiceId
<1>7. \A s \in 1..n : listenerService[s].key = order[s] /\ listenerService[s].chain = s BY <1>2
<1>8. newChain(0) \in ChainRecord /\ newChain(0).refs = 0 BY DEF newChain, ChainRecord
<1>9. chain \in Seq(ChainRecord) /\ Len(chain) = n /\ ChainId = 1..n
    BY <1>1, <1>2, <1>8 DEF ChainId
<1>10. \A c \in 1..n : chain[c].refs = 0 /\ chain[c].gen = 0 BY <1>2 DEF newChain
<1>11. \A k \in ListenerKey :
         \/ k \in Static /\ active[k] \in 1..n /\ order[active[k]] = k
         \/ k \notin Static /\ active[k] = NoId
  <2> TAKE k \in ListenerKey
  <2>1. CASE k \in Static
    <3>1. active[k] = CHOOSE s \in 1..n : order[s] = k BY <1>2, <2>1
    <3>2. \E s \in 1..n : order[s] = k BY <1>3, <2>1
    <3> QED BY <2>1, <3>1, <3>2
  <2>2. CASE k \notin Static BY <1>2, <2>2
  <2> QED BY <2>1, <2>2
<1>12. active \in [ListenerKey -> Nat \cup {NoId}] BY <1>2, <1>11
<1>13. /\ txn.next = {} /\ txn.todo = {} /\ txn.prepared = NoEntries /\ txn.staged = NoEntries
       /\ txn.handoffs = NoEntries /\ txn.closed = {} /\ txn.retired = {} /\ txn.removed = {}
       /\ txn \in Transaction
  <2>1. txn \in [next : {{}}, todo : {{}}, prepared : {NoEntries}, staged : {NoEntries},
                 handoffs : {NoEntries}, closed : {{}}, retired : {{}}, removed : {{}}]
      BY <1>2 DEF noTxn
  <2>2. /\ NoEntries \in [ListenerKey -> Nat \cup {NoId}]
        /\ NoEntries \in [ListenerKey -> ListenerKey \cup {NoId}]
      BY DEF NoEntries
  <2> QED BY <2>1, <2>2 DEF Transaction
<1>14. \A k \in ListenerKey : NoEntries[k] = NoId BY DEF NoEntries
<1>15. call \in [Call -> CallRecord] /\ \A r \in Call : call[r].pc = "idle" BY <1>2 DEF CallRecord
<1>16. used \in [replacements : Nat, refreshes : Nat, failures : Nat] /\ generation = 0
    BY <1>2 DEF generation
<1>17. ListenerTypes BY <1>2, <1>6, <1>9, <1>12, <1>13, <1>15, <1>16 DEF ListenerTypes
<1>18. CallsOK BY <1>15 DEF CallsOK
<1>19. CountsOK
  <2>1. \A c : Runs(c) = {} BY <1>15 DEF Runs
  <2> QED BY <1>2, <1>9, <1>10, <2>1, FS_EmptySet DEF CountsOK
<1>20. ReachOK BY <1>6, <1>7, <1>9 DEF ReachOK, Reached
<1>21. ServicesOK
  <2>1. \A s \in accepting : active[listenerService[s].key] = s
    <3> TAKE s \in accepting
    <3>1. s \in 1..n /\ listenerService[s].key = order[s] BY <1>2, <1>7
    <3>2. order[s] \in Static BY <1>3, <3>1
    <3>3. active[order[s]] \in 1..n /\ order[active[order[s]]] = order[s]
        BY <1>4, <1>11, <3>1, <3>2
    <3> QED BY <1>3, <3>1, <3>3
  <2>2. \A k \in ListenerKey : active[k] # NoId =>
          /\ active[k] \in ServiceId /\ listenerService[active[k]].key = k
          /\ listenerService[active[k]].chain # NoId
    <3>1. \A s \in 1..n : s # NoId BY ListenerAssumption
    <3> QED BY <1>6, <1>7, <1>11, <3>1
  <2> QED BY <1>6, <1>7, <1>9, <1>13, <1>14, <2>1, <2>2 DEF ServicesOK
<1>22. TxnOK BY <1>2, <1>13, <1>14 DEF TxnOK, Gated
<1>23. HandoffsOK BY <1>2, <1>13 DEF HandoffsOK
<1>24. ServingOK BY <1>2 DEF ServingOK
<1>25. GenerationsOK
  <2>1. OneGeneration(0) BY <1>2, <1>11, <1>15, <1>16 DEF OneGeneration
  <2> QED BY <1>2, <1>16, <2>1 DEF GenerationsOK, Gated
<1> QED BY <1>17, <1>18, <1>19, <1>20, <1>21, <1>22, <1>23, <1>24, <1>25 DEF ListenerInv

\* Every step keeps the invariant.
LEMMA ListenersStep == ListenerInv /\ [ListenersNext]_listenerVars => ListenerInv'
<1> SUFFICES ASSUME ListenerInv, [ListenersNext]_listenerVars PROVE ListenerInv'
    OBVIOUS
<1>1. CASE Replacer
    BY <1>1, ReplaceStep, prepareStep, createStep, RejectStep, startStep, HandoffStep, CommitRefreshStep,
       CommitStagedStep, ClosePreparedStep, closeStagedStep, RetireReplacedStep, CloseRemovedStep,
       FindHandoffsStep, StagedBoundStep, rollbackStep, CommitRemovalStep, PublishStep, EndStep
    DEF Replacer
<1>2. CASE \E k \in ListenerKey : StartListen(k) \/ UpdateListenerService(k)
    BY <1>2, StartListenStep, UpdateStep
<1>3. CASE RetireRefreshed BY <1>3, RetireRefreshedStep
<1>4. CASE \E r \in Call :
         \/ \E s \in bound : AcceptCall(r, s)
         \/ WithFilterChain(r) \/ acquire(r) \/ release(r)
    BY <1>4, EnterStep, acquireStep, releaseStep
<1>5. CASE UNCHANGED listenerVars
  <2> USE <1>5 DEF listenerVars, services, chains
  <2>1. ListenerTypes' BY DEF ListenerInv, ListenerTypes, ServiceId, ChainId
  <2>2. CallsOK' BY DEF ListenerInv, CallsOK, ServiceId, ChainId
  <2>3. CountsOK' BY DEF ListenerInv, CountsOK, Runs, ChainId
  <2>4. ReachOK' BY DEF ListenerInv, ReachOK, Reached, ServiceId, ChainId
  <2>5. ServicesOK' BY DEF ListenerInv, ServicesOK, ServiceId, ChainId
  <2>6. TxnOK' BY DEF ListenerInv, TxnOK, ChainId, generation
  <2>7. HandoffsOK' BY DEF ListenerInv, HandoffsOK, Entries
  <2>8. ServingOK' BY DEF ListenerInv, ServingOK, Serving, Entries
  <2>9. GenerationsOK'
      BY DEF ListenerInv, GenerationsOK, OneGeneration, Gen, served, Readers, generation
  <2> QED BY <2>1, <2>2, <2>3, <2>4, <2>5, <2>6, <2>7, <2>8, <2>9 DEF ListenerInv
<1> QED BY <1>1, <1>2, <1>3, <1>4, <1>5 DEF ListenersNext

\* Only acquire takes a request from its chain being read to its running on it, so every
\* request that is let in gets the generation of the listeners.
LEMMA NoOlderStep ==
    ASSUME ListenerInv, [ListenersNext]_listenerVars, NEW r \in Call, call[r].pc = "loaded",
           call'[r].pc = "running", served(r).key \notin Static
    PROVE  chain[call[r].chain].gen >= seen
<1>1. call' # call OBVIOUS
<1>2. ~Replacer /\ ~RetireRefreshed
      /\ ~ \E k \in ListenerKey : StartListen(k) \/ UpdateListenerService(k)
    BY <1>1 DEF Replacer, ReplaceXDSListeners, prepareListenerRefreshSafely,
       createListenerServiceSafely, RejectListener, startListenerServiceSafely, Handoff, CommitRefresh,
       CommitStaged, ClosePreparedUpdate, closeStagedListeners, RetireReplaced, CloseRemoved, FindHandoffs,
       StagedBound, rollbackHandoffs, CommitRemoval, PublishListeners, Replaced, Rejected, StartListen,
       UpdateListenerService, RetireRefreshed
<1>3. PICK q \in Call : (\E s \in bound : AcceptCall(q, s)) \/ WithFilterChain(q) \/ acquire(q) \/ release(q)
    BY <1>1, <1>2 DEF ListenersNext, listenerVars
<1>4. call \in [Call -> CallRecord] BY DEF ListenerInv, ListenerTypes
<1>5. acquire(q) /\ q = r
  <2>1. call[q].pc \in {"idle", "arrived", "loaded", "running"}
        /\ \A p \in Call : p # q => call'[p] = call[p]
      BY <1>3, <1>4 DEF AcceptCall, WithFilterChain, acquire, release, CallRecord
  <2>2. q = r BY <2>1
  <2> QED BY <1>3, <2>2 DEF AcceptCall, WithFilterChain, acquire, release
<1> QED BY <1>5, acquireStep

\* A request runs on an open chain, whatever replaces or closes its listener meanwhile; a chain
\* that nobody can reach is closed; between transactions every listener of xDS serves; and the
\* listeners of one transaction change as one (ReplaceXDSListeners, UpdateListener,
\* WithFilterChain, filterChainSnapshot).
THEOREM ChainsStaySound == ListenersSpec => ChainsAreSound
<1>1. ListenerInv => NoClosedChain /\ NoChainLeaks /\ ManagedIsServing
  <2> SUFFICES ASSUME ListenerInv PROVE NoClosedChain /\ NoChainLeaks /\ ManagedIsServing
      OBVIOUS
  <2>1. NoClosedChain
    <3> SUFFICES ASSUME NEW r \in Call, call[r].pc = "running", call[r].chain \in closedChains
                 PROVE  FALSE
        BY DEF NoClosedChain
    <3>1. PICK c \in ChainId : c = call[r].chain BY DEF ListenerInv, CallsOK
    <3>2. chain[c].refs = 0 /\ chain[c].refs = Cardinality(Runs(c)) BY <3>1 DEF ListenerInv, CountsOK
    <3>3. r \in Runs(c) BY <3>1 DEF Runs
    <3>4. Runs(c) = {} BY <3>2, RunsFinite, FS_EmptySet
    <3> QED BY <3>3, <3>4
  <2>2. NoChainLeaks
    <3> SUFFICES ASSUME NEW c \in ChainId, c \notin closedChains PROVE Held(c)
        BY ListenerPartTypes DEF NoChainLeaks
    <3>1. CASE c \in retiredChains
      <4>1. chain[c].refs # 0 BY <3>1 DEF ListenerInv, CountsOK
      <4> QED BY <4>1, ListenerPartTypes DEF Held
    <3>2. CASE c \notin retiredChains
      <4>1. Reached(c) BY <3>2 DEF ListenerInv, ReachOK
      <4>2. c # NoId BY ListenerAssumption DEF ChainId
      <4>3. \A k \in ListenerKey : txn.prepared[k] = c => c \in Range(txn.prepared)
          BY ListenerPartTypes DEF Range
      <4> QED BY <4>1, <4>2, <4>3, ListenerPartTypes DEF Reached, Held
    <3> QED BY <3>1, <3>2
  <2>3. ManagedIsServing
    <3> SUFFICES ASSUME stage = "idle", NEW k \in xdsManaged \ unrestored
                 PROVE  /\ active[k] # NoId
                        /\ active[k] \in bound /\ active[k] \in accepting
                        /\ listenerService[active[k]].chain # NoId
        BY DEF ManagedIsServing
    <3>1. k \in ListenerKey /\ Serving(k) BY DEF ListenerInv, ListenerTypes, ServingOK
    <3> QED BY <3>1, ActiveFacts DEF Serving
  <2> QED BY <2>1, <2>2, <2>3
<1>2. ListenerInv /\ [ListenersNext]_listenerVars =>
        [\A r \in Call :
           (call[r].pc = "loaded" /\ call'[r].pc = "running" /\ served(r).key \notin Static)
             => chain[call[r].chain].gen >= seen]_listenerVars
    BY NoOlderStep
<1> QED
    BY <1>1, <1>2, ListenersInitially, ListenersStep, PTL DEF ListenersSpec, ChainsAreSound, NoOlderAfterNewer
===============================================================================
