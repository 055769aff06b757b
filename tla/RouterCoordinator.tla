-------------------------- MODULE RouterCoordinator --------------------------
(***************************************************************************)
(* The route table of one HTTP connection manager                          *)
(* (pkg/common/router/router.go).  Registry adapters call OnAddRouter and  *)
(* OnDeleteRouter through the RouterManager; both edit nextSnapshot under  *)
(* the mutex and (re)arm a debounce timer.  A goroutine started with the   *)
(* timer waits for it outside the mutex, then locks, publishes an          *)
(* immutable snapshot for the request path and forgets the timer.          *)
(*                                                                         *)
(* Timer objects and waiting goroutines are explicit, because the hand-off *)
(* between "the timer fired" and "the goroutine holds the mutex" is where  *)
(* an edit can slip in.                                                    *)
(***************************************************************************)
EXTENDS Naturals, Sequences

CONSTANTS
    RouterID,    \* route IDs; two routes may carry the same one
    Node,        \* trie nodes, one per method and path identity
    MaxRoutes,   \* bound: length of nextSnapshot
    TimerObj,    \* time.Timer objects that can be alive at once
    Waiter,      \* goroutines running awaitAndPublish that can be alive at once
    NoTimer      \* the nil *time.Timer

ASSUME RouterAssumption ==
    /\ MaxRoutes \in Nat
    /\ NoTimer \notin TimerObj

\* model.Router: an ID and the trie nodes its methods and path put it in; a
\* route that only asks for headers is in none.
Router == [id : RouterID, nodes : SUBSET Node]

VARIABLES
    nextSnapshot,  \* the edited route list
    mainSnapshot,  \* the published RouteSnapshot
    timer,         \* rm.timer
    channel,       \* per timer object: "armed", "fired" (value ready) or "drained"
    waiter         \* per goroutine: what it is doing and the timer it reads

vars == <<nextSnapshot, mainSnapshot, timer, channel, waiter>>

-----------------------------------------------------------------------------
(***************************************************************************)
(* ToSnapshot: header-only routes are kept apart, in order; the others are *)
(* appended to the ordered candidate list of each of their trie nodes.     *)
(***************************************************************************)
ToSnapshot(routes) ==
    [headerOnly |-> SelectSeq(routes, LAMBDA r : r.nodes = {}),
     candidates |-> [n \in Node |-> SelectSeq(routes, LAMBDA r : n \in r.nodes)]]

\* The routes OnDeleteRouter keeps.
Without(routes, id) == SelectSeq(routes, LAMBDA r : r.id # id)

Asleep == [state |-> "asleep", reads |-> NoTimer]

\* A timer object no goroutine and no coordinator field refers to is garbage.
Unreferenced(t) == t # timer /\ \A w \in Waiter : waiter[w].reads # t

-----------------------------------------------------------------------------
\* CreateRouterCoordinator: the configured routes are published at once.
Init ==
    /\ nextSnapshot \in {<<>>} \cup {<<r>> : r \in Router}
    /\ mainSnapshot = ToSnapshot(nextSnapshot)
    /\ timer = NoTimer
    /\ channel = [t \in TimerObj |-> "drained"]
    /\ waiter = [w \in Waiter |-> Asleep]

(***************************************************************************)
(* schedulePublishLocked: the first edit creates a timer and a goroutine;  *)
(* later edits stop it, drain its channel and reset it.                    *)
(***************************************************************************)
StartsWaiter(w) ==
    waiter' = [waiter EXCEPT ![w] = [state |-> "started", reads |-> NoTimer]]

NewTimer ==
    /\ timer = NoTimer
    /\ \E t \in TimerObj, w \in Waiter :
          /\ Unreferenced(t)
          /\ waiter[w] = Asleep
          /\ timer' = t
          /\ channel' = [channel EXCEPT ![t] = "armed"]
          /\ StartsWaiter(w)

\* Mutant: Stop and drain without the Reset that follows.
StopWithoutReset ==
    /\ timer # NoTimer
    /\ channel' = [channel EXCEPT ![timer] = "drained"]
    /\ UNCHANGED <<timer, waiter>>

ResetTimer ==
    /\ timer # NoTimer
    /\ channel' = [channel EXCEPT ![timer] = "armed"]
    /\ UNCHANGED <<timer, waiter>>

schedulePublishLocked == NewTimer \/ ResetTimer

OnAddRouter(r) ==
    /\ Len(nextSnapshot) < MaxRoutes
    /\ nextSnapshot' = Append(nextSnapshot, r)
    /\ schedulePublishLocked
    /\ UNCHANGED mainSnapshot

\* An empty list returns before anything is scheduled.
OnDeleteRouter(id) ==
    /\ nextSnapshot # <<>>
    /\ nextSnapshot' = Without(nextSnapshot, id)
    /\ schedulePublishLocked
    /\ UNCHANGED mainSnapshot

\* The runtime delivers the debounce timeout into the timer's channel.
TimerFires(t) ==
    /\ channel[t] = "armed"
    /\ channel' = [channel EXCEPT ![t] = "fired"]
    /\ UNCHANGED <<nextSnapshot, mainSnapshot, timer, waiter>>

(***************************************************************************)
(* awaitAndPublish, in its three steps: evaluate rm.timer.C without the    *)
(* mutex, receive from it, then lock and publish.                          *)
(***************************************************************************)
AwaitEvaluatesTimer(w) ==
    /\ waiter[w].state = "started"
    /\ waiter' = [waiter EXCEPT ![w] =
                    [state |-> IF timer = NoTimer THEN "panicked" ELSE "waiting",
                     reads |-> timer]]
    /\ UNCHANGED <<nextSnapshot, mainSnapshot, timer, channel>>

Receives(w) ==
    /\ waiter[w].state = "waiting"
    /\ channel[waiter[w].reads] = "fired"
    /\ channel' = [channel EXCEPT ![waiter[w].reads] = "drained"]
    /\ waiter' = [waiter EXCEPT ![w].state = "woken"]
    /\ UNCHANGED <<nextSnapshot, mainSnapshot>>

AwaitReceives(w) == Receives(w) /\ UNCHANGED timer

publishLocked == mainSnapshot' = ToSnapshot(nextSnapshot)

\* Mutant: rm.timer is not forgotten after publishing.
PublishesKeepingTimer(w) ==
    /\ waiter[w].state = "woken"
    /\ publishLocked
    /\ waiter' = [waiter EXCEPT ![w] = Asleep]
    /\ UNCHANGED <<nextSnapshot, channel, timer>>

AwaitPublishes(w) ==
    /\ waiter[w].state = "woken"
    /\ publishLocked
    /\ timer' = NoTimer
    /\ waiter' = [waiter EXCEPT ![w] = Asleep]
    /\ UNCHANGED <<nextSnapshot, channel>>

Edit ==
    \/ \E r \in Router : OnAddRouter(r)
    \/ \E id \in RouterID : OnDeleteRouter(id)

Next ==
    \/ Edit
    \/ \E t \in TimerObj : TimerFires(t)
    \/ \E w \in Waiter :
          AwaitEvaluatesTimer(w) \/ AwaitReceives(w) \/ AwaitPublishes(w)

(***************************************************************************)
(* An armed timer fires and a runnable goroutine runs: the Go runtime      *)
(* gives both.  Nothing is assumed about the adapters.                     *)
(***************************************************************************)
Fairness ==
    /\ \A t \in TimerObj : WF_vars(TimerFires(t))
    /\ \A w \in Waiter :
          WF_vars(AwaitEvaluatesTimer(w) \/ AwaitReceives(w) \/ AwaitPublishes(w))

Spec == Init /\ [][Next]_vars /\ Fairness

-----------------------------------------------------------------------------
\* The state of the debounce machinery; "panicked", what a nil rm.timer makes
\* of awaitAndPublish, is not among the states of a goroutine.
TypeOK ==
    /\ timer \in TimerObj \cup {NoTimer}
    /\ channel \in [TimerObj -> {"armed", "fired", "drained"}]
    /\ waiter \in [Waiter -> [state : {"asleep", "started", "waiting", "woken"},
                              reads : TimerObj \cup {NoTimer}]]

Awake(w) == waiter[w] # Asleep

\* A goroutine on its way to publish: it has not received yet, and the channel
\* it will read can still deliver, or it has received and waits for the mutex.
WillPublish(w) ==
    \/ waiter[w].state = "started" /\ channel[timer] \in {"armed", "fired"}
    \/ /\ waiter[w].state = "waiting"
       /\ waiter[w].reads = timer
       /\ channel[timer] \in {"armed", "fired"}
    \/ waiter[w].state = "woken"

(***************************************************************************)
(* An edit that the request path does not see yet is owned by a goroutine  *)
(* that will publish it: no edit is lost between the timer firing and the  *)
(* goroutine of awaitAndPublish taking the mutex.                          *)
(***************************************************************************)
NoEditForgotten ==
    mainSnapshot # ToSnapshot(nextSnapshot) => \E w \in Waiter : WillPublish(w)

(***************************************************************************)
(* awaitAndPublish reads rm.timer without the mutex, and its receive is    *)
(* separate from the store of nil: still the coordinator has a goroutine   *)
(* exactly while it has a timer, and never two.                            *)
(***************************************************************************)
OneWaiterPerTimer ==
    /\ \A v, w \in Waiter : Awake(v) /\ Awake(w) => v = w
    /\ (timer # NoTimer) <=> (\E w \in Waiter : Awake(w))

(***************************************************************************)
(* Once the adapters stop calling, the request path gets the last edit and *)
(* keeps it.  While calls keep arriving within the debounce window, a      *)
(* delete of an unknown ID included, schedulePublishLocked resets the      *)
(* timer again and again: the code promises nothing then.                  *)
(***************************************************************************)
LastEditPublished ==
    <>[][~Edit]_vars => <>[](mainSnapshot = ToSnapshot(nextSnapshot))
=============================================================================
