------------------------------- MODULE McpSession -------------------------------
(***************************************************************************)
(* The sessions of the MCP server filter (filter/mcp/mcpserver/transport/  *)
(* session_manager.go): their creation at a capacity, expiry and removal,  *)
(* the router plans they own (router/session_plan.go), the event stream a  *)
(* client may attach, and the tools/list_changed notifications that wait   *)
(* for it (notification.go, filter.go).                                    *)
(*                                                                         *)
(* Session IDs are random and stand for the generation that guards them,   *)
(* so each is used once.  A session is expired when the clock says so: any *)
(* session may be, except one whose initialize is under way.  Time, the    *)
(* text of messages and the parsing of headers are left out.               *)
(***************************************************************************)
EXTENDS Naturals, FiniteSets, FiniteSetTheorems, TLAPS

CONSTANTS
    Session,     \* session IDs in the order they are issued: 1 .. n
    Initializer, \* initialize requests that can be under way
    Request,     \* other requests that commit a plan
    Flusher,     \* goroutines in flushToolsListChangedNotification
    Idle,
    MaxEntries,  \* capacity of the manager and of the plan store
    MaxMarks,    \* bound: changes marked per session
    MaxStreams   \* bound: streams attached per session

VARIABLES
    sessions, \* live sessions
    closed,   \* sessions that were removed
    stopped,  \* Stop: no, stopping (the handlers run), yes
    removals, \* sessions removed whose handlers have not run, by the thread that has to run them
    active,   \* SessionPlanStore.activeSessions
    plans,    \* sessions with a plan
    init,     \* per initializer: Idle, or [at, session]
    commits,  \* per request: Idle, or the session whose plan it will commit
    known,    \* sessions whose ID the client was given
    version, notified, \* toolListChangeVersion, lastNotifiedToolListVersion
    covered,  \* version at the time of the last notification the client got
    streamSeq, stream, \* the token last issued, and the one attached (0: none)
    broken,   \* pairs of session and token whose client has gone
    pipes,    \* maintainSSEPipe goroutines: pairs of session and token
    flush     \* per flusher: Idle, or [at, session, version, token]

planVars == <<active, plans, commits>>
createVars == <<sessions, closed, stopped, removals, init, known>>
streamVars == <<streamSeq, stream, broken, pipes>>
noticeVars == <<version, notified, covered, flush>>
vars == <<createVars, planVars, streamVars, noticeVars>>

Live(s) == s \in sessions
Unused == Session \ (sessions \cup closed)
Fresh == CHOOSE s \in Unused : \A t \in Unused : s <= t
Initializing == {init[i].session : i \in {j \in Initializer : init[j] # Idle /\ init[j].at = "activate"}}

-----------------------------------------------------------------------------
(***************************************************************************)
(* The session manager                                                     *)
(***************************************************************************)
\* removeSessionLocked of every session in gone: close takes its stream away.
RemoveLocked(gone) ==
    /\ sessions' = sessions \ gone
    /\ closed' = closed \cup gone
    /\ stream' = [s \in Session |-> IF s \in gone THEN 0 ELSE stream[s]]

Issues(i) ==
    /\ Unused # {}
    /\ sessions' = sessions \cup {Fresh}
    /\ init' = [init EXCEPT ![i] = [at |-> "activate", session |-> Fresh]]

\* CreateSession below the capacity.
CreateSession(i) ==
    /\ init[i] = Idle /\ stopped = "no"
    /\ Cardinality(sessions) < MaxEntries
    /\ Issues(i)
    /\ UNCHANGED <<closed, stopped, removals, known, planVars, streamVars, noticeVars>>

\* At the capacity: expired sessions go, and their handlers run without the lock.
CreateAtCapacity(i) ==
    \E expired \in SUBSET (sessions \ Initializing) :
        /\ init[i] = Idle /\ stopped = "no"
        /\ Cardinality(sessions) >= MaxEntries
        /\ RemoveLocked(expired)
        /\ removals' = removals \cup {<<i, s>> : s \in expired}
        /\ init' = [init EXCEPT ![i] = IF expired = {} THEN Idle ELSE [at |-> "recheck", session |-> 0]]
        /\ UNCHANGED <<stopped, known, planVars, streamSeq, broken, pipes, noticeVars>>

\* Its handlers done, CreateSession locks again and looks again.
Recheck(i) ==
    /\ init[i] # Idle /\ init[i].at = "recheck"
    /\ ~\E r \in removals : r[1] = i
    /\ \/ stopped = "no" /\ Cardinality(sessions) < MaxEntries /\ Issues(i)
       \/ /\ stopped # "no" \/ Cardinality(sessions) >= MaxEntries
          /\ init' = [init EXCEPT ![i] = Idle]
          /\ UNCHANGED sessions
    /\ UNCHANGED <<closed, stopped, removals, known, planVars, streamVars, noticeVars>>

\* cleanupExpiredSessions, and getSession of an expired session.
Expire(s) ==
    /\ Live(s) /\ s \notin Initializing
    /\ RemoveLocked({s})
    /\ removals' = removals \cup {<<Idle, s>>}
    /\ UNCHANGED <<stopped, init, known, planVars, streamSeq, broken, pipes, noticeVars>>

\* SessionManager.Stop
Stop ==
    /\ stopped = "no"
    /\ stopped' = "stopping"
    /\ RemoveLocked(sessions)
    /\ removals' = removals \cup {<<Idle, s>> : s \in sessions}
    /\ UNCHANGED <<init, known, planVars, streamSeq, broken, pipes, noticeVars>>

-----------------------------------------------------------------------------
\* callRemovedHandlers: SessionPlanStore.DeleteSession.
DeleteSession(r) ==
    /\ r \in removals
    /\ removals' = removals \ {r}
    /\ active' = active \ {r[2]}
    /\ plans' = plans \ {r[2]}
    /\ UNCHANGED <<sessions, closed, stopped, init, known, commits, streamVars, noticeVars>>

\* SessionPlanStore.Stop, after the sessions' handlers.
StopPlans ==
    /\ stopped = "stopping" /\ ~\E s \in Session : <<Idle, s>> \in removals
    /\ stopped' = "yes"
    /\ active' = {} /\ plans' = {}
    /\ UNCHANGED <<sessions, closed, removals, init, known, commits, streamVars, noticeVars>>

\* handleInitialize goes on: the session owns plans, and the client learns its ID.
ActivateSession(i) ==
    /\ init[i] # Idle /\ init[i].at = "activate"
    /\ active' = active \cup {init[i].session}
    /\ known' = known \cup {init[i].session}
    /\ init' = [init EXCEPT ![i] = Idle]
    /\ UNCHANGED <<sessions, closed, stopped, removals, plans, commits, streamVars, noticeVars>>

\* A request finds its session valid and selects tools for it.
BeginSelect(q, s) ==
    /\ commits[q] = Idle /\ s \in known /\ Live(s)
    /\ commits' = [commits EXCEPT ![q] = s]
    /\ UNCHANGED <<active, plans, createVars, streamVars, noticeVars>>

\* Mutant: the plan is stored whether or not its session still owns plans.
CommitUnguarded(q) ==
    LET s == commits[q] IN
    /\ s # Idle
    /\ plans' = IF s \in plans \/ Cardinality(plans) < MaxEntries THEN plans \cup {s} ELSE plans
    /\ commits' = [commits EXCEPT ![q] = Idle]
    /\ UNCHANGED <<active, createVars, streamVars, noticeVars>>

Commit(q) ==
    LET s == commits[q] IN
    /\ s # Idle
    /\ plans' = IF s \in active /\ (s \in plans \/ Cardinality(plans) < MaxEntries)
                THEN plans \cup {s} ELSE plans
    /\ commits' = [commits EXCEPT ![q] = Idle]
    /\ UNCHANGED <<active, createVars, streamVars, noticeVars>>

-----------------------------------------------------------------------------
(***************************************************************************)
(* Streams                                                                 *)
(***************************************************************************)
Starts(f, s) == flush[f] = Idle /\ flush' = [flush EXCEPT ![f] = [at |-> "pending", session |-> s,
                                                                  version |-> 0, token |-> 0]]

\* handleGetRequest: AttachStream replaces the stream of a session that is not
\* closed and starts the goroutines that keep it and that flush to it.
AttachStream(s, f) ==
    LET token == streamSeq[s] + 1 IN
    /\ s \in known /\ Live(s) /\ token <= MaxStreams
    /\ streamSeq' = [streamSeq EXCEPT ![s] = token]
    /\ stream' = [stream EXCEPT ![s] = token]
    /\ pipes' = pipes \cup {<<s, token>>}
    /\ Starts(f, s)
    /\ UNCHANGED <<broken, version, notified, covered, createVars, planVars>>

ClientGone(s) ==
    /\ stream[s] # 0 /\ <<s, stream[s]>> \notin broken
    /\ broken' = broken \cup {<<s, stream[s]>>}
    /\ UNCHANGED <<streamSeq, stream, pipes, createVars, planVars, noticeVars>>

\* maintainSSEPipe returns: its client or its session has gone, or a keepalive
\* finds another stream in its place.  DetachStream looks at the token.
DetachStream(s, token) ==
    /\ <<s, token>> \in pipes
    /\ <<s, token>> \in broken \/ ~Live(s) \/ stream[s] # token
    /\ pipes' = pipes \ {<<s, token>>}
    /\ stream' = [stream EXCEPT ![s] = IF @ = token THEN 0 ELSE @]
    /\ UNCHANGED <<streamSeq, broken, createVars, planVars, noticeVars>>

-----------------------------------------------------------------------------
(***************************************************************************)
(* Notifications                                                           *)
(***************************************************************************)
\* markToolsListChangedAndFlush: a closed session is not marked.
MarkToolsListChanged(s, f) ==
    /\ Live(s) /\ version[s] < MaxMarks
    /\ version' = [version EXCEPT ![s] = @ + 1]
    /\ Starts(f, s)
    /\ UNCHANGED <<notified, covered, createVars, planVars, streamVars>>

FlushAt(f, step) == flush[f] # Idle /\ flush[f].at = step

FlushesAs(f, next) ==
    /\ flush' = [flush EXCEPT ![f] = next]
    /\ UNCHANGED <<version, createVars, planVars, streamVars>>

\* PendingToolsListChangedVersion
FlushReads(f) ==
    LET s == flush[f].session IN
    /\ FlushAt(f, "pending")
    /\ FlushesAs(f, IF version[s] > notified[s]
                    THEN [flush[f] EXCEPT !.at = "stream", !.version = version[s]] ELSE Idle)
    /\ UNCHANGED <<notified, covered>>

\* HasPipeWriter, and the stream WriteSSEData takes; the second looks again,
\* so the message goes to the stream of that moment.
FlushTakesStream(f) ==
    LET s == flush[f].session IN
    /\ FlushAt(f, "stream")
    /\ FlushesAs(f, IF stream[s] = 0 THEN Idle
                    ELSE [flush[f] EXCEPT !.at = "write", !.token = stream[s]])
    /\ UNCHANGED <<notified, covered>>

\* The write ends with an error when the pipe is closed or its client has gone.
FlushWrites(f) ==
    LET s == flush[f].session
        ok == stream[s] = flush[f].token /\ <<s, flush[f].token>> \notin broken
    IN
    /\ FlushAt(f, "write")
    /\ FlushesAs(f, IF ok THEN [flush[f] EXCEPT !.at = "mark"] ELSE Idle)
    /\ covered' = IF ok THEN [covered EXCEPT ![s] = version[s]] ELSE covered
    /\ UNCHANGED notified

\* Mutant: the mark is never made and the notification sent again and again.
MarkNothing(f) ==
    /\ FlushAt(f, "mark")
    /\ FlushesAs(f, [flush[f] EXCEPT !.at = "pending"])
    /\ UNCHANGED <<notified, covered>>

\* MarkToolsListChangedNotified, and the loop goes round.
MarkToolsListChangedNotified(f) ==
    LET s == flush[f].session IN
    /\ FlushAt(f, "mark")
    /\ notified' = [notified EXCEPT ![s] = IF flush[f].version > @ THEN flush[f].version ELSE @]
    /\ FlushesAs(f, [flush[f] EXCEPT !.at = "pending"])
    /\ UNCHANGED covered

-----------------------------------------------------------------------------
Init ==
    /\ sessions = {} /\ closed = {} /\ stopped = "no" /\ removals = {} /\ known = {}
    /\ active = {} /\ plans = {}
    /\ init = [i \in Initializer |-> Idle] /\ commits = [q \in Request |-> Idle]
    /\ version = [s \in Session |-> 0] /\ notified = [s \in Session |-> 0]
    /\ covered = [s \in Session |-> 0]
    /\ streamSeq = [s \in Session |-> 0] /\ stream = [s \in Session |-> 0]
    /\ broken = {} /\ pipes = {}
    /\ flush = [f \in Flusher |-> Idle]

FlushStep(f) ==
    FlushReads(f) \/ FlushTakesStream(f) \/ FlushWrites(f) \/ MarkToolsListChangedNotified(f)

Next ==
    \/ \E i \in Initializer :
          CreateSession(i) \/ CreateAtCapacity(i) \/ Recheck(i) \/ ActivateSession(i)
    \/ Stop \/ StopPlans
    \/ \E r \in removals : DeleteSession(r)
    \/ \E q \in Request : Commit(q) \/ \E s \in Session : BeginSelect(q, s)
    \/ \E s \in Session :
          \/ Expire(s) \/ ClientGone(s)
          \/ \E f \in Flusher : AttachStream(s, f) \/ MarkToolsListChanged(s, f)
          \/ \E token \in 1 .. MaxStreams : DetachStream(s, token)
    \/ \E f \in Flusher : FlushStep(f)

\* A goroutine that flushes is scheduled in the end.
Fairness == \A f \in Flusher : WF_vars(FlushStep(f))

Spec == Init /\ [][Next]_vars /\ Fairness

-----------------------------------------------------------------------------
(***************************************************************************)
(* The manager never holds more sessions than its capacity, though it      *)
(* unlocks between making room and using it; the plan store neither.       *)
(***************************************************************************)
CapacityHeld == Cardinality(sessions) <= MaxEntries /\ Cardinality(plans) <= MaxEntries

(***************************************************************************)
(* A session's plans go with it: a plan belongs to a live session, or to a *)
(* removed one whose handler is about to run, and none is left after Stop, *)
(* however late a request commits the plan it computed.                    *)
(***************************************************************************)
PlansHaveOwners ==
    /\ \A s \in plans : Live(s) \/ \E r \in removals : r[2] = s
    /\ stopped = "yes" => plans = {}

(***************************************************************************)
(* A stream is taken away only by its own end: the latest stream of a live *)
(* session stays attached while its goroutine runs, whatever the goroutine *)
(* of a stream it replaced does.                                           *)
(***************************************************************************)
LatestStreamStays ==
    \A s \in sessions : (streamSeq[s] > 0 /\ <<s, streamSeq[s]>> \in pipes) => stream[s] = streamSeq[s]

(***************************************************************************)
(* A change counts as notified only if the client got a notification after *)
(* it: a change made while an earlier notification was sent stays pending. *)
(***************************************************************************)
NotifiedWasSent == \A s \in sessions \cup closed : notified[s] <= covered[s]

(***************************************************************************)
(* While a client is connected, a change it was not told of is on its way: *)
(* some goroutine is flushing to its session.                              *)
(***************************************************************************)
PendingIsFlushed ==
    \A s \in sessions :
        (version[s] > notified[s] /\ stream[s] # 0 /\ <<s, stream[s]>> \notin broken) =>
            \E f \in Flusher : flush[f] # Idle /\ flush[f].session = s

(***************************************************************************)
(* A connected client is told of every change in the end.                  *)
(***************************************************************************)
EventuallyNotified ==
    \A s \in Session :
        []<>(\/ ~Live(s) \/ stream[s] = 0 \/ <<s, stream[s]>> \in broken
             \/ version[s] = notified[s])

\* Sessions, plans and streams stay together though every lock is released in
\* between: bounds hold, nothing outlives its session, and a change counts as
\* notified only when it was sent.
SessionsAreSound ==
    CapacityHeld /\ PlansHaveOwners /\ LatestStreamStays /\ NotifiedWasSent /\ PendingIsFlushed

-----------------------------------------------------------------------------
(* Proofs                                                                  *)

FlushType == [at : {"pending", "stream", "write", "mark"}, session : Session, version : Nat, token : Nat]

\* What the proofs assume of the constants.
Constants == Session \subseteq Nat /\ MaxEntries \in Nat /\ Idle \notin Session \cup FlushType

Types ==
    /\ {sessions, closed, known, active} \subseteq SUBSET Session
    /\ init \in [Initializer -> {Idle} \cup [at : {"activate", "recheck"}, session : Session \cup {0}]]
    /\ commits \in [Request -> {Idle} \cup Session]
    /\ version \in [Session -> Nat] /\ notified \in [Session -> Nat] /\ covered \in [Session -> Nat]
    /\ streamSeq \in [Session -> Nat] /\ stream \in [Session -> Nat]
    /\ flush \in [Flusher -> {Idle} \cup FlushType]

Bounded == IsFiniteSet(sessions) /\ IsFiniteSet(plans) /\ CapacityHeld

\* An ID is new when it is issued, the client learns it from one initialize only,
\* and nothing is issued once the manager stops.
Activating(i) == init[i] # Idle /\ init[i].at = "activate"

Issued ==
    /\ known \subseteq sessions \cup closed
    /\ \A i \in Initializer : Activating(i) =>
          /\ init[i].session \in (sessions \cup closed) \ known
          /\ \A j \in Initializer \ {i} : Activating(j) => init[j].session # init[i].session
    /\ \A s \in Unused : version[s] = 0 /\ streamSeq[s] = 0
    /\ stopped # "no" => sessions = {}

\* A session that goes owns plans only until its handler has run: Stop may run
\* before an initialize that is under way, but then no request knows the session.
Kept(s) == Live(s) \/ \E r \in removals : r[2] = s
Uncommitted(s) == \A q \in Request : commits[q] # s

Owned ==
    /\ \A q \in Request : commits[q] # Idle => commits[q] \in known
    /\ \A s \in plans : Kept(s)
    /\ \A s \in active : Kept(s) \/ Uncommitted(s)
    /\ stopped = "yes" => plans = {} /\ \A s \in active : Uncommitted(s)

\* A flush knows a version of before, and has sent it when it comes to the mark.
Told ==
    /\ \A s \in Session : notified[s] <= covered[s] /\ covered[s] <= version[s]
    /\ \A f \in Flusher : flush[f] # Idle =>
          /\ flush[f].version <= version[flush[f].session]
          /\ flush[f].at = "mark" => flush[f].version <= covered[flush[f].session]

\* A flush that will still reach the stream attached now: one that writes to a
\* stream of before ends with an error and must not be the only one.
Useful(f, s) ==
    /\ flush[f] # Idle /\ flush[f].session = s
    /\ flush[f].at = "write" => flush[f].token = stream[s]

Pending(s) == version[s] > notified[s] /\ stream[s] # 0 /\ <<s, stream[s]>> \notin broken

Flushed == \A s \in sessions : Pending(s) => \E f \in Flusher : Useful(f, s)

IInv == Types /\ Bounded /\ Issued /\ Owned /\ LatestStreamStays /\ Told /\ Flushed

LEMMA InvariantIsSound == IInv => SessionsAreSound
<1> SUFFICES ASSUME IInv PROVE SessionsAreSound
    OBVIOUS
<1> USE DEF IInv
<1>1. CapacityHeld /\ LatestStreamStays
    BY DEF Bounded
<1>2. PlansHaveOwners
    BY DEF PlansHaveOwners, Owned, Kept
<1>3. NotifiedWasSent
    BY DEF NotifiedWasSent, Told, Types
<1>4. PendingIsFlushed
    BY DEF PendingIsFlushed, Flushed, Pending, Useful
<1> QED BY <1>1, <1>2, <1>3, <1>4 DEF SessionsAreSound

LEMMA InitIInv == Constants /\ Init => IInv
<1> SUFFICES ASSUME Constants, Init PROVE IInv
    OBVIOUS
<1> USE DEF Init
<1>1. Types
    BY DEF Types
<1>2. Bounded
    BY FS_EmptySet DEF Bounded, CapacityHeld, Constants
<1>3. Issued
    BY DEF Issued, Unused, Activating
<1>4. Owned
    BY DEF Owned
<1>5. LatestStreamStays /\ Flushed
    BY DEF LatestStreamStays, Flushed
<1>6. Told
    BY DEF Told
<1> QED BY <1>1, <1>2, <1>3, <1>4, <1>5, <1>6 DEF IInv

\* There is a least unused ID, so the one that is issued is unused.
LEMMA FreshIsUnused ==
    ASSUME Constants, Unused # {}
    PROVE  Fresh \in Unused
<1>1. Unused \subseteq Nat
    BY DEF Unused, Constants
<1>2. PICK m \in Unused : \A k \in Unused : <<k, m>> \notin OpToRel(<, Nat)
    BY <1>1, WFMin, NatLessThanWellFounded, Zenon
<1>3. \A k \in Unused : ~(k < m)
    BY <1>1, <1>2, Zenon DEF OpToRel
<1>4. \A k \in Unused : m <= k
    BY <1>1, <1>3
<1> QED BY <1>4 DEF Fresh

-----------------------------------------------------------------------------
\* Sessions come and go.
LEMMA IssueStep ==
    ASSUME Constants, IInv, NEW i \in Initializer, Issues(i), stopped = "no",
           Cardinality(sessions) < MaxEntries,
           UNCHANGED <<closed, stopped, removals, known, planVars, streamVars, noticeVars>>
    PROVE  IInv'
<1> USE DEF IInv
<1>1. /\ Fresh \in Session /\ Fresh \notin sessions /\ Fresh \notin closed
      /\ Fresh \in Unused
    BY FreshIsUnused DEF Issues, Unused
<1> DEFINE s == Fresh
           rec == [at |-> "activate", session |-> s]
<1>2. sessions' = sessions \cup {s} /\ init' = [init EXCEPT ![i] = rec]
    BY DEF Issues
<1>3. rec \in [at : {"activate", "recheck"}, session : Session \cup {0}] /\ rec.session = s
    BY <1>1
<1> HIDE DEF s, rec
<1>4. /\ s \in Session /\ s \notin sessions /\ s \notin closed /\ s \in Unused
    BY <1>1 DEF s
<1>5. Types'
    BY <1>2, <1>3, <1>4 DEF Types, planVars, streamVars, noticeVars
<1>6. Bounded'
  <2>1. IsFiniteSet(sessions') /\ Cardinality(sessions') = Cardinality(sessions) + 1
      BY <1>2, <1>4, FS_AddElement DEF Bounded
  <2>2. Cardinality(sessions) \in Nat
      BY FS_CardinalityType DEF Bounded
  <2>3. Cardinality(sessions') <= MaxEntries
      BY <2>1, <2>2 DEF Constants
  <2> QED BY <2>1, <2>3 DEF Bounded, CapacityHeld, planVars
<1>7. Issued'
  <2>1. init'[i] = rec /\ \A j \in Initializer \ {i} : init'[j] = init[j]
      BY <1>2 DEF Types
  <2>2. ASSUME NEW j \in Initializer, Activating(j)'
        PROVE  /\ init'[j].session \in (sessions' \cup closed') \ known'
               /\ \A k \in Initializer \ {j} : Activating(k)' => init'[k].session # init'[j].session
    <3>1. s \notin known
        BY <1>4 DEF Issued
    <3>2. \A k \in Initializer \ {i} : Activating(k)' =>
              /\ init'[k] = init[k] /\ init[k].session \in (sessions \cup closed) \ known
              /\ init[k].session # s
        BY <2>1, <1>4 DEF Activating, Issued
    <3>3. CASE j = i
        BY <3>1, <3>2, <3>3, <2>1, <1>2, <1>3
    <3>4. CASE j # i
      <4>1. Activating(j)
          BY <3>4, <2>1, <2>2 DEF Activating
      <4>2. \A k \in Initializer \ {j, i} : Activating(k)' => init'[k].session # init'[j].session
          BY <4>1, <3>4, <2>1 DEF Activating, Issued
      <4> QED BY <4>1, <4>2, <3>2, <3>4, <2>1, <2>2, <1>2, <1>3
    <3> QED BY <3>3, <3>4
  <2>3. Unused' \subseteq Unused
      BY <1>2 DEF Unused
  <2>4. known' \subseteq sessions' \cup closed'
      BY <1>2 DEF Issued
  <2> QED BY <2>2, <2>3, <2>4 DEF Issued, noticeVars, streamVars
<1>8. Owned'
    BY <1>2 DEF Owned, Kept, Live, Uncommitted, planVars
<1>9. version[s] = 0 /\ streamSeq[s] = 0 /\ notified[s] \in Nat
    BY <1>4 DEF Issued, Types
<1>10. LatestStreamStays'
    BY <1>2, <1>9 DEF LatestStreamStays, streamVars
<1>11. Told'
    BY DEF Told, noticeVars
<1>12. Flushed'
  <2>1. ~Pending(s)
      BY <1>9 DEF Pending
  <2> QED BY <2>1, <1>2 DEF Flushed, Pending, Useful, streamVars, noticeVars
<1> QED BY <1>5, <1>6, <1>7, <1>8, <1>10, <1>11, <1>12

LEMMA RemoveStep ==
    ASSUME Constants, IInv, NEW gone \in SUBSET sessions, RemoveLocked(gone),
           removals \subseteq removals', \A s \in gone : \E r \in removals' : r[2] = s,
           stopped' = stopped \/ (stopped' = "stopping" /\ gone = sessions),
           init' \in [Initializer -> {Idle} \cup [at : {"activate", "recheck"}, session : Session \cup {0}]],
           \A j \in Initializer : Activating(j)' => init'[j] = init[j],
           UNCHANGED <<known, planVars, streamSeq, broken, pipes, noticeVars>>
    PROVE  IInv'
<1> USE DEF IInv
<1>1. sessions' = sessions \ gone /\ closed' = closed \cup gone
    BY DEF RemoveLocked
<1>2. stream' \in [Session -> Nat] /\ \A s \in sessions' : stream'[s] = stream[s]
  <2>1. stream' = [s \in Session |-> IF s \in gone THEN 0 ELSE stream[s]] /\ stream \in [Session -> Nat]
        /\ sessions \subseteq Session
      BY DEF RemoveLocked, Types
  <2> QED BY <2>1, <1>1
<1>3. Types'
    BY <1>1, <1>2 DEF Types, planVars, noticeVars
<1>4. Bounded'
  <2>1. sessions' \subseteq sessions
      BY <1>1
  <2>2. IsFiniteSet(sessions') /\ Cardinality(sessions') <= Cardinality(sessions)
      BY <2>1, FS_Subset DEF Bounded
  <2>3. Cardinality(sessions) \in Nat /\ Cardinality(sessions') \in Nat
      BY <2>2, FS_CardinalityType DEF Bounded
  <2> QED BY <2>2, <2>3 DEF Bounded, CapacityHeld, planVars, Constants
<1>5. Issued'
  <2>1. sessions' \cup closed' = sessions \cup closed /\ Unused' = Unused
      BY <1>1 DEF Unused
  <2>2. \A j \in Initializer : Activating(j)' => Activating(j) /\ init'[j] = init[j]
      BY DEF Activating
  <2>3. stopped' # "no" => sessions' = {}
      BY <1>1 DEF Issued
  <2> QED BY <2>1, <2>2, <2>3 DEF Issued, noticeVars
<1>6. Owned'
  <2>1. \A s : Kept(s) => Kept(s)'
      BY <1>1 DEF Kept, Live
  <2>2. stopped' = "yes" => stopped = "yes"
      OBVIOUS
  <2> QED BY <2>1, <2>2 DEF Owned, Uncommitted, planVars
<1>7. LatestStreamStays'
    BY <1>1, <1>2 DEF LatestStreamStays
<1>8. Told'
    BY DEF Told, noticeVars
<1>9. Flushed'
    BY <1>1, <1>2 DEF Flushed, Pending, Useful, noticeVars
<1> QED BY <1>3, <1>4, <1>5, <1>6, <1>7, <1>8, <1>9

LEMMA InitializerSteps ==
    ASSUME Constants, IInv, NEW i \in Initializer, CreateSession(i) \/ CreateAtCapacity(i) \/ Recheck(i)
    PROVE  IInv'
<1> DEFINE InitType == {Idle} \cup [at : {"activate", "recheck"}, session : Session \cup {0}]
<1>1. init \in [Initializer -> InitType]
    BY DEF IInv, Types
<1>2. CASE CreateSession(i)
    BY <1>2, IssueStep DEF CreateSession
<1>3. CASE CreateAtCapacity(i)
  <2> DEFINE rec == [at |-> "recheck", session |-> 0]
  <2>1. PICK expired \in SUBSET (sessions \ Initializing) :
            /\ RemoveLocked(expired)
            /\ removals' = removals \cup {<<i, s>> : s \in expired}
            /\ init' = [init EXCEPT ![i] = IF expired = {} THEN Idle ELSE rec]
            /\ UNCHANGED <<stopped, known, planVars, streamSeq, broken, pipes, noticeVars>>
      BY <1>3 DEF CreateAtCapacity
  <2>2. rec \in InitType /\ rec.at # "activate"
      OBVIOUS
  <2> HIDE DEF rec
  <2>3. init'[i] \in {Idle, rec} /\ init' \in [Initializer -> InitType]
        /\ \A j \in Initializer \ {i} : init'[j] = init[j]
      BY <2>1, <2>2, <1>1
  <2>4. \A j \in Initializer : Activating(j)' => init'[j] = init[j]
      BY <2>2, <2>3 DEF Activating
  <2>5. removals \subseteq removals' /\ \A s \in expired : \E r \in removals' : r[2] = s
    <3>1. \A s \in expired : <<i, s>> \in removals' /\ <<i, s>>[2] = s
        BY <2>1
    <3> QED BY <3>1, <2>1
  <2> HIDE DEF InitType
  <2>6. expired \in SUBSET sessions /\ stopped' = stopped
      BY <2>1
  <2> QED BY <2>1, <2>3, <2>4, <2>5, <2>6, RemoveStep DEF InitType
<1>4. CASE Recheck(i) /\ Issues(i) /\ stopped = "no" /\ Cardinality(sessions) < MaxEntries
    BY <1>4, IssueStep DEF Recheck
<1>5. CASE Recheck(i) /\ init' = [init EXCEPT ![i] = Idle] /\ UNCHANGED sessions
  <2> USE DEF IInv
  <2>1. UNCHANGED <<sessions, closed, stopped, removals, known, planVars, streamVars, noticeVars>>
      BY <1>5 DEF Recheck
  <2>2. Types'
      BY <2>1, <1>5 DEF Types, planVars, streamVars, noticeVars
  <2>3. \A j \in Initializer : Activating(j)' => Activating(j) /\ init'[j] = init[j]
    <3>1. \A j \in Initializer : init'[j] = IF j = i THEN Idle ELSE init[j]
        BY <1>1, <1>5
    <3> QED BY <3>1 DEF Activating
  <2>4. Issued'
      BY <2>1, <2>3 DEF Issued, Unused, streamVars, noticeVars
  <2>5. Bounded' /\ Owned' /\ LatestStreamStays' /\ Told' /\ Flushed'
      BY <2>1 DEF Bounded, CapacityHeld, Owned, Kept, Live, Uncommitted, LatestStreamStays, Told, Flushed,
                  Pending, Useful, planVars, streamVars, noticeVars
  <2> QED BY <2>2, <2>4, <2>5
<1> QED BY <1>2, <1>3, <1>4, <1>5 DEF Recheck

LEMMA ExpireStep ==
    ASSUME Constants, IInv, NEW s \in Session, Expire(s)
    PROVE  IInv'
<1>1. /\ {s} \in SUBSET sessions /\ RemoveLocked({s}) /\ removals' = removals \cup {<<Idle, s>>}
      /\ UNCHANGED <<stopped, init, known, planVars, streamSeq, broken, pipes, noticeVars>>
    BY DEF Expire, Live
<1>2. removals \subseteq removals' /\ \A t \in {s} : \E r \in removals' : r[2] = t
  <2>1. <<Idle, s>> \in removals' /\ <<Idle, s>>[2] = s
      BY <1>1
  <2> QED BY <2>1, <1>1
<1>3. /\ init' \in [Initializer -> {Idle} \cup [at : {"activate", "recheck"}, session : Session \cup {0}]]
      /\ \A j \in Initializer : init'[j] = init[j]
    BY <1>1 DEF IInv, Types
<1> QED BY <1>1, <1>2, <1>3, RemoveStep

LEMMA StopStep ==
    ASSUME Constants, IInv, Stop
    PROVE  IInv'
<1>1. /\ sessions \in SUBSET sessions /\ RemoveLocked(sessions) /\ stopped' = "stopping"
      /\ removals' = removals \cup {<<Idle, s>> : s \in sessions}
      /\ UNCHANGED <<init, known, planVars, streamSeq, broken, pipes, noticeVars>>
    BY DEF Stop
<1>2. removals \subseteq removals' /\ \A t \in sessions : \E r \in removals' : r[2] = t
  <2>1. \A t \in sessions : <<Idle, t>> \in removals' /\ <<Idle, t>>[2] = t
      BY <1>1
  <2> QED BY <2>1, <1>1
<1>3. /\ init' \in [Initializer -> {Idle} \cup [at : {"activate", "recheck"}, session : Session \cup {0}]]
      /\ \A j \in Initializer : init'[j] = init[j]
    BY <1>1 DEF IInv, Types
<1> QED BY <1>1, <1>2, <1>3, RemoveStep

-----------------------------------------------------------------------------
\* The plan store.
LEMMA PlanStep ==
    ASSUME Constants, IInv, Types', Issued', Owned',
           IsFiniteSet(plans'), Cardinality(plans') <= MaxEntries,
           UNCHANGED <<sessions, streamVars, noticeVars>>
    PROVE  IInv'
<1> USE DEF IInv
<1>1. Bounded'
    BY DEF Bounded, CapacityHeld
<1>2. LatestStreamStays' /\ Told' /\ Flushed'
    BY DEF LatestStreamStays, Told, Flushed, Pending, Useful, streamVars, noticeVars
<1> QED BY <1>1, <1>2

LEMMA FewerPlans ==
    ASSUME Constants, Bounded, NEW S \in SUBSET plans
    PROVE  IsFiniteSet(S) /\ Cardinality(S) <= MaxEntries
<1>1. IsFiniteSet(S) /\ Cardinality(S) <= Cardinality(plans)
    BY FS_Subset DEF Bounded
<1>2. Cardinality(S) \in Nat /\ Cardinality(plans) \in Nat
    BY <1>1, FS_CardinalityType DEF Bounded
<1> QED BY <1>1, <1>2 DEF Bounded, CapacityHeld, Constants

LEMMA DeleteStep ==
    ASSUME Constants, IInv, NEW r \in removals, DeleteSession(r)
    PROVE  IInv'
<1> USE DEF IInv
<1>1. /\ removals' = removals \ {r} /\ active' = active \ {r[2]} /\ plans' = plans \ {r[2]}
      /\ UNCHANGED <<sessions, closed, stopped, init, known, commits, streamVars, noticeVars>>
    BY DEF DeleteSession
<1>2. Types' /\ Issued'
    BY <1>1 DEF Types, Issued, Unused, Activating, streamVars, noticeVars
<1>3. Owned'
  <2>1. \A s : s # r[2] /\ Kept(s) => Kept(s)'
      BY <1>1 DEF Kept, Live
  <2> QED BY <2>1, <1>1 DEF Owned, Uncommitted
<1>4. IsFiniteSet(plans') /\ Cardinality(plans') <= MaxEntries
  <2>1. plans' \in SUBSET plans
      BY <1>1
  <2> QED BY <2>1, FewerPlans
<1> HIDE DEF IInv
<1> QED BY <1>1, <1>2, <1>3, <1>4, PlanStep

LEMMA StopPlansStep ==
    ASSUME Constants, IInv, StopPlans
    PROVE  IInv'
<1> USE DEF IInv
<1>1. /\ active' = {} /\ plans' = {} /\ stopped = "stopping" /\ stopped' = "yes"
      /\ UNCHANGED <<sessions, closed, removals, init, known, commits, streamVars, noticeVars>>
    BY DEF StopPlans
<1>2. Types' /\ Issued'
    BY <1>1 DEF Types, Issued, Unused, Activating, streamVars, noticeVars
<1>3. Owned'
    BY <1>1 DEF Owned
<1>4. IsFiniteSet(plans') /\ Cardinality(plans') <= MaxEntries
  <2>1. plans' \in SUBSET plans
      BY <1>1
  <2> QED BY <2>1, FewerPlans
<1> HIDE DEF IInv
<1> QED BY <1>1, <1>2, <1>3, <1>4, PlanStep

LEMMA ActivateStep ==
    ASSUME Constants, IInv, NEW i \in Initializer, ActivateSession(i)
    PROVE  IInv'
<1> USE DEF IInv
<1> DEFINE s == init[i].session
<1>1. /\ Activating(i) /\ active' = active \cup {s} /\ known' = known \cup {s}
      /\ init' = [init EXCEPT ![i] = Idle]
      /\ UNCHANGED <<sessions, closed, stopped, removals, plans, commits, streamVars, noticeVars>>
    BY DEF ActivateSession, Activating
<1>2. s \in sessions \cup closed /\ s \notin known
    BY <1>1 DEF Issued
<1>3. \A j \in Initializer : Activating(j)' => j # i /\ Activating(j) /\ init'[j] = init[j] /\ init[j].session # s
  <2>1. \A j \in Initializer : init'[j] = IF j = i THEN Idle ELSE init[j]
      BY <1>1 DEF Types
  <2> QED BY <2>1, <1>1 DEF Activating, Issued
<1> HIDE DEF s
<1>4. Types'
    BY <1>1, <1>2 DEF Types, streamVars, noticeVars
<1>5. Issued'
    BY <1>1, <1>2, <1>3 DEF Issued, Unused, streamVars, noticeVars
<1>6. Owned'
  <2>1. s # Idle
      BY <1>2 DEF Types, Constants
  <2>2. Uncommitted(s)
      BY <2>1, <1>2 DEF Owned, Uncommitted
  <2> QED BY <2>2, <1>1 DEF Owned, Uncommitted, Kept, Live
<1>7. IsFiniteSet(plans') /\ Cardinality(plans') <= MaxEntries
    BY <1>1, FewerPlans
<1> HIDE DEF IInv
<1> QED BY <1>1, <1>4, <1>5, <1>6, <1>7, PlanStep

LEMMA BeginSelectStep ==
    ASSUME Constants, IInv, NEW q \in Request, NEW s \in Session, BeginSelect(q, s)
    PROVE  IInv'
<1> USE DEF IInv
<1>1. /\ s \in known /\ Live(s) /\ commits' = [commits EXCEPT ![q] = s]
      /\ UNCHANGED <<active, plans, createVars, streamVars, noticeVars>>
    BY DEF BeginSelect
<1>2. commits'[q] = s /\ \A k \in Request \ {q} : commits'[k] = commits[k]
    BY <1>1 DEF Types
<1>3. Types'
    BY <1>1 DEF Types, createVars, streamVars, noticeVars
<1>4. Issued'
    BY <1>1 DEF Issued, Unused, Activating, createVars, streamVars, noticeVars
<1>5. Owned'
  <2>1. \A t : t # s /\ Uncommitted(t) => Uncommitted(t)'
      BY <1>2 DEF Uncommitted
  <2>2. \A t : Kept(t) => Kept(t)'
      BY <1>1 DEF Kept, Live, createVars
  <2>3. stopped' = "no" \/ sessions = {}
      BY <1>1 DEF Issued, createVars
  <2>4. stopped' # "yes" /\ Kept(s)
      BY <2>3, <1>1 DEF Live, Kept
  <2> QED BY <2>1, <2>2, <2>4, <1>1, <1>2 DEF Owned, createVars
<1>6. IsFiniteSet(plans') /\ Cardinality(plans') <= MaxEntries
    BY <1>1, FewerPlans
<1> HIDE DEF IInv
<1> QED BY <1>1, <1>3, <1>4, <1>5, <1>6, PlanStep DEF createVars

LEMMA CommitStep ==
    ASSUME Constants, IInv, NEW q \in Request, Commit(q)
    PROVE  IInv'
<1> USE DEF IInv
<1> DEFINE s == commits[q]
<1>1. /\ s # Idle /\ commits' = [commits EXCEPT ![q] = Idle]
      /\ UNCHANGED <<active, createVars, streamVars, noticeVars>>
      /\ plans' = IF s \in active /\ (s \in plans \/ Cardinality(plans) < MaxEntries)
                  THEN plans \cup {s} ELSE plans
    BY DEF Commit
<1>2. \A k \in Request : commits'[k] = IF k = q THEN Idle ELSE commits[k]
    BY <1>1 DEF Types
<1>3. Types'
    BY <1>1 DEF Types, createVars, streamVars, noticeVars
<1>4. Issued'
    BY <1>1 DEF Issued, Unused, Activating, createVars, streamVars, noticeVars
<1>5. Owned'
  <2>1. \A t \in Session : Uncommitted(t) => Uncommitted(t)'
      BY <1>2 DEF Uncommitted, Constants
  <2>2. \A t : Kept(t) => Kept(t)'
      BY <1>1 DEF Kept, Live, createVars
  <2>3. s \in active => Kept(s) /\ stopped # "yes"
      BY DEF Owned, Uncommitted
  <2>4. active' = active /\ active \subseteq Session
      BY <1>1 DEF Types
  <2> QED BY <2>1, <2>2, <2>3, <2>4, <1>1, <1>2 DEF Owned, createVars
<1>6. IsFiniteSet(plans') /\ Cardinality(plans') <= MaxEntries
  <2>1. IsFiniteSet(plans) /\ Cardinality(plans) \in Nat /\ Cardinality(plans) <= MaxEntries
      BY FS_CardinalityType DEF Bounded, CapacityHeld
  <2>2. CASE s \in plans \/ plans' = plans
    <3>1. plans' = plans
        BY <2>2, <1>1
    <3> QED BY <3>1, <2>1
  <2>3. CASE s \notin plans /\ Cardinality(plans) < MaxEntries /\ plans' = plans \cup {s}
    <3> HIDE DEF s
    <3>1. IsFiniteSet(plans') /\ Cardinality(plans') = Cardinality(plans) + 1
        BY <2>1, <2>3, FS_AddElement
    <3> QED BY <3>1, <2>1, <2>3 DEF Constants
  <2> QED BY <2>2, <2>3, <1>1
<1> HIDE DEF IInv
<1> QED BY <1>1, <1>3, <1>4, <1>5, <1>6, PlanStep DEF createVars

-----------------------------------------------------------------------------
\* Streams and notifications leave the sessions and their plans alone.
LEMMA StreamStep ==
    ASSUME Constants, IInv, UNCHANGED <<createVars, planVars>>, Types', LatestStreamStays', Told', Flushed',
           \A s \in Unused : version'[s] = version[s] /\ streamSeq'[s] = streamSeq[s]
    PROVE  IInv'
<1> USE DEF IInv
<1>1. Bounded' /\ Owned'
    BY DEF Bounded, CapacityHeld, Owned, Kept, Live, Uncommitted, createVars, planVars
<1>2. Issued'
    BY DEF Issued, Unused, Activating, createVars
<1> QED BY <1>1, <1>2

\* A goroutine starts to flush.
LEMMA StartedFlush ==
    ASSUME Constants, Types, NEW f \in Flusher, NEW s \in Session, Starts(f, s)
    PROVE  /\ flush' \in [Flusher -> {Idle} \cup FlushType]
           /\ flush[f] = Idle /\ flush'[f] # Idle /\ \A g \in Flusher \ {f} : flush'[g] = flush[g]
           /\ flush'[f].at = "pending" /\ flush'[f].session = s /\ flush'[f].version = 0
<1> DEFINE rec == [at |-> "pending", session |-> s, version |-> 0, token |-> 0]
<1>1. rec \in FlushType /\ rec.at = "pending" /\ rec.session = s /\ rec.version = 0
    BY DEF FlushType
<1>2. flush[f] = Idle /\ flush' = [flush EXCEPT ![f] = rec]
    BY DEF Starts
<1> HIDE DEF rec
<1>3. rec # Idle
    BY <1>1 DEF Constants
<1> QED BY <1>1, <1>2, <1>3 DEF Types

LEMMA AttachStep ==
    ASSUME Constants, IInv, NEW s \in Session, NEW f \in Flusher, AttachStream(s, f)
    PROVE  IInv'
<1> USE DEF IInv
<1> DEFINE token == streamSeq[s] + 1
<1>1. /\ Live(s) /\ streamSeq' = [streamSeq EXCEPT ![s] = token] /\ stream' = [stream EXCEPT ![s] = token]
      /\ pipes' = pipes \cup {<<s, token>>} /\ Starts(f, s)
      /\ UNCHANGED <<broken, version, notified, covered, createVars, planVars>>
    BY DEF AttachStream
<1>2. token \in Nat
    BY DEF Types
<1> HIDE DEF token
<1>3. /\ flush' \in [Flusher -> {Idle} \cup FlushType]
      /\ flush[f] = Idle /\ flush'[f] # Idle /\ \A g \in Flusher \ {f} : flush'[g] = flush[g]
      /\ flush'[f].at = "pending" /\ flush'[f].session = s /\ flush'[f].version = 0
    BY <1>1, StartedFlush
<1>4. Types'
    BY <1>1, <1>2, <1>3 DEF Types, createVars, planVars
<1>5. /\ streamSeq'[s] = token /\ stream'[s] = token
      /\ \A t \in Session \ {s} : streamSeq'[t] = streamSeq[t] /\ stream'[t] = stream[t]
    BY <1>1 DEF Types
<1>6. sessions' = sessions /\ sessions \subseteq Session
    BY <1>1 DEF Types, createVars
<1>7. LatestStreamStays'
  <2>1. ASSUME NEW t \in sessions, t # s, streamSeq'[t] > 0, <<t, streamSeq'[t]>> \in pipes'
        PROVE  stream'[t] = streamSeq'[t]
    <3>1. t \in Session /\ streamSeq'[t] = streamSeq[t] /\ stream'[t] = stream[t]
        BY <2>1, <1>5, <1>6
    <3>2. <<t, streamSeq[t]>> \in pipes
        BY <3>1, <2>1, <1>1
    <3> QED BY <3>1, <3>2, <2>1 DEF LatestStreamStays
  <2> QED BY <2>1, <1>5, <1>6 DEF LatestStreamStays
<1>8. Told'
  <2>1. version \in [Session -> Nat]
      BY DEF Types
  <2> QED BY <2>1, <1>1, <1>3 DEF Told
<1>9. Flushed'
  <2>1. Useful(f, s)'
      BY <1>3 DEF Useful
  <2>2. ASSUME NEW t \in sessions, t # s, Pending(t)' PROVE \E g \in Flusher : Useful(g, t)'
    <3>1. stream'[t] = stream[t]
        BY <2>2, <1>5, <1>6
    <3>2. PICK g \in Flusher : Useful(g, t)
        BY <3>1, <2>2, <1>1 DEF Pending, Flushed
    <3>3. g # f
        BY <3>2, <1>3 DEF Useful
    <3> QED BY <3>1, <3>2, <3>3, <1>3 DEF Useful
  <2> QED BY <2>1, <2>2, <1>6 DEF Flushed
<1>10. \A t \in Unused : version'[t] = version[t] /\ streamSeq'[t] = streamSeq[t]
    BY <1>1, <1>5 DEF Unused, Live
<1> HIDE DEF IInv
<1> QED BY <1>1, <1>4, <1>7, <1>8, <1>9, <1>10, StreamStep

LEMMA MarkStep ==
    ASSUME Constants, IInv, NEW s \in Session, NEW f \in Flusher, MarkToolsListChanged(s, f)
    PROVE  IInv'
<1> USE DEF IInv
<1>1. /\ Live(s) /\ version' = [version EXCEPT ![s] = version[s] + 1] /\ Starts(f, s)
      /\ UNCHANGED <<notified, covered, createVars, planVars, streamVars>>
    BY DEF MarkToolsListChanged
<1>2. /\ flush' \in [Flusher -> {Idle} \cup FlushType]
      /\ flush[f] = Idle /\ flush'[f] # Idle /\ \A g \in Flusher \ {f} : flush'[g] = flush[g]
      /\ flush'[f].at = "pending" /\ flush'[f].session = s /\ flush'[f].version = 0
    BY <1>1, StartedFlush
<1>3. /\ version' \in [Session -> Nat] /\ \A t \in Session : version[t] <= version'[t]
      /\ \A t \in Session \ {s} : version'[t] = version[t]
    BY <1>1 DEF Types
<1>4. Types'
    BY <1>1, <1>2, <1>3 DEF Types, createVars, planVars, streamVars
<1>5. LatestStreamStays'
    BY <1>1 DEF LatestStreamStays, createVars, streamVars
<1>6. Told'
  <2>1. \A t \in Session : notified[t] \in Nat /\ covered[t] \in Nat /\ version[t] \in Nat /\ version'[t] \in Nat
      BY <1>3 DEF Types
  <2>2. \A t \in Session : notified'[t] <= covered'[t] /\ covered'[t] <= version'[t]
      BY <2>1, <1>1, <1>3 DEF Told
  <2>3. ASSUME NEW g \in Flusher, flush'[g] # Idle
        PROVE  /\ flush'[g].version <= version'[flush'[g].session]
               /\ flush'[g].at = "mark" => flush'[g].version <= covered'[flush'[g].session]
    <3>1. CASE g = f
        BY <3>1, <2>1, <1>2
    <3>2. CASE g # f
      <4>1. flush'[g] = flush[g] /\ flush[g].session \in Session /\ flush[g].version \in Nat
          BY <3>2, <2>3, <1>2 DEF Types, FlushType
      <4> QED BY <4>1, <2>1, <2>3, <1>1, <1>3 DEF Told
    <3> QED BY <3>1, <3>2
  <2> QED BY <2>2, <2>3 DEF Told
<1>7. Flushed'
  <2>1. Useful(f, s)'
      BY <1>2 DEF Useful
  <2>2. ASSUME NEW t \in sessions, t # s, Pending(t)' PROVE \E g \in Flusher : Useful(g, t)'
    <3>1. t \in Session /\ version'[t] = version[t]
        BY <2>2, <1>3 DEF Types
    <3>2. PICK g \in Flusher : Useful(g, t)
        BY <3>1, <2>2, <1>1 DEF Pending, Flushed, streamVars
    <3>3. g # f
        BY <3>2, <1>2 DEF Useful
    <3> QED BY <3>2, <3>3, <1>1, <1>2 DEF Useful, streamVars
  <2> QED BY <2>1, <2>2, <1>1 DEF Flushed, createVars
<1>8. \A t \in Unused : version'[t] = version[t] /\ streamSeq'[t] = streamSeq[t]
    BY <1>1, <1>3 DEF Unused, Live, streamVars
<1> HIDE DEF IInv
<1> QED BY <1>1, <1>4, <1>5, <1>6, <1>7, <1>8, StreamStep

LEMMA ClientGoneStep ==
    ASSUME Constants, IInv, NEW s \in Session, ClientGone(s)
    PROVE  IInv'
<1> USE DEF IInv
<1>1. broken \subseteq broken' /\ UNCHANGED <<streamSeq, stream, pipes, createVars, planVars, noticeVars>>
    BY DEF ClientGone
<1>2. Types' /\ LatestStreamStays' /\ Told'
    BY <1>1 DEF Types, LatestStreamStays, Told, createVars, planVars, noticeVars
<1>3. Flushed'
    BY <1>1 DEF Flushed, Pending, Useful, createVars, noticeVars
<1> HIDE DEF IInv
<1> QED BY <1>1, <1>2, <1>3, StreamStep DEF noticeVars

LEMMA DetachStep ==
    ASSUME Constants, IInv, NEW s \in Session, NEW token \in Nat, DetachStream(s, token)
    PROVE  IInv'
<1> USE DEF IInv
<1>1. /\ pipes' = pipes \ {<<s, token>>}
      /\ stream' = [stream EXCEPT ![s] = IF stream[s] = token THEN 0 ELSE stream[s]]
      /\ UNCHANGED <<streamSeq, broken, createVars, planVars, noticeVars>>
    BY DEF DetachStream
<1>2. /\ stream' \in [Session -> Nat]
      /\ \A t \in Session : stream'[t] = IF t = s /\ stream[s] = token THEN 0 ELSE stream[t]
    BY <1>1 DEF Types
<1>3. sessions' = sessions /\ sessions \subseteq Session
    BY <1>1 DEF Types, createVars
<1>4. Types'
    BY <1>1, <1>2 DEF Types, createVars, planVars, noticeVars
<1>5. LatestStreamStays'
  <2>1. ASSUME NEW t \in sessions, streamSeq[t] > 0, <<t, streamSeq[t]>> \in pipes'
        PROVE  stream'[t] = streamSeq[t]
    <3>1. t \in Session /\ stream[t] = streamSeq[t] /\ ~(t = s /\ streamSeq[t] = token)
        BY <2>1, <1>1, <1>3 DEF LatestStreamStays
    <3> QED BY <3>1, <1>2
  <2> QED BY <2>1, <1>1, <1>3 DEF LatestStreamStays
<1>6. Told'
    BY <1>1 DEF Told, noticeVars
<1>7. Flushed'
  <2>1. ASSUME NEW t \in sessions, Pending(t)' PROVE \E g \in Flusher : Useful(g, t)'
    <3>1. stream'[t] = stream[t]
        BY <2>1, <1>2, <1>3 DEF Pending
    <3> QED BY <3>1, <2>1, <1>1 DEF Flushed, Pending, Useful, noticeVars
  <2> QED BY <2>1, <1>3 DEF Flushed
<1> HIDE DEF IInv
<1> QED BY <1>1, <1>4, <1>5, <1>6, <1>7, StreamStep DEF noticeVars

\* A step of a flush: it may end only if nothing waits or another flush goes on.
LEMMA FlushMoves ==
    ASSUME Constants, IInv, NEW f \in Flusher, flush[f] \in FlushType, NEW next, FlushesAs(f, next),
           NEW s, s = flush[f].session,
           next = Idle \/ (next \in FlushType /\ next.session = s),
           next = Idle => ~Pending(s)' \/ ~Useful(f, s),
           next # Idle /\ next.at = "write" => next.token = stream[s],
           notified' \in [Session -> Nat], covered' \in [Session -> Nat],
           \A t \in Session : notified[t] <= notified'[t] /\ covered[t] <= covered'[t],
           \A t \in Session : notified'[t] <= covered'[t] /\ covered'[t] <= version[t],
           next # Idle => /\ next.version <= version[s]
                          /\ next.at = "mark" => next.version <= covered'[s]
    PROVE  IInv'
<1> USE DEF IInv
<1>1. flush' = [flush EXCEPT ![f] = next] /\ UNCHANGED <<version, createVars, planVars, streamVars>>
    BY DEF FlushesAs
<1>2. s \in Session
    BY DEF FlushType
<1>3. flush'[f] = next /\ \A g \in Flusher \ {f} : flush'[g] = flush[g]
    BY <1>1 DEF Types
<1>4. Types'
    BY <1>1 DEF Types, createVars, planVars, streamVars
<1>5. LatestStreamStays'
    BY <1>1 DEF LatestStreamStays, createVars, streamVars
<1>6. Told'
  <2>1. ASSUME NEW g \in Flusher, flush'[g] # Idle
        PROVE  /\ flush'[g].version <= version'[flush'[g].session]
               /\ flush'[g].at = "mark" => flush'[g].version <= covered'[flush'[g].session]
    <3>1. CASE g = f
        BY <3>1, <2>1, <1>1, <1>3
    <3>2. CASE g # f
      <4>1. flush'[g] = flush[g] /\ flush[g].session \in Session /\ flush[g].version \in Nat
          BY <3>2, <2>1, <1>3 DEF Types, FlushType
      <4>2. covered[flush[g].session] \in Nat /\ covered'[flush[g].session] \in Nat
          BY <4>1 DEF Types
      <4>3. /\ flush[g].version <= version[flush[g].session]
            /\ flush[g].at = "mark" => flush[g].version <= covered[flush[g].session]
          BY <4>1, <2>1 DEF Told
      <4>4. covered[flush[g].session] <= covered'[flush[g].session]
          BY <4>1
      <4> QED BY <4>1, <4>2, <4>3, <4>4, <1>1
    <3> QED BY <3>1, <3>2
  <2> QED BY <2>1, <1>1 DEF Told
<1>7. Flushed'
  <2>1. ASSUME NEW t \in sessions, Pending(t)' PROVE \E g \in Flusher : Useful(g, t)'
    <3>1. t \in Session /\ Pending(t)
      <4>1. t \in Session /\ notified[t] \in Nat /\ notified'[t] \in Nat /\ version[t] \in Nat
          BY DEF Types
      <4>2. notified[t] <= notified'[t]
          BY <4>1
      <4> QED BY <4>1, <4>2, <2>1, <1>1 DEF Pending, streamVars
    <3>2. PICK g \in Flusher : Useful(g, t)
        BY <3>1 DEF Flushed
    <3>3. CASE g # f
        BY <3>2, <3>3, <1>1, <1>3 DEF Useful, streamVars
    <3>4. CASE g = f
      <4>1. t = s
          BY <3>2, <3>4 DEF Useful
      <4>2. next # Idle
          BY <4>1, <3>2, <3>4, <2>1
      <4> QED BY <4>1, <4>2, <1>1, <1>3 DEF Useful, streamVars
    <3> QED BY <3>3, <3>4
  <2> QED BY <2>1, <1>1 DEF Flushed, createVars
<1>8. \A t \in Unused : version'[t] = version[t] /\ streamSeq'[t] = streamSeq[t]
    BY <1>1 DEF streamVars
<1> HIDE DEF IInv
<1> QED BY <1>1, <1>4, <1>5, <1>6, <1>7, <1>8, StreamStep

\* What is known of a flush that is under way.
LEMMA FlushUnderWay ==
    ASSUME IInv, NEW f \in Flusher, flush[f] # Idle
    PROVE  LET s == flush[f].session IN
           /\ flush[f] \in FlushType /\ s \in Session /\ flush[f].version \in Nat
           /\ version[s] \in Nat /\ notified[s] \in Nat /\ covered[s] \in Nat /\ stream[s] \in Nat
           /\ flush[f].version <= version[s]
           /\ flush[f].at = "mark" => flush[f].version <= covered[s]
<1>1. flush[f] \in FlushType /\ flush[f].session \in Session /\ flush[f].version \in Nat
    BY DEF IInv, Types, FlushType
<1> QED BY <1>1 DEF IInv, Types, Told

\* What a flush leaves as it was.
LEMMA Untold ==
    ASSUME IInv
    PROVE  /\ notified \in [Session -> Nat] /\ covered \in [Session -> Nat] /\ version \in [Session -> Nat]
           /\ \A t \in Session : notified[t] <= notified[t] /\ covered[t] <= covered[t]
           /\ \A t \in Session : notified[t] <= covered[t] /\ covered[t] <= version[t]
<1>1. /\ notified \in [Session -> Nat] /\ covered \in [Session -> Nat] /\ version \in [Session -> Nat]
      /\ \A t \in Session : notified[t] <= covered[t] /\ covered[t] <= version[t]
    BY DEF IInv, Types, Told
<1> QED BY <1>1

LEMMA FlushReadsStep ==
    ASSUME Constants, IInv, NEW f \in Flusher, FlushReads(f)
    PROVE  IInv'
<1>0. PICK s : s = flush[f].session
    OBVIOUS
<1> DEFINE go == [flush[f] EXCEPT !.at = "stream", !.version = version[s]]
           next == IF version[s] > notified[s] THEN go ELSE Idle
<1>1. FlushesAs(f, next) /\ notified' = notified /\ covered' = covered /\ flush[f] # Idle /\ version' = version
    BY <1>0 DEF FlushReads, FlushAt, FlushesAs
<1>2. /\ flush[f] \in FlushType /\ s \in Session /\ version[s] \in Nat /\ notified[s] \in Nat
    BY <1>0, <1>1, FlushUnderWay
<1>3. go \in FlushType /\ go.at = "stream" /\ go.session = s /\ go.version = version[s]
    BY <1>0, <1>2 DEF FlushType
<1> HIDE DEF go
<1>4. next = Idle => ~Pending(s)'
    <2>1. CASE version[s] > notified[s]
        BY <2>1, <1>3 DEF Constants
    <2>2. CASE ~(version[s] > notified[s])
        BY <2>2, <1>1 DEF Pending
    <2> QED BY <2>1, <2>2
<1>5. next = go \/ next = Idle
    OBVIOUS
<1> HIDE DEF next
<1>6. version[s] <= version[s]
    BY <1>2
<1> QED BY <1>1, <1>2, <1>3, <1>4, <1>5, <1>6, <1>0, Untold, FlushMoves

LEMMA FlushTakesStreamStep ==
    ASSUME Constants, IInv, NEW f \in Flusher, FlushTakesStream(f)
    PROVE  IInv'
<1>0. PICK s : s = flush[f].session
    OBVIOUS
<1> DEFINE go == [flush[f] EXCEPT !.at = "write", !.token = stream[s]]
           next == IF stream[s] = 0 THEN Idle ELSE go
<1>1. /\ FlushesAs(f, next) /\ notified' = notified /\ covered' = covered /\ flush[f] # Idle
      /\ stream' = stream
    BY <1>0 DEF FlushTakesStream, FlushAt, FlushesAs, streamVars
<1>2. /\ flush[f] \in FlushType /\ s \in Session /\ stream[s] \in Nat
      /\ flush[f].version <= version[s]
    BY <1>0, <1>1, FlushUnderWay
<1>3. /\ go \in FlushType /\ go.at = "write" /\ go.session = s /\ go.version = flush[f].version
      /\ go.token = stream[s]
    BY <1>0, <1>2 DEF FlushType
<1> HIDE DEF go
<1>4. next = Idle => ~Pending(s)'
    <2>1. CASE stream[s] # 0
        BY <2>1, <1>3 DEF Constants
    <2>2. CASE stream[s] = 0
        BY <2>2, <1>1 DEF Pending
    <2> QED BY <2>1, <2>2
<1>5. next = go \/ next = Idle
    OBVIOUS
<1> HIDE DEF next
<1> QED BY <1>0, <1>1, <1>2, <1>3, <1>4, <1>5, Untold, FlushMoves

LEMMA FlushWritesStep ==
    ASSUME Constants, IInv, NEW f \in Flusher, FlushWrites(f)
    PROVE  IInv'
<1>0. PICK s : s = flush[f].session
    OBVIOUS
<1> DEFINE ok == stream[s] = flush[f].token /\ <<s, flush[f].token>> \notin broken
           go == [flush[f] EXCEPT !.at = "mark"]
           next == IF ok THEN go ELSE Idle
<1>1. /\ FlushesAs(f, next) /\ notified' = notified /\ flush[f] # Idle /\ flush[f].at = "write"
      /\ covered' = IF ok THEN [covered EXCEPT ![s] = version[s]] ELSE covered
      /\ stream' = stream /\ broken' = broken
    BY <1>0 DEF FlushWrites, FlushAt, FlushesAs, streamVars
<1>2. /\ flush[f] \in FlushType /\ s \in Session /\ version[s] \in Nat /\ flush[f].version <= version[s]
    BY <1>0, <1>1, FlushUnderWay
<1>3. go \in FlushType /\ go.at = "mark" /\ go.session = s /\ go.version = flush[f].version
    BY <1>0, <1>2 DEF FlushType
<1> HIDE DEF go
<1>4. next = Idle => ~Pending(s)' \/ ~Useful(f, s)
  <2>1. CASE ok
      BY <2>1, <1>3 DEF Constants
  <2>2. CASE ~ok
      BY <2>2, <1>0, <1>1 DEF Pending, Useful
  <2> QED BY <2>1, <2>2
<1>5. next = go \/ next = Idle
    OBVIOUS
<1>6. ok => covered'[s] = version[s]
    BY <1>1, <1>2, Untold
<1>7. next = go => covered'[s] = version[s]
    BY <1>6, <1>3 DEF Constants
<1>8. /\ covered' \in [Session -> Nat] /\ \A t \in Session : covered[t] <= covered'[t]
      /\ \A t \in Session : notified[t] <= covered'[t] /\ covered'[t] <= version[t]
  <2>1. covered' = covered \/ covered' = [covered EXCEPT ![s] = version[s]]
      BY <1>1
  <2>2. CASE covered' = covered
      BY <2>2, Untold
  <2>3. CASE covered' = [covered EXCEPT ![s] = version[s]]
    <3>1. covered' \in [Session -> Nat] /\ \A t \in Session : covered'[t] = IF t = s THEN version[t] ELSE covered[t]
        BY <2>3, <1>2, Untold
    <3>2. \A t \in Session : notified[t] \in Nat /\ covered[t] \in Nat /\ version[t] \in Nat
        BY Untold
    <3> QED BY <3>1, <3>2, Untold
  <2> QED BY <2>1, <2>2, <2>3
<1>9. notified' \in [Session -> Nat] /\ \A t \in Session : notified[t] <= notified'[t]
    BY <1>1, Untold
<1> HIDE DEF next, ok
<1> QED BY <1>1, <1>2, <1>3, <1>4, <1>5, <1>7, <1>8, <1>9, <1>0, FlushMoves

LEMMA FlushMarksStep ==
    ASSUME Constants, IInv, NEW f \in Flusher, MarkToolsListChangedNotified(f)
    PROVE  IInv'
<1>0. PICK s : s = flush[f].session
    OBVIOUS
<1> DEFINE next == [flush[f] EXCEPT !.at = "pending"]
           new == IF flush[f].version > notified[s] THEN flush[f].version ELSE notified[s]
<1>1. /\ FlushesAs(f, next) /\ covered' = covered /\ flush[f] # Idle /\ flush[f].at = "mark"
      /\ notified' = [notified EXCEPT ![s] = new]
    BY <1>0 DEF MarkToolsListChangedNotified, FlushAt
<1>2. /\ flush[f] \in FlushType /\ s \in Session /\ version[s] \in Nat /\ flush[f].version <= version[s]
      /\ flush[f].version <= covered[s] /\ flush[f].version \in Nat /\ notified[s] \in Nat
    BY <1>0, <1>1, FlushUnderWay
<1>3. next \in FlushType /\ next.at = "pending" /\ next.session = s /\ next.version = flush[f].version
    BY <1>0, <1>2 DEF FlushType
<1>4. new \in Nat /\ notified[s] <= new /\ new <= covered[s]
    BY <1>2, Untold
<1> HIDE DEF next, new
<1>5. /\ notified' \in [Session -> Nat] /\ \A t \in Session : notified[t] <= notified'[t]
      /\ \A t \in Session : notified'[t] <= covered'[t]
  <2>1. notified' \in [Session -> Nat] /\ \A t \in Session : notified'[t] = IF t = s THEN new ELSE notified[t]
      BY <1>1, <1>4, Untold
  <2> QED BY <2>1, <1>1, <1>4, Untold
<1>6. next # Idle
    BY <1>3 DEF Constants
<1> QED BY <1>1, <1>2, <1>3, <1>5, <1>6, <1>0, Untold, FlushMoves

-----------------------------------------------------------------------------
LEMMA NextIInv == Constants /\ IInv /\ [Next]_vars => IInv'
<1> SUFFICES ASSUME Constants, IInv, [Next]_vars PROVE IInv'
    OBVIOUS
<1>1. CASE UNCHANGED vars
  <2>1. UNCHANGED <<createVars, planVars, streamVars, noticeVars>>
      BY <1>1 DEF vars
  <2>2. Types' /\ LatestStreamStays' /\ Told' /\ Flushed'
      BY <2>1 DEF IInv, Types, LatestStreamStays, Told, Flushed, Pending, Useful, createVars, planVars,
                  streamVars, noticeVars
  <2> QED BY <2>1, <2>2, StreamStep DEF streamVars, noticeVars
<1>2. ASSUME NEW i \in Initializer,
             CreateSession(i) \/ CreateAtCapacity(i) \/ Recheck(i) \/ ActivateSession(i)
      PROVE  IInv'
    BY <1>2, InitializerSteps, ActivateStep
<1>3. CASE Stop \/ StopPlans \/ \E r \in removals : DeleteSession(r)
    BY <1>3, StopStep, StopPlansStep, DeleteStep
<1>4. ASSUME NEW q \in Request, Commit(q) \/ \E s \in Session : BeginSelect(q, s)
      PROVE  IInv'
    BY <1>4, CommitStep, BeginSelectStep
<1>5. ASSUME NEW s \in Session, Expire(s) \/ ClientGone(s)
      PROVE  IInv'
    BY <1>5, ExpireStep, ClientGoneStep
<1>6. ASSUME NEW s \in Session, NEW f \in Flusher, AttachStream(s, f) \/ MarkToolsListChanged(s, f)
      PROVE  IInv'
    BY <1>6, AttachStep, MarkStep
<1>7. ASSUME NEW s \in Session, NEW token \in 1 .. MaxStreams, DetachStream(s, token)
      PROVE  IInv'
  <2>1. token \in Nat
      OBVIOUS
  <2> QED BY <2>1, <1>7, DetachStep
<1>8. ASSUME NEW f \in Flusher, FlushStep(f)
      PROVE  IInv'
    BY <1>8, FlushReadsStep, FlushTakesStreamStep, FlushWritesStep, FlushMarksStep DEF FlushStep
<1> QED BY <1>1, <1>2, <1>3, <1>4, <1>5, <1>6, <1>7, <1>8 DEF Next

(***************************************************************************)
(* For any number of sessions, requests and goroutines the session manager *)
(* and the plan store keep their capacity, plans do not outlive their      *)
(* session however late a request commits, the latest stream stays, and a  *)
(* change a connected client was not told of is being flushed to the       *)
(* stream attached now (session_manager.go, session_plan.go,               *)
(* notification.go).                                                       *)
(***************************************************************************)
THEOREM SessionsStaySound == ASSUME Constants PROVE Spec => []SessionsAreSound
<1>1. Init => IInv
    BY InitIInv
<1>2. IInv /\ [Next]_vars => IInv'
    BY NextIInv
<1>3. IInv => SessionsAreSound
    BY InvariantIsSound
<1> QED BY <1>1, <1>2, <1>3, PTL DEF Spec
=============================================================================
