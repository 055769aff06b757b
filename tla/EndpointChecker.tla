--------------------------- MODULE EndpointChecker ---------------------------
(***************************************************************************)
(* One health-check session (pkg/cluster/healthcheck/healthcheck.go): the  *)
(* loop of EndpointChecker.Start, the goroutines its timers start          *)
(* (OnCheck, OnTimeout) and the two unbuffered channels between them.      *)
(*                                                                         *)
(* The n-th check timer starts the n-th probe, and that probe arms the     *)
(* n-th deadline, so one number names all three.  Timers fire in any       *)
(* order: the interval, the probe timeout and the time a probe takes come  *)
(* from the config and the network.  A stopped timer does not fire, one    *)
(* that has fired cannot be stopped.                                       *)
(*                                                                         *)
(* checkTimeout is written by the loop and by OnCheck without a lock; each *)
(* read of it sees one of the pointers stored, and OnCheck's nil test and  *)
(* the Stop after it use the same read.                                    *)
(***************************************************************************)
EXTENDS Integers, FiniteSets

CONSTANTS
    HealthyThreshold,
    UnhealthyThreshold,
    MaxProbes   \* bound: check timers ever armed

Probe == 1 .. MaxProbes
None == 0   \* the nil timer

VARIABLES
    loop,          \* where the loop of Start is
    checkID,
    stopped,       \* the stop channel is closed
    checkTimer, armed,          \* the timer pointed to; the check timers running
    checkTimeout, deadlines,    \* the same for the probe deadlines
    expired,       \* OnTimeout goroutines waiting to send
    probe,         \* OnCheck goroutines
    answer,        \* the response the loop is handling
    healthCount, unHealthCount,
    good, bad,     \* probes behind the two counters, counted or not
    emitted,       \* the last verdict, with the number of probes behind it
    afterStop      \* results handled since Stop

timerVars == <<checkTimer, armed, checkTimeout, deadlines, expired>>
countVars == <<healthCount, unHealthCount, good, bad, emitted, afterStop>>
checkerVars == <<loop, checkID, stopped, timerVars, probe, answer, countVars>>

-----------------------------------------------------------------------------
\* Start arms the first check before it enters the loop.
CheckerInit ==
    /\ loop = "prepare"
    /\ checkID = 0
    /\ stopped = FALSE
    /\ checkTimer = 1
    /\ armed = {1}
    /\ checkTimeout = None
    /\ deadlines = {}
    /\ expired = {}
    /\ probe = [p \in Probe |-> [at |-> "none"]]
    /\ answer = None
    /\ healthCount = 0
    /\ unHealthCount = 0
    /\ good = {}
    /\ bad = {}
    /\ emitted = [kind |-> "none", probes |-> 0]
    /\ afterStop = 0

-----------------------------------------------------------------------------
\* HandleSuccess; at the threshold handleHealth emits and clears the counters.
HandleSuccess(p) ==
    LET emit == healthCount + 1 >= HealthyThreshold IN
    /\ healthCount' = IF emit THEN 0 ELSE healthCount + 1
    /\ unHealthCount' = 0
    /\ good' = IF emit THEN {} ELSE good \cup {p}
    /\ bad' = {}
    /\ emitted' = IF emit THEN [kind |-> "healthy", probes |-> Cardinality(good \cup {p})]
                          ELSE emitted

\* HandleFailure, for a negative answer and for a timeout.
HandleFailure(p) ==
    LET emit == unHealthCount + 1 >= UnhealthyThreshold IN
    /\ healthCount' = 0
    /\ unHealthCount' = IF emit THEN 0 ELSE unHealthCount + 1
    /\ good' = {}
    /\ bad' = IF emit THEN {} ELSE bad \cup {p}
    /\ emitted' = IF emit THEN [kind |-> "unhealthy", probes |-> Cardinality(bad \cup {p})]
                          ELSE emitted

CountAfterStop == afterStop' = IF stopped THEN afterStop + 1 ELSE afterStop

\* checkTimer = AfterFunc(interval, OnCheck); cancel is what was stopped first.
NextCheck(cancel) ==
    /\ checkTimer < MaxProbes
    /\ checkTimer' = checkTimer + 1
    /\ armed' = (armed \ cancel) \cup {checkTimer + 1}

\* The loop returns: cleanupStart stops the timers it points to.
Return ==
    /\ loop' = "done"
    /\ armed' = armed \ {checkTimer}
    /\ deadlines' = deadlines \ {checkTimeout}
    /\ UNCHANGED <<checkID, stopped, checkTimer, checkTimeout, expired, probe, answer, countVars>>

-----------------------------------------------------------------------------
\* Top of the loop.
Prepare ==
    /\ loop = "prepare"
    /\ \/ stopped /\ Return
       \/ /\ ~stopped
          /\ checkID' = checkID + 1
          /\ loop' = "select"
          /\ UNCHANGED <<stopped, timerVars, probe, answer, countVars>>

\* The inner select: any of the channels that are ready.
SelectStop == loop = "select" /\ stopped /\ Return

\* An answer to another check is dropped; nothing is armed for it.
SelectResponse(p) ==
    /\ loop = "select"
    /\ probe[p].at = "send"
    /\ probe' = [probe EXCEPT ![p].at = "done"]
    /\ IF probe[p].id = checkID THEN loop' = "stop timeout" /\ answer' = p
                                ELSE loop' = "prepare" /\ UNCHANGED answer
    /\ UNCHANGED <<checkID, stopped, timerVars, countVars>>

\* checkTimeout.Stop(), skipped with the assignment after it if it is nil.
StopTimeout ==
    /\ loop = "stop timeout"
    /\ loop' = IF checkTimeout = None THEN "record" ELSE "clear timeout"
    /\ deadlines' = deadlines \ {checkTimeout}
    /\ UNCHANGED <<checkID, stopped, checkTimer, armed, checkTimeout, expired, probe, answer,
                   countVars>>

\* Mutant: after an answer no further check is armed.
RecordNoRearm ==
    /\ loop \in {"clear timeout", "record"}
    /\ checkTimeout' = IF loop = "clear timeout" THEN None ELSE checkTimeout
    /\ IF probe[answer].healthy THEN HandleSuccess(answer) ELSE HandleFailure(answer)
    /\ CountAfterStop
    /\ loop' = "prepare"
    /\ answer' = None
    /\ UNCHANGED <<checkID, stopped, checkTimer, armed, deadlines, expired, probe>>

Record ==
    /\ loop \in {"clear timeout", "record"}
    /\ checkTimeout' = IF loop = "clear timeout" THEN None ELSE checkTimeout
    /\ IF probe[answer].healthy THEN HandleSuccess(answer) ELSE HandleFailure(answer)
    /\ CountAfterStop
    /\ NextCheck({})
    /\ loop' = "prepare"
    /\ answer' = None
    /\ UNCHANGED <<checkID, stopped, deadlines, expired, probe>>

SelectTimeout(p) ==
    /\ loop = "select"
    /\ p \in expired
    /\ expired' = expired \ {p}
    /\ HandleFailure(p)
    /\ CountAfterStop
    /\ NextCheck({checkTimer})
    /\ loop' = "prepare"
    /\ UNCHANGED <<checkID, stopped, checkTimeout, deadlines, probe, answer>>

-----------------------------------------------------------------------------
(***************************************************************************)
(* OnCheck, on the goroutine of its timer.                                 *)
(***************************************************************************)
OnCheck(p) ==
    /\ p \in armed
    /\ armed' = armed \ {p}
    /\ probe' = [probe EXCEPT ![p] = [at |-> "load", id |-> 0, healthy |-> FALSE]]
    /\ UNCHANGED <<loop, checkID, stopped, checkTimer, checkTimeout, deadlines, expired, answer,
                   countVars>>

LoadID(p) ==
    /\ probe[p].at = "load"
    /\ probe' = [probe EXCEPT ![p].at = "stop", ![p].id = checkID]
    /\ UNCHANGED <<loop, checkID, stopped, timerVars, answer, countVars>>

StopOldTimeout(p) ==
    /\ probe[p].at = "stop"
    /\ probe' = [probe EXCEPT ![p].at = "arm"]
    /\ deadlines' = deadlines \ {checkTimeout}
    /\ UNCHANGED <<loop, checkID, stopped, checkTimer, armed, checkTimeout, expired, answer,
                   countVars>>

ArmTimeout(p) ==
    /\ probe[p].at = "arm"
    /\ probe' = [probe EXCEPT ![p].at = "check"]
    /\ checkTimeout' = p
    /\ deadlines' = deadlines \cup {p}
    /\ UNCHANGED <<loop, checkID, stopped, checkTimer, armed, expired, answer, countVars>>

CheckHealth(p) ==
    /\ probe[p].at = "check"
    /\ \E healthy \in BOOLEAN :
          probe' = [probe EXCEPT ![p].at = "send", ![p].healthy = healthy]
    /\ UNCHANGED <<loop, checkID, stopped, timerVars, answer, countVars>>

OnTimeout(p) ==
    /\ p \in deadlines
    /\ deadlines' = deadlines \ {p}
    /\ expired' = expired \cup {p}
    /\ UNCHANGED <<loop, checkID, stopped, checkTimer, armed, checkTimeout, probe, answer,
                   countVars>>

Stop ==
    /\ ~stopped
    /\ stopped' = TRUE
    /\ UNCHANGED <<loop, checkID, timerVars, probe, answer, countVars>>

CheckerNext ==
    \/ Prepare \/ SelectStop \/ StopTimeout \/ Record \/ Stop
    \/ \E p \in Probe :
          \/ SelectResponse(p) \/ SelectTimeout(p)
          \/ OnCheck(p) \/ LoadID(p) \/ StopOldTimeout(p) \/ ArmTimeout(p) \/ CheckHealth(p)
          \/ OnTimeout(p)

CheckerSpec == CheckerInit /\ [][CheckerNext]_checkerVars

-----------------------------------------------------------------------------
CheckerTypes ==
    /\ loop \in {"prepare", "select", "stop timeout", "clear timeout", "record", "done"}
    /\ checkID \in Nat
    /\ {checkTimer} \cup armed \cup expired \cup deadlines \subseteq Probe
    /\ checkTimeout \in Probe \cup {None}
    /\ healthCount \in 0 .. HealthyThreshold - 1
    /\ unHealthCount \in 0 .. UnhealthyThreshold - 1

(***************************************************************************)
(* Health checking never dries up: though a stale answer is dropped        *)
(* without arming anything and probes stop each other's deadlines, a       *)
(* session that is not stopped always has a probe, a deadline or a check   *)
(* timer under way.                                                        *)
(***************************************************************************)
NeverDriesUp ==
    ~stopped /\ checkTimer < MaxProbes =>
        \/ armed # {} \/ deadlines # {} \/ expired # {} \/ answer # None
        \/ \E p \in Probe : probe[p].at \notin {"none", "done"}

(***************************************************************************)
(* An endpoint becomes healthy only after healthyThreshold consecutive     *)
(* successes, of that many probes and with no failure counted in between,  *)
(* whatever late answers and deadlines arrive meanwhile.                   *)
(***************************************************************************)
HealthyTakesThreshold == emitted.kind = "healthy" => emitted.probes >= HealthyThreshold

(***************************************************************************)
(* A stopped session handles at most one more result, the one its select   *)
(* may still pick.                                                         *)
(***************************************************************************)
StopIsPrompt == afterStop <= 1

\* A session goes on until it is stopped, and its successes count in a row.
SessionIsSound == CheckerTypes /\ NeverDriesUp /\ HealthyTakesThreshold /\ StopIsPrompt

\* What the proofs assume of the constants; CreateHealthCheckWithCallback puts a default for a
\* threshold of 0.
Constants ==
    /\ HealthyThreshold \in Nat \ {0} /\ UnhealthyThreshold \in Nat \ {0}
    /\ MaxProbes \in Nat \ {0}
=============================================================================
