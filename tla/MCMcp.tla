------------------------------- MODULE MCMcp -------------------------------
(***************************************************************************)
(* The MCP server filter in five small worlds: a crowd of sessions at the  *)
(* manager's capacity (McpSession); one session with its streams and       *)
(* notifications; the requests of two identities in one session; updates   *)
(* of the catalog from two sources, which may overlap; and every           *)
(* configuration of the tool router (McpRouter).  A behaviour stays in the *)
(* world it starts in.                                                     *)
(***************************************************************************)
EXTENDS McpSession, McpRouter

CONSTANTS ann, bob, t1, t2, s1, s2, i1, c1, c2, u1, u2

VARIABLE world

MCAllowed == [who \in {ann, bob} |-> IF who = ann THEN {t1, t2} ELSE {t1}]
MCTags == [t \in {t1, t2} |-> IF t = t1 THEN {"read"} ELSE {"write"}]
MCRisk == [t \in {t1, t2} |-> IF t = t1 THEN 1 ELSE 3]

When(op, values) == [op |-> op, values |-> values]

MCRule ==
    {[when |-> When("in", {ann}), deny |-> {}, allow |-> {}, maxRisk |-> 2],
     [when |-> When("missing", {}), deny |-> {"write"}, allow |-> {}, maxRisk |-> 0],
     [when |-> When("always", {}), deny |-> {}, allow |-> {"write"}, maxRisk |-> 0]}

MCWorkflow ==
    {[name |-> s1, when |-> When("in", {ann}), tools |-> {t2}],
     [name |-> s1, when |-> When("always", {}), tools |-> {t1}],
     [name |-> s2, when |-> When("present", {}), tools |-> {t1, t2}],
     [name |-> s2, when |-> When("always", {}), tools |-> {t1}],
     [name |-> s2, when |-> When("always", {}), tools |-> {}]}

\* The sessions and goroutines of one client; the flushers are those of the crowd.
Streams == INSTANCE McpSession WITH
    Session <- {1}, Initializer <- {i1}, Request <- {},
    MaxEntries <- 1, MaxMarks <- 2, MaxStreams <- 2

\* The instance is one the proofs are about.
ASSUME SessionConstants == Constants /\ Streams!Constants

mcpVars == <<world, vars, routerVars, selectionVars>>

\* The parts that are not looked at stay in one of their initial states.
McpInit ==
    /\ world \in {"crowd", "streams", "calls", "updates", "selections"}
    /\ IF world = "crowd" THEN Init ELSE Streams!Init
    /\ RouterInit /\ SelectionInit
    /\ world # "selections" => config = [rules |-> {}, workflows |-> <<>>, staged |-> FALSE,
                                        progressive |-> NoName, fallback |-> NoName]

\* Requests are alike, and so are updates: the second begins only beside the first.
InTurn ==
    /\ call[c2] = Nothing /\ call'[c2] # Nothing => call[c1] # Nothing
    /\ upd[u2] = Nothing /\ upd'[u2] # Nothing => upd[u1] # Nothing

InCrowd == world = "crowd" /\ UNCHANGED <<world, routerVars, selectionVars>>
InStreams == world = "streams" /\ UNCHANGED <<world, routerVars, selectionVars>>
InCalls == world = "calls" /\ UNCHANGED <<world, vars, selectionVars>>
InUpdates == world = "updates" /\ UNCHANGED <<world, vars, selectionVars>>
InSelections == world = "selections" /\ UNCHANGED <<world, vars, routerVars>>

McpNext ==
    \/ InCrowd /\ Next
    \/ InStreams /\ Streams!Next
    \/ InCalls /\ RouterNext /\ InTurn /\ updates' = 0
    \/ /\ InUpdates /\ RouterNext /\ InTurn /\ calls' <= 2
       /\ configs'[s1] \in {Nothing, {}, {t1, t2}} /\ configs'[s2] \in {Nothing, {t2}}
       /\ \A c \in Call : call'[c] = Nothing \/ call'[c].who = ann
    \/ InSelections /\ SelectionNext

McpSpec == McpInit /\ [][McpNext]_mcpVars /\ Streams!Fairness
=============================================================================
