-------------------------------- MODULE McpRouter --------------------------------
(***************************************************************************)
(* The tool router of the MCP server filter (filter/mcp/mcpserver/router,  *)
(* handlers.go), while the tool catalog is updated from registries         *)
(* (dynamic.go, registry.go).  A tool is its name.                         *)
(*                                                                         *)
(* The first part is how a selector is built from a configuration and what *)
(* it selects (builder.go, composite.go, policy.go, workflow.go,           *)
(* progressive.go, match.go).  The context is one claim with its value, or *)
(* Absent or Empty.  A clause equals, in or regex is the set of values it  *)
(* accepts.  Order matters for workflows, so they are a sequence; it does  *)
(* not for tools and rules.                                                *)
(*                                                                         *)
(* The second part is which tools one session may list and call.  A        *)
(* request takes the catalog's snapshot and goes through the plan store in *)
(* several critical sections; requests and updates interleave between      *)
(* them.  An identity is what the verified claims are hashed to.  Allowed  *)
(* is what policy and workflow leave of a full catalog for an identity,    *)
(* Initial the bundle shown before ExpandAfter successful calls.  The      *)
(* router's own configuration does not change while it runs.               *)
(***************************************************************************)
EXTENDS Naturals, Sequences, FiniteSets, TLAPS

CONSTANTS
    Tool,
    Tags, Risk, Hidden,  \* the tools' metadata: tags, risk 1 .. 3, not discoverable
    Value, Absent, Empty,\* values of the claim
    Rule,                \* policy rules: [when, deny, allow, maxRisk]
    Workflow,            \* workflows: [name, when, tools]
    Name,                \* names of bundles a configuration may refer to
    NoName,
    MaxWorkflows         \* bound: workflows in a configuration

CONSTANTS
    Identity, Source,
    Allowed,      \* Identity -> SUBSET Tool
    Initial,      \* the progressive gate's initial bundle
    Static,       \* tools of the file configuration
    ExpandAfter,
    Call, Update, \* requests and catalog updates that can be under way
    Nothing,
    MaxCalls, MaxUpdates \* bounds

VARIABLES
    config, \* [rules, workflows, staged, progressive, fallback]
    state,  \* unbuilt, refused, ready, selected
    plan    \* [value, offered, expanded, tools, mode]

VARIABLES
    catalog,  \* [tools, gen]: the published snapshot
    configs,  \* per source: its tools, or Nothing
    catalogs, \* every catalog published so far, by generation
    entry,    \* the session's entry in the plan store, or Nothing
    alive,    \* the session is not removed
    call, upd,
    seen,     \* the tools the client was last shown, with its identity, or Nothing
    pending,  \* a tools/list_changed was marked after that
    slipped,  \* a plan or a list passed by the updates' comparison (see StaleListIsMarked)
    successes,\* successful calls per identity
    calls, updates

selectionVars == <<config, state, plan>>
routerVars == <<catalog, configs, catalogs, entry, alive, call, upd, seen, pending, slipped,
                successes, calls, updates>>

\* The records of the plan store, of requests and of updates.
Snapshots == [tools : SUBSET Tool, gen : Nat]
Versions == [gen : Nat, who : Identity, expanded : BOOLEAN]
Plans == [tools : SUBSET Tool, version : Versions, gen : Nat, who : Identity]
Entries == [tools : SUBSET Tool, version : Versions, who : Identity, catalog : Nat, count : Nat,
            expanded : BOOLEAN, gen : Nat, receipts : SUBSET Nat, nextReceipt : Nat]
Receipts == [id : Nat, gen : Nat, who : Identity, catalog : Nat]

Op == {"list", "call", "expand"}
Opened == [at : {"version"}, op : Op, who : Identity, tool : Tool \cup {Nothing}, snap : Snapshots]
Versioned == [at : {"cached", "issue", "compute"}, op : Op, who : Identity, tool : Tool \cup {Nothing},
              snap : Snapshots, version : Versions]
Planned == [at : {"commit"}, op : Op, who : Identity, tool : Tool \cup {Nothing}, snap : Snapshots,
            plan : Plans]
Responding == [at : {"respond"}, op : Op, who : Identity, snap : Snapshots, tools : SUBSET Tool]
Sent == [at : {"backend"}, op : {"call"}, who : Identity, tool : Tool, snap : Snapshots,
         receipt : Receipts]
Requests == Opened \cup Versioned \cup Planned \cup Responding \cup Sent

Awaiting == [at : {"snapshot", "mark"}]
Holding == [at : {"contexts"}, snap : Snapshots]
Comparing == [at : {"refresh"}, snap : Snapshots, tools : SUBSET Tool, gen : Nat, who : Identity]
Refreshes == Awaiting \cup Holding \cup Comparing

Lists == [who : Identity, tools : SUBSET Tool]

ASSUME RouterAssumption ==
    /\ Allowed \in [Identity -> SUBSET Tool]
    /\ Initial \subseteq Tool /\ Static \subseteq Tool
    /\ ExpandAfter \in Nat
    /\ Nothing \notin Identity
    /\ Nothing \notin Entries /\ Nothing \notin Requests
    /\ Nothing \notin Refreshes /\ Nothing \notin Lists

-----------------------------------------------------------------------------
(***************************************************************************)
(* The selection                                                           *)
(***************************************************************************)
NoPlan == [value |-> Absent, offered |-> {}, expanded |-> FALSE, tools |-> {}, mode |-> "none"]

-----------------------------------------------------------------------------
\* matcher.matches
clauseMatches(when, value) ==
    CASE when.op = "always" -> TRUE
      [] when.op = "missing" -> value \in {Absent, Empty}
      [] when.op = "present" -> value \notin {Absent, Empty}
      [] when.op = "in" -> value \in when.values

\* denyReason: deny tags, then required tags, then the risk ceiling.
Denies(rule, tool) ==
    \/ Tags[tool] \cap rule.deny # {}
    \/ rule.allow # {} /\ Tags[tool] \cap rule.allow = {}
    \/ rule.maxRisk > 0 /\ Risk[tool] > rule.maxRisk

\* PolicyFilter.Filter
Filter(rules, tools, value) ==
    {t \in tools : \A r \in rules : clauseMatches(r.when, value) => ~Denies(r, t)}

\* A workflow without a clause is a bundle to refer to and matches nothing.
HasWhen(w) == w.when.op # "always"

\* matchWorkflow: the first that matches, or 0.
matchWorkflow(workflows, value) ==
    LET matching == {i \in DOMAIN workflows : HasWhen(workflows[i]) /\ clauseMatches(workflows[i].when, value)}
    IN  IF matching = {} THEN 0 ELSE CHOOSE i \in matching : \A j \in matching : i <= j

\* bundleTools
Bundles(c, name) == {i \in DOMAIN c.workflows : c.workflows[i].name = name}
bundleTools(c, name) == UNION {c.workflows[i].tools : i \in Bundles(c, name)}

-----------------------------------------------------------------------------
Remaining(tools) == [tools |-> tools, outcome |-> "selected"]

\* What a stage leaves; an outcome that is decided stays.
Stage(before, tools, whenEmpty) ==
    IF before.outcome # "selected" THEN before
    ELSE [tools |-> tools,
          outcome |-> IF before.tools # {} /\ tools = {} THEN whenEmpty ELSE "selected"]

applyPolicy(c, offered, value) ==
    IF c.rules = {} THEN Remaining(offered)
    ELSE Stage(Remaining(offered), Filter(c.rules, offered, value), "explicit_deny")

applyWorkflow(c, before, value) ==
    LET w == matchWorkflow(c.workflows, value) IN
    IF ~c.staged \/ c.workflows = <<>> \/ before.outcome # "selected" THEN before
    ELSE IF w # 0 THEN Stage(before, before.tools \cap c.workflows[w].tools, "empty_by_configuration")
    ELSE [before EXCEPT !.outcome =
              IF \E i \in DOMAIN c.workflows : HasWhen(c.workflows[i]) THEN "no_match" ELSE @]

applyProgressive(c, before, expanded) ==
    IF c.progressive = NoName \/ expanded THEN before
    ELSE Stage(before, before.tools \cap bundleTools(c, c.progressive), "empty_by_configuration")

finalizeOutcome(last) ==
    IF last.outcome = "selected" /\ last.tools = {} THEN [last EXCEPT !.outcome = "no_match"] ELSE last

runSelectionPipeline(c, offered, value, expanded) ==
    finalizeOutcome(applyProgressive(c, applyWorkflow(c, applyPolicy(c, offered, value), value), expanded))

outcomeAllowsFallback(outcome) == outcome = "no_match"

\* Mutant: the fallback bundle is taken from the whole catalog.
fallbackIgnoresPolicy(c, offered, value) == offered

policyAllowed(c, offered, value) ==
    IF c.rules = {} THEN offered ELSE Filter(c.rules, offered, value)

\* applyFallback: fail_closed, or the default bundle as far as policy allows it.
applyFallback(c, offered, value) ==
    IF c.fallback = NoName THEN {} ELSE policyAllowed(c, offered, value) \cap bundleTools(c, c.fallback)

\* computeSelectionPlan
Select(c, offered, value, expanded) ==
    LET p == runSelectionPipeline(c, offered, value, expanded)
    IN  IF outcomeAllowsFallback(p.outcome) THEN applyFallback(c, offered, value)
        ELSE IF p.outcome = "selected" THEN p.tools ELSE {}

-----------------------------------------------------------------------------
\* BuildWithOptions: workflow names are unique, the initial bundle exists, and
\* the default bundle exists and is not empty.
Valid(c) ==
    /\ \A i, j \in DOMAIN c.workflows : c.workflows[i].name = c.workflows[j].name => i = j
    /\ c.progressive # NoName => Bundles(c, c.progressive) # {}
    /\ c.fallback # NoName => bundleTools(c, c.fallback) # {}

Build ==
    /\ state = "unbuilt"
    /\ state' = IF Valid(config) THEN "ready" ELSE "refused"
    /\ UNCHANGED <<config, plan>>

\* Select, for tools/list and tools/call.
SelectTools(offered, value, expanded) ==
    /\ state = "ready"
    /\ state' = "selected"
    /\ plan' = [value |-> value, offered |-> offered, expanded |-> expanded, mode |-> "selected",
                tools |-> Select(config, offered, value, expanded)]
    /\ UNCHANGED config

\* HandleSelectionFailure: Select failed; only policy and the fallback are left.
HandleSelectionFailure(offered, value) ==
    /\ state = "ready"
    /\ state' = "selected"
    /\ plan' = [value |-> value, offered |-> offered, expanded |-> FALSE, mode |-> "failure",
                tools |-> applyFallback(config, offered, value)]
    /\ UNCHANGED config

\* filterByPlan: what tools/list shows of a plan.
VisibleNames(p) == p.tools \ Hidden

Configs ==
    [rules : SUBSET Rule, workflows : UNION {[1 .. n -> Workflow] : n \in 0 .. MaxWorkflows},
     staged : BOOLEAN, progressive : Name \cup {NoName}, fallback : Name \cup {NoName}]

SelectionInit ==
    /\ config \in Configs
    /\ state = "unbuilt" /\ plan = NoPlan

SelectionNext ==
    \/ Build
    \/ \E offered \in SUBSET Tool, value \in Value :
          \/ \E expanded \in BOOLEAN : SelectTools(offered, value, expanded)
          \/ HandleSelectionFailure(offered, value)

SelectionSpec == SelectionInit /\ [][SelectionNext]_selectionVars

-----------------------------------------------------------------------------
(***************************************************************************)
(* Policy is a hard filter: whatever path a plan comes from, workflow,     *)
(* expansion, fallback or failure, a client is neither shown nor allowed a *)
(* tool that some rule for it denies.                                      *)
(***************************************************************************)
PolicyIsHard ==
    \A t \in plan.tools \cup VisibleNames(plan), r \in config.rules :
        clauseMatches(r.when, plan.value) => ~Denies(r, t)

(***************************************************************************)
(* Adding a rule never exposes a tool that was not exposed without it: a   *)
(* policy that leaves a workflow or the gate nothing does not fall back.   *)
(***************************************************************************)
RulesNeverWiden ==
    plan.mode = "selected" =>
        \A r \in Rule :
            Select([config EXCEPT !.rules = @ \cup {r}], plan.offered, plan.value, plan.expanded)
                \subseteq plan.tools

(***************************************************************************)
(* Successful calls only add tools: what a session sees before it expands, *)
(* it still sees afterwards.                                               *)
(***************************************************************************)
ExpansionOnlyAdds ==
    (plan.mode = "selected" /\ ~plan.expanded) =>
        plan.tools \subseteq Select(config, plan.offered, plan.value, TRUE)

\* A stricter policy shows no more and a successful call no fewer tools, whichever
\* selection falls back to which.
SelectionIsSound == PolicyIsHard /\ RulesNeverWiden /\ ExpansionOnlyAdds

-----------------------------------------------------------------------------
\* runSelectionPipeline: what is left of the tools for an identity.
Selected(tools, who, expanded) ==
    tools \cap Allowed[who] \cap (IF expanded THEN Tool ELSE Initial)

\* CallState: the progressive state, if it is this identity's.
Expanded(who) == entry # Nothing /\ entry.who = who /\ entry.expanded

\* version: what a plan depends on.
Version(snap, who) == [gen |-> snap.gen, who |-> who, expanded |-> Expanded(who)]

Plan(snap, who, version) ==
    [tools |-> Selected(snap.tools, who, Expanded(who)), version |-> version, gen |-> snap.gen,
     who |-> who]

NoEntry == [count |-> 0, expanded |-> FALSE, gen |-> 0, nextReceipt |-> 0, who |-> Nothing]

\* setLocked: another identity starts anew; receipts of the old plan are void.
setLocked(p) ==
    LET old == IF entry = Nothing THEN NoEntry ELSE entry
        kept == old.who = p.who
    IN  [tools |-> p.tools, version |-> p.version, who |-> p.who, catalog |-> p.gen,
         count |-> IF kept THEN old.count ELSE 0, expanded |-> kept /\ old.expanded,
         gen |-> old.gen + 1, receipts |-> {}, nextReceipt |-> old.nextReceipt]

\* issueReceipt, and the receipt
issueReceipt(e) == [e EXCEPT !.nextReceipt = @ + 1, !.receipts = @ \cup {e.nextReceipt + 1}]
Receipt(e) == [id |-> e.nextReceipt + 1, gen |-> e.gen, who |-> e.who, catalog |-> e.catalog]

-----------------------------------------------------------------------------
Goes(c, next) == call' = [call EXCEPT ![c] = next]
At(c, step) == call[c] # Nothing /\ call[c].at = step

\* The session was found and the snapshot taken.
Begins(c, op, who, tool) ==
    /\ call[c] = Nothing /\ alive /\ calls < MaxCalls
    /\ calls' = calls + 1
    /\ Goes(c, [at |-> "version", op |-> op, who |-> who, tool |-> tool, snap |-> catalog])
    /\ UNCHANGED <<catalog, configs, catalogs, entry, alive, upd, seen, pending, slipped, successes, updates>>

ToolsList(c, who) == Begins(c, "list", who, Nothing)
ToolsCall(c, who, tool) == Begins(c, "call", who, tool)

ComputeVersion(c) ==
    LET p == call[c] IN
    /\ At(c, "version")
    /\ Goes(c, [at |-> IF p.op = "call" THEN "issue" ELSE "cached", op |-> p.op, who |-> p.who,
                tool |-> p.tool, snap |-> p.snap, version |-> Version(p.snap, p.who)])
    /\ UNCHANGED <<catalog, configs, catalogs, entry, alive, upd, seen, pending, slipped, successes, calls, updates>>

Responds(p, tools) == [at |-> "respond", op |-> p.op, who |-> p.who, snap |-> p.snap, tools |-> tools]

\* cachedSelectionPlan
Cached(c) ==
    LET p == call[c] IN
    /\ At(c, "cached")
    /\ Goes(c, IF entry # Nothing /\ entry.version = p.version
               THEN Responds(p, entry.tools) ELSE [p EXCEPT !.at = "compute"])
    /\ UNCHANGED <<catalog, configs, catalogs, entry, alive, upd, seen, pending, slipped, successes, calls, updates>>

\* Mutant: a plan whose version differs is used all the same.
IssueFromStalePlan(c) ==
    LET p == call[c]
        authorized == entry # Nothing /\ p.tool \in entry.tools
    IN
    /\ At(c, "issue")
    /\ entry' = IF authorized THEN issueReceipt(entry) ELSE entry
    /\ Goes(c, IF authorized THEN [at |-> "backend", op |-> "call", who |-> p.who, tool |-> p.tool,
                                   snap |-> p.snap, receipt |-> Receipt(entry)] ELSE Nothing)
    /\ UNCHANGED <<catalog, configs, catalogs, alive, upd, seen, pending, slipped, successes, calls, updates>>

\* IssueReceiptForVersion: no plan, or a current plan without the tool, denies;
\* a stale plan is computed again.
IssueReceiptForVersion(c) ==
    LET p == call[c]
        stale == entry # Nothing /\ entry.version # p.version
        authorized == entry # Nothing /\ ~stale /\ p.tool \in entry.tools
    IN
    /\ At(c, "issue")
    /\ entry' = IF authorized THEN issueReceipt(entry) ELSE entry
    /\ Goes(c, CASE stale -> [p EXCEPT !.at = "compute"]
                 [] authorized -> [at |-> "backend", op |-> "call", who |-> p.who, tool |-> p.tool,
                                   snap |-> p.snap, receipt |-> Receipt(entry)]
                 [] OTHER -> Nothing)
    /\ UNCHANGED <<catalog, configs, catalogs, alive, upd, seen, pending, slipped, successes, calls, updates>>

\* computeSelectionPlan reads the progressive state again.
computeSelectionPlan(c) ==
    LET p == call[c] IN
    /\ At(c, "compute")
    /\ Goes(c, [at |-> "commit", op |-> p.op, who |-> p.who, tool |-> p.tool, snap |-> p.snap,
                plan |-> Plan(p.snap, p.who, p.version)])
    /\ UNCHANGED <<catalog, configs, catalogs, entry, alive, upd, seen, pending, slipped, successes, calls, updates>>

\* CommitPlan for a list or after an expansion; CommitAndIssueReceipt for a call.
\* A session that has gone owns no plan.
CommitPlan(c) ==
    LET p == call[c]
        e == setLocked(p.plan)
        authorized == p.op = "call" /\ p.tool \in e.tools
    IN
    /\ At(c, "commit")
    /\ entry' = IF ~alive THEN entry ELSE IF authorized THEN issueReceipt(e) ELSE e
    /\ slipped' = (slipped \/ (alive /\ p.op # "expand"))
    /\ Goes(c, CASE ~alive \/ (p.op = "call" /\ ~authorized) -> Nothing
                 [] alive /\ authorized ->
                        [at |-> "backend", op |-> "call", who |-> p.who, tool |-> p.tool,
                         snap |-> p.snap, receipt |-> Receipt(e)]
                 [] OTHER -> Responds(p, e.tools))
    /\ UNCHANGED <<catalog, configs, catalogs, alive, upd, seen, pending, successes, calls, updates>>

\* The session is looked at again before the list is sent.  After an
\* expansion the change is marked.
Respond(c) ==
    LET p == call[c] IN
    /\ At(c, "respond")
    /\ Goes(c, Nothing)
    /\ seen' = IF alive /\ p.op = "list" THEN [who |-> p.who, tools |-> p.tools] ELSE seen
    /\ pending' = IF alive THEN p.op = "expand" \/ (pending /\ p.op # "list") ELSE pending
    /\ slipped' = IF alive /\ p.op = "list"
                  THEN \/ entry = Nothing \/ entry.who # p.who \/ entry.tools # p.tools
                       \/ p.tools # Selected(catalog.tools, p.who, Expanded(p.who))
                  ELSE slipped
    /\ UNCHANGED <<catalog, configs, catalogs, entry, alive, upd, successes, calls, updates>>

-----------------------------------------------------------------------------
\* finalizeReceiptLocked: the receipt is of this very plan and was not used.
ReceiptMatches(receipt) ==
    /\ entry # Nothing
    /\ entry.gen = receipt.gen /\ entry.who = receipt.who /\ entry.catalog = receipt.catalog
    /\ receipt.id \in entry.receipts

\* FinalizeReceipt: the threshold is crossed once.
Crosses(receipt) ==
    ReceiptMatches(receipt) /\ ~entry.expanded /\ entry.count + 1 >= ExpandAfter

Succeeded(receipt) ==
    CASE ~ReceiptMatches(receipt) -> entry
      [] Crosses(receipt) -> [entry EXCEPT !.count = @ + 1, !.expanded = TRUE, !.gen = @ + 1, !.receipts = {}]
      [] OTHER -> [entry EXCEPT !.count = @ + 1, !.receipts = @ \ {receipt.id}]

\* processToolCallResponse of a good answer; after an expansion the plan is
\* selected again from the catalog of now.
BackendSucceeds(c) ==
    LET p == call[c] IN
    /\ At(c, "backend") /\ alive
    /\ entry' = Succeeded(p.receipt)
    /\ successes' = [successes EXCEPT ![p.who] = @ + 1]
    /\ Goes(c, IF Crosses(p.receipt)
               THEN [at |-> "version", op |-> "expand", who |-> p.who, tool |-> p.tool, snap |-> catalog]
               ELSE Nothing)
    /\ UNCHANGED <<catalog, configs, catalogs, alive, upd, seen, pending, slipped, calls, updates>>

\* A bad answer, or the session has gone: the receipt is released.
BackendFails(c) ==
    LET p == call[c] IN
    /\ At(c, "backend")
    /\ entry' = IF ReceiptMatches(p.receipt) THEN [entry EXCEPT !.receipts = @ \ {p.receipt.id}] ELSE entry
    /\ Goes(c, Nothing)
    /\ UNCHANGED <<catalog, configs, catalogs, alive, upd, seen, pending, slipped, successes, calls, updates>>

\* The session is removed and its plan with it.
SessionRemoved ==
    /\ alive
    /\ alive' = FALSE
    /\ entry' = Nothing
    /\ UNCHANGED <<catalog, configs, catalogs, call, upd, seen, pending, slipped, successes, calls, updates>>

-----------------------------------------------------------------------------
(***************************************************************************)
(* DynamicConsumer                                                         *)
(***************************************************************************)
Merged(cs) == UNION {cs[s] : s \in {t \in Source : cs[t] # Nothing}}

\* buildToolCatalogSnapshot refuses two tools of one name.
Duplicates(cs) ==
    \E s, t \in Source : s # t /\ cs[s] # Nothing /\ cs[t] # Nothing /\ cs[s] \cap cs[t] # {}

restoreServerConfig(cs) == UNCHANGED configs

\* applyServerTools and removeServerConfig, under the consumer's lock.
ApplyServerTools(u, s, tools) ==
    LET cs == [configs EXCEPT ![s] = tools]
        snap == [tools |-> Merged(cs), gen |-> catalog.gen + 1]
    IN
    /\ upd[u] = Nothing /\ updates < MaxUpdates
    /\ configs[s] # tools
    /\ updates' = updates + 1
    /\ IF Duplicates(cs)
       THEN restoreServerConfig(cs) /\ UNCHANGED <<catalog, catalogs, upd>>
       ELSE /\ configs' = cs
            /\ catalog' = snap
            /\ catalogs' = [g \in 0 .. snap.gen |-> IF g = snap.gen THEN snap.tools ELSE catalogs[g]]
            /\ upd' = [upd EXCEPT ![u] = [at |-> "snapshot"]]
    /\ UNCHANGED <<entry, alive, call, seen, pending, slipped, successes, calls>>

UpdateAt(u, step) == upd[u] # Nothing /\ upd[u].at = step

\* notifyToolsListChanged, without the consumer's lock: the catalog of now ...
SnapshotCatalog(u) ==
    /\ UpdateAt(u, "snapshot")
    /\ upd' = [upd EXCEPT ![u] = [at |-> "contexts", snap |-> catalog]]
    /\ UNCHANGED <<catalog, configs, catalogs, entry, alive, call, seen, pending, slipped, successes, calls, updates>>

\* ... and then the plans.
SessionPlanContexts(u) ==
    /\ UpdateAt(u, "contexts")
    /\ upd' = [upd EXCEPT ![u] = IF alive /\ entry # Nothing
                                 THEN [at |-> "refresh", snap |-> upd[u].snap, tools |-> entry.tools,
                                       gen |-> entry.gen, who |-> entry.who]
                                 ELSE Nothing]
    /\ UNCHANGED <<catalog, configs, catalogs, entry, alive, call, seen, pending, slipped, successes, calls, updates>>

Changed(before, after) == after # before

\* RefreshPlan.  SetIfCurrent commits only to the plan that was read, and its
\* generation pins the progressive state too, so the computation is one step.
\* A plan that was replaced meanwhile is passed over.
RefreshPlan(u) ==
    LET b == upd[u]
        next == Plan(b.snap, b.who, Version(b.snap, b.who))
        current == alive /\ entry # Nothing /\ entry.gen = b.gen
        changed == current /\ Changed(b.tools, next.tools)
    IN
    /\ UpdateAt(u, "refresh")
    /\ entry' = IF current THEN setLocked(next) ELSE entry
    /\ upd' = [upd EXCEPT ![u] = IF changed THEN [at |-> "mark"] ELSE Nothing]
    /\ slipped' = (slipped \/ (alive /\ entry # Nothing /\ ~current /\ entry.catalog # b.snap.gen))
    /\ UNCHANGED <<catalog, configs, catalogs, alive, call, seen, pending, successes, calls, updates>>

\* A closed session is not marked.
MarkChanged(u) ==
    /\ UpdateAt(u, "mark")
    /\ upd' = [upd EXCEPT ![u] = Nothing]
    /\ pending' = (pending \/ alive)
    /\ UNCHANGED <<catalog, configs, catalogs, entry, alive, call, seen, slipped, successes, calls, updates>>

-----------------------------------------------------------------------------
RouterInit ==
    /\ catalog = [tools |-> Static, gen |-> 1]
    /\ configs = [s \in Source |-> Nothing]
    /\ catalogs = [g \in 0 .. 1 |-> IF g = 0 THEN {} ELSE Static]
    /\ entry = Nothing /\ alive = TRUE
    /\ call = [c \in Call |-> Nothing] /\ upd = [u \in Update |-> Nothing]
    /\ seen = Nothing /\ pending = FALSE /\ slipped = FALSE
    /\ successes = [who \in Identity |-> 0]
    /\ calls = 0 /\ updates = 0

RouterNext ==
    \/ \E c \in Call :
          \/ \E who \in Identity : ToolsList(c, who) \/ \E t \in Tool : ToolsCall(c, who, t)
          \/ ComputeVersion(c) \/ Cached(c) \/ IssueReceiptForVersion(c) \/ computeSelectionPlan(c)
          \/ CommitPlan(c) \/ Respond(c) \/ BackendSucceeds(c) \/ BackendFails(c)
    \/ SessionRemoved
    \/ \E u \in Update :
          \/ \E s \in Source, tools \in (SUBSET Tool) \cup {Nothing} : ApplyServerTools(u, s, tools)
          \/ SnapshotCatalog(u) \/ SessionPlanContexts(u) \/ RefreshPlan(u) \/ MarkChanged(u)

RouterSpec == RouterInit /\ [][RouterNext]_routerVars

-----------------------------------------------------------------------------
(***************************************************************************)
(* A call reaches the backend only if its tool was in the catalog the      *)
(* request saw, policy allows it to the caller, and, outside the initial   *)
(* bundle, the caller has made the successful calls that open the rest:    *)
(* whatever other identities, updates and expansions were interleaved.     *)
(***************************************************************************)
CallsAreAuthorized ==
    \A c \in Call : At(c, "backend") =>
        /\ call[c].tool \in call[c].snap.tools \cap Allowed[call[c].who]
        /\ call[c].tool \notin Initial => successes[call[c].who] >= ExpandAfter

(***************************************************************************)
(* The stored plan is a selection from the catalog it names for the        *)
(* identity it names, and is expanded only by successful calls of that     *)
(* identity, each counted once.                                            *)
(***************************************************************************)
PlanIsEarned ==
    entry # Nothing =>
        /\ \E expanded \in BOOLEAN :
              /\ entry.tools = Selected(catalogs[entry.catalog], entry.who, expanded)
              /\ expanded => successes[entry.who] >= ExpandAfter
        /\ entry.count <= successes[entry.who]
        /\ entry.expanded => entry.count >= ExpandAfter

(***************************************************************************)
(* Once a source has published, the catalog is what the sources publish    *)
(* together, with no tool from two of them; a refused update leaves both   *)
(* as they were.                                                           *)
(***************************************************************************)
CatalogIsMerge ==
    /\ ~Duplicates(configs)
    /\ catalog.gen > 1 => catalog.tools = Merged(configs)

Quiet == (\A c \in Call : call[c] = Nothing) /\ (\A u \in Update : upd[u] = Nothing)

(***************************************************************************)
(* When nothing is under way, a client whose last list differs from what   *)
(* it would be shown now has a tools/list_changed marked - unless a plan   *)
(* slipped past the comparison: a request computed it again before the     *)
(* update could compare, the list was out of date when it was sent, or an  *)
(* update found its plan replaced for another catalog, by an update that   *)
(* overlapped it or by a request.                                          *)
(***************************************************************************)
StaleListIsMarked ==
    (Quiet /\ alive /\ seen # Nothing /\ ~slipped /\ entry # Nothing) =>
        (Selected(catalog.tools, seen.who, Expanded(seen.who)) # seen.tools => pending)

(***************************************************************************)
(* What the documentation promises of changes (docs/ai/mcp/mcp.md: "When a *)
(* session's visible tool set changes, Pixiu sends                         *)
(* notifications/tools/list_changed", "the final pending change is not     *)
(* lost"): the same without the exception.                                 *)
(***************************************************************************)
ChangeIsNotLost ==
    (Quiet /\ alive /\ seen # Nothing /\ entry # Nothing /\ entry.who = seen.who) =>
        (Selected(catalog.tools, seen.who, Expanded(seen.who)) # seen.tools => pending)

\* A call goes out, and a list is shown, by the catalog, the policy and the
\* progress of its own identity, whatever updates and other identities come between.
PlansAreSound == CallsAreAuthorized /\ PlanIsEarned /\ CatalogIsMerge /\ StaleListIsMarked

-----------------------------------------------------------------------------
(***************************************************************************)
(* Proofs.  PlansAreSound is not inductive: what a request or an update    *)
(* holds while it has no lock has to be described too.                     *)
(***************************************************************************)
RouterTypes ==
    /\ catalog \in Snapshots
    /\ \A s \in Source : configs[s] # Nothing => configs[s] \subseteq Tool
    /\ DOMAIN configs = Source
    /\ catalogs \in [0 .. catalog.gen -> SUBSET Tool]
    /\ entry # Nothing => entry \in Entries
    /\ alive \in BOOLEAN /\ pending \in BOOLEAN /\ slipped \in BOOLEAN
    /\ DOMAIN call = Call /\ \A c \in Call : call[c] # Nothing => call[c] \in Requests
    /\ DOMAIN upd = Update /\ \A u \in Update : upd[u] # Nothing => upd[u] \in Refreshes
    /\ seen # Nothing => seen \in Lists
    /\ successes \in [Identity -> Nat]

\* A snapshot is of a catalog that was published.
Published(snap) == snap.gen <= catalog.gen /\ snap.tools = catalogs[snap.gen]

\* A selection from a catalog, expanded only by calls that succeeded.
IsEarned(tools, gen, who) ==
    \/ tools = Selected(catalogs[gen], who, FALSE)
    \/ tools = Selected(catalogs[gen], who, TRUE) /\ successes[who] >= ExpandAfter

\* What a request holds between two critical sections.
RequestOK(p) ==
    /\ Published(p.snap)
    /\ p.at \in {"version", "cached", "issue", "compute", "commit"} /\ p.op = "call" => p.tool \in Tool
    /\ p.at = "issue" => p.op = "call"
    /\ p.at \in {"cached", "issue", "compute"} => p.version.gen = p.snap.gen /\ p.version.who = p.who
    /\ p.at = "commit" => /\ p.plan.gen = p.snap.gen /\ p.plan.who = p.who
                          /\ p.plan.version.gen = p.snap.gen /\ p.plan.version.who = p.who
                          /\ IsEarned(p.plan.tools, p.snap.gen, p.who)
    /\ p.at = "backend" => /\ p.receipt.who = p.who
                           /\ p.tool \in p.snap.tools \cap Allowed[p.who]
                           /\ p.tool \notin Initial => successes[p.who] >= ExpandAfter

RequestsOK == \A c \in Call : call[c] # Nothing => RequestOK(call[c])

\* The stored plan is of the catalog and the identity that its version names.
PlanOK(e) ==
    /\ e.catalog <= catalog.gen /\ e.version.gen = e.catalog /\ e.version.who = e.who
    /\ IsEarned(e.tools, e.catalog, e.who)
    /\ e.count <= successes[e.who]
    /\ e.expanded => e.count >= ExpandAfter

\* A generation stands for one plan, so an update that finds its generation
\* finds the plan it read.
UpdateOK(b) ==
    /\ b.at \in {"contexts", "refresh"} => Published(b.snap)
    /\ b.at = "refresh" /\ alive =>
          /\ entry # Nothing /\ b.gen <= entry.gen
          /\ b.gen = entry.gen => b.tools = entry.tools /\ b.who = entry.who

UpdatesOK == \A u \in Update : upd[u] # Nothing => UpdateOK(upd[u])

CatalogOK == catalog.gen >= 1 /\ catalogs[catalog.gen] = catalog.tools /\ CatalogIsMerge

\* An update that has yet to compare the plan with the catalog of now.
Covers(b) == b.at = "snapshot" \/ (b.at \in {"contexts", "refresh"} /\ b.snap = catalog)

\* A change is marked or about to be, or the plan slipped past the comparison.
Informed == pending \/ slipped
        \/ (\E c \in Call : call[c] # Nothing /\ call[c].op = "expand")
        \/ (\E u \in Update : UpdateAt(u, "mark"))

\* What the client was shown is the stored plan, and the plan is what the catalog
\* of now gives, or an update is about to find out.
ListIsFollowed ==
    (alive /\ seen # Nothing /\ entry # Nothing /\ ~Informed) =>
        /\ entry.who = seen.who /\ entry.tools = seen.tools
        /\ entry.catalog = catalog.gen => entry.tools = Selected(catalog.tools, entry.who, entry.expanded)
        /\ \/ entry.tools = Selected(catalog.tools, entry.who, entry.expanded)
           \/ \E u \in Update : upd[u] # Nothing /\ Covers(upd[u])

RouterInv ==
    /\ RouterTypes /\ CatalogOK /\ RequestsOK /\ (entry # Nothing => PlanOK(entry)) /\ UpdatesOK
    /\ ListIsFollowed

-----------------------------------------------------------------------------
(***************************************************************************)
(* The selection.  Its stages and outcomes come to a simple form: unless   *)
(* no workflow matches, the tools that policy allows, as far as they are   *)
(* in the workflow's and the gate's bundles; otherwise, as far as they are *)
(* in the fallback's.                                                      *)
(***************************************************************************)
Misses(c, value) ==
    /\ c.staged /\ c.workflows # <<>> /\ matchWorkflow(c.workflows, value) = 0
    /\ \E i \in DOMAIN c.workflows : HasWhen(c.workflows[i])

Bundled(c, value, expanded, t) ==
    /\ (c.staged /\ c.workflows # <<>> /\ matchWorkflow(c.workflows, value) # 0)
          => t \in c.workflows[matchWorkflow(c.workflows, value)].tools
    /\ (c.progressive # NoName /\ ~expanded) => t \in bundleTools(c, c.progressive)

Form(c, offered, value, expanded) ==
    IF Misses(c, value) THEN applyFallback(c, offered, value)
    ELSE {t \in policyAllowed(c, offered, value) : Bundled(c, value, expanded, t)}

\* The outcome of the pipeline is worth keeping only where something is left: a
\* stage that leaves nothing denies, and what is denied does not fall back.
LEMMA SelectForm ==
    ASSUME NEW c, NEW offered, NEW value, NEW expanded
    PROVE  Select(c, offered, value, expanded) = Form(c, offered, value, expanded)
<1> DEFINE P == policyAllowed(c, offered, value)
           w == matchWorkflow(c.workflows, value)
           a == applyPolicy(c, offered, value)
           b == applyWorkflow(c, a, value)
           g == applyProgressive(c, b, expanded)
           F == applyFallback(c, offered, value)
<1>1. /\ a = [tools |-> P, outcome |-> a.outcome]
      /\ a.tools = P
      /\ a.outcome = "selected" \/ (a.outcome = "explicit_deny" /\ P = {})
  BY DEF policyAllowed, applyPolicy, Remaining, Stage
<1>2. Select(c, offered, value, expanded) =
        IF finalizeOutcome(g).outcome = "no_match" THEN F
        ELSE IF finalizeOutcome(g).outcome = "selected" THEN finalizeOutcome(g).tools ELSE {}
  BY DEF Select, runSelectionPipeline, outcomeAllowsFallback
<1>3. F \subseteq P
  BY DEF applyFallback
<1> HIDE DEF a, P, w, F
<1>4. /\ b = [tools |-> b.tools, outcome |-> b.outcome]
      /\ a.outcome # "selected" => b = a
      /\ (a.outcome = "selected" /\ Misses(c, value)) => b.tools = P /\ b.outcome = "no_match"
      /\ (a.outcome = "selected" /\ ~Misses(c, value)) =>
           /\ b.tools = {t \in P : (c.staged /\ c.workflows # <<>> /\ w # 0) => t \in c.workflows[w].tools}
           /\ (b.outcome = "selected" /\ (P # {} => b.tools # {})) \/ (b.outcome = "empty_by_configuration" /\ b.tools = {})
  <2>1. CASE a.outcome # "selected"
    BY <2>1, <1>1 DEF applyWorkflow
  <2>2. CASE a.outcome = "selected" /\ (~c.staged \/ c.workflows = <<>>)
    BY <2>2, <1>1 DEF applyWorkflow, Misses
  <2>3. CASE a.outcome = "selected" /\ c.staged /\ c.workflows # <<>> /\ w # 0
    <3>1. b = Stage(a, a.tools \cap c.workflows[w].tools, "empty_by_configuration")
      BY <2>3, <1>1 DEF applyWorkflow, w
    <3> QED BY <3>1, <2>3, <1>1 DEF Stage, Misses, w
  <2>4. CASE a.outcome = "selected" /\ c.staged /\ c.workflows # <<>> /\ w = 0
    <3>1. b = [a EXCEPT !.outcome =
                 IF \E i \in DOMAIN c.workflows : HasWhen(c.workflows[i]) THEN "no_match" ELSE @]
      BY <2>4, <1>1 DEF applyWorkflow, w
    <3>2. b = IF \E i \in DOMAIN c.workflows : HasWhen(c.workflows[i])
              THEN [tools |-> P, outcome |-> "no_match"] ELSE [tools |-> P, outcome |-> "selected"]
      BY <3>1, <2>4, <1>1
    <3> QED BY <3>2, <2>4, <1>1 DEF Misses, w
  <2> QED BY <2>1, <2>2, <2>3, <2>4
<1> HIDE DEF b
<1>5. /\ g = [tools |-> g.tools, outcome |-> g.outcome]
      /\ b.outcome # "selected" => g = b
      /\ b.outcome = "selected" =>
           /\ g.tools = {t \in b.tools : (c.progressive # NoName /\ ~expanded)
                                           => t \in bundleTools(c, c.progressive)}
           /\ (g.outcome = "selected" /\ (b.tools # {} => g.tools # {})) \/ (g.outcome = "empty_by_configuration" /\ g.tools = {})
  BY <1>4 DEF applyProgressive, Stage
<1> HIDE DEF g
<1>6. finalizeOutcome(g) =
        IF g.outcome = "selected" /\ g.tools = {} THEN [tools |-> {}, outcome |-> "no_match"] ELSE g
  BY <1>5 DEF finalizeOutcome
<1>7. CASE a.outcome # "selected"
  <2>1. Select(c, offered, value, expanded) = {} /\ P = {}
    BY <1>1, <1>2, <1>4, <1>5, <1>6, <1>7
  <2> QED BY <2>1, <1>3 DEF Form, P, F
<1>8. CASE a.outcome = "selected" /\ Misses(c, value)
  BY <1>2, <1>4, <1>5, <1>6, <1>8 DEF Form, F
<1>9. CASE a.outcome = "selected" /\ ~Misses(c, value)
  <2>1. Form(c, offered, value, expanded) = {t \in P : Bundled(c, value, expanded, t)}
    BY <1>9 DEF Form, P
  <2>2. CASE b.outcome # "selected"
    <3>1. Select(c, offered, value, expanded) = {}
      BY <2>2, <1>2, <1>4, <1>5, <1>6, <1>9
    <3> QED BY <3>1, <2>1, <2>2, <1>4, <1>9 DEF Bundled, w
  <2>3. CASE b.outcome = "selected"
    <3>1. g.tools = {t \in P : Bundled(c, value, expanded, t)}
      BY <2>3, <1>4, <1>5, <1>9 DEF Bundled, w
    <3>2. (g.outcome = "selected" /\ g.tools = {}) => F = {}
      BY <2>3, <1>3, <1>4, <1>5, <1>9
    <3> QED BY <3>1, <3>2, <2>1, <2>3, <1>2, <1>5, <1>6
  <2> QED BY <2>2, <2>3
<1> QED BY <1>1, <1>7, <1>8, <1>9

\* A rule more, and policy allows no more; and it is left which workflow matches.
LEMMA StricterPolicy ==
    ASSUME NEW c \in Configs, NEW r, NEW offered, NEW value
    PROVE  LET d == [c EXCEPT !.rules = @ \cup {r}] IN
           /\ policyAllowed(d, offered, value) \subseteq policyAllowed(c, offered, value)
           /\ d.workflows = c.workflows /\ d.staged = c.staged
           /\ d.progressive = c.progressive /\ d.fallback = c.fallback
<1> DEFINE d == [c EXCEPT !.rules = @ \cup {r}]
<1>1. /\ d.rules = c.rules \cup {r} /\ d.workflows = c.workflows /\ d.staged = c.staged
      /\ d.progressive = c.progressive /\ d.fallback = c.fallback
  BY DEF Configs
<1> HIDE DEF d
<1>2. policyAllowed(d, offered, value) \subseteq policyAllowed(c, offered, value)
  BY <1>1 DEF policyAllowed, Filter
<1> QED BY <1>1, <1>2 DEF d

LEMMA SelectionNarrows ==
    ASSUME NEW c \in Configs, NEW r, NEW offered, NEW value, NEW expanded
    PROVE  Select([c EXCEPT !.rules = @ \cup {r}], offered, value, expanded)
             \subseteq Select(c, offered, value, expanded)
<1> DEFINE d == [c EXCEPT !.rules = @ \cup {r}]
<1>1. /\ policyAllowed(d, offered, value) \subseteq policyAllowed(c, offered, value)
      /\ d.workflows = c.workflows /\ d.staged = c.staged
      /\ d.progressive = c.progressive /\ d.fallback = c.fallback
  BY StricterPolicy
<1> HIDE DEF d
<1>2. \A n : bundleTools(d, n) = bundleTools(c, n)
  BY <1>1 DEF bundleTools, Bundles
<1>3. Misses(d, value) <=> Misses(c, value)
  BY <1>1 DEF Misses
<1>4. \A t : Bundled(d, value, expanded, t) <=> Bundled(c, value, expanded, t)
  BY <1>1, <1>2 DEF Bundled
<1>5. applyFallback(d, offered, value) \subseteq applyFallback(c, offered, value)
  BY <1>1, <1>2 DEF applyFallback
<1>6. Form(d, offered, value, expanded) \subseteq Form(c, offered, value, expanded)
  BY <1>1, <1>3, <1>4, <1>5 DEF Form
<1> QED BY <1>6, SelectForm DEF d

\* What is selected is allowed, and an expansion only opens the gate.
LEMMA SelectionAllowed ==
    ASSUME NEW c, NEW offered, NEW value
    PROVE  /\ \A expanded : Select(c, offered, value, expanded) \subseteq policyAllowed(c, offered, value)
           /\ applyFallback(c, offered, value) \subseteq policyAllowed(c, offered, value)
           /\ Select(c, offered, value, FALSE) \subseteq Select(c, offered, value, TRUE)
           /\ \A t \in policyAllowed(c, offered, value), r \in c.rules :
                  clauseMatches(r.when, value) => ~Denies(r, t)
<1>1. applyFallback(c, offered, value) \subseteq policyAllowed(c, offered, value)
  BY DEF applyFallback
<1>2. \A expanded : Form(c, offered, value, expanded) \subseteq policyAllowed(c, offered, value)
  BY <1>1 DEF Form
<1>3. Form(c, offered, value, FALSE) \subseteq Form(c, offered, value, TRUE)
  BY DEF Form, Bundled
<1>4. \A t \in policyAllowed(c, offered, value), r \in c.rules : clauseMatches(r.when, value) => ~Denies(r, t)
  BY DEF policyAllowed, Filter
<1> QED BY <1>1, <1>2, <1>3, <1>4, SelectForm

\* The plan in hand is what its inputs select.
SelectionInv ==
    /\ config \in Configs
    /\ plan.mode \in {"none", "selected", "failure"}
    /\ plan.mode = "none" => plan.tools = {}
    /\ plan.mode = "selected" => /\ plan.expanded \in BOOLEAN
                                 /\ plan.tools = Select(config, plan.offered, plan.value, plan.expanded)
    /\ plan.mode = "failure" => plan.tools = applyFallback(config, plan.offered, plan.value)

(***************************************************************************)
(* Whatever rules and workflows are configured, policy filters what every  *)
(* selection and every fallback gives, a further rule exposes nothing, and *)
(* an expansion takes nothing away.                                        *)
(***************************************************************************)
THEOREM SelectionStaysSound == SelectionSpec => []SelectionIsSound
<1>1. SelectionInit => SelectionInv
  BY DEF SelectionInit, SelectionInv, NoPlan
<1>2. SelectionInv /\ [SelectionNext]_selectionVars => SelectionInv'
  <2> SUFFICES ASSUME SelectionInv, [SelectionNext]_selectionVars PROVE SelectionInv'
    OBVIOUS
  <2>1. CASE Build
    BY <2>1 DEF Build, SelectionInv
  <2>2. ASSUME NEW offered \in SUBSET Tool, NEW value \in Value, NEW expanded \in BOOLEAN,
               SelectTools(offered, value, expanded)
        PROVE  SelectionInv'
    <3>1. /\ plan'.mode = "selected" /\ plan'.offered = offered /\ plan'.value = value
          /\ plan'.expanded = expanded /\ plan'.tools = Select(config, offered, value, expanded)
      BY <2>2 DEF SelectTools
    <3>2. config' = config
      BY <2>2 DEF SelectTools
    <3> QED BY <3>1, <3>2 DEF SelectionInv
  <2>3. ASSUME NEW offered \in SUBSET Tool, NEW value \in Value, HandleSelectionFailure(offered, value)
        PROVE  SelectionInv'
    BY <2>3 DEF HandleSelectionFailure, SelectionInv
  <2>4. CASE UNCHANGED selectionVars
    BY <2>4 DEF selectionVars, SelectionInv
  <2> QED BY <2>1, <2>2, <2>3, <2>4 DEF SelectionNext
<1>3. SelectionInv => SelectionIsSound
  <2> SUFFICES ASSUME SelectionInv PROVE SelectionIsSound
    OBVIOUS
  <2>1. plan.tools \subseteq policyAllowed(config, plan.offered, plan.value)
    <3>1. CASE plan.mode = "none"
      BY <3>1 DEF SelectionInv
    <3>2. CASE plan.mode = "selected"
      <4>1. plan.tools = Select(config, plan.offered, plan.value, plan.expanded)
        BY <3>2 DEF SelectionInv
      <4>2. Select(config, plan.offered, plan.value, plan.expanded)
              \subseteq policyAllowed(config, plan.offered, plan.value)
        BY SelectionAllowed, Zenon
      <4> QED BY <4>1, <4>2
    <3>3. CASE plan.mode = "failure"
      BY <3>3, SelectionAllowed DEF SelectionInv
    <3> QED BY <3>1, <3>2, <3>3 DEF SelectionInv
  <2>2. PolicyIsHard
    BY <2>1, SelectionAllowed DEF PolicyIsHard, VisibleNames
  <2>3. RulesNeverWiden
    BY SelectionNarrows DEF RulesNeverWiden, SelectionInv
  <2>4. ExpansionOnlyAdds
    <3>1. plan.mode = "selected" /\ ~plan.expanded => plan.expanded = FALSE
      BY DEF SelectionInv
    <3> QED BY <3>1, SelectionAllowed DEF ExpansionOnlyAdds, SelectionInv
  <2> QED BY <2>2, <2>3, <2>4 DEF SelectionIsSound
<1> QED BY <1>1, <1>2, <1>3, PTL DEF SelectionSpec

-----------------------------------------------------------------------------
(***************************************************************************)
(* The plan store                                                          *)
(***************************************************************************)
LEMMA RequestShape ==
    ASSUME NEW p \in Requests
    PROVE  /\ p.op \in Op /\ p.who \in Identity /\ p.snap \in Snapshots
           /\ p.at \in {"version", "cached", "issue", "compute", "commit", "respond", "backend"}
           /\ p.at = "version" => p \in Opened
           /\ p.at \in {"cached", "issue", "compute"} => p \in Versioned
           /\ p.at = "commit" => p \in Planned
           /\ p.at = "respond" => p \in Responding
           /\ p.at = "backend" => p \in Sent
BY DEF Requests, Opened, Versioned, Planned, Responding, Sent, Op

LEMMA RefreshShape ==
    ASSUME NEW b \in Refreshes
    PROVE  /\ b.at \in {"snapshot", "contexts", "refresh", "mark"}
           /\ b.at = "contexts" => b \in Holding
           /\ b.at = "refresh" => b \in Comparing
BY DEF Refreshes, Awaiting, Holding, Comparing

LEMMA SelectedType ==
    ASSUME NEW tools \in SUBSET Tool, NEW who \in Identity, NEW expanded
    PROVE  Selected(tools, who, expanded) \in SUBSET Tool
BY DEF Selected

\* Catalogs stay as they were published, and calls that succeeded count for ever.
Grows ==
    /\ catalog.gen <= catalog'.gen
    /\ \A g \in 0 .. catalog.gen : catalogs'[g] = catalogs[g]
    /\ \A who \in Identity : successes'[who] >= successes[who]

LEMMA EarnedKept ==
    ASSUME RouterTypes, RouterTypes', Grows, NEW tools, NEW gen \in 0 .. catalog.gen, NEW who \in Identity,
           IsEarned(tools, gen, who)
    PROVE  IsEarned(tools, gen, who)'
<1>1. catalogs'[gen] = catalogs[gen]
  BY DEF Grows
<1>2. successes[who] >= ExpandAfter => successes'[who] >= ExpandAfter
  BY RouterAssumption DEF Grows, RouterTypes
<1> QED BY <1>1, <1>2 DEF IsEarned, Selected

LEMMA PublishedKept ==
    ASSUME RouterTypes, RouterTypes', Grows, NEW snap \in Snapshots, Published(snap)
    PROVE  Published(snap)'
BY DEF Grows, Published, RouterTypes, Snapshots

LEMMA RequestKept ==
    ASSUME RouterTypes, RouterTypes', Grows, NEW p \in Requests, RequestOK(p)
    PROVE  RequestOK(p)'
<1>1. Published(p.snap)'
  BY PublishedKept, RequestShape DEF RequestOK
<1>2. p.at = "commit" => IsEarned(p.plan.tools, p.snap.gen, p.who)'
  <2>1. p.snap.gen \in 0 .. catalog.gen /\ p.who \in Identity
    BY RequestShape DEF RequestOK, Published, Snapshots, RouterTypes
  <2> QED BY <2>1, EarnedKept DEF RequestOK
<1>3. successes[p.who] >= ExpandAfter => successes'[p.who] >= ExpandAfter
  BY RouterAssumption, RequestShape DEF Grows, RouterTypes
<1> QED BY <1>1, <1>2, <1>3 DEF RequestOK

LEMMA PlanKept ==
    ASSUME RouterTypes, RouterTypes', Grows, NEW e \in Entries, PlanOK(e)
    PROVE  PlanOK(e)'
<1>1. e.who \in Identity /\ e.catalog \in 0 .. catalog.gen /\ e.count \in Nat
  BY DEF PlanOK, Entries, RouterTypes, Snapshots
<1>2. IsEarned(e.tools, e.catalog, e.who)'
  BY <1>1, EarnedKept DEF PlanOK
<1>3. e.count <= successes'[e.who] /\ e.catalog <= catalog'.gen
  BY <1>1 DEF PlanOK, Grows, RouterTypes, Snapshots
<1> QED BY <1>2, <1>3 DEF PlanOK

\* A request that goes on leaves the others where they are.
LEMMA RequestMoves ==
    ASSUME RouterTypes, NEW c \in Call, NEW next, Goes(c, next)
    PROVE  DOMAIN call' = Call /\ call'[c] = next /\ \A d \in Call : d # c => call'[d] = call[d]
BY DEF RouterTypes, Goes

LEMMA RequestsKept ==
    ASSUME RouterInv, RouterTypes', Grows, NEW c \in Call, NEW next, Goes(c, next),
           next # Nothing => RequestOK(next)'
    PROVE  RequestsOK'
<1>0. RouterTypes /\ RequestsOK
  BY DEF RouterInv
<1>1. call'[c] = next /\ \A d \in Call : d # c => call'[d] = call[d]
  BY <1>0, RequestMoves
<1>2. ASSUME NEW d \in Call, call'[d] # Nothing PROVE RequestOK(call[d])'
  <2>1. CASE d = c
    BY <1>1, <1>2, <2>1
  <2>2. CASE d # c
    <3>1. PICK p \in Requests : p = call[d]
      BY <1>0, <1>1, <1>2, <2>2 DEF RouterTypes
    <3>2. call'[d] = p /\ RequestOK(p)
      BY <1>0, <1>1, <1>2, <2>2, <3>1 DEF RequestsOK
    <3>3. RequestOK(p)'
      BY <1>0, <3>2, RequestKept
    <3> QED BY <3>2, <3>3
  <2> QED BY <2>1, <2>2
<1> QED BY <1>2 DEF RequestsOK

\* The plan changes only under a new generation.
Advances ==
    (alive' /\ entry # Nothing) =>
        /\ entry' # Nothing
        /\ \/ entry'.gen > entry.gen
           \/ entry'.gen = entry.gen /\ entry'.tools = entry.tools /\ entry'.who = entry.who

LEMMA UpdateKept ==
    ASSUME RouterInv, RouterTypes', Grows, alive' => alive, Advances, NEW b \in Refreshes, UpdateOK(b)
    PROVE  UpdateOK(b)'
<1>1. RouterTypes
  BY DEF RouterInv
<1>2. b.at \in {"contexts", "refresh"} => Published(b.snap)'
  <2>1. b.at \in {"contexts", "refresh"} => b.snap \in Snapshots /\ Published(b.snap)
    BY RefreshShape DEF UpdateOK, Holding, Comparing
  <2> QED BY <2>1, <1>1, PublishedKept
<1>3. ASSUME b.at = "refresh", alive'
      PROVE  /\ entry' # Nothing /\ b.gen <= entry'.gen
             /\ b.gen = entry'.gen => b.tools = entry'.tools /\ b.who = entry'.who
  <2>1. b.gen \in Nat
    BY <1>3, RefreshShape DEF Comparing
  <2>2. /\ entry # Nothing /\ b.gen <= entry.gen
        /\ b.gen = entry.gen => b.tools = entry.tools /\ b.who = entry.who
    BY <1>3 DEF UpdateOK
  <2>3. entry' # Nothing /\ entry.gen \in Nat /\ entry'.gen \in Nat
    BY <1>1, <1>3, <2>2 DEF Advances, RouterTypes, Entries
  <2> QED BY <1>3, <2>1, <2>2, <2>3 DEF Advances
<1> QED BY <1>2, <1>3 DEF UpdateOK

LEMMA UpdatesKept ==
    ASSUME RouterInv, RouterTypes', Grows, alive' => alive, Advances, upd' = upd
    PROVE  UpdatesOK'
<1> SUFFICES ASSUME NEW u \in Update, upd'[u] # Nothing PROVE UpdateOK(upd[u])'
  BY DEF UpdatesOK
<1>1. PICK b \in Refreshes : b = upd[u]
  BY DEF RouterInv, RouterTypes
<1>2. upd'[u] = b /\ UpdateOK(b)
  BY <1>1 DEF RouterInv, UpdatesOK
<1>3. UpdateOK(b)'
  BY <1>2, UpdateKept
<1> QED BY <1>2, <1>3

\* A step that leaves the plan as it was: receipts come and go.
KeepsPlan ==
    \/ entry' = entry
    \/ /\ entry # Nothing /\ entry' \in Entries
       /\ entry'.tools = entry.tools /\ entry'.version = entry.version /\ entry'.who = entry.who
       /\ entry'.catalog = entry.catalog /\ entry'.count = entry.count
       /\ entry'.expanded = entry.expanded /\ entry'.gen = entry.gen

Expanding(c) == call[c] # Nothing /\ call[c].op = "expand"

LEMMA RequestStep ==
    ASSUME RouterInv, NEW c \in Call, NEW next, Goes(c, next), KeepsPlan,
           UNCHANGED <<catalog, configs, catalogs, alive, upd, seen, pending, slipped, successes>>,
           next # Nothing => next \in Requests /\ RequestOK(next),
           Expanding(c) /\ alive => next # Nothing /\ next.op = "expand"
    PROVE  RouterInv'
<1>0. RouterTypes /\ CatalogOK /\ UpdatesOK /\ ListIsFollowed /\ (entry # Nothing => PlanOK(entry))
  BY DEF RouterInv
<1>1. DOMAIN call' = Call /\ call'[c] = next /\ \A d \in Call : d # c => call'[d] = call[d]
  BY <1>0, RequestMoves
<1>2. entry' # Nothing => entry' \in Entries
  BY <1>0 DEF KeepsPlan, RouterTypes
<1>3. RouterTypes'
  BY <1>0, <1>1, <1>2 DEF RouterTypes
<1>4. Grows
  BY <1>0 DEF Grows, RouterTypes, Snapshots
<1>5. RequestsOK'
  <2>1. next # Nothing => RequestOK(next)'
    BY <1>0, <1>3, <1>4, RequestKept
  <2> QED BY <2>1, <1>3, <1>4, RequestsKept
<1>6. CatalogOK'
  BY <1>0 DEF CatalogOK, CatalogIsMerge, Duplicates, Merged
<1>7. entry' # Nothing => PlanOK(entry)'
  BY <1>0 DEF KeepsPlan, PlanOK, IsEarned, Selected
<1>8. Advances
  <2>1. entry # Nothing => entry' # Nothing
    BY RouterAssumption DEF KeepsPlan
  <2> QED BY <2>1, <1>0 DEF Advances, KeepsPlan, RouterTypes, Entries
<1>9. UpdatesOK'
  BY <1>3, <1>4, <1>8, UpdatesKept
<1>10. ListIsFollowed'
  <2>1. Informed /\ alive => Informed'
    <3>1. ASSUME NEW d \in Call, Expanding(d), alive PROVE Expanding(d)'
      BY <1>1, <3>1 DEF Expanding
    <3>2. ASSUME NEW u \in Update, UpdateAt(u, "mark") PROVE UpdateAt(u, "mark")'
      BY <3>2 DEF UpdateAt
    <3> QED BY <3>1, <3>2 DEF Informed, Expanding
  <2>2. entry' # Nothing => /\ entry # Nothing /\ entry'.tools = entry.tools /\ entry'.who = entry.who
                            /\ entry'.catalog = entry.catalog /\ entry'.expanded = entry.expanded
    BY DEF KeepsPlan
  <2>3. \A u \in Update : upd[u] # Nothing /\ Covers(upd[u]) => (upd[u] # Nothing /\ Covers(upd[u]))'
    BY DEF Covers
  <2> QED BY <2>1, <2>2, <2>3, <1>0 DEF ListIsFollowed, Selected
<1> QED BY <1>3, <1>5, <1>6, <1>7, <1>9, <1>10 DEF RouterInv

LEMMA NowPublished ==
    ASSUME RouterInv
    PROVE  catalog \in Snapshots /\ Published(catalog)
BY DEF RouterInv, RouterTypes, CatalogOK, Published, Snapshots

LEMMA BeginsStep ==
    ASSUME RouterInv, NEW c \in Call, NEW op \in {"list", "call"}, NEW who \in Identity,
           NEW tool \in Tool \cup {Nothing}, op = "call" => tool \in Tool, Begins(c, op, who, tool)
    PROVE  RouterInv'
<1>1. PICK next : next = [at |-> "version", op |-> op, who |-> who, tool |-> tool, snap |-> catalog]
  OBVIOUS
<1>2. next \in Requests
  BY <1>1, NowPublished DEF Requests, Opened, Op
<1>3. RequestOK(next)
  BY <1>1, NowPublished DEF RequestOK
<1>4. Goes(c, next) /\ KeepsPlan /\ ~Expanding(c)
  BY <1>1 DEF Begins, KeepsPlan, Expanding
<1> QED BY <1>2, <1>3, <1>4, RequestStep DEF Begins

\* What the progressive state says was earned.
LEMMA ExpandedIsEarned ==
    ASSUME RouterInv, NEW who \in Identity
    PROVE  /\ Expanded(who) \in BOOLEAN
           /\ Expanded(who) => successes[who] >= ExpandAfter
<1>1. Expanded(who) \in BOOLEAN
  BY DEF Expanded, RouterInv, RouterTypes, Entries
<1>2. ASSUME Expanded(who) PROVE successes[who] >= ExpandAfter
  <2>1. entry \in Entries /\ PlanOK(entry) /\ entry.who = who /\ entry.expanded
    BY <1>2 DEF Expanded, RouterInv, RouterTypes
  <2> QED BY <2>1, RouterAssumption DEF PlanOK, Entries, RouterInv, RouterTypes
<1> QED BY <1>1, <1>2

LEMMA VersionType ==
    ASSUME RouterInv, NEW who \in Identity, NEW snap \in Snapshots
    PROVE  Version(snap, who) \in Versions /\ Version(snap, who).gen = snap.gen /\ Version(snap, who).who = who
<1>1. \A g \in Nat, x \in BOOLEAN : [gen |-> g, who |-> who, expanded |-> x] \in Versions
  BY DEF Versions
<1>2. snap.gen \in Nat /\ Expanded(who) \in BOOLEAN
  BY ExpandedIsEarned DEF Snapshots
<1> HIDE DEF Expanded
<1> QED BY <1>1, <1>2, Zenon DEF Version

LEMMA ComputeVersionStep ==
    ASSUME RouterInv, NEW c \in Call, ComputeVersion(c)
    PROVE  RouterInv'
<1>1. PICK p \in Requests : p = call[c] /\ p.at = "version" /\ RequestOK(p)
  BY DEF ComputeVersion, At, RouterInv, RouterTypes, RequestsOK
<1>2. p \in Opened
  BY <1>1, RequestShape
<1>3. PICK v : v = Version(p.snap, p.who)
  OBVIOUS
<1>4. v \in Versions /\ v.gen = p.snap.gen /\ v.who = p.who
  BY <1>2, <1>3, VersionType DEF Opened
<1>5. PICK next : next = [at |-> IF p.op = "call" THEN "issue" ELSE "cached", op |-> p.op, who |-> p.who,
                          tool |-> p.tool, snap |-> p.snap, version |-> v]
  OBVIOUS
<1>6. next \in Versioned
  BY <1>2, <1>4, <1>5 DEF Opened, Versioned
<1>7. next \in Requests /\ RequestOK(next)
  BY <1>1, <1>4, <1>5, <1>6 DEF Requests, RequestOK
<1>8. Goes(c, next) /\ KeepsPlan
  BY <1>1, <1>3, <1>5 DEF ComputeVersion, KeepsPlan
<1>9. next # Nothing /\ next.op = p.op
  BY <1>5, <1>7, RouterAssumption
<1> QED BY <1>1, <1>7, <1>8, <1>9, RequestStep DEF ComputeVersion, Expanding

LEMMA CachedStep ==
    ASSUME RouterInv, NEW c \in Call, Cached(c)
    PROVE  RouterInv'
<1>1. PICK p \in Requests : p = call[c] /\ p.at = "cached" /\ RequestOK(p)
  BY DEF Cached, At, RouterInv, RouterTypes, RequestsOK
<1>2. p \in Versioned
  BY <1>1, RequestShape
<1>3. PICK next : next = IF entry # Nothing /\ entry.version = p.version
                         THEN Responds(p, entry.tools) ELSE [p EXCEPT !.at = "compute"]
  OBVIOUS
<1>4. next \in Requests /\ RequestOK(next) /\ next.op = p.op
  <2>1. CASE entry # Nothing /\ entry.version = p.version
    <3>1. entry.tools \in SUBSET Tool
      BY <2>1 DEF RouterInv, RouterTypes, Entries
    <3>2. next = Responds(p, entry.tools)
      BY <2>1, <1>3
    <3>3. next \in Responding /\ next.at = "respond" /\ next.snap = p.snap /\ next.op = p.op
      BY <3>1, <3>2, <1>2 DEF Responds, Responding, Versioned
    <3> QED BY <3>3, <1>1 DEF Requests, RequestOK
  <2>2. CASE ~(entry # Nothing /\ entry.version = p.version)
    <3>1. next = [p EXCEPT !.at = "compute"]
      BY <2>2, <1>3
    <3>2. /\ next \in Versioned /\ next.at = "compute" /\ next.snap = p.snap /\ next.op = p.op
          /\ next.tool = p.tool /\ next.version = p.version /\ next.who = p.who
      BY <3>1, <1>2 DEF Versioned
    <3> QED BY <3>2, <1>1 DEF Requests, RequestOK
  <2> QED BY <2>1, <2>2
<1>5. Goes(c, next) /\ KeepsPlan
  BY <1>1, <1>3 DEF Cached, KeepsPlan
<1>6. next # Nothing
  BY <1>4, RouterAssumption
<1> QED BY <1>1, <1>4, <1>5, <1>6, RequestStep DEF Cached, Expanding

\* A plan computed now is earned.
LEMMA PlanType ==
    ASSUME RouterInv, NEW snap \in Snapshots, Published(snap), NEW who \in Identity, NEW v \in Versions,
           NEW made, made = Plan(snap, who, v)
    PROVE  /\ made \in Plans /\ made.gen = snap.gen /\ made.who = who /\ made.version = v
           /\ made.tools = Selected(snap.tools, who, Expanded(who))
           /\ IsEarned(made.tools, snap.gen, who)
<1>1. /\ made.gen = snap.gen /\ made.who = who /\ made.version = v
      /\ made.tools = Selected(snap.tools, who, Expanded(who))
      /\ made = [tools |-> made.tools, version |-> v, gen |-> snap.gen, who |-> who]
  BY DEF Plan
<1>2. made.tools \in SUBSET Tool
  BY <1>1, SelectedType DEF Snapshots
<1>3. made \in Plans
  BY <1>1, <1>2 DEF Plans, Snapshots
<1>4. IsEarned(made.tools, snap.gen, who)
  <2>1. CASE Expanded(who)
    BY <2>1, <1>1, ExpandedIsEarned DEF IsEarned, Published, Selected
  <2>2. CASE ~Expanded(who)
    BY <2>2, <1>1 DEF IsEarned, Published, Selected
  <2> QED BY <2>1, <2>2
<1> QED BY <1>1, <1>3, <1>4

LEMMA ComputeStep ==
    ASSUME RouterInv, NEW c \in Call, computeSelectionPlan(c)
    PROVE  RouterInv'
<1>1. PICK p \in Requests : p = call[c] /\ p.at = "compute" /\ RequestOK(p)
  BY DEF computeSelectionPlan, At, RouterInv, RouterTypes, RequestsOK
<1>2. p \in Versioned
  BY <1>1, RequestShape
<1>3. PICK made : made = Plan(p.snap, p.who, p.version)
  OBVIOUS
<1>4. /\ made \in Plans /\ made.gen = p.snap.gen /\ made.who = p.who /\ made.version = p.version
      /\ IsEarned(made.tools, p.snap.gen, p.who)
  BY <1>1, <1>2, <1>3, PlanType DEF Versioned, RequestOK
<1>5. PICK next : next = [at |-> "commit", op |-> p.op, who |-> p.who, tool |-> p.tool, snap |-> p.snap,
                          plan |-> made]
  OBVIOUS
<1>6. next \in Planned
  BY <1>2, <1>4, <1>5 DEF Versioned, Planned
<1>7. next \in Requests /\ RequestOK(next)
  BY <1>1, <1>4, <1>5, <1>6 DEF Requests, RequestOK
<1>8. Goes(c, next) /\ KeepsPlan
  BY <1>1, <1>3, <1>5 DEF computeSelectionPlan, KeepsPlan
<1>9. next # Nothing /\ next.op = p.op
  BY <1>5, <1>7, RouterAssumption
<1> QED BY <1>1, <1>7, <1>8, <1>9, RequestStep DEF computeSelectionPlan, Expanding

\* A receipt of a plan changes nothing else of it.
LEMMA ReceiptType ==
    ASSUME NEW e \in Entries, NEW f, f = issueReceipt(e), NEW r, r = Receipt(e)
    PROVE  /\ f \in Entries /\ r \in Receipts /\ r.who = e.who
           /\ f.tools = e.tools /\ f.version = e.version /\ f.who = e.who /\ f.catalog = e.catalog
           /\ f.count = e.count /\ f.expanded = e.expanded /\ f.gen = e.gen
<1>1. /\ f.tools = e.tools /\ f.version = e.version /\ f.who = e.who /\ f.catalog = e.catalog
      /\ f.count = e.count /\ f.expanded = e.expanded /\ f.gen = e.gen
      /\ f.nextReceipt = e.nextReceipt + 1 /\ f.receipts = e.receipts \cup {e.nextReceipt + 1}
      /\ f = [e EXCEPT !.nextReceipt = @ + 1, !.receipts = @ \cup {e.nextReceipt + 1}]
  BY DEF issueReceipt, Entries
<1>2. e.nextReceipt + 1 \in Nat /\ e.receipts \cup {e.nextReceipt + 1} \in SUBSET Nat
  BY DEF Entries
<1>3. f \in Entries
  BY <1>1, <1>2 DEF Entries
<1>4. r \in Receipts /\ r.who = e.who
  BY DEF Receipt, Entries, Receipts
<1> QED BY <1>1, <1>3, <1>4

\* A tool of an earned selection is one the caller may call.
LEMMA EarnedIsAllowed ==
    ASSUME RouterTypes, NEW tools, NEW gen, NEW who, IsEarned(tools, gen, who), NEW t \in tools
    PROVE  /\ t \in catalogs[gen] \cap Allowed[who]
           /\ t \notin Initial => successes[who] >= ExpandAfter
BY DEF IsEarned, Selected

LEMMA SentOK ==
    ASSUME RouterTypes, NEW p \in Requests, Published(p.snap), NEW t \in Tool, NEW r \in Receipts,
           r.who = p.who, NEW tools, IsEarned(tools, p.snap.gen, p.who), t \in tools, NEW next,
           next = [at |-> "backend", op |-> "call", who |-> p.who, tool |-> t, snap |-> p.snap, receipt |-> r]
    PROVE  next \in Requests /\ RequestOK(next)
<1>1. next \in Sent
  BY RequestShape DEF Sent
<1>2. /\ t \in p.snap.tools \cap Allowed[p.who]
      /\ t \notin Initial => successes[p.who] >= ExpandAfter
  BY EarnedIsAllowed DEF Published
<1> QED BY <1>1, <1>2 DEF Requests, RequestOK

LEMMA ReceiptStep ==
    ASSUME RouterInv, NEW c \in Call, IssueReceiptForVersion(c)
    PROVE  RouterInv'
<1>1. PICK p \in Requests : p = call[c] /\ p.at = "issue" /\ RequestOK(p)
  BY DEF IssueReceiptForVersion, At, RouterInv, RouterTypes, RequestsOK
<1>2. p \in Versioned /\ p.op = "call" /\ p.tool \in Tool
  BY <1>1, RequestShape DEF RequestOK
<1>3. ~Expanding(c)
  BY <1>1, <1>2 DEF Expanding
<1>4. CASE entry # Nothing /\ entry.version # p.version
  <2>1. PICK next : next = [p EXCEPT !.at = "compute"]
    OBVIOUS
  <2>2. /\ next \in Versioned /\ next.at = "compute" /\ next.snap = p.snap /\ next.op = p.op
        /\ next.tool = p.tool /\ next.version = p.version /\ next.who = p.who
    BY <2>1, <1>2 DEF Versioned
  <2>3. next \in Requests /\ RequestOK(next)
    BY <2>2, <1>1 DEF Requests, RequestOK
  <2>4. Goes(c, next) /\ KeepsPlan
    BY <2>1, <1>1, <1>4 DEF IssueReceiptForVersion, KeepsPlan
  <2> QED BY <2>3, <2>4, <1>3, RequestStep DEF IssueReceiptForVersion
<1>5. CASE entry # Nothing /\ entry.version = p.version /\ p.tool \in entry.tools
  <2>1. entry \in Entries /\ PlanOK(entry) /\ RouterTypes
    BY <1>5 DEF RouterInv, RouterTypes
  <2>2. PICK r : r = Receipt(entry)
    OBVIOUS
  <2>3. PICK next : next = [at |-> "backend", op |-> "call", who |-> p.who, tool |-> p.tool,
                            snap |-> p.snap, receipt |-> r]
    OBVIOUS
  <2>4. Goes(c, next) /\ entry' = issueReceipt(entry)
    BY <2>2, <2>3, <1>1, <1>5 DEF IssueReceiptForVersion
  <2>5. r \in Receipts /\ r.who = entry.who /\ KeepsPlan
    BY <2>1, <2>2, <2>4, <1>5, ReceiptType DEF KeepsPlan
  <2>6. entry.who = p.who /\ IsEarned(entry.tools, p.snap.gen, p.who)
    BY <2>1, <1>1, <1>5 DEF PlanOK, RequestOK
  <2>7. next \in Requests /\ RequestOK(next)
    BY <2>1, <2>3, <2>5, <2>6, <1>1, <1>2, <1>5, SentOK DEF RequestOK
  <2> QED BY <2>4, <2>5, <2>7, <1>3, RequestStep DEF IssueReceiptForVersion
<1>6. CASE entry = Nothing \/ (entry.version = p.version /\ p.tool \notin entry.tools)
  <2>1. Goes(c, Nothing) /\ KeepsPlan
    BY <1>1, <1>6 DEF IssueReceiptForVersion, KeepsPlan
  <2> QED BY <2>1, <1>3, RequestStep DEF IssueReceiptForVersion
<1> QED BY <1>4, <1>5, <1>6

LEMMA BackendFailsStep ==
    ASSUME RouterInv, NEW c \in Call, BackendFails(c)
    PROVE  RouterInv'
<1>1. PICK p \in Requests : p = call[c] /\ p.at = "backend"
  BY DEF BackendFails, At, RouterInv, RouterTypes, RequestsOK
<1>2. ~Expanding(c)
  BY <1>1, RequestShape DEF Expanding, Sent
<1>3. KeepsPlan
  <2>1. CASE ReceiptMatches(p.receipt)
    <3>1. entry # Nothing /\ entry \in Entries
      BY <2>1 DEF ReceiptMatches, RouterInv, RouterTypes
    <3>2. entry' = [entry EXCEPT !.receipts = @ \ {p.receipt.id}]
      BY <2>1, <1>1 DEF BackendFails
    <3> QED BY <3>1, <3>2 DEF KeepsPlan, Entries
  <2>2. CASE ~ReceiptMatches(p.receipt)
    BY <2>2, <1>1 DEF BackendFails, KeepsPlan
  <2> QED BY <2>1, <2>2
<1>4. Goes(c, Nothing)
  BY DEF BackendFails
<1> QED BY <1>2, <1>3, <1>4, RequestStep DEF BackendFails

LEMMA SetLockedType ==
    ASSUME RouterInv, NEW made \in Plans, made.gen <= catalog.gen, made.version.gen = made.gen,
           made.version.who = made.who, IsEarned(made.tools, made.gen, made.who),
           NEW e, e = setLocked(made)
    PROVE  /\ e \in Entries /\ PlanOK(e)
           /\ e.tools = made.tools /\ e.who = made.who /\ e.catalog = made.gen
           /\ e.expanded = Expanded(made.who)
           /\ entry # Nothing => e.gen = entry.gen + 1
<1> DEFINE old == IF entry = Nothing THEN NoEntry ELSE entry
           kept == old.who = made.who
<1>1. /\ made.who \in Identity /\ made.tools \in SUBSET Tool /\ made.gen \in Nat /\ made.version \in Versions
  BY DEF Plans
<1>2. entry # Nothing => entry \in Entries /\ PlanOK(entry)
  BY DEF RouterInv, RouterTypes
<1>3. old.gen \in Nat /\ old.count \in Nat /\ old.nextReceipt \in Nat
  BY <1>2 DEF NoEntry, Entries
<1>4. old.expanded \in BOOLEAN
  BY <1>2 DEF NoEntry, Entries
<1>5. kept => entry # Nothing /\ old = entry
  BY <1>1, RouterAssumption DEF NoEntry
<1>6. PICK x \in BOOLEAN : x = (kept /\ old.expanded)
  OBVIOUS
<1>7. PICK n \in Nat : n = IF kept THEN old.count ELSE 0
  BY <1>3
<1>8. e = [tools |-> made.tools, version |-> made.version, who |-> made.who, catalog |-> made.gen,
           count |-> n, expanded |-> x, gen |-> old.gen + 1, receipts |-> {},
           nextReceipt |-> old.nextReceipt]
  BY <1>6, <1>7 DEF setLocked
<1>9. x = Expanded(made.who)
  <2>1. Expanded(made.who) \in BOOLEAN
    BY <1>1, ExpandedIsEarned
  <2>2. x <=> Expanded(made.who)
    BY <1>2, <1>5, <1>6 DEF Expanded
  <2> QED BY <2>1, <2>2
<1>10. n <= successes[made.who] /\ (x => n >= ExpandAfter)
  <2>1. successes[made.who] \in Nat
    BY <1>1 DEF RouterInv, RouterTypes
  <2>2. CASE kept
    <3>1. PlanOK(entry) /\ entry.who = made.who /\ n = entry.count /\ (x => entry.expanded)
      BY <2>2, <1>2, <1>5, <1>6, <1>7
    <3> QED BY <3>1 DEF PlanOK
  <2>3. CASE ~kept
    <3>1. ~x
      BY <2>3, <1>6, Zenon
    <3>2. n = 0
      BY <2>3, <1>7, Zenon
    <3> QED BY <2>1, <3>1, <3>2
  <2> QED BY <2>2, <2>3
<1>11. entry # Nothing => old.gen = entry.gen
  OBVIOUS
<1> HIDE DEF old, kept
<1>12. e \in Entries
  BY <1>1, <1>3, <1>8 DEF Entries
<1>13. /\ e.tools = made.tools /\ e.who = made.who /\ e.catalog = made.gen /\ e.version = made.version
       /\ e.count = n /\ e.expanded = x /\ e.gen = old.gen + 1
  BY <1>8
<1>14. PlanOK(e)
  BY <1>10, <1>13 DEF PlanOK
<1> QED BY <1>9, <1>11, <1>12, <1>13, <1>14

\* A plan that replaces another is one of a later generation.
LEMMA ReplacesPlan ==
    ASSUME RouterInv, NEW c \in Call, NEW next, Goes(c, next), NEW f \in Entries, entry' = f, PlanOK(f),
           entry # Nothing => f.gen > entry.gen,
           UNCHANGED <<catalog, configs, catalogs, alive, upd, seen, pending, successes>>,
           slipped' \in BOOLEAN,
           next # Nothing => next \in Requests /\ RequestOK(next),
           slipped' \/ (next # Nothing /\ next.op = "expand")
    PROVE  RouterInv'
<1>0. RouterTypes /\ CatalogOK
  BY DEF RouterInv
<1>1. DOMAIN call' = Call /\ call'[c] = next /\ \A d \in Call : d # c => call'[d] = call[d]
  BY <1>0, RequestMoves
<1>2. RouterTypes'
  BY <1>0, <1>1 DEF RouterTypes
<1>3. Grows
  BY <1>0 DEF Grows, RouterTypes, Snapshots
<1>4. RequestsOK'
  <2>1. next # Nothing => RequestOK(next)'
    BY <1>0, <1>2, <1>3, RequestKept
  <2> QED BY <2>1, <1>2, <1>3, RequestsKept
<1>5. CatalogOK'
  BY <1>0 DEF CatalogOK, CatalogIsMerge, Duplicates, Merged
<1>6. PlanOK(f)'
  BY <1>0, <1>2, <1>3, PlanKept
<1>7. Advances
  BY RouterAssumption DEF Advances
<1>8. UpdatesOK'
  BY <1>2, <1>3, <1>7, UpdatesKept
<1>9. Informed'
  BY <1>1 DEF Informed
<1> QED BY <1>2, <1>4, <1>5, <1>6, <1>8, <1>9 DEF RouterInv, ListIsFollowed

LEMMA CommitPlanStep ==
    ASSUME RouterInv, NEW c \in Call, CommitPlan(c)
    PROVE  RouterInv'
<1>0. RouterTypes
  BY DEF RouterInv
<1>1. PICK p \in Requests : p = call[c] /\ p.at = "commit" /\ RequestOK(p)
  BY DEF CommitPlan, At, RouterInv, RouterTypes, RequestsOK
<1>2. p \in Planned /\ Published(p.snap) /\ p.snap \in Snapshots
  BY <1>1, RequestShape DEF RequestOK
<1>3. PICK made \in Plans : made = p.plan
  BY <1>2 DEF Planned
<1>4. /\ made.gen = p.snap.gen /\ made.who = p.who /\ made.version.gen = made.gen
      /\ made.version.who = made.who /\ IsEarned(made.tools, p.snap.gen, p.who) /\ made.gen <= catalog.gen
  BY <1>1, <1>2, <1>3 DEF RequestOK, Published
<1>5. PICK e : e = setLocked(made)
  OBVIOUS
<1>6. e \in Entries /\ PlanOK(e) /\ e.tools = made.tools /\ e.who = p.who /\ (entry # Nothing => e.gen = entry.gen + 1)
  BY <1>4, <1>5, SetLockedType
<1>7. entry # Nothing => e.gen > entry.gen
  BY <1>0, <1>6 DEF RouterTypes, Entries
<1>8. slipped' = (slipped \/ (alive /\ p.op # "expand")) /\ slipped' \in BOOLEAN /\ alive \in BOOLEAN
  BY <1>0, <1>1 DEF CommitPlan, RouterTypes
<1> DEFINE authorized == p.op = "call" /\ p.tool \in e.tools
<1>9. CASE ~alive
  <2>1. Goes(c, Nothing) /\ entry' = entry
    BY <1>1, <1>9 DEF CommitPlan
  <2>2. UNCHANGED <<catalog, configs, catalogs, alive, upd, seen, pending, successes>> /\ slipped' = slipped
    BY <1>0, <1>8, <1>9 DEF CommitPlan, RouterTypes
  <2> QED BY <2>1, <2>2, <1>9, RequestStep DEF KeepsPlan
<1>10. CASE alive /\ authorized
  <2>1. PICK r : r = Receipt(e)
    OBVIOUS
  <2>2. PICK f : f = issueReceipt(e)
    OBVIOUS
  <2>3. PICK next : next = [at |-> "backend", op |-> "call", who |-> p.who, tool |-> p.tool,
                            snap |-> p.snap, receipt |-> r]
    OBVIOUS
  <2>4. Goes(c, next) /\ entry' = f
    BY <2>1, <2>2, <2>3, <1>1, <1>3, <1>5, <1>10 DEF CommitPlan
  <2>5. f \in Entries /\ r \in Receipts /\ r.who = p.who /\ PlanOK(f) /\ f.gen = e.gen
    BY <2>1, <2>2, <1>6, ReceiptType DEF PlanOK
  <2>6. next \in Requests /\ RequestOK(next)
    BY <2>3, <2>5, <1>0, <1>1, <1>2, <1>4, <1>6, <1>10, SentOK DEF RequestOK
  <2> QED BY <2>4, <2>5, <2>6, <1>7, <1>8, <1>10, ReplacesPlan DEF CommitPlan
<1>11. CASE alive /\ ~authorized
  <2>1. PICK next : next = IF p.op = "call" THEN Nothing ELSE Responds(p, e.tools)
    OBVIOUS
  <2>2. Goes(c, next) /\ entry' = e
    BY <2>1, <1>1, <1>3, <1>5, <1>11 DEF CommitPlan
  <2>3. p.op # "call" => next \in Responding /\ next.at = "respond" /\ next.op = p.op /\ next.snap = p.snap
    BY <2>1, <1>2, <1>6 DEF Responds, Responding, Planned, Entries
  <2>4. p.op # "call" => next \in Requests /\ RequestOK(next)
    BY <2>3, <1>2 DEF Requests, RequestOK
  <2>5. p.op = "expand" => next # Nothing /\ next.op = "expand"
    BY <2>3, <2>4, RouterAssumption
  <2> QED BY <2>1, <2>2, <2>4, <2>5, <1>6, <1>7, <1>8, <1>11, ReplacesPlan DEF CommitPlan
<1> QED BY <1>8, <1>9, <1>10, <1>11

\* A request that ends with its answer.
LEMMA RespondStep ==
    ASSUME RouterInv, NEW c \in Call, Respond(c)
    PROVE  RouterInv'
<1>0. RouterTypes /\ CatalogOK /\ (entry # Nothing => PlanOK(entry)) /\ ListIsFollowed
  BY DEF RouterInv
<1>1. PICK p \in Requests : p = call[c] /\ p.at = "respond"
  BY DEF Respond, At, RouterInv, RouterTypes
<1>2. p \in Responding
  BY <1>1, RequestShape
<1>3. Goes(c, Nothing) /\ UNCHANGED <<catalog, configs, catalogs, entry, alive, upd, successes>>
  BY DEF Respond
<1>4. CASE ~alive \/ p.op = "call"
  <2>1. seen' = seen
    BY <1>1, <1>4 DEF Respond
  <2>2. slipped' = slipped
    BY <1>1, <1>4 DEF Respond
  <2>3. pending' = pending
    <3>1. CASE ~alive
      BY <3>1 DEF Respond
    <3>2. CASE alive /\ p.op = "call"
      <4>1. pending' <=> pending
        BY <1>1, <3>2 DEF Respond
      <4>2. pending \in BOOLEAN /\ pending' \in BOOLEAN
        BY <1>0, <1>1, <3>2 DEF Respond, RouterTypes
      <4> QED BY <4>1, <4>2
    <3> QED BY <3>1, <3>2, <1>4
  <2>4. ~(Expanding(c) /\ alive)
    BY <1>1, <1>4 DEF Expanding
  <2> QED BY <2>1, <2>2, <2>3, <2>4, <1>3, RequestStep DEF KeepsPlan
<1>5. CASE alive /\ p.op # "call"
  <2>1. pending' \in BOOLEAN /\ slipped' \in BOOLEAN
    BY <1>0, <1>1 DEF Respond, RouterTypes
  <2>2. seen' # Nothing => seen' \in Lists
    BY <1>0, <1>1, <1>2, <1>5 DEF Respond, RouterTypes, Lists, Responding
  <2>3. RouterTypes'
    <3>1. DOMAIN call' = Call /\ \A d \in Call : call'[d] # Nothing => call'[d] \in Requests
      BY <1>0, <1>3, RequestMoves DEF RouterTypes
    <3> QED BY <3>1, <2>1, <2>2, <1>0, <1>3 DEF RouterTypes
  <2>4. Grows
    BY <1>0, <1>3 DEF Grows, RouterTypes, Snapshots
  <2>5. RequestsOK'
    BY <2>3, <2>4, <1>3, RequestsKept
  <2>6. CatalogOK' /\ (entry # Nothing => PlanOK(entry))'
    BY <1>0, <1>3 DEF CatalogOK, CatalogIsMerge, Duplicates, Merged, PlanOK, IsEarned, Selected
  <2>7. UpdatesOK'
    <3>1. Advances
      BY <1>0, <1>3 DEF Advances, RouterTypes, Entries
    <3> QED BY <3>1, <2>3, <2>4, <1>3, UpdatesKept
  <2>8. ListIsFollowed'
    <3>1. CASE p.op = "expand"
      <4>1. pending'
        BY <3>1, <1>1, <1>5 DEF Respond
      <4> QED BY <4>1 DEF ListIsFollowed, Informed
    <3>2. CASE p.op = "list"
      <4>1. seen' = [who |-> p.who, tools |-> p.tools]
        BY <3>2, <1>1, <1>5 DEF Respond
      <4>2. ~slipped' => /\ entry # Nothing /\ entry.who = p.who /\ entry.tools = p.tools
                         /\ p.tools = Selected(catalog.tools, p.who, Expanded(p.who))
        BY <3>2, <1>1, <1>5 DEF Respond
      <4>3. entry # Nothing /\ entry.who = p.who =>
               Selected(catalog.tools, p.who, Expanded(p.who)) = Selected(catalog.tools, p.who, entry.expanded)
        BY DEF Expanded, Selected
      <4>4. seen'.who = p.who /\ seen'.tools = p.tools
        BY <4>1
      <4>5. ASSUME ~slipped'
            PROVE  /\ entry'.who = seen'.who /\ entry'.tools = seen'.tools
                   /\ entry'.tools = Selected(catalog.tools, entry.who, entry.expanded)'
        BY <4>2, <4>3, <4>4, <4>5, <1>3 DEF Selected
      <4> QED BY <4>5 DEF ListIsFollowed, Informed
    <3> QED BY <3>1, <3>2, <1>2, <1>5 DEF Responding, Op
  <2> QED BY <2>3, <2>5, <2>6, <2>7, <2>8 DEF RouterInv
<1> QED BY <1>4, <1>5, <1>0 DEF RouterTypes

\* What a call that succeeds leaves of the plan.
LEMMA SucceededType ==
    ASSUME RouterInv, NEW r \in Receipts, NEW f, f = Succeeded(r)
    PROVE  /\ f = Nothing <=> entry = Nothing
           /\ entry # Nothing =>
                 /\ f \in Entries
                 /\ f.tools = entry.tools /\ f.version = entry.version /\ f.who = entry.who
                 /\ f.catalog = entry.catalog
                 /\ \/ f.count = entry.count
                    \/ f.count = entry.count + 1 /\ entry.who = r.who
                 /\ \/ ~Crosses(r) /\ f.expanded = entry.expanded /\ f.gen = entry.gen
                    \/ Crosses(r) /\ f.expanded /\ f.gen = entry.gen + 1 /\ f.count >= ExpandAfter
<1>1. CASE ~ReceiptMatches(r)
  <2>1. f = entry /\ ~Crosses(r)
    BY <1>1 DEF Succeeded, Crosses
  <2> QED BY <2>1 DEF RouterInv, RouterTypes
<1>2. CASE ReceiptMatches(r)
  <2>1. entry # Nothing /\ entry.who = r.who /\ entry \in Entries
    BY <1>2 DEF ReceiptMatches, RouterInv, RouterTypes
  <2>2. entry.count + 1 \in Nat /\ entry.gen + 1 \in Nat /\ entry.receipts \ {r.id} \in SUBSET Nat
    BY <2>1 DEF Entries
  <2>3. CASE Crosses(r)
    <3>1. f = [entry EXCEPT !.count = @ + 1, !.expanded = TRUE, !.gen = @ + 1, !.receipts = {}]
      BY <2>3, <1>2 DEF Succeeded
    <3>2. /\ f.tools = entry.tools /\ f.version = entry.version /\ f.who = entry.who
          /\ f.catalog = entry.catalog /\ f.count = entry.count + 1 /\ f.gen = entry.gen + 1
      BY <3>1, <2>1 DEF Entries
    <3>3. f.expanded = TRUE
      BY <3>1, <2>1 DEF Entries
    <3>4. f \in Entries
      BY <3>1, <2>1, <2>2 DEF Entries
    <3>5. f.count >= ExpandAfter
      BY <3>2, <2>3 DEF Crosses
    <3> QED BY <3>2, <3>3, <3>4, <3>5, <2>1, <2>3, RouterAssumption
  <2>4. CASE ~Crosses(r)
    <3>1. f = [entry EXCEPT !.count = @ + 1, !.receipts = @ \ {r.id}]
      BY <2>4, <1>2 DEF Succeeded
    <3>2. /\ f.tools = entry.tools /\ f.version = entry.version /\ f.who = entry.who
          /\ f.catalog = entry.catalog /\ f.count = entry.count + 1 /\ f.gen = entry.gen
          /\ f.expanded = entry.expanded
      BY <3>1, <2>1 DEF Entries
    <3>4. f \in Entries
      BY <3>1, <2>1, <2>2 DEF Entries
    <3> QED BY <3>2, <3>4, <2>1, <2>4, RouterAssumption
  <2> QED BY <2>3, <2>4
<1> QED BY <1>1, <1>2

LEMMA BackendSucceedsStep ==
    ASSUME RouterInv, NEW c \in Call, BackendSucceeds(c)
    PROVE  RouterInv'
<1>0. RouterTypes /\ CatalogOK /\ (entry # Nothing => PlanOK(entry)) /\ ListIsFollowed
  BY DEF RouterInv
<1>1. PICK p \in Requests : p = call[c] /\ p.at = "backend" /\ RequestOK(p)
  BY DEF BackendSucceeds, At, RouterInv, RouterTypes, RequestsOK
<1>2. p \in Sent /\ p.receipt.who = p.who /\ p.op = "call"
  BY <1>1, RequestShape DEF RequestOK, Sent
<1>3. PICK r \in Receipts : r = p.receipt
  BY <1>2 DEF Sent
<1>4. PICK f : f = Succeeded(r)
  OBVIOUS
<1>5. PICK next : next = IF Crosses(r)
                         THEN [at |-> "version", op |-> "expand", who |-> p.who, tool |-> p.tool, snap |-> catalog]
                         ELSE Nothing
  OBVIOUS
<1>6. /\ Goes(c, next) /\ entry' = f /\ successes' = [successes EXCEPT ![p.who] = @ + 1]
      /\ UNCHANGED <<catalog, configs, catalogs, alive, upd, seen, pending, slipped>>
  BY <1>1, <1>3, <1>4, <1>5 DEF BackendSucceeds
<1>7. /\ f = Nothing <=> entry = Nothing
      /\ entry # Nothing =>
            /\ f \in Entries
            /\ f.tools = entry.tools /\ f.version = entry.version /\ f.who = entry.who
            /\ f.catalog = entry.catalog
            /\ \/ f.count = entry.count
               \/ f.count = entry.count + 1 /\ entry.who = p.who
            /\ \/ ~Crosses(r) /\ f.expanded = entry.expanded /\ f.gen = entry.gen
               \/ Crosses(r) /\ f.expanded /\ f.gen = entry.gen + 1 /\ f.count >= ExpandAfter
  BY <1>2, <1>3, <1>4, SucceededType
<1>8. Crosses(r) => next \in Requests /\ RequestOK(next) /\ next.op = "expand"
  <2>1. next = [at |-> "version", op |-> "expand", who |-> p.who, tool |-> p.tool, snap |-> catalog]
        => next \in Opened /\ next.op = "expand" /\ next.snap = catalog /\ next.at = "version"
    BY <1>2, NowPublished DEF Opened, Sent, Op
  <2> QED BY <2>1, <1>5, NowPublished DEF Requests, RequestOK
<1> HIDE DEF Crosses
<1>9. next # Nothing => next \in Requests /\ RequestOK(next)
  BY <1>5, <1>8
<1>10. p.who \in Identity /\ successes \in [Identity -> Nat]
  BY <1>0, <1>2 DEF Sent, RouterTypes
<1>11. /\ successes' \in [Identity -> Nat] /\ successes'[p.who] = successes[p.who] + 1
       /\ \A who \in Identity : successes'[who] >= successes[who]
  BY <1>6, <1>10
<1>12. DOMAIN call' = Call /\ call'[c] = next /\ \A d \in Call : d # c => call'[d] = call[d]
  BY <1>0, <1>6, RequestMoves
<1>13. RouterTypes'
  <2>1. DOMAIN call' = Call /\ \A d \in Call : call'[d] # Nothing => call'[d] \in Requests
    BY <1>0, <1>9, <1>12 DEF RouterTypes
  <2>2. entry' # Nothing => entry' \in Entries
    BY <1>6, <1>7
  <2> QED BY <2>1, <2>2, <1>0, <1>6, <1>11 DEF RouterTypes
<1>14. Grows
  BY <1>0, <1>6, <1>11 DEF Grows, RouterTypes, Snapshots
<1>15. RequestsOK'
  <2>1. next # Nothing => RequestOK(next)'
    BY <1>0, <1>9, <1>13, <1>14, RequestKept
  <2> QED BY <2>1, <1>6, <1>13, <1>14, RequestsKept
<1>16. CatalogOK'
  BY <1>0, <1>6 DEF CatalogOK, CatalogIsMerge, Duplicates, Merged
<1>17. ASSUME f # Nothing PROVE PlanOK(f)'
  <2>1. entry # Nothing /\ PlanOK(entry) /\ entry \in Entries /\ f \in Entries
    BY <1>0, <1>7, <1>17 DEF RouterTypes
  <2>2. PICK e \in Entries : e = entry
    BY <2>1
  <2>3. PlanOK(e)'
    BY <2>1, <2>2, <1>0, <1>13, <1>14, PlanKept
  <2>4. /\ f.tools = e.tools /\ f.version = e.version /\ f.who = e.who /\ f.catalog = e.catalog
        /\ f.count = e.count \/ (f.count = e.count + 1 /\ e.who = p.who)
        /\ f.expanded = e.expanded \/ f.count >= ExpandAfter
    BY <2>1, <2>2, <1>7
  <2>5. e.count \in Nat /\ f.count \in Nat /\ e.count <= successes[e.who] /\ e.who \in Identity
    BY <2>1, <2>2 DEF PlanOK, Entries
  <2>6. f.count <= successes'[f.who]
    BY <2>3, <2>4, <2>5, <1>10, <1>11 DEF PlanOK
  <2>7. f.expanded => f.count >= ExpandAfter
    <3>1. e.expanded => e.count >= ExpandAfter
      BY <2>1, <2>2 DEF PlanOK
    <3>2. e.count >= ExpandAfter => f.count >= ExpandAfter
      BY <2>4, <2>5, RouterAssumption
    <3>3. CASE f.expanded = e.expanded
      BY <3>1, <3>2, <3>3
    <3>4. CASE f.count >= ExpandAfter
      BY <3>4
    <3> QED BY <3>3, <3>4, <2>4
  <2> QED BY <2>3, <2>4, <2>6, <2>7 DEF PlanOK
<1>18. UpdatesOK'
  <2>1. Advances
    BY <1>0, <1>6, <1>7, RouterAssumption DEF Advances, RouterTypes, Entries
  <2> QED BY <2>1, <1>6, <1>13, <1>14, UpdatesKept
<1>19. ListIsFollowed'
  <2>1. CASE Crosses(r)
    <3>1. call'[c] # Nothing /\ call'[c].op = "expand"
      BY <2>1, <1>8, <1>12, RouterAssumption
    <3> QED BY <3>1 DEF ListIsFollowed, Informed
  <2>2. CASE ~Crosses(r)
    <3>1. Informed => Informed'
      <4>1. ASSUME NEW d \in Call, Expanding(d) PROVE Expanding(d)'
        BY <4>1, <1>1, <1>2, <1>12 DEF Expanding
      <4>2. ASSUME NEW u \in Update, UpdateAt(u, "mark") PROVE UpdateAt(u, "mark")'
        BY <4>2, <1>6 DEF UpdateAt
      <4> QED BY <4>1, <4>2, <1>6 DEF Informed, Expanding
    <3>2. entry' # Nothing => /\ entry # Nothing /\ entry'.tools = entry.tools /\ entry'.who = entry.who
                              /\ entry'.catalog = entry.catalog /\ entry'.expanded = entry.expanded
      BY <2>2, <1>6, <1>7
    <3>3. \A u \in Update : upd[u] # Nothing /\ Covers(upd[u]) => (upd[u] # Nothing /\ Covers(upd[u]))'
      BY <1>6 DEF Covers
    <3> QED BY <3>1, <3>2, <3>3, <1>0, <1>6 DEF ListIsFollowed, Selected
  <2> QED BY <2>1, <2>2
<1> QED BY <1>6, <1>13, <1>15, <1>16, <1>17, <1>18, <1>19 DEF RouterInv

\* Requests go on while a step that is not theirs is taken.
LEMMA RequestsStay ==
    ASSUME RouterInv, RouterTypes', Grows, call' = call
    PROVE  RequestsOK'
<1> SUFFICES ASSUME NEW d \in Call, call'[d] # Nothing PROVE RequestOK(call[d])'
  BY DEF RequestsOK
<1>1. RouterTypes /\ RequestsOK
  BY DEF RouterInv
<1>2. PICK p \in Requests : p = call[d]
  BY <1>1 DEF RouterTypes
<1>3. call'[d] = p /\ RequestOK(p)
  BY <1>1, <1>2 DEF RequestsOK
<1>4. RequestOK(p)'
  BY <1>1, <1>3, RequestKept
<1> QED BY <1>3, <1>4

LEMMA SessionRemovedStep ==
    ASSUME RouterInv, SessionRemoved
    PROVE  RouterInv'
<1>0. RouterTypes /\ CatalogOK
  BY DEF RouterInv
<1>1. /\ alive' = FALSE /\ entry' = Nothing
      /\ UNCHANGED <<catalog, configs, catalogs, call, upd, seen, pending, slipped, successes>>
  BY DEF SessionRemoved
<1>2. RouterTypes'
  BY <1>0, <1>1 DEF RouterTypes
<1>3. Grows
  BY <1>0, <1>1 DEF Grows, RouterTypes, Snapshots
<1>4. RequestsOK'
  BY <1>1, <1>2, <1>3, RequestsStay
<1>5. CatalogOK'
  BY <1>0, <1>1 DEF CatalogOK, CatalogIsMerge, Duplicates, Merged
<1>6. UpdatesOK'
  BY <1>1, <1>2, <1>3, UpdatesKept DEF Advances
<1> QED BY <1>1, <1>2, <1>4, <1>5, <1>6 DEF RouterInv, ListIsFollowed

\* An update that goes on leaves the others where they are.
LEMMA UpdateMoves ==
    ASSUME RouterTypes, NEW u \in Update, NEW next, upd' = [upd EXCEPT ![u] = next]
    PROVE  DOMAIN upd' = Update /\ upd'[u] = next /\ \A v \in Update : v # u => upd'[v] = upd[v]
BY DEF RouterTypes

LEMMA UpdatesGoOn ==
    ASSUME RouterInv, RouterTypes', Grows, alive' => alive, Advances, NEW u \in Update, NEW next,
           upd' = [upd EXCEPT ![u] = next], next # Nothing => UpdateOK(next)'
    PROVE  UpdatesOK'
<1>0. RouterTypes /\ UpdatesOK
  BY DEF RouterInv
<1>1. upd'[u] = next /\ \A v \in Update : v # u => upd'[v] = upd[v]
  BY <1>0, UpdateMoves
<1> SUFFICES ASSUME NEW v \in Update, upd'[v] # Nothing PROVE UpdateOK(upd[v])'
  BY DEF UpdatesOK
<1>2. CASE v = u
  BY <1>1, <1>2
<1>3. CASE v # u
  <2>1. PICK b \in Refreshes : b = upd[v]
    BY <1>0, <1>1, <1>3 DEF RouterTypes
  <2>2. upd'[v] = b /\ UpdateOK(b)
    BY <1>0, <1>1, <1>3, <2>1 DEF UpdatesOK
  <2>3. UpdateOK(b)'
    BY <2>2, UpdateKept
  <2> QED BY <2>2, <2>3
<1> QED BY <1>2, <1>3

\* What was told stays told while an update goes on that has nothing to mark.
LEMMA ToldStays ==
    ASSUME RouterInv, NEW u \in Update, NEW next, upd' = [upd EXCEPT ![u] = next],
           ~UpdateAt(u, "mark"), call' = call, pending' = pending, slipped => slipped', Informed
    PROVE  Informed'
<1>1. \A v \in Update : v # u => upd'[v] = upd[v]
  BY UpdateMoves DEF RouterInv
<1>2. ASSUME NEW v \in Update, UpdateAt(v, "mark") PROVE UpdateAt(v, "mark")'
  BY <1>1, <1>2 DEF UpdateAt
<1> QED BY <1>2 DEF Informed

\* A step of an update that leaves the plan or replaces it.
LEMMA UpdateStep ==
    ASSUME RouterInv, NEW u \in Update, NEW next, upd' = [upd EXCEPT ![u] = next],
           next # Nothing => next \in Refreshes, next # Nothing => UpdateOK(next)',
           UNCHANGED <<catalog, configs, catalogs, alive, call, seen, successes>>,
           pending' \in BOOLEAN, slipped' \in BOOLEAN,
           NEW f, entry' = f, f # Nothing => f \in Entries /\ PlanOK(f), Advances, ListIsFollowed'
    PROVE  RouterInv'
<1>0. RouterTypes /\ CatalogOK
  BY DEF RouterInv
<1>1. DOMAIN upd' = Update /\ upd'[u] = next /\ \A v \in Update : v # u => upd'[v] = upd[v]
  BY <1>0, UpdateMoves
<1>2. RouterTypes'
  <2>1. \A v \in Update : upd'[v] # Nothing => upd'[v] \in Refreshes
    BY <1>0, <1>1 DEF RouterTypes
  <2> QED BY <2>1, <1>0, <1>1 DEF RouterTypes
<1>3. Grows
  BY <1>0 DEF Grows, RouterTypes, Snapshots
<1>4. RequestsOK'
  BY <1>2, <1>3, RequestsStay
<1>5. CatalogOK'
  BY <1>0 DEF CatalogOK, CatalogIsMerge, Duplicates, Merged
<1>6. f # Nothing => PlanOK(f)'
  BY <1>0, <1>2, <1>3, PlanKept
<1>7. UpdatesOK'
  BY <1>2, <1>3, UpdatesGoOn
<1> QED BY <1>2, <1>4, <1>5, <1>6, <1>7 DEF RouterInv

\* A step that leaves the plan has not changed it.
LEMMA SameAdvances ==
    ASSUME RouterInv, entry' = entry
    PROVE  Advances
BY DEF Advances, RouterInv, RouterTypes, Entries

LEMMA SnapshotCatalogStep ==
    ASSUME RouterInv, NEW u \in Update, SnapshotCatalog(u)
    PROVE  RouterInv'
<1>0. RouterTypes /\ ListIsFollowed
  BY DEF RouterInv
<1>1. PICK next : next = [at |-> "contexts", snap |-> catalog]
  OBVIOUS
<1>2. /\ upd' = [upd EXCEPT ![u] = next] /\ ~UpdateAt(u, "mark")
      /\ UNCHANGED <<catalog, configs, catalogs, entry, alive, call, seen, pending, slipped, successes>>
  BY <1>1 DEF SnapshotCatalog, UpdateAt
<1>3. next.at = "contexts" /\ next.snap = catalog
  BY <1>1
<1>4. next \in Refreshes /\ next # Nothing
  BY <1>1, NowPublished, RouterAssumption DEF Refreshes, Holding
<1>5. UpdateOK(next)'
  BY <1>2, <1>3, NowPublished DEF UpdateOK, Published
<1>6. ListIsFollowed'
  <2>1. upd'[u] # Nothing /\ Covers(upd[u])'
    BY <1>0, <1>2, <1>3, <1>4, UpdateMoves DEF Covers
  <2>2. Informed => Informed'
    BY <1>2, ToldStays
  <2> QED BY <2>1, <2>2, <1>0, <1>2 DEF ListIsFollowed, Selected
<1>7. Advances
  BY <1>2, SameAdvances
<1>8. PICK f : f = entry
  OBVIOUS
<1> QED BY <1>0, <1>2, <1>4, <1>5, <1>6, <1>7, <1>8, UpdateStep DEF RouterInv, RouterTypes

LEMMA ContextsStep ==
    ASSUME RouterInv, NEW u \in Update, SessionPlanContexts(u)
    PROVE  RouterInv'
<1>0. RouterTypes /\ ListIsFollowed
  BY DEF RouterInv
<1>1. PICK b \in Refreshes : b = upd[u] /\ b.at = "contexts" /\ UpdateOK(b)
  BY DEF SessionPlanContexts, UpdateAt, RouterInv, RouterTypes, UpdatesOK
<1>2. b.snap \in Snapshots /\ Published(b.snap)
  BY <1>1, RefreshShape DEF Holding, UpdateOK
<1>3. /\ ~UpdateAt(u, "mark")
      /\ UNCHANGED <<catalog, configs, catalogs, entry, alive, call, seen, pending, slipped, successes>>
  BY DEF SessionPlanContexts, UpdateAt
<1>4. Advances
  BY <1>3, SameAdvances
<1>5. PICK f : f = entry
  OBVIOUS
<1>6. CASE alive /\ entry # Nothing
  <2>1. PICK next : next = [at |-> "refresh", snap |-> b.snap, tools |-> entry.tools, gen |-> entry.gen,
                            who |-> entry.who]
    OBVIOUS
  <2>2. upd' = [upd EXCEPT ![u] = next]
    BY <2>1, <1>1, <1>6 DEF SessionPlanContexts
  <2>3. /\ next.at = "refresh" /\ next.snap = b.snap /\ next.tools = entry.tools /\ next.gen = entry.gen
        /\ next.who = entry.who
    BY <2>1
  <2>4. entry \in Entries
    BY <1>0, <1>6 DEF RouterTypes
  <2>5. next \in Refreshes /\ next # Nothing
    <3>1. next \in Comparing
      BY <2>1, <2>4, <1>2 DEF Comparing, Entries
    <3> QED BY <3>1, RouterAssumption DEF Refreshes
  <2>6. UpdateOK(next)'
    BY <2>3, <2>4, <1>2, <1>3, <1>6 DEF UpdateOK, Published, Entries
  <2>7. ListIsFollowed'
    <3>1. ASSUME NEW v \in Update, upd[v] # Nothing, Covers(upd[v])
          PROVE  upd'[v] # Nothing /\ Covers(upd[v])'
      <4>1. upd'[u] = next /\ (v # u => upd'[v] = upd[v])
        BY <2>2, <1>0, UpdateMoves
      <4> QED BY <4>1, <3>1, <2>3, <2>5, <1>1, <1>3 DEF Covers
    <3>2. Informed => Informed'
      BY <2>2, <1>3, ToldStays
    <3> QED BY <3>1, <3>2, <1>0, <1>3 DEF ListIsFollowed, Selected
  <2> QED BY <2>2, <2>5, <2>6, <2>7, <1>0, <1>3, <1>4, <1>5, UpdateStep DEF RouterInv, RouterTypes
<1>7. CASE ~(alive /\ entry # Nothing)
  <2>1. upd' = [upd EXCEPT ![u] = Nothing]
    BY <1>7 DEF SessionPlanContexts
  <2>2. ListIsFollowed'
    BY <1>3, <1>7 DEF ListIsFollowed
  <2> QED BY <2>1, <2>2, <1>0, <1>3, <1>4, <1>5, UpdateStep DEF RouterInv, RouterTypes
<1> QED BY <1>6, <1>7

LEMMA MarkChangedStep ==
    ASSUME RouterInv, NEW u \in Update, MarkChanged(u)
    PROVE  RouterInv'
<1>0. RouterTypes
  BY DEF RouterInv
<1>1. /\ upd' = [upd EXCEPT ![u] = Nothing]
      /\ UNCHANGED <<catalog, configs, catalogs, entry, alive, call, seen, slipped, successes>>
  BY DEF MarkChanged
<1>2. pending' \in BOOLEAN /\ (alive => pending')
  BY DEF MarkChanged
<1>3. Advances
  BY <1>1, SameAdvances
<1>4. ListIsFollowed'
  BY <1>1, <1>2 DEF ListIsFollowed, Informed
<1>5. PICK f : f = entry
  OBVIOUS
<1> QED BY <1>0, <1>1, <1>2, <1>3, <1>4, <1>5, UpdateStep DEF RouterInv, RouterTypes

LEMMA RefreshStep ==
    ASSUME RouterInv, NEW u \in Update, RefreshPlan(u)
    PROVE  RouterInv'
<1>0. RouterTypes /\ ListIsFollowed /\ CatalogOK
  BY DEF RouterInv
<1>1. PICK b \in Refreshes : b = upd[u] /\ b.at = "refresh" /\ UpdateOK(b)
  BY DEF RefreshPlan, UpdateAt, RouterInv, RouterTypes, UpdatesOK
<1>2. b \in Comparing /\ b.snap \in Snapshots /\ b.who \in Identity /\ Published(b.snap)
  BY <1>1, RefreshShape DEF Comparing, UpdateOK
<1>3. UNCHANGED <<catalog, configs, catalogs, alive, call, seen, pending, successes>> /\ ~UpdateAt(u, "mark")
  BY DEF RefreshPlan, UpdateAt
<1>4. /\ slipped' = (slipped \/ (alive /\ entry # Nothing /\ ~(alive /\ entry # Nothing /\ entry.gen = b.gen)
                                 /\ entry.catalog # b.snap.gen))
      /\ slipped' \in BOOLEAN
  BY <1>1 DEF RefreshPlan
<1>5. slipped => slipped'
  BY <1>4
<1>6. CASE ~(alive /\ entry # Nothing /\ entry.gen = b.gen)
  <2>1. upd' = [upd EXCEPT ![u] = Nothing] /\ entry' = entry
    BY <1>1, <1>6 DEF RefreshPlan
  <2>2. ListIsFollowed'
    <3> SUFFICES ASSUME alive, seen # Nothing, entry # Nothing, ~Informed'
                 PROVE  /\ entry.who = seen.who /\ entry.tools = seen.tools
                        /\ entry.catalog = catalog.gen
                              => entry.tools = Selected(catalog.tools, entry.who, entry.expanded)
                        /\ \/ entry.tools = Selected(catalog.tools, entry.who, entry.expanded)
                           \/ \E v \in Update : upd'[v] # Nothing /\ Covers(upd[v])'
      BY <2>1, <1>3 DEF ListIsFollowed, Selected
    <3>1. ~Informed
      BY <2>1, <1>3, <1>5, ToldStays
    <3>2. entry.catalog = b.snap.gen
      BY <1>4, <1>6 DEF Informed
    <3>3. ASSUME NEW v \in Update, upd[v] # Nothing, Covers(upd[v]), v # u
          PROVE  upd'[v] # Nothing /\ Covers(upd[v])'
      <4>1. upd'[v] = upd[v]
        BY <3>3, <2>1, <1>0, UpdateMoves
      <4> QED BY <4>1, <3>3, <1>3 DEF Covers
    <3>4. Covers(upd[u]) => entry.catalog = catalog.gen
      BY <3>2, <1>1 DEF Covers
    <3> QED BY <3>1, <3>3, <3>4, <1>0 DEF ListIsFollowed
  <2>3. Advances
    BY <2>1, SameAdvances
  <2>4. PICK f : f = entry
    OBVIOUS
  <2> QED BY <2>1, <2>2, <2>3, <2>4, <1>0, <1>3, <1>4, UpdateStep DEF RouterInv, RouterTypes
<1>7. CASE alive /\ entry # Nothing /\ entry.gen = b.gen
  <2>1. entry \in Entries /\ b.tools = entry.tools /\ b.who = entry.who
    BY <1>0, <1>1, <1>7 DEF UpdateOK, RouterTypes
  <2>2. PICK v \in Versions : v = Version(b.snap, b.who) /\ v.gen = b.snap.gen /\ v.who = b.who
    BY <1>2, VersionType
  <2>3. PICK made : made = Plan(b.snap, b.who, v)
    OBVIOUS
  <2>4. /\ made \in Plans /\ made.gen = b.snap.gen /\ made.who = b.who /\ made.version = v
        /\ made.tools = Selected(b.snap.tools, b.who, Expanded(b.who))
        /\ IsEarned(made.tools, b.snap.gen, b.who)
    BY <2>3, <1>2, PlanType
  <2>5. PICK f : f = setLocked(made)
    OBVIOUS
  <2>6. /\ f \in Entries /\ PlanOK(f) /\ f.tools = made.tools /\ f.who = made.who /\ f.catalog = made.gen
        /\ f.expanded = Expanded(made.who) /\ f.gen = entry.gen + 1
    BY <2>2, <2>4, <2>5, <1>2, <1>7, SetLockedType DEF Published
  <2>7. PICK next : next = IF Changed(b.tools, made.tools) THEN [at |-> "mark"] ELSE Nothing
    OBVIOUS
  <2>8. upd' = [upd EXCEPT ![u] = next] /\ entry' = f
    BY <2>2, <2>3, <2>5, <2>7, <1>1, <1>7 DEF RefreshPlan
  <2>9. next # Nothing => next.at = "mark" /\ next \in Refreshes
    BY <2>7 DEF Refreshes, Awaiting
  <2>10. next # Nothing => UpdateOK(next)'
    BY <2>9 DEF UpdateOK
  <2>11. f # Nothing /\ Advances
    BY <2>1, <2>6, <2>8, RouterAssumption DEF Advances, Entries
  <2>12. f.expanded = entry.expanded
    <3>1. Expanded(entry.who) \in BOOLEAN /\ entry.expanded \in BOOLEAN
      BY <2>1, ExpandedIsEarned DEF Entries
    <3>2. Expanded(entry.who) <=> entry.expanded
      BY <1>7 DEF Expanded
    <3> QED BY <3>1, <3>2, <2>1, <2>4, <2>6
  <2>13. f.tools = Selected(b.snap.tools, f.who, f.expanded) /\ f.who = entry.who /\ f.catalog = b.snap.gen
    BY <2>1, <2>4, <2>6
  <2>14. ListIsFollowed'
    <3>1. CASE Changed(b.tools, made.tools)
      <4>1. UpdateAt(u, "mark")'
        <5>1. next = [at |-> "mark"] /\ next.at = "mark" /\ next \in Refreshes
          BY <3>1, <2>7 DEF Refreshes, Awaiting
        <5> QED BY <5>1, <2>8, <1>0, UpdateMoves, RouterAssumption DEF UpdateAt
      <4> QED BY <4>1 DEF ListIsFollowed, Informed
    <3>2. CASE ~Changed(b.tools, made.tools)
      <4>1. f.tools = entry.tools /\ next = Nothing
        BY <3>2, <2>1, <2>6, <2>7 DEF Changed
      <4>2. f.catalog = catalog.gen => f.tools = Selected(catalog.tools, f.who, f.expanded)
        BY <2>13, <1>0, <1>2 DEF CatalogOK, Published
      <4> SUFFICES ASSUME alive, seen # Nothing, ~Informed'
                   PROVE  /\ f.who = seen.who /\ f.tools = seen.tools
                          /\ \/ f.tools = Selected(catalog.tools, f.who, f.expanded)
                             \/ \E w \in Update : upd'[w] # Nothing /\ Covers(upd[w])'
        BY <4>2, <2>8, <1>3 DEF ListIsFollowed, Selected
      <4>3. ~Informed
        BY <2>8, <1>3, <1>5, ToldStays
      <4>4. ASSUME NEW w \in Update, upd[w] # Nothing, Covers(upd[w]), w # u
            PROVE  upd'[w] # Nothing /\ Covers(upd[w])'
        <5>1. upd'[w] = upd[w]
          BY <4>4, <2>8, <1>0, UpdateMoves
        <5> QED BY <5>1, <4>4, <1>3 DEF Covers
      <4>5. Covers(upd[u]) => f.tools = Selected(catalog.tools, f.who, f.expanded)
        BY <2>13, <1>1 DEF Covers
      <4>6. /\ entry.who = seen.who /\ entry.tools = seen.tools
            /\ \/ entry.tools = Selected(catalog.tools, entry.who, entry.expanded)
               \/ \E w \in Update : upd[w] # Nothing /\ Covers(upd[w])
        BY <4>3, <1>0, <1>7 DEF ListIsFollowed
      <4>7. Selected(catalog.tools, entry.who, entry.expanded) = Selected(catalog.tools, f.who, f.expanded)
        BY <2>12, <2>13
      <4> QED BY <4>1, <4>4, <4>5, <4>6, <4>7, <2>13
    <3> QED BY <3>1, <3>2
  <2> QED BY <2>6, <2>8, <2>9, <2>10, <2>11, <2>14, <1>0, <1>3, <1>4, UpdateStep DEF RouterTypes
<1> QED BY <1>6, <1>7

LEMMA ApplyStep ==
    ASSUME RouterInv, NEW u \in Update, NEW s \in Source, NEW tools \in (SUBSET Tool) \cup {Nothing},
           ApplyServerTools(u, s, tools)
    PROVE  RouterInv'
<1>0. /\ RouterTypes /\ ListIsFollowed /\ CatalogOK /\ RequestsOK /\ UpdatesOK
      /\ entry # Nothing => PlanOK(entry)
  BY DEF RouterInv
<1>1. PICK cs : cs = [configs EXCEPT ![s] = tools]
  OBVIOUS
<1>2. UNCHANGED <<entry, alive, call, seen, pending, slipped, successes>> /\ upd[u] = Nothing
  BY DEF ApplyServerTools
<1>3. CASE Duplicates(cs)
  <2>1. UNCHANGED <<configs, catalog, catalogs, upd>>
    BY <1>1, <1>3 DEF ApplyServerTools, restoreServerConfig
  <2>2. RouterTypes' /\ CatalogOK'
    BY <2>1, <1>0, <1>2 DEF RouterTypes, CatalogOK, CatalogIsMerge, Duplicates, Merged
  <2>3. RequestsOK' /\ UpdatesOK' /\ (entry # Nothing => PlanOK(entry))'
    BY <2>1, <1>0, <1>2 DEF RequestsOK, RequestOK, UpdatesOK, UpdateOK, PlanOK, Published, IsEarned, Selected
  <2>4. ListIsFollowed'
    BY <2>1, <1>0, <1>2 DEF ListIsFollowed, Informed, UpdateAt, Covers, Selected
  <2> QED BY <2>2, <2>3, <2>4 DEF RouterInv
<1>4. CASE ~Duplicates(cs)
  <2>1. PICK next : next = [at |-> "snapshot"]
    OBVIOUS
  <2>2. next.at = "snapshot" /\ next \in Refreshes /\ next # Nothing
    BY <2>1, RouterAssumption DEF Refreshes, Awaiting
  <2>3. /\ configs' = cs /\ catalog' = [tools |-> Merged(cs), gen |-> catalog.gen + 1]
        /\ catalogs' = [g \in 0 .. catalog.gen + 1 |-> IF g = catalog.gen + 1 THEN Merged(cs) ELSE catalogs[g]]
        /\ upd' = [upd EXCEPT ![u] = next]
    BY <2>1, <1>1, <1>4 DEF ApplyServerTools
  <2>4. DOMAIN cs = Source /\ \A t \in Source : cs[t] # Nothing => cs[t] \subseteq Tool
    BY <1>0, <1>1 DEF RouterTypes
  <2>5. PICK merged \in SUBSET Tool : merged = Merged(cs)
    BY <2>4 DEF Merged
  <2>6. catalog.gen \in Nat /\ catalogs \in [0 .. catalog.gen -> SUBSET Tool]
    BY <1>0 DEF RouterTypes, Snapshots
  <2>7. catalog' \in Snapshots /\ catalog'.gen = catalog.gen + 1 /\ catalog'.tools = merged
    BY <2>3, <2>5, <2>6 DEF Snapshots
  <2>8. /\ catalogs' \in [0 .. catalog'.gen -> SUBSET Tool] /\ catalogs'[catalog'.gen] = merged
        /\ \A g \in 0 .. catalog.gen : catalogs'[g] = catalogs[g]
    BY <2>3, <2>5, <2>6, <2>7
  <2>9. RouterTypes'
    <3>1. DOMAIN upd' = Update /\ \A v \in Update : upd'[v] # Nothing => upd'[v] \in Refreshes
      BY <2>2, <2>3, <1>0, UpdateMoves DEF RouterTypes
    <3> QED BY <3>1, <2>3, <2>4, <2>7, <2>8, <1>0, <1>2 DEF RouterTypes
  <2>10. Grows
    BY <2>6, <2>7, <2>8, <1>0, <1>2 DEF Grows, RouterTypes
  <2>11. RequestsOK'
    BY <2>9, <2>10, <1>2, RequestsStay
  <2>12. (entry # Nothing => PlanOK(entry))'
    <3>1. PICK e : e = entry
      OBVIOUS
    <3>2. e # Nothing => PlanOK(e)'
      BY <3>1, <2>9, <2>10, <1>0, PlanKept DEF RouterTypes
    <3> QED BY <3>1, <3>2, <1>2
  <2>13. CatalogOK'
    <3>1. ~Duplicates(configs)' /\ Merged(configs)' = merged
      BY <2>3, <2>5, <1>4 DEF Duplicates, Merged
    <3> QED BY <3>1, <2>6, <2>7, <2>8 DEF CatalogOK, CatalogIsMerge
  <2>14. UpdatesOK'
    <3>1. UpdateOK(next)'
      BY <2>2 DEF UpdateOK
    <3>2. Advances
      BY <1>2, SameAdvances
    <3> QED BY <3>1, <3>2, <2>3, <2>9, <2>10, <1>2, UpdatesGoOn
  <2>15. ListIsFollowed'
    <3>1. upd'[u] # Nothing /\ Covers(upd[u])'
      BY <2>2, <2>3, <1>0, UpdateMoves DEF Covers
    <3>2. ~UpdateAt(u, "mark")
      BY <1>2 DEF UpdateAt
    <3>3. Informed => Informed'
      BY <3>2, <2>3, <1>2, ToldStays
    <3>4. entry # Nothing => entry.catalog # catalog'.gen
      BY <2>6, <2>7, <1>0 DEF PlanOK, RouterTypes, Entries
    <3> QED BY <3>1, <3>3, <3>4, <1>0, <1>2 DEF ListIsFollowed
  <2> QED BY <2>9, <2>11, <2>12, <2>13, <2>14, <2>15 DEF RouterInv
<1> QED BY <1>3, <1>4

LEMMA RouterStarts ==
    ASSUME RouterInit
    PROVE  RouterInv
<1>1. catalog.tools = Static /\ catalog.gen = 1 /\ catalog \in Snapshots
  BY RouterAssumption DEF RouterInit, Snapshots
<1>2. catalogs \in [0 .. catalog.gen -> SUBSET Tool] /\ catalogs[catalog.gen] = catalog.tools
  BY <1>1, RouterAssumption DEF RouterInit
<1>3. /\ entry = Nothing /\ seen = Nothing /\ \A c \in Call : call[c] = Nothing
      /\ \A u \in Update : upd[u] = Nothing
      /\ \A s \in Source : configs[s] = Nothing
  BY DEF RouterInit
<1>4. RouterTypes
  BY <1>1, <1>2, <1>3 DEF RouterInit, RouterTypes
<1>5. CatalogOK
  BY <1>1, <1>2, <1>3 DEF CatalogOK, CatalogIsMerge, Duplicates
<1> QED BY <1>3, <1>4, <1>5 DEF RouterInv, RequestsOK, UpdatesOK, ListIsFollowed

LEMMA RouterStays ==
    ASSUME RouterInv, [RouterNext]_routerVars
    PROVE  RouterInv'
<1>1. CASE UNCHANGED routerVars
  <2>0. /\ RouterTypes /\ ListIsFollowed /\ CatalogOK /\ RequestsOK /\ UpdatesOK
        /\ entry # Nothing => PlanOK(entry)
    BY DEF RouterInv
  <2>1. UNCHANGED <<catalog, configs, catalogs, entry, alive, call, upd, seen, pending, slipped, successes>>
    BY <1>1 DEF routerVars
  <2>2. RouterTypes' /\ CatalogOK'
    BY <2>0, <2>1 DEF RouterTypes, CatalogOK, CatalogIsMerge, Duplicates, Merged
  <2>3. RequestsOK' /\ UpdatesOK' /\ (entry # Nothing => PlanOK(entry))'
    BY <2>0, <2>1 DEF RequestsOK, RequestOK, UpdatesOK, UpdateOK, PlanOK, Published, IsEarned, Selected
  <2>4. ListIsFollowed'
    BY <2>0, <2>1 DEF ListIsFollowed, Informed, UpdateAt, Covers, Selected
  <2> QED BY <2>2, <2>3, <2>4 DEF RouterInv
<1>2. ASSUME NEW c \in Call, NEW who \in Identity, ToolsList(c, who) PROVE RouterInv'
  BY <1>2, BeginsStep DEF ToolsList
<1>3. ASSUME NEW c \in Call, NEW who \in Identity, NEW t \in Tool, ToolsCall(c, who, t) PROVE RouterInv'
  BY <1>3, BeginsStep DEF ToolsCall
<1>4. ASSUME NEW c \in Call,
             \/ ComputeVersion(c) \/ Cached(c) \/ IssueReceiptForVersion(c) \/ computeSelectionPlan(c)
             \/ CommitPlan(c) \/ Respond(c) \/ BackendSucceeds(c) \/ BackendFails(c)
      PROVE  RouterInv'
  BY <1>4, ComputeVersionStep, CachedStep, ReceiptStep, ComputeStep, CommitPlanStep, RespondStep,
     BackendSucceedsStep, BackendFailsStep
<1>5. CASE SessionRemoved
  BY <1>5, SessionRemovedStep
<1>6. ASSUME NEW u \in Update, NEW s \in Source, NEW tools \in (SUBSET Tool) \cup {Nothing},
             ApplyServerTools(u, s, tools)
      PROVE  RouterInv'
  BY <1>6, ApplyStep
<1>7. ASSUME NEW u \in Update,
             SnapshotCatalog(u) \/ SessionPlanContexts(u) \/ RefreshPlan(u) \/ MarkChanged(u)
      PROVE  RouterInv'
  BY <1>7, SnapshotCatalogStep, ContextsStep, RefreshStep, MarkChangedStep
<1> QED BY <1>1, <1>2, <1>3, <1>4, <1>5, <1>6, <1>7 DEF RouterNext

LEMMA RouterImplies ==
    ASSUME RouterInv
    PROVE  PlansAreSound
<1>0. /\ RouterTypes /\ ListIsFollowed /\ CatalogOK /\ RequestsOK
      /\ entry # Nothing => PlanOK(entry)
  BY DEF RouterInv
<1>1. CallsAreAuthorized
  BY <1>0 DEF CallsAreAuthorized, At, RequestsOK, RequestOK
<1>2. PlanIsEarned
  <2> SUFFICES ASSUME entry # Nothing
               PROVE  /\ \E expanded \in BOOLEAN :
                            /\ entry.tools = Selected(catalogs[entry.catalog], entry.who, expanded)
                            /\ expanded => successes[entry.who] >= ExpandAfter
                      /\ entry.count <= successes[entry.who]
                      /\ entry.expanded => entry.count >= ExpandAfter
    BY DEF PlanIsEarned
  <2>1. PlanOK(entry)
    BY <1>0
  <2>2. \E expanded \in BOOLEAN :
           /\ entry.tools = Selected(catalogs[entry.catalog], entry.who, expanded)
           /\ expanded => successes[entry.who] >= ExpandAfter
    BY <2>1 DEF PlanOK, IsEarned
  <2> QED BY <2>1, <2>2 DEF PlanOK
<1>3. CatalogIsMerge
  BY <1>0 DEF CatalogOK
<1>4. StaleListIsMarked
  <2> SUFFICES ASSUME Quiet, alive, seen # Nothing, ~slipped, entry # Nothing, ~pending
               PROVE  Selected(catalog.tools, seen.who, Expanded(seen.who)) = seen.tools
    BY DEF StaleListIsMarked
  <2>1. ~Informed
    BY DEF Quiet, Informed, UpdateAt
  <2>2. /\ entry.who = seen.who /\ entry.tools = seen.tools
        /\ entry.tools = Selected(catalog.tools, entry.who, entry.expanded)
    BY <2>1, <1>0 DEF ListIsFollowed, Quiet
  <2>3. Expanded(seen.who) <=> entry.expanded
    BY <2>2 DEF Expanded
  <2> QED BY <2>2, <2>3 DEF Selected
<1> QED BY <1>1, <1>2, <1>3, <1>4 DEF PlansAreSound

(***************************************************************************)
(* Whatever requests, calls, identities, removals and updates of sources   *)
(* interleave between the critical sections of the plan store: a call that *)
(* reaches the backend was authorized for its identity by the catalog it   *)
(* saw and by successes that identity had earned, the catalog is the merge *)
(* of its sources, and a list the client was shown is followed by a mark   *)
(* once it is out of date, but for the plans that slip past the comparison *)
(* of RefreshPlan.                                                         *)
(***************************************************************************)
THEOREM PlansStaySound == RouterSpec => []PlansAreSound
BY RouterStarts, RouterStays, RouterImplies, PTL DEF RouterSpec
=============================================================================
