------------------------------ MODULE MCRequest ------------------------------
(***************************************************************************)
(* A request on its way through the gateway, each part in a world of its   *)
(* own: the route it takes (match), the API configuration (api), the       *)
(* factories of the filter chain (filters), the chain with the MCP filter  *)
(* in it (http), the LLM proxy with its retries and fallbacks (llm), and   *)
(* the key-value cache filter: its circuit breaker (breaker), its token    *)
(* cache (tokens) and its hot prompts (prompts).  FilterManager and        *)
(* HttpRequest are extended, the others are instances.                     *)
(***************************************************************************)
EXTENDS FilterManager, HttpRequest, TLC

CONSTANTS get, put, p1, p2, v1, u1, u2,
          e1, e2, e3, c1, c2, c3, k1, k2, k3

VARIABLES
    world,
    routes, snapshot,
    etcd, conf, trie, listener, watcher, response, loader, crashed, unseen, disturbed,
    registered, writes,
    order, healthy, store, stamp, try, changes, lost,
    state, failureCount, halfOpenCalls, recovered, caller, calls,
    cached, expired, cacheSize, asker, requests,
    now, hotMap, hotMaxKeys, lastSweep, history

\* Paths of up to two segments that overlap in every way the trie knows.
Routes ==
    LET R(p, k, h, ms) == [path |-> p, kind |-> k, headers |-> h, methods |-> ms]
        Shapes == {<<<<"a">>, "path">>, <<<<":">>, "path">>, <<<<"a", "b">>, "path">>,
                   <<<<"a", ":">>, "path">>, <<<<":", "b">>, "path">>, <<<<>>, "prefix">>,
                   <<<<"a">>, "prefix">>, <<<<":">>, "prefix">>}
    IN  {R(s[1], s[2], h, {"GET"}) : s \in Shapes, h \in {{}, {"v"}}}
        \cup {R(s[1], s[2], {}, {"*"}) : s \in Shapes}
        \cup {R(<<"*">>, "path", {}, {"GET"}), R(<<>>, "none", {"regex"}, {}), R(<<>>, "none", {"bad"}, {"GET"}),
              R(<<"a", "b">>, "prefix", {"v", "regex"}, {})}

Match == INSTANCE RouteMatch WITH
    Methods <- {"GET", "POST"}, AnyMethod <- "*", Literal <- {"a", "b"}, Var <- ":", All <- "**",
    RouteSet <- Routes, MaxRoutes <- 3

Api == INSTANCE ApiConfig WITH
    ResourceID <- {1, 2}, MethodID <- {1, 2}, Verb <- {get, put}, LiteralPath <- {p1, p2},
    VariablePath <- {v1}, URL <- {u1, u2}, Within <- {<<u1, u2>>}, None <- Nothing, MaxWrites <- 3

Llm == INSTANCE LlmProxy WITH
    Endpoint <- {e1, e2, e3}, Fallback <- {e1, e2}, NoPolicy <- {e3},
    MaxAttempts <- 2, MaxEntries <- 1, MaxFailures <- 2, MaxChanges <- 1, req <- try

Kv == INSTANCE KvCache WITH
    NoKey <- Nothing,
    Caller <- {c1, c2, c3}, FailureThreshold <- 2, HalfOpenMaxCalls <- 1, MaxAttempts <- 2,
    MaxCalls <- 8,
    Asker <- {c1, c2}, Key <- {k1, k2, k3}, MaxSize <- 1, MaxRequests <- 4,
    Prompt <- {k1, k2}, Window <- 2, HotMax <- 2, Threshold <- 2, MaxTime <- 5, MaxRecords <- 5

\* The instances are such as the proofs are about.
ASSUME FilterConstants == Constants
ASSUME KvConstantsHold == Kv!KvConstants

matchVars == <<routes, snapshot>>
apiVars == <<etcd, conf, trie, listener, watcher, response, loader, crashed, unseen, disturbed,
             registered, writes>>
llmVars == <<order, healthy, store, stamp, try, changes, lost>>
breakerVars == <<state, failureCount, halfOpenCalls, recovered, caller, calls>>
tokensVars == <<cached, expired, cacheSize, asker, requests>>
promptsVars == <<now, hotMap, hotMaxKeys, lastSweep, history>>
requestVars == <<world, matchVars, apiVars, vars, httpVars, llmVars, breakerVars, tokensVars, promptsVars>>

\* The parts that are not looked at stay in one of their initial states.
RequestInit ==
    /\ world \in {"match", "api", "filters", "http", "llm", "breaker", "tokens", "prompts"}
    /\ Match!Init /\ Api!Init /\ Init /\ HttpInit /\ Llm!Init
    /\ Kv!BreakerInit /\ Kv!TokensInit /\ Kv!PromptsInit
    /\ world # "api" => loader.at = "down"
    /\ world # "http" => stream = "none"
    /\ world # "prompts" => hotMaxKeys = 0

InMatch ==
    world = "match" /\ UNCHANGED <<apiVars, vars, httpVars, llmVars, breakerVars, tokensVars, promptsVars>>
InApi ==
    world = "api" /\ UNCHANGED <<matchVars, vars, httpVars, llmVars, breakerVars, tokensVars, promptsVars>>
InFilter ==
    world = "filters" /\ UNCHANGED <<matchVars, apiVars, httpVars, llmVars, breakerVars, tokensVars, promptsVars>>
InHttp ==
    world = "http" /\ UNCHANGED <<matchVars, apiVars, vars, llmVars, breakerVars, tokensVars, promptsVars>>
InLlm ==
    world = "llm" /\ UNCHANGED <<matchVars, apiVars, vars, httpVars, breakerVars, tokensVars, promptsVars>>
InBreaker ==
    world = "breaker" /\ UNCHANGED <<matchVars, apiVars, vars, httpVars, llmVars, tokensVars, promptsVars>>
InTokens ==
    world = "tokens" /\ UNCHANGED <<matchVars, apiVars, vars, httpVars, llmVars, breakerVars, promptsVars>>
InPrompts ==
    world = "prompts" /\ UNCHANGED <<matchVars, apiVars, vars, httpVars, llmVars, breakerVars, tokensVars>>

RequestNext ==
    /\ UNCHANGED world
    /\ \/ InMatch /\ Match!Next
       \/ InApi /\ Api!Next
       \/ InFilter /\ Next
       \/ InHttp /\ HttpNext
       \/ InLlm /\ Llm!Next
       \/ InBreaker /\ Kv!BreakerNext
       \/ InTokens /\ Kv!TokensNext
       \/ InPrompts /\ Kv!PromptsNext

RequestSpec == RequestInit /\ [][RequestNext]_requestVars

-----------------------------------------------------------------------------
\* The lookup finds the best of the routes that want the request.
BestIsFound == world = "match" => Match!BestIsFound

\* Requests are matched to configured routes.
ApiIsSound == Api!ApiIsSound

\* Failures of LLM endpoints are kept and endpoints are tried once.
FailoverIsSound == Llm!FailoverIsSound

\* The key-value cache filter keeps its bookkeeping true.
KvCacheIsSound == Kv!KvCacheIsSound
=============================================================================
