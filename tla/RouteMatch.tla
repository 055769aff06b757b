------------------------------ MODULE RouteMatch ------------------------------
(***************************************************************************)
(* Which route a request takes: the read-only snapshot that a route        *)
(* coordinator publishes (src/pkg/model/router_snapshot.go), the tries it  *)
(* holds, one for each method (src/pkg/common/router/trie/trie.go), and the*)
(* lookup of a request (src/pkg/common/router/router.go route).            *)
(*                                                                         *)
(* A key is the method followed by the segments of the path.  A trie has   *)
(* one node for all parameters and single wildcards (Var) of a level and   *)
(* one for "**" (All), so it is a function from the normalised keys that   *)
(* end in it to their candidates, in the order of the routes.              *)
(***************************************************************************)
EXTENDS Naturals, Sequences, SequencesExt, FiniteSets

CONSTANTS
    Methods,       \* constMethods: the methods of a route that names none
    AnyMethod,     \* "*", which is also a segment that stands for any
    Literal,       \* the literal segments
    Var, All,      \* ":x" and "**"
    RouteSet,      \* the routes that may be configured
    MaxRoutes

VARIABLES
    routes,        \* RouteConfiguration.Routes
    snapshot       \* what requests read

vars == <<routes, snapshot>>

NoRoute == 0

\* Requests: the header that the matchers look at is absent, "v" or "w".
Requests ==
    [method : Methods, path : UNION {[1..n -> Literal] : n \in 0..2}, header : {"", "v", "w"}]

-----------------------------------------------------------------------------
\* A single wildcard and a parameter share a node.
trieRouteIdentity(key) == [i \in DOMAIN key |-> IF key[i] = AnyMethod THEN Var ELSE key[i]]

\* GetTrieKeyWithPrefix: a prefix ends in "**".
GetTrieKey(m, r) ==
    trieRouteIdentity(<<m>> \o r.path \o (IF r.kind = "prefix" THEN <<All>> ELSE <<>>))

HeaderOnly(r) == r.kind = "none" /\ r.headers # {}

MethodsOf(r) == IF r.methods = {} THEN Methods ELSE r.methods

\* A regular expression that does not compile is dropped.
compileHeaders(r) == r.headers \ {"bad"}

\* The routes of a method's trie.
Keyed(list, m) == {i \in DOMAIN list : ~HeaderOnly(list[i]) /\ m \in MethodsOf(list[i])}

\* The candidates of a key, which all routes of that key join.
RouteCandidates(list, m, key) ==
    SelectSeq([i \in DOMAIN list |-> i], LAMBDA i : i \in Keyed(list, m) /\ GetTrieKey(m, list[i]) = key)

\* A trie keeps what was put first under a key: the list of candidates.
internalPut(list, m) ==
    [key \in {GetTrieKey(m, list[i]) : i \in Keyed(list, m)} |-> RouteCandidates(list, m, key)]

\* Every route is put into the trie of each of its methods; a route of headers
\* alone is kept apart.
ToSnapshot(list) ==
    [headerOnly |-> SelectSeq([i \in DOMAIN list |-> i], LAMBDA i : HeaderOnly(list[i])),
     tries |-> [m \in Methods \cup {AnyMethod} |-> internalPut(list, m)]]

-----------------------------------------------------------------------------
matchHeaders(r, q) ==
    \A h \in compileHeaders(r) : q.header # "" /\ (h = "regex" \/ h = q.header)

\* Candidates of a node that accept the request.
Accepting(list, q) == SelectSeq(list, LAMBDA i : matchHeaders(routes[i], q))

\* matchAll: the "**" below the literal child, then the node's own.
matchAll(node, key) == <<node \o <<key, All>>, Append(node, All)>>

\* Mutant: the parameters of a level are tried before its literals.
MatchVariableFirst(node, parts) ==
    LET RECURSIVE Visit(_, _)
        Visit(n, ps) ==
            IF Len(ps) = 1 THEN <<Append(n, Var), Append(n, ps[1])>> \o matchAll(n, ps[1])
            ELSE Visit(Append(n, Var), Tail(ps)) \o Visit(Append(n, ps[1]), Tail(ps))
                 \o matchAll(n, ps[1])
    IN  Visit(node, parts)

\* The nodes a lookup tries, in order: a miss below the literal child goes back
\* to the parameter, and from there to "**".
match(node, parts) ==
    LET RECURSIVE Visit(_, _)
        Visit(n, ps) ==
            IF Len(ps) = 1 THEN <<Append(n, ps[1]), Append(n, Var)>> \o matchAll(n, ps[1])
            ELSE Visit(Append(n, ps[1]), Tail(ps)) \o Visit(Append(n, Var), Tail(ps))
                 \o matchAll(n, ps[1])
    IN  Visit(node, parts)

\* The first candidate of the first node that has one.
matchInTrie(trie, q) ==
    LET nodes == SelectSeq(match(<<>>, <<q.method>> \o q.path),
                           LAMBDA n : n \in DOMAIN trie /\ Accepting(trie[n], q) # <<>>)
    IN  IF nodes = <<>> THEN NoRoute ELSE Accepting(trie[nodes[1]], q)[1]

MethodAllowed(r, m) == r.methods = {} \/ AnyMethod \in r.methods \/ m \in r.methods

\* Header-only routes first, then the trie of the method, then that of "*".
route(q) ==
    LET only == SelectSeq(snapshot.headerOnly,
                          LAMBDA i : MethodAllowed(routes[i], q.method) /\ matchHeaders(routes[i], q))
        own == matchInTrie(snapshot.tries[q.method], q)
    IN  IF only # <<>> THEN only[1]
        ELSE IF own # NoRoute THEN own
        ELSE matchInTrie(snapshot.tries[AnyMethod], q)

-----------------------------------------------------------------------------
\* OnAddRouter, published.
AddRoute(r) ==
    /\ Len(routes) < MaxRoutes
    /\ routes' = Append(routes, r)
    /\ snapshot' = ToSnapshot(routes')

Init ==
    /\ routes = <<>>
    /\ snapshot = ToSnapshot(<<>>)

Next == \E r \in RouteSet : AddRoute(r)

Spec == Init /\ [][Next]_vars

-----------------------------------------------------------------------------
\* The reference, which knows of no trie.  How a key fits the segments of a
\* request, segment by segment: 1 a literal, 2 a parameter, 3 a literal that is
\* all there is left and whose prefix is meant, 4 "**".
Fit(k, parts) ==
    LET n == Len(parts)
        Seg(i) == IF k[i] = All THEN 4 ELSE IF k[i] = Var THEN 2
                  ELSE IF i = n /\ Len(k) = n + 1 THEN 3 ELSE 1
    IN  [i \in 1..(IF Len(k) < n THEN Len(k) ELSE n) |-> Seg(i)]

Fits(k, parts) ==
    LET n == Len(parts)
    IN  /\ \A i \in 1..Len(k) : k[i] \in {All, Var} \/ (i <= n /\ k[i] = parts[i])
        /\ \/ Len(k) = n
           \/ Last(k) = All /\ Len(k) < n
           \/ Last(k) = All /\ Len(k) = n + 1 /\ k[n] # Var

Before(f, g) ==
    \E i \in DOMAIN f \cap DOMAIN g : f[i] < g[i] /\ \A j \in 1..(i - 1) : f[j] = g[j]

\* The routes that want the request, and the one among them that no other comes
\* before.
Best(q) ==
    LET parts == <<q.method>> \o q.path
        only == {i \in DOMAIN routes : /\ HeaderOnly(routes[i]) /\ MethodAllowed(routes[i], q.method)
                                       /\ matchHeaders(routes[i], q)}
        Wants(m) == {i \in DOMAIN routes : /\ ~HeaderOnly(routes[i]) /\ m \in MethodsOf(routes[i])
                                           /\ matchHeaders(routes[i], q)
                                           /\ Fits(GetTrieKey(m, routes[i]), parts)}
        Rank(m, i) == Fit(GetTrieKey(m, routes[i]), parts)
        Least(m) == CHOOSE i \in Wants(m) : \A j \in Wants(m) \ {i} :
                       \/ Before(Rank(m, i), Rank(m, j))
                       \/ i < j /\ ~Before(Rank(m, j), Rank(m, i))
    IN  IF only # {} THEN CHOOSE i \in only : \A j \in only : i <= j
        ELSE IF Wants(q.method) # {} THEN Least(q.method)
        ELSE IF Wants(AnyMethod) # {} THEN Least(AnyMethod)
        ELSE NoRoute

\* The lookup finds the best of the routes that want the request: it goes back
\* when the headers of a closer match refuse, and of equal routes it takes the
\* first.
BestIsFound == \A q \in Requests : route(q) = Best(q)
=============================================================================
