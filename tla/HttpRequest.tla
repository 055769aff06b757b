------------------------------- MODULE HttpRequest -------------------------------
(***************************************************************************)
(* A request's way through the HTTP connection manager (common/http/       *)
(* manager.go) and a chain of the MCP server filter (filter/mcp/mcpserver  *)
(* filter.go, handlers.go, context.go) and the HTTP proxy filter: which    *)
(* answers its client gets, in the response and on the session's event     *)
(* stream.  The tool router is McpRouter, sessions are McpSession; here    *)
(* there is one session, which may end, and one stream, which may break,   *)
(* between any two steps.                                                  *)
(*                                                                         *)
(* Contexts come from a pool.  Reset clears a context's replies but not    *)
(* its Params, where the MCP filter keeps the data of a POST.              *)
(***************************************************************************)
EXTENDS Naturals, Sequences

CONSTANTS
    HttpReq,  \* requests
    Context,  \* contexts
    Unset

\* What a client can send: a path no route matches, one that is not the MCP filter's,
\* a GET for the stream, a POST that is refused; and POSTs of a method that is answered
\* at once, of notifications/initialized, of a method that is not known, and of a
\* tools/call, with an ID or without one (anonymous).
Post == {"terminal", "notification", "unknown", "call", "anonymous"}
Kind == {"unrouted", "other", "get", "invalid"} \cup Post

\* The MCP data of a POST in a context's Params: whose it is, and whether it is a
\* tools/call with an ID.
Data == [id : HttpReq, call : BOOLEAN]

\* A request that is served: where it is, its context, whether it was answered
\* by a local reply, and with what; whether its context held no MCP data.
Text == {"none", "refused", "error", "result", "accepted", "stream", "failure", "empty", "wrapped"}
Exchange ==
    [at : {"decode", "handle", "proxy", "encode", "write", "done"}, kind : Kind, ctx : Context,
     local : BOOLEAN, target : Text, fresh : BOOLEAN, interrupted : BOOLEAN]

ASSUME UnsetAssumption == Unset \notin Data /\ Unset \notin Exchange

VARIABLES
    free,    \* contexts in the pool
    params,  \* per context: the MCP data stored in it, or Unset
    req,     \* per request: Unset, or an Exchange
    body,    \* what was written to each request's response
    events,  \* messages on the stream: the request they answer and the one they come from
    alive, stream, \* the session, and the state of its stream
    ended    \* requests that were served

httpVars == <<free, params, req, body, events, alive, stream, ended>>

At(r, step) == req[r] # Unset /\ req[r].at = step

\* SendLocalReply writes at once, whatever was written before.
LocalReply(r, text, next) ==
    /\ req' = [req EXCEPT ![r].at = next, ![r].local = TRUE, ![r].target = text]
    /\ body' = [body EXCEPT ![r] = IF text = "accepted" THEN @ ELSE Append(@, text)]

\* SendSSEMessage: the message is on the stream, or the write fails.
Sends(r, id) == stream = "attached" /\ events' = Append(events, [id |-> id, from |-> r])

-----------------------------------------------------------------------------
\* ServeHTTP: a context from the pool, or a new one (one not used before).
ServeHTTP(r, c, kind) ==
    /\ req[r] = Unset /\ r \notin ended /\ c \in free
    /\ free' = free \ {c}
    /\ req' = [req EXCEPT ![r] = [at |-> "decode", kind |-> kind, ctx |-> c, local |-> FALSE,
                                  target |-> "none", fresh |-> params[c] = Unset,
                                  interrupted |-> FALSE]]
    /\ UNCHANGED <<params, body, events, alive, stream, ended>>

\* findRoute fails, or a filter cannot be prepared: the chain is not run.
Refuse(r) ==
    /\ At(r, "decode") /\ req[r].kind = "unrouted"
    /\ LocalReply(r, "refused", "write")
    /\ UNCHANGED <<free, params, events, alive, stream, ended>>

\* The MCP filter lets other paths through.
DecodeOther(r) ==
    /\ At(r, "decode") /\ req[r].kind = "other"
    /\ req' = [req EXCEPT ![r].at = "proxy"]
    /\ UNCHANGED <<free, params, body, events, alive, stream, ended>>

\* handleGetRequest attaches a stream, which becomes the response.
handleGetRequest(r) ==
    /\ At(r, "decode") /\ req[r].kind = "get"
    /\ \/ LocalReply(r, "refused", "encode") /\ UNCHANGED stream
       \/ /\ alive
          /\ stream' = "attached"
          /\ req' = [req EXCEPT ![r].at = "encode", ![r].target = "stream"]
          /\ UNCHANGED body
    /\ UNCHANGED <<free, params, events, alive, ended>>

\* An HTTP method, a body or a session header that is refused, by a status or a
\* JSON-RPC error: nothing is stored.
Decode4xx(r) ==
    /\ At(r, "decode")
    /\ req[r].kind = "invalid" \/ (req[r].kind \in Post /\ ~alive)
    /\ \E text \in {"refused", "error"} : LocalReply(r, text, "encode")
    /\ UNCHANGED <<free, params, events, alive, stream, ended>>

\* Mutant: contexts share their Params.
postSharesParams(r) ==
    /\ At(r, "decode") /\ req[r].kind \in Post
    /\ params' = [c \in Context |-> [id |-> r, call |-> req[r].kind = "call"]]
    /\ req' = [req EXCEPT ![r].at = "handle"]
    /\ UNCHANGED <<free, body, events, alive, stream, ended>>

\* handlePostRequest stores the MCP data in the context's Params.  A session that is
\* there is required of some methods, and only with governance.
handlePostRequest(r) ==
    /\ At(r, "decode") /\ req[r].kind \in Post
    /\ params' = [params EXCEPT ![req[r].ctx] = [id |-> r, call |-> req[r].kind = "call"]]
    /\ req' = [req EXCEPT ![r].at = "handle"]
    /\ UNCHANGED <<free, body, events, alive, stream, ended>>

\* The handlers of ping, resources and prompts: a result, or what was asked for is
\* not there or not well formed.
TerminalAnswer == {"result", "error"}

\* handleTerminalMethodWithNegotiation.  A notification is accepted without a body.
\* sendResponseWithFormat answers the others on the stream if the client takes events
\* and the write succeeds, else as JSON; initialize and errors are always JSON.
handleTerminalMethod(r) ==
    /\ At(r, "handle")
    /\ \/ /\ req[r].kind = "notification"
          /\ LocalReply(r, "accepted", "encode") /\ UNCHANGED events
       \/ /\ req[r].kind = "terminal"
          /\ \/ Sends(r, r) /\ LocalReply(r, "accepted", "encode")
             \/ \E text \in TerminalAnswer : LocalReply(r, text, "encode") /\ UNCHANGED events
    /\ UNCHANGED <<free, params, alive, stream, ended>>

\* A method that is not known is an error.
SendMethodNotFound(r) ==
    /\ At(r, "handle") /\ req[r].kind = "unknown"
    /\ LocalReply(r, "error", "encode")
    /\ UNCHANGED <<free, params, events, alive, stream, ended>>

\* handleToolCall: denied, not found or malformed; or forwarded.
handleToolCall(r) ==
    /\ At(r, "handle") /\ req[r].kind \in {"call", "anonymous"}
    /\ \/ /\ body' = [body EXCEPT ![r] = Append(@, "error")]
          /\ req' = [req EXCEPT ![r].at = "encode", ![r].local = TRUE, ![r].target = "error",
                                ![r].interrupted = TRUE]
       \/ req' = [req EXCEPT ![r].at = "proxy"] /\ UNCHANGED body
    /\ UNCHANGED <<free, params, events, alive, stream, ended>>

\* The proxy filter and buildTargetResponse: no endpoint, no answer or a
\* timeout replies at once; else the backend's answer, whole or as a stream.
Proxy(r) ==
    /\ At(r, "proxy")
    /\ \/ /\ body' = [body EXCEPT ![r] = Append(@, "refused")]
          /\ req' = [req EXCEPT ![r].at = "encode", ![r].local = TRUE, ![r].target = "refused",
                                ![r].interrupted = TRUE]
       \/ /\ \E answer \in {"result", "failure", "empty", "stream"} :
                req' = [req EXCEPT ![r].at = "encode", ![r].target = answer]
          /\ UNCHANGED body
    /\ UNCHANGED <<free, params, events, alive, stream, ended>>

\* NewMCPContextFromHttpContext: what Params hold, whoever put it there.
MCPData(r) == params[req[r].ctx]
IsMCPToolCall(r) == MCPData(r) # Unset /\ MCPData(r).call

\* Encode leaves every other response as it is, handleToolCallResponse that of a
\* tools/call without an ID: its client gets the backend's answer unwrapped.
EncodeNothing(r) ==
    /\ At(r, "encode") /\ ~IsMCPToolCall(r)
    /\ req' = [req EXCEPT ![r].at = "write"]
    /\ UNCHANGED <<free, params, body, events, alive, stream, ended>>

\* extractBackendResponse and processToolCallResponse refuse an answer that is none,
\* empty, a stream or an error status.
Unusable(r) == req[r].target \in {"none", "empty", "accepted", "stream", "failure", "refused"}

\* With governance a response whose session has gone is refused as well.

EncodeToolCallError(r) ==
    /\ At(r, "encode") /\ IsMCPToolCall(r) /\ (Unusable(r) \/ ~alive)
    /\ LocalReply(r, "error", "write")
    /\ UNCHANGED <<free, params, events, alive, stream, ended>>

\* sendMCPResponse: on the stream and 202, or wrapped as the response.
sendMCPResponse(r) ==
    /\ At(r, "encode") /\ IsMCPToolCall(r) /\ ~Unusable(r)
    /\ \/ Sends(r, MCPData(r).id) /\ LocalReply(r, "accepted", "write")
       \/ /\ stream # "attached"
          /\ req' = [req EXCEPT ![r].at = "write", ![r].target = "wrapped"]
          /\ UNCHANGED <<body, events>>
    /\ UNCHANGED <<free, params, alive, stream, ended>>

\* writeResponse, and the context goes back to the pool.
writeResponse(r) ==
    /\ At(r, "write")
    /\ body' = IF req[r].local THEN body ELSE [body EXCEPT ![r] = Append(@, req[r].target)]
    /\ free' = free \cup {req[r].ctx}
    /\ ended' = ended \cup {r}
    /\ req' = [req EXCEPT ![r].at = "done"]
    /\ UNCHANGED <<params, events, alive, stream>>

SessionEnds ==
    /\ alive
    /\ alive' = FALSE /\ stream' = "none"
    /\ UNCHANGED <<free, params, req, body, events, ended>>

StreamBreaks ==
    /\ stream = "attached"
    /\ stream' = "broken"
    /\ UNCHANGED <<free, params, req, body, events, alive, ended>>

-----------------------------------------------------------------------------
HttpInit ==
    /\ free = Context /\ params = [c \in Context |-> Unset]
    /\ req = [r \in HttpReq |-> Unset] /\ body = [r \in HttpReq |-> <<>>]
    /\ events = <<>> /\ alive = TRUE /\ stream \in {"none", "attached"} /\ ended = {}

HttpNext ==
    \/ \E r \in HttpReq :
          \/ \E c \in Context, kind \in Kind : ServeHTTP(r, c, kind)
          \/ Refuse(r) \/ DecodeOther(r) \/ handleGetRequest(r) \/ Decode4xx(r)
          \/ handlePostRequest(r) \/ handleTerminalMethod(r) \/ SendMethodNotFound(r)
          \/ handleToolCall(r) \/ Proxy(r)
          \/ EncodeNothing(r) \/ EncodeToolCallError(r) \/ sendMCPResponse(r) \/ writeResponse(r)
    \/ SessionEnds \/ StreamBreaks

HttpSpec == HttpInit /\ [][HttpNext]_httpVars

-----------------------------------------------------------------------------
\* The messages on the stream that come from a request.
SentFor(r) == {i \in DOMAIN events : events[i].from = r}

(***************************************************************************)
(* A request served with a context that held no earlier MCP data gets one  *)
(* answer, in the response or on the stream and never on both or neither,  *)
(* though the session may end and the stream break on the way; a           *)
(* notification is accepted with nothing or refused in the response, and   *)
(* nothing about it is on the stream.  A tools/call with an ID that was    *)
(* answered before the encode phase is left out: that phase answers it     *)
(* again.                                                                  *)
(***************************************************************************)
AnsweredOnce ==
    \A r \in ended :
        (req[r].fresh /\ ~(req[r].interrupted /\ req[r].kind = "call")) =>
            \/ Len(body[r]) = 1 /\ SentFor(r) = {}
            \/ Len(body[r]) = 0 /\ IF req[r].kind = "notification" THEN SentFor(r) = {}
                                   ELSE \E i \in DOMAIN events : SentFor(r) = {i}

(***************************************************************************)
(* A message on the stream comes from the request it answers, if that one  *)
(* was served with a context that held no earlier data.                    *)
(***************************************************************************)
FreshAnswersItsOwn ==
    \A i \in DOMAIN events : req[events[i].from].fresh => events[i].id = events[i].from

\* A request is answered once, with its own answer.
AnswersAreSound == AnsweredOnce /\ FreshAnswersItsOwn
=============================================================================
