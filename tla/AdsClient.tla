-------------------------------- MODULE AdsClient --------------------------------
(***************************************************************************)
(* The gateway's client of a standard ADS server, such as Istio's          *)
(* (pkg/config/xds/apiclient/grpc_envoy.go): clusters by CDS, the          *)
(* endpoints of the services they refer to by EDS, and the clusters made   *)
(* of both handed to the cluster manager (cds.go).                         *)
(*                                                                         *)
(* An assignment is one of Value or bad, an address that cannot be used; a *)
(* cluster refers to a service, or is bad, a policy that is not supported. *)
(* The server is external and versions are its own affair: it              *)
(* answers a request for what differs from what it sent on this stream,    *)
(* whole or, for endpoints last accepted, only what changed; a request     *)
(* without a nonce is a new subscription, which it answers whole.          *)
(***************************************************************************)
EXTENDS Naturals, Sequences, Functions

CONSTANTS
    Cluster, Service, Value,
    Owned,    \* clusters of the gateway's own file, which discovery may not replace
    None,
    MaxEdits, MaxFaults

VARIABLES
    cds, eds,    \* the server's: Cluster -> Service, bad or None; Service -> Value or bad
    stream,      \* up, down or closed by Stop
    wanted,      \* names of the last EDS request, or None
    sent,        \* [cds, eds]: what the server last sent on this stream
    nacked,      \* the last EDS response was refused
    inbox,       \* responses on their way
    references,  \* accepted clusters: cache.references
    assignments, \* accepted endpoints: cache.assignments
    publishing,  \* the candidate handed to the manager, or None
    runtime,     \* Cluster -> assignment, for the clusters the gateway runs with
    edits, faults

serverVars == <<cds, eds>>
streamVars == <<wanted, sent, nacked, inbox>>
cacheVars == <<references, assignments>>
adsVars == <<serverVars, stream, streamVars, cacheVars, publishing, runtime, edits, faults>>

Empty == [x \in {} |-> None]
Fault == faults < MaxFaults /\ faults' = faults + 1

-----------------------------------------------------------------------------
(***************************************************************************)
(* Converting                                                              *)
(***************************************************************************)
\* decodeCDSReferences: the clusters that use EDS, all of them valid.
Listed(clusters) == {c \in Cluster : clusters[c] # None}
Decodes(clusters) == \A c \in Listed(clusters) : clusters[c] # "bad"
decodeCDSReferences(clusters) == Restrict(clusters, Listed(clusters))
referenceNames(refs) == Range(refs)

retainEDSAssignments(asg, refs) == Restrict(asg, DOMAIN asg \cap referenceNames(refs))

mergeEDSAssignments(current, updates) ==
    [s \in DOMAIN current \cup DOMAIN updates |->
        IF s \in DOMAIN updates THEN updates[s] ELSE current[s]]

\* convertCachedEDS: a cluster per reference that has endpoints.
convertCachedEDS(asg, refs) ==
    [c \in {d \in DOMAIN refs : refs[d] \in DOMAIN asg} |-> asg[refs[c]]]
Converts(asg) == \A s \in DOMAIN asg : asg[s] # "bad"

-----------------------------------------------------------------------------
(***************************************************************************)
(* The server                                                              *)
(***************************************************************************)
EditCluster(c, value) ==
    /\ edits < MaxEdits /\ cds[c] # value
    /\ cds' = [cds EXCEPT ![c] = value] /\ edits' = edits + 1
    /\ UNCHANGED <<eds, stream, streamVars, cacheVars, publishing, runtime, faults>>

EditEndpoints(s, value) ==
    /\ edits < MaxEdits /\ eds[s] # value
    /\ eds' = [eds EXCEPT ![s] = value] /\ edits' = edits + 1
    /\ UNCHANGED <<cds, stream, streamVars, cacheVars, publishing, runtime, faults>>

RespondCDS ==
    /\ stream = "up" /\ sent.cds # cds
    /\ inbox' = Append(inbox, [type |-> "cds", content |-> cds])
    /\ sent' = [sent EXCEPT !.cds = cds]
    /\ UNCHANGED <<serverVars, stream, wanted, nacked, cacheVars, publishing, runtime, edits, faults>>

RespondEDS ==
    LET asked == Restrict(eds, wanted)
        changed == Restrict(asked, {s \in wanted : s \notin DOMAIN sent.eds \/ sent.eds[s] # eds[s]})
    IN
    /\ stream = "up" /\ wanted # None /\ DOMAIN changed # {}
    /\ \E answer \in IF nacked THEN {asked} ELSE {asked, changed} :
          inbox' = Append(inbox, [type |-> "eds", content |-> answer])
    /\ sent' = [sent EXCEPT !.eds = asked]
    /\ UNCHANGED <<serverVars, stream, wanted, nacked, cacheVars, publishing, runtime, edits, faults>>

-----------------------------------------------------------------------------
(***************************************************************************)
(* The client                                                              *)
(***************************************************************************)
\* connectADS: subscribes to the clusters and to the endpoints of those accepted.
connectADS ==
    /\ stream = "down" /\ publishing = None
    /\ stream' = "up"
    /\ wanted' = IF references = Empty THEN None ELSE referenceNames(references)
    /\ sent' = [cds |-> None, eds |-> Empty] /\ nacked' = FALSE /\ inbox' = <<>>
    /\ UNCHANGED <<serverVars, cacheVars, publishing, runtime, edits, faults>>

StreamBreaks ==
    /\ stream = "up" /\ Fault
    /\ stream' = "down" /\ inbox' = <<>>
    /\ UNCHANGED <<serverVars, wanted, sent, nacked, cacheVars, publishing, runtime, edits>>

\* The refused response leaves the cache as it was; the answer is a refusal.
Refuse(type) ==
    /\ nacked' = (nacked \/ type = "eds")
    /\ UNCHANGED <<wanted, sent, cacheVars>>

\* Mutant: no EDS request follows new clusters.
AcceptNoRequest(type, refs, asg) ==
    /\ references' = refs /\ assignments' = asg
    /\ IF type = "cds" /\ wanted = None
       THEN /\ wanted' = IF refs = Empty THEN wanted ELSE referenceNames(refs)
            /\ UNCHANGED <<sent, nacked>>
       ELSE /\ nacked' = FALSE /\ UNCHANGED <<wanted, sent>>

\* The accepted response; for clusters an EDS request without nonce follows unless
\* none is left.
Accept(type, refs, asg) ==
    /\ references' = refs /\ assignments' = asg
    /\ IF type = "cds"
       THEN /\ wanted' = IF refs = Empty THEN wanted ELSE referenceNames(refs)
            /\ sent' = IF refs = Empty THEN sent ELSE [sent EXCEPT !.eds = Empty]
            /\ UNCHANGED nacked
       ELSE /\ nacked' = FALSE /\ UNCHANGED <<wanted, sent>>

Publish(type, refs, asg) ==
    /\ publishing' = [type |-> type, refs |-> refs, asg |-> asg]
    /\ UNCHANGED <<wanted, sent, nacked, cacheVars>>

\* consumeADSStream, a cluster response.
ReceiveCDS ==
    LET content == Head(inbox).content
        refs == decodeCDSReferences(content)
        asg == retainEDSAssignments(assignments, refs)
    IN
    /\ stream = "up" /\ publishing = None /\ inbox # <<>> /\ Head(inbox).type = "cds"
    /\ inbox' = Tail(inbox)
    /\ IF ~Decodes(content) THEN Refuse("cds") /\ UNCHANGED publishing
       ELSE IF assignments # Empty \/ refs = Empty THEN Publish("cds", refs, asg)
       ELSE Accept("cds", refs, asg) /\ UNCHANGED publishing
    /\ UNCHANGED <<serverVars, stream, runtime, edits, faults>>

\* consumeADSStream, an endpoint response: what is not referred to is ignored.
ReceiveEDS ==
    LET content == Head(inbox).content
        updates == Restrict(content, DOMAIN content \cap referenceNames(references))
        asg == mergeEDSAssignments(assignments, updates)
    IN
    /\ stream = "up" /\ publishing = None /\ inbox # <<>> /\ Head(inbox).type = "eds"
    /\ inbox' = Tail(inbox)
    /\ IF updates = Empty THEN Accept("eds", references, asg) /\ UNCHANGED publishing
       ELSE IF ~Converts(asg) THEN Refuse("eds") /\ UNCHANGED publishing
       ELSE Publish("eds", references, asg)
    /\ UNCHANGED <<serverVars, stream, runtime, edits, faults>>

\* Mutant: the cache is updated whatever the manager says.
AcceptAnyway ==
    LET p == publishing
        clusters == convertCachedEDS(p.asg, p.refs)
    IN
    /\ publishing # None
    /\ runtime' = IF DOMAIN clusters \cap Owned = {} THEN clusters ELSE runtime
    /\ publishing' = None
    /\ Accept(p.type, p.refs, p.asg)
    /\ UNCHANGED <<serverVars, stream, inbox, edits, faults>>

\* The manager replaces all discovered clusters or none (CdsManager.applyDelta), and
\* answers.  The stream may have broken meanwhile; its answer is then not sent, but
\* the cache counts.  After Stop nobody waits for the answer.
Apply ==
    LET p == publishing
        clusters == convertCachedEDS(p.asg, p.refs)
        ok == DOMAIN clusters \cap Owned = {}
    IN
    /\ publishing # None
    /\ runtime' = IF ok THEN clusters ELSE runtime
    /\ publishing' = None
    /\ IF stream = "closed" THEN UNCHANGED <<wanted, sent, nacked, cacheVars>>
       ELSE IF ok THEN Accept(p.type, p.refs, p.asg) ELSE Refuse(p.type)
    /\ UNCHANGED <<serverVars, stream, inbox, edits, faults>>

Stop ==
    /\ stream # "closed" /\ Fault
    /\ stream' = "closed" /\ inbox' = <<>>
    /\ UNCHANGED <<serverVars, wanted, sent, nacked, cacheVars, publishing, runtime, edits>>

-----------------------------------------------------------------------------
AdsInit ==
    /\ cds = [c \in Cluster |-> None] /\ eds \in [Service -> Value]
    /\ stream = "down" /\ wanted = None
    /\ sent = [cds |-> None, eds |-> Empty] /\ nacked = FALSE
    /\ inbox = <<>>
    /\ references = Empty /\ assignments = Empty
    /\ publishing = None /\ runtime = Empty /\ edits = 0 /\ faults = 0

Steps == RespondCDS \/ RespondEDS \/ connectADS \/ ReceiveCDS \/ ReceiveEDS \/ Apply

AdsNext ==
    \/ \E c \in Cluster, value \in Service \cup {"bad", None} : EditCluster(c, value)
    \/ \E s \in Service, value \in Value \cup {"bad"} : EditEndpoints(s, value)
    \/ Steps \/ StreamBreaks \/ Stop

\* The server and the client's goroutines run; what is sent arrives or the stream breaks.
AdsFairness ==
    /\ WF_adsVars(RespondCDS) /\ WF_adsVars(RespondEDS) /\ WF_adsVars(connectADS)
    /\ WF_adsVars(ReceiveCDS \/ ReceiveEDS \/ Apply)

AdsSpec == AdsInit /\ [][AdsNext]_adsVars /\ AdsFairness

-----------------------------------------------------------------------------
(***************************************************************************)
(* What the gateway runs with is what the accepted clusters and endpoints  *)
(* make together, all along: no cluster that was removed, or whose service *)
(* changed, is served with endpoints of before, and a refused or lost      *)
(* answer leaves both as they were.                                        *)
(***************************************************************************)
RuntimeIsCache ==
    (stream # "closed") => runtime = convertCachedEDS(assignments, references)

(***************************************************************************)
(* Accepted endpoints are accepted ones of accepted clusters: nothing is   *)
(* kept of a service no cluster refers to, so that a cluster that refers   *)
(* to it again later does not start with endpoints of then.                *)
(***************************************************************************)
NoStaleAssignment == DOMAIN assignments \subseteq referenceNames(references)

(***************************************************************************)
(* In the end the gateway runs with the server's clusters and endpoints,   *)
(* if those are valid.                                                     *)
(***************************************************************************)
Valid ==
    /\ Decodes(cds) /\ Listed(cds) \cap Owned = {}
    /\ \A s \in Service : eds[s] # "bad"
AdsConverges ==
    <>[](\/ stream = "closed" \/ ~Valid
         \/ runtime = convertCachedEDS(eds, decodeCDSReferences(cds)))

\* The runtime is what the accepted clusters and endpoints make together, with
\* nothing kept of those that were given up.
CacheIsSound == RuntimeIsCache /\ NoStaleAssignment
=============================================================================
