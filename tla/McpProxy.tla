------------------------------ MODULE McpProxy ------------------------------
(***************************************************************************)
(* One request to POST /mcp (proxy_mcp in src/mcp_gateway/app.py), from    *)
(* the headers to the last byte of the response: the checks in their       *)
(* order, the upstream exchange, the tools/list filter, the streamed body  *)
(* and the audit records (src/mcp_gateway/audit.py).                       *)
(*                                                                         *)
(* The handler gives up the event loop only at its awaits, so each action  *)
(* is the code from one await to the next.  Between them the client may    *)
(* leave and the upstream may fail.  Requests share nothing here but the   *)
(* verifier, which JwksVerifier models.  Bytes come in chunks of one.      *)
(***************************************************************************)
EXTENDS Integers, Sequences

CONSTANTS
    RequestLimit,   \* max_request_bytes where it is enabled
    ResponseLimit,  \* max_response_bytes where it is enabled
    ListLimit       \* max_tools_list_bytes, which is always enabled

\* validate_runtime (src/mcp_gateway/config.py) insists on ListLimit < ResponseLimit.
ASSUME ProxyAssumption ==
    /\ RequestLimit \in Nat \ {0} /\ ResponseLimit \in Nat
    /\ ListLimit \in Nat \ {0} /\ ListLimit < ResponseLimit

VARIABLES
    settings,   \* the configuration the gateway was started with
    request,    \* what the client sends
    response,   \* what the upstream answers, once the connection is open
    pc,         \* the await the handler is at
    verified,   \* the token has been verified
    received,   \* bytes of the request read so far
    sent,       \* the request has been sent upstream
    conn,       \* the upstream connection: "none", "open" or "closed"
    got,        \* bytes of the response read so far
    counted,    \* sent of body_iter
    yielded,    \* bytes body_iter has passed on
    client,     \* "here" or "gone"
    reply,      \* what the client was told, "none" before
    ending,     \* how the client saw a relayed body end: "open" before it did
    log         \* the audit records emitted

vars == <<settings, request, response, pc, verified, received, sent, conn, got,
          counted, yielded, client, reply, ending, log>>

Settings == [auth : {"on", "off", "broken"},    \* broken: on without a verifier
             toolPolicy : BOOLEAN,              \* a tool policy is configured
             maxRequest : {0, RequestLimit}, maxResponse : {0, ResponseLimit}]

\* Bodies are at most one byte longer than the limit on them.
\* body is what _parse_jsonrpc makes of it: an error, an exception ("surrogate",
\* which cannot be encoded, or nesting too deep to be read), a tools/list, a
\* tools/call with or without a tool name, or another method.  entitled and
\* permitted are what ScopePolicy.check and ToolPolicy.check say; ascii, whether
\* the forwarded headers are ASCII.
Requests == [origin : {"absent", "listed", "foreign"},
             size : 0 .. RequestLimit + 1, declared : BOOLEAN,
             token : {"absent", "bad", "good"},
             body : {"malformed", "surrogate", "list", "call", "unnamed", "other"},
             entitled : BOOLEAN, permitted : BOOLEAN, ascii : BOOLEAN]

\* ok: status 200.  filterable: a result that filter_tools_list can rewrite.
Responses == [ok : BOOLEAN, json : BOOLEAN, filterable : BOOLEAN,
              size : 0 .. ResponseLimit + 1, declared : BOOLEAN]
NoResponse == [ok |-> FALSE, json |-> FALSE, filterable |-> FALSE,
               size |-> 0, declared |-> FALSE]

Init ==
    /\ settings \in Settings
    /\ request \in Requests
    /\ response = NoResponse
    /\ pc = "start"
    /\ verified = FALSE
    /\ received = 0 /\ got = 0 /\ counted = 0 /\ yielded = 0
    /\ sent = FALSE
    /\ conn = "none"
    /\ client = "here"
    /\ reply = "none"
    /\ ending = "open"
    /\ log = <<>>

-----------------------------------------------------------------------------
(* How a request ends before a body is relayed.                            *)

TooLarge(n) == settings.maxRequest > 0 /\ n > settings.maxRequest

Record(kind, says, bytes) == [kind |-> kind, says |-> says, bytes |-> bytes]

\* Set decision and error code, emit the record, and answer.
Conclude(decision, code) ==
    /\ pc' = "done"
    /\ reply' = code
    /\ log' = Append(log, Record("decision", decision, 0))

\* An exception the handler does not catch: a bare 500, and no record.
Crash ==
    /\ pc' = "done"
    /\ reply' = "internal_error"
    /\ UNCHANGED log

Continue(p) == pc' = p /\ UNCHANGED <<reply, log>>

relayVars == <<got, counted, yielded, ending>>
openVars  == <<response, sent, conn>>

-----------------------------------------------------------------------------
(* The request.                                                            *)

\* Steps 0a and 0b up to the first await: origin and declared length.
CheckHeaders ==
    /\ pc = "start"
    /\ IF request.origin = "foreign" THEN Conclude("rejected", "origin_not_allowed")
       ELSE IF request.declared /\ TooLarge(request.size)
            THEN Conclude("rejected", "payload_too_large")
       ELSE Continue("reading")
    /\ UNCHANGED <<settings, request, verified, received, client, openVars, relayVars>>

\* One chunk of the body; the limit is enforced as it arrives.
ReadChunk ==
    /\ pc = "reading" /\ received < request.size
    /\ received' = received + 1
    /\ IF TooLarge(received') THEN Conclude("rejected", "payload_too_large")
       ELSE Continue("reading")
    /\ UNCHANGED <<settings, request, verified, client, openVars, relayVars>>

\* request.stream() raises ClientDisconnect.
ReadAborted ==
    /\ pc = "reading" /\ received < request.size /\ client = "gone"
    /\ pc' = "done" /\ reply' = "aborted" /\ UNCHANGED log
    /\ UNCHANGED <<settings, request, verified, received, client, openVars, relayVars>>

\* Step 1 up to the call of verify in a worker thread.
Authenticate ==
    /\ pc = "reading" /\ received = request.size
    /\ IF settings.auth = "broken" THEN Conclude("error", "server_misconfigured")
       ELSE IF settings.auth = "off" THEN Continue("authorizing")
       ELSE IF request.token = "absent" THEN Conclude("rejected", "missing_token")
       ELSE Continue("verifying")
    /\ UNCHANGED <<settings, request, verified, received, client, openVars, relayVars>>

\* verify returns or raises TokenError; a good token fails when its key cannot
\* be had.  A bad one may name an algorithm that does not fit its key: PyJWT's
\* TypeError is caught neither by verify nor here.
Verify ==
    /\ pc = "verifying"
    /\ \/ /\ request.token = "good"
          /\ verified' = TRUE /\ Continue("authorizing")
       \/ verified' = FALSE /\ Conclude("rejected", "invalid_token")
       \/ request.token = "bad" /\ verified' = FALSE /\ Crash
    /\ UNCHANGED <<settings, request, received, client, openVars, relayVars>>

\* Fault: a tool call without a name is not refused.
AuthorizeUnnamed ==
    /\ pc = "authorizing"
    /\ IF request.body = "malformed" THEN Conclude("rejected", "invalid_request")
       ELSE IF request.body = "surrogate" THEN Crash
       ELSE IF ~request.entitled THEN Conclude("denied", "insufficient_scope")
       ELSE IF settings.toolPolicy /\ request.body = "call" /\ ~request.permitted
            THEN Conclude("denied", "tool_not_allowed")
       ELSE Continue("opening")
    /\ UNCHANGED <<settings, request, verified, received, client, openVars, relayVars>>

\* Steps 2 and 2b: parse, scope, tool.  Nothing is awaited here.
Authorize ==
    /\ pc = "authorizing"
    /\ LET toolCall == settings.toolPolicy /\ request.body \in {"call", "unnamed"} IN
       IF request.body = "malformed" THEN Conclude("rejected", "invalid_request")
       ELSE IF request.body = "surrogate" THEN Crash
       ELSE IF ~request.entitled THEN Conclude("denied", "insufficient_scope")
       ELSE IF toolCall /\ request.body = "unnamed"
            THEN Conclude("rejected", "invalid_tool_call")
       ELSE IF toolCall /\ ~request.permitted THEN Conclude("denied", "tool_not_allowed")
       ELSE Continue("opening")
    /\ UNCHANGED <<settings, request, verified, received, client, openVars, relayVars>>

-----------------------------------------------------------------------------
(* The upstream exchange.                                                  *)

OverCap(n) == settings.maxResponse > 0 /\ n > settings.maxResponse

MustFilter(r) == settings.toolPolicy /\ request.body = "list" /\ r.ok

\* The response is made, or its constructor raises on a header that httpx has
\* read as UTF-8 and that latin-1 cannot encode.
Make(p, code) == \/ pc' = p /\ reply' = code
                 \/ pc' = "done" /\ reply' = "internal_error"

\* Fault: the record waits until the body has ended.
RelaySilently ==
    /\ Make("relaying", "relayed") /\ conn' = "open"
    /\ UNCHANGED log

\* The response is allowed: the record, then the iterator.  When the response
\* cannot be made, the iterator never starts, and nobody closes the connection.
Relay ==
    /\ Make("relaying", "relayed") /\ conn' = "open"
    /\ log' = Append(log, Record("decision", "allowed", 0))

\* Faults: a tools/list that is not JSON is relayed as it is; the request is
\* recorded as allowed before the declared length is looked at.
DispatchJsonOnly(r) ==
    IF MustFilter(r) /\ r.json THEN Continue("filtering") /\ conn' = "open"
    ELSE IF r.declared /\ OverCap(r.size)
         THEN Conclude("rejected", "response_too_large") /\ conn' = "closed"
    ELSE Relay
DispatchAllowsFirst(r) ==
    IF MustFilter(r)
    THEN IF r.json THEN Continue("filtering") /\ conn' = "open"
         ELSE Conclude("rejected", "tools_list_error") /\ conn' = "closed"
    ELSE IF r.declared /\ OverCap(r.size)
         THEN Conclude("allowed", "response_too_large") /\ conn' = "closed"
    ELSE Relay

\* What follows the response headers: filter, refuse or start relaying.
\* The connection is closed in the same step where the code closes it.
Dispatch(r) ==
    IF MustFilter(r)
    THEN IF r.json THEN Continue("filtering") /\ conn' = "open"
         ELSE Conclude("rejected", "tools_list_error") /\ conn' = "closed"
    ELSE IF r.declared /\ OverCap(r.size)
         THEN Conclude("rejected", "response_too_large") /\ conn' = "closed"
    ELSE Relay

\* The request is sent.  A header that is not ASCII raises before it is.
Open ==
    /\ pc = "opening"
    /\ \/ ~request.ascii /\ Crash /\ UNCHANGED openVars
       \/ /\ request.ascii /\ sent' = TRUE /\ conn' = "closed"
          /\ Conclude("error", "bad_gateway") /\ UNCHANGED response
       \/ /\ request.ascii /\ sent' = TRUE
          /\ \E r \in Responses : response' = r /\ Dispatch(r)
    /\ UNCHANGED <<settings, request, verified, received, client, relayVars>>

\* Fault: the loop is left without closing the connection.
FilterReadLeak ==
    /\ pc = "filtering" /\ got < response.size
    /\ got' = got + 1
    /\ IF got' > ListLimit THEN Conclude("rejected", "tools_list_error")
       ELSE Continue("filtering")
    /\ UNCHANGED <<settings, request, response, verified, received, sent, client, conn,
                   counted, yielded, ending>>

\* The whole tools/list is read, within its limit, before it is rewritten.
FilterRead ==
    /\ pc = "filtering" /\ got < response.size
    /\ got' = got + 1
    /\ IF got' > ListLimit THEN Conclude("rejected", "tools_list_error") /\ conn' = "closed"
       ELSE Continue("filtering") /\ UNCHANGED conn
    /\ UNCHANGED <<settings, request, response, verified, received, sent, client,
                   counted, yielded, ending>>

\* The read fails, or the body is complete and filter_tools_list judges it, or
\* fails itself: it does not catch the RecursionError of a deeply nested list.
FilterEnd ==
    /\ pc = "filtering"
    /\ conn' = "closed"
    /\ \/ Conclude("rejected", "tools_list_error")
       \/ /\ got = response.size /\ response.filterable
          /\ log' = Append(log, Record("decision", "allowed", 0))
          /\ Make("done", "filtered")
       \/ got = response.size /\ Crash
    /\ UNCHANGED <<settings, request, response, verified, received, sent, client,
                   relayVars>>

-----------------------------------------------------------------------------
(* body_iter.                                                              *)

\* The finally block: close upstream, emit the second record.  When body_iter
\* just stops, StreamingResponse ends the body the normal way.
Leave(result, seen) ==
    /\ pc' = "done"
    /\ conn' = "closed"
    /\ ending' = seen
    /\ log' = Append(log, Record("stream", result, counted'))
    /\ UNCHANGED <<settings, request, response, verified, received, sent, client, reply>>

\* One chunk: count is the running total, stop says that it is over the cap.  A
\* chunk that is passed on is yielded: the iterator waits until the client has
\* room for it.
RelayWith(count, stop) ==
    /\ pc = "relaying" /\ got < response.size
    /\ got' = got + 1
    /\ counted' = count
    /\ IF stop
       THEN Leave("truncated_response_too_large", "clean") /\ UNCHANGED yielded
       ELSE /\ yielded' = yielded + 1 /\ pc' = "yielding"
            /\ UNCHANGED <<settings, request, response, verified, received, sent,
                           conn, client, reply, ending, log>>

Counted == IF settings.maxResponse > 0 THEN counted + 1 ELSE counted

\* Faults: the total is compared before the chunk is added to it; what the
\* upstream declared is counted, not what it sent.
RelayLate     == RelayWith(Counted, OverCap(counted))
RelayDeclared == RelayWith(counted + response.size, OverCap(counted + response.size))

\* Count the chunk when there is a cap, stop beyond it, else pass it on.
RelayChunk == RelayWith(Counted, OverCap(Counted))

\* yield returns: the client has read enough, or is gone.
Resume ==
    /\ pc = "yielding"
    /\ pc' = "relaying"
    /\ UNCHANGED <<settings, request, verified, received, client, reply, log,
                   openVars, relayVars>>

\* The upstream body ends.
RelayEnd ==
    /\ pc = "relaying" /\ got = response.size
    /\ UNCHANGED <<got, counted, yielded>>
    /\ Leave("completed", "clean")

\* Reading from upstream fails: HTTPError or StreamError, read timeouts too.
RelayFailed ==
    /\ pc = "relaying"
    /\ UNCHANGED <<got, counted, yielded>>
    /\ Leave("upstream_read_error", "clean")

\* Fault: "completed" is what result is set to at the start.
RelayCancelledCompleted ==
    /\ pc \in {"relaying", "yielding"} /\ client = "gone"
    /\ UNCHANGED <<got, counted, yielded>>
    /\ Leave("completed", "broken")

\* The server notices that the client has left and cancels the iterator.
RelayCancelled ==
    /\ pc \in {"relaying", "yielding"} /\ client = "gone"
    /\ UNCHANGED <<got, counted, yielded>>
    /\ Leave("client_disconnected", "broken")

ClientLeaves ==
    /\ client = "here" /\ pc # "done"
    /\ client' = "gone"
    /\ UNCHANGED <<settings, request, pc, verified, received, reply, log,
                   openVars, relayVars>>

\* Python's garbage collector closes what an exception has left behind.
Collect ==
    /\ reply = "internal_error" /\ conn = "open"
    /\ conn' = "closed"
    /\ UNCHANGED <<settings, request, response, pc, verified, received, sent, client,
                   reply, log, relayVars>>

\* What the gateway does once it has the request.
Handle ==
    \/ Authenticate \/ Verify \/ Authorize \/ Open \/ FilterRead \/ FilterEnd
    \/ RelayChunk \/ RelayEnd \/ RelayFailed \/ RelayCancelled

Next ==
    \/ CheckHeaders \/ ReadChunk \/ ReadAborted \/ Handle \/ Resume
    \/ ClientLeaves \/ Collect

\* verify returns (CallsReturn of JwksVerifier) and httpx bounds every wait on
\* the upstream; nothing bounds how long a client takes to send its body or to
\* read a chunk, or when garbage is collected.
Spec == Init /\ [][Next]_vars /\ WF_vars(Handle)

-----------------------------------------------------------------------------
(* Properties.                                                             *)

Stream(result) ==
    \E i \in DOMAIN log : log[i].kind = "stream" /\ log[i].says = result

\* Every variable keeps its type, and no more than is there is read or passed on.
ProxyTypeOK ==
    /\ settings \in Settings /\ request \in Requests /\ response \in Responses
    /\ pc \in {"start", "reading", "verifying", "authorizing", "opening",
               "filtering", "relaying", "yielding", "done"}
    /\ verified \in BOOLEAN /\ sent \in BOOLEAN
    /\ conn \in {"none", "open", "closed"} /\ client \in {"here", "gone"}
    /\ received \in 0 .. request.size
    /\ got \in 0 .. response.size /\ yielded \in 0 .. got /\ counted \in 0 .. got

\* Nothing reaches the upstream unless every check passed, in whatever state
\* the configuration is: origin, size, token, JSON, scope and tool
\* (app.py:236-398).
ForwardOnlyAuthorized ==
    sent =>
        /\ request.origin # "foreign" /\ ~TooLarge(request.size)
        /\ settings.auth = "off" \/ (settings.auth = "on" /\ verified /\ request.token = "good")
        /\ request.body \notin {"malformed", "surrogate"} /\ request.entitled
        /\ settings.toolPolicy /\ request.body \in {"call", "unnamed"}
             => request.body = "call" /\ request.permitted

\* With a tool policy, a successful tools/list body reaches the client only
\* rewritten, read to its end, and within the limit (app.py:400-479).
ListOnlyFiltered ==
    /\ reply = "relayed" => ~MustFilter(response)
    /\ reply = "filtered" => got = response.size /\ got <= ListLimit /\ response.filterable

\* No more than the cap is ever passed on to the client (app.py:484-495, 521-525).
CapHolds == settings.maxResponse > 0 => yielded <= settings.maxResponse

\* The audit trail tells what happened: one decision first, "allowed" exactly
\* when the client got something of the upstream's, and after a relayed body
\* one record of how it ended.  Where an exception took the answer away there is
\* no record, or only the one that allowed a response which could not be made
\* (app.py:446, 459-479, 497-551).
AuditTrail ==
    pc = "done" =>
        IF reply \in {"internal_error", "aborted"}
        THEN \/ log = <<>>
             \/ /\ reply = "internal_error" /\ sent /\ yielded = 0
                /\ log = <<Record("decision", "allowed", 0)>>
        ELSE /\ log[1].kind = "decision"
             /\ log[1].says = "allowed" <=> reply \in {"relayed", "filtered"}
             /\ Len(log) = IF reply = "relayed" THEN 2 ELSE 1
             /\ reply = "relayed" => log[2].kind = "stream"

\* The second record never lies about how the body ended, whoever stopped first
\* (app.py:514-541).
StreamResultTrue ==
    /\ Stream("completed") => yielded = response.size
    /\ Stream("truncated_response_too_large") => response.size > settings.maxResponse
    /\ Stream("client_disconnected") => client = "gone"

\* The client does not stay away from a chunk for ever without leaving.
ClientReads == []<>(pc # "yielding" \/ client = "gone")

\* A connection that an exception has left behind.
Stranded == conn = "open" /\ reply = "internal_error"

\* As long as its client reads or leaves, an upstream connection that was opened
\* is closed, unless the response to be relayed cannot be made
\* (app.py:385-398, 417, 440, 488, 543; 526 and 546 for the provisos).
ConnectionReleased == ClientReads => (conn = "open" ~> conn = "closed" \/ Stranded)

\* What the records say has been decided.
Decision ==
    IF log = <<>> THEN "none"
    ELSE IF log[1].says = "allowed" THEN "allowed" ELSE "refused"

Life == INSTANCE UpstreamExchange
            WITH decision <- Decision, passed <- yielded > 0 \/ reply = "filtered",
                 over <- pc = "done", crashed <- reply = "internal_error"

\* The request keeps what UpstreamExchange promises: nothing of the response goes
\* out before its decision is on record, and a connection is closed by the time
\* the request is over, or an exception has ended it (app.py:385-551).
ImplementsExchange == Life!Spec

\* "Every authorization decision the gateway makes emits one JSON line"
\* (audit.py:3), and the context "emits its record exactly once on exit"
\* (audit.py:95): a request that was read to its end leaves a record.
EveryRequestAudited == pc = "done" /\ reply # "aborted" => log # <<>>

\* "gateway stops and terminates the connection" (docs/THREAT-MODEL.md:117): a
\* client whose response was truncated does not see it end like a whole one.
TruncationTerminates == Stream("truncated_response_too_large") => ending # "clean"

\* The second record carries how many bytes were streamed (audit.py:112-124,
\* CHANGELOG.md:238-241): after a clean end, all that were passed on.
BytesStreamedTrue ==
    \A i \in DOMAIN log : log[i].says = "completed" => log[i].bytes = yielded

=============================================================================
