--------------------------- MODULE McpProxyProofs ---------------------------
(***************************************************************************)
(* Theorems about McpProxy for any limits and any sizes of bodies.         *)
(*                                                                         *)
(* The properties are proved together from IInv.  What makes them          *)
(* inductive is that each await tells which checks the handler has behind  *)
(* it (Checked), that nothing was said or recorded before it is reached    *)
(* (Silent), and what the one record says while a body is relayed.         *)
(***************************************************************************)
EXTENDS McpProxy, SequenceTheorems, TLAPS

Before  == {"start", "reading", "verifying", "authorizing", "opening"}
Relaying == {"relaying", "yielding"}
Answers  == {"relayed", "filtered", "internal_error", "aborted"}   \* not refusals
Allowed  == Record("decision", "allowed", 0)

\* What the handler has established by the time it reaches each await, and
\* once the request has been sent.
Checked ==
    /\ pc \in Before \ {"start"} \/ sent => request.origin # "foreign"
    /\ pc = "reading" => ~TooLarge(received)
    /\ pc \in {"verifying", "authorizing", "opening"} \/ sent => ~TooLarge(request.size)
    /\ pc = "verifying" => settings.auth = "on"
    /\ pc \in {"authorizing", "opening"} \/ sent =>
          \/ settings.auth = "off"
          \/ settings.auth = "on" /\ verified /\ request.token = "good"
    /\ pc = "opening" \/ sent =>
          /\ request.body \notin {"malformed", "surrogate"} /\ request.entitled
          /\ settings.toolPolicy /\ request.body \in {"call", "unnamed"}
               => request.body = "call" /\ request.permitted
    /\ pc \in Before => ~sent

\* Nothing has been answered, recorded or counted before its time.
Silent ==
    /\ pc \notin Relaying \cup {"done"} => reply = "none" /\ log = <<>>
    /\ pc \in Before \cup {"filtering"} => counted = 0 /\ yielded = 0
    /\ pc \in Before => got = 0
    /\ pc = "start" => received = 0

\* A list that is being read is one to be filtered, and within its limit; a body
\* that is being relayed is not, has its record, and is within the cap.
Exchange ==
    /\ pc = "filtering" => MustFilter(response) /\ got <= ListLimit /\ sent
    /\ pc \in Relaying => reply = "relayed" /\ log = <<Allowed>> /\ yielded = got
    /\ settings.maxResponse > 0 /\ pc \in Relaying => counted = got

\* What the records are once the request is over.
Recorded ==
    pc = "done" =>
        \/ log = <<>> /\ reply \in {"internal_error", "aborted"}
        \/ log = <<Allowed>> /\ reply = "internal_error" /\ sent /\ yielded = 0
        \/ \E says, bytes :
              /\ log = <<Record("decision", says, bytes)>>
              /\ says = "allowed" <=> reply = "filtered"
              /\ reply \notin {"relayed", "internal_error", "aborted"}
        \/ \E says, bytes :
              /\ log = <<Allowed, Record("stream", says, bytes)>>
              /\ reply = "relayed"
              /\ says = "completed" => yielded = response.size
              /\ says = "truncated_response_too_large" =>
                    response.size > settings.maxResponse
              /\ says = "client_disconnected" => client = "gone"

IInv ==
    /\ ProxyTypeOK
    /\ Checked
    /\ Silent
    /\ ListOnlyFiltered
    /\ CapHolds
    /\ Exchange
    /\ Recorded

-----------------------------------------------------------------------------
(* The initial states.                                                     *)

\* A request that has just arrived satisfies the invariant.
LEMMA InitIInv == Init => IInv
<1> SUFFICES ASSUME Init PROVE IInv
  OBVIOUS
<1>1. NoResponse \in Responses
  BY ProxyAssumption DEF NoResponse, Responses
<1>2. ProxyTypeOK
  <2>1. response.size = 0
    BY DEF Init, NoResponse
  <2>2. request.size \in 0 .. RequestLimit + 1
    BY DEF Init, Requests
  <2>3. 0 \in 0 .. 0 /\ 0 \in 0 .. request.size
    BY <2>2, ProxyAssumption
  <2>4. /\ received \in 0 .. request.size /\ got \in 0 .. response.size
        /\ yielded \in 0 .. got /\ counted \in 0 .. got
    BY <2>1, <2>3 DEF Init
  <2>5. settings \in Settings /\ request \in Requests /\ response \in Responses
    BY <1>1 DEF Init
  <2>. QED
    BY <2>4, <2>5 DEF Init, ProxyTypeOK
<1>3. Checked /\ Silent /\ Exchange /\ Recorded
  BY DEF Init, Checked, Silent, Exchange, Recorded, Before, Relaying
<1>4. ListOnlyFiltered
  BY DEF Init, ListOnlyFiltered
<1>5. CapHolds
  BY ProxyAssumption DEF Init, CapHolds, Settings
<1>. QED
  BY <1>2, <1>3, <1>4, <1>5 DEF IInv

-----------------------------------------------------------------------------
(* Each kind of step preserves the invariant.                              *)

\* The steps up to the upstream change only where the handler is, what it has
\* read and verified, and its answer; they refuse with one record that does not
\* say allowed, or go on in silence.
RequestStep ==
    CheckHeaders \/ ReadChunk \/ ReadAborted \/ Authenticate \/ Verify \/ Authorize

LEMMA RequestEffect ==
    ASSUME IInv, RequestStep
    PROVE  /\ pc \in Before /\ reply = "none" /\ log = <<>> /\ ~sent
           /\ counted = 0 /\ yielded = 0 /\ got = 0
           /\ UNCHANGED <<settings, request, client, response, sent, conn,
                          got, counted, yielded, ending>>
           /\ \/ pc' \in Before \ {"start"} /\ reply' = reply /\ log' = log
              \/ pc' = "done" /\ log' = log /\ reply' \in {"internal_error", "aborted"}
              \/ \E says, code :
                    /\ pc' = "done" /\ reply' = code /\ code \notin Answers
                    /\ says # "allowed" /\ log' = Append(log, Record("decision", says, 0))
<1> USE DEF IInv, RequestStep
<1>1. /\ pc \in Before /\ reply = "none" /\ log = <<>> /\ ~sent
      /\ counted = 0 /\ yielded = 0 /\ got = 0
  BY DEF CheckHeaders, ReadChunk, ReadAborted, Authenticate, Verify, Authorize,
         Checked, Silent, Before, Relaying
<1>2. UNCHANGED <<settings, request, client, response, sent, conn,
                  got, counted, yielded, ending>>
  BY DEF CheckHeaders, ReadChunk, ReadAborted, Authenticate, Verify, Authorize,
         openVars, relayVars
<1>3. \/ pc' \in Before \ {"start"} /\ reply' = reply /\ log' = log
      \/ pc' = "done" /\ log' = log /\ reply' \in {"internal_error", "aborted"}
      \/ \E says, code :
            /\ pc' = "done" /\ reply' = code /\ code \notin Answers
            /\ says # "allowed" /\ log' = Append(log, Record("decision", says, 0))
  BY DEF CheckHeaders, ReadChunk, ReadAborted, Authenticate, Verify, Authorize,
         Conclude, Continue, Crash, Before, Answers
<1>. QED
  BY <1>1, <1>2, <1>3

\* They preserve the invariant.
LEMMA RequestPreserves == ASSUME IInv, RequestStep PROVE IInv'
<1> USE DEF IInv, RequestStep
<1>0. /\ pc \in Before /\ reply = "none" /\ log = <<>> /\ ~sent
      /\ counted = 0 /\ yielded = 0 /\ got = 0
  BY RequestEffect
<1>1. UNCHANGED <<settings, request, client, response, sent, conn,
                  got, counted, yielded, ending>>
  BY RequestEffect
<1>2. \/ pc' \in Before \ {"start"} /\ reply' = reply /\ log' = log
      \/ pc' = "done" /\ log' = log /\ reply' \in {"internal_error", "aborted"}
      \/ \E says, code :
            /\ pc' = "done" /\ reply' = code /\ code \notin Answers
            /\ says # "allowed" /\ log' = Append(log, Record("decision", says, 0))
  BY RequestEffect
<1>3. received' \in 0 .. request.size /\ verified' \in BOOLEAN
  <2>1. request.size \in Nat /\ received \in 0 .. request.size /\ verified \in BOOLEAN
    BY ProxyAssumption DEF ProxyTypeOK, Requests
  <2>2. CASE ReadChunk
    BY <2>1, <2>2 DEF ReadChunk
  <2>3. CASE Verify
    BY <2>1, <2>3 DEF Verify
  <2>4. CASE CheckHeaders \/ ReadAborted \/ Authenticate \/ Authorize
    BY <2>1, <2>4 DEF CheckHeaders, ReadAborted, Authenticate, Authorize
  <2>. QED
    BY <2>2, <2>3, <2>4
<1>4. ProxyTypeOK'
  BY <1>1, <1>2, <1>3 DEF ProxyTypeOK, Before
<1>5. Checked'
  <2>1. settings.auth \in {"on", "off", "broken"}
    BY DEF ProxyTypeOK, Settings
  <2>2. CASE CheckHeaders
    <3>1. received = 0 => ~TooLarge(received)
      BY ProxyAssumption DEF TooLarge, ProxyTypeOK, Settings
    <3>. QED
      BY <1>0, <1>1, <2>2, <3>1
         DEF CheckHeaders, Conclude, Continue, Checked, Before, TooLarge, Silent
  <2>3. CASE ReadChunk
    BY <1>0, <1>1, <2>3
       DEF ReadChunk, Conclude, Continue, Checked, Before, TooLarge
  <2>4. CASE ReadAborted
    BY <1>0, <1>1, <2>4 DEF ReadAborted, Checked, Before
  <2>5. CASE Authenticate
    BY <1>0, <1>1, <2>1, <2>5
       DEF Authenticate, Conclude, Continue, Checked, Before, TooLarge
  <2>6. CASE Verify
    BY <1>0, <1>1, <2>6 DEF Verify, Conclude, Continue, Crash, Checked, Before, TooLarge
  <2>7. CASE Authorize
    BY <1>0, <1>1, <2>7
       DEF Authorize, Conclude, Continue, Crash, Checked, Before, TooLarge
  <2>. QED
    BY <2>2, <2>3, <2>4, <2>5, <2>6, <2>7
<1>6. Silent' /\ Exchange'
  BY <1>0, <1>1, <1>2 DEF Silent, Exchange, Before, Relaying
<1>7. ListOnlyFiltered'
  BY <1>0, <1>2 DEF ListOnlyFiltered, Answers
<1>8. CapHolds'
  BY <1>1 DEF CapHolds
<1>9. Recorded'
  BY <1>0, <1>2 DEF Recorded, Before, Answers
<1>. QED
  BY <1>4, <1>5, <1>6, <1>7, <1>8, <1>9

\* Sending the request and looking at the response headers.
LEMMA OpenStep == IInv /\ Open => IInv'
<1> SUFFICES ASSUME IInv, Open PROVE IInv'
  OBVIOUS
<1> USE DEF IInv
<1>0. /\ pc = "opening" /\ reply = "none" /\ log = <<>> /\ ~sent
      /\ counted = 0 /\ yielded = 0 /\ got = 0
  BY DEF Open, Checked, Silent, Before, Relaying
<1>1. UNCHANGED <<settings, request, verified, received, client,
                  got, counted, yielded, ending>>
  BY DEF Open, relayVars
<1>2. /\ response' \in Responses /\ sent' \in BOOLEAN
      /\ conn' \in {"none", "open", "closed"}
  BY DEF Open, openVars, ProxyTypeOK, Dispatch, Relay
<1>3. \/ pc' = "done" /\ log' = log /\ reply' = "internal_error"
      \/ \E says, code :
            /\ pc' = "done" /\ reply' = code /\ code \notin Answers
            /\ says # "allowed" /\ log' = Append(log, Record("decision", says, 0))
      \/ pc' = "filtering" /\ reply' = reply /\ log' = log /\ MustFilter(response') /\ sent'
      \/ /\ pc' = "relaying" /\ reply' = "relayed" /\ log' = Append(log, Allowed)
         /\ ~MustFilter(response')
      \/ /\ pc' = "done" /\ reply' = "internal_error" /\ log' = Append(log, Allowed)
         /\ sent'
  <2>1. CASE ~request.ascii /\ Crash
    BY <2>1 DEF Crash
  <2>2. CASE Conclude("error", "bad_gateway")
    BY <2>2 DEF Conclude, Answers
  <2>3. CASE sent' = TRUE /\ Dispatch(response')
    BY <2>3 DEF Dispatch, Relay, Make, Conclude, Continue, Allowed, Answers
  <2>. QED
    BY <2>1, <2>2, <2>3 DEF Open
<1>4. ProxyTypeOK'
  <2>1. 0 \in 0 .. response'.size
    BY <1>2, ProxyAssumption DEF Responses
  <2>. QED
    BY <1>0, <1>1, <1>2, <1>3, <2>1 DEF ProxyTypeOK
<1>5. Checked'
  BY <1>0, <1>1, <1>3 DEF Checked, Before, TooLarge
<1>6. Silent'
  BY <1>0, <1>1, <1>3 DEF Silent, Before, Relaying
<1>7. MustFilter(response)' <=> MustFilter(response')
  BY <1>1 DEF MustFilter
<1>8. Exchange'
  BY <1>0, <1>1, <1>3, <1>7, ProxyAssumption DEF Exchange, Relaying
<1>9. ListOnlyFiltered'
  BY <1>0, <1>3, <1>7 DEF ListOnlyFiltered, Answers
<1>10. CapHolds'
  BY <1>1 DEF CapHolds
<1>11. Recorded'
  BY <1>0, <1>1, <1>3 DEF Recorded, Answers, Allowed
<1>. QED
  BY <1>4, <1>5, <1>6, <1>8, <1>9, <1>10, <1>11

\* Reading a tools/list and deciding about it.
LEMMA FilterStep == IInv /\ (FilterRead \/ FilterEnd) => IInv'
<1> SUFFICES ASSUME IInv, FilterRead \/ FilterEnd PROVE IInv'
  OBVIOUS
<1> USE DEF IInv
<1>0. /\ pc = "filtering" /\ reply = "none" /\ log = <<>>
      /\ counted = 0 /\ yielded = 0 /\ MustFilter(response) /\ got <= ListLimit /\ sent
  BY DEF FilterRead, FilterEnd, Silent, Exchange, Before, Relaying
<1>1. UNCHANGED <<settings, request, response, verified, received, sent, client,
                  counted, yielded, ending>>
  BY DEF FilterRead, FilterEnd, relayVars
<1>2. \/ \E says, code :
            /\ pc' = "done" /\ reply' = code /\ code \notin Answers
            /\ says # "allowed" /\ log' = Append(log, Record("decision", says, 0))
      \/ /\ pc' = "done" /\ reply' = "filtered" /\ log' = Append(log, Allowed)
         /\ got' = response.size /\ response.filterable /\ got' <= ListLimit
      \/ /\ pc' = "done" /\ reply' = "internal_error"
         /\ log' = log \/ log' = Append(log, Allowed)
      \/ pc' = "filtering" /\ reply' = reply /\ log' = log /\ ~(got' > ListLimit)
  BY <1>0 DEF FilterRead, FilterEnd, Conclude, Continue, Crash, Make, Allowed, Answers, relayVars
<1>3. got' \in 0 .. response.size /\ got' \in Nat
  <2>1. response.size \in Nat /\ got \in 0 .. response.size
    BY ProxyAssumption DEF ProxyTypeOK, Responses
  <2>. QED
    BY <2>1 DEF FilterRead, FilterEnd, relayVars
<1>4. ProxyTypeOK'
  <2>1. conn' \in {"none", "open", "closed"}
    BY DEF FilterRead, FilterEnd, ProxyTypeOK
  <2>2. 0 \in 0 .. got'
    BY <1>3
  <2>. QED
    BY <1>0, <1>1, <1>2, <1>3, <2>1, <2>2 DEF ProxyTypeOK
<1>5. Checked'
  BY <1>0, <1>1, <1>2 DEF Checked, Before, TooLarge
<1>6. Silent'
  BY <1>0, <1>1, <1>2 DEF Silent, Before, Relaying
<1>7. MustFilter(response)'
  BY <1>0, <1>1 DEF MustFilter
<1>8. Exchange'
  BY <1>0, <1>1, <1>2, <1>3, <1>7, ProxyAssumption DEF Exchange, Relaying
<1>9. ListOnlyFiltered'
  BY <1>0, <1>1, <1>2 DEF ListOnlyFiltered, Answers
<1>10. CapHolds'
  BY <1>1 DEF CapHolds
<1>11. Recorded'
  BY <1>0, <1>1, <1>2 DEF Recorded, Allowed, Answers
<1>. QED
  BY <1>4, <1>5, <1>6, <1>8, <1>9, <1>10, <1>11

\* The second record goes after the first.
LEMMA SecondRecord ==
    ASSUME NEW a, NEW b
    PROVE  Append(<<a>>, b) = <<a, b>>
<1>1. <<a>> \in Seq({a, b}) /\ <<a, b>> \in Seq({a, b})
  OBVIOUS
<1>2. /\ Append(<<a>>, b) \in Seq({a, b}) /\ Len(Append(<<a>>, b)) = 2
      /\ Append(<<a>>, b)[1] = a /\ Append(<<a>>, b)[2] = b
  BY <1>1
<1>3. \A i \in 1 .. 2 : Append(<<a>>, b)[i] = <<a, b>>[i]
  BY <1>2
<1>. QED
  BY <1>1, <1>2, <1>3, SeqEqual

\* Relaying the body, chunk by chunk, to whichever of its four ends.
RelayStep == RelayChunk \/ Resume \/ RelayEnd \/ RelayFailed \/ RelayCancelled

\* A chunk is passed on, or the body ends with a record that tells the truth.
LEMMA RelayEffect ==
    ASSUME IInv, RelayStep
    PROVE  /\ pc \in Relaying /\ reply = "relayed" /\ log = <<Allowed>> /\ yielded = got
           /\ settings.maxResponse > 0 => counted = got
           /\ UNCHANGED <<settings, request, response, verified, received, sent, client, reply>>
           /\ \/ /\ pc' = "yielding" /\ log' = log /\ got' = got + 1 /\ got < response.size
                 /\ conn' = conn /\ yielded' = yielded + 1 /\ counted' = Counted
                 /\ ~OverCap(Counted)
              \/ /\ pc' = "relaying" /\ log' = log /\ conn' = conn
                 /\ got' = got /\ yielded' = yielded /\ counted' = counted
              \/ /\ pc' = "done" /\ conn' = "closed" /\ yielded' = yielded
                 /\ \/ got' = got /\ counted' = counted
                    \/ got' = got + 1 /\ got < response.size /\ counted' = Counted
                 /\ \E says, bytes :
                      /\ log' = <<Allowed, Record("stream", says, bytes)>>
                      /\ says = "completed" => yielded = response.size
                      /\ says = "truncated_response_too_large" =>
                            response.size > settings.maxResponse
                      /\ says = "client_disconnected" => client = "gone"
<1> USE DEF IInv, RelayStep
<1>0. /\ pc \in Relaying /\ reply = "relayed" /\ log = <<Allowed>> /\ yielded = got
      /\ settings.maxResponse > 0 => counted = got
  BY DEF RelayChunk, RelayWith, Resume, RelayEnd, RelayFailed, RelayCancelled, Exchange, Relaying
<1>1. UNCHANGED <<settings, request, response, verified, received, sent, client, reply>>
  BY DEF RelayChunk, RelayWith, Resume, RelayEnd, RelayFailed, RelayCancelled, Leave, openVars
<1>2. /\ settings.maxResponse \in Nat /\ response.size \in Nat
      /\ got \in 0 .. response.size /\ counted \in 0 .. got
  BY ProxyAssumption DEF ProxyTypeOK, Settings, Responses
<1>4. \/ /\ pc' = "yielding" /\ log' = log /\ got' = got + 1 /\ got < response.size
         /\ conn' = conn /\ yielded' = yielded + 1 /\ counted' = Counted
         /\ ~OverCap(Counted)
      \/ /\ pc' = "relaying" /\ log' = log /\ conn' = conn
         /\ got' = got /\ yielded' = yielded /\ counted' = counted
      \/ /\ pc' = "done" /\ conn' = "closed" /\ yielded' = yielded
         /\ \/ got' = got /\ counted' = counted
            \/ got' = got + 1 /\ got < response.size /\ counted' = Counted
         /\ \E says, bytes :
              /\ log' = <<Allowed, Record("stream", says, bytes)>>
              /\ says = "completed" => yielded = response.size
              /\ says = "truncated_response_too_large" =>
                    response.size > settings.maxResponse
              /\ says = "client_disconnected" => client = "gone"
  <2>1. CASE RelayChunk /\ ~OverCap(Counted)
    BY <2>1 DEF RelayChunk, RelayWith
  <2>2. CASE RelayChunk /\ OverCap(Counted)
    <3>1. response.size > settings.maxResponse
      BY <1>0, <1>2, <2>2 DEF RelayChunk, RelayWith, OverCap, Counted
    <3>. QED
      BY <1>0, <2>2, <3>1 DEF RelayChunk, RelayWith, Leave
  <2>3. CASE RelayEnd
    <3>1. log' = <<Allowed, Record("stream", "completed", counted')>> /\ yielded = response.size
      BY <1>0, <2>3, SecondRecord DEF RelayEnd, Leave
    <3>2. /\ pc' = "done" /\ conn' = "closed" /\ yielded' = yielded
          /\ got' = got /\ counted' = counted
      BY <2>3 DEF RelayEnd, Leave
    <3>. QED
      BY <3>1, <3>2
  <2>4. CASE RelayFailed
    <3>1. log' = <<Allowed, Record("stream", "upstream_read_error", counted')>>
      BY <1>0, <2>4, SecondRecord DEF RelayFailed, Leave
    <3>2. /\ pc' = "done" /\ conn' = "closed" /\ yielded' = yielded
          /\ got' = got /\ counted' = counted
      BY <2>4 DEF RelayFailed, Leave
    <3>. QED
      BY <3>1, <3>2
  <2>5. CASE RelayCancelled
    <3>1. log' = <<Allowed, Record("stream", "client_disconnected", counted')>> /\ client = "gone"
      BY <1>0, <2>5, SecondRecord DEF RelayCancelled, Leave
    <3>2. /\ pc' = "done" /\ conn' = "closed" /\ yielded' = yielded
          /\ got' = got /\ counted' = counted
      BY <2>5 DEF RelayCancelled, Leave
    <3>. QED
      BY <3>1, <3>2
  <2>6. CASE Resume
    BY <2>6 DEF Resume, openVars, relayVars
  <2>. QED
    BY <2>1, <2>2, <2>3, <2>4, <2>5, <2>6
<1>. QED
  BY <1>0, <1>1, <1>4

\* It preserves the invariant.
LEMMA RelayPreserves == ASSUME IInv, RelayStep PROVE IInv'
<1> USE DEF IInv
<1>0. /\ pc \in Relaying /\ reply = "relayed" /\ log = <<Allowed>> /\ yielded = got
      /\ settings.maxResponse > 0 => counted = got
  BY RelayEffect
<1>1. UNCHANGED <<settings, request, response, verified, received, sent, client, reply>>
  BY RelayEffect
<1>2. /\ settings.maxResponse \in Nat /\ response.size \in Nat
      /\ got \in 0 .. response.size /\ counted \in 0 .. got
  BY ProxyAssumption DEF ProxyTypeOK, Settings, Responses
<1>3. \/ /\ pc' = "yielding" /\ log' = log /\ got' = got + 1 /\ got < response.size
         /\ conn' = conn /\ yielded' = yielded + 1 /\ counted' = Counted
         /\ ~OverCap(Counted)
      \/ /\ pc' = "relaying" /\ log' = log /\ conn' = conn
         /\ got' = got /\ yielded' = yielded /\ counted' = counted
      \/ /\ pc' = "done" /\ conn' = "closed" /\ yielded' = yielded
         /\ \/ got' = got /\ counted' = counted
            \/ got' = got + 1 /\ got < response.size /\ counted' = Counted
         /\ \E says, bytes :
              /\ log' = <<Allowed, Record("stream", says, bytes)>>
              /\ says = "completed" => yielded = response.size
              /\ says = "truncated_response_too_large" =>
                    response.size > settings.maxResponse
              /\ says = "client_disconnected" => client = "gone"
  BY RelayEffect
<1>4. /\ got' \in 0 .. response.size /\ yielded' \in 0 .. got' /\ counted' \in 0 .. got'
  BY <1>0, <1>2, <1>3 DEF Counted
<1>5. ProxyTypeOK'
  BY <1>1, <1>3, <1>4 DEF ProxyTypeOK
<1>6. Checked'
  BY <1>0, <1>1, <1>3 DEF Checked, Before, TooLarge
<1>7. Silent'
  BY <1>0, <1>3 DEF Silent, Before, Relaying
<1>8. Exchange'
  BY <1>0, <1>1, <1>2, <1>3 DEF Exchange, Counted, Relaying
<1>9. ListOnlyFiltered'
  BY <1>0, <1>1 DEF ListOnlyFiltered, MustFilter
<1>10. CapHolds'
  BY <1>0, <1>1, <1>2, <1>3 DEF CapHolds, OverCap, Counted
<1>11. Recorded'
  BY <1>0, <1>1, <1>3 DEF Recorded
<1>. QED
  BY <1>5, <1>6, <1>7, <1>8, <1>9, <1>10, <1>11

\* The client leaves, garbage is collected, or nothing happens.
LEMMA OtherStep == IInv /\ (ClientLeaves \/ Collect \/ UNCHANGED vars) => IInv'
  BY DEF IInv, ClientLeaves, Collect, vars, openVars, relayVars, ProxyTypeOK, Checked, Silent,
         ListOnlyFiltered, CapHolds, Exchange, Recorded, TooLarge, MustFilter, Before, Relaying

-----------------------------------------------------------------------------
(* The theorems.                                                           *)

\* The invariant holds in every reachable state.
THEOREM Invariance == Spec => []IInv
<1>1. IInv /\ [Next]_vars => IInv'
  BY RequestPreserves, OpenStep, FilterStep, RelayPreserves, OtherStep
  DEF Next, Handle, RequestStep, RelayStep
<1>. QED
  BY <1>1, InitIInv, PTL DEF Spec

\* Every variable of the handler keeps its type, and nothing is read or passed on
\* that was not there (app.py:223-551).
THEOREM TypeCorrect == Spec => []ProxyTypeOK
  BY Invariance, PTL DEF IInv

\* Whatever the configuration and the request, nothing is sent to the upstream
\* that has not passed every check (app.py:236-398).
THEOREM ForwardOnlyAuthorizedHolds == Spec => []ForwardOnlyAuthorized
<1>1. IInv => ForwardOnlyAuthorized
  BY DEF IInv, Checked, ForwardOnlyAuthorized
<1>. QED
  BY <1>1, Invariance, PTL

\* A tools/list reaches the client of a gateway with a tool policy only
\* rewritten (app.py:400-479).
THEOREM ListOnlyFilteredHolds == Spec => []ListOnlyFiltered
  BY Invariance, PTL DEF IInv

\* The response cap holds for every cap and every length of body
\* (app.py:484-525).
THEOREM CapHoldsAlways == Spec => []CapHolds
  BY Invariance, PTL DEF IInv

\* One decision, "allowed" exactly when something of the upstream's is passed on,
\* and one record of how a relayed body ended; and after an exception no record, or
\* the one that allowed what could not be made (app.py:446, 459-479, 497-551).
THEOREM AuditTrailHolds == Spec => []AuditTrail
<1>1. IInv => AuditTrail
  BY DEF IInv, Recorded, AuditTrail, Record, Allowed
<1>. QED
  BY <1>1, Invariance, PTL

\* The record of how a body ended does not lie (app.py:514-541).
THEOREM StreamResultTrueHolds == Spec => []StreamResultTrue
<1>1. IInv => StreamResultTrue
  BY DEF IInv, Silent, Exchange, Recorded, StreamResultTrue, Stream, Record, Allowed,
         ProxyTypeOK, Relaying
<1>. QED
  BY <1>1, Invariance, PTL

-----------------------------------------------------------------------------
(* The refinement.                                                         *)

\* The connection is not there before the request is sent and open while its
\* response is read.
Opened ==
    /\ pc \in Before => conn = "none"
    /\ pc \in Relaying \cup {"filtering"} => conn = "open"

\* A response that was held back is settled as the client is told.
LEMMA FilterEffect ==
    ASSUME IInv, FilterRead \/ FilterEnd
    PROVE  /\ pc = "filtering" /\ reply = "none" /\ log = <<>>
           /\ yielded = 0 /\ yielded' = yielded
           /\ \/ pc' = pc /\ reply' = reply /\ log' = log /\ conn' = conn
              \/ \E says, code :
                    /\ pc' = "done" /\ conn' = "closed" /\ reply' = code
                    /\ says = "allowed" <=> code = "filtered"
                    /\ code # "internal_error"
                    /\ log' = Append(log, Record("decision", says, 0))
              \/ /\ pc' = "done" /\ conn' = "closed" /\ reply' = "internal_error"
                 /\ log' = log \/ log' = Append(log, Allowed)
<1>1. pc = "filtering" /\ reply = "none" /\ log = <<>> /\ yielded = 0 /\ yielded' = yielded
  BY DEF FilterRead, FilterEnd, IInv, Silent, Before, Relaying, relayVars
<1>2. CASE FilterRead
  BY <1>1, <1>2 DEF FilterRead, Conclude, Continue
<1>3. CASE FilterEnd
  BY <1>1, <1>3 DEF FilterEnd, Conclude, Crash, Make, Allowed
<1>. QED
  BY <1>1, <1>2, <1>3

\* How sending the request ends.
LEMMA OpenEffect ==
    ASSUME IInv, Open
    PROVE  /\ pc = "opening" /\ reply = "none" /\ log = <<>>
           /\ yielded = 0 /\ yielded' = yielded
           /\ \/ pc' = "done" /\ reply' = "internal_error" /\ log' = log /\ conn' = conn
              \/ \E says, code :
                    /\ pc' = "done" /\ conn' = "closed"
                    /\ reply' = code /\ code \notin Answers
                    /\ says # "allowed" /\ log' = Append(log, Record("decision", says, 0))
              \/ pc' = "filtering" /\ reply' = reply /\ log' = log /\ conn' = "open"
              \/ /\ pc' = "relaying" /\ reply' = "relayed" /\ conn' = "open"
                 /\ log' = Append(log, Allowed)
              \/ /\ pc' = "done" /\ reply' = "internal_error" /\ conn' = "open"
                 /\ log' = Append(log, Allowed)
<1>1. /\ pc = "opening" /\ reply = "none" /\ log = <<>> /\ yielded = 0 /\ yielded' = yielded
  BY DEF Open, IInv, Silent, Before, Relaying, relayVars
<1>2. CASE ~request.ascii /\ Crash /\ UNCHANGED openVars
  BY <1>1, <1>2 DEF Crash, openVars
<1>3. CASE conn' = "closed" /\ Conclude("error", "bad_gateway")
  BY <1>1, <1>3 DEF Conclude, Answers
<1>4. ASSUME NEW r, Dispatch(r)
      PROVE  \/ \E says, code :
                    /\ pc' = "done" /\ conn' = "closed"
                    /\ reply' = code /\ code \notin Answers
                    /\ says # "allowed" /\ log' = Append(log, Record("decision", says, 0))
             \/ pc' = "filtering" /\ reply' = reply /\ log' = log /\ conn' = "open"
             \/ /\ pc' = "relaying" /\ reply' = "relayed" /\ conn' = "open"
                /\ log' = Append(log, Allowed)
             \/ /\ pc' = "done" /\ reply' = "internal_error" /\ conn' = "open"
                /\ log' = Append(log, Allowed)
  BY <1>4 DEF Dispatch, Relay, Make, Conclude, Continue, Allowed, Answers
<1>. QED
  BY <1>1, <1>2, <1>3, <1>4 DEF Open

LEMMA OpenedStep == ASSUME IInv, Opened, [Next]_vars PROVE Opened'
<1>1. CASE RequestStep
  BY <1>1, RequestEffect DEF Opened, Before, Relaying
<1>2. CASE Open
  BY <1>2, OpenEffect DEF Opened, Before, Relaying
<1>3. CASE FilterRead \/ FilterEnd
  BY <1>3, FilterEffect DEF Opened, Before, Relaying
<1>4. CASE RelayStep
  BY <1>4, RelayEffect DEF Opened, Before, Relaying
<1>5. CASE ClientLeaves \/ UNCHANGED vars
  BY <1>5 DEF Opened, ClientLeaves, openVars, vars
<1>6. CASE Collect
  BY <1>6 DEF Opened, Collect, IInv, Silent, Exchange, Before, Relaying
<1>. QED
  BY <1>1, <1>2, <1>3, <1>4, <1>5, <1>6 DEF Next, Handle, RequestStep, RelayStep

\* What the first record says has been decided.
LEMMA DecisionOfRecord ==
    ASSUME NEW says, log = <<>>, log' = Append(log, Record("decision", says, 0))
    PROVE  Decision' = IF says = "allowed" THEN "allowed" ELSE "refused"
<1>1. log' = <<Record("decision", says, 0)>>
  OBVIOUS
<1>2. log' # <<>> /\ log'[1].says = says
  BY <1>1 DEF Record
<1>. QED
  BY <1>2 DEF Decision

\* Every step of the handler is a step of the exchange or invisible to it.
LEMMA RefinesNext ==
    ASSUME IInv, Opened, [Next]_vars
    PROVE  [Life!Next]_(Life!vars)
<1> DEFINE Passed == yielded > 0 \/ reply = "filtered"
<1>1. CASE RequestStep
  <2>1. /\ pc \in Before /\ reply = "none" /\ log = <<>> /\ yielded = 0 /\ conn = "none"
        /\ yielded' = yielded /\ conn' = conn
    BY <1>1, RequestEffect DEF Opened
  <2>2. Decision = "none" /\ ~Passed /\ pc # "done"
    BY <2>1 DEF Decision, Before
  <2>3. CASE pc' \in Before /\ reply' = reply /\ log' = log
    BY <2>1, <2>2, <2>3 DEF Decision, Before, Life!vars
  <2>4. CASE pc' = "done" /\ log' = log /\ reply' \in {"internal_error", "aborted"}
    <3>1. Decision' = "none" /\ ~Passed'
      BY <2>1, <2>4 DEF Decision
    <3>2. Life!End \/ Life!Break
      BY <2>1, <2>2, <2>4, <3>1 DEF Life!End, Life!Break
    <3>. QED
      BY <3>2 DEF Life!Next
  <2>5. ASSUME NEW says, NEW code,
               pc' = "done" /\ reply' = code /\ code \notin Answers,
               says # "allowed" /\ log' = Append(log, Record("decision", says, 0))
        PROVE  Life!End
    <3>1. Decision' = "refused" /\ ~Passed'
      BY <2>1, <2>5, DecisionOfRecord DEF Answers
    <3>. QED
      BY <2>1, <2>2, <2>5, <3>1 DEF Life!End, Answers
  <2>. QED
    BY <1>1, RequestEffect, <2>3, <2>4, <2>5 DEF Life!Next
<1>2. CASE Open
  <2>1. /\ pc = "opening" /\ reply = "none" /\ log = <<>> /\ conn = "none"
        /\ yielded = 0 /\ yielded' = yielded
    BY <1>2, OpenEffect DEF Opened, Before
  <2>2. Decision = "none" /\ ~Passed /\ pc # "done"
    BY <2>1 DEF Decision
  <2>3. CASE pc' = "done" /\ reply' = "internal_error" /\ log' = log /\ conn' = conn
    <3>1. Decision' = "none" /\ ~Passed'
      BY <2>1, <2>3 DEF Decision
    <3>. QED
      BY <2>1, <2>2, <2>3, <3>1 DEF Life!Break, Life!Next
  <2>4. ASSUME NEW says, NEW code,
               pc' = "done" /\ conn' = "closed",
               reply' = code /\ code \notin Answers,
               says # "allowed" /\ log' = Append(log, Record("decision", says, 0))
        PROVE  Life!End
    <3>1. Decision' = "refused" /\ ~Passed'
      BY <2>1, <2>4, DecisionOfRecord DEF Answers
    <3>. QED
      BY <2>1, <2>2, <2>4, <3>1 DEF Life!End, Answers
  <2>5. CASE pc' = "filtering" /\ reply' = reply /\ log' = log /\ conn' = "open"
    <3>1. Decision' = "none" /\ ~Passed' /\ pc' # "done"
      BY <2>1, <2>5 DEF Decision
    <3>. QED
      BY <2>1, <2>2, <2>5, <3>1 DEF Life!Begin, Life!Next
  <2>6. CASE /\ pc' = "relaying" /\ reply' = "relayed" /\ conn' = "open"
             /\ log' = Append(log, Allowed)
    <3>1. Decision' = "allowed" /\ ~Passed' /\ pc' # "done"
      BY <2>1, <2>6, DecisionOfRecord DEF Allowed
    <3>. QED
      BY <2>1, <2>2, <2>6, <3>1 DEF Life!Begin, Life!Next
  <2>7. CASE /\ pc' = "done" /\ reply' = "internal_error" /\ conn' = "open"
             /\ log' = Append(log, Allowed)
    <3>1. Decision' = "allowed" /\ ~Passed'
      BY <2>1, <2>7, DecisionOfRecord DEF Allowed
    <3>. QED
      BY <2>1, <2>2, <2>7, <3>1 DEF Life!Break, Life!Next
  <2>. QED
    BY <1>2, OpenEffect, <2>3, <2>4, <2>5, <2>6, <2>7 DEF Life!Next
<1>3. CASE FilterRead \/ FilterEnd
  <2>1. /\ pc = "filtering" /\ reply = "none" /\ log = <<>> /\ conn = "open"
        /\ yielded = 0 /\ yielded' = yielded
    BY <1>3, FilterEffect DEF Opened
  <2>2. Decision = "none" /\ ~Passed /\ pc # "done"
    BY <2>1 DEF Decision
  <2>3. CASE pc' = pc /\ reply' = reply /\ log' = log /\ conn' = conn
    BY <2>1, <2>3 DEF Decision, Life!vars
  <2>4. ASSUME NEW says, NEW code,
               pc' = "done" /\ conn' = "closed" /\ reply' = code,
               says = "allowed" <=> code = "filtered", code # "internal_error",
               log' = Append(log, Record("decision", says, 0))
        PROVE  Life!Settle
    <3>1. Decision' = IF says = "allowed" THEN "allowed" ELSE "refused"
      BY <2>1, <2>4, DecisionOfRecord
    <3>2. Passed' <=> Decision' = "allowed"
      BY <2>1, <2>4, <3>1
    <3>3. Decision' \in {"allowed", "refused"}
      BY <3>1
    <3>. QED
      BY <2>1, <2>2, <2>4, <3>2, <3>3 DEF Life!Settle
  <2>5. CASE /\ pc' = "done" /\ conn' = "closed" /\ reply' = "internal_error"
             /\ log' = log \/ log' = Append(log, Allowed)
    <3>1. Decision' \in {"none", "allowed"} /\ ~Passed'
      <4>1. CASE log' = log
        BY <2>1, <2>5, <4>1 DEF Decision
      <4>2. CASE log' = Append(log, Allowed)
        BY <2>1, <2>5, <4>2, DecisionOfRecord DEF Allowed
      <4>. QED
        BY <2>1, <2>5, <4>1, <4>2
    <3>. QED
      BY <2>1, <2>2, <2>5, <3>1 DEF Life!Break, Life!Next
  <2>. QED
    BY <1>3, FilterEffect, <2>3, <2>4, <2>5 DEF Life!Next
<1>4. CASE RelayStep
  <2>1. /\ pc \in Relaying /\ reply = "relayed" /\ log = <<Allowed>> /\ conn = "open"
        /\ reply' = reply
    BY <1>4, RelayEffect DEF Opened
  <2>2. yielded \in Nat
    BY ProxyAssumption DEF IInv, ProxyTypeOK, Responses
  <2>3. Decision = "allowed" /\ pc # "done"
    BY <2>1 DEF Decision, Allowed, Record, Relaying
  <2>4. CASE pc' = "yielding" /\ log' = log /\ conn' = conn /\ yielded' = yielded + 1
    <3>1. Decision' = Decision /\ Passed'
      BY <2>2, <2>4 DEF Decision
    <3>. QED
      BY <2>1, <2>3, <2>4, <3>1 DEF Life!Pass, Life!Next
  <2>5. ASSUME NEW says, NEW bytes,
               pc' = "done" /\ conn' = "closed" /\ yielded' = yielded,
               log' = <<Allowed, Record("stream", says, bytes)>>
        PROVE  Life!Finish
    <3>1. Decision' = "allowed"
      BY <2>5 DEF Decision, Allowed, Record
    <3>2. Passed' <=> Passed
      BY <2>1, <2>5
    <3>. QED
      BY <2>1, <2>3, <2>5, <3>1, <3>2 DEF Life!Finish
  <2>6. CASE pc' = "relaying" /\ log' = log /\ conn' = conn /\ yielded' = yielded
    BY <2>1, <2>3, <2>6 DEF Decision, Life!vars
  <2>. QED
    BY <1>4, RelayEffect, <2>4, <2>5, <2>6 DEF Life!Next
<1>5. CASE ClientLeaves \/ UNCHANGED vars
  BY <1>5 DEF ClientLeaves, openVars, relayVars, vars, Decision, Life!vars
<1>6. CASE Collect
  <2>1. UNCHANGED <<Decision, yielded, reply, pc>>
    BY <1>6 DEF Collect, relayVars, Decision
  <2>. QED
    BY <1>6, <2>1 DEF Collect, Life!Collect, Life!Next
<1>. QED
  BY <1>1, <1>2, <1>3, <1>4, <1>5, <1>6 DEF Next, Handle, RequestStep, RelayStep

\* Whatever the limits, a request keeps what UpstreamExchange promises: nothing
\* of a response is passed on before its decision is recorded or after a refusal,
\* and the connection is closed when the request is over, or an exception has ended
\* it (app.py:385-551).
THEOREM ExchangeRefined == Spec => ImplementsExchange
<1>1. Init => Opened
  BY DEF Init, Opened, Relaying, Before
<1>2. Init => Life!Init
  BY DEF Init, Life!Init, Decision
<1>3. IInv /\ Opened /\ [Next]_vars => Opened'
  BY OpenedStep
<1>4. IInv /\ Opened /\ [Next]_vars => [Life!Next]_(Life!vars)
  BY RefinesNext
<1>. QED
  BY <1>1, <1>2, <1>3, <1>4, Invariance, PTL DEF Spec, ImplementsExchange, Life!Spec

=============================================================================
