---------------------------- MODULE UpstreamPool ----------------------------
(***************************************************************************)
(* Authorised requests on their way to the upstream: create_app gives the  *)
(* gateway one httpx client, whose connections are limited, and a timeout  *)
(* for each thing a request may have to wait for (_build_timeout); a       *)
(* request that finds no free connection stands in line, first come first  *)
(* served (src/mcp_gateway/app.py).  A response may be a stream that never *)
(* ends, and keeps its connection.                                         *)
(*                                                                         *)
(* What a request does once it has a connection is what McpProxy has in    *)
(* detail; the checks before it are over.  The pool is httpx's, modelled   *)
(* by what proxy_mcp relies on: a connection that is given back goes to    *)
(* the head of the line at once.                                           *)
(***************************************************************************)
EXTENDS Integers, Sequences, SequencesExt

CONSTANTS
    Senders,        \* bound: the requests that ever arrive
    Connections,    \* max_connections of the client
    Free,           \* whom a free connection belongs to
    Unset,          \* a timeout that is not configured
    Base            \* upstream_timeout, in ticks

VARIABLES
    poolTimeout,    \* pool_timeout of the settings
    stage,          \* what each request is doing
    line,           \* requests without a connection, in order
    stood,          \* how long each has stood in line
    holder,         \* whose each connection is
    decision,       \* what has been recorded of each request
    passed          \* requests of whose response something was passed on

senderVars == <<poolTimeout, stage, line, stood, holder, decision, passed>>

\* crashed is over by an exception; stranded is that too, with the connection
\* still held.
Ended  == {"over", "crashed", "stranded"}
Stages == {"before", "waiting", "asking", "held", "relaying"} \cup Ended

SendersInit ==
    /\ poolTimeout \in {Unset, Base - 1}
    /\ stage = [r \in Senders |-> "before"]
    /\ line = <<>>
    /\ stood = [r \in Senders |-> 0]
    /\ holder = [c \in Connections |-> Free]
    /\ decision = [r \in Senders |-> "none"]
    /\ passed = {}

\* _build_timeout: what is not configured falls back on upstream_timeout.
BuildTimeout == IF poolTimeout = Unset THEN Base ELSE poolTimeout

Move(r, s) == stage' = [stage EXCEPT ![r] = s]
Note(r, d) == decision' = [decision EXCEPT ![r] = d]

-----------------------------------------------------------------------------

\* client.stream: a free connection, or the end of the line.
Send(r) ==
    /\ stage[r] = "before"
    /\ IF \E c \in Connections : holder[c] = Free
       THEN /\ \E c \in Connections :
                  holder[c] = Free /\ holder' = [holder EXCEPT ![c] = r]
            /\ Move(r, "asking") /\ UNCHANGED line
       ELSE Move(r, "waiting") /\ line' = Append(line, r) /\ UNCHANGED holder
    /\ UNCHANGED <<poolTimeout, stood, decision, passed>>

\* Fault: only a configured pool_timeout bounds the wait.
TimeOutConfigured(r) ==
    /\ stage[r] = "waiting" /\ stood[r] = poolTimeout
    /\ Move(r, "over") /\ Note(r, "refused")
    /\ \E i \in DOMAIN line : line[i] = r /\ line' = RemoveAt(line, i)
    /\ UNCHANGED <<poolTimeout, stood, holder, passed>>

\* PoolTimeout is a RequestError: bad_gateway.
TimeOut(r) ==
    /\ stage[r] = "waiting" /\ stood[r] = BuildTimeout
    /\ Move(r, "over") /\ Note(r, "refused")
    /\ \E i \in DOMAIN line : line[i] = r /\ line' = RemoveAt(line, i)
    /\ UNCHANGED <<poolTimeout, stood, holder, passed>>

\* Fault: a relayed response leaves no record of its decision.
AnswerUnrecorded(r) ==
    /\ stage[r] = "asking"
    /\ Move(r, "relaying") \/ Move(r, "held")
    /\ UNCHANGED <<poolTimeout, line, stood, holder, decision, passed>>

\* The response headers arrive: the body is relayed, or held back to be filtered.
\* Where the response to be relayed cannot be made, the exception leaves the
\* connection behind.
Answer(r) ==
    /\ stage[r] = "asking"
    /\ \/ (Move(r, "relaying") \/ Move(r, "stranded")) /\ Note(r, "allowed")
       \/ Move(r, "held") /\ UNCHANGED decision
    /\ UNCHANGED <<poolTimeout, line, stood, holder, passed>>

\* r has ended as s; its connection goes to the head of the line.
ReleaseAs(r, s) ==
    /\ holder' = [c \in Connections |->
                    IF holder[c] # r THEN holder[c]
                    ELSE IF line = <<>> THEN Free ELSE Head(line)]
    /\ stage' = [q \in Senders |->
                    IF q = r THEN s
                    ELSE IF line # <<>> /\ q = Head(line) THEN "asking"
                    ELSE stage[q]]
    /\ line' = IF line = <<>> THEN line ELSE Tail(line)

Release(r) == ReleaseAs(r, "over")

\* Connecting, writing or reading the headers fails or times out, or the
\* declared length is over the cap.
Refuse(r) ==
    /\ stage[r] = "asking"
    /\ Release(r) /\ Note(r, "refused")
    /\ UNCHANGED <<poolTimeout, stood, passed>>

\* Faults: the exit of the stream is missing where a list cannot be filtered.
SettleLeaking(r) ==
    /\ stage[r] = "held"
    /\ \/ Release(r) /\ Note(r, "allowed") /\ passed' = passed \cup {r}
       \/ Move(r, "over") /\ Note(r, "refused") /\ UNCHANGED <<line, holder, passed>>
    /\ UNCHANGED <<poolTimeout, stood>>

\* The list has been read, or it cannot be; every read has a timeout and their
\* number a bound.  The connection is closed before the list is judged, so an
\* exception of the filter, or of the response that is made of it, finds it closed.
Settle(r) ==
    /\ stage[r] = "held"
    /\ \/ Release(r) /\ Note(r, "allowed") /\ passed' = passed \cup {r}
       \/ Release(r) /\ Note(r, "refused") /\ UNCHANGED passed
       \/ /\ ReleaseAs(r, "crashed")
          /\ UNCHANGED decision \/ Note(r, "allowed")
          /\ UNCHANGED passed
    /\ UNCHANGED <<poolTimeout, stood>>

Relay(r) ==
    /\ stage[r] = "relaying"
    /\ passed' = passed \cup {r}
    /\ UNCHANGED <<poolTimeout, stage, line, stood, holder, decision>>

\* The body ends, fails, exceeds the cap, or its client has left.
Leave(r) ==
    /\ stage[r] = "relaying"
    /\ Release(r)
    /\ UNCHANGED <<poolTimeout, stood, decision, passed>>

\* Python's garbage collector finds a connection that was left behind.
Collect(r) ==
    /\ stage[r] = "stranded"
    /\ ReleaseAs(r, "crashed")
    /\ UNCHANGED <<poolTimeout, stood, decision, passed>>

\* Time passes for those who stand in line.
Stand ==
    /\ stood' = [r \in Senders |->
                    IF stage[r] = "waiting" /\ stood[r] # BuildTimeout
                    THEN stood[r] + 1 ELSE stood[r]]
    /\ stood' # stood
    /\ UNCHANGED <<poolTimeout, stage, line, holder, decision, passed>>

\* What the timeouts of the client put an end to.
Bounded(r) == TimeOut(r) \/ Answer(r) \/ Refuse(r) \/ Settle(r)

SendersNext ==
    \/ \E r \in Senders : Send(r) \/ Bounded(r) \/ Relay(r) \/ Leave(r) \/ Collect(r)
    \/ Stand

SendersSpec == SendersInit /\ [][SendersNext]_senderVars

\* A relayed body may go on for ever, and what is left behind may stay there.
SendersFairness ==
    /\ \A r \in Senders : WF_senderVars(Bounded(r))
    /\ WF_senderVars(Stand)

StreamingSpec == SendersSpec /\ SendersFairness

-----------------------------------------------------------------------------
(* Properties.                                                             *)

\* Nobody stands in line while a connection is free or belongs to a request that
\* is over: every path out of proxy_mcp and body_iter gives its connection back
\* (app.py:385-398, 417, 440, 488, 543), but for the one on which a response that
\* was allowed cannot be made (app.py:546).
LineMeansFull ==
    line # <<>> => \A c \in Connections :
        /\ holder[c] # Free
        /\ \/ stage[holder[c]] \in {"asking", "held", "relaying"}
           \/ stage[holder[c]] = "stranded" /\ decision[holder[c]] = "allowed"

\* However many streams never end, a request that needs a connection is answered,
\* with one or with bad_gateway, whether pool_timeout is configured or not
\* (app.py:149-156, 391-398).
SendersAnswered == \A r \in Senders : stage[r] = "waiting" ~> stage[r] # "waiting"

\* One request's share of the pool; where the pool does not say whether a
\* connection was ever opened, it counts as closed.
Conn(r) ==
    IF stage[r] \in {"held", "relaying", "stranded"} THEN "open"
    ELSE IF stage[r] \in {"over", "crashed"} THEN "closed" ELSE "none"

Life(r) == INSTANCE UpstreamExchange
               WITH conn <- Conn(r), decision <- decision[r],
                    passed <- r \in passed, over <- stage[r] \in Ended,
                    crashed <- stage[r] \in {"crashed", "stranded"}

\* What is promised of one request is kept for each of many that share their
\* connections (app.py:385-551).
EachImplementsExchange ==
    /\ \A r \in Senders : Life(r)!Init
    /\ [][\A r \in Senders : [Life(r)!Next]_(Life(r)!vars)]_senderVars

=============================================================================
