----------------------------- MODULE VerifyPool -----------------------------
(***************************************************************************)
(* The requests of the gateway in front of JwksVerifier.  proxy_mcp and    *)
(* readyz (src/mcp_gateway/app.py) hand verifier.verify and verifier.ready *)
(* to run_in_threadpool, whose workers are limited: a request that finds   *)
(* no free worker waits its turn, first come first served.  Threads of     *)
(* JwksVerifier are those workers.                                         *)
(***************************************************************************)
EXTENDS JwksVerifier

CONSTANTS
    Requests,   \* bound: the requests that ever arrive
    Nobody      \* what a free worker works for

ASSUME PoolAssumption == Nobody \notin Requests

VARIABLES
    ask,        \* what each request needs: the kid of its token, or Probe
    queue,      \* requests waiting for a worker
    running,    \* the request each worker works for
    answered    \* requests whose call has returned

poolVars == <<ask, queue, running, answered>>
allVars  == <<vars, poolVars>>

PoolInit ==
    /\ Init
    /\ ask \in [Requests -> Kids \cup {Probe}]
    /\ queue = <<>>
    /\ running = [t \in Threads |-> Nobody]
    /\ answered = {}

Queued  == {queue[i] : i \in DOMAIN queue}
Running == {running[t] : t \in Threads} \ {Nobody}

\* The await run_in_threadpool of a request is reached.
Arrive(r) ==
    /\ r \notin Queued \cup Running \cup answered
    /\ queue' = Append(queue, r)
    /\ UNCHANGED <<vars, ask, running, answered>>

\* A free worker takes the request at the head of the queue and makes its call.
Dispatch(t) ==
    /\ queue # <<>>
    /\ LET r == Head(queue) IN
        /\ IF ask[r] = Probe THEN Ready(t) ELSE Resolve(t, ask[r])
        /\ running' = [running EXCEPT ![t] = r]
    /\ queue' = Tail(queue)
    /\ UNCHANGED <<ask, answered>>

\* Fault: the worker is not handed back.
CompleteKeepsWorker(t) ==
    /\ Return(t)
    /\ answered' = answered \cup {running[t]}
    /\ UNCHANGED <<ask, queue, running>>

\* The call returns and the worker is free for the next request.
Complete(t) ==
    /\ Return(t)
    /\ answered' = answered \cup {running[t]}
    /\ running' = [running EXCEPT ![t] = Nobody]
    /\ UNCHANGED <<ask, queue>>

\* What else a worker does: all of Run except Return.
Work(t) ==
    /\ Recheck(t) \/ Expire(t) \/ GiveUp(t) \/ Install(t) \/ Lookup(t)
    /\ UNCHANGED poolVars

PoolNext ==
    \/ \E r \in Requests : Arrive(r)
    \/ \E t \in Threads : Dispatch(t) \/ Complete(t) \/ Work(t)
    \/ \E t \in Threads : (Serve(t) \/ Fail(t)) /\ UNCHANGED poolVars
    \/ (Tick \/ \E d \in SUBSET Kids : Publish(d)) /\ UNCHANGED poolVars

PoolSpec == PoolInit /\ [][PoolNext]_allVars

\* Workers run and time passes; the issuer may never answer a fetch.
PoolFairness ==
    /\ \A t \in Threads : WF_allVars(Dispatch(t) \/ Complete(t) \/ Work(t))
    /\ WF_allVars(Tick /\ UNCHANGED poolVars)

HangingSpec == PoolSpec /\ PoolFairness

-----------------------------------------------------------------------------
(* Properties.                                                             *)

\* A request is in one place at a time, and a worker works for a request
\* exactly while it is inside a call (app.py:200, 289-292).
PoolTypeOK ==
    /\ ask \in [Requests -> Kids \cup {Probe}]
    /\ running \in [Threads -> Requests \cup {Nobody}]
    /\ answered \subseteq Requests /\ Queued \subseteq Requests
    /\ \A i, j \in DOMAIN queue : queue[i] = queue[j] => i = j
    /\ Queued \cap (Running \cup answered) = {}
    /\ \A t \in Threads : (running[t] = Nobody) <=> (pc[t] = "idle")

\* An issuer that never answers takes one worker, not the pool: every request
\* still gets its turn when there are two workers or more
\* (app.py:289-292, verifier.py:267-276).
PoolSurvivesHang ==
    \A r \in Requests : r \in Queued ~> r \notin Queued

\* "a slow authorization server delays only the requests that genuinely need a
\* new key, while cached keys keep verifying" (README.md:24-27): a request for a
\* cached, fresh key is not left in the queue behind workers that all wait.
CachedKeysFlow ==
    \A r \in Queued :
        ask[r] \in Cached /\ Fresh =>
            \E t \in Threads : pc[t] \notin {"waiting", "fetching"}

=============================================================================
