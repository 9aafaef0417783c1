------------------------------ MODULE MCPools -------------------------------
(***************************************************************************)
(* The two limited resources of the gateway that may be held for ever: the *)
(* worker threads (VerifyPool), by an issuer that does not answer, and the *)
(* upstream connections (UpstreamPool), by a stream that does not end.     *)
(* They share nothing, so a behaviour exercises one of them, the subject,  *)
(* and the variables of the other stay as they are.                        *)
(***************************************************************************)
EXTENDS VerifyPool, UpstreamPool

CONSTANTS t1, t2, k1, r1, r2, r3, s1, s2, s3, c1, c2

VARIABLE subject    \* "workers" or "connections"

TwoWorkers     == {t1, t2}
OneKid         == {k1}
ThreeRequests  == {r1, r2, r3}
ThreeSenders   == {s1, s2, s3}
TwoConnections == {c1, c2}

poolsVars == <<subject, allVars, senderVars>>

IdleWorkers ==
    /\ PoolInit
    /\ docs = <<{}>> /\ ask = [r \in Requests |-> Probe]

IdleConnections == SendersInit /\ poolTimeout = Unset

\* Requests are alike, so it is enough to say how many of them need a key.
Asks ==
    {[r \in Requests |-> IF r \in S THEN k1 ELSE Probe] :
        S \in {{}, {r1}, {r1, r2}, {r1, r2, r3}}}

PoolsInit ==
    \/ subject = "workers" /\ PoolInit /\ ask \in Asks /\ IdleConnections
    \/ subject = "connections" /\ IdleWorkers /\ SendersInit

OfWorkers(A)     == subject = "workers" /\ A /\ UNCHANGED <<subject, senderVars>>
OfConnections(A) == subject = "connections" /\ A /\ UNCHANGED <<subject, allVars>>

PoolsNext == OfWorkers(PoolNext) \/ OfConnections(SendersNext)

\* The fairness of HangingSpec and of StreamingSpec.
PoolsFairness ==
    /\ \A t \in Threads : WF_poolsVars(OfWorkers(Dispatch(t) \/ Complete(t) \/ Work(t)))
    /\ WF_poolsVars(OfWorkers(Tick /\ UNCHANGED poolVars))
    /\ \A r \in Senders : WF_poolsVars(OfConnections(Bounded(r)))
    /\ WF_poolsVars(OfConnections(Stand))

PoolsSpec == PoolsInit /\ [][PoolsNext]_poolsVars /\ PoolsFairness

=============================================================================
