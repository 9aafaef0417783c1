-------------------------- MODULE VerifyPoolProofs --------------------------
(***************************************************************************)
(* Theorems about VerifyPool for any number of workers and requests.  The  *)
(* pool implements the verifier it runs, so the inductive invariant of     *)
(* JwksVerifierProofs holds behind it and is used for the one property in  *)
(* which both sides occur: a worker works for a request exactly while it   *)
(* is inside a call.                                                       *)
(***************************************************************************)
EXTENDS VerifyPool, JwksVerifierProofs

\* The inductive invariant of the pool, besides IInv of the verifier.
PoolInv == queue \in Seq(Requests) /\ PoolTypeOK

-----------------------------------------------------------------------------
(* The pool takes only the verifier's steps.                               *)

LEMMA PoolStepIsStep ==
    ASSUME PoolInv, [PoolNext]_allVars
    PROVE  [Next]_vars
<1> USE DEF PoolInv, PoolTypeOK
<1>1. ASSUME NEW r \in Requests, Arrive(r)
      PROVE  UNCHANGED vars
  BY <1>1 DEF Arrive
<1>2. ASSUME NEW t \in Threads, Dispatch(t)
      PROVE  Next
  <2>1. Head(queue) \in Requests
    BY <1>2 DEF Dispatch
  <2>2. CASE ask[Head(queue)] = Probe
    BY <1>2, <2>2 DEF Dispatch, Next
  <2>3. CASE ask[Head(queue)] # Probe
    <3>1. ask[Head(queue)] \in Kids
      BY <2>1, <2>3
    <3>. QED
      BY <1>2, <2>3, <3>1 DEF Dispatch, Next
  <2>. QED
    BY <2>2, <2>3
<1>3. ASSUME NEW t \in Threads, Complete(t) \/ Work(t) \/ Serve(t) \/ Fail(t)
      PROVE  Next
  BY <1>3 DEF Complete, Work, Next, Run
<1>4. CASE Tick \/ \E d \in SUBSET Kids : Publish(d)
  BY <1>4 DEF Next
<1>5. CASE UNCHANGED allVars
  BY <1>5 DEF allVars
<1>. QED
  BY <1>1, <1>2, <1>3, <1>4, <1>5 DEF PoolNext

-----------------------------------------------------------------------------
(* Who is inside a call.                                                   *)

\* A call begins.
LEMMA CallBegins ==
    ASSUME TypeOK, NEW t \in Threads, Ready(t) \/ \E kid \in Kids : Resolve(t, kid)
    PROVE  /\ pc[t] = "idle" /\ pc'[t] # "idle"
           /\ \A u \in Threads \ {t} : pc'[u] = pc[u]
  BY DEF TypeOK, Ready, Resolve, Decide, StartFetch, Finish, Wait, Goto

\* A call ends.
LEMMA CallEnds ==
    ASSUME TypeOK, NEW t \in Threads, Return(t)
    PROVE  /\ pc[t] # "idle" /\ pc'[t] = "idle"
           /\ \A u \in Threads \ {t} : pc'[u] = pc[u]
  BY DEF TypeOK, Return, Outcomes, Finish, Goto

\* Whatever else happens, the same calls are under way.
LEMMA CallsContinue ==
    ASSUME TypeOK,
           \/ \E t \in Threads : Work(t) \/ Serve(t) \/ Fail(t)
           \/ Tick \/ \E d \in SUBSET Kids : Publish(d)
    PROVE  \A u \in Threads : (pc'[u] = "idle") <=> (pc[u] = "idle")
<1>1. ASSUME NEW t \in Threads, Work(t)
      PROVE  \A u \in Threads : (pc'[u] = "idle") <=> (pc[u] = "idle")
  <2>1. CASE Recheck(t) \/ Expire(t) \/ GiveUp(t) \/ Lookup(t)
    BY <2>1 DEF TypeOK, Recheck, Expire, GiveUp, Lookup, Decide, StartFetch, Finish, Wait, Goto
  <2>2. CASE Install(t)
    BY <2>2 DEF TypeOK, Install, InstallWith, AfterFetch
  <2>. QED
    BY <1>1, <2>1, <2>2 DEF Work
<1>2. ASSUME NEW t \in Threads, Serve(t) \/ Fail(t)
      PROVE  \A u \in Threads : (pc'[u] = "idle") <=> (pc[u] = "idle")
  BY <1>2 DEF TypeOK, Serve, Fail, Goto
<1>3. CASE Tick \/ \E d \in SUBSET Kids : Publish(d)
  BY <1>3 DEF Tick, Publish, threadVars
<1>. QED
  BY <1>1, <1>2, <1>3

-----------------------------------------------------------------------------
(* Each kind of step preserves the invariant.                              *)

\* A request joins the queue once.
LEMMA ArriveStep ==
    ASSUME PoolInv, NEW r \in Requests, Arrive(r)
    PROVE  PoolInv'
<1> USE DEF PoolInv, PoolTypeOK, Arrive, vars
<1>1. /\ queue' \in Seq(Requests) /\ Len(queue') = Len(queue) + 1
      /\ \A i \in 1 .. Len(queue) : queue'[i] = queue[i]
      /\ queue'[Len(queue) + 1] = r
  OBVIOUS
<1>2. Queued' = Queued \cup {r}
  BY <1>1 DEF Queued
<1>3. \A i, j \in DOMAIN queue' : queue'[i] = queue'[j] => i = j
  BY <1>1 DEF Queued
<1>4. Running' = Running
  BY DEF Running
<1>. QED
  BY <1>1, <1>2, <1>3, <1>4

\* A request leaves the queue for a worker.
LEMMA DispatchStep ==
    ASSUME IInv, PoolInv, NEW t \in Threads, Dispatch(t)
    PROVE  PoolInv'
<1> USE DEF PoolInv, PoolTypeOK
<1> DEFINE r == Head(queue)
<1>1. /\ queue # <<>> /\ queue' = Tail(queue) /\ r \in Requests /\ r = queue[1]
      /\ running' = [running EXCEPT ![t] = r] /\ ask' = ask /\ answered' = answered
  BY DEF Dispatch
<1>2. /\ queue' \in Seq(Requests) /\ Len(queue') = Len(queue) - 1
      /\ \A i \in 1 .. Len(queue') : queue'[i] = queue[i + 1]
  BY <1>1
<1>3. \A i, j \in DOMAIN queue' : queue'[i] = queue'[j] => i = j
  <2> SUFFICES ASSUME NEW i \in 1 .. Len(queue'), NEW j \in 1 .. Len(queue'),
                      queue'[i] = queue'[j]
               PROVE  i = j
    BY <1>2
  <2>1. i + 1 \in DOMAIN queue /\ j + 1 \in DOMAIN queue
    BY <1>2
  <2>2. queue[i + 1] = queue[j + 1]
    BY <1>2
  <2>3. i + 1 = j + 1
    BY <2>1, <2>2
  <2>. QED
    BY <2>3
<1>4. Queued' \subseteq Queued /\ r \in Queued /\ r \notin Queued'
  BY <1>1, <1>2 DEF Queued
<1>5. Running' \subseteq Running \cup {r}
  BY <1>1 DEF Running
<1>6. /\ pc[t] = "idle" /\ pc'[t] # "idle"
      /\ \A u \in Threads \ {t} : pc'[u] = pc[u]
  <2>1. CASE ask[r] = Probe
    BY <2>1, CallBegins DEF Dispatch, IInv
  <2>2. CASE ask[r] # Probe
    <3>1. ask[r] \in Kids
      BY <1>1, <2>2
    <3>. QED
      BY <2>2, <3>1, CallBegins DEF Dispatch, IInv
  <2>. QED
    BY <2>1, <2>2
<1>7. \A u \in Threads : (running'[u] = Nobody) <=> (pc'[u] = "idle")
  BY <1>1, <1>6, PoolAssumption
<1>. QED
  BY <1>1, <1>2, <1>3, <1>4, <1>5, <1>7

\* A worker hands in its request and is free.
LEMMA CompleteStep ==
    ASSUME IInv, PoolInv, NEW t \in Threads, Complete(t)
    PROVE  PoolInv'
<1> USE DEF PoolInv, PoolTypeOK, Complete
<1>1. /\ pc[t] # "idle" /\ pc'[t] = "idle"
      /\ \A u \in Threads \ {t} : pc'[u] = pc[u]
  BY CallEnds DEF IInv
<1>2. running[t] \in Requests /\ running[t] \in Running
  BY <1>1 DEF Running
<1>3. Running' \subseteq Running /\ Queued' = Queued
  BY DEF Running, Queued
<1>4. \A u \in Threads : (running'[u] = Nobody) <=> (pc'[u] = "idle")
  BY <1>1
<1>. QED
  BY <1>2, <1>3, <1>4

\* The steps of the verifier between the beginning and the end of a call.
LEMMA InsideStep ==
    ASSUME IInv, PoolInv, UNCHANGED poolVars,
           \/ \E t \in Threads : Work(t) \/ Serve(t) \/ Fail(t)
           \/ Tick \/ \E d \in SUBSET Kids : Publish(d)
    PROVE  PoolInv'
<1>1. \A u \in Threads : (pc'[u] = "idle") <=> (pc[u] = "idle")
  BY CallsContinue DEF IInv
<1>. QED
  BY <1>1 DEF PoolInv, PoolTypeOK, poolVars, Queued, Running

LEMMA PoolStep == ASSUME IInv, PoolInv, [PoolNext]_allVars PROVE PoolInv'
<1>1. ASSUME NEW t \in Threads, Work(t)
      PROVE  UNCHANGED poolVars
  BY <1>1 DEF Work
<1>2. CASE UNCHANGED allVars
  BY <1>2 DEF allVars, poolVars, vars, PoolInv, PoolTypeOK, Queued, Running
<1>. QED
  BY <1>1, <1>2, ArriveStep, DispatchStep, CompleteStep, InsideStep DEF PoolNext

LEMMA InitPool == PoolInit => Init /\ PoolInv
<1> SUFFICES ASSUME PoolInit PROVE Init /\ PoolInv
  OBVIOUS
<1>1. Queued = {} /\ Running = {}
  BY DEF PoolInit, Queued, Running
<1>. QED
  BY <1>1 DEF PoolInit, PoolInv, PoolTypeOK, Init

-----------------------------------------------------------------------------
(* The theorems.                                                           *)

LEMMA PoolInvariance == PoolSpec => [](IInv /\ PoolInv)
<1>1. PoolInit => IInv /\ PoolInv
  BY InitPool, InitIInv
<1>2. IInv /\ PoolInv /\ [PoolNext]_allVars => (IInv /\ PoolInv)'
  BY PoolStep, PoolStepIsStep, NextPreserves
<1>. QED
  BY <1>1, <1>2, PTL DEF PoolSpec

\* A behaviour of the pool is one of the verifier's: PoolNext is built from its
\* actions.  What is proved of JwksVerifier is carried over through this fact.
LEMMA PoolRunsVerifier == PoolSpec => Spec
<1>1. PoolInit => Init
  BY InitPool
<1>2. PoolInv /\ [PoolNext]_allVars => [Next]_vars
  BY PoolStepIsStep
<1>. QED
  BY <1>1, <1>2, PoolInvariance, PTL DEF PoolSpec, Spec

\* A request is in one place at a time, and a worker works for one exactly while
\* it is inside a call (app.py:200, 289-292).
THEOREM PoolTypeCorrect == PoolSpec => []PoolTypeOK
  BY PoolInvariance, PTL DEF PoolInv

\* Behind the pool, too, one refresh is in flight at a time and no waiter is
\* forgotten (verifier.py:161-162, 267-276).
THEOREM PoolKeepsCacheSafe == PoolSpec => [](SingleFlight /\ NoLostWakeup)
  BY PoolInvariance, PTL DEF IInv

\* Behind the pool, too, the cache never goes back, no key is handed out that the
\* document in the cache has not, a revoked one least of all, and only a fetch with
\* usable keys brings readiness back (verifier.py:171-172, 200-213, 258-326).
THEOREM PoolKeepsCachePromises ==
    PoolSpec => NoRollback /\ ServedIsCurrent /\ RevokedStaysRevoked /\ ReadinessEarned
BY PoolRunsVerifier, NoRollbackHolds, ServedIsCurrentHolds,
   RevokedStaysRevokedHolds, ReadinessEarnedHolds, PTL

\* Nor do the requests that come and go take from a woken waiter the key it was
\* woken for (verifier.py:269-291).
THEOREM PoolKeepsUntilServed ==
    ASSUME PromptWake, TTL > 0, MinInterval > 0
    PROVE  PoolSpec => KeptUntilServed
BY PoolRunsVerifier, KeptUntilServedHolds, PTL

\* And the issuer is asked no more often than the cooldown allows, one question
\* after the other, however many requests there are, unless the cache expires
\* before the cooldown is over (verifier.py:16, 281-291).
THEOREM PoolKeepsFetchRate ==
    ASSUME TTL >= MinInterval PROVE PoolSpec => FetchRate /\ ImplementsCycle
BY PoolRunsVerifier, FetchRateHolds, Refinement, PTL

-----------------------------------------------------------------------------
(* Whose call a worker makes.                                              *)

\* A worker asks for the key its request needs, for a request whose call has not
\* returned yet, and no two workers make the same call (app.py:200, 293).
OwnCall ==
    /\ \A t \in Threads : running[t] # Nobody =>
        want[t] = ask[running[t]] /\ running[t] \notin answered
    /\ \A t, u \in Threads : running[t] = running[u] /\ running[t] # Nobody => t = u

\* The key a worker is given is the one its own request asked for, and a key of
\* the document in the cache (app.py:293, verifier.py:200-213, 258-304).
ServedItsOwn ==
    [][\A t \in Threads : pc[t] # "served" /\ pc'[t] = "served" =>
        /\ running'[t] \in Requests /\ running'[t] \notin answered'
        /\ keys > 0 /\ ask[running'[t]] \in docs[keys]]_allVars

\* The call that begins asks for what it was told to.
LEMMA CallAsks ==
    ASSUME TypeOK, NEW t \in Threads
    PROVE  /\ Ready(t) => want' = [want EXCEPT ![t] = Probe]
           /\ \A kid \in Kids : Resolve(t, kid) => want' = [want EXCEPT ![t] = kid]
           /\ Return(t) => want' = [want EXCEPT ![t] = Probe]
  BY DEF Ready, Resolve, Return

\* No other step changes what a worker asks for.
LEMMA AskedOnce ==
    ASSUME \/ \E t \in Threads : Work(t) \/ Serve(t) \/ Fail(t)
           \/ Tick \/ \E d \in SUBSET Kids : Publish(d)
    PROVE  want' = want
  BY DEF Work, Recheck, Expire, GiveUp, Install, InstallWith, Lookup, Serve, Fail,
         Tick, Publish, threadVars

\* The request at the head of the queue is nobody's yet.
LEMMA DispatchOwn ==
    ASSUME IInv, PoolInv, OwnCall, NEW t \in Threads, Dispatch(t)
    PROVE  OwnCall'
<1> USE DEF PoolInv, PoolTypeOK
<1> DEFINE r == Head(queue)
<1>1. /\ r \in Requests /\ r \in Queued
      /\ running' = [running EXCEPT ![t] = r] /\ ask' = ask /\ answered' = answered
  BY DEF Dispatch, Queued
<1>2. r # Nobody /\ r \notin answered /\ \A u \in Threads : running[u] # r
  BY <1>1, PoolAssumption DEF Running
<1>3. want' = [want EXCEPT ![t] = ask[r]]
  <2>1. CASE ask[r] = Probe
    BY <2>1, CallAsks DEF Dispatch, IInv
  <2>2. CASE ask[r] # Probe
    <3>1. ask[r] \in Kids
      BY <1>1, <2>2
    <3>. QED
      BY <2>2, <3>1, CallAsks DEF Dispatch, IInv
  <2>. QED
    BY <2>1, <2>2
<1>4. \A u \in Threads \ {t} : want'[u] = want[u] /\ running'[u] = running[u]
  BY <1>1, <1>3 DEF IInv, TypeOK
<1>5. want'[t] = ask[r] /\ running'[t] = r
  BY <1>1, <1>3 DEF IInv, TypeOK
<1>. QED
  BY <1>1, <1>2, <1>4, <1>5 DEF OwnCall

\* The request that is answered was nobody else's.
LEMMA CompleteOwn ==
    ASSUME IInv, PoolInv, OwnCall, NEW t \in Threads, Complete(t)
    PROVE  OwnCall'
<1> USE DEF PoolInv, PoolTypeOK
<1>1. /\ running' = [running EXCEPT ![t] = Nobody] /\ ask' = ask
      /\ answered' = answered \cup {running[t]}
      /\ want' = [want EXCEPT ![t] = Probe]
  BY CallAsks DEF Complete, IInv
<1>2. \A u \in Threads \ {t} : want'[u] = want[u] /\ running'[u] = running[u]
  BY <1>1 DEF IInv, TypeOK
<1>3. running'[t] = Nobody
  BY <1>1
<1>. QED
  BY <1>1, <1>2, <1>3 DEF OwnCall

LEMMA OwnCallStep ==
    ASSUME IInv, PoolInv, OwnCall, [PoolNext]_allVars
    PROVE  OwnCall'
<1>1. ASSUME NEW r \in Requests, Arrive(r)
      PROVE  OwnCall'
  BY <1>1 DEF Arrive, vars, threadVars, OwnCall
<1>2. ASSUME NEW t \in Threads, Work(t) \/ ((Serve(t) \/ Fail(t)) /\ UNCHANGED poolVars)
      PROVE  OwnCall'
  <2>1. want' = want
    BY <1>2, AskedOnce
  <2>. QED
    BY <1>2, <2>1 DEF Work, poolVars, OwnCall
<1>3. CASE (Tick \/ \E d \in SUBSET Kids : Publish(d)) /\ UNCHANGED poolVars
  <2>1. want' = want
    BY <1>3, AskedOnce
  <2>. QED
    BY <1>3, <2>1 DEF poolVars, OwnCall
<1>4. CASE UNCHANGED allVars
  BY <1>4 DEF allVars, poolVars, vars, threadVars, OwnCall
<1>. QED
  BY <1>1, <1>2, <1>3, <1>4, DispatchOwn, CompleteOwn DEF PoolNext

\* However many requests come and go, each worker makes the call of one request,
\* and of that one alone, until it returns (app.py:200, 293).
THEOREM EachCallIsItsOwn == PoolSpec => []OwnCall
<1>1. PoolInit => OwnCall
  BY DEF PoolInit, OwnCall
<1>. QED
  BY <1>1, OwnCallStep, PoolInvariance, PTL DEF PoolSpec

\* No request is served with a key another one asked for, nor with one the
\* issuer's last installed document lacks (app.py:293, verifier.py:200-213, 258-304).
THEOREM ServedItsOwnHolds == PoolSpec => ServedItsOwn
<1> DEFINE Current == \A t \in Threads : pc[t] # "served" /\ pc'[t] = "served" =>
                          keys > 0 /\ want'[t] \in docs[keys]
           Own == \A t \in Threads : pc[t] # "served" /\ pc'[t] = "served" =>
                      /\ running'[t] \in Requests /\ running'[t] \notin answered'
                      /\ keys > 0 /\ ask[running'[t]] \in docs[keys]
<1>1. PoolSpec => [][Current]_vars
  BY PoolRunsVerifier, ServedIsCurrentHolds, PTL
     DEF ServedIsCurrent
<1>2. ASSUME [Current]_vars, [PoolNext]_allVars, PoolInv', OwnCall'
      PROVE  [Own]_allVars
  <2> SUFFICES ASSUME NEW t \in Threads, pc[t] # "served", pc'[t] = "served"
               PROVE  /\ running'[t] \in Requests /\ running'[t] \notin answered'
                      /\ keys > 0 /\ ask[running'[t]] \in docs[keys]
    OBVIOUS
  <2>1. Current
    BY <1>2 DEF vars, threadVars
  <2>2. running'[t] \in Requests /\ running'[t] # Nobody
    BY <1>2, PoolAssumption DEF PoolInv, PoolTypeOK
  <2>3. want'[t] = ask'[running'[t]] /\ running'[t] \notin answered'
    BY <1>2, <2>2 DEF OwnCall
  <2>4. ask' = ask
    BY <1>2 DEF PoolNext, Arrive, Dispatch, Complete, Work, poolVars, allVars
  <2>. QED
    BY <2>1, <2>2, <2>3, <2>4
<1>. QED
  BY <1>1, <1>2, PoolInvariance, EachCallIsItsOwn, PTL DEF PoolSpec, ServedItsOwn

=============================================================================
