------------------------- MODULE JwksVerifierProofs -------------------------
(***************************************************************************)
(* Theorems about JwksVerifier for any number of threads, kids and         *)
(* documents and any values of the three intervals.                        *)
(*                                                                         *)
(* The safety invariants are proved together from IInv, which adds to them *)
(* what makes them inductive: where answers may be, that an answer on its  *)
(* way is not older than the cache, and how the three ages are ordered.    *)
(***************************************************************************)
EXTENDS JwksRefinement, TLAPS

\* An answer exists only between the end of a fetch and its installation, and
\* is at least as new as the cache it is about to replace.
AnswersAreNewer ==
    \A t \in Threads :
        /\ pc[t] # "responded" => resp[t] = 0
        /\ resp[t] # 0 => resp[t] >= keys

\* The last attempt is not older than the last success; between two fetches it
\* is not older than the start of the last one either.
AgesOrdered ==
    /\ sinceFetch <= sinceSuccess
    /\ ~refreshing => sinceFetch <= sinceStart

IInv ==
    /\ TypeOK
    /\ SingleFlight
    /\ NoLostWakeup
    /\ AnswersAreNewer
    /\ AgesOrdered

-----------------------------------------------------------------------------
(* The initial states.                                                     *)

\* The initial state of the verifier satisfies the inductive invariant.
LEMMA InitIInv == Init => IInv
<1> SUFFICES ASSUME Init PROVE IInv
  OBVIOUS
<1> USE JwksAssumption
<1>1. TypeOK
  <2>1. PICK d \in SUBSET Kids : docs = <<d>>
    BY DEF Init
  <2>2. docs \in Seq(SUBSET Kids) /\ Len(docs) = 1
    BY <2>1
  <2>3. Never \in Age /\ "idle" \in Points
    BY DEF Age, Never, Points
  <2>4. /\ pc \in [Threads -> Points] /\ want \in [Threads -> Kids \cup {Probe}]
        /\ resp \in [Threads -> 0 .. Len(docs)]
        /\ waited \in [Threads -> 0 .. WaitTimeout]
    BY <2>2, <2>3 DEF Init
  <2>5. Len(docs) \in 1 .. MaxDocs /\ keys \in 0 .. Len(docs)
    BY <2>2 DEF Init
  <2>. QED
    BY <2>2, <2>3, <2>4, <2>5 DEF Init, TypeOK
<1>2. SingleFlight /\ NoLostWakeup
  BY DEF Init, SingleFlight, NoLostWakeup, Fetchers
<1>3. AnswersAreNewer /\ AgesOrdered
  BY DEF Init, AnswersAreNewer, AgesOrdered, Never
<1>. QED
  BY <1>1, <1>2, <1>3 DEF IInv

-----------------------------------------------------------------------------
(* What the shared pieces of the actions do.                               *)

\* Deciding without a refresh in flight either takes the flag and starts the
\* fetch or ends the call.
LEMMA DecideCases ==
    ASSUME NEW t \in Threads, NEW kid, Decide(t, kid)
    PROVE  \/ MayFetch /\ StartFetch(t)
           \/ \E p \in {"served", "rejected"} : Finish(t, p)
  BY DEF Decide

\* Finish, Wait and StartFetch are the three ways a critical section that
\* leaves the cache alone ends: every step of a thread is one of them, the end
\* of a fetch, or its installation.
Quiet(t) ==
    /\ docs' = docs /\ resp' = resp
    /\ want' \in [Threads -> Kids \cup {Probe}]
    /\ \A u \in Threads \ {t} : want'[u] = want[u]
    /\ \/ StartFetch(t) /\ ~refreshing /\ (MayFetch \/ sinceFetch >= MinInterval)
       \/ Wait(t) /\ refreshing /\ want'[t] \notin Cached
       \/ \E p \in Outcomes \cup {"expired", "idle"} : Finish(t, p)

\* Every action of a thread that is not about its own fetch is a Quiet step of
\* a thread that has no fetch.
LEMMA ThreadSteps ==
    ASSUME IInv, NEW t \in Threads,
           \/ \E kid \in Kids : Resolve(t, kid)
           \/ Ready(t) \/ Recheck(t) \/ Expire(t) \/ GiveUp(t)
           \/ Lookup(t) \/ Return(t)
    PROVE  Quiet(t) /\ pc[t] \notin {"fetching", "responded"}
<1> USE DEF IInv, TypeOK
<1>1. ASSUME NEW kid \in Kids, Resolve(t, kid) 
      PROVE  Quiet(t) /\ pc[t] = "idle"
  <2>1. /\ docs' = docs /\ resp' = resp /\ pc[t] = "idle"
        /\ want' = [want EXCEPT ![t] = kid]
    BY <1>1 DEF Resolve
  <2>2. CASE kid \in Cached /\ Finish(t, "served")
    BY <2>1, <2>2 DEF Quiet, Outcomes
  <2>3. CASE kid \notin Cached /\ refreshing /\ Wait(t)
    BY <2>1, <2>3 DEF Quiet
  <2>4. CASE ~refreshing /\ Decide(t, kid)
    BY <2>1, <2>4, DecideCases DEF Quiet, Outcomes
  <2>. QED
    BY <1>1, <2>2, <2>3, <2>4 DEF Resolve
<1>2. CASE Ready(t)
  <2>1. /\ docs' = docs /\ resp' = resp /\ pc[t] = "idle"
        /\ want' = [want EXCEPT ![t] = Probe]
    BY <1>2 DEF Ready
  <2>2. CASE \E p \in Outcomes : Finish(t, p)
    BY <2>1, <2>2 DEF Quiet
  <2>3. CASE ~refreshing /\ sinceFetch >= MinInterval /\ StartFetch(t)
    BY <2>1, <2>3 DEF Quiet
  <2>4. sinceFetch \in Int /\ MinInterval \in Int
    BY JwksAssumption DEF Age, Never
  <2>. QED
    BY <1>2, <2>2, <2>3, <2>4 DEF Ready, Outcomes
<1>3. CASE Recheck(t)
  <2>1. docs' = docs /\ resp' = resp /\ want' = want /\ pc[t] = "woken"
    BY <1>3 DEF Recheck
  <2>2. CASE Finish(t, "served")
    BY <2>1, <2>2 DEF Quiet, Outcomes
  <2>3. CASE want[t] \notin Cached /\ refreshing /\ Wait(t)
    BY <2>1, <2>3 DEF Quiet
  <2>4. CASE ~refreshing /\ Decide(t, want[t])
    BY <2>1, <2>4, DecideCases DEF Quiet, Outcomes
  <2>. QED
    BY <1>3, <2>2, <2>3, <2>4 DEF Recheck
<1>4. CASE Expire(t) \/ GiveUp(t) \/ Lookup(t)
  BY <1>4 DEF Expire, GiveUp, Lookup, Quiet, Outcomes
<1>5. CASE Return(t)
  BY <1>5 DEF Return, Quiet, Outcomes
<1>. QED
  BY <1>1, <1>2, <1>3, <1>4, <1>5

-----------------------------------------------------------------------------
(* Each kind of step preserves the invariant.                              *)

\* The cache holds the same kids in every step that keeps the documents it
\* could name and its index.
LEMMA CachedUnchanged ==
    ASSUME docs' = docs, keys' = keys
    PROVE  Cached' = Cached
  BY DEF Cached, KidsOf

\* A critical section that leaves the cache alone preserves the invariant.
LEMMA QuietStep ==
    ASSUME IInv, NEW t \in Threads, Quiet(t),
           pc[t] \notin {"fetching", "responded"}
    PROVE  IInv'
<1> USE JwksAssumption DEF IInv, TypeOK
<1>1. CASE StartFetch(t) /\ ~refreshing
  <2> USE DEF StartFetch, Goto, Quiet
  <2>1. TypeOK'
    BY <1>1 DEF Points, Age, Never
  <2>2. SingleFlight'
    BY <1>1 DEF SingleFlight, Fetchers
  <2>3. NoLostWakeup' /\ AnswersAreNewer' /\ AgesOrdered'
    BY <1>1 DEF NoLostWakeup, AnswersAreNewer, AgesOrdered
  <2>. QED
    BY <2>1, <2>2, <2>3
<1>2. CASE Wait(t) /\ refreshing /\ want'[t] \notin Cached
  <2> USE DEF Wait, Goto, Quiet
  <2>1. TypeOK'
    BY <1>2 DEF Points
  <2>2. SingleFlight'
    BY <1>2 DEF SingleFlight, Fetchers
  <2>3. NoLostWakeup'
    BY <1>2, CachedUnchanged DEF NoLostWakeup
  <2>4. AnswersAreNewer' /\ AgesOrdered'
    BY <1>2 DEF AnswersAreNewer, AgesOrdered
  <2>. QED
    BY <2>1, <2>2, <2>3, <2>4
<1>3. ASSUME NEW p \in Outcomes \cup {"expired", "idle"}, Finish(t, p)
      PROVE  IInv'
  <2> USE <1>3 DEF Finish, Goto, Quiet
  <2>1. p \in Points /\ p \notin {"fetching", "responded", "waiting"}
    BY DEF Points, Outcomes
  <2>2. TypeOK'
    BY <2>1
  <2>3. SingleFlight'
    BY <2>1 DEF SingleFlight, Fetchers
  <2>4. NoLostWakeup'
    BY <2>1, CachedUnchanged DEF NoLostWakeup
  <2>5. AnswersAreNewer' /\ AgesOrdered'
    BY <2>1 DEF AnswersAreNewer, AgesOrdered
  <2>. QED
    BY <2>2, <2>3, <2>4, <2>5
<1>. QED
  BY <1>1, <1>2, <1>3 DEF Quiet

\* The end of a fetch, with an answer or without, preserves the invariant.
LEMMA AnswerStep ==
    ASSUME IInv, NEW t \in Threads, Serve(t) \/ Fail(t)
    PROVE  IInv'
<1> USE JwksAssumption DEF IInv, TypeOK
<1> PICK r \in 0 .. Len(docs) :
        /\ r = 0 \/ r = Len(docs)
        /\ pc[t] = "fetching" /\ pc' = [pc EXCEPT ![t] = "responded"]
        /\ resp' = [resp EXCEPT ![t] = r]
        /\ UNCHANGED <<docs, cacheVars, sinceStart, want, waited>>
  <2>1. CASE Serve(t)
    <3>. WITNESS Len(docs) \in 0 .. Len(docs)
    <3>. QED
      BY <2>1 DEF Serve, Goto
  <2>2. CASE Fail(t)
    <3>. WITNESS 0 \in 0 .. Len(docs)
    <3>. QED
      BY <2>2 DEF Fail, Goto
  <2>. QED
    BY <2>1, <2>2
<1> USE DEF cacheVars
<1>1. TypeOK'
  BY DEF Points
<1>2. SingleFlight'
  BY DEF SingleFlight, Fetchers
<1>3. NoLostWakeup'
  BY CachedUnchanged DEF NoLostWakeup
<1>4. AnswersAreNewer' /\ AgesOrdered'
  BY DEF AnswersAreNewer, AgesOrdered
<1>. QED
  BY <1>1, <1>2, <1>3, <1>4

\* Installing what a fetch brought preserves the invariant.
LEMMA InstallStep ==
    ASSUME IInv, NEW t \in Threads, Install(t)
    PROVE  IInv'
<1> USE JwksAssumption DEF IInv, TypeOK, Install, InstallWith
<1>1. AfterFetch(t) \in {"up", "down", "lookup", "failed"}
  BY DEF AfterFetch
<1>2. /\ pc' \in [Threads -> Points]
      /\ \A u \in Threads : pc'[u] \notin {"waiting", "fetching", "responded"}
  <2>1. t \in Fetchers /\ \A u \in Fetchers : u = t
    BY DEF SingleFlight, Fetchers
  <2>. QED
    BY <1>1, <2>1 DEF Points, Outcomes, Fetchers
<1>3. TypeOK'
  <2>1. NewKeys(t) \in 0 .. Len(docs)
    BY DEF NewKeys
  <2>2. NewSuccess(t) \in Age /\ 0 \in Age
    BY DEF NewSuccess, Age, Never
  <2>3. resp' \in [Threads -> 0 .. Len(docs)]
    OBVIOUS
  <2>. QED
    BY <1>2, <2>1, <2>2, <2>3
<1>4. SingleFlight' /\ NoLostWakeup'
  BY <1>2 DEF SingleFlight, NoLostWakeup, Fetchers
<1>5. AnswersAreNewer'
  <2>1. \A u \in Threads : resp'[u] = 0
    BY DEF AnswersAreNewer, SingleFlight, Fetchers
  <2>. QED
    BY <2>1 DEF AnswersAreNewer
<1>6. AgesOrdered'
  BY DEF AgesOrdered, NewSuccess, Age, Never
<1>. QED
  BY <1>3, <1>4, <1>5, <1>6

\* A new document and the passing of time preserve the invariant.
LEMMA EnvironmentStep ==
    ASSUME IInv, Tick \/ \E d \in SUBSET Kids : Publish(d)
    PROVE  IInv'
<1> USE JwksAssumption DEF IInv, TypeOK
<1>1. CASE Tick
  <2> USE <1>1 DEF Tick
  <2>1. Older(sinceFetch) \in Age /\ Older(sinceSuccess) \in Age /\ Older(sinceStart) \in Age
    BY DEF Older, Age, Never
  <2>2. waited' \in [Threads -> 0 .. WaitTimeout]
    OBVIOUS
  <2>3. TypeOK'
    BY <2>1, <2>2
  <2>4. SingleFlight' /\ AnswersAreNewer'
    BY DEF SingleFlight, Fetchers, AnswersAreNewer
  <2>5. NoLostWakeup'
    BY CachedUnchanged DEF NoLostWakeup
  <2>6. AgesOrdered'
    BY DEF AgesOrdered, Older, Age, Never
  <2>. QED
    BY <2>3, <2>4, <2>5, <2>6
<1>2. ASSUME NEW d \in SUBSET Kids, Publish(d)
      PROVE  IInv'
  <2> USE <1>2 DEF Publish, cacheVars, threadVars
  <2>1. /\ docs' \in Seq(SUBSET Kids) /\ Len(docs') = Len(docs) + 1
        /\ \A i \in 1 .. Len(docs) : docs'[i] = docs[i]
    OBVIOUS
  <2>2. TypeOK'
    BY <2>1
  <2>3. SingleFlight' /\ AnswersAreNewer' /\ AgesOrdered'
    BY DEF SingleFlight, Fetchers, AnswersAreNewer, AgesOrdered
  <2>4. Cached' = Cached
    BY <2>1 DEF Cached, KidsOf
  <2>5. NoLostWakeup'
    BY <2>4 DEF NoLostWakeup
  <2>. QED
    BY <2>2, <2>3, <2>5
<1>. QED
  BY <1>1, <1>2

\* A step that changes nothing preserves the invariant.
LEMMA StutterStep == IInv /\ UNCHANGED vars => IInv'
  BY DEF vars, IInv, TypeOK, SingleFlight, NoLostWakeup, AnswersAreNewer,
         AgesOrdered, Fetchers, Cached, KidsOf

\* Every step preserves the invariant.
LEMMA NextPreserves == ASSUME IInv, [Next]_vars PROVE IInv'
<1>1. CASE UNCHANGED vars
  BY <1>1, StutterStep
<1>2. CASE Tick \/ \E d \in SUBSET Kids : Publish(d)
  BY <1>2, EnvironmentStep
<1>3. ASSUME NEW t \in Threads,
             \/ \E kid \in Kids : Resolve(t, kid)
             \/ Ready(t) \/ Serve(t) \/ Fail(t) \/ Run(t)
      PROVE  IInv'
  <2>1. CASE Serve(t) \/ Fail(t)
    BY <2>1, AnswerStep
  <2>2. CASE Install(t)
    BY <2>2, InstallStep
  <2>3. CASE \/ \E kid \in Kids : Resolve(t, kid)
             \/ Ready(t) \/ Recheck(t) \/ Expire(t) \/ GiveUp(t)
             \/ Lookup(t) \/ Return(t)
    BY <2>3, ThreadSteps, QuietStep
  <2>. QED
    BY <1>3, <2>1, <2>2, <2>3 DEF Run
<1>. QED
  BY <1>1, <1>2, <1>3 DEF Next

\* The invariant holds in every reachable state.
THEOREM Invariance == Spec => []IInv
<1>1. IInv /\ [Next]_vars => IInv'
  BY NextPreserves
<1>. QED
  BY <1>1, InitIInv, PTL DEF Spec

-----------------------------------------------------------------------------
(* The theorems.                                                           *)

\* Every variable of the verifier keeps its type (verifier.py:158-173).
THEOREM TypeCorrect == Spec => []TypeOK
  BY Invariance, PTL DEF IInv

\* The flag is up exactly when one thread owns a fetch (verifier.py:161-162).
THEOREM SingleFlightHolds == Spec => []SingleFlight
  BY Invariance, PTL DEF IInv

\* No thread sleeps without a fetch to wake it, nor for a kid that is already
\* in the cache (verifier.py:267-276, 310-318).
THEOREM NoLostWakeupHolds == Spec => []NoLostWakeup
  BY Invariance, PTL DEF IInv

\* When ready() would say yes, cached kids need no network
\* (verifier.py:183, 261-264).
THEOREM ReadyMeansFastHolds == Spec => []ReadyMeansFast
<1>1. IInv => ReadyMeansFast
  BY JwksAssumption DEF IInv, TypeOK, AgesOrdered, ReadyMeansFast, ReadyNow,
     Fresh, Age, Never
<1>. QED
  BY <1>1, Invariance, PTL

\* No step puts an older document into the cache (verifier.py:281-318).
THEOREM NoRollbackHolds == Spec => NoRollback
<1>1. IInv /\ [Next]_vars => [keys' >= keys]_vars
  <2> SUFFICES ASSUME IInv, [Next]_vars PROVE keys' >= keys
    OBVIOUS
  <2> USE DEF IInv, TypeOK
  <2>1. CASE keys' = keys
    BY <2>1
  <2>2. ASSUME NEW t \in Threads, Install(t)
        PROVE  keys' >= keys
    BY <2>2 DEF Install, InstallWith, NewKeys, AnswersAreNewer
  <2>3. ASSUME NEW t \in Threads,
               \/ \E kid \in Kids : Resolve(t, kid)
               \/ Ready(t) \/ Recheck(t) \/ Expire(t) \/ GiveUp(t)
               \/ Lookup(t) \/ Return(t)
        PROVE  keys' = keys
    BY <2>3, ThreadSteps DEF Quiet, StartFetch, Wait, Finish
  <2>4. ASSUME NEW t \in Threads, Serve(t) \/ Fail(t)
        PROVE  keys' = keys
    BY <2>4 DEF Serve, Fail, cacheVars
  <2>5. CASE Tick \/ (\E d \in SUBSET Kids : Publish(d)) \/ UNCHANGED vars
    BY <2>5 DEF Tick, Publish, cacheVars, vars
  <2>. QED
    BY <2>1, <2>2, <2>3, <2>4, <2>5 DEF Next, Run
<1>. QED
  BY <1>1, Invariance, PTL DEF Spec, NoRollback

\* A kid in the cache is one of a document that was fetched.
LEMMA CachedIsFetched ==
    ASSUME IInv, NEW kid \in Cached
    PROVE  keys > 0 /\ kid \in docs[keys]
<1>1. keys # 0
  BY DEF Cached, KidsOf
<1>. QED
  BY <1>1 DEF Cached, KidsOf, IInv, TypeOK

\* No thread is given a key that the document in the cache at that moment does
\* not have (verifier.py:258-326).
THEOREM ServedIsCurrentHolds == Spec => ServedIsCurrent
<1> DEFINE Current == \A t \in Threads : pc[t] # "served" /\ pc'[t] = "served" =>
                          keys > 0 /\ want'[t] \in docs[keys]
<1>1. IInv /\ [Next]_vars => [Current]_vars
  <2> SUFFICES ASSUME IInv, [Next]_vars PROVE Current
    OBVIOUS
  <2> USE DEF IInv, TypeOK
  <2>1. ASSUME NEW t \in Threads, NEW kid \in Kids, Resolve(t, kid)
        PROVE  Current
    <3>1. want'[t] = kid /\ \A u \in Threads \ {t} : pc'[u] = pc[u]
      BY <2>1 DEF Resolve, Decide, StartFetch, Finish, Wait, Goto
    <3>2. pc'[t] = "served" => kid \in Cached
      BY <2>1 DEF Resolve, Decide, StartFetch, Finish, Wait, Goto
    <3>. QED
      BY <3>1, <3>2, CachedIsFetched
  <2>2. ASSUME NEW t \in Threads, Recheck(t) \/ Lookup(t)
        PROVE  Current
    <3>1. want' = want /\ \A u \in Threads \ {t} : pc'[u] = pc[u]
      BY <2>2 DEF Recheck, Lookup, Decide, StartFetch, Finish, Wait, Goto
    <3>2. pc'[t] = "served" => want[t] \in Cached
      BY <2>2 DEF Recheck, Lookup, Decide, StartFetch, Finish, Wait, Goto
    <3>. QED
      BY <3>1, <3>2, CachedIsFetched
  <2>3. ASSUME NEW t \in Threads, Ready(t) \/ Expire(t) \/ GiveUp(t) \/ Return(t)
        PROVE  Current
    BY <2>3 DEF Ready, Expire, GiveUp, Return, StartFetch, Finish, Goto
  <2>4. ASSUME NEW t \in Threads, Serve(t) \/ Fail(t)
        PROVE  Current
    BY <2>4 DEF Serve, Fail, Goto
  <2>5. ASSUME NEW t \in Threads, Install(t)
        PROVE  Current
    BY <2>5 DEF Install, InstallWith, AfterFetch
  <2>6. CASE Tick \/ (\E d \in SUBSET Kids : Publish(d)) \/ UNCHANGED vars
    BY <2>6 DEF Tick, Publish, threadVars, vars
  <2>. QED
    BY <2>1, <2>2, <2>3, <2>4, <2>5, <2>6 DEF Next, Run
<1>. QED
  BY <1>1, Invariance, PTL DEF Spec, ServedIsCurrent

\* The documents the issuer has published are not taken back.
LEMMA DocumentsGrow ==
    ASSUME IInv, [Next]_vars
    PROVE  docs' = docs \/ \E d \in SUBSET Kids : docs' = Append(docs, d)
<1>1. ASSUME NEW t \in Threads,
             \/ \E kid \in Kids : Resolve(t, kid)
             \/ Ready(t) \/ Serve(t) \/ Fail(t) \/ Run(t)
      PROVE  docs' = docs
  BY <1>1 DEF Resolve, Ready, Serve, Fail, Run, Recheck, Expire, GiveUp, Install,
              InstallWith, Lookup, Return
<1>. QED
  BY <1>1 DEF Next, Publish, Tick, vars

\* A key that was revoked stays revoked, for every thread and every order of the
\* answers (verifier.py:258-326).
THEOREM RevokedStaysRevokedHolds == Spec => RevokedStaysRevoked
<1> DEFINE Current == \A t \in Threads : pc[t] # "served" /\ pc'[t] = "served" =>
                          keys > 0 /\ want'[t] \in docs[keys]
           Revoked == \A kid \in Kids : Gone(kid) =>
                        /\ Gone(kid)' \/ (docs' # docs /\ kid \in docs'[Len(docs')])
                        /\ \A t \in Threads : pc[t] # "served" /\ pc'[t] = "served" =>
                             want'[t] # kid
<1>1. ASSUME IInv, [Next]_vars, [keys' >= keys]_vars, [Current]_vars
      PROVE  [Revoked]_vars
  <2> SUFFICES ASSUME ~UNCHANGED vars, NEW kid \in Kids, Gone(kid)
               PROVE  /\ Gone(kid)' \/ (docs' # docs /\ kid \in docs'[Len(docs')])
                      /\ \A t \in Threads : pc[t] # "served" /\ pc'[t] = "served" =>
                           want'[t] # kid
    OBVIOUS
  <2>1. /\ docs \in Seq(SUBSET Kids) /\ keys \in 0 .. Len(docs)
        /\ keys' \in Int /\ keys' >= keys /\ Current
    <3>1. IInv'
      BY <1>1, NextPreserves
    <3>. QED
      BY <1>1, <3>1 DEF IInv, TypeOK
  <2>2. ASSUME NEW t \in Threads, pc[t] # "served", pc'[t] = "served"
        PROVE  want'[t] # kid
    BY <2>1, <2>2 DEF Gone
  <2>3. CASE docs' = docs
    BY <2>1, <2>2, <2>3 DEF Gone
  <2>4. ASSUME NEW d \in SUBSET Kids, docs' = Append(docs, d)
        PROVE  Gone(kid)' \/ (docs' # docs /\ kid \in docs'[Len(docs')])
    <3>1. /\ Len(docs') = Len(docs) + 1 /\ docs'[Len(docs')] = d
          /\ \A i \in 1 .. Len(docs) : docs'[i] = docs[i]
      BY <2>1, <2>4
    <3>2. CASE kid \in d
      BY <3>1, <3>2
    <3>3. CASE kid \notin d
      <4>1. ASSUME NEW i \in 1 .. Len(docs'), i >= keys'
            PROVE  kid \notin docs'[i]
        <5>1. CASE i = Len(docs')
          BY <3>1, <3>3, <5>1
        <5>2. CASE i # Len(docs')
          <6>1. i \in 1 .. Len(docs) /\ i >= keys
            BY <2>1, <3>1, <4>1, <5>2
          <6>. QED
            BY <3>1, <6>1 DEF Gone
        <5>. QED
          BY <5>1, <5>2
      <4>. QED
        BY <4>1 DEF Gone
    <3>. QED
      BY <3>2, <3>3
  <2>. QED
    BY <1>1, <2>2, <2>3, <2>4, DocumentsGrow
<1>. QED
  BY <1>1, NoRollbackHolds, ServedIsCurrentHolds, Invariance, PTL
     DEF Spec, NoRollback, ServedIsCurrent, RevokedStaysRevoked

\* Only an installation brings readiness back: every other step keeps the kids
\* of the cache, and at best keeps the age of the last success.
LEMMA NeverReadyByItself ==
    ASSUME IInv, ~ReadyNow, keys' = keys,
           keys' # 0 => docs'[keys] = docs[keys],
           sinceSuccess' \in Int, sinceSuccess' >= sinceSuccess
    PROVE  ~ReadyNow'
<1>1. Cached' = Cached
  BY DEF Cached, KidsOf
<1>2. TTL \in Int /\ sinceSuccess \in Int
  BY JwksAssumption DEF IInv, TypeOK, Age, Never
<1>. QED
  BY <1>1, <1>2 DEF ReadyNow

\* ready() goes from no to yes only when the fetch of some thread ends with
\* usable keys, which are then the cache: "a failed refresh can never report
\* healthy" (verifier.py:171-172, 204-213).
THEOREM ReadinessEarnedHolds == Spec => ReadinessEarned
<1> DEFINE Earned == ReadyNow' /\ ~ReadyNow =>
                        \E t \in Fetchers : keys' = resp[t] /\ KidsOf(resp[t]) # {}
<1>1. IInv /\ [Next]_vars => [Earned]_vars
  <2> SUFFICES ASSUME IInv, [Next]_vars, ~ReadyNow, ReadyNow'
               PROVE  \E t \in Fetchers : keys' = resp[t] /\ KidsOf(resp[t]) # {}
    OBVIOUS
  <2> USE DEF IInv
  <2>1. sinceSuccess \in Int /\ Horizon \in Int /\ docs \in Seq(SUBSET Kids)
    BY JwksAssumption DEF TypeOK, Age, Never
  <2>2. ASSUME keys' = keys, docs' = docs, sinceSuccess' = sinceSuccess
        PROVE  FALSE
    BY <2>1, <2>2, NeverReadyByItself
  <2>3. ASSUME NEW t \in Threads,
               \/ \E kid \in Kids : Resolve(t, kid)
               \/ Ready(t) \/ Recheck(t) \/ Expire(t) \/ GiveUp(t)
               \/ Lookup(t) \/ Return(t)
        PROVE  FALSE
    BY <2>2, <2>3, ThreadSteps DEF Quiet, StartFetch, Wait, Finish
  <2>4. ASSUME NEW t \in Threads, Serve(t) \/ Fail(t)
        PROVE  FALSE
    BY <2>2, <2>4 DEF Serve, Fail, cacheVars
  <2>5. ASSUME NEW t \in Threads, Install(t)
        PROVE  \E u \in Fetchers : keys' = resp[u] /\ KidsOf(resp[u]) # {}
    <3>1. /\ pc[t] = "responded" /\ docs' = docs
          /\ keys' = NewKeys(t) /\ sinceSuccess' = NewSuccess(t)
      BY <2>5 DEF Install, InstallWith
    <3>2. t \in Fetchers
      BY <3>1 DEF Fetchers
    <3>3. CASE resp[t] = 0
      BY <2>2, <3>1, <3>3 DEF NewKeys, NewSuccess, KidsOf
    <3>4. CASE resp[t] # 0
      <4>1. keys' = resp[t] /\ Cached' = KidsOf(resp[t])
        BY <3>1, <3>4 DEF NewKeys, Cached, KidsOf
      <4>. QED
        BY <3>2, <4>1 DEF ReadyNow
    <3>. QED
      BY <3>3, <3>4
  <2>6. ASSUME NEW d \in SUBSET Kids, Publish(d)
        PROVE  FALSE
    <3>1. keys' = keys /\ sinceSuccess' = sinceSuccess /\ docs' = Append(docs, d)
      BY <2>6 DEF Publish, cacheVars
    <3>2. keys # 0 => keys \in 1 .. Len(docs)
      BY DEF TypeOK
    <3>3. keys' # 0 => docs'[keys] = docs[keys]
      BY <2>1, <3>1, <3>2
    <3>4. sinceSuccess' \in Int /\ sinceSuccess' >= sinceSuccess
      BY <2>1, <3>1
    <3>. QED
      BY <3>1, <3>3, <3>4, NeverReadyByItself
  <2>7. CASE Tick
    <3>1. /\ keys' = keys /\ docs' = docs /\ sinceSuccess' \in Int
          /\ sinceSuccess' >= sinceSuccess
      BY <2>1, <2>7 DEF Tick, Older
    <3>. QED
      BY <3>1, NeverReadyByItself
  <2>8. CASE UNCHANGED vars
    BY <2>2, <2>8 DEF vars
  <2>. QED
    BY <2>3, <2>4, <2>5, <2>6, <2>7, <2>8 DEF Next, Run
<1>. QED
  BY <1>1, Invariance, PTL DEF Spec, ReadinessEarned

-----------------------------------------------------------------------------
(* The safety half of WaitersServed.                                       *)

\* No fetch has been started since the one that woke whoever is awake.
AfterWake ==
    (\E t \in Threads : pc[t] = "woken") => ~refreshing /\ sinceFetch = 0

\* From the moment a waiter is woken with its kid in the cache until it is served,
\* nobody takes the kid away (verifier.py:269-291).
KeptUntilServed ==
    [][\A t \in Threads : pc[t] = "woken" /\ want[t] \in Cached =>
          \/ pc'[t] = "served"
          \/ pc'[t] = "woken" /\ want'[t] = want[t] /\ want'[t] \in Cached']_vars

\* The cooldown keeps every thread from fetching while somebody is awake.
LEMMA AfterWakeStep ==
    ASSUME PromptWake, TTL > 0, MinInterval > 0, IInv, AfterWake, [Next]_vars
    PROVE  AfterWake'
<1> USE DEF IInv
<1> SUFFICES ASSUME NEW w \in Threads, pc'[w] = "woken"
             PROVE  ~refreshing' /\ sinceFetch' = 0
  BY DEF AfterWake
<1>1. ASSUME pc[w] = "woken", UNCHANGED cacheVars
      PROVE  ~refreshing' /\ sinceFetch' = 0
  BY <1>1 DEF AfterWake, cacheVars
<1>2. ASSUME NEW t \in Threads,
             \/ \E kid \in Kids : Resolve(t, kid)
             \/ Ready(t) \/ Recheck(t) \/ Expire(t) \/ GiveUp(t)
             \/ Lookup(t) \/ Return(t)
      PROVE  ~refreshing' /\ sinceFetch' = 0
  <2>1. Quiet(t)
    BY <1>2, ThreadSteps
  <2>2. CASE StartFetch(t) /\ ~refreshing /\ (MayFetch \/ sinceFetch >= MinInterval)
    <3>1. pc[w] = "woken"
      BY <2>2 DEF StartFetch, Goto, TypeOK
    <3>2. sinceFetch = 0
      BY <3>1 DEF AfterWake
    <3>. QED
      BY <2>2, <3>2, JwksAssumption DEF MayFetch, Never
  <2>3. CASE Wait(t) /\ refreshing
    <3>1. pc[w] = "woken"
      BY <2>3 DEF Wait, Goto, TypeOK
    <3>. QED
      BY <2>3, <3>1 DEF AfterWake
  <2>4. CASE \E p \in Outcomes \cup {"expired", "idle"} : Finish(t, p)
    <3>1. pc[w] = "woken" /\ UNCHANGED cacheVars
      BY <2>4 DEF Finish, Goto, TypeOK, Outcomes, cacheVars
    <3>. QED
      BY <1>1, <3>1
  <2>. QED
    BY <2>1, <2>2, <2>3, <2>4 DEF Quiet
<1>3. ASSUME NEW t \in Threads, Serve(t) \/ Fail(t)
      PROVE  ~refreshing' /\ sinceFetch' = 0
  <2>1. pc[w] = "woken" /\ UNCHANGED cacheVars
    BY <1>3 DEF Serve, Fail, Goto, TypeOK
  <2>. QED
    BY <1>1, <2>1
<1>4. ASSUME NEW t \in Threads, Install(t)
      PROVE  ~refreshing' /\ sinceFetch' = 0
  BY <1>4 DEF Install, InstallWith
<1>5. CASE Tick
  BY <1>5 DEF Tick
<1>6. CASE (\E d \in SUBSET Kids : Publish(d)) \/ UNCHANGED vars
  <2>1. pc[w] = "woken" /\ UNCHANGED cacheVars
    BY <1>6 DEF Publish, threadVars, cacheVars, vars
  <2>. QED
    BY <1>1, <2>1
<1>. QED
  BY <1>2, <1>3, <1>4, <1>5, <1>6 DEF Next, Run

\* A woken waiter whose kid is in the cache finds it there when it looks, whatever
\* other threads do meanwhile, if it gets the lock before the cooldown is over
\* (PromptWake and a cooldown of a tick) and the cache is used at all
\* (verifier.py:269-291).
THEOREM KeptUntilServedHolds ==
    ASSUME PromptWake, TTL > 0, MinInterval > 0
    PROVE  Spec => KeptUntilServed
<1> DEFINE Kept == \A t \in Threads : pc[t] = "woken" /\ want[t] \in Cached =>
                      \/ pc'[t] = "served"
                      \/ pc'[t] = "woken" /\ want'[t] = want[t] /\ want'[t] \in Cached'
<1>1. Init => AfterWake
  BY DEF Init, AfterWake
<1>2. IInv /\ AfterWake /\ [Next]_vars => [Kept]_vars
  <2> SUFFICES ASSUME IInv, AfterWake, [Next]_vars,
                      NEW w \in Threads, pc[w] = "woken", want[w] \in Cached
               PROVE  \/ pc'[w] = "served"
                      \/ pc'[w] = "woken" /\ want'[w] = want[w] /\ want'[w] \in Cached'
    OBVIOUS
  <2> USE DEF IInv
  <2>1. ASSUME docs' = docs, keys' = keys, pc'[w] = pc[w], want'[w] = want[w]
        PROVE  pc'[w] = "woken" /\ want'[w] = want[w] /\ want'[w] \in Cached'
    BY <2>1, CachedUnchanged
  <2>2. ASSUME NEW t \in Threads \ {w},
               \/ \E kid \in Kids : Resolve(t, kid)
               \/ Ready(t) \/ Recheck(t) \/ Expire(t) \/ GiveUp(t)
               \/ Lookup(t) \/ Return(t)
        PROVE  pc'[w] = "woken" /\ want'[w] = want[w] /\ want'[w] \in Cached'
    <3>1. Quiet(t)
      BY <2>2, ThreadSteps
    <3>2. docs' = docs /\ keys' = keys /\ want'[w] = want[w] /\ pc'[w] = pc[w]
      BY <3>1 DEF Quiet, StartFetch, Wait, Finish, Goto, TypeOK
    <3>. QED
      BY <2>1, <3>2
  <2>3. CASE Recheck(w)
    BY <2>3 DEF Recheck, Finish, Goto, TypeOK
  <2>4. ~(\/ \E kid \in Kids : Resolve(w, kid)
          \/ Ready(w) \/ Expire(w) \/ GiveUp(w) \/ Lookup(w) \/ Return(w))
    BY DEF Resolve, Ready, Expire, GiveUp, Lookup, Return, Outcomes
  <2>5. ASSUME NEW t \in Threads, Serve(t) \/ Fail(t)
        PROVE  pc'[w] = "woken" /\ want'[w] = want[w] /\ want'[w] \in Cached'
    <3>1. docs' = docs /\ keys' = keys /\ want'[w] = want[w] /\ pc'[w] = pc[w]
      BY <2>5 DEF Serve, Fail, Goto, cacheVars, TypeOK
    <3>. QED
      BY <2>1, <3>1
  <2>6. ASSUME NEW t \in Threads, Install(t)
        PROVE  FALSE
    <3>1. t \in Fetchers
      BY <2>6 DEF Install, InstallWith, Fetchers
    <3>. QED
      BY <3>1 DEF AfterWake, SingleFlight
  <2>7. ASSUME NEW d \in SUBSET Kids, Publish(d)
        PROVE  pc'[w] = "woken" /\ want'[w] = want[w] /\ want'[w] \in Cached'
    <3>1. /\ keys' = keys /\ docs' = Append(docs, d) /\ pc' = pc /\ want' = want
          /\ docs \in Seq(SUBSET Kids) /\ (keys # 0 => keys \in 1 .. Len(docs))
      BY <2>7 DEF Publish, cacheVars, threadVars, TypeOK
    <3>2. Cached' = Cached
      BY <3>1 DEF Cached, KidsOf
    <3>. QED
      BY <3>1, <3>2
  <2>8. CASE Tick
    BY <2>8 DEF Tick
  <2>9. CASE UNCHANGED vars
    BY <2>1, <2>9 DEF vars
  <2>. QED
    BY <2>2, <2>3, <2>4, <2>5, <2>6, <2>7, <2>8, <2>9 DEF Next, Run
<1>. QED
  BY <1>1, <1>2, AfterWakeStep, Invariance, PTL DEF Spec, KeptUntilServed

-----------------------------------------------------------------------------
(* How often the issuer is asked.                                          *)

\* Where a fetch may start, the pause since the last one is long enough,
\* provided the cache does not expire before the cooldown is over
\* (verifier.py:281-291).
LEMMA StartsAreApart ==
    ASSUME IInv, TTL >= MinInterval, ~refreshing,
           MayFetch \/ sinceFetch >= MinInterval
    PROVE  sinceFetch >= MinInterval /\ sinceStart >= MinInterval
  BY JwksAssumption DEF IInv, TypeOK, AgesOrdered, MayFetch, Age, Never

\* Fetches start at least MinInterval apart, whatever the callers ask for, when
\* TTL >= MinInterval (verifier.py:15-20).
THEOREM FetchRateHolds == ASSUME TTL >= MinInterval PROVE Spec => FetchRate
<1> DEFINE Apart == \A t \in Threads :
        pc[t] # "fetching" /\ pc'[t] = "fetching" => sinceStart >= MinInterval
<1>1. IInv /\ [Next]_vars => [Apart]_vars
  <2> SUFFICES ASSUME IInv, [Next]_vars PROVE Apart
    OBVIOUS
  <2> USE DEF IInv, TypeOK
  <2>1. ASSUME NEW t \in Threads,
               \/ \E kid \in Kids : Resolve(t, kid)
               \/ Ready(t) \/ Recheck(t) \/ Expire(t) \/ GiveUp(t)
               \/ Lookup(t) \/ Return(t)
        PROVE  Apart
    <3>1. Quiet(t)
      BY <2>1, ThreadSteps
    <3>2. CASE StartFetch(t) /\ ~refreshing /\ (MayFetch \/ sinceFetch >= MinInterval)
      BY <3>2, StartsAreApart
    <3>3. CASE Wait(t)
      BY <3>3 DEF Wait, Goto
    <3>4. CASE \E p \in Outcomes \cup {"expired", "idle"} : Finish(t, p)
      BY <3>4 DEF Finish, Goto, Outcomes
    <3>. QED
      BY <3>1, <3>2, <3>3, <3>4 DEF Quiet
  <2>2. ASSUME NEW t \in Threads, Serve(t) \/ Fail(t)
        PROVE  Apart
    BY <2>2 DEF Serve, Fail, Goto
  <2>3. ASSUME NEW t \in Threads, Install(t)
        PROVE  Apart
    BY <2>3 DEF Install, InstallWith, AfterFetch
  <2>4. CASE Tick \/ (\E d \in SUBSET Kids : Publish(d)) \/ UNCHANGED vars
    BY <2>4 DEF Tick, Publish, threadVars, vars
  <2>. QED
    BY <2>1, <2>2, <2>3, <2>4 DEF Next, Run
<1>. QED
  BY <1>1, Invariance, PTL DEF Spec, FetchRate

-----------------------------------------------------------------------------
(* The refinement.                                                         *)

\* A thread that neither had a fetch nor gets one is invisible to the cycle.
LEMMA SameStage ==
    ASSUME IInv, resp' = resp,
           \A u \in Threads : (pc[u] \in {"fetching", "responded"} \/
                               pc'[u] \in {"fetching", "responded"}) => pc'[u] = pc[u]
    PROVE  StageOf' = StageOf /\ AnswerOf' = AnswerOf
<1>1. Fetchers' = Fetchers /\ Responded' = Responded
  BY DEF Fetchers, Responded
<1>. QED
  BY <1>1 DEF StageOf, AnswerOf

\* With one fetch in flight, the answer of the cycle is that of its thread.
LEMMA AnswerOfThread ==
    ASSUME NEW t \in Threads, pc[t] = "responded", SingleFlight
    PROVE  StageOf = "answered" /\ AnswerOf = resp[t]
<1>1. Responded = {t} /\ Fetchers # {}
  BY DEF SingleFlight, Fetchers, Responded
<1>. QED
  BY <1>1 DEF StageOf, AnswerOf

\* The verifier's initial states are those of the cycle.
LEMMA RefinesInit == Init => Cycle!Init
<1> SUFFICES ASSUME Init PROVE Cycle!Init
  OBVIOUS
<1>1. Fetchers = {} /\ Responded = {}
  BY DEF Init, Fetchers, Responded
<1>. QED
  BY <1>1 DEF Init, Cycle!Init, StageOf, AnswerOf, Never

\* Every step of the verifier is a step of the cycle or leaves it unchanged.
LEMMA RefinesNext ==
    ASSUME TTL >= MinInterval, IInv, IInv', [Next]_vars
    PROVE  [Cycle!Next]_(Cycle!vars)
<1> USE DEF IInv
<1>1. ASSUME NEW t \in Threads,
             \/ \E kid \in Kids : Resolve(t, kid)
             \/ Ready(t) \/ Recheck(t) \/ Expire(t) \/ GiveUp(t)
             \/ Lookup(t) \/ Return(t)
      PROVE  Cycle!Ask \/ UNCHANGED Cycle!vars
  <2>1. Quiet(t) /\ pc[t] \notin {"fetching", "responded"}
    BY <1>1, ThreadSteps
  <2>2. CASE StartFetch(t) /\ ~refreshing /\ (MayFetch \/ sinceFetch >= MinInterval)
    <3>1. Fetchers = {} /\ Responded = {}
      BY <2>2 DEF SingleFlight, Fetchers, Responded
    <3>2. Fetchers' # {} /\ Responded' = {}
      BY <2>1, <2>2, <3>1 DEF StartFetch, Goto, TypeOK, Fetchers, Responded
    <3>. QED
      BY <2>1, <2>2, <3>1, <3>2, StartsAreApart
         DEF StartFetch, Quiet, Cycle!Ask, StageOf, AnswerOf
  <2>3. CASE Wait(t) \/ \E p \in Outcomes \cup {"expired", "idle"} : Finish(t, p)
    <3>1. StageOf' = StageOf /\ AnswerOf' = AnswerOf
      BY <2>1, <2>3, SameStage DEF Wait, Finish, Goto, Quiet, TypeOK, Outcomes
    <3>. QED
      BY <2>1, <2>3, <3>1 DEF Wait, Finish, Quiet, Cycle!vars
  <2>. QED
    BY <2>1, <2>2, <2>3 DEF Quiet
<1>2. ASSUME NEW t \in Threads, Serve(t) \/ Fail(t)
      PROVE  Cycle!Answer
  <2>1. pc[t] = "fetching" /\ pc'[t] = "responded" /\ resp'[t] \in {0, Len(docs)}
    BY <1>2 DEF Serve, Fail, Goto, TypeOK
  <2>2. StageOf = "asked"
    BY <2>1 DEF SingleFlight, StageOf, Fetchers, Responded
  <2>3. StageOf' = "answered" /\ AnswerOf' = resp'[t]
    <3>1. pc'[t] = "responded" /\ SingleFlight'
      BY <2>1
    <3>2. Responded' = {t} /\ Fetchers' # {}
      BY <3>1 DEF SingleFlight, Fetchers, Responded
    <3>. QED
      BY <3>2 DEF StageOf, AnswerOf
  <2>. QED
    BY <1>2, <2>1, <2>2, <2>3 DEF Serve, Fail, cacheVars, Cycle!Answer
<1>3. ASSUME NEW t \in Threads, Install(t)
      PROVE  Cycle!Apply
  <2>1. StageOf = "answered" /\ AnswerOf = resp[t]
    BY <1>3, AnswerOfThread DEF Install, InstallWith
  <2>2. Fetchers' = {} /\ Responded' = {}
    BY <1>3 DEF Install, InstallWith, SingleFlight, Fetchers, Responded
  <2>3. StageOf' = "none" /\ AnswerOf' = 0
    BY <2>2 DEF StageOf, AnswerOf
  <2>. QED
    BY <1>3, <2>1, <2>3 DEF Install, InstallWith, NewKeys, Cycle!Apply
<1>4. ASSUME NEW d \in SUBSET Kids, Publish(d)
      PROVE  Cycle!Publish(d)
  BY <1>4, SameStage DEF Publish, cacheVars, threadVars, Cycle!Publish
<1>5. CASE Tick
  BY <1>5, SameStage DEF Tick, Older, Cycle!Pass, Cycle!Next
<1>6. CASE UNCHANGED vars
  BY <1>6, SameStage DEF vars, Cycle!vars
<1>. QED
  BY <1>1, <1>2, <1>3, <1>4, <1>5, <1>6 DEF Next, Run, Cycle!Next

\* The verifier implements the refresh cycle when TTL >= MinInterval
\* (verifier.py:175-326).
THEOREM Refinement == ASSUME TTL >= MinInterval PROVE Spec => ImplementsCycle
<1>1. IInv /\ IInv' /\ [Next]_vars => [Cycle!Next]_(Cycle!vars)
  BY RefinesNext
<1>. QED
  BY <1>1, RefinesInit, Invariance, PTL DEF Spec, ImplementsCycle, Cycle!Spec

=============================================================================
