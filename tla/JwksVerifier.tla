---------------------------- MODULE JwksVerifier ----------------------------
(***************************************************************************)
(* The JWKS cache of JwksVerifier (src/mcp_gateway/verifier.py): worker    *)
(* threads call _resolve_key (token verification) and ready (the readiness *)
(* probe) concurrently; one lock and one condition variable guard the      *)
(* cache; the network fetch runs outside the lock.                         *)
(*                                                                         *)
(* A critical section of the lock is one action, because no other thread   *)
(* can run inside it.  Everything that happens between two critical        *)
(* sections (the fetch, a sleep on the condition, the return to the        *)
(* caller) is a separate action.                                           *)
(*                                                                         *)
(* Time is kept as ages that saturate at Horizon, which is beyond every    *)
(* threshold the code compares with, so that time is unbounded and the     *)
(* state space is finite.  Never, one above Horizon, is float("-inf").     *)
(***************************************************************************)
EXTENDS Integers, Sequences, FiniteSets

CONSTANTS
    Threads,        \* worker threads that run verify() or ready()
    Kids,           \* key identifiers that tokens and documents name
    Probe,          \* what a thread wants that runs ready(): no kid
    TTL,            \* cache_ttl
    MinInterval,    \* min_refresh_interval
    WaitTimeout,    \* fetch_timeout + 1.0, the bound of one wait()
    Horizon,        \* where ages saturate
    MaxDocs,        \* bound on the documents the issuer publishes
    PromptWake      \* TRUE: a notified thread gets the lock within a tick

ASSUME JwksAssumption ==
    /\ Probe \notin Kids
    /\ TTL \in Nat /\ MinInterval \in Nat /\ WaitTimeout \in Nat
    /\ Horizon \in Nat /\ Horizon > TTL /\ Horizon >= MinInterval
    /\ MaxDocs \in Nat \ {0}
    /\ PromptWake \in BOOLEAN

VARIABLES
    docs,           \* documents the issuer has published, the last is current
    keys,           \* _keys: index of the cached document, 0 for the initial {}
    refreshing,     \* _refreshing
    sinceFetch,     \* now - _last_fetch
    sinceSuccess,   \* now - _last_success
    sinceStart,     \* history: time since a fetch was last started
    pc,             \* where each thread is; outcomes are program points too
    want,           \* the kid the thread resolves, or Probe
    resp,           \* new_keys of a fetch that has ended: a document, 0 = None
    waited          \* how long the current wait() has lasted

cacheVars  == <<keys, refreshing, sinceFetch, sinceSuccess>>
threadVars == <<pc, want, resp, waited>>
vars == <<docs, keys, refreshing, sinceFetch, sinceSuccess, sinceStart,
          pc, want, resp, waited>>

Never == Horizon + 1
Age   == 0 .. Never

\* How a call ends.  "rejected" is TokenError("no matching signing key"),
\* "failed" a TokenError of the caller's own fetch, "timeout" that of wait().
Outcomes == {"served", "rejected", "failed", "timeout", "up", "down"}
Points   == Outcomes \cup
    {"idle", "waiting", "woken", "expired", "fetching", "responded", "lookup"}

\* Fault: new keys are added to the old ones.
KidsOfMerged(i) == UNION {docs[j] : j \in 1 .. i}

\* One document is a set of usable kids; the empty one revokes every key.
KidsOf(i) == IF i = 0 THEN {} ELSE docs[i]
Cached    == KidsOf(keys)

Init ==
    /\ docs \in {<<d>> : d \in SUBSET Kids}
    /\ keys = 0
    /\ refreshing = FALSE
    /\ sinceFetch = Never
    /\ sinceSuccess = Never
    /\ sinceStart = Never
    /\ pc = [t \in Threads |-> "idle"]
    /\ want = [t \in Threads |-> Probe]
    /\ resp = [t \in Threads |-> 0]
    /\ waited = [t \in Threads |-> 0]

-----------------------------------------------------------------------------
(* The decisions taken under the lock.                                     *)

\* Fault: the age of the cache is never looked at.
FreshForever == TTL > 0

Fresh == TTL > 0 /\ sinceFetch <= TTL

\* Fault: every miss may fetch.
MayFetchAlways == TRUE

MayFetch ==
    \/ sinceFetch = Never                   \* cold
    \/ TTL = 0 \/ sinceFetch > TTL          \* ttl_expired
    \/ sinceFetch >= MinInterval            \* cooldown_elapsed
ReadyNow == Cached # {} /\ TTL > 0 /\ sinceSuccess <= TTL

Goto(t, p) == pc' = [pc EXCEPT ![t] = p]

StartFetch(t) ==
    /\ refreshing' = TRUE
    /\ sinceStart' = 0
    /\ Goto(t, "fetching")
    /\ waited' = [waited EXCEPT ![t] = 0]
    /\ UNCHANGED <<keys, sinceFetch, sinceSuccess>>

Finish(t, p) ==
    /\ Goto(t, p)
    /\ waited' = [waited EXCEPT ![t] = 0]
    /\ UNCHANGED <<keys, refreshing, sinceFetch, sinceSuccess, sinceStart>>

Wait(t) ==
    /\ Goto(t, "waiting")
    /\ waited' = [waited EXCEPT ![t] = 0]
    /\ UNCHANGED <<keys, refreshing, sinceFetch, sinceSuccess, sinceStart>>

\* No refresh is in flight: start one, or answer from the cache.
Decide(t, kid) ==
    IF MayFetch THEN StartFetch(t)
    ELSE Finish(t, IF kid \in Cached THEN "served" ELSE "rejected")

-----------------------------------------------------------------------------
(* The calls.                                                              *)

\* _resolve_key up to the first time it leaves the lock.
Resolve(t, kid) ==
    /\ pc[t] = "idle"
    /\ want' = [want EXCEPT ![t] = kid]
    /\ \/ /\ kid \in Cached
          /\ Fresh \/ refreshing
          /\ Finish(t, "served")
       \/ /\ kid \notin Cached
          /\ refreshing
          /\ Wait(t)
       \/ /\ ~refreshing
          /\ ~(kid \in Cached /\ Fresh)
          /\ Decide(t, kid)
    /\ UNCHANGED <<docs, resp>>

\* Fault: "if" for "while", the state of the refresh is not looked at again.
RecheckOnce(t) ==
    /\ pc[t] = "woken"
    /\ IF want[t] \in Cached THEN Finish(t, "served") ELSE Decide(t, want[t])
    /\ UNCHANGED <<docs, want, resp>>

\* wait() returned True: the loop of _resolve_key goes round once.
Recheck(t) ==
    /\ pc[t] = "woken"
    /\ IF want[t] \in Cached THEN Finish(t, "served")
       ELSE IF refreshing THEN Wait(t)
       ELSE Decide(t, want[t])
    /\ UNCHANGED <<docs, want, resp>>

\* Fault: the bound on wait() is one tick beyond what it ever reaches.
ExpireLate(t) ==
    /\ pc[t] = "waiting"
    /\ waited[t] > WaitTimeout
    /\ Finish(t, "expired")
    /\ UNCHANGED <<docs, want, resp>>

\* wait() gives up on the condition; the lock is not held yet.
Expire(t) ==
    /\ pc[t] = "waiting"
    /\ waited[t] = WaitTimeout
    /\ Finish(t, "expired")
    /\ UNCHANGED <<docs, want, resp>>

\* wait() returned False: the caller raises, whatever the cache holds by now.
GiveUp(t) ==
    /\ pc[t] = "expired"
    /\ Finish(t, "timeout")
    /\ UNCHANGED <<docs, want, resp>>

\* Fault: a probe does not respect the cooldown.
ReadyNoCooldown(t) ==
    /\ pc[t] = "idle"
    /\ want' = [want EXCEPT ![t] = Probe]
    /\ IF ReadyNow THEN Finish(t, "up")
       ELSE IF refreshing THEN Finish(t, "down")
       ELSE StartFetch(t)
    /\ UNCHANGED <<docs, resp>>

\* ready up to the first time it leaves the lock.
Ready(t) ==
    /\ pc[t] = "idle"
    /\ want' = [want EXCEPT ![t] = Probe]
    /\ IF ReadyNow THEN Finish(t, "up")
       ELSE IF refreshing \/ sinceFetch < MinInterval THEN Finish(t, "down")
       ELSE StartFetch(t)
    /\ UNCHANGED <<docs, resp>>

-----------------------------------------------------------------------------
(* The fetch.                                                              *)

\* The issuer answers with the document that is current at this moment.
Serve(t) ==
    /\ pc[t] = "fetching"
    /\ Goto(t, "responded")
    /\ resp' = [resp EXCEPT ![t] = Len(docs)]
    /\ UNCHANGED <<docs, cacheVars, sinceStart, want, waited>>

\* Connection error, timeout, refused scheme or a body _parse_jwks rejects.
Fail(t) ==
    /\ pc[t] = "fetching"
    /\ Goto(t, "responded")
    /\ resp' = [resp EXCEPT ![t] = 0]
    /\ UNCHANGED <<docs, cacheVars, sinceStart, want, waited>>

\* Where a caller goes when its fetch is over.
AfterFetch(t) ==
    LET usable == KidsOf(resp[t]) # {} IN
    IF want[t] = Probe THEN (IF usable THEN "up" ELSE "down")
    ELSE IF usable THEN "lookup" ELSE "failed"

\* The finally block: the ages and the cache it sets, and whom it wakes.
InstallWith(t, age, success, cache, wake) ==
    /\ pc[t] = "responded"
    /\ refreshing' = FALSE
    /\ sinceFetch' = age
    /\ keys' = cache
    /\ sinceSuccess' = success
    /\ pc' = [u \in Threads |->
                IF u = t THEN AfterFetch(t)
                ELSE IF pc[u] = "waiting" /\ u \in wake THEN "woken"
                ELSE pc[u]]
    /\ resp' = [resp EXCEPT ![t] = 0]
    /\ UNCHANGED <<docs, sinceStart, want, waited>>

NewKeys(t)    == IF resp[t] = 0 THEN keys ELSE resp[t]
NewSuccess(t) == IF KidsOf(resp[t]) = {} THEN sinceSuccess ELSE 0

\* Faults: notify() for notify_all(); a failed fetch clears the cache, does not
\* start the cooldown, or counts as a success; a probe does not set _last_fetch;
\* _last_fetch is set ahead of time, to when the next fetch could end.
InstallNotifyOne(t) ==
    \E w \in Threads : InstallWith(t, 0, NewSuccess(t), NewKeys(t), {w})
InstallClearing(t) ==
    InstallWith(t, 0, NewSuccess(t), resp[t], Threads)
InstallNoPenalty(t) ==
    InstallWith(t, IF resp[t] = 0 THEN sinceFetch ELSE 0,
                NewSuccess(t), NewKeys(t), Threads)
InstallAnySuccess(t) ==
    InstallWith(t, 0, 0, NewKeys(t), Threads)
InstallProbeSilent(t) ==
    InstallWith(t, IF want[t] = Probe THEN sinceFetch ELSE 0,
                NewSuccess(t), NewKeys(t), Threads)
InstallAhead(t) ==
    InstallWith(t, 0 - WaitTimeout, NewSuccess(t), NewKeys(t), Threads)

\* The finally block of _resolve_key and of ready, which are the same.
Install(t) == InstallWith(t, 0, NewSuccess(t), NewKeys(t), Threads)

\* Fault: the caller asks again, at once, when its kid was not in the answer.
LookupAgain(t) ==
    /\ pc[t] = "lookup"
    /\ ~refreshing
    /\ IF want[t] \in Cached THEN Finish(t, "served") ELSE StartFetch(t)
    /\ UNCHANGED <<docs, want, resp>>

\* The second critical section after a fetch that went well.
Lookup(t) ==
    /\ pc[t] = "lookup"
    /\ Finish(t, IF want[t] \in Cached THEN "served" ELSE "rejected")
    /\ UNCHANGED <<docs, want, resp>>

\* The rest of verify(), which uses the key without the lock.
Return(t) ==
    /\ pc[t] \in Outcomes
    /\ Finish(t, "idle")
    /\ want' = [want EXCEPT ![t] = Probe]
    /\ UNCHANGED <<docs, resp>>

-----------------------------------------------------------------------------
(* The environment.                                                        *)

\* The issuer rotates, revokes or restores keys.
Publish(d) ==
    /\ Len(docs) < MaxDocs
    /\ docs' = Append(docs, d)
    /\ UNCHANGED <<cacheVars, sinceStart, threadVars>>

Older(age) == IF age >= Horizon THEN age ELSE age + 1

Tick ==
    /\ PromptWake => \A t \in Threads : pc[t] # "woken"
    /\ sinceFetch' = Older(sinceFetch)
    /\ sinceSuccess' = Older(sinceSuccess)
    /\ sinceStart' = Older(sinceStart)
    /\ waited' = [t \in Threads |->
                    IF pc[t] = "waiting" /\ waited[t] < WaitTimeout
                    THEN waited[t] + 1 ELSE waited[t]]
    /\ UNCHANGED <<docs, keys, refreshing, pc, want, resp>>

\* What a thread does once a call is under way, the fetch left out.
Run(t) ==
    \/ Recheck(t) \/ Expire(t) \/ GiveUp(t)
    \/ Install(t) \/ Lookup(t) \/ Return(t)

Next ==
    \/ \E t \in Threads :
        \/ \E kid \in Kids : Resolve(t, kid)
        \/ Ready(t) \/ Serve(t) \/ Fail(t) \/ Run(t)
    \/ \E d \in SUBSET Kids : Publish(d)
    \/ Tick

Spec == Init /\ [][Next]_vars

-----------------------------------------------------------------------------
(* Fairness.                                                               *)

\* The operating system schedules every thread and time passes.
Scheduling == (\A t \in Threads : WF_vars(Run(t))) /\ WF_vars(Tick)

\* urlopen ends: with an answer, or with the timeout it is given.
FetchEnds == \A t \in Threads : WF_vars(Serve(t) \/ Fail(t))

\* An issuer that is asked again and again answers again and again.
IssuerRecovers == \A t \in Threads : SF_vars(Serve(t))

\* Tokens naming every kid keep arriving.
Traffic == \A kid \in Kids : SF_vars(\E t \in Threads : Resolve(t, kid))

FairSpec == Spec /\ Scheduling /\ FetchEnds

-----------------------------------------------------------------------------
(* Properties.                                                             *)

\* Every variable keeps its type; an age is Never or has saturated.
TypeOK ==
    /\ docs \in Seq(SUBSET Kids) /\ Len(docs) \in 1 .. MaxDocs
    /\ keys \in 0 .. Len(docs)
    /\ refreshing \in BOOLEAN
    /\ sinceFetch \in Age /\ sinceSuccess \in Age /\ sinceStart \in Age
    /\ pc \in [Threads -> Points]
    /\ want \in [Threads -> Kids \cup {Probe}]
    /\ resp \in [Threads -> 0 .. Len(docs)]
    /\ waited \in [Threads -> 0 .. WaitTimeout]

\* "True while exactly one thread is fetching the JWKS" (verifier.py:161): the
\* flag is up exactly when some thread owns the fetch, and never two do.
Fetchers == {t \in Threads : pc[t] \in {"fetching", "responded"}}
SingleFlight ==
    /\ refreshing <=> Fetchers # {}
    /\ \A t, u \in Fetchers : t = u

\* A thread asleep on the condition has a fetch under way to wake it, and the
\* kid it sleeps for is not in the cache (verifier.py:267-276, 310-318).
NoLostWakeup ==
    \A t \in Threads : pc[t] = "waiting" => refreshing /\ want[t] \notin Cached

\* Whoever probes ready() relies on it: when it would say yes, no lookup of a
\* cached kid needs the network (verifier.py:183 against 261-264).
ReadyMeansFast == ReadyNow => Fresh

\* Readiness only ever comes back through a fetch that brought usable keys;
\* "a failed refresh can never report healthy" (verifier.py:171-172).
ReadinessEarned ==
    [][ReadyNow' /\ ~ReadyNow =>
        \E t \in Fetchers : keys' = resp[t] /\ KidsOf(resp[t]) # {}]_vars

\* The cache never goes back to an older document than the one it held, so a
\* revoked key stays revoked, responses are installed in the order fetched, and
\* a fetch that failed leaves the cache as it was (verifier.py:281-313).
NoRollback == [][keys' >= keys]_vars

\* A key is handed out only while the document in the cache has it, also to a
\* thread that has slept or fetched and finds that another thread has installed a
\* revocation meanwhile (verifier.py:261-264, 269-271, 313, 322-326).
ServedIsCurrent ==
    [][\A t \in Threads : pc[t] # "served" /\ pc'[t] = "served" =>
        keys > 0 /\ want'[t] \in docs[keys]]_vars

\* Neither the document in the cache nor a later one has the kid.
Gone(kid) == \A i \in 1 .. Len(docs) : i >= keys => kid \notin docs[i]

\* What the issuer has taken back and the cache has dropped stays out, whatever
\* answers are still on their way: no thread is given the key, and nothing but its
\* being published anew can bring it back (verifier.py:258-326).
RevokedStaysRevoked ==
    [][\A kid \in Kids : Gone(kid) =>
        /\ Gone(kid)' \/ (docs' # docs /\ kid \in docs'[Len(docs')])
        /\ \A t \in Threads : pc[t] # "served" /\ pc'[t] = "served" => want'[t] # kid]_vars

\* "A miss triggers at most one JWKS fetch per cooldown window"
\* (verifier.py:16): two fetches start at least MinInterval apart.
FetchRate ==
    [][\A t \in Threads :
        pc[t] # "fetching" /\ pc'[t] = "fetching" => sinceStart >= MinInterval]_vars

\* What the README (20-30) says of a key past its TTL, measured from the fetch
\* that brought it: it is served only during a refresh or inside a cooldown.
FreshServe ==
    [][\A t \in Threads : pc[t] = "idle" /\ pc'[t] = "served" =>
        sinceSuccess <= TTL \/ refreshing \/ sinceFetch < MinInterval]_vars

\* Every call of verify() or ready() comes back (verifier.py:175-326).
CallsReturn == \A t \in Threads : pc[t] # "idle" ~> pc[t] = "idle"

\* A thread that waits for somebody else's fetch stops waiting even if that
\* fetch never ends: the bound on wait() works (verifier.py:273-274).
WaitersEscape ==
    \A t \in Threads : pc[t] = "waiting" ~> pc[t] \in Outcomes \cup {"fetching"}

\* Waiting pays: a waiter woken with its kid in the cache is served it, for no
\* refresh can take the kid away before the waiter has looked; the cooldown of
\* _resolve_key sees to that (verifier.py:267-291).
WaitersServed ==
    \A t \in Threads :
        pc[t] = "woken" /\ want[t] \in Cached ~> pc[t] = "served"

\* If the issuer answers again and tokens keep coming, the cache settles on the
\* last document published: rotated keys are picked up and revoked keys are
\* dropped, whatever failed before (verifier.py:258-318).
Converges == IssuerRecovers /\ Traffic => <>[](keys = Len(docs))

=============================================================================
