# TLA+ verification of the MCP auth gateway

The gateway (`src/mcp_gateway/`) sits between MCP clients and an MCP server: it
verifies bearer tokens against a JWKS it caches, decides by scope and by tool
whether a JSON-RPC request may pass, forwards it, filters or streams the answer,
and leaves audit records. This directory models it from the environment variables
that start it to the last byte of a response: the parts whose behaviour depends on
order, time, failure or interleaving, and the decisions on which authorization rests.
TLC checks small instances, TLAPS proves the main safety properties for every value
of the constants.

Paths below are relative to the repository (`verifier.py` is
`src/mcp_gateway/verifier.py`, and so on).

## The system

| component | state | operations | what is hard |
|---|---|---|---|
| JWKS cache (`verifier.py`) | `_keys`, `_refreshing`, `_last_fetch`, `_last_success`, a lock and a condition | `_resolve_key`, `ready`, the fetch between two critical sections | threads interleave at every release of the lock; fetches fail, hang, bring empty or older documents; cooldown, TTL and readiness are three different clocks |
| worker pool (`app.py`, `run_in_threadpool`) | workers and a queue | take a request, run `verify` or `ready`, return | calls that wait hold a worker |
| upstream pool (`app.py`, `_build_timeout`, `client.stream`) | connections, the line for them, four timeouts | wait for a connection, give it back | streams that never end; a path that keeps its connection |
| proxy pipeline (`app.py`, `proxy_mcp`) | per request: body read, verified token, upstream connection, response, audit record | checks in order, upstream exchange, tools/list filter, `body_iter` | exceptions nobody catches; client, upstream and cap end a body in any order; one record too many or too few |
| audit (`audit.py`, `configure_audit_logging`) | one record per request; the audit logger | `emit`, `emit_stream_event`, the set-up of handlers and level | exactly one decision, one line for each event, a truthful account of the stream |
| scope policy (`policy.py`) | rules in file order, default | `from_file`, `_match`, `check` | overlapping prefixes; methods whose path normalises to another; a file that says less than it seems to |
| tool policy and list filter (`tool_policy.py`, `tools_list.py`) | allow-list, claim-bound rules | `from_file`, `check`, `filter_tools_list` | what is listed and what can be called must agree |
| token verification (`verifier.py`, `verify`) | none | header, key, claims, `sub`, scopes | an identity that cannot be sent, or arrives changed |
| scope claims (`verifier.py`, `_parse_scopes`) | none | parse, validate, join into a header | the upstream splits the header again |
| JSON-RPC parsing (`app.py`, `_parse_jsonrpc`) | none | parse, guard, re-serialise | parsers that disagree about one body; what cannot be encoded |
| configuration, startup (`config.py`, `__main__.py`) | settings | load, validate, build | combinations of settings; files that change between check and use |
| discovery and health (`app.py`) | none | `/livez`, `/readyz`, metadata | `/readyz` shares the cache and the pool |
| PKCE helper (`pkce.py`) | none | string construction | nothing here |

Interaction: `proxy_mcp` calls `verify` in a worker thread; `verify` calls
`_resolve_key`; all workers share one cache. `/readyz` calls `ready` through the
same pool, on the same cache. The proxy then calls the two policies
synchronously, opens the upstream stream through the application's one httpx client,
and hands an iterator to the server. Behind the worker pool, requests share that
client and its connections, and nothing else.

## The modules

**`JwksVerifier`** is the core. One action is one critical section of the lock,
because no thread can run inside another's; what lies between critical sections
(the fetch, the sleep, the way back to the caller) is an action of its own.
`Resolve` is `_resolve_key` up to its first release of the lock, `Recheck` one
round of its `while` loop after `wait()` returned true, `Expire` and `GiveUp` the
two halves of a timeout, `Serve` and `Fail` the network fetch with its parse,
`Install` the `finally` block (the same in both callers), `Lookup` the second
critical section, `Ready` the head of `ready`. A document of the issuer is a set of
usable kids, and `docs` is the history of documents, so that the cache
(`keys`) is an index and "older" can be said. Monotonic time is kept as ages that
saturate at `Horizon`, beyond every threshold; the sentinel `float("-inf")` is
`Never`, one beyond. Time advances at any moment, whatever the threads do. Unusable
JWKS, those without keys and those whose keys all lack a `kid`, are the empty
document; a malformed one is a failed fetch.

**`RefreshCycle`** says in five actions what the cache promises the issuer and the
callers: one question at a time, a pause of `MinInterval` after each, a cache
that only an answer replaces. **`JwksRefinement`** maps the threads to it (the
question under way is the fetch of whoever is in `Fetchers`) and states
`ImplementsCycle`.

**`VerifyPool`** composes requests, a first-come-first-served queue and a bounded
set of workers with `JwksVerifier`, whose `Threads` are the workers. anyio's
limiter is 40 by default; the code in `src/` does not set it. Every step of the pool is built from an
action of the verifier or leaves it alone, so a behaviour of the one is a behaviour of the other by
construction: that says nothing of the code, but lets the theorems about `JwksVerifier` be used here. A call
is carried through once it has begun: nothing in `src/` cancels a handler.

**`McpProxy`** is one request through `proxy_mcp`. An action is the code from one
`await` to the next, so a check that returns early, its audit record and the
close of the upstream connection are one step, in the code's order. The results of the
two policies are fields of the request (`entitled`, `permitted`); so is what
`_parse_jsonrpc` makes of the body, a lone surrogate included: `json.loads`
accepts its escape and the encoding of the canonical body raises. Bytes come in
chunks of one. `reply` is what the client was told, `ending` how it saw a relayed
body end, `log` the records. After each chunk the iterator is `yielding`: it waits until
its client has room for more (`Resume`), which may be never. The exceptions that nobody catches are
outcomes of the actions they end: a token whose algorithm does not fit its key (`Verify`), headers that cannot
be sent (`Open`), a list nested too deeply for the filter (`FilterEnd`), and an upstream header that cannot be
written into the response (`Make`, for the relayed response and for the filtered one). On the last of these
paths, with a relayed response, the connection stays open and `body_iter` never starts; what may still close
it is Python's garbage collector (`Collect`), which is external and promises no time.

**`UpstreamPool`** is many requests on their way to the upstream, after the checks: one
httpx client, its connections, the line of those without one, and the pool timeout
with its fallback on `upstream_timeout`. Every way out of `proxy_mcp` and `body_iter`
is an action: `Refuse`, `Settle` (the filtered list, or the exception that takes it away after the
connection was closed), `Leave` (the end of the relayed body), and in `Answer` the stage `stranded`: the
response was allowed and could not be made, the request is over, its connection is still held until
`Collect`. A body may be relayed for ever, also because its client has stopped reading.

**`UpstreamExchange`** is what either of the two promises of one request: one connection
at most, opened once and closed when the request is over; one decision, never changed;
nothing passed on before the decision is on record. An exception that nobody catches ends a request otherwise
(`Break`): nothing is passed on, and what may be missing is the decision or, after "allowed", the end of the
connection, but not both. `McpProxy` implements it
(`ImplementsExchange`), and `UpstreamPool` implements it once for each request
(`EachImplementsExchange`).

**`Startup`** is `main`, `build` and `validate_runtime`, and the rule on algorithms
in the constructor of `JwksVerifier`; the policy files are variables that somebody
may change between any two steps. **`PolicyFiles`** is what `from_file` of either policy makes
of the fields of a file; what it refuses is "invalid" in `Startup`. The rules of a scope policy are
the members of a JSON object as written, in which a method may occur twice; `Members` is what `json.load`
leaves of them.

**`RequestParsing`** is `_parse_jsonrpc` and what is forwarded. A JSON object is the sequence
of its members as written, at both levels the gateway looks at, and is read by parsers that keep the first
and by parsers that keep the last of several; what `json.loads` reads of it is the latter, what
`json.dumps` writes is `Canonical`. **`TokenVerification`** is `verify` around the key cache,
up to the header the upstream sees; a header nested too deeply, or an algorithm that is allowed and is not the
one the key is made for (`misfit`), is no rejection but an exception (`Crash`). **`ScopePolicy`**,
**`ToolAuthorization`**, **`ScopeClaims`**
are the decisions themselves, each against a definition that does not mention the code's
loops: the most specific rule, the union of what the rules grant, the tokens an upstream
splits out of the header. A method is the sequence of its `/`-separated segments, spelt literally. A page of
tools that is nested too deeply to be read, or only to be written again, is `Raised`: neither listed nor refused.
**`AuditLogging`** is `configure_audit_logging` and how many lines an event becomes,
given the handlers, level and propagation that an operator, an earlier call or the root logger
may have left.

**`MCJwksVerifier`**, **`MCVerifyPool`**, **`MCPools`**, **`MCDecisions`** give the constants their
values. `MCPools` holds the two resources that may be occupied for ever, `MCDecisions` the
eight parts that keep no state between requests; a behaviour exercises one of them. `McpProxy`
and `RequestParsing` alone need no such module.

**`JwksVerifierProofs`**, **`VerifyPoolProofs`**, **`McpProxyProofs`**, **`UpstreamPoolProofs`**,
**`StartupProofs`**, **`PolicyProofs`** and **`RequestProofs`** hold the theorems;
**`SequenceLemmas`** has what the last two need to know of folds, concatenation and cutting.

Operators introduced by a comment that starts with "Fault" are plausible mistakes
(a dropped guard, `notify` for `notify_all`, a total compared before it is updated).
No specification uses them: put in the place of the definition that follows them,
each makes TLC refute the property it is paired with in `PROJECT.json`.

## What is checked

| run | shows | instance |
|---|---|---|
| `jwks_safety` | `TypeOK`, `SingleFlight`, `NoLostWakeup`, `ReadyMeansFast`, `ReadinessEarned`, `NoRollback`, `ServedIsCurrent`, `RevokedStaysRevoked`, `FetchRate`, `ImplementsCycle` | 3 threads, 2 kids, 2 documents, TTL = cooldown = 2, threads and kids symmetric; 600 thousand states |
| `jwks_liveness` | `CallsReturn`, `WaitersServed`, `Converges` | 2 threads, 2 kids, 2 documents, TTL 2, cooldown 1; no symmetry |
| `pool_hang` | `PoolTypeOK`, `PoolSurvivesHang`, `WaitersEscape`; `LineMeansFull`, `SendersAnswered`, `EachImplementsExchange` | 2 workers, 3 requests, 1 kid, 2 documents, fetches that need not end; 3 requests for 2 connections, streams that need not end, responses that cannot be made; 256 thousand states |
| `proxy_safety` | `ProxyTypeOK`, `ForwardOnlyAuthorized`, `ListOnlyFiltered`, `CapHolds`, `AuditTrail`, `StreamResultTrue`, `ConnectionReleased`, `ImplementsExchange` | every combination of settings, request and response; limits 1 and 2, bodies up to one beyond; 2.9 million states |
| `decisions` | `SameScopesUpstream`; `MostSpecificWins`, `SameAfterNormalizing`; `CallsFollowGrant`, `VisibleIffCallable`, `AuditedRuleGrants`; `NoSilentWeakening`; `EveryReaderAgrees`, `NothingReinterpreted`; `IdentityArrives`; `OneLineEach`, `ScopesOnlyOnRequest`; `FilesAsWritten` | strings of 3 characters, lists of 2, methods of 3 segments, policies of 2 rules, pages of 2 entries, JSON objects of 3 members with 2 names inside, subjects of 3 characters, numbers -1 to 2; 4.9 million states |
| `jwks_ttl_zero`, `jwks_stale`, `pool_flow`, `proxy_crash`, `proxy_truncation`, `proxy_bytes`, `parse_overflow` | refute what the documentation says, see below | small |

Why the bounds are enough. Three threads are a fetcher, a waiter and one that
arrives while the waiter has been woken and has not looked yet: the shortest story in which a
refresh can start twice. Two documents are an old and a new one, over two kids a
rotation, a revocation and a restoration. Intervals of one or two ticks are
enough for "inside", "at" and "beyond" each threshold. Two rules give none, exact,
prefix, two nested prefixes in either order, and for tools two that overlap in
values or in tools. A body one byte longer than its limit crosses it. In the pool
two workers are the least that lets one hang while another serves; with one, an
issuer that never answers stops everything, which `PoolSurvivesHang` does not deny.
Two connections let one stream for ever while the other is given back, and three requests
are one more than they serve. Three members of an object are a `method`, a `params` and a
repetition of either. Subjects of three characters have a beginning, a middle and an end for
a blank to be in. Two calls of `configure_audit_logging` are one and a repetition.

`decisions` tries start-up with any switches and sound numbers, and with any numbers and
sound switches (`SettingsTried`): no condition of `validate_runtime` mixes the two. The
theorems of `StartupProofs` need no such restriction. A JSON body is either one with up to three
members and nothing else odd about it, or one with at most one member and any combination of
oddities; tokens likewise have any subject or any other defects. The places where the code looks at
both come in a fixed order, each with its own early return.

`PromptWake` is TRUE in the liveness and pool runs: a notified thread gets the lock
within a tick. Safety is checked without it.

Deadlock is checked except where the system ends by itself: one request, one
decision, the last of a bounded number of requests.

### Fairness

`Scheduling`: every thread that can run does (the operating system), and time
passes. `FetchEnds`: `urlopen` has a timeout, so a fetch ends with an answer or an error;
`pool_hang` drops this, because the timeout bounds each socket
operation and not the response. `Converges` has two more assumptions as its
antecedent: `IssuerRecovers`, an issuer asked again and again answers again and
again, and `Traffic`, tokens that name each kid keep coming; both are strong fairness, since
what they are about is enabled only now and then, and neither is
needed for anything else. In `McpProxy`, `WF(Handle)`: `verify`
returns (`CallsReturn`) and httpx bounds each wait on the upstream. Nothing bounds how
long a client takes to send its body, so reading it has no fairness and
`ConnectionReleased` starts at the upstream connection. Nor does anything bound how long a client that stays may
leave a chunk unread (`app.py:526`): `Resume` has no fairness, and `ConnectionReleased` has `ClientReads` as its
antecedent (again and again the iterator is not waiting for the client, or the client has left); without it the
property is false, as it should be. Garbage collection has no fairness either, so the connection of a response
that could not be made is exempt (`Stranded`). In `UpstreamPool` fairness is what the four
timeouts of `_build_timeout` and the limit on a filtered list put an end to (`Bounded`); the end
of a relayed body (`Leave`) has none, and `SendersAnswered` holds without it because
the wait for a connection has a timeout of its own.

### What the code does otherwise than its documentation says

- `jwks_ttl_zero`: with `cache_ttl` 0, or below `min_refresh_interval`,
  `ttl_expired` lets a miss fetch inside the cooldown window (`verifier.py:283-287`),
  against `verifier.py:16` and `README.md:20-21`. The configuration accepts both.
- `jwks_stale`: `fresh` looks at the last attempt (`verifier.py:261`), so one failed
  refresh makes keys past their TTL fresh for another whole TTL; `README.md:27-30`
  speaks of an in-flight refresh and a retry per window.
- `pool_flow`: misses that wait hold workers, and a request for a cached key can
  queue behind them (`app.py:293`); `README.md:25-26` says only requests for
  new keys are delayed.
- `proxy_crash`: a lone surrogate in the body (`app.py:679`), or a forwarded header
  that is not ASCII (`app.py:391-393`), ends in an uncaught exception and no record,
  against `audit.py:3` and `audit.py:95`. Nesting beyond the recursion limit does the same
  (`app.py:613`; the stage `crashed` of `RequestParsing`), and so do a token header nested like that or an
  algorithm that does not fit its key (`verifier.py:329-367`) and a `tools/list` answer nested like that
  (`tools_list.py:49-52`, `84-90`, `app.py:446`).
- `proxy_truncation`: a truncated body ends like a whole one (`app.py:501-524`);
  `docs/THREAT-MODEL.md:117` says the connection is terminated.
- `proxy_bytes`: with the cap disabled the stream record says 0 bytes (`app.py:521`).
- `parse_overflow`: a literal such as `1e999` becomes `float("inf")` without `parse_constant`
  being called, and `json.dumps` writes it as `Infinity` (`app.py:613-617`, `679`), the very token that
  `app.py:571-576` wants kept out of the canonical body.
- Not run, because no document promises otherwise: an upstream header that httpx reads as UTF-8 and Starlette
  cannot write as latin-1 makes the response at `app.py:546` raise. The record says "allowed", the client gets a
  bare 500, and the upstream connection is closed by the garbage collector or not at all. `AuditTrail`,
  `ConnectionReleased`, `LineMeansFull` and `UpstreamExchange` say so, each exempting this path and no other;
  with the filtered response of `app.py:474` the connection is closed by then.
- Not run, being matters of wording: `policy.py:12-13` reads as if a default scope
  denied unmatched methods, while `check` allows them to its holders, as
  `MostSpecificWins` states. A policy file that exists and does not load, or a variable that does not
  parse, raises `ValueError` and not `ConfigError`, so `main` ends in a traceback (the phase
  `crashed` of `Startup`) where `__main__.py:87-88` prints other problems cleanly.

## What is proved

All for any sets of threads, kids, requests, workers and connections, any number of documents and
any intervals or limits that satisfy `JwksAssumption`, `PoolAssumption` and `ProxyAssumption`;
`UpstreamPoolProofs` needs that the value for a free connection is no request, `StartupProofs` that
numeric settings are integers. Both are hypotheses of the theorems. The theorems about the decisions hold
for any alphabet, any names, tools and scopes, and any bounds on the lengths of strings, policies, pages and bodies:
`BoundsAssumption` asks only that the bounds are natural numbers, `SpaceAssumption` that the blank is not a letter,
`ToolsAssumption` that something which is no string is no tool name.

`JwksVerifierProofs`: `TypeOK`, `SingleFlight`, `NoLostWakeup`, `ReadyMeansFast`,
`NoRollback`, `ServedIsCurrent`; and, for `TTL >= MinInterval` (which `jwks_ttl_zero` shows to be
needed), `FetchRate` and `Spec => ImplementsCycle`. `SingleFlight` and `NoLostWakeup` lean
on each other and on what an answer in transit is: `IInv` adds `AnswersAreNewer` (only the
fetcher that has its response holds one, and it is not older than the cache) and
`AgesOrdered` (last attempt <= last success, and <= last start when no
fetch is in flight). `NoRollback` follows from the first, `ReadyMeansFast` and
`FetchRate` from the second. The steps fall into five kinds (quiet critical sections,
the end of a fetch, its installation, the environment, stuttering), with one lemma each.

`ReadinessEarned` (`ready()` goes from no to yes only when a fetch ends with usable keys) follows from
`IInv` step by step: time alone, or a failed fetch, never makes the cache ready (`NeverReadyByItself`).
`KeptUntilServed` is the safety half of `WaitersServed`: from its wake-up until it is served, nobody
takes the kid of a waiter out of the cache. It needs `AfterWake` (while somebody is awake no fetch has
been started, so the last one is no tick old) and, as hypotheses, `PromptWake` and a
cooldown and a TTL of at least a tick; without `PromptWake` it is false, for then a waiter may
be overtaken by the next refresh.

`RevokedStaysRevoked` puts `NoRollback` and `ServedIsCurrent` together into what an operator who revokes a
key wants to know: once neither the document in the cache nor a later one has a kid (`Gone`), no thread is
given it, whatever answers are still on their way, and only its being published anew ends that.

`VerifyPoolProofs`: each step of the pool is a step of `JwksVerifier` or none
(`PoolRunsVerifier`, a lemma that only carries theorems over), so `IInv` holds behind the pool as well; with it, `PoolTypeOK`,
whose last conjunct (a worker is inside a call exactly while it works for a request)
relates the two, and `SingleFlight` and `NoLostWakeup` for the workers. What the cache promises
carries over: `NoRollback`, `ServedIsCurrent` and `ReadinessEarned` (`PoolKeepsCachePromises`), and
for `TTL >= MinInterval` also `FetchRate` and `ImplementsCycle` (`PoolKeepsFetchRate`), as do
`RevokedStaysRevoked` and, with its hypotheses, `KeptUntilServed` (`PoolKeepsUntilServed`). What neither
side says alone is whose key a request gets: `OwnCall` (a busy worker asks for the kid of its request, whose
call has not returned, and no two workers have one request) is inductive with `PoolInv`, because the head of the
queue is with no worker and not answered; with `ServedIsCurrent` it gives `ServedItsOwn`: no request is
served a key another one asked for.

`McpProxyProofs`: `ProxyTypeOK`, `ForwardOnlyAuthorized`, `ListOnlyFiltered`,
`CapHolds`, `AuditTrail`, `StreamResultTrue` and `Spec => ImplementsExchange`. The invariant says which
checks the handler has behind it at each await (`Checked`), that nothing was said or
recorded before (`Silent`), what holds while a body is read or relayed (`Exchange`), and
the shapes of the log of a finished request (`Recorded`), those of a request that an exception has ended among
them: no record, or the one that allowed it. The steps fall into four
groups; of each a lemma says what it does to the record and the reply, and both the invariance and
the refinement use it. The refinement adds `Opened`, where the connection is at each await.

`UpstreamPoolProofs`: `LineMeansFull` and `SendersSpec => EachImplementsExchange`. The
invariant knows who stands in line (`LineIsWaiting`: nobody twice), whose a connection can be
(`HoldersActive`), that none is free while somebody waits (`NoneFree`), and what is on record at each stage
(`RecordOfStage`). The step that matters is `Release`, which ends one request and starts another.
`NobodyOvertakes` is the safety half of `SendersAnswered`: a connection goes to who has stood longest, and a
newcomer gets none while others wait. `TurnInv` says why: those who wait are in the line (`InLine`), and
who is nearer its head has stood at least as long (`StoodInOrder`), since all who wait grow older
together and stop at the same bound. Its one more hypothesis is that `upstream_timeout` is a positive number of ticks.

`StartupProofs`: `NoSilentWeakening`; that the limits and intervals of a gateway that serves are the
ones `JwksAssumption` and `ProxyAssumption` ask for (`ServesWithinAssumptions`); and that
the constructor of the verifier refuses nothing the configuration has let through
(`NoConstructorTraceback`). The invariant says what each phase remembers of the phases before it. The
part of the validation that looks at files is not in it: files may change the moment after.

`PolicyProofs` and `RequestProofs` are about the behaviours of `MCDecisions`, `DecisionsSpec => []X`. The
invariant of each part says which inputs a result on record was computed from, or which checks a
request has behind it at each stage; the rest is what the operators compute. The loops of the code are
folds, and a theorem of the library that takes an operator cannot be used for them, so `SequenceLemmas`
unrolls a fold into the function of its values after each turn (`FoldSteps`, `FoldExists`), and the
inductions over turns, positions and members go by the least counterexample (a least element of a set of
numbers, which needs no operator).

- `MostSpecificAlwaysWins`: after each turn of `_match` its candidate is the longest matching prefix among
  the rules seen; prefixes of one method of the same length are the same rule, because keys are distinct.
- `OrderIsIrrelevant`: two scope policies with the same rules and default decide alike, whatever the order of
  the rules; the rule that decides is determined by the set (`MatchIsMostSpecific`).
- `DecisionsSurviveNormalizing`: a method the guard lets through is its own normal form, where normalising is
  the resolution of literal empty, `.` and `..` segments.
- `CallsAlwaysFollowGrant`, `AuditedRuleAlwaysGrants`: the loop of `check` stops at the first rule that grants,
  and the documented grant is the union over all.
- `VisibleAlwaysCallable`: the filter keeps exactly the callable entries, in order, and what it
  keeps and what it counts as filtered add up to the page.
- `EventsAreOneLine`, `ScopesNeedRequest`: however often the set-up runs and whatever the root logger
  has become. `PoliciesAreAsWritten`: for files of any length; of several
  rules for one method the last one stays (`LastMemberStays`).
- `IdentityAlwaysArrives`: the checks behind a token at each stage (`TokenInv`), and that a subject
  that passes them can be sent (`SafeIsSendable`).
- `EveryReaderAlwaysAgrees`, `NothingEverReinterpreted`: a canonical object has every name once, with the last value
  written for it, so first-wins and last-wins readers agree on it (`CanonicalAgrees`), at both levels.
- `SameScopesAlwaysUpstream`: splitting what was joined gives back the tokens, in any order, because no token
  has a blank in it or is empty (`SplitOfJoin`, one token at a time by `OneMoreToken`).

Only model-checked is what needs fairness, which is out of the prover's reach: `CallsReturn`, `WaitersServed`
beyond its safety half (`KeptUntilServed`), `Converges`, `WaitersEscape`, `PoolSurvivesHang`, `SendersAnswered`
beyond its own (`NobodyOvertakes`), `ConnectionReleased`. That a connection is closed once, no later than its
request is over, is part of `ImplementsExchange` and proved, as is the exception to it: a request that an exception
has ended with "allowed" on record and nothing passed on.
Every invariant and every other action property of the runs that pass is a theorem.

## What is not modelled

PyJWT, TLS, HTTP framing, httpx's own pool and Python's logging, which appear by what the code relies on;
the text of JSON; the fields of the audit record other than decision, result, bytes and scope
values. `livez` and the metadata endpoint are constant; `pkce.py` builds strings for clients and is called
by nothing here; deployment files, examples and `verification/` are not the gateway.

Where the model stops short of the code:

- `SameAfterNormalizing` is about literal segments. A percent-encoded one (`resources/%2e%2e/tools/call`) is an
  ordinary segment for the guard and is judged by the rule of its spelling; an upstream that decodes it may read
  another method. `app.py:661-670` and `docs/THREAT-MODEL.md:255-264` say so, and `Segments` has none.
- Cancellation of a handler while it awaits a worker or the upstream is not modelled; `src/` cancels
  nothing, and Starlette cancels only the sending of a response whose client has left, which is `RelayCancelled`.
- The key is used after the lock is released and may have been revoked meanwhile; the model ends
  where the key is returned.
- The audit record of a cancelled stream is emitted after an `await` in a `finally` block; the
  model takes both in one step.
- A claim `sub` that is no string is refused, as by the PyJWT 2.13 of `uv.lock`; versions before 2.10,
  which `pyproject.toml` also admits, would let `str()` make a subject of it (`verifier.py:369`).
- Of a method written twice in a scope policy file the last rule is in force, whole, and the earlier
  one is gone silently, in the model as in the code (`policy.py:79`). A field of the file itself written
  twice (two times `rules`, say) is the last one for `json.load`; `PolicyFiles` starts from there. Rule
  lists of `ScopePolicy` have distinct keys, as the loaded dictionary has.
- With `min_refresh_interval` 0 a slow waiter may find a refresh in flight each time it looks;
  `WaitersServed` is checked with a cooldown of one tick.
- A document whose keys all lack a `kid` is the empty document and evicts every key, as in the code.
- A `tools/list` response with a status other than 200 is relayed unfiltered, as in the code
  (`app.py:403`).

## Plan

What is left is a gateway module: several requests through `McpProxy` that share `VerifyPool` and
`UpstreamPool`, with the policies in place of `entitled` and `permitted`. Its state space is the product
of three that are large already; what stands in for it is that the pool is composed of the verifier's own actions,
and that both sides of the exchange implement `UpstreamExchange`.
