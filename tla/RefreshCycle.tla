---------------------------- MODULE RefreshCycle ----------------------------
(***************************************************************************)
(* What the JWKS cache promises the issuer and its callers, with no        *)
(* threads, locks or waiting: one question to the issuer at a time, a      *)
(* pause of at least MinInterval after each before the next is asked, and  *)
(* a cache that only an answer replaces.  JwksVerifier implements it when  *)
(* cache_ttl is not shorter than min_refresh_interval.                     *)
(***************************************************************************)
EXTENDS Integers, Sequences

CONSTANTS Kids, MinInterval, Horizon, MaxDocs

VARIABLES
    docs,       \* what the issuer has published
    keys,       \* the document in the cache, 0 before the first
    stage,      \* "none", "asked" or "answered": the question under way
    answer,     \* the document it was answered with, 0 for none
    pause       \* time since the last question was over

vars == <<docs, keys, stage, answer, pause>>

Init ==
    /\ docs \in {<<d>> : d \in SUBSET Kids}
    /\ keys = 0
    /\ stage = "none"
    /\ answer = 0
    /\ pause = Horizon + 1

Ask ==
    /\ stage = "none"
    /\ pause >= MinInterval
    /\ stage' = "asked"
    /\ UNCHANGED <<docs, keys, answer, pause>>

Answer ==
    /\ stage = "asked"
    /\ stage' = "answered"
    /\ answer' \in {0, Len(docs)}
    /\ UNCHANGED <<docs, keys, pause>>

Apply ==
    /\ stage = "answered"
    /\ stage' = "none"
    /\ keys' = IF answer = 0 THEN keys ELSE answer
    /\ answer' = 0
    /\ pause' = 0
    /\ UNCHANGED docs

Publish(d) ==
    /\ Len(docs) < MaxDocs
    /\ docs' = Append(docs, d)
    /\ UNCHANGED <<keys, stage, answer, pause>>

Pass ==
    /\ pause' = IF pause >= Horizon THEN pause ELSE pause + 1
    /\ UNCHANGED <<docs, keys, stage, answer>>

Next ==
    \/ Ask \/ Answer \/ Apply \/ Pass
    \/ \E d \in SUBSET Kids : Publish(d)

Spec == Init /\ [][Next]_vars

=============================================================================
