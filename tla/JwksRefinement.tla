--------------------------- MODULE JwksRefinement ---------------------------
(***************************************************************************)
(* JwksVerifier implements RefreshCycle: the question under way is the     *)
(* fetch of the one thread that holds the refreshing flag.                 *)
(***************************************************************************)
EXTENDS JwksVerifier

Responded == {t \in Threads : pc[t] = "responded"}

StageOf  == IF Fetchers = {} THEN "none"
            ELSE IF Responded = {} THEN "asked" ELSE "answered"
AnswerOf == IF Responded = {} THEN 0 ELSE resp[CHOOSE t \in Responded : TRUE]

Cycle == INSTANCE RefreshCycle
             WITH stage <- StageOf, answer <- AnswerOf, pause <- sinceFetch

\* Every step of the threads is a step of the refresh cycle or is invisible to
\* it: single flight, cooldown and cache replacement all at once
\* (verifier.py:175-326).
ImplementsCycle == Cycle!Spec

=============================================================================
