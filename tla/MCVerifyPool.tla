---------------------------- MODULE MCVerifyPool ----------------------------
(***************************************************************************)
(* An instance of VerifyPool for TLC: two workers and four requests, so    *)
(* that the pool can be full while requests queue.                         *)
(***************************************************************************)
EXTENDS VerifyPool, TLC

CONSTANTS t1, t2, k1, k2, r1, r2, r3, r4

TwoWorkers   == {t1, t2}
TwoKids      == {k1, k2}
FourRequests == {r1, r2, r3, r4}

Symmetry == Permutations(Threads) \cup Permutations(Requests)

=============================================================================
