--------------------------- MODULE MCJwksVerifier ---------------------------
(***************************************************************************)
(* Instances of JwksVerifier for TLC.  Threads and kids are interchangeable*)
(* in every action and in every safety property, so the safety runs use    *)
(* their permutations as symmetry; the liveness runs do not.               *)
(***************************************************************************)
EXTENDS JwksRefinement, TLC

CONSTANTS t1, t2, t3, k1, k2

TwoThreads   == {t1, t2}
ThreeThreads == {t1, t2, t3}
OneKid       == {k1}
TwoKids      == {k1, k2}

Symmetry == Permutations(Threads) \cup Permutations(Kids)

=============================================================================
