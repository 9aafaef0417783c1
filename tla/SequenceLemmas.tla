--------------------------- MODULE SequenceLemmas ---------------------------
(***************************************************************************)
(* Facts about numbers, sequences and folds that the proofs about policies *)
(* and requests share.  Induction is stated with a set in place of a       *)
(* predicate, because the provers instantiate sets and not predicates.     *)
(***************************************************************************)
EXTENDS Integers, Sequences, SequencesExt, WellFoundedInduction, TLAPS

Below == {p \in Nat \X Nat : p[1] < p[2]}

\* The numbers have no infinite descent.
LEMMA BelowWellFounded == IsWellFoundedOn(Below, Nat)
<1>1. OpToRel(<, Nat) = Below
  BY Zenon DEF Below, OpToRel
<1> QED
  BY <1>1, NatLessThanWellFounded

\* Every set of natural numbers that is not empty has a smallest element.
LEMMA SmallestElement ==
    ASSUME NEW S \in SUBSET Nat, S # {}
    PROVE  \E m \in S : \A n \in S : m <= n
<1>1. PICK m \in S : \A n \in S : <<n, m>> \notin Below
  BY BelowWellFounded, WFMin
<1>2. ASSUME NEW n \in S, n < m PROVE <<n, m>> \in Below
  BY <1>2 DEF Below
<1>3. \A n \in S : n \in Nat /\ m \in Nat /\ ~(n < m)
  BY <1>1, <1>2
<1> QED
  BY <1>3

\* Induction up to a bound: a set with 0 that is closed under successors below n
\* has all the numbers up to n.
LEMMA Induction ==
    ASSUME NEW n \in Nat, NEW S, 0 \in S, \A k \in 0 .. n - 1 : k \in S => k + 1 \in S
    PROVE  \A k \in 0 .. n : k \in S
<1> DEFINE Missing == {k \in 0 .. n : k \notin S}
<1> SUFFICES ASSUME Missing # {} PROVE FALSE
  OBVIOUS
<1>0. Missing \in SUBSET Nat
  OBVIOUS
<1>1. PICK m \in Missing : \A k \in Missing : m <= k
  <2> HIDE DEF Missing
  <2> QED
    BY <1>0, SmallestElement
<1>2. m # 0 /\ m - 1 \in 0 .. n - 1 /\ m - 1 \in S
  BY <1>1
<1>3. (m - 1) + 1 = m
  BY <1>1
<1> QED
  BY <1>1, <1>2, <1>3

-----------------------------------------------------------------------------
(* The greatest element of a set of indices.                               *)

\* A set of indices that is not empty has its Max, which bounds it.
LEMMA GreatestElement ==
    ASSUME NEW n \in Nat, NEW S \in SUBSET (1 .. n), S # {}
    PROVE  /\ Max(S) \in S
           /\ \A k \in S : k <= Max(S)
<1> DEFINE Distances == {n - k : k \in S}
<1>1. PICK m \in Distances : \A j \in Distances : m <= j
  <2>1. \A k \in S : n - k \in Nat
    OBVIOUS
  <2>2. Distances \in SUBSET Nat
    BY <2>1
  <2>3. Distances # {}
    OBVIOUS
  <2> HIDE DEF Distances
  <2> QED
    BY <2>2, <2>3, SmallestElement
<1>2. PICK g \in S : m = n - g
  BY <1>1
<1>3. \A k \in S : g >= k
  <2> TAKE k \in S
  <2>1. m <= n - k
    BY <1>1
  <2> QED
    BY <1>2, <2>1
<1>4. Max(S) \in S /\ \A k \in S : Max(S) >= k
  BY <1>3 DEF Max
<1> QED
  BY <1>4

\* FoldLeft takes the indices 1 .. k off from the end.
LEMMA GreatestOfPrefix ==
    ASSUME NEW n \in Nat, NEW k \in 1 .. n
    PROVE  /\ Max(1 .. k) = k
           /\ (1 .. k) \ {Max(1 .. k)} = 1 .. k - 1
<1>1. Max(1 .. k) \in 1 .. k /\ \A j \in 1 .. k : j <= Max(1 .. k)
  <2>1. (1 .. k) \in SUBSET (1 .. n) /\ 1 .. k # {}
    OBVIOUS
  <2> QED
    BY <2>1, GreatestElement
<1>2. Max(1 .. k) = k
  BY <1>1
<1> QED
  BY <1>2

-----------------------------------------------------------------------------
(* Folds.  FoldLeft takes the greatest index off a set of indices until    *)
(* none is left.  A step that stays inside a set of values has such a      *)
(* function.                                                               *)

\* Two sequences of the same length with the same elements are the same.
LEMMA SameSequence ==
    ASSUME NEW A, NEW s \in Seq(A), NEW t \in Seq(A), Len(s) = Len(t),
           \A i \in 1 .. Len(s) : s[i] = t[i]
    PROVE  s = t
OBVIOUS

\* What a part of a sequence consists of.
LEMMA PartOfSequence ==
    ASSUME NEW A, NEW s \in Seq(A), NEW p \in 1 .. Len(s), NEW q \in 1 .. Len(s), p <= q
    PROVE  /\ SubSeq(s, p, q) \in Seq(A) /\ Len(SubSeq(s, p, q)) = q - p + 1
           /\ \A i \in 1 .. q - p + 1 : SubSeq(s, p, q)[i] = s[p + i - 1]
OBVIOUS

\* A sequence with at most one element.
LEMMA ShortSequence ==
    ASSUME NEW A, NEW s \in Seq(A), ~(Len(s) > 1)
    PROVE  s = <<>> \/ \E x \in A : s = <<x>>
<1>1. Len(s) \in Nat /\ DOMAIN s = 1 .. Len(s)
  OBVIOUS
<1>2. CASE Len(s) = 0
  BY <1>2
<1>3. CASE Len(s) = 1
  <2>1. 1 \in DOMAIN s
    BY <1>1, <1>3
  <2>2. s[1] \in A
    BY <2>1
  <2>3. <<s[1]>> \in Seq(A) /\ Len(<<s[1]>>) = 1 /\ <<s[1]>>[1] = s[1]
    BY <2>2
  <2>4. \A i \in 1 .. Len(s) : s[i] = <<s[1]>>[i]
    BY <1>3, <2>3
  <2>5. s = <<s[1]>>
    BY <1>3, <2>3, <2>4
  <2> QED
    BY <2>2, <2>5
<1> QED
  BY <1>1, <1>2, <1>3

\* Concatenations of sequences with at most one element.
LEMMA ShortConcatenations ==
    ASSUME NEW x, NEW y
    PROVE  /\ <<x>> \o <<y>> = <<x, y>>
           /\ <<x>> \o <<>> = <<x>> /\ <<>> \o <<y>> = <<y>> /\ <<>> \o <<>> = <<>>
<1> DEFINE A == {x, y}
<1>1. <<x>> \in Seq(A) /\ <<y>> \in Seq(A) /\ <<>> \in Seq(A) /\ <<x, y>> \in Seq(A)
  OBVIOUS
<1>2. /\ Len(<<x>>) = 1 /\ Len(<<y>>) = 1 /\ Len(<<>>) = 0 /\ Len(<<x, y>>) = 2
      /\ <<x>>[1] = x /\ <<y>>[1] = y /\ <<x, y>>[1] = x /\ <<x, y>>[2] = y
  OBVIOUS
<1>3. ASSUME NEW s \in Seq(A), NEW t \in Seq(A)
      PROVE  /\ s \o t \in Seq(A) /\ Len(s \o t) = Len(s) + Len(t)
             /\ \A i \in 1 .. Len(s) + Len(t) :
                   (s \o t)[i] = IF i <= Len(s) THEN s[i] ELSE t[i - Len(s)]
  OBVIOUS
<1>4. ASSUME NEW s \in Seq(A), NEW t \in Seq(A), Len(s) = Len(t),
             \A i \in 1 .. Len(s) : s[i] = t[i]
      PROVE  s = t
  BY <1>4
<1> HIDE DEF A
<1>5. <<x>> \o <<y>> = <<x, y>>
  <2>1. <<x>> \o <<y>> \in Seq(A) /\ Len(<<x>> \o <<y>>) = 2
    BY <1>1, <1>2, <1>3
  <2>2. (<<x>> \o <<y>>)[1] = x /\ (<<x>> \o <<y>>)[2] = y
    <3>1. 1 \in 1 .. 2 /\ 2 \in 1 .. 2 /\ 1 <= 1 /\ ~(2 <= 1) /\ 2 - 1 = 1 /\ 1 + 1 = 2
      OBVIOUS
    <3> QED
      BY <1>1, <1>2, <1>3, <3>1
  <2>3. \A i \in 1 .. 2 : i = 1 \/ i = 2
    OBVIOUS
  <2> QED
    BY <1>1, <1>2, <1>4, <2>1, <2>2, <2>3
<1>6. \A s \in Seq(A) : s \o <<>> = s /\ <<>> \o s = s
  OBVIOUS
<1> QED
  BY <1>1, <1>5, <1>6

\* The steps of a fold over the indices 1 .. n, one function per index, and the
\* values it has on every set of indices.
Steps(n, V)  == [1 .. n -> [V -> V]]
Tables(n, V) == [SUBSET (1 .. n) -> V]
Paths(n, V)  == [0 .. n -> V]

\* One level of the recursion of FoldLeft.
Unrolled(it, n, base, step) ==
    [z \in SUBSET (1 .. n) |->
        IF z = {} THEN base ELSE step[Max(z)][it[z \ {Max(z)}]]]

\* The recursion has a solution, so the CHOOSE of the fold chooses one.
LEMMA FoldExists ==
    ASSUME NEW n \in Nat, NEW V, NEW base \in V, NEW step \in Steps(n, V)
    PROVE  \E it \in Tables(n, V) : it = Unrolled(it, n, base, step)
<1> USE DEF Steps, Tables
<1> DEFINE Done == {k \in 0 .. n : \E it \in [SUBSET (1 .. k) -> V] :
                        it = Unrolled(it, k, base, step)}
<1>1. 0 \in Done
  <2> DEFINE it == [z \in SUBSET (1 .. 0) |-> base]
  <2>1. \A z \in SUBSET (1 .. 0) : z = {}
    OBVIOUS
  <2>2. it = Unrolled(it, 0, base, step)
    BY <2>1 DEF Unrolled
  <2>3. it \in [SUBSET (1 .. 0) -> V]
    OBVIOUS
  <2>4. 0 \in 0 .. n
    OBVIOUS
  <2> HIDE DEF it
  <2> QED
    BY <2>2, <2>3, <2>4
<1>2. ASSUME NEW k \in 0 .. n - 1, k \in Done PROVE k + 1 \in Done
  <2>1. PICK f \in [SUBSET (1 .. k) -> V] : f = Unrolled(f, k, base, step)
    BY <1>2
  <2> DEFINE it == [z \in SUBSET (1 .. k + 1) |->
                      IF k + 1 \in z THEN step[k + 1][f[z \ {k + 1}]] ELSE f[z]]
  <2>2. ASSUME NEW z \in SUBSET (1 .. k + 1)
        PROVE  /\ k + 1 \in z => z \ {k + 1} \in SUBSET (1 .. k) /\ Max(z) = k + 1
               /\ k + 1 \notin z => z \in SUBSET (1 .. k)
    <3>1. CASE k + 1 \in z
      <4>1. Max(z) \in z /\ \A j \in z : j <= Max(z)
        BY <3>1, GreatestElement, k + 1 \in Nat
      <4>2. Max(z) \in 1 .. k + 1 /\ k + 1 <= Max(z)
        BY <3>1, <4>1
      <4>3. Max(z) = k + 1
        BY <4>2
      <4>4. z \ {k + 1} \in SUBSET (1 .. k)
        BY <3>1
      <4> QED
        BY <3>1, <4>3, <4>4
    <3>2. CASE k + 1 \notin z
      BY <3>2
    <3> QED
      BY <3>1, <3>2
  <2>3. it \in [SUBSET (1 .. k + 1) -> V]
    <3>1. ASSUME NEW z \in SUBSET (1 .. k + 1)
          PROVE (IF k + 1 \in z THEN step[k + 1][f[z \ {k + 1}]] ELSE f[z]) \in V
      <4>1. CASE k + 1 \in z
        <5>1. f[z \ {k + 1}] \in V /\ k + 1 \in 1 .. n
          BY <2>2, <4>1
        <5> QED
          BY <4>1, <5>1
      <4>2. CASE k + 1 \notin z
        BY <2>2, <4>2
      <4> QED
        BY <4>1, <4>2
    <3> QED
      BY <3>1
  <2>4. ASSUME NEW z \in SUBSET (1 .. k + 1)
        PROVE  it[z] = IF z = {} THEN base ELSE step[Max(z)][it[z \ {Max(z)}]]
    <3>1. CASE k + 1 \in z
      <4>1. it[z] = step[k + 1][f[z \ {k + 1}]]
        BY <3>1
      <4>2. it[z \ {k + 1}] = f[z \ {k + 1}]
        OBVIOUS
      <4> QED
        BY <2>2, <3>1, <4>1, <4>2
    <3>2. CASE k + 1 \notin z /\ z # {}
      <4>1. z \in SUBSET (1 .. k)
        BY <2>2, <3>2
      <4>2. it[z] = f[z] /\ it[z \ {Max(z)}] = f[z \ {Max(z)}]
        BY <3>2
      <4>3. f[z] = step[Max(z)][f[z \ {Max(z)}]]
        BY <2>1, <3>2, <4>1 DEF Unrolled
      <4> QED
        BY <3>2, <4>2, <4>3
    <3>3. CASE z = {}
      <4>1. f[{}] = base
        BY <2>1, {} \in SUBSET (1 .. k) DEF Unrolled
      <4> QED
        BY <3>3, <4>1
    <3> QED
      BY <3>1, <3>2, <3>3
  <2>5. it = Unrolled(it, k + 1, base, step)
    <3> HIDE DEF it
    <3> QED
      BY <2>3, <2>4 DEF Unrolled
  <2> HIDE DEF it
  <2> QED
    BY <2>3, <2>5
<1>3. n \in Done
  <2> HIDE DEF Done
  <2>1. \A k \in 0 .. n - 1 : k \in Done => k + 1 \in Done
    BY <1>2
  <2>2. \A k \in 0 .. n : k \in Done
    BY <1>1, <2>1, Induction
  <2> QED
    BY <2>2
<1> QED
  BY <1>3

\* What a solution says about the values that are known to lie in V.
Recurs(it, n, V, base, step) ==
    /\ it[{}] = base
    /\ \A z \in SUBSET (1 .. n) :
           z # {} /\ it[z \ {Max(z)}] \in V => it[z] = step[Max(z)][it[z \ {Max(z)}]]

\* The values after each index.
Follows(path, it, n, base, step) ==
    /\ path[0] = base /\ path[n] = it[1 .. n]
    /\ \A k \in 1 .. n : path[k] = step[k][path[k - 1]]

\* Whatever recurs in this way goes through the indices in their order, and
\* stays inside the set of values.
LEMMA FoldSteps ==
    ASSUME NEW n \in Nat, NEW V, NEW base \in V, NEW step \in Steps(n, V),
           NEW it, Recurs(it, n, V, base, step)
    PROVE  \E path \in Paths(n, V) : Follows(path, it, n, base, step)
<1> USE DEF Steps, Recurs, Paths, Follows
<1> DEFINE Typed == {k \in 0 .. n : it[1 .. k] \in V}
<1>1. 1 .. 0 = {}
  OBVIOUS
<1>2. ASSUME NEW k \in 1 .. n, it[1 .. k - 1] \in V
      PROVE  it[1 .. k] = step[k][it[1 .. k - 1]] /\ it[1 .. k] \in V
  <2>1. Max(1 .. k) = k /\ (1 .. k) \ {Max(1 .. k)} = 1 .. k - 1
    BY GreatestOfPrefix
  <2>2. 1 .. k \in SUBSET (1 .. n) /\ 1 .. k # {}
    <3>1. k \in 1 .. k /\ \A j \in 1 .. k : j \in 1 .. n
      OBVIOUS
    <3> QED
      BY <3>1
  <2>3. it[1 .. k] = step[k][it[1 .. k - 1]]
    BY <1>2, <2>1, <2>2
  <2> QED
    BY <1>2, <2>3
<1>3. 0 \in Typed
  BY <1>1
<1>4. ASSUME NEW k \in 0 .. n - 1, k \in Typed PROVE k + 1 \in Typed
  <2>1. k + 1 \in 1 .. n /\ (k + 1) - 1 = k /\ it[1 .. k] \in V
    BY <1>4
  <2>2. it[1 .. k + 1] \in V
    BY <1>2, <2>1
  <2> QED
    BY <2>1, <2>2
<1>5. \A k \in 0 .. n : k \in Typed
  <2>1. \A k \in 0 .. n - 1 : k \in Typed => k + 1 \in Typed
    BY <1>4
  <2> HIDE DEF Typed
  <2> QED
    BY <1>3, <2>1, Induction
<1> DEFINE path == [k \in 0 .. n |-> it[1 .. k]]
<1>6. path \in [0 .. n -> V]
  BY <1>5
<1>7. path[0] = base /\ path[n] = it[1 .. n]
  BY <1>1
<1>8. ASSUME NEW k \in 1 .. n PROVE path[k] = step[k][path[k - 1]]
  <2>1. k - 1 \in 0 .. n /\ k \in 0 .. n
    OBVIOUS
  <2>2. it[1 .. k - 1] \in V
    BY <1>5, <2>1
  <2>3. path[k] = it[1 .. k] /\ path[k - 1] = it[1 .. k - 1]
    BY <2>1
  <2> QED
    BY <1>2, <2>2, <2>3
<1> HIDE DEF path
<1> QED
  BY <1>6, <1>7, <1>8

=============================================================================
