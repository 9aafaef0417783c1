---------------------------- MODULE PolicyProofs ----------------------------
(***************************************************************************)
(* What the policies decide, what the filter shows, what the audit log     *)
(* writes and what a policy file becomes, for policies, pages, methods and *)
(* claims of any size: theorems about the behaviours of MCDecisions.       *)
(*                                                                         *)
(* Each invariant says, beside the types of the variables, which inputs a  *)
(* result on record was computed from; the rest is lemmas about what the   *)
(* operators compute.  Their loops are folds, of which SequenceLemmas has  *)
(* the value after each turn, and the lemmas are proved by induction over  *)
(* the turns.                                                              *)
(***************************************************************************)
EXTENDS MCDecisions, SequenceLemmas

-----------------------------------------------------------------------------
(* Scope policy.                                                           *)

\* What a loaded scope policy looks like: a list of rules with distinct keys, for
\* they are the keys of a dict (policy.py:84-109).
LEMMA PolicyShape ==
    ASSUME NEW p \in ScopeRules!Policies
    PROVE  /\ \E n \in Nat : p.rules \in [1 .. n -> ScopeRules!Rules]
           /\ \A i, j \in DOMAIN p.rules :
                 ScopeRules!SameKey(p.rules[i], p.rules[j]) => i = j
           /\ \A i \in DOMAIN p.rules :
                 /\ p.rules[i] \in ScopeRules!Rules
                 /\ p.rules[i].path \in Seq(MethodNames) /\ p.rules[i].prefix \in BOOLEAN
<1>1. p.rules \in ScopeRules!RuleLists
  BY DEF ScopeRules!Policies
<1>2. PICK n \in 0 .. MaxRules : p.rules \in [1 .. n -> ScopeRules!Rules]
  BY <1>1 DEF ScopeRules!RuleLists
<1>3. \A i, j \in DOMAIN p.rules : ScopeRules!SameKey(p.rules[i], p.rules[j]) => i = j
  BY <1>1 DEF ScopeRules!RuleLists
<1>4. ASSUME NEW i \in DOMAIN p.rules
      PROVE  /\ p.rules[i] \in ScopeRules!Rules
             /\ p.rules[i].path \in Seq(MethodNames) /\ p.rules[i].prefix \in BOOLEAN
  <2>1. p.rules[i] \in ScopeRules!Rules
    BY <1>2
  <2>2. p.rules[i].path \in ScopeRules!Paths /\ p.rules[i].prefix \in BOOLEAN
    BY <2>1 DEF ScopeRules!Rules
  <2>3. PICK k \in 1 .. MaxSegments - 1 : p.rules[i].path \in [1 .. k -> MethodNames]
    BY <2>2 DEF ScopeRules!Paths
  <2>4. k \in Nat
    BY BoundsAssumption
  <2> QED
    BY <2>1, <2>2, <2>3, <2>4
<1> QED
  BY <1>2, <1>3, <1>4, BoundsAssumption

\* Each instance brings its own copy of the library.
LEMMA SameMax == \A S : ScopeRules!Max(S) = Max(S) /\ ToolRules!Max(S) = Max(S)
BY DEF Max, ScopeRules!Max, ToolRules!Max

\* What the loop of _match holds after each rule.
TurnsOfMatch(best, n, rs, m) ==
    /\ best[0] = 0 /\ best[n] = ScopeRules!LongestPrefix(rs, m)
    /\ \A k \in 1 .. n : best[k] = ScopeRules!Better(rs, m, best[k - 1], k)

LEMMA LoopOfMatch ==
    ASSUME NEW n \in Nat, NEW rs \in [1 .. n -> ScopeRules!Rules], NEW m
    PROVE  \E best \in [0 .. n -> 0 .. n] : TurnsOfMatch(best, n, rs, m)
<1> DEFINE s    == [i \in DOMAIN rs |-> i]
           V    == 0 .. n
           Op(b, i) == ScopeRules!Better(rs, m, b, i)
           Eq(it) == it = [z \in SUBSET DOMAIN s |->
                              IF z = {} THEN 0
                              ELSE Op(it[z \ {ScopeRules!Max(z)}], s[ScopeRules!Max(z)])]
           It == CHOOSE it : Eq(it)
           turn == [i \in 1 .. n |-> [b \in V |-> Op(b, i)]]
<1>1. DOMAIN s = 1 .. n /\ \A i \in 1 .. n : s[i] = i
  OBVIOUS
<1>2. \A z \in SUBSET (1 .. n) : z # {} => Max(z) \in 1 .. n
  BY GreatestElement
<1>3. 0 \in V
  OBVIOUS
<1>4. turn \in Steps(n, V)
  BY DEF ScopeRules!Better, Steps
<1>5. \A i \in 1 .. n, b \in V : turn[i][b] = Op(b, i)
  OBVIOUS
<1> HIDE DEF Op, turn, s, V
<1>6. PICK f \in Tables(n, V) : f = Unrolled(f, n, 0, turn)
  BY <1>3, <1>4, FoldExists
<1>7. \A z \in SUBSET (1 .. n) : z # {} =>
          /\ z \ {Max(z)} \in SUBSET (1 .. n)
          /\ Max(z) \in 1 .. n /\ s[Max(z)] = Max(z) /\ ScopeRules!Max(z) = Max(z)
  BY <1>1, <1>2, SameMax
<1>8. Eq(f)
  <2>1. ASSUME NEW z \in SUBSET (1 .. n)
        PROVE  f[z] = IF z = {} THEN 0
                      ELSE Op(f[z \ {ScopeRules!Max(z)}], s[ScopeRules!Max(z)])
    <3>1. f[z] = IF z = {} THEN 0 ELSE turn[Max(z)][f[z \ {Max(z)}]]
      BY <1>6 DEF Unrolled
    <3>2. CASE z = {}
      BY <3>1, <3>2
    <3>3. CASE z # {}
      <4>1. f[z \ {Max(z)}] \in V
        BY <1>7, <3>3 DEF Tables
      <4>2. turn[Max(z)][f[z \ {Max(z)}]] = Op(f[z \ {Max(z)}], Max(z))
        BY <1>5, <1>7, <3>3, <4>1
      <4>3. s[ScopeRules!Max(z)] = Max(z) /\ ScopeRules!Max(z) = Max(z)
        BY <1>7, <3>3
      <4> QED
        BY <3>1, <3>3, <4>2, <4>3, Zenon
    <3> QED
      BY <3>2, <3>3
  <2>2. f \in [SUBSET (1 .. n) -> V]
    BY DEF Tables
  <2> QED
    BY <1>1, <2>1, <2>2
<1>9. Eq(It)
  <2> HIDE DEF Eq
  <2> QED
    BY <1>8
<1>10. ScopeRules!LongestPrefix(rs, m) = It[DOMAIN s]
  BY Zenon DEF ScopeRules!LongestPrefix, ScopeRules!FoldLeftDomain, ScopeRules!FoldLeft,
               ScopeRules!MapThenFoldSet, Op, s
<1>11. It[{}] = 0
  <2> HIDE DEF It
  <2> QED
    BY <1>1, <1>9
<1>12. ASSUME NEW z \in SUBSET (1 .. n), z # {}, It[z \ {Max(z)}] \in V
       PROVE  It[z] = turn[Max(z)][It[z \ {Max(z)}]]
  <2> HIDE DEF It
  <2>1. It[z] = Op(It[z \ {ScopeRules!Max(z)}], s[ScopeRules!Max(z)])
    BY <1>1, <1>9, <1>12
  <2>2. turn[Max(z)][It[z \ {Max(z)}]] = Op(It[z \ {Max(z)}], Max(z))
    BY <1>5, <1>7, <1>12
  <2>3. s[ScopeRules!Max(z)] = Max(z) /\ ScopeRules!Max(z) = Max(z)
    BY <1>7, <1>12
  <2> QED
    BY <2>1, <2>2, <2>3, Zenon
<1>13. Recurs(It, n, V, 0, turn)
  <2> HIDE DEF It
  <2> QED
    BY <1>11, <1>12 DEF Recurs
<1> HIDE DEF It
<1>14. PICK best \in Paths(n, V) : Follows(best, It, n, 0, turn)
  BY <1>3, <1>4, <1>13, FoldSteps
<1>15. \A k \in 1 .. n : best[k - 1] \in V /\ best[k] = Op(best[k - 1], k)
  BY <1>5, <1>14 DEF Paths, Follows
<1>16. best \in [0 .. n -> 0 .. n] /\ best[0] = 0
  BY <1>14 DEF V, Paths, Follows
<1>17. best[n] = It[DOMAIN s]
  BY <1>1, <1>14 DEF Follows
<1>18. TurnsOfMatch(best, n, rs, m)
  BY <1>10, <1>15, <1>16, <1>17, Zenon DEF TurnsOfMatch, Op
<1> QED
  BY <1>16, <1>18

\* After each rule _match holds the longest prefix among the rules it has seen.
LEMMA LongestPrefixWins ==
    ASSUME NEW n \in Nat, NEW rs \in [1 .. n -> ScopeRules!Rules], NEW m,
           \A i \in 1 .. n : Len(rs[i].path) \in Nat
    PROVE  LET b == ScopeRules!LongestPrefix(rs, m) IN
           /\ b \in 0 .. n
           /\ b = 0 => \A i \in 1 .. n : ~ScopeRules!Covers(rs[i], m)
           /\ b # 0 => /\ ScopeRules!Covers(rs[b], m)
                       /\ \A i \in 1 .. n : ScopeRules!Covers(rs[i], m) =>
                             Len(rs[i].path) <= Len(rs[b].path)
<1>0. PICK best \in [0 .. n -> 0 .. n] : TurnsOfMatch(best, n, rs, m)
  BY LoopOfMatch
<1>1. /\ best[0] = 0 /\ best[n] = ScopeRules!LongestPrefix(rs, m)
      /\ \A k \in 1 .. n : best[k] = ScopeRules!Better(rs, m, best[k - 1], k)
  BY <1>0, Zenon DEF TurnsOfMatch
<1> DEFINE Cov(i) == ScopeRules!Covers(rs[i], m)
           Size(i) == Len(rs[i].path)
           Good == {k \in 0 .. n :
              /\ best[k] = 0 => \A i \in 1 .. k : ~Cov(i)
              /\ best[k] # 0 => /\ Cov(best[k])
                                /\ \A i \in 1 .. k : Cov(i) => Size(i) <= Size(best[k])}
<1>2. 0 \in Good
  BY <1>1
<1>3. ASSUME NEW k \in 0 .. n - 1, k \in Good PROVE k + 1 \in Good
  <2>1. /\ best[k] = 0 => \A i \in 1 .. k : ~Cov(i)
        /\ best[k] # 0 => /\ Cov(best[k])
                          /\ \A i \in 1 .. k : Cov(i) => Size(i) <= Size(best[k])
    BY <1>3
  <2>2. /\ k + 1 \in 1 .. n /\ k + 1 \in 0 .. n /\ (k + 1) - 1 = k /\ k + 1 # 0
        /\ best[k] \in 0 .. n /\ \A i \in 1 .. k + 1 : i \in 1 .. k \/ i = k + 1
    OBVIOUS
  <2>3. best[k + 1] = IF Cov(k + 1) /\ (best[k] = 0 \/ Size(k + 1) > Size(best[k]))
                      THEN k + 1 ELSE best[k]
    BY <1>1, <2>2 DEF ScopeRules!Better
  <2>4. \A i \in 1 .. n : Size(i) \in Nat
    OBVIOUS
  <2>5. Size(k + 1) \in Nat /\ (best[k] # 0 => Size(best[k]) \in Nat)
    <3>1. best[k] # 0 => best[k] \in 1 .. n
      BY <2>2
    <3> HIDE DEF Size
    <3> QED
      BY <2>2, <2>4, <3>1, Zenon
  <2>6. ASSUME /\ best[k + 1] = 0 => \A i \in 1 .. k + 1 : ~Cov(i)
               /\ best[k + 1] # 0 => /\ Cov(best[k + 1])
                                     /\ \A i \in 1 .. k + 1 :
                                           Cov(i) => Size(i) <= Size(best[k + 1])
        PROVE  k + 1 \in Good
    BY <2>2, <2>6
  <2> HIDE DEF Cov, Size, Good
  <2>7. CASE Cov(k + 1) /\ (best[k] = 0 \/ Size(k + 1) > Size(best[k]))
    <3>1. best[k + 1] = k + 1
      BY <2>3, <2>7
    <3>2. ASSUME NEW i \in 1 .. k + 1, Cov(i)
          PROVE  Size(i) <= Size(k + 1)
      <4>1. CASE i = k + 1
        BY <2>5, <4>1
      <4>2. CASE i \in 1 .. k
        <5>1. best[k] # 0
          BY <2>1, <3>2, <4>2
        <5>2. Size(k + 1) > Size(best[k])
          BY <2>7, <5>1
        <5>3. Size(i) <= Size(best[k])
          BY <2>1, <3>2, <4>2, <5>1
        <5>4. Size(i) \in Nat
          BY <2>4, <4>2
        <5> HIDE DEF Size
        <5> QED
          BY <2>5, <5>1, <5>2, <5>3, <5>4
      <4> QED
        BY <2>2, <4>1, <4>2
    <3>3. \A i \in 1 .. k + 1 : Cov(i) => Size(i) <= Size(best[k + 1])
      BY <3>1, <3>2
    <3>4. best[k + 1] # 0 /\ Cov(best[k + 1])
      BY <2>2, <2>7, <3>1
    <3> QED
      BY <2>6, <3>3, <3>4, Zenon
  <2>8. CASE ~(Cov(k + 1) /\ (best[k] = 0 \/ Size(k + 1) > Size(best[k])))
    <3>1. best[k + 1] = best[k]
      BY <2>3, <2>8
    <3>2. best[k] = 0 => \A i \in 1 .. k + 1 : ~Cov(i)
      BY <2>1, <2>2, <2>8
    <3>3. ASSUME best[k] # 0, NEW i \in 1 .. k + 1, Cov(i)
          PROVE  Size(i) <= Size(best[k])
      <4>1. CASE i = k + 1
        <5>1. ~(Size(k + 1) > Size(best[k]))
          BY <2>8, <3>3, <4>1
        <5>2. Size(best[k]) \in Nat
          BY <2>5, <3>3
        <5> QED
          BY <2>5, <4>1, <5>1, <5>2
      <4>2. CASE i \in 1 .. k
        BY <2>1, <3>3, <4>2
      <4> QED
        BY <2>2, <4>1, <4>2
    <3>4. best[k] # 0 => /\ Cov(best[k])
                         /\ \A i \in 1 .. k + 1 : Cov(i) => Size(i) <= Size(best[k])
      BY <2>1, <3>3
    <3> QED
      BY <2>6, <3>1, <3>2, <3>4, Zenon
  <2> QED
    BY <2>7, <2>8
<1>4. \A k \in 0 .. n : k \in Good
  <2>1. \A k \in 0 .. n - 1 : k \in Good => k + 1 \in Good
    BY <1>3
  <2> HIDE DEF Good
  <2> QED
    BY <1>2, <2>1, Induction
<1>5. n \in Good
  <2> HIDE DEF Good
  <2> QED
    BY <1>4
<1> QED
  BY <1>1, <1>5

\* A method is a sequence of at least one segment.
LEMMA MethodShape ==
    ASSUME NEW m \in ScopeRules!Methods
    PROVE  m \in Seq(Segments) /\ m # <<>>
<1>1. PICK k \in 1 .. MaxSegments : m \in [1 .. k -> Segments]
  BY DEF ScopeRules!Methods
<1>2. k \in Nat /\ k >= 1
  BY BoundsAssumption
<1> QED
  BY <1>1, <1>2

\* A prefix is shorter than the method it covers, and the method determines the
\* prefixes of a length.
LEMMA PrefixesOfMethod ==
    ASSUME NEW A, NEW B, NEW m \in Seq(A), NEW r \in Seq(B)
    PROVE  /\ ScopeRules!IsStrictPrefix(r, m) => Len(r) < Len(m)
           /\ ScopeRules!IsStrictPrefix(r, m) => r = SubSeq(m, 1, Len(r))
<1>1. SubSeq(m, 1, Len(m)) = m /\ SubSeq(r, 1, Len(r)) = r
  OBVIOUS
<1>2. ScopeRules!IsStrictPrefix(r, m) <=>
        r # m /\ Len(r) <= Len(m) /\ SubSeq(r, 1, Len(r)) = SubSeq(m, 1, Len(r))
  BY DEF ScopeRules!IsStrictPrefix, ScopeRules!IsPrefix
<1>3. Len(r) \in Nat /\ Len(m) \in Nat
  OBVIOUS
<1> QED
  BY <1>1, <1>2, <1>3

\* _match finds the one rule that nothing overrides, or none when none speaks.
LEMMA MatchIsMostSpecific ==
    ASSUME NEW p \in ScopeRules!Policies, NEW m \in ScopeRules!Methods
    PROVE  LET Speaks(j) == ScopeRules!IsExact(p.rules[j], m)
                               \/ ScopeRules!Covers(p.rules[j], m)
               i == ScopeRules!Match(p.rules, m)
           IN  /\ i = 0 <=> \A j \in DOMAIN p.rules : ~Speaks(j)
               /\ i # 0 => i \in DOMAIN p.rules /\ Speaks(i)
               /\ i # 0 => \A k \in DOMAIN p.rules :
                     Speaks(k) => Len(p.rules[k].path) <= Len(p.rules[i].path)
               /\ \A j \in DOMAIN p.rules :
                     /\ Speaks(j)
                     /\ \A k \in DOMAIN p.rules :
                           Speaks(k) => Len(p.rules[k].path) <= Len(p.rules[j].path)
                     => j = i
<1> DEFINE rs       == p.rules
           Exact(j) == ScopeRules!IsExact(rs[j], m)
           Cov(j)   == ScopeRules!Covers(rs[j], m)
           Size(j)  == Len(rs[j].path)
           i        == ScopeRules!Match(rs, m)
           b        == ScopeRules!LongestPrefix(rs, m)
<1>1. PICK n \in Nat : rs \in [1 .. n -> ScopeRules!Rules]
  BY PolicyShape
<1>2. \A j \in 1 .. n : rs[j].path \in Seq(MethodNames) /\ rs[j].prefix \in BOOLEAN
  BY <1>1, PolicyShape
<1>3. \A j, k \in 1 .. n : rs[j].path = rs[k].path /\ rs[j].prefix = rs[k].prefix => j = k
  BY <1>1, PolicyShape DEF ScopeRules!SameKey
<1>4. m \in Seq(Segments) /\ Len(m) \in Nat /\ \A j \in 1 .. n : Size(j) \in Nat
  BY <1>2, MethodShape
<1>5. \A j \in 1 .. n : Cov(j) => Size(j) < Len(m)
  BY <1>2, <1>4, PrefixesOfMethod DEF ScopeRules!Covers
<1>6. \A j, k \in 1 .. n : Cov(j) /\ Cov(k) /\ Size(j) = Size(k) => j = k
  <2>1. \A j \in 1 .. n : Cov(j) => rs[j].prefix /\ rs[j].path = SubSeq(m, 1, Size(j))
    BY <1>2, <1>4, PrefixesOfMethod DEF ScopeRules!Covers
  <2> TAKE j, k \in 1 .. n
  <2> HAVE Cov(j) /\ Cov(k) /\ Size(j) = Size(k)
  <2>2. rs[j].path = rs[k].path /\ rs[j].prefix /\ rs[k].prefix
    BY <2>1
  <2> QED
    BY <1>2, <1>3, <2>2
<1>7. \A j, k \in 1 .. n : Exact(j) /\ Exact(k) => j = k
  BY <1>2, <1>3 DEF ScopeRules!IsExact
<1>8. \A j \in 1 .. n : Exact(j) => Size(j) = Len(m) /\ ~Cov(j)
  BY DEF ScopeRules!IsExact, ScopeRules!Covers
<1>9. /\ b \in 0 .. n
      /\ b = 0 => \A j \in 1 .. n : ~Cov(j)
      /\ b # 0 => Cov(b) /\ \A j \in 1 .. n : Cov(j) => Size(j) <= Size(b)
  BY <1>1, <1>4, LongestPrefixWins
<1>10. DOMAIN rs = 1 .. n
  BY <1>1
<1>11. i = IF \E j \in DOMAIN rs : Exact(j)
           THEN CHOOSE j \in DOMAIN rs : Exact(j) ELSE b
  BY DEF ScopeRules!Match
<1> SUFFICES /\ i = 0 <=> \A j \in 1 .. n : ~(Exact(j) \/ Cov(j))
             /\ i # 0 => i \in 1 .. n /\ (Exact(i) \/ Cov(i))
             /\ i # 0 => \A k \in 1 .. n : Exact(k) \/ Cov(k) => Size(k) <= Size(i)
             /\ \A j \in 1 .. n :
                  /\ Exact(j) \/ Cov(j)
                  /\ \A k \in 1 .. n : Exact(k) \/ Cov(k) => Size(k) <= Size(j)
                  => j = i
  BY <1>10
<1> HIDE DEF rs, Exact, Cov, Size, i, b
<1>12. CASE \E j \in 1 .. n : Exact(j)
  <2>1. i \in 1 .. n /\ Exact(i)
    BY <1>10, <1>11, <1>12
  <2>2. ASSUME NEW j \in 1 .. n, Cov(j), \A k \in 1 .. n : Exact(k) => Size(k) <= Size(j)
        PROVE  FALSE
    BY <1>4, <1>5, <1>8, <2>1, <2>2
  <2>3. \A k \in 1 .. n : Exact(k) \/ Cov(k) => Size(k) <= Size(i)
    BY <1>4, <1>5, <1>8, <2>1
  <2>4. i # 0
    BY <2>1
  <2> QED
    BY <1>7, <2>1, <2>2, <2>3, <2>4
<1>13. CASE \A j \in 1 .. n : ~Exact(j)
  <2>1. i = b
    BY <1>10, <1>11, <1>13
  <2>2. ASSUME NEW j \in 1 .. n, Cov(j), \A k \in 1 .. n : Cov(k) => Size(k) <= Size(j)
        PROVE  j = b
    <3>1. b # 0 /\ b \in 1 .. n
      BY <1>9, <2>2
    <3>2. Size(b) = Size(j)
      BY <1>4, <1>9, <2>2, <3>1
    <3> QED
      BY <1>6, <1>9, <2>2, <3>1, <3>2
  <2> QED
    BY <1>9, <1>13, <2>1, <2>2
<1> QED
  BY <1>12, <1>13
\* Normalising a method that the guard of _parse_jsonrpc has let through is a
\* loop that appends one segment after the other.
LEMMA LoopOfNormalize ==
    ASSUME NEW n \in Nat, NEW m \in [1 .. n -> Segments], ~ScopeRules!Relative(m)
    PROVE  \E stack \in [0 .. n -> Seq(Segments)] :
              /\ stack[0] = <<>> /\ stack[n] = ScopeRules!Normalize(m)
              /\ \A k \in 1 .. n : stack[k] = Append(stack[k - 1], m[k])
<1> DEFINE V == Seq(Segments)
           Op(t, e) == IF e \in {"", "."} THEN t
                       ELSE IF e = ".."
                            THEN (IF t = <<>> THEN <<>> ELSE ScopeRules!Front(t))
                            ELSE Append(t, e)
           Eq(it) == it = [z \in SUBSET DOMAIN m |->
                              IF z = {} THEN <<>>
                              ELSE Op(it[z \ {ScopeRules!Max(z)}], m[ScopeRules!Max(z)])]
           It == CHOOSE it : Eq(it)
           turn == [i \in 1 .. n |-> [t \in V |-> Append(t, m[i])]]
<1>1. DOMAIN m = 1 .. n
  OBVIOUS
<1>2. \A z \in SUBSET (1 .. n) : z # {} =>
          /\ z \ {Max(z)} \in SUBSET (1 .. n)
          /\ Max(z) \in 1 .. n /\ ScopeRules!Max(z) = Max(z)
  BY GreatestElement, SameMax
<1>3. <<>> \in V
  OBVIOUS
<1>4. turn \in Steps(n, V)
  BY DEF Steps
<1>5. \A i \in 1 .. n, t \in V : turn[i][t] = Op(t, m[i])
  <2>1. \A i \in 1 .. n : m[i] \notin {"", ".", ".."}
    BY DEF ScopeRules!Relative
  <2> QED
    BY <2>1
<1>6. \A i \in 1 .. n, t \in V : turn[i][t] = Append(t, m[i])
  OBVIOUS
<1> HIDE DEF Op, turn, V
<1>7. PICK f \in Tables(n, V) : f = Unrolled(f, n, <<>>, turn)
  BY <1>3, <1>4, FoldExists
<1>8. Eq(f)
  <2>1. ASSUME NEW z \in SUBSET (1 .. n)
        PROVE  f[z] = IF z = {} THEN <<>>
                      ELSE Op(f[z \ {ScopeRules!Max(z)}], m[ScopeRules!Max(z)])
    <3>1. f[z] = IF z = {} THEN <<>> ELSE turn[Max(z)][f[z \ {Max(z)}]]
      BY <1>7 DEF Unrolled
    <3>2. CASE z = {}
      BY <3>1, <3>2
    <3>3. CASE z # {}
      <4>1. f[z \ {Max(z)}] \in V
        BY <1>2, <3>3 DEF Tables
      <4>2. turn[Max(z)][f[z \ {Max(z)}]] = Op(f[z \ {Max(z)}], m[Max(z)])
        BY <1>2, <1>5, <3>3, <4>1
      <4>3. ScopeRules!Max(z) = Max(z)
        BY <1>2, <3>3
      <4> QED
        BY <3>1, <3>3, <4>2, <4>3, Zenon
    <3> QED
      BY <3>2, <3>3
  <2>2. f \in [SUBSET (1 .. n) -> V]
    BY DEF Tables
  <2> QED
    BY <1>1, <2>1, <2>2
<1>9. Eq(It)
  <2> HIDE DEF Eq
  <2> QED
    BY <1>8
<1>10. ScopeRules!Normalize(m) = It[DOMAIN m]
  BY Zenon DEF ScopeRules!Normalize, ScopeRules!FoldLeft, ScopeRules!MapThenFoldSet, Op
<1>11. It[{}] = <<>>
  <2> HIDE DEF It
  <2> QED
    BY <1>1, <1>9
<1>12. ASSUME NEW z \in SUBSET (1 .. n), z # {}, It[z \ {Max(z)}] \in V
       PROVE  It[z] = turn[Max(z)][It[z \ {Max(z)}]]
  <2> HIDE DEF It
  <2>1. It[z] = Op(It[z \ {ScopeRules!Max(z)}], m[ScopeRules!Max(z)])
    BY <1>1, <1>9, <1>12
  <2>2. turn[Max(z)][It[z \ {Max(z)}]] = Op(It[z \ {Max(z)}], m[Max(z)])
    BY <1>2, <1>5, <1>12
  <2>3. ScopeRules!Max(z) = Max(z)
    BY <1>2, <1>12
  <2> QED
    BY <2>1, <2>2, <2>3, Zenon
<1>13. Recurs(It, n, V, <<>>, turn)
  <2> HIDE DEF It
  <2> QED
    BY <1>11, <1>12 DEF Recurs
<1> HIDE DEF It
<1>14. PICK stack \in Paths(n, V) : Follows(stack, It, n, <<>>, turn)
  BY <1>3, <1>4, <1>13, FoldSteps
<1>15. \A k \in 1 .. n : stack[k - 1] \in V /\ stack[k] = Append(stack[k - 1], m[k])
  <2> TAKE k \in 1 .. n
  <2>1. stack[k - 1] \in V
    BY DEF Paths
  <2>2. stack[k] = turn[k][stack[k - 1]]
    BY <1>14 DEF Follows
  <2> QED
    BY <1>6, <2>1, <2>2
<1> QED
  BY <1>1, <1>10, <1>14, <1>15 DEF V, Paths, Follows

\* A method the guard has let through is its own normal form.
LEMMA NormalAlready ==
    ASSUME NEW m \in ScopeRules!Methods, ~ScopeRules!Relative(m)
    PROVE  ScopeRules!Normalize(m) = m
<1>1. PICK n \in 1 .. MaxSegments : m \in [1 .. n -> Segments]
  BY DEF ScopeRules!Methods
<1>2. n \in Nat
  BY BoundsAssumption
<1>3. PICK stack \in [0 .. n -> Seq(Segments)] :
         /\ stack[0] = <<>> /\ stack[n] = ScopeRules!Normalize(m)
         /\ \A k \in 1 .. n : stack[k] = Append(stack[k - 1], m[k])
  BY <1>1, <1>2, LoopOfNormalize
<1> DEFINE Good == {k \in 0 .. n : Len(stack[k]) = k /\ \A i \in 1 .. k : stack[k][i] = m[i]}
<1>4. 0 \in Good
  BY <1>2, <1>3
<1>5. ASSUME NEW k \in 0 .. n - 1, k \in Good PROVE k + 1 \in Good
  <2>1. k + 1 \in 1 .. n /\ (k + 1) - 1 = k /\ k \in 0 .. n
    BY <1>2
  <2>2. stack[k] \in Seq(Segments) /\ stack[k + 1] = Append(stack[k], m[k + 1])
    BY <1>3, <2>1
  <2>3. m[k + 1] \in Segments /\ Len(stack[k]) = k
    BY <1>1, <1>5, <2>1
  <2>4. Len(stack[k + 1]) = k + 1
    BY <2>2, <2>3
  <2>5. ASSUME NEW i \in 1 .. k + 1 PROVE stack[k + 1][i] = m[i]
    <3>1. i \in 1 .. k \/ i = k + 1
      BY <2>1
    <3>2. stack[k + 1][i] = IF i <= Len(stack[k]) THEN stack[k][i] ELSE m[k + 1]
      BY <2>1, <2>2, <2>3
    <3> QED
      BY <1>5, <2>1, <2>3, <3>1, <3>2
  <2> QED
    BY <2>1, <2>4, <2>5
<1>6. \A k \in 0 .. n : k \in Good
  <2>1. \A k \in 0 .. n - 1 : k \in Good => k + 1 \in Good
    BY <1>5
  <2> HIDE DEF Good
  <2> QED
    BY <1>2, <1>4, <2>1, Induction
<1>7. Len(stack[n]) = n /\ \A i \in 1 .. n : stack[n][i] = m[i]
  <2>1. n \in Good
    <3> HIDE DEF Good
    <3> QED
      BY <1>2, <1>6
  <2> QED
    BY <2>1
<1>8. stack[n] \in Seq(Segments) /\ DOMAIN stack[n] = 1 .. n
  BY <1>2, <1>3, <1>7
<1>9. m \in Seq(Segments) /\ DOMAIN m = 1 .. n
  BY <1>1, <1>2
<1>10. stack[n] = m
  BY <1>7, <1>8, <1>9, SameSequence
<1> QED
  BY <1>3, <1>10

-----------------------------------------------------------------------------
(* Scope policy: a decision on record is the one check makes of the three  *)
(* inputs, and only of a method the guard has let through.                 *)

ScopeInv ==
    /\ policy \in ScopeRules!Policies /\ method \in ScopeRules!Methods
    /\ step \in {"parse", "check", "done"}
    /\ step = "check" => ~ScopeRules!Relative(method)
    /\ step = "done" =>
          \/ decision.why = "invalid_jsonrpc"
          \/ /\ ~ScopeRules!Relative(method)
             /\ decision = ScopeRules!Decide(policy, method, held)

\* The other subjects never look at these variables.
ScopesInv == IF subject = "scopes" THEN ScopeInv ELSE step = "none"

\* A request starts without a decision.
LEMMA ScopesInit == DecisionsInit => ScopesInv
BY DEF DecisionsInit, SlotsInit, NoScopes, ScopeRules!Init, ScopesInv, ScopeInv

\* The guard and check keep what is behind a decision (app.py:671-675,
\* policy.py:125-137).
LEMMA ScopesStep ==
    ASSUME ScopesInv, [DecisionsNext]_<<subject, vars, scopeVars, toolVars, slots>>
    PROVE  ScopesInv'
<1>1. CASE UNCHANGED <<subject, scopeVars>>
  BY <1>1 DEF ScopesInv, ScopeInv, scopeVars
<1>2. CASE UNCHANGED subject /\ subject = "scopes" /\ ScopeRules!Next
  <2>1. ScopeInv
    BY <1>2 DEF ScopesInv
  <2>2. CASE ScopeRules!ParseMethod
    BY <1>2, <2>1, <2>2
       DEF ScopesInv, ScopeInv, ScopeRules!ParseMethod, ScopeRules!NoDecision
  <2>3. CASE ScopeRules!Check
    BY <1>2, <2>1, <2>3 DEF ScopesInv, ScopeInv, ScopeRules!Check
  <2> QED
    BY <1>2, <2>2, <2>3 DEF ScopeRules!Next
<1> QED
  BY <1>1, <1>2 DEF DecisionsNext

\* The decision of check is the one that MostSpecificWins asks for.
LEMMA MostSpecificOfDecide ==
    ASSUME policy \in ScopeRules!Policies, method \in ScopeRules!Methods,
           decision = ScopeRules!Decide(policy, method, held)
    PROVE  MostSpecificWins
<1> DEFINE Speaks(j) == ScopeRules!IsExact(policy.rules[j], method)
                           \/ ScopeRules!Covers(policy.rules[j], method)
           Size(j) == Len(policy.rules[j].path)
           i == ScopeRules!Match(policy.rules, method)
<1>1. /\ i = 0 <=> \A j \in DOMAIN policy.rules : ~Speaks(j)
      /\ \A j \in DOMAIN policy.rules :
            Speaks(j) /\ (\A k \in DOMAIN policy.rules : Speaks(k) => Size(k) <= Size(j))
            => j = i
  BY MatchIsMostSpecific, Zenon
<1>2. decision =
        IF i = 0 /\ policy.denyByDefault /\ policy.default = {}
        THEN [allowed |-> FALSE, required |-> {}, why |-> "no_policy"]
        ELSE [allowed |-> (IF i = 0 THEN policy.default ELSE policy.rules[i].needs) \subseteq held,
              required |-> IF i = 0 THEN policy.default ELSE policy.rules[i].needs,
              why |-> "scope"]
  BY Zenon DEF ScopeRules!Decide
<1>3. ScopeRules!Speaking(method) = {j \in DOMAIN policy.rules : Speaks(j)}
  BY DEF ScopeRules!Speaking
<1>4. ScopeRules!Deciding(method) =
        {j \in ScopeRules!Speaking(method) :
            \A k \in ScopeRules!Speaking(method) : Size(k) <= Size(j)}
  BY DEF ScopeRules!Deciding
<1> DEFINE Needed == IF i = 0 THEN policy.default ELSE policy.rules[i].needs
           No     == i = 0 /\ policy.denyByDefault /\ policy.default = {}
<1> HIDE DEF Speaks, Size, i
<1>5. ~No => decision.required = Needed /\ (decision.allowed <=> Needed \subseteq held)
  <2> HAVE ~No
  <2>1. decision = [allowed |-> Needed \subseteq held, required |-> Needed, why |-> "scope"]
    BY <1>2
  <2> HIDE DEF Needed
  <2>2. decision.required = Needed
    BY <2>1
  <2>3. decision.allowed <=> Needed \subseteq held
    <3>1. CASE Needed \subseteq held
      <4>1. decision = [allowed |-> TRUE, required |-> Needed, why |-> "scope"]
        BY <2>1, <3>1
      <4> QED
        BY <3>1, <4>1
    <3>2. CASE ~(Needed \subseteq held)
      <4>1. decision = [allowed |-> FALSE, required |-> Needed, why |-> "scope"]
        BY <2>1, <3>2
      <4> QED
        BY <3>2, <4>1
    <3> QED
      BY <3>1, <3>2
  <2> QED
    BY <2>2, <2>3
<1>6. No => ~decision.allowed
  BY <1>2
<1>7. policy.denyByDefault \in BOOLEAN
  BY DEF ScopeRules!Policies
<1>8. CASE ScopeRules!Speaking(method) = {}
  <2>1. i = 0
    BY <1>1, <1>3, <1>8
  <2>2. decision.allowed <=> policy.default \subseteq held
                             /\ (policy.default # {} \/ ~policy.denyByDefault)
    <3>1. CASE No
      BY <1>6, <3>1
    <3>2. CASE ~No
      <4>1. decision.allowed <=> policy.default \subseteq held
        BY <1>5, <2>1, <3>2
      <4>2. policy.default # {} \/ ~policy.denyByDefault
        BY <2>1, <3>2
      <4> QED
        BY <4>1, <4>2
    <3> QED
      BY <3>1, <3>2
  <2> QED
    BY <1>8, <2>2 DEF MostSpecificWins, ScopeRules!MostSpecificWins
<1>9. CASE ScopeRules!Speaking(method) # {}
  <2>1. i # 0
    BY <1>1, <1>3, <1>9
  <2>2. \A j \in ScopeRules!Deciding(method) : j = i
    BY <1>1, <1>3, <1>4
  <2>3. decision.required = policy.rules[i].needs
        /\ (decision.allowed <=> policy.rules[i].needs \subseteq held)
    BY <1>5, <2>1
  <2> QED
    BY <1>9, <2>2, <2>3 DEF MostSpecificWins, ScopeRules!MostSpecificWins
<1> QED
  BY <1>8, <1>9

\* Two scope policies with the same rules and the same default decide alike, in
\* whatever order their files list the rules: the loop of _match over the
\* dictionary depends on no order (policy.py:111-137).
THEOREM OrderIsIrrelevant ==
    ASSUME NEW p \in ScopeRules!Policies, NEW q \in ScopeRules!Policies,
           {p.rules[i] : i \in DOMAIN p.rules} = {q.rules[i] : i \in DOMAIN q.rules},
           p.default = q.default, p.denyByDefault = q.denyByDefault,
           NEW m \in ScopeRules!Methods, NEW h
    PROVE  ScopeRules!Decide(p, m, h) = ScopeRules!Decide(q, m, h)
<1> DEFINE Speaks(r) == ScopeRules!IsExact(r, m) \/ ScopeRules!Covers(r, m)
           i == ScopeRules!Match(p.rules, m)
           j == ScopeRules!Match(q.rules, m)
<1>1. /\ i = 0 <=> \A k \in DOMAIN p.rules : ~Speaks(p.rules[k])
      /\ i # 0 => /\ i \in DOMAIN p.rules /\ Speaks(p.rules[i])
                  /\ \A k \in DOMAIN p.rules :
                       Speaks(p.rules[k]) => Len(p.rules[k].path) <= Len(p.rules[i].path)
  BY MatchIsMostSpecific, Zenon
<1>2. /\ j = 0 <=> \A k \in DOMAIN q.rules : ~Speaks(q.rules[k])
      /\ \A l \in DOMAIN q.rules :
           /\ Speaks(q.rules[l])
           /\ \A k \in DOMAIN q.rules :
                Speaks(q.rules[k]) => Len(q.rules[k].path) <= Len(q.rules[l].path)
           => l = j
  BY MatchIsMostSpecific, Zenon
<1>3. /\ \A k \in DOMAIN p.rules : \E l \in DOMAIN q.rules : q.rules[l] = p.rules[k]
      /\ \A l \in DOMAIN q.rules : \E k \in DOMAIN p.rules : q.rules[l] = p.rules[k]
  <2>1. ASSUME NEW k \in DOMAIN p.rules
        PROVE  \E l \in DOMAIN q.rules : q.rules[l] = p.rules[k]
    <3>1. p.rules[k] \in {q.rules[l] : l \in DOMAIN q.rules}
      OBVIOUS
    <3> QED
      BY <3>1
  <2>2. ASSUME NEW l \in DOMAIN q.rules
        PROVE  \E k \in DOMAIN p.rules : q.rules[l] = p.rules[k]
    <3>1. q.rules[l] \in {p.rules[k] : k \in DOMAIN p.rules}
      OBVIOUS
    <3> QED
      BY <3>1
  <2> QED
    BY <2>1, <2>2
<1> HIDE DEF Speaks, i, j
<1>4. (i = 0) <=> (j = 0)
  BY <1>1, <1>2, <1>3
<1>5. i # 0 => q.rules[j] = p.rules[i]
  <2> HAVE i # 0
  <2>1. PICK l \in DOMAIN q.rules : q.rules[l] = p.rules[i]
    BY <1>1, <1>3
  <2>2. l = j
    BY <1>1, <1>2, <1>3, <2>1
  <2> QED
    BY <2>1, <2>2
<1>6. (IF i = 0 THEN p.default ELSE p.rules[i].needs)
        = (IF j = 0 THEN q.default ELSE q.rules[j].needs)
  BY <1>4, <1>5
<1>7. (i = 0 /\ p.denyByDefault /\ p.default = {})
        <=> (j = 0 /\ q.denyByDefault /\ q.default = {})
  BY <1>4
<1> QED
  BY <1>6, <1>7, Zenon DEF ScopeRules!Decide, i, j

\* Among the rules of a policy file the exact one wins, or else the longest
\* prefix, in whatever order the file lists them; the default speaks only when
\* no rule does (policy.py:111-137).
THEOREM MostSpecificAlwaysWins == DecisionsSpec => []MostSpecificWins
<1>1. ScopesInv => MostSpecificWins
  <2> SUFFICES ASSUME ScopesInv PROVE MostSpecificWins
    OBVIOUS
  <2>1. CASE ScopeRules!Reached
    BY <2>1, MostSpecificOfDecide DEF ScopesInv, ScopeInv, ScopeRules!Reached
  <2>2. CASE ~ScopeRules!Reached
    BY <2>2 DEF MostSpecificWins, ScopeRules!MostSpecificWins
  <2> QED
    BY <2>1, <2>2
<1> QED
  BY <1>1, ScopesInit, ScopesStep, PTL DEF DecisionsSpec

\* The method guard refuses whatever an upstream that resolves literal "", "." and
\* ".." segments would read as another method, so the decision is the one for the
\* method it sees; encoded segments are not covered (app.py:648-675, policy.py:111-137).
THEOREM DecisionsSurviveNormalizing == DecisionsSpec => []SameAfterNormalizing
<1>1. ScopesInv => SameAfterNormalizing
  <2> SUFFICES ASSUME ScopesInv PROVE SameAfterNormalizing
    OBVIOUS
  <2>1. CASE ScopeRules!Reached
    <3>1. /\ method \in ScopeRules!Methods /\ ~ScopeRules!Relative(method)
          /\ decision = ScopeRules!Decide(policy, method, held)
      BY <2>1 DEF ScopesInv, ScopeInv, ScopeRules!Reached
    <3> QED
      BY <3>1, NormalAlready DEF SameAfterNormalizing, ScopeRules!SameAfterNormalizing
  <2>2. CASE ~ScopeRules!Reached
    BY <2>2 DEF SameAfterNormalizing, ScopeRules!SameAfterNormalizing
  <2> QED
    BY <2>1, <2>2
<1> QED
  BY <1>1, ScopesInit, ScopesStep, PTL DEF DecisionsSpec
-----------------------------------------------------------------------------
(* Tool policy and the tools/list filter.                                  *)

\* What a loaded tool policy looks like: a list of rules that grant named tools, and
\* the tools that everybody is granted (tool_policy.py:134-180).
LEMMA ToolPolicyShape ==
    ASSUME NEW p \in ToolRules!Policies
    PROVE  /\ \E n \in Nat : p.rules \in [1 .. n -> ToolRules!Rules]
           /\ p.always \subseteq Tools
           /\ \A i \in DOMAIN p.rules : i \in Nat \ {0} /\ p.rules[i].tools \subseteq Tools
<1>1. PICK n \in 0 .. MaxRules : p.rules \in [1 .. n -> ToolRules!Rules]
  BY DEF ToolRules!Policies
<1>2. n \in Nat /\ p.always \subseteq Tools
  BY BoundsAssumption DEF ToolRules!Policies
<1>3. ASSUME NEW i \in DOMAIN p.rules PROVE i \in Nat \ {0} /\ p.rules[i].tools \subseteq Tools
  <2>1. i \in 1 .. n /\ p.rules[i] \in ToolRules!Rules
    BY <1>1
  <2> QED
    BY <1>2, <2>1 DEF ToolRules!Rules
<1> QED
  BY <1>1, <1>2, <1>3

\* The loop of check stops at a rule that grants, when there is one.
LEMMA FirstGrants ==
    ASSUME NEW p \in ToolRules!Policies, NEW tool, NEW c, ToolRules!Granting(p, tool, c) # {}
    PROVE  ToolRules!First(ToolRules!Granting(p, tool, c)) \in ToolRules!Granting(p, tool, c)
<1> DEFINE G == ToolRules!Granting(p, tool, c)
<1>1. G \in SUBSET Nat
  BY ToolPolicyShape DEF ToolRules!Granting
<1>0. G # {}
  OBVIOUS
<1> HIDE DEF G
<1>2. PICK i \in G : \A j \in G : i <= j
  BY <1>0, <1>1, SmallestElement
<1>3. ToolRules!First(G) \in G
  BY <1>2 DEF ToolRules!First
<1> QED
  BY <1>3 DEF G

\* check allows what the documented grant contains.
LEMMA CheckIsGrant ==
    ASSUME NEW tool
    PROVE  ToolRules!ToolCheck(toolPolicy, tool, claim).allowed <=> tool \in ToolRules!Grant
<1>1. tool \in ToolRules!Grant <=>
        tool \in toolPolicy.always \/ ToolRules!Granting(toolPolicy, tool, claim) # {}
  BY DEF ToolRules!Grant, ToolRules!Granting, ToolRules!ClaimValues
<1>2. ToolRules!ToolCheck(toolPolicy, tool, claim) =
        IF tool \in toolPolicy.always THEN [allowed |-> TRUE, rule |-> 0]
        ELSE IF ToolRules!Granting(toolPolicy, tool, claim) = {}
             THEN [allowed |-> FALSE, rule |-> 0]
             ELSE [allowed |-> TRUE,
                   rule |-> ToolRules!First(ToolRules!Granting(toolPolicy, tool, claim))]
  BY Zenon DEF ToolRules!ToolCheck
<1> QED
  BY <1>1, <1>2

\* What a call of a tool is answered and audited with.
Outcome(p, tool, c) ==
    IF tool = ToolRules!Junk THEN [tool |-> tool, status |-> "invalid_tool_call", rule |-> 0]
    ELSE LET d == ToolRules!ToolCheck(p, tool, c) IN
         [tool |-> tool, rule |-> d.rule,
          status |-> IF d.allowed THEN "forwarded" ELSE "tool_not_allowed"]

\* The inductive invariant: the listing and the call on record are those the
\* policy makes of the page and of some tool for this claim.
ToolInv ==
    /\ toolPolicy \in ToolRules!Policies
    /\ page \in ToolRules!Pages
    /\ listing \in {ToolRules!NotListed, ToolRules!Filter(toolPolicy, page, claim)}
    /\ called = ToolRules!NotCalled \/ \E tool \in Tools \cup {ToolRules!Junk} :
                                          called = Outcome(toolPolicy, tool, claim)

ToolsInv == IF subject = "tools" THEN ToolInv ELSE NoTools

\* Nothing is listed or called at first.
LEMMA ToolsInit == DecisionsInit => ToolsInv
BY DEF DecisionsInit, SlotsInit, ToolRules!Init, ToolsInv, ToolInv

\* Filtering a list and judging a call keep what is behind their outcomes.
LEMMA ToolsStep ==
    ASSUME ToolsInv, [DecisionsNext]_<<subject, vars, scopeVars, toolVars, slots>>
    PROVE  ToolsInv'
<1>1. CASE UNCHANGED <<subject, toolVars>>
  BY <1>1 DEF ToolsInv, ToolInv, NoTools, toolVars
<1>2. CASE UNCHANGED subject /\ subject = "tools" /\ ToolRules!Next
  <2>1. ToolInv
    BY <1>2 DEF ToolsInv
  <2>2. CASE ToolRules!List
    <3>1. ToolInv'
      BY <2>1, <2>2 DEF ToolInv, ToolRules!List
    <3> QED
      BY <1>2, <3>1 DEF ToolsInv
  <2>3. CASE \E tool \in Tools \cup {ToolRules!Junk} : ToolRules!Call(tool)
    <3>1. PICK tool \in Tools \cup {ToolRules!Junk} : ToolRules!Call(tool)
      BY <2>3
    <3>2. UNCHANGED <<toolPolicy, claim, page, listing>> /\ called' = Outcome(toolPolicy, tool, claim)
      BY <3>1, Zenon DEF ToolRules!Call, Outcome
    <3>3. ToolInv'
      BY <2>1, <3>2 DEF ToolInv
    <3> QED
      BY <1>2, <3>3 DEF ToolsInv
  <2> QED
    BY <1>2, <2>2, <2>3 DEF ToolRules!Next
<1> QED
  BY <1>1, <1>2 DEF DecisionsNext

\* Only names are granted: what has no usable name never is.
LEMMA GrantsAreTools ==
    ASSUME toolPolicy \in ToolRules!Policies
    PROVE  ToolRules!Grant \subseteq Tools
BY ToolPolicyShape DEF ToolRules!Grant

\* A call goes through exactly when its tool is in the grant of the caller's
\* claim; a call without a usable tool name never does (tool_policy.py:182-240,
\* app.py:337-361).
THEOREM CallsAlwaysFollowGrant == DecisionsSpec => []CallsFollowGrant
<1>1. ToolsInv => CallsFollowGrant
  <2> SUFFICES ASSUME ToolsInv
               PROVE  called.status = "forwarded" <=> called.tool \in ToolRules!Grant
    BY DEF CallsFollowGrant, ToolRules!CallsFollowGrant
  <2>1. ToolRules!Junk \notin ToolRules!Grant
    <3>1. CASE subject = "tools"
      BY <3>1, GrantsAreTools, ToolsAssumption DEF ToolsInv, ToolInv
    <3>2. CASE subject # "tools"
      BY <3>2 DEF ToolsInv, NoTools, ToolRules!Grant
    <3> QED
      BY <3>1, <3>2
  <2>2. CASE called = ToolRules!NotCalled
    BY <2>1, <2>2 DEF ToolRules!NotCalled
  <2>3. CASE \E tool \in Tools \cup {ToolRules!Junk} : called = Outcome(toolPolicy, tool, claim)
    <3>1. PICK tool \in Tools \cup {ToolRules!Junk} : called = Outcome(toolPolicy, tool, claim)
      BY <2>3
    <3>2. CASE tool = ToolRules!Junk
      <4>1. called = [tool |-> tool, status |-> "invalid_tool_call", rule |-> 0]
        BY <3>1, <3>2 DEF Outcome
      <4> QED
        BY <2>1, <3>2, <4>1
    <3>3. CASE tool # ToolRules!Junk
      <4>1. /\ called.tool = tool
            /\ called.status = "forwarded" <=>
                  ToolRules!ToolCheck(toolPolicy, tool, claim).allowed
        BY <3>1, <3>3 DEF Outcome
      <4> QED
        BY <4>1, CheckIsGrant
    <3> QED
      BY <3>2, <3>3
  <2> QED
    BY <2>2, <2>3 DEF ToolsInv, ToolInv, NoTools
<1> QED
  BY <1>1, ToolsInit, ToolsStep, PTL DEF DecisionsSpec

\* The rule number in the audit record of a call that goes through is a rule
\* that grants this tool to this caller, or 0 when the tool is granted to
\* everybody (tool_policy.py:72-75, 221-227).
THEOREM AuditedRuleAlwaysGrants == DecisionsSpec => []AuditedRuleGrants
<1>1. ToolsInv => AuditedRuleGrants
  <2> SUFFICES ASSUME ToolsInv, called.status = "forwarded"
               PROVE  \/ called.rule = 0 /\ called.tool \in toolPolicy.always
                      \/ /\ called.rule # 0
                         /\ called.rule \in ToolRules!Granting(toolPolicy, called.tool, claim)
    BY DEF AuditedRuleGrants, ToolRules!AuditedRuleGrants
  <2>1. called # ToolRules!NotCalled
    BY DEF ToolRules!NotCalled
  <2>2. toolPolicy \in ToolRules!Policies
    BY <2>1 DEF ToolsInv, ToolInv, NoTools
  <2>3. PICK tool \in Tools \cup {ToolRules!Junk} : called = Outcome(toolPolicy, tool, claim)
    BY <2>1 DEF ToolsInv, ToolInv, NoTools
  <2>4. tool # ToolRules!Junk
    BY <2>3 DEF Outcome
  <2> DEFINE d == ToolRules!ToolCheck(toolPolicy, tool, claim)
             G == ToolRules!Granting(toolPolicy, tool, claim)
  <2>5. called.tool = tool /\ called.rule = d.rule /\ d.allowed
    BY <2>3, <2>4 DEF Outcome
  <2>6. d = IF tool \in toolPolicy.always THEN [allowed |-> TRUE, rule |-> 0]
            ELSE IF G = {} THEN [allowed |-> FALSE, rule |-> 0]
                 ELSE [allowed |-> TRUE, rule |-> ToolRules!First(G)]
    BY Zenon DEF ToolRules!ToolCheck
  <2>7. G # {} => ToolRules!First(G) \in G
    BY <2>2, FirstGrants
  <2>8. \A i \in G : i # 0
    BY <2>2, ToolPolicyShape DEF ToolRules!Granting
  <2> HIDE DEF d, G
  <2>9. \/ tool \in toolPolicy.always /\ d.rule = 0
        \/ G # {} /\ d.rule = ToolRules!First(G)
    BY <2>5, <2>6
  <2>10. \/ tool \in toolPolicy.always /\ d.rule = 0
         \/ d.rule # 0 /\ d.rule \in G
    BY <2>7, <2>8, <2>9
  <2> QED
    BY <2>5, <2>10 DEF G
<1> QED
  BY <1>1, ToolsInit, ToolsStep, PTL DEF DecisionsSpec

\* The loop of filter_tools_list, entry by entry.
Filtering(seen, n, p, entries, c) ==
    /\ seen[0] = <<>>
    /\ seen[n] = ToolRules!Kept(p, entries, c)
    /\ \A k \in 1 .. n :
          seen[k] = IF ToolRules!ToolCheck(p, entries[k], c).allowed
                    THEN Append(seen[k - 1], entries[k]) ELSE seen[k - 1]

\* The loop of the filter: what it has kept after each entry (tools_list.py:68-80).
LEMMA LoopOfFilter ==
    ASSUME NEW n \in Nat, NEW A, NEW entries \in [1 .. n -> A], NEW p, NEW c
    PROVE  \E seen \in Paths(n, Seq(A)) : Filtering(seen, n, p, entries, c)
<1> DEFINE V == Seq(A)
           Op(t, e) == IF ToolRules!ToolCheck(p, e, c).allowed THEN Append(t, e) ELSE t
           Eq(it) == it = [z \in SUBSET DOMAIN entries |->
                              IF z = {} THEN <<>>
                              ELSE Op(it[z \ {ToolRules!Max(z)}], entries[ToolRules!Max(z)])]
           It == CHOOSE it : Eq(it)
           turn == [i \in 1 .. n |-> [t \in V |-> Op(t, entries[i])]]
<1>1. DOMAIN entries = 1 .. n
  OBVIOUS
<1>2. \A z \in SUBSET (1 .. n) : z # {} =>
          /\ z \ {Max(z)} \in SUBSET (1 .. n)
          /\ Max(z) \in 1 .. n /\ ToolRules!Max(z) = Max(z)
  BY GreatestElement, SameMax
<1>3. <<>> \in V
  OBVIOUS
<1>4. turn \in Steps(n, V)
  <2>1. \A i \in 1 .. n, t \in V : Op(t, entries[i]) \in V
    OBVIOUS
  <2> HIDE DEF Op
  <2> QED
    BY <2>1 DEF Steps
<1>5. \A i \in 1 .. n, t \in V : turn[i][t] = Op(t, entries[i])
  <2> HIDE DEF Op
  <2> QED
    OBVIOUS
<1>6. ToolRules!Kept(p, entries, c) = It[DOMAIN entries]
  BY Zenon DEF ToolRules!Kept, ToolRules!FoldLeft, ToolRules!MapThenFoldSet
<1> HIDE DEF Op, turn, V
<1>7. PICK f \in Tables(n, V) : f = Unrolled(f, n, <<>>, turn)
  BY <1>3, <1>4, FoldExists
<1>8. Eq(f)
  <2>1. ASSUME NEW z \in SUBSET (1 .. n)
        PROVE  f[z] = IF z = {} THEN <<>>
                      ELSE Op(f[z \ {ToolRules!Max(z)}], entries[ToolRules!Max(z)])
    <3>1. f[z] = IF z = {} THEN <<>> ELSE turn[Max(z)][f[z \ {Max(z)}]]
      BY <1>7 DEF Unrolled
    <3>2. CASE z = {}
      BY <3>1, <3>2
    <3>3. CASE z # {}
      <4>1. f[z \ {Max(z)}] \in V
        BY <1>2, <3>3 DEF Tables
      <4>2. turn[Max(z)][f[z \ {Max(z)}]] = Op(f[z \ {Max(z)}], entries[Max(z)])
        BY <1>2, <1>5, <3>3, <4>1
      <4>3. ToolRules!Max(z) = Max(z)
        BY <1>2, <3>3
      <4> QED
        BY <3>1, <3>3, <4>2, <4>3, Zenon
    <3> QED
      BY <3>2, <3>3
  <2>2. f \in [SUBSET (1 .. n) -> V]
    BY DEF Tables
  <2> QED
    BY <1>1, <2>1, <2>2
<1>9. Eq(It)
  <2> HIDE DEF Eq
  <2> QED
    BY <1>8
<1>10. It[{}] = <<>>
  <2> HIDE DEF It
  <2> QED
    BY <1>1, <1>9
<1>11. ASSUME NEW z \in SUBSET (1 .. n), z # {}, It[z \ {Max(z)}] \in V
       PROVE  It[z] = turn[Max(z)][It[z \ {Max(z)}]]
  <2> HIDE DEF It
  <2>1. It[z] = Op(It[z \ {ToolRules!Max(z)}], entries[ToolRules!Max(z)])
    BY <1>1, <1>9, <1>11
  <2>2. turn[Max(z)][It[z \ {Max(z)}]] = Op(It[z \ {Max(z)}], entries[Max(z)])
    BY <1>2, <1>5, <1>11
  <2>3. ToolRules!Max(z) = Max(z)
    BY <1>2, <1>11
  <2> QED
    BY <2>1, <2>2, <2>3, Zenon
<1>12. Recurs(It, n, V, <<>>, turn)
  <2> HIDE DEF It
  <2> QED
    BY <1>10, <1>11 DEF Recurs
<1> HIDE DEF It
<1>13. PICK seen \in Paths(n, V) : Follows(seen, It, n, <<>>, turn)
  BY <1>3, <1>4, <1>12, FoldSteps
<1>14. \A k \in 1 .. n : seen[k - 1] \in V /\ seen[k] = Op(seen[k - 1], entries[k])
  BY <1>5, <1>13 DEF Paths, Follows
<1>15. seen[n] = ToolRules!Kept(p, entries, c)
  BY <1>1, <1>6, <1>13 DEF Follows
<1>16. \A k \in 1 .. n :
         seen[k] = IF ToolRules!ToolCheck(p, entries[k], c).allowed
                   THEN Append(seen[k - 1], entries[k]) ELSE seen[k - 1]
  BY <1>14 DEF Op
<1> QED
  BY <1>13, <1>15, <1>16 DEF V, Follows, Filtering

\* What filter_tools_list keeps of n entries: the granted ones, in their order.
Filtered(kept, n, A, entries, G) ==
    /\ kept \in Seq(A)
    /\ {kept[i] : i \in DOMAIN kept} = {entries[q] : q \in 1 .. n} \cap G
    /\ \A i, j \in DOMAIN kept : i < j =>
          \E q, r \in 1 .. n : q < r /\ entries[q] = kept[i] /\ entries[r] = kept[j]

\* What the filter keeps are the entries of the page that the grant allows.
LEMMA FilterKeepsGranted ==
    ASSUME NEW n \in Nat, NEW A, NEW entries \in [1 .. n -> A], NEW p, NEW c,
           NEW G, \A e \in A : ToolRules!ToolCheck(p, e, c).allowed <=> e \in G
    PROVE  Filtered(ToolRules!Kept(p, entries, c), n, A, entries, G)
<1> DEFINE Kept == ToolRules!Kept(p, entries, c)
<1>0. PICK seen \in Paths(n, Seq(A)) : Filtering(seen, n, p, entries, c)
  BY LoopOfFilter
<1>1. /\ seen \in [0 .. n -> Seq(A)]
      /\ seen[0] = <<>> /\ seen[n] = Kept
      /\ \A k \in 1 .. n :
            seen[k] = IF ToolRules!ToolCheck(p, entries[k], c).allowed
                      THEN Append(seen[k - 1], entries[k]) ELSE seen[k - 1]
  BY <1>0 DEF Paths, Filtering
<1> HIDE DEF Kept
<1>2. \A k \in 1 .. n :
         seen[k] = IF entries[k] \in G THEN Append(seen[k - 1], entries[k]) ELSE seen[k - 1]
  BY <1>1
<1> DEFINE
      Present(k)    == \A i \in DOMAIN seen[k] : \E q \in 1 .. k : entries[q] = seen[k][i]
      Granted(k)  == \A i \in DOMAIN seen[k] : seen[k][i] \in G
      Complete(k) == \A q \in 1 .. k : entries[q] \in G =>
                        \E i \in DOMAIN seen[k] : seen[k][i] = entries[q]
      Ordered(k)  == \A i, j \in DOMAIN seen[k] : i < j =>
                        \E q, r \in 1 .. k :
                           q < r /\ entries[q] = seen[k][i] /\ entries[r] = seen[k][j]
      Good == {k \in 0 .. n : Present(k) /\ Granted(k) /\ Complete(k) /\ Ordered(k)}
<1>3. 0 \in Good
  BY <1>1
<1>4. ASSUME NEW k \in 0 .. n - 1, k \in Good PROVE k + 1 \in Good
  <2>1. k + 1 \in 1 .. n /\ (k + 1) - 1 = k /\ k \in 0 .. n /\ k \in Nat
    OBVIOUS
  <2>2. seen[k] \in Seq(A) /\ entries[k + 1] \in A
    BY <1>1, <2>1
  <2>3. Present(k) /\ Granted(k) /\ Complete(k) /\ Ordered(k)
    BY <1>4
  <2> SUFFICES Present(k + 1) /\ Granted(k + 1) /\ Complete(k + 1) /\ Ordered(k + 1)
    BY <2>1
  <2>4. CASE entries[k + 1] \notin G
    <3>1. seen[k + 1] = seen[k]
      BY <1>2, <2>1, <2>4
    <3>2. \A q \in 1 .. k : q \in 1 .. k + 1
      BY <2>1
    <3>3. \A q \in 1 .. k + 1 : entries[q] \in G => q \in 1 .. k
      <4>1. \A q \in 1 .. k + 1 : q \in 1 .. k \/ q = k + 1
        BY <2>1
      <4> QED
        BY <2>4, <4>1
    <3>4. Granted(k + 1)
      BY <2>3, <3>1
    <3>5. Present(k + 1)
      <4> TAKE i \in DOMAIN seen[k + 1]
      <4>1. PICK q \in 1 .. k : entries[q] = seen[k][i]
        BY <2>3, <3>1
      <4> QED
        BY <3>1, <3>2, <4>1
    <3>6. Complete(k + 1)
      <4> TAKE q \in 1 .. k + 1
      <4> HAVE entries[q] \in G
      <4>1. q \in 1 .. k
        BY <3>3
      <4> QED
        BY <2>3, <3>1, <4>1
    <3>7. Ordered(k + 1)
      <4> TAKE i, j \in DOMAIN seen[k + 1]
      <4> HAVE i < j
      <4>1. PICK q, r \in 1 .. k : q < r /\ entries[q] = seen[k][i] /\ entries[r] = seen[k][j]
        BY <2>3, <3>1
      <4> QED
        BY <3>1, <3>2, <4>1
    <3> QED
      BY <3>4, <3>5, <3>6, <3>7
  <2>5. CASE entries[k + 1] \in G
    <3> DEFINE l == Len(seen[k]) + 1
    <3>1. seen[k + 1] = Append(seen[k], entries[k + 1])
      BY <1>2, <2>1, <2>5
    <3>2. /\ l \in Nat /\ DOMAIN seen[k] = 1 .. l - 1 /\ DOMAIN seen[k + 1] = 1 .. l
          /\ seen[k + 1][l] = entries[k + 1]
          /\ \A i \in DOMAIN seen[k] : seen[k + 1][i] = seen[k][i]
      BY <2>2, <3>1
    <3>3. /\ \A i \in DOMAIN seen[k + 1] : i \in DOMAIN seen[k] \/ i = l
          /\ \A i \in DOMAIN seen[k] : i \in DOMAIN seen[k + 1] /\ i < l
          /\ l \in DOMAIN seen[k + 1]
          /\ \A q \in 1 .. k : q \in 1 .. k + 1 /\ q < k + 1
          /\ \A q \in 1 .. k + 1 : q \in 1 .. k \/ q = k + 1
          /\ k + 1 \in 1 .. k + 1
      BY <2>1, <3>2
    <3> HIDE DEF l
    <3>4. ASSUME NEW i \in DOMAIN seen[k + 1]
          PROVE  seen[k + 1][i] \in G /\ \E q \in 1 .. k + 1 : entries[q] = seen[k + 1][i]
      <4>1. CASE i \in DOMAIN seen[k]
        <5>1. PICK q \in 1 .. k : entries[q] = seen[k][i]
          BY <2>3, <4>1
        <5> QED
          BY <2>3, <3>2, <3>3, <4>1, <5>1
      <4>2. CASE i = l
        BY <2>5, <3>2, <3>3, <4>2
      <4> QED
        BY <3>3, <4>1, <4>2
    <3>5. ASSUME NEW q \in 1 .. k + 1, entries[q] \in G
          PROVE  \E i \in DOMAIN seen[k + 1] : seen[k + 1][i] = entries[q]
      <4>1. CASE q \in 1 .. k
        <5>1. PICK i \in DOMAIN seen[k] : seen[k][i] = entries[q]
          BY <2>3, <3>5, <4>1
        <5> QED
          BY <3>2, <3>3, <5>1
      <4>2. CASE q = k + 1
        BY <3>2, <3>3, <4>2
      <4> QED
        BY <3>3, <4>1, <4>2
    <3>6. ASSUME NEW i \in DOMAIN seen[k + 1], NEW j \in DOMAIN seen[k + 1], i < j
          PROVE  \E q, r \in 1 .. k + 1 :
                    q < r /\ entries[q] = seen[k + 1][i] /\ entries[r] = seen[k + 1][j]
      <4>1. i \in DOMAIN seen[k]
        BY <3>2, <3>3, <3>6
      <4>2. CASE j \in DOMAIN seen[k]
        <5>1. PICK q, r \in 1 .. k : q < r /\ entries[q] = seen[k][i] /\ entries[r] = seen[k][j]
          BY <2>3, <3>6, <4>1, <4>2
        <5> QED
          BY <3>2, <3>3, <4>1, <4>2, <5>1
      <4>3. CASE j = l
        <5>1. PICK q \in 1 .. k : entries[q] = seen[k][i]
          BY <2>3, <4>1
        <5> QED
          BY <3>2, <3>3, <4>1, <4>3, <5>1
      <4> QED
        BY <3>3, <4>2, <4>3
    <3> QED
      BY <3>4, <3>5, <3>6
  <2> QED
    BY <2>4, <2>5
<1>5. Present(n) /\ Granted(n) /\ Complete(n) /\ Ordered(n)
  <2>1. \A k \in 0 .. n - 1 : k \in Good => k + 1 \in Good
    BY <1>4
  <2>2. n \in Good
    <3> HIDE DEF Good
    <3>1. \A k \in 0 .. n : k \in Good
      BY <1>3, <2>1, Induction
    <3> QED
      BY <3>1
  <2> QED
    BY <2>2
<1>6. Kept \in Seq(A)
  BY <1>1
<1>7. {Kept[i] : i \in DOMAIN Kept} = {entries[q] : q \in 1 .. n} \cap G
  <2>1. \A i \in DOMAIN Kept : Kept[i] \in G /\ \E q \in 1 .. n : entries[q] = Kept[i]
    BY <1>1, <1>5
  <2>2. \A q \in 1 .. n : entries[q] \in G => \E i \in DOMAIN Kept : Kept[i] = entries[q]
    BY <1>1, <1>5
  <2> QED
    BY <2>1, <2>2
<1>8. \A i, j \in DOMAIN Kept : i < j =>
         \E q, r \in 1 .. n : q < r /\ entries[q] = Kept[i] /\ entries[r] = Kept[j]
  BY <1>1, <1>5
<1> QED
  BY <1>6, <1>7, <1>8 DEF Kept, Filtered

\* A caller is shown exactly the entries of the page it can call, in the order of
\* the page, and the count of the others is right (tools_list.py:68-95).
THEOREM VisibleAlwaysCallable == DecisionsSpec => []VisibleIffCallable
<1>1. ToolsInv => VisibleIffCallable
  <2> SUFFICES ASSUME ToolsInv, listing.ok PROVE ToolRules!VisibleIffCallable
    BY DEF VisibleIffCallable, ToolRules!VisibleIffCallable
  <2>1. listing # ToolRules!NotListed /\ listing # ToolRules!Raised
    BY DEF ToolRules!NotListed, ToolRules!Raised
  <2>2. page \in ToolRules!Pages /\ listing = ToolRules!Filter(toolPolicy, page, claim)
    BY <2>1 DEF ToolsInv, ToolInv, NoTools
  <2> DEFINE A == Tools \cup {ToolRules!Junk}
             entries == page.entries
             kept == ToolRules!Kept(toolPolicy, entries, claim)
  <2>3. listing = [ok |-> TRUE, raised |-> FALSE, kept |-> kept, filtered |-> Len(entries) - Len(kept)]
    BY <2>1, <2>2, Zenon DEF ToolRules!Filter
  <2>4. \E n \in Nat : entries \in [1 .. n -> A]
    BY <2>2 DEF ToolRules!Pages
  <2>5. PICK n \in Nat : entries \in [1 .. n -> A]
    BY <2>4
  <2>6. /\ kept \in Seq(A)
        /\ {kept[i] : i \in DOMAIN kept} = {entries[q] : q \in 1 .. n} \cap ToolRules!Grant
        /\ \A i, j \in DOMAIN kept : i < j =>
              \E q, r \in 1 .. n : q < r /\ entries[q] = kept[i] /\ entries[r] = kept[j]
    <3>1. \A e \in A : ToolRules!ToolCheck(toolPolicy, e, claim).allowed <=> e \in ToolRules!Grant
      BY CheckIsGrant
    <3> HIDE DEF entries, A
    <3>2. Filtered(kept, n, A, entries, ToolRules!Grant)
      BY <2>5, <3>1, FilterKeepsGranted
    <3> QED
      BY <3>2 DEF Filtered
  <2> HIDE DEF kept, entries, A
  <2>7. listing.kept = kept /\ listing.filtered = Len(entries) - Len(kept)
    BY <2>3
  <2>8. DOMAIN entries = 1 .. n /\ Len(entries) \in Nat /\ Len(kept) \in Nat
    BY <2>5, <2>6
  <2>9. ToolRules!Range(kept) = ToolRules!Range(entries) \cap ToolRules!Grant
    BY <2>6, <2>8 DEF ToolRules!Range
  <2>10. Len(kept) + (Len(entries) - Len(kept)) = Len(entries)
    BY <2>8
  <2>11. /\ ToolRules!Range(listing.kept) = ToolRules!Range(entries) \cap ToolRules!Grant
         /\ \A i, j \in DOMAIN listing.kept : i < j =>
               \E q, r \in DOMAIN entries :
                  q < r /\ entries[q] = listing.kept[i] /\ entries[r] = listing.kept[j]
         /\ Len(listing.kept) + listing.filtered = Len(entries)
    <3>1. ToolRules!Range(listing.kept) = ToolRules!Range(entries) \cap ToolRules!Grant
      BY <2>7, <2>9, Zenon
    <3>2. \A i, j \in DOMAIN listing.kept : i < j =>
             \E q, r \in DOMAIN entries :
                q < r /\ entries[q] = listing.kept[i] /\ entries[r] = listing.kept[j]
      <4> SUFFICES ASSUME NEW i \in DOMAIN listing.kept, NEW j \in DOMAIN listing.kept, i < j
                   PROVE  \E q, r \in DOMAIN entries :
                             /\ q < r
                             /\ entries[q] = listing.kept[i] /\ entries[r] = listing.kept[j]
        OBVIOUS
      <4>1. /\ i \in DOMAIN kept /\ j \in DOMAIN kept
            /\ listing.kept[i] = kept[i] /\ listing.kept[j] = kept[j]
        BY <2>7
      <4>2. PICK q \in 1 .. n, r \in 1 .. n :
               q < r /\ entries[q] = kept[i] /\ entries[r] = kept[j]
        BY <2>6, <4>1
      <4>3. q \in DOMAIN entries /\ r \in DOMAIN entries
        BY <2>8, Zenon
      <4> QED
        BY <4>1, <4>2, <4>3
    <3>3. Len(listing.kept) + listing.filtered = Len(entries)
      BY <2>7, <2>10, Zenon
    <3> QED
      BY <3>1, <3>2, <3>3, Zenon
  <2> QED
    BY <2>11 DEF ToolRules!VisibleIffCallable, entries
<1> QED
  BY <1>1, ToolsInit, ToolsStep, PTL DEF DecisionsSpec

-----------------------------------------------------------------------------
(* Audit logging.  slot1, slot2, slot3 and slot5 are the audit logger's    *)
(* handlers, level and propagation and the runs of the entry point; slot4  *)
(* is the root logger and slot6 the last event.                            *)

\* The inductive invariant: after the entry point has run the logger has a
\* handler and a level of its own and passes nothing on, so what the root logger
\* becomes no longer matters.
LoggingInv ==
    /\ slot1 \in 0 .. 1
    /\ slot2 \in {Logging!NOTSET, Logging!DEBUG, Logging!INFO, Logging!WARNING}
    /\ slot3 \in BOOLEAN
    /\ slot5 \in Nat
    /\ slot5 > 0 => slot1 = 1 /\ ~slot3 /\ slot2 # Logging!NOTSET
    /\ Logging!OneLineEach /\ Logging!ScopesOnlyOnRequest

LoggersInv == subject = "logging" => LoggingInv

\* The loggers before the entry point has run.
LEMMA LoggersInit == DecisionsInit => LoggersInv
BY DEF DecisionsInit, SlotsInit, LoggersInv, LoggingInv, Logging!Init, Logging!OneLineEach,
       Logging!ScopesOnlyOnRequest

\* Once configured, an event of a severity the logger takes is one line.
LEMMA EmitOnce ==
    ASSUME LoggingInv, slot5 > 0, NEW what
    PROVE  /\ Logging!Lines(Logging!Severity(what)) =
                 IF slot2 = Logging!WARNING /\ Logging!Severity(what) = Logging!INFO
                 THEN 0 ELSE 1
           /\ Logging!EffectiveLevel <= Logging!DEBUG => slot2 = Logging!DEBUG
<1>1. Logging!Severity(what) \in {Logging!INFO, Logging!WARNING}
  BY DEF Logging!Severity
<1>2. Logging!EffectiveLevel = slot2 /\ slot1 = 1 /\ ~slot3
  BY DEF LoggingInv, Logging!EffectiveLevel
<1>3. slot2 \in {Logging!DEBUG, Logging!INFO, Logging!WARNING}
  BY DEF LoggingInv
<1>4. Logging!Lines(Logging!Severity(what)) =
        IF Logging!Severity(what) < slot2 THEN 0 ELSE 1
  BY <1>1, <1>2 DEF Logging!Lines, Logging!INFO, Logging!WARNING
<1> QED
  BY <1>1, <1>2, <1>3, <1>4 DEF Logging!DEBUG, Logging!INFO, Logging!WARNING

\* Running the entry point and logging keep the loggers as they should be.
LEMMA LoggersStep ==
    ASSUME LoggersInv, [DecisionsNext]_<<subject, vars, scopeVars, toolVars, slots>>
    PROVE  LoggersInv'
<1> SUFFICES ASSUME subject' = "logging" PROVE LoggingInv'
  BY DEF LoggersInv
<1>1. subject = "logging" /\ LoggingInv
  BY DEF DecisionsNext, LoggersInv
<1>2. CASE UNCHANGED slots
  BY <1>1, <1>2 DEF LoggingInv, Logging!OneLineEach, Logging!ScopesOnlyOnRequest, slots
<1>3. CASE Logging!Configure
  <2>1. slot6' = Logging!NoEvent /\ UNCHANGED slot4 /\ slot5' = slot5 + 1 /\ slot3' = FALSE
    BY <1>3 DEF Logging!Configure
  <2>2. slot1' = 1
    BY <1>1, <1>3 DEF Logging!Configure, LoggingInv
  <2>3. slot2' \in {Logging!DEBUG, Logging!INFO, Logging!WARNING}
    BY <1>1, <1>3 DEF Logging!Configure, LoggingInv
  <2>4. slot5 \in Nat /\ slot6'.what = "none" /\ slot6'.scopes = FALSE
    BY <1>1, <2>1 DEF LoggingInv, Logging!NoEvent
  <2>5. Logging!OneLineEach' /\ Logging!ScopesOnlyOnRequest'
    BY <2>4 DEF Logging!OneLineEach, Logging!ScopesOnlyOnRequest
  <2>6. slot1' \in 0 .. 1 /\ slot5' \in Nat
    BY <2>1, <2>2, <2>4
  <2>7. slot3' \in BOOLEAN /\ ~slot3'
    BY <2>1
  <2>8. /\ slot2' \in {Logging!NOTSET, Logging!DEBUG, Logging!INFO, Logging!WARNING}
        /\ slot2' # Logging!NOTSET
    BY <2>3 DEF Logging!NOTSET, Logging!DEBUG, Logging!INFO, Logging!WARNING
  <2> QED
    BY <2>2, <2>5, <2>6, <2>7, <2>8 DEF LoggingInv
<1>4. CASE \E what \in Logging!Decisions \cup Logging!Results : Logging!Emit(what)
  <2>1. PICK what \in Logging!Decisions \cup Logging!Results : Logging!Emit(what)
    BY <1>4
  <2>2. /\ UNCHANGED <<slot1, slot2, slot3, slot4, slot5>>
        /\ slot6' = [what |-> what, lines |-> Logging!Lines(Logging!Severity(what)),
                     scopes |-> Logging!EffectiveLevel <= Logging!DEBUG]
    BY <2>1 DEF Logging!Emit
  <2>3. /\ slot6'.what = what /\ slot6'.lines = Logging!Lines(Logging!Severity(what))
        /\ slot6'.scopes => Logging!EffectiveLevel <= Logging!DEBUG
    BY <2>2
  <2>4. Logging!OneLineEach' /\ Logging!ScopesOnlyOnRequest'
    BY <1>1, <2>2, <2>3, EmitOnce DEF Logging!OneLineEach, Logging!ScopesOnlyOnRequest
  <2> QED
    BY <1>1, <2>2, <2>4 DEF LoggingInv
<1>5. CASE Logging!RootChanges
  BY <1>1, <1>5
     DEF LoggingInv, Logging!RootChanges, Logging!NoEvent, Logging!OneLineEach,
         Logging!ScopesOnlyOnRequest
<1> QED
  BY <1>1, <1>2, <1>3, <1>4, <1>5 DEF DecisionsNext, SlotsNext, Logging!Next, slots

\* Once the entry point has run, every event is one line, or none when an operator
\* asked for warnings only, however often it runs and whatever becomes of the root
\* logger (__main__.py:20-34, 42-44).
THEOREM EventsAreOneLine == DecisionsSpec => []OneLineEach
<1>1. LoggersInv => OneLineEach
  BY DEF LoggersInv, LoggingInv, OneLineEach
<1> QED
  BY <1>1, LoggersInit, LoggersStep, PTL DEF DecisionsSpec

\* Scope values are written only when this very logger is at DEBUG: a root logger
\* at DEBUG does not reach it once the entry point has run (audit.py:8-11,
\* __main__.py:40-41).
THEOREM ScopesNeedRequest == DecisionsSpec => []ScopesOnlyOnRequest
<1>1. LoggersInv => ScopesOnlyOnRequest
  BY DEF LoggersInv, LoggingInv, ScopesOnlyOnRequest
<1> QED
  BY <1>1, LoggersInit, LoggersStep, PTL DEF DecisionsSpec

-----------------------------------------------------------------------------
(* Policy files.  slot1 is the file, slot2 whether it was loaded, slot3    *)
(* the policy made of it.                                                  *)

FilesInv ==
    subject = "files" =>
        /\ PolicyFile!FilesAsWritten /\ slot2 \in {"unread", "loaded", "refused"}
        /\ slot1.kind = "scope" => \E n \in Nat : DOMAIN slot1.rules = 1 .. n

\* Nothing is loaded of a policy file at first.
LEMMA FilesInit == DecisionsInit => FilesInv
<1> SUFFICES ASSUME DecisionsInit, subject = "files"
             PROVE  /\ PolicyFile!FilesAsWritten /\ slot2 = "unread"
                    /\ slot1.kind = "scope" => \E n \in Nat : DOMAIN slot1.rules = 1 .. n
  BY DEF FilesInv
<1>1. PolicyFile!Init
  BY DEF DecisionsInit, SlotsInit
<1>2. slot1.kind = "scope" => \E n \in Nat : DOMAIN slot1.rules = 1 .. n
  <2> SUFFICES ASSUME slot1.kind = "scope" PROVE \E n \in Nat : DOMAIN slot1.rules = 1 .. n
    OBVIOUS
  <2>1. slot1 \in PolicyFile!ScopeFiles
    BY <1>1 DEF PolicyFile!Init, PolicyFile!ToolFiles
  <2>2. PICK n \in 0 .. MaxRules : slot1.rules \in [1 .. n -> PolicyFile!ScopeRules]
    BY <2>1 DEF PolicyFile!ScopeFiles
  <2> QED
    BY <2>2, BoundsAssumption
<1> QED
  BY <1>1, <1>2 DEF PolicyFile!Init, PolicyFile!FilesAsWritten

\* A field that has passed _string_list says what it is taken for.
LEMMA ListsAreWritten ==
    ASSUME NEW f
    PROVE  /\ PolicyFile!IsStringList(f) =>
                /\ PolicyFile!AsSet(f) = PolicyFile!Written(f)
                /\ PolicyFile!Written(f) = f.elements
                /\ f.elements \subseteq FileNames
           /\ PolicyFile!IsStringList(PolicyFile!Given(f)) =>
                PolicyFile!AsSet(PolicyFile!Given(f)) = PolicyFile!Written(f)
           /\ PolicyFile!Scopes(f).ok =>
                /\ PolicyFile!Scopes(f).scopes = PolicyFile!Written(f)
                /\ f.form = "list"
           /\ PolicyFile!Scopes(PolicyFile!Given(f)).ok =>
                PolicyFile!Scopes(PolicyFile!Given(f)).scopes = PolicyFile!Written(f)
<1>1. \A g : g.form = "list" =>
         PolicyFile!AsSet(g) = g.elements /\ PolicyFile!Written(g) = g.elements
  BY DEF PolicyFile!AsSet, PolicyFile!Written
<1>2. PolicyFile!Absent.form = "absent" /\ PolicyFile!Written(PolicyFile!Absent) = {}
  BY DEF PolicyFile!Absent, PolicyFile!Written
<1>3. \/ PolicyFile!Given(f) = f
      \/ /\ f = PolicyFile!Absent
         /\ PolicyFile!Given(f).form = "list" /\ PolicyFile!Given(f).elements = {}
  BY DEF PolicyFile!Given
<1>4. \A g : /\ PolicyFile!IsStringList(g) => g.form = "list" /\ g.elements \subseteq FileNames
             /\ PolicyFile!Scopes(g).ok =>
                   g.form = "list" /\ PolicyFile!Scopes(g).scopes = PolicyFile!AsSet(g)
  BY DEF PolicyFile!IsStringList, PolicyFile!Scopes
<1> QED
  BY <1>1, <1>2, <1>3, <1>4

\* Loading a tool policy (tool_policy.py:134-180).
LEMMA ToolFileStep ==
    ASSUME PolicyFile!LoadToolPolicy, slot2' = "loaded"
    PROVE  PolicyFile!ToolRulesAsWritten'
<1>1. /\ PolicyFile!IsStringList(PolicyFile!Given(slot1.allowed_tools))
      /\ \A i \in DOMAIN slot1.rules : PolicyFile!RuleSound(slot1.rules[i])
      /\ slot1' = slot1
      /\ slot3'.allowed_tools = PolicyFile!AsSet(PolicyFile!Given(slot1.allowed_tools))
      /\ slot3'.rules = [i \in DOMAIN slot1.rules |->
                           [any_of |-> PolicyFile!AsSet(slot1.rules[i].any_of),
                            allowed_tools |-> PolicyFile!AsSet(slot1.rules[i].allowed_tools)]]
  BY DEF PolicyFile!LoadToolPolicy, PolicyFile!Make, PolicyFile!Refuse, PolicyFile!Nothing
<1>2. \A i \in DOMAIN slot1.rules :
         /\ PolicyFile!IsStringList(slot1.rules[i].any_of) /\ slot1.rules[i].any_of.elements # {}
         /\ PolicyFile!IsStringList(slot1.rules[i].allowed_tools)
  BY <1>1 DEF PolicyFile!RuleSound
<1>3. slot3'.allowed_tools = PolicyFile!Written(slot1'.allowed_tools)
  BY <1>1, ListsAreWritten
<1>4. ASSUME NEW i \in DOMAIN slot1.rules
      PROVE  /\ slot3'.rules[i].any_of = PolicyFile!Written(slot1.rules[i].any_of)
             /\ slot3'.rules[i].any_of # {}
             /\ slot3'.rules[i].allowed_tools = PolicyFile!Written(slot1.rules[i].allowed_tools)
             /\ slot3'.rules[i].allowed_tools \subseteq FileNames
  <2>1. /\ slot3'.rules[i].any_of = PolicyFile!AsSet(slot1.rules[i].any_of)
        /\ slot3'.rules[i].allowed_tools = PolicyFile!AsSet(slot1.rules[i].allowed_tools)
    BY <1>1
  <2> DEFINE any == slot1.rules[i].any_of
             allowed == slot1.rules[i].allowed_tools
  <2>2. PolicyFile!AsSet(any) = PolicyFile!Written(any) /\ PolicyFile!Written(any) # {}
    BY <1>2, ListsAreWritten
  <2>3. /\ PolicyFile!AsSet(allowed) = PolicyFile!Written(allowed)
        /\ PolicyFile!Written(allowed) \subseteq FileNames
    BY <1>2, ListsAreWritten
  <2> QED
    BY <2>1, <2>2, <2>3
<1>5. DOMAIN slot3'.rules = DOMAIN slot1.rules
  BY <1>1
<1> QED
  BY <1>1, <1>3, <1>4, <1>5 DEF PolicyFile!ToolRulesAsWritten

\* Of several members with one name, json.load leaves the last (policy.py:79).
LEMMA LastMemberStays ==
    ASSUME NEW n \in Nat, NEW rs, DOMAIN rs = 1 .. n,
           NEW i \in 1 .. n, \A j \in 1 .. n : j > i => rs[j].method # rs[i].method
    PROVE  /\ rs[i].method \in DOMAIN PolicyFile!Members(rs)
           /\ PolicyFile!Members(rs)[rs[i].method] = rs[i].scopes
<1> DEFINE Stays(k) == /\ rs[k].method = rs[i].method
                       /\ \A j \in DOMAIN rs : j > k => rs[j].method # rs[i].method
           last == CHOOSE k \in DOMAIN rs : Stays(k)
<1>1. i \in DOMAIN rs /\ Stays(i)
  OBVIOUS
<1>2. last \in DOMAIN rs /\ Stays(last)
  <2> HIDE DEF Stays
  <2> QED
    BY <1>1
<1>3. last = i
  <2> HIDE DEF last
  <2>1. ~(last > i) /\ ~(i > last)
    BY <1>1, <1>2
  <2> QED
    BY <1>1, <1>2, <2>1
<1>4. rs[i].method \in {rs[k].method : k \in DOMAIN rs}
  BY <1>1
<1>5. PolicyFile!Members(rs)[rs[i].method] = rs[last].scopes
  BY <1>4, Zenon DEF PolicyFile!Members
<1> QED
  BY <1>3, <1>4, <1>5 DEF PolicyFile!Members

\* Loading a scope policy (policy.py:76-109).
LEMMA ScopeFileStep ==
    ASSUME PolicyFile!LoadScopePolicy, slot2' = "loaded",
           NEW n \in Nat, DOMAIN slot1.rules = 1 .. n
    PROVE  PolicyFile!ScopeRulesAsWritten'
<1> DEFINE rules == PolicyFile!Members(slot1.rules)
<1>1. /\ \A m \in DOMAIN rules : PolicyFile!Scopes(rules[m]).ok
      /\ PolicyFile!Scopes(PolicyFile!Given(slot1.default)).ok
      /\ slot1' = slot1
      /\ slot3'.default = PolicyFile!Scopes(PolicyFile!Given(slot1.default)).scopes
      /\ slot3'.rules = [m \in DOMAIN rules |-> PolicyFile!Scopes(rules[m]).scopes]
  BY DEF PolicyFile!LoadScopePolicy, PolicyFile!Make, PolicyFile!Refuse, PolicyFile!Nothing
<1>2. slot3'.default = PolicyFile!Written(slot1'.default)
  BY <1>1, ListsAreWritten
<1>3. DOMAIN rules = {slot1.rules[i].method : i \in DOMAIN slot1.rules}
  BY DEF PolicyFile!Members
<1>4. ASSUME NEW i \in DOMAIN slot1.rules,
             ~ \E j \in DOMAIN slot1.rules :
                 j > i /\ slot1.rules[j].method = slot1.rules[i].method
      PROVE  /\ slot3'.rules[slot1.rules[i].method] = PolicyFile!Written(slot1.rules[i].scopes)
             /\ slot1.rules[i].scopes.form = "list"
  <2>1. /\ slot1.rules[i].method \in DOMAIN rules
        /\ rules[slot1.rules[i].method] = slot1.rules[i].scopes
    BY <1>4, LastMemberStays
  <2> HIDE DEF rules
  <2>2. /\ slot3'.rules[slot1.rules[i].method] = PolicyFile!Scopes(slot1.rules[i].scopes).scopes
        /\ PolicyFile!Scopes(slot1.rules[i].scopes).ok
    BY <1>1, <2>1
  <2> QED
    BY <2>2, ListsAreWritten
<1>5. DOMAIN slot3'.rules = {slot1.rules[i].method : i \in DOMAIN slot1.rules}
  BY <1>1, <1>3
<1>6. slot1' = slot1
  BY <1>1
<1> HIDE DEF rules
<1>7. ASSUME NEW i \in DOMAIN slot1.rules
      PROVE  LET m == slot1.rules[i].method
                 f == slot1.rules[i].scopes
             IN  \/ \E j \in DOMAIN slot1.rules : j > i /\ slot1.rules[j].method = m
                 \/ /\ slot3'.rules[m] = PolicyFile!Written(f)
                    /\ slot3'.rules[m] = {} => f.form = "list"
  BY <1>4
<1>8. /\ slot3'.default = PolicyFile!Written(slot1.default)
      /\ DOMAIN slot3'.rules = {slot1.rules[i].method : i \in DOMAIN slot1.rules}
  BY <1>2, <1>5, <1>6
<1> QED
  BY <1>6, <1>7, <1>8 DEF PolicyFile!ScopeRulesAsWritten

\* Every step keeps what is behind a loaded file.
LEMMA FilesStep ==
    ASSUME FilesInv, [DecisionsNext]_<<subject, vars, scopeVars, toolVars, slots>>
    PROVE  FilesInv'
<1> SUFFICES ASSUME subject' = "files"
             PROVE  /\ PolicyFile!FilesAsWritten' /\ slot2' \in {"unread", "loaded", "refused"}
                    /\ slot1'.kind = "scope" => \E n \in Nat : DOMAIN slot1'.rules = 1 .. n
  BY DEF FilesInv
<1>1. /\ subject = "files" /\ PolicyFile!FilesAsWritten
      /\ slot1.kind = "scope" => \E n \in Nat : DOMAIN slot1.rules = 1 .. n
  BY DEF DecisionsNext, FilesInv
<1>2. CASE UNCHANGED slots
  BY <1>1, <1>2 DEF FilesInv, PolicyFile!FilesAsWritten, PolicyFile!ToolRulesAsWritten,
                    PolicyFile!ScopeRulesAsWritten, slots
<1>3. CASE PolicyFile!LoadToolPolicy
  <2>1. slot1' = slot1 /\ slot1'.kind = "tool" /\ slot2' \in {"loaded", "refused"}
    BY <1>3 DEF PolicyFile!LoadToolPolicy, PolicyFile!Make, PolicyFile!Refuse
  <2> QED
    BY <1>1, <1>3, <2>1, ToolFileStep DEF PolicyFile!FilesAsWritten
<1>4. CASE PolicyFile!LoadScopePolicy
  <2>1. slot1' = slot1 /\ slot1.kind = "scope" /\ slot2' \in {"loaded", "refused"}
    BY <1>4 DEF PolicyFile!LoadScopePolicy, PolicyFile!Make, PolicyFile!Refuse
  <2>2. PICK n \in Nat : DOMAIN slot1.rules = 1 .. n
    BY <1>1, <2>1
  <2> QED
    BY <1>4, <2>1, <2>2, ScopeFileStep DEF PolicyFile!FilesAsWritten
<1> QED
  BY <1>1, <1>2, <1>3, <1>4 DEF DecisionsNext, SlotsNext, PolicyFile!Next, slots

\* What is in force is what the file says: a file with one field that is not
\* understood is refused, no text is taken apart into letters, and no rule asks
\* for nothing unless the file says so (tool_policy.py:134-180, policy.py:76-109).
THEOREM PoliciesAreAsWritten == DecisionsSpec => []FilesAsWritten
<1>1. FilesInv => FilesAsWritten
  BY DEF FilesInv, FilesAsWritten
<1> QED
  BY <1>1, FilesInit, FilesStep, PTL DEF DecisionsSpec
=============================================================================
