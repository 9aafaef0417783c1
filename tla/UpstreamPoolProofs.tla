------------------------- MODULE UpstreamPoolProofs -------------------------
(***************************************************************************)
(* Theorems about UpstreamPool for any number of requests and connections: *)
(* no connection is lost but by an exception where a response is made, who *)
(* waits is served in turn, and every request keeps what UpstreamExchange  *)
(* promises of one.  The invariant has to know who stands in line          *)
(* (LineIsWaiting), whose a connection can be (HoldersActive), and what is *)
(* on record of a request at each stage (RecordOfStage).                   *)
(***************************************************************************)
EXTENDS UpstreamPool, SequenceTheorems, TLAPS

\* The stages in which a request has a connection.
Active == {"asking", "held", "relaying", "stranded"}

PoolTypes ==
    /\ stage \in [Senders -> Stages]
    /\ line \in Seq(Senders)
    /\ holder \in [Connections -> Senders \cup {Free}]
    /\ decision \in [Senders -> {"none", "allowed", "refused"}]

\* Free stands in line twice, and whoever does is waiting.
LineIsWaiting ==
    /\ \A i \in DOMAIN line : stage[line[i]] = "waiting"
    /\ \A i, j \in DOMAIN line : line[i] = line[j] => i = j

HoldersActive ==
    \A c \in Connections : holder[c] # Free => stage[holder[c]] \in Active

\* While somebody stands in line no connection is free.
NoneFree == line # <<>> => \A c \in Connections : holder[c] # Free

RecordOfStage ==
    \A r \in Senders :
        /\ stage[r] \in {"before", "waiting", "asking", "held"}
              => decision[r] = "none" /\ r \notin passed
        /\ stage[r] \in {"relaying", "stranded"} => decision[r] = "allowed"
        /\ stage[r] = "stranded" => r \notin passed

IInv ==
    /\ PoolTypes
    /\ LineIsWaiting
    /\ HoldersActive
    /\ NoneFree
    /\ RecordOfStage

\* A free connection is no request's.
FreeIsNobody == Free \notin Senders

-----------------------------------------------------------------------------
(* The line.                                                               *)

\* What RemoveAt leaves of a sequence.
LEMMA Removed ==
    ASSUME NEW S, NEW s \in Seq(S), NEW i \in DOMAIN s
    PROVE  /\ RemoveAt(s, i) \in Seq(S)
           /\ Len(RemoveAt(s, i)) = Len(s) - 1
           /\ \A j \in 1 .. Len(s) - 1 :
                 RemoveAt(s, i)[j] = IF j < i THEN s[j] ELSE s[j + 1]
<1> DEFINE a == SubSeq(s, 1, i - 1)
           b == SubSeq(s, i + 1, Len(s))
<1>1. /\ a \in Seq(S) /\ Len(a) = i - 1
      /\ \A j \in 1 .. i - 1 : a[j] = s[j]
  OBVIOUS
<1>2. /\ b \in Seq(S) /\ Len(b) = Len(s) - i
      /\ \A j \in 1 .. Len(s) - i : b[j] = s[i + j]
  OBVIOUS
<1>3. RemoveAt(s, i) = a \o b
  BY DEF RemoveAt
<1> HIDE DEF a, b
<1>4. /\ a \o b \in Seq(S) /\ Len(a \o b) = Len(a) + Len(b)
      /\ \A k \in 1 .. Len(a) + Len(b) :
           (a \o b)[k] = IF k <= Len(a) THEN a[k] ELSE b[k - Len(a)]
  BY <1>1, <1>2, ConcatProperties
<1>5. i \in Int /\ Len(s) \in Int /\ Len(a) + Len(b) = Len(s) - 1
  BY <1>1, <1>2
<1>6. ASSUME NEW j \in 1 .. Len(s) - 1
      PROVE  (a \o b)[j] = IF j < i THEN s[j] ELSE s[j + 1]
  <2>1. (a \o b)[j] = IF j <= i - 1 THEN a[j] ELSE b[j - (i - 1)]
    BY <1>1, <1>4, <1>5
  <2>2. CASE j < i
    <3>1. j \in 1 .. i - 1
      BY <1>5, <2>2
    <3>. QED
      BY <1>1, <2>1, <2>2, <3>1
  <2>3. CASE ~(j < i)
    <3>1. /\ j - (i - 1) \in 1 .. Len(s) - i /\ ~(j <= i - 1)
          /\ i + (j - (i - 1)) = j + 1
      BY <1>5, <2>3
    <3>2. b[j - (i - 1)] = s[j + 1]
      BY <1>2, <3>1
    <3>. QED
      BY <2>1, <2>3, <3>1, <3>2
  <2>. QED
    BY <2>2, <2>3
<1>. QED
  BY <1>3, <1>4, <1>5, <1>6

\* A line without one of its members is still a line, and the member is gone.
LEMMA LineWithout ==
    ASSUME PoolTypes, LineIsWaiting, NEW i \in DOMAIN line, line' = RemoveAt(line, i)
    PROVE  /\ line' \in Seq(Senders)
           /\ \A j \in DOMAIN line' : \E k \in DOMAIN line : k # i /\ line'[j] = line[k]
           /\ \A j \in DOMAIN line' : line'[j] # line[i]
           /\ \A j, k \in DOMAIN line' : line'[j] = line'[k] => j = k
           /\ line' # <<>> => line # <<>>
<1> USE DEF PoolTypes, LineIsWaiting
<1> DEFINE Old(j) == IF j < i THEN j ELSE j + 1
<1>1. /\ line' \in Seq(Senders) /\ Len(line') = Len(line) - 1
      /\ \A j \in 1 .. Len(line') : line'[j] = line[Old(j)]
  <2>1. line \in Seq(Senders)
    OBVIOUS
  <2>2. /\ line' \in Seq(Senders) /\ Len(line') = Len(line) - 1
        /\ \A j \in 1 .. Len(line) - 1 : line'[j] = IF j < i THEN line[j] ELSE line[j + 1]
    BY <2>1, Removed
  <2>3. \A j \in 1 .. Len(line') : line'[j] = line[Old(j)]
    BY <2>2
  <2>. QED
    BY <2>2, <2>3
<1>2. \A j \in 1 .. Len(line') : Old(j) \in DOMAIN line /\ Old(j) # i
  BY <1>1
<1>3. \A j, k \in 1 .. Len(line') : Old(j) = Old(k) => j = k
  BY <1>1
<1>4. DOMAIN line' = 1 .. Len(line')
  BY <1>1
<1> HIDE DEF Old
<1>5. \A j \in DOMAIN line' : \E k \in DOMAIN line : k # i /\ line'[j] = line[k]
  BY <1>1, <1>2, <1>4
<1>6. \A j, k \in DOMAIN line' : line'[j] = line'[k] => j = k
  <2> SUFFICES ASSUME NEW j \in 1 .. Len(line'), NEW k \in 1 .. Len(line'), line'[j] = line'[k]
               PROVE  j = k
    BY <1>4
  <2>1. line[Old(j)] = line[Old(k)]
    BY <1>1
  <2>2. Old(j) = Old(k)
    BY <1>2, <2>1
  <2>. QED
    BY <1>3, <2>2
<1>. QED
  BY <1>1, <1>5, <1>6

-----------------------------------------------------------------------------
(* Each kind of step preserves the invariant.                              *)

LEMMA InitIInv == SendersInit => IInv
  BY DEF SendersInit, IInv, PoolTypes, Stages, Ended, LineIsWaiting, HoldersActive, NoneFree, RecordOfStage

LEMMA SendStep == ASSUME FreeIsNobody, IInv, NEW r \in Senders, Send(r) PROVE IInv'
<1> USE DEF IInv, PoolTypes, Send, Move, Stages, Ended
<1>1. CASE \E c \in Connections : holder[c] = Free
  <2>1. /\ \E c \in Connections : holder' = [holder EXCEPT ![c] = r]
        /\ stage' = [stage EXCEPT ![r] = "asking"] /\ line' = line /\ line = <<>>
    BY <1>1 DEF NoneFree
  <2>2. HoldersActive' /\ NoneFree'
    BY <2>1 DEF HoldersActive, NoneFree, Active, FreeIsNobody
  <2>. QED
    BY <2>1, <2>2 DEF LineIsWaiting, RecordOfStage
<1>2. CASE \A c \in Connections : holder[c] # Free
  <2>1. /\ stage' = [stage EXCEPT ![r] = "waiting"] /\ holder' = holder
        /\ line' = Append(line, r) /\ stage[r] = "before"
    BY <1>2
  <2>2. /\ line' \in Seq(Senders) /\ Len(line') = Len(line) + 1
        /\ \A i \in 1 .. Len(line) : line'[i] = line[i]
        /\ line'[Len(line) + 1] = r
    BY <2>1
  <2>3. LineIsWaiting'
    BY <2>1, <2>2 DEF LineIsWaiting
  <2>4. HoldersActive' /\ NoneFree' /\ RecordOfStage'
    BY <1>2, <2>1 DEF HoldersActive, NoneFree, RecordOfStage, Active
  <2>. QED
    BY <2>1, <2>2, <2>3, <2>4
<1>. QED
  BY <1>1, <1>2

LEMMA GiveUpStep == ASSUME IInv, NEW r \in Senders, TimeOut(r) PROVE IInv'
<1> USE DEF IInv
<1>1. PICK i \in DOMAIN line : line[i] = r /\ line' = RemoveAt(line, i)
  BY DEF TimeOut
<1>2. /\ stage[r] = "waiting" /\ stage' = [stage EXCEPT ![r] = "over"]
      /\ decision' = [decision EXCEPT ![r] = "refused"]
      /\ holder' = holder /\ passed' = passed
  BY DEF TimeOut, Move, Note
<1>3. /\ line' \in Seq(Senders)
      /\ \A j \in DOMAIN line' : \E k \in DOMAIN line : line'[j] = line[k]
      /\ \A j \in DOMAIN line' : line'[j] # r
      /\ \A j, k \in DOMAIN line' : line'[j] = line'[k] => j = k
      /\ line' # <<>> => line # <<>>
  BY <1>1, LineWithout
<1>4. PoolTypes'
  BY <1>2, <1>3 DEF PoolTypes, Stages, Ended
<1>5. LineIsWaiting'
  BY <1>2, <1>3 DEF LineIsWaiting, PoolTypes
<1>6. HoldersActive' /\ NoneFree' /\ RecordOfStage'
  BY <1>2, <1>3 DEF HoldersActive, NoneFree, RecordOfStage, PoolTypes, Active
<1>. QED
  BY <1>4, <1>5, <1>6

\* What a request that gives its connection back does to the others.
LEMMA ReleaseEffect ==
    ASSUME FreeIsNobody, IInv, NEW r \in Senders, stage[r] \in Active,
           NEW s \in {"over", "crashed"}, ReleaseAs(r, s)
    PROVE  /\ stage' \in [Senders -> Stages] /\ stage'[r] = s
           /\ line' \in Seq(Senders)
           /\ holder' \in [Connections -> Senders \cup {Free}]
           /\ LineIsWaiting' /\ HoldersActive' /\ NoneFree'
           /\ \A q \in Senders \ {r} :
                 stage'[q] = stage[q] \/ (stage[q] = "waiting" /\ stage'[q] = "asking")
<1> USE DEF IInv, PoolTypes, ReleaseAs, Stages, Ended, Active
<1>1. CASE line = <<>>
  <2>1. /\ line' = <<>>
        /\ holder' = [c \in Connections |-> IF holder[c] # r THEN holder[c] ELSE Free]
        /\ stage' = [q \in Senders |-> IF q = r THEN s ELSE stage[q]]
    BY <1>1
  <2>. QED
    BY <2>1 DEF LineIsWaiting, HoldersActive, NoneFree
<1>2. CASE line # <<>>
  <2> DEFINE h == Head(line)
  <2>1. /\ h \in Senders /\ h = line[1] /\ stage[h] = "waiting"
        /\ line' = Tail(line) /\ line' \in Seq(Senders) /\ Len(line') = Len(line) - 1
        /\ \A i \in 1 .. Len(line') : line'[i] = line[i + 1]
    BY <1>2 DEF LineIsWaiting
  <2>2. /\ holder' = [c \in Connections |-> IF holder[c] # r THEN holder[c] ELSE h]
        /\ stage' = [q \in Senders |->
                        IF q = r THEN s ELSE IF q = h THEN "asking" ELSE stage[q]]
    BY <1>2
  <2> HIDE DEF h
  <2>3. \A c \in Connections : holder[c] \in Senders /\ holder[c] # h
    BY <1>2, <2>1 DEF NoneFree, HoldersActive
  <2>4. h # r
    BY <2>1
  <2>5. HoldersActive' /\ NoneFree'
    BY <2>1, <2>2, <2>3, <2>4 DEF HoldersActive, NoneFree, FreeIsNobody
  <2>6. LineIsWaiting'
    <3>1. DOMAIN line' = 1 .. Len(line')
      BY <2>1
    <3>2. \A i \in 1 .. Len(line') : i + 1 \in DOMAIN line
      BY <2>1
    <3>3. \A i \in DOMAIN line' : line'[i] # h /\ line'[i] # r /\ stage[line'[i]] = "waiting"
      <4> SUFFICES ASSUME NEW i \in 1 .. Len(line')
                   PROVE  line'[i] # h /\ line'[i] # r /\ stage[line'[i]] = "waiting"
        BY <3>1
      <4>1. i + 1 \in DOMAIN line /\ 1 \in DOMAIN line /\ i + 1 # 1 /\ line'[i] = line[i + 1]
        BY <1>2, <2>1, <3>2
      <4>. QED
        BY <2>1, <4>1 DEF LineIsWaiting
    <3>4. \A i, j \in DOMAIN line' : line'[i] = line'[j] => i = j
      <4> SUFFICES ASSUME NEW i \in 1 .. Len(line'), NEW j \in 1 .. Len(line'),
                          line'[i] = line'[j]
                   PROVE  i = j
        BY <3>1
      <4>1. line[i + 1] = line[j + 1] /\ i + 1 \in DOMAIN line /\ j + 1 \in DOMAIN line
        BY <2>1, <3>2
      <4>2. i + 1 = j + 1
        BY <4>1 DEF LineIsWaiting
      <4>. QED
        BY <4>2
    <3>5. \A i \in DOMAIN line' : line'[i] \in Senders
      BY <2>1
    <3>. QED
      BY <2>2, <3>3, <3>4, <3>5 DEF LineIsWaiting
  <2>. QED
    BY <2>1, <2>2, <2>3, <2>4, <2>5, <2>6
<1>. QED
  BY <1>1, <1>2

\* Every way to give a connection back.
GivesBack(r) == Refuse(r) \/ Settle(r) \/ Leave(r) \/ Collect(r)

LEMMA GivesBackReleases ==
    ASSUME NEW r, GivesBack(r)
    PROVE  stage[r] \in Active /\ \E s \in {"over", "crashed"} : ReleaseAs(r, s)
BY DEF GivesBack, Refuse, Settle, Leave, Collect, Release, Active

LEMMA ReleaseStep ==
    ASSUME FreeIsNobody, IInv, NEW r \in Senders, GivesBack(r)
    PROVE  IInv'
<1> USE DEF IInv
<1>1. stage[r] \in Active /\ \E s \in {"over", "crashed"} : ReleaseAs(r, s)
  BY GivesBackReleases
<1>2. /\ decision' \in [Senders -> {"none", "allowed", "refused"}]
      /\ \A q \in Senders \ {r} : decision'[q] = decision[q] /\ (q \in passed' <=> q \in passed)
  BY DEF GivesBack, Refuse, Settle, Leave, Collect, Note, PoolTypes
<1>3. RecordOfStage'
  BY <1>1, <1>2, ReleaseEffect DEF RecordOfStage
<1>. QED
  BY <1>1, <1>2, <1>3, ReleaseEffect DEF PoolTypes

\* The steps of a request that neither get nor give a connection.
LEMMA AnswerStep == ASSUME IInv, NEW r \in Senders, Answer(r) \/ Relay(r) PROVE IInv'
<1> USE DEF IInv, PoolTypes, Stages, Ended
<1>1. CASE Answer(r)
  BY <1>1 DEF Answer, Move, Note, LineIsWaiting, HoldersActive, NoneFree, RecordOfStage, Active
<1>2. CASE Relay(r)
  BY <1>2 DEF Relay, LineIsWaiting, HoldersActive, NoneFree, RecordOfStage
<1>. QED
  BY <1>1, <1>2

LEMMA NextStep == ASSUME FreeIsNobody, IInv, [SendersNext]_senderVars PROVE IInv'
<1>1. CASE Stand \/ UNCHANGED senderVars
  BY <1>1 DEF Stand, senderVars, IInv, PoolTypes, LineIsWaiting, HoldersActive, NoneFree, RecordOfStage
<1>. QED
  BY <1>1, SendStep, GiveUpStep, AnswerStep, ReleaseStep DEF SendersNext, Bounded, GivesBack

-----------------------------------------------------------------------------
(* One request's share.                                                    *)

\* A step of the pool is for each request a step of its exchange or invisible.
LEMMA EachStep ==
    ASSUME FreeIsNobody, IInv, [SendersNext]_senderVars, NEW q \in Senders
    PROVE  [Life(q)!Next]_(Life(q)!vars)
<1> USE DEF IInv, PoolTypes, Stages, Ended
<1> DEFINE Same == /\ stage'[q] = stage[q] \/ (stage[q] \in {"before", "waiting"} /\
                                               stage'[q] \in {"waiting", "asking"})
                   /\ decision'[q] = decision[q] /\ (q \in passed' <=> q \in passed)
<1>1. Same => UNCHANGED Life(q)!vars
  BY DEF Conn, Life!vars
<1>2. ASSUME NEW r \in Senders, Send(r)
      PROVE  Same
  BY <1>2 DEF Send, Move
<1>3. ASSUME NEW r \in Senders, TimeOut(r)
      PROVE  Same \/ Life(q)!End
  BY <1>3 DEF TimeOut, Move, Note, Life!End, Conn, RecordOfStage
<1>4. ASSUME NEW r \in Senders, Answer(r)
      PROVE  Same \/ Life(q)!Begin \/ Life(q)!Break
  BY <1>4 DEF Answer, Move, Note, Life!Begin, Life!Break, Conn, RecordOfStage
<1>5. ASSUME NEW r \in Senders, Relay(r)
      PROVE  Same \/ Life(q)!Pass
  BY <1>5 DEF Relay, Life!Pass, Conn, RecordOfStage
<1>6. ASSUME NEW r \in Senders, GivesBack(r), q # r
      PROVE  Same
  <2>1. stage[r] \in Active /\ \E s \in {"over", "crashed"} : ReleaseAs(r, s)
    BY <1>6, GivesBackReleases
  <2>2. decision'[q] = decision[q] /\ (q \in passed' <=> q \in passed)
    BY <1>6 DEF GivesBack, Refuse, Settle, Leave, Collect, Note
  <2>. QED
    BY <1>6, <2>1, <2>2, ReleaseEffect
<1>7. ASSUME GivesBack(q)
      PROVE  \/ Life(q)!End \/ Life(q)!Settle \/ Life(q)!Finish
             \/ Life(q)!Break \/ Life(q)!Collect
  <2>0. ASSUME NEW s \in {"over", "crashed"}, ReleaseAs(q, s)
        PROVE  stage'[q] = s
    BY <1>7, <2>0, GivesBackReleases, ReleaseEffect
  <2>2. CASE Refuse(q)
    BY <2>0, <2>2 DEF Refuse, Release, Note, Life!End, Conn, RecordOfStage
  <2>3. CASE Settle(q)
    <3>1. CASE Release(q) /\ Note(q, "allowed") /\ passed' = passed \cup {q}
      BY <2>0, <2>3, <3>1 DEF Settle, Release, Note, Life!Settle, Conn, RecordOfStage
    <3>2. CASE Release(q) /\ Note(q, "refused") /\ UNCHANGED passed
      BY <2>0, <2>3, <3>2 DEF Settle, Release, Note, Life!Settle, Conn, RecordOfStage
    <3>3. CASE /\ ReleaseAs(q, "crashed") /\ UNCHANGED passed
               /\ (UNCHANGED decision \/ Note(q, "allowed"))
      BY <2>0, <2>3, <3>3 DEF Settle, Note, Life!Break, Conn, RecordOfStage
    <3>. QED
      BY <2>3, <3>1, <3>2, <3>3 DEF Settle
  <2>4. CASE Leave(q)
    BY <2>0, <2>4 DEF Leave, Release, Life!Finish, Conn, RecordOfStage
  <2>5. CASE Collect(q)
    BY <2>0, <2>5 DEF Collect, Life!Collect, Conn, RecordOfStage
  <2>. QED
    BY <1>7, <2>2, <2>3, <2>4, <2>5 DEF GivesBack
<1>8. ASSUME Stand \/ UNCHANGED senderVars
      PROVE  Same
  BY <1>8 DEF Stand, senderVars
<1> HIDE DEF Same
<1>9. Same \/ Life(q)!Next
  <2>1. CASE \E r \in Senders : GivesBack(r)
    BY <1>6, <1>7, <2>1 DEF Life!Next
  <2>. QED
    BY <1>2, <1>3, <1>4, <1>5, <1>8, <2>1 DEF SendersNext, Bounded, GivesBack, Life!Next
<1>. QED
  BY <1>1, <1>9

-----------------------------------------------------------------------------
(* Whose turn it is: the safety half of SendersAnswered.                   *)

\* A timeout is a time.  Base is upstream_timeout, which validate_runtime wants
\* positive.
BaseIsTime == Base \in Nat \ {0}

\* Who waits stands in line, and no longer than the pool timeout; whoever stands
\* further ahead has stood at least as long.
InLine       == \A r \in Senders : stage[r] = "waiting" => \E i \in DOMAIN line : line[i] = r
StoodInOrder == \A i, j \in DOMAIN line : i <= j => stood[line[j]] <= stood[line[i]]
StoodTypes ==
    /\ poolTimeout \in {Unset, Base - 1}
    /\ stood \in [Senders -> 0 .. BuildTimeout]
    /\ \A r \in Senders : stage[r] = "before" => stood[r] = 0

TurnInv == StoodTypes /\ InLine /\ StoodInOrder

\* A connection that is given back goes to who has stood longest, and a request
\* that comes along while others wait does not get one (app.py:391-398).
NobodyOvertakes ==
    [][\A r, q \in Senders :
          stage[r] # "asking" /\ stage'[r] = "asking" /\ stage[q] = "waiting" =>
              stage[r] = "waiting" /\ stood[q] <= stood[r]]_senderVars

\* The order of a line from which one has gone.
LEMMA OrderWithout ==
    ASSUME PoolTypes, NEW i \in DOMAIN line, line' = RemoveAt(line, i)
    PROVE  /\ \A k \in DOMAIN line : k # i => \E j \in DOMAIN line' : line'[j] = line[k]
           /\ \A j, k \in DOMAIN line' : j <= k =>
                 \E l, m \in DOMAIN line : l <= m /\ line'[j] = line[l] /\ line'[k] = line[m]
<1>1. line \in Seq(Senders)
  BY DEF PoolTypes
<1>2. /\ Len(line) \in Nat /\ DOMAIN line = 1 .. Len(line)
      /\ DOMAIN line' = 1 .. Len(line) - 1
      /\ \A j \in 1 .. Len(line) - 1 : line'[j] = IF j < i THEN line[j] ELSE line[j + 1]
  BY <1>1, Removed
<1> DEFINE Old(j) == IF j < i THEN j ELSE j + 1
<1>3. ASSUME NEW j \in DOMAIN line'
      PROVE  Old(j) \in DOMAIN line /\ line'[j] = line[Old(j)]
  BY <1>2
<1>4. \A j, k \in DOMAIN line' : j <= k => Old(j) <= Old(k)
  BY <1>2
<1>5. ASSUME NEW k \in DOMAIN line, k # i
      PROVE  \E j \in DOMAIN line' : Old(j) = k
  <2>1. CASE k < i
    <3>1. k \in DOMAIN line' /\ Old(k) = k
      BY <1>2, <2>1
    <3>. QED
      BY <3>1
  <2>2. CASE k > i
    <3>1. k - 1 \in DOMAIN line' /\ Old(k - 1) = k
      BY <1>2, <2>2
    <3>. QED
      BY <3>1
  <2>. QED
    BY <1>2, <1>5, <2>1, <2>2
<1> HIDE DEF Old
<1>6. \A k \in DOMAIN line : k # i => \E j \in DOMAIN line' : line'[j] = line[k]
  BY <1>3, <1>5
<1>7. \A j, k \in DOMAIN line' : j <= k =>
         \E l, m \in DOMAIN line : l <= m /\ line'[j] = line[l] /\ line'[k] = line[m]
  BY <1>3, <1>4
<1>. QED
  BY <1>6, <1>7

\* Nobody has stood in a line that is not there yet.
LEMMA InitTurn == ASSUME BaseIsTime PROVE SendersInit => TurnInv
BY DEF SendersInit, TurnInv, StoodTypes, InLine, StoodInOrder, BaseIsTime, BuildTimeout

\* Who stands in line, who gives up, and who gets the connection.
LEMMA TurnStep ==
    ASSUME FreeIsNobody, BaseIsTime, IInv, TurnInv, [SendersNext]_senderVars
    PROVE  TurnInv'
<1> USE DEF IInv, PoolTypes, TurnInv
<1>0. BuildTimeout \in Nat /\ BuildTimeout' = BuildTimeout /\ poolTimeout' = poolTimeout
  BY DEF SendersNext, senderVars, Bounded, Send, TimeOut, Answer, Refuse, Settle, Relay,
         Leave, Collect, Stand, StoodTypes, BaseIsTime, BuildTimeout
<1>1. ASSUME NEW r \in Senders, Send(r)
      PROVE  TurnInv'
  <2>1. stood' = stood /\ stage[r] = "before" /\ stood[r] = 0
    BY <1>1 DEF Send, StoodTypes
  <2>2. CASE line' = line /\ stage' = [stage EXCEPT ![r] = "asking"]
    BY <1>0, <2>1, <2>2 DEF StoodTypes, InLine, StoodInOrder
  <2>3. CASE line' = Append(line, r) /\ stage' = [stage EXCEPT ![r] = "waiting"]
    <3>1. /\ DOMAIN line' = 1 .. Len(line) + 1 /\ DOMAIN line = 1 .. Len(line)
          /\ Len(line) \in Nat
          /\ \A i \in 1 .. Len(line) : line'[i] = line[i]
          /\ line'[Len(line) + 1] = r
      BY <2>3
    <3>2. StoodTypes' /\ InLine'
      BY <1>0, <2>1, <2>3, <3>1 DEF StoodTypes, InLine
    <3>3. ASSUME NEW i \in DOMAIN line', NEW j \in DOMAIN line', i <= j
          PROVE  stood[line'[j]] <= stood[line'[i]]
      <4>1. CASE j = Len(line) + 1
        <5>0. line'[i] \in Senders
          BY <3>1, <3>3
        <5>1. stood[line'[i]] \in 0 .. BuildTimeout
          BY <5>0 DEF StoodTypes
        <5>. QED
          BY <1>0, <2>1, <3>1, <4>1, <5>1
      <4>2. CASE j # Len(line) + 1
        <5>1. i \in DOMAIN line /\ j \in DOMAIN line
          BY <3>1, <3>3, <4>2
        <5>. QED
          BY <3>1, <3>3, <5>1 DEF StoodInOrder
      <4>. QED
        BY <4>1, <4>2
    <3>. QED
      BY <2>1, <3>2, <3>3 DEF StoodInOrder
  <2>. QED
    BY <1>1, <2>2, <2>3 DEF Send, Move
<1>2. ASSUME NEW r \in Senders, TimeOut(r)
      PROVE  TurnInv'
  <2>1. PICK i \in DOMAIN line : line[i] = r /\ line' = RemoveAt(line, i)
    BY <1>2 DEF TimeOut
  <2>2. stage' = [stage EXCEPT ![r] = "over"] /\ stood' = stood
    BY <1>2 DEF TimeOut, Move
  <2>3. /\ \A k \in DOMAIN line : k # i => \E j \in DOMAIN line' : line'[j] = line[k]
        /\ \A j, k \in DOMAIN line' : j <= k =>
              \E l, m \in DOMAIN line : l <= m /\ line'[j] = line[l] /\ line'[k] = line[m]
    BY <2>1, OrderWithout
  <2>4. InLine'
    <3> SUFFICES ASSUME NEW q \in Senders, q # r, stage[q] = "waiting"
                 PROVE  \E j \in DOMAIN line' : line'[j] = q
      BY <2>2 DEF InLine
    <3>1. PICK k \in DOMAIN line : line[k] = q
      BY DEF InLine
    <3>. QED
      BY <2>1, <2>3, <3>1
  <2>5. StoodTypes' /\ StoodInOrder'
    BY <1>0, <2>2, <2>3 DEF StoodTypes, StoodInOrder
  <2>. QED
    BY <2>4, <2>5
<1>3. ASSUME NEW r \in Senders, Answer(r) \/ Relay(r)
      PROVE  TurnInv'
  <2>1. line' = line /\ stood' = stood
    BY <1>3 DEF Answer, Relay
  <2>2. \A q \in Senders : stage'[q] \in {"before", "waiting"} => stage'[q] = stage[q]
    BY <1>3 DEF Answer, Relay, Move
  <2>. QED
    BY <1>0, <2>1, <2>2 DEF StoodTypes, InLine, StoodInOrder
<1>4. ASSUME NEW r \in Senders, GivesBack(r)
      PROVE  TurnInv'
  <2>0. PICK s \in {"over", "crashed"} : ReleaseAs(r, s)
    BY <1>4, GivesBackReleases
  <2>1. stage[r] \in Active /\ stood' = stood
    BY <1>4, GivesBackReleases DEF GivesBack, Refuse, Settle, Leave, Collect
  <2>2. \A q \in Senders : stage'[q] \in {"before", "waiting"} => stage'[q] = stage[q]
    BY <2>0, <2>1 DEF ReleaseAs
  <2>3. StoodTypes'
    BY <1>0, <2>1, <2>2 DEF StoodTypes
  <2>4. CASE line = <<>>
    BY <2>0, <2>1, <2>2, <2>3, <2>4 DEF ReleaseAs, InLine, StoodInOrder
  <2>5. CASE line # <<>>
    <3>1. /\ DOMAIN line = 1 .. Len(line) /\ Len(line) \in Nat /\ Len(line) >= 1
          /\ DOMAIN line' = 1 .. Len(line) - 1
          /\ \A i \in 1 .. Len(line) - 1 : line'[i] = line[i + 1]
          /\ Head(line) = line[1]
      BY <2>0, <2>1, <2>5 DEF ReleaseAs
    <3>2. stage'[line[1]] = "asking"
      BY <2>0, <2>1, <2>5, <3>1 DEF ReleaseAs, LineIsWaiting, Active
    <3>3. InLine'
      <4> SUFFICES ASSUME NEW q \in Senders, stage'[q] = "waiting"
                   PROVE  \E j \in DOMAIN line' : line'[j] = q
        BY DEF InLine
      <4>1. PICK k \in DOMAIN line : line[k] = q
        BY <2>2 DEF InLine
      <4>2. k # 1
        BY <3>2, <4>1
      <4>3. k - 1 \in DOMAIN line' /\ line'[k - 1] = line[k]
        BY <3>1, <4>2
      <4>. QED
        BY <4>1, <4>3
    <3>4. ASSUME NEW i \in DOMAIN line', NEW j \in DOMAIN line', i <= j
          PROVE  stood'[line'[j]] <= stood'[line'[i]]
      <4>1. i + 1 \in DOMAIN line /\ j + 1 \in DOMAIN line /\ i + 1 <= j + 1
        BY <3>1, <3>4
      <4>2. line'[i] = line[i + 1] /\ line'[j] = line[j + 1]
        BY <3>1, <3>4
      <4>. QED
        BY <2>1, <4>1, <4>2 DEF StoodInOrder
    <3>. QED
      BY <2>3, <3>3, <3>4 DEF StoodInOrder
  <2>. QED
    BY <2>4, <2>5
<1>5. CASE Stand
  <2>1. /\ line' = line /\ stage' = stage
        /\ stood' = [r \in Senders |->
                       IF stage[r] = "waiting" /\ stood[r] # BuildTimeout
                       THEN stood[r] + 1 ELSE stood[r]]
    BY <1>5 DEF Stand
  <2>2. StoodTypes' /\ InLine'
    BY <1>0, <2>1 DEF StoodTypes, InLine
  <2>3. ASSUME NEW i \in DOMAIN line, NEW j \in DOMAIN line, i <= j
        PROVE  stood'[line[j]] <= stood'[line[i]]
    <3>1. /\ line[i] \in Senders /\ line[j] \in Senders
          /\ stage[line[i]] = "waiting" /\ stage[line[j]] = "waiting"
          /\ stood[line[j]] <= stood[line[i]]
          /\ stood[line[i]] \in 0 .. BuildTimeout /\ stood[line[j]] \in 0 .. BuildTimeout
      BY <2>3 DEF LineIsWaiting, StoodInOrder, StoodTypes
    <3>2. /\ stood'[line[i]] = IF stood[line[i]] # BuildTimeout
                               THEN stood[line[i]] + 1 ELSE stood[line[i]]
          /\ stood'[line[j]] = IF stood[line[j]] # BuildTimeout
                               THEN stood[line[j]] + 1 ELSE stood[line[j]]
      BY <2>1, <3>1
    <3>. QED
      BY <1>0, <3>1, <3>2
  <2>. QED
    BY <2>1, <2>2, <2>3 DEF StoodInOrder
<1>6. CASE UNCHANGED senderVars
  BY <1>0, <1>6 DEF senderVars, StoodTypes, InLine, StoodInOrder
<1>. QED
  BY <1>1, <1>2, <1>3, <1>4, <1>5, <1>6 DEF SendersNext, Bounded, GivesBack

-----------------------------------------------------------------------------
(* The theorems.                                                           *)

LEMMA Invariance == ASSUME FreeIsNobody PROVE SendersSpec => []IInv
<1>1. IInv /\ [SendersNext]_senderVars => IInv'
  BY NextStep
<1>. QED
  BY <1>1, InitIInv, PTL DEF SendersSpec

\* For any number of requests and connections, nobody stands in line while a
\* connection is free or belongs to a request that is over, unless it was allowed
\* and its response could not be made (app.py:385-398, 417, 440, 488, 543, 546).
THEOREM LineMeansFullHolds == ASSUME Free \notin Senders PROVE SendersSpec => []LineMeansFull
<1>1. IInv => LineMeansFull
  BY DEF IInv, PoolTypes, NoneFree, HoldersActive, RecordOfStage, LineMeansFull, Active
<1>2. FreeIsNobody
  BY DEF FreeIsNobody
<1>. QED
  BY <1>1, <1>2, Invariance, PTL

\* However the requests get in each other's way, each of them keeps the promises
\* of UpstreamExchange (app.py:385-551).
THEOREM EachExchangeRefined ==
    ASSUME Free \notin Senders PROVE SendersSpec => EachImplementsExchange
<1> DEFINE Each == \A r \in Senders : [Life(r)!Next]_(Life(r)!vars)
<1>1. SendersInit => \A r \in Senders : Life(r)!Init
  BY DEF SendersInit, Life!Init, Conn, Ended
<1>2. FreeIsNobody
  BY DEF FreeIsNobody
<1>3. IInv /\ [SendersNext]_senderVars => [Each]_senderVars
  BY <1>2, EachStep
<1>. QED
  BY <1>1, <1>2, <1>3, Invariance, PTL DEF SendersSpec, EachImplementsExchange

\* For any number of requests and connections, a connection goes to the one that
\* has stood in line longest, and to a newcomer only when nobody waits
\* (app.py:391-398).
THEOREM NobodyOvertakesHolds ==
    ASSUME Free \notin Senders, Base \in Nat \ {0} PROVE SendersSpec => NobodyOvertakes
<1> DEFINE Turn == \A r, q \in Senders :
                      stage[r] # "asking" /\ stage'[r] = "asking" /\ stage[q] = "waiting" =>
                          stage[r] = "waiting" /\ stood[q] <= stood[r]
<1>1. FreeIsNobody /\ BaseIsTime
  BY DEF FreeIsNobody, BaseIsTime
<1>2. IInv /\ TurnInv /\ [SendersNext]_senderVars => [Turn]_senderVars
  <2> SUFFICES ASSUME IInv, TurnInv, SendersNext, NEW r \in Senders, NEW q \in Senders,
                      stage[r] # "asking", stage'[r] = "asking", stage[q] = "waiting"
               PROVE  stage[r] = "waiting" /\ stood[q] <= stood[r]
    BY DEF senderVars
  <2> USE DEF IInv, PoolTypes, TurnInv
  <2>1. PICK k \in DOMAIN line : line[k] = q
    BY DEF InLine
  <2>2. line # <<>> /\ line[1] = Head(line) /\ 1 \in DOMAIN line /\ 1 <= k
    BY <2>1
  <2>3. PICK p \in Senders : GivesBack(p)
    <3>1. ASSUME NEW p \in Senders, Send(p) PROVE FALSE
      <4>1. \A c \in Connections : holder[c] # Free
        BY <2>2 DEF NoneFree
      <4>. QED
        BY <3>1, <4>1 DEF Send, Move
    <3>2. ASSUME NEW p \in Senders, TimeOut(p) \/ Answer(p) \/ Relay(p) PROVE FALSE
      BY <3>2 DEF TimeOut, Answer, Relay, Move
    <3>3. ~Stand
      BY DEF Stand
    <3>. QED
      BY <3>1, <3>2, <3>3 DEF SendersNext, Bounded, GivesBack
  <2>4. \E s \in {"over", "crashed"} : ReleaseAs(p, s)
    BY <2>3, GivesBackReleases
  <2>5. r = line[1]
    BY <2>2, <2>4 DEF ReleaseAs
  <2>. QED
    BY <2>1, <2>2, <2>5 DEF LineIsWaiting, StoodInOrder
<1>3. TurnInv /\ IInv /\ [SendersNext]_senderVars => TurnInv'
  BY <1>1, TurnStep
<1>4. SendersInit => TurnInv
  BY <1>1, InitTurn
<1>. QED
  BY <1>1, <1>2, <1>3, <1>4, Invariance, PTL DEF SendersSpec, NobodyOvertakes

=============================================================================
