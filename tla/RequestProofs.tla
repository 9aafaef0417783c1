--------------------------- MODULE RequestProofs ----------------------------
(***************************************************************************)
(* What one request carries past the gateway: the identity of the token,   *)
(* the body the gateway has judged, and the scopes it has read.  Theorems  *)
(* about the behaviours of MCDecisions for strings, bodies and claims of   *)
(* any length.                                                             *)
(*                                                                         *)
(* Each invariant says which checks are behind a request at each stage;    *)
(* the lemmas say what the last step makes of a request with these checks  *)
(* behind it: how a rewritten body is read, and how a header is split.     *)
(***************************************************************************)
EXTENDS MCDecisions, SequenceLemmas, FiniteSetTheorems

-----------------------------------------------------------------------------
(* Token verification.  slot1 is the token, slot2 whether the key cache    *)
(* knows its key, slot3 the stage, slot4 the subject, slot5 what is sent.  *)

\* The checks that are behind a token at each stage.
TokenInv ==
    /\ slot3 \in {"header", "key", "decode", "sub", "scopes", "verified", "sent",
                  "rejected", "crashed"}
    /\ slot3 \in {"key", "decode"} => slot1.alg \in {"asymmetric", "misfit"}
    /\ slot3 \in {"sub", "scopes", "verified", "sent"} => slot1.alg = "asymmetric"
    /\ slot3 \in {"decode", "sub", "scopes", "verified", "sent"} => slot2
    /\ slot3 \in {"sub", "scopes", "verified", "sent"} => Token!Decodes(slot1)
    /\ slot3 \in {"scopes", "verified", "sent"} =>
          slot4 = slot1.sub.text /\ slot4 # <<>> /\ Token!HeaderSafe(slot4)
    /\ slot3 = "sent" => slot5 = slot4

TokensInv == subject = "token" => TokenInv

\* No check has been passed before the header is looked at.
LEMMA TokensInit == DecisionsInit => TokensInv
BY DEF DecisionsInit, SlotsInit, TokensInv, TokenInv, Token!Init

\* What the subject checks of verify let through can be written into a header.
LEMMA SafeIsSendable ==
    ASSUME NEW s, Token!HeaderSafe(s)
    PROVE  Token!Sendable(s)
BY DEF Token!HeaderSafe, Token!Stripped, Token!Sendable

\* Every check of verify keeps what is behind a token (verifier.py:328-400).
LEMMA TokensStep ==
    ASSUME TokensInv, [DecisionsNext]_<<subject, vars, scopeVars, toolVars, slots>>
    PROVE  TokensInv'
<1> SUFFICES ASSUME subject' = "token" PROVE TokenInv'
  BY DEF TokensInv
<1>1. subject = "token" /\ TokenInv
  BY DEF DecisionsNext, TokensInv
<1>2. CASE UNCHANGED slots
  BY <1>1, <1>2 DEF TokenInv, slots
<1>3. CASE Token!PeekHeader
  BY <1>1, <1>3 DEF TokenInv, Token!PeekHeader, Token!Reject, Token!Crash, Token!Go
<1>4. CASE Token!ResolveKey
  BY <1>1, <1>4 DEF TokenInv, Token!ResolveKey, Token!Reject, Token!Go
<1>5. CASE Token!Decode
  BY <1>1, <1>5 DEF TokenInv, Token!Decode, Token!Reject, Token!Crash, Token!Go
<1>6. CASE Token!CheckSubject
  BY <1>1, <1>6 DEF TokenInv, Token!CheckSubject, Token!Reject, Token!Go
<1>7. CASE Token!CheckScopes
  BY <1>1, <1>7 DEF TokenInv, Token!CheckScopes, Token!Reject, Token!Go
<1>8. CASE Token!Inject
  BY <1>1, <1>8, SafeIsSendable DEF TokenInv, Token!Inject, Token!Go
<1> QED
  BY <1>1, <1>2, <1>3, <1>4, <1>5, <1>6, <1>7, <1>8
     DEF DecisionsNext, SlotsNext, Token!Next, slots

\* The upstream is told the very sub of a token that the issuer signed under a
\* known key with every registered claim good, and no subject that passes the
\* checks of verify makes the request fail (verifier.py:339-389, app.py:372-377).
THEOREM IdentityAlwaysArrives == DecisionsSpec => []IdentityArrives
<1>1. TokensInv => IdentityArrives
  BY DEF TokensInv, TokenInv, IdentityArrives, Token!IdentityArrives, Token!Decodes
<1> QED
  BY <1>1, TokensInit, TokensStep, PTL DEF DecisionsSpec

-----------------------------------------------------------------------------
(* Request parsing.  slot1 is the body, slot2 whether a tool policy judges *)
(* calls, slot3 the stage, slot4 JsonRpcParse, slot5 the body sent.        *)

\* Without repeated names it makes no difference which member a reader keeps.
LEMMA OnlyOne ==
    ASSUME NEW i, NEW keeps
    PROVE  Parsing!Pick(keeps, {i}) = i
BY DEF Parsing!Pick, Parsing!Min, Parsing!Max

\* A body is a sequence of members, and the names in it are sequences too.
LEMMA BodyShape ==
    ASSUME NEW b \in Parsing!Bodies
    PROVE  /\ b.members \in Seq(Parsing!Members)
           /\ \A i \in DOMAIN b.members :
                 /\ b.members[i] \in Parsing!Members
                 /\ b.members[i].key \in {"method", "params"}
                 /\ b.members[i].params.names \in Seq(Parsing!Names)
<1>1. ASSUME NEW n \in Int, NEW ms \in Parsing!Objects(n)
      PROVE  ms \in Seq(Parsing!Members)
  <2>1. PICK k \in 0 .. n : ms \in [1 .. k -> Parsing!Members]
    BY DEF Parsing!Objects
  <2> QED
    BY <2>1
<1>2. \E n \in Int : b.members \in Parsing!Objects(n)
  BY BoundsAssumption DEF Parsing!Bodies, Parsing!Plain
<1>3. b.members \in Seq(Parsing!Members)
  BY <1>1, <1>2
<1>4. ASSUME NEW m \in Parsing!Members
      PROVE  m.key \in {"method", "params"} /\ m.params.names \in Seq(Parsing!Names)
  <2>1. m.key \in {"method", "params"} /\ m.params \in Parsing!Params \cup {Parsing!NoParams}
    BY DEF Parsing!Members
  <2>2. ASSUME NEW p \in Parsing!Params PROVE p.names \in Seq(Parsing!Names)
    <3>1. p.names = <<>> \/ \E n \in 0 .. 2 : p.names \in [1 .. n -> Parsing!Names]
      BY DEF Parsing!Params
    <3>2. ASSUME NEW n \in 0 .. 2, p.names \in [1 .. n -> Parsing!Names]
          PROVE  p.names \in Seq(Parsing!Names)
      BY <3>2
    <3>3. <<>> \in Seq(Parsing!Names)
      OBVIOUS
    <3> QED
      BY <3>1, <3>2, <3>3
  <2>3. Parsing!NoParams.names \in Seq(Parsing!Names)
    BY DEF Parsing!NoParams
  <2> QED
    BY <2>1, <2>2, <2>3
<1> QED
  BY <1>3, <1>4

\* _no_duplicate_keys leaves at most one member of a name, and one name in params.
LEMMA NothingTwice ==
    ASSUME NEW b \in Parsing!Bodies, ~Parsing!Repeats(b)
    PROVE  /\ \A key : \/ Parsing!Named(b, key) = {}
                       \/ \E i \in DOMAIN b.members :
                             Parsing!Named(b, key) = {i} /\ b.members[i].key = key
           /\ \A i \in DOMAIN b.members :
                 \/ b.members[i].params.names = <<>>
                 \/ \E n \in Parsing!Names : b.members[i].params.names = <<n>>
<1>1. \A i, j \in DOMAIN b.members : b.members[i].key = b.members[j].key => i = j
  BY DEF Parsing!Repeats
<1>2. ASSUME NEW key
      PROVE  \/ Parsing!Named(b, key) = {}
             \/ \E i \in DOMAIN b.members :
                   Parsing!Named(b, key) = {i} /\ b.members[i].key = key
  <2> SUFFICES ASSUME Parsing!Named(b, key) # {}
               PROVE  \E i \in DOMAIN b.members :
                         Parsing!Named(b, key) = {i} /\ b.members[i].key = key
    OBVIOUS
  <2>1. PICK i \in DOMAIN b.members : b.members[i].key = key
    BY DEF Parsing!Named
  <2>2. \A j \in DOMAIN b.members : b.members[j].key = key => j = i
    BY <1>1, <2>1
  <2>3. Parsing!Named(b, key) = {i}
    BY <2>1, <2>2 DEF Parsing!Named
  <2> QED
    BY <2>1, <2>3
<1>3. ASSUME NEW i \in DOMAIN b.members
      PROVE  \/ b.members[i].params.names = <<>>
             \/ \E n \in Parsing!Names : b.members[i].params.names = <<n>>
  <2> DEFINE names == b.members[i].params.names
  <2>1. names \in Seq(Parsing!Names) /\ ~(Len(names) > 1)
    BY BodyShape DEF Parsing!Repeats
  <2> HIDE DEF names
  <2> QED
    BY <2>1, ShortSequence DEF names
<1> QED
  BY <1>2, <1>3

\* What any reader makes of the members in one position.
The(S)         == CHOOSE i \in S : TRUE
MethodAt(b, S) == IF S = {} THEN Parsing!None ELSE b.members[The(S)].text
NamesAt(b, S)  == IF S = {} THEN <<>> ELSE b.members[The(S)].params.names
NameOf(names)  == IF names = <<>> THEN Parsing!None ELSE names[1]

\* Where no name is written twice, all readers read the same.
LEMMA ReadersOf ==
    ASSUME NEW b, NEW keeps,
           \A key : Parsing!Named(b, key) = {} \/ \E i : Parsing!Named(b, key) = {i},
           \A i \in DOMAIN b.members :
               b.members[i].params.names = <<>> \/ \E n : b.members[i].params.names = <<n>>
    PROVE  /\ Parsing!MethodIn(b, keeps) = MethodAt(b, Parsing!Named(b, "method"))
           /\ Parsing!ToolIn(b, keeps) = NameOf(NamesAt(b, Parsing!Named(b, "params")))
<1>1. Parsing!MethodIn(b, keeps) = MethodAt(b, Parsing!Named(b, "method"))
  <2>1. CASE Parsing!Named(b, "method") = {}
    BY <2>1 DEF Parsing!MethodIn, MethodAt
  <2>2. CASE Parsing!Named(b, "method") # {}
    <3>1. PICK i : Parsing!Named(b, "method") = {i}
      BY <2>2
    <3>2. Parsing!Pick(keeps, {i}) = i /\ The({i}) = i
      BY OnlyOne DEF The
    <3> QED
      BY <3>1, <3>2 DEF Parsing!MethodIn, MethodAt
  <2> QED
    BY <2>1, <2>2
<1>2. Parsing!ToolIn(b, keeps) = NameOf(NamesAt(b, Parsing!Named(b, "params")))
  <2>1. CASE Parsing!Named(b, "params") = {}
    BY <2>1 DEF Parsing!ToolIn, NamesAt, NameOf
  <2>2. CASE Parsing!Named(b, "params") # {}
    <3>1. PICK i : Parsing!Named(b, "params") = {i}
      BY <2>2
    <3>2. Parsing!Pick(keeps, {i}) = i /\ The({i}) = i
      BY OnlyOne DEF The
    <3> DEFINE names == b.members[i].params.names
    <3>3. /\ NamesAt(b, Parsing!Named(b, "params")) = names
          /\ Parsing!ToolIn(b, keeps) =
                IF names = <<>> THEN Parsing!None ELSE names[Parsing!Pick(keeps, DOMAIN names)]
      BY <3>1, <3>2 DEF Parsing!ToolIn, NamesAt
    <3>4. i \in DOMAIN b.members
      BY <3>1 DEF Parsing!Named
    <3>5. CASE names = <<>>
      BY <3>3, <3>5 DEF NameOf
    <3>6. CASE names # <<>>
      <4>1. PICK n : names = <<n>>
        BY <3>4, <3>6
      <4>2. DOMAIN names = {1}
        BY <4>1
      <4>3. Parsing!Pick(keeps, DOMAIN names) = 1
        BY <4>2, OnlyOne
      <4> QED
        BY <3>3, <3>6, <4>3 DEF NameOf
    <3> QED
      BY <3>5, <3>6
  <2> QED
    BY <2>1, <2>2
<1> QED
  BY <1>1, <1>2

\* A member as json.dumps writes it; without repeated names nothing is lost.
Rewritten(m) ==
    [key |-> m.key, text |-> m.text,
     params |-> [object |-> m.params.object,
                 names |-> IF m.params.names = <<>> THEN <<>>
                           ELSE <<Parsing!Last(m.params.names)>>]]

\* What dumping a member keeps of it.
LEMMA RewrittenSame ==
    ASSUME NEW m, m.params.names = <<>> \/ \E n : m.params.names = <<n>>
    PROVE  /\ Rewritten(m).key = m.key /\ Rewritten(m).text = m.text
           /\ Rewritten(m).params.names = m.params.names
<1>1. m.params.names # <<>> => <<Parsing!Last(m.params.names)>> = m.params.names
  <2> HAVE m.params.names # <<>>
  <2>1. PICK n : m.params.names = <<n>>
    OBVIOUS
  <2>2. Parsing!Last(<<n>>) = n
    BY DEF Parsing!Last
  <2> QED
    BY <2>1, <2>2
<1> QED
  BY <1>1 DEF Rewritten

\* The members of the canonical body, the method before the params.
LEMMA CanonicalMembers ==
    ASSUME NEW b, \A key : Parsing!Named(b, key) = {} \/ \E i : Parsing!Named(b, key) = {i}
    PROVE  LET M == Parsing!Named(b, "method")
               P == Parsing!Named(b, "params")
           IN  Parsing!Canonical(b).members =
                  IF M = {} THEN IF P = {} THEN <<>> ELSE <<Rewritten(b.members[The(P)])>>
                  ELSE IF P = {} THEN <<Rewritten(b.members[The(M)])>>
                       ELSE <<Rewritten(b.members[The(M)]), Rewritten(b.members[The(P)])>>
<1> DEFINE Kept(S) == IF S = {} THEN <<>> ELSE <<Rewritten(b.members[Parsing!Max(S)])>>
           Chosen(S) == Rewritten(b.members[The(S)])
           M == Parsing!Named(b, "method")
           P == Parsing!Named(b, "params")
<1>1. Parsing!Canonical(b).members = Kept(M) \o Kept(P)
  BY DEF Parsing!Canonical, Rewritten
<1>2. ASSUME NEW S, NEW i, S = {i} PROVE Kept(S) = <<Chosen(S)>>
  <2>1. Parsing!Max({i}) = i /\ The({i}) = i
    BY DEF Parsing!Max, The
  <2> QED
    BY <1>2, <2>1
<1>3. \A x, y : /\ <<x>> \o <<>> = <<x>> /\ <<>> \o <<y>> = <<y>>
                /\ <<x>> \o <<y>> = <<x, y>> /\ <<>> \o <<>> = <<>>
  BY ShortConcatenations
<1>4. /\ M = {} => Kept(M) = <<>>
      /\ M # {} => Kept(M) = <<Chosen(M)>>
      /\ P = {} => Kept(P) = <<>>
      /\ P # {} => Kept(P) = <<Chosen(P)>>
  BY <1>2
<1> HIDE DEF Kept
<1> QED
  BY <1>1, <1>3, <1>4

\* Where the members of a canonical body are.
LEMMA CanonicalPositions ==
    ASSUME NEW c, NEW x, NEW y, x.key = "method", y.key = "params"
    PROVE  /\ c.members = <<>> => \A key : Parsing!Named(c, key) = {}
           /\ c.members = <<x>> => \A key : Parsing!Named(c, key) = IF key = "method" THEN {1} ELSE {}
           /\ c.members = <<y>> => \A key : Parsing!Named(c, key) = IF key = "params" THEN {1} ELSE {}
           /\ c.members = <<x, y>> =>
                 \A key : Parsing!Named(c, key) = IF key = "method" THEN {1}
                                                  ELSE IF key = "params" THEN {2} ELSE {}
<1>1. /\ DOMAIN <<>> = {} /\ DOMAIN <<x>> = {1} /\ DOMAIN <<y>> = {1} /\ DOMAIN <<x, y>> = {1, 2}
      /\ <<x>>[1] = x /\ <<y>>[1] = y /\ <<x, y>>[1] = x /\ <<x, y>>[2] = y
  OBVIOUS
<1>2. CASE c.members = <<>>
  BY <1>1, <1>2 DEF Parsing!Named
<1>3. CASE c.members = <<x>>
  BY <1>1, <1>3 DEF Parsing!Named
<1>4. CASE c.members = <<y>>
  BY <1>1, <1>4 DEF Parsing!Named
<1>5. CASE c.members = <<x, y>>
  BY <1>1, <1>5 DEF Parsing!Named
<1> QED
  BY <1>2, <1>3, <1>4, <1>5

\* Every reader, of what was received and of what is sent, reads the same method
\* and the same tool.
LEMMA CanonicalAgrees ==
    ASSUME NEW b \in Parsing!Bodies, ~Parsing!Repeats(b), NEW keeps, NEW others
    PROVE  /\ Parsing!MethodIn(Parsing!Canonical(b), keeps) = Parsing!MethodIn(b, others)
           /\ Parsing!ToolIn(Parsing!Canonical(b), keeps) = Parsing!ToolIn(b, others)
<1> DEFINE c  == Parsing!Canonical(b)
           M  == Parsing!Named(b, "method")
           P  == Parsing!Named(b, "params")
           mi == The(M)
           pi == The(P)
           x  == Rewritten(b.members[mi])
           y  == Rewritten(b.members[pi])
<1>1. /\ M # {} => M = {mi} /\ mi \in DOMAIN b.members /\ b.members[mi].key = "method"
      /\ P # {} => P = {pi} /\ pi \in DOMAIN b.members /\ b.members[pi].key = "params"
  <2>1. ASSUME NEW key, Parsing!Named(b, key) # {}
        PROVE  LET i == The(Parsing!Named(b, key)) IN
               Parsing!Named(b, key) = {i} /\ i \in DOMAIN b.members /\ b.members[i].key = key
    <3>1. PICK i \in DOMAIN b.members : Parsing!Named(b, key) = {i} /\ b.members[i].key = key
      BY <2>1, NothingTwice
    <3>2. The(Parsing!Named(b, key)) = i
      BY <3>1 DEF The
    <3> QED
      BY <3>1, <3>2
  <2> QED
    BY <2>1
<1>2. /\ M # {} => /\ x.key = "method" /\ x.text = b.members[mi].text
                   /\ x.params.names = b.members[mi].params.names
      /\ P # {} => /\ y.key = "params" /\ y.text = b.members[pi].text
                   /\ y.params.names = b.members[pi].params.names
  BY <1>1, NothingTwice, RewrittenSame
<1>3. /\ M # {} => x.params.names = <<>> \/ \E n : x.params.names = <<n>>
      /\ P # {} => y.params.names = <<>> \/ \E n : y.params.names = <<n>>
  <2>1. \A i \in DOMAIN b.members :
           b.members[i].params.names = <<>> \/ \E n : b.members[i].params.names = <<n>>
    BY NothingTwice
  <2> HIDE DEF x, y, mi, pi
  <2> QED
    BY <1>1, <1>2, <2>1
<1>4. c.members = IF M = {} THEN IF P = {} THEN <<>> ELSE <<y>>
                  ELSE IF P = {} THEN <<x>> ELSE <<x, y>>
  <2>1. \A key : Parsing!Named(b, key) = {} \/ \E i : Parsing!Named(b, key) = {i}
    BY NothingTwice
  <2> QED
    BY <2>1, CanonicalMembers, Zenon
<1>5. /\ Parsing!MethodIn(b, others) = IF M = {} THEN Parsing!None ELSE b.members[mi].text
      /\ Parsing!ToolIn(b, others) = NameOf(IF P = {} THEN <<>> ELSE b.members[pi].params.names)
  <2>1. \A key : Parsing!Named(b, key) = {} \/ \E i : Parsing!Named(b, key) = {i}
    BY NothingTwice
  <2>2. \A i \in DOMAIN b.members :
           b.members[i].params.names = <<>> \/ \E n : b.members[i].params.names = <<n>>
    BY NothingTwice
  <2>3. /\ Parsing!MethodIn(b, others) = MethodAt(b, M)
        /\ Parsing!ToolIn(b, others) = NameOf(NamesAt(b, P))
    BY <2>1, <2>2, ReadersOf
  <2> QED
    BY <2>3 DEF MethodAt, NamesAt
<1> HIDE DEF c, x, y, mi, pi, M, P
<1> SUFFICES /\ Parsing!MethodIn(c, keeps) = IF M = {} THEN Parsing!None ELSE x.text
             /\ Parsing!ToolIn(c, keeps) = NameOf(IF P = {} THEN <<>> ELSE y.params.names)
  <2>1. /\ Parsing!MethodIn(c, keeps) = Parsing!MethodIn(b, others)
        /\ Parsing!ToolIn(c, keeps) = Parsing!ToolIn(b, others)
    BY <1>2, <1>5
  <2> QED
    BY <2>1 DEF c
<1>6. ASSUME \A key : Parsing!Named(c, key) = {} \/ \E i : Parsing!Named(c, key) = {i},
             \A i \in DOMAIN c.members :
                 c.members[i].params.names = <<>> \/ \E n : c.members[i].params.names = <<n>>
      PROVE  /\ Parsing!MethodIn(c, keeps) = MethodAt(c, Parsing!Named(c, "method"))
             /\ Parsing!ToolIn(c, keeps) = NameOf(NamesAt(c, Parsing!Named(c, "params")))
  BY <1>6, ReadersOf
<1>7. \A i : The({i}) = i
  BY DEF The
<1>8. CASE M = {} /\ P = {}
  <2>1. c.members = <<>> /\ \A key : Parsing!Named(c, key) = {}
    BY <1>4, <1>8 DEF Parsing!Named
  <2> QED
    BY <1>6, <1>8, <2>1 DEF MethodAt, NamesAt
<1>9. CASE M # {} /\ P = {}
  <2>1. c.members = <<x>>
    BY <1>4, <1>9
  <2>2. \A key : Parsing!Named(c, key) = IF key = "method" THEN {1} ELSE {}
    BY <1>2, <1>9, <2>1 DEF Parsing!Named
  <2>3. DOMAIN c.members = {1} /\ c.members[1] = x
    BY <2>1
  <2> QED
    BY <1>3, <1>6, <1>7, <1>9, <2>2, <2>3 DEF MethodAt, NamesAt
<1>10. CASE M = {} /\ P # {}
  <2>1. c.members = <<y>>
    BY <1>4, <1>10
  <2>2. \A key : Parsing!Named(c, key) = IF key = "params" THEN {1} ELSE {}
    BY <1>2, <1>10, <2>1 DEF Parsing!Named
  <2>3. DOMAIN c.members = {1} /\ c.members[1] = y
    BY <2>1
  <2> QED
    BY <1>3, <1>6, <1>7, <1>10, <2>2, <2>3 DEF MethodAt, NamesAt
<1>11. CASE M # {} /\ P # {}
  <2>1. c.members = <<x, y>>
    BY <1>4, <1>11
  <2>2. \A key : Parsing!Named(c, key) = IF key = "method" THEN {1}
                                         ELSE IF key = "params" THEN {2} ELSE {}
    BY <1>2, <1>11, <2>1, CanonicalPositions
  <2>3. DOMAIN c.members = {1, 2} /\ c.members[1] = x /\ c.members[2] = y
    BY <2>1
  <2> QED
    BY <1>3, <1>6, <1>7, <1>11, <2>2, <2>3 DEF MethodAt, NamesAt
<1> QED
  BY <1>8, <1>9, <1>10, <1>11

\* What is behind a body at each stage.
ParsingInv ==
    /\ slot1 \in Parsing!Bodies
    /\ slot3 \in {"load", "method", "encode", "tool", "parsed", "forwarded", "refused", "crashed"}
    /\ slot3 \in {"method", "encode", "tool", "parsed", "forwarded"} => ~Parsing!Repeats(slot1)
    /\ slot3 \in {"encode", "tool", "parsed", "forwarded"} =>
          slot4.method = Parsing!MethodIn(slot1, "last")
    /\ slot3 \in {"tool", "parsed", "forwarded"} => ~slot1.lone
    /\ slot3 \in {"parsed", "forwarded"} /\ slot4.method = "tools/call" =>
          slot4.tool \in {Parsing!None, Parsing!ToolIn(slot1, "last")}
    /\ slot3 = "forwarded" =>
          /\ slot5 = Parsing!Canonical(slot1)
          /\ slot2 /\ slot4.method = "tools/call" => slot4.tool # Parsing!None

BodiesInv == subject = "parsing" => ParsingInv

\* Nothing is known of a body before it is loaded.
LEMMA BodiesInit == DecisionsInit => BodiesInv
BY DEF DecisionsInit, SlotsInit, BodiesInv, ParsingInv, Parsing!Init

\* What json.loads accepts has no name twice.
LEMMA NothingRaised ==
    ASSUME NEW b, Parsing!Raised(b) = {}
    PROVE  ~Parsing!Repeats(b)
<1>1. "duplicate_json_key" \notin Parsing!Raised(b)
  OBVIOUS
<1> QED
  BY <1>1 DEF Parsing!Raised

\* Every step of _parse_jsonrpc, and the forwarding, keep what is behind a body.
LEMMA BodiesStep ==
    ASSUME BodiesInv, [DecisionsNext]_<<subject, vars, scopeVars, toolVars, slots>>
    PROVE  BodiesInv'
<1> SUFFICES ASSUME subject' = "parsing" PROVE ParsingInv'
  BY DEF BodiesInv
<1>1. subject = "parsing" /\ ParsingInv
  BY DEF DecisionsNext, BodiesInv
<1>2. CASE UNCHANGED slots
  <2>1. slot1' = slot1 /\ slot2' = slot2 /\ slot3' = slot3 /\ slot4' = slot4 /\ slot5' = slot5
    BY <1>2 DEF slots
  <2> QED
    BY <1>1, <2>1 DEF ParsingInv
<1>3. ASSUME NEW code, Parsing!Refuse(code), UNCHANGED <<slot1, slot2>>
      PROVE  ParsingInv'
  BY <1>1, <1>3 DEF ParsingInv, Parsing!Refuse
<1>4. CASE Parsing!Load
  <2>1. CASE Parsing!Raised(slot1) = {} /\ slot3' = "method" /\ UNCHANGED <<slot4, slot5>>
    <3>1. ~Parsing!Repeats(slot1)
      BY <2>1, NothingRaised
    <3> QED
      BY <1>1, <1>4, <2>1, <3>1 DEF ParsingInv, Parsing!Load
  <2>2. CASE slot3' = "crashed"
    BY <1>1, <1>4, <2>2 DEF ParsingInv, Parsing!Load
  <2> QED
    BY <1>3, <1>4, <2>1, <2>2 DEF Parsing!Load
<1>5. CASE Parsing!ResolveMethod
  <2>1. CASE /\ slot3' = "encode"
             /\ slot4' = Parsing!JsonRpcParse(Parsing!None, Parsing!MethodIn(slot1, "last"), Parsing!None)
    <3>1. slot4'.method = Parsing!MethodIn(slot1, "last")
      BY <2>1 DEF Parsing!JsonRpcParse
    <3> QED
      BY <1>1, <1>5, <2>1, <3>1 DEF ParsingInv, Parsing!ResolveMethod
  <2> QED
    BY <1>3, <1>5, <2>1 DEF Parsing!ResolveMethod
<1>6. CASE Parsing!Encode
  BY <1>1, <1>6 DEF ParsingInv, Parsing!Encode
<1>7. CASE Parsing!ResolveTool
  <2> DEFINE tool == Parsing!ToolIn(slot1, "last")
             kept == IF slot4.method = "tools/call" /\ tool \in Tools THEN tool ELSE Parsing!None
  <2>1. CASE /\ slot3' = "parsed"
             /\ slot4' = Parsing!JsonRpcParse(Parsing!None, slot4.method, kept)
    <3>1. slot4'.method = slot4.method /\ slot4'.tool = kept
      BY <2>1 DEF Parsing!JsonRpcParse
    <3>2. kept \in {Parsing!None, tool}
      OBVIOUS
    <3> QED
      BY <1>1, <1>7, <2>1, <3>1, <3>2 DEF ParsingInv, Parsing!ResolveTool
  <2> QED
    BY <1>3, <1>7, <2>1 DEF Parsing!ResolveTool
<1>8. CASE Parsing!Forward
  <2>1. CASE /\ ~(slot2 /\ slot4.method = "tools/call" /\ slot4.tool = Parsing!None)
             /\ slot3' = "forwarded" /\ slot5' = Parsing!Canonical(slot1) /\ UNCHANGED slot4
    BY <1>1, <1>8, <2>1 DEF ParsingInv, Parsing!Forward
  <2> QED
    BY <1>3, <1>8, <2>1 DEF Parsing!Forward
<1> QED
  BY <1>1, <1>2, <1>4, <1>5, <1>6, <1>7, <1>8
     DEF DecisionsNext, SlotsNext, Parsing!Next, slots

\* It stays behind the body until the request has been forwarded.
LEMMA BodiesAlways == DecisionsSpec => []BodiesInv
<1>1. DecisionsInit => BodiesInv
  BY BodiesInit
<1>2. BodiesInv /\ [DecisionsNext]_<<subject, vars, scopeVars, toolVars, slots>> => BodiesInv'
  BY BodiesStep
<1> QED
  BY <1>1, <1>2, PTL DEF DecisionsSpec

\* "the upstream parses exactly what the gateway authorized": whichever of
\* several members a server believes, it executes the method that was authorised
\* and the tool that was judged (app.py:608-610, 676-699).
THEOREM EveryReaderAlwaysAgrees == DecisionsSpec => []EveryReaderAgrees
<1>1. BodiesInv => EveryReaderAgrees
  <2> SUFFICES ASSUME ParsingInv, slot3 = "forwarded"
               PROVE  Parsing!EveryReaderAgrees
    BY DEF BodiesInv, EveryReaderAgrees, Parsing!EveryReaderAgrees
  <2>1. /\ slot1 \in Parsing!Bodies /\ ~Parsing!Repeats(slot1) /\ ~slot1.lone
        /\ slot4.method = Parsing!MethodIn(slot1, "last")
        /\ slot2 /\ slot4.method = "tools/call" => slot4.tool = Parsing!ToolIn(slot1, "last")
        /\ slot5 = Parsing!Canonical(slot1)
    BY DEF ParsingInv
  <2>2. slot5.encoding = "utf8" /\ ~slot5.lone
    BY <2>1 DEF Parsing!Canonical
  <2>3. ASSUME NEW k \in Parsing!Keeps
        PROVE  /\ Parsing!MethodIn(slot5, k) = Parsing!MethodIn(slot1, "last")
               /\ Parsing!ToolIn(slot5, k) = Parsing!ToolIn(slot1, "last")
    BY <2>1, CanonicalAgrees
  <2> QED
    BY <2>1, <2>2, <2>3 DEF Parsing!EveryReaderAgrees
<1> QED
  BY <1>1, BodiesAlways, PTL

\* Refused, never reinterpreted: what is forwarded is read as the client's bytes
\* are, by every reader (app.py:581-593).
THEOREM NothingEverReinterpreted == DecisionsSpec => []NothingReinterpreted
<1>1. BodiesInv => NothingReinterpreted
  <2> SUFFICES ASSUME ParsingInv, slot3 = "forwarded"
               PROVE  Parsing!NothingReinterpreted
    BY DEF BodiesInv, NothingReinterpreted, Parsing!NothingReinterpreted
  <2>1. /\ slot1 \in Parsing!Bodies /\ ~Parsing!Repeats(slot1)
        /\ slot5 = Parsing!Canonical(slot1)
    BY DEF ParsingInv
  <2>2. ASSUME NEW k \in Parsing!Keeps
        PROVE  /\ Parsing!MethodIn(slot5, k) = Parsing!MethodIn(slot1, k)
               /\ Parsing!ToolIn(slot5, k) = Parsing!ToolIn(slot1, k)
    BY <2>1, CanonicalAgrees
  <2> QED
    BY <2>2 DEF Parsing!NothingReinterpreted
<1> QED
  BY <1>1, BodiesAlways, PTL

-----------------------------------------------------------------------------
(* Scope claims.  slot1 holds the claims, slot2 the phase, slot3 the       *)
(* scopes, slot4 the header.  First how a line of tokens is split.         *)

\* A longest part of a string that has no space in it.
IsRun(s, p, q) ==
    /\ p \in 1 .. Len(s) /\ q \in 1 .. Len(s) /\ p <= q
    /\ \A k \in p .. q : s[k] # Space
    /\ p = 1 \/ s[p - 1] = Space
    /\ q = Len(s) \/ s[q + 1] = Space

HasRun(s, x) == \E p, q \in 1 .. Len(s) : IsRun(s, p, q) /\ x = SubSeq(s, p, q)

\* A token is the text of such a part.
LEMMA TokenOfRun ==
    ASSUME NEW A, NEW s \in Seq(A), NEW x
    PROVE  x \in Claim!Tokens(s) <=> HasRun(s, x)
<1> USE DEF HasRun
<1>1. DOMAIN s = 1 .. Len(s)
  OBVIOUS
<1>2. ASSUME NEW p, NEW q
      PROVE  <<p, q>> \in Claim!Runs(s) <=> IsRun(s, p, q)
  BY <1>1 DEF Claim!Runs, IsRun
<1>3. x \in Claim!Tokens(s) <=> \E run \in Claim!Runs(s) : x = SubSeq(s, run[1], run[2])
  BY DEF Claim!Tokens
<1>4. ASSUME NEW run \in Claim!Runs(s)
      PROVE  run = <<run[1], run[2]>> /\ run[1] \in 1 .. Len(s) /\ run[2] \in 1 .. Len(s)
  BY <1>1 DEF Claim!Runs
<1>5. ASSUME NEW run \in Claim!Runs(s), x = SubSeq(s, run[1], run[2])
      PROVE  \E p, q \in 1 .. Len(s) : IsRun(s, p, q) /\ x = SubSeq(s, p, q)
  BY <1>2, <1>4, <1>5
<1>6. ASSUME NEW p \in 1 .. Len(s), NEW q \in 1 .. Len(s), IsRun(s, p, q), x = SubSeq(s, p, q)
      PROVE  \E run \in Claim!Runs(s) : x = SubSeq(s, run[1], run[2])
  <2>1. <<p, q>> \in Claim!Runs(s) /\ <<p, q>>[1] = p /\ <<p, q>>[2] = q
    BY <1>2, <1>6
  <2> QED
    BY <1>6, <2>1
<1> QED
  BY <1>3, <1>5, <1>6

\* A scope-token on its own is split into itself.
LEMMA OneToken ==
    ASSUME NEW t \in Seq(Letters), t # <<>>
    PROVE  Claim!Tokens(t) = {t}
<1>1. Len(t) \in Nat /\ Len(t) >= 1 /\ \A k \in 1 .. Len(t) : t[k] # Space
  BY SpaceAssumption
<1>2. ASSUME NEW p \in 1 .. Len(t), NEW q \in 1 .. Len(t)
      PROVE  IsRun(t, p, q) <=> p = 1 /\ q = Len(t)
  BY <1>1 DEF IsRun
<1>3. SubSeq(t, 1, Len(t)) = t
  OBVIOUS
<1>4. 1 \in 1 .. Len(t) /\ Len(t) \in 1 .. Len(t)
  BY <1>1
<1>5. ASSUME NEW x PROVE x \in Claim!Tokens(t) <=> x = t
  BY <1>2, <1>3, <1>4, TokenOfRun DEF HasRun
<1> QED
  BY <1>5

\* The characters of a line to which a token has been added.
LEMMA LongerLine ==
    ASSUME NEW A, Space \in A, NEW s \in Seq(A), NEW t \in Seq(A)
    PROVE  LET u == s \o <<Space>> \o t IN
           /\ u \in Seq(A) /\ Len(u) = Len(s) + 1 + Len(t)
           /\ \A k \in 1 .. Len(s) : u[k] = s[k]
           /\ u[Len(s) + 1] = Space
           /\ \A k \in 1 .. Len(t) : u[Len(s) + 1 + k] = t[k]
<1> DEFINE v == s \o <<Space>>
           u == v \o t
<1>1. <<Space>> \in Seq(A) /\ Len(<<Space>>) = 1 /\ <<Space>>[1] = Space
  OBVIOUS
<1>2. ASSUME NEW a \in Seq(A), NEW b \in Seq(A)
      PROVE  /\ a \o b \in Seq(A) /\ Len(a \o b) = Len(a) + Len(b)
             /\ \A k \in 1 .. Len(a) : (a \o b)[k] = a[k]
             /\ \A k \in 1 .. Len(b) : (a \o b)[Len(a) + k] = b[k]
  OBVIOUS
<1>3. /\ v \in Seq(A) /\ Len(v) = Len(s) + 1
      /\ \A k \in 1 .. Len(s) : v[k] = s[k]
      /\ v[Len(s) + 1] = Space
  <2>1. 1 \in 1 .. Len(<<Space>>)
    BY <1>1
  <2> QED
    BY <1>1, <1>2, <2>1
<1> HIDE DEF v
<1>4. /\ u \in Seq(A) /\ Len(u) = Len(v) + Len(t)
      /\ \A k \in 1 .. Len(v) : u[k] = v[k]
      /\ \A k \in 1 .. Len(t) : u[Len(v) + k] = t[k]
  BY <1>2, <1>3
<1> HIDE DEF u
<1>5. Len(s) \in Nat /\ Len(t) \in Nat
  OBVIOUS
<1>6. /\ \A k \in 1 .. Len(s) : u[k] = s[k]
      /\ u[Len(s) + 1] = Space
  BY <1>3, <1>4, <1>5
<1> QED
  BY <1>3, <1>4, <1>5, <1>6 DEF u, v

\* Splitting the longer line gives the tokens of the line and the added one.
LEMMA OneMoreToken ==
    ASSUME NEW A, Space \in A, NEW s \in Seq(A), NEW t \in Seq(A), t # <<>>,
           \A k \in 1 .. Len(t) : t[k] # Space
    PROVE  Claim!Tokens(s \o <<Space>> \o t) = Claim!Tokens(s) \cup {t}
<1> DEFINE u == s \o <<Space>> \o t
           n == Len(s)
           m == Len(t)
<1>1. /\ u \in Seq(A) /\ Len(u) = n + 1 + m
      /\ \A k \in 1 .. n : u[k] = s[k]
      /\ u[n + 1] = Space
      /\ \A k \in 1 .. m : u[n + 1 + k] = t[k]
  BY LongerLine
<1>2. n \in Nat /\ m \in Nat /\ m >= 1
  OBVIOUS
<1> HIDE DEF u, n, m
<1>3. \A k \in n + 2 .. n + 1 + m : u[k] # Space
  <2> TAKE k \in n + 2 .. n + 1 + m
  <2>1. k - (n + 1) \in 1 .. m /\ n + 1 + (k - (n + 1)) = k
    BY <1>2
  <2> QED
    BY <1>1, <2>1 DEF m
<1>4. ASSUME NEW p \in 1 .. n + 1 + m, NEW q \in 1 .. n + 1 + m
      PROVE  IsRun(u, p, q) <=> \/ p \in 1 .. n /\ q \in 1 .. n /\ IsRun(s, p, q)
                                \/ p = n + 2 /\ q = n + 1 + m
  <2>1. CASE q <= n
    <3>1. CASE p <= q
      <4>1. p \in 1 .. n /\ q \in 1 .. n /\ \A k \in p .. q : u[k] = s[k]
        BY <1>1, <1>2, <2>1, <3>1
      <4>2. p # 1 => u[p - 1] = s[p - 1]
        BY <1>1, <1>2, <4>1
      <4>3. q # n => u[q + 1] = s[q + 1]
        BY <1>1, <1>2, <4>1
      <4>4. q = n => u[q + 1] = Space
        BY <1>1
      <4>5. q # n + 1 + m
        BY <1>2, <2>1
      <4> QED
        BY <1>1, <1>2, <3>1, <4>1, <4>2, <4>3, <4>4, <4>5 DEF IsRun, n
    <3>2. CASE ~(p <= q)
      BY <1>2, <2>1, <3>2 DEF IsRun
    <3> QED
      BY <3>1, <3>2
  <2>2. CASE q > n /\ p <= n + 1
    <3>1. p <= q => n + 1 \in p .. q
      BY <1>2, <2>2
    <3>2. ~IsRun(u, p, q)
      BY <1>1, <3>1 DEF IsRun
    <3> QED
      BY <1>2, <2>2, <3>2
  <2>3. CASE q > n /\ p > n + 1
    <3>1. p # 1 /\ (p # n + 2 => u[p - 1] # Space) /\ (p = n + 2 => u[p - 1] = Space)
      <4>1. p # n + 2 => p - 1 \in n + 2 .. n + 1 + m
        BY <1>2, <2>3
      <4>2. p = n + 2 => p - 1 = n + 1
        BY <1>2
      <4>3. p # 1
        BY <1>2, <2>3
      <4> QED
        BY <1>1, <1>3, <4>1, <4>2, <4>3
    <3>2. p <= q /\ q # n + 1 + m => u[q + 1] # Space
      <4>1. p <= q /\ q # n + 1 + m => q + 1 \in n + 2 .. n + 1 + m
        BY <1>2, <2>3
      <4> QED
        BY <1>3, <4>1
    <3>3. p <= q => \A k \in p .. q : u[k] # Space
      <4>1. p <= q => \A k \in p .. q : k \in n + 2 .. n + 1 + m
        BY <1>2, <2>3
      <4> QED
        BY <1>3, <4>1
    <3>4. p = n + 2 /\ q = n + 1 + m => p <= q
      BY <1>2
    <3>5. p \notin 1 .. n
      BY <1>2, <2>3
    <3>6. IsRun(u, p, q) <=> p = n + 2 /\ q = n + 1 + m
      BY <1>1, <3>1, <3>2, <3>3, <3>4 DEF IsRun
    <3> QED
      BY <3>5, <3>6
  <2> QED
    BY <1>2, <2>1, <2>2, <2>3
<1>5. ASSUME NEW p \in 1 .. n, NEW q \in 1 .. n, p <= q
      PROVE  SubSeq(u, p, q) = SubSeq(s, p, q)
  <2>1. /\ SubSeq(s, p, q) \in Seq(A) /\ Len(SubSeq(s, p, q)) = q - p + 1
        /\ \A i \in 1 .. q - p + 1 : SubSeq(s, p, q)[i] = s[p + i - 1]
    BY <1>5, PartOfSequence DEF n
  <2>2. /\ SubSeq(u, p, q) \in Seq(A) /\ Len(SubSeq(u, p, q)) = q - p + 1
        /\ \A i \in 1 .. q - p + 1 : SubSeq(u, p, q)[i] = u[p + i - 1]
    <3>1. p \in 1 .. Len(u) /\ q \in 1 .. Len(u)
      BY <1>1, <1>2
    <3> QED
      BY <1>1, <1>5, <3>1, PartOfSequence
  <2>3. \A i \in 1 .. q - p + 1 : u[p + i - 1] = s[p + i - 1]
    <3>1. \A i \in 1 .. q - p + 1 : p + i - 1 \in 1 .. n
      BY <1>2, <1>5
    <3> QED
      BY <1>1, <3>1
  <2>4. /\ Len(SubSeq(u, p, q)) = Len(SubSeq(s, p, q))
        /\ \A i \in 1 .. Len(SubSeq(u, p, q)) : SubSeq(u, p, q)[i] = SubSeq(s, p, q)[i]
    BY <2>1, <2>2, <2>3
  <2> QED
    BY <2>1, <2>2, <2>4, SameSequence
<1>6. SubSeq(u, n + 2, n + 1 + m) = t
  <2>1. /\ SubSeq(u, n + 2, n + 1 + m) \in Seq(A) /\ Len(SubSeq(u, n + 2, n + 1 + m)) = m
        /\ \A k \in 1 .. m : SubSeq(u, n + 2, n + 1 + m)[k] = u[n + 2 + k - 1]
    <3>1. /\ n + 2 \in 1 .. Len(u) /\ n + 1 + m \in 1 .. Len(u) /\ n + 2 <= n + 1 + m
          /\ (n + 1 + m) - (n + 2) + 1 = m
      BY <1>1, <1>2
    <3> QED
      BY <1>1, <3>1, PartOfSequence
  <2>2. ASSUME NEW k \in 1 .. m PROVE u[n + 2 + k - 1] = t[k]
    <3>1. n + 2 + k - 1 = n + 1 + k
      BY <1>2
    <3> QED
      BY <1>1, <3>1
  <2> QED
    BY <2>1, <2>2, SameSequence DEF m
<1>7. ASSUME NEW x PROVE x \in Claim!Tokens(u) <=> x \in Claim!Tokens(s) \/ x = t
  <2>1. x \in Claim!Tokens(u) <=>
           \E p, q \in 1 .. n + 1 + m : IsRun(u, p, q) /\ x = SubSeq(u, p, q)
    <3>1. x \in Claim!Tokens(u) <=> HasRun(u, x)
      BY <1>1, TokenOfRun
    <3> QED
      BY <1>1, <3>1 DEF HasRun
  <2>2. x \in Claim!Tokens(s) <=> \E p, q \in 1 .. n : IsRun(s, p, q) /\ x = SubSeq(s, p, q)
    BY TokenOfRun DEF n, HasRun
  <2>3. /\ n + 2 \in 1 .. n + 1 + m /\ n + 1 + m \in 1 .. n + 1 + m
        /\ \A p \in 1 .. n : p \in 1 .. n + 1 + m
    BY <1>2
  <2>4. ASSUME NEW p \in 1 .. n + 1 + m, NEW q \in 1 .. n + 1 + m,
               IsRun(u, p, q), x = SubSeq(u, p, q)
        PROVE  x \in Claim!Tokens(s) \/ x = t
    <3>1. p <= q
      BY <2>4 DEF IsRun
    <3> QED
      BY <1>4, <1>5, <1>6, <2>2, <2>4, <3>1
  <2>5. x = t => x \in Claim!Tokens(u)
    BY <1>4, <1>6, <2>1, <2>3
  <2>6. ASSUME NEW p \in 1 .. n, NEW q \in 1 .. n, IsRun(s, p, q), x = SubSeq(s, p, q)
        PROVE  x \in Claim!Tokens(u)
    <3>1. IsRun(u, p, q) /\ x = SubSeq(u, p, q)
      BY <1>4, <1>5, <2>3, <2>6 DEF IsRun
    <3> QED
      BY <2>1, <2>3, <3>1
  <2> QED
    BY <2>1, <2>2, <2>4, <2>5, <2>6
<1> QED
  BY <1>7 DEF u

\* The tokens of a string are finitely many.
LEMMA FiniteTokens ==
    ASSUME NEW A, NEW s \in Seq(A)
    PROVE  IsFiniteSet(Claim!Tokens(s))
<1> DEFINE D == 1 .. Len(s)
           f == [run \in Claim!Runs(s) |-> SubSeq(s, run[1], run[2])]
<1>1. IsFiniteSet(D)
  BY FS_Interval
<1>2. IsFiniteSet(D \X D)
  <2> HIDE DEF D
  <2> QED
    BY <1>1, FS_Product
<1>3. Claim!Runs(s) \in SUBSET (D \X D)
  BY DEF Claim!Runs
<1>4. IsFiniteSet(Claim!Runs(s))
  <2> HIDE DEF D
  <2> QED
    BY <1>2, <1>3, FS_Subset
<1>5. f \in Surjection(Claim!Runs(s), Claim!Tokens(s))
  BY DEF Surjection, Claim!Tokens
<1> QED
  <2> HIDE DEF f
  <2> QED
    BY <1>4, <1>5, FS_Surjection

\* The elements of a list are finitely many.
LEMMA FiniteRange ==
    ASSUME NEW n \in Nat, NEW f, DOMAIN f = 1 .. n
    PROVE  IsFiniteSet(Claim!Range(f))
<1> DEFINE g == [i \in 1 .. n |-> f[i]]
<1>1. IsFiniteSet(1 .. n)
  BY FS_Interval
<1>2. g \in Surjection(1 .. n, Claim!Range(f))
  BY DEF Surjection, Claim!Range
<1> HIDE DEF g
<1> QED
  BY <1>1, <1>2, FS_Surjection

-----------------------------------------------------------------------------
(* How a line of tokens is joined, and split again.                        *)

\* What " ".join has written after each token.
LEMMA LoopOfJoin ==
    ASSUME NEW n \in Nat, NEW order \in [1 .. n -> Seq(Letters)]
    PROVE  \E line \in [0 .. n -> Seq(Letters \cup {Space})] :
              /\ line[0] = <<>> /\ line[n] = Claim!Join(order)
              /\ \A k \in 1 .. n :
                    line[k] = IF line[k - 1] = <<>> THEN order[k]
                              ELSE line[k - 1] \o <<Space>> \o order[k]
<1> DEFINE V == Seq(Letters \cup {Space})
           Op(t, e) == IF t = <<>> THEN e ELSE t \o <<Space>> \o e
           Eq(it) == it = [z \in SUBSET DOMAIN order |->
                              IF z = {} THEN <<>>
                              ELSE Op(it[z \ {Claim!Max(z)}], order[Claim!Max(z)])]
           It == CHOOSE it : Eq(it)
           turn == [i \in 1 .. n |-> [t \in V |-> Op(t, order[i])]]
<1>1. DOMAIN order = 1 .. n
  OBVIOUS
<1>2. \A z \in SUBSET (1 .. n) : z # {} =>
          /\ z \ {Max(z)} \in SUBSET (1 .. n)
          /\ Max(z) \in 1 .. n /\ Claim!Max(z) = Max(z)
  BY GreatestElement DEF Max, Claim!Max
<1>3. <<>> \in V
  OBVIOUS
<1>4. turn \in Steps(n, V)
  <2>1. \A i \in 1 .. n : order[i] \in V
    OBVIOUS
  <2>2. <<Space>> \in V /\ \A a, b \in V : a \o b \in V
    OBVIOUS
  <2>3. \A i \in 1 .. n, t \in V : Op(t, order[i]) \in V
    <3> HIDE DEF V
    <3> QED
      BY <2>1, <2>2
  <2> HIDE DEF V, Op
  <2> QED
    BY <2>3 DEF Steps
<1>5. \A i \in 1 .. n, t \in V : turn[i][t] = Op(t, order[i])
  OBVIOUS
<1> HIDE DEF Op, turn, V
<1>7. PICK f \in Tables(n, V) : f = Unrolled(f, n, <<>>, turn)
  BY <1>3, <1>4, FoldExists
<1>8. Eq(f)
  <2>1. ASSUME NEW z \in SUBSET (1 .. n)
        PROVE  f[z] = IF z = {} THEN <<>>
                      ELSE Op(f[z \ {Claim!Max(z)}], order[Claim!Max(z)])
    <3>1. f[z] = IF z = {} THEN <<>> ELSE turn[Max(z)][f[z \ {Max(z)}]]
      BY <1>7 DEF Unrolled
    <3>2. CASE z = {}
      BY <3>1, <3>2
    <3>3. CASE z # {}
      <4>1. f[z \ {Max(z)}] \in V
        BY <1>2, <3>3 DEF Tables
      <4>2. turn[Max(z)][f[z \ {Max(z)}]] = Op(f[z \ {Max(z)}], order[Max(z)])
        BY <1>2, <1>5, <3>3, <4>1
      <4>3. Claim!Max(z) = Max(z)
        BY <1>2, <3>3
      <4> QED
        BY <3>1, <3>3, <4>2, <4>3, Zenon
    <3> QED
      BY <3>2, <3>3
  <2>2. f \in [SUBSET (1 .. n) -> V]
    BY DEF Tables
  <2> QED
    BY <1>1, <2>1, <2>2
<1>9. Eq(It)
  <2> HIDE DEF Eq
  <2> QED
    BY <1>8
<1>10. Claim!Join(order) = It[DOMAIN order]
  BY Zenon DEF Claim!Join, Claim!FoldLeft, Claim!MapThenFoldSet, Op
<1>11. It[{}] = <<>>
  <2> HIDE DEF It
  <2> QED
    BY <1>1, <1>9
<1>12. ASSUME NEW z \in SUBSET (1 .. n), z # {}, It[z \ {Max(z)}] \in V
       PROVE  It[z] = turn[Max(z)][It[z \ {Max(z)}]]
  <2> HIDE DEF It
  <2>1. It[z] = Op(It[z \ {Claim!Max(z)}], order[Claim!Max(z)])
    BY <1>1, <1>9, <1>12
  <2>2. turn[Max(z)][It[z \ {Max(z)}]] = Op(It[z \ {Max(z)}], order[Max(z)])
    BY <1>2, <1>5, <1>12
  <2>3. Claim!Max(z) = Max(z)
    BY <1>2, <1>12
  <2> QED
    BY <2>1, <2>2, <2>3, Zenon
<1>13. Recurs(It, n, V, <<>>, turn)
  <2> HIDE DEF It
  <2> QED
    BY <1>11, <1>12 DEF Recurs
<1> HIDE DEF It
<1>14. PICK line \in Paths(n, V) : Follows(line, It, n, <<>>, turn)
  BY <1>3, <1>4, <1>13, FoldSteps
<1>15. \A k \in 1 .. n : line[k - 1] \in V /\ line[k] = Op(line[k - 1], order[k])
  <2> TAKE k \in 1 .. n
  <2>1. line[k - 1] \in V
    BY DEF Paths
  <2>2. line[k] = turn[k][line[k - 1]]
    BY <1>14 DEF Follows
  <2> QED
    BY <1>5, <2>1, <2>2
<1> QED
  BY <1>1, <1>10, <1>14, <1>15 DEF V, Paths, Follows, Op

\* The header is split into the tokens it was joined from, whatever their order.
LEMMA SplitOfJoin ==
    ASSUME NEW n \in Nat, NEW order \in [1 .. n -> Seq(Letters)],
           \A i \in 1 .. n : order[i] # <<>>
    PROVE  Claim!Tokens(Claim!Join(order)) = {order[i] : i \in 1 .. n}
<1> DEFINE A == Letters \cup {Space}
<1>1. PICK line \in [0 .. n -> Seq(A)] :
         /\ line[0] = <<>> /\ line[n] = Claim!Join(order)
         /\ \A k \in 1 .. n : line[k] = IF line[k - 1] = <<>> THEN order[k]
                                        ELSE line[k - 1] \o <<Space>> \o order[k]
  BY LoopOfJoin
<1>2. \A i \in 1 .. n : /\ order[i] \in Seq(Letters) /\ order[i] \in Seq(A)
                        /\ order[i] # <<>>
                        /\ \A k \in 1 .. Len(order[i]) : order[i][k] # Space
  BY SpaceAssumption
<1>3. Claim!Tokens(<<>>) = {}
  BY DEF Claim!Tokens, Claim!Runs
<1>4. Space \in A
  OBVIOUS
<1> HIDE DEF A
<1>40. \A s, t \in Seq(A) :
          t # <<>> /\ (\A j \in 1 .. Len(t) : t[j] # Space) =>
             Claim!Tokens(s \o <<Space>> \o t) = Claim!Tokens(s) \cup {t}
  BY <1>4, OneMoreToken, Zenon
<1> DEFINE Good == {k \in 0 .. n :
                      /\ line[k] = <<>> => k = 0
                      /\ Claim!Tokens(line[k]) = {order[i] : i \in 1 .. k}}
<1>5. 0 \in Good
  <2>1. {order[i] : i \in 1 .. 0} = {}
    OBVIOUS
  <2> QED
    BY <1>1, <1>3, <2>1
<1>6. ASSUME NEW k \in 0 .. n - 1, k \in Good PROVE k + 1 \in Good
  <2>1. /\ k + 1 \in 1 .. n /\ (k + 1) - 1 = k /\ k + 1 # 0
        /\ k \in 0 .. n /\ k + 1 \in 0 .. n
    OBVIOUS
  <2> DEFINE t == order[k + 1]
  <2>2. /\ t \in Seq(Letters) /\ t \in Seq(A) /\ t # <<>>
        /\ \A j \in 1 .. Len(t) : t[j] # Space
    BY <1>2, <2>1
  <2>3. line[k + 1] = IF line[k] = <<>> THEN t ELSE line[k] \o <<Space>> \o t
    BY <1>1, <2>1
  <2>4. line[k] \in Seq(A) /\ line[k + 1] \in Seq(A)
    BY <1>1, <2>1
  <2> HIDE DEF t
  <2>5. Claim!Tokens(line[k + 1]) = Claim!Tokens(line[k]) \cup {t}
    <3>1. CASE line[k] = <<>>
      BY <1>3, <2>2, <2>3, <3>1, OneToken
    <3>2. CASE line[k] # <<>>
      <4>1. Claim!Tokens(line[k] \o <<Space>> \o t) = Claim!Tokens(line[k]) \cup {t}
        BY <1>40, <2>2, <2>4, Zenon
      <4>2. line[k + 1] = line[k] \o <<Space>> \o t
        BY <2>3, <3>2, Zenon
      <4> QED
        BY <4>1, <4>2, Zenon
    <3> QED
      BY <3>1, <3>2
  <2>6. line[k + 1] # <<>>
    <3>1. CASE line[k] # <<>>
      <4>1. Len(line[k + 1]) = Len(line[k]) + 1 + Len(t) /\ Len(t) >= 1
        BY <1>4, <2>2, <2>3, <2>4, <3>1, LongerLine
      <4>2. Len(line[k]) \in Nat /\ Len(t) \in Nat
        BY <2>2, <2>4
      <4> QED
        BY <4>1, <4>2
    <3> QED
      BY <2>2, <2>3, <3>1
  <2>7. {order[i] : i \in 1 .. k + 1} = {order[i] : i \in 1 .. k} \cup {t}
    <3>1. \A i \in 1 .. k + 1 : i \in 1 .. k \/ i = k + 1
      OBVIOUS
    <3>2. \A i \in 1 .. k : i \in 1 .. k + 1
      OBVIOUS
    <3> QED
      BY <2>1, <3>1, <3>2 DEF t
  <2> QED
    BY <1>6, <2>1, <2>5, <2>6, <2>7
<1>7. n \in Good
  <2>1. \A k \in 0 .. n - 1 : k \in Good => k + 1 \in Good
    BY <1>6
  <2> HIDE DEF Good
  <2>2. \A k \in 0 .. n : k \in Good
    BY <1>5, <2>1, Induction
  <2> QED
    BY <2>2
<1> QED
  BY <1>1, <1>7

-----------------------------------------------------------------------------
(* The claims on their way.                                                *)

\* What has been read of a claim at each stage.
ClaimInv ==
    /\ slot1 \in Claim!Claims
    /\ slot2 \in {"parse", "forward", "sent", "rejected"}
    /\ slot2 \in {"forward", "sent"} =>
          slot3 = Claim!RawTokens(slot1) /\ \A t \in slot3 : Claim!Valid(t)
    /\ slot2 = "sent" => \E order \in Claim!Orders(slot3) : slot4 = Claim!Join(order)

ClaimsInv == subject = "claims" => ClaimInv

\* Nothing has been read of a claim before it is parsed.
LEMMA ClaimsInit == DecisionsInit => ClaimsInv
BY DEF DecisionsInit, SlotsInit, ClaimsInv, ClaimInv, Claim!Init

\* Parsing and joining keep what has been read of a claim.
LEMMA ClaimsStep ==
    ASSUME ClaimsInv, [DecisionsNext]_<<subject, vars, scopeVars, toolVars, slots>>
    PROVE  ClaimsInv'
<1> SUFFICES ASSUME subject' = "claims" PROVE ClaimInv'
  BY DEF ClaimsInv
<1>1. subject = "claims" /\ ClaimInv
  BY DEF DecisionsNext, ClaimsInv
<1>2. CASE UNCHANGED slots
  BY <1>1, <1>2 DEF ClaimInv, slots
<1>3. CASE Claim!ParseScopes
  BY <1>1, <1>3 DEF ClaimInv, Claim!ParseScopes
<1>4. CASE Claim!JoinScopes
  BY <1>1, <1>4 DEF ClaimInv, Claim!JoinScopes
<1> QED
  BY <1>1, <1>2, <1>3, <1>4 DEF DecisionsNext, SlotsNext, Claim!Next, slots

\* The tokens of a claim are sequences of characters, and finitely many.
LEMMA TokensOfClaim ==
    ASSUME NEW c \in Claim!Claims
    PROVE  /\ IsFiniteSet(Claim!RawTokens(c))
           /\ \A t \in Claim!RawTokens(c) : \E A : t \in Seq(A)
           /\ c.scope.form # "string" /\ c.scp.form = "list"
                 => Claim!RawTokens(c) = Claim!Range(c.scp.items)
<1> DEFINE A == Letters \cup {Space, Other}
<1>1. ASSUME NEW s \in Claim!Strings PROVE s \in Seq(A)
  <2>1. PICK n \in 0 .. MaxLength : s \in [1 .. n -> A]
    BY DEF Claim!Strings
  <2> QED
    BY <2>1, BoundsAssumption
<1>2. ASSUME NEW d \in Claim!Texts \cup Claim!Lists \cup {Claim!Nothing}
      PROVE  /\ d.text \in Seq(A)
             /\ \E n \in Nat : d.items \in [1 .. n -> Claim!Strings \cup {Claim!NotAString}]
             /\ d.form = "list" => d \in Claim!Lists
  <2>1. <<>> \in Seq(A) /\ <<>> \in [1 .. 0 -> Claim!Strings \cup {Claim!NotAString}]
    OBVIOUS
  <2>2. CASE d \in Claim!Texts
    <3>1. d.form = "string" /\ d.text \in Claim!Strings /\ d.items = <<>>
      BY <2>2 DEF Claim!Texts
    <3> QED
      BY <1>1, <2>1, <3>1
  <2>3. CASE d \in Claim!Lists
    <3>1. /\ d.text = <<>>
          /\ \E n \in 0 .. MaxItems : d.items \in [1 .. n -> Claim!Strings \cup {Claim!NotAString}]
      BY <2>3 DEF Claim!Lists
    <3> QED
      BY <2>1, <2>3, <3>1, BoundsAssumption
  <2>4. CASE d = Claim!Nothing
    <3>1. d.form = "none" /\ d.text = <<>> /\ d.items = <<>>
      BY <2>4 DEF Claim!Nothing
    <3> QED
      BY <2>1, <3>1
  <2> QED
    BY <2>2, <2>3, <2>4
<1>3. /\ c.scope \in Claim!Texts \cup Claim!Lists \cup {Claim!Nothing}
      /\ c.scp \in Claim!Texts \cup Claim!Lists \cup {Claim!Nothing}
  BY DEF Claim!Claims
<1> HIDE DEF A
<1>4. ASSUME NEW s \in Seq(A)
      PROVE  IsFiniteSet(Claim!Tokens(s)) /\ \A t \in Claim!Tokens(s) : \E B : t \in Seq(B)
  <2>1. ASSUME NEW t \in Claim!Tokens(s) PROVE t \in Seq(A)
    <3>1. PICK p \in 1 .. Len(s), q \in 1 .. Len(s) : IsRun(s, p, q) /\ t = SubSeq(s, p, q)
      BY TokenOfRun DEF HasRun
    <3> QED
      BY <3>1, PartOfSequence DEF IsRun
  <2> QED
    BY <2>1, FiniteTokens
<1>5. CASE c.scope.form = "string"
  <2>1. Claim!RawTokens(c) = Claim!Tokens(c.scope.text) /\ c.scope.text \in Seq(A)
    BY <1>2, <1>3, <1>5 DEF Claim!RawTokens
  <2> QED
    BY <1>4, <1>5, <2>1
<1>6. CASE c.scope.form # "string" /\ c.scp.form = "string"
  <2>1. Claim!RawTokens(c) = Claim!Tokens(c.scp.text) /\ c.scp.text \in Seq(A)
    BY <1>2, <1>3, <1>6 DEF Claim!RawTokens
  <2> QED
    BY <1>4, <1>6, <2>1
<1>7. CASE c.scope.form # "string" /\ c.scp.form # "string"
  <2>1. Claim!RawTokens(c) = Claim!Range(c.scp.items)
    BY <1>7 DEF Claim!RawTokens
  <2>2. PICK n \in Nat : c.scp.items \in [1 .. n -> Claim!Strings \cup {Claim!NotAString}]
    BY <1>2, <1>3
  <2>3. IsFiniteSet(Claim!Range(c.scp.items))
    BY <2>2, FiniteRange
  <2>4. ASSUME NEW t \in Claim!Range(c.scp.items) PROVE \E B : t \in Seq(B)
    <3>1. t \in Claim!Strings \/ t = Claim!NotAString
      BY <2>2 DEF Claim!Range
    <3>2. Claim!NotAString \in Seq({"not a string"})
      BY DEF Claim!NotAString
    <3> QED
      BY <1>1, <3>1, <3>2
  <2> QED
    BY <2>1, <2>3, <2>4
<1> QED
  BY <1>5, <1>6, <1>7

\* The X-Forwarded-Scopes header "re-splits upstream to exactly the scopes the
\* gateway authorized", which are those of the claim (app.py:371-375,
\* verifier.py:81-120).
THEOREM SameScopesAlwaysUpstream == DecisionsSpec => []SameScopesUpstream
<1>1. ClaimsInv => SameScopesUpstream
  <2> SUFFICES ASSUME ClaimInv, slot2 = "sent" PROVE Claim!SameScopesUpstream
    BY DEF ClaimsInv, SameScopesUpstream, Claim!SameScopesUpstream
  <2>1. /\ slot1 \in Claim!Claims /\ slot3 = Claim!RawTokens(slot1)
        /\ \A t \in slot3 : Claim!Valid(t)
    BY DEF ClaimInv
  <2>2. PICK order \in Claim!Orders(slot3) : slot4 = Claim!Join(order)
    BY DEF ClaimInv
  <2> DEFINE n == Cardinality(slot3)
  <2>3. n \in Nat
    BY <2>1, TokensOfClaim, FS_CardinalityType
  <2>4. Claim!Cardinality(slot3) = n
    BY DEF Claim!Cardinality, Cardinality
  <2> HIDE DEF n
  <2>5. order \in [1 .. n -> slot3] /\ Claim!Range(order) = slot3
    BY <2>2, <2>4 DEF Claim!Orders
  <2>6. ASSUME NEW t \in slot3 PROVE t \in Seq(Letters) /\ t # <<>>
    <3>1. PICK A : t \in Seq(A)
      BY <2>1, TokensOfClaim
    <3>2. t # <<>> /\ \A i \in 1 .. Len(t) : t[i] \in Letters
      BY <2>1, <3>1 DEF Claim!Valid
    <3> QED
      BY <3>1, <3>2
  <2>7. order \in [1 .. n -> Seq(Letters)] /\ \A i \in 1 .. n : order[i] # <<>>
    BY <2>5, <2>6
  <2>8. Claim!Tokens(slot4) = {order[i] : i \in 1 .. n}
    BY <2>2, <2>3, <2>7, SplitOfJoin
  <2>9. {order[i] : i \in 1 .. n} = slot3
    BY <2>5 DEF Claim!Range
  <2> QED
    BY <2>1, <2>8, <2>9, TokensOfClaim DEF Claim!SameScopesUpstream
<1>2. DecisionsInit => ClaimsInv
  BY ClaimsInit
<1>3. ClaimsInv /\ [DecisionsNext]_<<subject, vars, scopeVars, toolVars, slots>> => ClaimsInv'
  BY ClaimsStep
<1> QED
  BY <1>1, <1>2, <1>3, PTL DEF DecisionsSpec

=============================================================================
