---------------------------- MODULE ScopeClaims -----------------------------
(***************************************************************************)
(* From the scope claims of a token to the X-Forwarded-Scopes header:      *)
(* _parse_scopes (src/mcp_gateway/verifier.py), the join in proxy_mcp      *)
(* (src/mcp_gateway/app.py), and an upstream that splits the header again. *)
(* Strings are sequences of characters.                                    *)
(***************************************************************************)
EXTENDS Integers, Sequences, FiniteSets, SequencesExt

CONSTANTS
    Letters,    \* characters a scope-token may have
    Space,      \* the separator, not among them
    Other,      \* another character it may not have: control, quote, non-ASCII
    MaxLength,  \* bound on the length of a string
    MaxItems    \* bound on the length of a list

VARIABLES claims, phase, result, header

vars == <<claims, phase, result, header>>

Strings == UNION {[1 .. n -> Letters \cup {Space, Other}] : n \in 0 .. MaxLength}

\* A claim that is a string, a list of strings and non-strings, or neither.
\* NotAString is an element of a list that is not a string.
NotAString == <<"not a string">>
Texts  == [form : {"string"}, text : Strings, items : {<<>>}]
Lists  == [form : {"list"}, text : {<<>>},
           items : UNION {[1 .. n -> Strings \cup {NotAString}] : n \in 0 .. MaxItems}]
Nothing == [form |-> "none", text |-> <<>>, items |-> <<>>]

\* When scope is a string, scp is not looked at; it is then one of a few.
Claims == [scope : Texts, scp : {Nothing}]
          \cup [scope : {Nothing}, scp : Texts \cup Lists \cup {Nothing}]
          \cup [scope : {c \in Texts : Len(c.text) <= 1}, scp : {c \in Texts : Len(c.text) = 1}]

Init ==
    /\ claims \in Claims
    /\ phase = "parse"
    /\ result = {}
    /\ header = <<>>

-----------------------------------------------------------------------------

\* split(" ") without the empty strings: the longest runs without a space.
Runs(s) ==
    {run \in (DOMAIN s) \X (DOMAIN s) :
        /\ run[1] <= run[2] /\ \A k \in run[1] .. run[2] : s[k] # Space
        /\ run[1] = 1 \/ s[run[1] - 1] = Space
        /\ run[2] = Len(s) \/ s[run[2] + 1] = Space}
Tokens(s) == {SubSeq(s, run[1], run[2]) : run \in Runs(s)}

\* Fault: quotes and control characters are looked for, spaces are not.
ValidAllowingSpace(t) == t # <<>> /\ \A i \in DOMAIN t : t[i] # Other

\* _valid_scope_token
Valid(t) == t # <<>> /\ \A i \in DOMAIN t : t[i] \in Letters

\* The tokens before validation; scope wins, and a list element is one token.
RawTokens(c) ==
    IF c.scope.form = "string" THEN Tokens(c.scope.text)
    ELSE IF c.scp.form = "string" THEN Tokens(c.scp.text)
    ELSE Range(c.scp.items)

\* One malformed token rejects the whole claim.
ParseScopes ==
    /\ phase = "parse"
    /\ IF \A t \in RawTokens(claims) : Valid(t)
       THEN phase' = "forward" /\ result' = RawTokens(claims)
       ELSE phase' = "rejected" /\ UNCHANGED result
    /\ UNCHANGED <<claims, header>>

\* The orders in which the elements of a set can be listed.
Orders(S) == {order \in [1 .. Cardinality(S) -> S] : Range(order) = S}

\* " ".join
Join(order) ==
    FoldLeft(LAMBDA line, t : IF line = <<>> THEN t ELSE line \o <<Space>> \o t, <<>>, order)

\* sorted(scopes): which order that gives makes no difference.
JoinScopes ==
    /\ phase = "forward"
    /\ phase' = "sent"
    /\ \E order \in Orders(result) : header' = Join(order)
    /\ UNCHANGED <<claims, result>>

Next == ParseScopes \/ JoinScopes

Spec == Init /\ [][Next]_vars

-----------------------------------------------------------------------------
(* Properties.                                                             *)

\* "re-splits upstream to exactly the scopes the gateway authorized"
\* (app.py:371-375), and these are the claim's, none dropped and none coerced,
\* one for each element of a list (verifier.py:56-66, 86-88, 100-108).
SameScopesUpstream ==
    phase = "sent" =>
        /\ Tokens(header) = result
        /\ claims.scope.form # "string" /\ claims.scp.form = "list"
              => result = Range(claims.scp.items)

=============================================================================
