------------------------- MODULE TokenVerification --------------------------
(***************************************************************************)
(* One token from the Authorization header to the identity the upstream    *)
(* sees: verify of JwksVerifier (src/mcp_gateway/verifier.py) around the   *)
(* key it gets from the cache, and the X-Forwarded-Sub header of proxy_mcp *)
(* (src/mcp_gateway/app.py).  The cache is modelled in JwksVerifier and    *)
(* the scope claims in ScopeClaims; here a key is found or not, and the    *)
(* scope claims are well formed or not.                                    *)
(*                                                                         *)
(* PyJWT, which decodes the token, and httpx, which writes the header, are *)
(* modelled by what verify and proxy_mcp rely on.                          *)
(***************************************************************************)
EXTENDS Integers, Sequences

CONSTANTS
    Letters,    \* printable ASCII characters other than the space
    Blank,      \* the space
    Control,    \* a control character
    Wide,       \* a character that is not ASCII
    MaxSubject  \* bound on the length of a subject

VARIABLES token, cached, stage, subject, wire

vars == <<token, cached, stage, subject, wire>>

Characters == Letters \cup {Blank, Control, Wide}
Strings    == UNION {[1 .. n -> Characters] : n \in 0 .. MaxSubject}

\* header "deep" is nested beyond the recursion limit.  alg: one of _algs that the
\* key named by kid is made for, one that it is not made for ("misfit"), "HS256" or
\* the like, or none.  signer: whose key made the
\* signature.  exp, iat, iss and aud: "bad" is out of date, of somebody else, or
\* not of the right type.  sub: a string, or the claim is missing or no string.
Registered == {"exp", "iat", "iss", "aud"}
Statuses   == {"good", "bad", "absent"}
Subs       == [form : {"absent", "other"}, text : {<<>>}]
              \cup [form : {"string"}, text : Strings]

GoodClaims == [c \in Registered |-> "good"]
Signed(sub, wellFormed) ==
    [header |-> "parsed", alg |-> "asymmetric", kid |-> "string", signer |-> "issuer",
     claims |-> GoodClaims, sub |-> sub, scopes |-> wellFormed]

\* Tokens with a sound header and any subject, and tokens with any defects
\* elsewhere and one subject.
Tokens ==
    {Signed(s, ok) : s \in Subs, ok \in BOOLEAN}
    \cup [header : {"empty", "malformed", "deep", "parsed"},
          alg : {"asymmetric", "misfit", "symmetric", "none"},
          kid : {"string", "empty", "absent"}, signer : {"issuer", "stranger", "nobody"},
          claims : [Registered -> Statuses],
          sub : {s \in Subs : s.form = "string" /\ Len(s.text) = 1}, scopes : {TRUE}]

Unsent == <<"unsent">>

Init ==
    /\ token \in Tokens
    /\ cached \in BOOLEAN       \* whether the key cache knows the kid
    /\ stage = "header"
    /\ subject = <<>>
    /\ wire = Unsent

-----------------------------------------------------------------------------

\* A TokenError ends verify.
Reject   == stage' = "rejected"
Go(next) == stage' = next

\* Neither does verify catch it, nor proxy_mcp: a bare 500.
Crash == Go("crashed")

\* The checks before any network call.  The RecursionError of a deep header is no
\* PyJWTError.
PeekHeader ==
    /\ stage = "header"
    /\ IF token.header = "deep" THEN Crash
       ELSE IF token.header # "parsed" \/ token.alg \notin {"asymmetric", "misfit"}
               \/ token.kid # "string"
       THEN Reject ELSE Go("key")
    /\ UNCHANGED <<token, cached, subject, wire>>

\* _resolve_key returns a key of the issuer or raises.
ResolveKey ==
    /\ stage = "key"
    /\ IF cached THEN Go("decode") ELSE Reject
    /\ UNCHANGED <<token, cached, subject, wire>>

\* What jwt.decode accepts with the options it is given.  A sub that is no string
\* is refused by the PyJWT 2.13 of uv.lock, as by every version since 2.10.
Decodes(t) ==
    /\ t.signer = "issuer"
    /\ \A c \in Registered : t.claims[c] = "good"
    /\ t.sub.form # "other"

\* PyJWT raises TypeError, no PyJWTError, for a key that is not made for the
\* algorithm, before it looks at the signature.
Decode ==
    /\ stage = "decode"
    /\ IF token.alg = "misfit" THEN Crash
       ELSE IF Decodes(token) THEN Go("sub") ELSE Reject
    /\ UNCHANGED <<token, cached, subject, wire>>

\* str.strip removes blanks and those control characters that are white space.
Stripped(s) == s = <<>> \/ (s[1] \notin {Blank, Control} /\ s[Len(s)] \notin {Blank, Control})

\* Fault: surrounding white space is let through.
HeaderSafeUntrimmed(s) == \A i \in DOMAIN s : s[i] \notin {Control, Wide}

\* isascii, strip and the control characters.
HeaderSafe(s) == Stripped(s) /\ \A i \in DOMAIN s : s[i] \notin {Control, Wide}

\* A missing sub reads as the empty string.
CheckSubject ==
    /\ stage = "sub"
    /\ IF token.sub.text = <<>> \/ ~HeaderSafe(token.sub.text) THEN Reject /\ UNCHANGED subject
       ELSE Go("scopes") /\ subject' = token.sub.text
    /\ UNCHANGED <<token, cached, wire>>

\* A ScopeClaimError of _parse_scopes is a TokenError of verify.
CheckScopes ==
    /\ stage = "scopes"
    /\ IF token.scopes THEN Go("verified") ELSE Reject
    /\ UNCHANGED <<token, cached, subject, wire>>

\* httpx writes header values in ASCII, h11 refuses control characters and
\* surrounding white space.
Sendable(s) ==
    /\ \A i \in DOMAIN s : s[i] \notin {Control, Wide}
    /\ s # <<>> => s[1] # Blank /\ s[Len(s)] # Blank

\* proxy_mcp sends the subject; a value that cannot be sent is an exception.
Inject ==
    /\ stage = "verified"
    /\ IF Sendable(subject) THEN Go("sent") /\ wire' = subject
       ELSE Go("unsendable") /\ UNCHANGED wire
    /\ UNCHANGED <<token, cached, subject>>

Next ==
    \/ PeekHeader \/ ResolveKey \/ Decode
    \/ CheckSubject \/ CheckScopes \/ Inject

Spec == Init /\ [][Next]_vars

-----------------------------------------------------------------------------
(* Properties.                                                             *)

\* Whoever is verified can be announced: the upstream reads the very sub of the
\* token, not empty and with nothing cut off, of a token that the issuer signed
\* with an asymmetric algorithm under a key the cache knows, with every registered
\* claim there and good; and no accepted subject fails when the request is sent
\* (verifier.py:339-389, app.py:372-377).
IdentityArrives ==
    /\ stage # "unsendable"
    /\ stage = "sent" =>
          /\ wire = token.sub.text /\ wire # <<>>
          /\ token.signer = "issuer" /\ token.alg = "asymmetric" /\ cached
          /\ \A c \in Registered : token.claims[c] = "good"

=============================================================================
