---------------------------- MODULE ScopePolicy -----------------------------
(***************************************************************************)
(* Which scopes a method needs: the method guard of _parse_jsonrpc         *)
(* (src/mcp_gateway/app.py) followed by ScopePolicy._match and check       *)
(* (src/mcp_gateway/policy.py).                                            *)
(*                                                                         *)
(* A method is the sequence of its "/"-separated segments.  A rule key     *)
(* that ends in "/" is a prefix; it matches a method that goes on beyond   *)
(* it.  Rules are kept in the order of the policy file, because _match     *)
(* walks the dictionary in that order.                                     *)
(***************************************************************************)
EXTENDS Integers, Sequences, SequencesExt

CONSTANTS
    Segments,       \* the segments methods are made of, "" and ".." among them
    Names,          \* the segments rules are made of
    Scopes,         \* the scopes tokens hold and rules ask for
    MaxSegments,    \* bound on the length of a method
    MaxRules        \* bound on the number of rules

VARIABLES policy, method, held, phase, decision

vars == <<policy, method, held, phase, decision>>

Methods  == UNION {[1 .. n -> Segments] : n \in 1 .. MaxSegments}
Paths    == UNION {[1 .. n -> Names] : n \in 1 .. MaxSegments - 1}
Rules    == [path : Paths, prefix : BOOLEAN, needs : SUBSET Scopes]

SameKey(r, s) == r.path = s.path /\ r.prefix = s.prefix

\* A dictionary: no two rules have the same key.
RuleLists ==
    {rs \in UNION {[1 .. n -> Rules] : n \in 0 .. MaxRules} :
        \A i, j \in DOMAIN rs : SameKey(rs[i], rs[j]) => i = j}
Policies == [rules : RuleLists, default : SUBSET Scopes, denyByDefault : BOOLEAN]

NoDecision == [allowed |-> FALSE, required |-> {}, why |-> "none"]

Init ==
    /\ policy \in Policies
    /\ method \in Methods
    /\ held \in SUBSET Scopes
    /\ phase = "parse"
    /\ decision = NoDecision

-----------------------------------------------------------------------------
(* The method guard.                                                       *)

\* Fault: only the empty segment is refused.
RelativeEmptyOnly(m) == \E i \in DOMAIN m : m[i] = ""

Relative(m) == \E i \in DOMAIN m : m[i] \in {"", ".", ".."}

ParseMethod ==
    /\ phase = "parse"
    /\ IF Relative(method)
       THEN phase' = "done" /\ decision' = [NoDecision EXCEPT !.why = "invalid_jsonrpc"]
       ELSE phase' = "check" /\ UNCHANGED decision
    /\ UNCHANGED <<policy, method, held>>

-----------------------------------------------------------------------------
(* _match and check.                                                       *)

IsExact(r, m)  == ~r.prefix /\ r.path = m
Covers(r, m)   == r.prefix /\ IsStrictPrefix(r.path, m)

\* The loop over the rules: a longer prefix replaces the best one so far.  The
\* loop holds the index of the best rule, 0 for None.
Better(rs, m, best, i) ==
    IF Covers(rs[i], m) /\ (best = 0 \/ Len(rs[i].path) > Len(rs[best].path))
    THEN i ELSE best

\* Fault: the first prefix that matches is taken.
FirstPrefix(rs, m) ==
    FoldLeftDomain(LAMBDA best, i :
                       IF best = 0 /\ Covers(rs[i], m) THEN i ELSE best, 0, rs)

LongestPrefix(rs, m) ==
    FoldLeftDomain(LAMBDA best, i : Better(rs, m, best, i), 0, rs)

\* _match: the index of the rule for m, 0 when there is none.
Match(rs, m) ==
    IF \E i \in DOMAIN rs : IsExact(rs[i], m)
    THEN CHOOSE i \in DOMAIN rs : IsExact(rs[i], m)
    ELSE LongestPrefix(rs, m)

\* check: no rule and no default means no; otherwise every scope is required.
Decide(p, m, h) ==
    LET i == Match(p.rules, m) IN
    IF i = 0 /\ p.denyByDefault /\ p.default = {}
    THEN [allowed |-> FALSE, required |-> {}, why |-> "no_policy"]
    ELSE LET required == IF i = 0 THEN p.default ELSE p.rules[i].needs IN
         [allowed |-> required \subseteq h, required |-> required, why |-> "scope"]

Check ==
    /\ phase = "check"
    /\ phase' = "done"
    /\ decision' = Decide(policy, method, held)
    /\ UNCHANGED <<policy, method, held>>

Next == ParseMethod \/ Check

Spec == Init /\ [][Next]_vars

-----------------------------------------------------------------------------
(* Properties.                                                             *)

\* Where a path leads when "", "." and ".." are resolved, as a server that
\* normalises paths would.
Normalize(m) ==
    FoldLeft(LAMBDA stack, s :
                IF s \in {"", "."} THEN stack
                ELSE IF s = ".." THEN (IF stack = <<>> THEN <<>> ELSE Front(stack))
                ELSE Append(stack, s),
             <<>>, m)

\* The rules that speak about a method, and the ones nothing overrides: an
\* exact rule, or else the longest prefix.
Speaking(m)  == {i \in DOMAIN policy.rules :
                    IsExact(policy.rules[i], m) \/ Covers(policy.rules[i], m)}
Deciding(m)  == {i \in Speaking(m) : \A j \in Speaking(m) :
                    Len(policy.rules[j].path) <= Len(policy.rules[i].path)}

Reached == phase = "done" /\ decision.why # "invalid_jsonrpc"

\* The decision is that of the most specific rule, in whatever order the file
\* lists them, and of the default only when no rule speaks (policy.py:111-137).
MostSpecificWins ==
    Reached =>
        IF Speaking(method) = {}
        THEN decision.allowed <=>
                /\ policy.default \subseteq held
                /\ policy.default # {} \/ ~policy.denyByDefault
        ELSE \A i \in Deciding(method) :
                /\ decision.required = policy.rules[i].needs
                /\ decision.allowed <=> policy.rules[i].needs \subseteq held

\* A decision holds for the method an upstream would see that resolves the literal
\* segments "", "." and "..", the only spellings the guard is about: percent-encoded
\* ones pass and are judged by the rule of their spelling (app.py:648-675).
SameAfterNormalizing ==
    Reached => decision = Decide(policy, Normalize(method), held)

=============================================================================
