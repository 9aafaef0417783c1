------------------------- MODULE ToolAuthorization --------------------------
(***************************************************************************)
(* Which tools a caller may see and call: ToolPolicy                       *)
(* (src/mcp_gateway/tool_policy.py), the tools/list filter                 *)
(* (src/mcp_gateway/tools_list.py), and a caller that lists a page of      *)
(* tools and then calls one.                                               *)
(***************************************************************************)
EXTENDS Integers, Sequences, SequencesExt

CONSTANTS
    Tools,      \* tool names
    Values,     \* values of the entitlement claim, e.g. groups
    MaxRules,   \* bound on the rules of a policy
    MaxPage     \* bound on the entries of a tools/list page

VARIABLES policy, claim, page, listing, called

vars == <<policy, claim, page, listing, called>>

Rules    == [anyOf : (SUBSET Values) \ {{}}, tools : SUBSET Tools]
Policies == [always : SUBSET Tools,
             rules : UNION {[1 .. n -> Rules] : n \in 0 .. MaxRules}]

\* The claim in the token: missing, a string, a list, or anything else.  The
\* empty string and lists with other things than non-empty strings are junk.
Claims == [form : {"absent", "junk"}, values : {{}}]
          \cup [form : {"string"}, values : {{v} : v \in Values}]
          \cup [form : {"list"}, values : SUBSET Values]

\* A page: an envelope that is a result, an error or malformed, or nested so
\* deeply that json.loads, or only json.dumps, exceeds the recursion limit; and
\* entries that are tools, or Junk, which has no usable name.
Junk  == "no usable name"
Pages == [envelope : {"result", "error", "malformed", "unreadable", "unwritable"},
          entries : UNION {[1 .. n -> Tools \cup {Junk}] : n \in 0 .. MaxPage}]

NotListed == [ok |-> FALSE, raised |-> FALSE, kept |-> <<>>, filtered |-> 0]
Raised    == [NotListed EXCEPT !.raised = TRUE]
NotCalled == [tool |-> Junk, status |-> "none", rule |-> 0]

Init ==
    /\ policy \in Policies
    /\ claim \in Claims
    /\ page \in Pages
    /\ listing = NotListed
    /\ called = NotCalled

-----------------------------------------------------------------------------
(* ToolPolicy.check.                                                       *)

\* _claim_values: the values, or none when there is a problem.
Usable(c)      == c.form \in {"string", "list"}
ClaimValues(c) == IF Usable(c) THEN c.values ELSE {}

\* Rules that apply to the values and name the tool; the loop takes the first.
Granting(p, tool, c) ==
    {i \in DOMAIN p.rules :
        p.rules[i].anyOf \cap ClaimValues(c) # {} /\ tool \in p.rules[i].tools}

First(S) == CHOOSE i \in S : \A j \in S : i <= j

\* Fault: the first rule that applies decides, whether it names the tool or not.
CheckFirstRule(p, tool, c) ==
    LET applying == {i \in DOMAIN p.rules : p.rules[i].anyOf \cap ClaimValues(c) # {}} IN
    IF tool \in p.always THEN [allowed |-> TRUE, rule |-> 0]
    ELSE IF applying = {} THEN [allowed |-> FALSE, rule |-> 0]
    ELSE [allowed |-> tool \in p.rules[First(applying)].tools, rule |-> First(applying)]

\* Fault: the rule on record is the first that applies, not the one that grants.
CheckAuditsFirst(p, tool, c) ==
    LET applying == {i \in DOMAIN p.rules : p.rules[i].anyOf \cap ClaimValues(c) # {}}
        allowed  == tool \in p.always \/ Granting(p, tool, c) # {}
    IN  [allowed |-> allowed,
         rule |-> IF allowed /\ tool \notin p.always THEN First(applying) ELSE 0]

\* The decision, and the rule it is audited under, 0 for [unconditional].
ToolCheck(p, tool, c) ==
    IF tool \in p.always THEN [allowed |-> TRUE, rule |-> 0]
    ELSE LET granting == Granting(p, tool, c) IN
         IF granting = {} THEN [allowed |-> FALSE, rule |-> 0]
         ELSE [allowed |-> TRUE, rule |-> First(granting)]

-----------------------------------------------------------------------------
(* filter_tools_list and the tools/call block of proxy_mcp.                *)

Kept(p, entries, c) ==
    FoldLeft(LAMBDA seen, e : IF ToolCheck(p, e, c).allowed THEN Append(seen, e) ELSE seen,
             <<>>, entries)

\* One entry that cannot be judged refuses the whole page.  The RecursionError of
\* json is none of the exceptions that are turned into a refusal.
Filter(p, pg, c) ==
    IF pg.envelope = "unreadable" THEN Raised
    ELSE IF pg.envelope \in {"error", "malformed"} \/ Junk \in Range(pg.entries)
         THEN NotListed
    ELSE IF pg.envelope = "unwritable" THEN Raised
    ELSE [ok |-> TRUE, raised |-> FALSE, kept |-> Kept(p, pg.entries, c),
          filtered |-> Len(pg.entries) - Len(Kept(p, pg.entries, c))]

List ==
    /\ listing = NotListed
    /\ listing' = Filter(policy, page, claim)
    /\ UNCHANGED <<policy, claim, page, called>>

\* Fault: a call without a tool name is judged by the policy's empty answer.
CallUnnamedAllowed(tool) ==
    /\ called' = [tool |-> tool, rule |-> 0,
                  status |-> IF tool = Junk \/ ToolCheck(policy, tool, claim).allowed
                             THEN "forwarded" ELSE "tool_not_allowed"]
    /\ UNCHANGED <<policy, claim, page, listing>>

Call(tool) ==
    /\ called' =
         IF tool = Junk THEN [tool |-> tool, status |-> "invalid_tool_call", rule |-> 0]
         ELSE LET d == ToolCheck(policy, tool, claim) IN
              [tool |-> tool, rule |-> d.rule,
               status |-> IF d.allowed THEN "forwarded" ELSE "tool_not_allowed"]
    /\ UNCHANGED <<policy, claim, page, listing>>

Next == List \/ \E tool \in Tools \cup {Junk} : Call(tool)

Spec == Init /\ [][Next]_vars

-----------------------------------------------------------------------------
(* Properties.                                                             *)

\* The grant, as the documentation of the policy states it: the unconditional
\* list and the tools of every rule that shares a value with the claim.
Grant ==
    policy.always \cup UNION {policy.rules[i].tools : i \in
        {j \in DOMAIN policy.rules : Usable(claim) /\ policy.rules[j].anyOf \cap claim.values # {}}}

\* A call goes through exactly when the tool is in the grant; nothing without a
\* name does (tool_policy.py:182-240, app.py:337-361).
CallsFollowGrant == called.status = "forwarded" <=> called.tool \in Grant

\* What a caller is shown it can call, and what it can call of the page it is
\* shown, in the order of the page and with nothing lost from the count
\* (tools_list.py:68-95).
VisibleIffCallable ==
    listing.ok =>
        /\ Range(listing.kept) = Range(page.entries) \cap Grant
        /\ \A i, j \in DOMAIN listing.kept : i < j =>
              \E p, q \in DOMAIN page.entries :
                p < q /\ page.entries[p] = listing.kept[i] /\ page.entries[q] = listing.kept[j]
        /\ Len(listing.kept) + listing.filtered = Len(page.entries)

\* The rule a call is audited under is one that grants the tool to this caller
\* (tool_policy.py:72-75, 221-227).
AuditedRuleGrants ==
    called.status = "forwarded" =>
        \/ called.rule = 0 /\ called.tool \in policy.always
        \/ called.rule # 0 /\ called.rule \in Granting(policy, called.tool, claim)

=============================================================================
