---------------------------- MODULE PolicyFiles -----------------------------
(***************************************************************************)
(* From a policy file to the policy in force: ToolPolicy.from_file and     *)
(* _string_list (src/mcp_gateway/tool_policy.py) and ScopePolicy.from_file *)
(* (src/mcp_gateway/policy.py).  What from_file rejects is "invalid" in    *)
(* Startup; the policies it makes are those ScopePolicy and                *)
(* ToolAuthorization decide with.                                          *)
(*                                                                         *)
(* A field of the file is a list, a bare string, another JSON value, null, *)
(* or not there.                                                           *)
(***************************************************************************)
EXTENDS Integers, Sequences

CONSTANTS
    Names,      \* names of tools, values of claims, scopes
    Letters,    \* the characters names are made of, none of them a name
    Methods,    \* methods and prefixes that have rules
    MaxRules    \* bound on the rules of a file

VARIABLES
    file,       \* what the file says
    state,      \* "unread", "loaded" or "refused"
    loaded      \* the policy made of it

vars == <<file, state, loaded>>

\* Elements of lists: names, the empty string, and what is not a string.
Empty    == ""
NotText  == "not text"
Elements == Names \cup {Empty, NotText}

Fields == [form : {"list"}, elements : SUBSET Elements]
          \cup [form : {"bare"}, elements : {{n} : n \in Names}]
          \cup [form : {"other", "null", "absent"}, elements : {{}}]
Absent == [form |-> "absent", elements |-> {}]

\* sound: an object without unknown keys whose name, if any, is a text.
ToolRules == [sound : BOOLEAN, any_of : Fields, allowed_tools : Fields]

\* sound: an object without unknown keys, and rules is a list.  claim is a text,
\* something else or not there.
ToolFiles ==
    [kind : {"tool"}, sound : BOOLEAN, claim : {"text", "other", "absent"},
     allowed_tools : Fields, rules : {<<>>} \cup {<<r>> : r \in ToolRules}]
    \cup [kind : {"tool"}, sound : {TRUE}, claim : {"absent"}, allowed_tools : {Absent},
          rules : UNION {[1 .. n -> ToolRules] : n \in 2 .. MaxRules}]

\* sound: an object, and rules is one too; unknown keys are not looked for.
\* rules is what the text says, member by member; a method may occur twice.
ScopeRules == [method : Methods, scopes : Fields \ {Absent}]
ScopeFiles ==
    [kind : {"scope"}, sound : BOOLEAN, default : Fields,
     deny_by_default : {"true", "false", "other", "absent"},
     rules : UNION {[1 .. n -> ScopeRules] : n \in 0 .. MaxRules}]

Nothing == [claim |-> "none", allowed_tools |-> {}, default |-> {},
            denyByDefault |-> TRUE, rules |-> <<>>]

Init ==
    /\ file \in ToolFiles \cup ScopeFiles
    /\ state = "unread"
    /\ loaded = Nothing

-----------------------------------------------------------------------------

Refuse == state' = "refused" /\ UNCHANGED <<file, loaded>>
Make(policy) == state' = "loaded" /\ loaded' = policy /\ UNCHANGED file

\* frozenset(raw): the elements of a list, the characters of a text.
AsSet(f) == IF f.form = "bare" THEN Letters ELSE f.elements

\* Fault: whatever can be iterated over is taken.
IsStringListLoose(f) == f.form \in {"list", "bare"} /\ f.elements \subseteq Names

\* _string_list: a list of non-empty strings.
IsStringList(f) == f.form = "list" /\ f.elements \subseteq Names

\* data.get(key, []) for a field that may be missing.
Given(f) == IF f = Absent THEN [form |-> "list", elements |-> {}] ELSE f

RuleSound(r) ==
    /\ r.sound
    /\ IsStringList(r.any_of) /\ r.any_of.elements # {}
    /\ IsStringList(r.allowed_tools)

\* One bad rule refuses the file.
LoadToolPolicy ==
    /\ state = "unread" /\ file.kind = "tool"
    /\ IF /\ file.sound /\ file.claim # "other"
          /\ IsStringList(Given(file.allowed_tools))
          /\ \A i \in DOMAIN file.rules : RuleSound(file.rules[i])
       THEN Make([Nothing EXCEPT
                    !.claim = IF file.claim = "absent" THEN "groups" ELSE "named",
                    !.allowed_tools = AsSet(Given(file.allowed_tools)),
                    !.rules = [i \in DOMAIN file.rules |->
                                  [any_of |-> AsSet(file.rules[i].any_of),
                                   allowed_tools |-> AsSet(file.rules[i].allowed_tools)]]])
       ELSE Refuse

\* Fault: the first of several members with one name stays.
MembersFirst(rules) ==
    [m \in {rules[i].method : i \in DOMAIN rules} |->
        LET first == CHOOSE i \in DOMAIN rules :
                        rules[i].method = m /\ \A j \in 1 .. i - 1 : rules[j].method # m
        IN rules[first].scopes]

\* json.load: of several members with one name the last stays, in a dictionary.
Members(rules) ==
    [m \in {rules[i].method : i \in DOMAIN rules} |->
        LET last == CHOOSE i \in DOMAIN rules :
                       rules[i].method = m /\ \A j \in DOMAIN rules : j > i => rules[j].method # m
        IN rules[last].scopes]

\* A list of strings, the empty one among them.
Scopes(f) == [ok |-> f.form = "list" /\ NotText \notin f.elements, scopes |-> AsSet(f)]

\* What is looked at, and can be refused, is what json.load has left.
LoadScopePolicy ==
    /\ state = "unread" /\ file.kind = "scope"
    /\ LET rules == Members(file.rules) IN
       IF /\ file.sound /\ file.deny_by_default # "other"
          /\ \A m \in DOMAIN rules : Scopes(rules[m]).ok
          /\ Scopes(Given(file.default)).ok
       THEN Make([Nothing EXCEPT
                    !.default = Scopes(Given(file.default)).scopes,
                    !.denyByDefault = file.deny_by_default # "false",
                    !.rules = [m \in DOMAIN rules |-> Scopes(rules[m]).scopes]])
       ELSE Refuse

Next == LoadToolPolicy \/ LoadScopePolicy

Spec == Init /\ [][Next]_vars

-----------------------------------------------------------------------------
(* Properties.                                                             *)

\* What one field of the file says to a person, nothing when it says nothing.
Written(f) == IF f.form \in {"bare", "list"} THEN f.elements ELSE {}

\* A tool policy in force has every rule of its file, in its order, and grants
\* exactly the names written there; no text is taken apart into letters and no
\* rule applies to everybody (tool_policy.py:148-180, 249-261).
ToolRulesAsWritten ==
    /\ loaded.allowed_tools = Written(file.allowed_tools)
    /\ DOMAIN loaded.rules = DOMAIN file.rules
    /\ \A i \in DOMAIN file.rules :
        /\ loaded.rules[i].any_of = Written(file.rules[i].any_of)
        /\ loaded.rules[i].any_of # {}
        /\ loaded.rules[i].allowed_tools = Written(file.rules[i].allowed_tools)
        /\ loaded.rules[i].allowed_tools \subseteq Names

\* A scope policy in force has a rule for each method its file names, and asks for
\* every scope that the file writes down for it the last time, and by default; a
\* rule that is not understood is never a rule that asks for nothing. An earlier
\* rule for the same method is gone, understood or not (policy.py:79-109).
ScopeRulesAsWritten ==
    /\ loaded.default = Written(file.default)
    /\ DOMAIN loaded.rules = {file.rules[i].method : i \in DOMAIN file.rules}
    /\ \A i \in DOMAIN file.rules :
        LET m == file.rules[i].method
            f == file.rules[i].scopes
        IN \/ \E j \in DOMAIN file.rules : j > i /\ file.rules[j].method = m
           \/ /\ loaded.rules[m] = Written(f)
              /\ loaded.rules[m] = {} => f.form = "list"

\* What is in force is what the file says, or the file is refused
\* (tool_policy.py:134-180, policy.py:76-109).
FilesAsWritten ==
    state = "loaded" =>
        IF file.kind = "tool" THEN ToolRulesAsWritten ELSE ScopeRulesAsWritten

=============================================================================
