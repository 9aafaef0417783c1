--------------------------- MODULE RequestParsing ---------------------------
(***************************************************************************)
(* From the bytes of a request to the bytes sent upstream: _parse_jsonrpc  *)
(* and its hooks, the check that a tools/call names its tool, and the body *)
(* that is forwarded (src/mcp_gateway/app.py).                             *)
(*                                                                         *)
(* A JSON object is the sequence of its members as written, so that a name *)
(* may occur twice; only the members method and params, and the name       *)
(* inside params, are told apart.  A text is one of a few that the code    *)
(* treats differently.                                                     *)
(***************************************************************************)
EXTENDS Integers, Sequences, SequencesExt

CONSTANTS
    Tools,          \* names of tools
    MaxMembers      \* bound on the members of an object

VARIABLES
    body,           \* what the client sent
    byTool,         \* whether a tool policy is configured
    stage,          \* how far the request has come
    parsed,         \* JsonRpcParse
    sent            \* the body forwarded upstream

vars == <<body, byTool, stage, parsed, sent>>

\* "relative" has an empty or relative segment, "long" is over
\* _MAX_IDENTIFIER_LEN, "other" is a value that is not a string.
Odd     == {"", "long", "other"}
Methods == {"tools/call", "ping", "relative"} \cup Odd
Names   == Tools \cup Odd
None    == "none"

\* The value of params: not an object, or an object with these names in it.
Params   == [object : {FALSE}, names : {<<>>}]
            \cup [object : {TRUE}, names : UNION {[1 .. n -> Names] : n \in 0 .. 2}]
NoParams == [object |-> FALSE, names |-> <<>>]
Members  == [key : {"method"}, text : Methods, params : {NoParams}]
            \cup [key : {"params"}, text : {None}, params : Params]
Objects(n) == UNION {[1 .. k -> Members] : k \in 0 .. n}

\* number: a NaN or Infinity, or a literal too large for a float, is somewhere
\* in it.  lone: a string in it has the escape of a lone surrogate.  deep: it is
\* nested beyond the recursion limit.
Plain(members) ==
    [shape |-> "object", encoding |-> "utf8", number |-> "finite",
     lone |-> FALSE, deep |-> FALSE, members |-> members]

NoBody == [Plain(<<>>) EXCEPT !.shape = "absent"]

\* A body with all the members the bound allows is otherwise plain.
Bodies ==
    {Plain(ms) : ms \in Objects(MaxMembers)}
    \cup [shape : {"object", "array", "scalar", "garbage"}, encoding : {"utf8", "utf16"},
          number : {"finite", "constant", "overflow"}, lone : BOOLEAN, deep : BOOLEAN,
          members : Objects(1)]

JsonRpcParse(error, method, tool) == [error |-> error, method |-> method, tool |-> tool]
NotParsed == JsonRpcParse(None, None, None)

Init ==
    /\ body \in Bodies
    /\ byTool \in BOOLEAN
    /\ stage = "load"
    /\ parsed = NotParsed
    /\ sent = NoBody

-----------------------------------------------------------------------------
(* What a reader of JSON makes of a body.  keeps says which of several     *)
(* members with the same name counts, "first" or "last".                   *)

Named(b, key)  == {i \in DOMAIN b.members : b.members[i].key = key}
Pick(keeps, S) == IF keeps = "first" THEN Min(S) ELSE Max(S)

MethodIn(b, keeps) ==
    LET at == Named(b, "method")
    IN  IF at = {} THEN None ELSE b.members[Pick(keeps, at)].text

ToolIn(b, keeps) ==
    LET at    == Named(b, "params")
        names == IF at = {} THEN <<>> ELSE b.members[Pick(keeps, at)].params.names
    IN  IF names = <<>> THEN None ELSE names[Pick(keeps, DOMAIN names)]

-----------------------------------------------------------------------------
(* _parse_jsonrpc.                                                         *)

Refuse(code) ==
    /\ stage' = "refused"
    /\ parsed' = JsonRpcParse(code, None, None)
    /\ UNCHANGED sent

\* Fault: only the outermost object is looked at.
RepeatsOutside(b) ==
    \E i, j \in DOMAIN b.members : i # j /\ b.members[i].key = b.members[j].key

\* _no_duplicate_keys runs for every object of the body.
Repeats(b) ==
    \/ \E i, j \in DOMAIN b.members : i # j /\ b.members[i].key = b.members[j].key
    \/ \E i \in DOMAIN b.members : Len(b.members[i].params.names) > 1

\* What json.loads and its hooks can raise; when there are several, the order
\* of the text decides which comes first.
Raised(b) ==
    {c \in {"invalid_json", "duplicate_json_key", "nonstandard_json_constant", "recursion"} :
        \/ c = "invalid_json" /\ b.shape = "garbage"
        \/ c = "duplicate_json_key" /\ Repeats(b)
        \/ c = "nonstandard_json_constant" /\ b.number = "constant"
        \/ c = "recursion" /\ b.deep}

\* RecursionError is none of the exceptions that are caught.
Load ==
    /\ stage = "load"
    /\ \/ Raised(body) = {} /\ stage' = "method" /\ UNCHANGED <<parsed, sent>>
       \/ \E c \in Raised(body) \ {"recursion"} : Refuse(c)
       \/ "recursion" \in Raised(body) /\ stage' = "crashed" /\ UNCHANGED <<parsed, sent>>
    /\ UNCHANGED <<body, byTool>>

ResolveMethod ==
    /\ stage = "method"
    /\ LET method == MethodIn(body, "last") IN
        IF body.shape = "array" THEN Refuse("batch_not_supported")
        ELSE IF body.shape # "object" \/ method \in {None, "", "other", "relative"}
             THEN Refuse("invalid_jsonrpc")
        ELSE IF method = "long" THEN Refuse("identifier_too_long")
        ELSE /\ stage' = "encode"
             /\ parsed' = JsonRpcParse(None, method, None)
             /\ UNCHANGED sent
    /\ UNCHANGED <<body, byTool>>

\* Fault: the bytes received are forwarded as they are.
CanonicalRaw(b) == b

\* json.dumps of the dictionaries json.loads has made, in UTF-8: a name once,
\* with its last value; an overflowed literal is float("inf") and is written as
\* the constant Infinity.
Canonical(b) ==
    LET Once(m) ==
            [key |-> m.key, text |-> m.text,
             params |-> [object |-> m.params.object,
                         names |-> IF m.params.names = <<>> THEN <<>>
                                   ELSE <<Last(m.params.names)>>]]
        Kept(at) == IF at = {} THEN <<>> ELSE <<Once(b.members[Max(at)])>>
    IN  [shape |-> b.shape, encoding |-> "utf8",
         number |-> IF b.number = "overflow" THEN "constant" ELSE b.number,
         lone |-> b.lone, deep |-> b.deep,
         members |-> Kept(Named(b, "method")) \o Kept(Named(b, "params"))]

\* A lone surrogate cannot be encoded, and nothing catches the exception.  The
\* canonical body is made here and forwarded later, when the request has passed.
Encode ==
    /\ stage = "encode"
    /\ stage' = IF body.lone THEN "crashed" ELSE "tool"
    /\ UNCHANGED <<body, byTool, parsed, sent>>

\* The tool of a tools/call; an empty or missing name is no name.
ResolveTool ==
    /\ stage = "tool"
    /\ LET tool == ToolIn(body, "last") IN
        IF parsed.method = "tools/call" /\ tool = "long" THEN Refuse("identifier_too_long")
        ELSE /\ stage' = "parsed"
             /\ parsed' = JsonRpcParse(None, parsed.method,
                    IF parsed.method = "tools/call" /\ tool \in Tools THEN tool ELSE None)
             /\ UNCHANGED sent
    /\ UNCHANGED <<body, byTool>>

\* A tools/call that a tool policy cannot judge is refused; what the policies
\* say is modelled in ScopePolicy and ToolAuthorization, here they allow it.
Forward ==
    /\ stage = "parsed"
    /\ IF byTool /\ parsed.method = "tools/call" /\ parsed.tool = None
       THEN Refuse("invalid_tool_call")
       ELSE stage' = "forwarded" /\ sent' = Canonical(body) /\ UNCHANGED parsed
    /\ UNCHANGED <<body, byTool>>

Next == Load \/ ResolveMethod \/ Encode \/ ResolveTool \/ Forward

Spec == Init /\ [][Next]_vars

-----------------------------------------------------------------------------
(* Properties.                                                             *)

Keeps == {"first", "last"}

\* "the upstream parses exactly what the gateway authorized" (app.py:608-610):
\* every server that reads UTF-8 can read what it is sent and executes the method
\* that was authorised and, when a tool policy judged a tool, that tool,
\* whichever of several members it would have believed.
EveryReaderAgrees ==
    stage = "forwarded" =>
        /\ sent.encoding = "utf8" /\ ~sent.lone
        /\ \A k \in Keeps :
            /\ MethodIn(sent, k) = parsed.method
            /\ byTool /\ parsed.method = "tools/call" => ToolIn(sent, k) = parsed.tool

\* Refused, never reinterpreted: a body is forwarded only when every reader
\* would have read in the client's bytes what it reads in the rewritten ones
\* (app.py:581-593).
NothingReinterpreted ==
    stage = "forwarded" =>
        \A k \in Keeps : /\ MethodIn(body, k) = MethodIn(sent, k)
                         /\ ToolIn(body, k) = ToolIn(sent, k)

\* Constants such as Infinity are refused so that no "non-standard tokens" get
\* into "the canonical body" and no strict upstream "rejects the whole request"
\* (app.py:571-576).
StrictReadersAccept == stage = "forwarded" => sent.number # "constant"

=============================================================================
