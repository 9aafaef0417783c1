---------------------------- MODULE MCDecisions -----------------------------
(***************************************************************************)
(* The parts that keep no state between requests, side by side: start-up   *)
(* (the variables of Startup), scope policy, tool policy, scope claims,    *)
(* request parsing, token verification, audit logging and policy files.  A *)
(* behaviour exercises one of them, the subject, over all its small        *)
(* inputs; the variables of the others stay at a value that nothing looks  *)
(* at.  The five that were modelled last share the six slots.              *)
(***************************************************************************)
EXTENDS Startup

CONSTANTS
    MethodNames, Segments, ScopeNames, MaxSegments,     \* of ScopePolicy
    Tools, GroupValues, MaxPage,                        \* of ToolAuthorization
    MaxRules,                                           \* of both, and of PolicyFiles
    Letters, Space, Other, MaxLength, MaxItems,         \* of ScopeClaims
    MaxMembers,                                         \* of RequestParsing
    Control, Wide, MaxSubject,                          \* of TokenVerification
    MaxRuns,                                            \* of AuditLogging
    FileNames, FileMethods                              \* of PolicyFiles

ASSUME BoundsAssumption ==
    /\ MaxSegments \in Nat /\ MaxRules \in Nat /\ MaxMembers \in Nat
    /\ MaxLength \in Nat /\ MaxItems \in Nat

\* A scope-token has no space in it.
ASSUME SpaceAssumption == Space \notin Letters

VARIABLES
    subject,                                    \* which of them
    policy, method, held, step, decision,       \* of ScopePolicy
    toolPolicy, claim, page, listing, called,   \* of ToolAuthorization
    slot1, slot2, slot3, slot4, slot5, slot6    \* of the others

ScopeRules == INSTANCE ScopePolicy WITH
    phase <- step, Names <- MethodNames, Scopes <- ScopeNames
ToolRules  == INSTANCE ToolAuthorization WITH policy <- toolPolicy, Values <- GroupValues
Claim == INSTANCE ScopeClaims WITH
    claims <- slot1, phase <- slot2, result <- slot3, header <- slot4
Parsing == INSTANCE RequestParsing WITH
    body <- slot1, byTool <- slot2, stage <- slot3, parsed <- slot4, sent <- slot5
Token == INSTANCE TokenVerification WITH
    token <- slot1, cached <- slot2, stage <- slot3, subject <- slot4, wire <- slot5,
    Blank <- Space
Logging == INSTANCE AuditLogging WITH
    own <- slot1, level <- slot2, propagate <- slot3, root <- slot4, runs <- slot5,
    event <- slot6
PolicyFile == INSTANCE PolicyFiles WITH
    file <- slot1, state <- slot2, loaded <- slot3, Names <- FileNames,
    Methods <- FileMethods

\* What stands for an entry that has no usable name is not the name of a tool.
ASSUME ToolsAssumption == ToolRules!Junk \notin Tools

LettersDef     == {"a", "b"}
SpaceDef       == " "
OtherDef       == "!"
SegmentsDef    == {"a", "b", "", ".", ".."}
MethodNamesDef == {"a"}
ScopeNamesDef  == {"read", "invoke"}
ToolsDef       == {"read_file", "write_file"}
GroupValuesDef == {"staff", "admins"}
NumbersDef     == -1 .. 2
FileNamesDef   == {"read"}
FileMethodsDef == {"tools/list", "tools/call"}

scopeVars == <<policy, method, held, step, decision>>
toolVars  == <<toolPolicy, claim, page, listing, called>>
slots     == <<slot1, slot2, slot3, slot4, slot5, slot6>>

NotStarting ==
    /\ settings = "unused" /\ files = "unused" /\ phase = "none"
    /\ built = NothingBuilt /\ cause = "none"
NoScopes ==
    /\ policy = [rules |-> <<>>, default |-> {}, denyByDefault |-> TRUE]
    /\ method = <<>> /\ held = {} /\ step = "none"
    /\ decision = ScopeRules!NoDecision
NoTools ==
    /\ toolPolicy = [always |-> {}, rules |-> <<>>]
    /\ claim = [form |-> "absent", values |-> {}]
    /\ page = [envelope |-> "result", entries |-> <<>>]
    /\ listing = ToolRules!NotListed /\ called = ToolRules!NotCalled

Unused == "unused"
NoSlots ==
    /\ slot1 = Unused /\ slot2 = Unused /\ slot3 = Unused
    /\ slot4 = Unused /\ slot5 = Unused /\ slot6 = Unused

-----------------------------------------------------------------------------
(* The settings start-up is tried with: any switches with sound numbers,   *)
(* and any numbers with sound switches.                                    *)

Sound == [identity |-> TRUE, algorithms |-> {"asymmetric"}, requireAuth |-> TRUE,
          jwks |-> "https", allowInsecure |-> FALSE, scopeFile |-> TRUE, toolFile |-> TRUE,
          maxResponse |-> 2, maxList |-> 1, least |-> 0, shortest |-> 1, wellFormed |-> TRUE]

SettingsTried ==
    {[Sound EXCEPT !.identity = id, !.algorithms = algs, !.requireAuth = auth, !.jwks = url,
                   !.allowInsecure = insecure, !.scopeFile = scope, !.toolFile = tool,
                   !.wellFormed = ok] :
        id, auth, insecure, scope, tool, ok \in BOOLEAN,
        algs \in SUBSET {"asymmetric", "symmetric"},
        url \in {"none", "https", "loopback", "remote"}}
    \cup {[Sound EXCEPT !.maxResponse = response, !.maxList = list, !.least = l,
                        !.shortest = s] :
            response, list, l, s \in Numbers}

-----------------------------------------------------------------------------

SlotsInit ==
    \/ subject = "claims" /\ Claim!Init /\ slot5 = Unused /\ slot6 = Unused
    \/ subject = "parsing" /\ Parsing!Init /\ slot6 = Unused
    \/ subject = "token" /\ Token!Init /\ slot6 = Unused
    \/ subject = "logging" /\ Logging!Init
    \/ subject = "files" /\ PolicyFile!Init
                         /\ slot4 = Unused /\ slot5 = Unused /\ slot6 = Unused

DecisionsInit ==
    \/ /\ subject = "startup" /\ settings \in SettingsTried /\ Init
       /\ NoScopes /\ NoTools /\ NoSlots
    \/ subject = "scopes" /\ NotStarting /\ ScopeRules!Init /\ NoTools /\ NoSlots
    \/ subject = "tools" /\ NotStarting /\ NoScopes /\ ToolRules!Init /\ NoSlots
    \/ SlotsInit /\ NotStarting /\ NoScopes /\ NoTools

SlotsNext ==
    \/ subject = "claims" /\ Claim!Next /\ UNCHANGED <<slot5, slot6>>
    \/ subject = "parsing" /\ Parsing!Next /\ UNCHANGED slot6
    \/ subject = "token" /\ Token!Next /\ UNCHANGED slot6
    \/ subject = "logging" /\ Logging!Next
    \/ subject = "files" /\ PolicyFile!Next /\ UNCHANGED <<slot4, slot5, slot6>>

DecisionsNext ==
    /\ UNCHANGED subject
    /\ \/ subject = "startup" /\ Next /\ UNCHANGED <<scopeVars, toolVars, slots>>
       \/ subject = "scopes" /\ ScopeRules!Next /\ UNCHANGED <<vars, toolVars, slots>>
       \/ subject = "tools" /\ ToolRules!Next /\ UNCHANGED <<vars, scopeVars, slots>>
       \/ SlotsNext /\ UNCHANGED <<vars, scopeVars, toolVars>>

DecisionsSpec ==
    DecisionsInit /\ [][DecisionsNext]_<<subject, vars, scopeVars, toolVars, slots>>

-----------------------------------------------------------------------------

\* The properties of ScopePolicy (policy.py:111-137, app.py:648-672).
MostSpecificWins     == ScopeRules!MostSpecificWins
SameAfterNormalizing == ScopeRules!SameAfterNormalizing

\* The properties of ToolAuthorization (tool_policy.py:182-240,
\* tools_list.py:68-95, app.py:337-361).
CallsFollowGrant   == ToolRules!CallsFollowGrant
VisibleIffCallable == ToolRules!VisibleIffCallable
AuditedRuleGrants  == ToolRules!AuditedRuleGrants

\* The property of ScopeClaims (verifier.py:81-120, app.py:371-378).
SameScopesUpstream == subject = "claims" => Claim!SameScopesUpstream

\* The properties of RequestParsing (app.py:568-699).
EveryReaderAgrees    == subject = "parsing" => Parsing!EveryReaderAgrees
NothingReinterpreted == subject = "parsing" => Parsing!NothingReinterpreted

\* The property of TokenVerification (verifier.py:328-400).
IdentityArrives == subject = "token" => Token!IdentityArrives

\* The properties of AuditLogging (__main__.py:19-44, audit.py:52-133).
OneLineEach         == subject = "logging" => Logging!OneLineEach
ScopesOnlyOnRequest == subject = "logging" => Logging!ScopesOnlyOnRequest

\* The property of PolicyFiles (tool_policy.py:134-180, policy.py:76-109).
FilesAsWritten == subject = "files" => PolicyFile!FilesAsWritten

=============================================================================
