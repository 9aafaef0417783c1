------------------------------ MODULE Startup -------------------------------
(***************************************************************************)
(* From the environment to a gateway that serves: main and build           *)
(* (src/mcp_gateway/__main__.py), validate_runtime                         *)
(* (src/mcp_gateway/config.py), from_file of both policies (policy.py,     *)
(* tool_policy.py) and the constructor of JwksVerifier (verifier.py).      *)
(*                                                                         *)
(* Policy files are on disk and may change between the check that they     *)
(* exist and their being read.                                             *)
(***************************************************************************)
EXTENDS Integers

CONSTANT Numbers    \* the values numeric settings may have

VARIABLES
    settings,   \* what the environment says
    files,      \* what is at the path of each policy file now
    phase,      \* what build does next, or how it ended
    built,      \* what has been built
    cause       \* what raised the exception main does not catch

vars == <<settings, files, phase, built, cause>>

\* identity: issuer and audience are not blank.  least: the smallest of the
\* settings that may be zero but not negative (cache TTL, refresh interval,
\* leeway, request limit); shortest: the smallest of the timeouts that are set.
\* wellFormed: port, origins and base URL.  jwks: no URL, or its scheme and host.
Settings ==
    [identity : BOOLEAN, algorithms : SUBSET {"asymmetric", "symmetric"},
     requireAuth : BOOLEAN, jwks : {"none", "https", "loopback", "remote"},
     allowInsecure : BOOLEAN, scopeFile : BOOLEAN, toolFile : BOOLEAN,
     maxResponse : Numbers, maxList : Numbers, least : Numbers, shortest : Numbers,
     wellFormed : BOOLEAN]

\* invalid: not JSON, or rejected by from_file.
Contents == {"missing", "invalid", "valid"}
Files    == [scope : Contents, tool : Contents]

NothingBuilt == [scope |-> "none", tool |-> "none", verifier |-> FALSE]

Init ==
    /\ settings \in Settings
    /\ files \in Files
    /\ phase = "load"
    /\ built = NothingBuilt
    /\ cause = "none"

-----------------------------------------------------------------------------

Crash(what) == phase' = "crashed" /\ cause' = what
Continue(p) == phase' = p /\ UNCHANGED cause

\* Settings(): a variable that does not parse raises a ValidationError.
Load ==
    /\ phase = "load"
    /\ Crash("settings") \/ Continue("validate")
    /\ UNCHANGED <<settings, files, built>>

BadAlgorithms(s) == s.algorithms = {} \/ "symmetric" \in s.algorithms

LimitsCross(s) == s.maxResponse > 0 /\ s.maxList >= s.maxResponse

\* The conditions of validate_runtime, each TRUE when it makes a problem.
Violated(s, f) ==
    [identity   |-> ~s.identity,
     algorithms |-> BadAlgorithms(s),
     noJwks     |-> s.requireAuth /\ s.jwks = "none",
     plainJwks  |-> s.requireAuth /\ s.jwks \in {"loopback", "remote"} /\ ~s.allowInsecure,
     remoteJwks |-> s.requireAuth /\ s.jwks = "remote" /\ s.allowInsecure,
     scopeFile  |-> s.scopeFile /\ f.scope = "missing",
     toolFile   |-> s.toolFile /\ f.tool = "missing",
     numbers    |-> s.least < 0 \/ s.shortest <= 0 \/ s.maxResponse < 0 \/ s.maxList <= 0,
     limits     |-> LimitsCross(s),
     addresses  |-> ~s.wellFormed]

Problems(s, f) == {p \in DOMAIN Violated(s, f) : Violated(s, f)[p]}

\* Any problem raises ConfigError, which main turns into a message and exit 2.
Validate ==
    /\ phase = "validate"
    /\ IF Problems(settings, files) = {} THEN Continue("scopePolicy") ELSE Continue("refused")
    /\ UNCHANGED <<settings, files, built>>

\* ScopePolicy.from_file, or the builtin policy when no file is named.
ReadScopePolicy ==
    /\ phase = "scopePolicy"
    /\ IF settings.scopeFile /\ files.scope # "valid"
       THEN Crash("policy") /\ UNCHANGED built
       ELSE /\ Continue("toolPolicy")
            /\ built' = [built EXCEPT !.scope = IF settings.scopeFile THEN "file" ELSE "builtin"]
    /\ UNCHANGED <<settings, files>>

\* Fault: a tool policy file that is not there is as good as none.
ReadToolPolicyIfThere ==
    /\ phase = "toolPolicy"
    /\ IF settings.toolFile /\ files.tool = "invalid"
       THEN Crash("policy") /\ UNCHANGED built
       ELSE /\ Continue("verifier")
            /\ built' = [built EXCEPT !.tool = IF settings.toolFile /\ files.tool = "valid"
                                               THEN "file" ELSE "none"]
    /\ UNCHANGED <<settings, files>>

\* ToolPolicy.from_file, or no tool policy when no file is named.
ReadToolPolicy ==
    /\ phase = "toolPolicy"
    /\ IF settings.toolFile /\ files.tool # "valid"
       THEN Crash("policy") /\ UNCHANGED built
       ELSE /\ Continue("verifier")
            /\ built' = [built EXCEPT !.tool = IF settings.toolFile THEN "file" ELSE "none"]
    /\ UNCHANGED <<settings, files>>

Unverifiable(algorithms) == algorithms = {} \/ "symmetric" \in algorithms

\* The constructor of JwksVerifier has the rule on algorithms once more; it is
\* given str(jwks_url), which is never empty.
BuildVerifier ==
    /\ phase = "verifier"
    /\ IF settings.requireAuth /\ Unverifiable(settings.algorithms)
       THEN Crash("verifier") /\ UNCHANGED built
       ELSE /\ Continue("serving")
            /\ built' = [built EXCEPT !.verifier = settings.requireAuth]
    /\ UNCHANGED <<settings, files>>

\* Somebody writes, breaks, repairs or removes a policy file.
FileChanges ==
    /\ phase \notin {"serving", "refused", "crashed"}
    /\ files' \in Files
    /\ UNCHANGED <<settings, phase, built, cause>>

Next ==
    \/ Load \/ Validate \/ ReadScopePolicy \/ ReadToolPolicy \/ BuildVerifier
    \/ FileChanges

Spec == Init /\ [][Next]_vars

-----------------------------------------------------------------------------
(* Properties.                                                             *)

\* A gateway that serves enforces what its settings ask for, whatever happened
\* to the files meanwhile: no "misconfiguration that silently weakens
\* enforcement" (docs/THREAT-MODEL.md; __main__.py:54-79).
NoSilentWeakening ==
    phase = "serving" =>
        /\ built.scope = "file" <=> settings.scopeFile
        /\ built.tool = "file" <=> settings.toolFile
        /\ built.verifier <=> settings.requireAuth
        /\ settings.requireAuth =>
              /\ ~Unverifiable(settings.algorithms)
              /\ settings.jwks = "https" \/ (settings.jwks = "loopback" /\ settings.allowInsecure)

\* What the other modules assume of a running gateway's limits and intervals
\* (ProxyAssumption, JwksAssumption) is what start-up has made sure of
\* (config.py:187-222).
ServesWithinAssumptions ==
    phase = "serving" =>
        /\ settings.maxResponse >= 0 /\ settings.least >= 0
        /\ settings.maxList > 0
        /\ settings.maxResponse > 0 => settings.maxList < settings.maxResponse

\* "the operator gets a clean config error instead of a constructor traceback
\* at build time" (config.py:133-135): what the verifier refuses, the
\* configuration has refused before it (verifier.py:144-147).
NoConstructorTraceback == cause # "verifier"

=============================================================================
