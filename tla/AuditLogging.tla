---------------------------- MODULE AuditLogging ----------------------------
(***************************************************************************)
(* Where audit events end up: configure_audit_logging                      *)
(* (src/mcp_gateway/__main__.py) prepares the audit logger, emit and       *)
(* emit_stream_event (src/mcp_gateway/audit.py) write to it.  Python's     *)
(* logging decides by levels, handlers and propagation how many lines an   *)
(* event becomes; an operator may have configured the logger, or the root  *)
(* logger, before or may do so later.                                      *)
(***************************************************************************)
EXTENDS Integers

CONSTANT MaxRuns    \* bound on the calls of configure_audit_logging

VARIABLES
    own,            \* number of handlers of the audit logger
    level,          \* its level
    propagate,      \* whether it passes events on to the root logger
    root,           \* the root logger: number of handlers and level
    runs,           \* calls of configure_audit_logging so far
    event           \* the last event, while nothing was configured since, and its lines

vars == <<own, level, propagate, root, runs, event>>

NOTSET  == 0
DEBUG   == 10
INFO    == 20
WARNING == 30

\* The endings emit and emit_stream_event are called for.
Decisions == {"allowed", "denied", "rejected", "error"}
Results   == {"completed", "client_disconnected", "upstream_read_error",
              "truncated_response_too_large"}
NoEvent   == [what |-> "none", lines |-> 0, scopes |-> FALSE]

Init ==
    /\ own \in 0 .. 1 /\ level \in {NOTSET, DEBUG, INFO, WARNING}
    /\ propagate \in BOOLEAN
    /\ root \in [handlers : 0 .. 1, level : {DEBUG, WARNING}]
    /\ runs = 0
    /\ event = NoEvent

-----------------------------------------------------------------------------

\* Faults: the logger still propagates; its level is left as it is.
ConfigurePropagating ==
    /\ runs < MaxRuns
    /\ runs' = runs + 1
    /\ own' = IF own = 0 THEN 1 ELSE own
    /\ level' = IF level = NOTSET THEN INFO ELSE level
    /\ event' = NoEvent
    /\ UNCHANGED <<propagate, root>>
ConfigureKeepingLevel ==
    /\ runs < MaxRuns
    /\ runs' = runs + 1
    /\ own' = IF own = 0 THEN 1 ELSE own
    /\ propagate' = FALSE
    /\ event' = NoEvent
    /\ UNCHANGED <<level, root>>

\* configure_audit_logging: an operator's handler and level are left alone.
Configure ==
    /\ runs < MaxRuns
    /\ runs' = runs + 1
    /\ own' = IF own = 0 THEN 1 ELSE own
    /\ level' = IF level = NOTSET THEN INFO ELSE level
    /\ propagate' = FALSE
    /\ event' = NoEvent
    /\ UNCHANGED root

\* What a decision or the end of a stream is logged as.
Severity(what) ==
    IF what \in {"denied", "rejected", "error", "truncated_response_too_large"}
    THEN WARNING ELSE INFO

EffectiveLevel == IF level = NOTSET THEN root.level ELSE level

\* Without any handler logging writes warnings to stderr and drops the rest.
Lines(severity) ==
    LET reached == own + (IF propagate THEN root.handlers ELSE 0) IN
    IF severity < EffectiveLevel THEN 0
    ELSE IF reached > 0 THEN reached
    ELSE IF severity >= WARNING THEN 1 ELSE 0

\* The scope values go into the line when the logger is enabled for DEBUG.
Emit(what) ==
    /\ event' = [what |-> what, lines |-> Lines(Severity(what)),
                 scopes |-> EffectiveLevel <= DEBUG]
    /\ UNCHANGED <<own, level, propagate, root, runs>>

\* The root logger is somebody else's, at any time.
RootChanges ==
    /\ root' \in [handlers : 0 .. 1, level : {DEBUG, WARNING}]
    /\ event' = NoEvent
    /\ UNCHANGED <<own, level, propagate, runs>>

Next ==
    \/ Configure
    \/ \E what \in Decisions \cup Results : Emit(what)
    \/ RootChanges

Spec == Init /\ [][Next]_vars

-----------------------------------------------------------------------------
(* Properties.                                                             *)

\* Once the entry point has run, an event is one line: none is dropped unless an
\* operator asked for warnings only, and none is written twice, however often
\* the entry point runs and whatever the root logger does
\* (__main__.py:20-34, 42-44).
OneLineEach ==
    runs > 0 /\ event.what # "none"
        => event.lines = IF level = WARNING /\ Severity(event.what) = INFO THEN 0 ELSE 1

\* Scope values are written only when somebody raised this very logger to DEBUG;
\* a root logger at DEBUG does not do it (audit.py:8-11, __main__.py:40-41).
ScopesOnlyOnRequest == runs > 0 /\ event.scopes => level = DEBUG

=============================================================================
