-------------------------- MODULE UpstreamExchange --------------------------
(***************************************************************************)
(* What a proxied request promises, whoever looks at it: one connection to *)
(* the upstream at most, opened once and closed when the request is over;  *)
(* one decision, never changed; nothing of the response passed on before   *)
(* the decision is on record, and nothing at all after a refusal.          *)
(* An exception that nobody catches ends it otherwise: nothing is passed   *)
(* on, and what may be missing is the decision, or, when it is "allowed",  *)
(* the end of the connection, which is left to the garbage collector.      *)
(* McpProxy, which has one request in all its detail, and UpstreamPool,    *)
(* which has many that share their connections, both implement it.         *)
(***************************************************************************)

VARIABLES
    conn,       \* "none", "open" or "closed"
    decision,   \* "none", "allowed" or "refused": what has been recorded
    passed,     \* something of the response has been passed on
    over,       \* the request has ended
    crashed     \* by an exception

vars == <<conn, decision, passed, over, crashed>>

Init ==
    /\ conn = "none" /\ decision = "none"
    /\ passed = FALSE /\ over = FALSE /\ crashed = FALSE

\* Refused without the upstream, or by its failure or its headers; or ended
\* before a connection was opened, without a decision.
End ==
    /\ ~over /\ conn = "none"
    /\ over' = TRUE
    /\ \/ decision' = "none" /\ conn' = "none"
       \/ decision' = "refused" /\ conn' \in {"none", "closed"}
    /\ UNCHANGED <<passed, crashed>>

\* The response begins: it is held back, or allowed.
Begin ==
    /\ ~over /\ conn = "none"
    /\ conn' = "open"
    /\ decision' \in {"none", "allowed"}
    /\ UNCHANGED <<passed, over, crashed>>

Pass ==
    /\ conn = "open" /\ decision = "allowed" /\ ~over
    /\ passed' = TRUE
    /\ UNCHANGED <<conn, decision, over, crashed>>

\* A response that was held back is passed on whole, or not at all.
Settle ==
    /\ conn = "open" /\ decision = "none"
    /\ decision' \in {"allowed", "refused"}
    /\ passed' = (decision' = "allowed")
    /\ conn' = "closed" /\ over' = TRUE
    /\ UNCHANGED crashed

Finish ==
    /\ conn = "open" /\ decision = "allowed" /\ ~over
    /\ conn' = "closed" /\ over' = TRUE
    /\ UNCHANGED <<decision, passed, crashed>>

\* An exception that nobody catches: before the request is sent; where a response
\* that was held back is judged, or made after it was allowed; or where a response
\* is made that was allowed at once, whose connection then nobody closes.
Break ==
    /\ ~over /\ ~passed
    /\ \/ conn = "none" /\ conn' = "none" /\ decision' = decision
       \/ conn = "open" /\ decision = "none" /\ conn' = "closed"
          /\ decision' \in {"none", "allowed"}
       \/ conn = "none" /\ conn' = "open" /\ decision' = "allowed"
    /\ over' = TRUE /\ crashed' = TRUE
    /\ UNCHANGED passed

\* The garbage collector closes a connection that was left behind.
Collect ==
    /\ crashed /\ conn = "open"
    /\ conn' = "closed"
    /\ UNCHANGED <<decision, passed, over, crashed>>

Next == End \/ Begin \/ Pass \/ Settle \/ Finish \/ Break \/ Collect

Spec == Init /\ [][Next]_vars

=============================================================================
