----------------------------- MODULE TraceFilter -----------------------------
(***************************************************************************)
(* Which transaction traces receive_traces publishes: the loop over the    *)
(* actions of a trace with its three tests and their early ends.  Of an    *)
(* action only the outcome of each test is kept: whether it is on the      *)
(* blacklist, whether its receiver and whether one of its authorizers is   *)
(* included.                                                               *)
(***************************************************************************)
EXTENDS Naturals, Sequences

CONSTANT MaxActions   \* bound: actions of a trace

VARIABLES
    options,  \* do_trace_blacklist, enable_rcvr_filter, enable_auth_filter
    trace,    \* the actions of the trace
    next,     \* index of the action the loop is at
    matched,  \* matched_blacklist, matched_rcvr_filter, matched_auth_filter
    verdict   \* "none" while the loop runs, "published", "dropped"

vars == <<options, trace, next, matched, verdict>>

Tests == [black : BOOLEAN, rcvr : BOOLEAN, auth : BOOLEAN]
NoMatch == [black |-> FALSE, rcvr |-> FALSE, auth |-> FALSE]

Init ==
    /\ options \in Tests
    /\ trace \in UNION {[1 .. k -> Tests] : k \in 0 .. MaxActions}
    /\ next = 1
    /\ matched = NoMatch
    /\ verdict = "none"

do_trace_filter == options.rcvr \/ options.auth

Found(f, act) == options[f] /\ act[f]

\* The first test that succeeds, in the order of the code, ends the loop.
FirstMatch(act) ==
    IF Found("black", act) THEN "black"
    ELSE IF Found("rcvr", act) THEN "rcvr"
    ELSE IF Found("auth", act) THEN "auth" ELSE "none"

Scanning ==
    /\ do_trace_filter \/ options.black
    /\ matched = NoMatch /\ next <= Len(trace)

CheckAction ==
    /\ verdict = "none" /\ Scanning
    /\ LET f == FirstMatch(trace[next])
       IN  matched' = IF f = "none" THEN matched ELSE [matched EXCEPT ![f] = TRUE]
    /\ next' = next + 1
    /\ UNCHANGED <<options, trace, verdict>>

Wanted == do_trace_filter => matched.rcvr \/ matched.auth

Decide ==
    /\ verdict = "none" /\ ~Scanning
    /\ verdict' = IF ~matched.black /\ Wanted THEN "published" ELSE "dropped"
    /\ UNCHANGED <<options, trace, next, matched>>

Next == CheckAction \/ Decide

Spec == Init /\ [][Next]_vars

-------------------------------------------------------------------------------
(* Properties.                                                               *)

\* No trace with an action on the blacklist is published (receive_traces).
BlacklistAbsolute ==
    verdict = "published" => \A i \in DOMAIN trace : ~Found("black", trace[i])
===============================================================================
