-------------------------- MODULE MCFaultTimeline --------------------------
(***************************************************************************)
(* The faults TLC injects: one that only its op ends, one with a count and *)
(* one with a duration, delaying or answering, on all requests or a part.  *)
(***************************************************************************)
EXTENDS FaultTimeline

CONSTANTS r1, r2

Fault1(match, action, count, for, until) ==
    [match |-> match, fraction |-> FALSE, action |-> action, count |-> count,
     for |-> for, until |-> until]

\* Ends at op 1, holding what it hit.
DelayUntilOp == Fault1(Requests, "delay", 0, 0, 1)

\* Ends on its second request, or at op 1.
ErrorTwice == Fault1(Requests, "error", 2, 0, 1)

\* Ends one unit of time after it is added; spares some requests.
DelayForOne == [Fault1({r1}, "delay", 0, 1, 0) EXCEPT !.fraction = TRUE]

\* Ends at op 1, holding nothing.
DropUntilOp == Fault1({r2}, "drop", 0, 0, 1)

AllSpecs == {DelayUntilOp, ErrorTwice, DelayForOne, DropUntilOp}

=============================================================================
