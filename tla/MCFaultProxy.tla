---------------------------- MODULE MCFaultProxy ----------------------------
(***************************************************************************)
(* The proxy with a caller that may add, remove and clear faults at any    *)
(* time: one fault with no end of its own, one with a count and one with   *)
(* a duration.                                                             *)
(***************************************************************************)
EXTENDS FaultProxy

CONSTANTS r1, r2

\* Ends only when it is removed, and holds what it hits.
Delay == [match |-> Requests, fraction |-> FALSE, action |-> "delay", count |-> 0,
          for |-> 0, until |-> 1]

\* Ends on its first request.
ErrorOnce == [match |-> Requests, fraction |-> FALSE, action |-> "error", count |-> 1,
              for |-> 0, until |-> 0]

\* Ends one unit of time after it is added; spares some requests.
DropForOne == [match |-> {r1}, fraction |-> TRUE, action |-> "drop", count |-> 0,
               for |-> 1, until |-> 0]

AllSpecs == {Delay, ErrorOnce, DropForOne}

FairSpec == Spec /\ Fairness

=============================================================================
