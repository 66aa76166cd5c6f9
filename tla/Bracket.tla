------------------------------ MODULE Bracket ------------------------------
(***************************************************************************)
(* What bringing a run up and down promises: resources are acquired one on *)
(* top of the other and released once each, the last one first, and once   *)
(* the first is released nothing more is acquired.                         *)
(***************************************************************************)
EXTENDS Integers, Sequences

CONSTANT Resources

VARIABLES
    held,      \* the resources to release, in the order acquired
    closing    \* nothing more is acquired

Init == held = <<>> /\ closing = FALSE

Acquire(r) ==
    /\ ~closing
    /\ \A n \in DOMAIN held : held[n] # r
    /\ held' = Append(held, r) /\ UNCHANGED closing

Close == ~closing /\ closing' = TRUE /\ UNCHANGED held

Release ==
    /\ closing /\ held # <<>>
    /\ held' = SubSeq(held, 1, Len(held) - 1) /\ UNCHANGED closing

Next == (\E r \in Resources : Acquire(r)) \/ Close \/ Release

Spec == Init /\ [][Next]_<<held, closing>>
=============================================================================
