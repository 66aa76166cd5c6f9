--------------------------- MODULE MCDrawAndShrink ---------------------------
(* A small instance of DrawAndShrink. *)
EXTENDS DrawAndShrink

MCCRNames == <<"a", "b">>
MCKinds == <<"kid">>
MCRefuses(old, new) == old = 2 /\ new = 4

Hold(fault) == [PlainOp("fault", NoKey) EXCEPT !.fault = fault]
FaultFor == Hold([op |-> 0, count |-> 0, for |-> 7, delay |-> 4])
FaultCount == Hold([op |-> 0, count |-> 5, for |-> 0, delay |-> 0])
FaultUntil(n) == Hold([op |-> n, count |-> 0, for |-> 0, delay |-> 0])
Gone(n) == [PlainOp("deleteFixture", "f") EXCEPT !.until = n]
Create(cr) == PlainOp("create", cr)
Loose(type, cr) == [PlainOp(type, cr) EXCEPT !.noSettle = TRUE]

MCGiven ==
    {Indexed(<<Create("a"), FaultFor, PlainOp("update", "a"), PlainOp("restart", NoKey), SettleOp>>),
     Indexed(<<FaultUntil(5), Loose("create", "a"), Gone(5), FaultCount, SettleOp>>),
     Indexed(<<Create("a"), Gone(4), FaultUntil(9), PlainOp("updateFixture", "g"),
               Loose("delete", "a"), SettleOp>>)}
=============================================================================
