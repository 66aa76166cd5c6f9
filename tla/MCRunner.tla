------------------------------ MODULE MCRunner ------------------------------
(* Small instances of Runner: each of the ways to bring a run up with a      *)
(* sequence of one op, and each of the sequences, legal ones all, with one   *)
(* of those ways.                                                            *)
EXTENDS Runner

Create(cr) == PlainOp("create", cr)
Do(type) == PlainOp(type, "a")
SettleOp == PlainOp("settle", NoKey)
FaultUntil(op) == [PlainOp("fault", NoKey) EXCEPT !.fault = [NoFault EXCEPT !.op = op]]
WithoutFixture(f, until) == [PlainOp("deleteFixture", f) EXCEPT !.until = until]

Sequences1 ==
    {Indexed(ops) : ops \in
        {<<Create("a"), WithoutFixture("f", 4), WithoutFixture("g", 4), SettleOp>>,
         <<Create("a"), WithoutFixture("f", 3), PlainOp("updateFixture", "f"), SettleOp>>,
         <<Create("a"), FaultUntil(4), Do("recreate"), SettleOp>>,
         <<Create("a"), FaultUntil(0), Do("delete"), Create("a")>>,
         <<Create("a"), Do("delete"), Create("a")>>,
         <<PlainOp("updateFixture", "undeclared")>>,
         <<WithoutFixture("shared", 2), SettleOp>>,
         <<PlainOp("deleteManaged", "other")>>,
         <<[Create("a") EXCEPT !.noSettle = TRUE], Do("update"), PlainOp("restart", NoKey),
           PlainOp("deleteManaged", "kind"), Create("b")>>}}

\* The sequences with an op that is refused, and the op.
Refusals ==
    {[ops |-> Indexed(x[1]), at |-> x[2]] : x \in
        {<<<<FaultUntil(0), SettleOp>>, 1>>, <<<<PlainOp("updateFixture", "f")>>, 1>>,
         <<<<Create("a"), Do("recreate")>>, 2>>,
         <<<<[Create("a") EXCEPT !.noSettle = TRUE], Do("update")>>, 2>>}}

Shared == [own |-> FALSE, roles |-> FALSE, manager |-> FALSE]
MCRuns ==
    {[plan |-> Indexed(<<Create("a")>>), opts |-> o, refused |-> {}] :
        o \in {x \in [own : BOOLEAN, roles : BOOLEAN, manager : BOOLEAN] : ~(x.own /\ x.manager)}}
    \cup {[plan |-> ops, opts |-> Shared, refused |-> {}] : ops \in Sequences1}
    \cup {[plan |-> x.ops, opts |-> Shared, refused |-> {x.at}] : x \in Refusals}
=============================================================================
