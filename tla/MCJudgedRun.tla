---------------------------- MODULE MCJudgedRun ----------------------------
(* Small instances of JudgedRun. *)
EXTENDS JudgedRun

\* A ready CR that is not being deleted has its managed object.
MCHolds(cr, managed) == cr = NoKey \/ cr.deleting \/ ~cr.ready \/ managed # {}

MCKidOf == [key \in PrimaryKeys |-> IF key = "a" THEN "ka" ELSE "kb"]

Op(type, key) == Sequence!PlainOp(type, key)
CreateA == Op("create", "a")
SettleOp == Op("settle", NoKey)
FaultOp == Op("fault", NoKey)
RestartOp == Op("restart", NoKey)

PromptOps ==
    {<<CreateA, FaultOp, Op("update", "a"), SettleOp>>,
     <<CreateA, FaultOp, Op("deleteManaged", "ka"), SettleOp>>,
     <<CreateA, RestartOp, Op("deleteManaged", "ka"), SettleOp>>,
     <<CreateA, RestartOp, SettleOp>>,
     <<CreateA, FaultOp, Op("delete", "a")>>,
     <<CreateA, Op("recreate", "a")>>,
     <<CreateA, Op("deleteFixture", NoKey), SettleOp>>,
     <<CreateA, Op("create", "b"), Op("delete", "a"), Op("delete", "b")>>,
     <<CreateA, FaultOp, Op("updateFixture", NoKey)>>}

\* Runs of a target that does as it likes.
LooseOps ==
    {<<CreateA, Op("recreate", "a"), SettleOp>>,
     <<CreateA, Op("delete", "a")>>,
     <<CreateA, FaultOp, Op("delete", "a")>>,
     <<CreateA, FaultOp, Op("update", "a")>>}

MCPlans ==
    {[ops |-> ops, prompt |-> TRUE, exits |-> 1] : ops \in PromptOps} \cup
    {[ops |-> ops, prompt |-> FALSE, exits |-> 0] : ops \in LooseOps}
=============================================================================
