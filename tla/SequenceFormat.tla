--------------------------- MODULE SequenceFormat ---------------------------
(***************************************************************************)
(* The sequence of ops a run executes, and what makes one legal            *)
(* (internal/run/sequence.go).  An op is a record of                       *)
(*   i         its Index                                                   *)
(*   type      its type                                                    *)
(*   key       the CR a CR op acts on (crName), the fixture of a fixture   *)
(*             op, the kind of a deleteManaged; NoKey for none             *)
(*   noSettle  as in the code                                              *)
(*   until     the op that restores a deleted fixture; 0 for none          *)
(*   fault     [op, count, for, delay] of a fault op, NoFault otherwise;   *)
(*             op, count and for end it, and each is 0 where unset         *)
(* Indices count from 1 here and from 0 in the code.  The fields that      *)
(* carry objects and patches, and a fault's match and error code, are left *)
(* out: no op's legality depends on another op's.                          *)
(***************************************************************************)
EXTENDS Integers, Sequences, FiniteSetsExt, SequencesExt

CONSTANT NoKey

CROps == {"create", "update", "delete", "recreate"}
NamingOps == {"update", "delete", "recreate"}
MutatingOps == CROps \cup {"deleteManaged", "updateFixture"}
FixtureOps == {"updateFixture", "deleteFixture"}
OpTypes == MutatingOps \cup {"deleteFixture", "restart", "fault", "settle"}

NoFault == [op |-> 0, count |-> 0, for |-> 0, delay |-> 0]
PlainOp(type, key) ==
    [i |-> 0, type |-> type, key |-> key, noSettle |-> FALSE, until |-> 0, fault |-> NoFault]

\* The ops at their positions.
Indexed(ops) == [n \in DOMAIN ops |-> [ops[n] EXCEPT !.i = n]]

Settles(op) == op.type = "settle" \/ (~op.noSettle /\ op.type \in MutatingOps)

\* The first op from position n on that settles, 0 where none does.
NextSettling(ops, n) == SelectInSubSeq(ops, n, Len(ops), Settles)

-----------------------------------------------------------------------------

\* An op carries the fields its type takes and no other.
CarriesItsFields(op) ==
    /\ (op.key # NoKey) = (op.type \in CROps \cup FixtureOps \cup {"deleteManaged"})
    /\ (op.until # 0) => op.type = "deleteFixture"
    /\ (op.fault # NoFault) => op.type = "fault"
    /\ op.noSettle => op.type \in CROps

ValidOp(op, position) ==
    /\ op.type \in OpTypes
    /\ op.i = position
    /\ CarriesItsFields(op)
    /\ op.type = "fault" => op.fault.op = 0 \/ op.fault.op > position

\* The last deletion of the fixture before position n, 0 where there is none.
LastDeletion(ops, fixture, n) ==
    SelectLastInSubSeq(ops, 1, n - 1,
                       LAMBDA op : op.type = "deleteFixture" /\ op.key = fixture)

\* A deleted fixture comes back by the last op, and no op acts on it before.
ValidFixtures(ops) ==
    \A n \in DOMAIN ops : ops[n].type \in FixtureOps =>
        LET d == LastDeletion(ops, ops[n].key, n)
        IN  /\ d # 0 => n >= ops[d].until
            /\ ops[n].type = "deleteFixture" => ops[n].until > n /\ ops[n].until <= Len(ops)

\* Validate.
Valid(ops) ==
    /\ \A n \in DOMAIN ops : ValidOp(ops[n], n)
    /\ ops # <<>> /\ Settles(ops[Len(ops)])
    /\ ValidFixtures(ops)

\* The last op before n that created or deleted its CR, 0 where there is none.
LastFate(ops, cr, n) ==
    SelectLastInSubSeq(ops, 1, n - 1,
                       LAMBDA op : op.key = cr /\ op.type \in {"create", "recreate", "delete"})

\* checkCRs: each CR op finds its CR as its type needs it.  A create waits for
\* a delete before it to have settled.
ValidCRs(ops) ==
    \A n \in DOMAIN ops : ops[n].type \in CROps =>
        LET fate == LastFate(ops, ops[n].key, n)
            live == fate # 0 /\ ops[fate].type # "delete"
        IN  CASE ops[n].type = "create" ->
                    ~live /\ (fate # 0 => NextSettling(ops, fate) \in fate .. n - 1)
              [] ops[n].type = "recreate" -> fate # 0
              [] OTHER -> live
=============================================================================
