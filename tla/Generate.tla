------------------------------ MODULE Generate ------------------------------
(***************************************************************************)
(* How a sequence is drawn (internal/generate/generate.go, faults.go,      *)
(* baseline.go): one op at a time, each legal in the state the ops before  *)
(* it leave; then settle waits are put in (checkpointed), and at most one  *)
(* fault (faulted).                                                        *)
(*                                                                         *)
(* Of a CR, the value at its one mutable and distinct path is kept: the    *)
(* n-th CR's base holds n, and 0 is the field left out.                    *)
(***************************************************************************)
EXTENDS SequenceFormat

CONSTANTS
    MaxOps,      \* Options.MaxOps
    CRNames,     \* the names of the CRs in order; its length is generate.maxCRs
    Values,      \* the values the field's schema allows
    Refuses(_, _), \* the CRD refuses this value in place of that one, or of
                 \* NoKey: in an object made anew
    Kinds,       \* the managed kinds, a sequence
    Fixtures,    \* the fixtures generation may delete
    Updatable,   \* those it may update
    NoFaults     \* generate.noFaults

ASSUME GenerateAssumption ==
    MaxOps \in Nat \ {0} /\ CRNames # <<>> /\ Updatable \subseteq Fixtures

VARIABLES
    drawing,   \* "ops", "judged", "drawn"
    ops,       \* the ops drawn so far, then the sequence
    crs,       \* the CRs created, as last written: [val, live]
    gone       \* the fixtures deleted since the last op that settles

genVars == <<drawing, ops, crs, gone>>

Live == {n \in DOMAIN crs : crs[n].live}

\* Another CR holds the value, or falls back on it.
Collides(n, val) ==
    \E m \in DOMAIN CRNames \ {n} : val = m \/ (m \in DOMAIN crs /\ val = crs[m].val)

\* The n-th CR's base, or the base changed where the CRD, which sees no old object,
\* and the others allow.
DrawnVals(n) == {n} \cup {v \in Values : ~Refuses(NoKey, v) /\ ~Collides(n, v)}

-----------------------------------------------------------------------------

\* The ops the state allows.
Legal ==
    {"settle", "restart", "recreate"}
      \cup {type \in {"update", "delete"} : Live # {}}
      \cup {type \in {"deleteManaged"} : Live # {} /\ Kinds # <<>>}
      \cup {type \in {"updateFixture"} : Updatable # {}}
      \cup {type \in {"deleteFixture"} : Fixtures \ gone # {}}
      \cup {type \in {"create"} : Len(crs) < Len(CRNames)}

\* The op is drawn, and leaves the CRs as `after`.
advance(op, after) ==
    /\ ops' = Append(ops, op) /\ crs' = after
    /\ gone' = IF Settles(op) THEN {}
               ELSE IF op.type = "deleteFixture" THEN gone \cup {op.key} ELSE gone
    /\ UNCHANGED drawing

CROp(type, n, noSettle) == [PlainOp(type, CRNames[n]) EXCEPT !.noSettle = noSettle]

More(type) == drawing = "ops" /\ ops # <<>> /\ Len(ops) < MaxOps /\ type \in Legal

DrawCreate ==
    LET n == Len(crs) + 1
    IN  /\ (ops = <<>> /\ drawing = "ops") \/ More("create")
        /\ \E noSettle \in BOOLEAN, v \in DrawnVals(n) :
              advance(CROp("create", n, noSettle), Append(crs, [val |-> v, live |-> TRUE]))

\* An update none of whose draws is admitted becomes a settle.
DrawUpdate ==
    /\ More("update")
    /\ \E n \in Live, noSettle \in BOOLEAN :
          \/ \E v \in Values :
                /\ ~Refuses(crs[n].val, v) /\ ~Collides(n, v)
                /\ advance(CROp("update", n, noSettle), [crs EXCEPT ![n].val = v])
          \/ advance(PlainOp("settle", NoKey), crs)

DrawDelete ==
    /\ More("delete")
    /\ \E n \in Live, noSettle \in BOOLEAN :
          advance(CROp("delete", n, noSettle), [crs EXCEPT ![n].live = FALSE])

DrawRecreate ==
    /\ More("recreate")
    /\ \E n \in DOMAIN crs, noSettle \in BOOLEAN : \E v \in DrawnVals(n) :
          advance(CROp("recreate", n, noSettle), [crs EXCEPT ![n] = [val |-> v, live |-> TRUE]])

DrawOther ==
    \E type \in {"settle", "restart", "deleteManaged", "updateFixture", "deleteFixture"} :
        /\ More(type)
        /\ \E key \in CASE type = "deleteManaged" -> Range(Kinds)
                        [] type = "updateFixture" -> Updatable
                        [] type = "deleteFixture" -> Fixtures \ gone
                        [] OTHER -> {NoKey} :
              advance(PlainOp(type, key), crs)

-----------------------------------------------------------------------------

SettleOp == PlainOp("settle", NoKey)

\* A deleted fixture comes back at the next op that settles.
Restored(seq) ==
    [n \in DOMAIN seq |->
        IF seq[n].type = "deleteFixture"
        THEN [seq[n] EXCEPT !.until = NextSettling(seq, n + 1)] ELSE seq[n]]

settled(judged) == judged # <<>> /\ Settles(judged[Len(judged)])

\* Mutant: a deleteManaged is taken to be settled before.
emitRestarts(judged, drawn, n) ==
    LET op == drawn[n]
    IN  (IF op.type = "restart" /\ ~settled(judged) THEN Append(judged, SettleOp) ELSE judged)
          \o <<op>>
          \o (IF op.type = "restart" \/ (n = Len(drawn) /\ ~Settles(op)) THEN <<SettleOp>> ELSE <<>>)

\* The n-th op goes out with the settle waits that leave it judged: around a
\* restart, before a deleteManaged, and at the end.
emit(judged, drawn, n) ==
    LET op == drawn[n]
        last == n = Len(drawn)
        nextSettles == ~last /\ drawn[n + 1].type = "settle"
    IN  (IF op.type \in {"restart", "deleteManaged"} /\ ~settled(judged)
         THEN Append(judged, SettleOp) ELSE judged)
          \o <<op>>
          \o (IF (op.type = "restart" /\ ~nextSettles) \/ (last /\ ~Settles(op))
              THEN <<SettleOp>> ELSE <<>>)

\* What has gone out after each of the drawn ops.
emitted(drawn) ==
    LET out[n \in 0 .. Len(drawn)] == IF n = 0 THEN <<>> ELSE emit(out[n - 1], drawn, n)
    IN  out

checkpointed(drawn) == Indexed(Restored(emitted(drawn)[Len(drawn)]))

Checkpoint ==
    /\ drawing = "ops" /\ ops # <<>> /\ (Len(ops) > 1 \/ MaxOps = 1)
    /\ drawing' = "judged" /\ ops' = checkpointed(ops)
    /\ UNCHANGED <<crs, gone>>

eligibleStarts(seq) ==
    {s \in 2 .. Len(seq) :
        Settles(seq[s - 1]) /\ seq[s].type \notin {"settle", "restart", "deleteManaged"}}

\* Mutant: the fixtures come back where they did without the fault.
faultedInPlace(seq, s) ==
    LET end == NextSettling(seq, s)
        fault == [PlainOp("fault", NoKey) EXCEPT !.fault.op = end + 2]
    IN  Indexed(SubSeq(seq, 1, s - 1) \o <<fault>> \o SubSeq(seq, s, end)
                  \o <<SettleOp>> \o SubSeq(seq, end + 1, Len(seq)))

\* A fault before op s, over the ops up to the first that settles, which ends
\* at a settle wait put in after it.
faulted(seq, s) ==
    LET end == NextSettling(seq, s)
        fault == [PlainOp("fault", NoKey) EXCEPT !.fault.op = end + 2]
    IN  Indexed(Restored(SubSeq(seq, 1, s - 1) \o <<fault>> \o SubSeq(seq, s, end)
                           \o <<SettleOp>> \o SubSeq(seq, end + 1, Len(seq))))

DrawFault ==
    /\ drawing = "judged"
    /\ drawing' = "drawn"
    /\ \/ ops' = ops
       \/ ~NoFaults /\ \E s \in eligibleStarts(ops) : ops' = faulted(ops, s)
    /\ UNCHANGED <<crs, gone>>

\* Baseline: the sample, the first object of each managed kind, and a change
\* of the field where a draw changes it and is admitted.
Baseline ==
    /\ drawing = "ops" /\ ops = <<>> /\ drawing' = "drawn"
    /\ LET opening == <<PlainOp("create", CRNames[1])>>
                        \o [n \in DOMAIN Kinds |-> PlainOp("deleteManaged", Kinds[n])]
       IN  \/ ops' = Indexed(opening) /\ crs' = <<[val |-> 1, live |-> TRUE]>>
           \/ \E v \in Values \ {0, 1} :
                 /\ ~Refuses(1, v) /\ ~Collides(1, v)
                 /\ ops' = Indexed(Append(opening, PlainOp("update", CRNames[1])))
                 /\ crs' = <<[val |-> v, live |-> TRUE]>>
    /\ UNCHANGED gone

GenInit == drawing = "ops" /\ ops = <<>> /\ crs = <<>> /\ gone = {}

GenNext ==
    \/ DrawCreate \/ DrawUpdate \/ DrawDelete \/ DrawRecreate \/ DrawOther
    \/ Checkpoint \/ DrawFault \/ Baseline

-----------------------------------------------------------------------------
(* Properties. *)

\* No two CRs of a sequence hold one value at a distinct path at any point,
\* whichever was written, recreated or falls back on its base first.
DistinctHeld ==
    \A m, n \in DOMAIN crs : m # n => crs[m].val # crs[n].val

\* Every sequence generation draws is one the Runner accepts, so a hunt never
\* ends on a configuration error of its own making.
DrawnIsLegal ==
    /\ DistinctHeld
    /\ drawing = "drawn" => Valid(ops) /\ ValidCRs(ops)

\* What the checks need to judge a drawn sequence: G5 finds a settle wait on
\* either side of each restart and G7 one before each deleteManaged, with no
\* fault over either, and no op that settles runs without its fixtures.
DrawnIsJudged ==
    drawing = "drawn" => \A n \in DOMAIN ops :
        /\ ops[n].type = "restart" => Settles(ops[n - 1]) /\ Settles(ops[n + 1])
        /\ ops[n].type = "deleteManaged" => Settles(ops[n - 1])
        /\ ops[n].type = "fault" =>
              \A m \in n .. ops[n].fault.op - 1 : ops[m].type \notin {"restart", "deleteManaged"}
        /\ ops[n].type = "deleteFixture" =>
              \A m \in n .. ops[n].until - 1 : ~Settles(ops[m])
=============================================================================
