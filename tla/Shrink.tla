------------------------------- MODULE Shrink -------------------------------
(***************************************************************************)
(* How a failing sequence is made smaller (internal/run/shrink.go): ops    *)
(* are removed, or their faults weakened, one at a time, and a candidate   *)
(* is kept where its replay fails the same check.  Passes go on until one  *)
(* simplifies nothing, or the deadline has passed.                         *)
(*                                                                         *)
(* What a replay shows is an input, the oracle: the candidate fails as the *)
(* sequence did where it still holds the ops the bug needs and its faults  *)
(* last as long as the bug needs, unless the bug is flaky.                 *)
(***************************************************************************)
EXTENDS SequenceFormat

CONSTANT MinFault    \* minFaultDuration

ASSUME MinFaultAssumption == MinFault \in Nat \ {0}

VARIABLES
    shrinking,   \* "no", "remove", "weaken", "done"
    smallest,    \* the smallest failing sequence found
    ids,         \* where each of its ops was in the failing sequence
    failing,     \* the failing sequence
    oracle,      \* [needs, least, flaky]
    pos,         \* i, the op the pass is at
    axis,        \* the halving it tries on a fault
    simplified,  \* the pass simplified an op
    late         \* the deadline has passed

shrinkVars == <<shrinking, smallest, ids, failing, oracle, pos, axis, simplified, late>>

Fails(seq, which) ==
    /\ ValidCRs(seq)
    /\ oracle.needs \subseteq Range(which)
    /\ \A n \in DOMAIN seq : seq[n].type = "fault" =>
          /\ seq[n].fault.for # 0 => seq[n].fault.for >= oracle.least
          /\ seq[n].fault.count # 0 => seq[n].fault.count >= oracle.least

-----------------------------------------------------------------------------
(* Candidates. *)

\* Mutant: an op that names the removed one names the op before it.
movedBack(to, n) == IF to >= n THEN to - 1 ELSE to

\* Where an index points once op n is gone: at the op it named, or at the
\* first op left after it.
moved(to, n) == IF to > n THEN to - 1 ELSE to

without(seq, n) ==
    [m \in 1 .. Len(seq) - 1 |->
        LET op == RemoveAt(seq, n)[m]
        IN  [op EXCEPT !.i = m, !.until = moved(op.until, n),
                       !.fault = [op.fault EXCEPT !.op = moved(op.fault.op, n)]]]

\* 0 where the axis has nothing left to give.
halved(d) == IF d <= MinFault THEN 0 ELSE Max({d \div 2, MinFault})
halvedCount(count) == count \div 2

Axes == <<"count", "for", "delay">>

half(fault, a) ==
    IF Axes[a] = "count" THEN halvedCount(fault.count) ELSE halved(fault[Axes[a]])

\* The sequence with the fault of op n made milder on the axis.
with(seq, n, a) ==
    LET fault == seq[n].fault
        milder == [seq[n] EXCEPT !.fault = [fault EXCEPT ![Axes[a]] = half(fault, a)]]
    IN  [seq EXCEPT ![n] = milder]

-----------------------------------------------------------------------------

\* reproducing: the candidate is legal and simpler, and its replay fails the
\* same check.
Reproduces(candidate, which, shows) ==
    /\ Valid(candidate) /\ candidate # smallest
    /\ shows /\ (oracle.flaky \/ Fails(candidate, which))
Shows == IF oracle.flaky THEN BOOLEAN ELSE {TRUE}

Trying(phase) == shrinking = phase /\ pos <= Len(smallest) /\ ~late

TryRemove ==
    /\ Trying("remove")
    /\ \E shows \in Shows :
          LET candidate == without(smallest, pos)
              which == RemoveAt(ids, pos)
          IN  IF Reproduces(candidate, which, shows)
              THEN /\ smallest' = candidate /\ ids' = which /\ simplified' = TRUE
                   /\ UNCHANGED <<shrinking, pos, axis>>
              ELSE /\ IF smallest[pos].type = "fault"
                      THEN shrinking' = "weaken" /\ axis' = 1 /\ pos' = pos
                      ELSE pos' = pos + 1 /\ UNCHANGED <<shrinking, axis>>
                   /\ UNCHANGED <<smallest, ids, simplified>>
    /\ UNCHANGED <<failing, oracle, late>>

\* The axis gives no more: the next one, or the next op.
nextAxis ==
    IF axis < Len(Axes) THEN axis' = axis + 1 /\ UNCHANGED <<shrinking, pos>>
    ELSE shrinking' = "remove" /\ pos' = pos + 1 /\ UNCHANGED axis

TryWeaken ==
    /\ Trying("weaken")
    /\ \E shows \in Shows :
          LET candidate == with(smallest, pos, axis)
          IN  IF half(smallest[pos].fault, axis) > 0 /\ Reproduces(candidate, ids, shows)
              THEN smallest' = candidate /\ simplified' = TRUE /\ UNCHANGED <<shrinking, pos, axis>>
              ELSE nextAxis /\ UNCHANGED <<smallest, simplified>>
    /\ UNCHANGED <<ids, failing, oracle, late>>

\* Mutant: one pass is enough.
onePass == shrinking' = "done" /\ UNCHANGED <<pos, simplified>>

\* Mutant: the passes go on until the deadline.
passOn == shrinking' = "remove" /\ pos' = 1 /\ simplified' = FALSE

\* A pass that simplified an op may have freed another.
again ==
    IF simplified THEN shrinking' = "remove" /\ pos' = 1 /\ simplified' = FALSE
    ELSE shrinking' = "done" /\ UNCHANGED <<pos, simplified>>

EndPass ==
    /\ shrinking \in {"remove", "weaken"} /\ (pos > Len(smallest) \/ late)
    /\ again
    /\ UNCHANGED <<smallest, ids, failing, oracle, axis, late>>

Deadline ==
    /\ shrinking \in {"remove", "weaken"} /\ ~late
    /\ late' = TRUE
    /\ UNCHANGED <<shrinking, smallest, ids, failing, oracle, pos, axis, simplified>>

\* Shrink is called with a sequence whose run failed.
Begin(seq, bug) ==
    /\ shrinking = "no"
    /\ shrinking' = "remove" /\ smallest' = seq /\ failing' = seq /\ oracle' = bug
    /\ ids' = [n \in DOMAIN seq |-> n]
    /\ pos' = 1 /\ axis' = 1 /\ simplified' = FALSE /\ late' = FALSE

ShrinkInit ==
    /\ shrinking = "no" /\ smallest = <<>> /\ ids = <<>> /\ failing = <<>>
    /\ oracle = [needs |-> {}, least |-> 0, flaky |-> FALSE]
    /\ pos = 1 /\ axis = 1 /\ simplified = FALSE /\ late = FALSE

ShrinkNext == TryRemove \/ TryWeaken \/ EndPass \/ Deadline

-----------------------------------------------------------------------------
(* Properties. *)

\* The index names the op that `to` named in the failing sequence, or the first
\* op left after it; an index past the last op where none is.
Follows(index, to) ==
    LET left == {n \in DOMAIN ids : ids[n] >= to}
    IN  IF left = {} THEN index > Len(ids) ELSE index = Min(left)

\* However many ops went, in whatever order: "A fault still ends, and a deleted
\* fixture still comes back, where it did: at the op it named, or at the first
\* op left after it."
EndsWhereItDid ==
    \A n \in DOMAIN smallest :
        LET was == failing[ids[n]]
        IN  /\ was.until # 0 => Follows(smallest[n].until, was.until)
            /\ was.fault.op # 0 => Follows(smallest[n].fault.op, was.fault.op)

\* Where the replays are not flaky and time did not run out, no op of the
\* result can be removed and no fault made milder: a pass that freed an earlier
\* op was followed by another.
Minimal ==
    shrinking = "done" /\ ~late /\ ~oracle.flaky => \A n \in DOMAIN smallest :
        /\ LET candidate == without(smallest, n)
           IN  ~(Valid(candidate) /\ Fails(candidate, RemoveAt(ids, n)))
        /\ smallest[n].type = "fault" => \A a \in DOMAIN Axes :
              half(smallest[n].fault, a) > 0 => ~Fails(with(smallest, n, a), ids)

\* Shrinking ends, flaky replays or not: no candidate is accepted that
\* simplifies nothing.
ShrinkEnds == (shrinking = "remove") ~> (shrinking = "done")
=============================================================================
