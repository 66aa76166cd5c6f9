------------------------------- MODULE Bound -------------------------------
(***************************************************************************)
(* The longest the Runner's waits can make the runs of some sequences take *)
(* (internal/run/bound.go), which is what a user is told before they       *)
(* start.  The float64 sum of the code is a natural here.                  *)
(***************************************************************************)
EXTENDS SequenceFormat

CONSTANTS
    Settle, Stable, Delete,   \* the target's timeouts
    MaxBackoff,               \* of the launcher, before a restart
    RestartWithin,            \* what a restart takes
    Margins,                  \* the namespace's defaults, the teardown's
                              \* margin and the stop of the run
    MaxDuration               \* the longest a Duration can be

\* A fault op at or before position n.
FaultBy(ops, n) == \E m \in 1 .. n : ops[m].type = "fault"

\* The longest a fault by op n holds a request, and what that request, held as
\* a wait's time runs out, adds to the wait.
DelayBy(ops, n) == Max({0} \cup {ops[m].fault.delay : m \in 1 .. n})
HoldBy(ops, n) == IF DelayBy(ops, n) = 0 THEN 0 ELSE DelayBy(ops, n) + Settle

\* What an excused exit adds: the backoff, the return and what is owed past it.
ExitCost == MaxBackoff + 2 * Settle

ownWait(ops, n) ==
    CASE ops[n].type \in {"delete", "deleteFixture"} -> Delete
      [] ops[n].type = "recreate" -> Max({Delete, Settle}) + HoldBy(ops, n)
      [] ops[n].type = "restart" -> RestartWithin + Settle
      [] OTHER -> 0

\* Mutant: the settle wait after an op is not counted.
opCostUnsettled(ops, n) ==
    ownWait(ops, n)
    + (IF FaultBy(ops, n - 1) THEN MaxBackoff + Settle ELSE 0)
    + (IF FaultBy(ops, n) THEN ExitCost ELSE 0)

\* What op n adds, with the exit it allows from the first fault on.
OpCost(ops, n) ==
    ownWait(ops, n)
    + (IF FaultBy(ops, n - 1) THEN MaxBackoff + Settle ELSE 0)
    + (IF FaultBy(ops, n) THEN ExitCost ELSE 0)
    + (IF Settles(ops[n]) THEN Settle + HoldBy(ops, n) ELSE 0)

\* The times faults stop: those with no trigger stop together, at the teardown.
Stops(ops) ==
    LET faults == {n \in DOMAIN ops : ops[n].type = "fault"}
        triggered == {n \in faults : <<ops[n].fault.op, ops[n].fault.count, ops[n].fault.for>> # <<0, 0, 0>>}
    IN  Cardinality(triggered) + (IF triggered = faults THEN 0 ELSE 1)

\* Faults that stop are owed as long as they lasted, and more.
stopped(ops, waits) ==
    2 * (waits + DelayBy(ops, Len(ops))) + Settle + HoldBy(ops, Len(ops)) + ExitCost

OneBound(ops) ==
    LET waits == MapThenSumSet(LAMBDA n : OpCost(ops, n), DOMAIN ops)
        after[n \in 0 .. Stops(ops)] == IF n = 0 THEN waits ELSE stopped(ops, after[n - 1])
    IN  after[Stops(ops)] + Stable + Delete + Margins

BoundOf(sequences) ==
    LET total == FoldLeft(LAMBDA sum, ops : sum + OneBound(ops), 0, sequences)
    IN  IF total >= MaxDuration THEN MaxDuration ELSE total
=============================================================================
