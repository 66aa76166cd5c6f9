----------------------------- MODULE Invariants -----------------------------
(***************************************************************************)
(* The invariant engine (internal/invariant): the checks G1 to G7 and a    *)
(* declared property, as functions of a run's history `in`, a record of    *)
(*   ops          [index, type, time, deleted, cr, restored]               *)
(*   checkpoints  [op, began, time, settle, stayed, held]                  *)
(*   faults       [start, end], end 0 while the fault is active            *)
(*   exits        [at, restart]                                            *)
(*   requests     [start, res, verb, keys, status, failed], res the class  *)
(*                of the resource: "object", "lease" or "none"; keys the   *)
(*                object it names, or all of a collection; status for the  *)
(*                status subresource                                       *)
(*   versions     the Observer's history; excluded, its excluded keys      *)
(*   teardown, quiet, cleaned, end                                         *)
(* Each check yields what it reports; statements and evidence are left     *)
(* out.  Instants are naturals, 0 the zero time.                           *)
(***************************************************************************)
EXTENDS ObserverStore

CONSTANTS
    Settle, Stable, Delete,   \* the target's timeouts
    QuietAllowance,           \* thresholds.quiet
    ErrLoop,                  \* thresholds.errloop
    NotRecreated,             \* managed keys the target leaves deleted
    NoKey,                    \* the zero Key
    When,                     \* the declared property's `when`
    Holds(_, _)               \* the declared property, of a CR (or NoKey) and
                              \* the managed objects that are its own

ASSUME TimeoutsAssumption == {Settle, Stable, Delete} \subseteq Nat \ {0}

TeardownOp == -1
RecoveryOp == -2

-----------------------------------------------------------------------------
(* Ops, windows and the ends of the run. *)

ChangesSpec(type) == type \in {"create", "update", "recreate"}
TouchesCR(type) == ChangesSpec(type) \/ type = "delete"
OnFixture(type) == type \in {"updateFixture", "deleteFixture"}
GivesInput(op) == ChangesSpec(op.type) \/ op.type = "updateFixture" \/ op.restored
ChangesRun(op) ==
    TouchesCR(op.type) \/ op.deleted # NoKey \/ OnFixture(op.type) \/ op.restored

Later(a, b) == IF b > a THEN b ELSE a

\* A fault that stopped at `from` did not reach into [from, to].
Overlaps(fault, from, to) == fault.start <= to /\ (fault.end = 0 \/ fault.end > from)
Faulted(in, from, to) == \E f \in Range(in.faults) : Overlaps(f, from, to)

End(in) ==
    IF in.end # 0 THEN in.end
    ELSE IF in.checkpoints # <<>> THEN in.checkpoints[Len(in.checkpoints)].time ELSE 0
Observed(in, t) == End(in) # 0 /\ t <= End(in)
TornDown(in, t) == in.teardown # 0 /\ t > in.teardown

NoOp == [index |-> 0, type |-> "", time |-> 0, deleted |-> NoKey, cr |-> NoKey,
         restored |-> FALSE]
\* The last of some ops, in the order applied.
LastOp(ops) == IF ops = <<>> THEN NoOp ELSE Last(ops)
OpBefore(in, t) == LastOp(SelectSeq(in.ops, LAMBDA op : op.time < t))
OpOf(in, index) == LastOp(SelectSeq(in.ops, LAMBDA op : op.index = index))

\* The versions the engine reads: those recorded by the end, as a timeline.
Versions(in) ==
    SortSeq(Window(in.versions, 0, End(in)), LAMBDA v, w : v.time < w.time)
StateAt(in, t) == Live(Versions(in), t)
CRs(state) == {v \in state : v.key \in PrimaryKeys}
ManagedIn(in, state) == {v \in state : IsManaged(in.excluded, v.key)}
\* The object as last seen by t, in a set of at most one version.
VersionAt(in, key, t) ==
    {in.versions[i] : i \in {j \in LatestAt(in.versions, t) : in.versions[j].key = key}}

-----------------------------------------------------------------------------
(* Is the target back (running.go)? *)

LeaseGet(r) == r.res = "lease" /\ r.verb = "get"
LeaseWon(r) == r.res = "lease" /\ r.verb \in {"create", "update", "patch"} /\ ~r.failed
Electing(requests) == \E i \in DOMAIN requests : LeaseGet(requests[i])
\* When the first of some requests after `since` came, 0 where none did.
FirstAfter(requests, since) ==
    LET starts == {requests[i].start : i \in {j \in DOMAIN requests : requests[j].start > since}}
    IN  IF starts = {} THEN 0 ELSE Min(starts)
\* When the target came back after `since`, 0 if it has not: by its first
\* request for an object, or where it elects a leader by winning its lease.
Back(requests, since) ==
    IF ~Electing(requests)
    THEN FirstAfter(SelectSeq(requests, LAMBDA r : r.res = "object"), since)
    ELSE LET got == FirstAfter(SelectSeq(requests, LeaseGet), since)
         IN  IF got = 0 THEN 0 ELSE FirstAfter(SelectSeq(requests, LeaseWon), got)

SettledBy(in, restart) ==
    LET back == Back(in.requests, restart)
    IN  IF back # 0 /\ back < restart + Settle THEN back + Settle ELSE restart + Settle

RestartBefore(in, t) ==
    LastOp(SelectSeq(in.ops, LAMBDA op : op.type = "restart" /\ op.time < t))
RestartOwed(in, t) ==
    LET op == RestartBefore(in, t)
    IN  IF op.time = 0 THEN 0 ELSE SettledBy(in, op.time)
LastRestart(in, t) ==
    Max({0} \cup {RestartBefore(in, t).time}
            \cup {e.restart : e \in {x \in Range(in.exits) : x.restart < t}})

\* The target waits to restart, restarted within Stable, or is not back, or is
\* back for less than Stable.
Starting(in, at) ==
    \/ \E e \in Range(in.exits) : e.at <= at /\ e.restart > at
    \/ \E e \in Range(in.exits) : at - Stable < e.restart /\ e.restart <= at
    \/ LET back == Back(SelectSeq(in.requests, LAMBDA r : r.start <= at), LastRestart(in, at))
       IN  back = 0 \/ back > at - Stable

-----------------------------------------------------------------------------
(* What faults owe the target (recovery.go). *)

ConvergedTimes(in) == {c.time : c \in {x \in Range(in.checkpoints) : x.settle = "converged"}}
LastConverged(in, t) == Max({0} \cup {c \in ConvergedTimes(in) : c <= t})
NextConverged(in, t) ==
    LET after == {c \in ConvergedTimes(in) : c > t} IN IF after = {} THEN 0 ELSE Min(after)

\* Mutant: a target is owed Settle past the faults, however long they lasted.
faultsOwedSettle(in, t) ==
    LET stopped == {f \in Range(in.faults) : f.end <= t /\ f.end > LastConverged(in, t)}
    IN  IF stopped = {} THEN 0 ELSE Max({f.end : f \in stopped}) + Settle

\* Mutant: a target is owed as long as the faults lasted, and no more.
faultsOwedAsLong(in, t) ==
    LET stopped == {f \in Range(in.faults) : f.end <= t /\ f.end > LastConverged(in, t)}
        last == Max({f.end : f \in stopped})
    IN  IF stopped = {} THEN 0 ELSE last + (last - Min({f.start : f \in stopped}))

\* As long as the faults lasted since the run last converged, plus Settle.
FaultsOwed(in, t) ==
    LET recovered == LastConverged(in, t)
        stopped == {f \in Range(in.faults) : f.end <= t /\ f.end > recovered}
        first == Min({f.start : f \in stopped})
        last == Max({f.end : f \in stopped})
    IN  IF stopped = {} THEN 0 ELSE last + (last - Later(first, recovered)) + Settle

FaultsExcuse(in, t) == Faulted(in, t, t) \/ t < FaultsOwed(in, t)

FirstExcusedExitSince(in, op, exit) ==
    ~\E e \in Range(in.exits) : op.time <= e.at /\ e.at < exit.at /\ FaultsExcuse(in, e.at)

\* Under an active fault only the first exit since an op extends what is owed.
Owed(in, t) ==
    Max({FaultsOwed(in, t)} \cup
        {SettledBy(in, e.restart) : e \in {x \in Range(in.exits) :
            /\ x.at <= t
            /\ x.at > LastConverged(in, t)
            /\ FaultsExcuse(in, x.at)
            /\ \/ ~Faulted(in, t, t)
               \/ FirstExcusedExitSince(in, OpBefore(in, SettledBy(in, x.restart)), x)}})

RecreateOwed(in, t) ==
    Max({Owed(in, t)} \cup
        {f.end + (f.end - f.start) + Settle :
            f \in {x \in Range(in.faults) : x.end # 0 /\ x.end <= t}})

Recovering(in, t) == Faulted(in, t, t) \/ t < Owed(in, t)

PendingRestart(in, t) ==
    LET pending == SelectSeq(in.exits, LAMBDA e :
                       e.at <= t /\ e.restart > t /\ FaultsExcuse(in, e.at))
    IN  IF pending = <<>> THEN 0 ELSE Head(pending).restart

ExcusedExit(in, from, to) ==
    \E e \in Range(in.exits) : from <= e.at /\ e.at <= to /\ FaultsExcuse(in, e.at)

-----------------------------------------------------------------------------
(* Deletions of a CR (deletion.go, attribution.go) and G3 (g3.go). *)

\* One per CR incarnation, from the first version that shows it deleted.
CRDeletionsBy(in, t) ==
    LET seen == SelectSeq(in.versions, LAMBDA v :
                    v.key \in PrimaryKeys /\ v.time <= t /\ (v.deleting \/ v.deleted))
    IN  {[key |-> seen[i].key, uid |-> seen[i].uid, at |-> seen[i].time,
          deadline |-> seen[i].time + Delete] :
            i \in {j \in DOMAIN seen : \A k \in 1 .. j - 1 : seen[k].uid # seen[j].uid}}

GoneBy(in, deleted, t) ==
    LET gone == {v.time : v \in {x \in Range(in.versions) :
                    x.uid = deleted.uid /\ x.key = deleted.key /\ x.deleted /\ x.time <= t}}
    IN  IF gone = {} THEN 0 ELSE Min(gone)

DeletionOwed(in, t) ==
    Max({0} \cup {LET gone == GoneBy(in, d, t)
                  IN  IF gone # 0 /\ gone <= d.deadline THEN gone + Settle ELSE d.deadline :
                  d \in CRDeletionsBy(in, t)})

WaitOwed(in, t) == Later(Later(Owed(in, t), RestartOwed(in, t)), DeletionOwed(in, t))

HeldIn(state, deleted) ==
    \E v \in state : v.key = deleted.key /\ v.uid = deleted.uid /\ v.fin

\* Mutant: a deletion is overdue where its deadline passed, faults or not.
deletionOverdueFaulted(in, checkpoint) ==
    \E d \in CRDeletionsBy(in, checkpoint.time) :
        d.deadline <= checkpoint.time /\ HeldIn(StateAt(in, Later(d.deadline, checkpoint.began)), d)

DeletionOverdue(in, checkpoint) ==
    \E d \in CRDeletionsBy(in, checkpoint.time) :
        /\ d.deadline <= checkpoint.time
        /\ ~Faulted(in, d.at, d.deadline)
        /\ HeldIn(StateAt(in, Later(d.deadline, checkpoint.began)), d)

\* Mutant: the excuse is read where the history ends.
excusedAtEnd(in, checkpoint) ==
    Recovering(in, End(in)) \/ DeletionOverdue(in, checkpoint)

Excused(in, checkpoint) ==
    Recovering(in, checkpoint.time) \/ DeletionOverdue(in, checkpoint)

HoldsUID(state, uid) == \E v \in state : v.uid = uid

\* An object belongs to the CR it names, and one that names none to every CR
\* there when the deleted one went.  The last of them to go answers for it.
LeftBy(in, deleted, v, then, now) ==
    /\ v.owner \in {0, deleted.uid}
    /\ ~\E cr \in CRs(then) \cup CRs(now) :
          /\ cr.uid # deleted.uid
          /\ v.owner = cr.uid \/ (v.owner = 0 /\ HoldsUID(then, cr.uid))
          /\ \/ HoldsUID(now, cr.uid)
             \/ \E d \in CRDeletionsBy(in, End(in)) :
                   d.uid = cr.uid /\ d.deadline > deleted.deadline

Cleaned(in, t) == in.cleaned # 0 /\ in.cleaned <= t

\* What one judged deletion left behind at its deadline: the CR itself, held
\* by its finalizers, and the objects it had that are still there.
Leftovers(in, d) ==
    LET then == StateAt(in, d.at)
        now == StateAt(in, d.deadline)
    IN  {v \in now : v.key = d.key /\ v.uid = d.uid /\ v.fin}
          \cup {v \in ManagedIn(in, now) :
                  /\ \E w \in ManagedIn(in, then) : w.key = v.key /\ w.uid = v.uid
                  /\ LeftBy(in, d, v, then, now)}

JudgedDeletions(in) ==
    {d \in CRDeletionsBy(in, End(in)) :
        ~Cleaned(in, d.deadline) /\ ~Faulted(in, d.at, d.deadline) /\ Observed(in, d.deadline)}

CleanDeletion(in) == {d \in JudgedDeletions(in) : Leftovers(in, d) # {}}

-----------------------------------------------------------------------------
(* G1 and G2: quiet windows (window.go, g1.go, g2.go). *)

SettleEnd(in, op) ==
    LET at == SelectInSeq(in.checkpoints, LAMBDA c : c.op = op.index /\ c.settle # "none")
    IN  IF at = 0 THEN 0 ELSE in.checkpoints[at].time

\* The teardown's window has a start of its own, so that a fault the teardown
\* cleared did not reach into it.
QuietWindows(in) ==
    LET window(i) == LET settled == SettleEnd(in, in.ops[i])
                     IN  [op |-> i, start |-> settled, end |-> settled + Stable]
        closes(w) == /\ w.start # 0
                     /\ Observed(in, w.end)
                     /\ ~Faulted(in, in.ops[w.op].time, w.end)
                     /\ ~TornDown(in, w.end)
                     /\ w.op < Len(in.ops) => in.ops[w.op + 1].time >= w.end
    IN  {w \in {window(i) : i \in DOMAIN in.ops} : closes(w)} \cup
        {w \in {[op |-> 0, start |-> in.quiet, end |-> in.teardown]} :
            w.start # 0 /\ w.end # 0 /\ Observed(in, w.end) /\ ~Faulted(in, w.start, w.end)}

RequestsIn(requests, w) == SelectSeq(requests, LAMBDA r : w.start <= r.start /\ r.start <= w.end)

Reconciles(r) == r.verb # "watch" /\ r.res = "object"
Writes(r) == r.verb \in {"create", "update", "patch", "delete", "deletecollection"}
WritesStatus(r) == r.status /\ Writes(r)

BoundedReconciliation(in) ==
    {w \in QuietWindows(in) :
        Len(RequestsIn(SelectSeq(in.requests, Reconciles), w)) > QuietAllowance}

\* A version counts where a write of the target's could have made it.
ChangesIn(in, w) ==
    {v \in Range(Versions(in)) :
        /\ w.start <= v.time /\ v.time <= w.end
        /\ v.key \in PrimaryKeys \/ IsManaged(in.excluded, v.key)
        /\ \E r \in Range(RequestsIn(in.requests, w)) :
              Writes(r) /\ r.start <= v.time /\ v.key \in r.keys}

\* A status write that changes nothing leaves no version, and is counted.
NoChurn(in) ==
    {w \in QuietWindows(in) :
        \/ ChangesIn(in, w) # {}
        \/ Len(RequestsIn(SelectSeq(in.requests, WritesStatus), w)) > QuietAllowance}

-----------------------------------------------------------------------------
(* G4 (g4.go). *)

ReadyBy(in, at) ==
    LET settled == at + Settle
        owed == Later(Owed(in, at), RestartOwed(in, settled))
        converged == NextConverged(in, at)
    IN  Later(settled, IF converged # 0 /\ converged < owed THEN converged ELSE owed)

Anchors(in) ==
    {[at |-> op.time, deadline |-> ReadyBy(in, op.time)] :
        op \in {o \in Range(in.ops) : GivesInput(o)}} \cup
    {[at |-> f.end, deadline |-> ReadyBy(in, f.end)] :
        f \in {x \in Range(in.faults) : x.end # 0}}

Respecified(in, from, to) ==
    \E op \in Range(in.ops) :
        (GivesInput(op) \/ op.type = "deleteFixture") /\ from < op.time /\ op.time < to

NotReady(in) ==
    {a \in Anchors(in) :
        /\ Observed(in, a.deadline)
        /\ ~Faulted(in, a.at, a.deadline)
        /\ ~ExcusedExit(in, a.at, a.deadline)
        /\ ~TornDown(in, a.deadline)
        /\ ~Respecified(in, a.at, a.deadline)
        /\ \E cr \in CRs(StateAt(in, a.deadline)) : ~cr.deleting /\ ~cr.ready}

ExpiredWaits(in) ==
    {c \in Range(in.checkpoints) : c.settle = "expired" /\ ~Excused(in, c)}

Convergence(in) == NotReady(in) \cup ExpiredWaits(in)

-----------------------------------------------------------------------------
(* G5 (g5.go, equal.go, the reach of attribution.go). *)

ChangesBetween(in, from, to) ==
    {op \in Range(in.ops) : ChangesRun(op) /\ from <= op.time /\ op.time < to}

\* What reconciler-fuzzer's changes may have changed: everything, or the CRs
\* they acted on and what those own.
TouchedBy(in, changes, v) ==
    LET took(op) == VersionAt(in, op.deleted, op.time)
        all == \E op \in changes :
                  \/ OnFixture(op.type) \/ op.restored
                  \/ op.deleted # NoKey /\ \A w \in took(op) : w.owner = 0
        crs == UNION {{w.uid : w \in Range(History(in.versions, op.cr))}
                        \cup ({w.owner : w \in took(op)} \ {0}) : op \in changes}
    IN  /\ changes # {}
        /\ \/ all \/ v.uid \in crs
           \/ v.key \notin PrimaryKeys /\ (v.owner = 0 \/ v.owner \in crs)

\* What the default equality compares: a reference to an owner that is gone
\* does not count.
Comparable(state, v) ==
    [val |-> v.val, ready |-> v.ready, fin |-> v.fin, deleting |-> v.deleting,
     owner |-> IF HoldsUID(state, v.owner) THEN v.owner ELSE 0]

\* The converged checkpoints on either side of a restart, 0 where missing.
ConvergedAround(in, op) ==
    [before |-> Max({0} \cup {c \in ConvergedTimes(in) : c < op.time}),
     after |-> NextConverged(in, op.time)]

RestartChanged(in, op) ==
    LET around == ConvergedAround(in, op)
        was == StateAt(in, around.before)
        is == StateAt(in, around.after)
        changes == ChangesBetween(in, around.before, around.after)
        indexed(state) == {v \in state : ~TouchedBy(in, changes, v)}
        same(v, w) == /\ v.key = w.key
                      /\ Comparable(was, v) = Comparable(is, w)
    IN  IF around.before = 0 \/ around.after = 0 \/ Faulted(in, around.before, around.after)
        THEN {}
        ELSE {v.key : v \in {x \in indexed(was) : ~\E w \in indexed(is) : same(x, w)}} \cup
             {w.key : w \in {x \in indexed(is) : ~\E v \in indexed(was) : same(v, x)}}

RestartStable(in) ==
    {op \in Range(in.ops) : op.type = "restart" /\ RestartChanged(in, op) # {}}

-----------------------------------------------------------------------------
(* G6 (g6.go). *)

SpecSetAt(in, t) ==
    LET op == LastOp(SelectSeq(in.ops, LAMBDA o :
                  (TouchesCR(o.type) \/ OnFixture(o.type) \/ o.restored) /\ o.time <= t))
    IN  IF TornDown(in, t) THEN Later(op.time, in.teardown) ELSE op.time

\* The most of the instants, which are in order, that fall within a window.
Densest(starts, window) ==
    Max({0} \cup {Cardinality({j \in 1 .. i : starts[i] - starts[j] <= window}) :
                  i \in DOMAIN starts})

\* Failing requests of one kind in one stretch of unchanged spec and fixtures.
RepeatedFailures(in) ==
    LET failing == SelectSeq(in.requests, LAMBDA r : r.failed /\ ~Faulted(in, r.start, r.start))
        group(r) == SelectSeq(failing, LAMBDA q :
                        /\ <<q.verb, q.res, q.keys, q.status>> = <<r.verb, r.res, r.keys, r.status>>
                        /\ SpecSetAt(in, q.start) = SpecSetAt(in, r.start))
    IN  {[i \in DOMAIN group(r) |-> group(r)[i].start] : r \in Range(failing)}

NoErrorLoop(in) == {g \in RepeatedFailures(in) : Densest(g, Settle) > ErrLoop}

-----------------------------------------------------------------------------
(* G7 (g7.go). *)

AskedFor(took, state) ==
    \E cr \in CRs(state) : ~cr.deleting /\ \A v \in took : v.owner \in {0, cr.uid}

StillStarting(in, op) ==
    LET start == LastRestart(in, op.time)
        back == Back(in.requests, start)
    IN  start # 0 /\ (back = 0 \/ back >= op.time)

Stopped(in, from, to) == \E e \in Range(in.exits) : e.at <= to /\ e.restart >= from

SelfHealing(in) ==
    {c \in Range(in.checkpoints) :
        LET op == OpOf(in, c.op)
            seen == StateAt(in, c.time)
        IN  /\ op.deleted \notin {NoKey} \cup NotRecreated
            /\ ~\E v \in seen : v.key = op.deleted
            /\ AskedFor(VersionAt(in, op.deleted, op.time), seen)
            /\ ChangesBetween(in, LastConverged(in, op.time), op.time) = {}
            /\ ~Faulted(in, op.time, c.time)
            /\ c.time >= RecreateOwed(in, op.time)
            /\ ~StillStarting(in, op)
            /\ ~Stopped(in, op.time, c.time)}

-----------------------------------------------------------------------------
(* A declared property (property.go). *)

Unjudgeable(in, c) ==
    \/ c.held
    \/ c.settle # "converged" /\ Starting(in, c.time)
    \/ Recovering(in, c.time)

EvaluationPoints(in) ==
    IF When = "always"
    THEN {v.time : v \in {x \in Range(Versions(in)) : ~TornDown(in, x.time)}}
    ELSE {in.checkpoints[i].time : i \in {j \in DOMAIN in.checkpoints :
             /\ When = "end" => j = Len(in.checkpoints)
             /\ ~Unjudgeable(in, in.checkpoints[j])}}

Property(in) ==
    {t \in EvaluationPoints(in) :
        LET state == StateAt(in, t)
            theirs(cr) == {v \in ManagedIn(in, state) : v.owner \in {0, cr.uid}}
        IN  \/ CRs(state) = {} /\ ~Holds(NoKey, ManagedIn(in, state))
            \/ \E cr \in CRs(state) : ~Holds(cr, theirs(cr))}

-----------------------------------------------------------------------------

\* Evaluate runs every check; what is kept here is which of them report.
Evaluate(in) ==
    {g \in {"G1", "G2", "G3", "G4", "G5", "G6", "G7", "P"} :
        CASE g = "G1" -> BoundedReconciliation(in) # {}
          [] g = "G2" -> NoChurn(in) # {}
          [] g = "G3" -> CleanDeletion(in) # {}
          [] g = "G4" -> Convergence(in) # {}
          [] g = "G5" -> RestartStable(in) # {}
          [] g = "G6" -> NoErrorLoop(in) # {}
          [] g = "G7" -> SelfHealing(in) # {}
          [] g = "P"  -> Property(in) # {}}
=============================================================================
