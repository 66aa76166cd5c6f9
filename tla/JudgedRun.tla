----------------------------- MODULE JudgedRun -----------------------------
(***************************************************************************)
(* One run as the engine sees it, in time: the Runner's ops, settle waits  *)
(* and teardown (internal/run/runner.go, settle.go), the target's own      *)
(* steps, the faults, the exits, the Observer's versions, and the verdict  *)
(* of the engine (Invariants) at each checkpoint.  The question is whether *)
(* the engine blames a target that keeps every promise, and whether a wait *)
(* that ran out is ever left without a verdict.                            *)
(*                                                                         *)
(* Time is a natural; no two events share an instant.  Waits poll at the   *)
(* multiples of Poll, and an event takes one of the instants between.      *)
(***************************************************************************)
EXTENDS Invariants

CONSTANTS
    Poll,          \* the settle poll, and one more than the events between two
    Plans,         \* the runs: [ops, prompt, exits], prompt where the target
                   \* keeps every promise, exits a bound on the times it exits
    KidOf,         \* the managed object a CR asks for
    OwnedKids,     \* those the target gives an ownerReference to their CR
    MaxOdd         \* a bound on the misdeeds of a target that is not prompt

VARIABLES
    now,       \* the clock
    plan, pc,  \* the run's sequence and target, and the ops applied
    phase,     \* "op", "wait", "gone", "recovery", "quiet", "deletion", "done"
    wait,      \* [op, began, floor] of the wait under way
    run,       \* the history, as the engine's input
    objs,      \* the objects there are, each as last observed
    started,   \* when the target last started
    fixture,   \* the fixture exists
    odd,       \* the misdeeds so far
    judged,    \* per expired checkpoint, whether it was excused when judged
    found      \* the checks that reported, at the checkpoint that ended the run

vars == <<now, plan, pc, phase, wait, run, objs, started, fixture, odd, judged, found>>

\* The bound on the run.  Waits end at a poll, which is not small here, and a
\* fault can stop whether or not it has a trigger.
Sequence == INSTANCE Bound WITH
    Settle <- Settle + Poll, Delete <- Delete + Poll, Stable <- Stable + Poll,
    MaxBackoff <- Poll, RestartWithin <- 0, Margins <- Poll, MaxDuration <- 100000

NoWait == [op |-> 0, began |-> 0, floor |-> 0]

Init ==
    /\ now = 0 /\ plan \in Plans /\ pc = 0 /\ phase = "op" /\ wait = NoWait
    /\ run = [ops |-> <<>>, checkpoints |-> <<>>, faults |-> <<>>, exits |-> <<>>,
              requests |-> <<>>, versions |-> <<>>, excluded |-> PrimaryKeys,
              teardown |-> 0, quiet |-> 0, cleaned |-> 0, end |-> 0]
    /\ objs = {} /\ started = 0 /\ fixture = TRUE /\ odd = 0
    /\ judged = <<>> /\ found = {}

-----------------------------------------------------------------------------
(* The cluster and its Observer, which sees a write as it is made. *)

Exists(key) == \E v \in objs : v.key = key
Object(key) == CHOOSE v \in objs : v.key = key
CRsNow == CRs(objs)

Stamp == now + 1
HasInstant(n) == (now % Poll) + n < Poll

\* The history r and the cluster with a new version of each object of vs.
Write(r, vs, t) ==
    LET new == {[v EXCEPT !.time = t, !.rv = t] : v \in vs}
    IN  /\ run' = [r EXCEPT !.versions = FoldSet(LAMBDA v, held : Record(held, v), @, new)]
        /\ objs' = {v \in objs : \A w \in vs : w.key # v.key} \cup {v \in new : ~v.deleted}

\* The history with a request of the target's, for one object or a collection.
Ask(verb, keys, status) ==
    [run EXCEPT !.requests = Append(@, [start |-> Stamp, res |-> "object", verb |-> verb,
                                        keys |-> keys, status |-> status, failed |-> FALSE])]

New(key, owner, t) ==
    [key |-> key, uid |-> t, rv |-> t, time |-> t, owner |-> owner,
     fin |-> key \in PrimaryKeys, deleting |-> FALSE, deleted |-> FALSE,
     ready |-> FALSE, val |-> 0]

Restarting == now < started
IsBack == ~Restarting /\ Back(run.requests, started) # 0

-----------------------------------------------------------------------------
(* Settle waits (settle.go, runner.go). *)

\* Every CR is ready and none is being deleted, on a target that is back.
ReadyNow == IsBack /\ \A cr \in CRsNow : cr.ready /\ ~cr.deleting

LastChange ==
    Max({wait.began, started, Back(run.requests, started)} \cup
        {v.time : v \in Range(Window(run.versions, wait.began, now))})

Converges == ReadyNow /\ now >= LastChange + Stable /\ now >= wait.floor
GivesUp ==
    now >= Max({wait.began + Settle, WaitOwed([run EXCEPT !.end = now], now)} \cup
               (IF wait.floor = 0 THEN {} ELSE {wait.floor + Stable}))

Waits == phase \in {"wait", "recovery"}
CRGone == ~Exists(plan.ops[pc].key)
Overstays == now >= Later(wait.began + Delete, WaitOwed([run EXCEPT !.end = now], now))
Empty == objs = {}

\* What the Runner does next is due at this poll.
Due ==
    /\ now % Poll = 0
    /\ \/ Waits /\ (Converges \/ GivesUp)
       \/ phase = "gone" /\ (CRGone \/ Overstays)
       \/ phase = "quiet" /\ run.quiet # 0 /\ now >= run.quiet + Stable
       \/ phase = "deletion" /\ (Empty \/ now >= run.teardown + Delete)

\* A checkpoint: every check runs, and a violation ends the run.
Checkpoint(r, settle, stayed, next) ==
    LET c == [op |-> wait.op, began |-> wait.began, time |-> now, settle |-> settle,
              stayed |-> stayed, held |-> FALSE]
        after == [r EXCEPT !.checkpoints = Append(@, c)]
    IN  /\ run' = after
        /\ judged' = IF settle = "expired"
                     THEN Append(judged, [at |-> c, excused |-> Excused(after, c)])
                     ELSE judged
        /\ found' = Evaluate(after)
        /\ phase' = IF found' = {} THEN next ELSE "done"
        /\ wait' = NoWait
        /\ UNCHANGED <<now, plan, objs, started, fixture, odd>>

WaitEnds ==
    /\ Due /\ Waits
    /\ Checkpoint(run, IF Converges THEN "converged" ELSE "expired", FALSE,
                  IF phase = "wait" THEN "op" ELSE "quiet")
    /\ UNCHANGED pc

-----------------------------------------------------------------------------
(* Ops (applyOp, apply, create, recreate, applyDeleteManaged, inject). *)

\* The versions an op writes.  A change of a fixture is new input to every
\* CR, whose status is then of the old input.
Changed(op, t) ==
    CASE op.type = "create" -> {New(op.key, 0, t)}
      [] op.type = "update" -> {[v EXCEPT !.ready = FALSE, !.val = t] :
                                v \in {x \in objs : x.key = op.key}}
      [] op.type \in {"delete", "recreate"} ->
            {[v EXCEPT !.deleting = TRUE] : v \in {x \in objs : x.key = op.key}}
      [] op.type = "deleteManaged" ->
            {[v EXCEPT !.deleted = TRUE] : v \in {x \in objs : x.key = op.key}}
      [] op.type = "updateFixture" \/ ~fixture -> {[cr EXCEPT !.ready = FALSE] : cr \in CRsNow}
      [] OTHER -> {}

ApplyOp ==
    LET op == plan.ops[pc + 1]
        t == Stamp
        entry == [index |-> pc, type |-> op.type, time |-> t,
                  deleted |-> IF op.type = "deleteManaged" /\ Exists(op.key)
                              THEN op.key ELSE NoKey,
                  cr |-> IF op.key \in PrimaryKeys THEN op.key ELSE NoKey,
                  restored |-> ~fixture]
        logged == [run EXCEPT !.ops = Append(@, entry)]
    IN  /\ phase = "op" /\ pc < Len(plan.ops) /\ PendingRestart(run, now) = 0 /\ HasInstant(3)
        /\ pc' = pc + 1 /\ now' = t + 2
        /\ Write(logged, Changed(op, t + 1), t + 1)
        /\ fixture' = (op.type # "deleteFixture")
        /\ started' = IF op.type = "restart" THEN t + 1 ELSE started
        /\ phase' = IF op.type = "recreate" THEN "gone" ELSE IF Sequence!Settles(op) THEN "wait" ELSE "op"
        /\ wait' = IF ~Sequence!Settles(op) THEN NoWait
                   ELSE [op |-> pc, began |-> t + 2,
                         floor |-> IF entry.deleted # NoKey THEN RecreateOwed(run, t) ELSE 0]
        /\ UNCHANGED <<plan, odd, judged, found>>

\* A recreate waits for its CR to go before it creates it again.
CreateAgain ==
    /\ phase = "gone" /\ Due /\ CRGone
    /\ now' = Stamp + 1
    /\ Write(run, {New(plan.ops[pc].key, 0, Stamp)}, Stamp)
    /\ phase' = "wait" /\ wait' = [wait EXCEPT !.began = Stamp + 1]
    /\ UNCHANGED <<plan, pc, started, fixture, odd, judged, found>>

\* judgeStayed: where no check reports, the run skips its other ops.
CRStayed ==
    /\ phase = "gone" /\ Due /\ ~CRGone
    /\ Checkpoint(run, "expired", TRUE, "op")
    /\ pc' = Len(plan.ops)

-----------------------------------------------------------------------------
(* Faults and the target. *)

CanAct == phase # "done" /\ ~Due /\ HasInstant(1)
Step == now' = Stamp /\ UNCHANGED <<plan, pc, phase, wait, fixture, judged, found>>

\* The first request a fault is applied to, if any is, opens its window
\* (engineFaults); the teardown clears the fault.
FaultStarts ==
    /\ phase \in {"op", "wait", "gone"}
    /\ Len(run.faults) < Len(SelectSeq(run.ops, LAMBDA op : op.type = "fault"))
    /\ CanAct
    /\ run' = [run EXCEPT !.faults = Append(@, [start |-> Stamp, end |-> 0])]
    /\ Step /\ UNCHANGED <<objs, started, odd>>

FaultStops(i) ==
    /\ run.faults[i].end = 0 /\ CanAct
    /\ run' = [run EXCEPT !.faults[i].end = Stamp]
    /\ Step /\ UNCHANGED <<objs, started, odd>>

\* The launcher supervises the target from its first convergence on.
Exits ==
    /\ phase \in {"wait", "gone", "recovery"} /\ Len(run.exits) < plan.exits
    /\ ~Restarting /\ ConvergedTimes(run) # {} /\ CanAct
    /\ plan.prompt => FaultsExcuse(run, Stamp)
    /\ started' = Stamp + Poll
    /\ run' = [run EXCEPT !.exits = Append(@, [at |-> Stamp, restart |-> Stamp + Poll])]
    /\ Step /\ UNCHANGED <<objs, odd>>

\* The target's work, whatever is left to do for a CR.
Lacks(cr) == ~cr.deleting /\ ~Exists(KidOf[cr.key])
Unready(cr) == ~cr.deleting /\ ~cr.ready /\ fixture /\ Exists(KidOf[cr.key])
HasWork == ~Restarting /\ ((\E cr \in CRsNow : cr.deleting \/ Lacks(cr) \/ Unready(cr)) \/ ~IsBack)

Target(r, vs) == CanAct /\ Write(r, vs, Stamp) /\ Step /\ UNCHANGED <<started, odd>>

Return == ~Restarting /\ ~IsBack /\ Target(Ask("list", PrimaryKeys, FALSE), {})

MakeKid(cr) ==
    LET kid == KidOf[cr.key]
    IN  /\ Lacks(cr) /\ IsBack
        /\ Target(Ask("create", ManagedKeys, FALSE),
                  {New(kid, IF kid \in OwnedKids THEN cr.uid ELSE 0, Stamp)})

ReportReady(cr) ==
    Unready(cr) /\ IsBack /\ Target(Ask("update", {cr.key}, TRUE), {[cr EXCEPT !.ready = TRUE]})

Sweep(cr) ==
    LET kid == KidOf[cr.key]
    IN  /\ cr.deleting /\ Exists(kid) /\ IsBack
        /\ Target(Ask("delete", {kid}, FALSE), {[Object(kid) EXCEPT !.deleted = TRUE]})

\* A target that lapsed may leave the object behind.
Finalize(cr) ==
    /\ cr.deleting /\ (odd = 0 => ~Exists(KidOf[cr.key])) /\ IsBack
    /\ Target(Ask("update", {cr.key}, FALSE), {[cr EXCEPT !.deleted = TRUE]})

\* The garbage collector takes an object whose owner is gone.
Orphaned(v) == v.owner # 0 /\ ~HoldsUID(objs, v.owner)
Collect(v) == Orphaned(v) /\ Target(run, {[v EXCEPT !.deleted = TRUE]})

\* A target that is not prompt lapses: from then on it does its work, or
\* leaves it, whenever it likes.
Lapse ==
    /\ ~plan.prompt /\ odd < MaxOdd /\ CanAct /\ HasWork /\ IsBack
    /\ odd' = odd + 1
    /\ UNCHANGED <<now, plan, pc, phase, wait, run, objs, started, fixture, judged, found>>

\* It withdraws a status it wrote.
Withdraw(cr) ==
    /\ ~plan.prompt /\ odd < MaxOdd /\ cr.ready /\ CanAct /\ IsBack
    /\ Write(Ask("update", {cr.key}, TRUE), {[cr EXCEPT !.ready = FALSE]}, Stamp)
    /\ odd' = odd + 1
    /\ Step /\ UNCHANGED started

-----------------------------------------------------------------------------
(* The teardown. *)

\* It clears the faults, and waits once more for a target they still excuse.
BeginTeardown ==
    LET t == Stamp
        cleared == [run EXCEPT !.faults = [i \in DOMAIN @ |->
                       IF @[i].end = 0 THEN [@[i] EXCEPT !.end = t] ELSE @[i]]]
        recovering == Recovering([cleared EXCEPT !.end = t + 1], t + 1)
    IN  /\ phase = "op" /\ pc = Len(plan.ops) /\ HasInstant(2)
        /\ now' = t + 1 /\ run' = cleared
        /\ phase' = IF recovering THEN "recovery" ELSE "quiet"
        /\ wait' = IF recovering THEN [op |-> RecoveryOp, began |-> t + 1, floor |-> 0] ELSE wait
        /\ UNCHANGED <<plan, pc, objs, started, fixture, odd, judged, found>>

BeginQuiet ==
    /\ phase = "quiet" /\ run.quiet = 0 /\ HasInstant(1)
    /\ now' = Stamp /\ run' = [run EXCEPT !.quiet = Stamp]
    /\ UNCHANGED <<plan, pc, phase, wait, objs, started, fixture, odd, judged, found>>

DeleteCRs ==
    /\ phase = "quiet" /\ Due
    /\ Write([run EXCEPT !.teardown = Stamp], {[cr EXCEPT !.deleting = TRUE] : cr \in CRsNow}, Stamp + 1)
    /\ now' = Stamp + 1 /\ phase' = "deletion"
    /\ wait' = [op |-> TeardownOp, began |-> 0, floor |-> 0]
    /\ UNCHANGED <<plan, pc, started, fixture, odd, judged, found>>

EndDeletion ==
    /\ phase = "deletion" /\ Due
    /\ Checkpoint([run EXCEPT !.end = now, !.cleaned = IF Empty THEN now ELSE 0],
                  "none", FALSE, "done")
    /\ UNCHANGED pc

-----------------------------------------------------------------------------
(* Time. *)

\* How long a prompt target may take: while a fault is active, and as long
\* after it stopped as this process has been failing, until the run converges.
Grace ==
    Max({0} \cup {f.end + (f.end - Later(f.start, started)) :
                   f \in {x \in Range(run.faults) : x.end > Later(started, LastConverged(run, now))}})
MustAct ==
    \/ odd = 0 /\ HasWork /\ now >= Grace /\ ~Faulted(run, now, now)
    \/ \E v \in objs : Orphaned(v)

\* The Runner applies an op, or tears down, as soon as there is an instant.
RunnerMoves ==
    \/ phase = "op" /\ (pc = Len(plan.ops) \/ PendingRestart(run, now) = 0) /\ HasInstant(3)
    \/ phase = "quiet" /\ run.quiet = 0 /\ HasInstant(3)

Tick ==
    /\ phase # "done" /\ ~Due /\ ~RunnerMoves /\ (~MustAct \/ ~HasInstant(1))
    /\ now' = ((now \div Poll) + 1) * Poll
    /\ UNCHANGED <<plan, pc, phase, wait, run, objs, started, fixture, odd, judged, found>>

Done == phase = "done" /\ UNCHANGED vars

Next ==
    \/ ApplyOp \/ CreateAgain \/ CRStayed \/ WaitEnds
    \/ FaultStarts
    \/ \E i \in DOMAIN run.faults : FaultStops(i)
    \/ Exits \/ Return \/ Lapse
    \/ \E cr \in CRsNow : MakeKid(cr) \/ ReportReady(cr) \/ Sweep(cr) \/ Finalize(cr) \/ Withdraw(cr)
    \/ \E v \in objs : Collect(v)
    \/ BeginTeardown \/ BeginQuiet \/ DeleteCRs \/ EndDeletion
    \/ Tick \/ Done

Spec == Init /\ [][Next]_vars

-----------------------------------------------------------------------------
(* Properties. *)

\* The one case in which a prompt target fails its property: a fault reached
\* into the wait after a deleteManaged, and convergence ended the time the
\* target was owed.
PropertyOwed ==
    \E op \in Range(run.ops) : op.deleted # NoKey /\ Faulted(run, op.time, now)

\* A target that keeps every promise - it does its work at once whenever it is
\* back, no fault is active and none lately kept it from it, and it exits only
\* where a fault excuses it - is never blamed, whatever the faults and exits
\* do to the waits.
PromptTargetPasses ==
    plan.prompt => /\ found \subseteq {"P"}
                   /\ found # {} => PropertyOwed

\* A settle wait that ran out outside of what faults excuse, a recreate's wait
\* for its CR included, has a check that reports it where it ends: Excused
\* hands a wait from G4 to G3 only where G3 judges the same CR.
ExpiredWaitAnswered ==
    \A i \in DOMAIN judged :
        LET c == judged[i].at
        IN  Recovering(run, c.time) \/ found \cap {"G3", "G4"} # {}

\* "The Runner raises it where the wait ends, and the engine at every
\* checkpoint after, so the two cannot disagree": the excuse of a wait never
\* changes as the history grows.
VerdictStands ==
    \A i \in DOMAIN judged : Excused(run, judged[i].at) = judged[i].excused

\* A wait reported as expired left the target Settle, and Settle past every
\* fault that stopped since the run last converged.
BlamedInTime ==
    \A i \in DOMAIN judged :
        LET c == judged[i].at
            since == LastConverged(run, c.began)
        IN  ~judged[i].excused /\ ~c.stayed =>
              /\ c.time >= c.began + Settle
              /\ \A f \in Range(run.faults) : f.end > since => f.end + Settle <= c.time

\* What the user is told before each run starts.
ToldBound == [ops \in {p.ops : p \in Plans} |-> Sequence!BoundOf(<<ops>>)]

\* A run takes no longer than the user is told before it starts.
RunWithinBound == now <= ToldBound[plan.ops]
=============================================================================
