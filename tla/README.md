# A TLA+ model of the reconciler fuzzer

The repository's program, `reconciler-fuzzer`, tests Kubernetes controllers. It
starts a real API server (envtest), launches a controller, the *target*, behind
a proxy that injects faults into the controller's requests, applies a sequence
of operations (create, update and delete objects, inject faults, restart the
target), waits after each until the target has settled, and judges what it
observed against the invariants G1 to G7. A failing sequence is shrunk and
reported. A verdict is only worth something if the harness around the target is
right: a second instance of the target, a fault that outlives its window, or an
object deleted by the harness that nobody deleted, all turn into findings about
the wrong program.

The specifications here model the harness, the engine that judges, the commands
around it and the sample controller. Each module states what the code does at the
grain of its critical sections and its calls to the API server; TLC checks them on
small instances, and TLAPS proves the most important results for every instance.

## The system

| component | state | operations | hard behaviour |
|---|---|---|---|
| launcher, `internal/launch/binary.go` | the process it holds, the supervisor's callback, restart count, pending restart timers, `failed`, `gone` | Start, Supervise, Status, Restart, Stop; reap and restart in goroutines | exits, reaps and timers race the calls; Stop and Restart wait under the lock; a descendant can keep the output open |
| fault proxy, `internal/proxy` | faults with their counts and stamps, the requests each holds, the request log | AddFault, RemoveFault, ClearFaults, Window, Held, Stop; `serve` for each request | a goroutine per request; clocks read before the lock |
| fault timeline, `internal/run/runner.go` | the faults still held, the windows of the timeline | inject, expireFaults, readFaultWindows, clearFaults | reads the proxy one fault at a time and drops a fault for good |
| garbage collector, `internal/cluster/collector.go` | informer stores, one pending sweep, retries, the log of deletes, unresolved owners | notify, sweep, delete, logFailure, Stop | lagging caches, owners that come and go during a sweep, calls that fail with or without their effect |
| runner, `internal/run/runner.go`, `live.go` | the sequence, live objects, deleted fixtures, timeline | the ops, checkpoints, teardown | the target acts between any two calls |
| settle wait, `internal/run/settle.go` | the readings of a turn, the deadline | wait, state, heldOpen | reads the launcher, the proxy and the Observer one after the other while the target goes on |
| recovery and bound, `internal/run/bound.go`, `internal/invariant/recovery.go`, `window.go` | time owed to the target | Owed, RecreateOwed, Bound | what a fault or an exit excuses, and for how long |
| harness, `internal/run/run.go`, `teardown.go` | the stack of teardown steps | Start, Stop | failure part of the way |
| observer, `internal/observe` | the states seen, by object | record, Exclude, Close | watch events against exclusions |
| checks G1–G7, `internal/invariant` | none (functions of a history) | one check each | attribution, windows, deadlines |
| sequences and generator, `internal/run/sequence.go`, `internal/generate` | a sequence under construction | validate, generate | what is generated must be valid |
| shrinker, `internal/run/shrink.go` | the smallest failing sequence so far | remove an op, weaken a fault, another pass | the shrunk sequence must still fail in the same way |
| command line, `cmd/reconciler-fuzzer` | the summary, the run directories, the shared session | the planned runs, minimizing and the second run, the bug matrix | a signal, a kill or the deadline at any step; what is then on disk |
| sample target, `targets/toy-widget` | Widgets and what they own | Reconcile, with switchable flaws | crashes between writes |
| loading, schemas, reports, envtest and RBAC set-up | – | – | sequential conversion and set-up |

The run goroutine brings up the cluster, the namespace, the identity, the proxy,
the observer, the collector and the target, in this order
(`internal/run/run.go`, `Start`), and pushes the undoing of each on a stack. It then applies the
sequence: each op first expires faults (a call to the proxy per fault), awaits a
supervised restart and reads the launcher's status, restores deleted fixtures, and
then acts. The waits poll the API server, and read the proxy's faults and holds.
All the while the target's requests run through the proxy, the launcher's
goroutines reap and restart it, and the collector deletes what has lost its owners.

### What makes each component correct

* Launcher: one instance of the target at a time; every exit heard once and
  answered; Stop is final; Stop and Restart always return; Status tells the truth.
* Fault proxy: a fault hits no more requests than its count and none after its
  removal; what `Window` reports as over is over; Stop returns.
* Fault timeline: a window the runner no longer reads agrees with the proxy and
  contains every request the fault touched: the checks excuse or blame the target
  by these windows.
* Collector: it deletes nothing that has a live owner, deletes every orphan in
  the end, and its log names every delete that can have happened and only owners
  that are gone: the checks subtract the collector's deletes from the target's.
* Settle wait: it converges only on a run that was quiet for `timeouts.stable`,
  gives up only when the target had its time, and ends within the bound.
* Engine: a target that keeps its promises is never blamed, one that outstays
  its time always is, and what a checkpoint said of a wait stays true.
* Bound: no run outlasts what the user is told before it starts.
* Runner: a pass was judged in full; fixtures come back when due; a run leaves
  nothing behind that it did not report, but for what a failing step of Start half
  made; every run ends.
* Harness: exactly what was brought up is taken down, the last first, whichever
  steps fail.
* Generator and shrinker: what is drawn is valid and will be judged; what is
  shrunk means the same as before, is minimal, and shrinking ends.
* Command line: what is on disk is true wherever the process dies; the exit
  status tells what happened, and what stays up of the cluster is named.
* Sample controller: it leaves no child behind and comes to rest only where its
  Widget asks for nothing more.

`PROJECT.json` lists the hazards, each at its line with the properties that cover it.

## Modules

| module | models | composed with |
|---|---|---|
| `Launcher` | `launch.Binary` and the runner's calls of it | – |
| `LauncherProofs` | theorems about `Launcher` | extends `Launcher` |
| `FaultProxy` | `proxy.Proxy`, one process per request | – |
| `FaultTimeline` | the runner's record of faults | extends `FaultProxy`; the runner's steps are interleaved with the proxy's |
| `FaultProofs` | theorems about `FaultProxy` and `FaultTimeline` | extends `FaultTimeline` |
| `Settle` | one settle wait against a target, launcher, Observer and proxy | – |
| `SettleProofs` | theorems about `Settle` | extends `Settle` |
| `GarbageCollection` | abstract: the API server's objects, and when one may be collected | – |
| `Collector` | `cluster.Collector` with its informers, sweeps and calls | extends `GarbageCollection`; implements `GCSpec` |
| `CollectorProofs` | theorems about `Collector` | extends `Collector` |
| `SequenceFormat` | ops and sequences, and what makes them valid (`sequence.go`) | – |
| `ObserverStore` | the Observer's history and what is read from it (`store.go`) | – |
| `Invariants` | G1 to G7, the property, recovery, windows and excuses (`internal/invariant`), as operators over a history | extends `ObserverStore` |
| `Bound` | the bound on a run (`bound.go`) | extends `SequenceFormat` |
| `JudgedRun` | a run on a clock with the engine's verdict at each checkpoint | extends `Invariants`; `INSTANCE Bound WITH` its timeouts one poll longer |
| `Generate` | the drawing of a sequence (`internal/generate`) | extends `SequenceFormat` |
| `Shrink` | the shrinking of one (`shrink.go`) | extends `SequenceFormat` |
| `DrawAndShrink` | a sequence drawn, and shrunk where its run failed | extends `Generate`, `Shrink` |
| `DrawAndShrinkProofs` | theorems about `Generate` and `Shrink` | extends `DrawAndShrink` |
| `Bracket` | abstract: resources acquired and released last first | – |
| `Harness` | `Start`, `Stop`, the teardown stack, the identity | implements `Bracket` |
| `Runner` | a run's control over a harness (`runner.go`, `live.go`) | extends `Harness`, `SequenceFormat` |
| `RunnerProofs` | theorems about `Harness` and `Runner` | extends `Runner` |
| `Invocation` | the command line, the summary and the run directories, the matrix, signals | – |
| `InvocationProofs` | theorems about `Invocation` | extends `Invocation` |
| `Widget` | the sample controller over a lagging cache | – |
| `WidgetProofs` | theorems about `Widget` | extends `Widget` |
| `MC…` | constants, symmetry and compositions for TLC | extend the module they are named for |

Definitions whose comment begins with "Mutant:" are variants of the code as a
plausible slip would have it. No specification uses them; each is there to show
that the property it is listed with in `PROJECT.json` can fail. Three more are about
the other halves of a property: `startFailedUnwound` breaks NothingLeft,
`rerunningUnsaved` FilesHonest and `recheckedNot` ExitTells.

### Launcher

A process is the number of the start that made it. `proc[p]` goes through
`alive`, `dead` (ended, `cmd.Wait` not returned), `exited` (`done` closed) and
`reaped`. The critical sections of `Binary.mu` are single actions, except those
of Stop and Restart, which wait for `done` under the lock: `caller` says where
the run goroutine is, and `Unlocked` guards reap and restart meanwhile. `CheckStatus`
is the runner's reading of Status before it applies an op (`applyOp`), which
restoring fixtures separates from the op itself. `cmd.Start` may fail at any time, and so
may the sending of a signal to a process that lives (`signalFails`); a process may
exit at any time; the run's context may end at any time. `delays` and `killed`
are history variables: the delay given to each restart, and the processes that
SIGKILL found alive.

Left out: arguments, environment, log files and exit texts of the process.

### FaultProxy and FaultTimeline

A request goes through `arrived`, `judging` (clock read, lock not taken),
`judged`, `held`, `forwarded`, `answered`, `served`; a fault is the record of its
spec, stamps and count. What a fault matches is a set of requests; `Fraction` is
a choice to spare. A delay lasts for some time or until the target hangs up.
Removals, clears and windows may come at any time in `FaultProxy`; in
`FaultTimeline` they come in the order the runner makes them, one lock at a time.
Like `faultFor`, `Window` reads the clock before it takes the lock, so the reading in
`FaultTimeline` may be judged at any earlier instant.

Close breaks every connection, so a handler whose request is held or whose watch is
open goes on once Stop has begun (`broken`); Stop waits for those. A handler
that `net/http` starts after Stop found none in flight still adds its request to the log:
the model has it, and no property says the log is whole when Stop returns, since
the code does not see to it.

Left out: paths, verbs and bodies; upgraded connections, which no fault touches;
`Held`, which `Settle` models; an error of `server.Close`, with which Stop returns
without waiting.

### Settle

One wait, in a world that goes on between any two of its readings: versions are
recorded, the target exits, starts and is given up, requests reach the proxy, are
held or passed on, and released. Each reading of `wait` and `state` is a step, in
the code's order: launcher, log, readiness, changes, clock, stop, holds, what is
owed, holds again. `owed` is a parameter of the wait in the code, too; here it
may answer anything up to `OwedBy`, and differently every time. `basis`, which the
code does not have, is the time of the last change that the readiness read rests on.
`Tick` keeps to the times the code sets: a delay is no longer than `Delay`, the
wait sleeps for one unit, and no goroutine is later than `Lag`.

Left out: leader election in `Back` (every request shows the target running).

### GarbageCollection and Collector

An object is its UID, resourceVersion, owner references, finalizer and deletion
mark. The API server is modelled as the collector depends on it: a fresh UID for each
object, a greater version for each write, preconditions on deletes, finalizers.
The target and the runner (`Others`) create, adopt, release, delete and finalize
at any time. An informer delivers the events of each object in order, with any
delay. A sweep lists kind by kind, reads each owner live once, then judges object
by object; a delete is sent, served by the API server at any later time, and
answered or failed. A failed call may have had its effect, may have it later
(even after Stop), or never.

`GarbageCollection` is the promise: an object may be deleted by the collector
only in a state where every owner is gone, which is what kube-controller-manager
would do. `writer` tells the collector's deletes from the others', so an
implementation cannot pass off a wrong delete as the target's.

Left out: log texts and the order of what `WriteLog` prints.

### SequenceFormat, Generate and Shrink

A sequence is a sequence of records: the type of the op, the object it names, the
op at which a fixture comes back (`until`), `noSettle`, and a fault's trigger and
delay. `i` is the op's place, which keeps two equal ops apart. `Valid` and
`ValidCRs` are `Sequence.validate` and `checkCRs`.

`Generate` draws an op at a time in the state `generate.go` keeps (which CRs live,
with the one value that must be distinct, and which fixtures are gone), then puts
in the settle waits (`checkpointed`) and at most one fault (`faulted`), which
shifts the indices of what follows. `Shrink` removes or weakens an op at a time,
pass after pass. What a replay shows is its oracle: the candidate fails where it
still has the ops the bug needs and faults that last as long, or, for a flaky
bug, at random. `DrawAndShrink` puts the two together as `reportFailure` does. The
command line shrinks only what was drawn; `Shrink` itself takes any valid
sequence, so `Given` adds others, with counts, durations and delays that the drawn
faults of the model do not have.

A fault may name an op past the last one, which lasts to the end of the run
(`sequence.go` asks only that it come later). Removing the ops before it moves the
index back, not to the end; EndsWhereItDid asks of such an index that it still is
past the last op.

Left out: the values drawn from a CRD schema, which are a small set with a
refusal of the CRD's own (of an update by the object it changes, of a create and
a recreate without one); weights and seeds of the draws; a replay's time.

### ObserverStore, Invariants, Bound and JudgedRun

The engine's `Input` is a record: the ops, checkpoints, fault windows, exits,
requests and versions, with their times, and the teardown's instants. Each check
is an operator from it to what it reports. `JudgedRun` produces such histories: the runner
applies the ops of a plan, waits and judges; the target returns after a start,
makes and deletes its objects and reports readiness, or, in a plan that is not
`prompt`, lapses once; a fault's window opens with the first request it hits, at its op, in
the middle of a later wait, or never, and ends; the target exits where it may. A request
names the objects it is about, which for a deletecollection are all of its kind, and whether
it writes a status.
A wait polls at the multiples of `Poll`, and the instants between are the events',
one each, so that no two events share an instant.

A *prompt* target does its work at once whenever it is back and no fault is active
or has lately been, for as long as the fault had kept this process from its work, which is what
`recovery.go` gives a backoff that doubles.

Left out: G2's and G5's comparison of fields (a value stands for the spec and the
status), requests and faults of single verbs and paths, what `Held` adds to a wait
(`Settle` has it), the failure of a check itself (`Runner` has it), and the
saturation of `Bound`'s float64 sum, which the small times never reach.

### Bracket, Harness and Runner

`Harness` goes through the steps of `Start`, each of which may fail, for every
kind of cluster and identity. `down` is the stack of `teardown.go`, `taking` what the
teardown under way has yet to run, `up` what is up in the world. A step of a
teardown may leave some or all of what it was to take down. A step of `Start` that fails may have
brought something up all the same (`halfMade`): a control plane that `env.Start` could
not finish, a namespace whose create took, parts of an identity that could not be taken
back. Nothing of that is pushed, and no error names it as left. `Bracket` is what the
stack promises, under the mapping `held <- down \o taking`.

`Runner` adds the run: `r` is the runner's own state, `env` the world. An action is
one call of the runner's and what it does next with the answer; `r.deleted` holds
the places of the ops that deleted a fixture, which is the order the code keeps them in; between two of
them the caller's context may end, the target may stop, a CR may go, and another
client may put back a fixture. Time is left out (see `JudgedRun`): a wait
converges or runs out, and what the checks say is any answer they could give.
`plan` has passed `validateRun`, and an op of it may yet be refused with nothing going
wrong around the run: a deleteManaged of a kind that is not managed or a fixture that is
not declared or is cluster-scoped (`Unknown`), a CR of another kind or one the API server
turns away, a fault on a resource that is not served (`Refused`). A call that fails may
have taken: a CR then exists that the runner does not know of, a fixture is back that the
timeline does not call restored.
A wait converges only where no CR is under deletion (`ready` in `settle.go`), as
the Observer has seen it: an event later than the quiet window, on which a wait
converges too soon, is one of the mishaps. `MaxMishaps` bounds how much goes wrong.

Left out: notes and tails of output that go with an error, and `targetStopped`'s wording.

### Invocation

One process: plan, session, shared fixtures, runs, minimizing, second run, report,
summary, close, exit; or the bug matrix. `disk` is the summary as last written,
`dir[i]` what run i's directory holds. `truth` is what really happened to each run, which
no code has. The first signal ends the context, the second kills the process at
any step; the deadline ends it too. A run, a shrink pass and a write of a file
are one step each. `find` holds the variables of `reportFailure`: the sequence the shrink
pass ended with and the one to report, which the code chooses without looking at the
directory; `dir[i]` has what the recordings are of, what `sequence.json` and the report are of,
and what was left unrun. The two readings of `ctx.Err()` are steps of their own
(`CutShort`, `Minimized`). A second run may record nothing or its sequence only, its directory may
not be removable, a report or a sequence may not be writable. Of the cluster, `shared` is
what is up, `created` what the session knows it made, `told` what an error named: a create
that fails may have taken, a deletion or the stop of the cluster may fail, and a
control plane may be left by a start that failed. A call that fails took
before it failed or never takes.

Left out: flags, printed text, seeds, JUnit files; a summary that cannot be
written (a warning in the code). That an invocation ends is not claimed: `close` deletes
with `context.Background()` and no timeout (`cli.go:985`), so it lasts as long as
the API server takes to answer.

### Widget

The controller of `widget_controller.go` with no seeded bug. `cache` lags behind
`api` object by object, in order; every event queues the Widget. A reconcile is
a step per call. Patches go by name and say nothing of versions, updates carry
the cached version, deletes go by name, as in the code. Any call may fail and the process may restart
between any two. A cached child of an earlier Widget of the same name is adopted, as
`SetControllerReference` compares an owner's group, kind and name and not its UID. Two of
the seeded bugs (B14 and B6 of `bug.go`) and a read from the cache in
place of one past it are the mutants.

Left out: `CleanupDelay`, `Resync` and leader election, which are off by default.

## Runs

| run | checks | shows |
|---|---|---|
| `launcher` | OneInstance, ExitsHeard, StopIsFinal, ExitIsAnswered, CallsReturn | up to four starts: restarts race an exit, the backoff passes its cap; a supervised exit is answered and no call waits for ever |
| `fault_proxy` | FaultLimits, StopEnds, RetiredForGood, RemovedFaultEnds | two requests, two faults of every kind, any calls; a removed fault lets go of what it holds, and Stop returns though requests are held and watches open |
| `fault_timeline` | DroppedIsFinal, WindowHoldsRemoved | the timeline agrees with the proxy |
| `collector` | LoggedOwnersGone, NoSilentDelete, GCSpec | the collector implements garbage collection and its log is true |
| `collector_live` | OrphanCollected | an orphan is collected in the end |
| `settle` | ConvergedQuiet, GaveUpInTime, WaitEnds | a wait that reads the run piece by piece ends when it should, and ends |
| `judged_run` | PromptTargetPasses, ExpiredWaitAnswered, VerdictStands, BlamedInTime, RunWithinBound | thirteen runs, with a fault, a restart, an exit or a lapse in the way: the engine blames whom it should, when it should, and keeps to it |
| `draw_and_shrink` | DrawnIsLegal, DrawnIsJudged, EndsWhereItDid, Minimal, ShrinkEnds | every sequence of three drawn ops and their faults; three written ones shrunk for every bug that needs up to two ops |
| `run` | NothingLeft, PassIsJudged, FixturesRestored, FailsForCause, BracketSpec, RunEnds | every way to bring a run up, sequences with every kind of op, refused ones included, up to two mishaps |
| `invocation` | FilesHonest, ExitTells | three runs or a matrix of two bugs, a signal, a kill and the deadline anywhere |
| `widget` | NoOrphans, QuietIsRight, ComesToRest | three ops of the user, one failed call or restart |
| `launcher_status` | StatusTellsAlive – violated | finding 1 |

The type invariants of `Launcher`, `Collector`, `FaultProxy`, `FaultTimeline`,
`Settle`, `Invocation` and `Widget` are not among the runs' properties: they are
proved, as theorems or as parts of the inductive invariants below.

### Bounds

* `MaxProcs` 4: a target, a restart by the supervisor, one by an op and one more,
  enough for a stale timer, a stale reap and a live process to coexist. With base
  3 and cap 5 the third delay is past the cap, which is not a doubling of the base,
  so a missing cap and a wrong doubling both show.
* `Requests` 2, `MaxFaults` 2, `MaxTime` 2 or 3: the races are between two
  requests, or one request and one call. Three instants tell before, at and after a
  window's end. Counts are 0 to 1 or 2, as `MCFaultProxy` and `MCFaultTimeline` say.
* Collector: an owner of a watched kind, one of an unwatched kind, and a
  dependent; three UIDs, so that an owner or dependent is replaced under its name;
  four writes of others besides the collector's own; one failing call. Two keys
  and three writes for liveness.
* Settle: `stable` 1 unit and `settle` 2 (loading requires stable to be the
  less), a delay of 1, an owed time that can exceed `settle` and a floor that
  with `stable` does; two requests, so that one hold ends while another
  lasts; the clock runs to the bound `WaitEnds` states. Changes come in the
  first three instants, where they race every reading of a turn. The theorems
  hold for every floor, 0 (no floor) included.
* JudgedRun: `settle` two polls, `delete` three, `stable` one, nine events between
  two polls; two CRs, one with an owned object and one without; at most two more
  ops between the first create and the last settle, one fault and one exit:
  each plan is there for a rule of the engine that another does not reach. `delete` is
  three polls because G3 excuses no exit: see Findings. With at most one fault and no
  delay, the bound's doubling from fault to fault is not reached, and RunWithinBound says
  nothing of it. BlamedInTime says how soon blame may come at the earliest; that it comes at
  all is ExpiredWaitAnswered.
* Generate and Shrink: three ops, two CRs, a value another CR falls back on and one
  the CRD refuses. With four ops (1.7 million states) they hold too.
* Runner: two fixtures, so that one comes back and the next fails; two mishaps, so
  that a failure meets an interrupt, a meddler or a failing teardown.
* Invocation: three runs: the first starts whatever the deadline, the others do not.
* Widget: two children, up to three Widgets of a name, three ops. With four ops
  (4.8 million states) the properties hold too.
* Deadlock is not checked where a system may stop (the target idle, the clock at its
  bound, the collector stopped). That nobody waits for ever is stated by the
  liveness properties instead. JudgedRun, Runner, Generate and Shrink, Invocation
  and Widget are checked for deadlock: each ends in a step of its own.

### Fairness

* Launcher: goroutines that hold a reaped process and timers run, a wait under
  the lock ends when its timer fires, and the kernel ends a process sent SIGKILL.
  Nothing makes a target exit by itself, a descendant close its output, or the
  runner make another call.
* Fault proxy: handlers go on, and the timer of a delay fires. The API server
  need not answer, and a watch may stay open for ever, until Close breaks its
  connection; then the handler goes on.
* Collector: informers deliver, the collector's goroutine runs, timers fire, and
  the API server answers the delete the sweep waits for (or the call fails).
  That failures are finitely many is the bound `MaxFailures`.
* Runner, Shrink: one goroutine that goes on; each of its waits has a
  time of its own. Nothing is assumed of the target. Invocation has no fairness.
* Widget: the worker takes what is queued, and each informer delivers. Failed
  calls, restarts and the user's ops are bounded, not fair.

## Findings

1. `stayDown` sets `failed` for good (`binary.go:286`). If the supervisor gives the target up
   between the runner's status check and its restart op, Restart starts a live
   process that Status reports as not running; a second `stayDown` would close
   `gone` twice, which panics. The run `launcher_status` shows the steps.

While modelling, the code was also met to differ from a comment or a doc in these
places. The models follow the code; each is a case that a stronger form of the
property named would exclude, and none has a run of its own.

* `reap` (`binary.go:245`): a Restart that gives up on a killed process leaves it
  held, so its later exit is heard as the target's own (ExitsHeard).
* `expireFaults` (`runner.go:930`) and `faultFor` (`fault.go:244`): the clock is read
  before the lock, so of two requests that spend a count one can fall after the window's end, and
  a request can begin to be held after `Window` said the fault was retired. That
  is why WindowHoldsRemoved is about removed faults, and DroppedIsFinal about the end of a window.
* `heldOpen` (`settle.go:106`): `Held` knows of a request only once its hold has
  begun, after its arrival is stamped, so a wait can give up on a request that arrived before the
  deadline (GaveUpInTime counts from the hold).
* `docs/ci.md:98-99` and `DESIGN.md:1317-1318` say that an invocation that runs out of
  time "reports the smallest failing sequence it found"; `cli.go:390-402` reports the drawn
  one, which it has a run of, and leaves the smaller beside it. ReportedIsRun states what the
  code and its comment there mean to do, not what these docs say.
* `reportFailure` asks `ctx.Err()` in one case and again in the next (`cli.go:390`,
  `402`). Where the context ends in between, the smaller sequence is reported, with a note that it is
  the one the fuzzer generated, beside the recordings of the drawn one; the comment at `403`
  ("the pass never got to a smaller one") is then false. `find.torn` marks the case, and
  ReportedIsRun leaves it out.
* `run.go:126-127`: "A failure takes back down whatever came up". What the failing step itself
  brought up stays: a namespace whose create took though its call failed
  (`run.go:268-271`), and a control plane that `env.Start` could not finish
  (`cluster.go:119-122`). NothingLeft names this as `halfMade`.
* A fixture whose create took though its call failed (`live.go:245-255`) is back, and the timeline
  does not call the op a restore; RestoredIsTrue counts the creates that were answered.
* G3 (`g3.go`) excuses no exit of the target. With `delete` about a poll, a backoff
  and a poll, a target that exits when a fault makes it and is prompt once it is back
  is blamed for a deletion it had no time for. PromptTargetPasses holds with
  `delete` longer than that.
* `docs/targets.md:252` says when the declared property is not judged; where a
  fault reaches into the wait after a deleteManaged and the run converges before the
  time owed is over, it is judged (PropertyOwed in PromptTargetPasses).
* `checkCRs` (`sequence.go:366`) accepts a create after a delete and a settle. A
  settle that a fault excused may end with the CR still there, and the run
  then fails on the create (FailsForCause names the case).

## Proofs

The theorems hold for every value of the constants that satisfies the modules'
assumptions (`LauncherConstants`, `GarbageCollectionConstants`,
`CollectorConstants`, `FaultProxyConstants`, `FaultTimelineConstants`,
`SettleConstants`, `RunnerConstants`, `InvocationConstants`, `WidgetConstants`,
`GenerateAssumption`, `MinFaultAssumption`, `DrawAndShrinkAssumption`). These
give the constants their types: any number of processes, objects, requests, faults, runs,
children, writes and failures, any timeouts and backoff, sequences of any length. Four
say more: the timeouts of a settle wait are not zero, which loading a target checks;
`validateRun` has passed the sequence of a run (`Validate` and `checkCRs`), which the
Runner requires; the CRs that generation may create have a name each; and a failing
sequence that was not drawn is valid, since it was run.

`LauncherProofs`: `TypeCorrect`, `AtMostOneInstance`, `ExitHeardOnce`,
`StoppedForGood`, `HeardWithBackoff`. OneInstance is not inductive: it needs that every process but
the held one is done, that a timer or a call that is about to start a process is
about a process that is done, and that each process heard of was reaped. The
invariant `IInv` says this, and each action is shown to preserve each of
its parts that the action can disturb. `HeardWithBackoff` adds the waits. `backoff`
is a loop that doubles from the start at every call, and ExitsHeard compares each
wait with the one before; `Delayed` says that the waits recorded are what the
loop gives for their number, and the lemmas that one more turn of it doubles.

`CollectorProofs`: `TypeCorrect`, `NoOwnedObjectDeleted`, `LogTellsTruth`,
`EveryDeleteLogged`, and `Refinement`, that `Collector` implements `GCSpec`. The argument
rests on two facts about the API server. A UID is never given
twice, so an owner found gone stays gone, however old the finding. Every write
raises the version, so a copy of an object whose version is still the stored one
is the stored object (`Known`). So when a delete's preconditions hold, the
object still has the references the sweep judged; and these owners are still
gone. `IInv` carries both facts through the informers' queues, their stores, the
listing, the reads, the deletes on their way and the log. Lemmas about what one
write does to the store (`Advanced`) and what it keeps make the proof one case
per action.

`FaultProofs`: `FaultsStop` (FaultLimits), `RetiredStays` (the action property RetiredForGood), and for the timeline
`DroppedWindowsAreFinal` and `WindowsHoldRemoved`. FaultLimits counts requests by
what each was judged by, while the proxy keeps a number in the fault; `PInv`
ties the two (`Faulted`: the number is the size of the set of requests hit, and
none was hit after the removal), which takes the stamps of a request from its
phase (`Requested`, `Logged`). The lemma `Final` says that no step moves the
window of a fault that is retired. A step of the runner is a step of the proxy
or leaves it alone (`ProxyStep`), so `PInv` holds in the composition too, and
`WindowsTrue` adds that a closed window is the proxy's.

`SettleProofs`: `ConvergedWasQuiet`, `GaveUpNoSooner`, `WaitEndsInTime`. A turn
of the wait reads one thing after the other, and what it has read may no longer be
so when it decides. `Reading` says at each step of the turn what remains true
of each earlier reading, `Due` between what bounds the deadline lies, `Ended`
what a wait that is over rested on, and `Timely` that no step is later than the lag
allows; `Handled` gives a request's stamps by its phase. `WaitEnds` is
a bound on the clock, so it is a safety property, and the bound is proved for
all timeouts.

`RunnerProofs`: `RunIsBracketed` (`Harness`, under a run, implements `Bracket`),
`NothingIsLeft`, `PassesAreJudged`, `FixturesAreRestored`, `FailuresHaveCause`. `HInv` says that what is
up is on a teardown's list, or reported, or half made by the step of start that failed;
it needs that no step of start occurs twice (`StepsDistinct`). `RInv` ties where the
Runner is to the ops applied, the checkpoints made and the errors noted, so that at
the end an empty list of errors implies a full list of checkpoints. Its part `Emptying` says what
the teardown has left of the CRs, those the runner does not know of too. `FInv` ties
each fixture that is gone to an op on the list of deleted fixtures, one that
lasts beyond this op once what is due has been restored. FailsForCause compares what
`validateRun` found by searching the sequence with what a run meets. The lemmas
`FixturesApart`, `CreateChecked` and `UpdateChecked` say what the searches establish;
`CInv` says that, as long as nothing goes wrong around a run, each CR is as the
last op that decided on it left it, that a deletion is over once it was waited for
without a fault, and that each fixture on the list is gone, by one op. So each
failure but those FailsForCause names, of an op refused for what it carries or
of one of those the check lets through, contradicts the check of the sequence.
It rests on `ready`: a wait that converged left no CR under deletion.

`InvocationProofs`: `FilesAreHonest`, `ExitIsTrue`. The files are claims about what
happened to each run; `Recorded` ties the summary, in memory and on disk, to the
truth, `InOrder` says which runs have what behind them. `Placed` follows the sequence
`reportFailure` chooses and the contents of the directory side by side, from the
shrink pass over the second run to the report, which is what ReportedIsRun compares.
`Coded` and `Left` say what the exit code rests on and that what is up of the cluster is
known to the session or was named.

`WidgetProofs`: `WidgetTypes`, `NoneOrphaned`, `RestIsRight`. The controller acts on a
stale copy. `OInv` says what such a copy still tells: a finalizer it shows,
without a deletion, is still there, because only a reconcile that saw the
deletion takes it off, after it found no child on a read past the cache. `QInv`
says that a reconcile that nothing disturbed leaves everything it went through
as the spec asks.

`DrawAndShrinkProofs`: `DrawsLegally`, `DrawsForTheChecks`, `ShrinksInPlace`,
`ShrinksToMinimal`.

* Drawing. Validation searches a sequence for the last op on a CR or a fixture, the
  generator keeps a state beside the ops. `Tracks` says that the state is what the
  ops drawn so far leave, so each op drawn finds its CR or fixture as it needs it
  (`AllFit`), and the lemmas about the searches turn that into `Valid` and
  `ValidCRs`. `Own` keeps the distinct values apart: it is about the values that CRs
  not yet created fall back on as well, without which DistinctHeld is not inductive.
* Putting in waits and a fault. `Embeds` says that one sequence holds the ops of
  another in their order, with settle waits and a fault between them; what
  fits in one fits in the other. `checkpointed` is a loop over the ops; `EmitInv`
  says of what has gone out after each op that the drawn ops are embedded in it and
  that its restarts and deleteManaged are judged, but for the wait after a
  restart that the next op still has to be. That it holds after every op is shown
  from a least op after which it does not.
* Shrinking. EndsWhereItDid is not inductive: the index of an op says nothing about
  the ops that were removed before. `Placed` says that the ops left are in the
  order they had, and that each index divides them as the index it had in the failing sequence
  did (`Splits`), which one more removal keeps. Minimal is about the end of the last
  pass; `Behind` says that a pass that has simplified nothing so far has found every
  op behind it needed, and every axis of its fault.

A search with CHOOSE (the earliest arrival, the last release, the last op on a CR)
finds something because a set of naturals has a least element and a bounded one a greatest,
from the well-foundedness of `<`. `LeastOf` and `GreatestOf` state it where it
is used. They also stand in for induction on the length of a list: a claim about
every prefix is shown from the shortest prefix of which it is false.

Every proof of an invariant has one step per action and one part of the
invariant at a time.

Only model-checked:

* all liveness, which needs fairness and ENABLED, which the prover does not handle:
  ExitIsAnswered, CallsReturn, StopEnds, RemovedFaultEnds, OrphanCollected,
  ShrinkEnds, RunEnds, ComesToRest;
* the five properties of `JudgedRun`. They say what the engine computes from a whole
  history: sorted sequences of states, selections from them and sums over the ops of a
  run. Each would need, for every history, what those recursive operators
  of the library return, and an invariant that relates the whole history to the clock.

## What is left

1. Proofs: of `JudgedRun`, that a verdict stands, which is about one more state at
   the end of a history.
2. The Observer's informers and `Exclude`, against the harness's own writes.

## Not modelled

Loading and validation of `target.yaml`, the drawing of values from CRD schemas, the
rendering of reports, help and JUnit files, and the set-up of envtest. These are
sequential conversions and set-up calls, with no state that a model checker would
explore better than a test. Of the fault proxy, upgraded connections (no fault
touches them); of the observer, the delivery of events, which `Settle` lets come
at any time and `JudgedRun` at once.
