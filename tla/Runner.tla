------------------------------- MODULE Runner -------------------------------
(***************************************************************************)
(* The Runner's control of one run (internal/run/runner.go over live.go),  *)
(* on a harness it finds up and leaves down: the ops, the waits, the       *)
(* checkpoints and the teardown, and what can fail on the way.             *)
(*                                                                         *)
(* Time is left out: a wait converges, runs out or fails.  What the engine *)
(* says is an input too: see JudgedRun for both.                           *)
(***************************************************************************)
EXTENDS Harness, SequenceFormat

CONSTANTS
    Runs,            \* the runs: [opts, plan, refused]
    AllFixtures,     \* the target's fixtures
    ClusterFixtures, \* the ones among them that are cluster-scoped
    ManagedKinds,    \* the kinds the target manages
    MaxMishaps       \* a bound on what goes wrong around a run

\* The ops that can be refused for what they carry: a CR of another kind or one
\* the API server turns away, a patch it turns away, and a fault on a resource it
\* does not serve.
Refusable == {"create", "recreate", "update", "updateFixture", "fault"}

\* validateRun has passed the sequence of a run before it is run; what is refused
\* it does not see.
ASSUME RunnerConstants ==
    /\ \A run \in Runs :
          /\ run.plan \in Seq(Range(run.plan))
          /\ Valid(run.plan) /\ ValidCRs(run.plan)
          /\ \A n \in DOMAIN run.plan : run.plan[n].until \in Nat
          /\ run.refused \subseteq {n \in DOMAIN run.plan : run.plan[n].type \in Refusable}
    /\ MaxMishaps \in Nat

VARIABLES
    plan,   \* the sequence
    r,      \* the Runner: where it is (at), the op it applies (pos) and its
            \* own fields, of which judged lists its checkpoints, and deleted
            \* and restoring hold the positions of deleteFixture ops
    env     \* the world: the CRs ("absent", "live", "deleting"), the fixtures
            \* there are, whether the target runs, whether the caller's context
            \* has ended, the ops at which a create of a fixture was answered,
            \* the ops it refuses, and the mishaps so far

runnerVars == <<plan, r, env>>

Recovery == -2
Teardown == -1
Op == plan[r.pos]

\* The fixtures of the run's namespace.
RunFixtures == AllFixtures \ ClusterFixtures

RunnerInit ==
    /\ r = [at |-> "start", pos |-> 1, applied |-> <<>>, crs |-> {}, deleted |-> {},
            restoring |-> {}, faults |-> {}, injected |-> FALSE, wait |-> "none", judged |-> <<>>,
            violation |-> "none", stopped |-> FALSE, failed |-> FALSE, errors |-> {}, cut |-> FALSE]
    /\ \E run \in Runs :
          /\ plan = run.plan /\ opts = run.opts
          /\ env = [crs |-> [cr \in {plan[n].key : n \in {m \in DOMAIN plan : plan[m].type \in CROps}}
                                |-> "absent"],
                    fixtures |-> RunFixtures, running |-> TRUE, ended |-> FALSE, restores |-> {},
                    refused |-> run.refused, mishaps |-> 0]

\* On to the next op, or to the teardown: after the last op, on a violation,
\* and where an op stopped the run.
NextOp(x) ==
    IF x.pos < Len(plan) /\ x.violation = "none" /\ ~x.stopped
    THEN [x EXCEPT !.at = "begin", !.pos = @ + 1] ELSE [x EXCEPT !.at = "teardown"]
After(x) == IF Settles(Op) THEN [x EXCEPT !.at = "wait"] ELSE NextOp(x)
Failed(x) == [x EXCEPT !.at = "teardown", !.failed = TRUE, !.errors = @ \cup {"ops"}]
RecoveryFailed(x) == [x EXCEPT !.at = "quiet", !.failed = TRUE, !.errors = @ \cup {"recovery"}]

\* A call that fails: a mishap, unless the caller's context has ended.
CallFails(e) ==
    /\ e.ended \/ e.mishaps < MaxMishaps
    /\ env' = IF e.ended THEN e ELSE [e EXCEPT !.mishaps = @ + 1]

\* newLiveRun may fail; the harness is then stopped.
StartRun ==
    /\ r.at = "start" /\ stage = "up"
    /\ \/ r' = [r EXCEPT !.at = "begin"] /\ env' = env
       \/ r' = [r EXCEPT !.at = "stop", !.errors = {"start"}] /\ CallFails(env)
    /\ UNCHANGED <<plan, harnessVars>>

-----------------------------------------------------------------------------
(* One op (applyOp). *)

\* Faults end, a restart the target has pending is awaited, for as long as the
\* caller's context lasts, and a target that has stopped ends the run.
BeginOp ==
    LET expired == [r EXCEPT !.faults = {f \in @ : f = 0 \/ f > r.pos}]
    IN  /\ r.at = "begin" /\ UNCHANGED <<plan, env, harnessVars>>
        /\ \E pending \in {FALSE} \cup {r.injected} :
              r' = IF (pending /\ env.ended) \/ ~env.running THEN Failed(expired)
                ELSE [expired EXCEPT !.at = "restore", !.restoring = r.deleted,
                                     !.applied = Append(@, [restored |-> FALSE, deleted |-> FALSE])]

\* Mutant: a failure loses what was restored before it.
restoredOnSuccess(x) == Failed([x EXCEPT !.applied[r.pos].restored = FALSE])

\* The restored fixtures count whether or not one fails after them.
restoreFailed(x) == Failed(x)

due(d) == plan[d].until <= r.pos

\* It fails on a fixture that is there, which something else created.
createFixture(f) ==
    /\ f \notin env.fixtures /\ ~env.ended
    /\ env' = [env EXCEPT !.fixtures = @ \cup {f}, !.restores = @ \cup {r.pos}]

\* restoreFixtures, a fixture at a time, in the order they were deleted.  A create
\* may take though its call fails: the fixture is then back, and the timeline does
\* not say so.
Restore ==
    /\ r.at = "restore" /\ UNCHANGED <<plan, harnessVars>>
    /\ \E d \in r.restoring :
          LET f == plan[d].key
              rest == [r EXCEPT !.restoring = @ \ {d}]
          IN  /\ \A e \in r.restoring : d <= e
              /\ \/ ~due(d) /\ r' = rest /\ env' = env
                 \/ due(d) /\ createFixture(f) /\ r' = [rest EXCEPT !.applied[r.pos].restored = TRUE]
                 \/ /\ due(d) /\ r' = restoreFailed(r)
                    /\ IF f \in env.fixtures THEN env' = env
                       ELSE \E back \in SUBSET {f} :
                               CallFails([env EXCEPT !.fixtures = @ \cup back])

\* Mutant: what was restored stays on the list of what is deleted.
restoreDoneKeeps ==
    /\ r.at = "restore" /\ r.restoring = {} /\ UNCHANGED <<plan, env, harnessVars>>
    /\ r' = [r EXCEPT !.at = "apply"]

RestoreDone ==
    /\ r.at = "restore" /\ r.restoring = {} /\ UNCHANGED <<plan, env, harnessVars>>
    /\ r' = [r EXCEPT !.at = "apply", !.deleted = {d \in @ : ~due(d)}]

\* An op that no run of this sequence can apply, which is found before any call.
Unknown ==
    \/ Op.type = "deleteManaged" /\ Op.key \notin ManagedKinds
    \/ Op.type \in FixtureOps /\ Op.key \notin RunFixtures

\* An op the world refuses for what it carries.
Refused == r.pos \in env.refused

\* A fixture's deletion is noted before it is tried.
NoteDeletion(x) ==
    IF Op.type = "deleteFixture" THEN [x EXCEPT !.deleted = @ \cup {r.pos}] ELSE x

\* An op whose call fails ends the run.  The call may have taken all the same.
OpFails ==
    /\ r.at \in {"apply", "gone"} /\ Op.type # "settle" /\ ~Unknown
    /\ r' = Failed(NoteDeletion(r)) /\ UNCHANGED <<plan, harnessVars>>
    /\ \/ CallFails(env)
       \/ /\ Op.type = "create" \/ r.at = "gone"
          /\ ~Refused /\ env.crs[Op.key] = "absent"
          /\ CallFails([env EXCEPT !.crs[Op.key] = "live"])
       \/ /\ r.at = "apply" /\ Op.type \in {"delete", "recreate"} /\ env.crs[Op.key] = "live"
          /\ CallFails([env EXCEPT !.crs[Op.key] = "deleting"])
       \/ /\ Op.type = "deleteFixture"
          /\ CallFails([env EXCEPT !.fixtures = @ \ {Op.key}])

\* A create, or the second half of a recreate.  It fails on a CR still
\* there, and on one that is refused.
CreateCR ==
    /\ (r.at = "apply" /\ Op.type = "create") \/ (r.at = "gone" /\ env.crs[Op.key] = "absent")
    /\ IF env.crs[Op.key] = "absent" /\ ~Refused
       THEN /\ env' = [env EXCEPT !.crs[Op.key] = "live"]
            /\ r' = After([r EXCEPT !.crs = @ \cup {Op.key}])
       ELSE env' = env /\ r' = Failed(r)
    /\ UNCHANGED <<plan, harnessVars>>

\* An update fails on a CR that is gone and where it is refused; a delete of a CR
\* that is gone is fine.
ChangeCR ==
    LET there == env.crs[Op.key]
    IN  /\ r.at = "apply" /\ Op.type \in NamingOps /\ UNCHANGED <<plan, harnessVars>>
        /\ env' = IF Op.type # "update" /\ there = "live"
                  THEN [env EXCEPT !.crs[Op.key] = "deleting"] ELSE env
        /\ r' = CASE Op.type = "recreate" -> [r EXCEPT !.at = "gone"]
                  [] Op.type = "update" /\ (there = "absent" \/ Refused) -> Failed(r)
                  [] OTHER -> After(r)

\* Mutant: the wait for a CR to go has no end of its own.
crStaysForever ==
    /\ r.at = "gone" /\ env.crs[Op.key] # "absent" /\ UNCHANGED <<plan, env, harnessVars>>
    /\ env.ended /\ r' = Failed(r)

\* The CR stays: judged where the wait for it to go ran out.
CRStays ==
    /\ r.at = "gone" /\ env.crs[Op.key] # "absent" /\ UNCHANGED <<plan, env, harnessVars>>
    /\ r' = IF env.ended THEN Failed(r) ELSE [r EXCEPT !.at = "judge", !.wait = "stayed"]

\* A deleteManaged that resolves to nothing is skipped; one of a kind the target
\* does not manage is an error, and so is a fault on a resource not served.
OtherOp ==
    /\ r.at = "apply" /\ Op.type \in {"settle", "restart", "fault", "deleteManaged"}
    /\ \/ (Unknown \/ Refused) /\ r' = Failed(r)
       \/ /\ ~Unknown /\ ~Refused
          /\ \E took \in IF Op.type = "deleteManaged" THEN BOOLEAN ELSE {FALSE} :
                r' = After([r EXCEPT !.applied[r.pos].deleted = took,
                                     !.faults = IF Op.type = "fault" THEN @ \cup {Op.fault.op} ELSE @,
                                     !.injected = @ \/ Op.type = "fault"])
    /\ UNCHANGED <<plan, env, harnessVars>>

\* A fixture that is not declared, or cluster-scoped, is an error before anything
\* is done.  A deleted one may be kept past timeouts.delete, by a finalizer.
FixtureOp ==
    /\ r.at = "apply" /\ Op.type \in FixtureOps /\ UNCHANGED <<plan, harnessVars>>
    /\ \/ Unknown /\ env' = env /\ r' = Failed(r)
       \/ /\ ~Unknown /\ (Op.key \notin env.fixtures \/ Refused)
          /\ env' = env /\ r' = Failed(NoteDeletion(r))
       \/ /\ Op.key \in env.fixtures /\ ~Refused /\ Op.type = "deleteFixture"
          /\ env' = env /\ r' = Failed([NoteDeletion(r) EXCEPT !.wait = "kept"])
       \/ /\ Op.key \in env.fixtures /\ ~Refused
          /\ env' = IF Op.type = "deleteFixture"
                    THEN [env EXCEPT !.fixtures = @ \ {Op.key}] ELSE env
          /\ r' = After(NoteDeletion(r))

-----------------------------------------------------------------------------
(* Waits and checkpoints (settle, judge, checkpoint, judgeStayed). *)

\* A CR under deletion is not ready until it is gone.
ready == \A cr \in DOMAIN env.crs : env.crs[cr] # "deleting"

\* A wait fails with the caller's context, and fails the op or the recovery.  It
\* converges on what the Observer has seen: all there is, unless an event is
\* later than the quiet window, which is a mishap too.
WaitEnds ==
    /\ r.at \in {"wait", "recover"} /\ UNCHANGED <<plan, harnessVars>>
    /\ IF env.ended
       THEN env' = env /\ r' = IF r.at = "wait" THEN Failed(r) ELSE RecoveryFailed(r)
       ELSE \E end \in {"expired"} \cup {e \in {"converged"} : env.running} :
               /\ IF end = "expired" \/ ready THEN env' = env ELSE CallFails(env)
               /\ r' = [r EXCEPT !.wait = end, !.at = IF @ = "wait" THEN "judge" ELSE "judgeRecovery"]

\* The harness's failure to report, not the target's to answer for.
judgeable == r.wait = "converged" \/ env.running

Judge ==
    /\ r.at \in {"judge", "judgeRecovery"} /\ UNCHANGED <<plan, env, harnessVars>>
    /\ r' = IF judgeable THEN [r EXCEPT !.at = IF @ = "judge" THEN "check" ELSE "checkRecovery"]
            ELSE IF r.at = "judge" THEN Failed(r) ELSE RecoveryFailed(r)

\* What a checkpoint reports: G4 first where a wait ran out unexcused, and
\* otherwise what the engine finds.  A fault excuses a wait, and a deletion
\* that is overdue, which G3 reports.
Reports ==
    IF r.wait = "converged" THEN {"none", "check"}
    ELSE {"G4"} \cup {v \in {"none", "check"} : r.injected /\ r.at = "check"}
                \cup {v \in {"G3"} : \E cr \in DOMAIN env.crs : env.crs[cr] = "deleting"}

violate(x, v) == [x EXCEPT !.violation = IF @ = "none" THEN v ELSE @]

\* Too many managed objects, before the checkpoint is on the timeline, or a
\* check that fails, after, is a harness error.  So is a CR that stayed, that
\* no check reports and no fault excuses any more; where one does, the run
\* stops.
Check ==
    LET point == IF r.at = "check" THEN r.pos ELSE Recovery
        judged == [r EXCEPT !.judged = Append(@, point)]
        fail(x) == IF r.at = "check" THEN Failed(x) ELSE RecoveryFailed(x)
    IN  /\ r.at \in {"check", "checkRecovery"} /\ UNCHANGED <<plan, harnessVars>>
        /\ \E v \in Reports :
              \/ r' \in {fail(r), fail(violate(judged, IF v = "G4" THEN v ELSE "none"))} /\ CallFails(env)
              \/ /\ env' = env
                 /\ LET x == violate(judged, v)
                    IN  r' \in CASE r.at = "checkRecovery" -> {[x EXCEPT !.at = "quiet"]}
                                [] r.at = "check" /\ r.wait = "stayed" /\ v = "none" ->
                                      {fail(x), NextOp([x EXCEPT !.stopped = TRUE])}
                                [] OTHER -> {NextOp(x)}

-----------------------------------------------------------------------------
(* The teardown. *)

\* The faults are cleared; a target they still excuse is waited for.
BeginTeardown ==
    /\ r.at = "teardown" /\ UNCHANGED <<plan, env, harnessVars>>
    /\ \E recovering \in IF r.injected /\ r.violation = "none" /\ ~r.failed THEN BOOLEAN ELSE {FALSE} :
          r' = [r EXCEPT !.faults = {}, !.at = IF recovering THEN "recover" ELSE "quiet"]

\* The last quiet window, which the end of the caller's context cuts short.
Quiet ==
    /\ r.at = "quiet" /\ UNCHANGED <<plan, env, harnessVars>>
    /\ r' = [r EXCEPT !.at = "delete", !.cut = env.ended]

\* Every CR the run created is deleted, on a context of the teardown's own; a
\* delete that fails does not stop the others.
DeleteCRs ==
    /\ r.at = "delete" /\ UNCHANGED <<plan, harnessVars>>
    /\ \E took \in SUBSET r.crs :
          LET deleted == [cr \in DOMAIN env.crs |->
                             IF cr \in took /\ env.crs[cr] = "live" THEN "deleting" ELSE env.crs[cr]]
              lost == IF took = r.crs THEN 0 ELSE 1
          IN  /\ env.mishaps + lost <= MaxMishaps
              /\ env' = [env EXCEPT !.crs = deleted, !.mishaps = @ + lost]
              /\ r' = [r EXCEPT !.at = "clean", !.errors = IF took = r.crs THEN @ ELSE @ \cup {"delete"}]

AwaitClean ==
    /\ r.at = "clean" /\ UNCHANGED <<plan, env, harnessVars>>
    /\ r' = [r EXCEPT !.at = "verdict", !.cut = @ \/ env.ended]

\* Mutant: a run that was cut is judged by what there is.
cutPasses(x) == [x EXCEPT !.at = "empty"]

\* A run that was cut is not judged, and says so.
cutFails(x) == [x EXCEPT !.at = "empty", !.errors = @ \cup {"verdict"}]

\* The deletion is judged unless the run has its verdict, was cut, or the
\* target stopped.
Verdict ==
    /\ r.at = "verdict" /\ UNCHANGED <<plan, harnessVars>>
    /\ \/ /\ env' = env
          /\ r' \in IF r.violation # "none" \/ r.failed THEN {[r EXCEPT !.at = "empty"]}
                   ELSE IF r.cut THEN {cutFails(r)}
                   ELSE IF ~env.running
                   THEN {[r EXCEPT !.at = "empty", !.errors = @ \cup {"verdict"}]}
                   ELSE {violate([r EXCEPT !.at = "empty", !.judged = Append(@, Teardown)], v) :
                            v \in {"none", "check"}}
       \/ /\ r.violation = "none" /\ ~r.failed /\ ~r.cut
          /\ CallFails(env) /\ r' = [r EXCEPT !.at = "empty", !.errors = @ \cup {"verdict"}]

\* Mutant: only the CRs the run knows it created are deleted.
leftKnown == {cr \in r.crs : env.crs[cr] # "absent"}

\* A deletion by collection takes every CR there is.
leftBehind == {cr \in DOMAIN env.crs : env.crs[cr] # "absent"}

\* What is left in the namespace is deleted, as far as the calls do not fail, ...
Empty ==
    /\ r.at = "empty" /\ UNCHANGED <<plan, harnessVars>>
    /\ \E took \in SUBSET leftBehind :
          LET crs == [cr \in DOMAIN env.crs |-> IF cr \in took THEN "deleting" ELSE env.crs[cr]]
          IN  \/ /\ took = leftBehind
                 /\ env' = [env EXCEPT !.crs = crs, !.fixtures = {}]
                 /\ r' = [r EXCEPT !.at = "force"]
              \/ /\ env.mishaps < MaxMishaps
                 /\ env' = [env EXCEPT !.crs = crs, !.mishaps = @ + 1]
                 /\ r' = [r EXCEPT !.at = "force", !.errors = @ \cup {"empty"}]

\* ... and its finalizers are forced off: what is under deletion goes.  A CR that
\* is not stays, and a target that still runs puts its finalizer back.
ForceFinalizers ==
    /\ r.at = "force" /\ UNCHANGED <<plan, harnessVars>>
    /\ LET held == {cr \in DOMAIN env.crs : env.crs[cr] = "deleting"}
       IN  \E freed \in SUBSET held :
              LET crs == [cr \in DOMAIN env.crs |-> IF cr \in freed THEN "absent" ELSE env.crs[cr]]
              IN  \/ /\ freed = held
                     /\ env' = [env EXCEPT !.crs = crs]
                     /\ r' = [r EXCEPT !.at = "stop"]
                  \/ /\ env.mishaps < MaxMishaps
                     /\ env' = [env EXCEPT !.crs = crs, !.mishaps = @ + 1]
                     /\ r' = [r EXCEPT !.at = "stop", !.errors = @ \cup {"force"}]

\* The harness is stopped, and the run's result is its error or its violation.
StopHarness ==
    /\ r.at = "stop" /\ Stop
    /\ r' = [r EXCEPT !.at = "result"] /\ UNCHANGED <<plan, env>>

-----------------------------------------------------------------------------
(* The world. *)

Acting == stage = "up" /\ UNCHANGED <<plan, r, harnessVars>>
Interrupt ==
    /\ Acting /\ ~env.ended /\ env.mishaps < MaxMishaps
    /\ env' = [env EXCEPT !.ended = TRUE, !.mishaps = @ + 1]
TargetStops ==
    /\ Acting /\ env.running /\ env.mishaps < MaxMishaps
    /\ env' = [env EXCEPT !.running = FALSE, !.mishaps = @ + 1]
\* Something other than reconciler-fuzzer creates a deleted fixture again.
Meddle(f) ==
    /\ Acting /\ f \notin env.fixtures /\ env.mishaps < MaxMishaps
    /\ env' = [env EXCEPT !.fixtures = @ \cup {f}, !.mishaps = @ + 1]
\* The target finishes a deletion.
CRGoes(cr) ==
    /\ Acting /\ env.running /\ env.crs[cr] = "deleting"
    /\ env' = [env EXCEPT !.crs[cr] = "absent"]

HarnessMoves == HarnessNext /\ UNCHANGED runnerVars
Ended == stage = "down" /\ UNCHANGED <<runnerVars, harnessVars>>

RunnerMoves ==
    \/ StartRun \/ BeginOp \/ Restore \/ RestoreDone \/ CreateCR \/ ChangeCR \/ CRStays
    \/ OtherOp \/ FixtureOp \/ WaitEnds \/ Judge \/ Check
    \/ BeginTeardown \/ Quiet \/ DeleteCRs \/ AwaitClean \/ Verdict \/ Empty \/ ForceFinalizers
    \/ StopHarness

Next ==
    \/ HarnessMoves \/ RunnerMoves \/ OpFails \/ Ended
    \/ Interrupt \/ TargetStops
    \/ \E f \in RunFixtures : Meddle(f)
    \/ \E cr \in DOMAIN env.crs : CRGoes(cr)

vars == <<harnessVars, runnerVars>>
Init == HarnessInit /\ RunnerInit
Spec == Init /\ [][Next]_vars /\ WF_vars(HarnessMoves \/ RunnerMoves)

-----------------------------------------------------------------------------
(* Properties. *)

Passes == stage = "down" /\ ~err /\ r.errors = {} /\ r.violation = "none"

\* A run that reports neither a violation nor an error was judged in full: at
\* every op of its that settles, at a recreate whose CR stayed, and at the
\* teardown; and it went through the whole sequence unless such a CR stopped it.
PassIsJudged ==
    Passes =>
        /\ Teardown \in Range(r.judged)
        /\ \A n \in DOMAIN r.applied : Settles(plan[n]) => n \in Range(r.judged)
        /\ r.stopped \/ Len(r.applied) = Len(plan)

\* Where the Runner waits for the target, each fixture is there, unless an op
\* deleted it until a later one.  So the target is never judged without a
\* fixture that is due, however restoring them failed or was interfered with.
FixturesThere ==
    r.at = "wait" => \A f \in RunFixtures :
        \/ f \in env.fixtures
        \/ \E n \in 1 .. r.pos : /\ plan[n].type = "deleteFixture" /\ plan[n].key = f
                                 /\ plan[n].until > r.pos

\* The timeline says of each op whether a create of a fixture was answered at it,
\* where a later one could not be too.
RestoredIsTrue ==
    \A n \in DOMAIN r.applied : r.applied[n].restored = (n \in env.restores)

\* Fixtures come back when they are due, and the timeline says where.
FixturesRestored == FixturesThere /\ RestoredIsTrue

\* A run with nothing going wrong around it (no call that fails, no target that
\* stops or makes too many objects, no interrupt, no other client) ends in an error
\* only on an op of its own: one the target's configuration does not know or the API
\* server refuses; a fixture deleted that something keeps; a recreate whose CR
\* stayed past what a fault excuses; or a create that finds its CR still there after
\* a delete whose wait a fault excused, which validateRun lets through.
FailsForCause ==
    r.errors # {} /\ env.mishaps = 0 =>
        /\ Len(r.applied) = r.pos
        /\ \/ Unknown \/ Refused
           \/ Op.type = "deleteFixture" /\ r.wait = "kept"
           \/ r.injected /\ Op.type = "recreate" /\ r.wait = "stayed"
           \/ /\ r.injected /\ Op.type = "create"
              /\ \E n \in 1 .. r.pos - 1 : plan[n].type = "delete" /\ plan[n].key = Op.key

\* However its ops went, a run leaves no CR: neither one under deletion that the
\* target holds, nor one whose create only seemed to fail, which the run does not
\* know it made.  Otherwise its error says so (teardown, empty, forceFinalizers).
CRsGone ==
    r.at = "result" /\ r.errors \cap {"empty", "force"} = {} =>
        \A cr \in DOMAIN env.crs : env.crs[cr] = "absent"

\* A run leaves nothing behind that it did not report, but for what a failing step
\* of Start half made.
NothingLeft == NothingLeftUp /\ CRsGone

\* Every run ends with its harness down, whatever goes wrong.
RunEnds == <>(stage = "down")
=============================================================================
