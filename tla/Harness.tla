------------------------------ MODULE Harness ------------------------------
(***************************************************************************)
(* Bringing a run up and taking it down (internal/run/run.go, teardown.go, *)
(* internal/cluster/identity.go).  Start goes through its steps in order;  *)
(* a step that brings something up pushes the step that takes it down, and *)
(* a failure runs what was pushed.  Stop runs it too, then writes the      *)
(* recordings.  Each way down tries every step once, whatever fails.       *)
(***************************************************************************)
EXTENDS Integers, Sequences, FiniteSets, SequencesExt

\* What a run brings up, in the order it does.  The namespace takes what is in
\* it with it; the roles are cluster-scoped, and each is one of two parts of
\* the target's identity.
Resources ==
    {"log", "cluster", "namespace", "identity", "proxy", "observer", "collector", "target"}
RoleParts == {"role", "binding"}

VARIABLES
    opts,      \* [own: the run starts its cluster, roles: the target declares
               \* roles, manager: the cluster runs a controller manager]
    stage,     \* "starting", "up", "failing", "stopping", "recording", "down"
    done,      \* the steps of Start done
    down,      \* teardown.steps
    taking,    \* the steps the teardown under way has yet to run
    up,        \* what is up, in the world
    failures,  \* the steps of a teardown that failed
    err        \* an error is to be returned

harnessVars == <<opts, stage, done, down, taking, up, failures, err>>

\* The steps of start, those this run skips left out.
Steps ==
    <<"log">> \o (IF opts.own THEN <<"cluster">> ELSE <<>>) \o <<"mapper", "namespace">>
    \o (IF opts.roles THEN <<"identity">> ELSE <<>>)
    \o <<"proxy", "kubeconfig", "observer", "sync">>
    \o (IF opts.manager THEN <<"defaults">> ELSE <<"collector">>) \o <<"fixtures", "target">>

\* Mutant: what failed part of the way is left for the caller to take down.
startFailedUnwound ==
    /\ stage = "starting" /\ done < Len(Steps)
    /\ err' = TRUE /\ stage' = "down"
    /\ UNCHANGED <<opts, done, down, taking, up, failures>>

\* validate refuses a controller manager in a cluster the run starts.
HarnessInit ==
    /\ opts \in {o \in [own : BOOLEAN, roles : BOOLEAN, manager : BOOLEAN] : ~(o.own /\ o.manager)}
    /\ stage = "starting" /\ done = 0 /\ down = <<>> /\ taking = <<>> /\ up = {}
    /\ failures = {} /\ err = FALSE

BringUp ==
    LET s == Steps[done + 1]
    IN  /\ stage = "starting" /\ done < Len(Steps)
        /\ done' = done + 1
        /\ up' = up \cup (IF s = "identity" THEN RoleParts ELSE {s} \cap Resources)
        /\ down' = IF s \in Resources THEN Append(down, s) ELSE down
        /\ UNCHANGED <<opts, stage, taking, failures, err>>

Started ==
    /\ stage = "starting" /\ done = Len(Steps) /\ stage' = "up"
    /\ UNCHANGED <<opts, done, down, taking, up, failures, err>>

\* What a step that fails may have brought up, which was not pushed: a control
\* plane env.Start could not finish, a namespace whose create took though its
\* call failed, and what NewIdentity could not take back of the roles.  The
\* error says that the step failed, not that this is left.
halfMade(s) == {x \in RoleParts : s = "identity"} \cup ({s} \cap {"cluster", "namespace"})

\* A step fails.
StartFailed ==
    /\ stage = "starting" /\ done < Len(Steps)
    /\ err' = TRUE
    /\ \E left \in SUBSET halfMade(Steps[done + 1]) : up' = up \cup left
    /\ stage' = "failing" /\ taking' = down /\ down' = <<>>
    /\ UNCHANGED <<opts, done, failures>>

\* Stop, whenever the caller calls it.
Stop ==
    /\ stage = "up"
    /\ stage' = "stopping" /\ taking' = down /\ down' = <<>>
    /\ UNCHANGED <<opts, done, up, failures, err>>

\* Mutant: the first step first.
undoneForward == Tail(taking)

\* A step that fails does not stop the ones below it.
undone == Front(taking)

\* One step of teardown.run.  A step that fails leaves some of what it was to
\* take down.
Undo ==
    LET s == Last(taking)
        whats == IF s = "identity" THEN RoleParts ELSE {s}
    IN  /\ stage \in {"failing", "stopping"} /\ taking # <<>>
        /\ taking' = undone
        /\ \E left \in SUBSET whats :
              /\ up' = (up \ whats) \cup left
              /\ failures' = failures \cup left
              /\ err' = (err \/ left # {})
        /\ UNCHANGED <<opts, stage, done, down>>

Undone ==
    /\ stage \in {"failing", "stopping"} /\ taking = <<>>
    /\ stage' = IF stage = "failing" THEN "down" ELSE "recording"
    /\ UNCHANGED <<opts, done, down, taking, up, failures, err>>

\* writeRecordings, which may fail.
Record ==
    /\ stage = "recording" /\ stage' = "down"
    /\ err' \in {err, TRUE}
    /\ UNCHANGED <<opts, done, down, taking, up, failures>>

HarnessNext == BringUp \/ Started \/ StartFailed \/ Undo \/ Undone \/ Record

-----------------------------------------------------------------------------
(* Properties. *)

\* The harness brings a run up and down as Bracket says, for every choice of
\* options and every step that fails on the way up or down.
Bracketed == INSTANCE Bracket WITH
    held <- down \o taking,
    closing <- stage \in {"failing", "stopping", "recording", "down"}
BracketSpec == Bracketed!Spec

\* A run that is down left nothing up but what its error says it could not take
\* down, and, where a step of Start failed, what that very step half made: never
\* what a step before it brought up, whatever fails on the way down.
NothingLeftUp ==
    stage = "down" =>
        up \subseteq failures \cup (IF done < Len(Steps) THEN halfMade(Steps[done + 1]) ELSE {})
=============================================================================
