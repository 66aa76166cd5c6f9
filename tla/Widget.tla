------------------------------- MODULE Widget -------------------------------
(***************************************************************************)
(* The toy controller (targets/toy-widget/controller/widget_controller.go),*)
(* with no seeded bug: one Widget name and the ConfigMaps its spec asks    *)
(* for, read through a cache that lags behind the API server object by     *)
(* object, written with patches, creates, updates and deletes that may     *)
(* fail, by one worker that a restart can stop between any two calls.      *)
(*                                                                         *)
(* The mutants are the seeded bugs (bug.go) and a stale read.              *)
(* CleanupDelay and Resync are off, as they are by default.                *)
(***************************************************************************)
EXTENDS Integers, FiniteSets, FiniteSetsExt

CONSTANTS
    MaxCount,    \* the most children a spec asks for
    MaxWidgets,  \* a bound on the Widgets created, one after the other
    MaxOps,      \* a bound on what the user does
    MaxMishaps   \* a bound on failed calls and restarts

ASSUME WidgetConstants ==
    MaxCount \in Nat /\ MaxWidgets \in Nat /\ MaxOps \in Nat /\ MaxMishaps \in Nat

VARIABLES
    api,      \* the objects: widget, kids by index, label (0 for none)
    cache,    \* the same as the controller's informers hold them
    stale,    \* the objects of which the cache lacks the last version
    queued,   \* the Widget is in the work queue
    rec,      \* the reconcile under way: where it is (at), its copy w of the
              \* Widget, the label it read, and the children left to go
              \* through, of which `controlled` it found
    budget    \* [ops, mishaps]

vars == <<api, cache, stale, queued, rec, budget>>

Kids == 0 .. MaxCount - 1
TheWidget == -1
TheLabel == -2
Objects == {TheWidget, TheLabel} \cup Kids
NoWidget == [there |-> FALSE, uid |-> 0, gen |-> 0, count |-> 0, fin |-> FALSE,
             deleting |-> FALSE, ready |-> 0, obs |-> 0]
NoKid == [there |-> FALSE, owner |-> 0, label |-> 0]
Idle == [at |-> "idle", w |-> NoWidget, label |-> 0, todo |-> {}, controlled |-> {}]

Init ==
    /\ api = [widget |-> NoWidget, kids |-> [i \in Kids |-> NoKid], label |-> 0]
    /\ cache = api /\ stale = {} /\ queued = FALSE /\ rec = Idle
    /\ budget = [ops |-> 0, mishaps |-> 0]

required(w) == {i \in Kids : i < w.count}
controlledIn(kids, w) == {i \in Kids : kids[i].there /\ kids[i].owner = w.uid}

\* Writes to the API server; the cache learns of them later.
SetWidget(w) == api' = [api EXCEPT !.widget = w] /\ stale' = stale \cup {TheWidget}
SetKid(i, kid) == api' = [api EXCEPT !.kids[i] = kid] /\ stale' = stale \cup {i}
NoWrite == UNCHANGED <<api, stale>>

-----------------------------------------------------------------------------
(* The work queue and its watches (SetupWithManager, widgetsCopying). *)

\* Mutant: B14, no watch on the label.
enqueuesButLabel(x) == x # TheLabel

\* An event of any of them queues the Widget.
enqueues(x) == x \in Objects

CacheSync(x) ==
    /\ x \in stale /\ stale' = stale \ {x}
    /\ cache' = CASE x = TheWidget -> [cache EXCEPT !.widget = api.widget]
                  [] x = TheLabel -> [cache EXCEPT !.label = api.label]
                  [] OTHER -> [cache EXCEPT !.kids[x] = api.kids[x]]
    /\ queued' = (queued \/ enqueues(x))
    /\ UNCHANGED <<api, rec, budget>>

\* A reconcile that ends, and one that returns an error, which queues again.
Ends == rec' = Idle /\ UNCHANGED queued
Errs == rec' = Idle /\ queued' = TRUE
Goes(r) == rec' = r /\ UNCHANGED queued

-----------------------------------------------------------------------------
(* Reconcile. *)

\* The Get, from the cache.
Get ==
    LET w == cache.widget
        at == IF w.deleting THEN "cleanup" ELSE IF ~w.fin THEN "finalizer" ELSE "label"
    IN  /\ rec.at = "idle" /\ queued /\ queued' = FALSE
        /\ rec' = IF ~w.there THEN Idle
                  ELSE [Idle EXCEPT !.at = at, !.w = w]
        /\ NoWrite /\ UNCHANGED <<cache, budget>>

\* A patch by name, of whatever Widget has it, which leaves the reconcile with
\* that Widget as it now is.  A Widget being deleted takes no finalizer.
AddFinalizer ==
    LET w == [api.widget EXCEPT !.fin = TRUE]
    IN  /\ rec.at = "finalizer" /\ UNCHANGED <<cache, budget>>
        /\ IF ~api.widget.there \/ (api.widget.deleting /\ ~api.widget.fin)
           THEN Errs /\ NoWrite
           ELSE /\ IF api.widget.fin THEN NoWrite ELSE SetWidget(w)
                /\ Goes([rec EXCEPT !.at = "label", !.w = w])

\* syncChildren reads the label next, from the cache too.
ReadLabel ==
    /\ rec.at = "label" /\ NoWrite /\ UNCHANGED <<cache, budget>>
    /\ Goes([rec EXCEPT !.at = "ensure", !.label = cache.label, !.todo = required(rec.w)])

\* CreateOrUpdate, with the cached child's version: a create of a child there
\* is and an update of a child that has changed are errors.  A child of an
\* earlier Widget is adopted: SetControllerReference knows an owner by its name.
EnsureChild ==
    LET i == Min(rec.todo)
        kid == cache.kids[i]
        desired == [there |-> TRUE, owner |-> rec.w.uid, label |-> rec.label]
        next == [rec EXCEPT !.todo = @ \ {i}]
    IN  /\ rec.at = "ensure" /\ rec.todo # {} /\ UNCHANGED <<cache, budget>>
        /\ IF kid = desired THEN Goes(next) /\ NoWrite
           ELSE IF IF kid.there THEN i \in stale ELSE api.kids[i].there
           THEN Errs /\ NoWrite
           ELSE Goes(next) /\ SetKid(i, desired)

surplus(controlled) == controlled \ required(rec.w)

ListChildren ==
    LET controlled == controlledIn(cache.kids, rec.w)
    IN  /\ rec.at = "ensure" /\ rec.todo = {} /\ NoWrite /\ UNCHANGED <<cache, budget>>
        /\ Goes([rec EXCEPT !.at = "surplus", !.todo = surplus(controlled), !.controlled = controlled])

\* Deletes are by name, and one of a child that is gone is fine.
DeleteChild ==
    LET i == Min(rec.todo)
    IN  /\ rec.at \in {"surplus", "sweep"} /\ rec.todo # {} /\ UNCHANGED <<cache, budget>>
        /\ Goes([rec EXCEPT !.todo = @ \ {i}])
        /\ IF api.kids[i].there THEN SetKid(i, NoKid) ELSE NoWrite

\* Mutant: B6, a status with the time of each reconcile.
statusChangedAlways(ready) == TRUE

statusChanged(ready) == rec.w.ready # ready \/ rec.w.obs # rec.w.gen

\* A patch by name of the whole status.
patchStatus(ready) == SetWidget([api.widget EXCEPT !.ready = ready, !.obs = rec.w.gen])

WriteStatus ==
    LET ready == Cardinality(rec.controlled \cap required(rec.w))
    IN  /\ rec.at = "surplus" /\ rec.todo = {} /\ UNCHANGED <<cache, budget>>
        /\ IF ~statusChanged(ready) THEN Ends /\ NoWrite
           ELSE IF ~api.widget.there THEN Errs /\ NoWrite
           ELSE Ends /\ patchStatus(ready)

-----------------------------------------------------------------------------
(* The deletion path. *)

\* Mutant: the children are read from the cache.
leftCached == controlledIn(cache.kids, rec.w)

\* Past the cache, so that no Widget is released on a stale list.
left == controlledIn(api.kids, rec.w)

\* Each deletion of a child reconciles the Widget again.
CleanUp ==
    /\ rec.at = "cleanup" /\ NoWrite /\ UNCHANGED <<cache, budget>>
    /\ Goes([rec EXCEPT !.at = IF left = {} THEN "release" ELSE "sweep", !.todo = left])

SweepEnds ==
    /\ rec.at = "sweep" /\ rec.todo = {} /\ Ends /\ NoWrite /\ UNCHANGED <<cache, budget>>

\* A patch by name; a Widget that is gone was released before.  One that is
\* being deleted goes with its finalizer.
Release ==
    /\ rec.at = "release" /\ Ends /\ UNCHANGED <<cache, budget>>
    /\ IF ~rec.w.fin \/ ~api.widget.fin THEN NoWrite
       ELSE SetWidget(IF api.widget.deleting THEN NoWidget ELSE [api.widget EXCEPT !.fin = FALSE])

-----------------------------------------------------------------------------
(* What goes wrong, and the user. *)

Mishap == budget.mishaps < MaxMishaps /\ budget' = [budget EXCEPT !.mishaps = @ + 1]

\* A call that fails.  One that took, and whose answer was lost, is the failure
\* of the next.
CallFails == rec.at # "idle" /\ Errs /\ Mishap /\ NoWrite /\ UNCHANGED cache

\* A process that starts lists everything, and queues what it finds.
Restart ==
    /\ Mishap /\ rec' = Idle /\ cache' = api /\ stale' = {} /\ UNCHANGED api
    /\ queued' = (api.widget.there \/ \E i \in Kids : api.kids[i].there)

User ==
    /\ budget.ops < MaxOps /\ budget' = [budget EXCEPT !.ops = @ + 1]
    /\ UNCHANGED <<cache, queued, rec>>

Create(uid, count) ==
    /\ User /\ ~api.widget.there
    /\ SetWidget([NoWidget EXCEPT !.there = TRUE, !.uid = uid, !.gen = 1, !.count = count])
Update(count) ==
    /\ User /\ api.widget.there /\ ~api.widget.deleting /\ api.widget.count # count
    /\ SetWidget([api.widget EXCEPT !.count = count, !.gen = @ + 1])
Delete ==
    /\ User /\ api.widget.there /\ ~api.widget.deleting
    /\ SetWidget(IF api.widget.fin THEN [api.widget EXCEPT !.deleting = TRUE] ELSE NoWidget)
DeleteManaged(i) == User /\ api.kids[i].there /\ SetKid(i, NoKid)
Relabel ==
    /\ User /\ api' = [api EXCEPT !.label = 1 - @] /\ stale' = stale \cup {TheLabel}

Reconcile ==
    \/ Get \/ AddFinalizer \/ ReadLabel \/ EnsureChild \/ ListChildren \/ DeleteChild \/ WriteStatus
    \/ CleanUp \/ SweepEnds \/ Release

\* The uids are those of the ops that created the Widgets.
UserActs ==
    \/ \E count \in 0 .. MaxCount :
          (budget.ops < MaxWidgets /\ Create(budget.ops + 1, count)) \/ Update(count)
    \/ Delete \/ Relabel \/ \E i \in Kids : DeleteManaged(i)

AtRest == rec.at = "idle" /\ ~queued /\ stale = {}
Rest == AtRest /\ UNCHANGED vars

Next ==
    \/ Reconcile \/ CallFails \/ Restart \/ UserActs \/ Rest
    \/ \E x \in Objects : CacheSync(x)

Spec ==
    /\ Init /\ [][Next]_vars
    /\ WF_vars(Reconcile) /\ \A x \in Objects : WF_vars(CacheSync(x))

-----------------------------------------------------------------------------
(* Properties. *)

\* No ConfigMap outlives its Widget, and none is there without its Widget's
\* finalizer: neither a stale cache nor a crash between two calls ever leaves
\* a child to the collector.
NoOrphans ==
    \A i \in Kids : api.kids[i].there =>
        /\ api.widget.there /\ api.widget.uid = api.kids[i].owner
        /\ api.widget.fin

\* Where the controller has nothing to do, all is as the Widget asks: the
\* children its spec requires and no other, each with the label, and the
\* status of that spec; or the Widget that was deleted is gone.
QuietIsRight ==
    AtRest /\ api.widget.there =>
        /\ ~api.widget.deleting
        /\ controlledIn(api.kids, api.widget) = required(api.widget)
        /\ \A i \in required(api.widget) : api.kids[i].label = api.label
        /\ api.widget.ready = api.widget.count /\ api.widget.obs = api.widget.gen

\* The controller comes to rest once the user and the failures leave it alone.
ComesToRest == <>[]AtRest
=============================================================================
