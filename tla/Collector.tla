----------------------------- MODULE Collector -----------------------------
(***************************************************************************)
(* The garbage collector of the run namespace: cluster.Collector.          *)
(*                                                                         *)
(* Informers deliver the objects of the watched kinds late, each kind at   *)
(* its own pace, and ask for a sweep over a channel of one place.  A sweep *)
(* lists what the informers hold, reads each owner live, and deletes every *)
(* object whose owners it found gone, with the UID and resourceVersion it  *)
(* listed as preconditions.  Every call to the API server is a step of its *)
(* own, and may fail with or without its effect.  Log texts and the owners *)
(* named in collector.jsonl are left out.                                  *)
(***************************************************************************)
EXTENDS GarbageCollection, Sequences, FiniteSets

CONSTANT MaxFailures  \* bound: calls to the API server that fail

ASSUME CollectorConstants == MaxFailures \in Nat

VARIABLES
    pending,    \* pending[k]: the watch events of k still to be delivered
    cache,      \* cache[k]: the object at k in the informer's store
    events,     \* whether Collector.events holds a request for a sweep
    timers,     \* the retries logFailure has pending
    failures,   \* how many calls have failed
    phase,      \* where run is
    todo,       \* the kinds still to list, owners to read or objects to judge
    listed,     \* what objects returned, NoObject where it lists none
    resolved,   \* owners.resolved
    sent,       \* the deletes on their way to the API server
    answer,     \* the API server's answer to the delete the sweep waits for
    deletions,  \* Collector.deletions, as a set
    unresolved, \* Collector.unresolved
    cancelled   \* whether Stop has cancelled the context

informerVars == <<pending, cache>>
sweepVars == <<phase, todo, listed, resolved>>
callVars == <<sent, answer, deletions>>
retryVars == <<timers, failures>>
vars == <<serverVars, informerVars, events, retryVars, sweepVars, callVars,
          unresolved, cancelled>>

Results == {"deleted", "not found", "conflict", "error"}

\* The delete of an object as it was listed: the API server tests the UID and the
\* version.  The sweep no longer awaits it once the call has failed.
Delete == [key : Keys, object : Object, awaited : BOOLEAN]

NoAnswer == [key |-> CHOOSE k \in Keys : TRUE, result |-> "none"]

Unread == [how |-> "unread", uid |-> 0]
Owner == [how : {"unread", "unreadable", "read"}, uid : Nat]

TypeOK ==
    /\ ServerTypeOK
    /\ pending \in [Keys -> Seq(Object)]
    /\ cache \in [Keys -> Object]
    /\ events \in BOOLEAN
    /\ timers \in Nat
    /\ failures \in 0 .. MaxFailures
    /\ phase \in {"idle", "listing", "reading", "judging", "deleting", "stopped"}
    /\ todo \in SUBSET (Kinds \cup Keys)
    /\ listed \in [Keys -> Object]
    /\ resolved \in [Keys -> Owner]
    /\ sent \in SUBSET Delete
    /\ answer \in [key : Keys, result : Results \cup {"none"}]
    /\ deletions \in SUBSET [key : Keys, object : Object, result : Results]
    /\ unresolved \in SUBSET (Keys \X Ref)
    /\ cancelled \in BOOLEAN

-----------------------------------------------------------------------------
Init ==
    /\ ServerInit
    /\ pending = [k \in Keys |-> <<>>]
    /\ cache = [k \in Keys |-> NoObject]
    /\ events = FALSE
    /\ timers = 0
    /\ failures = 0
    /\ phase = "idle"
    /\ todo = {}
    /\ listed = [k \in Keys |-> NoObject]
    /\ resolved = [k \in Keys |-> Unread]
    /\ sent = {}
    /\ answer = NoAnswer
    /\ deletions = {}
    /\ unresolved = {}
    /\ cancelled = FALSE

\* A write reaches the informers of a watched kind as an event.
Emit(k) ==
    pending' = IF KindOf[k] \in Watched
                 THEN [pending EXCEPT ![k] = Append(@, store'[k])]
                 ELSE pending

\* The target or the runner writes an object.
Written(k) ==
    /\ Others(k)
    /\ Emit(k)
    /\ UNCHANGED <<cache, events, retryVars, sweepVars, callVars, unresolved, cancelled>>

\* One request stands for any number of events.
notify == events' = TRUE

\* An informer applies the next event and calls the handler.
Deliver(k) ==
    /\ pending[k] # <<>>
    /\ cache' = [cache EXCEPT ![k] = Head(pending[k])]
    /\ pending' = [pending EXCEPT ![k] = Tail(@)]
    /\ notify
    /\ UNCHANGED <<serverVars, retryVars, sweepVars, callVars, unresolved, cancelled>>

\* The delay of a retry has passed.
Retry ==
    /\ timers > 0
    /\ timers' = timers - 1
    /\ notify
    /\ UNCHANGED <<serverVars, informerVars, failures, sweepVars, callVars,
                   unresolved, cancelled>>

\* Mutant: a failed call is logged and not tried again.
logOnly ==
    /\ failures < MaxFailures
    /\ failures' = failures + 1
    /\ UNCHANGED timers

\* A call failed: another sweep later, unless Stop cut the call short.
logFailure ==
    IF cancelled THEN UNCHANGED retryVars
    ELSE /\ failures < MaxFailures
         /\ failures' = failures + 1
         /\ timers' = timers + 1

-----------------------------------------------------------------------------
(* run and sweep. *)

BeginSweep ==
    /\ phase = "idle"
    /\ events
    /\ events' = FALSE
    /\ phase' = "listing"
    /\ todo' = Watched
    /\ UNCHANGED <<serverVars, informerVars, retryVars, listed, resolved, callVars,
                   unresolved, cancelled>>

\* objects: what the informer of one kind holds, without the marked objects.
List(kind) ==
    /\ phase = "listing"
    /\ kind \in todo
    /\ listed' = [k \in Keys |-> IF KindOf[k] # kind THEN listed[k]
                                 ELSE IF cache[k].deleting THEN NoObject
                                 ELSE cache[k]]
    /\ todo' = todo \ {kind}
    /\ UNCHANGED <<serverVars, informerVars, events, retryVars, phase, resolved,
                   callVars, unresolved, cancelled>>

Refs == UNION {listed[k].refs : k \in Keys}

BeginReading ==
    /\ phase = "listing"
    /\ todo = {}
    /\ phase' = "reading"
    /\ todo' = {ref.key : ref \in {r \in Refs : Resolvable(r)}}
    /\ UNCHANGED <<serverVars, informerVars, events, retryVars, listed, resolved,
                   callVars, unresolved, cancelled>>

\* The live read of an owner: its UID, 0 when there is none.
found(k) == store[k].uid

\* liveOwners reads each owner once; a read that fails counts as unreadable.
ReadOwner(k) ==
    /\ phase = "reading"
    /\ k \in todo
    /\ todo' = todo \ {k}
    /\ \/ /\ ~cancelled
          /\ resolved' = [resolved EXCEPT ![k] = [how |-> "read", uid |-> found(k)]]
          /\ UNCHANGED retryVars
       \/ /\ resolved' = [resolved EXCEPT ![k] = [how |-> "unreadable", uid |-> 0]]
          /\ logFailure
    /\ UNCHANGED <<serverVars, informerVars, events, phase, listed, callVars,
                   unresolved, cancelled>>

BeginJudging ==
    /\ phase = "reading"
    /\ todo = {}
    /\ phase' = "judging"
    /\ todo' = {k \in Keys : listed[k].uid # 0}
    /\ UNCHANGED <<serverVars, informerVars, events, retryVars, listed, resolved,
                   callVars, unresolved, cancelled>>

\* Mutant: an owner the collector failed to read counts as gone.
foundGoneOrUnread(ref) == Resolvable(ref) /\ resolved[ref.key].uid # ref.uid

\* Only an owner read and found missing, or under another UID, is gone.
foundGone(ref) ==
    Resolvable(ref) /\ resolved[ref.key].how = "read" /\ resolved[ref.key].uid # ref.uid

collectible(k) == listed[k].refs # {} /\ \A ref \in listed[k].refs : foundGone(ref)

\* sweep judges an object and sends its delete, unless the collector is stopped.
Judge(k) ==
    /\ phase = "judging"
    /\ k \in todo
    /\ todo' = todo \ {k}
    /\ unresolved' = unresolved \cup
          {<<k, ref>> : ref \in {r \in listed[k].refs : ~Resolvable(r)}}
    /\ \/ /\ collectible(k) /\ ~cancelled
          /\ sent' = sent \cup {[key |-> k, object |-> listed[k], awaited |-> TRUE]}
          /\ answer' = [key |-> k, result |-> "none"]
          /\ phase' = "deleting"
       \/ /\ ~collectible(k) \/ cancelled
          /\ UNCHANGED <<sent, answer, phase>>
    /\ UNCHANGED <<serverVars, informerVars, events, retryVars, listed, resolved,
                   deletions, cancelled>>

\* Mutant: the delete names the UID alone.
UIDMatches(m) == store[m.key].uid = m.object.uid

\* The preconditions of the delete hold.
Matches(m) ==
    store[m.key].uid = m.object.uid /\ store[m.key].version = m.object.version

\* The API server acts on a delete and answers it; nobody hears the answer to a
\* call that has failed.
Serve(m) ==
    /\ m \in sent
    /\ sent' = sent \ {m}
    /\ \E result \in {"deleted", "not found", "conflict"} :
         /\ CASE result = "not found" -> store[m.key].uid = 0
              [] result = "conflict"  -> store[m.key].uid # 0 /\ ~Matches(m)
              [] result = "deleted"   -> store[m.key].uid # 0 /\ Matches(m)
         /\ IF result = "deleted"
              THEN DeleteObject("collector", m.key) /\ Emit(m.key)
              ELSE UNCHANGED <<serverVars, pending>>
         /\ answer' = IF m.awaited THEN [answer EXCEPT !.result = result] ELSE answer
    /\ UNCHANGED <<cache, events, retryVars, sweepVars, deletions, unresolved, cancelled>>

\* Mutant: a delete that Stop cut short is not recorded.
tryUnlessStopped(result) ==
    deletions' = IF cancelled THEN deletions
                 ELSE deletions \cup
                      {[key |-> answer.key, object |-> listed[answer.key], result |-> result]}

\* The attempt is recorded, whatever came of it.
try(result) ==
    deletions' = deletions \cup
        {[key |-> answer.key, object |-> listed[answer.key], result |-> result]}

\* The delete returns: with the answer, ...
Answered ==
    /\ phase = "deleting"
    /\ answer.result # "none"
    /\ phase' = "judging"
    /\ try(answer.result)
    /\ answer' = NoAnswer
    /\ UNCHANGED <<serverVars, informerVars, events, retryVars, todo, listed, resolved,
                   sent, unresolved, cancelled>>

\* ... or with an error, whether or not the API server has acted or still will.
Failed ==
    /\ phase = "deleting"
    /\ phase' = "judging"
    /\ try("error")
    /\ logFailure
    /\ sent' = {[m EXCEPT !.awaited = FALSE] : m \in sent}
    /\ answer' = NoAnswer
    /\ UNCHANGED <<serverVars, informerVars, events, todo, listed, resolved,
                   unresolved, cancelled>>

\* sweep returns, and what it listed and read is gone.
EndSweep ==
    /\ phase = "judging"
    /\ todo = {}
    /\ phase' = "idle"
    /\ listed' = [k \in Keys |-> NoObject]
    /\ resolved' = [k \in Keys |-> Unread]
    /\ UNCHANGED <<serverVars, informerVars, events, retryVars, todo, callVars,
                   unresolved, cancelled>>

\* Stop cancels the context, ...
Stop ==
    /\ ~cancelled
    /\ cancelled' = TRUE
    /\ UNCHANGED <<serverVars, informerVars, events, retryVars, sweepVars, callVars,
                   unresolved>>

\* ... and waits for run to return.
RunReturns ==
    /\ phase = "idle"
    /\ cancelled
    /\ phase' = "stopped"
    /\ UNCHANGED <<serverVars, informerVars, events, retryVars, todo, listed, resolved,
                   callVars, unresolved, cancelled>>

SweepStep ==
    \/ BeginSweep \/ BeginReading \/ BeginJudging \/ EndSweep \/ Answered \/ Failed
    \/ \E kind \in Kinds : List(kind)
    \/ \E k \in Keys : ReadOwner(k) \/ Judge(k)

Next ==
    \/ SweepStep
    \/ \E k \in Keys : Written(k) \/ Deliver(k)
    \/ \E m \in sent : Serve(m)
    \/ Retry \/ Stop \/ RunReturns

Spec == Init /\ [][Next]_vars

\* The informers' and the collector's goroutines run, timers fire, and the API server
\* answers the delete the sweep waits for.
Fairness ==
    /\ \A k \in Keys : WF_vars(Deliver(k))
    /\ WF_vars(SweepStep)
    /\ WF_vars(Retry)
    /\ WF_vars(\E m \in sent : m.awaited /\ Serve(m))

FairSpec == Spec /\ Fairness

-----------------------------------------------------------------------------
(* Properties; GCSpec is the specification this one implements. *)

\* A delete that the API server would still carry out is one of an object whose
\* owners are all gone by now, however late it arrives and whatever was written
\* since the informers, the live reads and the sweep looked: Collector.sweep.
SafeDelete ==
    \A m \in sent :
        store[m.key].uid = m.object.uid /\ store[m.key].version = m.object.version
            => \A ref \in m.object.refs : Gone(ref)

\* Every owner in the log of deletes is gone, whatever became of the delete, and it
\* stays gone: deletion.Owners, "every one of them gone".
LoggedOwnersGone ==
    \A d \in deletions : d.object.refs # {} /\ \A ref \in d.object.refs : Gone(ref)

\* A delete that may still take effect once the collector has stopped or a sweep has
\* gone on is in the log: Collector.delete records every attempt.
NoSilentDelete ==
    \A m \in sent :
        \/ phase = "deleting" /\ m.awaited
        \/ \E d \in deletions : d.key = m.key /\ d.object = m.object

\* An object left without owners is collected, kept or adopted in the end, unless
\* the collector is stopped: no event, conflict or failed call loses the sweep
\* that collects it (notify, logFailure).
OrphanCollected == \A k \in Keys : Orphan(k) ~> (~Orphan(k) \/ cancelled)

=============================================================================
