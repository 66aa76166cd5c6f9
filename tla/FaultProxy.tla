----------------------------- MODULE FaultProxy -----------------------------
(***************************************************************************)
(* The faults of the proxy between the target and the API server:          *)
(* internal/proxy.  Each request of the target has a goroutine in serve;   *)
(* the runner adds and removes faults and asks for their windows.  They    *)
(* share Proxy.mu, and the clock, which serve reads before it takes the    *)
(* lock: the instant a request is judged at can be older than what others  *)
(* did under the lock in the meantime.                                     *)
(*                                                                         *)
(* What a fault matches is the set of requests it matches; paths, verbs,   *)
(* bodies and status codes are left out.  So is how long a delay lasts: a  *)
(* held request is released at some later instant.  Time 0 is Go's zero    *)
(* time.Time.                                                              *)
(***************************************************************************)
EXTENDS Naturals, Sequences, FiniteSets

CONSTANTS
    Requests,  \* the requests the target may send
    Specs,     \* the FaultSpecs the runner may inject
    MaxFaults, \* bound: faults given to the proxy
    MaxTime    \* bound: the clock

Actions == {"error", "drop", "delay"}

\* Match is the set of requests, fraction whether RequestMatcher.Fraction may
\* spare one; count and for are the Trigger, until the op that ends the fault
\* (the runner's, 0 for none).
SpecType == [match : SUBSET Requests, fraction : BOOLEAN, action : Actions,
             count : Nat, for : Nat, until : Nat]

ASSUME FaultProxyConstants ==
    /\ Specs \subseteq SpecType
    /\ MaxFaults \in Nat
    /\ MaxTime \in Nat \ {0}

VARIABLES
    now,     \* the clock
    faults,  \* Proxy.faults
    req,     \* req[r]: the goroutine that serves r
    log,     \* Proxy.log, as the set of requests recorded
    latency, \* the requests whose record has its Latency
    server   \* "up", "closed" by Stop, or "stopped" once Stop returned

vars == <<now, faults, req, log, latency, server>>

Time == 1 .. MaxTime
Stamp == 0 .. MaxTime

(***************************************************************************)
(* A request is "new", "arrived" (newRequest stamped Start), "judging"     *)
(* (faultFor has read the clock), "judged" (it has its fault or none),     *)
(* "held" by a delay, "forwarded", "answered" and "served".                *)
(***************************************************************************)
Phase == {"new", "arrived", "judging", "judged", "held", "forwarded", "answered",
          "served"}

Fault == [spec : Specs, since : Time, applied : Nat, first : Stamp, spent : Stamp,
          removed : Stamp]

\* Fault 0 is none.
Request == [phase : Phase, start : Stamp, seen : Stamp, fault : 0 .. MaxFaults,
            released : Stamp]

TypeOK ==
    /\ now \in Time
    /\ faults \in Seq(Fault) /\ Len(faults) <= MaxFaults
    /\ req \in [Requests -> Request]
    /\ log \in SUBSET Requests
    /\ latency \in SUBSET Requests
    /\ server \in {"up", "closed", "stopped"}

-----------------------------------------------------------------------------
(* When a fault is over. *)

\* The earlier of two instants, where 0 has not come.
earliest(a, b) == IF a = 0 \/ (b # 0 /\ b < a) THEN b ELSE a

\* When the proxy stopped applying fault f, as judged at t; 0 while it applies.
retiredBy(f, t) ==
    LET retired == earliest(faults[f].spent, faults[f].removed)
        windowEnd == faults[f].since + faults[f].spec.for
    IN  IF faults[f].spec.for > 0 /\ windowEnd <= t
          THEN earliest(retired, windowEnd)
          ELSE retired

\* injectedFault.holds: the requests a delay held.
Holds(f) == {r \in Requests : req[r].fault = f /\ faults[f].spec.action = "delay"}

\* Mutant: a fault that still holds a request ends all the same.
endedByRetirement(f, t) == retiredBy(f, t)

\* retiredBy, or later while the fault holds a request.
endedBy(f, t) ==
    LET ended == retiredBy(f, t)
        releases == {req[r].released : r \in Holds(f)}
    IN  IF ended = 0 \/ 0 \in releases THEN 0
        ELSE CHOOSE x \in releases \cup {ended} :
                \A y \in releases \cup {ended} : y <= x

\* What Window answers at t.
Window(f, t) == [first |-> faults[f].first, retired |-> endedBy(f, t)]

-----------------------------------------------------------------------------
Init ==
    /\ now = 1
    /\ faults = <<>>
    /\ req = [r \in Requests |-> [phase |-> "new", start |-> 0, seen |-> 0,
                                  fault |-> 0, released |-> 0]]
    /\ log = {}
    /\ latency = {}
    /\ server = "up"

Tick ==
    /\ now < MaxTime
    /\ now' = now + 1
    /\ UNCHANGED <<faults, req, log, latency, server>>

AddFault(spec) ==
    /\ Len(faults) < MaxFaults
    /\ faults' = Append(faults, [spec |-> spec, since |-> now, applied |-> 0,
                                 first |-> 0, spent |-> 0, removed |-> 0])
    /\ UNCHANGED <<now, req, log, latency, server>>

\* Mutant: the removal is stamped with the time the fault was added.
removeEarly(fault) == [fault EXCEPT !.removed = IF @ = 0 THEN fault.since ELSE @]

\* injectedFault.remove: only the first removal counts.
remove(fault) == [fault EXCEPT !.removed = IF @ = 0 THEN now ELSE @]

RemoveFault(f) ==
    /\ faults' = [faults EXCEPT ![f] = remove(@)]
    /\ UNCHANGED <<now, req, log, latency, server>>

ClearFaults ==
    /\ faults' = [f \in DOMAIN faults |-> remove(faults[f])]
    /\ UNCHANGED <<now, req, log, latency, server>>

-----------------------------------------------------------------------------
(* serve, one goroutine per request. *)

Go(r, from, to) ==
    /\ req[r].phase = from
    /\ req' = [req EXCEPT ![r].phase = to]

\* The handler is called: inFlight.Add, and newRequest stamps Start.  Close stops
\* new connections, but a request already read still reaches its handler.
Arrive(r) ==
    /\ req[r].phase = "new"
    /\ req' = [req EXCEPT ![r].phase = "arrived", ![r].start = now]
    /\ UNCHANGED <<now, faults, log, latency, server>>

\* faultFor reads the clock before it takes the lock.
ReadClock(r) ==
    /\ req[r].phase = "arrived"
    /\ req' = [req EXCEPT ![r].phase = "judging", ![r].seen = now]
    /\ UNCHANGED <<now, faults, log, latency, server>>

\* The count and the stamps that applies keeps.
applied(fault, t) ==
    [fault EXCEPT !.applied = @ + 1,
                  !.first = IF fault.applied = 0 THEN t ELSE @,
                  !.spent = IF fault.spec.count > 0 /\ fault.applied + 1 >= fault.spec.count
                              THEN t ELSE @]

\* Mutant: a fault the runner removed is still applied.
activeThoughRemoved(r, t) ==
    {f \in DOMAIN faults : faults[f].spent = 0 /\ r \in faults[f].spec.match}

\* The faults that match r and had not expired at t.
active(r, t) == {f \in DOMAIN faults : retiredBy(f, t) = 0 /\ r \in faults[f].spec.match}

\* The first active fault applies, unless its Fraction spares the request; a
\* delay's hold begins under the same lock.
faultFor(r) ==
    /\ req[r].phase = "judging"
    /\ \E f \in active(r, req[r].seen) \cup {0} :
         /\ \A g \in active(r, req[r].seen) : f = 0 \/ g < f => faults[g].spec.fraction
         /\ faults' = IF f = 0 THEN faults
                      ELSE [faults EXCEPT ![f] = applied(@, req[r].seen)]
         /\ req' = [req EXCEPT ![r].phase = "judged", ![r].fault = f]
    /\ UNCHANGED <<now, log, latency, server>>

ActionOn(r) == IF req[r].fault = 0 THEN "none" ELSE faults[req[r].fault].spec.action

\* appendRecord, then the fault's action: an error or a drop answers the
\* request, a delay holds it, and without a fault it is forwarded.
appendRecord(r) ==
    /\ Go(r, "judged", CASE ActionOn(r) = "none" -> "forwarded"
                         [] ActionOn(r) = "delay" -> "held"
                         [] OTHER -> "answered")
    /\ log' = log \cup {r}
    /\ UNCHANGED <<now, faults, latency, server>>

\* Mutant: the hold of a released request is not ended.
awaitUnreleased(r) ==
    /\ Go(r, "held", "forwarded")
    /\ UNCHANGED <<now, faults, log, latency, server>>

\* await: the delay elapsed, or the target hung up, which forwards nothing.
await(r) ==
    /\ req[r].phase = "held"
    /\ \E phase \in {"forwarded", "answered"} :
          req' = [req EXCEPT ![r].phase = phase, ![r].released = now]
    /\ UNCHANGED <<now, faults, log, latency, server>>

\* The API server answers, or the connection breaks; a watch may never end.
Upstream(r) ==
    /\ Go(r, "forwarded", "answered")
    /\ UNCHANGED <<now, faults, log, latency, server>>

\* The handler returns: the record gets its Latency, and inFlight.Done.
Finish(r) ==
    /\ Go(r, "answered", "served")
    /\ latency' = latency \cup {r}
    /\ UNCHANGED <<now, faults, log, server>>

inFlight == {r \in Requests : req[r].phase \notin {"new", "served"}}

\* Mutant: Stop waits without breaking the connections, as http.Server.Shutdown does.
brokenNever == FALSE

\* Close has broken every connection, which ends the exchange of each handler.
broken == server # "up"

\* Stop closes the server, ...
StopCloses ==
    /\ server = "up"
    /\ server' = "closed"
    /\ UNCHANGED <<now, faults, req, log, latency>>

\* ... and waits for the handlers: inFlight.Wait.
StopReturns ==
    /\ server = "closed"
    /\ inFlight = {}
    /\ server' = "stopped"
    /\ UNCHANGED <<now, faults, req, log, latency>>

Serve(r) ==
    \/ Arrive(r) \/ ReadClock(r) \/ faultFor(r) \/ appendRecord(r)
    \/ await(r) \/ Upstream(r) \/ Finish(r)

TrafficStep == Tick \/ \E r \in Requests : Serve(r)

\* The proxy with a caller that may do anything.
Next ==
    \/ TrafficStep
    \/ StopCloses \/ StopReturns
    \/ \E spec \in Specs : AddFault(spec)
    \/ \E f \in DOMAIN faults : RemoveFault(f)
    \/ ClearFaults

Spec == Init /\ [][Next]_vars

(***************************************************************************)
(* A handler that can go on does, a delay's timer fires, and so does Stop  *)
(* once inFlight is empty.  The API server need not answer: a watch stays  *)
(* open until the target ends it, or Close breaks its connection.          *)
(***************************************************************************)
Fairness ==
    /\ \A r \in Requests :
         /\ WF_vars(ReadClock(r) \/ faultFor(r) \/ appendRecord(r) \/ await(r) \/ Finish(r))
         /\ WF_vars(broken /\ Upstream(r))
    /\ WF_vars(StopReturns)

-----------------------------------------------------------------------------
(* Properties. *)

\* A counted fault hits no more requests than its count, although requests are
\* judged concurrently and by clocks read before the lock (applies, retiredBy).
CountRespected ==
    \A f \in DOMAIN faults :
        faults[f].spec.count > 0 =>
            Cardinality({r \in Requests : req[r].fault = f}) <= faults[f].spec.count

\* No request a fault was applied to comes after the fault's removal: its clock
\* is no later than the removal's (injectedFault.remove).
RemovedIsLast ==
    \A f \in DOMAIN faults, r \in Requests :
        faults[f].removed # 0 /\ req[r].fault = f => req[r].seen <= faults[f].removed

\* A fault stops where its count or its removal says, whatever clock a request
\* is judged by.
FaultLimits == CountRespected /\ RemovedIsLast

\* Once the proxy reports a fault retired that no clock ends, the answer is final:
\* its window never moves, it holds no request and no further one is faulted (Window,
\* endedBy).  The runner relies on it when it drops a retired fault.
RetiredForGood ==
    [][\A f \in DOMAIN faults :
          faults[f].spec.for = 0 /\ endedBy(f, now) # 0
            => /\ Window(f, now)' = Window(f, now)
               /\ \A r \in Holds(f) : req[r].released # 0
               /\ faults'[f].applied = faults[f].applied]_vars

\* Stop returns although it waits for handlers that nobody else ends, a delay's or a
\* watch's: what it closed first ends them all (Proxy.Stop, serve, await).  The
\* runner tears the rest down only then.
StopEnds == (server = "closed") ~> (server = "stopped")

\* A fault that is removed comes to an end: the requests it holds are released
\* (await), so a wait that the runner keeps open for them can end.
RemovedFaultEnds ==
    \A f \in 1 .. MaxFaults :
        (f \in DOMAIN faults /\ faults[f].removed # 0)
            ~> (f \in DOMAIN faults /\ endedBy(f, now) # 0)

=============================================================================
