------------------------------- MODULE Settle -------------------------------
(***************************************************************************)
(* The settle wait: settle.wait, Harness.state and heldOpen of             *)
(* internal/run/settle.go, with Proxy.Held.  The wait polls: it reads the  *)
(* launcher, the proxy's log, the Observer, the clock and the proxy's      *)
(* holds one after the other, and the target goes on in between.           *)
(*                                                                         *)
(* Time is discrete.  The wait sleeps for at least one unit; its readings  *)
(* and the proxy's judgement of a request may be up to Lag units late.     *)
(* The Observer records a version in the instant it stamps it.  When the   *)
(* wait may give up (owed) is the caller's function: it may answer         *)
(* anything up to OwedBy.  Every request shows the target running; leader  *)
(* election is left out.                                                   *)
(***************************************************************************)
EXTENDS Naturals

CONSTANTS
    Requests,   \* the requests the target may send
    Stable,     \* timeouts.stable
    SettleTime, \* timeouts.settle
    Delay,      \* the longest the proxy holds a request
    Floors,     \* the floors a caller may set, 0 for none
    OwedBy,     \* bound: the latest instant owed may answer
    Lag,        \* bound: how late a goroutine may be with its next step
    MaxStart,   \* bound: the latest start of the wait
    LastChange, \* bound: the last instant the Observer or the launcher sees a change
    MaxTime     \* bound: the clock

\* A target is refused whose timeouts are not positive.
ASSUME SettleConstants ==
    /\ Stable \in Nat \ {0} /\ SettleTime \in Nat \ {0} /\ Delay \in Nat /\ OwedBy \in Nat
    /\ Lag \in Nat \ {0} /\ MaxStart \in Nat /\ LastChange \in Nat /\ MaxTime \in Nat \ {0}
    /\ Floors \subseteq Nat

VARIABLES
    now,     \* the clock
    changed, \* when the Observer last recorded a version
    ready,   \* whether the Ready predicate holds on what it recorded
    target,  \* the launcher's status: when the target started, whether it will again
    stopped, \* whether Launcher.Exited is closed
    req,     \* req[r]: what the proxy knows of r
    wait     \* the wait's local state

vars == <<now, changed, ready, target, stopped, req, wait>>
world == <<now, changed, ready, target, stopped, req>>

\* A request "reached" the proxy, which stamped its arrival, before it is held or
\* passed on; it is in the log from then on.
Phase == {"new", "reached", "held", "passed"}

Steps == {"before", "log", "observer", "window", "clock", "process", "held", "owed",
          "hold", "asleep", "status", "converged", "gaveUp", "stopped",
          "error"}
Over == {"converged", "gaveUp", "stopped", "error"}

Time == 1 .. MaxTime
Stamp == 0 .. MaxTime

TypeOK ==
    /\ now \in Time
    /\ changed \in Time
    /\ ready \in BOOLEAN
    /\ target \in [started : Time, restarting : BOOLEAN]
    /\ stopped \in BOOLEAN
    /\ req \in [Requests -> [phase : Phase, arrived : Stamp, held : Stamp, released : Stamp]]
    /\ wait \in [step : Steps, start : Stamp, floor : Floors, started : Stamp,
                 up : BOOLEAN, basis : Stamp, changed : Stamp, clock : Stamp,
                 deadline : Nat]

latest(a, b) == IF b > a THEN b ELSE a

-----------------------------------------------------------------------------
(* What the wait reads. *)

\* Back: when the target first made a request after since, 0 if it has not.
Back(since) ==
    LET shown == {req[r].arrived : r \in {q \in Requests :
                      req[q].phase \in {"held", "passed"} /\ req[q].arrived > since}}
    IN  IF shown = {} THEN 0 ELSE CHOOSE t \in shown : \A u \in shown : t <= u

\* The holds, present or past, of requests that arrived before t.
holdsBefore(t) == {r \in Requests : req[r].held # 0 /\ req[r].arrived < t}

\* Held: whether one of them lasts, and when the last was released, 0 for never.
holding(t) == \E r \in holdsBefore(t) : req[r].released = 0

released(t) ==
    LET ends == {req[r].released : r \in holdsBefore(t)} \cup {0}
    IN  CHOOSE e \in ends : \A f \in ends : f <= e

\* Mutant: a hold that still lasts does not keep the wait open.
heldOpenUntilNow(deadline, t) ==
    latest(deadline, released(deadline) + SettleTime)

\* Mutant: settle from now, whether or not the proxy still holds a request.
heldOpenAlways(deadline, t) == latest(deadline, t + SettleTime)

\* When a wait whose time runs out at deadline may end.
heldOpen(deadline, t) ==
    latest(deadline, (IF holding(deadline) THEN t ELSE released(deadline)) + SettleTime)

\* The wait before it has read anything in this turn.  basis, which the code has no
\* variable for, is when the last change that readiness rests on was recorded.
turn(step, start, floor, clock) ==
    [step |-> step, start |-> start, floor |-> floor, clock |-> clock, started |-> 0,
     up |-> FALSE, basis |-> 0, changed |-> 0, deadline |-> 0]

-----------------------------------------------------------------------------
Init ==
    /\ now = 1
    /\ changed = 1
    /\ ready \in BOOLEAN
    /\ target = [started |-> 1, restarting |-> FALSE]
    /\ stopped = FALSE
    /\ req = [r \in Requests |-> [phase |-> "new", arrived |-> 0, held |-> 0, released |-> 0]]
    /\ \E floor \in Floors :
         wait = turn("before", 0, floor, 0)

(* The target, the API server and the proxy. *)

Waiting == wait.step \notin Over \cup {"before"}

\* Nothing after the wait bears on it, but what becomes of the requests.
Changing == now <= LastChange /\ wait.step \notin Over

\* A unit passes: no delay is longer than Delay, and neither a request's handler
\* nor the wait is later than Lag.
Tick ==
    /\ now < MaxTime
    /\ wait.step \notin Over
    /\ wait.step = "before" => now < MaxStart
    /\ \A r \in Requests : /\ req[r].phase = "reached" => now < req[r].arrived + Lag
                           /\ req[r].phase = "held" => now < req[r].held + Delay
    /\ Waiting => now < wait.clock + Lag
    /\ now' = now + 1
    /\ UNCHANGED <<changed, ready, target, stopped, req, wait>>

\* The Observer records a version of the CR or of a managed object.
Change ==
    /\ Changing
    /\ changed' = now
    /\ ready' \in BOOLEAN
    /\ UNCHANGED <<now, target, stopped, req, wait>>

\* The target exits, and starts again once its backoff has passed or never.
Exit ==
    /\ Changing
    /\ ~target.restarting /\ ~stopped
    /\ target' = [target EXCEPT !.restarting = TRUE]
    /\ UNCHANGED <<now, changed, ready, stopped, req, wait>>

Start ==
    /\ Changing
    /\ target.restarting /\ ~stopped
    /\ target' = [started |-> now, restarting |-> FALSE]
    /\ UNCHANGED <<now, changed, ready, stopped, req, wait>>

Gone ==
    /\ Changing
    /\ target.restarting /\ ~stopped
    /\ stopped' = TRUE
    /\ UNCHANGED <<now, changed, ready, target, req, wait>>

Reach(r) ==
    /\ req[r].phase = "new"
    /\ ~target.restarting
    /\ req' = [req EXCEPT ![r].phase = "reached", ![r].arrived = now]
    /\ UNCHANGED <<now, changed, ready, target, stopped, wait>>

\* faultFor judges the request, and a delay's hold begins under its lock.
Judge(r) ==
    /\ req[r].phase = "reached"
    /\ \/ req' = [req EXCEPT ![r].phase = "held", ![r].held = now]
       \/ req' = [req EXCEPT ![r].phase = "passed"]
    /\ UNCHANGED <<now, changed, ready, target, stopped, wait>>

Release(r) ==
    /\ req[r].phase = "held"
    /\ req' = [req EXCEPT ![r].phase = "passed", ![r].released = now]
    /\ UNCHANGED <<now, changed, ready, target, stopped, wait>>

-----------------------------------------------------------------------------
(* The wait, one reading a step. *)

Begin ==
    /\ wait.step = "before"
    /\ wait' = turn("status", now, wait.floor, now)
    /\ UNCHANGED world

\* state: the launcher's status, then whether the target is back, ...
readStatus ==
    /\ wait.step = "status"
    /\ wait' = [wait EXCEPT !.step = "log", !.started = target.started,
                            !.up = ~target.restarting]
    /\ UNCHANGED world

readLog ==
    /\ wait.step = "log"
    /\ wait' = [wait EXCEPT !.step = "observer", !.up = @ /\ Back(wait.started) # 0,
                            !.changed = latest(latest(wait.start, wait.started),
                                               Back(wait.started))]
    /\ UNCHANGED world

\* ... then readiness, ...
readReady ==
    /\ wait.step = "observer"
    /\ wait' = [wait EXCEPT !.step = "window", !.up = @ /\ ready, !.basis = changed]
    /\ UNCHANGED world

\* Mutant: the window is that of the readings before.
windowSoFar == wait.changed

\* Observer.Window: the last version recorded since the start.
lastChange == latest(wait.changed, changed)

\* ... then the last change, so that one arriving meanwhile counts against stability.
readWindow ==
    /\ wait.step = "window"
    /\ wait' = [wait EXCEPT !.step = "clock", !.changed = lastChange]
    /\ UNCHANGED world

readClock ==
    /\ wait.step = "clock"
    /\ wait' = [wait EXCEPT !.step = "process", !.clock = now]
    /\ UNCHANGED world

checkStopped ==
    /\ wait.step = "process"
    /\ wait' = [wait EXCEPT !.step = IF stopped THEN "stopped" ELSE "held"]
    /\ UNCHANGED world

\* When the run last changed, a hold that lasts counting as a change now.
lastHold == IF holding(wait.clock) THEN wait.clock ELSE released(wait.clock)

converges(last) ==
    wait.up /\ wait.clock >= last + Stable /\ wait.clock >= wait.floor

readHeld ==
    /\ wait.step = "held"
    /\ wait' = [wait EXCEPT !.step = IF converges(latest(wait.changed, lastHold))
                                       THEN "converged" ELSE "owed"]
    /\ UNCHANGED world

\* The deadline: timeouts.settle from the start, timeouts.stable past the floor,
\* or what owed answers now.
dueBy(owed) ==
    latest(latest(wait.start + SettleTime, wait.floor + Stable), owed)

readOwed ==
    /\ wait.step = "owed"
    /\ \E owed \in 0 .. OwedBy :
          wait' = [wait EXCEPT !.step = "hold", !.deadline = dueBy(owed)]
    /\ UNCHANGED world

giveUpOrSleep ==
    /\ wait.step = "hold"
    /\ wait' = IF wait.clock >= heldOpen(wait.deadline, wait.clock)
                 THEN [wait EXCEPT !.step = "gaveUp"]
                 ELSE turn("asleep", wait.start, wait.floor, now)
    /\ UNCHANGED world

wake ==
    /\ wait.step = "asleep"
    /\ now > wait.clock
    /\ wait' = [wait EXCEPT !.step = "status", !.clock = now]
    /\ UNCHANGED world

\* The Ready predicate is no Boolean, or the context ends during the sleep.
fail ==
    /\ wait.step \in {"clock", "asleep"}
    /\ wait' = [wait EXCEPT !.step = "error"]
    /\ UNCHANGED world

WaitStep ==
    \/ Begin \/ readStatus \/ readLog \/ readReady \/ readWindow \/ readClock
    \/ checkStopped \/ readHeld \/ readOwed \/ giveUpOrSleep \/ wake \/ fail

Next ==
    \/ WaitStep
    \/ Tick \/ Change \/ Exit \/ Start \/ Gone
    \/ \E r \in Requests : Reach(r) \/ Judge(r) \/ Release(r)

Spec == Init /\ [][Next]_vars

-----------------------------------------------------------------------------
(* Properties. *)

\* A wait that converged saw the run quiet for timeouts.stable: the changes its
\* readiness rests on, the target's start and return, and every hold of the proxy
\* that had begun by then are at least that old, although each was read at another
\* instant (settle.wait, Harness.state).
ConvergedQuiet ==
    wait.step = "converged" =>
        /\ wait.basis + Stable <= wait.clock
        /\ Back(wait.started) # 0
        /\ latest(wait.started, Back(wait.started)) + Stable <= wait.clock
        /\ \A r \in Requests : req[r].held # 0 /\ req[r].held < wait.clock =>
              req[r].released # 0 /\ req[r].released + Stable <= wait.clock

\* A wait that gave up had given the target all of its time: timeouts.settle from its
\* start and from the release of every request held before its deadline
\* (settle.wait, heldOpen).
GaveUpInTime ==
    wait.step = "gaveUp" =>
        /\ wait.clock >= wait.start + SettleTime
        /\ wait.clock >= wait.floor + Stable
        /\ \A r \in Requests :
              req[r].held # 0 /\ req[r].held < wait.deadline =>
                req[r].released # 0 /\ req[r].released + SettleTime <= wait.clock

\* The wait ends: at most one delay and timeouts.settle past the latest deadline, as
\* Bound reckons (bound.go, hold), and what the handler and the wait are late.
WaitEnds ==
    Waiting =>
        now < latest(latest(wait.start + SettleTime, wait.floor + Stable), OwedBy)
                + Delay + SettleTime + 5 * Lag

=============================================================================
