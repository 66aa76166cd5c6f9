--------------------------- MODULE FaultTimeline ---------------------------
(***************************************************************************)
(* The runner's record of the faults, on top of the proxy: inject,         *)
(* expireFaults, readFaultWindows and clearFaults of run.runner.  The      *)
(* runner takes the proxy's lock once per call, so that requests are       *)
(* judged between its calls.  The proxy outlives the run, so Stop is no    *)
(* part of this.                                                           *)
(***************************************************************************)
EXTENDS FaultProxy

CONSTANT MaxOps  \* bound: ops applied

ASSUME FaultTimelineConstants == MaxOps \in Nat

VARIABLES
    windows, \* Timeline.Faults
    holding, \* runner.faults: the faults whose windows are still read
    op,      \* the index of the last op
    step,    \* what the runner is doing
    todo     \* the faults it still has to do it to

runnerVars == <<windows, holding, op, step, todo>>
allVars == <<vars, runnerVars>>

TimelineTypeOK ==
    /\ TypeOK
    /\ windows \in Seq([start : Stamp, end : Stamp]) /\ Len(windows) = Len(faults)
    /\ holding \subseteq DOMAIN faults
    /\ op \in 0 .. MaxOps
    /\ step \in {"idle", "removing", "expiring", "reading", "tearing", "torn"}
    /\ todo \subseteq DOMAIN faults

\* The runner goes through its faults in the order it injected them.
Next1 == CHOOSE f \in todo : \A g \in todo : f <= g

TimelineInit ==
    /\ Init
    /\ windows = <<>>
    /\ holding = {}
    /\ op = 0
    /\ step = "idle"
    /\ todo = {}

inject(spec) ==
    /\ step = "idle"
    /\ AddFault(spec)
    /\ windows' = Append(windows, [start |-> 0, end |-> 0])
    /\ holding' = holding \cup {Len(faults) + 1}
    /\ UNCHANGED <<op, step, todo>>

\* applyOp begins with expireFaults: it removes the faults due at this op, ...
expireFaults ==
    /\ step = "idle"
    /\ op < MaxOps
    /\ op' = op + 1
    /\ step' = "removing"
    /\ todo' = {f \in holding : faults[f].spec.until \in 1 .. op + 1}
    /\ UNCHANGED <<vars, windows, holding>>

removeDue ==
    /\ step = "removing"
    /\ todo # {}
    /\ RemoveFault(Next1)
    /\ todo' = todo \ {Next1}
    /\ UNCHANGED <<windows, holding, op, step>>

\* ... reads every window, ...
beginReading ==
    /\ step = "removing"
    /\ todo = {}
    /\ step' = "expiring"
    /\ todo' = holding
    /\ UNCHANGED <<vars, windows, holding, op>>

\* Window, too, reads the clock before it takes the lock.
readFaultWindow ==
    /\ step \in {"expiring", "reading", "tearing"}
    /\ todo # {}
    /\ \E t \in 1 .. now :
          windows' = [windows EXCEPT ![Next1] = [start |-> Window(Next1, t).first,
                                                 end |-> Window(Next1, t).retired]]
    /\ todo' = todo \ {Next1}
    /\ UNCHANGED <<vars, holding, op, step>>

\* Mutant: a fault is dropped at its op, before what it holds is released.
stillOpenAtOp == {f \in holding : windows[f].end = 0 /\ faults[f].removed = 0}

\* heldFault.retired is whether the window it was read into is closed.
stillOpen == {f \in holding : windows[f].end = 0}

\* ... and drops the faults that are retired.
dropRetired ==
    /\ step = "expiring"
    /\ todo = {}
    /\ holding' = stillOpen
    /\ step' = "idle"
    /\ UNCHANGED <<vars, windows, op, todo>>

\* asOf reads the windows for the checks and the waits.
asOf ==
    /\ step \in {"idle", "torn"}
    /\ step' = IF step = "idle" THEN "reading" ELSE "tearing"
    /\ todo' = holding
    /\ UNCHANGED <<vars, windows, holding, op>>

readingDone ==
    /\ step \in {"reading", "tearing"}
    /\ todo = {}
    /\ step' = IF step = "reading" THEN "idle" ELSE "torn"
    /\ UNCHANGED <<vars, windows, holding, op, todo>>

\* The teardown clears the faults and reads their windows.
clearFaults ==
    /\ step = "idle"
    /\ ClearFaults
    /\ step' = "tearing"
    /\ todo' = holding
    /\ UNCHANGED <<windows, holding, op>>

RunnerStep ==
    \/ \E spec \in Specs : inject(spec)
    \/ expireFaults \/ removeDue \/ beginReading \/ readFaultWindow \/ dropRetired
    \/ asOf \/ readingDone \/ clearFaults

TimelineNext ==
    \/ RunnerStep
    \/ TrafficStep /\ UNCHANGED runnerVars

TimelineSpec == TimelineInit /\ [][TimelineNext]_allVars

-----------------------------------------------------------------------------
(* Properties. *)

\* The faults of an op are removed when the op they last until is applied, and a
\* window the runner no longer reads still says what the proxy says, for every
\* fault no clock ends (expireFaults, readFaultWindows).
DroppedIsFinal ==
    \A f \in DOMAIN faults \ holding :
        faults[f].spec.for = 0 =>
            /\ windows[f].start = faults[f].first
            /\ windows[f].end = endedBy(f, now)

\* The window of a fault that only its op ends holds every request the proxy
\* faulted with it: each arrived, and each was released, by its end
\* (expireFaults).
WindowHoldsRemoved ==
    \A f \in DOMAIN faults, r \in Requests :
        (/\ windows[f].end # 0
         /\ faults[f].spec.for = 0 /\ faults[f].spec.count = 0
         /\ req[r].fault = f)
        => req[r].start <= windows[f].end /\ req[r].released <= windows[f].end

=============================================================================
