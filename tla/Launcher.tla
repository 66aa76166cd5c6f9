------------------------------ MODULE Launcher ------------------------------
(***************************************************************************)
(* The launcher of the target process: launch.Binary.                      *)
(*                                                                         *)
(* One goroutine of the run calls Start, Restart, Supervise and Stop; each *)
(* process has a goroutine that waits for it and then calls reap; each     *)
(* pending supervisor restart is a timer that calls restart.  All of them  *)
(* take Binary.mu.  Stop and Restart keep it while they wait for a process *)
(* to end, so they are the only operations of more than one step; every    *)
(* other critical section is one action.                                   *)
(*                                                                         *)
(* Arguments, environment and log of the process are left out.  A process  *)
(* is the number of the start that made it; 0 is the nil process.          *)
(***************************************************************************)
EXTENDS Naturals, Sequences

CONSTANTS
    MaxProcs,    \* bound: processes started in one run
    BaseBackoff, \* Options.Backoff, or DefaultBackoff
    MaxBackoff   \* the cap of the backoff

ASSUME LauncherConstants ==
    /\ MaxProcs \in Nat
    /\ BaseBackoff \in Nat \ {0}
    /\ MaxBackoff \in Nat \ {0}

VARIABLES
    proc,    \* proc[p]: where the operating system and the launcher are with p
    started, \* how many processes were started; the newest is number started
    running, \* Binary.running, 0 for nil
    onExit,  \* whether Binary.onExit is set
    ended,   \* whether the run's context, which is also Binary.supervising, ended
    gone,    \* Binary.gone: "none", "open" or "closed"; "panic" once closed twice
    failed,  \* whether Binary.failed is set
    timers,  \* the processes whose time.AfterFunc(delay, restart) is pending
    heard,   \* whose exits onExit was told, in order; Binary.restarts is its length
    delays,  \* how far ahead each of those calls put the restart
    killed,  \* the processes that SIGKILL found alive
    caller   \* where the run's goroutine is in its calls

vars == <<proc, started, running, onExit, ended, gone, failed, timers, heard,
          delays, killed, caller>>

held == <<proc, started, running>>
supervision == <<gone, failed, timers, heard, delays>>

Procs == 1 .. MaxProcs

(***************************************************************************)
(* "alive": the process runs.  "dead": it ended and cmd.Wait has not       *)
(* returned, for as long as a descendant keeps its output open.            *)
(* "exited": done is closed.  "reaped": reap has seen it.                  *)
(***************************************************************************)
ProcState == {"none", "alive", "dead", "exited", "reaped"}

CallerState == {"idle", "checked", "restarting", "terminating", "killing", "down"}

TypeOK ==
    /\ proc \in [Procs -> ProcState]
    /\ started \in 0 .. MaxProcs
    /\ running \in {0, started}
    /\ onExit \in BOOLEAN
    /\ ended \in BOOLEAN
    /\ gone \in {"none", "open", "closed", "panic"}
    /\ failed \in BOOLEAN
    /\ timers \in SUBSET Procs
    /\ heard \in Seq(Procs)
    /\ killed \in SUBSET Procs
    /\ caller \in CallerState

Done(p) == proc[p] \in {"exited", "reaped"}   \* <-p.done returns at once

\* A second close of gone panics, which ends the program.
Alive == gone # "panic"

Unlocked == caller \notin {"restarting", "terminating", "killing"}

-----------------------------------------------------------------------------
(* The operations the critical sections share. *)

\* The doubling loop of backoff, after n turns.
doubled[n \in Nat] ==
    IF n = 0 THEN BaseBackoff
    ELSE IF doubled[n - 1] >= MaxBackoff THEN doubled[n - 1]
    ELSE 2 * doubled[n - 1]

\* How long the restart that follows n restarts waits.
backoff(n) ==
    IF n = 0 THEN 0
    ELSE IF doubled[n - 1] <= MaxBackoff THEN doubled[n - 1] ELSE MaxBackoff

\* cmd.Start succeeds, and the new process is the one the launcher holds.
start ==
    /\ started < MaxProcs
    /\ started' = started + 1
    /\ proc' = [proc EXCEPT ![started + 1] = "alive"]
    /\ running' = started + 1

\* SIGKILL to the held process: signal tolerates one that has already ended.
signalled ==
    killed' = IF proc[running] = "alive" THEN killed \cup {running} ELSE killed

\* The kernel refuses a signal to a process that lives: the call is an error,
\* and the process stays recorded as running.
signalFails ==
    /\ running # 0 /\ proc[running] = "alive"
    /\ caller' = "down"
    /\ UNCHANGED killed

stayDown(channel) ==
    /\ failed' = TRUE
    /\ gone' = IF channel = "closed" THEN "panic" ELSE "closed"

restartLater(p, channel) ==
    \/ /\ ended
       /\ stayDown(channel)
       /\ UNCHANGED <<heard, delays, timers>>
    \/ /\ ~ended
       /\ heard' = Append(heard, p)
       /\ delays' = Append(delays, backoff(Len(heard)))
       /\ timers' = timers \cup {p}
       /\ gone' = channel
       /\ UNCHANGED failed

\* Status.Running: the target is alive, or will be once it is restarted.
StatusRunning == running # 0 /\ ~failed /\ (Done(running) => onExit)

\* Mutant: Supervise takes a process whose reap is still to come for a reaped one.
SeenDone(p) == Done(p)

\* process.reaped: whether the launcher has seen the exit.
Seen(p) == proc[p] = "reaped"

\* Mutant: a process that exited is restarted whatever replaced it.
AlwaysTheTarget(p) == TRUE

\* restart acts only on the process the launcher still holds.
StillTheTarget(p) == running = p

\* Mutant: an exit the supervisor should hear is dropped.
NeverHears(p) == FALSE

\* reap hands the exit of the held process to a supervisor.
Hears(p) == onExit /\ running = p

\* Mutant: kill takes the signal for the end of the process.
EndedWhenSignalled(p) == TRUE

\* <-running.done: what kill and terminate wait for.
Ended(p) == Done(p)

\* Mutant: kill waits for the process without a timer.
NeverGivesUp(p) == FALSE

\* The grace period is over and the process is still not reaped.
GraceOver(p) == ~Done(p)

-----------------------------------------------------------------------------
Init ==
    /\ proc = [p \in Procs |-> "none"]
    /\ started = 0
    /\ running = 0
    /\ onExit = FALSE
    /\ ended = FALSE
    /\ gone = "none"
    /\ failed = FALSE
    /\ timers = {}
    /\ heard = <<>>
    /\ delays = <<>>
    /\ killed = {}
    /\ caller = "idle"

\* The harness starts the target once.  A start that fails ends the run.
Start ==
    /\ Alive
    /\ caller = "idle"
    /\ started = 0
    /\ \/ /\ ~ended
          /\ start
          /\ UNCHANGED caller
       \/ /\ caller' = "down"
          /\ UNCHANGED held
    /\ UNCHANGED <<supervision, onExit, ended, killed>>

(***************************************************************************)
(* The runner supervises the target from the first convergence on.  A      *)
(* target already reaped restarts now.                                     *)
(***************************************************************************)
Supervise ==
    /\ Alive
    /\ caller = "idle"
    /\ started > 0
    /\ gone = "none"
    /\ onExit' = TRUE
    /\ \/ /\ running # 0
          /\ Seen(running)
          /\ restartLater(running, "open")
       \/ /\ running = 0 \/ ~Seen(running)
          /\ gone' = "open"
          /\ UNCHANGED <<heard, delays, timers, failed>>
    /\ UNCHANGED <<held, ended, killed, caller>>

\* The run's context ends: the user interrupts, or the run's time is up.
EndContext ==
    /\ Alive
    /\ ~ended
    /\ ended' = TRUE
    /\ UNCHANGED <<held, supervision, onExit, killed, caller>>

-----------------------------------------------------------------------------
(* The process and its goroutine. *)

\* The process ends, of its own accord or by a signal.
Exit(p) ==
    /\ Alive
    /\ proc[p] = "alive"
    /\ proc' = [proc EXCEPT ![p] = "dead"]
    /\ UNCHANGED <<supervision, started, running, onExit, ended, killed, caller>>

\* cmd.Wait returns, and the goroutine sets exit and closes done.
WaitReturns(p) ==
    /\ Alive
    /\ proc[p] = "dead"
    /\ proc' = [proc EXCEPT ![p] = "exited"]
    /\ UNCHANGED <<supervision, started, running, onExit, ended, killed, caller>>

reap(p) ==
    /\ Alive
    /\ Unlocked
    /\ proc[p] = "exited"
    /\ proc' = [proc EXCEPT ![p] = "reaped"]
    /\ \/ Hears(p) /\ restartLater(p, gone)
       \/ ~Hears(p) /\ UNCHANGED supervision
    /\ UNCHANGED <<started, running, onExit, ended, killed, caller>>

\* The backoff of p's restart has passed.
restart(p) ==
    /\ Alive
    /\ Unlocked
    /\ p \in timers
    /\ timers' = timers \ {p}
    /\ \/ /\ ~StillTheTarget(p)
          /\ UNCHANGED <<held, gone, failed>>
       \/ /\ StillTheTarget(p)
          /\ ~ended
          /\ start
          /\ UNCHANGED <<gone, failed>>
       \/ /\ StillTheTarget(p)      \* supervision ended, or cmd.Start failed
          /\ stayDown(gone)
          /\ UNCHANGED held
    /\ UNCHANGED <<onExit, ended, heard, delays, killed, caller>>

-----------------------------------------------------------------------------
(* The calls of the run's goroutine that end a process. *)

\* The runner reads Status before it applies a restart op; the fixtures it
\* restores, over the network, come between that and the op.
CheckStatus ==
    /\ Alive
    /\ caller = "idle"
    /\ started > 0
    /\ caller' = IF StatusRunning THEN "checked" ELSE "down"
    /\ UNCHANGED <<held, supervision, onExit, ended, killed>>

\* Restart sends SIGKILL.  With no process held it is an error.
Restart ==
    /\ Alive
    /\ caller = "checked"
    /\ \/ running = 0 /\ caller' = "down" /\ UNCHANGED killed
       \/ running # 0 /\ caller' = "restarting" /\ signalled
       \/ signalFails
    /\ UNCHANGED <<held, supervision, onExit, ended>>

\* The process is gone: start the next one, unless the context ended or
\* cmd.Start fails, which leave no process held.
RestartStarts ==
    /\ Alive
    /\ caller = "restarting"
    /\ Ended(running)
    /\ \/ /\ ~ended
          /\ start
          /\ caller' = "idle"
       \/ /\ running' = 0
          /\ caller' = "down"
          /\ UNCHANGED <<proc, started>>
    /\ UNCHANGED <<supervision, onExit, ended, killed>>

\* kill gives up, and the process stays recorded as running.
RestartGivesUp ==
    /\ Alive
    /\ caller = "restarting"
    /\ GraceOver(running)
    /\ caller' = "down"
    /\ UNCHANGED <<held, supervision, onExit, ended, killed>>

\* Stop ends supervision and sends SIGTERM.
Stop ==
    /\ Alive
    /\ caller \in {"idle", "down"}
    /\ onExit' = FALSE
    /\ \/ caller' = (IF running = 0 THEN "down" ELSE "terminating") /\ UNCHANGED killed
       \/ signalFails
    /\ UNCHANGED <<held, supervision, ended>>

\* The grace period or the context is over: SIGKILL.
StopKills ==
    /\ Alive
    /\ caller = "terminating"
    /\ \/ caller' = "killing" /\ signalled
       \/ signalFails
    /\ UNCHANGED <<held, supervision, onExit, ended>>

StopReturns ==
    /\ Alive
    /\ caller \in {"terminating", "killing"}
    /\ Ended(running)
    /\ running' = 0
    /\ caller' = "down"
    /\ UNCHANGED <<supervision, proc, started, onExit, ended, killed>>

StopGivesUp ==
    /\ Alive
    /\ caller = "killing"
    /\ GraceOver(running)
    /\ caller' = "down"
    /\ UNCHANGED <<held, supervision, onExit, ended, killed>>

-----------------------------------------------------------------------------
CallerStep ==
    \/ Start \/ Supervise \/ CheckStatus
    \/ Restart \/ RestartStarts \/ RestartGivesUp
    \/ Stop \/ StopKills \/ StopReturns \/ StopGivesUp

Next ==
    \/ CallerStep
    \/ EndContext
    \/ \E p \in Procs : Exit(p) \/ WaitReturns(p) \/ reap(p) \/ restart(p)

Spec == Init /\ [][Next]_vars

(***************************************************************************)
(* The goroutines and timers of the launcher run, a call that waits under  *)
(* the lock goes on when its timer fires, and the kernel ends a process    *)
(* that was sent SIGKILL.  Nothing makes a target exit by itself, a        *)
(* descendant close its output or the runner call again.                   *)
(***************************************************************************)
Fairness ==
    /\ \A p \in Procs :
          /\ WF_vars(reap(p))
          /\ WF_vars(restart(p))
          /\ WF_vars(p \in killed /\ Exit(p))
    /\ WF_vars(RestartStarts \/ RestartGivesUp)
    /\ WF_vars(StopKills \/ StopReturns \/ StopGivesUp)

FairSpec == Spec /\ Fairness

-----------------------------------------------------------------------------
(* Properties. *)

\* Whatever exits, restarts, timers and calls interleave, no two instances of
\* the target exist at once: a process is started only when cmd.Wait has
\* returned for every earlier one, so a fixed port or lock file is free
\* (Binary.Restart, Binary.kill, Binary.restart).
OneInstance ==
    \A p, q \in 1 .. started : p # q => Done(p) \/ Done(q)

\* The supervisor hears of a process's exit once at most, although Supervise and
\* reap race to report it (Binary.Supervise, Binary.reap).
HeardOnce ==
    \A i, j \in 1 .. Len(heard) : heard[i] = heard[j] => i = j

\* Every exit told to the supervisor has its backoff: none for the first,
\* BaseBackoff for the second and twice the one before for each one after it, and
\* never more than MaxBackoff, however far the count runs past the cap
\* (Binary.restartLater, Binary.backoff).
BackoffDoubles ==
    LET capped(d) == IF d <= MaxBackoff THEN d ELSE MaxBackoff
    IN  /\ Len(delays) = Len(heard)
        /\ \A i \in 1 .. Len(delays) :
              delays[i] = CASE i = 1 -> 0
                            [] i = 2 -> capped(BaseBackoff)
                            [] OTHER -> capped(2 * delays[i - 1])

\* Each exit is told to the supervisor once, with its backoff.
ExitsHeard == HeardOnce /\ BackoffDoubles

\* From the call of Stop on, nothing starts the target again: not a timer that
\* was pending, not the late exit of a process Stop gave up on (Binary.Stop).
StopIsFinal ==
    [][~onExit /\ caller \in {"terminating", "killing", "down"} /\ started > 0
         => started' = started]_vars

\* An exit of a supervised target is answered: the target starts again, or the
\* launcher says it will not, or Stop or Restart replaces it (Binary.Supervise,
\* reap, restart).
ExitIsAnswered ==
    \A p \in Procs :
        (onExit /\ running = p /\ Done(p))
            ~> (running # p \/ failed \/ ~onExit)

\* Stop and Restart return, even when a descendant of the target keeps cmd.Wait
\* from returning (Binary.kill, Binary.terminate).
CallsReturn == ~Unlocked ~> Unlocked

\* Status tells a running target from one that stopped: the launcher reports as
\* running the live process it holds (Status.Running).
StatusTellsAlive == (running # 0 /\ ~Done(running)) => StatusRunning

=============================================================================
