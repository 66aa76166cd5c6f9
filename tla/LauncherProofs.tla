--------------------------- MODULE LauncherProofs ---------------------------
(***************************************************************************)
(* The safety of the launcher, for any number of processes and any         *)
(* backoff.  The inductive invariant says which process the launcher holds *)
(* at each point: every other one is reaped as far as kill waits for, a    *)
(* timer is pending only for a process reap has seen, and once Stop has    *)
(* ended supervision no timer is pending for the process still held.       *)
(***************************************************************************)
EXTENDS Launcher, TLAPS, SequenceTheorems, NaturalsInduction, WellFoundedInduction

\* Processes are numbered in the order they were started.
Numbered == \A p \in Procs : proc[p] = "none" <=> p > started

\* Only the process held can still be running.
OthersDone == \A p \in 1 .. started : p # running => Done(p)

\* A timer is pending, and an exit heard, only for a process reap has seen.
TimersReaped == \A p \in timers : proc[p] = "reaped"
HeardReaped == \A i \in 1 .. Len(heard) : proc[heard[i]] = "reaped"

\* Before Supervise nothing was heard; after it only Stop clears onExit.
Unsupervised ==
    /\ started = 0 => gone = "none"
    /\ gone = "none" => ~onExit /\ heard = <<>> /\ timers = {}
    /\ ~onExit => gone = "none" \/ caller \in {"terminating", "killing", "down"}

\* Restart and Stop wait for a process; Stop has cleared onExit.
Waiting ==
    /\ ~Unlocked => running # 0
    /\ caller \in {"terminating", "killing"} => ~onExit

\* When Stop has returned, no timer can find its process still held.
NoneToRestart == ~onExit /\ caller = "down" => running \notin timers

IInv ==
    /\ TypeOK
    /\ Numbered
    /\ OthersDone
    /\ TimersReaped
    /\ HeardReaped
    /\ HeardOnce
    /\ Unsupervised
    /\ Waiting
    /\ NoneToRestart

\* The invariant holds before the target is started.
LEMMA InitIInv == Init => IInv
<1> SUFFICES ASSUME Init PROVE IInv
  OBVIOUS
<1> USE LauncherConstants DEF Init
<1>1. TypeOK
  <2>1. proc \in [Procs -> ProcState] /\ started \in 0 .. MaxProcs /\ running \in {0, started}
    BY DEF ProcState
  <2>2. onExit \in BOOLEAN /\ ended \in BOOLEAN /\ failed \in BOOLEAN
    OBVIOUS
  <2>3. /\ gone \in {"none", "open", "closed", "panic"}
        /\ caller \in CallerState
    BY DEF CallerState
  <2>4. timers \in SUBSET Procs /\ heard \in Seq(Procs) /\ killed \in SUBSET Procs
    OBVIOUS
  <2> QED
    BY <2>1, <2>2, <2>3, <2>4 DEF TypeOK
<1>2. Numbered /\ OthersDone
  BY DEF Numbered, OthersDone, Procs
<1>3. TimersReaped /\ HeardReaped /\ HeardOnce
  BY DEF TimersReaped, HeardReaped, HeardOnce
<1>4. Unsupervised /\ Waiting /\ NoneToRestart
  BY DEF Unsupervised, Waiting, NoneToRestart, Unlocked
<1> QED
  BY <1>1, <1>2, <1>3, <1>4 DEF IInv

\* Waiting is needed where Stop signals the process it holds.
LEMMA StepTypeOK == TypeOK /\ Waiting /\ [Next]_vars => TypeOK'
<1> SUFFICES ASSUME TypeOK, Waiting, [Next]_vars PROVE TypeOK'
  OBVIOUS
<1> USE LauncherConstants DEF TypeOK, held, supervision
<1> DEFINE HeldOK == /\ proc' \in [Procs -> ProcState]
                     /\ started' \in 0 .. MaxProcs
                     /\ running' \in {0, started'}
           HeardOK == timers' \in SUBSET Procs /\ heard' \in Seq(Procs)
           GoneOK == gone' \in {"none", "open", "closed", "panic"} /\ failed' \in BOOLEAN
<1>1. start => HeldOK
  BY DEF start, ProcState, Procs
<1>2. ASSUME NEW p \in Procs, NEW c \in {"open", gone}, restartLater(p, c)
      PROVE  HeardOK /\ GoneOK
  <2>1. heard' \in Seq(Procs)
    BY <1>2, AppendProperties DEF restartLater
  <2>2. timers' \in SUBSET Procs
    BY <1>2 DEF restartLater
  <2>3. GoneOK
    BY <1>2 DEF restartLater, stayDown
  <2> QED
    BY <2>1, <2>2, <2>3
<1>3. CASE Start
  BY <1>1, <1>3 DEF Start, CallerState
<1>4. CASE Supervise
  <2>1. HeardOK /\ GoneOK
    <3>1. CASE running # 0 /\ restartLater(running, "open")
      <4>1. running \in Procs
        BY <3>1 DEF Procs
      <4> QED
        BY <1>2, <3>1, <4>1
    <3>2. CASE gone' = "open" /\ UNCHANGED <<heard, delays, timers, failed>>
      BY <3>2
    <3> QED
      BY <1>4, <3>1, <3>2 DEF Supervise
  <2> QED
    BY <1>4, <2>1 DEF Supervise
<1>5. CASE EndContext
  BY <1>5 DEF EndContext
<1>6. CASE CheckStatus
  BY <1>6 DEF CheckStatus, CallerState
<1>7. CASE Restart \/ StopKills
  <2>1. running # 0 => running \in Procs
    BY DEF Procs
  <2>2. signalled => killed' \in SUBSET Procs \/ running = 0
    BY <2>1 DEF signalled
  <2>3. StopKills => running # 0
    BY DEF StopKills, Waiting, Unlocked
  <2> QED
    BY <1>7, <2>2, <2>3 DEF Restart, StopKills, signalFails, CallerState
<1>8. CASE RestartStarts
  BY <1>1, <1>8 DEF RestartStarts, CallerState
<1>9. CASE RestartGivesUp \/ StopGivesUp
  BY <1>9 DEF RestartGivesUp, StopGivesUp, CallerState
<1>10. CASE Stop
  BY <1>10 DEF Stop, signalFails, CallerState
<1>11. CASE StopReturns
  BY <1>11 DEF StopReturns, CallerState
<1>12. ASSUME NEW p \in Procs, Exit(p) \/ WaitReturns(p) PROVE TypeOK'
  BY <1>12 DEF Exit, WaitReturns, ProcState
<1>13. ASSUME NEW p \in Procs, reap(p) PROVE TypeOK'
  <2>1. HeardOK /\ GoneOK
    BY <1>2, <1>13 DEF reap
  <2> QED
    BY <1>13, <2>1 DEF reap, ProcState
<1>14. ASSUME NEW p \in Procs, restart(p) PROVE TypeOK'
  <2>1. HeldOK
    BY <1>1, <1>14 DEF restart
  <2>2. HeardOK /\ GoneOK
    BY <1>14 DEF restart, stayDown
  <2> QED
    BY <1>14, <2>1, <2>2 DEF restart
<1>15. CASE UNCHANGED vars
  BY <1>15 DEF vars
<1> QED
  BY <1>3, <1>4, <1>5, <1>6, <1>7, <1>8, <1>9, <1>10, <1>11, <1>12, <1>13,
     <1>14, <1>15 DEF Next, CallerStep

\* A step that leaves processes and supervision alone can disturb only what is
\* said of the caller.
LEMMA CallerOnly ==
  ASSUME IInv, TypeOK', Waiting', NoneToRestart', UNCHANGED <<held, supervision>>,
         onExit' = onExit \/ (~onExit' /\ caller' \in {"terminating", "down"}),
         caller \in {"terminating", "killing", "down"}
            => caller' \in {"terminating", "killing", "down"}
  PROVE  IInv'
<1>1. Numbered' /\ OthersDone'
  BY DEF IInv, Numbered, OthersDone, Done, held
<1>2. TimersReaped' /\ HeardReaped' /\ HeardOnce'
  BY DEF IInv, TimersReaped, HeardReaped, HeardOnce, held, supervision
<1>3. Unsupervised'
  BY DEF IInv, Unsupervised, supervision, held
<1> QED
  BY <1>1, <1>2, <1>3 DEF IInv

\* Starting a process, with every earlier one done, leaves timers and exits heard
\* about reaped processes.
LEMMA StartStep ==
  ASSUME IInv, start, TypeOK', heard' = heard, timers' \subseteq timers,
         running # 0 => Done(running)
  PROVE  Numbered' /\ OthersDone' /\ TimersReaped' /\ HeardReaped' /\ HeardOnce'
<1> USE LauncherConstants DEF IInv, TypeOK
<1>1. /\ started + 1 \in Procs
      /\ proc[started + 1] = "none"
      /\ \A p \in Procs : p # started + 1 => proc'[p] = proc[p]
      /\ proc'[started + 1] = "alive"
  BY DEF start, Procs, Numbered
<1>2. Numbered'
  BY <1>1 DEF Numbered, start, Procs
<1>3. OthersDone'
  BY <1>1 DEF OthersDone, Done, start, Procs
<1>4. TimersReaped'
  BY <1>1 DEF TimersReaped
<1>5. HeardReaped' /\ HeardOnce'
  BY <1>1 DEF HeardReaped, HeardOnce
<1> QED
  BY <1>2, <1>3, <1>4, <1>5

\* An exit that was not heard before can be heard: what is heard stays distinct
\* and reaped.
LEMMA HearStep ==
  ASSUME IInv, NEW p \in Procs, NEW c, restartLater(p, c),
         \A i \in 1 .. Len(heard) : heard[i] # p,
         proc'[p] = "reaped", \A q \in Procs : proc[q] = "reaped" => proc'[q] = "reaped"
  PROVE  TimersReaped' /\ HeardReaped' /\ HeardOnce'
<1> USE DEF IInv, TypeOK
<1>1. TimersReaped'
  BY DEF restartLater, TimersReaped
<1>2. CASE heard' = heard
  BY <1>1, <1>2 DEF HeardReaped, HeardOnce
<1>3. CASE heard' = Append(heard, p)
  <2>1. /\ Len(heard') = Len(heard) + 1
        /\ Len(heard) \in Nat
        /\ heard'[Len(heard) + 1] = p
        /\ \A i \in 1 .. Len(heard) : heard'[i] = heard[i] /\ heard[i] \in Procs
    BY <1>3
  <2>2. HeardReaped'
    BY <2>1 DEF HeardReaped
  <2>3. HeardOnce'
    BY <2>1 DEF HeardOnce
  <2> QED
    BY <1>1, <2>2, <2>3
<1> QED
  BY <1>2, <1>3 DEF restartLater

\* Every call, exit, reap and timer keeps the invariant.
LEMMA StepIInv == IInv /\ [Next]_vars => IInv'
<1> SUFFICES ASSUME IInv, [Next]_vars PROVE IInv'
  OBVIOUS
<1>0. TypeOK /\ TypeOK' /\ Waiting
  BY StepTypeOK DEF IInv
<1> USE LauncherConstants
<1>1. CASE Start
  <2>1. running = 0
    BY <1>0, <1>1 DEF Start, TypeOK
  <2>2. Numbered' /\ OthersDone' /\ TimersReaped' /\ HeardReaped' /\ HeardOnce'
    <3>1. CASE start
      BY <1>0, <1>1, <2>1, <3>1, StartStep DEF Start, supervision
    <3>2. CASE UNCHANGED held
      BY <1>1, <3>2 DEF Start, supervision, held, IInv, Numbered, OthersDone, Done,
         TimersReaped, HeardReaped, HeardOnce
    <3> QED
      BY <1>1, <3>1, <3>2 DEF Start
  <2>3. gone = "none" /\ ~onExit
    BY <1>1 DEF Start, IInv, Unsupervised
  <2>4. Unsupervised' /\ Waiting' /\ NoneToRestart'
    BY <1>1, <2>3 DEF Start, supervision, IInv, Unsupervised, Waiting, NoneToRestart, Unlocked
  <2> QED
    BY <1>0, <2>2, <2>4 DEF IInv
<1>2. CASE Supervise
  <2>1. TimersReaped' /\ HeardReaped' /\ HeardOnce'
    <3>1. CASE running # 0 /\ Seen(running) /\ restartLater(running, "open")
      <4>1. running \in Procs
        BY <1>0, <3>1 DEF TypeOK, Procs
      <4>2. heard = <<>>
        BY <1>2 DEF Supervise, IInv, Unsupervised
      <4> QED
        BY <1>2, <3>1, <4>1, <4>2, HearStep DEF Supervise, held, Seen
    <3>2. CASE UNCHANGED <<heard, delays, timers, failed>>
      BY <1>2, <3>2 DEF Supervise, held, IInv, TimersReaped, HeardReaped, HeardOnce
    <3> QED
      BY <1>2, <3>1, <3>2 DEF Supervise
  <2>2. Numbered' /\ OthersDone'
    BY <1>2 DEF Supervise, held, IInv, Numbered, OthersDone, Done
  <2>3. gone' # "none"
    BY <1>2 DEF Supervise, restartLater, stayDown
  <2>4. Unsupervised' /\ Waiting' /\ NoneToRestart'
    BY <1>2, <2>3 DEF Supervise, held, IInv, Unsupervised, Waiting, NoneToRestart, Unlocked
  <2> QED
    BY <1>0, <2>1, <2>2, <2>4 DEF IInv
<1>3. CASE EndContext
  BY <1>0, <1>3, CallerOnly
  DEF EndContext, held, supervision, IInv, Waiting, NoneToRestart, Unlocked
<1>4. CASE CheckStatus \/ Restart \/ RestartGivesUp
  <2>1. ~onExit => timers = {}
    BY <1>4 DEF CheckStatus, Restart, RestartGivesUp, IInv, Unsupervised
  <2>2. UNCHANGED <<held, supervision, onExit>>
    BY <1>4 DEF CheckStatus, Restart, RestartGivesUp
  <2>3. Waiting'
    BY <1>4, <2>2 DEF CheckStatus, Restart, RestartGivesUp, signalFails, held, Waiting, Unlocked
  <2>4. NoneToRestart'
    BY <2>1, <2>2 DEF NoneToRestart, supervision
  <2> QED
    BY <1>0, <1>4, <2>2, <2>3, <2>4, CallerOnly DEF CheckStatus, Restart, RestartGivesUp
<1>5. CASE Stop \/ StopKills
  <2>1. UNCHANGED <<held, supervision>> /\ ~onExit'
    BY <1>0, <1>5 DEF Stop, StopKills, Waiting
  <2>2. Waiting'
    BY <1>0, <1>5, <2>1 DEF Stop, StopKills, signalFails, held, Waiting, Unlocked
  <2>3. NoneToRestart'
    <3>1. 0 \notin timers
      BY <1>0 DEF TypeOK, Procs
    <3>2. running # 0 /\ proc[running] = "alive" => running \notin timers
      BY DEF IInv, TimersReaped
    <3> QED
      BY <1>5, <2>1, <3>1, <3>2 DEF Stop, StopKills, signalFails, NoneToRestart, held, supervision
  <2> QED
    BY <1>0, <1>5, <2>1, <2>2, <2>3, CallerOnly DEF Stop, StopKills, signalFails
<1>6. CASE StopGivesUp
  <2>1. running \notin timers
    BY <1>6 DEF StopGivesUp, GraceOver, Done, IInv, TimersReaped
  <2> QED
    BY <1>0, <1>6, <2>1, CallerOnly
    DEF StopGivesUp, held, supervision, Waiting, NoneToRestart, Unlocked
<1>7. CASE RestartStarts
  <2>1. Numbered' /\ OthersDone' /\ TimersReaped' /\ HeardReaped' /\ HeardOnce'
    <3>1. CASE start
      BY <1>0, <1>7, <3>1, StartStep DEF RestartStarts, supervision, Ended
    <3>2. CASE running' = 0 /\ UNCHANGED <<proc, started>>
      BY <1>7, <3>2 DEF RestartStarts, supervision, Ended, IInv, Numbered, OthersDone,
         Done, TimersReaped, HeardReaped, HeardOnce
    <3> QED
      BY <1>7, <3>1, <3>2 DEF RestartStarts
  <2>2. 0 \notin timers
    BY <1>0 DEF TypeOK, Procs
  <2>3. started' = 0 => started = 0
    BY <1>0, <1>7 DEF RestartStarts, start, TypeOK
  <2>4. Unsupervised' /\ Waiting' /\ NoneToRestart'
    BY <1>7, <2>2, <2>3 DEF RestartStarts, supervision, IInv, Unsupervised, Waiting,
       NoneToRestart, Unlocked
  <2> QED
    BY <1>0, <2>1, <2>4 DEF IInv
<1>8. CASE StopReturns
  <2>1. 0 \notin timers
    BY <1>0 DEF TypeOK, Procs
  <2>2. Numbered' /\ OthersDone'
    BY <1>8 DEF StopReturns, Ended, IInv, Numbered, OthersDone, Done
  <2>3. TimersReaped' /\ HeardReaped' /\ HeardOnce'
    BY <1>8 DEF StopReturns, supervision, IInv, TimersReaped, HeardReaped, HeardOnce
  <2>4. Unsupervised' /\ Waiting' /\ NoneToRestart'
    BY <1>8, <2>1 DEF StopReturns, supervision, IInv, Unsupervised, Waiting,
       NoneToRestart, Unlocked
  <2> QED
    BY <1>0, <2>2, <2>3, <2>4 DEF IInv
<1>9. ASSUME NEW p \in Procs, Exit(p) \/ WaitReturns(p) PROVE IInv'
  <2>1. /\ proc[p] \in {"alive", "dead"}
        /\ proc'[p] \in {"dead", "exited"}
        /\ \A q \in Procs : q # p => proc'[q] = proc[q]
    BY <1>0, <1>9 DEF Exit, WaitReturns, TypeOK
  <2>2. UNCHANGED <<supervision, started, running, onExit, caller>>
    BY <1>9 DEF Exit, WaitReturns
  <2>3. Numbered'
    BY <2>1, <2>2 DEF IInv, Numbered
  <2>4. OthersDone'
    <3>0. started \in Nat /\ p \in Nat /\ p > 0
      BY <1>0 DEF TypeOK, Procs
    <3>1. p = running
      BY <2>1, <3>0 DEF IInv, Numbered, OthersDone, Done
    <3> QED
      BY <1>0, <2>1, <2>2, <3>1 DEF IInv, TypeOK, OthersDone, Done, Procs
  <2>5. TimersReaped' /\ HeardReaped' /\ HeardOnce'
    BY <1>0, <2>1, <2>2 DEF supervision, IInv, TypeOK, TimersReaped, HeardReaped, HeardOnce
  <2>6. Unsupervised' /\ Waiting' /\ NoneToRestart'
    BY <2>2 DEF supervision, IInv, Unsupervised, Waiting, NoneToRestart, Unlocked
  <2> QED
    BY <1>0, <2>3, <2>4, <2>5, <2>6 DEF IInv
<1>10. ASSUME NEW p \in Procs, reap(p) PROVE IInv'
  <2>1. /\ proc[p] = "exited"
        /\ proc' = [proc EXCEPT ![p] = "reaped"]
        /\ UNCHANGED <<started, running, onExit, caller>>
    BY <1>10 DEF reap
  <2>2. Numbered' /\ OthersDone'
    BY <1>0, <2>1 DEF IInv, TypeOK, Numbered, OthersDone, Done, Procs
  <2>3. /\ \A i \in 1 .. Len(heard) : heard[i] # p
        /\ proc'[p] = "reaped"
        /\ \A q \in Procs : proc[q] = "reaped" => proc'[q] = "reaped"
    BY <1>0, <2>1 DEF IInv, TypeOK, HeardReaped
  <2>4. CASE Hears(p) /\ restartLater(p, gone)
    <3>1. TimersReaped' /\ HeardReaped' /\ HeardOnce'
      BY <2>3, <2>4, HearStep
    <3>2. onExit /\ gone # "none"
      BY <2>4 DEF Hears, IInv, Unsupervised
    <3>3. gone' # "none"
      BY <2>4, <3>2 DEF restartLater, stayDown
    <3>4. Unsupervised' /\ Waiting' /\ NoneToRestart'
      BY <2>1, <3>2, <3>3 DEF IInv, Unsupervised, Waiting, NoneToRestart, Unlocked
    <3> QED
      BY <1>0, <2>2, <3>1, <3>4 DEF IInv
  <2>5. CASE UNCHANGED supervision
    <3>1. TimersReaped' /\ HeardReaped' /\ HeardOnce'
      BY <1>0, <2>3, <2>5 DEF supervision, IInv, TypeOK, TimersReaped, HeardReaped, HeardOnce
    <3>2. Unsupervised' /\ Waiting' /\ NoneToRestart'
      BY <2>1, <2>5 DEF supervision, IInv, Unsupervised, Waiting, NoneToRestart, Unlocked
    <3> QED
      BY <1>0, <2>2, <3>1, <3>2 DEF IInv
  <2> QED
    BY <1>10, <2>4, <2>5 DEF reap
<1>11. ASSUME NEW p \in Procs, restart(p) PROVE IInv'
  <2>1. /\ timers' = timers \ {p} /\ p \in timers /\ Unlocked
        /\ UNCHANGED <<onExit, heard, caller>>
    BY <1>11 DEF restart
  <2>2. Numbered' /\ OthersDone' /\ TimersReaped' /\ HeardReaped' /\ HeardOnce'
    <3>1. CASE StillTheTarget(p) /\ start
      <4>1. Done(running)
        BY <2>1, <3>1 DEF StillTheTarget, IInv, TimersReaped, Done
      <4> QED
        BY <1>0, <2>1, <3>1, <4>1, StartStep
    <3>2. CASE UNCHANGED held
      BY <2>1, <3>2 DEF held, IInv, Numbered, OthersDone, Done, TimersReaped,
         HeardReaped, HeardOnce
    <3> QED
      BY <1>11, <3>1, <3>2 DEF restart
  <2>3. gone # "none" /\ gone' # "none"
    BY <1>11, <2>1 DEF restart, stayDown, IInv, Unsupervised
  <2>4. started' # 0
    BY <1>0, <1>11, <2>3 DEF restart, start, held, IInv, Unsupervised, TypeOK
  <2>5. Unsupervised' /\ Waiting'
    BY <1>11, <2>1, <2>3, <2>4 DEF IInv, Unsupervised, Waiting, Unlocked
  <2>6. NoneToRestart'
    <3>1. ~onExit /\ caller = "down" => running # p
      BY <2>1 DEF IInv, NoneToRestart
    <3> QED
      BY <1>11, <2>1, <3>1 DEF restart, StillTheTarget, IInv, NoneToRestart, held
  <2> QED
    BY <1>0, <2>2, <2>5, <2>6 DEF IInv
<1>12. CASE UNCHANGED vars
  BY <1>0, <1>12, CallerOnly
  DEF vars, held, supervision, IInv, Waiting, NoneToRestart, Unlocked
<1> QED
  BY <1>1, <1>2, <1>3, <1>4, <1>5, <1>6, <1>7, <1>8, <1>9, <1>10, <1>11, <1>12
  DEF Next, CallerStep

\* The inductive invariant holds in every state of the launcher.
THEOREM Inductive == Spec => []IInv
  BY InitIInv, StepIInv, PTL DEF Spec

\* The launcher's state keeps its type, and the process it holds is the newest.
THEOREM TypeCorrect == Spec => []TypeOK
  BY Inductive, PTL DEF IInv

\* For any number of processes, no two instances of the target exist at once.
THEOREM AtMostOneInstance == Spec => []OneInstance
<1>1. IInv => OneInstance
  BY DEF IInv, OneInstance, OthersDone
<1> QED
  BY <1>1, Inductive, PTL

\* For any number of processes, no exit is told to the supervisor twice.
THEOREM ExitHeardOnce == Spec => []HeardOnce
  BY Inductive, PTL DEF IInv

\* For any number of processes, nothing starts the target again from Stop on.
THEOREM StoppedForGood == Spec => StopIsFinal
<1>1. IInv /\ [Next]_vars
        => [~onExit /\ caller \in {"terminating", "killing", "down"} /\ started > 0
              => started' = started]_vars
  <2> SUFFICES ASSUME IInv, Next, ~onExit, started > 0,
                      caller \in {"terminating", "killing", "down"}
               PROVE  started' = started
    BY DEF vars
  <2>1. ASSUME NEW p \in Procs, restart(p) PROVE started' = started
    <3>1. caller = "down" /\ running # p
      BY <2>1 DEF restart, Unlocked, IInv, NoneToRestart
    <3> QED
      BY <2>1, <3>1 DEF restart, StillTheTarget, held
  <2>2. ASSUME NEW p \in Procs, Exit(p) \/ WaitReturns(p) \/ reap(p) PROVE started' = started
    BY <2>2 DEF Exit, WaitReturns, reap
  <2>3. CASE CallerStep
    BY <2>3 DEF CallerStep, Start, Supervise, CheckStatus, Restart, RestartStarts,
       RestartGivesUp, Stop, StopKills, StopReturns, StopGivesUp, held
  <2>4. CASE EndContext
    BY <2>4 DEF EndContext, held
  <2> QED
    BY <2>1, <2>2, <2>3, <2>4 DEF Next
<1> QED
  BY <1>1, Inductive, PTL DEF Spec, StopIsFinal

-----------------------------------------------------------------------------
(* The backoff: what the doubling loop computes for any number of turns.   *)

\* A set of naturals that is not empty has a least element.
LEMMA LeastOf ==
    ASSUME NEW S \in SUBSET Nat, S # {}
    PROVE  \E n \in S : \A m \in S : n <= m
<1> DEFINE R == {ss \in Nat \X Nat : ss[1] < ss[2]}
<1>1. IsWellFoundedOn(R, Nat)
  BY NatLessThanWellFounded DEF OpToRel
<1> HIDE DEF R
<1>2. PICK n \in S : \A m \in S : <<m, n>> \notin R
  BY <1>1, WFMin
<1>3. ASSUME NEW m \in S, m < n PROVE FALSE
  <2>1. <<m, n>> \in R
    BY <1>3 DEF R
  <2> QED
    BY <1>2, <2>1
<1> QED
  BY <1>2, <1>3

\* One turn of the doubling loop, and the first k turns of it.
Turn(d) == IF d >= MaxBackoff THEN d ELSE 2 * d
Turns(g, k) ==
    /\ g \in [0 .. k -> Nat] /\ g[0] = BaseBackoff
    /\ \A m \in 1 .. k : g[m] = Turn(g[m - 1])

\* The loop runs for any number of turns.
LEMMA TurnsExist == \A k \in Nat : \E g : Turns(g, k)
<1> DEFINE S == {k \in Nat : ~\E g : Turns(g, k)}
<1> SUFFICES ASSUME S # {} PROVE FALSE
  OBVIOUS
<1>1. PICK k \in S : \A m \in S : k <= m
  BY LeastOf
<1>2. k # 0
  <2>1. Turns([m \in 0 .. 0 |-> BaseBackoff], 0)
    BY LauncherConstants DEF Turns
  <2> QED
    BY <2>1
<1>3. k - 1 \in Nat /\ k - 1 \notin S
  BY <1>1, <1>2
<1>4. PICK g : Turns(g, k - 1)
  BY <1>3
<1> DEFINE h == [m \in 0 .. k |-> IF m = k THEN Turn(g[k - 1]) ELSE g[m]]
<1>5. Turns(h, k)
  <2>1. Turn(g[k - 1]) \in Nat
    BY <1>3, <1>4, LauncherConstants DEF Turns, Turn
  <2>2. h \in [0 .. k -> Nat] /\ h[0] = BaseBackoff
    BY <2>1, <1>2, <1>4 DEF Turns
  <2>3. ASSUME NEW m \in 1 .. k PROVE h[m] = Turn(h[m - 1])
    <3>1. h[m - 1] = g[m - 1]
      BY <1>3
    <3>2. CASE m = k
      BY <3>1, <3>2
    <3>3. CASE m # k
      <4>1. m \in 1 .. k - 1 /\ h[m] = g[m]
        BY <3>3, <1>3
      <4> QED
        BY <4>1, <3>1, <1>4 DEF Turns
    <3> QED
      BY <3>2, <3>3
  <2> QED
    BY <2>2, <2>3 DEF Turns
<1> QED
  BY <1>5

\* It computes the same each time.
LEMMA TurnsAgree ==
    ASSUME NEW k \in Nat, NEW g, NEW h, Turns(g, k), Turns(h, k + 1)
    PROVE  \A m \in 0 .. k : g[m] = h[m]
<1> DEFINE S == {m \in 0 .. k : g[m] # h[m]}
<1> SUFFICES ASSUME S # {} PROVE FALSE
  OBVIOUS
<1>1. S \in SUBSET Nat
  OBVIOUS
<1>2. PICK m \in S : \A n \in S : m <= n
  BY <1>1, LeastOf
<1>3. m # 0
  BY <1>2 DEF Turns
<1>4. m \in 1 .. k /\ m \in 1 .. k + 1 /\ m - 1 \in 0 .. k /\ m - 1 \notin S
  BY <1>2, <1>3
<1>5. g[m - 1] = h[m - 1]
  BY <1>4
<1> QED
  BY <1>2, <1>4, <1>5 DEF Turns

\* So the recursive function is defined: a turn takes each value to the next.
LEMMA Doubled ==
    /\ doubled \in [Nat -> Nat] /\ doubled[0] = BaseBackoff
    /\ \A n \in Nat : doubled[n + 1] = Turn(doubled[n])
<1> DEFINE T(n) == CHOOSE g : Turns(g, n)
           f == [n \in Nat |-> T(n)[n]]
<1>1. ASSUME NEW n \in Nat PROVE Turns(T(n), n)
  BY TurnsExist
<1> HIDE DEF T
<1>2. f \in [Nat -> Nat] /\ f[0] = BaseBackoff
  <2>1. ASSUME NEW n \in Nat PROVE T(n)[n] \in Nat
    BY <1>1 DEF Turns
  <2>2. T(0)[0] = BaseBackoff
    BY <1>1 DEF Turns
  <2> QED
    BY <2>1, <2>2
<1>3. ASSUME NEW n \in Nat PROVE f[n + 1] = Turn(f[n])
  <2>1. Turns(T(n), n) /\ Turns(T(n + 1), n + 1)
    BY <1>1
  <2>2. T(n)[n] = T(n + 1)[n]
    BY <2>1, TurnsAgree
  <2>3. T(n + 1)[n + 1] = Turn(T(n + 1)[n])
    BY <2>1 DEF Turns
  <2> QED
    BY <2>2, <2>3
<1> HIDE DEF f
<1> DEFINE Rec(g) == [n \in Nat |-> IF n = 0 THEN BaseBackoff
                                    ELSE IF g[n - 1] >= MaxBackoff THEN g[n - 1]
                                    ELSE 2 * g[n - 1]]
<1>4. f = Rec(f)
  <2>1. ASSUME NEW n \in Nat PROVE f[n] = Rec(f)[n]
    <3>1. CASE n = 0
      BY <3>1, <1>2
    <3>2. CASE n # 0
      <4>1. n - 1 \in Nat /\ (n - 1) + 1 = n
        BY <3>2
      <4>2. f[n] = Turn(f[n - 1])
        BY <4>1, <1>3
      <4> QED
        BY <4>2, <3>2 DEF Turn
    <3> QED
      BY <3>1, <3>2
  <2> QED
    BY <2>1, <1>2
<1>5. doubled = Rec(doubled)
  BY <1>4 DEF doubled
<1>6. ASSUME NEW n \in Nat PROVE doubled[n] = f[n]
  <2> DEFINE S == {m \in Nat : doubled[m] # f[m]}
  <2> SUFFICES ASSUME S # {} PROVE FALSE
    OBVIOUS
  <2>1. PICK m \in S : \A k \in S : m <= k
    BY LeastOf
  <2>2. m # 0
    BY <2>1, <1>2, <1>5
  <2>3. m - 1 \in Nat /\ doubled[m - 1] = f[m - 1]
    BY <2>1, <2>2
  <2> QED
    BY <2>1, <2>2, <2>3, <1>4, <1>5
<1>7. doubled = f
  BY <1>5, <1>6, <1>2
<1> QED
  BY <1>2, <1>3, <1>7

\* The delay after n restarts: BaseBackoff after the first, then twice the one
\* before, never above the cap.
LEMMA BackoffStep ==
    /\ backoff(0) = 0
    /\ backoff(1) = IF BaseBackoff <= MaxBackoff THEN BaseBackoff ELSE MaxBackoff
    /\ \A n \in Nat : backoff(n) \in Nat
    /\ \A n \in Nat \ {0} :
          backoff(n + 1) = IF 2 * backoff(n) <= MaxBackoff THEN 2 * backoff(n) ELSE MaxBackoff
<1> USE LauncherConstants
<1>1. backoff(0) = 0
  BY DEF backoff
<1>2. backoff(1) = IF BaseBackoff <= MaxBackoff THEN BaseBackoff ELSE MaxBackoff
  BY Doubled DEF backoff
<1>3. ASSUME NEW n \in Nat PROVE backoff(n) \in Nat
  <2>1. CASE n # 0
    <3>1. n - 1 \in Nat
      BY <2>1
    <3>2. doubled[n - 1] \in Nat
      BY <3>1, Doubled
    <3> QED
      BY <3>2 DEF backoff
  <2> QED
    BY <1>1, <2>1
<1>4. ASSUME NEW n \in Nat \ {0}
      PROVE  backoff(n + 1) = IF 2 * backoff(n) <= MaxBackoff THEN 2 * backoff(n) ELSE MaxBackoff
  <2>1. n - 1 \in Nat /\ (n - 1) + 1 = n /\ (n + 1) - 1 = n
    OBVIOUS
  <2> DEFINE d == doubled[n - 1]
  <2>2. d \in Nat /\ doubled[n] = Turn(d)
    BY <2>1, Doubled
  <2>3. backoff(n) = IF d <= MaxBackoff THEN d ELSE MaxBackoff
    BY DEF backoff
  <2>4. backoff(n + 1) = IF Turn(d) <= MaxBackoff THEN Turn(d) ELSE MaxBackoff
    BY <2>1, <2>2 DEF backoff
  <2> HIDE DEF d
  <2> QED
    BY <2>2, <2>3, <2>4 DEF Turn
<1> QED
  BY <1>1, <1>2, <1>3, <1>4

\* The i-th exit heard waits as long as i - 1 restarts make it.
Delayed ==
    /\ delays \in Seq(Nat) /\ Len(delays) = Len(heard)
    /\ \A i \in 1 .. Len(delays) : delays[i] = backoff(i - 1)

\* An exit is heard together with its delay, and neither changes otherwise.
LEMMA StepDelayed == TypeOK /\ Delayed /\ [Next]_vars => Delayed'
<1> SUFFICES ASSUME TypeOK, Delayed, [Next]_vars PROVE Delayed'
  OBVIOUS
<1>1. CASE UNCHANGED <<heard, delays>>
  BY <1>1 DEF Delayed
<1>2. ASSUME NEW p \in Procs, NEW c, restartLater(p, c) PROVE Delayed'
  <2>1. CASE heard' = Append(heard, p) /\ delays' = Append(delays, backoff(Len(heard)))
    <3>1. Len(heard) \in Nat /\ Len(delays) = Len(heard) /\ delays \in Seq(Nat)
      BY DEF TypeOK, Delayed
    <3>2. backoff(Len(heard)) \in Nat
      BY <3>1, BackoffStep
    <3>3. /\ Len(heard') = Len(heard) + 1 /\ Len(delays') = Len(heard) + 1
          /\ delays' \in Seq(Nat) /\ delays'[Len(heard) + 1] = backoff(Len(heard))
          /\ \A i \in 1 .. Len(heard) : delays'[i] = delays[i]
      BY <2>1, <3>1, <3>2 DEF TypeOK
    <3>4. ASSUME NEW i \in 1 .. Len(heard) + 1 PROVE delays'[i] = backoff(i - 1)
      <4>1. CASE i = Len(heard) + 1
        <5>1. i - 1 = Len(heard)
          BY <3>1, <4>1
        <5> QED
          BY <4>1, <5>1, <3>3
      <4>2. CASE i # Len(heard) + 1
        <5>1. i \in 1 .. Len(heard)
          BY <3>1, <4>2
        <5> QED
          BY <5>1, <3>1, <3>3 DEF Delayed
      <4> QED
        BY <4>1, <4>2
    <3> QED
      BY <3>3, <3>4 DEF Delayed
  <2> QED
    BY <1>1, <1>2, <2>1 DEF restartLater
<1>3. CASE Supervise
  <2>1. CASE restartLater(running, "open") /\ running # 0
    <3>1. running \in Procs
      BY <2>1 DEF TypeOK, Procs
    <3> QED
      BY <1>2, <2>1, <3>1
  <2> QED
    BY <1>1, <1>3, <2>1 DEF Supervise
<1>4. ASSUME NEW p \in Procs, reap(p) PROVE Delayed'
  BY <1>1, <1>2, <1>4 DEF reap, supervision
<1>5. ASSUME NEW p \in Procs, Exit(p) \/ WaitReturns(p) \/ restart(p) PROVE Delayed'
  BY <1>1, <1>5 DEF Exit, WaitReturns, restart, supervision
<1>6. CASE CallerStep /\ ~Supervise
  BY <1>1, <1>6 DEF CallerStep, Start, CheckStatus, Restart, RestartStarts, RestartGivesUp,
     Stop, StopKills, StopReturns, StopGivesUp, supervision
<1>7. CASE EndContext
  BY <1>1, <1>7 DEF EndContext, supervision
<1>8. CASE UNCHANGED vars
  BY <1>1, <1>8 DEF vars
<1> QED
  BY <1>3, <1>4, <1>5, <1>6, <1>7, <1>8 DEF Next, CallerStep

\* For any number of processes and any backoff: each exit is told to the
\* supervisor once, and its restart waits twice as long as the one before, up
\* to the cap.
THEOREM HeardWithBackoff == Spec => []ExitsHeard
<1>1. Init => Delayed
  BY DEF Init, Delayed
<1>2. TypeOK /\ Delayed => BackoffDoubles
  <2> SUFFICES ASSUME TypeOK, Delayed PROVE BackoffDoubles
    OBVIOUS
  <2>1. Len(delays) \in Nat /\ Len(delays) = Len(heard)
    BY DEF Delayed
  <2>2. ASSUME NEW i \in 1 .. Len(delays), i > 2
        PROVE  delays[i] = IF 2 * delays[i - 1] <= MaxBackoff THEN 2 * delays[i - 1]
                           ELSE MaxBackoff
    <3>1. i - 1 \in 1 .. Len(delays) /\ i - 2 \in Nat \ {0} /\ (i - 2) + 1 = i - 1 /\ (i - 1) - 1 = i - 2
      BY <2>1, <2>2
    <3>2. delays[i] = backoff(i - 1) /\ delays[i - 1] = backoff(i - 2)
      BY <3>1 DEF Delayed
    <3> QED
      BY <3>1, <3>2, BackoffStep
  <2>3. ASSUME NEW i \in 1 .. Len(delays), i \in {1, 2} PROVE delays[i] = backoff(i - 1)
    BY DEF Delayed
  <2> QED
    BY <2>1, <2>2, <2>3, BackoffStep DEF BackoffDoubles
<1> QED
  BY <1>1, <1>2, StepDelayed, TypeCorrect, ExitHeardOnce, PTL DEF Spec, ExitsHeard

=============================================================================
