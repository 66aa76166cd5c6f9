---------------------------- MODULE SettleProofs ----------------------------
(***************************************************************************)
(* A settle wait that converged saw the run quiet, one that gave up had    *)
(* given the target all of its time, and every wait ends in time: for any  *)
(* number of requests and any timeouts, delays, floors and lag.            *)
(*                                                                         *)
(* The wait reads each thing at another instant, so the invariant says at  *)
(* each of its steps what it has read and what is still true of it         *)
(* (Reading), how old its clock is (Timely) and what of a request's stamps *)
(* follows from its phase (Handled).                                       *)
(***************************************************************************)
EXTENDS Settle, TLAPS, NaturalsInduction, WellFoundedInduction

\* A set of naturals that is not empty has a least element.
LEMMA LeastOf ==
    ASSUME NEW S \in SUBSET Nat, S # {}
    PROVE  \E n \in S : \A m \in S : n <= m
<1> DEFINE R == {ss \in Nat \X Nat : ss[1] < ss[2]}
<1>1. IsWellFoundedOn(R, Nat)
  BY NatLessThanWellFounded DEF OpToRel
<1> HIDE DEF R
<1>2. PICK n \in S : \A m \in S : <<m, n>> \notin R
  BY <1>1, WFMin
<1>3. ASSUME NEW m \in S, m < n PROVE FALSE
  <2>1. <<m, n>> \in R
    BY <1>3 DEF R
  <2> QED
    BY <1>2, <2>1
<1> QED
  BY <1>2, <1>3

\* A set of naturals that is not empty and has a bound has a greatest element.
LEMMA GreatestOf ==
    ASSUME NEW b \in Nat, NEW S \in SUBSET (0 .. b), S # {}
    PROVE  \E n \in S : \A m \in S : m <= n
<1> DEFINE T == {k \in 0 .. b : b - k \in S}
<1>1. T \in SUBSET Nat
  OBVIOUS
<1>2. T # {}
  <2>1. PICK s \in S : TRUE
    OBVIOUS
  <2>2. b - s \in 0 .. b /\ b - (b - s) = s
    OBVIOUS
  <2>3. b - s \in T
    BY <2>2
  <2> QED
    BY <2>3
<1>3. PICK k \in T : \A m \in T : k <= m
  BY <1>1, <1>2, LeastOf
<1>4. ASSUME NEW m \in S PROVE m <= b - k
  <2>1. b - m \in 0 .. b /\ b - (b - m) = m
    OBVIOUS
  <2>2. b - m \in T
    BY <2>1
  <2> QED
    BY <1>3, <2>2
<1>5. b - k \in S
  BY <1>3
<1> QED
  BY <1>4, <1>5

-----------------------------------------------------------------------------

\* No stamp is in the future.
Clocked == changed <= now /\ target.started <= now /\ wait.clock <= now /\ wait.start <= now

\* The stamps of a request: the proxy judges it within Lag of its arrival, and
\* holds it for Delay at most.
Handled ==
    \A r \in Requests :
        /\ req[r].phase \in {"new", "reached"} => req[r].held = 0 /\ req[r].released = 0
        /\ req[r].phase = "reached" => req[r].arrived <= now /\ now <= req[r].arrived + Lag
        /\ req[r].held # 0 => /\ req[r].arrived <= req[r].held /\ req[r].held <= now
                              /\ req[r].held <= req[r].arrived + Lag
        /\ req[r].phase = "held" => /\ req[r].held # 0 /\ req[r].released = 0
                                    /\ now <= req[r].held + Delay
        /\ req[r].phase = "passed" /\ req[r].held # 0 =>
              req[r].released # 0 /\ req[r].released <= req[r].held + Delay
        /\ req[r].released <= now

\* The requests that show the target running, since it was last seen to start.
Seen == {r \in Requests : req[r].phase \in {"held", "passed"} /\ req[r].arrived > wait.started}

\* What the wait has read in this turn still holds of what it read.
Reading ==
    /\ wait.step \in {"observer", "window", "clock", "process", "held", "converged"} =>
          /\ wait.started <= wait.changed
          /\ wait.up => \E r \in Seen : req[r].arrived <= wait.changed
    /\ wait.step = "window" => wait.basis <= changed
    /\ wait.step \in {"clock", "process", "held", "converged"} => wait.basis <= wait.changed

\* The latest instant the wait may be due at.
LastDue == latest(latest(wait.start + SettleTime, wait.floor + Stable), OwedBy)

\* The deadline of a turn that may give up.
Due ==
    wait.step \in {"hold", "gaveUp"} =>
        /\ wait.deadline >= wait.start + SettleTime /\ wait.deadline >= wait.floor + Stable
        /\ wait.deadline <= LastDue

\* A wait that ended keeps its reasons.
Ended ==
    /\ wait.step = "converged" =>
          /\ wait.up /\ wait.clock >= wait.changed + Stable
          /\ \A r \in Requests : req[r].held # 0 /\ req[r].held < wait.clock =>
                req[r].released # 0 /\ req[r].released + Stable <= wait.clock
    /\ wait.step = "gaveUp" =>
          /\ wait.clock >= wait.deadline
          /\ \A r \in Requests : req[r].held # 0 /\ req[r].held < wait.deadline =>
                req[r].released # 0 /\ req[r].released + SettleTime <= wait.clock

\* A turn whose clock is later than this ends the wait.
LastTurn == LastDue + Delay + SettleTime + Lag

\* The wait is at most Lag late with its next step, and a turn that does not end it
\* began before the last release it may wait for and timeouts.settle.
Timely ==
    /\ Waiting => now <= wait.clock + Lag
    /\ wait.step = "asleep" => wait.clock < LastTurn + Lag
    /\ wait.step \in {"status", "log", "observer", "window", "clock"} =>
          wait.clock < LastTurn + 2 * Lag
    /\ wait.step \in {"process", "held", "owed", "hold"} => wait.clock < LastTurn + 3 * Lag

\* The inductive invariant.
IInv == TypeOK /\ Clocked /\ Handled /\ Reading /\ Due /\ Ended /\ Timely

-----------------------------------------------------------------------------
(* What the wait reads. *)

\* The later of two instants is one of them and no earlier than either.
LEMMA LatestIs ==
    ASSUME NEW a \in Nat, NEW b \in Nat
    PROVE  /\ latest(a, b) \in Nat /\ latest(a, b) >= a /\ latest(a, b) >= b
           /\ latest(a, b) = a \/ latest(a, b) = b
BY DEF latest

\* All stamps are naturals.
LEMMA Numbers ==
    ASSUME TypeOK
    PROVE  /\ now \in Nat /\ changed \in Nat
           /\ wait.start \in Nat /\ wait.floor \in Nat /\ wait.started \in Nat
           /\ wait.basis \in Nat /\ wait.changed \in Nat /\ wait.clock \in Nat
           /\ wait.deadline \in Nat
<1>1. wait.floor \in Floors
  BY DEF TypeOK
<1>2. wait.floor \in Nat
  BY <1>1, SettleConstants
<1> QED
  BY <1>2, SettleConstants DEF TypeOK, Time, Stamp

\* Back is the first arrival after since of a request in the log, 0 for none.
LEMMA BackIs ==
    ASSUME TypeOK, NEW since \in Stamp
    PROVE  LET S == {r \in Requests : req[r].phase \in {"held", "passed"} /\ req[r].arrived > since}
           IN  /\ Back(since) \in Stamp
               /\ S = {} => Back(since) = 0
               /\ \A r \in S : Back(since) # 0 /\ Back(since) <= req[r].arrived
               /\ Back(since) # 0 => \E r \in S : Back(since) = req[r].arrived
<1> DEFINE S == {r \in Requests : req[r].phase \in {"held", "passed"} /\ req[r].arrived > since}
           shown == {req[r].arrived : r \in S}
<1>1. \A r \in Requests : req[r].arrived \in Stamp
  BY DEF TypeOK
<1>2. shown \in SUBSET Nat /\ shown \in SUBSET Stamp /\ 0 \notin shown
  BY <1>1, SettleConstants DEF Stamp
<1>3. Back(since) = IF shown = {} THEN 0 ELSE CHOOSE t \in shown : \A u \in shown : t <= u
  BY DEF Back
<1>4. /\ \A r \in S : req[r].arrived \in shown
      /\ \A t \in shown : \E r \in S : t = req[r].arrived
  OBVIOUS
<1> HIDE DEF S, shown
<1>5. CASE shown = {}
  <2>1. S = {} /\ Back(since) = 0 /\ Back(since) \in Stamp
    BY <1>3, <1>4, <1>5, SettleConstants DEF Stamp
  <2> QED
    BY <2>1 DEF S
<1>6. CASE shown # {}
  <2>1. \E t \in shown : \A u \in shown : t <= u
    BY <1>2, <1>6, LeastOf
  <2>2. Back(since) \in shown /\ \A u \in shown : Back(since) <= u
    BY <1>3, <1>6, <2>1
  <2>3. S # {} /\ Back(since) \in Stamp /\ Back(since) # 0
    BY <1>2, <1>4, <2>2
  <2>4. /\ \A r \in S : Back(since) <= req[r].arrived
        /\ \E r \in S : Back(since) = req[r].arrived
    BY <1>4, <2>2
  <2> QED
    BY <2>3, <2>4 DEF S
<1> QED
  BY <1>5, <1>6 DEF S

\* released is the last release of a hold of a request that arrived before t.
LEMMA ReleasedIs ==
    ASSUME TypeOK, NEW t
    PROVE  /\ released(t) \in Stamp
           /\ \A r \in holdsBefore(t) : req[r].released <= released(t)
           /\ released(t) # 0 => \E r \in holdsBefore(t) : released(t) = req[r].released
<1> DEFINE ends == {req[r].released : r \in holdsBefore(t)} \cup {0}
<1>1. \A r \in Requests : req[r].released \in Stamp
  BY DEF TypeOK
<1>2. ends \in SUBSET (0 .. MaxTime) /\ ends # {}
  BY <1>1, SettleConstants DEF Stamp, holdsBefore
<1>3. \E e \in ends : \A f \in ends : f <= e
  BY <1>2, GreatestOf, SettleConstants
<1>4. released(t) = CHOOSE e \in ends : \A f \in ends : f <= e
  BY DEF released
<1>5. released(t) \in ends /\ \A f \in ends : f <= released(t)
  BY <1>3, <1>4
<1> QED
  BY <1>2, <1>5 DEF Stamp

-----------------------------------------------------------------------------
(* The invariant. *)

\* The wait's local states.
Waits == [step : Steps, start : Stamp, floor : Floors, started : Stamp, up : BOOLEAN,
          basis : Stamp, changed : Stamp, clock : Stamp, deadline : Nat]

\* The invariant holds before the wait begins.
LEMMA Starts == Init => IInv
<1> SUFFICES ASSUME Init PROVE IInv
  OBVIOUS
<1> USE SettleConstants DEF Init, turn
<1>1. TypeOK
  <2>1. now \in Time /\ changed \in Time /\ target \in [started : Time, restarting : BOOLEAN]
    BY DEF Time
  <2>2. req \in [Requests -> [phase : Phase, arrived : Stamp, held : Stamp, released : Stamp]]
    BY DEF Stamp, Phase
  <2>3. wait \in Waits
    BY DEF Waits, Stamp, Steps
  <2> QED
    BY <2>1, <2>2, <2>3 DEF TypeOK, Waits
<1>2. Clocked /\ Handled
  BY DEF Clocked, Handled
<1>3. Reading /\ Due /\ Ended
  BY DEF Reading, Due, Ended
<1>4. Timely
  BY DEF Timely, Waiting, Over
<1> QED
  BY <1>1, <1>2, <1>3, <1>4 DEF IInv

\* Every step keeps the types.
LEMMA TypeOKKept == IInv /\ [Next]_vars => TypeOK'
<1> SUFFICES ASSUME IInv, [Next]_vars PROVE TypeOK'
  OBVIOUS
<1> USE SettleConstants DEF IInv, TypeOK
<1>1. CASE Begin
  BY <1>1 DEF Begin, world, turn, Time, Stamp, Steps, Phase
<1>2. CASE readStatus
  <2>1. target.started \in Stamp /\ target.restarting \in BOOLEAN /\ "log" \in Steps
    BY DEF Time, Stamp, Steps
  <2>9. wait' \in Waits
    BY <1>2, <2>1 DEF Waits, readStatus
  <2> QED
    BY <1>2, <2>9 DEF Waits, readStatus, world
<1>3. CASE readLog
  <2>1. Back(wait.started) \in Stamp
    BY BackIs
  <2>2. latest(latest(wait.start, wait.started), Back(wait.started)) \in Stamp /\ "observer" \in Steps
    BY <2>1 DEF latest, Stamp, Steps
  <2>9. wait' \in Waits
    BY <1>3, <2>2 DEF Waits, readLog
  <2> QED
    BY <1>3, <2>9 DEF Waits, readLog, world
<1>4. CASE readReady
  <2>1. changed \in Stamp /\ "window" \in Steps
    BY DEF Time, Stamp, Steps
  <2>9. wait' \in Waits
    BY <1>4, <2>1 DEF Waits, readReady
  <2> QED
    BY <1>4, <2>9 DEF Waits, readReady, world
<1>5. CASE readWindow
  <2>1. lastChange \in Stamp /\ "clock" \in Steps
    BY DEF lastChange, latest, Time, Stamp, Steps
  <2>9. wait' \in Waits
    BY <1>5, <2>1 DEF Waits, readWindow
  <2> QED
    BY <1>5, <2>9 DEF Waits, readWindow, world
<1>6. CASE readClock
  <2>1. now \in Stamp /\ "process" \in Steps
    BY DEF Time, Stamp, Steps
  <2>9. wait' \in Waits
    BY <1>6, <2>1 DEF Waits, readClock
  <2> QED
    BY <1>6, <2>9 DEF Waits, readClock, world
<1>7. CASE checkStopped
  BY <1>7 DEF checkStopped, world, Time, Stamp, Steps, Phase
<1>8. CASE readHeld
  BY <1>8 DEF readHeld, world, Time, Stamp, Steps, Phase
<1>9. CASE readOwed
  <2>1. \A owed \in 0 .. OwedBy : dueBy(owed) \in Nat
    BY Numbers DEF dueBy, latest
  <2>2. "hold" \in Steps
    BY DEF Steps
  <2>9. wait' \in Waits
    <3>1. PICK owed \in 0 .. OwedBy : wait' = [wait EXCEPT !.step = "hold", !.deadline = dueBy(owed)]
      BY <1>9 DEF readOwed
    <3>2. dueBy(owed) \in Nat
      BY <2>1
    <3> QED
      BY <2>2, <3>1, <3>2 DEF Waits
  <2> QED
    BY <1>9, <2>9 DEF Waits, readOwed, world
<1>10. CASE giveUpOrSleep
  BY <1>10 DEF giveUpOrSleep, world, turn, Time, Stamp, Steps, Phase
<1>11. CASE wake
  <2>1. now \in Stamp /\ "status" \in Steps
    BY DEF Time, Stamp, Steps
  <2>9. wait' \in Waits
    BY <1>11, <2>1 DEF Waits, wake
  <2> QED
    BY <1>11, <2>9 DEF Waits, wake, world
<1>12. CASE fail
  BY <1>12 DEF fail, world, Time, Stamp, Steps, Phase
<1>13. CASE Tick
  BY <1>13 DEF Tick, Time, Stamp, Steps, Phase
<1>14. CASE Change
  BY <1>14 DEF Change, Changing, Time, Stamp, Steps, Phase
<1>15. CASE Exit
  BY <1>15 DEF Exit, Changing, Time, Stamp, Steps, Phase
<1>16. CASE Start
  BY <1>16 DEF Start, Changing, Time, Stamp, Steps, Phase
<1>17. CASE Gone
  BY <1>17 DEF Gone, Changing, Time, Stamp, Steps, Phase
<1>18. ASSUME NEW r \in Requests, Reach(r) PROVE TypeOK'
  <2>1. now \in Stamp /\ "reached" \in Phase
    BY DEF Time, Stamp, Phase
  <2> QED
    BY <1>18, <2>1 DEF Reach
<1>19. ASSUME NEW r \in Requests, Judge(r) PROVE TypeOK'
  BY <1>19 DEF Judge, Time, Stamp, Steps, Phase
<1>20. ASSUME NEW r \in Requests, Release(r) PROVE TypeOK'
  <2>1. now \in Stamp /\ "passed" \in Phase
    BY DEF Time, Stamp, Phase
  <2> QED
    BY <1>20, <2>1 DEF Release
<1>21. CASE UNCHANGED vars
  BY <1>21 DEF vars, Time, Stamp, Steps, Phase
<1> QED
  BY <1>1, <1>2, <1>3, <1>4, <1>5, <1>6, <1>7, <1>8, <1>9, <1>10, <1>11, <1>12, <1>13,
     <1>14, <1>15, <1>16, <1>17, <1>18, <1>19, <1>20, <1>21 DEF Next, WaitStep

\* Stamps are read from the clock, which only goes forward.
LEMMA ClockedKept == IInv /\ [Next]_vars => Clocked'
<1> SUFFICES ASSUME IInv, [Next]_vars PROVE Clocked'
  OBVIOUS
<1> USE SettleConstants DEF IInv, TypeOK, Clocked
<1>1. CASE Begin
  BY <1>1 DEF Begin, world, turn, Time, Stamp
<1>2. CASE readStatus
  BY <1>2 DEF readStatus, world, Time, Stamp
<1>3. CASE readLog
  BY <1>3 DEF readLog, world, Time, Stamp
<1>4. CASE readReady
  BY <1>4 DEF readReady, world, Time, Stamp
<1>5. CASE readWindow
  BY <1>5 DEF readWindow, world, lastChange, Time, Stamp
<1>6. CASE readClock
  BY <1>6 DEF readClock, world, Time, Stamp
<1>7. CASE checkStopped
  BY <1>7 DEF checkStopped, world, Time, Stamp
<1>8. CASE readHeld
  BY <1>8 DEF readHeld, world, Time, Stamp
<1>9. CASE readOwed
  BY <1>9 DEF readOwed, world, dueBy, Time, Stamp
<1>10. CASE giveUpOrSleep
  BY <1>10 DEF giveUpOrSleep, world, turn, Time, Stamp
<1>11. CASE wake
  BY <1>11 DEF wake, world, Time, Stamp
<1>12. CASE fail
  BY <1>12 DEF fail, world, Time, Stamp
<1>13. CASE Tick
  BY <1>13 DEF Tick, Time, Stamp
<1>14. CASE Change
  BY <1>14 DEF Change, Changing, Time, Stamp
<1>15. CASE Exit
  BY <1>15 DEF Exit, Changing, Time, Stamp
<1>16. CASE Start
  BY <1>16 DEF Start, Changing, Time, Stamp
<1>17. CASE Gone
  BY <1>17 DEF Gone, Changing, Time, Stamp
<1>18. ASSUME NEW r \in Requests, Reach(r) PROVE Clocked'
  BY <1>18 DEF Reach, Time, Stamp
<1>19. ASSUME NEW r \in Requests, Judge(r) PROVE Clocked'
  BY <1>19 DEF Judge, Time, Stamp
<1>20. ASSUME NEW r \in Requests, Release(r) PROVE Clocked'
  BY <1>20 DEF Release, Time, Stamp
<1>21. CASE UNCHANGED vars
  BY <1>21 DEF vars, Time, Stamp
<1> QED
  BY <1>1, <1>2, <1>3, <1>4, <1>5, <1>6, <1>7, <1>8, <1>9, <1>10, <1>11, <1>12, <1>13,
     <1>14, <1>15, <1>16, <1>17, <1>18, <1>19, <1>20, <1>21 DEF Next, WaitStep

\* The proxy holds a request for Delay at most, and stamps it as it does.
LEMMA HandledKept == IInv /\ [Next]_vars => Handled'
<1> SUFFICES ASSUME IInv, [Next]_vars PROVE Handled'
  OBVIOUS
<1> USE SettleConstants DEF IInv, TypeOK, Handled, Clocked
<1>1. CASE Begin
  BY <1>1 DEF Begin, world, turn, Time, Stamp
<1>2. CASE readStatus
  BY <1>2 DEF readStatus, world, Time, Stamp
<1>3. CASE readLog
  BY <1>3 DEF readLog, world, Time, Stamp
<1>4. CASE readReady
  BY <1>4 DEF readReady, world, Time, Stamp
<1>5. CASE readWindow
  BY <1>5 DEF readWindow, world, lastChange, Time, Stamp
<1>6. CASE readClock
  BY <1>6 DEF readClock, world, Time, Stamp
<1>7. CASE checkStopped
  BY <1>7 DEF checkStopped, world, Time, Stamp
<1>8. CASE readHeld
  BY <1>8 DEF readHeld, world, Time, Stamp
<1>9. CASE readOwed
  BY <1>9 DEF readOwed, world, dueBy, Time, Stamp
<1>10. CASE giveUpOrSleep
  BY <1>10 DEF giveUpOrSleep, world, turn, Time, Stamp
<1>11. CASE wake
  BY <1>11 DEF wake, world, Time, Stamp
<1>12. CASE fail
  BY <1>12 DEF fail, world, Time, Stamp
<1>13. CASE Tick
  BY <1>13 DEF Tick, Time, Stamp
<1>14. CASE Change
  BY <1>14 DEF Change, Changing, Time, Stamp
<1>15. CASE Exit
  BY <1>15 DEF Exit, Changing, Time, Stamp
<1>16. CASE Start
  BY <1>16 DEF Start, Changing, Time, Stamp
<1>17. CASE Gone
  BY <1>17 DEF Gone, Changing, Time, Stamp
<1>18. ASSUME NEW r \in Requests, Reach(r) PROVE Handled'
  BY <1>18 DEF Reach, Time, Stamp
<1>19. ASSUME NEW r \in Requests, Judge(r) PROVE Handled'
  BY <1>19 DEF Judge, Time, Stamp
<1>20. ASSUME NEW r \in Requests, Release(r) PROVE Handled'
  BY <1>20 DEF Release, Time, Stamp
<1>21. CASE UNCHANGED vars
  BY <1>21 DEF vars, Time, Stamp
<1> QED
  BY <1>1, <1>2, <1>3, <1>4, <1>5, <1>6, <1>7, <1>8, <1>9, <1>10, <1>11, <1>12, <1>13,
     <1>14, <1>15, <1>16, <1>17, <1>18, <1>19, <1>20, <1>21 DEF Next, WaitStep

\* What the wait has read stays true while it reads the rest: the log only grows.
LEMMA ReadingKept == IInv /\ [Next]_vars => Reading'
<1> SUFFICES ASSUME IInv, [Next]_vars PROVE Reading'
  OBVIOUS
<1> USE SettleConstants DEF IInv, TypeOK, Clocked, Handled, Reading
<1>1. CASE Begin
  BY <1>1 DEF Begin, world, turn, Seen, Time, Stamp, Over
<1>2. CASE readStatus
  BY <1>2 DEF readStatus, world, Seen, Time, Stamp, Over
<1>3. CASE readLog
  <2>1. /\ wait.start \in Nat /\ wait.started \in Nat /\ Back(wait.started) \in Nat
        /\ Back(wait.started) # 0 => \E r \in Seen : Back(wait.started) = req[r].arrived
    BY BackIs DEF Stamp, Seen
  <2>2. /\ wait'.started = wait.started /\ Seen' = Seen /\ req' = req /\ wait'.step = "observer"
        /\ wait'.up => Back(wait.started) # 0
        /\ wait'.changed = latest(latest(wait.start, wait.started), Back(wait.started))
    BY <1>3 DEF readLog, world, Seen
  <2>3. wait'.changed >= wait.started /\ wait'.changed >= Back(wait.started)
    <3>1. latest(wait.start, wait.started) \in Nat /\ latest(wait.start, wait.started) >= wait.started
      BY <2>1, LatestIs
    <3> QED
      BY <2>1, <2>2, <3>1 DEF latest
  <2> QED
    BY <2>1, <2>2, <2>3
<1>4. CASE readReady
  BY <1>4 DEF readReady, world, Seen, Time, Stamp, Over
<1>5. CASE readWindow
  <2>1. wait.changed \in Nat /\ changed \in Nat /\ wait.basis \in Nat /\ wait.started \in Nat
    BY DEF Stamp, Time
  <2>2. /\ wait'.started = wait.started /\ Seen' = Seen /\ req' = req /\ wait'.step = "clock"
        /\ wait'.up = wait.up /\ wait'.basis = wait.basis /\ wait'.changed = lastChange
    BY <1>5 DEF readWindow, world, Seen
  <2>3. wait'.changed >= wait.changed /\ wait'.changed >= changed /\ wait'.changed \in Nat
    BY <2>1, <2>2, LatestIs DEF lastChange
  <2>4. \A r \in Requests : req[r].arrived \in Nat
    BY DEF Stamp
  <2> QED
    BY <1>5, <2>1, <2>2, <2>3, <2>4 DEF readWindow, Seen
<1>6. CASE readClock
  BY <1>6 DEF readClock, world, Seen, Time, Stamp, Over
<1>7. CASE checkStopped
  BY <1>7 DEF checkStopped, world, Seen, Time, Stamp, Over
<1>8. CASE readHeld
  BY <1>8 DEF readHeld, world, Seen, Time, Stamp, Over
<1>9. CASE readOwed
  BY <1>9 DEF readOwed, world, dueBy, Seen, Time, Stamp, Over
<1>10. CASE giveUpOrSleep
  BY <1>10 DEF giveUpOrSleep, world, turn, Seen, Time, Stamp, Over
<1>11. CASE wake
  BY <1>11 DEF wake, world, Seen, Time, Stamp, Over
<1>12. CASE fail
  BY <1>12 DEF fail, world, Seen, Time, Stamp, Over
<1>13. CASE Tick
  BY <1>13 DEF Tick, Seen, Time, Stamp, Over
<1>14. CASE Change
  BY <1>14 DEF Change, Changing, Seen, Time, Stamp, Over
<1>15. CASE Exit
  BY <1>15 DEF Exit, Changing, Seen, Time, Stamp, Over
<1>16. CASE Start
  BY <1>16 DEF Start, Changing, Seen, Time, Stamp, Over
<1>17. CASE Gone
  BY <1>17 DEF Gone, Changing, Seen, Time, Stamp, Over
<1>18. ASSUME NEW r \in Requests, Reach(r) PROVE Reading'
  BY <1>18 DEF Reach, Seen, Time, Stamp, Over
<1>19. ASSUME NEW r \in Requests, Judge(r) PROVE Reading'
  BY <1>19 DEF Judge, Seen, Time, Stamp, Over
<1>20. ASSUME NEW r \in Requests, Release(r) PROVE Reading'
  BY <1>20 DEF Release, Seen, Time, Stamp, Over
<1>21. CASE UNCHANGED vars
  BY <1>21 DEF vars, Seen, Time, Stamp, Over
<1> QED
  BY <1>1, <1>2, <1>3, <1>4, <1>5, <1>6, <1>7, <1>8, <1>9, <1>10, <1>11, <1>12, <1>13,
     <1>14, <1>15, <1>16, <1>17, <1>18, <1>19, <1>20, <1>21 DEF Next, WaitStep

\* The deadline never falls below what the wait owes.
LEMMA DueKept == IInv /\ [Next]_vars => Due'
<1> SUFFICES ASSUME IInv, [Next]_vars PROVE Due'
  OBVIOUS
<1> USE SettleConstants DEF IInv, TypeOK, Due
<1>1. CASE Begin
  BY <1>1 DEF Begin, world, turn, LastDue, latest, Stamp
<1>2. CASE readStatus
  BY <1>2 DEF readStatus, world, LastDue, latest, Stamp
<1>3. CASE readLog
  BY <1>3 DEF readLog, world, LastDue, latest, Stamp
<1>4. CASE readReady
  BY <1>4 DEF readReady, world, LastDue, latest, Stamp
<1>5. CASE readWindow
  BY <1>5 DEF readWindow, world, lastChange, LastDue, latest, Stamp
<1>6. CASE readClock
  BY <1>6 DEF readClock, world, LastDue, latest, Stamp
<1>7. CASE checkStopped
  BY <1>7 DEF checkStopped, world, LastDue, latest, Stamp
<1>8. CASE readHeld
  BY <1>8 DEF readHeld, world, LastDue, latest, Stamp
<1>9. CASE readOwed
  BY <1>9 DEF readOwed, world, dueBy, LastDue, latest, Stamp
<1>10. CASE giveUpOrSleep
  BY <1>10 DEF giveUpOrSleep, world, turn, LastDue, latest, Stamp
<1>11. CASE wake
  BY <1>11 DEF wake, world, LastDue, latest, Stamp
<1>12. CASE fail
  BY <1>12 DEF fail, world, LastDue, latest, Stamp
<1>13. CASE Tick
  BY <1>13 DEF Tick, LastDue, latest, Stamp
<1>14. CASE Change
  BY <1>14 DEF Change, Changing, LastDue, latest, Stamp
<1>15. CASE Exit
  BY <1>15 DEF Exit, Changing, LastDue, latest, Stamp
<1>16. CASE Start
  BY <1>16 DEF Start, Changing, LastDue, latest, Stamp
<1>17. CASE Gone
  BY <1>17 DEF Gone, Changing, LastDue, latest, Stamp
<1>18. ASSUME NEW r \in Requests, Reach(r) PROVE Due'
  BY <1>18 DEF Reach, LastDue, latest, Stamp
<1>19. ASSUME NEW r \in Requests, Judge(r) PROVE Due'
  BY <1>19 DEF Judge, LastDue, latest, Stamp
<1>20. ASSUME NEW r \in Requests, Release(r) PROVE Due'
  BY <1>20 DEF Release, LastDue, latest, Stamp
<1>21. CASE UNCHANGED vars
  BY <1>21 DEF vars, LastDue, latest, Stamp
<1> QED
  BY <1>1, <1>2, <1>3, <1>4, <1>5, <1>6, <1>7, <1>8, <1>9, <1>10, <1>11, <1>12, <1>13,
     <1>14, <1>15, <1>16, <1>17, <1>18, <1>19, <1>20, <1>21 DEF Next, WaitStep

\* A wait that is over is not undone by what happens after it.
LEMMA EndedKept == IInv /\ [Next]_vars => Ended'
<1> SUFFICES ASSUME IInv, [Next]_vars PROVE Ended'
  OBVIOUS
<1> USE SettleConstants DEF IInv, TypeOK, Clocked, Handled, Reading, Due, Ended
<1>1. CASE Begin
  BY <1>1 DEF Begin, world, turn, Stamp, Time, Over
<1>2. CASE readStatus
  BY <1>2 DEF readStatus, world, Stamp, Time, Over
<1>3. CASE readLog
  BY <1>3 DEF readLog, world, Stamp, Time, Over
<1>4. CASE readReady
  BY <1>4 DEF readReady, world, Stamp, Time, Over
<1>5. CASE readWindow
  BY <1>5 DEF readWindow, world, lastChange, Stamp, Time, Over
<1>6. CASE readClock
  BY <1>6 DEF readClock, world, Stamp, Time, Over
<1>7. CASE checkStopped
  BY <1>7 DEF checkStopped, world, Stamp, Time, Over
<1>8. CASE readHeld
  <2> DEFINE last == latest(wait.changed, lastHold)
  <2>1. wait.changed \in Nat /\ wait.clock \in Nat /\ wait.floor \in Nat
    BY Numbers
  <2>2. /\ lastHold \in Nat
        /\ lastHold = IF holding(wait.clock) THEN wait.clock ELSE released(wait.clock)
    BY <2>1, ReleasedIs DEF lastHold, Stamp
  <2>3. last \in Nat /\ last >= wait.changed /\ last >= lastHold
    BY <2>1, <2>2, LatestIs
  <2>4. /\ wait'.step \in {"converged", "owed"}
        /\ wait'.step = "converged" => converges(last)
        /\ wait'.up = wait.up /\ wait'.changed = wait.changed /\ wait'.clock = wait.clock /\ req' = req
    BY <1>8 DEF readHeld, world
  <2> HIDE DEF last
  <2>5. ASSUME converges(last)
        PROVE  /\ wait.up /\ wait.clock >= wait.changed + Stable
               /\ wait.clock >= lastHold + Stable
    BY <2>1, <2>2, <2>3, <2>5 DEF converges
  <2>6. ASSUME converges(last), NEW r \in Requests, req[r].held # 0, req[r].held < wait.clock
        PROVE  req[r].released # 0 /\ req[r].released + Stable <= wait.clock
    <3>1. ~holding(wait.clock)
      BY <2>1, <2>2, <2>5, <2>6
    <3>2. r \in holdsBefore(wait.clock)
      BY <2>1, <2>6 DEF holdsBefore, Stamp
    <3>3. req[r].released # 0 /\ req[r].released <= released(wait.clock)
      BY <3>1, <3>2, ReleasedIs DEF holding
    <3>4. req[r].released \in Nat
      BY DEF Stamp
    <3> QED
      BY <2>1, <2>2, <2>5, <2>6, <3>1, <3>3, <3>4
  <2>7. wait'.step = "converged" =>
           \A r \in Requests : req[r].held # 0 /\ req[r].held < wait.clock =>
              req[r].released # 0 /\ req[r].released + Stable <= wait.clock
    BY <2>4, <2>6
  <2> HIDE DEF Ended
  <2> QED
    BY <2>4, <2>5, <2>7 DEF Ended
<1>9. CASE readOwed
  BY <1>9 DEF readOwed, world, dueBy, Stamp, Time, Over
<1>10. CASE giveUpOrSleep
  <2>1. wait.deadline \in Nat /\ wait.clock \in Nat /\ released(wait.deadline) \in Nat
    BY ReleasedIs DEF Stamp
  <2>2. \/ wait'.step = "asleep"
        \/ /\ wait'.step = "gaveUp" /\ req' = req
           /\ wait'.clock = wait.clock /\ wait'.deadline = wait.deadline
           /\ wait.clock >= heldOpen(wait.deadline, wait.clock)
    BY <1>10 DEF giveUpOrSleep, turn, world
  <2>3. ASSUME wait.clock >= heldOpen(wait.deadline, wait.clock)
        PROVE  /\ wait.clock >= wait.deadline
               /\ ~holding(wait.deadline)
               /\ wait.clock >= released(wait.deadline) + SettleTime
    BY <2>1, <2>3 DEF heldOpen, latest
  <2>4. ASSUME wait.clock >= heldOpen(wait.deadline, wait.clock),
               NEW r \in Requests, req[r].held # 0, req[r].held < wait.deadline
        PROVE  req[r].released # 0 /\ req[r].released + SettleTime <= wait.clock
    <3>1. r \in holdsBefore(wait.deadline)
      BY <2>1, <2>4 DEF holdsBefore, Stamp
    <3>2. req[r].released # 0 /\ req[r].released <= released(wait.deadline)
      BY <2>3, <2>4, <3>1, ReleasedIs DEF holding
    <3>3. req[r].released \in Nat
      BY DEF Stamp
    <3> QED
      BY <2>1, <2>3, <2>4, <3>2, <3>3
  <2> QED
    BY <2>2, <2>3, <2>4
<1>11. CASE wake
  BY <1>11 DEF wake, world, Stamp, Time, Over
<1>12. CASE fail
  BY <1>12 DEF fail, world, Stamp, Time, Over
<1>13. CASE Tick
  BY <1>13 DEF Tick, Stamp, Time, Over
<1>14. CASE Change
  BY <1>14 DEF Change, Changing, Stamp, Time, Over
<1>15. CASE Exit
  BY <1>15 DEF Exit, Changing, Stamp, Time, Over
<1>16. CASE Start
  BY <1>16 DEF Start, Changing, Stamp, Time, Over
<1>17. CASE Gone
  BY <1>17 DEF Gone, Changing, Stamp, Time, Over
<1>18. ASSUME NEW r \in Requests, Reach(r) PROVE Ended'
  BY <1>18 DEF Reach, Stamp, Time, Over
<1>19. ASSUME NEW r \in Requests, Judge(r) PROVE Ended'
  BY <1>19 DEF Judge, Stamp, Time, Over
<1>20. ASSUME NEW r \in Requests, Release(r) PROVE Ended'
  BY <1>20 DEF Release, Stamp, Time, Over
<1>21. CASE UNCHANGED vars
  BY <1>21 DEF vars, Stamp, Time, Over
<1> QED
  BY <1>1, <1>2, <1>3, <1>4, <1>5, <1>6, <1>7, <1>8, <1>9, <1>10, <1>11, <1>12, <1>13,
     <1>14, <1>15, <1>16, <1>17, <1>18, <1>19, <1>20, <1>21 DEF Next, WaitStep

\* An instant by which the wait is not yet due is before its last turn.
LEMMA NotYetLate ==
    ASSUME NEW n \in Nat, NEW due \in Nat, n <= due
    PROVE  n <= n + Lag /\ n < due + Delay + SettleTime + Lag + 2 * Lag
BY SettleConstants

\* A turn that does not end the wait began early enough.
LEMMA TimelyKept == IInv /\ [Next]_vars => Timely'
<1> SUFFICES ASSUME IInv, [Next]_vars PROVE Timely'
  OBVIOUS
<1> USE SettleConstants DEF IInv, TypeOK, Clocked, Handled, Due, Timely
<1>1. CASE Begin
  <2>1. now \in Nat /\ wait.floor \in Nat
    BY Numbers
  <2>2. wait'.clock = now /\ wait'.start = now /\ wait'.floor = wait.floor /\ wait'.step = "status" /\ now' = now
    BY <1>1 DEF Begin, turn, world
  <2>3. LastDue' >= now /\ LastDue' \in Nat
    BY <2>1, <2>2 DEF LastDue, latest
  <2>4. /\ now' <= wait'.clock + Lag
        /\ wait'.clock < LastTurn' + 2 * Lag
    <3>1. LastTurn' = LastDue' + Delay + SettleTime + Lag
      BY DEF LastTurn
    <3> HIDE DEF IInv
    <3> QED
      BY <2>1, <2>2, <2>3, <3>1, NotYetLate
  <2> HIDE DEF IInv
  <2> QED
    BY <2>2, <2>4
<1>2. CASE readStatus
  BY <1>2 DEF readStatus, world, Waiting, Over, LastTurn, LastDue, latest, Stamp, Time
<1>3. CASE readLog
  BY <1>3 DEF readLog, world, Waiting, Over, LastTurn, LastDue, latest, Stamp, Time
<1>4. CASE readReady
  BY <1>4 DEF readReady, world, Waiting, Over, LastTurn, LastDue, latest, Stamp, Time
<1>5. CASE readWindow
  BY <1>5 DEF readWindow, world, lastChange, Waiting, Over, LastTurn, LastDue, latest,
     Stamp, Time
<1>6. CASE readClock
  BY <1>6 DEF readClock, world, Waiting, Over, LastTurn, LastDue, latest, Stamp, Time
<1>7. CASE checkStopped
  BY <1>7 DEF checkStopped, world, Waiting, Over, LastTurn, LastDue, latest, Stamp, Time
<1>8. CASE readHeld
  BY <1>8 DEF readHeld, world, Waiting, Over, LastTurn, LastDue, latest, Stamp, Time
<1>9. CASE readOwed
  BY <1>9 DEF readOwed, world, dueBy, Waiting, Over, LastTurn, LastDue, latest, Stamp, Time
<1>10. CASE giveUpOrSleep
  <2>1. /\ wait.deadline \in Nat /\ wait.clock \in Nat /\ now \in Nat
        /\ wait.start \in Nat /\ wait.floor \in Nat
    BY Numbers
  <2>2. LastDue \in Nat /\ wait.deadline <= LastDue /\ now <= wait.clock + Lag /\ wait.clock <= now
    BY <1>10, <2>1 DEF giveUpOrSleep, LastDue, latest, Waiting, Over
  <2>3. ASSUME NEW r \in holdsBefore(wait.deadline)
        PROVE  /\ req[r].released < wait.deadline + Lag + Delay
               /\ req[r].released = 0 => now < wait.deadline + Lag + Delay
    <3>1. /\ r \in Requests /\ req[r].held # 0 /\ req[r].arrived < wait.deadline
          /\ req[r].arrived \in Nat /\ req[r].held \in Nat /\ req[r].released \in Nat
          /\ req[r].phase \in {"held", "passed"}
      BY DEF holdsBefore, Stamp, Phase
    <3>2. req[r].held <= req[r].arrived + Lag
      BY <3>1
    <3>3. CASE req[r].phase = "held"
      BY <2>1, <3>1, <3>2, <3>3
    <3>4. CASE req[r].phase = "passed"
      BY <2>1, <3>1, <3>2, <3>4
    <3> QED
      BY <3>1, <3>3, <3>4
  <2>4. holding(wait.deadline) => now < wait.deadline + Lag + Delay
    BY <2>3 DEF holding
  <2>5. released(wait.deadline) \in Nat /\ released(wait.deadline) <= wait.deadline + Lag + Delay
    BY <2>1, <2>3, ReleasedIs DEF Stamp
  <2>6. wait.clock < heldOpen(wait.deadline, wait.clock) => wait.clock < LastTurn
    BY <2>1, <2>2, <2>4, <2>5 DEF LastTurn, heldOpen, latest
  <2>7. \/ wait'.step = "gaveUp"
        \/ /\ wait'.step = "asleep" /\ wait'.clock = now /\ now' = now
           /\ wait'.start = wait.start /\ wait'.floor = wait.floor
           /\ ~(wait.clock >= heldOpen(wait.deadline, wait.clock))
    BY <1>10 DEF giveUpOrSleep, turn, world
  <2>8. heldOpen(wait.deadline, wait.clock) \in Nat
    BY <2>1, <2>5 DEF heldOpen, latest
  <2>9. CASE wait'.step = "asleep"
    <3>1. LastTurn' = LastTurn /\ LastTurn \in Nat
      BY <2>2, <2>7, <2>9 DEF LastTurn, LastDue
    <3> QED
      BY <2>1, <2>2, <2>6, <2>7, <2>8, <2>9, <3>1
  <2> QED
    BY <2>7, <2>9 DEF Waiting, Over
<1>11. CASE wake
  BY <1>11 DEF wake, world, Waiting, Over, LastTurn, LastDue, latest, Stamp, Time
<1>12. CASE fail
  BY <1>12 DEF fail, world, Waiting, Over, LastTurn, LastDue, latest, Stamp, Time
<1>13. CASE Tick
  BY <1>13 DEF Tick, Waiting, Over, LastTurn, LastDue, latest, Stamp, Time
<1>14. CASE Change
  BY <1>14 DEF Change, Changing, Waiting, Over, LastTurn, LastDue, latest, Stamp, Time
<1>15. CASE Exit
  BY <1>15 DEF Exit, Changing, Waiting, Over, LastTurn, LastDue, latest, Stamp, Time
<1>16. CASE Start
  BY <1>16 DEF Start, Changing, Waiting, Over, LastTurn, LastDue, latest, Stamp, Time
<1>17. CASE Gone
  BY <1>17 DEF Gone, Changing, Waiting, Over, LastTurn, LastDue, latest, Stamp, Time
<1>18. ASSUME NEW r \in Requests, Reach(r) PROVE Timely'
  BY <1>18 DEF Reach, Waiting, Over, LastTurn, LastDue, latest, Stamp, Time
<1>19. ASSUME NEW r \in Requests, Judge(r) PROVE Timely'
  BY <1>19 DEF Judge, Waiting, Over, LastTurn, LastDue, latest, Stamp, Time
<1>20. ASSUME NEW r \in Requests, Release(r) PROVE Timely'
  BY <1>20 DEF Release, Waiting, Over, LastTurn, LastDue, latest, Stamp, Time
<1>21. CASE UNCHANGED vars
  BY <1>21 DEF vars, Waiting, Over, LastTurn, LastDue, latest, Stamp, Time
<1> QED
  BY <1>1, <1>2, <1>3, <1>4, <1>5, <1>6, <1>7, <1>8, <1>9, <1>10, <1>11, <1>12, <1>13,
     <1>14, <1>15, <1>16, <1>17, <1>18, <1>19, <1>20, <1>21 DEF Next, WaitStep

\* The invariant holds of every behaviour.
LEMMA Inductive == Spec => []IInv
<1>1. IInv /\ [Next]_vars => IInv'
  BY TypeOKKept, ClockedKept, HandledKept, ReadingKept, DueKept, EndedKept, TimelyKept DEF
     IInv
<1> QED
  BY Starts, <1>1, PTL DEF Spec

-----------------------------------------------------------------------------
(* The theorems. *)

\* A wait that converged saw every change, the target's start and return and every
\* hold at least timeouts.stable old, although it read each at another instant and
\* the proxy and the target went on in between (settle.wait, Harness.state).
THEOREM ConvergedWasQuiet == Spec => []ConvergedQuiet
<1>1. IInv => ConvergedQuiet
  <2> SUFFICES ASSUME IInv, wait.step = "converged" PROVE ConvergedQuiet
    BY DEF ConvergedQuiet
  <2> USE SettleConstants DEF IInv
  <2>1. /\ wait.basis \in Nat /\ wait.changed \in Nat /\ wait.clock \in Nat /\ wait.started \in Stamp
        /\ wait.started \in Nat /\ \A r \in Requests : req[r].arrived \in Nat
    BY DEF TypeOK, Stamp
  <2>2. /\ wait.basis <= wait.changed /\ wait.started <= wait.changed
        /\ wait.changed + Stable <= wait.clock
        /\ \E r \in Seen : req[r].arrived <= wait.changed
    BY DEF Reading, Ended
  <2>3. Back(wait.started) \in Nat /\ Back(wait.started) # 0 /\ Back(wait.started) <= wait.changed
    BY <2>1, <2>2, BackIs DEF Seen, Stamp
  <2>4. /\ wait.basis + Stable <= wait.clock
        /\ latest(wait.started, Back(wait.started)) + Stable <= wait.clock
    BY <2>1, <2>2, <2>3 DEF latest
  <2> QED
    BY <2>3, <2>4 DEF ConvergedQuiet, Ended
<1> QED
  BY Inductive, <1>1, PTL

\* A wait that gave up had given the target timeouts.settle from its start and from the
\* release of every request held before its deadline (settle.wait, heldOpen).
THEOREM GaveUpNoSooner == Spec => []GaveUpInTime
<1>1. IInv => GaveUpInTime
  <2> SUFFICES ASSUME IInv, wait.step = "gaveUp" PROVE GaveUpInTime
    BY DEF GaveUpInTime
  <2>1. /\ wait.clock >= wait.deadline /\ wait.deadline >= wait.start + SettleTime
        /\ wait.deadline >= wait.floor + Stable
    BY DEF IInv, Due, Ended
  <2>2. wait.clock \in Nat /\ wait.deadline \in Nat /\ wait.start \in Nat /\ wait.floor \in Nat
    BY Numbers DEF IInv
  <2> QED
    BY <2>1, <2>2, SettleConstants DEF GaveUpInTime, IInv, Ended
<1> QED
  BY Inductive, <1>1, PTL

\* Every wait is over within one delay and timeouts.settle of its latest deadline, and
\* what the proxy's handler and the wait are late (settle.wait; hold in bound.go).
THEOREM WaitEndsInTime == Spec => []WaitEnds
<1>1. IInv => WaitEnds
  <2> SUFFICES ASSUME IInv, Waiting PROVE WaitEnds
    BY DEF WaitEnds
  <2> USE SettleConstants
  <2>1. wait.clock \in Nat /\ wait.start \in Nat /\ wait.floor \in Nat /\ now \in Nat
    BY Numbers DEF IInv
  <2>2. LastDue \in Nat
    BY <2>1 DEF LastDue, latest
  <2>3. wait.step \in {"asleep", "status", "log", "observer", "window", "clock", "process",
                       "held", "owed", "hold"}
    BY DEF IInv, TypeOK, Waiting, Over, Steps
  <2>4. now <= wait.clock + Lag /\ wait.clock < LastDue + Delay + SettleTime + Lag + 3 * Lag
    BY <2>1, <2>2, <2>3 DEF IInv, Timely, LastTurn
  <2>5. now < LastDue + Delay + SettleTime + 5 * Lag
    BY <2>1, <2>2, <2>4
  <2> QED
    BY <2>5 DEF WaitEnds, LastDue
<1> QED
  BY Inductive, <1>1, PTL

=============================================================================
