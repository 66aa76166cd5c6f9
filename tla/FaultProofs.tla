---------------------------- MODULE FaultProofs ----------------------------
(***************************************************************************)
(* The faults of the proxy stop where their counts and removals say, Stop  *)
(* waits for what it must, a retired fault stays as it is, and the windows *)
(* the runner keeps are those of the proxy: for any requests, specs and    *)
(* faults, and any number of them.                                         *)
(*                                                                         *)
(* PInv is the proxy's inductive invariant.  A request's stamps follow its *)
(* phase (Requested), and a fault has been applied to as many requests as  *)
(* it has counted, none of them judged after its removal (Faulted).  The   *)
(* runner's adds that a window that is closed is the proxy's own           *)
(* (WindowsTrue), which a retired fault never moves (Final).               *)
(***************************************************************************)
EXTENDS FaultTimeline, TLAPS, FiniteSetTheorems, SequenceTheorems, NaturalsInduction,
        WellFoundedInduction

\* A set of naturals that is not empty has a least element.
LEMMA LeastOf ==
    ASSUME NEW S \in SUBSET Nat, S # {}
    PROVE  \E n \in S : \A m \in S : n <= m
<1> DEFINE R == {ss \in Nat \X Nat : ss[1] < ss[2]}
<1>1. IsWellFoundedOn(R, Nat)
  BY NatLessThanWellFounded DEF OpToRel
<1> HIDE DEF R
<1>2. PICK n \in S : \A m \in S : <<m, n>> \notin R
  BY <1>1, WFMin
<1>3. ASSUME NEW m \in S, m < n PROVE FALSE
  <2>1. <<m, n>> \in R
    BY <1>3 DEF R
  <2> QED
    BY <1>2, <2>1
<1> QED
  BY <1>2, <1>3

\* A set of naturals that is not empty and has a bound has a greatest element.
LEMMA GreatestOf ==
    ASSUME NEW b \in Nat, NEW S \in SUBSET (0 .. b), S # {}
    PROVE  \E n \in S : \A m \in S : m <= n
<1> DEFINE T == {k \in 0 .. b : b - k \in S}
<1>1. T \in SUBSET Nat
  OBVIOUS
<1>2. T # {}
  <2>1. PICK s \in S : TRUE
    OBVIOUS
  <2>2. b - s \in 0 .. b /\ b - (b - s) = s
    OBVIOUS
  <2>3. b - s \in T
    BY <2>2
  <2> QED
    BY <2>3
<1>3. PICK k \in T : \A m \in T : k <= m
  BY <1>1, <1>2, LeastOf
<1>4. ASSUME NEW m \in S PROVE m <= b - k
  <2>1. b - m \in 0 .. b /\ b - (b - m) = m
    OBVIOUS
  <2>2. b - m \in T
    BY <2>1
  <2> QED
    BY <1>3, <2>2
<1>5. b - k \in S
  BY <1>3
<1> QED
  BY <1>4, <1>5

-----------------------------------------------------------------------------

\* The requests fault f was applied to.
Hit(f) == {r \in Requests : req[r].fault = f}

\* What the phase of a request says of the rest of it.
Requested ==
    \A r \in Requests :
        /\ req[r].start <= now /\ req[r].seen <= now /\ req[r].released <= now
        /\ req[r].fault <= Len(faults)
        /\ req[r].phase \in {"new", "arrived", "judging"} => req[r].fault = 0
        /\ req[r].phase \notin {"new", "arrived"} => req[r].seen # 0 /\ req[r].start <= req[r].seen
        /\ req[r].phase \in {"new", "arrived", "judging", "judged", "held"} => req[r].released = 0
        /\ req[r].phase = "held" \/ req[r].released # 0 =>
              req[r].fault # 0 /\ faults[req[r].fault].spec.action = "delay"

\* A fault has counted the requests it was applied to, no more than its count, and
\* is spent at its count; a removed one was applied to none judged later.
Faulted ==
    \A f \in DOMAIN faults :
        /\ faults[f].spent <= now /\ faults[f].removed <= now
        /\ IsFiniteSet(Hit(f)) /\ Cardinality(Hit(f)) = faults[f].applied
        /\ faults[f].spec.count > 0 =>
              /\ faults[f].applied <= faults[f].spec.count
              /\ faults[f].applied = faults[f].spec.count => faults[f].spent # 0
        /\ faults[f].spec.count = 0 => faults[f].spent = 0
        /\ faults[f].removed # 0 => \A r \in Hit(f) : req[r].seen <= faults[f].removed

\* The proxy's inductive invariant.
PInv == TypeOK /\ Requested /\ Faulted

\* The runner reads and removes faults it holds; it drops one when its window is closed,
\* and a closed window is the proxy's, for a fault no clock ends.
WindowsTrue ==
    /\ todo \subseteq holding
    /\ \A f \in DOMAIN faults :
          /\ f \notin holding => windows[f].end # 0
          /\ faults[f].spec.for = 0 /\ windows[f].end # 0 =>
                windows[f].start = faults[f].first /\ windows[f].end = endedBy(f, now)

\* The runner's, on top of it.
TInv == PInv /\ TimelineTypeOK /\ WindowsTrue

-----------------------------------------------------------------------------
(* What a step makes of a fault. *)

\* Counting a request changes the count and its stamps, and nothing else.
LEMMA AppliedIs ==
    ASSUME NEW m \in Fault, NEW t \in Time
    PROVE  /\ applied(m, t) \in Fault
           /\ applied(m, t).spec = m.spec /\ applied(m, t).removed = m.removed
           /\ applied(m, t).applied = m.applied + 1
           /\ applied(m, t).spent = IF m.spec.count > 0 /\ m.applied + 1 >= m.spec.count
                                      THEN t ELSE m.spent
<1> DEFINE n == m.applied + 1
           first == IF m.applied = 0 THEN t ELSE m.first
           spent == IF m.spec.count > 0 /\ m.applied + 1 >= m.spec.count THEN t ELSE m.spent
<1>1. t \in Stamp
  BY FaultProxyConstants DEF Time, Stamp
<1>2. n \in Nat /\ first \in Stamp /\ spent \in Stamp
  BY <1>1 DEF Fault
<1>3. applied(m, t) = [m EXCEPT !.applied = n, !.first = first, !.spent = spent]
  BY DEF applied, Fault
<1>4. n = m.applied + 1
  OBVIOUS
<1>5. spent = IF m.spec.count > 0 /\ m.applied + 1 >= m.spec.count THEN t ELSE m.spent
  OBVIOUS
<1> HIDE DEF n, first, spent
<1>6. /\ applied(m, t) \in Fault
      /\ applied(m, t).spec = m.spec /\ applied(m, t).removed = m.removed
      /\ applied(m, t).applied = n /\ applied(m, t).spent = spent
  BY <1>2, <1>3 DEF Fault
<1> QED
  BY <1>4, <1>5, <1>6

\* A removal stamps a fault that has none, and changes nothing else.
LEMMA RemoveIs ==
    ASSUME TypeOK, NEW m \in Fault
    PROVE  /\ remove(m) \in Fault
           /\ remove(m).spec = m.spec /\ remove(m).applied = m.applied
           /\ remove(m).first = m.first /\ remove(m).spent = m.spent
           /\ remove(m).removed = IF m.removed = 0 THEN now ELSE m.removed
<1>1. now \in Stamp
  BY FaultProxyConstants DEF TypeOK, Time, Stamp
<1> QED
  BY <1>1 DEF remove, Fault

\* The types of a fault's parts.
LEMMA FaultParts ==
    ASSUME TypeOK, NEW f \in DOMAIN faults
    PROVE  /\ faults[f] \in Fault /\ faults[f].spec \in SpecType
           /\ faults[f].spec.count \in Nat /\ faults[f].spec.for \in Nat /\ faults[f].spec.until \in Nat
           /\ faults[f].since \in Nat \ {0} /\ faults[f].applied \in Nat /\ faults[f].first \in Nat
           /\ faults[f].spent \in Nat /\ faults[f].removed \in Nat
           /\ faults[f].spent \in Stamp /\ faults[f].removed \in Stamp /\ faults[f].first \in Stamp
<1>1. faults[f] \in Fault
  BY DEF TypeOK
<1>2. faults[f].spec \in SpecType
  BY <1>1, FaultProxyConstants DEF Fault
<1> QED
  BY <1>1, <1>2, FaultProxyConstants DEF Fault, SpecType, Time, Stamp

\* The types of a request's parts.
LEMMA RequestParts ==
    ASSUME TypeOK, NEW r \in Requests
    PROVE  /\ req[r].phase \in Phase
           /\ req[r].start \in Nat /\ req[r].seen \in Nat /\ req[r].fault \in Nat
           /\ req[r].released \in Nat /\ req[r].released \in Stamp /\ now \in Nat /\ now \in Stamp
           /\ now \in Time /\ Len(faults) \in Nat /\ DOMAIN faults = 1 .. Len(faults)
BY FaultProxyConstants DEF TypeOK, Request, Time, Stamp

\* A fault that applies is neither spent nor removed.
LEMMA NotRetired ==
    ASSUME TypeOK, NEW f \in DOMAIN faults, NEW t \in Nat, retiredBy(f, t) = 0
    PROVE  faults[f].spent = 0 /\ faults[f].removed = 0
<1>1. faults[f].since + faults[f].spec.for # 0
  BY FaultParts
<1> QED
  BY <1>1, FaultParts DEF retiredBy, earliest

\* A sequence of faults with one of them replaced.
LEMMA OneReplaced ==
    ASSUME TypeOK, NEW g \in DOMAIN faults, NEW m \in Fault, faults' = [faults EXCEPT ![g] = m]
    PROVE  /\ faults' \in Seq(Fault) /\ Len(faults') = Len(faults) /\ DOMAIN faults' = DOMAIN faults
           /\ \A f \in DOMAIN faults : faults'[f] = IF f = g THEN m ELSE faults[f]
BY DEF TypeOK

\* What judging a request does: the request has a fault or none, and the fault counts it.
LEMMA Judged ==
    ASSUME PInv, NEW r \in Requests, faultFor(r)
    PROVE  \E g \in 0 .. Len(faults) :
              /\ req[r].phase = "judging" /\ req[r].fault = 0 /\ req[r].seen \in Time
              /\ req' = [req EXCEPT ![r].phase = "judged", ![r].fault = g]
              /\ faults' \in Seq(Fault) /\ Len(faults') = Len(faults) /\ DOMAIN faults' = DOMAIN faults
              /\ \A f \in DOMAIN faults \ {g} : faults'[f] = faults[f]
              /\ g # 0 => /\ g \in DOMAIN faults
                          /\ faults[g].spent = 0 /\ faults[g].removed = 0
                          /\ faults'[g] = applied(faults[g], req[r].seen)
              /\ UNCHANGED <<now, log, latency, server>>
<1>1. PICK g \in active(r, req[r].seen) \cup {0} :
         /\ faults' = IF g = 0 THEN faults
                      ELSE [faults EXCEPT ![g] = applied(faults[g], req[r].seen)]
         /\ req' = [req EXCEPT ![r].phase = "judged", ![r].fault = g]
  <2>1. \A g \in active(r, req[r].seen) \cup {0} :
           g # 0 => [faults EXCEPT ![g] = applied(@, req[r].seen)]
                     = [faults EXCEPT ![g] = applied(faults[g], req[r].seen)]
    BY DEF active, PInv, TypeOK
  <2> QED
    BY <2>1 DEF faultFor
<1>2. req[r].phase = "judging" /\ UNCHANGED <<now, log, latency, server>>
  BY DEF faultFor
<1>3. req[r].seen \in Time /\ req[r].seen \in Nat /\ req[r].fault = 0
  BY <1>2, FaultProxyConstants DEF PInv, TypeOK, Requested, Request, Stamp, Time
<1>4. CASE g = 0
  <2>1. faults' = faults /\ faults \in Seq(Fault) /\ 0 \in 0 .. Len(faults)
    BY <1>1, <1>4 DEF PInv, TypeOK
  <2>2. req' = [req EXCEPT ![r].phase = "judged", ![r].fault = 0]
    BY <1>1, <1>4
  <2> QED
    BY <1>2, <1>3, <2>1, <2>2
<1>5. CASE g # 0
  <2>1. g \in DOMAIN faults /\ retiredBy(g, req[r].seen) = 0
    BY <1>5 DEF active
  <2>2. faults[g].spent = 0 /\ faults[g].removed = 0
    BY <1>3, <2>1, NotRetired DEF PInv
  <2>3. applied(faults[g], req[r].seen) \in Fault
    BY <1>3, <2>1, FaultParts, AppliedIs DEF PInv
  <2>4. /\ faults' \in Seq(Fault) /\ Len(faults') = Len(faults) /\ DOMAIN faults' = DOMAIN faults
        /\ \A f \in DOMAIN faults \ {g} : faults'[f] = faults[f]
        /\ faults'[g] = applied(faults[g], req[r].seen)
    BY <1>1, <1>5, <2>1, <2>3, OneReplaced DEF PInv
  <2>5. g \in 0 .. Len(faults)
    BY <2>1, RequestParts DEF PInv
  <2> QED
    BY <1>1, <1>2, <1>3, <1>5, <2>1, <2>2, <2>4, <2>5
<1> QED
  BY <1>4, <1>5

\* What a removal of one fault or of all does to each.
LEMMA Removing ==
    ASSUME TypeOK, ClearFaults \/ \E g \in DOMAIN faults : RemoveFault(g)
    PROVE  /\ faults' \in Seq(Fault) /\ Len(faults') = Len(faults) /\ DOMAIN faults' = DOMAIN faults
           /\ \A f \in DOMAIN faults :
                 /\ faults'[f].spec = faults[f].spec /\ faults'[f].applied = faults[f].applied
                 /\ faults'[f].first = faults[f].first /\ faults'[f].spent = faults[f].spent
                 /\ \/ faults'[f].removed = faults[f].removed
                    \/ faults[f].removed = 0 /\ faults'[f].removed = now
           /\ UNCHANGED <<now, req, log, latency, server>>
<1>1. \A f \in DOMAIN faults : faults[f] \in Fault /\ remove(faults[f]) \in Fault
  BY FaultParts, RemoveIs
<1>2. CASE ClearFaults
  <2>1. faults' = [f \in DOMAIN faults |-> remove(faults[f])]
    BY <1>2 DEF ClearFaults
  <2>2. DOMAIN faults = 1 .. Len(faults) /\ Len(faults) \in Nat
    BY DEF TypeOK
  <2>3. faults' \in Seq(Fault) /\ Len(faults') = Len(faults) /\ DOMAIN faults' = DOMAIN faults
    BY <1>1, <2>1, <2>2
  <2> QED
    BY <1>1, <1>2, <2>1, <2>3, RemoveIs DEF ClearFaults
<1>3. ASSUME NEW g \in DOMAIN faults, RemoveFault(g)
      PROVE  /\ faults' \in Seq(Fault) /\ Len(faults') = Len(faults) /\ DOMAIN faults' = DOMAIN faults
             /\ \A f \in DOMAIN faults : faults'[f] = IF f = g THEN remove(faults[g]) ELSE faults[f]
             /\ UNCHANGED <<now, req, log, latency, server>>
  <2>1. faults' = [faults EXCEPT ![g] = remove(faults[g])]
    BY <1>3 DEF RemoveFault, TypeOK
  <2> QED
    BY <1>1, <1>3, <2>1, OneReplaced DEF RemoveFault
<1> QED
  BY <1>1, <1>2, <1>3, RemoveIs

\* What a new fault is.
LEMMA Adding ==
    ASSUME TypeOK, NEW spec \in Specs, AddFault(spec)
    PROVE  /\ faults' \in Seq(Fault) /\ Len(faults') = Len(faults) + 1 /\ Len(faults') <= MaxFaults
           /\ DOMAIN faults' = DOMAIN faults \cup {Len(faults) + 1}
           /\ \A f \in DOMAIN faults : faults'[f] = faults[f]
           /\ LET m == faults'[Len(faults) + 1]
              IN  m.applied = 0 /\ m.spent = 0 /\ m.removed = 0
           /\ UNCHANGED <<now, req, log, latency, server>>
<1> DEFINE m == [spec |-> spec, since |-> now, applied |-> 0, first |-> 0, spent |-> 0, removed |-> 0]
<1>1. m \in Fault
  BY FaultProxyConstants DEF Fault, TypeOK, Stamp
<1>2. /\ m.applied = 0 /\ m.spent = 0 /\ m.removed = 0
      /\ faults' = Append(faults, m) /\ Len(faults) < MaxFaults
      /\ UNCHANGED <<now, req, log, latency, server>>
  BY DEF AddFault
<1>3. faults \in Seq(Fault) /\ MaxFaults \in Nat
  BY FaultProxyConstants DEF TypeOK
<1> HIDE DEF m
<1>4. /\ faults' \in Seq(Fault) /\ Len(faults') = Len(faults) + 1 /\ Len(faults') <= MaxFaults
      /\ DOMAIN faults' = DOMAIN faults \cup {Len(faults) + 1}
      /\ \A f \in DOMAIN faults : faults'[f] = faults[f]
      /\ faults'[Len(faults) + 1] = m
  BY <1>1, <1>2, <1>3
<1> QED
  BY <1>2, <1>4

-----------------------------------------------------------------------------
(* The proxy's invariant. *)

\* The invariant holds of a proxy without faults.
LEMMA ProxyStarts == Init => PInv
<1> SUFFICES ASSUME Init PROVE PInv
  OBVIOUS
<1> USE FaultProxyConstants DEF Init
<1>1. TypeOK
  BY DEF TypeOK, Time, Stamp, Request, Phase
<1>2. Requested
  BY DEF Requested
<1>3. DOMAIN faults = {}
  OBVIOUS
<1>4. Faulted
  BY <1>3 DEF Faulted
<1> QED
  BY <1>1, <1>2, <1>4 DEF PInv

\* Every step keeps the types.
LEMMA TypeOKKept == PInv /\ [Next]_vars => TypeOK'
<1> SUFFICES ASSUME PInv, [Next]_vars PROVE TypeOK'
  OBVIOUS
<1> USE FaultProxyConstants DEF PInv, TypeOK
<1>1. ASSUME NEW r \in Requests, Arrive(r) PROVE TypeOK'
  <2>1. now \in Stamp /\ "arrived" \in Phase
    BY RequestParts DEF Phase
  <2>2. req' \in [Requests -> Request]
    BY <1>1, <2>1 DEF Arrive, Request
  <2> QED
    BY <1>1, <2>2 DEF Arrive
<1>2. ASSUME NEW r \in Requests, ReadClock(r) PROVE TypeOK'
  <2>1. now \in Stamp /\ "judging" \in Phase
    BY RequestParts DEF Phase
  <2>2. req' \in [Requests -> Request]
    BY <1>2, <2>1 DEF ReadClock, Request
  <2> QED
    BY <1>2, <2>2 DEF ReadClock
<1>3. ASSUME NEW r \in Requests, faultFor(r) PROVE TypeOK'
  <2>1. PICK g \in 0 .. Len(faults) :
           /\ req' = [req EXCEPT ![r].phase = "judged", ![r].fault = g]
           /\ faults' \in Seq(Fault) /\ Len(faults') = Len(faults)
           /\ UNCHANGED <<now, log, latency, server>>
    BY <1>3, Judged
  <2>2. g \in 0 .. MaxFaults /\ "judged" \in Phase
    BY RequestParts DEF Phase
  <2>3. req' \in [Requests -> Request]
    BY <2>1, <2>2 DEF Request
  <2> QED
    BY <2>1, <2>3
<1>4. ASSUME NEW r \in Requests, appendRecord(r) PROVE TypeOK'
  <2>1. {"forwarded", "held", "answered"} \subseteq Phase
    BY DEF Phase
  <2>2. PICK ph \in {"forwarded", "held", "answered"} : req' = [req EXCEPT ![r].phase = ph]
    BY <1>4 DEF appendRecord, Go
  <2>3. req' \in [Requests -> Request]
    BY <2>1, <2>2 DEF Request
  <2> QED
    BY <1>4, <2>3 DEF appendRecord
<1>5. ASSUME NEW r \in Requests, await(r) PROVE TypeOK'
  <2>1. now \in Stamp /\ {"forwarded", "answered"} \subseteq Phase
    BY RequestParts DEF Phase
  <2>2. PICK ph \in {"forwarded", "answered"} :
           req' = [req EXCEPT ![r].phase = ph, ![r].released = now]
    BY <1>5 DEF await
  <2>3. req' \in [Requests -> Request]
    BY <2>1, <2>2 DEF Request
  <2> QED
    BY <1>5, <2>3 DEF await
<1>6. ASSUME NEW r \in Requests, Upstream(r) PROVE TypeOK'
  <2>1. "answered" \in Phase
    BY RequestParts DEF Phase
  <2>2. req' \in [Requests -> Request]
    BY <1>6, <2>1 DEF Upstream, Request, Go
  <2> QED
    BY <1>6, <2>2 DEF Upstream, Go
<1>7. ASSUME NEW r \in Requests, Finish(r) PROVE TypeOK'
  <2>1. "served" \in Phase
    BY RequestParts DEF Phase
  <2>2. req' \in [Requests -> Request]
    BY <1>7, <2>1 DEF Finish, Request, Go
  <2> QED
    BY <1>7, <2>2 DEF Finish, Go
<1>8. CASE Tick
  BY <1>8 DEF Tick, Time
<1>9. CASE StopCloses
  BY <1>9 DEF StopCloses
<1>10. CASE StopReturns
  BY <1>10 DEF StopReturns
<1>11. ASSUME NEW spec \in Specs, AddFault(spec) PROVE TypeOK'
  BY <1>11, Adding
<1>12. ASSUME NEW g \in DOMAIN faults, RemoveFault(g) PROVE TypeOK'
  BY <1>12, Removing
<1>13. CASE ClearFaults
  BY <1>13, Removing
<1>14. CASE UNCHANGED vars
  BY <1>14 DEF vars
<1> QED
  BY <1>1, <1>2, <1>3, <1>4, <1>5, <1>6, <1>7, <1>8, <1>9, <1>10, <1>11, <1>12, <1>13, <1>14
     DEF Next, TrafficStep, Serve

\* A request goes through its phases in order.
LEMMA RequestedKept == PInv /\ [Next]_vars => Requested'
<1> SUFFICES ASSUME PInv, [Next]_vars PROVE Requested'
  OBVIOUS
<1> USE FaultProxyConstants DEF PInv, TypeOK, Requested
<1>1. ASSUME NEW r \in Requests, Arrive(r) PROVE Requested'
  BY <1>1 DEF Arrive, Time
<1>2. ASSUME NEW r \in Requests, ReadClock(r) PROVE Requested'
  BY <1>2 DEF ReadClock, Time
<1>3. ASSUME NEW r \in Requests, faultFor(r) PROVE Requested'
  <2>1. PICK g \in 0 .. Len(faults) :
           /\ req[r].phase = "judging" /\ req[r].seen \in Time
           /\ req' = [req EXCEPT ![r].phase = "judged", ![r].fault = g]
           /\ Len(faults') = Len(faults) /\ UNCHANGED now
           /\ \A f \in DOMAIN faults \ {g} : faults'[f] = faults[f]
           /\ g # 0 => g \in DOMAIN faults /\ faults'[g] = applied(faults[g], req[r].seen)
    BY <1>3, Judged
  <2>2. ASSUME NEW f \in DOMAIN faults PROVE faults'[f].spec = faults[f].spec
    <3>1. CASE f # g
      BY <2>1, <3>1
    <3>2. CASE f = g
      <4>1. f # 0
        BY DEF Fault
      <4> QED
        BY <2>1, <3>2, <4>1, FaultParts, AppliedIs
    <3> QED
      BY <3>1, <3>2
  <2>3. ASSUME NEW q \in Requests, q # r PROVE req'[q] = req[q]
    BY <2>1, <2>3
  <2>4. /\ req'[r].start = req[r].start /\ req'[r].seen = req[r].seen
        /\ req'[r].released = req[r].released /\ req'[r].fault = g /\ req'[r].phase = "judged"
    BY <2>1 DEF Request
  <2>5. \A q \in Requests : req[q].fault \in Nat /\ (req[q].fault # 0 => req[q].fault \in DOMAIN faults)
    BY RequestParts
  <2> QED
    BY <2>1, <2>2, <2>3, <2>4, <2>5
<1>4. ASSUME NEW r \in Requests, appendRecord(r) PROVE Requested'
  BY <1>4 DEF appendRecord, Go, ActionOn
<1>5. ASSUME NEW r \in Requests, await(r) PROVE Requested'
  BY <1>5 DEF await, Time
<1>6. ASSUME NEW r \in Requests, Upstream(r) PROVE Requested'
  BY <1>6 DEF Upstream, Go
<1>7. ASSUME NEW r \in Requests, Finish(r) PROVE Requested'
  BY <1>7 DEF Finish, Go
<1>8. CASE Tick
  <2>1. now' = now + 1 /\ UNCHANGED <<faults, req>>
    BY <1>8 DEF Tick
  <2>2. ASSUME NEW r \in Requests
        PROVE  req[r].start <= now' /\ req[r].seen <= now' /\ req[r].released <= now'
    BY <2>1, RequestParts
  <2> QED
    BY <2>1, <2>2
<1>9. CASE StopCloses
  BY <1>9 DEF StopCloses
<1>10. CASE StopReturns
  BY <1>10 DEF StopReturns
<1>11. ASSUME NEW spec \in Specs, AddFault(spec) PROVE Requested'
  <2>1. /\ Len(faults') >= Len(faults) /\ Len(faults) \in Nat /\ Len(faults') \in Nat
        /\ \A f \in DOMAIN faults : faults'[f].spec = faults[f].spec
        /\ UNCHANGED <<now, req>>
    BY <1>11, Adding
  <2>2. \A q \in Requests : req[q].fault \in Nat /\ (req[q].fault # 0 => req[q].fault \in DOMAIN faults)
    BY RequestParts
  <2> QED
    BY <2>1, <2>2
<1>12. CASE ClearFaults \/ \E g \in DOMAIN faults : RemoveFault(g)
  <2>1. /\ Len(faults') >= Len(faults) /\ Len(faults) \in Nat /\ Len(faults') \in Nat
        /\ \A f \in DOMAIN faults : faults'[f].spec = faults[f].spec
        /\ UNCHANGED <<now, req>>
    BY <1>12, Removing
  <2>2. \A q \in Requests : req[q].fault \in Nat /\ (req[q].fault # 0 => req[q].fault \in DOMAIN faults)
    BY RequestParts
  <2> QED
    BY <2>1, <2>2
<1>13. CASE UNCHANGED vars
  BY <1>13 DEF vars
<1> QED
  BY <1>1, <1>2, <1>3, <1>4, <1>5, <1>6, <1>7, <1>8, <1>9, <1>10, <1>11, <1>12, <1>13 DEF
     Next, TrafficStep, Serve

\* A step that changes no fault, and no request that has one, keeps the counts.
LEMMA SameHits ==
    ASSUME PInv, UNCHANGED <<now, faults>>,
           \A q \in Requests : /\ req'[q].fault = req[q].fault
                               /\ req[q].fault # 0 => req'[q].seen = req[q].seen
    PROVE  Faulted'
<1>1. ASSUME NEW f PROVE Hit(f)' = Hit(f)
  <2>1. Hit(f)' = {q \in Requests : req'[q].fault = f}
    BY DEF Hit
  <2>2. \A q \in Requests : req'[q].fault = f <=> req[q].fault = f
    OBVIOUS
  <2> QED
    BY <2>1, <2>2 DEF Hit
<1>2. \A f \in DOMAIN faults : f # 0
  <2>1. DOMAIN faults = 1 .. Len(faults) /\ Len(faults) \in Nat
    BY DEF PInv, TypeOK
  <2> QED
    BY <2>1
<1>3. ASSUME NEW f \in DOMAIN faults, NEW q \in Hit(f) PROVE req'[q].seen = req[q].seen
  <2>1. q \in Requests /\ req[q].fault # 0
    BY <1>2 DEF Hit
  <2> QED
    BY <2>1
<1> QED
  BY <1>1, <1>3 DEF PInv, Faulted

\* A fault counts each request it is applied to, under the lock that judges it.
LEMMA FaultedKept == PInv /\ [Next]_vars => Faulted'
<1> SUFFICES ASSUME PInv, [Next]_vars PROVE Faulted'
  OBVIOUS
<1> USE FaultProxyConstants DEF PInv, TypeOK, Faulted, Requested
<1>1. ASSUME NEW r \in Requests, Arrive(r) PROVE Faulted'
  <2>1. /\ UNCHANGED <<now, faults>>
        /\ \A q \in Requests : /\ req'[q].fault = req[q].fault
                               /\ req[q].fault # 0 => req'[q].seen = req[q].seen
    BY <1>1 DEF Arrive, Request
  <2> QED
    BY <2>1, SameHits
<1>2. ASSUME NEW r \in Requests, ReadClock(r) PROVE Faulted'
  <2>1. /\ UNCHANGED <<now, faults>>
        /\ \A q \in Requests : /\ req'[q].fault = req[q].fault
                               /\ req[q].fault # 0 => req'[q].seen = req[q].seen
    BY <1>2 DEF ReadClock, Request
  <2> QED
    BY <2>1, SameHits
<1>3. ASSUME NEW r \in Requests, faultFor(r) PROVE Faulted'
  <2>1. PICK g \in 0 .. Len(faults) :
           /\ req[r].phase = "judging" /\ req[r].fault = 0 /\ req[r].seen \in Time
           /\ req' = [req EXCEPT ![r].phase = "judged", ![r].fault = g]
           /\ DOMAIN faults' = DOMAIN faults
           /\ \A f \in DOMAIN faults \ {g} : faults'[f] = faults[f]
           /\ g # 0 => /\ g \in DOMAIN faults
                       /\ faults[g].spent = 0 /\ faults[g].removed = 0
                       /\ faults'[g] = applied(faults[g], req[r].seen)
           /\ UNCHANGED now
    BY <1>3, Judged
  <2>2. \A q \in Requests : /\ q # r => req'[q] = req[q]
                            /\ req'[r].fault = g /\ req'[r].seen = req[r].seen
    BY <2>1 DEF Request
  <2>3. 0 \notin DOMAIN faults
    BY RequestParts
  <2>4. \A f \in DOMAIN faults \ {g} : Hit(f)' = Hit(f)
    BY <2>1, <2>2, <2>3 DEF Hit
  <2>5. ASSUME NEW f \in DOMAIN faults, f # g
        PROVE  /\ faults'[f] = faults[f] /\ Hit(f)' = Hit(f)
               /\ \A q \in Hit(f) : req'[q].seen = req[q].seen
    BY <2>1, <2>2, <2>3, <2>4, <2>5 DEF Hit
  <2>6. ASSUME g # 0
        PROVE  /\ IsFiniteSet(Hit(g)') /\ Cardinality(Hit(g)') = faults'[g].applied
               /\ faults'[g].spent <= now /\ faults'[g].removed = 0
               /\ faults'[g].spec.count > 0 =>
                     /\ faults'[g].applied <= faults'[g].spec.count
                     /\ faults'[g].applied = faults'[g].spec.count => faults'[g].spent # 0
               /\ faults'[g].spec.count = 0 => faults'[g].spent = 0
    <3>1. g \in DOMAIN faults /\ Hit(g)' = Hit(g) \cup {r} /\ r \notin Hit(g)
      BY <2>1, <2>2, <2>6 DEF Hit
    <3>2. IsFiniteSet(Hit(g)') /\ Cardinality(Hit(g)') = faults[g].applied + 1
      BY <3>1, FS_AddElement
    <3>3. faults[g] \in Fault /\ faults[g].spec.count \in Nat /\ faults[g].applied \in Nat
      BY <3>1, FaultParts
    <3>4. /\ faults'[g].spec = faults[g].spec /\ faults'[g].removed = 0
          /\ faults'[g].applied = faults[g].applied + 1
          /\ faults'[g].spent = IF faults[g].spec.count > 0 /\ faults[g].applied + 1 >= faults[g].spec.count
                                   THEN req[r].seen ELSE 0
      BY <2>1, <2>6, <3>3, AppliedIs
    <3>5. faults[g].spec.count > 0 => faults[g].applied < faults[g].spec.count
      BY <2>1, <2>6, <3>1, <3>3
    <3>6. req[r].seen <= now /\ req[r].seen # 0 /\ 0 <= now
      BY <2>1 DEF Time
    <3> QED
      BY <3>2, <3>3, <3>4, <3>5, <3>6
  <2>7. ASSUME NEW f \in DOMAIN faults
        PROVE  /\ faults'[f].spent <= now /\ faults'[f].removed <= now
               /\ IsFiniteSet(Hit(f)') /\ Cardinality(Hit(f)') = faults'[f].applied
               /\ faults'[f].spec.count > 0 =>
                     /\ faults'[f].applied <= faults'[f].spec.count
                     /\ faults'[f].applied = faults'[f].spec.count => faults'[f].spent # 0
               /\ faults'[f].spec.count = 0 => faults'[f].spent = 0
               /\ faults'[f].removed # 0 => \A q \in Hit(f)' : req'[q].seen <= faults'[f].removed
    <3>1. CASE f = g
      <4>1. 0 <= now
        BY DEF Time
      <4> QED
        BY <2>3, <2>6, <2>7, <3>1, <4>1
    <3>2. CASE f # g
      BY <2>5, <2>7, <3>2
    <3> QED
      BY <3>1, <3>2
  <2> HIDE DEF PInv, Faulted
  <2> QED
    BY <2>1, <2>7 DEF Faulted
<1>4. ASSUME NEW r \in Requests, appendRecord(r) PROVE Faulted'
  <2>1. /\ UNCHANGED <<now, faults>>
        /\ \A q \in Requests : /\ req'[q].fault = req[q].fault
                               /\ req[q].fault # 0 => req'[q].seen = req[q].seen
    BY <1>4 DEF appendRecord, Go, Request
  <2> QED
    BY <2>1, SameHits
<1>5. ASSUME NEW r \in Requests, await(r) PROVE Faulted'
  <2>1. /\ UNCHANGED <<now, faults>>
        /\ \A q \in Requests : /\ req'[q].fault = req[q].fault
                               /\ req[q].fault # 0 => req'[q].seen = req[q].seen
    BY <1>5 DEF await, Request
  <2> QED
    BY <2>1, SameHits
<1>6. ASSUME NEW r \in Requests, Upstream(r) PROVE Faulted'
  <2>1. /\ UNCHANGED <<now, faults>>
        /\ \A q \in Requests : /\ req'[q].fault = req[q].fault
                               /\ req[q].fault # 0 => req'[q].seen = req[q].seen
    BY <1>6 DEF Upstream, Go, Request
  <2> QED
    BY <2>1, SameHits
<1>7. ASSUME NEW r \in Requests, Finish(r) PROVE Faulted'
  <2>1. /\ UNCHANGED <<now, faults>>
        /\ \A q \in Requests : /\ req'[q].fault = req[q].fault
                               /\ req[q].fault # 0 => req'[q].seen = req[q].seen
    BY <1>7 DEF Finish, Go, Request
  <2> QED
    BY <2>1, SameHits
<1>8. CASE Tick
  <2>1. now' = now + 1 /\ UNCHANGED <<faults, req>>
    BY <1>8 DEF Tick
  <2>2. now \in Nat /\ \A f \in DOMAIN faults : faults[f].spent <= now' /\ faults[f].removed <= now'
    BY <2>1, FaultParts DEF Time
  <2>3. \A f : Hit(f)' = Hit(f)
    BY <2>1 DEF Hit
  <2> QED
    BY <2>1, <2>2, <2>3
<1>9. CASE StopCloses
  BY <1>9, SameHits DEF StopCloses
<1>10. CASE StopReturns
  BY <1>10, SameHits DEF StopReturns
<1>11. ASSUME NEW spec \in Specs, AddFault(spec) PROVE Faulted'
  <2> DEFINE n == Len(faults) + 1
  <2>1. /\ DOMAIN faults' = DOMAIN faults \cup {n} /\ UNCHANGED <<now, req>>
        /\ \A f \in DOMAIN faults : faults'[f] = faults[f]
        /\ faults'[n].applied = 0 /\ faults'[n].spent = 0 /\ faults'[n].removed = 0
    BY <1>11, Adding
  <2>2. \A f : Hit(f)' = Hit(f)
    BY <2>1 DEF Hit
  <2>3. Hit(n) = {} /\ n \notin DOMAIN faults
    BY RequestParts DEF Hit
  <2>4. IsFiniteSet(Hit(n)) /\ Cardinality(Hit(n)) = 0
    BY <2>3, FS_EmptySet
  <2>5. faults'[n].spec.count \in Nat /\ now \in Nat
    <3>1. faults' \in Seq(Fault) /\ n \in DOMAIN faults'
      BY <1>11, <2>1, Adding
    <3>2. faults'[n] \in Fault
      BY <3>1
    <3> QED
      BY <3>2 DEF Fault, SpecType, Time
  <2>6. ASSUME NEW f \in DOMAIN faults'
        PROVE  /\ faults'[f].spent <= now /\ faults'[f].removed <= now
               /\ IsFiniteSet(Hit(f)) /\ Cardinality(Hit(f)) = faults'[f].applied
               /\ faults'[f].spec.count > 0 =>
                     /\ faults'[f].applied <= faults'[f].spec.count
                     /\ faults'[f].applied = faults'[f].spec.count => faults'[f].spent # 0
               /\ faults'[f].spec.count = 0 => faults'[f].spent = 0
               /\ faults'[f].removed # 0 => \A r \in Hit(f) : req[r].seen <= faults'[f].removed
    <3>1. CASE f = n
      BY <2>1, <2>4, <2>5, <3>1
    <3>2. CASE f \in DOMAIN faults
      BY <2>1, <3>2
    <3> QED
      BY <2>1, <2>6, <3>1, <3>2
  <2> HIDE DEF PInv, Faulted
  <2> QED
    BY <2>1, <2>2, <2>6 DEF Faulted
<1>12. CASE ClearFaults \/ \E g \in DOMAIN faults : RemoveFault(g)
  <2>1. /\ DOMAIN faults' = DOMAIN faults /\ UNCHANGED <<now, req>>
        /\ \A f \in DOMAIN faults :
              /\ faults'[f].spec = faults[f].spec /\ faults'[f].applied = faults[f].applied
              /\ faults'[f].spent = faults[f].spent
              /\ \/ faults'[f].removed = faults[f].removed
                 \/ faults[f].removed = 0 /\ faults'[f].removed = now
    BY <1>12, Removing
  <2>2. \A f : Hit(f)' = Hit(f)
    BY <2>1 DEF Hit
  <2>3. \A f : \A r \in Hit(f) : req[r].seen <= now
    BY DEF Hit
  <2>4. now <= now
    BY DEF Time
  <2> QED
    BY <2>1, <2>2, <2>3, <2>4
<1>13. CASE UNCHANGED vars
  BY <1>13, SameHits DEF vars
<1> QED
  BY <1>1, <1>2, <1>3, <1>4, <1>5, <1>6, <1>7, <1>8, <1>9, <1>10, <1>11, <1>12, <1>13 DEF
     Next, TrafficStep, Serve

\* The invariant holds of the proxy, whatever its caller does.
LEMMA ProxyInductive == Spec => []PInv
<1>1. PInv /\ [Next]_vars => PInv'
  BY TypeOKKept, RequestedKept, FaultedKept DEF PInv
<1> QED
  BY ProxyStarts, <1>1, PTL DEF Spec

\* However many requests are judged at once, and by clocks however old, a fault hits no
\* more of them than its count, and none whose clock was read after it was removed
\* (injectedFault.applies, remove).
THEOREM FaultsStop == Spec => []FaultLimits
<1>1. PInv => FaultLimits
  <2> SUFFICES ASSUME PInv PROVE FaultLimits
    OBVIOUS
  <2>1. ASSUME NEW f \in DOMAIN faults, faults[f].spec.count > 0
        PROVE  Cardinality({r \in Requests : req[r].fault = f}) <= faults[f].spec.count
    BY <2>1 DEF PInv, Faulted, Hit
  <2>2. ASSUME NEW f \in DOMAIN faults, NEW r \in Requests, faults[f].removed # 0,
               req[r].fault = f
        PROVE  req[r].seen <= faults[f].removed
    BY <2>2 DEF PInv, Faulted, Hit
  <2> QED
    BY <2>1, <2>2 DEF FaultLimits, CountRespected, RemovedIsLast
<1> QED
  BY ProxyInductive, <1>1, PTL

-----------------------------------------------------------------------------
(* A retired fault stays as it is. *)

\* endedBy, of when the fault was retired and its requests were released.
Ending(ended, releases) ==
    IF ended = 0 \/ 0 \in releases THEN 0
    ELSE CHOOSE x \in releases \cup {ended} : \A y \in releases \cup {ended} : y <= x

\* When a fault no clock ends was retired.
Retired(f) == earliest(faults[f].spent, faults[f].removed)

\* When the requests a fault held were released.
Releases(f) == {req[r].released : r \in Holds(f)}

\* When a fault that no clock ends is over does not depend on when one asks.
LEMMA EndedIs ==
    ASSUME NEW f, faults[f].spec.for = 0, NEW t
    PROVE  endedBy(f, t) = Ending(Retired(f), Releases(f))
<1>1. retiredBy(f, t) = Retired(f)
  BY DEF retiredBy, Retired
<1> QED
  BY <1>1 DEF endedBy, Ending, Releases

\* The same, after a step.
LEMMA EndedIsNext ==
    ASSUME NEW f, faults'[f].spec.for = 0
    PROVE  endedBy(f, now)' = Ending(Retired(f)', Releases(f)')
<1>1. retiredBy(f, now)' = Retired(f)'
  BY DEF retiredBy, Retired
<1> QED
  BY <1>1 DEF endedBy, Ending, Releases

\* What makes the end of a fault the same after a step.
LEMMA SameEnd ==
    ASSUME PInv, NEW f \in DOMAIN faults, faults[f].spec.for = 0,
           faults'[f].spec = faults[f].spec, Retired(f)' = Retired(f),
           \A q \in Requests : /\ req'[q].fault = f <=> req[q].fault = f
                               /\ req[q].fault = f => req'[q].released = req[q].released
    PROVE  endedBy(f, now)' = endedBy(f, now)
<1>1. Holds(f)' = Holds(f)
  BY DEF Holds
<1>2. \A q \in Holds(f) : req'[q].released = req[q].released
  BY DEF Holds
<1>3. Releases(f)' = Releases(f)
  BY <1>1, <1>2 DEF Releases
<1> QED
  BY <1>3, EndedIs, EndedIsNext

\* A step leaves a fault that is over, and that no clock ends, as it is: it counts no
\* further request and its end does not move.
LEMMA Final ==
    ASSUME PInv, [Next]_vars, NEW f \in DOMAIN faults, faults[f].spec.for = 0,
           endedBy(f, now) # 0
    PROVE  /\ faults'[f].spec = faults[f].spec /\ faults'[f].first = faults[f].first
           /\ faults'[f].applied = faults[f].applied
           /\ endedBy(f, now)' = endedBy(f, now)
           /\ \A r \in Holds(f) : req[r].released # 0
<1> DEFINE Left == /\ faults'[f].spec = faults[f].spec /\ faults'[f].first = faults[f].first
                   /\ faults'[f].applied = faults[f].applied /\ Retired(f)' = Retired(f)
           Same == \A q \in Requests : /\ req'[q].fault = f <=> req[q].fault = f
                                       /\ req[q].fault = f => req'[q].released = req[q].released
<1>1. Retired(f) # 0 /\ 0 \notin Releases(f)
  BY EndedIs DEF Ending
<1>2. \A r \in Holds(f) : req[r].released # 0
  BY <1>1 DEF Releases
<1>3. f # 0
  BY RequestParts DEF PInv, TypeOK
<1>4. ASSUME UNCHANGED faults PROVE Left
  BY <1>4 DEF Retired
<1>5. ASSUME UNCHANGED req PROVE Same
  BY <1>5
<1>6. ASSUME NEW r \in Requests, Arrive(r) \/ ReadClock(r) \/ appendRecord(r) \/ Upstream(r) \/ Finish(r)
      PROVE  Left /\ Same
  <2>1. UNCHANGED faults
    BY <1>6 DEF Arrive, ReadClock, appendRecord, Upstream, Finish
  <2>2. \A q \in Requests : req'[q].fault = req[q].fault /\ req'[q].released = req[q].released
    BY <1>6 DEF Arrive, ReadClock, appendRecord, Upstream, Finish, Go, PInv, TypeOK, Request
  <2> QED
    BY <1>4, <2>1, <2>2
<1>7. ASSUME NEW r \in Requests, await(r) PROVE Left /\ Same
  <2>1. req[r].phase = "held" /\ UNCHANGED faults
    BY <1>7 DEF await
  <2>2. /\ req'[r].fault = req[r].fault
        /\ \A q \in Requests \ {r} : req'[q] = req[q]
    BY <1>7 DEF await, PInv, TypeOK, Request
  <2>3. req[r].released = 0 /\ faults[req[r].fault].spec.action = "delay"
    BY <2>1 DEF PInv, Requested
  <2>4. req[r].fault # f
    BY <1>2, <2>3 DEF Holds
  <2> QED
    BY <1>4, <2>1, <2>2, <2>4
<1>8. ASSUME NEW r \in Requests, faultFor(r) PROVE Left /\ Same
  <2>1. PICK g \in 0 .. Len(faults) :
           /\ req[r].fault = 0
           /\ req' = [req EXCEPT ![r].phase = "judged", ![r].fault = g]
           /\ \A h \in DOMAIN faults \ {g} : faults'[h] = faults[h]
           /\ g # 0 => faults[g].spent = 0 /\ faults[g].removed = 0
    BY <1>8, Judged
  <2>2. g # f
    BY <1>1, <1>3, <2>1 DEF Retired, earliest
  <2>3. /\ req'[r].fault = g
        /\ \A q \in Requests \ {r} : req'[q] = req[q]
    BY <2>1 DEF PInv, TypeOK, Request
  <2>4. faults'[f] = faults[f]
    BY <2>1, <2>2
  <2> QED
    BY <1>3, <2>1, <2>2, <2>3, <2>4 DEF Retired
<1>9. ASSUME Tick \/ StopCloses \/ StopReturns \/ UNCHANGED vars PROVE Left /\ Same
  BY <1>4, <1>5, <1>9 DEF Tick, StopCloses, StopReturns, vars
<1>10. ASSUME NEW spec \in Specs, AddFault(spec) PROVE Left /\ Same
  <2>1. faults'[f] = faults[f] /\ UNCHANGED req
    BY <1>10, Adding DEF PInv
  <2> QED
    BY <1>5, <2>1 DEF Retired
<1>11. ASSUME ClearFaults \/ \E g \in DOMAIN faults : RemoveFault(g) PROVE Left /\ Same
  <2>1. /\ faults'[f].spec = faults[f].spec /\ faults'[f].applied = faults[f].applied
        /\ faults'[f].first = faults[f].first /\ faults'[f].spent = faults[f].spent
        /\ \/ faults'[f].removed = faults[f].removed
           \/ faults[f].removed = 0 /\ faults'[f].removed = now
        /\ UNCHANGED req
    BY <1>11, Removing DEF PInv
  <2>2. faults[f].spent <= now /\ faults[f].spent \in Nat /\ now \in Nat
    BY FaultParts, FaultProxyConstants DEF PInv, TypeOK, Faulted, Time
  <2>3. Retired(f)' = Retired(f)
    BY <1>1, <2>1, <2>2 DEF Retired, earliest
  <2> QED
    BY <1>5, <2>1, <2>3
<1>12. Left /\ Same
  <2> HIDE DEF Left, Same
  <2> QED
    BY <1>6, <1>7, <1>8, <1>9, <1>10, <1>11 DEF Next, TrafficStep, Serve
<1> QED
  BY <1>2, <1>12, SameEnd

\* Once the proxy has reported a fault retired that no clock ends, no step of a request,
\* of the runner or of Stop changes its window or faults a request with it (Window,
\* endedBy): the runner may stop reading it.
THEOREM RetiredStays == Spec => RetiredForGood
<1> DEFINE Keeps == \A f \in DOMAIN faults :
                       faults[f].spec.for = 0 /\ endedBy(f, now) # 0
                         => /\ Window(f, now)' = Window(f, now)
                            /\ \A r \in Holds(f) : req[r].released # 0
                            /\ faults'[f].applied = faults[f].applied
<1>1. PInv /\ [Next]_vars => Keeps
  BY Final DEF Window
<1>2. PInv /\ [Next]_vars => [Keeps]_vars
  BY <1>1
<1> QED
  BY ProxyInductive, <1>2, PTL DEF Spec, RetiredForGood

-----------------------------------------------------------------------------
(* The runner's windows. *)

\* The end of a fault is no earlier than its retirement and the releases.
LEMMA EndingIs ==
    ASSUME NEW ended \in Stamp, NEW releases \in SUBSET Stamp
    PROVE  /\ Ending(ended, releases) \in Stamp
           /\ Ending(ended, releases) # 0 =>
                 /\ ended # 0 /\ ended <= Ending(ended, releases)
                 /\ \A y \in releases : y <= Ending(ended, releases)
<1>1. CASE ended = 0 \/ 0 \in releases
  BY <1>1, FaultProxyConstants DEF Ending, Stamp
<1>2. CASE ~(ended = 0 \/ 0 \in releases)
  <2> DEFINE S == releases \cup {ended}
  <2>1. S \in SUBSET (0 .. MaxTime) /\ S # {} /\ MaxTime \in Nat
    BY FaultProxyConstants DEF Stamp
  <2>2. \E x \in S : \A y \in S : y <= x
    BY <2>1, GreatestOf
  <2>3. Ending(ended, releases) = CHOOSE x \in S : \A y \in S : y <= x
    BY <1>2 DEF Ending
  <2> HIDE DEF S
  <2>4. Ending(ended, releases) \in S /\ \A y \in S : y <= Ending(ended, releases)
    BY <2>2, <2>3
  <2> QED
    BY <1>2, <2>4 DEF S
<1> QED
  BY <1>1, <1>2

\* What Window answers at any clock is an instant.
LEMMA EndedIsStamp ==
    ASSUME PInv, NEW f \in DOMAIN faults, NEW t \in 1 .. now
    PROVE  endedBy(f, t) \in Stamp
<1>1. endedBy(f, t) = Ending(retiredBy(f, t), Releases(f))
  BY DEF endedBy, Ending, Releases
<1>2. Releases(f) \in SUBSET Stamp
  BY RequestParts DEF Releases, Holds, PInv
<1>3. retiredBy(f, t) \in Stamp
  BY FaultParts, FaultProxyConstants DEF PInv, TypeOK, Time, Stamp, retiredBy, earliest
<1> QED
  BY <1>1, <1>2, <1>3, EndingIs

\* The fault the runner turns to is one of those it still has to do.
LEMMA NextIsTodo ==
    ASSUME TInv, todo # {}
    PROVE  Next1 \in todo /\ Next1 \in DOMAIN faults
<1>1. todo \in SUBSET Nat /\ todo \subseteq DOMAIN faults
  BY DEF TInv, TimelineTypeOK, TypeOK
<1>2. \E f \in todo : \A g \in todo : f <= g
  BY <1>1, LeastOf
<1>3. Next1 \in todo
  BY <1>2 DEF Next1
<1> QED
  BY <1>1, <1>3

\* Every step of the runner is one of the proxy's, or leaves the proxy alone.
LEMMA ProxyStep == TInv /\ [TimelineNext]_allVars => [Next]_vars
<1> SUFFICES ASSUME TInv, [TimelineNext]_allVars PROVE [Next]_vars
  OBVIOUS
<1>1. ASSUME NEW spec \in Specs, inject(spec) PROVE Next
  BY <1>1 DEF inject, Next
<1>2. CASE removeDue
  BY <1>2, NextIsTodo DEF removeDue, Next
<1>3. CASE expireFaults \/ beginReading \/ readFaultWindow \/ dropRetired \/ asOf \/ readingDone
  BY <1>3 DEF expireFaults, beginReading, readFaultWindow, dropRetired, asOf, readingDone
<1>4. CASE clearFaults
  BY <1>4 DEF clearFaults, Next
<1>5. CASE TrafficStep
  BY <1>5 DEF Next
<1>6. CASE UNCHANGED allVars
  BY <1>6 DEF allVars
<1> QED
  BY <1>1, <1>2, <1>3, <1>4, <1>5, <1>6 DEF TimelineNext, RunnerStep

\* A fault that is there stays, with its spec.
LEMMA SpecKept ==
    ASSUME PInv, [Next]_vars, NEW f \in DOMAIN faults
    PROVE  f \in DOMAIN faults' /\ faults'[f].spec = faults[f].spec
<1>1. ASSUME NEW r \in Requests, faultFor(r)
      PROVE  f \in DOMAIN faults' /\ faults'[f].spec = faults[f].spec
  <2>1. PICK g \in 0 .. Len(faults) :
           /\ req[r].seen \in Time /\ DOMAIN faults' = DOMAIN faults
           /\ \A h \in DOMAIN faults \ {g} : faults'[h] = faults[h]
           /\ g # 0 => g \in DOMAIN faults /\ faults'[g] = applied(faults[g], req[r].seen)
    BY <1>1, Judged
  <2>2. f # 0 /\ faults[f] \in Fault
    BY FaultParts, RequestParts DEF PInv, TypeOK
  <2> QED
    BY <2>1, <2>2, AppliedIs
<1>2. ASSUME NEW spec \in Specs, AddFault(spec)
      PROVE  f \in DOMAIN faults' /\ faults'[f].spec = faults[f].spec
  BY <1>2, Adding DEF PInv
<1>3. ASSUME ClearFaults \/ \E g \in DOMAIN faults : RemoveFault(g)
      PROVE  f \in DOMAIN faults' /\ faults'[f].spec = faults[f].spec
  BY <1>3, Removing DEF PInv
<1>4. ASSUME NEW r \in Requests,
             Arrive(r) \/ ReadClock(r) \/ appendRecord(r) \/ await(r) \/ Upstream(r) \/ Finish(r)
      PROVE  UNCHANGED faults
  BY <1>4 DEF Arrive, ReadClock, appendRecord, await, Upstream, Finish
<1>5. ASSUME Tick \/ StopCloses \/ StopReturns \/ UNCHANGED vars
      PROVE  UNCHANGED faults
  BY <1>5 DEF Tick, StopCloses, StopReturns, vars
<1> QED
  BY <1>1, <1>2, <1>3, <1>4, <1>5 DEF Next, TrafficStep, Serve

\* A closed window that is left alone stays the proxy's.
LEMMA WindowKept ==
    ASSUME TInv, [Next]_vars, NEW f \in DOMAIN faults, windows'[f] = windows[f],
           faults'[f].spec.for = 0, windows'[f].end # 0
    PROVE  windows'[f].start = faults'[f].first /\ windows'[f].end = endedBy(f, now)'
<1>1. PInv /\ faults[f].spec.for = 0
  BY SpecKept DEF TInv
<1>2. windows[f].start = faults[f].first /\ windows[f].end = endedBy(f, now)
  BY <1>1 DEF TInv, WindowsTrue
<1> QED
  BY <1>1, <1>2, Final

\* The windows with one of them replaced.
LEMMA WindowReplaced ==
    ASSUME TimelineTypeOK, NEW g \in DOMAIN windows, NEW w \in [start : Stamp, end : Stamp],
           windows' = [windows EXCEPT ![g] = w]
    PROVE  windows' \in Seq([start : Stamp, end : Stamp]) /\ Len(windows') = Len(windows)
<1> DEFINE W == [start : Stamp, end : Stamp]
<1>1. windows \in Seq(W) /\ w \in W
  BY DEF TimelineTypeOK
<1> HIDE DEF W
<1>2. windows' \in Seq(W) /\ Len(windows') = Len(windows)
  BY <1>1
<1> QED
  BY <1>2 DEF W

\* Every step keeps the types of the runner's record.
LEMMA TimelineTypeKept == TInv /\ [TimelineNext]_allVars => TimelineTypeOK'
<1> SUFFICES ASSUME TInv, [TimelineNext]_allVars PROVE TimelineTypeOK'
  OBVIOUS
<1>1. TypeOK'
  BY ProxyStep, TypeOKKept DEF TInv
<1>2. TypeOK /\ PInv
  BY DEF TInv, PInv
<1>3. 0 \in Stamp
  BY FaultProxyConstants DEF Stamp
<1> USE DEF TInv, TimelineTypeOK
<1>4. ASSUME NEW spec \in Specs, inject(spec) PROVE TimelineTypeOK'
  <2>1. Len(faults') = Len(faults) + 1 /\ DOMAIN faults' = DOMAIN faults \cup {Len(faults) + 1}
    BY <1>2, <1>4, Adding DEF inject
  <2>2. windows' = Append(windows, [start |-> 0, end |-> 0])
    BY <1>4 DEF inject
  <2>3. [start |-> 0, end |-> 0] \in [start : Stamp, end : Stamp]
    BY <1>3
  <2>4. windows' \in Seq([start : Stamp, end : Stamp]) /\ Len(windows') = Len(windows) + 1
    BY <2>2, <2>3
  <2> QED
    BY <1>1, <1>4, <2>1, <2>4 DEF inject
<1>5. CASE removeDue \/ clearFaults
  <2>1. Len(faults') = Len(faults) /\ DOMAIN faults' = DOMAIN faults
    BY <1>2, <1>5, Removing, NextIsTodo DEF removeDue, clearFaults
  <2> QED
    BY <1>1, <1>5, <2>1 DEF removeDue, clearFaults
<1>6. CASE expireFaults
  <2>1. op' \in 0 .. MaxOps
    BY <1>6, FaultTimelineConstants DEF expireFaults
  <2> QED
    BY <1>1, <1>6, <2>1 DEF expireFaults, vars
<1>7. CASE readFaultWindow
  <2>1. Next1 \in DOMAIN faults
    BY <1>7, NextIsTodo DEF readFaultWindow
  <2>2. PICK t \in 1 .. now :
           windows' = [windows EXCEPT ![Next1] = [start |-> faults[Next1].first,
                                                  end |-> endedBy(Next1, t)]]
    BY <1>7 DEF readFaultWindow, Window
  <2> DEFINE w == [start |-> faults[Next1].first, end |-> endedBy(Next1, t)]
  <2>3. w \in [start : Stamp, end : Stamp]
    BY <1>2, <2>1, FaultParts, EndedIsStamp
  <2>4. windows' = [windows EXCEPT ![Next1] = w] /\ Next1 \in DOMAIN windows
    BY <1>2, <2>1, <2>2 DEF TypeOK
  <2> HIDE DEF w
  <2>5. windows' \in Seq([start : Stamp, end : Stamp]) /\ Len(windows') = Len(windows)
    BY <2>3, <2>4, WindowReplaced
  <2> QED
    BY <1>1, <1>7, <2>5 DEF readFaultWindow, vars
<1>8. CASE beginReading \/ asOf \/ readingDone
  BY <1>1, <1>8 DEF beginReading, asOf, readingDone, vars
<1>9. CASE dropRetired
  BY <1>1, <1>9 DEF dropRetired, stillOpen, vars
<1>10. CASE TrafficStep /\ UNCHANGED runnerVars
  <2>1. Len(faults') = Len(faults) /\ DOMAIN faults' = DOMAIN faults
    <3>1. ASSUME NEW r \in Requests, faultFor(r)
          PROVE  Len(faults') = Len(faults) /\ DOMAIN faults' = DOMAIN faults
      BY <1>2, <3>1, Judged
    <3> QED
      BY <1>10, <3>1 DEF TrafficStep, Serve, Tick, Arrive, ReadClock, appendRecord, await,
         Upstream, Finish
  <2> QED
    BY <1>1, <1>10, <2>1 DEF runnerVars
<1>11. CASE UNCHANGED allVars
  BY <1>1, <1>11 DEF allVars, vars, runnerVars
<1> QED
  BY <1>4, <1>5, <1>6, <1>7, <1>8, <1>9, <1>10, <1>11 DEF TimelineNext, RunnerStep

\* The runner closes a window with what the proxy says, and drops it only then.
LEMMA WindowsTrueKept == TInv /\ [TimelineNext]_allVars => WindowsTrue'
<1> SUFFICES ASSUME TInv, [TimelineNext]_allVars PROVE WindowsTrue'
  OBVIOUS
<1>1. [Next]_vars
  BY ProxyStep
<1>2. /\ PInv /\ TypeOK /\ todo \subseteq holding
      /\ \A f \in DOMAIN faults : f \notin holding => windows[f].end # 0
  BY DEF TInv, PInv, WindowsTrue
<1>3. ASSUME todo' \subseteq holding', UNCHANGED windows, DOMAIN faults' = DOMAIN faults,
             \A f \in DOMAIN faults : f \notin holding' => windows[f].end # 0
      PROVE  WindowsTrue'
  BY <1>1, <1>3, WindowKept DEF WindowsTrue
<1>4. ASSUME NEW spec \in Specs, inject(spec) PROVE WindowsTrue'
  <2> DEFINE n == Len(faults) + 1
  <2>1. DOMAIN faults' = DOMAIN faults \cup {n} /\ \A f \in DOMAIN faults : f # n
    <3>1. DOMAIN faults = 1 .. Len(faults) /\ Len(faults) \in Nat
      BY <1>2 DEF TypeOK
    <3>2. AddFault(spec)
      BY <1>4 DEF inject
    <3>3. DOMAIN faults' = DOMAIN faults \cup {n}
      BY <1>2, <3>2, Adding
    <3> QED
      BY <3>1, <3>3
  <2>2. holding' = holding \cup {n} /\ todo' = todo
    BY <1>4 DEF inject
  <2>3. /\ windows \in Seq([start : Stamp, end : Stamp]) /\ Len(windows) = Len(faults)
        /\ windows' = Append(windows, [start |-> 0, end |-> 0])
    BY <1>4 DEF inject, TInv, TimelineTypeOK
  <2>4. windows'[n].end = 0 /\ \A f \in 1 .. Len(faults) : windows'[f] = windows[f]
    BY <2>3
  <2>5. DOMAIN faults = 1 .. Len(faults)
    BY <1>2 DEF TypeOK
  <2>6. \A f \in DOMAIN faults : windows'[f] = windows[f]
    BY <2>4, <2>5
  <2> HIDE DEF n
  <2> QED
    BY <1>1, <1>2, <2>1, <2>2, <2>4, <2>6, WindowKept DEF WindowsTrue
<1>5. CASE removeDue \/ clearFaults
  <2>1. DOMAIN faults' = DOMAIN faults
    BY <1>2, <1>5, Removing, NextIsTodo DEF removeDue, clearFaults
  <2> QED
    BY <1>2, <1>3, <1>5, <2>1 DEF removeDue, clearFaults
<1>6. CASE expireFaults \/ beginReading \/ asOf \/ readingDone
  BY <1>2, <1>3, <1>6 DEF expireFaults, beginReading, asOf, readingDone, vars
<1>7. CASE readFaultWindow
  <2>1. PICK h \in DOMAIN faults : h = Next1 /\ h \in holding
    BY <1>2, <1>7, NextIsTodo DEF readFaultWindow
  <2>2. PICK t \in 1 .. now :
           windows' = [windows EXCEPT ![h] = [start |-> faults[h].first,
                                                  end |-> endedBy(h, t)]]
    BY <1>7, <2>1 DEF readFaultWindow, Window
  <2>3. DOMAIN windows = DOMAIN faults
    BY <1>2 DEF TInv, TimelineTypeOK, TypeOK
  <2>4. /\ windows'[h].start = faults[h].first
        /\ windows'[h].end = endedBy(h, t)
        /\ \A f \in DOMAIN faults \ {h} : windows'[f] = windows[f]
    BY <2>1, <2>2, <2>3
  <2>5. UNCHANGED <<now, faults, req, holding>> /\ todo' \subseteq holding
    BY <1>2, <1>7 DEF readFaultWindow, vars
  <2>6. ASSUME faults[h].spec.for = 0
        PROVE  endedBy(h, t) = endedBy(h, now)'
    <3>1. endedBy(h, now)' = endedBy(h, now)
      BY <1>2, <2>1, <2>5, <2>6, SameEnd DEF Retired
    <3> QED
      BY <2>6, <3>1, EndedIs
  <2>7. ASSUME NEW f \in DOMAIN faults
        PROVE  /\ f \notin holding' => windows'[f].end # 0
               /\ faults'[f].spec.for = 0 /\ windows'[f].end # 0 =>
                     windows'[f].start = faults'[f].first /\ windows'[f].end = endedBy(f, now)'
    <3>1. CASE f = h
      BY <2>1, <2>4, <2>5, <2>6, <3>1
    <3>2. CASE f # h
      BY <1>1, <1>2, <2>4, <2>5, <3>2, WindowKept
    <3> QED
      BY <3>1, <3>2
  <2> QED
    BY <2>5, <2>7 DEF WindowsTrue
<1>8. CASE dropRetired
  BY <1>2, <1>3, <1>8 DEF dropRetired, stillOpen, vars
<1>9. CASE TrafficStep /\ UNCHANGED runnerVars
  <2>1. DOMAIN faults' = DOMAIN faults
    <3>1. ASSUME NEW r \in Requests, faultFor(r) PROVE DOMAIN faults' = DOMAIN faults
      BY <1>2, <3>1, Judged
    <3> QED
      BY <1>9, <3>1 DEF TrafficStep, Serve, Tick, Arrive, ReadClock, appendRecord, await,
         Upstream, Finish
  <2> QED
    BY <1>2, <1>3, <1>9, <2>1 DEF runnerVars
<1>10. CASE UNCHANGED allVars
  BY <1>2, <1>3, <1>10 DEF allVars, vars, runnerVars
<1> QED
  BY <1>4, <1>5, <1>6, <1>7, <1>8, <1>9, <1>10 DEF TimelineNext, RunnerStep

\* The invariant holds of the runner and the proxy together.
LEMMA TimelineInductive == TimelineSpec => []TInv
<1>1. TimelineInit => TInv
  <2> SUFFICES ASSUME TimelineInit PROVE TInv
    OBVIOUS
  <2>1. PInv
    BY ProxyStarts DEF TimelineInit
  <2>2. DOMAIN faults = {} /\ Len(faults) = 0
    BY DEF TimelineInit, Init
  <2>3. 0 \in 0 .. MaxOps
    BY FaultTimelineConstants
  <2>4. TimelineTypeOK
    BY <2>1, <2>2, <2>3 DEF PInv, TimelineInit, TimelineTypeOK
  <2>5. WindowsTrue
    BY <2>2 DEF TimelineInit, WindowsTrue
  <2> QED
    BY <2>1, <2>4, <2>5 DEF TInv
<1>2. TInv /\ [TimelineNext]_allVars => TInv'
  <2>1. PInv /\ [Next]_vars => PInv'
    BY TypeOKKept, RequestedKept, FaultedKept DEF PInv
  <2> QED
    BY <2>1, ProxyStep, TimelineTypeKept, WindowsTrueKept DEF TInv
<1> QED
  BY <1>1, <1>2, PTL DEF TimelineSpec

\* A window the runner has stopped reading is still what the proxy says of the fault,
\* whatever the proxy served since (expireFaults, readFaultWindows).
THEOREM DroppedWindowsAreFinal == TimelineSpec => []DroppedIsFinal
<1>1. TInv => DroppedIsFinal
  BY DEF TInv, WindowsTrue, DroppedIsFinal
<1> QED
  BY TimelineInductive, <1>1, PTL

\* The closed window of a fault that only its op ends holds every request the proxy
\* faulted with it, from its arrival to its release (expireFaults, Window).
THEOREM WindowsHoldRemoved == TimelineSpec => []WindowHoldsRemoved
<1>1. TInv => WindowHoldsRemoved
  <2> SUFFICES ASSUME TInv, NEW f \in DOMAIN faults, NEW r \in Requests, windows[f].end # 0,
                      faults[f].spec.for = 0, faults[f].spec.count = 0, req[r].fault = f
               PROVE  req[r].start <= windows[f].end /\ req[r].released <= windows[f].end
    BY DEF WindowHoldsRemoved
  <2> DEFINE end == Ending(Retired(f), Releases(f))
  <2>1. PInv /\ TypeOK /\ windows[f].end = end
    BY EndedIs DEF TInv, PInv, WindowsTrue
  <2>2. Retired(f) = faults[f].removed
    BY <2>1 DEF PInv, Faulted, Retired, earliest
  <2>3. Retired(f) \in Stamp /\ Releases(f) \in SUBSET Stamp
    BY <2>1, <2>2, FaultParts, RequestParts DEF Releases, Holds
  <2>4. end \in Stamp /\ Retired(f) # 0 /\ Retired(f) <= end /\ \A y \in Releases(f) : y <= end
    BY <2>1, <2>3, EndingIs
  <2>5. req[r].seen <= Retired(f)
    BY <2>1, <2>2, <2>4 DEF PInv, Faulted, Hit
  <2>6. f # 0
    BY <2>1, RequestParts
  <2>7. req[r].start <= req[r].seen
    BY <2>1, <2>6 DEF PInv, Requested
  <2>8. /\ req[r].start \in Nat /\ req[r].seen \in Nat /\ req[r].released \in Nat
        /\ Retired(f) \in Nat /\ end \in Nat
    BY <2>1, <2>3, <2>4, RequestParts DEF Stamp
  <2>9. req[r].released <= end
    <3>1. CASE req[r].released = 0
      BY <2>8, <3>1
    <3>2. CASE req[r].released # 0
      <4>1. r \in Holds(f)
        BY <2>1, <3>2 DEF PInv, Requested, Holds
      <4> QED
        BY <2>4, <4>1 DEF Releases
    <3> QED
      BY <3>1, <3>2
  <2> HIDE DEF end
  <2> QED
    BY <2>1, <2>4, <2>5, <2>7, <2>8, <2>9
<1> QED
  BY TimelineInductive, <1>1, PTL

=============================================================================
