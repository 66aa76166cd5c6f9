---------------------------- MODULE RunnerProofs ----------------------------
(***************************************************************************)
(* A run is bracketed, leaves nothing behind that it did not report,       *)
(* passes only if it was judged in full, never waits for the target        *)
(* without a fixture that is due, and fails only for a cause: for every    *)
(* set of sequences, options and fixtures, and any number of mishaps.      *)
(*                                                                         *)
(* HInv is the harness's inductive invariant: whatever is up is on a       *)
(* teardown's list, or reported, or was half made by the step of start     *)
(* that failed.  The steps of start are distinct (StepsDistinct), so none   *)
(* is pushed twice.  RInv is the Runner's: it ties where the Runner is to  *)
(* the ops applied, the checkpoints made and the errors noted (Tracked),   *)
(* and to what is in the namespace (Emptying).  FInv ties each fixture     *)
(* that is gone to the op that deleted it.  CInv says of a run that        *)
(* nothing has gone wrong around which CRs and fixtures are there, from    *)
(* the ops so far: with it, what validateRun found by searching the        *)
(* sequence rules each failure out but those FailsForCause names.          *)
(***************************************************************************)
EXTENDS Runner, TLAPS, SequenceTheorems, NaturalsInduction, WellFoundedInduction

\* A set of naturals that is not empty has a least element.
LEMMA LeastOf ==
    ASSUME NEW S \in SUBSET Nat, S # {}
    PROVE  \E n \in S : \A m \in S : n <= m
<1> DEFINE R == {ss \in Nat \X Nat : ss[1] < ss[2]}
<1>1. IsWellFoundedOn(R, Nat)
  BY NatLessThanWellFounded DEF OpToRel
<1> HIDE DEF R
<1>2. PICK n \in S : \A m \in S : <<m, n>> \notin R
  BY <1>1, WFMin
<1>3. ASSUME NEW m \in S, m < n PROVE FALSE
  <2>1. <<m, n>> \in R
    BY <1>3 DEF R
  <2> QED
    BY <1>2, <2>1
<1> QED
  BY <1>2, <1>3

\* A set of naturals that is not empty and has a bound has a greatest element.
LEMMA GreatestOf ==
    ASSUME NEW b \in Nat, NEW S \in SUBSET (0 .. b), S # {}
    PROVE  \E n \in S : \A m \in S : m <= n
<1> DEFINE T == {k \in 0 .. b : b - k \in S}
<1>1. T \in SUBSET Nat
  OBVIOUS
<1>2. T # {}
  <2>1. PICK s \in S : TRUE
    OBVIOUS
  <2>2. b - s \in 0 .. b /\ b - (b - s) = s
    OBVIOUS
  <2>3. b - s \in T
    BY <2>2
  <2> QED
    BY <2>3
<1>3. PICK k \in T : \A m \in T : k <= m
  BY <1>1, <1>2, LeastOf
<1>4. ASSUME NEW m \in S PROVE m <= b - k
  <2>1. b - m \in 0 .. b /\ b - (b - m) = m
    OBVIOUS
  <2>2. b - m \in T
    BY <2>1
  <2> QED
    BY <1>3, <2>2
<1>5. b - k \in S
  BY <1>3
<1> QED
  BY <1>4, <1>5

-----------------------------------------------------------------------------

\* The stages from the first failure, or from Stop, on.
Closing == {"failing", "stopping", "recording", "down"}

(* The steps of start are distinct. *)

\* A sequence over S that has no element twice.
Once(s, S) == s \in Seq(S) /\ \A i, j \in 1 .. Len(s) : s[i] = s[j] => i = j

\* Two such sequences with nothing in common make another.
LEMMA OnceConcat ==
    ASSUME NEW A, NEW B, NEW s, NEW t, Once(s, A), Once(t, B), A \cap B = {}
    PROVE  Once(s \o t, A \cup B)
<1>1. s \in Seq(A) /\ t \in Seq(B)
  BY DEF Once
<1>2. /\ Len(s \o t) = Len(s) + Len(t)
      /\ \A i \in 1 .. Len(s) : (s \o t)[i] = s[i] /\ s[i] \in A
      /\ \A i \in Len(s) + 1 .. Len(s) + Len(t) : (s \o t)[i] = t[i - Len(s)] /\ t[i - Len(s)] \in B
  BY <1>1
<1>3. s \o t \in Seq(A \cup B)
  BY <1>1
<1>4. ASSUME NEW i \in 1 .. Len(s \o t), NEW j \in 1 .. Len(s \o t), (s \o t)[i] = (s \o t)[j]
      PROVE  i = j
  <2>1. Len(s) \in Nat /\ Len(t) \in Nat
    BY <1>1
  <2>2. CASE i <= Len(s) /\ j <= Len(s)
    BY <1>2, <1>4, <2>1, <2>2 DEF Once
  <2>3. CASE i > Len(s) /\ j > Len(s)
    <3>1. i - Len(s) \in 1 .. Len(t) /\ j - Len(s) \in 1 .. Len(t)
      BY <1>2, <2>1, <2>3
    <3>2. t[i - Len(s)] = t[j - Len(s)]
      BY <1>2, <1>4, <2>1, <2>3
    <3>3. i - Len(s) = j - Len(s)
      BY <3>1, <3>2 DEF Once
    <3> QED
      BY <2>1, <3>3
  <2>4. CASE i <= Len(s) /\ j > Len(s)
    BY <1>2, <1>4, <2>1, <2>4
  <2>5. CASE i > Len(s) /\ j <= Len(s)
    BY <1>2, <1>4, <2>1, <2>5
  <2> QED
    BY <1>2, <2>1, <2>2, <2>3, <2>4, <2>5
<1> QED
  BY <1>3, <1>4 DEF Once

\* It is one over any larger set.
LEMMA OnceWider ==
    ASSUME NEW S, NEW T, NEW s, Once(s, S), S \subseteq T PROVE Once(s, T)
BY DEF Once

\* The pieces Steps is made of.
LEMMA OnceShort ==
    /\ \A S : Once(<<>>, S)
    /\ \A a : Once(<<a>>, {a})
    /\ \A a, b : a # b => Once(<<a, b>>, {a, b})
    /\ \A a, b, c, d :
          a # b /\ a # c /\ a # d /\ b # c /\ b # d /\ c # d =>
          Once(<<a, b, c, d>>, {a, b, c, d})
<1>1. \A S : Once(<<>>, S)
  BY DEF Once
<1>2. \A a : Once(<<a>>, {a})
  BY DEF Once
<1>3. \A a, b : a # b => Once(<<a, b>>, {a, b})
  BY DEF Once
<1>4. \A a, b, c, d :
          a # b /\ a # c /\ a # d /\ b # c /\ b # d /\ c # d =>
          Once(<<a, b, c, d>>, {a, b, c, d})
  BY DEF Once
<1> QED
  BY <1>1, <1>2, <1>3, <1>4

\* No step of start comes twice, whatever the options.
LEMMA StepsDistinct ==
    /\ Len(Steps) \in Nat
    /\ \A i, j \in 1 .. Len(Steps) : Steps[i] = Steps[j] => i = j
<1> DEFINE own == IF opts.own THEN <<"cluster">> ELSE <<>>
           roles == IF opts.roles THEN <<"identity">> ELSE <<>>
           last == IF opts.manager THEN <<"defaults">> ELSE <<"collector">>
           base == <<"mapper", "namespace">>
           watch == <<"proxy", "kubeconfig", "observer", "sync">>
           A == {"log"} \cup {"cluster"}
           B == A \cup {"mapper", "namespace"}
           C == B \cup {"identity"}
           D == C \cup {"proxy", "kubeconfig", "observer", "sync"}
           E == D \cup {"defaults", "collector"}
           F == E \cup {"fixtures", "target"}
<1>1. Once(<<"log">>, {"log"}) /\ Once(own, {"cluster"}) /\ Once(roles, {"identity"})
  BY OnceShort
<1>2. /\ Once(base, {"mapper", "namespace"})
      /\ Once(<<"fixtures", "target">>, {"fixtures", "target"})
  BY OnceShort
<1>3. Once(watch, {"proxy", "kubeconfig", "observer", "sync"})
  BY OnceShort
<1>4. Once(last, {"defaults", "collector"})
  <2>1. Once(<<"defaults">>, {"defaults"}) /\ Once(<<"collector">>, {"collector"})
    BY OnceShort
  <2>2. /\ {"defaults"} \subseteq {"defaults", "collector"}
        /\ {"collector"} \subseteq {"defaults", "collector"}
    OBVIOUS
  <2> QED
    BY <2>1, <2>2, OnceWider
<1> HIDE DEF own, roles, last, base, watch
<1>5. Once(<<"log">> \o own, A)
  <2>1. {"log"} \cap {"cluster"} = {}
    OBVIOUS
  <2> QED
    BY <1>1, <2>1, OnceConcat
<1>6. Once(<<"log">> \o own \o base, B)
  <2>1. A \cap {"mapper", "namespace"} = {}
    OBVIOUS
  <2> QED
    BY <1>2, <1>5, <2>1, OnceConcat
<1>7. Once(<<"log">> \o own \o base \o roles, C)
  <2>1. B \cap {"identity"} = {}
    OBVIOUS
  <2> QED
    BY <1>1, <1>6, <2>1, OnceConcat
<1>8. Once(<<"log">> \o own \o base \o roles \o watch, D)
  <2>1. C \cap {"proxy", "kubeconfig", "observer", "sync"} = {}
    OBVIOUS
  <2> QED
    BY <1>3, <1>7, <2>1, OnceConcat
<1>9. Once(<<"log">> \o own \o base \o roles \o watch \o last, E)
  <2>1. D \cap {"defaults", "collector"} = {}
    OBVIOUS
  <2> QED
    BY <1>4, <1>8, <2>1, OnceConcat
<1>10. Once(Steps, F)
  <2>1. E \cap {"fixtures", "target"} = {}
    OBVIOUS
  <2> QED
    BY <1>2, <1>9, <2>1, OnceConcat DEF Steps, own, roles, last, base, watch
<1> QED
  BY <1>10 DEF Once

-----------------------------------------------------------------------------
(* The harness. *)

\* What a step brings up, what steps do together, and what the step of start that
\* failed may leave without a word.
Whats(s) == IF s = "identity" THEN RoleParts ELSE {s}
Of(steps) == {x \in Resources \cup RoleParts : \E n \in 1 .. Len(steps) : x \in Whats(steps[n])}
Unreported == IF done < Len(Steps) THEN halfMade(Steps[done + 1]) ELSE {}

\* The types.
HarnessTypes ==
    /\ stage \in {"starting", "up"} \cup Closing
    /\ done \in 0 .. Len(Steps)
    /\ down \in Seq(Resources) /\ taking \in Seq(Resources)

\* A teardown takes all the steps with it, and is done with them at its end.
Stacks ==
    /\ stage \in Closing => down = <<>>
    /\ stage \notin {"failing", "stopping"} => taking = <<>>

\* Only steps that were done are pushed.
Pushed == \A n \in 1 .. Len(down) : \E m \in 1 .. done : Steps[m] = down[n]

\* What is up will be taken down, or is reported, or is the one exception.
Accounted == up \subseteq Of(down) \cup Of(taking) \cup failures \cup
                 (IF stage \in Closing THEN Unreported ELSE {})

HInv == HarnessTypes /\ Stacks /\ Pushed /\ Accounted

\* Nothing is up at first.
LEMMA InitHInv == HarnessInit => HInv
BY StepsDistinct DEF HarnessInit, HInv, HarnessTypes, Stacks, Pushed, Accounted, Closing

\* A step pushed adds what it brought up.
LEMMA OfAppend ==
    ASSUME NEW s \in Seq(Resources), NEW x \in Resources
    PROVE  Of(Append(s, x)) = Of(s) \cup Whats(x)
<1>1. /\ Len(s) \in Nat /\ Len(Append(s, x)) = Len(s) + 1 /\ Append(s, x)[Len(s) + 1] = x
      /\ \A n \in 1 .. Len(s) : Append(s, x)[n] = s[n]
  BY AppendProperties
<1>2. Whats(x) \subseteq Resources \cup RoleParts
  BY DEF Whats
<1>3. \A n \in 1 .. Len(s) + 1 : n \in 1 .. Len(s) \/ n = Len(s) + 1
  BY <1>1
<1>4. Len(s) + 1 \in 1 .. Len(s) + 1 /\ 1 .. Len(s) \subseteq 1 .. Len(s) + 1
  BY <1>1
<1> HIDE DEF Whats
<1> QED
  BY <1>1, <1>2, <1>3, <1>4 DEF Of

\* The step run by a teardown is the last, and the others keep what is theirs.
LEMMA OfFront ==
    ASSUME NEW s \in Seq(Resources), s # <<>>
    PROVE  /\ Front(s) \in Seq(Resources)
           /\ Front(s) = SubSeq(s, 1, Len(s) - 1)
           /\ Of(s) = Of(Front(s)) \cup Whats(Last(s))
<1>1. Len(s) \in Nat \ {0}
  BY EmptySeq
<1>2. Front(s) = SubSeq(s, 1, Len(s) - 1) /\ Last(s) = s[Len(s)]
  BY DEF Front, Last
<1>3. /\ Front(s) \in Seq(Resources) /\ Len(Front(s)) = Len(s) - 1
      /\ \A n \in 1 .. Len(s) - 1 : Front(s)[n] = s[n]
  <2> DEFINE k == Len(s) - 1
  <2>1. k \in Nat /\ \A i \in 1 .. k : s[i] \in Resources
    BY <1>1
  <2> HIDE DEF k
  <2>2. /\ SubSeq(s, 1, k) \in Seq(Resources)
        /\ Len(SubSeq(s, 1, k)) = IF 1 <= k THEN k - 1 + 1 ELSE 0
        /\ \A i \in 1 .. k - 1 + 1 : SubSeq(s, 1, k)[i] = s[1 + i - 1]
    BY <2>1, SubSeqProperties
  <2>3. Len(SubSeq(s, 1, k)) = k /\ \A i \in 1 .. k : SubSeq(s, 1, k)[i] = s[i]
    BY <2>1, <2>2
  <2> QED
    BY <1>2, <2>2, <2>3 DEF k
<1>4. \A n \in 1 .. Len(s) : n \in 1 .. Len(s) - 1 \/ n = Len(s)
  BY <1>1
<1>5. Len(s) \in 1 .. Len(s) /\ 1 .. Len(s) - 1 \subseteq 1 .. Len(s)
  BY <1>1
<1>6. Whats(Last(s)) \subseteq Resources \cup RoleParts
  BY <1>1, <1>2, <1>5 DEF Whats
<1> QED
  BY <1>2, <1>3, <1>4, <1>5, <1>6 DEF Of

\* Each step of the harness keeps the account.
LEMMA StepHInv == HInv /\ (HarnessNext \/ Stop) => HInv'
<1> SUFFICES ASSUME HInv, HarnessNext \/ Stop PROVE HInv'
  OBVIOUS
<1> USE DEF HInv, HarnessTypes, Closing
<1>0. Len(Steps) \in Nat
  BY StepsDistinct
<1>1. opts' = opts /\ Steps' = Steps
  BY DEF HarnessNext, BringUp, Started, StartFailed, Undo, Undone, Record, Stop, Steps
<1>2. Of(<<>>) = {}
  BY DEF Of
<1>3. CASE BringUp
  <2> DEFINE s == Steps[done + 1]
  <2>1. /\ stage = "starting" /\ stage' = stage /\ taking' = taking /\ failures' = failures
        /\ done' = done + 1 /\ done' \in 1 .. Len(Steps)
        /\ down' = IF s \in Resources THEN Append(down, s) ELSE down
        /\ up' = up \cup (IF s = "identity" THEN RoleParts ELSE {s} \cap Resources)
    BY <1>0, <1>3 DEF BringUp
  <2> HIDE DEF s
  <2>2. HarnessTypes' /\ Stacks'
    BY <1>1, <2>1, AppendProperties DEF Stacks
  <2>3. Pushed'
    <3>1. CASE s \notin Resources
      BY <1>0, <1>1, <2>1, <3>1 DEF Pushed
    <3>2. CASE s \in Resources
      <4>1. /\ Len(Append(down, s)) = Len(down) + 1 /\ Append(down, s)[Len(down) + 1] = s
            /\ \A n \in 1 .. Len(down) : Append(down, s)[n] = down[n]
            /\ Len(down) \in Nat
        BY <3>2, AppendProperties
      <4>2. \A n \in 1 .. Len(down) : \E m \in 1 .. done' : Steps[m] = down[n]
        BY <2>1 DEF Pushed
      <4>3. Steps[done'] = s /\ done' \in 1 .. done'
        BY <2>1 DEF s
      <4>4. \A n \in 1 .. Len(down) + 1 : n \in 1 .. Len(down) \/ n = Len(down) + 1
        BY <4>1
      <4> QED
        BY <1>1, <2>1, <3>2, <4>1, <4>2, <4>3, <4>4 DEF Pushed
    <3> QED
      BY <3>1, <3>2
  <2>4. Accounted'
    <3>1. CASE s \notin Resources
      <4>1. s # "identity"
        BY <3>1 DEF Resources
      <4> QED
        BY <2>1, <3>1, <4>1 DEF Accounted
    <3>2. CASE s \in Resources
      BY <2>1, <3>2, OfAppend DEF Accounted, Whats
    <3> QED
      BY <3>1, <3>2
  <2> QED
    BY <2>2, <2>3, <2>4
<1>4. CASE Started \/ Record
  BY <1>1, <1>4 DEF Started, Record, Stacks, Pushed, Accounted, Unreported
<1>5. CASE StartFailed \/ Stop
  <2>1. /\ stage \in {"starting", "up"} /\ stage' \in {"failing", "stopping"} /\ taking' = down
        /\ down' = <<>> /\ done' = done /\ failures' = failures /\ taking = <<>>
        /\ \/ up' = up
           \/ up' \subseteq up \cup halfMade(Steps[done + 1]) /\ done < Len(Steps)
    BY <1>5 DEF StartFailed, Stop, Stacks
  <2>2. Accounted'
    BY <1>1, <1>2, <2>1 DEF Accounted, Unreported
  <2> QED
    BY <1>1, <2>1, <2>2, EmptySeq DEF Stacks, Pushed
<1>6. CASE Undo
  <2> DEFINE whats == Whats(Last(taking))
  <2>1. /\ stage \in {"failing", "stopping"} /\ taking # <<>> /\ taking' = Front(taking)
        /\ done' = done /\ stage' = stage /\ down' = down /\ down = <<>>
        /\ \E left \in SUBSET whats : up' = (up \ whats) \cup left /\ failures' = failures \cup left
    BY <1>6 DEF Undo, undone, Whats, Stacks
  <2>2. Front(taking) \in Seq(Resources) /\ Of(taking) = Of(Front(taking)) \cup whats
    BY <2>1, OfFront
  <2> HIDE DEF whats
  <2>3. Accounted'
    BY <1>1, <2>1, <2>2 DEF Accounted, Unreported
  <2> QED
    BY <1>1, <2>1, <2>2, <2>3 DEF Stacks, Pushed
<1>7. CASE Undone
  BY <1>1, <1>2, <1>7 DEF Undone, Stacks, Pushed, Accounted, Unreported
<1> QED
  BY <1>3, <1>4, <1>5, <1>6, <1>7 DEF HarnessNext

\* At the end no step is left to account for what is up.
LEMMA DownIsEmpty == HInv => NothingLeftUp
<1> SUFFICES ASSUME HInv, stage = "down"
             PROVE  up \subseteq failures \cup Unreported
  BY DEF NothingLeftUp, Unreported
<1>1. down = <<>> /\ taking = <<>>
  BY DEF HInv, Stacks, Closing
<1>2. Of(<<>>) = {}
  BY DEF Of
<1> QED
  BY <1>1, <1>2 DEF HInv, Accounted

-----------------------------------------------------------------------------
\* Each step of the harness acquires, closes, releases the last, or is none of
\* these.
LEMMA StepBracket ==
    HInv /\ (HarnessNext \/ Stop) => [Bracketed!Next]_<<down \o taking, stage \in Closing>>
<1> SUFFICES ASSUME HInv, HarnessNext \/ Stop
             PROVE  Bracketed!Next \/ UNCHANGED <<down \o taking, stage \in Closing>>
  OBVIOUS
<1> USE DEF HInv, HarnessTypes, Closing
<1>1. /\ down \o <<>> = down /\ <<>> \o taking = taking /\ <<>> \o down = down
  BY ConcatEmptySeq
<1>2. CASE BringUp
  <2> DEFINE s == Steps[done + 1]
  <2>1. /\ stage = "starting" /\ stage' = stage /\ taking = <<>> /\ taking' = <<>>
        /\ down' = IF s \in Resources THEN Append(down, s) ELSE down
        /\ done + 1 \in 1 .. Len(Steps)
    BY <1>2, StepsDistinct DEF BringUp, Stacks
  <2>2. CASE s \notin Resources
    BY <2>1, <2>2
  <2>3. CASE s \in Resources
    <3>1. \A n \in DOMAIN down : down[n] # s
      <4> SUFFICES ASSUME NEW n \in 1 .. Len(down), down[n] = s PROVE FALSE
        OBVIOUS
      <4>1. PICK m \in 1 .. done : Steps[m] = s
        BY DEF Pushed
      <4>2. m \in 1 .. Len(Steps) /\ m # done + 1
        BY <2>1, StepsDistinct
      <4> QED
        BY <2>1, <4>1, <4>2, StepsDistinct
    <3>2. Append(down, s) \o <<>> = Append(down, s)
      BY <2>3, AppendProperties, ConcatEmptySeq
    <3> HIDE DEF s
    <3>3. Bracketed!Acquire(s)
      BY <1>1, <2>1, <2>3, <3>1, <3>2 DEF Bracketed!Acquire
    <3> QED
      BY <2>3, <3>3 DEF Bracketed!Next
  <2> QED
    BY <2>2, <2>3
<1>3. CASE Started \/ Undone \/ Record
  <2>1. down' = down /\ taking' = taking
    BY <1>3 DEF Started, Undone, Record
  <2>2. (stage \in Closing /\ stage' \in Closing) \/ (stage \notin Closing /\ stage' \notin Closing)
    BY <1>3 DEF Started, Undone, Record
  <2> HIDE DEF Closing
  <2>3. (stage \in Closing) = (stage' \in Closing)
    BY <2>2
  <2> QED
    BY <2>1, <2>3 DEF Closing
<1>4. CASE StartFailed \/ Stop
  <2>1. /\ stage \in {"starting", "up"} /\ stage' \in {"failing", "stopping"}
        /\ taking = <<>> /\ taking' = down /\ down' = <<>>
    BY <1>4 DEF StartFailed, Stop, Stacks
  <2>2. Bracketed!Close
    BY <1>1, <2>1 DEF Bracketed!Close
  <2> QED
    BY <2>2 DEF Bracketed!Next
<1>5. CASE Undo
  <2>1. /\ stage \in {"failing", "stopping"} /\ stage' = stage /\ down = <<>> /\ down' = down
        /\ taking # <<>> /\ taking' = Front(taking)
    BY <1>5 DEF Undo, undone, Stacks
  <2>2. /\ Front(taking) = SubSeq(taking, 1, Len(taking) - 1)
        /\ <<>> \o Front(taking) = Front(taking)
    BY <2>1, OfFront, ConcatEmptySeq
  <2>3. Bracketed!Release
    BY <1>1, <2>1, <2>2 DEF Bracketed!Release
  <2> QED
    BY <2>3 DEF Bracketed!Next
<1> QED
  BY <1>2, <1>3, <1>4, <1>5 DEF HarnessNext

\* The Runner acts on the harness by Stop alone.
LEMMA RunnerOnHarness == [Next]_vars => HarnessNext \/ Stop \/ UNCHANGED harnessVars
<1> SUFFICES ASSUME [Next]_vars PROVE HarnessNext \/ Stop \/ UNCHANGED harnessVars
  OBVIOUS
<1>1. CASE RunnerMoves
  BY <1>1 DEF RunnerMoves, StartRun, BeginOp, Restore, RestoreDone, CreateCR, ChangeCR,
     CRStays, OtherOp, FixtureOp, WaitEnds, Judge, Check, BeginTeardown, Quiet, DeleteCRs,
     AwaitClean, Verdict, Empty, ForceFinalizers, StopHarness
<1>2. CASE HarnessMoves \/ OpFails \/ Ended \/ Interrupt \/ TargetStops
  BY <1>2 DEF HarnessMoves, OpFails, Ended, Interrupt, TargetStops, Acting
<1>3. ASSUME NEW f, Meddle(f) PROVE UNCHANGED harnessVars
  BY <1>3 DEF Meddle, Acting
<1>4. ASSUME NEW cr, CRGoes(cr) PROVE UNCHANGED harnessVars
  BY <1>4 DEF CRGoes, Acting
<1>5. CASE UNCHANGED vars
  BY <1>5 DEF vars
<1> QED
  BY <1>1, <1>2, <1>3, <1>4, <1>5 DEF Next

\* The harness keeps its account in every run.
LEMMA HarnessInductive == Spec => []HInv
<1>1. Init => HInv
  BY InitHInv DEF Init
<1>2. HInv /\ UNCHANGED harnessVars => HInv'
  <2> SUFFICES ASSUME HInv, UNCHANGED harnessVars PROVE HInv'
    OBVIOUS
  <2>1. Steps' = Steps
    BY DEF harnessVars, Steps
  <2>2. /\ stage' = stage /\ done' = done /\ down' = down /\ taking' = taking
        /\ up' = up /\ failures' = failures
    BY DEF harnessVars
  <2> QED
    BY <2>1, <2>2 DEF HInv, HarnessTypes, Stacks, Pushed, Accounted, Unreported
<1>3. HInv /\ [Next]_vars => HInv'
  BY <1>2, StepHInv, RunnerOnHarness
<1> QED
  BY <1>1, <1>3, PTL DEF Spec

\* A run's resources are acquired one on top of the other and released once
\* each, the last first, and none once the first is released: start and its
\* teardown implement Bracket for all options and failures (run.go, teardown.go).
THEOREM RunIsBracketed == Spec => BracketSpec
<1>1. Init => Bracketed!Init
  <2>1. <<>> \o <<>> = <<>>
    BY ConcatEmptySeq
  <2> QED
    BY <2>1 DEF Init, HarnessInit, Bracketed!Init
<1>2. HInv /\ [Next]_vars =>
        [Bracketed!Next]_<<down \o taking, stage \in {"failing", "stopping", "recording", "down"}>>
  <2> SUFFICES ASSUME HInv, [Next]_vars
               PROVE  \/ Bracketed!Next
                      \/ UNCHANGED <<down \o taking, stage \in {"failing", "stopping", "recording", "down"}>>
    OBVIOUS
  <2>1. CASE UNCHANGED harnessVars
    BY <2>1 DEF harnessVars
  <2>2. CASE HarnessNext \/ Stop
    BY <2>2, StepBracket DEF Closing
  <2> QED
    BY <2>1, <2>2, RunnerOnHarness
<1> QED
  BY <1>1, <1>2, HarnessInductive, PTL DEF Spec, BracketSpec, Bracketed!Spec

-----------------------------------------------------------------------------
(* The Runner. *)

\* The fields of its record and of the world's, and where an op is under way.
RunnerFields ==
    {"at", "pos", "applied", "crs", "deleted", "restoring", "faults", "injected", "wait",
     "judged", "violation", "stopped", "failed", "errors", "cut"}
WorldFields == {"crs", "fixtures", "running", "ended", "restores", "refused", "mishaps"}
InOps == {"restore", "apply", "gone", "wait", "judge", "check"}
Marks == [restored : BOOLEAN, deleted : BOOLEAN]

\* What every record of the Runner keeps.
Core(x) ==
    /\ DOMAIN x = RunnerFields /\ x.pos \in 1 .. Len(plan)
    /\ x.applied \in Seq(Marks) /\ x.judged \in Seq(Int)

\* Every op of N that settles was judged.
SettledIn(x, N) == \A n \in N : Settles(plan[n]) => n \in Range(x.judged)
Unfailed(x) == x.errors = {} /\ ~x.failed
Undecided(x) == Unfailed(x) /\ x.violation = "none" /\ ~x.stopped

\* Before an op the ones before it are done, in one it is the last applied, and
\* the run has neither failed nor its verdict.
BetweenOps(x) ==
    x.at \in {"start", "begin"} =>
        Undecided(x) /\ Len(x.applied) = x.pos - 1 /\ SettledIn(x, 1 .. x.pos - 1)
InAnOp(x) ==
    x.at \in InOps =>
        Undecided(x) /\ Len(x.applied) = x.pos /\ SettledIn(x, 1 .. x.pos - 1)
\* After the ops a run without an error or a violation has applied and judged
\* them all, or was stopped by one.
PastTheOps(x) ==
    x.at \notin {"start", "begin"} \cup InOps /\ x.errors = {} /\ x.violation = "none" =>
        /\ ~x.failed
        /\ x.stopped \/ Len(x.applied) = Len(plan)
        /\ SettledIn(x, 1 .. Len(x.applied))
\* After the verdict such a run was judged at its teardown.
TornDown(x) ==
    x.at \in {"empty", "force", "stop", "result"} /\ x.errors = {} /\ x.violation = "none" =>
        Teardown \in Range(x.judged)

Tracked(x) == Core(x) /\ BetweenOps(x) /\ InAnOp(x) /\ PastTheOps(x) /\ TornDown(x)

\* A failure is in the run's errors.
LEMMA TrackFailed ==
    ASSUME NEW x, Core(x)
    PROVE  /\ Tracked(Failed(x)) /\ Failed(x).at = "teardown" /\ Failed(x).applied = x.applied
           /\ Tracked(RecoveryFailed(x)) /\ RecoveryFailed(x).at = "quiet"
           /\ RecoveryFailed(x).applied = x.applied
BY DEF Tracked, Core, BetweenOps, InAnOp, PastTheOps, TornDown, InOps, Failed,
       RecoveryFailed, RunnerFields

\* An op that is done and judged leaves the run between ops, or past them.
LEMMA TrackNextOp ==
    ASSUME NEW x, Core(x), Unfailed(x), Len(x.applied) = x.pos, SettledIn(x, 1 .. x.pos),
           Len(plan) \in Nat
    PROVE  /\ Tracked(NextOp(x)) /\ NextOp(x).at \in {"begin", "teardown"}
           /\ NextOp(x).applied = x.applied
<1>1. CASE x.pos < Len(plan) /\ x.violation = "none" /\ ~x.stopped
  <2> DEFINE y == [x EXCEPT !.at = "begin", !.pos = x.pos + 1]
  <2>1. NextOp(x) = y
    BY <1>1 DEF NextOp
  <2>2. /\ y.at = "begin" /\ y.pos = x.pos + 1 /\ DOMAIN y = RunnerFields
        /\ y.applied = x.applied /\ y.judged = x.judged /\ y.violation = x.violation
        /\ y.stopped = x.stopped /\ y.failed = x.failed /\ y.errors = x.errors
    BY DEF Core, RunnerFields
  <2> HIDE DEF y
  <2>3. y.pos \in 1 .. Len(plan) /\ y.pos - 1 = x.pos
    BY <1>1, <2>2 DEF Core
  <2> QED
    BY <1>1, <2>1, <2>2, <2>3 DEF Tracked, Core, BetweenOps, InAnOp, PastTheOps, TornDown,
       InOps, SettledIn, Unfailed, Undecided
<1>2. CASE ~(x.pos < Len(plan) /\ x.violation = "none" /\ ~x.stopped)
  <2> DEFINE y == [x EXCEPT !.at = "teardown"]
  <2>1. NextOp(x) = y
    BY <1>2 DEF NextOp
  <2>2. /\ y.at = "teardown" /\ y.pos = x.pos /\ DOMAIN y = RunnerFields
        /\ y.applied = x.applied /\ y.judged = x.judged /\ y.violation = x.violation
        /\ y.stopped = x.stopped /\ y.failed = x.failed /\ y.errors = x.errors
    BY DEF Core, RunnerFields
  <2> HIDE DEF y
  <2> QED
    BY <1>2, <2>1, <2>2 DEF Tracked, Core, BetweenOps, InAnOp, PastTheOps, TornDown, InOps,
       SettledIn, Unfailed, Undecided
<1> QED
  BY <1>1, <1>2

\* An op that took is waited for if it settles, and done if it does not.
LEMMA TrackAfter ==
    ASSUME NEW x, Core(x), Undecided(x), Len(x.applied) = x.pos, x.pos = r.pos,
           SettledIn(x, 1 .. x.pos - 1), Len(plan) \in Nat
    PROVE  /\ Tracked(After(x)) /\ After(x).at \in {"wait", "begin", "teardown"}
           /\ After(x).applied = x.applied
<1>1. CASE Settles(Op)
  <2> DEFINE y == [x EXCEPT !.at = "wait"]
  <2>1. After(x) = y
    BY <1>1 DEF After
  <2>2. /\ y.at = "wait" /\ y.pos = x.pos /\ DOMAIN y = RunnerFields
        /\ y.applied = x.applied /\ y.judged = x.judged /\ y.violation = x.violation
        /\ y.stopped = x.stopped /\ y.failed = x.failed /\ y.errors = x.errors
    BY DEF Core, RunnerFields
  <2> HIDE DEF y
  <2> QED
    BY <1>1, <2>1, <2>2 DEF Tracked, Core, BetweenOps, InAnOp, PastTheOps, TornDown, InOps,
       SettledIn, Unfailed, Undecided
<1>2. CASE ~Settles(Op)
  <2>1. SettledIn(x, 1 .. x.pos)
    BY <1>2 DEF SettledIn, Op, Core
  <2> QED
    BY <1>2, <2>1, TrackNextOp DEF After, Undecided
<1> QED
  BY <1>1, <1>2

\* Before the ops, and after what the teardown judges.
Over == {"start", "force", "stop", "result"}

\* The marks of restored fixtures are those of the ops applied.
Restorations ==
    /\ env.restores \subseteq 1 .. Len(r.applied)
    /\ \A n \in 1 .. Len(r.applied) : r.applied[n].restored <=> n \in env.restores

\* There is no CR before the ops.  What the run leaves is under deletion before its
\* finalizers are forced off, and gone after, unless an error says otherwise.
Emptying ==
    /\ \/ r.at = "start"
       \/ r.at \in {"stop", "result"} /\ r.errors \cap {"empty", "force"} = {}
       => \A cr \in DOMAIN env.crs : env.crs[cr] = "absent"
    /\ r.at = "force" /\ "empty" \notin r.errors =>
          \A cr \in DOMAIN env.crs : env.crs[cr] \in {"absent", "deleting"}

RInv ==
    /\ Len(plan) \in Nat \ {0} /\ DOMAIN env = WorldFields
    /\ Tracked(r) /\ Restorations /\ Emptying

\* What a step of the Runner, or around it, leaves of the world.
SameWorld == DOMAIN env' = WorldFields /\ env'.restores = env.restores

\* A run starts with a sequence Validate has passed, so with an op.
LEMMA InitRInv == Init => RInv
<1> SUFFICES ASSUME Init PROVE RInv
  OBVIOUS
<1>1. PICK run \in Runs : plan = run.plan
  BY DEF Init, RunnerInit
<1>2. Len(plan) \in Nat \ {0}
  BY <1>1, RunnerConstants, EmptySeq DEF Valid
<1>3. /\ DOMAIN r = RunnerFields /\ r.at = "start" /\ r.pos = 1 /\ r.applied = <<>>
      /\ r.judged = <<>>
      /\ r.violation = "none" /\ r.stopped = FALSE /\ r.failed = FALSE /\ r.errors = {}
  BY DEF Init, RunnerInit, RunnerFields
<1>4. /\ DOMAIN env = WorldFields /\ env.restores = {}
      /\ \A cr \in DOMAIN env.crs : env.crs[cr] = "absent"
  BY DEF Init, RunnerInit, WorldFields
<1>5. Tracked(r)
  BY <1>2, <1>3 DEF Tracked, Core, BetweenOps, InAnOp, PastTheOps, TornDown, InOps,
     Undecided, Unfailed, SettledIn
<1> QED
  BY <1>2, <1>3, <1>4, <1>5 DEF RInv, Restorations, Emptying, Over

\* A call that fails leaves the namespace as it was.
LEMMA CallsFail ==
    ASSUME NEW e, DOMAIN e = WorldFields, e.restores = env.restores, CallFails(e)
    PROVE  SameWorld /\ env'.crs = e.crs
BY DEF CallFails, SameWorld, WorldFields

\* A step during the run that leaves the marks and the namespace alone.
LEMMA MidStep ==
    ASSUME RInv, plan' = plan, SameWorld, r'.at \notin Over,
           r'.applied = r.applied, Tracked(r')
    PROVE  RInv'
BY DEF RInv, SameWorld, Restorations, Emptying, Over, Tracked, Core, BetweenOps, InAnOp,
       PastTheOps, TornDown, SettledIn, Unfailed, Undecided

\* Setting a mark leaves the other.
LEMMA Marked ==
    ASSUME NEW m \in Marks, NEW b \in BOOLEAN
    PROVE  /\ m.restored \in BOOLEAN
           /\ [m EXCEPT !.restored = b] \in Marks /\ [m EXCEPT !.restored = b].restored = b
           /\ [m EXCEPT !.deleted = b] \in Marks
           /\ [m EXCEPT !.deleted = b].restored = m.restored
BY DEF Marks

\* A checkpoint adds one place to those judged.
LEMMA RangeAppend ==
    ASSUME NEW s \in Seq(Int), NEW x \in Int
    PROVE  Append(s, x) \in Seq(Int) /\ Range(Append(s, x)) = Range(s) \cup {x}
<1>1. /\ Append(s, x) \in Seq(Int) /\ Len(Append(s, x)) = Len(s) + 1
      /\ Append(s, x)[Len(s) + 1] = x
      /\ Len(s) \in Nat /\ \A n \in 1 .. Len(s) : Append(s, x)[n] = s[n]
      /\ DOMAIN s = 1 .. Len(s) /\ DOMAIN Append(s, x) = 1 .. Len(s) + 1
  BY AppendProperties
<1>2. \A n \in 1 .. Len(s) + 1 : n \in 1 .. Len(s) \/ n = Len(s) + 1
  BY <1>1
<1>3. Len(s) + 1 \in 1 .. Len(s) + 1 /\ 1 .. Len(s) \subseteq 1 .. Len(s) + 1
  BY <1>1
<1> QED
  BY <1>1, <1>2, <1>3 DEF Range

\* Every step, of the Runner, the harness or the world, keeps the invariant.
LEMMA StepRInv == RInv /\ [Next]_vars => RInv'
<1> SUFFICES ASSUME RInv, [Next]_vars PROVE RInv'
  OBVIOUS
<1>0. /\ DOMAIN env = WorldFields /\ Len(plan) \in Nat /\ Tracked(r) /\ Core(r)
      /\ DOMAIN r = RunnerFields /\ r.pos \in 1 .. Len(plan) /\ r.applied \in Seq(Marks)
      /\ r.judged \in Seq(Int)
  BY DEF RInv, Tracked, Core
<1>1. r.at \in InOps => Undecided(r) /\ Len(r.applied) = r.pos /\ SettledIn(r, 1 .. r.pos - 1)
  BY <1>0 DEF Tracked, InAnOp
<1>2. env' = env => SameWorld
  BY <1>0 DEF SameWorld
<1>3. CallFails(env) => SameWorld /\ env'.crs = env.crs
  BY <1>0, CallsFail
<1> DEFINE Kept(x) ==
         /\ x.pos = r.pos /\ x.applied = r.applied /\ x.judged = r.judged /\ x.errors = r.errors
         /\ x.violation = r.violation /\ x.failed = r.failed /\ x.stopped = r.stopped
         /\ DOMAIN x = RunnerFields
<1>4. ASSUME NEW x, Kept(x), x.at \in InOps, r.at \in InOps PROVE Tracked(x)
  BY <1>0, <1>1, <1>4 DEF Tracked, Core, BetweenOps, InAnOp, PastTheOps, TornDown, InOps,
     SettledIn, Unfailed, Undecided
<1>5. ASSUME NEW x, Kept(x), r.at \in InOps
      PROVE  Tracked(After(x)) /\ After(x).at \notin Over /\ After(x).applied = r.applied
  <2>1. Core(x) /\ Undecided(x) /\ Len(x.applied) = x.pos /\ SettledIn(x, 1 .. x.pos - 1)
    BY <1>0, <1>1, <1>5 DEF Core, Undecided, Unfailed, SettledIn
  <2> QED
    BY <1>0, <1>5, <2>1, TrackAfter DEF Over
<1>6. Tracked(Failed(r)) /\ Failed(r).at \notin Over /\ Failed(r).applied = r.applied
  BY <1>0, TrackFailed DEF Over
<1>7. /\ Tracked(RecoveryFailed(r)) /\ RecoveryFailed(r).at \notin Over
      /\ RecoveryFailed(r).applied = r.applied
  BY <1>0, TrackFailed DEF Over
<1>8. \A f \in RunnerFields : f \in DOMAIN r
  BY <1>0
<1>10. CASE StartRun
  <2>1. CASE r' = [r EXCEPT !.at = "begin"] /\ env' = env
    <3>1. Kept(r') /\ r'.at = "begin" /\ r.at = "start" /\ plan' = plan
      BY <1>0, <1>10, <2>1 DEF StartRun, RunnerFields
    <3>2. Tracked(r')
      BY <1>0, <3>1 DEF Tracked, Core, BetweenOps, InAnOp, PastTheOps, TornDown, InOps,
         SettledIn, Unfailed, Undecided
    <3> QED
      BY <1>2, <2>1, <3>1, <3>2, MidStep DEF Over
  <2>2. CASE r' = [r EXCEPT !.at = "stop", !.errors = {"start"}] /\ CallFails(env)
    <3>1. /\ r'.at = "stop" /\ r.at = "start" /\ plan' = plan /\ r'.errors = {"start"}
          /\ r'.applied = r.applied /\ r'.pos = r.pos /\ DOMAIN r' = RunnerFields
          /\ r'.judged = r.judged
      BY <1>0, <1>10, <2>2 DEF StartRun, RunnerFields
    <3>2. Tracked(r)'
      BY <1>0, <3>1 DEF Tracked, Core, BetweenOps, InAnOp, PastTheOps, TornDown, InOps
    <3> QED
      BY <1>3, <2>2, <3>1, <3>2 DEF RInv, SameWorld, Emptying, Over, Restorations
  <2> QED
    BY <1>10, <2>1, <2>2 DEF StartRun
<1>11. CASE BeginOp
  <2> DEFINE expired == [r EXCEPT !.faults = {f \in @ : f = 0 \/ f > r.pos}]
             mark == [restored |-> FALSE, deleted |-> FALSE]
             y == [expired EXCEPT !.at = "restore", !.restoring = r.deleted,
                                     !.applied = Append(@, mark)]
  <2>1. r.at = "begin" /\ plan' = plan /\ env' = env /\ r' \in {Failed(expired), y}
    BY <1>11 DEF BeginOp
  <2>2. Kept(expired)
    BY <1>0 DEF RunnerFields
  <2> HIDE DEF expired
  <2>3. CASE r' = Failed(expired)
    <3>1. Tracked(r') /\ r'.at = "teardown" /\ r'.applied = r.applied
      BY <1>0, <2>2, <2>3, TrackFailed DEF Core
    <3> QED
      BY <1>2, <2>1, <3>1, MidStep DEF Over
  <2>4. CASE r' = y
    <3>1. /\ r'.at = "restore" /\ r'.applied = Append(r.applied, mark) /\ r'.pos = r.pos
          /\ r'.judged = r.judged
          /\ r'.errors = r.errors /\ r'.violation = r.violation /\ r'.failed = r.failed
          /\ r'.stopped = r.stopped /\ DOMAIN r' = RunnerFields
      BY <2>2, <2>4 DEF RunnerFields
    <3>2. Undecided(r) /\ Len(r.applied) = r.pos - 1 /\ SettledIn(r, 1 .. r.pos - 1)
      BY <1>0, <2>1 DEF Tracked, BetweenOps
    <3>3. /\ Append(r.applied, mark) \in Seq(Marks) /\ Len(Append(r.applied, mark)) = r.pos
          /\ Append(r.applied, mark)[r.pos] = mark
          /\ \A n \in 1 .. Len(r.applied) : Append(r.applied, mark)[n] = r.applied[n]
      BY <1>0, <3>2, AppendProperties DEF Marks
    <3> HIDE DEF mark
    <3>4. Tracked(r)'
      BY <1>0, <2>1, <3>1, <3>2, <3>3 DEF Tracked, Core, BetweenOps, InAnOp, PastTheOps,
         TornDown, InOps, SettledIn, Unfailed, Undecided
    <3>5. Restorations'
      <4>1. env.restores \subseteq 1 .. r.pos - 1 /\ r.pos \notin env.restores
        BY <1>0, <3>2 DEF RInv, Restorations
      <4>2. \A n \in 1 .. r.pos - 1 : r.applied[n].restored <=> (n \in env.restores)
        BY <1>0, <3>2 DEF RInv, Restorations
      <4>3. \A n \in 1 .. r.pos : n \in 1 .. r.pos - 1 \/ n = r.pos
        BY <1>0
      <4>4. mark.restored = FALSE
        BY DEF mark
      <4>5. \A n \in 1 .. r.pos : r'.applied[n].restored <=> (n \in env.restores)
        BY <3>1, <3>2, <3>3, <4>1, <4>2, <4>3, <4>4
      <4>6. env.restores \subseteq 1 .. r.pos
        BY <1>0, <4>1
      <4>7. DOMAIN r'.applied = 1 .. r.pos
        BY <3>1, <3>3
      <4> QED
        BY <2>1, <3>1, <3>3, <4>5, <4>6, <4>7 DEF Restorations
    <3>6. Emptying'
      BY <2>1, <3>1 DEF RInv, Emptying, Over
    <3> QED
      BY <2>1, <3>4, <3>5, <3>6 DEF RInv
  <2> QED
    BY <2>1, <2>3, <2>4
<1>12. CASE Restore
  <2>0. PICK d \in r.restoring :
            \/ ~due(d) /\ r' = [r EXCEPT !.restoring = @ \ {d}] /\ env' = env
            \/ /\ createFixture(plan[d].key)
               /\ r' = [[r EXCEPT !.restoring = @ \ {d}] EXCEPT !.applied[r.pos].restored = TRUE]
            \/ r' = Failed(r) /\ (env' = env \/ \E back : CallFails([env EXCEPT !.fixtures = @ \cup back]))
    BY <1>12 DEF Restore, restoreFailed
  <2> DEFINE rest == [r EXCEPT !.restoring = @ \ {d}]
             y == [rest EXCEPT !.applied[r.pos].restored = TRUE]
  <2>1. r.at = "restore" /\ plan' = plan
    BY <1>12 DEF Restore
  <2>2. Kept(rest) /\ rest.at = r.at
    BY <1>0 DEF RunnerFields
  <2> HIDE DEF rest
  <2>3. CASE r' = rest /\ env' = env
    BY <1>2, <1>4, <2>1, <2>2, <2>3, MidStep DEF InOps, Over
  <2>4. CASE r' = Failed(r) /\ (env' = env \/ \E back : CallFails([env EXCEPT !.fixtures = @ \cup back]))
    <3>1. ASSUME NEW back, CallFails([env EXCEPT !.fixtures = @ \cup back]) PROVE SameWorld
      <4> DEFINE e == [env EXCEPT !.fixtures = @ \cup back]
      <4>1. DOMAIN e = WorldFields /\ e.restores = env.restores
        BY <1>0 DEF WorldFields
      <4> HIDE DEF e
      <4>2. CallFails(e)
        BY <3>1 DEF e
      <4> QED
        BY <4>1, <4>2, CallsFail
    <3>2. SameWorld
      BY <1>2, <2>4, <3>1
    <3> QED
      BY <1>6, <2>1, <2>4, <3>2, MidStep DEF Over
  <2>5. CASE createFixture(plan[d].key) /\ r' = y
    <3>1. /\ r'.at = "restore" /\ r'.applied = [r.applied EXCEPT ![r.pos].restored = TRUE]
          /\ r'.pos = r.pos /\ r'.judged = r.judged
          /\ r'.errors = r.errors /\ r'.violation = r.violation /\ r'.failed = r.failed
          /\ r'.stopped = r.stopped /\ DOMAIN r' = RunnerFields
      BY <2>1, <2>2, <2>5 DEF RunnerFields
    <3>2. DOMAIN env' = WorldFields /\ env'.restores = env.restores \cup {r.pos}
      BY <1>0, <2>5 DEF createFixture, WorldFields
    <3>3. Len(r.applied) = r.pos /\ r.pos \in 1 .. Len(r.applied)
      BY <1>0, <1>1, <2>1 DEF InOps
    <3>4. /\ r'.applied \in Seq(Marks) /\ Len(r'.applied) = r.pos
          /\ r'.applied[r.pos].restored = TRUE
          /\ \A n \in 1 .. r.pos : n # r.pos => r'.applied[n] = r.applied[n]
      <4> DEFINE e == [r.applied[r.pos] EXCEPT !.restored = TRUE]
      <4>1. r'.applied = [r.applied EXCEPT ![r.pos] = e]
        BY <3>1
      <4>2. r.applied[r.pos] \in Marks
        BY <1>0, <3>3
      <4>3. e \in Marks /\ e.restored = TRUE
        BY <4>2, Marked
      <4> HIDE DEF e
      <4> QED
        BY <1>0, <3>3, <4>1, <4>3, ExceptSeq
    <3>5. Tracked(r)'
      BY <1>0, <1>1, <2>1, <3>1, <3>4 DEF Tracked, Core, BetweenOps, InAnOp, PastTheOps,
         TornDown, InOps, SettledIn, Unfailed, Undecided
    <3>6. Restorations'
      <4>1. /\ env.restores \subseteq 1 .. r.pos
            /\ \A n \in 1 .. r.pos : r.applied[n].restored <=> (n \in env.restores)
        BY <1>0, <3>3 DEF RInv, Restorations
      <4>2. \A n \in 1 .. r.pos : r'.applied[n].restored <=> (n \in env'.restores)
        BY <3>2, <3>4, <4>1
      <4>3. DOMAIN r'.applied = 1 .. r.pos
        BY <3>4
      <4> QED
        BY <3>2, <3>3, <3>4, <4>1, <4>2, <4>3 DEF Restorations
    <3>7. Emptying'
      BY <2>1, <3>1, <3>2 DEF RInv, Emptying, Over
    <3> QED
      BY <2>1, <3>2, <3>5, <3>6, <3>7 DEF RInv
  <2> QED
    BY <2>0, <2>3, <2>4, <2>5 DEF rest
<1>13. CASE RestoreDone
  <2>1. r.at = "restore" /\ r'.at = "apply" /\ Kept(r') /\ env' = env /\ plan' = plan
    <3> DEFINE left == {d \in r.deleted : ~due(d)}
    <3>1. /\ r' = [r EXCEPT !.at = "apply", !.deleted = left] /\ r.at = "restore" /\ env' = env
          /\ plan' = plan
      BY <1>13 DEF RestoreDone
    <3> HIDE DEF left
    <3> QED
      BY <1>0, <3>1 DEF RunnerFields
  <2> QED
    BY <1>2, <1>4, <2>1, MidStep DEF InOps, Over
<1>14. CASE CreateCR
  <2> DEFINE x == [r EXCEPT !.crs = @ \cup {Op.key}]
  <2>1. r.at \in InOps /\ plan' = plan
    BY <1>14 DEF CreateCR, InOps
  <2>2. Kept(x)
    BY <1>0 DEF RunnerFields
  <2> HIDE DEF x
  <2>3. CASE env' = [env EXCEPT !.crs[Op.key] = "live"] /\ r' = After(x)
    <3>1. SameWorld
      BY <1>0, <2>3 DEF SameWorld, WorldFields
    <3> QED
      BY <1>5, <2>1, <2>2, <2>3, <3>1, MidStep DEF InOps, Over
  <2>4. CASE env' = env /\ r' = Failed(r)
    BY <1>2, <1>6, <2>1, <2>4, MidStep DEF InOps, Over
  <2> QED
    BY <1>14, <2>3, <2>4 DEF CreateCR, x
<1>15. CASE ChangeCR
  <2>1. r.at \in InOps /\ plan' = plan /\ r.at \notin Over
    BY <1>15 DEF ChangeCR, InOps, Over
  <2>2. SameWorld
    BY <1>0, <1>15 DEF ChangeCR, SameWorld, WorldFields
  <2>3. CASE r' = [r EXCEPT !.at = "gone"]
    <3>1. Kept(r') /\ r'.at = "gone"
      BY <1>0, <2>3 DEF RunnerFields
    <3> QED
      BY <1>4, <2>1, <2>2, <3>1, MidStep DEF InOps, Over
  <2>4. CASE r' \in {Failed(r), After(r)}
    <3>1. Kept(r)
      BY <1>0
    <3> QED
      BY <1>5, <1>6, <2>1, <2>2, <2>4, <3>1, MidStep
  <2> QED
    BY <1>15, <2>3, <2>4 DEF ChangeCR
<1>16. CASE CRStays
  <2>1. r.at \in InOps /\ plan' = plan /\ env' = env /\ r.at \notin Over
    BY <1>16 DEF CRStays, InOps, Over
  <2>2. CASE r' = [r EXCEPT !.at = "judge", !.wait = "stayed"]
    <3>1. Kept(r') /\ r'.at = "judge"
      BY <1>0, <2>2 DEF RunnerFields
    <3> QED
      BY <1>2, <1>4, <2>1, <3>1, MidStep DEF InOps, Over
  <2>3. CASE r' = Failed(r)
    BY <1>2, <1>6, <2>1, <2>3, MidStep
  <2> QED
    BY <1>16, <2>2, <2>3 DEF CRStays
<1>17. CASE OtherOp
  <2>1. r.at = "apply" /\ plan' = plan /\ env' = env
    BY <1>17 DEF OtherOp
  <2>a. CASE r' = Failed(r)
    BY <1>2, <1>6, <2>1, <2>a, MidStep
  <2> SUFFICES ASSUME r' # Failed(r) PROVE RInv'
    BY <2>a
  <2>2. PICK took \in BOOLEAN :
            r' = After([r EXCEPT !.applied[r.pos].deleted = took,
                                 !.faults = IF Op.type = "fault" THEN @ \cup {Op.fault.op} ELSE @,
                                 !.injected = @ \/ Op.type = "fault"])
    BY <1>17 DEF OtherOp
  <2> DEFINE e == [r.applied[r.pos] EXCEPT !.deleted = took]
             marked == [r.applied EXCEPT ![r.pos] = e]
             fs == IF Op.type = "fault" THEN r.faults \cup {Op.fault.op} ELSE r.faults
             injected == r.injected \/ Op.type = "fault"
             x == [r EXCEPT !.applied = marked, !.faults = fs, !.injected = injected]
  <2>3. r' = After(x)
    BY <2>2
  <2>4. /\ Undecided(r) /\ Len(r.applied) = r.pos /\ SettledIn(r, 1 .. r.pos - 1)
        /\ r.pos \in 1 .. Len(r.applied)
    BY <1>0, <1>1, <2>1 DEF InOps
  <2>5. e \in Marks /\ e.restored = r.applied[r.pos].restored
    <3>1. r.applied[r.pos] \in Marks
      BY <1>0, <2>4
    <3> QED
      BY <3>1, Marked
  <2> HIDE DEF e, fs, injected
  <2>6. /\ marked \in Seq(Marks) /\ Len(marked) = r.pos
        /\ \A n \in 1 .. r.pos : marked[n].restored = r.applied[n].restored
    BY <1>0, <2>4, <2>5, ExceptSeq
  <2> HIDE DEF marked
  <2>7. /\ x.pos = r.pos /\ x.applied = marked /\ x.judged = r.judged /\ x.errors = r.errors
        /\ x.violation = r.violation /\ x.failed = r.failed /\ x.stopped = r.stopped
        /\ DOMAIN x = RunnerFields
    BY <1>0 DEF RunnerFields
  <2> HIDE DEF x
  <2>8. /\ Core(x) /\ Undecided(x) /\ Len(x.applied) = x.pos /\ x.pos = r.pos
        /\ SettledIn(x, 1 .. x.pos - 1)
    BY <1>0, <2>4, <2>6, <2>7 DEF Core, Undecided, Unfailed, SettledIn
  <2>9. Tracked(r') /\ r'.at \notin Over /\ r'.applied = marked
    BY <1>0, <2>3, <2>7, <2>8, TrackAfter DEF Over
  <2>10. Tracked(r)'
    BY <2>1, <2>9 DEF Tracked, Core, BetweenOps, InAnOp, PastTheOps, TornDown, SettledIn,
       Unfailed, Undecided
  <2>11. Restorations' /\ Emptying'
    BY <2>1, <2>4, <2>6, <2>9 DEF RInv, Restorations, Emptying, Over
  <2> QED
    BY <2>1, <2>10, <2>11 DEF RInv
<1> DEFINE Tried == {r, NoteDeletion(r), [NoteDeletion(r) EXCEPT !.wait = "kept"]}
<1>18. ASSUME NEW x, x \in Tried PROVE Kept(x)
  BY <1>0, <1>18 DEF NoteDeletion, RunnerFields
<1>19. ASSUME NEW x, x \in Tried
       PROVE Tracked(Failed(x)) /\ Failed(x).at \notin Over /\ Failed(x).applied = r.applied
  BY <1>0, <1>18, <1>19, TrackFailed DEF Over, Core
<1>20. CASE FixtureOp
  <2>1. r.at \in InOps /\ plan' = plan /\ r.at \notin Over
    BY <1>20 DEF FixtureOp, InOps, Over
  <2>2. SameWorld
    BY <1>0, <1>20 DEF FixtureOp, SameWorld, WorldFields
  <2>3. PICK x \in Tried : r' \in {Failed(x), After(x)}
    BY <1>20 DEF FixtureOp
  <2> QED
    BY <1>5, <1>18, <1>19, <2>1, <2>2, <2>3, MidStep
<1>21. CASE OpFails
  <2>1. r.at \in InOps /\ plan' = plan /\ r.at \notin Over /\ r' = Failed(NoteDeletion(r))
    BY <1>21 DEF OpFails, InOps, Over
  <2>2. SameWorld
    <3> DEFINE Taken == {env, [env EXCEPT !.crs[Op.key] = "live"],
                         [env EXCEPT !.crs[Op.key] = "deleting"],
                         [env EXCEPT !.fixtures = @ \ {Op.key}]}
    <3>1. \A e \in Taken : DOMAIN e = WorldFields /\ e.restores = env.restores
      BY <1>0 DEF WorldFields
    <3>2. PICK e \in Taken : CallFails(e)
      BY <1>21 DEF OpFails
    <3> HIDE DEF Taken
    <3> QED
      BY <3>1, <3>2, CallsFail
  <2> QED
    BY <1>19, <2>1, <2>2, MidStep
<1>22. CASE WaitEnds
  <2>1. r.at \in {"wait", "recover"} /\ plan' = plan /\ r.at \notin Over /\ SameWorld
    BY <1>2, <1>3, <1>22 DEF WaitEnds, Over
  <2>2. CASE r' \in {Failed(r), RecoveryFailed(r)}
    BY <1>6, <1>7, <2>1, <2>2, MidStep
  <2>3. CASE \E end : r' = [r EXCEPT !.wait = end, !.at = IF @ = "wait" THEN "judge" ELSE "judgeRecovery"]
    <3>1. Kept(r') /\ r'.at = IF r.at = "wait" THEN "judge" ELSE "judgeRecovery"
      BY <1>0, <2>3 DEF RunnerFields
    <3>2. Tracked(r')
      BY <1>0, <1>4, <2>1, <3>1 DEF Tracked, Core, BetweenOps, InAnOp, PastTheOps, TornDown,
         InOps, SettledIn
    <3> QED
      BY <2>1, <3>1, <3>2, MidStep DEF Over
  <2> QED
    BY <1>22, <2>2, <2>3 DEF WaitEnds
<1>23. CASE Judge
  <2>1. r.at \in {"judge", "judgeRecovery"} /\ plan' = plan /\ r.at \notin Over /\ env' = env
    BY <1>23 DEF Judge, Over
  <2>2. CASE r' \in {Failed(r), RecoveryFailed(r)}
    BY <1>2, <1>6, <1>7, <2>1, <2>2, MidStep
  <2>3. CASE r' = [r EXCEPT !.at = IF @ = "judge" THEN "check" ELSE "checkRecovery"]
    <3>1. Kept(r') /\ r'.at = IF r.at = "judge" THEN "check" ELSE "checkRecovery"
      BY <1>0, <2>3 DEF RunnerFields
    <3>2. Tracked(r')
      BY <1>0, <1>4, <2>1, <3>1 DEF Tracked, Core, BetweenOps, InAnOp, PastTheOps, TornDown,
         InOps, SettledIn
    <3> QED
      BY <1>2, <2>1, <3>1, <3>2, MidStep DEF Over
  <2> QED
    BY <1>23, <2>2, <2>3 DEF Judge
<1>24. CASE Check
  <2> DEFINE point == IF r.at = "check" THEN r.pos ELSE Recovery
             judged == [r EXCEPT !.judged = Append(@, point)]
             fail(x) == IF r.at = "check" THEN Failed(x) ELSE RecoveryFailed(x)
  <2>1. r.at \in {"check", "checkRecovery"} /\ plan' = plan /\ r.at \notin Over
    BY <1>24 DEF Check, Over
  <2>2. point \in Int
    BY <1>0 DEF Recovery
  <2>3. /\ Append(r.judged, point) \in Seq(Int)
        /\ Range(Append(r.judged, point)) = Range(r.judged) \cup {point}
    BY <1>0, <2>2, RangeAppend
  <2>4. /\ judged.at = r.at /\ judged.pos = r.pos /\ judged.applied = r.applied
        /\ judged.judged = Append(r.judged, point)
        /\ judged.errors = r.errors /\ judged.violation = r.violation
        /\ judged.failed = r.failed
        /\ judged.stopped = r.stopped /\ DOMAIN judged = RunnerFields
    BY <1>0 DEF RunnerFields
  <2> HIDE DEF judged, point
  <2> DEFINE Judged(x) ==
           /\ x.at = r.at /\ x.pos = r.pos /\ x.applied = r.applied
           /\ x.judged = Append(r.judged, point)
           /\ x.errors = r.errors /\ x.failed = r.failed
           /\ x.violation = "none" => r.violation = "none"
           /\ DOMAIN x = RunnerFields
  <2>5. ASSUME NEW v PROVE Judged(violate(judged, v)) /\ violate(judged, v).stopped = r.stopped
    BY <2>4 DEF violate, RunnerFields
  <2>6. ASSUME NEW x, Judged(x) PROVE Core(x)
    BY <1>0, <2>3, <2>6 DEF Core
  <2>7. ASSUME NEW x, Judged(x) \/ x = r
        PROVE Tracked(fail(x)) /\ fail(x).at \notin Over /\ fail(x).applied = r.applied
    BY <1>0, <2>6, <2>7, TrackFailed DEF Over
  <2>8. ASSUME NEW x, Judged(x), r.at = "check"
        PROVE Tracked(NextOp(x)) /\ NextOp(x).at \notin Over /\ NextOp(x).applied = r.applied
    <3>1. Undecided(r) /\ Len(r.applied) = r.pos /\ SettledIn(r, 1 .. r.pos - 1)
      BY <1>1, <2>8 DEF InOps
    <3>2. SettledIn(x, 1 .. x.pos)
      <4>1. point = r.pos /\ \A n \in 1 .. r.pos : n \in 1 .. r.pos - 1 \/ n = r.pos
        BY <1>0, <2>8 DEF point
      <4> QED
        BY <2>3, <2>8, <3>1, <4>1 DEF SettledIn
    <3>3. Unfailed(x) /\ Len(x.applied) = x.pos
      BY <2>8, <3>1 DEF Unfailed, Undecided
    <3> QED
      BY <1>0, <2>6, <2>8, <3>2, <3>3, TrackNextOp DEF Over
  <2>9. ASSUME NEW x, Judged(x), x.stopped = r.stopped, r.at = "checkRecovery",
               r' = [x EXCEPT !.at = "quiet"]
        PROVE Tracked(r') /\ r'.at \notin Over /\ r'.applied = r.applied
    <3>1. /\ r'.at = "quiet" /\ r'.pos = x.pos /\ r'.applied = x.applied /\ r'.judged = x.judged
          /\ r'.errors = x.errors /\ r'.violation = x.violation /\ r'.failed = x.failed
          /\ r'.stopped = x.stopped /\ DOMAIN r' = RunnerFields
      BY <2>9 DEF RunnerFields
    <3> QED
      BY <1>0, <2>3, <2>9, <3>1 DEF Tracked, Core, BetweenOps, InAnOp, PastTheOps, TornDown,
         InOps, SettledIn, Over
  <2>10. PICK v \in Reports :
              \/ r' \in {fail(r), fail(violate(judged, IF v = "G4" THEN v ELSE "none"))}
                 /\ CallFails(env)
              \/ /\ env' = env
                 /\ r' \in CASE r.at = "checkRecovery" -> {[violate(judged, v) EXCEPT !.at = "quiet"]}
                             [] r.at = "check" /\ r.wait = "stayed" /\ v = "none" ->
                                   {fail(violate(judged, v)),
                                    NextOp([violate(judged, v) EXCEPT !.stopped = TRUE])}
                             [] OTHER -> {NextOp(violate(judged, v))}
    BY <1>24 DEF Check, judged, point
  <2>11. SameWorld
    BY <1>2, <1>3, <2>10
  <2> DEFINE x == violate(judged, v)
             y == [x EXCEPT !.stopped = TRUE]
             z == violate(judged, IF v = "G4" THEN v ELSE "none")
  <2>12. Judged(x) /\ x.stopped = r.stopped /\ Judged(z)
    BY <2>5
  <2>13. \/ r' \in {fail(r), fail(x), fail(z)}
         \/ r.at = "checkRecovery" /\ r' = [x EXCEPT !.at = "quiet"]
         \/ r.at = "check" /\ r' \in {NextOp(x), NextOp(y)}
    <3>1. CASE r' \in {fail(r), fail(z)} /\ CallFails(env)
      BY <3>1
    <3>2. CASE ~(r' \in {fail(r), fail(z)} /\ CallFails(env)) /\ r.at = "checkRecovery"
      BY <2>10, <3>2
    <3>3. CASE ~(r' \in {fail(r), fail(z)} /\ CallFails(env)) /\ r.at = "check"
      <4>1. CASE r.wait = "stayed" /\ v = "none"
        BY <2>10, <3>3, <4>1
      <4>2. CASE ~(r.wait = "stayed" /\ v = "none")
        BY <2>10, <3>3, <4>2
      <4> QED
        BY <4>1, <4>2
    <3> QED
      BY <2>1, <3>1, <3>2, <3>3
  <2> HIDE DEF x, z
  <2>14. Judged(y)
    BY <2>12 DEF RunnerFields
  <2> HIDE DEF y
  <2>15. Tracked(r') /\ r'.at \notin Over /\ r'.applied = r.applied
    <3>1. CASE r' \in {fail(r), fail(x), fail(z)}
      BY <2>7, <2>12, <3>1
    <3>2. CASE r.at = "checkRecovery" /\ r' = [x EXCEPT !.at = "quiet"]
      BY <2>9, <2>12, <3>2
    <3>3. CASE r.at = "check" /\ r' \in {NextOp(x), NextOp(y)}
      BY <2>8, <2>12, <2>14, <3>3
    <3> QED
      BY <2>13, <3>1, <3>2, <3>3
  <2> QED
    BY <2>1, <2>11, <2>15, MidStep
<1>25. ASSUME NEW e, r.at \in {"teardown", "quiet", "delete", "clean"},
              e.at \in {"recover", "quiet", "delete", "clean", "verdict"},
              e.pos = r.pos, e.applied = r.applied, e.judged = r.judged, e.violation = r.violation,
              e.failed = r.failed, e.stopped = r.stopped, DOMAIN e = RunnerFields,
              e.errors = {} => r.errors = {}
       PROVE  Tracked(e) /\ e.at \notin Over /\ r.at \notin Over
  BY <1>0, <1>25 DEF Tracked, Core, BetweenOps, InAnOp, PastTheOps, TornDown, InOps,
     SettledIn, Over
<1>26. CASE BeginTeardown \/ Quiet \/ AwaitClean
  <2>1. /\ r.at \in {"teardown", "quiet", "clean"} /\ env' = env /\ plan' = plan
        /\ r'.at \in {"recover", "quiet", "delete", "verdict"} /\ Kept(r')
    BY <1>0, <1>26 DEF BeginTeardown, Quiet, AwaitClean, RunnerFields
  <2> QED
    BY <1>2, <1>25, <2>1, MidStep
<1>27. CASE DeleteCRs
  <2>1. PICK took \in SUBSET r.crs :
           /\ env' = [env EXCEPT !.crs = [cr \in DOMAIN env.crs |->
                             IF cr \in took /\ env.crs[cr] = "live" THEN "deleting" ELSE env.crs[cr]],
                                 !.mishaps = @ + (IF took = r.crs THEN 0 ELSE 1)]
           /\ r' = [r EXCEPT !.at = "clean", !.errors = IF took = r.crs THEN @ ELSE @ \cup {"delete"}]
           /\ r.at = "delete" /\ plan' = plan
    BY <1>27 DEF DeleteCRs
  <2>2. SameWorld
    BY <1>0, <2>1 DEF SameWorld, WorldFields
  <2>3. /\ r'.at = "clean" /\ r'.pos = r.pos /\ r'.applied = r.applied /\ r'.judged = r.judged
        /\ r'.violation = r.violation /\ r'.failed = r.failed /\ r'.stopped = r.stopped
        /\ DOMAIN r' = RunnerFields /\ (r'.errors = {} => r.errors = {})
    BY <1>0, <2>1 DEF RunnerFields
  <2>4. r.at = "delete" /\ plan' = plan
    BY <2>1
  <2> QED
    BY <1>25, <2>2, <2>3, <2>4, MidStep
<1>28. CASE Verdict
  <2>1. r.at = "verdict" /\ plan' = plan /\ SameWorld
    BY <1>2, <1>3, <1>28 DEF Verdict
  <2>2. /\ r'.at = "empty" /\ r'.pos = r.pos /\ r'.applied = r.applied
        /\ r'.failed = r.failed /\ r'.stopped = r.stopped /\ DOMAIN r' = RunnerFields
        /\ r'.errors = {} => r.errors = {}
        /\ r'.violation = "none" => r.violation = "none"
        /\ \/ r'.judged = Append(r.judged, Teardown)
           \/ r'.judged = r.judged /\ (r'.errors # {} \/ r.failed \/ r'.violation # "none")
    <3>1. CASE r' = [r EXCEPT !.at = "empty"] /\ (r.violation # "none" \/ r.failed)
      BY <1>0, <3>1 DEF RunnerFields
    <3>2. CASE r' = [r EXCEPT !.at = "empty", !.errors = @ \cup {"verdict"}]
      BY <1>0, <3>2 DEF RunnerFields
    <3>3. CASE \E v : r' = violate([r EXCEPT !.at = "empty", !.judged = Append(@, Teardown)], v)
      BY <1>0, <3>3 DEF RunnerFields, violate
    <3> QED
      BY <1>28, <3>1, <3>2, <3>3 DEF Verdict, cutFails
  <2>3. /\ Append(r.judged, Teardown) \in Seq(Int)
        /\ Range(Append(r.judged, Teardown)) = Range(r.judged) \cup {Teardown}
    BY <1>0, RangeAppend DEF Teardown
  <2>4. Tracked(r')
    BY <1>0, <2>1, <2>2, <2>3 DEF Tracked, Core, BetweenOps, InAnOp, PastTheOps, TornDown,
       InOps, SettledIn
  <2> QED
    BY <2>1, <2>2, <2>4, MidStep DEF Over
<1>29. ASSUME r.at \in {"empty", "force", "stop"}, r'.at \in Over \ {"start"}, plan' = plan,
              r'.pos = r.pos, r'.applied = r.applied, r'.judged = r.judged, r'.violation = r.violation,
              r'.failed = r.failed, r'.stopped = r.stopped, DOMAIN r' = RunnerFields,
              r'.errors = {} => r.errors = {}
       PROVE  Tracked(r)'
  BY <1>0, <1>29 DEF Tracked, Core, BetweenOps, InAnOp, PastTheOps, TornDown, InOps,
     SettledIn, Over
<1>30. CASE Empty \/ ForceFinalizers
  <2> DEFINE crs(took, to) == [cr \in DOMAIN env.crs |-> IF cr \in took THEN to ELSE env.crs[cr]]
  <2>1. ASSUME r.at \in {"empty", "force"}, r'.at \in {"force", "stop"}, plan' = plan,
               r'.pos = r.pos, r'.applied = r.applied, r'.judged = r.judged, r'.violation = r.violation,
               r'.failed = r.failed, r'.stopped = r.stopped, DOMAIN r' = RunnerFields,
               r'.errors = {} => r.errors = {},
               DOMAIN env' = WorldFields, env'.restores = env.restores, Emptying'
        PROVE  RInv'
    <3>1. Tracked(r)'
      BY <1>29, <2>1 DEF Over
    <3> QED
      BY <2>1, <3>1 DEF RInv, Restorations
  <2>2. CASE Empty
    <3>1. PICK took \in SUBSET leftBehind :
             /\ r.at = "empty" /\ plan' = plan
             /\ \/ /\ took = leftBehind /\ r' = [r EXCEPT !.at = "force"]
                   /\ env' = [env EXCEPT !.crs = crs(took, "deleting"), !.fixtures = {}]
                \/ /\ r' = [r EXCEPT !.at = "force", !.errors = @ \cup {"empty"}]
                   /\ env' = [env EXCEPT !.crs = crs(took, "deleting"), !.mishaps = @ + 1]
      BY <2>2 DEF Empty
    <3>2. /\ DOMAIN env' = WorldFields /\ env'.restores = env.restores
          /\ env'.crs = crs(took, "deleting")
      BY <1>0, <3>1 DEF WorldFields
    <3>3. CASE took = leftBehind /\ r' = [r EXCEPT !.at = "force"]
      <4>1. /\ r'.at = "force" /\ r'.errors = r.errors
            /\ r'.pos = r.pos /\ r'.applied = r.applied /\ r'.judged = r.judged
            /\ r'.violation = r.violation /\ r'.failed = r.failed /\ r'.stopped = r.stopped
            /\ DOMAIN r' = RunnerFields /\ (r'.errors = {} => r.errors = {})
        BY <1>0, <3>3 DEF RunnerFields
      <4>2. Emptying'
        BY <3>2, <3>3, <4>1 DEF Emptying, leftBehind
      <4> QED
        BY <2>1, <3>1, <3>2, <4>1, <4>2
    <3>4. CASE r' = [r EXCEPT !.at = "force", !.errors = @ \cup {"empty"}]
      <4>1. /\ r'.at = "force" /\ "empty" \in r'.errors
            /\ r'.pos = r.pos /\ r'.applied = r.applied /\ r'.judged = r.judged
            /\ r'.violation = r.violation /\ r'.failed = r.failed /\ r'.stopped = r.stopped
            /\ DOMAIN r' = RunnerFields /\ (r'.errors = {} => r.errors = {})
        BY <1>0, <3>4 DEF RunnerFields
      <4>2. Emptying'
        BY <4>1 DEF Emptying
      <4> QED
        BY <2>1, <3>1, <3>2, <4>1, <4>2
    <3> QED
      BY <3>1, <3>3, <3>4
  <2>3. CASE ForceFinalizers
    <3> DEFINE held == {cr \in DOMAIN env.crs : env.crs[cr] = "deleting"}
    <3>1. PICK freed \in SUBSET held :
             /\ r.at = "force" /\ plan' = plan
             /\ \/ /\ freed = held /\ r' = [r EXCEPT !.at = "stop"]
                   /\ env' = [env EXCEPT !.crs = crs(freed, "absent")]
                \/ /\ r' = [r EXCEPT !.at = "stop", !.errors = @ \cup {"force"}]
                   /\ env' = [env EXCEPT !.crs = crs(freed, "absent"), !.mishaps = @ + 1]
      BY <2>3 DEF ForceFinalizers
    <3>2. /\ DOMAIN env' = WorldFields /\ env'.restores = env.restores
          /\ env'.crs = crs(freed, "absent")
      BY <1>0, <3>1 DEF WorldFields
    <3>3. CASE freed = held /\ r' = [r EXCEPT !.at = "stop"]
      <4>1. /\ r'.at = "stop" /\ r'.errors = r.errors
            /\ r'.pos = r.pos /\ r'.applied = r.applied /\ r'.judged = r.judged
            /\ r'.violation = r.violation /\ r'.failed = r.failed /\ r'.stopped = r.stopped
            /\ DOMAIN r' = RunnerFields /\ (r'.errors = {} => r.errors = {})
        BY <1>0, <3>3 DEF RunnerFields
      <4>2. "empty" \notin r.errors => \A cr \in DOMAIN env.crs : env.crs[cr] \in {"absent", "deleting"}
        BY <3>1 DEF RInv, Emptying
      <4>3. Emptying'
        BY <3>2, <3>3, <4>1, <4>2 DEF Emptying
      <4> QED
        BY <2>1, <3>1, <3>2, <4>1, <4>3
    <3>4. CASE r' = [r EXCEPT !.at = "stop", !.errors = @ \cup {"force"}]
      <4>1. /\ r'.at = "stop" /\ "force" \in r'.errors
            /\ r'.pos = r.pos /\ r'.applied = r.applied /\ r'.judged = r.judged
            /\ r'.violation = r.violation /\ r'.failed = r.failed /\ r'.stopped = r.stopped
            /\ DOMAIN r' = RunnerFields /\ (r'.errors = {} => r.errors = {})
        BY <1>0, <3>4 DEF RunnerFields
      <4>2. Emptying'
        BY <4>1 DEF Emptying
      <4> QED
        BY <2>1, <3>1, <3>2, <4>1, <4>2
    <3> QED
      BY <3>1, <3>3, <3>4
  <2> QED
    BY <1>30, <2>2, <2>3
<1>31. CASE StopHarness
  <2>1. r.at = "stop" /\ r'.at = "result" /\ Kept(r') /\ plan' = plan /\ env' = env
    BY <1>0, <1>31 DEF StopHarness, RunnerFields
  <2> QED
    BY <1>29, <2>1 DEF RInv, Restorations, Emptying, Over
<1>32. ASSUME UNCHANGED <<plan, r>>, DOMAIN env' = WorldFields,
              env'.restores = env.restores, DOMAIN env'.crs = DOMAIN env.crs,
              \A cr \in DOMAIN env.crs : env'.crs[cr] \in {env.crs[cr], "absent"}
       PROVE  RInv'
  BY <1>32 DEF RInv, Tracked, Core, BetweenOps, InAnOp, PastTheOps, TornDown, SettledIn,
     Unfailed, Undecided, Restorations, Emptying
<1>33. CASE Interrupt \/ TargetStops
  <2>1. UNCHANGED <<plan, r>> /\ SameWorld /\ env'.crs = env.crs
    BY <1>0, <1>33 DEF Interrupt, TargetStops, Acting, SameWorld, WorldFields
  <2> QED
    BY <1>32, <2>1 DEF SameWorld
<1>34. ASSUME NEW f, Meddle(f) PROVE RInv'
  <2>1. UNCHANGED <<plan, r>> /\ SameWorld /\ env'.crs = env.crs
    BY <1>0, <1>34 DEF Meddle, Acting, SameWorld, WorldFields
  <2> QED
    BY <1>32, <2>1 DEF SameWorld
<1>35. ASSUME NEW cr \in DOMAIN env.crs, CRGoes(cr) PROVE RInv'
  <2>1. UNCHANGED <<plan, r>> /\ SameWorld
    BY <1>0, <1>35 DEF CRGoes, Acting, SameWorld, WorldFields
  <2>2. /\ DOMAIN env'.crs = DOMAIN env.crs
        /\ \A c \in DOMAIN env.crs : env'.crs[c] \in {env.crs[c], "absent"}
    BY <1>0, <1>35 DEF CRGoes, WorldFields
  <2> QED
    BY <1>32, <2>1, <2>2 DEF SameWorld
<1>36. CASE HarnessMoves \/ Ended \/ UNCHANGED vars
  <2>1. UNCHANGED <<plan, r, env>>
    BY <1>36 DEF HarnessMoves, Ended, vars, runnerVars
  <2> QED
    BY <1>0, <1>32, <2>1
<1> QED
  BY <1>10, <1>11, <1>12, <1>13, <1>14, <1>15, <1>16, <1>17, <1>20, <1>21, <1>22, <1>23,
     <1>24, <1>26, <1>27, <1>28, <1>30, <1>31, <1>33, <1>34, <1>35, <1>36 DEF Next,
     RunnerMoves

\* It holds throughout every run.
LEMMA RunnerInductive == Spec => []RInv
BY InitRInv, StepRInv, PTL DEF Spec

\* A run leaves nothing behind that it did not report: neither a CR, known to it or
\* not, nor anything its harness brought up, however its ops, its start or its
\* teardown fail; but for what a failing step of Start itself half made (Runner.Run,
\* teardown.run, empty, forceFinalizers).
THEOREM NothingIsLeft == Spec => []NothingLeft
<1>1. HInv /\ RInv => NothingLeft
  <2>1. RInv => CRsGone
    BY DEF RInv, Emptying, CRsGone
  <2> QED
    BY <2>1, DownIsEmpty DEF NothingLeft
<1> QED
  BY <1>1, HarnessInductive, RunnerInductive, PTL

\* The harness goes down on its own only with an error; otherwise the Runner has
\* its result.
Joined ==
    /\ stage = "failing" => err
    /\ stage \in {"stopping", "recording"} => r.at = "result"
    /\ stage = "down" => err \/ r.at = "result"

\* The harness and the Runner stay in step.
LEMMA JoinedInductive == Spec => []Joined
<1>1. Init => Joined
  BY DEF Init, HarnessInit, Joined
<1>2. RInv /\ Joined /\ [Next]_vars => Joined'
  <2> SUFFICES ASSUME RInv, Joined, [Next]_vars PROVE Joined'
    OBVIOUS
  <2>1. CASE HarnessMoves
    <3>1. r' = r
      BY <2>1 DEF HarnessMoves, runnerVars
    <3> QED
      BY <2>1, <3>1 DEF HarnessMoves, HarnessNext, BringUp, Started, StartFailed, Undo,
         Undone, Record, Joined
  <2>2. CASE StopHarness
    <3>1. stage' = "stopping" /\ r'.at = "result"
      BY <2>2 DEF StopHarness, Stop, RInv, Tracked, Core, RunnerFields
    <3> QED
      BY <3>1 DEF Joined
  <2>3. ASSUME UNCHANGED harnessVars, r.at = "result" => r' = r PROVE Joined'
    BY <2>3 DEF harnessVars, Joined
  <2>4. CASE RunnerMoves /\ ~StopHarness
    <3>1. UNCHANGED harnessVars
      BY <2>4 DEF RunnerMoves, StartRun, BeginOp, Restore, RestoreDone, CreateCR, ChangeCR,
         CRStays, OtherOp, FixtureOp, WaitEnds, Judge, Check, BeginTeardown, Quiet,
         DeleteCRs, AwaitClean, Verdict, Empty, ForceFinalizers
    <3>2. r.at # "result"
      BY <2>4 DEF RunnerMoves, StartRun, BeginOp, Restore, RestoreDone, CreateCR, ChangeCR,
         CRStays, OtherOp, FixtureOp, WaitEnds, Judge, Check, BeginTeardown, Quiet,
         DeleteCRs, AwaitClean, Verdict, Empty, ForceFinalizers
    <3> QED
      BY <2>3, <3>1, <3>2
  <2>5. CASE OpFails
    BY <2>3, <2>5 DEF OpFails
  <2>6. CASE Ended \/ Interrupt \/ TargetStops \/ UNCHANGED vars
    BY <2>3, <2>6 DEF Ended, Interrupt, TargetStops, Acting, vars, runnerVars
  <2>7. ASSUME NEW f, Meddle(f) PROVE Joined'
    BY <2>3, <2>7 DEF Meddle, Acting
  <2>8. ASSUME NEW cr, CRGoes(cr) PROVE Joined'
    BY <2>3, <2>8 DEF CRGoes, Acting
  <2> QED
    BY <2>1, <2>2, <2>4, <2>5, <2>6, <2>7, <2>8 DEF Next
<1> QED
  BY <1>1, <1>2, RunnerInductive, PTL DEF Spec

\* A run that reports neither an error nor a violation was judged at every op
\* that settles and at its teardown, and went through its whole sequence unless
\* a CR that stayed stopped it: no failure, interrupt or cut window is mistaken
\* for a pass (Runner.Run, judge, verdict).
THEOREM PassesAreJudged == Spec => []PassIsJudged
<1>1. RInv /\ Joined => PassIsJudged
  <2> SUFFICES ASSUME RInv, Joined, Passes
               PROVE  /\ Teardown \in Range(r.judged)
                      /\ \A n \in DOMAIN r.applied : Settles(plan[n]) => n \in Range(r.judged)
                      /\ r.stopped \/ Len(r.applied) = Len(plan)
    BY DEF PassIsJudged
  <2>1. r.at = "result" /\ r.errors = {} /\ r.violation = "none"
    BY DEF Passes, Joined
  <2>2. Teardown \in Range(r.judged)
    BY <2>1 DEF RInv, Tracked, TornDown
  <2>3. SettledIn(r, 1 .. Len(r.applied)) /\ (r.stopped \/ Len(r.applied) = Len(plan))
    BY <2>1 DEF RInv, Tracked, PastTheOps, InOps
  <2>4. DOMAIN r.applied = 1 .. Len(r.applied)
    BY DEF RInv, Tracked, Core
  <2> QED
    BY <2>2, <2>3, <2>4 DEF SettledIn
<1> QED
  BY <1>1, JoinedInductive, RunnerInductive, PTL

-----------------------------------------------------------------------------
(* A fixture that is gone is one an op deleted. *)

\* Where the Runner is once it has restored what is due at the op.
Late == {"apply", "gone", "wait", "judge", "check"}
Live == Late \cup {"start", "begin", "restore"}

\* Some op deleted the fixture, and until a later one than this, once what is
\* due at this one is restored.
MissingUntil(f) ==
    \E n \in r.deleted :
        /\ plan[n].key = f
        /\ r.at \in Late => plan[n].until > r.pos
        /\ r.at = "restore" => plan[n].until > r.pos \/ n \in r.restoring

FInv ==
    /\ \A n \in 1 .. Len(plan) :
          plan[n].type = "deleteFixture" => plan[n].until \in Nat /\ plan[n].until > n
    /\ r.at \in Live =>
          /\ \A n \in r.deleted : n \in 1 .. r.pos /\ plan[n].type = "deleteFixture"
          /\ \A f \in RunFixtures : f \in env.fixtures \/ MissingUntil(f)

\* Validate has an op delete a fixture until a later op only.
LEMMA InitFInv == Init => FInv
<1> SUFFICES ASSUME Init PROVE FInv
  OBVIOUS
<1>1. PICK run \in Runs : plan = run.plan
  BY DEF Init, RunnerInit
<1>2. DOMAIN plan = 1 .. Len(plan) /\ Valid(plan) /\ \A n \in DOMAIN plan : plan[n].until \in Nat
  BY <1>1, RunnerConstants
<1>3. \A n \in 1 .. Len(plan) : plan[n].type = "deleteFixture" => plan[n].until > n
  BY <1>2 DEF Valid, ValidFixtures, FixtureOps
<1>4. r.deleted = {} /\ env.fixtures = RunFixtures
  BY DEF Init, RunnerInit
<1> QED
  BY <1>2, <1>3, <1>4 DEF FInv

\* A step that leaves the list of deleted fixtures, and takes no fixture away.
LEMMA FixturesStay ==
    ASSUME RInv, FInv, plan' = plan, env.fixtures \subseteq env'.fixtures, r'.deleted = r.deleted,
           \/ r'.at \notin Live
           \/ r'.at = r.at /\ r'.pos = r.pos /\ r'.restoring = r.restoring
           \/ r.at \in Late /\ r'.at \in Late /\ r'.pos = r.pos
           \/ r.at \in Live \ {"restore"} /\ r'.at = "begin" /\ r'.pos \in {r.pos, r.pos + 1}
    PROVE  FInv'
<1>1. r.pos \in Nat
  BY DEF RInv, Tracked, Core
<1> QED
  BY <1>1 DEF FInv, MissingUntil, Late, Live

\* Going on from an op leaves the list of deleted fixtures.
LEMMA OnFromOp ==
    ASSUME NEW x, DOMAIN x = RunnerFields
    PROVE  /\ Failed(x).deleted = x.deleted /\ Failed(x).at \notin Live
           /\ RecoveryFailed(x).deleted = x.deleted /\ RecoveryFailed(x).at \notin Live
           /\ NextOp(x).deleted = x.deleted
           /\ \/ NextOp(x).at = "begin" /\ NextOp(x).pos = x.pos + 1
              \/ NextOp(x).at \notin Live
           /\ After(x).deleted = x.deleted
           /\ \/ After(x).at = "begin" /\ After(x).pos = x.pos + 1
              \/ After(x).at = "wait" /\ After(x).pos = x.pos
              \/ After(x).at \notin Live
BY DEF Failed, RecoveryFailed, NextOp, After, RunnerFields, Live, Late

\* Every step keeps it: what is deleted is noted at the op that deletes it, and
\* only what has been created again is taken off the list.
LEMMA StepFInv == RInv /\ FInv /\ [Next]_vars => FInv'
<1> SUFFICES ASSUME RInv, FInv, [Next]_vars PROVE FInv'
  OBVIOUS
<1>0. /\ DOMAIN env = WorldFields /\ DOMAIN r = RunnerFields /\ r.pos \in 1 .. Len(plan)
      /\ Len(plan) \in Nat /\ r.pos \in Nat
  BY DEF RInv, Tracked, Core
<1>1. CallFails(env) => env'.fixtures = env.fixtures
  BY <1>0 DEF CallFails, WorldFields
<1>2. ASSUME plan' = plan, env.fixtures \subseteq env'.fixtures, r.at \in Late,
             NEW x, x.deleted = r.deleted, x.pos = r.pos, DOMAIN x = RunnerFields,
             r' \in {Failed(x), NextOp(x), After(x)}
      PROVE  FInv'
  BY <1>0, <1>2, OnFromOp, FixturesStay DEF Late, Live
<1>3. ASSUME plan' = plan, env.fixtures \subseteq env'.fixtures,
             NEW x, x.deleted = r.deleted, DOMAIN x = RunnerFields,
             r' \in {Failed(x), RecoveryFailed(x)}
      PROVE  FInv'
  BY <1>3, OnFromOp, FixturesStay
<1>4. ASSUME plan' = plan, r'.at \notin Live PROVE FInv'
  BY <1>4 DEF FInv
<1>10. CASE StartRun
  <2>1. /\ r.at = "start" /\ plan' = plan /\ env.fixtures \subseteq env'.fixtures
        /\ r'.deleted = r.deleted /\ r'.pos = r.pos /\ r'.at \in {"begin", "stop"}
    BY <1>0, <1>1, <1>10 DEF StartRun, RunnerFields
  <2> QED
    BY <2>1, FixturesStay DEF Live, Late
<1>11. CASE BeginOp
  <2> DEFINE expired == [r EXCEPT !.faults = {f \in @ : f = 0 \/ f > r.pos}]
             mark == [restored |-> FALSE, deleted |-> FALSE]
             y == [expired EXCEPT !.at = "restore", !.restoring = r.deleted,
                                     !.applied = Append(@, mark)]
  <2>1. r.at = "begin" /\ plan' = plan /\ env' = env /\ r' \in {Failed(expired), y}
    BY <1>11 DEF BeginOp
  <2>2. expired.deleted = r.deleted /\ expired.pos = r.pos /\ DOMAIN expired = RunnerFields
    BY <1>0 DEF RunnerFields
  <2> HIDE DEF expired, mark
  <2>3. CASE r' = Failed(expired)
    BY <1>3, <2>1, <2>2, <2>3
  <2>4. CASE r' = y
    <3>1. r'.at = "restore" /\ r'.restoring = r.deleted /\ r'.deleted = r.deleted /\ r'.pos = r.pos
      BY <2>2, <2>4 DEF RunnerFields
    <3> QED
      BY <2>1, <3>1 DEF FInv, MissingUntil, Live, Late
  <2> QED
    BY <2>1, <2>3, <2>4
<1>12. CASE Restore
  <2>0. PICK d \in r.restoring :
            \/ ~due(d) /\ r' = [r EXCEPT !.restoring = @ \ {d}] /\ env' = env
            \/ /\ createFixture(plan[d].key)
               /\ r' = [[r EXCEPT !.restoring = @ \ {d}] EXCEPT !.applied[r.pos].restored = TRUE]
            \/ r' = Failed(r)
    BY <1>12 DEF Restore, restoreFailed
  <2>1. r.at = "restore" /\ plan' = plan
    BY <1>12 DEF Restore
  <2>2. CASE r' = Failed(r)
    BY <1>0, <1>4, <2>1, <2>2, OnFromOp
  <2>3. CASE ~due(d) /\ r' = [r EXCEPT !.restoring = @ \ {d}] /\ env' = env
    <3>1. /\ r'.at = r.at /\ r'.pos = r.pos /\ r'.deleted = r.deleted
          /\ r'.restoring = r.restoring \ {d}
      BY <1>0, <2>3 DEF RunnerFields
    <3>2. d \in r.deleted => plan[d].until > r.pos
      BY <1>0, <2>1, <2>3 DEF FInv, due, Live
    <3> QED
      BY <2>1, <2>3, <3>1, <3>2 DEF FInv, MissingUntil, Live, Late
  <2>4. CASE /\ createFixture(plan[d].key)
             /\ r' = [[r EXCEPT !.restoring = @ \ {d}] EXCEPT !.applied[r.pos].restored = TRUE]
    <3>1. /\ r'.at = r.at /\ r'.pos = r.pos /\ r'.deleted = r.deleted
          /\ r'.restoring = r.restoring \ {d}
      BY <1>0, <2>4 DEF RunnerFields
    <3>2. env'.fixtures = env.fixtures \cup {plan[d].key}
      BY <1>0, <2>4 DEF createFixture, WorldFields
    <3> QED
      BY <2>1, <3>1, <3>2 DEF FInv, MissingUntil, Live, Late
  <2> QED
    BY <2>0, <2>2, <2>3, <2>4
<1>13. CASE RestoreDone
  <2>1. /\ r.at = "restore" /\ r.restoring = {} /\ plan' = plan /\ env' = env
        /\ r'.at = "apply" /\ r'.pos = r.pos /\ r'.deleted = {d \in r.deleted : ~due(d)}
    BY <1>0, <1>13 DEF RestoreDone, RunnerFields
  <2>2. \A d \in r.deleted : plan[d].until > r.pos => d \in r'.deleted
    BY <1>0, <2>1 DEF FInv, due, Live
  <2> QED
    BY <2>1, <2>2 DEF FInv, MissingUntil, Live, Late
<1>14. CASE CreateCR
  <2> DEFINE x == [r EXCEPT !.crs = @ \cup {Op.key}]
  <2>1. x.deleted = r.deleted /\ x.pos = r.pos /\ DOMAIN x = RunnerFields
    BY <1>0 DEF RunnerFields
  <2>2. /\ r.at \in Late /\ plan' = plan /\ env.fixtures \subseteq env'.fixtures
        /\ r' \in {After(x), Failed(r)}
    BY <1>0, <1>14 DEF CreateCR, Late, WorldFields
  <2> QED
    BY <1>0, <1>2, <2>1, <2>2
<1>15. CASE ChangeCR
  <2>1. r.at = "apply" /\ plan' = plan /\ env.fixtures \subseteq env'.fixtures
    BY <1>0, <1>15 DEF ChangeCR, WorldFields
  <2>2. r' \in {[r EXCEPT !.at = "gone"], Failed(r), After(r)}
    BY <1>15 DEF ChangeCR
  <2>3. CASE r' = [r EXCEPT !.at = "gone"]
    <3>1. r'.at = "gone" /\ r'.pos = r.pos /\ r'.deleted = r.deleted
      BY <1>0, <2>3 DEF RunnerFields
    <3> QED
      BY <2>1, <3>1, FixturesStay DEF Late
  <2>4. CASE r' \in {Failed(r), After(r)}
    BY <1>0, <1>2, <2>1, <2>4 DEF Late
  <2> QED
    BY <2>2, <2>3, <2>4
<1>16. CASE CRStays
  <2>1. r.at = "gone" /\ plan' = plan /\ env' = env
    BY <1>16 DEF CRStays
  <2>2. CASE r' = [r EXCEPT !.at = "judge", !.wait = "stayed"]
    <3>1. r'.at = "judge" /\ r'.pos = r.pos /\ r'.deleted = r.deleted
      BY <1>0, <2>2 DEF RunnerFields
    <3> QED
      BY <2>1, <3>1, FixturesStay DEF Late
  <2>3. CASE r' = Failed(r)
    BY <1>0, <1>3, <2>1, <2>3
  <2> QED
    BY <1>16, <2>2, <2>3 DEF CRStays
<1>17. CASE OtherOp
  <2>1. r.at = "apply" /\ plan' = plan /\ env' = env
    BY <1>17 DEF OtherOp
  <2>0. CASE r' = Failed(r)
    BY <1>0, <1>4, <2>0, <2>1, OnFromOp
  <2> SUFFICES ASSUME r' # Failed(r) PROVE FInv'
    BY <2>0
  <2>2. PICK took \in BOOLEAN :
            r' = After([r EXCEPT !.applied[r.pos].deleted = took,
                                 !.faults = IF Op.type = "fault" THEN @ \cup {Op.fault.op} ELSE @,
                                 !.injected = @ \/ Op.type = "fault"])
    BY <1>17 DEF OtherOp
  <2> DEFINE marked == [r.applied EXCEPT ![r.pos].deleted = took]
             fs == IF Op.type = "fault" THEN r.faults \cup {Op.fault.op} ELSE r.faults
             injected == r.injected \/ Op.type = "fault"
             x == [r EXCEPT !.applied = marked, !.faults = fs, !.injected = injected]
  <2>3. r' = After(x)
    BY <2>2
  <2> HIDE DEF marked, fs, injected
  <2>4. x.deleted = r.deleted /\ x.pos = r.pos /\ DOMAIN x = RunnerFields
    BY <1>0 DEF RunnerFields
  <2> HIDE DEF x
  <2> QED
    BY <1>2, <2>1, <2>3, <2>4 DEF Late
<1>18. DOMAIN NoteDeletion(r) = RunnerFields /\ NoteDeletion(r).pos = r.pos
  BY <1>0 DEF NoteDeletion, RunnerFields
<1>19. CASE FixtureOp
  <2> DEFINE x == NoteDeletion(r)
  <2>0. /\ r.at = "apply" /\ plan' = plan
        /\ r' \in {After(x), Failed(x), Failed(r), Failed([x EXCEPT !.wait = "kept"])}
    BY <1>19 DEF FixtureOp
  <2>1. CASE r' # After(x)
    <3>1. DOMAIN [x EXCEPT !.wait = "kept"] = RunnerFields
      BY <1>18 DEF RunnerFields
    <3>2. r'.at \notin Live
      BY <1>0, <1>18, <2>0, <2>1, <3>1, OnFromOp
    <3> QED
      BY <1>4, <2>0, <3>2
  <2> SUFFICES ASSUME r' = After(x) PROVE FInv'
    BY <2>1
  <2>2. CASE Op.type # "deleteFixture"
    <3>1. env' = env /\ x = r
      BY <1>19, <2>2 DEF FixtureOp, NoteDeletion
    <3> QED
      BY <1>0, <1>2, <2>0, <3>1 DEF Late
  <2>3. CASE Op.type = "deleteFixture"
    <3>1. x.deleted = r.deleted \cup {r.pos}
      BY <1>0, <2>3 DEF NoteDeletion, RunnerFields
    <3>2. \A f \in env.fixtures : f \in env'.fixtures \/ f = plan[r.pos].key
      BY <1>0, <1>19 DEF FixtureOp, Op, WorldFields
    <3>3. plan[r.pos].type = "deleteFixture" /\ plan[r.pos].until > r.pos
      BY <1>0, <2>3 DEF FInv, Op
    <3> HIDE DEF x
    <3>4. /\ r'.deleted = r.deleted \cup {r.pos}
          /\ \/ r'.at = "begin" /\ r'.pos = r.pos + 1
             \/ r'.at = "wait" /\ r'.pos = r.pos
             \/ r'.at \notin Live
      BY <1>18, <3>1, OnFromOp DEF x
    <3>5. \A f \in RunFixtures :
              f \in env.fixtures \/ \E n \in r.deleted : plan[n].key = f /\ plan[n].until > r.pos
      BY <2>0 DEF FInv, MissingUntil, Live, Late
    <3>6. \A n \in r.deleted : n \in 1 .. r.pos /\ plan[n].type = "deleteFixture"
      BY <2>0 DEF FInv, Live, Late
    <3>7. ASSUME NEW f \in RunFixtures
          PROVE  \/ f \in env'.fixtures
                 \/ \E n \in r'.deleted : plan[n].key = f /\ plan[n].until > r.pos
      BY <3>2, <3>3, <3>4, <3>5
    <3>8. CASE r'.at = "begin" /\ r'.pos = r.pos + 1
      <4>1. \A n \in r'.deleted : n \in 1 .. r'.pos /\ plan[n].type = "deleteFixture"
        BY <1>0, <3>3, <3>4, <3>6, <3>8
      <4>2. r'.at \notin Late /\ r'.at # "restore"
        BY <3>8 DEF Late
      <4> QED
        BY <2>0, <3>7, <4>1, <4>2 DEF FInv, MissingUntil
    <3>9. CASE r'.at = "wait" /\ r'.pos = r.pos
      <4>1. \A n \in r'.deleted : n \in 1 .. r'.pos /\ plan[n].type = "deleteFixture"
        BY <1>0, <3>3, <3>4, <3>6, <3>9
      <4> QED
        BY <2>0, <3>7, <3>9, <4>1 DEF FInv, MissingUntil
    <3> QED
      BY <1>4, <2>0, <3>4, <3>8, <3>9
  <2> QED
    BY <2>2, <2>3
<1>20. CASE OpFails
  <2>1. r' = Failed(NoteDeletion(r)) /\ plan' = plan
    BY <1>20 DEF OpFails
  <2> QED
    BY <1>4, <1>18, <2>1, OnFromOp
<1>21. CASE WaitEnds
  <2>1. r.at \in {"wait", "recover"} /\ plan' = plan /\ env.fixtures \subseteq env'.fixtures
    BY <1>1, <1>21 DEF WaitEnds
  <2>2. CASE r' \in {Failed(r), RecoveryFailed(r)}
    BY <1>0, <1>3, <2>1, <2>2
  <2>3. CASE \E end : r' = [r EXCEPT !.wait = end, !.at = IF @ = "wait" THEN "judge" ELSE "judgeRecovery"]
    <3>1. /\ r'.at = IF r.at = "wait" THEN "judge" ELSE "judgeRecovery"
          /\ r'.pos = r.pos /\ r'.deleted = r.deleted
      BY <1>0, <2>3 DEF RunnerFields
    <3> QED
      BY <2>1, <3>1, FixturesStay DEF Late, Live
  <2> QED
    BY <1>21, <2>2, <2>3 DEF WaitEnds
<1>22. CASE Judge
  <2>1. r.at \in {"judge", "judgeRecovery"} /\ plan' = plan /\ env' = env
    BY <1>22 DEF Judge
  <2>2. CASE r' \in {Failed(r), RecoveryFailed(r)}
    BY <1>0, <1>3, <2>1, <2>2
  <2>3. CASE r' = [r EXCEPT !.at = IF @ = "judge" THEN "check" ELSE "checkRecovery"]
    <3>1. /\ r'.at = IF r.at = "judge" THEN "check" ELSE "checkRecovery"
          /\ r'.pos = r.pos /\ r'.deleted = r.deleted
      BY <1>0, <2>3 DEF RunnerFields
    <3> QED
      BY <2>1, <3>1, FixturesStay DEF Late, Live
  <2> QED
    BY <1>22, <2>2, <2>3 DEF Judge
<1>23. CASE Check
  <2> DEFINE point == IF r.at = "check" THEN r.pos ELSE Recovery
             judged == [r EXCEPT !.judged = Append(@, point)]
             fail(x) == IF r.at = "check" THEN Failed(x) ELSE RecoveryFailed(x)
             Same(x) == x.deleted = r.deleted /\ x.pos = r.pos /\ DOMAIN x = RunnerFields
  <2>1. /\ r.at \in {"check", "checkRecovery"} /\ plan' = plan
        /\ env.fixtures \subseteq env'.fixtures
    BY <1>1, <1>23 DEF Check
  <2> HIDE DEF point
  <2>2. ASSUME NEW v
        PROVE  Same(violate(judged, v)) /\ Same([violate(judged, v) EXCEPT !.stopped = TRUE])
    BY <1>0 DEF violate, RunnerFields
  <2> HIDE DEF judged
  <2>3. PICK v \in Reports :
              \/ r' \in {fail(r), fail(violate(judged, IF v = "G4" THEN v ELSE "none"))}
                 /\ CallFails(env)
              \/ /\ env' = env
                 /\ r' \in CASE r.at = "checkRecovery" -> {[violate(judged, v) EXCEPT !.at = "quiet"]}
                             [] r.at = "check" /\ r.wait = "stayed" /\ v = "none" ->
                                   {fail(violate(judged, v)),
                                    NextOp([violate(judged, v) EXCEPT !.stopped = TRUE])}
                             [] OTHER -> {NextOp(violate(judged, v))}
    BY <1>23 DEF Check, judged, point
  <2> DEFINE x == violate(judged, v)
             y == [x EXCEPT !.stopped = TRUE]
             z == violate(judged, IF v = "G4" THEN v ELSE "none")
  <2>4. Same(x) /\ Same(y) /\ Same(z) /\ Same(r)
    BY <1>0, <2>2
  <2>5. \/ r' \in {fail(r), fail(x), fail(z)}
        \/ r' = [x EXCEPT !.at = "quiet"]
        \/ r.at = "check" /\ r' \in {NextOp(x), NextOp(y)}
    <3>1. CASE r' \in {fail(r), fail(z)} /\ CallFails(env)
      BY <3>1
    <3>2. CASE ~(r' \in {fail(r), fail(z)} /\ CallFails(env)) /\ r.at = "checkRecovery"
      BY <2>3, <3>2
    <3>3. CASE ~(r' \in {fail(r), fail(z)} /\ CallFails(env)) /\ r.at = "check"
      <4>1. CASE r.wait = "stayed" /\ v = "none"
        BY <2>3, <3>3, <4>1
      <4>2. CASE ~(r.wait = "stayed" /\ v = "none")
        BY <2>3, <3>3, <4>2
      <4> QED
        BY <4>1, <4>2
    <3> QED
      BY <2>1, <3>1, <3>2, <3>3
  <2> HIDE DEF x, y, z
  <2>6. CASE r' \in {fail(r), fail(x), fail(z)}
    BY <1>3, <2>1, <2>4, <2>6
  <2>7. CASE r' = [x EXCEPT !.at = "quiet"]
    <3>1. r'.at \notin Live
      BY <2>4, <2>7 DEF RunnerFields, Live, Late
    <3> QED
      BY <2>1, <3>1 DEF FInv
  <2>8. CASE r.at = "check" /\ r' \in {NextOp(x), NextOp(y)}
    BY <1>2, <2>1, <2>4, <2>8 DEF Late
  <2> QED
    BY <2>5, <2>6, <2>7, <2>8
<1>24. CASE BeginTeardown \/ Quiet \/ AwaitClean
  <2>1. r'.at \notin Live /\ plan' = plan
    BY <1>0, <1>24 DEF BeginTeardown, Quiet, AwaitClean, RunnerFields, Live, Late
  <2> QED
    BY <2>1 DEF FInv
<1>25. CASE DeleteCRs \/ Verdict \/ Empty \/ ForceFinalizers \/ StopHarness
  <2>1. r'.at \notin Live /\ plan' = plan
    <3>1. CASE DeleteCRs
      BY <1>0, <3>1 DEF DeleteCRs, RunnerFields, Live, Late
    <3>2. CASE Verdict
      BY <1>0, <3>2 DEF Verdict, cutFails, violate, RunnerFields, Live, Late
    <3>3. CASE Empty
      BY <1>0, <3>3 DEF Empty, RunnerFields, Live, Late
    <3>4. CASE ForceFinalizers
      BY <1>0, <3>4 DEF ForceFinalizers, RunnerFields, Live, Late
    <3>5. CASE StopHarness
      BY <1>0, <3>5 DEF StopHarness, RunnerFields, Live, Late
    <3> QED
      BY <1>25, <3>1, <3>2, <3>3, <3>4, <3>5
  <2> QED
    BY <2>1 DEF FInv
<1>26. ASSUME UNCHANGED <<plan, r>>, env.fixtures \subseteq env'.fixtures PROVE FInv'
  BY <1>26, FixturesStay
<1>27. CASE Interrupt \/ TargetStops
  BY <1>0, <1>26, <1>27 DEF Interrupt, TargetStops, Acting, WorldFields
<1>28. ASSUME NEW f, Meddle(f) PROVE FInv'
  BY <1>0, <1>26, <1>28 DEF Meddle, Acting, WorldFields
<1>29. ASSUME NEW cr, CRGoes(cr) PROVE FInv'
  BY <1>0, <1>26, <1>29 DEF CRGoes, Acting, WorldFields
<1>30. CASE HarnessMoves \/ Ended \/ UNCHANGED vars
  BY <1>26, <1>30 DEF HarnessMoves, Ended, vars, runnerVars
<1> QED
  BY <1>10, <1>11, <1>12, <1>13, <1>14, <1>15, <1>16, <1>17, <1>19, <1>20, <1>21, <1>22,
     <1>23, <1>24, <1>25, <1>27, <1>28, <1>29, <1>30 DEF Next, RunnerMoves

\* The timeline says of each op whether a fixture was created again at it, where
\* a later one of the same op failed too (restoreFixtures).
LEMMA RestorationsAreTrue == Spec => []RestoredIsTrue
<1>1. RInv => RestoredIsTrue
  <2> SUFFICES ASSUME RInv, NEW n \in DOMAIN r.applied
               PROVE  r.applied[n].restored = (n \in env.restores)
    BY DEF RestoredIsTrue
  <2>1. r.applied \in Seq(Marks) /\ n \in 1 .. Len(r.applied)
    BY DEF RInv, Tracked, Core
  <2>2. r.applied[n] \in Marks /\ TRUE \in BOOLEAN
    BY <2>1
  <2>3. r.applied[n].restored \in BOOLEAN
    BY <2>2, Marked
  <2>4. r.applied[n].restored <=> n \in env.restores
    BY <2>1 DEF RInv, Restorations
  <2> QED
    BY <2>4, <2>3
<1> QED
  BY <1>1, RunnerInductive, PTL

\* Fixtures come back when they are due, and the timeline says where: the
\* Runner never waits for the target without a fixture unless an op deleted it
\* until a later one, whatever else creates fixtures, fails or interrupts
\* (restoreFixtures, applyToFixture).
THEOREM FixturesAreRestored == Spec => []FixturesRestored
<1>1. Spec => []FInv
  BY InitFInv, StepFInv, RunnerInductive, PTL DEF Spec
<1>2. RInv /\ FInv => FixturesThere
  BY DEF FInv, MissingUntil, FixturesThere, Live, Late
<1> QED
  BY <1>1, <1>2, RunnerInductive, RestorationsAreTrue, PTL DEF FixturesRestored

-----------------------------------------------------------------------------
(* What validateRun's check of the sequence rests on. *)

\* The sequence is one that validateRun passed.
Planned == \E run \in Runs : plan = run.plan

\* The ops that decide whether a CR is there.
Decides(op, cr) == op.key = cr /\ op.type \in {"create", "recreate", "delete"}

\* What validateRun says of the sequence.
LEMMA PlanChecked ==
    ASSUME Planned
    PROVE  /\ Len(plan) \in Nat /\ DOMAIN plan = 1 .. Len(plan)
           /\ ValidFixtures(plan) /\ ValidCRs(plan)
           /\ \A n \in 1 .. Len(plan) : plan[n].until \in Nat /\ plan[n].type \in OpTypes
<1>1. PICK run \in Runs : plan = run.plan
  BY DEF Planned
<1>2. /\ plan \in Seq(Range(plan)) /\ Valid(plan) /\ ValidCRs(plan)
      /\ \A n \in DOMAIN plan : plan[n].until \in Nat
  BY <1>1, RunnerConstants
<1> QED
  BY <1>2 DEF Valid, ValidOp

\* An op that acts on a fixture comes no sooner than an earlier deletion of it is
\* over: validate looks at the last one only, and that is enough.
LEMMA FixturesApart ==
    ASSUME Planned, NEW p \in 1 .. Len(plan), plan[p].type \in FixtureOps,
           NEW n \in 1 .. p - 1, plan[n].type = "deleteFixture", plan[n].key = plan[p].key
    PROVE  plan[n].until <= p
<1> DEFINE k == plan[p].key
           S == {m \in n + 1 .. p : plan[m].type \in FixtureOps /\ plan[m].key = k}
<1>0. Len(plan) \in Nat /\ p \in Nat /\ n \in Nat
  BY PlanChecked
<1>1. S \in SUBSET Nat /\ p \in S
  BY <1>0
<1>2. PICK m \in S : \A l \in S : m <= l
  <2> HIDE DEF S
  <2> QED
    BY <1>1, LeastOf
<1>3. m \in Nat /\ n < m /\ m <= p /\ plan[m].type \in FixtureOps /\ plan[m].key = k
  BY <1>0, <1>1, <1>2
<1> DEFINE I == {i \in 1 .. m - 1 : plan[i].type = "deleteFixture" /\ plan[i].key = k}
<1>4. n \in I /\ I \subseteq Nat
  BY <1>0, <1>3
<1>5. \A i \in I : i <= n
  <2> SUFFICES ASSUME NEW i \in I, ~(i <= n) PROVE FALSE
    OBVIOUS
  <2>1. i \in S /\ i < m
    BY <1>0, <1>3 DEF FixtureOps
  <2> QED
    BY <1>2, <1>3, <2>1
<1>6. LastDeletion(plan, k, m) = n
  <2>1. LastDeletion(plan, k, m) = IF I # {} THEN Max(I) ELSE 0
    BY DEF LastDeletion, SelectLastInSubSeq
  <2> HIDE DEF I
  <2>2. \A x \in I : (\A y \in I : x >= y) <=> x = n
    BY <1>0, <1>4, <1>5
  <2>3. Max(I) = n
    BY <1>4, <2>2 DEF Max
  <2> QED
    BY <1>4, <2>1, <2>3
<1>7. m >= plan[n].until
  <2>1. m \in DOMAIN plan
    BY <1>0, <1>3, PlanChecked
  <2> QED
    BY <1>0, <1>3, <1>6, <2>1, PlanChecked DEF ValidFixtures
<1> QED
  BY <1>0, <1>3, <1>7, PlanChecked

\* What checkCRs reads of an earlier op on a CR: the last that decided on it.
LEMMA FateFound ==
    ASSUME NEW cr, NEW p \in Nat,
           LastFate(plan, cr, p) # 0 \/ \E n \in 1 .. p - 1 : Decides(plan[n], cr)
    PROVE  LET d == LastFate(plan, cr, p)
           IN  /\ d \in 1 .. p - 1 /\ Decides(plan[d], cr)
               /\ \A m \in d + 1 .. p - 1 : ~Decides(plan[m], cr)
<1> DEFINE I == {i \in 1 .. p - 1 : Decides(plan[i], cr)}
<1>1. LastFate(plan, cr, p) = IF I # {} THEN Max(I) ELSE 0
  BY DEF LastFate, SelectLastInSubSeq, Decides
<1>2. I # {} /\ I \in SUBSET (0 .. p)
  BY <1>1
<1>3. \E x \in I : \A y \in I : y <= x
  <2> HIDE DEF I
  <2> QED
    BY <1>2, GreatestOf
<1>4. Max(I) \in I /\ \A y \in I : y <= Max(I)
  <2> HIDE DEF I
  <2>1. \E x \in I : \A y \in I : x >= y
    BY <1>2, <1>3
  <2>2. Max(I) \in I /\ \A y \in I : Max(I) >= y
    BY <2>1 DEF Max
  <2> QED
    BY <1>2, <2>2
<1> DEFINE d == Max(I)
<1>5. LastFate(plan, cr, p) = d /\ d \in I /\ \A y \in I : y <= d
  BY <1>1, <1>2, <1>4
<1> HIDE DEF d
<1>6. \A m \in d + 1 .. p - 1 : m \notin I
  BY <1>5
<1> QED
  BY <1>5, <1>6

\* A create of a CR an earlier op decided on comes after a delete and a wait.
LEMMA CreateChecked ==
    ASSUME Planned, NEW p \in 1 .. Len(plan), plan[p].type = "create",
           \E n \in 1 .. p - 1 : Decides(plan[n], plan[p].key)
    PROVE  \E d \in 1 .. p - 1 :
              /\ Decides(plan[d], plan[p].key) /\ plan[d].type = "delete"
              /\ \A m \in d + 1 .. p - 1 : ~Decides(plan[m], plan[p].key)
              /\ \E m \in d .. p - 1 : Settles(plan[m])
<1>0. Len(plan) \in Nat /\ p \in Nat /\ p \in DOMAIN plan /\ plan[p].type \in CROps
  BY PlanChecked DEF CROps
<1> DEFINE d == LastFate(plan, plan[p].key, p)
<1>1. /\ d \in 1 .. p - 1 /\ Decides(plan[d], plan[p].key)
      /\ \A m \in d + 1 .. p - 1 : ~Decides(plan[m], plan[p].key)
  BY <1>0, FateFound
<1>2. plan[d].type = "delete" /\ NextSettling(plan, d) \in d .. p - 1
  <2>1. /\ ~(d # 0 /\ plan[d].type # "delete")
        /\ d # 0 => NextSettling(plan, d) \in d .. p - 1
    BY <1>0, PlanChecked DEF ValidCRs
  <2> QED
    BY <1>0, <1>1, <2>1
<1> HIDE DEF d
<1> DEFINE I == {i \in d .. Len(plan) : Settles(plan[i])}
<1>3. NextSettling(plan, d) = IF I # {} THEN Min(I) ELSE 0
  BY DEF NextSettling, SelectInSubSeq
<1>4. I # {} /\ I \in SUBSET Nat
  BY <1>0, <1>1, <1>2, <1>3
<1>5. Min(I) \in I
  <2> HIDE DEF I
  <2>1. \E x \in I : \A y \in I : x <= y
    BY <1>4, LeastOf
  <2> QED
    BY <2>1 DEF Min
<1>6. NextSettling(plan, d) \in I
  BY <1>3, <1>4, <1>5
<1> QED
  BY <1>1, <1>2, <1>6

\* An update acts on a CR the last op that decided on it created.
LEMMA UpdateChecked ==
    ASSUME Planned, NEW p \in 1 .. Len(plan), plan[p].type = "update"
    PROVE  \E d \in 1 .. p - 1 :
              /\ Decides(plan[d], plan[p].key) /\ plan[d].type # "delete"
              /\ \A m \in d + 1 .. p - 1 : ~Decides(plan[m], plan[p].key)
<1>0. Len(plan) \in Nat /\ p \in Nat /\ p \in DOMAIN plan /\ plan[p].type \in CROps
  BY PlanChecked DEF CROps
<1> DEFINE d == LastFate(plan, plan[p].key, p)
<1>1. d # 0 /\ plan[d].type # "delete"
  BY <1>0, PlanChecked DEF ValidCRs
<1>2. /\ d \in 1 .. p - 1 /\ Decides(plan[d], plan[p].key)
      /\ \A m \in d + 1 .. p - 1 : ~Decides(plan[m], plan[p].key)
  BY <1>0, <1>1, FateFound
<1> QED
  BY <1>1, <1>2


(* A run that nothing goes wrong around. *)

\* How a CR may be, and the places before an op is tried.
Fates == {"absent", "live", "deleting"}
Before == {"start", "begin", "restore", "apply"}

\* What the first b ops say of a CR that is there, or is not: it is there only if
\* one of them decided on it, and as the last that did left it.  A deletion that
\* an op up to sofar waited for is over, unless a fault excused the wait.
Known(ops, b, sofar, excused, cr, there) ==
    /\ there # "absent" => \E n \in 1 .. b : Decides(ops[n], cr)
    /\ \A n \in 1 .. b : Decides(ops[n], cr) /\ (\A m \in n + 1 .. b : ~Decides(ops[m], cr)) =>
          IF ops[n].type # "delete" THEN there = "live"
          ELSE /\ there # "live"
               /\ ~excused /\ (\E m \in n .. sofar : Settles(ops[m])) => there = "absent"

KnownBy(cr, b) == Known(plan, b, r.pos - 1, r.injected, cr, env.crs[cr])

\* Each CR is as the ops left it, but for the one that a recreate is deleting.
CRsKnown ==
    /\ r.at \in Before => \A cr \in DOMAIN env.crs : KnownBy(cr, r.pos - 1)
    /\ r.at = "gone" =>
          /\ Op.type = "recreate"
          /\ \A cr \in DOMAIN env.crs \ {Op.key} : KnownBy(cr, r.pos - 1)
    /\ r.at = "wait" \/ (r.at \in {"judge", "check"} /\ r.wait # "stayed") =>
          \A cr \in DOMAIN env.crs : KnownBy(cr, r.pos)
    /\ r.at \in {"judge", "check"} =>
          (r.wait = "stayed" => Op.type = "recreate") /\ (r.wait = "converged" => ready)

\* The fixtures on the list of deleted ones are gone, each by one op.
FixturesKnown ==
    r.at \in Live =>
        /\ \A n, m \in r.deleted : plan[n].key = plan[m].key => n = m
        /\ r.at \in Before => \A n \in r.deleted : n < r.pos
        /\ r.at = "restore" => r.restoring \subseteq r.deleted
        /\ \A n \in r.deleted :
              r.at # "restore" \/ n \in r.restoring \/ plan[n].until > r.pos =>
                  plan[n].key \notin env.fixtures

\* What may end a run in an error.
Cause ==
    /\ Len(r.applied) = r.pos
    /\ \/ Unknown \/ Refused
       \/ Op.type = "deleteFixture" /\ r.wait = "kept"
       \/ r.injected /\ Op.type = "recreate" /\ r.wait = "stayed"
       \/ /\ r.injected /\ Op.type = "create"
          /\ \E n \in 1 .. r.pos - 1 : plan[n].type = "delete" /\ plan[n].key = Op.key

\* Where a run that has failed may be.
Ending == {"teardown", "quiet", "delete", "clean", "verdict", "empty", "force", "stop",
           "result"}

\* No call has failed, and nothing interrupted or stopped the run.
Calm ==
    /\ ~env.ended /\ env.running /\ r.cut = FALSE
    /\ r.failed => r.at \in Ending
    /\ r.errors # {} => r.failed /\ Cause

\* The inductive invariant: all of it of a run that nothing has gone wrong around.
CInv ==
    /\ Planned
    /\ \A n \in 1 .. Len(plan) : plan[n].type \in CROps => plan[n].key \in DOMAIN env.crs
    /\ \A cr \in DOMAIN env.crs : env.crs[cr] \in Fates
    /\ env.mishaps \in Nat
    /\ env.mishaps = 0 => Calm /\ CRsKnown /\ FixturesKnown

\* A run starts with no CR there, every fixture there, and nothing gone wrong.
LEMMA InitCInv == Init => CInv
<1> SUFFICES ASSUME Init PROVE CInv
  OBVIOUS
<1>1. Planned
  BY DEF Init, RunnerInit, Planned
<1>2. /\ r.at = "start" /\ r.pos = 1 /\ r.deleted = {} /\ r.injected = FALSE /\ r.failed = FALSE
      /\ r.errors = {} /\ r.cut = FALSE
  BY DEF Init, RunnerInit
<1>3. env.running = TRUE /\ env.ended = FALSE /\ env.mishaps = 0
  BY DEF Init, RunnerInit
<1>4. env.crs = [cr \in {plan[n].key : n \in {m \in DOMAIN plan : plan[m].type \in CROps}}
                    |-> "absent"]
  BY DEF Init, RunnerInit
<1>5. \A n \in 1 .. Len(plan) : plan[n].type \in CROps => plan[n].key \in DOMAIN env.crs
  BY <1>1, <1>4, PlanChecked
<1>6. \A cr \in DOMAIN env.crs : env.crs[cr] = "absent"
  BY <1>4
<1>7. CRsKnown
  BY <1>2, <1>6 DEF CRsKnown, KnownBy, Known, Before
<1>8. FixturesKnown
  BY <1>2 DEF FixturesKnown
<1>9. Calm
  BY <1>2, <1>3 DEF Calm
<1> QED
  BY <1>1, <1>3, <1>5, <1>6, <1>7, <1>8, <1>9 DEF CInv, Fates

\* A CR that neither changes nor is decided on stays known, up to the next op,
\* where a wait leaves none under deletion.
LEMMA StaysKnown ==
    ASSUME NEW ops, NEW b \in Nat, NEW c, NEW sofar \in Int, NEW over, NEW was,
           NEW is, NEW cr, NEW there \in Fates, Known(ops, b, sofar, was, cr, there),
           c = b \/ (c = b + 1 /\ ~Decides(ops[c], cr)),
           was => is,
           \/ over = sofar
           \/ over = sofar + 1 /\ (Settles(ops[over]) => is \/ there # "deleting")
    PROVE  Known(ops, c, over, is, cr, there)
<1>1. there # "absent" => \E n \in 1 .. c : Decides(ops[n], cr)
  BY DEF Known
<1>2. ASSUME NEW n \in 1 .. c, Decides(ops[n], cr), \A m \in n + 1 .. c : ~Decides(ops[m], cr)
      PROVE  IF ops[n].type # "delete" THEN there = "live"
             ELSE /\ there # "live"
                  /\ ~is /\ (\E m \in n .. over : Settles(ops[m])) => there = "absent"
  <2>1. n \in 1 .. b /\ \A m \in n + 1 .. b : ~Decides(ops[m], cr)
    BY <1>2
  <2>2. IF ops[n].type # "delete" THEN there = "live"
        ELSE /\ there # "live"
             /\ ~was /\ (\E m \in n .. sofar : Settles(ops[m])) => there = "absent"
    BY <1>2, <2>1 DEF Known
  <2>3. ASSUME NEW m \in n .. over, Settles(ops[m]), ~is, there # "live"
        PROVE  there # "deleting" \/ m \in n .. sofar
    BY <2>1, <2>3
  <2> QED
    BY <2>2, <2>3 DEF Fates
<1> QED
  BY <1>1, <1>2 DEF Known

\* The op that decides on a CR makes it known.
LEMMA DecidedKnown ==
    ASSUME NEW ops, NEW b \in Nat \ {0}, NEW sofar, NEW is, NEW cr, NEW there \in Fates,
           Decides(ops[b], cr),
           IF ops[b].type # "delete" THEN there = "live" ELSE there # "live",
           sofar = b - 1 \/ (sofar = b /\ ~Settles(ops[b]))
    PROVE  Known(ops, b, sofar, is, cr, there)
<1>1. b \in 1 .. b
  OBVIOUS
<1>2. ASSUME NEW n \in 1 .. b, \A m \in n + 1 .. b : ~Decides(ops[m], cr) PROVE n = b
  BY <1>2
<1>3. ~ \E m \in b .. sofar : Settles(ops[m])
  OBVIOUS
<1> QED
  BY <1>1, <1>2, <1>3 DEF Known

\* So does the end of a deletion.
LEMMA GoneKnown ==
    ASSUME NEW ops, NEW b, NEW sofar, NEW is, NEW cr, Known(ops, b, sofar, is, cr, "deleting")
    PROVE  Known(ops, b, sofar, is, cr, "absent")
BY DEF Known

\* Going on from an op, or giving up on it, keeps the rest of the record.
LEMMA OnKeeps ==
    ASSUME NEW x, DOMAIN x = RunnerFields,
           NEW y \in {Failed(x), RecoveryFailed(x), NextOp(x), After(x)}
    PROVE  /\ y.applied = x.applied /\ y.injected = x.injected /\ y.wait = x.wait
           /\ y.deleted = x.deleted /\ y.cut = x.cut
BY DEF Failed, RecoveryFailed, NextOp, After, RunnerFields

\* Where it goes on to, and that going on adds no error.
LEMMA OnWithoutError ==
    ASSUME NEW x, DOMAIN x = RunnerFields
    PROVE  /\ NextOp(x).errors = x.errors /\ NextOp(x).failed = x.failed
           /\ After(x).errors = x.errors /\ After(x).failed = x.failed
           /\ \/ /\ NextOp(x).at = "begin" /\ NextOp(x).pos = x.pos + 1
                 /\ x.violation = "none" /\ ~x.stopped
              \/ NextOp(x).at = "teardown" /\ NextOp(x).pos = x.pos
           /\ \/ After(x).at = "begin" /\ After(x).pos = x.pos + 1 /\ ~Settles(Op)
              \/ After(x).at = "wait" /\ After(x).pos = x.pos
              \/ After(x).at = "teardown" /\ After(x).pos = x.pos
           /\ Failed(x).at = "teardown" /\ Failed(x).failed = TRUE /\ Failed(x).pos = x.pos
BY DEF Failed, NextOp, After, RunnerFields

\* What every step keeps of the sequence and of the world.
LEMMA WorldSteps ==
    ASSUME RInv, CInv, [Next]_vars
    PROVE  /\ plan' = plan /\ DOMAIN env'.crs = DOMAIN env.crs
           /\ \A cr \in DOMAIN env.crs : env'.crs[cr] \in Fates
           /\ env'.mishaps \in Nat /\ env.mishaps <= env'.mishaps /\ env'.refused = env.refused
<1> DEFINE Kept(e) == /\ DOMAIN e.crs = DOMAIN env.crs /\ e.refused = env.refused
                      /\ e.mishaps \in Nat /\ env.mishaps <= e.mishaps
                      /\ \A cr \in DOMAIN env.crs : e.crs[cr] \in Fates
<1> SUFFICES plan' = plan /\ Kept(env')
  OBVIOUS
<1>0. DOMAIN env = WorldFields /\ env.mishaps \in Nat /\ Kept(env)
  BY DEF RInv, CInv
<1>1. ASSUME NEW e, DOMAIN e = WorldFields, Kept(e), CallFails(e) PROVE Kept(env')
  <2>1. /\ env'.crs = e.crs /\ env'.mishaps \in {e.mishaps, e.mishaps + 1}
        /\ env'.refused = e.refused
    BY <1>1 DEF CallFails, WorldFields
  <2> QED
    BY <1>0, <1>1, <2>1
<1>2. ASSUME NEW k, NEW v \in Fates, NEW e, e = [env EXCEPT !.crs[k] = v]
      PROVE  DOMAIN e = WorldFields /\ Kept(e)
  <2>1. /\ e.mishaps = env.mishaps /\ e.crs = [env.crs EXCEPT ![k] = v]
        /\ DOMAIN e = WorldFields /\ e.refused = env.refused
    BY <1>0, <1>2 DEF WorldFields
  <2> QED
    BY <1>0, <1>2, <2>1
<1>3. "live" \in Fates /\ "absent" \in Fates /\ "deleting" \in Fates
  BY DEF Fates
<1>4. ASSUME env'.crs = env.crs, env'.mishaps \in {env.mishaps, env.mishaps + 1},
             env'.refused = env.refused
      PROVE  Kept(env')
  BY <1>0, <1>4
<1>5. ASSUME NEW fs, NEW e, e = [env EXCEPT !.fixtures = fs]
      PROVE  DOMAIN e = WorldFields /\ Kept(e)
  <2>1. /\ e.crs = env.crs /\ e.mishaps = env.mishaps /\ e.refused = env.refused
        /\ DOMAIN e = WorldFields
    BY <1>0, <1>5 DEF WorldFields
  <2> QED
    BY <1>0, <2>1
<1>10. CASE OpFails
  <2>1. /\ plan' = plan
        /\ \/ CallFails(env) \/ CallFails([env EXCEPT !.crs[Op.key] = "live"])
           \/ CallFails([env EXCEPT !.crs[Op.key] = "deleting"])
           \/ CallFails([env EXCEPT !.fixtures = env.fixtures \ {Op.key}])
    BY <1>10 DEF OpFails
  <2>2. CASE CallFails(env)
    BY <1>0, <1>1, <2>1, <2>2
  <2>3. CASE CallFails([env EXCEPT !.crs[Op.key] = "live"])
    BY <1>1, <1>2, <1>3, <2>1, <2>3
  <2>4. CASE CallFails([env EXCEPT !.crs[Op.key] = "deleting"])
    BY <1>1, <1>2, <1>3, <2>1, <2>4
  <2>5. CASE CallFails([env EXCEPT !.fixtures = env.fixtures \ {Op.key}])
    BY <1>1, <1>5, <2>1, <2>5
  <2> QED
    BY <2>1, <2>2, <2>3, <2>4, <2>5
<1>11. CASE Restore
  <2>1. /\ plan' = plan
        /\ \/ env' = env \/ \E f : createFixture(f)
           \/ \E f : \E back \in SUBSET {f} :
                 CallFails([env EXCEPT !.fixtures = env.fixtures \cup back])
    BY <1>11 DEF Restore
  <2>2. ASSUME NEW f, createFixture(f) PROVE Kept(env')
    BY <1>0, <1>4, <2>2 DEF createFixture, WorldFields
  <2>3. ASSUME NEW back, CallFails([env EXCEPT !.fixtures = env.fixtures \cup back]) PROVE Kept(env')
    BY <1>1, <1>5, <2>3
  <2> QED
    BY <1>0, <2>1, <2>2, <2>3
<1>12. CASE CreateCR
  <2>1. plan' = plan /\ (env' = env \/ env' = [env EXCEPT !.crs[Op.key] = "live"])
    BY <1>12 DEF CreateCR
  <2> QED
    BY <1>0, <1>2, <1>3, <2>1
<1>13. CASE ChangeCR
  <2>1. plan' = plan /\ (env' = env \/ env' = [env EXCEPT !.crs[Op.key] = "deleting"])
    BY <1>13 DEF ChangeCR
  <2> QED
    BY <1>0, <1>2, <1>3, <2>1
<1>14. CASE FixtureOp
  <2>1. plan' = plan /\ (env' = env \/ env' = [env EXCEPT !.fixtures = @ \ {Op.key}])
    BY <1>14 DEF FixtureOp
  <2>2. env'.crs = env.crs /\ env'.mishaps = env.mishaps /\ env'.refused = env.refused
    BY <1>0, <2>1 DEF WorldFields
  <2> QED
    BY <1>4, <2>1, <2>2
<1>15. CASE DeleteCRs
  <2>1. PICK took \in SUBSET r.crs :
            env' = [env EXCEPT
                      !.crs = [cr \in DOMAIN env.crs |->
                                  IF cr \in took /\ env.crs[cr] = "live" THEN "deleting"
                                  ELSE env.crs[cr]],
                      !.mishaps = env.mishaps + IF took = r.crs THEN 0 ELSE 1]
    BY <1>15 DEF DeleteCRs
  <2>2. /\ env'.mishaps \in {env.mishaps, env.mishaps + 1} /\ env'.refused = env.refused
        /\ env'.crs = [cr \in DOMAIN env.crs |->
                          IF cr \in took /\ env.crs[cr] = "live" THEN "deleting"
                          ELSE env.crs[cr]]
    BY <1>0, <2>1 DEF WorldFields
  <2>3. plan' = plan
    BY <1>15 DEF DeleteCRs
  <2> QED
    BY <1>0, <1>3, <2>2, <2>3
<1>16. CASE Empty \/ ForceFinalizers
  <2>1. ASSUME NEW S, NEW to \in Fates, env'.mishaps \in {env.mishaps, env.mishaps + 1},
               env'.refused = env.refused,
               env'.crs = [cr \in DOMAIN env.crs |-> IF cr \in S THEN to ELSE env.crs[cr]]
        PROVE  Kept(env')
    BY <1>0, <2>1
  <2>2. CASE Empty
    <3>1. PICK took \in SUBSET leftBehind :
             \E crs \in {[cr \in DOMAIN env.crs |-> IF cr \in took THEN "deleting" ELSE env.crs[cr]]} :
                \/ env' = [env EXCEPT !.crs = crs, !.fixtures = {}]
                \/ env' = [env EXCEPT !.crs = crs, !.mishaps = @ + 1]
      BY <2>2 DEF Empty
    <3>2. /\ env'.mishaps \in {env.mishaps, env.mishaps + 1} /\ env'.refused = env.refused
          /\ env'.crs = [cr \in DOMAIN env.crs |-> IF cr \in took THEN "deleting" ELSE env.crs[cr]]
      BY <1>0, <3>1 DEF WorldFields
    <3>3. plan' = plan
      BY <2>2 DEF Empty
    <3> QED
      BY <1>3, <2>1, <3>2, <3>3
  <2>3. CASE ForceFinalizers
    <3>1. PICK freed \in SUBSET {cr \in DOMAIN env.crs : env.crs[cr] = "deleting"} :
             \E crs \in {[cr \in DOMAIN env.crs |-> IF cr \in freed THEN "absent" ELSE env.crs[cr]]} :
                \/ env' = [env EXCEPT !.crs = crs]
                \/ env' = [env EXCEPT !.crs = crs, !.mishaps = @ + 1]
      BY <2>3 DEF ForceFinalizers
    <3>2. /\ env'.mishaps \in {env.mishaps, env.mishaps + 1} /\ env'.refused = env.refused
          /\ env'.crs = [cr \in DOMAIN env.crs |-> IF cr \in freed THEN "absent" ELSE env.crs[cr]]
      BY <1>0, <3>1 DEF WorldFields
    <3>3. plan' = plan
      BY <2>3 DEF ForceFinalizers
    <3> QED
      BY <1>3, <2>1, <3>2, <3>3
  <2> QED
    BY <1>16, <2>2, <2>3
<1>17. CASE Interrupt \/ TargetStops \/ \E f \in RunFixtures : Meddle(f)
  <2>1. /\ plan' = plan /\ env'.crs = env.crs /\ env'.mishaps = env.mishaps + 1
        /\ env'.refused = env.refused
    BY <1>0, <1>17 DEF Interrupt, TargetStops, Meddle, Acting, WorldFields
  <2> QED
    BY <1>4, <2>1
<1>18. CASE \E cr \in DOMAIN env.crs : CRGoes(cr)
  <2>1. PICK cr \in DOMAIN env.crs : CRGoes(cr)
    BY <1>18
  <2>2. plan' = plan /\ env' = [env EXCEPT !.crs[cr] = "absent"]
    BY <2>1 DEF CRGoes, Acting
  <2> QED
    BY <1>2, <1>3, <2>2
<1>19. CASE \/ StartRun \/ BeginOp \/ RestoreDone \/ CRStays \/ OtherOp \/ WaitEnds \/ Judge \/ Check
            \/ BeginTeardown \/ Quiet \/ AwaitClean \/ Verdict \/ StopHarness
  <2>1. plan' = plan /\ (env' = env \/ CallFails(env))
    BY <1>19 DEF StartRun, BeginOp, RestoreDone, CRStays, OtherOp, WaitEnds, Judge, Check,
       BeginTeardown, Quiet, AwaitClean, Verdict, StopHarness
  <2> QED
    BY <1>0, <1>1, <2>1
<1>20. CASE HarnessMoves \/ Ended \/ UNCHANGED vars
  <2>1. plan' = plan /\ env' = env
    BY <1>20 DEF HarnessMoves, Ended, vars, runnerVars
  <2> QED
    BY <1>0, <2>1
<1> QED
  BY <1>10, <1>11, <1>12, <1>13, <1>14, <1>15, <1>16, <1>17, <1>18, <1>19, <1>20
     DEF Next, RunnerMoves

\* A step that is not an op's own, and leaves the CRs alone.
LEMMA CRsStay ==
    ASSUME CRsKnown, plan' = plan, env'.crs = env.crs, r'.pos = r.pos, r'.injected = r.injected,
           \/ r.at \in Before /\ r'.at \in Before
           \/ r'.at = r.at /\ r'.wait = r.wait
           \/ r.at = "wait" /\ r'.at = "judge" /\ r'.wait # "stayed" /\ (r'.wait = "converged" => ready)
           \/ r.at = "judge" /\ r'.at = "check" /\ r'.wait = r.wait
           \/ r.at = "gone" /\ r'.at = "judge" /\ r'.wait = "stayed"
           \/ r'.at \notin Live
    PROVE  CRsKnown'
BY DEF CRsKnown, KnownBy, Before, Op, ready, Live, Late

\* An op that took leaves each CR known, the one it decides on and the others.
LEMMA OpLeavesKnown ==
    ASSUME RInv, CInv, plan' = plan, DOMAIN env'.crs = DOMAIN env.crs,
           \A cr \in DOMAIN env.crs : env'.crs[cr] \in Fates,
           NEW x, DOMAIN x = RunnerFields, x.pos = r.pos,
           r.injected => x.injected, r' = After(x),
           \A cr \in DOMAIN env.crs :
              IF Decides(Op, cr)
              THEN IF Op.type # "delete" THEN env'.crs[cr] = "live" ELSE env'.crs[cr] # "live"
              ELSE env'.crs[cr] = env.crs[cr] /\ KnownBy(cr, r.pos - 1)
    PROVE  CRsKnown'
<1>0. r.pos \in Nat \ {0}
  BY DEF RInv, Tracked, Core
<1>1. /\ r'.injected = x.injected
      /\ \/ r'.at = "begin" /\ r'.pos = r.pos + 1 /\ ~Settles(Op)
         \/ r'.at = "wait" /\ r'.pos = r.pos
         \/ r'.at = "teardown" /\ r'.pos = r.pos
  <2>1. r'.injected = x.injected
    BY OnKeeps
  <2>2. \/ r'.at = "begin" /\ r'.pos = r.pos + 1 /\ ~Settles(Op)
        \/ r'.at = "wait" /\ r'.pos = r.pos
        \/ r'.at = "teardown" /\ r'.pos = r.pos
    BY OnWithoutError
  <2> QED
    BY <2>1, <2>2
<1>2. ASSUME NEW cr \in DOMAIN env.crs
      PROVE  Known(plan, r.pos, r'.pos - 1, r'.injected, cr, env'.crs[cr])
  <2> DEFINE sofar == r'.pos - 1
             there == env'.crs[cr]
             is == r'.injected
  <2>1. sofar = r.pos - 1 \/ (sofar = r.pos /\ ~Settles(plan[r.pos]))
    BY <1>0, <1>1 DEF Op
  <2>2. CASE Decides(Op, cr)
    <3>1. /\ there \in Fates /\ Decides(plan[r.pos], cr)
          /\ IF plan[r.pos].type # "delete" THEN there = "live" ELSE there # "live"
      BY <2>2 DEF Op
    <3> HIDE DEF sofar, there, is
    <3>2. Known(plan, r.pos, sofar, is, cr, there)
      BY <1>0, <2>1, <3>1, DecidedKnown
    <3> QED
      BY <3>2 DEF sofar, there, is
  <2>3. CASE ~Decides(Op, cr)
    <3> DEFINE b == r.pos - 1
    <3>1. there \in Fates /\ ~Decides(plan[r.pos], cr) /\ (r.injected => is)
      BY <1>1, <2>3 DEF Op
    <3>4. Known(plan, b, b, r.injected, cr, there)
      BY <2>3 DEF KnownBy
    <3>2. b \in Nat /\ r.pos = b + 1 /\ (sofar = b \/ (sofar = b + 1 /\ ~Settles(plan[sofar])))
      BY <1>0, <2>1
    <3> HIDE DEF sofar, there, is, b
    <3>3. Known(plan, r.pos, sofar, is, cr, there)
      BY <3>1, <3>2, <3>4, StaysKnown
    <3> QED
      BY <3>3 DEF sofar, there, is
  <2> QED
    BY <2>2, <2>3
<1>3. CASE r'.at = "begin"
  <2>1. r'.pos - 1 = r.pos
    BY <1>0, <1>1, <1>3
  <2> QED
    BY <1>2, <1>3, <2>1 DEF CRsKnown, KnownBy, Before
<1>4. CASE r'.at = "wait"
  BY <1>1, <1>2, <1>4 DEF CRsKnown, KnownBy, Before
<1>5. CASE r'.at = "teardown"
  BY <1>5 DEF CRsKnown, Before
<1> QED
  BY <1>1, <1>3, <1>4, <1>5

\* A step that leaves the list of deleted fixtures, and restores none.
LEMMA FixturesStayKnown ==
    ASSUME RInv, FInv, FixturesKnown, plan' = plan, env'.fixtures = env.fixtures, r'.deleted = r.deleted,
           \/ r'.at \notin Live
           \/ r'.at = r.at /\ r'.pos = r.pos /\ r'.restoring = r.restoring
           \/ r.at = "start" /\ r'.at = "begin" /\ r'.pos = r.pos
           \/ r.at \in Late /\ r'.at \in Late \ {"apply"} /\ r'.pos = r.pos
           \/ r.at \in Late /\ r'.at = "begin" /\ r'.pos = r.pos + 1
    PROVE  FixturesKnown'
<1>1. r.pos \in Nat
  BY DEF RInv, Tracked, Core
<1>2. r.at \in Live => \A n \in r.deleted : n \in 1 .. r.pos
  BY DEF FInv
<1>3. CASE r'.at = r.at /\ r'.pos = r.pos /\ r'.restoring = r.restoring
  BY <1>3 DEF FixturesKnown
<1>4. CASE r.at \in Late /\ r'.at = "begin" /\ r'.pos = r.pos + 1
  <2>1. \A n \in r.deleted : n < r'.pos
    BY <1>1, <1>2, <1>4 DEF Live
  <2> QED
    BY <1>4, <2>1 DEF FixturesKnown, Before, Live, Late
<1> QED
  BY <1>1, <1>2, <1>3, <1>4 DEF FixturesKnown, Before, Live, Late

\* A step that keeps the verdict of a calm run, or adds an error with a cause.
LEMMA StaysCalm ==
    ASSUME Calm, plan' = plan, env'.ended = env.ended, env'.running = env.running, r'.cut = r.cut,
           env'.refused = env.refused,
           \/ r'.errors = r.errors /\ r'.failed = r.failed /\ r.errors = {} /\ ~r.failed
           \/ /\ r'.errors = r.errors /\ r'.failed = r.failed /\ r'.at \in Ending
              /\ r'.applied = r.applied /\ r'.pos = r.pos /\ r'.injected = r.injected
              /\ r'.wait = r.wait
           \/ r'.at \in Ending /\ r'.failed /\ Cause'
    PROVE  Calm'
BY DEF Calm, Cause, Op, Unknown, Refused

\* Every step keeps what is known of the CRs and of the fixtures, and a run that
\* nothing goes wrong around calm.
LEMMA StepCInv == RInv /\ FInv /\ CInv /\ [Next]_vars => CInv'
<1> SUFFICES ASSUME RInv, FInv, CInv, [Next]_vars PROVE CInv'
  OBVIOUS
<1>0. /\ DOMAIN env = WorldFields /\ DOMAIN r = RunnerFields /\ r.pos \in 1 .. Len(plan)
      /\ Len(plan) \in Nat /\ r.pos \in Nat
  BY DEF RInv, Tracked, Core
<1>1. /\ plan' = plan /\ DOMAIN env'.crs = DOMAIN env.crs
      /\ \A cr \in DOMAIN env.crs : env'.crs[cr] \in Fates
      /\ env'.mishaps \in Nat /\ env.mishaps <= env'.mishaps /\ env'.refused = env.refused
  BY WorldSteps
<1> SUFFICES ASSUME env'.mishaps = 0 PROVE Calm' /\ CRsKnown' /\ FixturesKnown'
  BY <1>1 DEF CInv, Planned
<1>2. env.mishaps = 0 /\ Calm /\ CRsKnown /\ FixturesKnown
  BY <1>1 DEF CInv
<1>3. ~env.ended /\ env.running /\ r.cut = FALSE
  BY <1>2 DEF Calm
<1>4. ASSUME NEW e, DOMAIN e = WorldFields, e.ended = env.ended, e.mishaps = 0, CallFails(e)
      PROVE  FALSE
  <2>1. env'.mishaps = 1
    BY <1>3, <1>4 DEF CallFails, WorldFields
  <2> QED
    BY <2>1
<1>5. ~CallFails(env)
  BY <1>0, <1>2, <1>4
<1>6. /\ r.at \in Live => r.errors = {} /\ ~r.failed
      /\ r.at \in InOps => Len(r.applied) = r.pos
  BY DEF RInv, Tracked, BetweenOps, InAnOp, InOps, Live, Late, Undecided, Unfailed
<1>7. ASSUME r.at \in Late, NEW x, DOMAIN x = RunnerFields, x.pos = r.pos, x.errors = r.errors,
             x.failed = r.failed, x.cut = r.cut, r' \in {After(x), NextOp(x)},
             env'.ended = env.ended, env'.running = env.running
      PROVE  Calm' /\ (x.deleted = r.deleted /\ env'.fixtures = env.fixtures => FixturesKnown')
  <2>1. r'.errors = r.errors /\ r'.failed = r.failed
    BY <1>7, OnWithoutError
  <2>2. r'.cut = r.cut /\ r'.deleted = x.deleted
    BY <1>7, OnKeeps
  <2>3. \/ r'.at = "begin" /\ r'.pos = r.pos + 1
        \/ r'.at = "wait" /\ r'.pos = r.pos
        \/ r'.at = "teardown"
    <3>1. CASE r' = After(x)
      BY <1>7, <3>1, OnWithoutError
    <3>2. CASE r' = NextOp(x)
      BY <1>7, <3>2, OnWithoutError
    <3> QED
      BY <1>7, <3>1, <3>2
  <2>4. Calm'
    BY <1>1, <1>2, <1>6, <1>7, <2>1, <2>2, StaysCalm DEF Live
  <2>5. ASSUME x.deleted = r.deleted, env'.fixtures = env.fixtures PROVE FixturesKnown'
    BY <1>1, <1>2, <1>7, <2>2, <2>3, <2>5, FixturesStayKnown DEF Live, Late
  <2> QED
    BY <2>4, <2>5
<1>8. ASSUME NEW x, DOMAIN x = RunnerFields, x.cut = r.cut, x.pos = r.pos, r' = Failed(x),
             env'.ended = env.ended, env'.running = env.running, Cause'
      PROVE  Calm' /\ CRsKnown' /\ FixturesKnown'
  <2>1. r'.at = "teardown" /\ r'.failed = TRUE
    BY <1>8, OnWithoutError
  <2>2. r'.cut = r.cut
    BY <1>8, OnKeeps
  <2>3. Calm'
    BY <1>1, <1>2, <1>8, <2>1, <2>2, StaysCalm DEF Ending
  <2> QED
    BY <2>1, <2>3 DEF CRsKnown, FixturesKnown, Before, Live, Late
<1>80. ASSUME r.at \in InOps, NEW x, DOMAIN x = RunnerFields, x.cut = r.cut, x.pos = r.pos,
              x.applied = r.applied, r' = Failed(x), env'.ended = env.ended,
              env'.running = env.running, Unknown \/ Refused
       PROVE  Calm' /\ CRsKnown' /\ FixturesKnown'
  <2>1. r'.applied = r.applied
    BY <1>80, OnKeeps
  <2>2. r'.pos = r.pos
    BY <1>80, OnWithoutError
  <2>3. Cause'
    BY <1>1, <1>6, <1>80, <2>1, <2>2 DEF Cause, Op, Unknown, Refused
  <2> QED
    BY <1>8, <1>80, <2>3
<1>9. ASSUME r'.at \notin Live PROVE CRsKnown' /\ FixturesKnown'
  BY <1>9 DEF CRsKnown, FixturesKnown, Before, Live, Late
<1>10. CASE StartRun
  <2>1. /\ r.at = "start" /\ r'.at = "begin" /\ r'.pos = r.pos /\ r'.injected = r.injected
        /\ r'.deleted = r.deleted /\ r'.cut = r.cut /\ r'.errors = r.errors
        /\ r'.failed = r.failed /\ env' = env
    BY <1>0, <1>5, <1>10 DEF StartRun, RunnerFields
  <2>2. Calm'
    BY <1>1, <1>2, <1>6, <2>1, StaysCalm DEF Live
  <2>3. CRsKnown'
    BY <1>1, <1>2, <2>1, CRsStay DEF Before
  <2>4. FixturesKnown'
    BY <1>1, <1>2, <2>1, FixturesStayKnown
  <2> QED
    BY <2>2, <2>3, <2>4
<1>11. CASE BeginOp
  <2> DEFINE expired == [r EXCEPT !.faults = {f \in @ : f = 0 \/ f > r.pos}]
             mark == [restored |-> FALSE, deleted |-> FALSE]
             y == [expired EXCEPT !.at = "restore", !.restoring = r.deleted,
                                     !.applied = Append(@, mark)]
  <2>1. r.at = "begin" /\ env' = env /\ r' = y
    BY <1>3, <1>11 DEF BeginOp
  <2>2. /\ expired.deleted = r.deleted /\ expired.pos = r.pos /\ DOMAIN expired = RunnerFields
        /\ expired.cut = r.cut /\ expired.injected = r.injected /\ expired.failed = r.failed
        /\ expired.errors = r.errors
    BY <1>0 DEF RunnerFields
  <2> HIDE DEF expired, mark
  <2>3. /\ r'.at = "restore" /\ r'.restoring = r.deleted /\ r'.deleted = r.deleted
        /\ r'.pos = r.pos /\ r'.cut = r.cut /\ r'.injected = r.injected
        /\ r'.failed = r.failed /\ r'.errors = r.errors
    BY <2>1, <2>2 DEF RunnerFields
  <2>4. Calm'
    BY <1>1, <1>2, <1>6, <2>1, <2>3, StaysCalm DEF Live
  <2>5. CRsKnown'
    BY <1>1, <1>2, <2>1, <2>3, CRsStay DEF Before
  <2>6. FixturesKnown'
    BY <1>1, <1>2, <2>1, <2>3 DEF FixturesKnown, Before, Live
  <2> QED
    BY <2>4, <2>5, <2>6
<1>12. CASE Restore
  <2>1. r.at = "restore"
    BY <1>12 DEF Restore
  <2>2. /\ r.restoring \subseteq r.deleted
        /\ \A n \in r.deleted : n \in r.restoring \/ plan[n].until > r.pos => plan[n].key \notin env.fixtures
        /\ \A n, m \in r.deleted : plan[n].key = plan[m].key => n = m
        /\ \A n \in r.deleted : n < r.pos /\ plan[n].until \in Nat
    <3>1. \A n \in r.deleted : n \in 1 .. Len(plan) /\ plan[n].type = "deleteFixture"
      BY <1>0, <2>1 DEF FInv, Live
    <3>2. \A n \in r.deleted : plan[n].until \in Nat
      BY <3>1 DEF FInv
    <3> QED
      BY <1>2, <2>1, <3>2 DEF FixturesKnown, Live, Before
  <2>0. ASSUME NEW back, CallFails([env EXCEPT !.fixtures = env.fixtures \cup back]) PROVE FALSE
    <3> DEFINE e == [env EXCEPT !.fixtures = env.fixtures \cup back]
    <3>1. DOMAIN e = WorldFields /\ e.ended = env.ended /\ e.mishaps = 0
      BY <1>0, <1>2 DEF WorldFields
    <3> QED
      BY <1>4, <2>0, <3>1
  <2>3. PICK d \in r.restoring :
            \/ ~due(d) /\ r' = [r EXCEPT !.restoring = @ \ {d}] /\ env' = env
            \/ /\ due(d) /\ createFixture(plan[d].key)
               /\ r' = [[r EXCEPT !.restoring = @ \ {d}] EXCEPT !.applied[r.pos].restored = TRUE]
            \/ plan[d].key \in env.fixtures
    <3>1. PICK d \in r.restoring :
            \/ ~due(d) /\ r' = [r EXCEPT !.restoring = @ \ {d}] /\ env' = env
            \/ /\ due(d) /\ createFixture(plan[d].key)
               /\ r' = [[r EXCEPT !.restoring = @ \ {d}] EXCEPT !.applied[r.pos].restored = TRUE]
            \/ plan[d].key \in env.fixtures
            \/ \E back \in SUBSET {plan[d].key} :
                  CallFails([env EXCEPT !.fixtures = env.fixtures \cup back])
      BY <1>12 DEF Restore
    <3> QED
      BY <2>0, <3>1
  <2>4. plan[d].key \notin env.fixtures /\ d \in r.deleted
    BY <2>2
  <2>5. /\ r'.at = r.at /\ r'.pos = r.pos /\ r'.deleted = r.deleted
        /\ r'.restoring = r.restoring \ {d} /\ r'.injected = r.injected /\ r'.cut = r.cut
        /\ r'.errors = r.errors /\ r'.failed = r.failed /\ r'.wait = r.wait
    BY <1>0, <2>3, <2>4 DEF RunnerFields
  <2>6. /\ env'.crs = env.crs /\ env'.ended = env.ended /\ env'.running = env.running
        /\ \/ ~due(d) /\ env'.fixtures = env.fixtures
           \/ due(d) /\ env'.fixtures = env.fixtures \cup {plan[d].key}
    BY <1>0, <2>3, <2>4 DEF createFixture, WorldFields
  <2>7. Calm'
    BY <1>1, <1>2, <1>6, <2>1, <2>5, <2>6, StaysCalm DEF Live
  <2>8. CRsKnown'
    BY <1>1, <1>2, <2>5, <2>6, CRsStay
  <2>9. \A n \in r.deleted : n \in r.restoring \ {d} \/ plan[n].until > r.pos =>
                                plan[n].key \notin env'.fixtures
    BY <1>0, <2>2, <2>4, <2>6 DEF due
  <2>10. FixturesKnown'
    BY <1>1, <2>1, <2>2, <2>5, <2>9 DEF FixturesKnown
  <2> QED
    BY <2>7, <2>8, <2>10
<1>13. CASE RestoreDone
  <2>1. /\ r.at = "restore" /\ r.restoring = {} /\ env' = env
        /\ r'.at = "apply" /\ r'.pos = r.pos /\ r'.deleted = {d \in r.deleted : ~due(d)}
        /\ r'.injected = r.injected /\ r'.cut = r.cut
        /\ r'.errors = r.errors /\ r'.failed = r.failed
    BY <1>0, <1>13 DEF RestoreDone, RunnerFields
  <2>2. Calm'
    BY <1>1, <1>2, <1>6, <2>1, StaysCalm DEF Live
  <2>3. CRsKnown'
    BY <1>1, <1>2, <2>1, CRsStay DEF Before
  <2>4. \A d \in r'.deleted : d \in r.deleted /\ d < r.pos /\ plan[d].key \notin env.fixtures
    BY <1>0, <1>2, <2>1 DEF FixturesKnown, FInv, due, Live, Before
  <2>5. FixturesKnown'
    BY <1>1, <1>2, <2>1, <2>4 DEF FixturesKnown, Live, Before
  <2> QED
    BY <2>2, <2>3, <2>5
<1>14. CASE CreateCR
  <2> DEFINE x == [r EXCEPT !.crs = @ \cup {Op.key}]
  <2>1. /\ r.at \in {"apply", "gone"} /\ Op.type \in {"create", "recreate"}
        /\ r.at = "gone" => Op.type = "recreate" /\ env.crs[Op.key] = "absent"
        /\ r.at = "apply" => Op.type = "create"
    BY <1>2, <1>14 DEF CreateCR, CRsKnown
  <2>2. /\ DOMAIN x = RunnerFields /\ x.pos = r.pos /\ x.errors = r.errors
        /\ x.failed = r.failed /\ x.cut = r.cut /\ x.deleted = r.deleted
        /\ x.injected = r.injected
    BY <1>0 DEF RunnerFields
  <2> HIDE DEF x
  <2>3. Op.key \in DOMAIN env.crs
    BY <1>0, <2>1 DEF CInv, Op, CROps
  <2>4. \A cr \in DOMAIN env.crs \ {Op.key} : KnownBy(cr, r.pos - 1)
    BY <1>2, <2>1 DEF CRsKnown, Before
  <2>5. CASE env.crs[Op.key] = "absent" /\ ~Refused
    <3>1. r' = After(x) /\ env' = [env EXCEPT !.crs[Op.key] = "live"]
      BY <1>14, <2>5 DEF CreateCR, x
    <3>2. /\ env'.crs[Op.key] = "live" /\ env'.fixtures = env.fixtures
          /\ env'.ended = env.ended /\ env'.running = env.running
          /\ \A cr \in DOMAIN env.crs \ {Op.key} : env'.crs[cr] = env.crs[cr]
      BY <1>0, <2>3, <3>1 DEF WorldFields
    <3>3. CRsKnown'
      <4>1. \A cr \in DOMAIN env.crs :
               IF Decides(Op, cr)
               THEN IF Op.type # "delete" THEN env'.crs[cr] = "live" ELSE env'.crs[cr] # "live"
               ELSE env'.crs[cr] = env.crs[cr] /\ KnownBy(cr, r.pos - 1)
        BY <2>1, <2>4, <3>2 DEF Decides
      <4> QED
        BY <1>1, <2>2, <3>1, <4>1, OpLeavesKnown
    <3>4. Calm' /\ FixturesKnown'
      BY <1>7, <2>1, <2>2, <3>1, <3>2 DEF Late
    <3> QED
      BY <3>3, <3>4
  <2>6. CASE env.crs[Op.key] # "absent"
    <3>1. r' = Failed(r) /\ env' = env /\ r.at = "apply" /\ Op.type = "create"
      BY <1>14, <2>1, <2>6 DEF CreateCR
    <3>2. KnownBy(Op.key, r.pos - 1)
      BY <1>2, <2>3, <3>1 DEF CRsKnown, Before
    <3>3. PICK d \in 1 .. r.pos - 1 :
              /\ Decides(plan[d], Op.key) /\ plan[d].type = "delete"
              /\ \A m \in d + 1 .. r.pos - 1 : ~Decides(plan[m], Op.key)
              /\ \E m \in d .. r.pos - 1 : Settles(plan[m])
      <4>1. \E n \in 1 .. r.pos - 1 : Decides(plan[n], Op.key)
        BY <2>6, <3>2 DEF KnownBy, Known
      <4> QED
        BY <1>0, <3>1, <4>1, CreateChecked DEF Op, CInv
    <3>4. r.injected
      BY <2>6, <3>2, <3>3 DEF KnownBy, Known
    <3>5. Cause'
      <4>1. r'.applied = r.applied /\ r'.injected = r.injected
        BY <1>0, <3>1, OnKeeps
      <4>2. r'.pos = r.pos
        BY <1>0, <3>1, OnWithoutError
      <4>3. Len(r.applied) = r.pos
        BY <1>6, <3>1 DEF InOps
      <4>4. plan[d].type = "delete" /\ plan[d].key = Op.key
        BY <3>3 DEF Decides
      <4> QED
        BY <1>1, <3>1, <3>4, <4>1, <4>2, <4>3, <4>4 DEF Cause, Op
    <3> QED
      BY <1>0, <1>8, <3>1, <3>5
  <2>7. CASE Refused
    <3>1. r' = Failed(r) /\ env' = env /\ r.at \in InOps
      BY <1>14, <2>1, <2>7 DEF CreateCR, InOps
    <3> QED
      BY <1>0, <1>80, <2>7, <3>1
  <2> QED
    BY <2>5, <2>6, <2>7
<1>15. CASE ChangeCR
  <2>1. r.at = "apply" /\ Op.type \in NamingOps /\ \A cr \in DOMAIN env.crs : KnownBy(cr, r.pos - 1)
    BY <1>2, <1>15 DEF ChangeCR, CRsKnown, Before
  <2>2. Op.key \in DOMAIN env.crs
    BY <1>0, <2>1 DEF CInv, Op, CROps, NamingOps
  <2>3. env' = IF Op.type # "update" /\ env.crs[Op.key] = "live"
               THEN [env EXCEPT !.crs[Op.key] = "deleting"] ELSE env
    BY <1>15 DEF ChangeCR
  <2>4. /\ env'.fixtures = env.fixtures /\ env'.ended = env.ended /\ env'.running = env.running
        /\ \A cr \in DOMAIN env.crs \ {Op.key} : env'.crs[cr] = env.crs[cr]
        /\ Op.type = "update" => env'.crs[Op.key] = env.crs[Op.key]
        /\ Op.type # "update" => env'.crs[Op.key] # "live"
    BY <1>0, <2>2, <2>3 DEF WorldFields
  <2>5. CASE Op.type = "recreate"
    <3>1. /\ r'.at = "gone" /\ r'.pos = r.pos /\ r'.injected = r.injected
          /\ r'.deleted = r.deleted /\ r'.cut = r.cut /\ r'.errors = r.errors
          /\ r'.failed = r.failed
      BY <1>0, <1>15, <2>5 DEF ChangeCR, RunnerFields
    <3>2. Calm'
      BY <1>1, <1>2, <1>6, <2>1, <2>4, <3>1, StaysCalm DEF Live, Late
    <3>3. CRsKnown'
      BY <1>1, <2>1, <2>4, <2>5, <3>1 DEF CRsKnown, KnownBy, Op, Before
    <3>4. FixturesKnown'
      BY <1>1, <1>2, <2>1, <2>4, <3>1, FixturesStayKnown DEF Late
    <3> QED
      BY <3>2, <3>3, <3>4
  <2>6. CASE Op.type \in {"update", "delete"} /\ r' = After(r)
    <3>1. \A cr \in DOMAIN env.crs :
             IF Decides(Op, cr)
             THEN IF Op.type # "delete" THEN env'.crs[cr] = "live" ELSE env'.crs[cr] # "live"
             ELSE env'.crs[cr] = env.crs[cr] /\ KnownBy(cr, r.pos - 1)
      BY <2>1, <2>4, <2>6 DEF Decides
    <3>2. CRsKnown'
      BY <1>0, <1>1, <2>6, <3>1, OpLeavesKnown
    <3>3. Calm' /\ FixturesKnown'
      BY <1>0, <1>7, <2>1, <2>4, <2>6 DEF Late
    <3> QED
      BY <3>2, <3>3
  <2>7. CASE Op.type = "update" /\ env.crs[Op.key] = "absent"
    <3>1. PICK d \in 1 .. r.pos - 1 :
              /\ Decides(plan[d], Op.key) /\ plan[d].type # "delete"
              /\ \A m \in d + 1 .. r.pos - 1 : ~Decides(plan[m], Op.key)
      BY <1>0, <2>7, UpdateChecked DEF Op, CInv
    <3>2. KnownBy(Op.key, r.pos - 1)
      BY <2>1, <2>2
    <3> QED
      BY <2>7, <3>1, <3>2 DEF KnownBy, Known
  <2>8. CASE Op.type = "update" /\ Refused
    <3>1. r' = Failed(r) /\ r.at \in InOps
      BY <1>15, <2>1, <2>8 DEF ChangeCR, InOps
    <3> QED
      BY <1>0, <1>80, <2>4, <2>8, <3>1
  <2> QED
    BY <1>15, <2>1, <2>5, <2>6, <2>7, <2>8 DEF ChangeCR, NamingOps
<1>16. CASE CRStays
  <2>1. /\ r.at = "gone" /\ env' = env /\ r'.at = "judge" /\ r'.wait = "stayed"
        /\ r'.pos = r.pos /\ r'.injected = r.injected /\ r'.deleted = r.deleted
        /\ r'.cut = r.cut /\ r'.errors = r.errors /\ r'.failed = r.failed
    BY <1>0, <1>3, <1>16 DEF CRStays, RunnerFields
  <2>2. Calm'
    BY <1>1, <1>2, <1>6, <2>1, StaysCalm DEF Live, Late
  <2>3. CRsKnown'
    BY <1>1, <1>2, <2>1, CRsStay
  <2>4. FixturesKnown'
    BY <1>1, <1>2, <2>1, FixturesStayKnown DEF Late
  <2> QED
    BY <2>2, <2>3, <2>4
<1>17. CASE OtherOp
  <2>0. CASE (Unknown \/ Refused) /\ r' = Failed(r)
    <3>1. env' = env /\ r.at \in InOps
      BY <1>17 DEF OtherOp, InOps
    <3> QED
      BY <1>0, <1>80, <2>0, <3>1
  <2> SUFFICES ASSUME ~((Unknown \/ Refused) /\ r' = Failed(r))
               PROVE  Calm' /\ CRsKnown' /\ FixturesKnown'
    BY <2>0
  <2>1. PICK took \in BOOLEAN :
            r' = After([r EXCEPT !.applied[r.pos].deleted = took,
                                 !.faults = IF Op.type = "fault" THEN @ \cup {Op.fault.op} ELSE @,
                                 !.injected = @ \/ Op.type = "fault"])
    BY <1>17 DEF OtherOp
  <2> DEFINE x == [r EXCEPT !.applied[r.pos].deleted = took,
                            !.faults = IF Op.type = "fault" THEN @ \cup {Op.fault.op} ELSE @,
                            !.injected = @ \/ Op.type = "fault"]
  <2>2. /\ DOMAIN x = RunnerFields /\ x.pos = r.pos /\ x.errors = r.errors
        /\ x.failed = r.failed /\ x.cut = r.cut /\ x.deleted = r.deleted
        /\ (r.injected => x.injected)
    BY <1>0 DEF RunnerFields
  <2>3. r' = After(x)
    BY <2>1
  <2> HIDE DEF x
  <2>4. /\ r.at = "apply" /\ env' = env /\ Op.type \notin {"create", "recreate", "delete"}
    BY <1>17 DEF OtherOp
  <2>5. CRsKnown'
    <3>1. \A cr \in DOMAIN env.crs :
             ~Decides(Op, cr) /\ env'.crs[cr] = env.crs[cr] /\ KnownBy(cr, r.pos - 1)
      BY <1>2, <2>4 DEF Decides, CRsKnown, Before
    <3> QED
      BY <1>1, <2>2, <2>3, <3>1, OpLeavesKnown
  <2>6. Calm' /\ FixturesKnown'
    BY <1>7, <2>2, <2>3, <2>4 DEF Late
  <2> QED
    BY <2>5, <2>6
<1>18. CASE FixtureOp
  <2> DEFINE x == NoteDeletion(r)
  <2>1. /\ r.at = "apply" /\ Op.type \in FixtureOps
        /\ \A n \in r.deleted : n < r.pos /\ n \in 1 .. r.pos /\ plan[n].type = "deleteFixture"
        /\ \A n \in r.deleted : plan[n].key \notin env.fixtures
        /\ \A n, m \in r.deleted : plan[n].key = plan[m].key => n = m
    BY <1>2, <1>18 DEF FixtureOp, FixturesKnown, FInv, Live, Late, Before
  <2>2. /\ DOMAIN x = RunnerFields /\ x.pos = r.pos /\ x.errors = r.errors
        /\ x.failed = r.failed /\ x.cut = r.cut /\ x.injected = r.injected
        /\ x.applied = r.applied
        /\ x.deleted = IF Op.type = "deleteFixture" THEN r.deleted \cup {r.pos} ELSE r.deleted
    BY <1>0 DEF RunnerFields, NoteDeletion
  <2> HIDE DEF x
  <2>3. CASE /\ Op.key \in env.fixtures /\ r' = After(x)
             /\ env' = IF Op.type = "deleteFixture"
                       THEN [env EXCEPT !.fixtures = env.fixtures \ {Op.key}] ELSE env
    <3>1. /\ r' = After(x)
          /\ env' = IF Op.type = "deleteFixture"
                    THEN [env EXCEPT !.fixtures = env.fixtures \ {Op.key}] ELSE env
      BY <2>3
    <3>2. /\ env'.crs = env.crs /\ env'.ended = env.ended /\ env'.running = env.running
          /\ env'.fixtures = IF Op.type = "deleteFixture" THEN env.fixtures \ {Op.key}
                             ELSE env.fixtures
      BY <1>0, <3>1 DEF WorldFields
    <3>3. CRsKnown'
      <4>1. \A cr \in DOMAIN env.crs :
               ~Decides(Op, cr) /\ env'.crs[cr] = env.crs[cr] /\ KnownBy(cr, r.pos - 1)
        BY <1>2, <2>1, <3>2 DEF Decides, CRsKnown, Before, FixtureOps
      <4> QED
        BY <1>1, <2>2, <3>1, <4>1, OpLeavesKnown
    <3>4. Calm' /\ (x.deleted = r.deleted /\ env'.fixtures = env.fixtures => FixturesKnown')
      BY <1>7, <2>1, <2>2, <3>1, <3>2 DEF Late
    <3>5. CASE Op.type # "deleteFixture"
      BY <2>2, <3>2, <3>3, <3>4, <3>5
    <3>6. CASE Op.type = "deleteFixture"
      <4>1. r'.deleted = r.deleted \cup {r.pos}
        BY <2>2, <3>1, <3>6, OnKeeps
      <4>2. \/ r'.at = "begin" /\ r'.pos = r.pos + 1
            \/ r'.at = "wait" /\ r'.pos = r.pos
            \/ r'.at = "teardown"
        BY <2>2, <3>1, OnWithoutError
      <4>3. \A n \in r'.deleted : n < r.pos + 1 /\ plan[n].key \notin env'.fixtures
        BY <1>0, <2>1, <3>2, <3>6, <4>1 DEF Op
      <4>4. \A n, m \in r'.deleted : plan[n].key = plan[m].key => n = m
        BY <2>1, <2>3, <4>1 DEF Op
      <4>5. FixturesKnown'
        BY <1>1, <4>2, <4>3, <4>4 DEF FixturesKnown, Live, Late, Before
      <4> QED
        BY <3>3, <3>4, <4>5
    <3> QED
      BY <3>5, <3>6
  <2>4. CASE Unknown /\ env' = env /\ r' = Failed(r)
    BY <1>0, <1>80, <2>1, <2>4 DEF InOps
  <2>5. CASE Refused /\ env' = env /\ r' = Failed(x)
    BY <1>80, <2>1, <2>2, <2>5 DEF InOps
  <2>6. CASE ~Unknown /\ Op.key \notin env.fixtures
    <3>1. Op.key \in RunFixtures
      BY <2>1, <2>6 DEF Unknown
    <3>2. PICK n \in r.deleted : plan[n].key = Op.key /\ plan[n].until > r.pos
      BY <2>1, <2>6, <3>1 DEF FInv, MissingUntil, Live, Late
    <3>3. n \in 1 .. r.pos - 1 /\ plan[n].type = "deleteFixture"
      BY <1>0, <2>1
    <3>4. plan[n].until <= r.pos
      BY <1>0, <2>1, <3>2, <3>3, FixturesApart DEF Op, CInv
    <3>5. plan[n].until \in Nat
      BY <1>0, <3>3 DEF FInv
    <3> QED
      BY <1>0, <3>2, <3>4, <3>5
  <2>7. CASE Op.type = "deleteFixture" /\ env' = env /\ r' = Failed([x EXCEPT !.wait = "kept"])
    <3> DEFINE y == [x EXCEPT !.wait = "kept"]
    <3>1. /\ DOMAIN y = RunnerFields /\ y.pos = r.pos /\ y.cut = r.cut /\ y.applied = r.applied
          /\ y.wait = "kept"
      BY <2>2 DEF RunnerFields
    <3> HIDE DEF y
    <3>2. r' = Failed(y)
      BY <2>7 DEF y
    <3>3. Cause'
      <4>1. r'.applied = r.applied /\ r'.wait = "kept"
        BY <3>1, <3>2, OnKeeps
      <4>2. r'.pos = r.pos
        BY <3>1, <3>2, OnWithoutError
      <4>3. Len(r.applied) = r.pos
        BY <1>6, <2>1 DEF InOps
      <4> QED
        BY <1>1, <2>7, <4>1, <4>2, <4>3 DEF Cause, Op
    <3> QED
      BY <1>8, <2>7, <3>1, <3>2, <3>3
  <2>8. \/ Unknown /\ env' = env /\ r' = Failed(r)
        \/ ~Unknown /\ (Op.key \notin env.fixtures \/ Refused) /\ env' = env /\ r' = Failed(x)
        \/ Op.type = "deleteFixture" /\ env' = env /\ r' = Failed([x EXCEPT !.wait = "kept"])
        \/ /\ Op.key \in env.fixtures /\ r' = After(x)
           /\ env' = IF Op.type = "deleteFixture"
                     THEN [env EXCEPT !.fixtures = env.fixtures \ {Op.key}] ELSE env
    BY <1>18 DEF FixtureOp, x
  <2> QED
    BY <2>3, <2>4, <2>5, <2>6, <2>7, <2>8
<1>19. CASE WaitEnds
  <2>1. /\ r.at \in {"wait", "recover"} /\ env' = env
        /\ \E end \in {"expired", "converged"} :
              /\ end = "converged" => ready
              /\ r' = [r EXCEPT !.wait = end, !.at = IF @ = "wait" THEN "judge" ELSE "judgeRecovery"]
    BY <1>3, <1>5, <1>19 DEF WaitEnds
  <2>2. /\ r'.wait # "stayed" /\ (r'.wait = "converged" => ready)
        /\ r'.at = IF r.at = "wait" THEN "judge" ELSE "judgeRecovery"
        /\ r'.pos = r.pos /\ r'.injected = r.injected /\ r'.deleted = r.deleted
        /\ r'.cut = r.cut /\ r'.errors = r.errors /\ r'.failed = r.failed
    BY <1>0, <2>1 DEF RunnerFields
  <2>3. r.errors = {} /\ ~r.failed
    BY <1>2, <1>6, <2>1 DEF Live, Late, Calm, Ending
  <2>4. Calm'
    BY <1>1, <1>2, <2>1, <2>2, <2>3, StaysCalm
  <2>5. CRsKnown'
    BY <1>1, <1>2, <2>1, <2>2, CRsStay DEF Live, Late
  <2>6. FixturesKnown'
    BY <1>1, <1>2, <2>1, <2>2, FixturesStayKnown DEF Live, Late
  <2> QED
    BY <2>4, <2>5, <2>6
<1>20. CASE Judge
  <2>1. /\ r.at \in {"judge", "judgeRecovery"} /\ env' = env
        /\ r' = [r EXCEPT !.at = IF @ = "judge" THEN "check" ELSE "checkRecovery"]
    BY <1>3, <1>20 DEF Judge, judgeable
  <2>2. /\ r'.wait = r.wait /\ r'.at = IF r.at = "judge" THEN "check" ELSE "checkRecovery"
        /\ r'.pos = r.pos /\ r'.injected = r.injected /\ r'.deleted = r.deleted
        /\ r'.cut = r.cut /\ r'.errors = r.errors /\ r'.failed = r.failed
    BY <1>0, <2>1 DEF RunnerFields
  <2>3. r.errors = {} /\ ~r.failed
    BY <1>2, <1>6, <2>1 DEF Live, Late, Calm, Ending
  <2>4. Calm'
    BY <1>1, <1>2, <2>1, <2>2, <2>3, StaysCalm
  <2>5. CRsKnown'
    BY <1>1, <1>2, <2>1, <2>2, CRsStay DEF Live, Late
  <2>6. FixturesKnown'
    BY <1>1, <1>2, <2>1, <2>2, FixturesStayKnown DEF Live, Late
  <2> QED
    BY <2>4, <2>5, <2>6
<1>21. CASE Check
  <2> DEFINE point == IF r.at = "check" THEN r.pos ELSE Recovery
             judged == [r EXCEPT !.judged = Append(@, point)]
  <2>1. r.at \in {"check", "checkRecovery"} /\ env' = env
    BY <1>5, <1>21 DEF Check
  <2>2. PICK v \in Reports :
            \/ r.at = "checkRecovery" /\ r' = [violate(judged, v) EXCEPT !.at = "quiet"]
            \/ /\ r.at = "check" /\ r.wait = "stayed" /\ v = "none"
               /\ \/ r' = Failed(violate(judged, v))
                  \/ r' = NextOp([violate(judged, v) EXCEPT !.stopped = TRUE])
            \/ /\ r.at = "check" /\ ~(r.wait = "stayed" /\ v = "none")
               /\ r' = NextOp(violate(judged, v))
    BY <1>5, <1>21 DEF Check
  <2> DEFINE x == violate(judged, v)
             z == [x EXCEPT !.stopped = TRUE]
  <2>3. /\ DOMAIN x = RunnerFields /\ x.pos = r.pos /\ x.errors = r.errors
        /\ x.failed = r.failed /\ x.cut = r.cut /\ x.deleted = r.deleted
        /\ x.injected = r.injected /\ x.wait = r.wait /\ x.applied = r.applied
        /\ x.violation = IF r.violation = "none" THEN v ELSE r.violation
    BY <1>0 DEF RunnerFields, violate
  <2>4. \/ r.at = "checkRecovery" /\ r' = [x EXCEPT !.at = "quiet"]
        \/ /\ r.at = "check" /\ r.wait = "stayed" /\ v = "none"
           /\ r' = Failed(x) \/ r' = NextOp(z)
        \/ r.at = "check" /\ ~(r.wait = "stayed" /\ v = "none") /\ r' = NextOp(x)
    BY <2>2
  <2> HIDE DEF x
  <2>5. /\ DOMAIN z = RunnerFields /\ z.pos = r.pos /\ z.errors = r.errors
        /\ z.failed = r.failed /\ z.cut = r.cut /\ z.deleted = r.deleted
        /\ z.stopped = TRUE
    BY <2>3 DEF RunnerFields
  <2> HIDE DEF z
  <2>6. r.at = "check" => v # "none" \/ r.injected \/ r.wait = "converged"
    BY <2>2 DEF Reports
  <2>7. CASE r.at = "checkRecovery" /\ r' = [x EXCEPT !.at = "quiet"]
    <3>1. /\ r'.at = "quiet" /\ r'.errors = r.errors /\ r'.failed = r.failed /\ r'.cut = r.cut
          /\ r'.applied = r.applied /\ r'.pos = r.pos /\ r'.injected = r.injected
          /\ r'.wait = r.wait
      BY <2>3, <2>7 DEF RunnerFields
    <3>2. Calm'
      BY <1>1, <1>2, <2>1, <3>1, StaysCalm DEF Ending
    <3> QED
      BY <1>9, <3>1, <3>2 DEF Live, Late
  <2>8. CASE r.at = "check" /\ r.wait = "stayed" /\ v = "none" /\ r' = Failed(x)
    <3>1. r'.applied = r.applied /\ r'.injected = r.injected /\ r'.wait = r.wait
      BY <2>3, <2>8, OnKeeps
    <3>2. r'.pos = r.pos
      BY <2>3, <2>8, OnWithoutError
    <3>3. Len(r.applied) = r.pos /\ Op.type = "recreate" /\ r.injected
      BY <1>2, <1>6, <2>6, <2>8 DEF CRsKnown, InOps
    <3>4. Cause'
      BY <1>1, <2>8, <3>1, <3>2, <3>3 DEF Cause, Op
    <3> QED
      BY <1>8, <2>1, <2>3, <2>8, <3>4
  <2>9. CASE r.at = "check" /\ r' = NextOp(z)
    <3>1. Calm'
      BY <1>7, <2>1, <2>5, <2>9 DEF Late
    <3>2. r'.at = "teardown"
      BY <2>5, <2>9, OnWithoutError
    <3> QED
      BY <1>9, <3>1, <3>2 DEF Live, Late
  <2>10. CASE r.at = "check" /\ ~(r.wait = "stayed" /\ v = "none") /\ r' = NextOp(x)
    <3>1. Calm' /\ FixturesKnown'
      BY <1>7, <2>1, <2>3, <2>10 DEF Late
    <3>2. r'.injected = r.injected
      BY <2>3, <2>10, OnKeeps
    <3>3. \/ r'.at = "begin" /\ r'.pos = r.pos + 1 /\ x.violation = "none"
          \/ r'.at = "teardown"
      BY <2>3, <2>10, OnWithoutError
    <3>4. CASE r'.at = "begin" /\ r'.pos = r.pos + 1 /\ x.violation = "none"
      <4>1. v = "none" /\ r.wait # "stayed" /\ (r.injected \/ ready)
        BY <1>2, <2>3, <2>6, <2>10, <3>4 DEF CRsKnown
      <4>2. ASSUME NEW cr \in DOMAIN env.crs
            PROVE  Known(plan, r.pos, r.pos, r.injected, cr, env.crs[cr])
        <5> DEFINE there == env.crs[cr]
                   sofar == r.pos - 1
        <5>1. Known(plan, r.pos, sofar, r.injected, cr, there)
          BY <1>2, <2>10, <4>1 DEF CRsKnown, KnownBy
        <5>2. there \in Fates /\ (r.injected \/ there # "deleting")
          BY <4>1 DEF CInv, ready
        <5>3. sofar \in Int /\ r.pos = sofar + 1
          BY <1>0
        <5> HIDE DEF there, sofar
        <5>4. Known(plan, r.pos, r.pos, r.injected, cr, there)
          BY <1>0, <5>1, <5>2, <5>3, StaysKnown
        <5> QED
          BY <5>4 DEF there
      <4>3. r'.pos - 1 = r.pos
        BY <1>0, <3>4
      <4>4. CRsKnown'
        BY <1>1, <2>1, <3>2, <3>4, <4>2, <4>3 DEF CRsKnown, KnownBy, Before
      <4> QED
        BY <3>1, <4>4
    <3>5. CASE r'.at = "teardown"
      BY <1>9, <3>1, <3>5 DEF Live, Late
    <3> QED
      BY <3>3, <3>4, <3>5
  <2> QED
    BY <2>4, <2>7, <2>8, <2>9, <2>10
<1>22. CASE OpFails
  <2>1. ASSUME NEW k, NEW v, CallFails([env EXCEPT !.crs[k] = v]) PROVE FALSE
    <3> DEFINE e == [env EXCEPT !.crs[k] = v]
    <3>1. DOMAIN e = WorldFields /\ e.ended = env.ended /\ e.mishaps = 0
      BY <1>0, <1>2 DEF WorldFields
    <3> QED
      BY <1>4, <2>1, <3>1
  <2>2. ASSUME NEW fs, CallFails([env EXCEPT !.fixtures = fs]) PROVE FALSE
    <3> DEFINE e == [env EXCEPT !.fixtures = fs]
    <3>1. DOMAIN e = WorldFields /\ e.ended = env.ended /\ e.mishaps = 0
      BY <1>0, <1>2 DEF WorldFields
    <3> QED
      BY <1>4, <2>2, <3>1
  <2>3. \/ CallFails(env) \/ CallFails([env EXCEPT !.crs[Op.key] = "live"])
        \/ CallFails([env EXCEPT !.crs[Op.key] = "deleting"])
        \/ CallFails([env EXCEPT !.fixtures = env.fixtures \ {Op.key}])
    BY <1>22 DEF OpFails
  <2> QED
    BY <1>5, <2>1, <2>2, <2>3
<1>23. CASE Interrupt \/ TargetStops \/ \E f \in RunFixtures : Meddle(f)
  <2>1. env'.mishaps = env.mishaps + 1
    BY <1>0, <1>23 DEF Interrupt, TargetStops, Meddle, WorldFields
  <2> QED
    BY <1>2, <2>1
<1>24. CASE \E cr \in DOMAIN env.crs : CRGoes(cr)
  <2>1. PICK k \in DOMAIN env.crs : CRGoes(k)
    BY <1>24
  <2>2. /\ r' = r /\ env.crs[k] = "deleting" /\ env'.fixtures = env.fixtures
        /\ env'.ended = env.ended /\ env'.running = env.running /\ env'.crs[k] = "absent"
        /\ \A cr \in DOMAIN env.crs \ {k} : env'.crs[cr] = env.crs[cr]
    BY <1>0, <2>1 DEF CRGoes, Acting, WorldFields
  <2>3. Calm'
    BY <1>1, <1>2, <2>2 DEF Calm, Cause, Op, Unknown, Refused
  <2>4. FixturesKnown'
    BY <1>1, <1>2, <2>2, FixturesStayKnown
  <2>5. ASSUME NEW cr \in DOMAIN env.crs, NEW b, Known(plan, b, r.pos - 1, r.injected, cr, env.crs[cr])
        PROVE  Known(plan, b, r.pos - 1, r.injected, cr, env'.crs[cr])
    BY <2>2, <2>5, GoneKnown
  <2>6. CRsKnown'
    BY <1>1, <1>2, <2>2, <2>5 DEF CRsKnown, KnownBy, Op, ready
  <2> QED
    BY <2>3, <2>4, <2>6
<1>25. CASE HarnessMoves \/ Ended \/ UNCHANGED vars
  <2>1. r' = r /\ env' = env
    BY <1>25 DEF HarnessMoves, Ended, vars, runnerVars
  <2>2. Calm'
    BY <1>1, <1>2, <2>1 DEF Calm, Cause, Op, Unknown, Refused
  <2>3. CRsKnown' /\ FixturesKnown'
    BY <1>1, <1>2, <2>1, CRsStay, FixturesStayKnown
  <2> QED
    BY <2>2, <2>3
<1>26. ASSUME r'.at \in Ending, r'.errors = r.errors, r'.failed = r.failed, r'.cut = FALSE,
              r'.applied = r.applied, r'.pos = r.pos, r'.injected = r.injected, r'.wait = r.wait,
              env'.ended = env.ended, env'.running = env.running
       PROVE  Calm' /\ CRsKnown' /\ FixturesKnown'
  <2>1. Calm'
    BY <1>1, <1>2, <1>3, <1>26, StaysCalm
  <2> QED
    BY <1>9, <1>26, <2>1 DEF Ending, Live, Late
<1>27. CASE BeginTeardown
  <2>1. /\ env' = env /\ r'.at \in {"recover", "quiet"} /\ (r'.at = "recover" => ~r.failed)
        /\ r'.errors = r.errors /\ r'.failed = r.failed /\ r'.cut = r.cut
        /\ r'.applied = r.applied /\ r'.pos = r.pos /\ r'.injected = r.injected
        /\ r'.wait = r.wait
    BY <1>0, <1>27 DEF BeginTeardown, RunnerFields
  <2>2. CASE r'.at = "quiet"
    BY <1>3, <1>26, <2>1, <2>2 DEF Ending
  <2>3. CASE r'.at = "recover"
    <3>1. r.errors = {} /\ ~r.failed
      BY <1>2, <2>1, <2>3 DEF Calm
    <3>2. Calm'
      BY <1>1, <1>2, <2>1, <3>1, StaysCalm
    <3> QED
      BY <1>9, <2>3, <3>2 DEF Live, Late
  <2> QED
    BY <2>1, <2>2, <2>3
<1>28. CASE Quiet \/ AwaitClean \/ StopHarness
  <2>1. /\ env' = env /\ r'.at \in Ending /\ r'.errors = r.errors /\ r'.failed = r.failed
        /\ r'.cut = FALSE /\ r'.applied = r.applied /\ r'.pos = r.pos
        /\ r'.injected = r.injected /\ r'.wait = r.wait
    <3>1. CASE Quiet
      BY <1>0, <1>3, <3>1 DEF Quiet, RunnerFields, Ending
    <3>2. CASE AwaitClean
      <4>1. /\ env' = env /\ r'.cut = (r.cut \/ env.ended)
            /\ r'.at = "verdict" /\ r'.errors = r.errors /\ r'.failed = r.failed
            /\ r'.applied = r.applied /\ r'.pos = r.pos
            /\ r'.injected = r.injected /\ r'.wait = r.wait
        BY <1>0, <3>2 DEF AwaitClean, RunnerFields
      <4>2. (r.cut \/ env.ended) = FALSE
        BY <1>3
      <4> QED
        BY <4>1, <4>2 DEF Ending
    <3>3. CASE StopHarness
      BY <1>0, <1>3, <3>3 DEF StopHarness, RunnerFields, Ending
    <3> QED
      BY <1>28, <3>1, <3>2, <3>3
  <2> QED
    BY <1>26, <2>1
<1>29. CASE DeleteCRs
  <2>1. PICK took \in SUBSET r.crs :
            /\ env' = [env EXCEPT
                         !.crs = [cr \in DOMAIN env.crs |->
                                     IF cr \in took /\ env.crs[cr] = "live" THEN "deleting"
                                     ELSE env.crs[cr]],
                         !.mishaps = env.mishaps + IF took = r.crs THEN 0 ELSE 1]
            /\ r' = [r EXCEPT !.at = "clean",
                              !.errors = IF took = r.crs THEN r.errors ELSE r.errors \cup {"delete"}]
    BY <1>29 DEF DeleteCRs
  <2>2. /\ env'.mishaps = env.mishaps + IF took = r.crs THEN 0 ELSE 1
        /\ env'.ended = env.ended /\ env'.running = env.running
    BY <1>0, <2>1 DEF WorldFields
  <2>3. took = r.crs
    BY <1>2, <2>2
  <2>4. /\ r'.at \in Ending /\ r'.errors = r.errors /\ r'.failed = r.failed
        /\ r'.cut = r.cut /\ r'.applied = r.applied /\ r'.pos = r.pos
        /\ r'.injected = r.injected /\ r'.wait = r.wait
    BY <1>0, <2>1, <2>3 DEF RunnerFields, Ending
  <2> QED
    BY <1>3, <1>26, <2>2, <2>4
<1>30. CASE Verdict
  <2>1. env' = env /\ \/ r' = [r EXCEPT !.at = "empty"]
                      \/ \E v \in {"none", "check"} :
                            r' = violate([r EXCEPT !.at = "empty", !.judged = Append(@, Teardown)], v)
    BY <1>3, <1>5, <1>30 DEF Verdict
  <2>2. /\ r'.at \in Ending /\ r'.errors = r.errors /\ r'.failed = r.failed
        /\ r'.cut = r.cut /\ r'.applied = r.applied /\ r'.pos = r.pos
        /\ r'.injected = r.injected /\ r'.wait = r.wait
    BY <1>0, <2>1 DEF violate, RunnerFields, Ending
  <2> QED
    BY <1>3, <1>26, <2>1, <2>2
<1>31. CASE Empty \/ ForceFinalizers
  <2>1. env'.mishaps = env.mishaps + 1 \/ \E at \in {"force", "stop"} : r' = [r EXCEPT !.at = at]
    <3>1. CASE Empty
      BY <1>0, <3>1 DEF Empty, WorldFields
    <3>2. CASE ForceFinalizers
      BY <1>0, <3>2 DEF ForceFinalizers, WorldFields
    <3> QED
      BY <1>31, <3>1, <3>2
  <2>2. /\ r'.at \in Ending /\ r'.errors = r.errors /\ r'.failed = r.failed
        /\ r'.cut = r.cut /\ r'.applied = r.applied /\ r'.pos = r.pos
        /\ r'.injected = r.injected /\ r'.wait = r.wait
    BY <1>0, <1>2, <2>1 DEF RunnerFields, Ending
  <2>3. env'.ended = env.ended /\ env'.running = env.running
    <3>1. CASE Empty
      BY <1>0, <3>1 DEF Empty, WorldFields
    <3>2. CASE ForceFinalizers
      BY <1>0, <3>2 DEF ForceFinalizers, WorldFields
    <3> QED
      BY <1>31, <3>1, <3>2
  <2> QED
    BY <1>3, <1>26, <2>2, <2>3
<1> QED
  BY <1>10, <1>11, <1>12, <1>13, <1>14, <1>15, <1>16, <1>17, <1>18, <1>19, <1>20, <1>21,
     <1>22, <1>23, <1>24, <1>25, <1>27, <1>28, <1>29, <1>30, <1>31 DEF Next, RunnerMoves

\* A run that nothing goes wrong around ends in an error only for a cause
\* (FailsForCause), whatever sequence validateRun passed it runs.
THEOREM FailuresHaveCause == Spec => []FailsForCause
<1>1. CInv => FailsForCause
  BY DEF CInv, Calm, Cause, FailsForCause
<1>2. Spec => []FInv
  BY InitFInv, StepFInv, RunnerInductive, PTL DEF Spec
<1> QED
  BY <1>1, <1>2, InitCInv, StepCInv, RunnerInductive, PTL DEF Spec
=============================================================================
