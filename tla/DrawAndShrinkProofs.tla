------------------------- MODULE DrawAndShrinkProofs -------------------------
(***************************************************************************)
(* Drawing and shrinking, for sequences of any length, any CRs, fixtures   *)
(* and kinds, and any bug.                                                 *)
(***************************************************************************)
EXTENDS DrawAndShrink, TLAPS, SequenceTheorems, NaturalsInduction, WellFoundedInduction

\* A set of naturals that is not empty has a least element.
LEMMA LeastOf ==
    ASSUME NEW S \in SUBSET Nat, S # {}
    PROVE  \E n \in S : \A m \in S : n <= m
<1> DEFINE R == {ss \in Nat \X Nat : ss[1] < ss[2]}
<1>1. IsWellFoundedOn(R, Nat)
  BY NatLessThanWellFounded DEF OpToRel
<1> HIDE DEF R
<1>2. PICK n \in S : \A m \in S : <<m, n>> \notin R
  BY <1>1, WFMin
<1>3. ASSUME NEW m \in S, m < n PROVE FALSE
  <2>1. <<m, n>> \in R
    BY <1>3 DEF R
  <2> QED
    BY <1>2, <2>1
<1> QED
  BY <1>2, <1>3

\* A set of naturals that is not empty and has a bound has a greatest element.
LEMMA GreatestOf ==
    ASSUME NEW b \in Nat, NEW S \in SUBSET (0 .. b), S # {}
    PROVE  \E n \in S : \A m \in S : m <= n
<1> DEFINE T == {k \in 0 .. b : b - k \in S}
<1>1. T \in SUBSET Nat
  OBVIOUS
<1>2. T # {}
  <2>1. PICK s \in S : TRUE
    OBVIOUS
  <2>2. b - s \in 0 .. b /\ b - (b - s) = s
    OBVIOUS
  <2>3. b - s \in T
    BY <2>2
  <2> QED
    BY <2>3
<1>3. PICK k \in T : \A m \in T : k <= m
  BY <1>1, <1>2, LeastOf
<1>4. ASSUME NEW m \in S PROVE m <= b - k
  <2>1. b - m \in 0 .. b /\ b - (b - m) = m
    OBVIOUS
  <2>2. b - m \in T
    BY <2>1
  <2> QED
    BY <1>3, <2>2
<1>5. b - k \in S
  BY <1>3
<1> QED
  BY <1>4, <1>5

-----------------------------------------------------------------------------
(* The selections of SequenceFormat. *)

\* The greatest of a bounded set of naturals is the one Max chooses.
LEMMA MaxOf ==
    ASSUME NEW b \in Nat, NEW S \in SUBSET (0 .. b), S # {}
    PROVE  Max(S) \in S /\ \A m \in S : m <= Max(S)
<1>1. \E x \in S : \A y \in S : x >= y
  BY GreatestOf
<1>2. Max(S) \in S /\ \A y \in S : Max(S) >= y
  BY <1>1 DEF Max
<1> QED
  BY <1>2

\* The least of a set of naturals is the one Min chooses.
LEMMA MinOf ==
    ASSUME NEW S \in SUBSET Nat, S # {}
    PROVE  Min(S) \in S /\ \A m \in S : Min(S) <= m
<1>1. \E x \in S : \A y \in S : x =< y
  BY LeastOf
<1> QED
  BY <1>1 DEF Min

\* Two sequences one after the other.
LEMMA Joined ==
    ASSUME NEW S, NEW a \in Seq(S), NEW b \in Seq(S)
    PROVE  /\ a \o b \in Seq(S) /\ Len(a \o b) = Len(a) + Len(b)
           /\ \A i \in 1 .. Len(a) : (a \o b)[i] = a[i]
           /\ \A i \in 1 .. Len(b) : (a \o b)[Len(a) + i] = b[i]
<1>1. /\ a \o b \in Seq(S) /\ Len(a \o b) = Len(a) + Len(b)
      /\ \A i \in 1 .. Len(a) + Len(b) : (a \o b)[i] = IF i <= Len(a) THEN a[i] ELSE b[i - Len(a)]
  BY ConcatProperties
<1>2. Len(a) \in Nat /\ Len(b) \in Nat
  OBVIOUS
<1>3. ASSUME NEW i \in 1 .. Len(b) PROVE (a \o b)[Len(a) + i] = b[i]
  <2>1. Len(a) + i \in 1 .. Len(a) + Len(b) /\ ~(Len(a) + i <= Len(a)) /\ (Len(a) + i) - Len(a) = i
    BY <1>2
  <2> QED
    BY <1>1, <2>1
<1> QED
  BY <1>1, <1>2, <1>3

\* The deletion of the fixture before m that LastDeletion finds is the last.
LEMMA DeletionBefore ==
    ASSUME NEW seq, NEW k, NEW m \in Nat, LastDeletion(seq, k, m) # 0
    PROVE  /\ LastDeletion(seq, k, m) \in 1 .. m - 1
           /\ seq[LastDeletion(seq, k, m)].type = "deleteFixture"
           /\ seq[LastDeletion(seq, k, m)].key = k
<1> DEFINE I == {j \in 1 .. m - 1 : seq[j].type = "deleteFixture" /\ seq[j].key = k}
<1>1. LastDeletion(seq, k, m) = IF I # {} THEN Max(I) ELSE 0
  BY DEF LastDeletion, SelectLastInSubSeq
<1>2. I # {} /\ I \in SUBSET (0 .. m)
  BY <1>1
<1>3. Max(I) \in I
  <2> HIDE DEF I
  <2> QED
    BY <1>2, MaxOf
<1> QED
  BY <1>1, <1>2, <1>3

-----------------------------------------------------------------------------
(* Candidates. *)

\* Where the op that is at m once op n is gone was before.
Skip(n, m) == IF m < n THEN m ELSE m + 1

\* What RemoveAt leaves: the other elements, those behind one place earlier.
LEMMA RemoveAtIs ==
    ASSUME NEW S, NEW seq \in Seq(S), NEW n \in 1 .. Len(seq)
    PROVE  /\ RemoveAt(seq, n) \in Seq(S) /\ Len(RemoveAt(seq, n)) = Len(seq) - 1
           /\ \A m \in 1 .. Len(seq) - 1 : RemoveAt(seq, n)[m] = seq[Skip(n, m)]
<1> DEFINE a == SubSeq(seq, 1, n - 1)
           b == SubSeq(seq, n + 1, Len(seq))
<1>0. Len(seq) \in Nat /\ n \in Nat
  OBVIOUS
<1>1. a \in Seq(S) /\ Len(a) = n - 1 /\ \A m \in 1 .. n - 1 : a[m] = seq[m]
  BY <1>0
<1>2. b \in Seq(S) /\ Len(b) = Len(seq) - n /\ \A m \in 1 .. Len(seq) - n : b[m] = seq[n + m]
  BY <1>0
<1> HIDE DEF a, b
<1>3. RemoveAt(seq, n) = a \o b
  BY DEF RemoveAt, a, b
<1>4. /\ a \o b \in Seq(S) /\ Len(a \o b) = Len(seq) - 1
      /\ \A m \in 1 .. Len(seq) - 1 : (a \o b)[m] = IF m <= n - 1 THEN a[m] ELSE b[m - (n - 1)]
  <2>1. /\ a \o b \in Seq(S) /\ Len(a \o b) = Len(a) + Len(b)
        /\ \A m \in 1 .. Len(a) + Len(b) :
              (a \o b)[m] = IF m <= Len(a) THEN a[m] ELSE b[m - Len(a)]
    BY <1>1, <1>2, ConcatProperties
  <2> QED
    BY <2>1, <1>0, <1>1, <1>2
<1>5. ASSUME NEW m \in 1 .. Len(seq) - 1 PROVE (a \o b)[m] = seq[Skip(n, m)]
  <2>1. CASE m < n
    BY <1>0, <1>1, <1>4, <2>1 DEF Skip
  <2>2. CASE ~(m < n)
    <3>1. m - (n - 1) \in 1 .. Len(seq) - n /\ n + (m - (n - 1)) = m + 1
      BY <1>0, <2>2
    <3>2. ~(m <= n - 1)
      BY <1>0, <2>2
    <3> QED
      BY <1>0, <1>2, <1>4, <2>2, <3>1, <3>2 DEF Skip
  <2> QED
    BY <2>1, <2>2
<1> QED
  BY <1>3, <1>4, <1>5

\* The sequence without op n: the ops that are left, renumbered, ending where
\* the index that names it has moved.
LEMMA WithoutIs ==
    ASSUME NEW seq \in Seq(Op), NEW n \in 1 .. Len(seq)
    PROVE  /\ without(seq, n) \in Seq(Op) /\ Len(without(seq, n)) = Len(seq) - 1
           /\ \A m \in 1 .. Len(seq) - 1 :
                 /\ without(seq, n)[m].until = moved(seq[Skip(n, m)].until, n)
                 /\ without(seq, n)[m].fault.op = moved(seq[Skip(n, m)].fault.op, n)
<1>0. Len(seq) \in Nat /\ Len(seq) - 1 \in Nat /\ n \in Nat \ {0}
  OBVIOUS
<1> DEFINE op(m) == RemoveAt(seq, n)[m]
           new(m) == [op(m) EXCEPT !.i = m, !.until = moved(op(m).until, n),
                             !.fault = [op(m).fault EXCEPT !.op = moved(op(m).fault.op, n)]]
<1>1. without(seq, n) = [m \in 1 .. Len(seq) - 1 |-> new(m)]
  BY DEF without
<1>2. ASSUME NEW m \in 1 .. Len(seq) - 1
      PROVE  /\ new(m) \in Op /\ new(m).until = moved(seq[Skip(n, m)].until, n)
             /\ new(m).fault.op = moved(seq[Skip(n, m)].fault.op, n)
  <2>1. op(m) \in Op /\ op(m) = seq[Skip(n, m)]
    <3>1. op(m) = seq[Skip(n, m)]
      BY RemoveAtIs
    <3>2. Skip(n, m) \in 1 .. Len(seq)
      BY <1>0 DEF Skip
    <3> QED
      BY <3>1, <3>2
  <2> HIDE DEF op
  <2>2. op(m).until \in Nat /\ op(m).fault.op \in Nat
    BY <2>1 DEF Op
  <2>3. moved(op(m).until, n) \in Nat /\ moved(op(m).fault.op, n) \in Nat
    BY <1>0, <2>2 DEF moved
  <2>4. m \in Nat
    BY <1>0
  <2>5. new(m) \in Op
    BY <2>1, <2>3, <2>4 DEF Op
  <2>6. new(m).until = moved(op(m).until, n) /\ new(m).fault.op = moved(op(m).fault.op, n)
    BY <2>1 DEF Op
  <2> QED
    BY <2>1, <2>5, <2>6
<1> HIDE DEF new
<1>3. /\ without(seq, n) \in [1 .. Len(seq) - 1 -> Op]
      /\ \A m \in 1 .. Len(seq) - 1 : without(seq, n)[m] = new(m)
  BY <1>1, <1>2
<1>4. without(seq, n) \in Seq(Op) /\ Len(without(seq, n)) = Len(seq) - 1
  BY <1>0, <1>3
<1> QED
  BY <1>2, <1>3, <1>4

\* What halving leaves is less, so that a weakened fault is another one.
LEMMA HalfIs ==
    ASSUME NEW f \in [op : Nat, count : Nat, for : Nat, delay : Nat], NEW a \in 1 .. 3
    PROVE  /\ half(f, a) \in Nat /\ Axes[a] \in {"count", "for", "delay"}
           /\ half(f, a) > 0 => half(f, a) # f[Axes[a]]
<1>1. Axes[a] \in {"count", "for", "delay"}
  BY DEF Axes
<1> DEFINE d == f[Axes[a]]
<1>2. d \in Nat
  BY <1>1
<1>3. CASE Axes[a] = "count"
  <2>1. half(f, a) = d \div 2
    BY <1>3 DEF half, halvedCount
  <2> HIDE DEF d
  <2>2. d \div 2 \in Nat /\ (d \div 2 > 0 => d \div 2 # d)
    BY <1>2
  <2> QED
    BY <1>1, <2>1, <2>2 DEF d
<1>4. CASE Axes[a] # "count"
  <2>1. half(f, a) = IF d <= MinFault THEN 0 ELSE Max({d \div 2, MinFault})
    BY <1>4 DEF half, halved
  <2> HIDE DEF d
  <2>2. CASE d > MinFault
    <3>1. d \div 2 \in Nat /\ d \div 2 < d /\ MinFault \in Nat
      BY <1>2, <2>2, MinFaultAssumption
    <3> DEFINE S == {d \div 2, MinFault}
    <3>2. \E x \in S : \A y \in S : x >= y
      BY <3>1
    <3>3. Max(S) \in S
      BY <3>2 DEF Max
    <3> QED
      BY <1>1, <1>2, <2>1, <2>2, <3>1, <3>3, MinFaultAssumption DEF d
  <2>3. CASE ~(d > MinFault)
    BY <1>1, <1>2, <2>1, <2>3, MinFaultAssumption
  <2> QED
    BY <2>2, <2>3
<1> QED
  BY <1>3, <1>4

\* The sequence with a fault made milder is the same but for that fault, which
\* ends with the same op.
LEMMA WithIs ==
    ASSUME NEW seq \in Seq(Op), NEW n \in 1 .. Len(seq), NEW a \in 1 .. 3
    PROVE  /\ with(seq, n, a) \in Seq(Op) /\ Len(with(seq, n, a)) = Len(seq)
           /\ with(seq, n, a)[n].fault[Axes[a]] = half(seq[n].fault, a)
           /\ \A m \in 1 .. Len(seq) :
                 /\ m # n => with(seq, n, a)[m] = seq[m]
                 /\ with(seq, n, a)[m].i = seq[m].i
                 /\ with(seq, n, a)[m].type = seq[m].type
                 /\ with(seq, n, a)[m].key = seq[m].key
                 /\ with(seq, n, a)[m].noSettle = seq[m].noSettle
                 /\ with(seq, n, a)[m].until = seq[m].until
                 /\ with(seq, n, a)[m].fault.op = seq[m].fault.op
<1> DEFINE fault == seq[n].fault
           mild == [fault EXCEPT ![Axes[a]] = half(fault, a)]
           new == [seq[n] EXCEPT !.fault = mild]
<1>0. Len(seq) \in Nat /\ DOMAIN seq = 1 .. Len(seq) /\ seq[n] \in Op
  OBVIOUS
<1>1. fault \in [op : Nat, count : Nat, for : Nat, delay : Nat]
  BY <1>0 DEF Op
<1>2. half(fault, a) \in Nat /\ Axes[a] \in {"count", "for", "delay"}
  BY <1>1, HalfIs
<1>3. with(seq, n, a) = [seq EXCEPT ![n] = new]
  BY DEF with
<1>4. /\ mild \in [op : Nat, count : Nat, for : Nat, delay : Nat]
      /\ mild[Axes[a]] = half(fault, a) /\ mild.op = fault.op
  <2> HIDE DEF fault
  <2>1. CASE Axes[a] = "count"
    BY <1>1, <1>2, <2>1
  <2>2. CASE Axes[a] = "for"
    BY <1>1, <1>2, <2>2
  <2>3. CASE Axes[a] = "delay"
    BY <1>1, <1>2, <2>3
  <2> QED
    BY <1>2, <2>1, <2>2, <2>3
<1>5. /\ new \in Op /\ new.fault = mild /\ new.i = seq[n].i /\ new.type = seq[n].type
      /\ new.key = seq[n].key /\ new.noSettle = seq[n].noSettle /\ new.until = seq[n].until
  <2> HIDE DEF mild
  <2> QED
    BY <1>0, <1>4 DEF Op
<1> HIDE DEF new, mild
<1>6. /\ with(seq, n, a) \in Seq(Op) /\ Len(with(seq, n, a)) = Len(seq)
      /\ with(seq, n, a)[n] = new
      /\ \A m \in 1 .. Len(seq) : m # n => with(seq, n, a)[m] = seq[m]
  BY <1>0, <1>3, <1>5
<1>7. with(seq, n, a)[n].fault[Axes[a]] = half(seq[n].fault, a)
  BY <1>4, <1>5, <1>6
<1>8. ASSUME NEW m \in 1 .. Len(seq)
      PROVE  /\ with(seq, n, a)[m].i = seq[m].i
             /\ with(seq, n, a)[m].type = seq[m].type
             /\ with(seq, n, a)[m].key = seq[m].key
             /\ with(seq, n, a)[m].noSettle = seq[m].noSettle
             /\ with(seq, n, a)[m].until = seq[m].until
             /\ with(seq, n, a)[m].fault.op = seq[m].fault.op
  <2>1. CASE m = n
    BY <1>4, <1>5, <1>6, <2>1
  <2>2. CASE m # n
    BY <1>6, <2>2
  <2> QED
    BY <2>1, <2>2
<1> QED
  BY <1>6, <1>7, <1>8

\* A milder fault leaves a legal sequence legal.
LEMMA WithValid ==
    ASSUME NEW seq \in Seq(Op), NEW n \in 1 .. Len(seq), NEW a \in 1 .. 3, Valid(seq),
           seq[n].type = "fault"
    PROVE  Valid(with(seq, n, a))
<1> DEFINE w == with(seq, n, a)
<1>1. /\ w \in Seq(Op) /\ Len(w) = Len(seq) /\ Len(seq) \in Nat
      /\ DOMAIN w = 1 .. Len(seq) /\ DOMAIN seq = 1 .. Len(seq)
  <2>1. w \in Seq(Op) /\ Len(w) = Len(seq)
    BY WithIs
  <2> HIDE DEF w
  <2> QED
    BY <2>1
<1>2. ASSUME NEW m \in 1 .. Len(seq)
      PROVE  /\ m # n => w[m] = seq[m]
             /\ w[m].i = seq[m].i /\ w[m].type = seq[m].type /\ w[m].key = seq[m].key
             /\ w[m].noSettle = seq[m].noSettle /\ w[m].until = seq[m].until
             /\ w[m].fault.op = seq[m].fault.op
  BY WithIs
<1> HIDE DEF w
<1>3. ASSUME NEW m \in 1 .. Len(seq) PROVE ValidOp(w[m], m)
  <2>1. ValidOp(seq[m], m)
    BY <1>1 DEF Valid
  <2>2. CASE m = n
    BY <1>2, <2>1, <2>2 DEF ValidOp, CarriesItsFields
  <2> QED
    BY <1>2, <2>1, <2>2
<1>4. w # <<>> /\ Settles(w[Len(w)])
  <2>1. seq # <<>> /\ Settles(seq[Len(seq)])
    BY DEF Valid
  <2>2. Len(seq) \in 1 .. Len(seq)
    BY <1>1, <2>1
  <2>3. Settles(w[Len(seq)])
    BY <1>2, <2>1, <2>2 DEF Settles
  <2> QED
    BY <1>1, <2>2, <2>3
<1>5. ASSUME NEW k, NEW m \in 1 .. Len(seq) PROVE LastDeletion(w, k, m) = LastDeletion(seq, k, m)
  <2> DEFINE I(s) == {j \in 1 .. m - 1 : s[j].type = "deleteFixture" /\ s[j].key = k}
  <2>1. I(w) = I(seq)
    <3>1. ASSUME NEW j \in 1 .. m - 1 PROVE w[j].type = seq[j].type /\ w[j].key = seq[j].key
      <4>1. j \in 1 .. Len(seq)
        BY <1>1
      <4> QED
        BY <4>1, <1>2
    <3> QED
      BY <3>1
  <2>2. LastDeletion(w, k, m) = IF I(w) # {} THEN Max(I(w)) ELSE 0
    BY DEF LastDeletion, SelectLastInSubSeq
  <2>3. LastDeletion(seq, k, m) = IF I(seq) # {} THEN Max(I(seq)) ELSE 0
    BY DEF LastDeletion, SelectLastInSubSeq
  <2> HIDE DEF I
  <2> QED
    BY <2>1, <2>2, <2>3
<1>6. ValidFixtures(w)
  <2> SUFFICES ASSUME NEW m \in 1 .. Len(seq), w[m].type \in FixtureOps
               PROVE  LET d == LastDeletion(w, w[m].key, m)
                      IN  /\ d # 0 => m >= w[d].until
                          /\ w[m].type = "deleteFixture" => w[m].until > m /\ w[m].until <= Len(w)
    BY <1>1 DEF ValidFixtures
  <2> DEFINE d == LastDeletion(w, w[m].key, m)
  <2>1. w[m].type = seq[m].type /\ w[m].key = seq[m].key /\ w[m].until = seq[m].until
    BY <1>2
  <2>2. d = LastDeletion(seq, seq[m].key, m)
    BY <1>5, <2>1
  <2> HIDE DEF d
  <2>3. /\ d # 0 => m >= seq[d].until
        /\ seq[m].type = "deleteFixture" => seq[m].until > m /\ seq[m].until <= Len(seq)
    BY <1>1, <2>1, <2>2 DEF Valid, ValidFixtures
  <2>4. d # 0 => w[d].until = seq[d].until
    <3>1. CASE d # 0
      <4>1. d \in 1 .. m - 1
        BY <2>2, <3>1, DeletionBefore
      <4>2. d \in 1 .. Len(seq)
        BY <1>1, <4>1
      <4> QED
        BY <4>2, <1>2
    <3> QED
      BY <3>1
  <2> QED
    BY <1>1, <2>1, <2>3, <2>4 DEF d
<1> QED
  BY <1>1, <1>3, <1>4, <1>6 DEF Valid, w

-----------------------------------------------------------------------------
(* Where ops end. *)

\* Of the ops left, the ones from index u on are the ones from op `to` of the
\* failing sequence on.
Splits(which, u, to) ==
    u \in Nat \ {0} /\ \A m \in 1 .. Len(which) : which[m] >= to <=> m >= u

\* Of a sequence whose ops were at `which` in the sequence `was`: the ops kept
\* their order, and each ends where it did.
Placed(seq, which, was) ==
    /\ Len(which) = Len(seq)
    /\ \A n \in 1 .. Len(which) : which[n] \in 1 .. Len(was)
    /\ \A m, n \in 1 .. Len(which) : m < n => which[m] < which[n]
    /\ \A n \in 1 .. Len(which) :
          /\ was[which[n]].until # 0 => Splits(which, seq[n].until, was[which[n]].until)
          /\ was[which[n]].fault.op # 0 => Splits(which, seq[n].fault.op, was[which[n]].fault.op)

\* An index moved back where an op before it is gone still splits the ops.
LEMMA SplitsMoved ==
    ASSUME NEW which \in Seq(Nat), NEW n \in 1 .. Len(which), NEW u, NEW to \in Nat,
           Splits(which, u, to)
    PROVE  Splits(RemoveAt(which, n), moved(u, n), to)
<1>0. Len(which) \in Nat /\ n \in Nat \ {0} /\ u \in Nat \ {0}
  BY DEF Splits
<1>1. /\ Len(RemoveAt(which, n)) = Len(which) - 1
      /\ \A m \in 1 .. Len(which) - 1 : RemoveAt(which, n)[m] = which[Skip(n, m)]
  BY RemoveAtIs
<1>2. moved(u, n) \in Nat \ {0}
  BY <1>0 DEF moved
<1>3. ASSUME NEW m \in 1 .. Len(which) - 1
      PROVE  RemoveAt(which, n)[m] >= to <=> m >= moved(u, n)
  <2>1. Skip(n, m) \in 1 .. Len(which)
    BY <1>0 DEF Skip
  <2>2. which[Skip(n, m)] >= to <=> Skip(n, m) >= u
    BY <2>1 DEF Splits
  <2>3. Skip(n, m) >= u <=> m >= moved(u, n)
    BY <1>0 DEF Skip, moved
  <2> QED
    BY <1>1, <2>2, <2>3
<1> QED
  BY <1>1, <1>2, <1>3 DEF Splits

\* Removing an op leaves every index where `Placed` wants it.
LEMMA PlacedWithout ==
    ASSUME NEW seq \in Seq(Op), NEW was \in Seq(Op), NEW which \in Seq(Nat),
           Placed(seq, which, was), NEW n \in 1 .. Len(seq)
    PROVE  Placed(without(seq, n), RemoveAt(which, n), was)
<1> DEFINE w == without(seq, n)
           r == RemoveAt(which, n)
<1>0. Len(which) \in Nat /\ Len(seq) = Len(which) /\ n \in 1 .. Len(which) /\ n \in Nat \ {0}
  BY DEF Placed
<1>1. /\ Len(w) = Len(which) - 1
      /\ \A m \in 1 .. Len(which) - 1 :
            /\ w[m].until = moved(seq[Skip(n, m)].until, n)
            /\ w[m].fault.op = moved(seq[Skip(n, m)].fault.op, n)
  BY <1>0, WithoutIs
<1> HIDE DEF w
<1>2. Len(r) = Len(which) - 1 /\ \A m \in 1 .. Len(which) - 1 : r[m] = which[Skip(n, m)]
  BY <1>0, RemoveAtIs
<1>3. ASSUME NEW u, NEW to \in Nat, Splits(which, u, to) PROVE Splits(r, moved(u, n), to)
  BY <1>0, <1>3, SplitsMoved
<1> HIDE DEF r
<1>4. ASSUME NEW m \in 1 .. Len(which) - 1
      PROVE  /\ Skip(n, m) \in 1 .. Len(which) /\ r[m] = which[Skip(n, m)]
             /\ r[m] \in 1 .. Len(was)
  <2>1. Skip(n, m) \in 1 .. Len(which)
    BY <1>0 DEF Skip
  <2> QED
    BY <1>2, <2>1 DEF Placed
<1>5. ASSUME NEW l \in 1 .. Len(which) - 1, NEW m \in 1 .. Len(which) - 1, l < m
      PROVE  r[l] < r[m]
  <2>1. Skip(n, l) < Skip(n, m)
    BY <1>0, <1>5 DEF Skip
  <2> QED
    BY <1>4, <2>1 DEF Placed
<1>6. ASSUME NEW m \in 1 .. Len(which) - 1
      PROVE  /\ was[r[m]].until # 0 => Splits(r, w[m].until, was[r[m]].until)
             /\ was[r[m]].fault.op # 0 => Splits(r, w[m].fault.op, was[r[m]].fault.op)
  <2> DEFINE k == Skip(n, m)
  <2>1. k \in 1 .. Len(which) /\ r[m] = which[k] /\ r[m] \in 1 .. Len(was)
    BY <1>4
  <2>2. w[m].until = moved(seq[k].until, n) /\ w[m].fault.op = moved(seq[k].fault.op, n)
    BY <1>1
  <2> HIDE DEF k
  <2>3. was[r[m]] \in Op
    BY <2>1
  <2>4. was[r[m]].until \in Nat /\ was[r[m]].fault.op \in Nat
    BY <2>3 DEF Op
  <2>5. /\ was[r[m]].until # 0 => Splits(which, seq[k].until, was[r[m]].until)
        /\ was[r[m]].fault.op # 0 => Splits(which, seq[k].fault.op, was[r[m]].fault.op)
    BY <2>1 DEF Placed
  <2> QED
    BY <1>3, <2>2, <2>4, <2>5
<1> QED
  BY <1>1, <1>2, <1>4, <1>5, <1>6 DEF Placed, w, r

\* So does making a fault milder, which moves no op.
LEMMA PlacedWith ==
    ASSUME NEW seq \in Seq(Op), NEW was \in Seq(Op), NEW which \in Seq(Nat),
           Placed(seq, which, was), NEW n \in 1 .. Len(seq), NEW a \in 1 .. 3
    PROVE  Placed(with(seq, n, a), which, was)
<1> DEFINE w == with(seq, n, a)
<1>1. /\ Len(w) = Len(seq)
      /\ \A m \in 1 .. Len(seq) : w[m].until = seq[m].until /\ w[m].fault.op = seq[m].fault.op
  BY WithIs
<1> HIDE DEF w
<1>2. Placed(w, which, was)
  BY <1>1 DEF Placed
<1> QED
  BY <1>2 DEF w

\* The op an index names that splits the ops is the first left.
LEMMA SplitsFollows ==
    ASSUME NEW u, NEW to, ids \in Seq(Nat), Splits(ids, u, to)
    PROVE  Follows(u, to)
<1> DEFINE left == {n \in DOMAIN ids : ids[n] >= to}
<1>1. DOMAIN ids = 1 .. Len(ids) /\ Len(ids) \in Nat /\ u \in Nat \ {0}
  BY DEF Splits
<1>2. \A n \in 1 .. Len(ids) : n \in left <=> n >= u
  BY <1>1 DEF Splits
<1>3. left \subseteq 1 .. Len(ids)
  BY <1>1
<1>4. Follows(u, to) <=> IF left = {} THEN u > Len(ids) ELSE u = Min(left)
  BY DEF Follows
<1> HIDE DEF left
<1>5. CASE left = {}
  <2>1. ~(u \in 1 .. Len(ids))
    BY <1>1, <1>2, <1>5
  <2> QED
    BY <1>1, <1>4, <1>5, <2>1
<1>6. CASE left # {}
  <2>0. left \in SUBSET Nat
    BY <1>3
  <2>1. Min(left) \in left /\ \A m \in left : Min(left) <= m
    BY <2>0, <1>6, MinOf
  <2> DEFINE l == Min(left)
  <2>2. l \in 1 .. Len(ids) /\ l >= u
    BY <1>2, <1>3, <2>1
  <2>3. \A m \in left : l <= m
    BY <2>1
  <2> HIDE DEF l
  <2>4. u \in 1 .. Len(ids)
    BY <1>1, <2>2
  <2>5. l <= u
    BY <1>1, <1>2, <2>3, <2>4
  <2>6. l = u
    BY <1>1, <2>2, <2>5
  <2> QED
    BY <1>4, <1>6, <2>6 DEF l
<1> QED
  BY <1>5, <1>6

\* Indices that are placed name what they named in the failing sequence.
LEMMA PlacedEnds ==
    ASSUME ids \in Seq(Nat), smallest \in Seq(Op), Placed(smallest, ids, failing)
    PROVE  EndsWhereItDid
<1>1. DOMAIN smallest = 1 .. Len(ids)
  BY DEF Placed
<1>2. ASSUME NEW n \in 1 .. Len(ids)
      PROVE  LET was == failing[ids[n]]
             IN  /\ was.until # 0 => Follows(smallest[n].until, was.until)
                 /\ was.fault.op # 0 => Follows(smallest[n].fault.op, was.fault.op)
  BY SplitsFollows DEF Placed
<1> QED
  BY <1>1, <1>2 DEF EndsWhereItDid

-----------------------------------------------------------------------------
(* The passes. *)

ShrinkTypeOK ==
    /\ shrinking \in {"no", "remove", "weaken", "done"}
    /\ smallest \in Seq(Op) /\ failing \in Seq(Op) /\ ids \in Seq(Nat)
    /\ oracle \in [needs : SUBSET Nat, least : Nat, flaky : BOOLEAN]
    /\ pos \in Nat \ {0} /\ axis \in 1 .. 3 /\ simplified \in BOOLEAN /\ late \in BOOLEAN

\* What is shrunk is legal, and weakening is at a fault.
Shrinkable ==
    /\ shrinking # "no" => Valid(smallest)
    /\ shrinking = "weaken" => pos <= Len(smallest) /\ smallest[pos].type = "fault"

\* The failure goes with op n, or with the axis of its fault halved.
Kept(n) == LET candidate == without(smallest, n)
           IN  ~(Valid(candidate) /\ Fails(candidate, RemoveAt(ids, n)))
Hard(n, a) == half(smallest[n].fault, a) > 0 => ~Fails(with(smallest, n, a), ids)

\* A pass that simplified nothing has found all that is behind it so.
Behind ==
    shrinking \in {"remove", "weaken"} /\ ~simplified /\ ~oracle.flaky =>
        /\ \A n \in 1 .. Len(smallest) : n < pos =>
              Kept(n) /\ (smallest[n].type = "fault" => \A a \in 1 .. 3 : Hard(n, a))
        /\ shrinking = "weaken" => Kept(pos) /\ \A a \in 1 .. 3 : a < axis => Hard(pos, a)

ShrinkInv ==
    ShrinkTypeOK /\ Placed(smallest, ids, failing) /\ Shrinkable /\ Behind /\ Minimal

\* A legal sequence that failed is where shrinking begins.
LEMMA BeginInv ==
    ASSUME NEW seq \in Seq(Op), Valid(seq),
           NEW bug \in [needs : SUBSET Nat, least : Nat, flaky : BOOLEAN], Begin(seq, bug)
    PROVE  ShrinkInv'
<1> DEFINE all == [n \in DOMAIN seq |-> n]
<1>0. Len(seq) \in Nat /\ DOMAIN seq = 1 .. Len(seq)
  OBVIOUS
<1>1. all \in Seq(Nat) /\ Len(all) = Len(seq) /\ \A n \in 1 .. Len(seq) : all[n] = n
  BY <1>0
<1> HIDE DEF all
<1>2. /\ shrinking' = "remove" /\ smallest' = seq /\ failing' = seq /\ oracle' = bug /\ ids' = all
      /\ pos' = 1 /\ axis' = 1 /\ simplified' = FALSE /\ late' = FALSE
  BY DEF Begin, all
<1>3. ShrinkTypeOK'
  <2>1. smallest' \in Seq(Op) /\ failing' \in Seq(Op) /\ ids' \in Seq(Nat)
    BY <1>1, <1>2
  <2>2. oracle' \in [needs : SUBSET Nat, least : Nat, flaky : BOOLEAN]
    BY <1>2
  <2>3. simplified' \in BOOLEAN /\ late' \in BOOLEAN
    BY <1>2
  <2>4. /\ shrinking' \in {"no", "remove", "weaken", "done"}
        /\ pos' \in Nat \ {0} /\ axis' \in 1 .. 3
    BY <1>2
  <2> QED
    BY <2>1, <2>2, <2>3, <2>4 DEF ShrinkTypeOK
<1>4. Placed(seq, all, seq)
  <2>1. ASSUME NEW n \in 1 .. Len(seq)
        PROVE  /\ seq[n].until # 0 => Splits(all, seq[n].until, seq[n].until)
               /\ seq[n].fault.op # 0 => Splits(all, seq[n].fault.op, seq[n].fault.op)
    <3>1. seq[n] \in Op
      BY <1>0
    <3>2. seq[n].until \in Nat /\ seq[n].fault.op \in Nat
      BY <3>1 DEF Op
    <3> QED
      BY <1>0, <1>1, <3>2 DEF Splits
  <2> QED
    BY <1>0, <1>1, <2>1 DEF Placed
<1>5. Placed(smallest, ids, failing)'
  BY <1>2, <1>4
<1>6. Shrinkable'
  BY <1>2 DEF Shrinkable
<1>7. Behind'
  <2>1. \A n \in 1 .. Len(smallest') : ~(n < pos')
    BY <1>0, <1>2
  <2> QED
    BY <1>2, <2>1 DEF Behind
<1>8. Minimal'
  BY <1>2 DEF Minimal
<1> QED
  BY <1>3, <1>5, <1>6, <1>7, <1>8 DEF ShrinkInv

\* Whatever a replay shows, an op that goes leaves the rest in place; one that
\* stays is behind the pass.
LEMMA RemoveInv ==
    ASSUME ShrinkInv, TryRemove
    PROVE  ShrinkInv'
<1>0. /\ shrinking = "remove" /\ pos \in 1 .. Len(smallest)
      /\ pos \in Nat \ {0} /\ Len(smallest) \in Nat
      /\ smallest \in Seq(Op) /\ ids \in Seq(Nat) /\ failing \in Seq(Op)
      /\ Placed(smallest, ids, failing) /\ UNCHANGED <<failing, oracle, late>>
  BY DEF ShrinkInv, ShrinkTypeOK, TryRemove, Trying
<1> DEFINE c == without(smallest, pos)
           w == RemoveAt(ids, pos)
<1>1. PICK shows \in Shows :
        IF Reproduces(c, w, shows)
        THEN /\ smallest' = c /\ ids' = w /\ simplified' = TRUE
             /\ UNCHANGED <<shrinking, pos, axis>>
        ELSE /\ IF smallest[pos].type = "fault"
                THEN shrinking' = "weaken" /\ axis' = 1 /\ pos' = pos
                ELSE pos' = pos + 1 /\ UNCHANGED <<shrinking, axis>>
             /\ UNCHANGED <<smallest, ids, simplified>>
  BY DEF TryRemove
<1>2. c \in Seq(Op) /\ Len(c) = Len(smallest) - 1
  BY <1>0, WithoutIs
<1>3. Len(ids) = Len(smallest)
  BY <1>0 DEF Placed
<1>4. w \in Seq(Nat)
  BY <1>0, <1>3, RemoveAtIs
<1>5. Placed(c, w, failing)
  BY <1>0, PlacedWithout
<1>6. c # smallest
  BY <1>0, <1>2
<1>7. Kept(pos) <=> ~(Valid(c) /\ Fails(c, w))
  BY DEF Kept
<1> HIDE DEF c, w
<1>8. CASE Reproduces(c, w, shows)
  <2>1. /\ smallest' = c /\ ids' = w /\ simplified' = TRUE
        /\ UNCHANGED <<shrinking, pos, axis>>
    BY <1>1, <1>8
  <2>2. ShrinkTypeOK'
    BY <1>0, <1>2, <1>4, <2>1 DEF ShrinkInv, ShrinkTypeOK
  <2>3. Placed(smallest, ids, failing)'
    BY <1>0, <1>5, <2>1
  <2>4. Shrinkable' /\ Behind' /\ Minimal'
    BY <1>0, <1>8, <2>1 DEF Shrinkable, Behind, Minimal, Reproduces
  <2> QED
    BY <2>2, <2>3, <2>4 DEF ShrinkInv
<1>9. CASE ~Reproduces(c, w, shows)
  <2>1. /\ IF smallest[pos].type = "fault"
           THEN shrinking' = "weaken" /\ axis' = 1 /\ pos' = pos
           ELSE pos' = pos + 1 /\ UNCHANGED <<shrinking, axis>>
        /\ UNCHANGED <<smallest, ids, simplified, failing, oracle, late>>
    BY <1>0, <1>1, <1>9
  <2>2. ShrinkTypeOK'
    BY <1>0, <2>1 DEF ShrinkInv, ShrinkTypeOK
  <2>3. Placed(smallest, ids, failing)'
    BY <1>0, <2>1
  <2>4. Shrinkable' /\ Minimal'
    BY <1>0, <2>1 DEF ShrinkInv, Shrinkable, Minimal
  <2>5. ~oracle.flaky => Kept(pos)
    <3>1. ~oracle.flaky => shows = TRUE
      BY DEF Shows
    <3> QED
      BY <1>6, <1>7, <1>9, <3>1 DEF Reproduces
  <2>6. ASSUME NEW n, NEW a PROVE (Kept(n)' <=> Kept(n)) /\ (Hard(n, a)' <=> Hard(n, a))
    BY <2>1 DEF Kept, Hard, Fails
  <2>7. Behind'
    <3> SUFFICES ASSUME ~simplified, ~oracle.flaky
                 PROVE  /\ \A n \in 1 .. Len(smallest) : n < pos' =>
                              /\ Kept(n)
                              /\ smallest[n].type = "fault" => \A a \in 1 .. 3 : Hard(n, a)
                        /\ shrinking' = "weaken" =>
                              Kept(pos') /\ \A a \in 1 .. 3 : a < axis' => Hard(pos', a)
      BY <2>1, <2>6 DEF Behind
    <3>1. \A n \in 1 .. Len(smallest) : n < pos =>
             Kept(n) /\ (smallest[n].type = "fault" => \A a \in 1 .. 3 : Hard(n, a))
      BY <1>0 DEF ShrinkInv, Behind
    <3> QED
      BY <1>0, <2>1, <2>5, <3>1
  <2> QED
    BY <2>2, <2>3, <2>4, <2>7 DEF ShrinkInv
<1> QED
  BY <1>8, <1>9

\* A fault made milder is another fault in a legal sequence; one that no halving
\* makes milder is behind the pass.
LEMMA WeakenInv ==
    ASSUME ShrinkInv, TryWeaken
    PROVE  ShrinkInv'
<1>0. /\ shrinking = "weaken" /\ pos \in 1 .. Len(smallest) /\ pos \in Nat \ {0}
      /\ Len(smallest) \in Nat /\ axis \in 1 .. 3
      /\ smallest \in Seq(Op) /\ ids \in Seq(Nat) /\ failing \in Seq(Op)
      /\ Placed(smallest, ids, failing) /\ Valid(smallest) /\ smallest[pos].type = "fault"
      /\ UNCHANGED <<ids, failing, oracle, late>>
  BY DEF ShrinkInv, ShrinkTypeOK, Shrinkable, TryWeaken, Trying
<1> DEFINE c == with(smallest, pos, axis)
           h == half(smallest[pos].fault, axis)
<1>1. PICK shows \in Shows :
        IF h > 0 /\ Reproduces(c, ids, shows)
        THEN smallest' = c /\ simplified' = TRUE /\ UNCHANGED <<shrinking, pos, axis>>
        ELSE nextAxis /\ UNCHANGED <<smallest, simplified>>
  BY DEF TryWeaken
<1>2. /\ c \in Seq(Op) /\ Len(c) = Len(smallest) /\ c[pos].type = smallest[pos].type
      /\ c[pos].fault[Axes[axis]] = h
  BY <1>0, WithIs
<1>3. Placed(c, ids, failing)
  BY <1>0, PlacedWith
<1>4. Valid(c)
  BY <1>0, WithValid
<1>5. h > 0 => c # smallest
  <2>1. smallest[pos] \in Op
    BY <1>0
  <2>2. smallest[pos].fault \in [op : Nat, count : Nat, for : Nat, delay : Nat]
    BY <2>1 DEF Op
  <2>3. h > 0 => h # smallest[pos].fault[Axes[axis]]
    BY <1>0, <2>2, HalfIs
  <2> QED
    BY <1>2, <2>3
<1>6. Hard(pos, axis) <=> (h > 0 => ~Fails(c, ids))
  BY DEF Hard
<1> HIDE DEF c, h
<1>8. CASE h > 0 /\ Reproduces(c, ids, shows)
  <2>1. smallest' = c /\ simplified' = TRUE /\ UNCHANGED <<shrinking, pos, axis>>
    BY <1>1, <1>8
  <2>2. ShrinkTypeOK'
    BY <1>0, <1>2, <2>1 DEF ShrinkInv, ShrinkTypeOK
  <2>3. Placed(smallest, ids, failing)'
    BY <1>0, <1>3, <2>1
  <2>4. Shrinkable' /\ Behind' /\ Minimal'
    BY <1>0, <1>2, <1>4, <2>1 DEF Shrinkable, Behind, Minimal
  <2> QED
    BY <2>2, <2>3, <2>4 DEF ShrinkInv
<1>9. CASE ~(h > 0 /\ Reproduces(c, ids, shows))
  <2>1. /\ \/ axis < 3 /\ axis' = axis + 1 /\ UNCHANGED <<shrinking, pos>>
           \/ axis = 3 /\ shrinking' = "remove" /\ pos' = pos + 1 /\ UNCHANGED axis
        /\ UNCHANGED <<smallest, ids, simplified, failing, oracle, late>>
    <3>1. nextAxis /\ UNCHANGED <<smallest, simplified>>
      BY <1>1, <1>9
    <3>2. Len(Axes) = 3
      BY DEF Axes
    <3> QED
      BY <1>0, <3>1, <3>2 DEF nextAxis
  <2>2. ShrinkTypeOK'
    BY <1>0, <2>1 DEF ShrinkInv, ShrinkTypeOK
  <2>3. Placed(smallest, ids, failing)'
    BY <1>0, <2>1
  <2>4. Shrinkable' /\ Minimal'
    BY <1>0, <2>1 DEF ShrinkInv, Shrinkable, Minimal
  <2>5. ~oracle.flaky => Hard(pos, axis)
    <3>1. ~oracle.flaky => shows = TRUE
      BY DEF Shows
    <3> QED
      BY <1>4, <1>5, <1>6, <1>9, <3>1 DEF Reproduces
  <2>6. ASSUME NEW n, NEW a PROVE (Kept(n)' <=> Kept(n)) /\ (Hard(n, a)' <=> Hard(n, a))
    BY <2>1 DEF Kept, Hard, Fails
  <2>7. Behind'
    <3> SUFFICES ASSUME ~simplified, ~oracle.flaky
                 PROVE  /\ \A n \in 1 .. Len(smallest) : n < pos' =>
                              /\ Kept(n)
                              /\ smallest[n].type = "fault" => \A a \in 1 .. 3 : Hard(n, a)
                        /\ shrinking' = "weaken" =>
                              Kept(pos') /\ \A a \in 1 .. 3 : a < axis' => Hard(pos', a)
      BY <2>1, <2>6 DEF Behind
    <3>1. /\ \A n \in 1 .. Len(smallest) : n < pos =>
                Kept(n) /\ (smallest[n].type = "fault" => \A a \in 1 .. 3 : Hard(n, a))
          /\ Kept(pos) /\ \A a \in 1 .. 3 : a < axis => Hard(pos, a)
      BY <1>0 DEF ShrinkInv, Behind
    <3>2. \A a \in 1 .. 3 : a <= axis => Hard(pos, a)
      BY <1>0, <2>5, <3>1
    <3> QED
      BY <1>0, <2>1, <3>1, <3>2
  <2> QED
    BY <2>2, <2>3, <2>4, <2>7 DEF ShrinkInv
<1> QED
  BY <1>8, <1>9

\* A pass that ends having simplified nothing has every op behind it.
LEMMA EndPassInv ==
    ASSUME ShrinkInv, EndPass
    PROVE  ShrinkInv'
<1>0. /\ shrinking \in {"remove", "weaken"} /\ Len(smallest) \in Nat /\ pos \in Nat
      /\ smallest \in Seq(Op) /\ (pos > Len(smallest) \/ late)
      /\ UNCHANGED <<smallest, ids, failing, oracle, axis, late>>
  BY DEF ShrinkInv, ShrinkTypeOK, EndPass
<1>1. CASE simplified
  <2>1. shrinking' = "remove" /\ pos' = 1 /\ simplified' = FALSE
    BY <1>1 DEF EndPass, again
  <2>2. Placed(smallest, ids, failing)' /\ Shrinkable' /\ Minimal'
    BY <1>0, <2>1 DEF ShrinkInv, Shrinkable, Minimal
  <2>3. \A n \in 1 .. Len(smallest') : ~(n < pos')
    BY <1>0, <2>1
  <2>4. Behind'
    BY <2>1, <2>3 DEF Behind
  <2>5. simplified' \in BOOLEAN
    BY <2>1
  <2>6. ShrinkTypeOK'
    BY <1>0, <2>1, <2>5 DEF ShrinkInv, ShrinkTypeOK
  <2> QED
    BY <2>2, <2>4, <2>6 DEF ShrinkInv
<1>2. CASE ~simplified
  <2>1. shrinking' = "done" /\ UNCHANGED <<pos, simplified>>
    BY <1>2 DEF EndPass, again
  <2>2. ShrinkTypeOK' /\ Placed(smallest, ids, failing)' /\ Shrinkable' /\ Behind'
    BY <1>0, <2>1 DEF ShrinkInv, ShrinkTypeOK, Shrinkable, Behind
  <2>3. ASSUME ~late, ~oracle.flaky, NEW n \in DOMAIN smallest
        PROVE  Kept(n) /\ (smallest[n].type = "fault" => \A a \in 1 .. 3 : Hard(n, a))
    <3>1. n \in 1 .. Len(smallest) /\ n < pos
      BY <1>0, <2>3
    <3> QED
      BY <1>0, <1>2, <2>3, <3>1 DEF ShrinkInv, Behind
  <2>4. Minimal'
    <3>1. DOMAIN Axes = 1 .. 3
      BY DEF Axes
    <3>2. ASSUME ~late, ~oracle.flaky, NEW n \in DOMAIN smallest
          PROVE  /\ Kept(n)' 
                 /\ smallest[n].type = "fault" => \A a \in DOMAIN Axes : Hard(n, a)'
      BY <1>0, <2>3, <3>1, <3>2 DEF Kept, Hard, Fails
    <3> QED
      BY <1>0, <3>2 DEF Minimal, Kept, Hard
  <2> QED
    BY <2>2, <2>4 DEF ShrinkInv
<1> QED
  BY <1>1, <1>2 DEF ShrinkInv, ShrinkTypeOK

\* The deadline changes nothing of what was found, and lifts what Minimal asks.
LEMMA DeadlineInv ==
    ASSUME ShrinkInv, Deadline
    PROVE  ShrinkInv'
  BY DEF ShrinkInv, ShrinkTypeOK, Shrinkable, Behind, Minimal, Deadline, Kept, Hard, Fails

-----------------------------------------------------------------------------
(* What the ops before position n leave. *)

\* The op creates or deletes the CR.
Decides(op, cr) == op.key = cr /\ op.type \in {"create", "recreate", "delete"}

Deletes(op, f) == op.type = "deleteFixture" /\ op.key = f

\* The CR was created; it is there; the fixture is there once a wait has passed.
Made(s, cr, n) == \E p \in 1 .. n - 1 : Decides(s[p], cr)
There(s, cr, n) ==
    \E p \in 1 .. n - 1 :
        /\ Decides(s[p], cr) /\ s[p].type # "delete"
        /\ \A q \in p + 1 .. n - 1 : ~Decides(s[q], cr)
Back(s, f, n) ==
    \A p \in 1 .. n - 1 : Deletes(s[p], f) => \E q \in p + 1 .. n - 1 : Settles(s[q])

\* The op finds its CR or its fixture as it needs it.
Fits(s, op, n) ==
    /\ op.type = "create" => ~Made(s, op.key, n)
    /\ op.type = "recreate" => Made(s, op.key, n)
    /\ op.type \in {"update", "delete"} => There(s, op.key, n)
    /\ op.type = "deleteFixture" => Back(s, op.key, n)

AllFit(s) == \A n \in 1 .. Len(s) : Fits(s, s[n], n)

\* An op of its type carries its fields, until apart.
Carries(op) ==
    /\ op.type \in OpTypes
    /\ (op.key # NoKey) = (op.type \in CROps \cup FixtureOps \cup {"deleteManaged"})
    /\ (op.until # 0) => op.type = "deleteFixture"
    /\ (op.fault # NoFault) => op.type = "fault"
    /\ op.noSettle => op.type \in CROps

\* What the generator keeps beside the ops it has drawn.
Tracks ==
    /\ \A n \in 1 .. Len(CRNames) : Made(ops, CRNames[n], Len(ops) + 1) <=> n <= Len(crs)
    /\ \A n \in 1 .. Len(crs) : crs[n].live => There(ops, CRNames[n], Len(ops) + 1)
    /\ \A f \in Fixtures \ gone : Back(ops, f, Len(ops) + 1)

\* No CR holds another's value or what another falls back on.
Own == \A m \in DOMAIN crs : \A n \in DOMAIN CRNames \ {m} : crs[m].val # n

GenTypeOK ==
    /\ drawing \in {"ops", "judged", "drawn"}
    /\ ops \in Seq(Op)
    /\ crs \in Seq([val : Values \cup Nat, live : BOOLEAN]) /\ Len(crs) <= Len(CRNames)

Judged(s) ==
    \A n \in 1 .. Len(s) :
        /\ s[n].type = "restart" => n > 1 /\ n < Len(s) /\ Settles(s[n - 1]) /\ Settles(s[n + 1])
        /\ s[n].type = "deleteManaged" => n > 1 /\ Settles(s[n - 1])

\* No op settles between a deletion and its restore.
Restores(s) ==
    \A n \in 1 .. Len(s) : s[n].type = "deleteFixture" =>
        \A m \in n .. s[n].until - 1 : ~Settles(s[m])

GenInv ==
    /\ GenTypeOK /\ DistinctHeld /\ Own
    /\ ops = <<>> => drawing = "ops" /\ crs = <<>>
    /\ drawing = "ops" =>
          /\ \A n \in 1 .. Len(ops) : Carries(ops[n]) /\ ops[n].type # "fault"
          /\ AllFit(ops) /\ Tracks
    /\ drawing = "judged" =>
          /\ \A n \in 1 .. Len(ops) : Carries(ops[n]) /\ ops[n].type # "fault"
          /\ AllFit(ops) /\ Judged(ops) /\ Restores(ops)
    /\ drawing \in {"judged", "drawn"} => Valid(ops) /\ ValidCRs(ops)
    /\ DrawnIsJudged

\* NextSettling is 0 or a position.
LEMMA NextSettlingNat ==
    ASSUME NEW seq, Len(seq) \in Nat, NEW n \in Nat
    PROVE  NextSettling(seq, n) \in Nat
<1> DEFINE I == {i \in n .. Len(seq) : Settles(seq[i])}
<1>1. NextSettling(seq, n) = IF I # {} THEN Min(I) ELSE 0
  BY Zenon DEF NextSettling, SelectInSubSeq
<1>2. I \in SUBSET Nat
  OBVIOUS
<1>3. I # {} => Min(I) \in I
  <2> HIDE DEF I
  <2> QED
    BY <1>2, MinOf
<1>4. I # {} => Min(I) \in Nat
  BY <1>3
<1> QED
  BY <1>1, <1>4

\* The op NextSettling finds is the first from n on that settles.
LEMMA NextSettlingIs ==
    ASSUME NEW seq, Len(seq) \in Nat, NEW n \in Nat \ {0},
           \E q \in n .. Len(seq) : Settles(seq[q])
    PROVE  /\ NextSettling(seq, n) \in n .. Len(seq) /\ Settles(seq[NextSettling(seq, n)])
           /\ \A q \in n .. Len(seq) : Settles(seq[q]) => NextSettling(seq, n) <= q
<1> DEFINE I == {i \in n .. Len(seq) : Settles(seq[i])}
<1>1. NextSettling(seq, n) = IF I # {} THEN Min(I) ELSE 0
  BY Zenon DEF NextSettling, SelectInSubSeq
<1>2. I # {} /\ I \in SUBSET Nat
  OBVIOUS
<1>3. Min(I) \in I /\ \A m \in I : Min(I) <= m
  <2> HIDE DEF I
  <2> QED
    BY <1>2, MinOf
<1> QED
  BY <1>1, <1>2, <1>3

\* The op LastFate finds is the last before n that created or deleted the CR.
LEMMA LastFateIs ==
    ASSUME NEW seq, NEW cr, NEW n \in Nat
    PROVE  \/ LastFate(seq, cr, n) = 0 /\ ~Made(seq, cr, n)
           \/ /\ LastFate(seq, cr, n) \in 1 .. n - 1 /\ Decides(seq[LastFate(seq, cr, n)], cr)
              /\ \A m \in 1 .. n - 1 : Decides(seq[m], cr) => m <= LastFate(seq, cr, n)
<1> DEFINE I == {i \in 1 .. n - 1 : Decides(seq[i], cr)}
<1>1. LastFate(seq, cr, n) = IF I # {} THEN Max(I) ELSE 0
  BY DEF LastFate, SelectLastInSubSeq, Decides
<1>2. I \in SUBSET (0 .. n)
  OBVIOUS
<1>3. CASE I = {}
  BY <1>1, <1>3 DEF Made
<1>4. CASE I # {}
  <2>1. Max(I) \in I /\ \A m \in I : m <= Max(I)
    <3> HIDE DEF I
    <3> QED
      BY <1>2, <1>4, MaxOf
  <2> QED
    BY <1>1, <1>4, <2>1
<1> QED
  BY <1>3, <1>4

\* Where each CR op finds its CR as it needs it, checkCRs passes.
LEMMA FitIsValidCRs ==
    ASSUME NEW s \in Seq(Op), AllFit(s)
    PROVE  ValidCRs(s)
<1> SUFFICES ASSUME NEW n \in DOMAIN s, s[n].type \in CROps
             PROVE  LET fate == LastFate(s, s[n].key, n)
                        live == fate # 0 /\ s[fate].type # "delete"
                    IN  CASE s[n].type = "create" ->
                                ~live /\ (fate # 0 => NextSettling(s, fate) \in fate .. n - 1)
                          [] s[n].type = "recreate" -> fate # 0
                          [] OTHER -> live
  BY DEF ValidCRs
<1> DEFINE cr == s[n].key
           fate == LastFate(s, cr, n)
<1>0. n \in Nat /\ n \in 1 .. Len(s)
  OBVIOUS
<1>1. Fits(s, s[n], n)
  BY <1>0 DEF AllFit
<1>2. \/ fate = 0 /\ ~Made(s, cr, n)
      \/ /\ fate \in 1 .. n - 1 /\ Decides(s[fate], cr)
         /\ \A m \in 1 .. n - 1 : Decides(s[m], cr) => m <= fate
  BY <1>0, LastFateIs
<1> HIDE DEF fate
<1>3. fate # 0 => Made(s, cr, n)
  BY <1>0, <1>2 DEF Made
<1>4. Made(s, cr, n) => fate # 0
  BY <1>0, <1>2
<1>5. ASSUME There(s, cr, n) PROVE fate # 0 /\ s[fate].type # "delete"
  <2>1. PICK p \in 1 .. n - 1 :
          /\ Decides(s[p], cr) /\ s[p].type # "delete"
          /\ \A q \in p + 1 .. n - 1 : ~Decides(s[q], cr)
    BY <1>5 DEF There
  <2>2. Made(s, cr, n)
    BY <2>1 DEF Made
  <2>3. fate \in 1 .. n - 1 /\ Decides(s[fate], cr) /\ p <= fate
    BY <1>2, <2>1, <2>2
  <2>4. ~(fate > p)
    BY <1>0, <2>1, <2>3
  <2>5. fate = p
    BY <1>0, <2>1, <2>3, <2>4
  <2> QED
    BY <1>0, <2>1, <2>5
<1>6. CASE s[n].type = "create"
  BY <1>1, <1>3, <1>6 DEF Fits, fate
<1>7. CASE s[n].type = "recreate"
  BY <1>1, <1>4, <1>7 DEF Fits, fate
<1>8. CASE s[n].type \in {"update", "delete"}
  BY <1>1, <1>5, <1>8 DEF Fits, fate
<1> QED
  BY <1>6, <1>7, <1>8 DEF CROps

\* A sequence with its fixtures restored and its ops numbered.
Finished(t) == Indexed(Restored(t))

\* A finished sequence has the ops it had, numbered, its deleted fixtures back at
\* the next op that settles.
LEMMA FinishedIs ==
    ASSUME NEW t \in Seq(Op)
    PROVE  /\ Finished(t) \in Seq(Op) /\ Len(Finished(t)) = Len(t)
           /\ \A n \in 1 .. Len(t) :
                 /\ Finished(t)[n].i = n /\ Finished(t)[n].type = t[n].type
                 /\ Finished(t)[n].key = t[n].key /\ Finished(t)[n].noSettle = t[n].noSettle
                 /\ Finished(t)[n].fault = t[n].fault
                 /\ Finished(t)[n].until = IF t[n].type = "deleteFixture"
                                           THEN NextSettling(t, n + 1) ELSE t[n].until
<1>0. Len(t) \in Nat /\ DOMAIN t = 1 .. Len(t)
  OBVIOUS
<1> DEFINE r(n) == IF t[n].type = "deleteFixture"
                   THEN [t[n] EXCEPT !.until = NextSettling(t, n + 1)] ELSE t[n]
           u(n) == [r(n) EXCEPT !.i = n]
           R == [n \in 1 .. Len(t) |-> r(n)]
<1>1. Restored(t) = R
  BY <1>0 DEF Restored
<1>2. ASSUME NEW n \in 1 .. Len(t) PROVE NextSettling(t, n + 1) \in Nat
  BY <1>0, NextSettlingNat
<1>3. ASSUME NEW n \in 1 .. Len(t)
      PROVE  /\ u(n) \in Op /\ u(n).i = n /\ u(n).type = t[n].type /\ u(n).key = t[n].key
             /\ u(n).noSettle = t[n].noSettle /\ u(n).fault = t[n].fault
             /\ u(n).until = IF t[n].type = "deleteFixture" THEN NextSettling(t, n + 1)
                             ELSE t[n].until
  <2>1. t[n] \in Op /\ n \in Nat
    BY <1>0
  <2> DEFINE e == NextSettling(t, n + 1)
  <2>2. e \in Nat
    BY <1>2
  <2> HIDE DEF e
  <2>3. CASE t[n].type = "deleteFixture"
    <3>1. r(n) = [t[n] EXCEPT !.until = e]
      BY <2>3 DEF e
    <3>2. r(n) \in Op /\ r(n).type = t[n].type /\ r(n).key = t[n].key /\ r(n).until = e
          /\ r(n).noSettle = t[n].noSettle /\ r(n).fault = t[n].fault
      BY <2>1, <2>2, <3>1 DEF Op
    <3> HIDE DEF r
    <3> QED
      BY <2>1, <2>3, <3>2 DEF Op, e
  <2>4. CASE t[n].type # "deleteFixture"
    <3>1. r(n) = t[n]
      BY <2>4
    <3> HIDE DEF r
    <3> QED
      BY <2>1, <2>4, <3>1 DEF Op
  <2> QED
    BY <2>3, <2>4
<1> HIDE DEF r
<1>4. Finished(t) = [n \in 1 .. Len(t) |-> u(n)]
  BY <1>1 DEF Finished, Indexed
<1> HIDE DEF u
<1>5. /\ Finished(t) \in [1 .. Len(t) -> Op]
      /\ \A n \in 1 .. Len(t) : Finished(t)[n] = u(n)
  BY <1>3, <1>4
<1>6. Finished(t) \in Seq(Op) /\ Len(Finished(t)) = Len(t)
  BY <1>0, <1>5
<1> QED
  BY <1>3, <1>5, <1>6

\* Same type, CR or fixture, and wait.
Alike(op, other) ==
    op.type = other.type /\ op.key = other.key /\ op.noSettle = other.noSettle

\* The sequence t is the first k ops of s with ops put in that settle or inject
\* a fault; h says where each op went.
Embeds(s, k, t, h) ==
    /\ h \in [1 .. k -> 1 .. Len(t)]
    /\ \A m, n \in 1 .. k : m < n => h[m] < h[n]
    /\ \A n \in 1 .. k : Alike(t[h[n]], s[n])
    /\ \A m \in 1 .. Len(t) : (\E n \in 1 .. k : h[n] = m) \/ t[m].type \in {"settle", "fault"}

\* Ops put in between leave every other op the CRs and the fixtures it needs.
LEMMA EmbeddedFits ==
    ASSUME NEW s, NEW t, Len(s) \in Nat, Len(t) \in Nat, AllFit(s),
           NEW h, Embeds(s, Len(s), t, h)
    PROVE  AllFit(t)
<1> SUFFICES ASSUME NEW m \in 1 .. Len(t) PROVE Fits(t, t[m], m)
  BY DEF AllFit
<1>1. CASE t[m].type \in {"settle", "fault"}
  BY <1>1 DEF Fits
<1>2. CASE ~(t[m].type \in {"settle", "fault"})
  <2>1. PICK n \in 1 .. Len(s) : h[n] = m
    BY <1>2 DEF Embeds
  <2>2. Alike(t[m], s[n]) /\ Fits(s, s[n], n) /\ n \in Nat /\ m \in Nat
    BY <2>1 DEF Embeds, AllFit
  <2> DEFINE k == t[m].key
  <2>3. k = s[n].key /\ t[m].type = s[n].type
    BY <2>2 DEF Alike
  <2> HIDE DEF k
  <2>4. ASSUME NEW p \in 1 .. m - 1, ~(t[p].type \in {"settle", "fault"})
        PROVE  \E l \in 1 .. n - 1 : h[l] = p
    <3>1. p \in 1 .. Len(t)
      BY <2>2
    <3>2. PICK l \in 1 .. Len(s) : h[l] = p
      BY <2>4, <3>1 DEF Embeds
    <3>3. h[l] < h[n]
      BY <2>1, <2>2, <3>2
    <3>4. ~(l > n) /\ l # n
      BY <2>1, <2>2, <3>2, <3>3 DEF Embeds
    <3> QED
      BY <2>2, <3>2, <3>4
  <2>5. ASSUME NEW l \in 1 .. n - 1
        PROVE  h[l] \in 1 .. m - 1 /\ Alike(t[h[l]], s[l]) /\ l \in 1 .. Len(s)
    <3>1. l \in 1 .. Len(s) /\ l < n
      BY <2>2
    <3>2. h[l] \in 1 .. Len(t) /\ h[l] < m
      BY <2>1, <3>1 DEF Embeds
    <3> QED
      BY <2>2, <3>1, <3>2 DEF Embeds
  <2>6. Made(t, k, m) <=> Made(s, k, n)
    <3>1. ASSUME Made(t, k, m) PROVE Made(s, k, n)
      <4>1. PICK p \in 1 .. m - 1 : Decides(t[p], k)
        BY <3>1 DEF Made
      <4>2. PICK l \in 1 .. n - 1 : h[l] = p
        BY <2>4, <4>1 DEF Decides
      <4>3. Decides(s[l], k)
        BY <2>5, <4>1, <4>2 DEF Decides, Alike
      <4> QED
        BY <4>3 DEF Made
    <3>2. ASSUME Made(s, k, n) PROVE Made(t, k, m)
      <4>1. PICK l \in 1 .. n - 1 : Decides(s[l], k)
        BY <3>2 DEF Made
      <4>2. h[l] \in 1 .. m - 1 /\ Decides(t[h[l]], k)
        BY <2>5, <4>1 DEF Decides, Alike
      <4> QED
        BY <4>2 DEF Made
    <3> QED
      BY <3>1, <3>2
  <2>7. There(s, k, n) => There(t, k, m)
    <3> SUFFICES ASSUME There(s, k, n) PROVE There(t, k, m)
      OBVIOUS
    <3>1. PICK l \in 1 .. n - 1 :
            /\ Decides(s[l], k) /\ s[l].type # "delete"
            /\ \A q \in l + 1 .. n - 1 : ~Decides(s[q], k)
      BY DEF There
    <3>2. h[l] \in 1 .. m - 1 /\ Decides(t[h[l]], k) /\ t[h[l]].type # "delete"
      BY <2>5, <3>1 DEF Decides, Alike
    <3>3. ASSUME NEW q \in h[l] + 1 .. m - 1, Decides(t[q], k) PROVE FALSE
      <4>1. q \in 1 .. m - 1 /\ h[l] < q
        BY <2>2, <3>2
      <4>2. PICK j \in 1 .. n - 1 : h[j] = q
        BY <2>4, <3>3, <4>1 DEF Decides
      <4>3. Decides(s[j], k)
        BY <2>5, <3>3, <4>2 DEF Decides, Alike
      <4>4. ~(j < l) /\ j # l
        <5>1. j < l => h[j] < h[l]
          BY <2>5 DEF Embeds
        <5>2. h[j] \in Nat /\ h[l] \in Nat
          BY <2>5
        <5> QED
          BY <5>1, <5>2, <4>1, <4>2
      <4>5. j \in l + 1 .. n - 1
        BY <2>2, <4>4
      <4> QED
        BY <3>1, <4>3, <4>5
    <3> QED
      BY <3>2, <3>3 DEF There
  <2>8. Back(s, k, n) => Back(t, k, m)
    <3> SUFFICES ASSUME Back(s, k, n), NEW p \in 1 .. m - 1, Deletes(t[p], k)
                 PROVE  \E q \in p + 1 .. m - 1 : Settles(t[q])
      BY DEF Back
    <3>1. PICK l \in 1 .. n - 1 : h[l] = p
      BY <2>4 DEF Deletes
    <3>2. Deletes(s[l], k)
      BY <2>5, <3>1 DEF Deletes, Alike
    <3>3. PICK j \in l + 1 .. n - 1 : Settles(s[j])
      BY <3>2 DEF Back
    <3>4. j \in 1 .. n - 1 /\ l < j
      BY <2>2
    <3>5. h[j] \in 1 .. m - 1 /\ h[l] < h[j] /\ Settles(t[h[j]])
      BY <2>5, <3>3, <3>4 DEF Embeds, Settles, Alike
    <3>6. h[j] \in p + 1 .. m - 1
      BY <2>2, <3>1, <3>5
    <3> QED
      BY <3>5, <3>6
  <2> QED
    BY <2>2, <2>3, <2>6, <2>7, <2>8 DEF Fits, k
<1> QED
  BY <1>1, <1>2

\* A sequence whose ops carry their fields, find what they need and end on a wait
\* is legal once its fixtures are restored and its ops numbered: no op that
\* settles comes between a deletion and its restore.
LEMMA FinishedValid ==
    ASSUME NEW t \in Seq(Op), t # <<>>, Settles(t[Len(t)]), AllFit(t),
           \A n \in 1 .. Len(t) : /\ Carries(t[n])
                                  /\ t[n].type = "fault" => t[n].fault.op = 0 \/ t[n].fault.op > n
    PROVE  /\ Valid(Finished(t)) /\ AllFit(Finished(t)) /\ ValidCRs(Finished(t))
           /\ \A n \in 1 .. Len(t) : Carries(Finished(t)[n])
           /\ \A n \in 1 .. Len(t) : Finished(t)[n].type = "deleteFixture" =>
                 \A m \in n .. Finished(t)[n].until - 1 : ~Settles(Finished(t)[m])
<1> DEFINE u == Finished(t)
<1>0. Len(t) \in Nat \ {0} /\ DOMAIN t = 1 .. Len(t)
  OBVIOUS
<1>1. u \in Seq(Op) /\ Len(u) = Len(t)
  BY FinishedIs
<1>2. ASSUME NEW n \in 1 .. Len(t)
      PROVE  /\ u[n].i = n /\ u[n].type = t[n].type /\ u[n].key = t[n].key
             /\ u[n].noSettle = t[n].noSettle /\ u[n].fault = t[n].fault
             /\ u[n].until = IF t[n].type = "deleteFixture" THEN NextSettling(t, n + 1)
                             ELSE t[n].until
  BY FinishedIs
<1> HIDE DEF u
<1>3. DOMAIN u = 1 .. Len(t)
  BY <1>0, <1>1
<1>4. ASSUME NEW n \in 1 .. Len(t) PROVE Settles(u[n]) <=> Settles(t[n])
  BY <1>2 DEF Settles
<1>5. ASSUME NEW n \in 1 .. Len(t) PROVE Carries(u[n])
  <2>1. Carries(t[n])
    OBVIOUS
  <2> QED
    BY <1>2, <2>1 DEF Carries
<1>6. AllFit(u)
  <2> DEFINE h == [n \in 1 .. Len(t) |-> n]
  <2>1. \A n \in 1 .. Len(t) : h[n] = n
    OBVIOUS
  <2>2. h \in [1 .. Len(t) -> 1 .. Len(u)]
    BY <1>1
  <2> HIDE DEF h
  <2>3. \A n \in 1 .. Len(t) : Alike(u[n], t[n])
    BY <1>2 DEF Alike
  <2>4. Embeds(t, Len(t), u, h)
    BY <1>0, <1>1, <2>1, <2>2, <2>3 DEF Embeds
  <2> QED
    BY <1>0, <1>1, <2>4, EmbeddedFits
<1>7. ValidCRs(u)
  BY <1>1, <1>6, FitIsValidCRs
<1>8. ASSUME NEW n \in 1 .. Len(t), t[n].type = "deleteFixture"
      PROVE  /\ u[n].until \in n + 1 .. Len(t)
             /\ \A q \in n + 1 .. Len(t) : Settles(t[q]) => u[n].until <= q
  <2>1. ~Settles(t[n])
    BY <1>8 DEF Settles, MutatingOps, CROps
  <2>0. n # Len(t)
    BY <2>1
  <2>2. n + 1 \in Nat \ {0} /\ Len(t) \in n + 1 .. Len(t)
    <3> DEFINE l == Len(t)
    <3>1. l \in Nat \ {0} /\ n \in 1 .. l /\ n # l
      BY <1>0, <2>0
    <3> HIDE DEF l
    <3>2. n + 1 \in Nat \ {0} /\ l \in n + 1 .. l
      BY <3>1
    <3> QED
      BY <3>2 DEF l
  <2>3. u[n].until = NextSettling(t, n + 1)
    BY <1>2, <1>8
  <2>4. \E q \in n + 1 .. Len(t) : Settles(t[q])
    BY <2>2
  <2>5. /\ NextSettling(t, n + 1) \in n + 1 .. Len(t)
        /\ \A q \in n + 1 .. Len(t) : Settles(t[q]) => NextSettling(t, n + 1) <= q
    BY <1>0, <2>2, <2>4, NextSettlingIs
  <2> QED
    BY <2>3, <2>5
<1>9. ASSUME NEW n \in 1 .. Len(t), u[n].type = "deleteFixture", NEW m \in n .. u[n].until - 1
      PROVE  ~Settles(u[m])
  <2>1. t[n].type = "deleteFixture"
    BY <1>2, <1>9
  <2>2. u[n].until \in n + 1 .. Len(t) /\ m \in 1 .. Len(t) /\ m < u[n].until
    BY <1>0, <1>8, <2>1
  <2>3. CASE m = n
    BY <1>9, <2>3 DEF Settles, MutatingOps, CROps
  <2>4. CASE m # n
    <3>1. m \in n + 1 .. Len(t)
      BY <2>2, <2>4
    <3>2. ~Settles(t[m])
      BY <1>8, <2>1, <2>2, <3>1
    <3> QED
      BY <1>4, <2>2, <3>2
  <2> QED
    BY <2>3, <2>4
<1>10. ASSUME NEW n \in 1 .. Len(t) PROVE ValidOp(u[n], n)
  <2>1. t[n].type = "fault" => t[n].fault.op = 0 \/ t[n].fault.op > n
    OBVIOUS
  <2>2. CarriesItsFields(u[n]) /\ u[n].type \in OpTypes
    BY <1>5 DEF Carries, CarriesItsFields
  <2> QED
    BY <1>2, <2>1, <2>2 DEF ValidOp
<1>11. ValidFixtures(u)
  <2> SUFFICES ASSUME NEW n \in 1 .. Len(t), u[n].type \in FixtureOps
               PROVE  LET d == LastDeletion(u, u[n].key, n)
                      IN  /\ d # 0 => n >= u[d].until
                          /\ u[n].type = "deleteFixture" => u[n].until > n /\ u[n].until <= Len(u)
    BY <1>3 DEF ValidFixtures
  <2>1. u[n].type = "deleteFixture" => u[n].until > n /\ u[n].until <= Len(u)
    BY <1>0, <1>1, <1>2, <1>8
  <2> DEFINE d == LastDeletion(u, u[n].key, n)
  <2>2. ASSUME d # 0 PROVE n >= u[d].until
    <3>1. d \in 1 .. n - 1 /\ Deletes(u[d], u[n].key)
      BY <2>2, DeletionBefore DEF Deletes
    <3> HIDE DEF d
    <3>2. d \in 1 .. Len(t) /\ n \in d + 1 .. Len(t) /\ n \in Nat
      BY <1>0, <3>1
    <3>3. t[d].type = "deleteFixture"
      BY <1>2, <3>1, <3>2 DEF Deletes
    <3>4. CASE u[n].type = "updateFixture"
      <4>1. Settles(u[n])
        BY <1>5, <3>4 DEF Carries, Settles, MutatingOps, CROps
      <4> QED
        BY <1>4, <1>8, <3>2, <3>3, <4>1
    <3>5. CASE u[n].type = "deleteFixture"
      <4>1. Back(u, u[n].key, n)
        BY <1>1, <1>6, <3>5 DEF AllFit, Fits
      <4>2. PICK q \in d + 1 .. n - 1 : Settles(u[q])
        BY <3>1, <4>1 DEF Back
      <4>3. q \in d + 1 .. Len(t) /\ q \in 1 .. Len(t) /\ q < n
        BY <1>0, <3>2
      <4>4. u[d].until <= q
        BY <1>4, <1>8, <3>2, <3>3, <4>2, <4>3
      <4>5. u[d].until \in Nat
        BY <1>0, <1>8, <3>2, <3>3
      <4> QED
        BY <3>2, <4>3, <4>4, <4>5
    <3> QED
      BY <3>4, <3>5 DEF FixtureOps
  <2> QED
    BY <2>1, <2>2
<1>12. Valid(u)
  <2>1. u # <<>> /\ Settles(u[Len(u)])
    BY <1>0, <1>1, <1>4
  <2> QED
    BY <1>3, <1>10, <1>11, <2>1 DEF Valid
<1> QED
  BY <1>5, <1>6, <1>7, <1>9, <1>12 DEF u

\* The settle wait that checkpointed and faulted put in.
LEMMA SettleOpIs ==
    /\ SettleOp \in Op /\ SettleOp.type = "settle" /\ Settles(SettleOp) /\ Carries(SettleOp)
    /\ SettleOp.until = 0 /\ SettleOp.fault = NoFault /\ SettleOp.key = NoKey
<1>1. /\ SettleOp.type = "settle" /\ SettleOp.key = NoKey /\ SettleOp.noSettle = FALSE
      /\ SettleOp.until = 0 /\ SettleOp.fault = NoFault
  BY DEF SettleOp, PlainOp
<1>2. SettleOp \in Op
  BY DEF SettleOp, PlainOp, Op, OpTypes, NoFault
<1>3. Settles(SettleOp) /\ Carries(SettleOp)
  BY <1>1 DEF Settles, Carries, OpTypes, MutatingOps, CROps, FixtureOps
<1> QED
  BY <1>1, <1>2, <1>3

\* What has gone out after k of the drawn ops: those, with waits put in, and each
\* restart and deleteManaged with the waits it is judged by, the one after a
\* restart that is still to come excepted.
EmitInv(drawn, k, e) ==
    /\ e \in Seq(Op)
    /\ \E h : Embeds(drawn, k, e, h)
    /\ \A m \in 1 .. Len(e) : Carries(e[m]) /\ e[m].type # "fault"
    /\ \A m \in 1 .. Len(e) :
          /\ e[m].type = "restart" =>
                /\ m > 1 /\ Settles(e[m - 1])
                /\ m < Len(e) => Settles(e[m + 1])
                /\ m = Len(e) => k < Len(drawn) /\ drawn[k + 1].type = "settle"
          /\ e[m].type = "deleteManaged" => m > 1 /\ Settles(e[m - 1])
    /\ k > 0 => e # <<>>
    /\ k > 0 /\ k = Len(drawn) => Settles(e[Len(e)])

\* What emit appends, position by position.
LEMMA EmitIs ==
    ASSUME NEW drawn \in Seq(Op), NEW k \in 1 .. Len(drawn), NEW e \in Seq(Op)
    PROVE  \E l \in {Len(e), Len(e) + 1}, g \in Seq(Op) :
              /\ g = emit(e, drawn, k)
              /\ Len(g) \in {l + 1, l + 2} /\ g[l + 1] = drawn[k]
              /\ \A m \in 1 .. Len(e) : g[m] = e[m]
              /\ l = Len(e) + 1 => g[l] = SettleOp
              /\ Len(g) = l + 2 => g[l + 2] = SettleOp
              /\ (l = Len(e) + 1) = (drawn[k].type \in {"restart", "deleteManaged"} /\ ~settled(e))
              /\ Len(g) = l + 1 =>
                    /\ drawn[k].type = "restart" => k # Len(drawn) /\ drawn[k + 1].type = "settle"
                    /\ k = Len(drawn) => Settles(drawn[k])
<1> DEFINE op == drawn[k]
           before == drawn[k].type \in {"restart", "deleteManaged"} /\ ~settled(e)
           after == \/ op.type = "restart" /\ ~(k # Len(drawn) /\ drawn[k + 1].type = "settle")
                    \/ k = Len(drawn) /\ ~Settles(op)
           pre == IF before THEN Append(e, SettleOp) ELSE e
           post == IF after THEN <<SettleOp>> ELSE <<>>
           mid == pre \o <<op>>
           g == mid \o post
           l == Len(pre)
<1>0. Len(e) \in Nat /\ op \in Op /\ SettleOp \in Op
  BY SettleOpIs
<1>1. g = emit(e, drawn, k)
  BY DEF emit
<1>2. /\ pre \in Seq(Op) /\ \A m \in 1 .. Len(e) : pre[m] = e[m]
      /\ before => Len(pre) = Len(e) + 1 /\ pre[Len(e) + 1] = SettleOp
      /\ ~before => Len(pre) = Len(e)
  BY <1>0
<1>3. /\ post \in Seq(Op) /\ Len(post) \in {0, 1}
      /\ Len(post) = 1 => post[1] = SettleOp
  BY <1>0
<1>3a. Len(post) = 0 => ~after
  BY <1>0
<1> HIDE DEF pre, post
<1>4. pre \in Seq(Op) /\ post \in Seq(Op) /\ <<op>> \in Seq(Op) /\ Len(<<op>>) = 1 /\ <<op>>[1] = op
  BY <1>0, <1>2, <1>3
<1>5. /\ mid \in Seq(Op) /\ Len(mid) = l + 1 /\ l \in Nat /\ mid[l + 1] = op
      /\ \A m \in 1 .. l : mid[m] = pre[m]
  <2> DEFINE o == <<op>>
  <2>1. o \in Seq(Op) /\ pre \in Seq(Op) /\ Len(o) = 1 /\ o[1] = op
    BY <1>4
  <2> HIDE DEF o, op
  <2>2. /\ pre \o o \in Seq(Op) /\ Len(pre \o o) = Len(pre) + Len(o)
        /\ \A i \in 1 .. Len(pre) : (pre \o o)[i] = pre[i]
        /\ \A i \in 1 .. Len(o) : (pre \o o)[Len(pre) + i] = o[i]
    <3>1. o \in Seq(Op) /\ pre \in Seq(Op)
      BY <2>1
    <3> QED
      BY <3>1, Joined
  <2>3. Len(pre) \in Nat /\ 1 \in 1 .. Len(o)
    BY <2>1
  <2>4. (pre \o o)[Len(pre) + 1] = op
    BY <2>1, <2>2, <2>3
  <2> QED
    BY <2>1, <2>2, <2>3, <2>4 DEF o
<1> HIDE DEF mid
<1>6. /\ g \in Seq(Op) /\ Len(g) = Len(mid) + Len(post)
      /\ \A i \in 1 .. Len(mid) : g[i] = mid[i]
      /\ \A i \in 1 .. Len(post) : g[Len(mid) + i] = post[i]
  <2>1. mid \in Seq(Op) /\ post \in Seq(Op)
    BY <1>4, <1>5
  <2> QED
    BY <2>1, Joined
<1> HIDE DEF g
<1> HIDE DEF after, op, l
<1>6a. l \in Nat /\ Len(mid) = l + 1 /\ Len(g) = Len(mid) + Len(post)
  BY <1>5, <1>6
<1>7. Len(g) \in {l + 1, l + 2} /\ g[l + 1] = op /\ \A m \in 1 .. l : g[m] = pre[m]
  <2>1. Len(g) \in {l + 1, l + 2}
    <3>1. Len(post) = 0 \/ Len(post) = 1
      BY <1>3
    <3> DEFINE x == Len(post)
               y == Len(mid)
               z == Len(g)
    <3>2. l \in Nat /\ y = l + 1 /\ z = y + x /\ (x = 0 \/ x = 1)
      BY <1>6a, <3>1
    <3> HIDE DEF x, y, z
    <3>3. z = l + 1 \/ z = l + 2
      BY <3>2
    <3> QED
      BY <3>3 DEF z
  <2>2. l + 1 \in 1 .. Len(mid) /\ \A m \in 1 .. l : m \in 1 .. Len(mid)
    BY <1>6a
  <2>3. g[l + 1] = op
    BY <1>5, <1>6, <2>2
  <2>4. \A m \in 1 .. l : g[m] = pre[m]
    BY <1>5, <1>6, <2>2
  <2> QED
    BY <2>1, <2>3, <2>4
<1>8. Len(g) = l + 2 => g[l + 2] = SettleOp
  <2> SUFFICES ASSUME Len(g) = l + 2 PROVE g[l + 2] = SettleOp
    OBVIOUS
  <2>1. Len(post) = 1 /\ 1 \in 1 .. Len(post) /\ l + 2 = Len(mid) + 1
    BY <1>3, <1>6a
  <2> QED
    BY <1>3, <1>6, <2>1
<1>9. Len(g) = l + 1 => ~after
  <2>1. Len(g) = l + 1 => Len(post) = 0
    BY <1>3, <1>6a
  <2> QED
    BY <1>3a, <2>1
<1> USE DEF l
<1>10. /\ l \in {Len(e), Len(e) + 1} /\ (l = Len(e) + 1) = before
       /\ \A m \in 1 .. Len(e) : g[m] = e[m]
       /\ l = Len(e) + 1 => g[l] = SettleOp
  BY <1>0, <1>2, <1>5, <1>7
<1> HIDE DEF l
<1>11. Len(g) = l + 1 =>
         /\ drawn[k].type = "restart" => k # Len(drawn) /\ drawn[k + 1].type = "settle"
         /\ k = Len(drawn) => Settles(drawn[k])
  BY <1>9 DEF after, op
<1> QED
  BY <1>1, <1>6, <1>7, <1>8, <1>10, <1>11 DEF op

\* Each drawn op goes out judged.
LEMMA EmitStep ==
    ASSUME NEW drawn \in Seq(Op), NEW k \in 1 .. Len(drawn), NEW e,
           \A n \in 1 .. Len(drawn) : Carries(drawn[n]) /\ drawn[n].type # "fault",
           EmitInv(drawn, k - 1, e)
    PROVE  EmitInv(drawn, k, emit(e, drawn, k))
<1>0. Len(drawn) \in Nat /\ k \in Nat /\ e \in Seq(Op) /\ Len(e) \in Nat /\ DOMAIN e = 1 .. Len(e)
  BY DEF EmitInv
<1>1. PICK l \in {Len(e), Len(e) + 1}, g \in Seq(Op) :
              /\ g = emit(e, drawn, k)
              /\ Len(g) \in {l + 1, l + 2} /\ g[l + 1] = drawn[k]
              /\ \A m \in 1 .. Len(e) : g[m] = e[m]
              /\ l = Len(e) + 1 => g[l] = SettleOp
              /\ Len(g) = l + 2 => g[l + 2] = SettleOp
              /\ (l = Len(e) + 1) = (drawn[k].type \in {"restart", "deleteManaged"} /\ ~settled(e))
              /\ Len(g) = l + 1 =>
                    /\ drawn[k].type = "restart" => k # Len(drawn) /\ drawn[k + 1].type = "settle"
                    /\ k = Len(drawn) => Settles(drawn[k])
  <2>1. e \in Seq(Op)
    BY <1>0
  <2> QED
    BY <2>1, EmitIs
<1> DEFINE E == Len(e)
           G == Len(g)
<1>2. E \in Nat /\ l \in Nat /\ G \in Nat /\ l \in {E, E + 1} /\ G \in {l + 1, l + 2}
  BY <1>0, <1>1
<1>3. /\ g[l + 1] = drawn[k] /\ \A m \in 1 .. E : g[m] = e[m]
      /\ l = E + 1 => g[l] = SettleOp
      /\ G = l + 2 => g[l + 2] = SettleOp
  BY <1>1
<1>4. ASSUME NEW m \in 1 .. G
      PROVE  \/ m \in 1 .. E
             \/ l = E + 1 /\ m = l
             \/ m = l + 1
             \/ G = l + 2 /\ m = l + 2
  <2> HIDE DEF E, G
  <2> QED
    BY <1>2
<1>5. ASSUME NEW m \in 1 .. G PROVE Carries(g[m]) /\ g[m].type # "fault"
  <2>1. CASE m \in 1 .. E
    BY <1>3, <2>1 DEF EmitInv
  <2>2. CASE g[m] = SettleOp
    BY <2>2, SettleOpIs
  <2>3. CASE m = l + 1
    BY <1>3, <2>3
  <2> QED
    BY <1>3, <1>4, <2>1, <2>2, <2>3
<1>6. \E h : Embeds(drawn, k, g, h)
  <2>1. PICK h : Embeds(drawn, k - 1, e, h)
    BY DEF EmitInv
  <2> DEFINE h2 == [n \in 1 .. k |-> IF n = k THEN l + 1 ELSE h[n]]
  <2>2. /\ h \in [1 .. k - 1 -> 1 .. E]
        /\ \A m, n \in 1 .. k - 1 : m < n => h[m] < h[n]
        /\ \A n \in 1 .. k - 1 : Alike(e[h[n]], drawn[n])
        /\ \A m \in 1 .. E : (\E n \in 1 .. k - 1 : h[n] = m) \/ e[m].type \in {"settle", "fault"}
    BY <2>1 DEF Embeds
  <2>3. h2[k] = l + 1 /\ \A n \in 1 .. k - 1 : n \in 1 .. k /\ h2[n] = h[n] /\ h[n] \in 1 .. E
    BY <1>0, <2>2
  <2>4. ASSUME NEW n \in 1 .. k PROVE n = k \/ n \in 1 .. k - 1
    BY <1>0
  <2>5. h2 \in [1 .. k -> 1 .. G]
    <3>1. l + 1 \in 1 .. G /\ \A x \in 1 .. E : x \in 1 .. G
      <4> HIDE DEF E, G
      <4> QED
        BY <1>2
    <3>2. ASSUME NEW n \in 1 .. k PROVE (IF n = k THEN l + 1 ELSE h[n]) \in 1 .. G
      BY <2>2, <2>4, <3>1
    <3> QED
      BY <3>2
  <2> HIDE DEF h2
  <2>6. ASSUME NEW m \in 1 .. k, NEW n \in 1 .. k, m < n PROVE h2[m] < h2[n]
    <3>1. m \in 1 .. k - 1
      BY <1>0, <2>6
    <3>2. CASE n = k
      <4>1. h[m] \in 1 .. E /\ h2[m] = h[m]
        BY <2>3, <3>1
      <4> HIDE DEF E
      <4> QED
        BY <1>2, <2>3, <3>2, <4>1
    <3>3. CASE n \in 1 .. k - 1
      BY <2>2, <2>3, <2>6, <3>1, <3>3
    <3> QED
      BY <2>4, <3>2, <3>3
  <2>7. ASSUME NEW n \in 1 .. k PROVE Alike(g[h2[n]], drawn[n])
    <3>1. CASE n = k
      BY <1>3, <2>3, <3>1 DEF Alike
    <3>2. CASE n \in 1 .. k - 1
      <4>1. h2[n] \in 1 .. E /\ h2[n] = h[n] /\ Alike(e[h[n]], drawn[n])
        BY <2>2, <2>3, <3>2
      <4>2. g[h2[n]] = e[h[n]]
        BY <1>3, <4>1
      <4> QED
        BY <4>1, <4>2
    <3> QED
      BY <2>4, <3>1, <3>2
  <2>8. ASSUME NEW m \in 1 .. G
        PROVE  (\E n \in 1 .. k : h2[n] = m) \/ g[m].type \in {"settle", "fault"}
    <3>1. CASE m \in 1 .. E
      BY <1>3, <2>2, <2>3, <3>1
    <3>2. CASE g[m] = SettleOp
      BY <3>2, SettleOpIs
    <3>3. CASE m = l + 1
      <4>1. k \in 1 .. k
        BY <1>0
      <4> QED
        BY <2>3, <3>3, <4>1
    <3> QED
      BY <1>3, <1>4, <3>1, <3>2, <3>3
  <2>9. Embeds(drawn, k, g, h2)
    BY <2>5, <2>6, <2>7, <2>8 DEF Embeds
  <2> QED
    BY <2>9
<1>7. g # <<>> /\ (k = Len(drawn) => Settles(g[Len(g)]))
  <2>1. g # <<>>
    BY <1>2
  <2>2. CASE G = l + 2
    BY <1>3, <2>1, <2>2, SettleOpIs
  <2>3. CASE G = l + 1
    BY <1>1, <2>1, <2>3
  <2> QED
    BY <1>2, <2>2, <2>3
<1>8. drawn[k].type \in {"restart", "deleteManaged"} => l >= 1 /\ Settles(g[l])
  <2> SUFFICES ASSUME drawn[k].type \in {"restart", "deleteManaged"} PROVE l >= 1 /\ Settles(g[l])
    OBVIOUS
  <2>1. CASE l = E + 1
    BY <1>2, <1>3, <2>1, SettleOpIs
  <2>2. CASE l # E + 1
    <3>1. settled(e) /\ l = E
      BY <1>1, <1>2, <2>2
    <3>2. e # <<>> /\ Settles(e[Len(e)])
      BY <3>1 DEF settled
    <3>3. E \in 1 .. E
      BY <1>0, <3>2
    <3> QED
      BY <1>2, <1>3, <3>1, <3>2, <3>3
  <2> QED
    BY <2>1, <2>2
<1>9. ASSUME NEW m \in 1 .. G
      PROVE  /\ g[m].type = "restart" =>
                   /\ m > 1 /\ Settles(g[m - 1])
                   /\ m < G => Settles(g[m + 1])
                   /\ m = G => k < Len(drawn) /\ drawn[k + 1].type = "settle"
             /\ g[m].type = "deleteManaged" => m > 1 /\ Settles(g[m - 1])
  <2>1. CASE m \in 1 .. E
    <3>1. g[m] = e[m] /\ m < G
      <4>1. g[m] = e[m]
        BY <1>3, <2>1
      <4> HIDE DEF E, G
      <4> QED
        BY <1>2, <2>1, <4>1
    <3>2. /\ e[m].type = "restart" =>
                /\ m > 1 /\ Settles(e[m - 1])
                /\ m < E => Settles(e[m + 1])
                /\ m = E => drawn[k].type = "settle"
          /\ e[m].type = "deleteManaged" => m > 1 /\ Settles(e[m - 1])
      <4>1. (k - 1) + 1 = k
        BY <1>0
      <4> QED
        BY <2>1, <4>1 DEF EmitInv
    <3>3. m > 1 => m - 1 \in 1 .. E /\ g[m - 1] = e[m - 1]
      <4>1. m > 1 => m - 1 \in 1 .. E
        BY <1>0, <2>1
      <4> QED
        BY <1>3, <4>1
    <3>4. m < E => g[m + 1] = e[m + 1]
      <4>1. m < E => m + 1 \in 1 .. E
        BY <1>0, <2>1
      <4> QED
        BY <1>3, <4>1
    <3>5. m = E /\ drawn[k].type = "settle" => g[m + 1] = drawn[k] /\ Settles(drawn[k])
      <4>1. drawn[k].type = "settle" => l = E
        BY <1>1, <1>2
      <4> QED
        BY <1>3, <4>1 DEF Settles
    <3>6. m < E \/ m = E
      <4> HIDE DEF E
      <4> QED
        BY <1>2, <2>1
    <3> QED
      BY <1>2, <3>1, <3>2, <3>3, <3>4, <3>5, <3>6
  <2>2. CASE g[m] = SettleOp
    BY <2>2, SettleOpIs
  <2>3. CASE m = l + 1
    <3>1. g[m] = drawn[k]
      BY <1>3, <2>3
    <3>2. m - 1 = l /\ (l >= 1 => m > 1)
      BY <1>2, <2>3
    <3>3. m < G => G = l + 2 /\ m + 1 = l + 2
      <4> HIDE DEF G
      <4> QED
        BY <1>2, <2>3
    <3>4. m < G => Settles(g[m + 1])
      BY <1>3, <3>3, SettleOpIs
    <3>5. m = G /\ drawn[k].type = "restart" => k < Len(drawn) /\ drawn[k + 1].type = "settle"
      BY <1>0, <1>1, <2>3
    <3> QED
      BY <1>8, <3>1, <3>2, <3>4, <3>5
  <2> QED
    BY <1>3, <1>4, <2>1, <2>2, <2>3
<1>10. EmitInv(drawn, k, g)
  BY <1>5, <1>6, <1>7, <1>9 DEF EmitInv
<1> QED
  BY <1>1, <1>10

\* The function g is what emitted computes, for the first k of the drawn ops.
Goes(g, drawn, k) ==
    g = [n \in 0 .. k |-> IF n = 0 THEN <<>> ELSE emit(g[n - 1], drawn, n)]

\* The recursion of emitted has a solution, whatever was drawn.
LEMMA GoesExists ==
    ASSUME NEW drawn, NEW L \in Nat
    PROVE  \E g : Goes(g, drawn, L)
<1> DEFINE S == {k \in 0 .. L : ~ \E g : Goes(g, drawn, k)}
<1> SUFFICES ASSUME S # {} PROVE FALSE
  OBVIOUS
<1>1. PICK k \in S : \A j \in S : k <= j
  <2>1. S \in SUBSET Nat
    OBVIOUS
  <2> HIDE DEF S
  <2> QED
    BY <2>1, LeastOf
<1>2. k \in 0 .. L /\ ~ \E g : Goes(g, drawn, k)
  OBVIOUS
<1>3. CASE k = 0
  <2> DEFINE g == [n \in 0 .. 0 |-> <<>>]
  <2>1. ASSUME NEW n \in 0 .. 0 PROVE n = 0
    OBVIOUS
  <2>2. g = [n \in 0 .. 0 |-> IF n = 0 THEN <<>> ELSE emit(g[n - 1], drawn, n)]
    BY <2>1
  <2> QED
    BY <1>2, <1>3, <2>2 DEF Goes
<1>4. CASE k # 0
  <2>1. k - 1 \in 0 .. L /\ ~(k <= k - 1)
    BY <1>2, <1>4
  <2>2. PICK g : Goes(g, drawn, k - 1)
    BY <1>1, <2>1
  <2> DEFINE h == [n \in 0 .. k |-> IF n = k THEN emit(g[k - 1], drawn, k) ELSE g[n]]
  <2>3. \A n \in 0 .. k - 1 : g[n] = IF n = 0 THEN <<>> ELSE emit(g[n - 1], drawn, n)
    BY <2>2 DEF Goes
  <2>4. h[k] = emit(g[k - 1], drawn, k) /\ \A n \in 0 .. k - 1 : h[n] = g[n]
    BY <1>2
  <2>5. ASSUME NEW n \in 0 .. k PROVE h[n] = IF n = 0 THEN <<>> ELSE emit(h[n - 1], drawn, n)
    <3>1. n = k \/ n \in 0 .. k - 1
      BY <1>2
    <3>2. n # 0 => n - 1 \in 0 .. k - 1 /\ h[n - 1] = g[n - 1]
      <4>1. n # 0 => n - 1 \in 0 .. k - 1
        BY <1>2
      <4> QED
        BY <2>4, <4>1
    <3> HIDE DEF h
    <3>3. CASE n = k
      BY <1>4, <2>4, <3>2, <3>3
    <3>4. CASE n \in 0 .. k - 1
      BY <2>3, <2>4, <3>2, <3>4
    <3> QED
      BY <3>1, <3>3, <3>4
  <2>6. h = [n \in 0 .. k |-> h[n]]
    OBVIOUS
  <2> HIDE DEF h
  <2>7. h = [n \in 0 .. k |-> IF n = 0 THEN <<>> ELSE emit(h[n - 1], drawn, n)]
    BY <2>5, <2>6
  <2> QED
    BY <1>2, <2>7 DEF Goes
<1> QED
  BY <1>3, <1>4

\* What has gone out after n ops is what `emit` makes of what had gone out before.
LEMMA EmittedIs ==
    ASSUME NEW drawn \in Seq(Op)
    PROVE  /\ emitted(drawn)[0] = <<>>
           /\ \A n \in 1 .. Len(drawn) :
                 emitted(drawn)[n] = emit(emitted(drawn)[n - 1], drawn, n)
<1>1. Len(drawn) \in Nat
  OBVIOUS
<1>2. \E g : Goes(g, drawn, Len(drawn))
  BY <1>1, GoesExists
<1>3. Goes(emitted(drawn), drawn, Len(drawn))
  BY <1>2, Zenon DEF emitted, Goes
<1>4. \A n \in 0 .. Len(drawn) :
        emitted(drawn)[n] = IF n = 0 THEN <<>> ELSE emit(emitted(drawn)[n - 1], drawn, n)
  BY <1>3 DEF Goes
<1>5. ASSUME NEW n \in 1 .. Len(drawn) PROVE n \in 0 .. Len(drawn) /\ n # 0
  BY <1>1
<1>6. 0 \in 0 .. Len(drawn)
  BY <1>1
<1> QED
  BY <1>4, <1>5, <1>6

\* However many ops were drawn, what goes out is judged.
LEMMA EmittedInv ==
    ASSUME NEW drawn \in Seq(Op),
           \A n \in 1 .. Len(drawn) : Carries(drawn[n]) /\ drawn[n].type # "fault"
    PROVE  EmitInv(drawn, Len(drawn), emitted(drawn)[Len(drawn)])
<1> DEFINE L == Len(drawn)
           out == emitted(drawn)
           S == {k \in 0 .. L : ~EmitInv(drawn, k, out[k])}
<1>0. L \in Nat
  OBVIOUS
<1>1. out[0] = <<>> /\ \A n \in 1 .. L : out[n] = emit(out[n - 1], drawn, n)
  BY EmittedIs
<1> HIDE DEF L, out
<1>2. S = {}
  <2> SUFFICES ASSUME S # {} PROVE FALSE
    OBVIOUS
  <2>1. PICK k \in S : \A j \in S : k <= j
    <3>1. S \in SUBSET Nat
      BY <1>0
    <3> HIDE DEF S
    <3> QED
      BY <3>1, LeastOf
  <2>2. k \in 0 .. L /\ ~EmitInv(drawn, k, out[k])
    OBVIOUS
  <2>3. CASE k = 0
    <3>1. <<>> \in Seq(Op) /\ Len(<<>>) = 0 /\ 1 .. 0 = {}
      OBVIOUS
    <3> DEFINE h == [n \in 1 .. 0 |-> 1]
    <3>2. Embeds(drawn, 0, <<>>, h)
      BY <3>1 DEF Embeds
    <3>3. EmitInv(drawn, 0, <<>>)
      <4> HIDE DEF h
      <4> QED
        BY <3>1, <3>2 DEF EmitInv
    <3> QED
      BY <1>1, <2>2, <2>3, <3>3
  <2>4. CASE k # 0
    <3>1. k \in 1 .. L /\ k - 1 \in 0 .. L /\ ~(k <= k - 1)
      BY <1>0, <2>2, <2>4
    <3>2. EmitInv(drawn, k - 1, out[k - 1])
      BY <2>1, <3>1
    <3>3. EmitInv(drawn, k, emit(out[k - 1], drawn, k))
      BY <3>1, <3>2, EmitStep DEF L
    <3> QED
      BY <1>1, <2>2, <3>1, <3>3
  <2> QED
    BY <2>3, <2>4
<1>3. L \in 0 .. L
  BY <1>0
<1> QED
  BY <1>2, <1>3 DEF L, out

\* What the checkpointed sequence is: the drawn one with waits put in.
LEMMA CheckpointedIs ==
    ASSUME NEW drawn \in Seq(Op), drawn # <<>>, AllFit(drawn),
           \A n \in 1 .. Len(drawn) : Carries(drawn[n]) /\ drawn[n].type # "fault"
    PROVE  \E t \in Seq(Op) :
              /\ checkpointed(drawn) = Finished(t) /\ t # <<>> /\ Settles(t[Len(t)])
              /\ AllFit(t) /\ Judged(t)
              /\ \A n \in 1 .. Len(t) : Carries(t[n]) /\ t[n].type # "fault"
<1> DEFINE t == emitted(drawn)[Len(drawn)]
<1>1. EmitInv(drawn, Len(drawn), t)
  BY EmittedInv
<1>2. checkpointed(drawn) = Finished(t)
  BY DEF checkpointed, Finished
<1> HIDE DEF t
<1>3. Len(drawn) \in Nat /\ Len(drawn) > 0
  OBVIOUS
<1>4. /\ t \in Seq(Op) /\ t # <<>> /\ Settles(t[Len(t)])
      /\ \A n \in 1 .. Len(t) : Carries(t[n]) /\ t[n].type # "fault"
  BY <1>1, <1>3 DEF EmitInv
<1>5. AllFit(t)
  <2>1. PICK h : Embeds(drawn, Len(drawn), t, h)
    BY <1>1 DEF EmitInv
  <2>2. Len(t) \in Nat
    BY <1>4
  <2> QED
    BY <1>3, <2>1, <2>2, EmbeddedFits
<1>6. Judged(t)
  <2>1. ASSUME NEW n \in 1 .. Len(t)
        PROVE  /\ t[n].type = "restart" =>
                     n > 1 /\ n < Len(t) /\ Settles(t[n - 1]) /\ Settles(t[n + 1])
               /\ t[n].type = "deleteManaged" => n > 1 /\ Settles(t[n - 1])
    <3>1. n = Len(t) \/ n < Len(t)
      BY <1>4
    <3>2. /\ t[n].type = "restart" =>
                /\ n > 1 /\ Settles(t[n - 1])
                /\ n < Len(t) => Settles(t[n + 1])
                /\ n = Len(t) => Len(drawn) < Len(drawn)
          /\ t[n].type = "deleteManaged" => n > 1 /\ Settles(t[n - 1])
      BY <1>1 DEF EmitInv
    <3>3. ~(Len(drawn) < Len(drawn))
      BY <1>3
    <3> QED
      BY <3>1, <3>2, <3>3
  <2> QED
    BY <2>1 DEF Judged
<1> QED
  BY <1>2, <1>4, <1>5, <1>6

\* A stretch of a sequence.
LEMMA Stretch ==
    ASSUME NEW seq \in Seq(Op), NEW a \in 1 .. Len(seq) + 1, NEW b \in a - 1 .. Len(seq)
    PROVE  /\ SubSeq(seq, a, b) \in Seq(Op) /\ Len(SubSeq(seq, a, b)) = b - a + 1
           /\ \A m \in a .. b : SubSeq(seq, a, b)[m - a + 1] = seq[m]
<1>0. Len(seq) \in Nat /\ a \in Int /\ b \in Int /\ a - 1 <= b
  OBVIOUS
<1>1. \A i \in a .. b : seq[i] \in Op
  OBVIOUS
<1>2. /\ SubSeq(seq, a, b) \in Seq(Op)
      /\ Len(SubSeq(seq, a, b)) = IF a <= b THEN b - a + 1 ELSE 0
      /\ \A i \in 1 .. b - a + 1 : SubSeq(seq, a, b)[i] = seq[a + i - 1]
  BY <1>0, <1>1, SubSeqProperties
<1>3. (IF a <= b THEN b - a + 1 ELSE 0) = b - a + 1
  BY <1>0
<1>4. ASSUME NEW m \in a .. b PROVE SubSeq(seq, a, b)[m - a + 1] = seq[m]
  <2>1. m - a + 1 \in 1 .. b - a + 1 /\ a + (m - a + 1) - 1 = m
    BY <1>0
  <2> QED
    BY <1>2, <2>1
<1> QED
  BY <1>2, <1>3, <1>4

\* A sequence with one op added.
LEMMA Pushed ==
    ASSUME NEW a \in Seq(Op), NEW op \in Op
    PROVE  /\ a \o <<op>> \in Seq(Op) /\ Len(a \o <<op>>) = Len(a) + 1
           /\ \A m \in 1 .. Len(a) : (a \o <<op>>)[m] = a[m]
           /\ (a \o <<op>>)[Len(a) + 1] = op
<1> DEFINE o == <<op>>
<1>1. o \in Seq(Op) /\ Len(o) = 1 /\ o[1] = op
  OBVIOUS
<1> HIDE DEF o
<1>2. /\ a \o o \in Seq(Op) /\ Len(a \o o) = Len(a) + Len(o)
      /\ \A i \in 1 .. Len(a) : (a \o o)[i] = a[i]
      /\ \A i \in 1 .. Len(o) : (a \o o)[Len(a) + i] = o[i]
  <2>1. o \in Seq(Op)
    BY <1>1
  <2> QED
    BY <2>1, Joined
<1>3. 1 \in 1 .. Len(o)
  BY <1>1
<1>4. (a \o o)[Len(a) + 1] = op
  BY <1>1, <1>2, <1>3
<1> QED
  BY <1>1, <1>2, <1>4 DEF o

\* A sequence with a stretch of another added.
LEMMA Resumed ==
    ASSUME NEW seq \in Seq(Op), NEW x \in 1 .. Len(seq) + 1, NEW y \in x - 1 .. Len(seq),
           NEW a \in Seq(Op), NEW d \in Nat
    PROVE  Len(a) = x - 1 + d =>
              /\ a \o SubSeq(seq, x, y) \in Seq(Op) /\ Len(a \o SubSeq(seq, x, y)) = y + d
              /\ \A m \in 1 .. Len(a) : (a \o SubSeq(seq, x, y))[m] = a[m]
              /\ \A m \in x .. y : (a \o SubSeq(seq, x, y))[m + d] = seq[m]
<1> DEFINE b == SubSeq(seq, x, y)
<1>1. /\ b \in Seq(Op) /\ Len(b) = y - x + 1
      /\ \A m \in x .. y : b[m - x + 1] = seq[m]
  BY Stretch
<1> HIDE DEF b
<1>2. /\ a \o b \in Seq(Op) /\ Len(a \o b) = Len(a) + Len(b)
      /\ \A i \in 1 .. Len(a) : (a \o b)[i] = a[i]
      /\ \A i \in 1 .. Len(b) : (a \o b)[Len(a) + i] = b[i]
  <2>1. b \in Seq(Op)
    BY <1>1
  <2> QED
    BY <2>1, Joined
<1>3. x \in Nat /\ y \in Int
  OBVIOUS
<1> HAVE Len(a) = x - 1 + d
<1> DEFINE la == Len(a)
           lb == Len(b)
<1>4. la = x - 1 + d /\ lb = y - x + 1
  BY <1>1
<1>5. Len(a \o b) = la + lb
  BY <1>2
<1> HIDE DEF la, lb
<1>6. la + lb = y + d
  BY <1>3, <1>4
<1>7. ASSUME NEW m \in x .. y PROVE (a \o b)[m + d] = seq[m]
  <2>1. m - x + 1 \in 1 .. lb /\ la + (m - x + 1) = m + d
    BY <1>3, <1>4
  <2>2. (a \o b)[la + (m - x + 1)] = b[m - x + 1]
    BY <1>2, <2>1 DEF la, lb
  <2> QED
    BY <1>1, <2>1, <2>2
<1> QED
  BY <1>2, <1>5, <1>6, <1>7 DEF b

\* The sequence with an op put in before op s and one after op end.
Inserting(seq, s, end, f, g) ==
    SubSeq(seq, 1, s - 1) \o <<f>> \o SubSeq(seq, s, end) \o <<g>> \o SubSeq(seq, end + 1, Len(seq))

\* Where each op goes when two are put in.
Shifted(t, seq, s, end, f, g) ==
    /\ t \in Seq(Op) /\ Len(t) = Len(seq) + 2 /\ t[s] = f /\ t[end + 2] = g
    /\ \A m \in 1 .. s - 1 : t[m] = seq[m]
    /\ \A m \in s .. end : t[m + 1] = seq[m]
    /\ \A m \in end + 1 .. Len(seq) : t[m + 2] = seq[m]

\* `faulted` puts the fault before op s and the wait after op `end`, and shifts the
\* rest by one place or by two.
LEMMA Inserted ==
    ASSUME NEW seq \in Seq(Op), NEW s \in 1 .. Len(seq), NEW end \in s .. Len(seq),
           NEW f \in Op, NEW g \in Op
    PROVE  Shifted(Inserting(seq, s, end, f, g), seq, s, end, f, g)
<1> DEFINE N == Len(seq)
           a == SubSeq(seq, 1, s - 1)
           b == a \o <<f>>
           c == b \o SubSeq(seq, s, end)
           d == c \o <<g>>
           t == d \o SubSeq(seq, end + 1, Len(seq))
<1>0. N \in Nat /\ s \in Nat /\ end \in Nat /\ 1 <= s /\ s <= end /\ end <= N
  OBVIOUS
<1>1. a \in Seq(Op) /\ Len(a) = s - 1 /\ \A m \in 1 .. s - 1 : a[m] = seq[m]
  <2>1. 1 \in 1 .. Len(seq) + 1 /\ s - 1 \in 1 - 1 .. Len(seq)
    BY <1>0
  <2>2. /\ a \in Seq(Op) /\ Len(a) = (s - 1) - 1 + 1
        /\ \A m \in 1 .. s - 1 : a[m - 1 + 1] = seq[m]
    BY <2>1, Stretch
  <2>3. \A m \in 1 .. s - 1 : m - 1 + 1 = m
    BY <1>0
  <2>4. (s - 1) - 1 + 1 = s - 1
    BY <1>0
  <2> HIDE DEF a
  <2> QED
    BY <2>2, <2>3, <2>4
<1> HIDE DEF a
<1>2. b \in Seq(Op) /\ Len(b) = s /\ b[s] = f /\ \A m \in 1 .. s - 1 : b[m] = a[m]
  <2>1. /\ b \in Seq(Op) /\ Len(b) = Len(a) + 1
        /\ \A m \in 1 .. Len(a) : b[m] = a[m]
        /\ b[Len(a) + 1] = f
    <3>1. a \in Seq(Op)
      BY <1>1
    <3> QED
      BY <3>1, Pushed
  <2> HIDE DEF b
  <2>2. Len(a) = s - 1 /\ (s - 1) + 1 = s
    BY <1>0, <1>1
  <2> QED
    BY <2>1, <2>2
<1> HIDE DEF b
<1>3. /\ c \in Seq(Op) /\ Len(c) = end + 1
      /\ \A m \in 1 .. s : c[m] = b[m]
      /\ \A m \in s .. end : c[m + 1] = seq[m]
  <2>1. s \in 1 .. Len(seq) + 1 /\ end \in s - 1 .. Len(seq) /\ s = s - 1 + 1
    BY <1>0
  <2>2. Len(b) = s - 1 + 1 /\ b \in Seq(Op)
    BY <1>2, <2>1
  <2>3. /\ c \in Seq(Op) /\ Len(c) = end + 1
        /\ \A m \in 1 .. Len(b) : c[m] = b[m]
        /\ \A m \in s .. end : c[m + 1] = seq[m]
    <3> DEFINE one == 1
    <3>1. one \in Nat /\ Len(b) = s - 1 + one /\ b \in Seq(Op)
      BY <2>2
    <3> HIDE DEF one
    <3>2. /\ c \in Seq(Op) /\ Len(c) = end + one
          /\ \A m \in 1 .. Len(b) : c[m] = b[m]
          /\ \A m \in s .. end : c[m + one] = seq[m]
      BY <2>1, <3>1, Resumed
    <3> QED
      BY <3>2 DEF one
  <2> HIDE DEF c
  <2> QED
    BY <1>2, <2>3
<1> HIDE DEF c
<1>4. d \in Seq(Op) /\ Len(d) = end + 2 /\ d[end + 2] = g /\ \A m \in 1 .. end + 1 : d[m] = c[m]
  <2>1. /\ d \in Seq(Op) /\ Len(d) = Len(c) + 1
        /\ \A m \in 1 .. Len(c) : d[m] = c[m]
        /\ d[Len(c) + 1] = g
    <3>1. c \in Seq(Op)
      BY <1>3
    <3> QED
      BY <3>1, Pushed
  <2> HIDE DEF d
  <2>2. Len(c) = end + 1 /\ (end + 1) + 1 = end + 2
    BY <1>0, <1>3
  <2> QED
    BY <2>1, <2>2
<1> HIDE DEF d
<1>5. /\ t \in Seq(Op) /\ Len(t) = N + 2
      /\ \A m \in 1 .. end + 2 : t[m] = d[m]
      /\ \A m \in end + 1 .. N : t[m + 2] = seq[m]
  <2>1. /\ end + 1 \in 1 .. Len(seq) + 1 /\ Len(seq) \in (end + 1) - 1 .. Len(seq)
        /\ end + 2 = (end + 1) - 1 + 2
    BY <1>0
  <2>2. Len(d) = (end + 1) - 1 + 2 /\ d \in Seq(Op)
    BY <1>4, <2>1
  <2>3. /\ t \in Seq(Op) /\ Len(t) = Len(seq) + 2
        /\ \A m \in 1 .. Len(d) : t[m] = d[m]
        /\ \A m \in end + 1 .. Len(seq) : t[m + 2] = seq[m]
    <3> DEFINE two == 2
               x == end + 1
               y == Len(seq)
               r == SubSeq(seq, x, y)
    <3>1. two \in Nat /\ Len(d) = x - 1 + two /\ d \in Seq(Op)
      BY <2>2
    <3>2. x \in 1 .. Len(seq) + 1 /\ y \in x - 1 .. Len(seq)
      BY <2>1
    <3> HIDE DEF two, x, y
    <3>3. /\ d \o r \in Seq(Op) /\ Len(d \o r) = y + two
          /\ \A m \in 1 .. Len(d) : (d \o r)[m] = d[m]
          /\ \A m \in x .. y : (d \o r)[m + two] = seq[m]
      BY <3>1, <3>2, Resumed
    <3> QED
      BY <3>3 DEF two, x, y
  <2> HIDE DEF t
  <2> QED
    BY <1>4, <2>3
<1>6. t = Inserting(seq, s, end, f, g)
  BY DEF Inserting, a, b, c, d
<1> HIDE DEF t
<1>7. t[s] = f /\ t[end + 2] = g
  <2>1. s \in 1 .. end + 2 /\ s \in 1 .. end + 1 /\ s \in 1 .. s /\ end + 2 \in 1 .. end + 2
    BY <1>0
  <2> QED
    BY <1>2, <1>3, <1>4, <1>5, <2>1
<1>8. ASSUME NEW m \in 1 .. s - 1 PROVE t[m] = seq[m]
  <2>1. m \in 1 .. end + 2 /\ m \in 1 .. end + 1 /\ m \in 1 .. s
    BY <1>0
  <2> QED
    BY <1>1, <1>2, <1>3, <1>4, <1>5, <2>1
<1>9. ASSUME NEW m \in s .. end PROVE t[m + 1] = seq[m]
  <2>1. m + 1 \in 1 .. end + 2 /\ m + 1 \in 1 .. end + 1
    BY <1>0
  <2> QED
    BY <1>3, <1>4, <1>5, <2>1
<1> QED
  BY <1>5, <1>6, <1>7, <1>8, <1>9 DEF Shifted

\* What the faulted sequence is: the judged one with the fault and a wait put in,
\* and no restart or deleteManaged under the fault.
LEMMA FaultedIs ==
    ASSUME NEW seq \in Seq(Op), NEW s \in eligibleStarts(seq), Settles(seq[Len(seq)]),
           AllFit(seq), Judged(seq),
           \A n \in 1 .. Len(seq) : Carries(seq[n]) /\ seq[n].type # "fault"
    PROVE  \E t \in Seq(Op) :
              /\ faulted(seq, s) = Finished(t) /\ t # <<>> /\ Settles(t[Len(t)])
              /\ AllFit(t) /\ Judged(t)
              /\ \A n \in 1 .. Len(t) :
                    /\ Carries(t[n])
                    /\ t[n].type = "fault" =>
                          /\ t[n].fault.op > n /\ t[n].fault.op <= Len(t)
                          /\ \A m \in n .. t[n].fault.op - 1 :
                                t[m].type \notin {"restart", "deleteManaged"}
<1> DEFINE N == Len(seq)
           end == NextSettling(seq, s)
           f == [PlainOp("fault", NoKey) EXCEPT !.fault.op = end + 2]
<1>0. /\ N \in Nat /\ s \in 2 .. N /\ s \in 1 .. Len(seq) /\ s \in Nat /\ Settles(seq[s - 1])
      /\ seq[s].type \notin {"restart", "deleteManaged"}
  BY DEF eligibleStarts
<1>1. end \in s .. N /\ Settles(seq[end]) /\ \A q \in s .. N : Settles(seq[q]) => end <= q
  <2>1. N \in s .. N /\ s \in Nat \ {0} /\ Len(seq) \in Nat
    BY <1>0
  <2> QED
    BY <2>1, NextSettlingIs
<1> HIDE DEF end
<1>2. end \in Nat /\ end \in s .. Len(seq) /\ s <= end /\ end <= N
  BY <1>0, <1>1
<1>3. f \in Op /\ f.type = "fault" /\ f.fault.op = end + 2 /\ Carries(f)
  <2> DEFINE P == PlainOp("fault", NoKey)
             x == [NoFault EXCEPT !.op = end + 2]
  <2>1. /\ P \in Op /\ P.type = "fault" /\ P.key = NoKey /\ P.noSettle = FALSE /\ P.until = 0
        /\ P.fault = NoFault
    BY DEF PlainOp, NoFault, Op, OpTypes
  <2>2. x \in [op : Nat, count : Nat, for : Nat, delay : Nat] /\ x.op = end + 2
    BY <1>2 DEF NoFault
  <2> HIDE DEF P, x
  <2>3. f = [P EXCEPT !.fault = x]
    BY <2>1 DEF P, x
  <2> HIDE DEF f
  <2>4. /\ f \in Op /\ f.type = "fault" /\ f.key = NoKey
        /\ f.noSettle = FALSE /\ f.until = 0 /\ f.fault = x
    BY <2>1, <2>2, <2>3 DEF Op
  <2>5. Carries(f)
    BY <2>4 DEF Carries, OpTypes, MutatingOps, CROps, FixtureOps
  <2> QED
    BY <2>2, <2>4, <2>5
<1> DEFINE t == Inserting(seq, s, end, f, SettleOp)
<1>4. /\ t \in Seq(Op) /\ Len(t) = Len(seq) + 2 /\ t[s] = f /\ t[end + 2] = SettleOp
      /\ \A m \in 1 .. s - 1 : t[m] = seq[m]
      /\ \A m \in s .. end : t[m + 1] = seq[m]
      /\ \A m \in end + 1 .. Len(seq) : t[m + 2] = seq[m]
  <2>1. SettleOp \in Op
    BY SettleOpIs
  <2>2. s \in 1 .. Len(seq) /\ end \in s .. Len(seq) /\ f \in Op
    BY <1>0, <1>2, <1>3
  <2> HIDE DEF f
  <2>3. Shifted(t, seq, s, end, f, SettleOp)
    BY <2>1, <2>2, Inserted
  <2> QED
    BY <2>3 DEF Shifted
<1>5. faulted(seq, s) = Finished(t)
  BY DEF faulted, Finished, Inserting, end
<1> HIDE DEF t
<1> HIDE DEF f, N
<1>6. /\ Len(t) = N + 2 /\ t[s] = f /\ t[end + 2] = SettleOp
      /\ \A m \in 1 .. s - 1 : t[m] = seq[m]
      /\ \A m \in s .. end : t[m + 1] = seq[m]
      /\ \A m \in end + 1 .. N : t[m + 2] = seq[m]
  BY <1>4 DEF N
<1>7. ASSUME NEW m \in 1 .. N + 2
      PROVE  \/ m \in 1 .. s - 1 /\ m \in 1 .. N /\ t[m] = seq[m]
             \/ m = s
             \/ m - 1 \in s .. end /\ m - 1 \in 1 .. N /\ t[m] = seq[m - 1]
             \/ m = end + 2
             \/ m - 2 \in end + 1 .. N /\ m - 2 \in 1 .. N /\ t[m] = seq[m - 2]
  <2>1. \/ m \in 1 .. s - 1 /\ m \in 1 .. N
        \/ m = s
        \/ m - 1 \in s .. end /\ m - 1 \in 1 .. N /\ m = (m - 1) + 1
        \/ m = end + 2
        \/ m - 2 \in end + 1 .. N /\ m - 2 \in 1 .. N /\ m = (m - 2) + 2
    BY <1>0, <1>2
  <2> QED
    BY <1>6, <2>1
<1>8. ASSUME NEW p \in s .. end PROVE seq[p].type \notin {"restart", "deleteManaged"}
  <2>1. CASE p = s
    BY <1>0, <2>1
  <2>2. CASE p # s
    <3>1. p \in 1 .. N /\ p - 1 \in s .. N /\ ~(end <= p - 1)
      BY <1>0, <1>2, <2>2
    <3>2. ~Settles(seq[p - 1])
      BY <1>1, <3>1
    <3> QED
      BY <3>1, <3>2 DEF Judged, N
  <2> QED
    BY <2>1, <2>2
<1>9. AllFit(t)
  <2> DEFINE h == [n \in 1 .. N |-> IF n < s THEN n ELSE IF n <= end THEN n + 1 ELSE n + 2]
  <2>1. ASSUME NEW n \in 1 .. N
        PROVE  \/ n \in 1 .. s - 1 /\ h[n] = n
               \/ n \in s .. end /\ h[n] = n + 1
               \/ n \in end + 1 .. N /\ h[n] = n + 2
    BY <1>0, <1>2
  <2>2. h \in [1 .. N -> 1 .. N + 2]
    BY <1>0, <1>2
  <2>3. \A m, n \in 1 .. N : m < n => h[m] < h[n]
    BY <1>0, <1>2
  <2> HIDE DEF h
  <2>4. ASSUME NEW n \in 1 .. N PROVE Alike(t[h[n]], seq[n])
    <3>1. t[h[n]] = seq[n]
      BY <1>6, <2>1
    <3> QED
      BY <3>1 DEF Alike
  <2>5. ASSUME NEW m \in 1 .. N + 2
        PROVE  (\E n \in 1 .. N : h[n] = m) \/ t[m].type \in {"settle", "fault"}
    <3>1. CASE m = s \/ m = end + 2
      BY <1>3, <1>6, <3>1, SettleOpIs
    <3>2. CASE m \in 1 .. s - 1 /\ m \in 1 .. N
      <4>1. h[m] = m
        BY <1>0, <1>2, <2>1, <3>2
      <4> QED
        BY <3>2, <4>1
    <3>3. CASE m - 1 \in s .. end /\ m - 1 \in 1 .. N
      <4>1. h[m - 1] = m
        BY <1>0, <1>2, <2>1, <3>3
      <4> QED
        BY <3>3, <4>1
    <3>4. CASE m - 2 \in end + 1 .. N /\ m - 2 \in 1 .. N
      <4>1. h[m - 2] = m
        BY <1>0, <1>2, <2>1, <3>4
      <4> QED
        BY <3>4, <4>1
    <3> QED
      BY <1>7, <3>1, <3>2, <3>3, <3>4
  <2>6. Embeds(seq, N, t, h)
    BY <1>6, <2>2, <2>3, <2>4, <2>5 DEF Embeds
  <2>7. Len(t) \in Nat
    BY <1>0, <1>6
  <2> QED
    BY <1>0, <2>6, <2>7, EmbeddedFits DEF N
<1>10. ASSUME NEW p \in 1 .. N
       PROVE  /\ seq[p].type = "restart" =>
                    p > 1 /\ p < N /\ Settles(seq[p - 1]) /\ Settles(seq[p + 1])
              /\ seq[p].type = "deleteManaged" => p > 1 /\ Settles(seq[p - 1])
  BY DEF Judged, N
<1>11. ASSUME NEW m \in 1 .. N + 2
       PROVE  /\ t[m].type = "restart" =>
                    m > 1 /\ m < N + 2 /\ Settles(t[m - 1]) /\ Settles(t[m + 1])
              /\ t[m].type = "deleteManaged" => m > 1 /\ Settles(t[m - 1])
  <2>1. CASE m = s \/ m = end + 2
    BY <1>3, <1>6, <2>1, SettleOpIs
  <2>2. CASE m - 1 \in s .. end /\ t[m] = seq[m - 1]
    BY <1>8, <2>2
  <2>3. CASE m \in 1 .. s - 1 /\ m \in 1 .. N /\ t[m] = seq[m]
    <3>1. m > 1 => t[m - 1] = seq[m - 1]
      <4>1. m > 1 => m - 1 \in 1 .. s - 1
        BY <1>0, <2>3
      <4> QED
        BY <1>6, <4>1
    <3>2. ASSUME t[m].type = "restart" PROVE Settles(t[m + 1]) /\ m < N + 2
      <4>1. ~Settles(seq[m])
        BY <2>3, <3>2 DEF Settles, MutatingOps, CROps
      <4>2. m # s - 1
        BY <1>0, <4>1
      <4>3. m + 1 \in 1 .. s - 1
        BY <1>0, <2>3, <4>2
      <4>4. t[m + 1] = seq[m + 1]
        BY <1>6, <4>3
      <4>5. Settles(seq[m + 1])
        BY <1>10, <2>3, <3>2
      <4> QED
        BY <1>0, <2>3, <4>4, <4>5
    <3> QED
      BY <1>10, <2>3, <3>1, <3>2
  <2>4. CASE m - 2 \in end + 1 .. N /\ m - 2 \in 1 .. N /\ t[m] = seq[m - 2]
    <3> DEFINE p == m - 2
    <3>1. p \in 1 .. N /\ p \in end + 1 .. N /\ p \in Nat /\ m = p + 2 /\ t[m] = seq[p]
      BY <1>0, <2>4
    <3> HIDE DEF p
    <3>2. /\ seq[p].type = "restart" =>
                p > 1 /\ p < N /\ Settles(seq[p - 1]) /\ Settles(seq[p + 1])
          /\ seq[p].type = "deleteManaged" => p > 1 /\ Settles(seq[p - 1])
      BY <1>10, <3>1
    <3>3. Settles(seq[p - 1]) => Settles(t[m - 1])
      <4>1. CASE p = end + 1
        <5>1. m - 1 = end + 2
          BY <1>2, <3>1, <4>1
        <5> QED
          BY <1>6, <5>1, SettleOpIs
      <4>2. CASE p # end + 1
        <5>1. p - 1 \in end + 1 .. N /\ m - 1 = (p - 1) + 2
          BY <1>0, <1>2, <3>1, <4>2
        <5> QED
          BY <1>6, <5>1
      <4> QED
        BY <4>1, <4>2
    <3>4. p < N => t[m + 1] = seq[p + 1] /\ m < N + 2
      <4> SUFFICES ASSUME p < N PROVE t[m + 1] = seq[p + 1] /\ m < N + 2
        OBVIOUS
      <4>1. p + 1 \in end + 1 .. N /\ m + 1 = (p + 1) + 2 /\ m < N + 2
        BY <1>0, <1>2, <3>1
      <4> QED
        BY <1>6, <4>1
    <3>5. m > 1
      BY <3>1
    <3> QED
      BY <3>1, <3>2, <3>3, <3>4, <3>5
  <2> QED
    BY <1>7, <2>1, <2>2, <2>3, <2>4
<1>12. Judged(t)
  BY <1>6, <1>11 DEF Judged
<1>13. t # <<>> /\ Settles(t[Len(t)])
  <2>1. N + 2 # 0 /\ (N = end \/ N \in end + 1 .. N)
    BY <1>0, <1>2
  <2>2. t # <<>>
    BY <1>6, <2>1
  <2>3. Settles(seq[N])
    BY DEF N
  <2>4. Settles(t[N + 2])
    BY <1>6, <2>1, <2>3, SettleOpIs
  <2> QED
    BY <1>6, <2>2, <2>4
<1>14. ASSUME NEW n \in 1 .. N + 2
       PROVE  /\ Carries(t[n])
              /\ t[n].type = "fault" =>
                    /\ t[n].fault.op > n /\ t[n].fault.op <= N + 2
                    /\ \A m \in n .. t[n].fault.op - 1 :
                          t[m].type \notin {"restart", "deleteManaged"}
  <2>1. CASE n = s
    <3>1. t[n] = f /\ f.fault.op = end + 2 /\ end + 2 > n /\ end + 2 <= N + 2
      BY <1>0, <1>2, <1>3, <1>6, <2>1
    <3>2. ASSUME NEW m \in n .. end + 1 PROVE t[m].type \notin {"restart", "deleteManaged"}
      <4>1. m = s \/ (m - 1 \in s .. end /\ m = (m - 1) + 1)
        BY <1>0, <1>2, <2>1
      <4>2. CASE m = s
        BY <1>3, <1>6, <4>2
      <4>3. CASE m - 1 \in s .. end /\ m = (m - 1) + 1
        BY <1>6, <1>8, <4>3
      <4> QED
        BY <4>1, <4>2, <4>3
    <3>3. (end + 2) - 1 = end + 1
      BY <1>2
    <3> QED
      BY <1>3, <3>1, <3>2, <3>3
  <2>2. CASE n = end + 2
    BY <1>6, <2>2, SettleOpIs
  <2>3. ASSUME NEW p \in 1 .. N, t[n] = seq[p] PROVE Carries(t[n]) /\ t[n].type # "fault"
    BY <2>3 DEF N
  <2> QED
    BY <1>7, <2>1, <2>2, <2>3
<1> QED
  BY <1>4, <1>5, <1>6, <1>9, <1>12, <1>13, <1>14

-----------------------------------------------------------------------------
(* Drawing an op. *)

\* What the ops before n leave is theirs alone.
LEMMA SamePrefix ==
    ASSUME NEW s, NEW t, NEW n \in Nat, \A p \in 1 .. n - 1 : t[p] = s[p]
    PROVE  /\ \A cr : Made(t, cr, n) <=> Made(s, cr, n)
           /\ \A cr : There(t, cr, n) <=> There(s, cr, n)
           /\ \A f : Back(t, f, n) <=> Back(s, f, n)
<1>1. ASSUME NEW cr PROVE Made(t, cr, n) <=> Made(s, cr, n)
  BY DEF Made
<1>2. ASSUME NEW p \in 1 .. n - 1, NEW q \in p + 1 .. n - 1 PROVE q \in 1 .. n - 1
  OBVIOUS
<1>3. ASSUME NEW cr PROVE There(t, cr, n) <=> There(s, cr, n)
  BY <1>2 DEF There
<1>4. ASSUME NEW f PROVE Back(t, f, n) <=> Back(s, f, n)
  BY <1>2 DEF Back
<1> QED
  BY <1>1, <1>3, <1>4

\* An op added to a sequence.
LEMMA Appended ==
    ASSUME NEW s \in Seq(Op), NEW op \in Op
    PROVE  /\ Append(s, op) \in Seq(Op) /\ Len(Append(s, op)) = Len(s) + 1
           /\ Append(s, op)[Len(s) + 1] = op /\ Append(s, op) # <<>>
           /\ \A m \in 1 .. Len(s) : Append(s, op)[m] = s[m]
  OBVIOUS

\* An op that finds what it needs may be added.
LEMMA AppendedFits ==
    ASSUME NEW s \in Seq(Op), NEW op \in Op, AllFit(s), Fits(s, op, Len(s) + 1)
    PROVE  AllFit(Append(s, op))
<1> DEFINE t == Append(s, op)
           N == Len(s)
<1>1. /\ t \in Seq(Op) /\ Len(t) = N + 1 /\ t[N + 1] = op /\ N \in Nat
      /\ \A m \in 1 .. N : t[m] = s[m]
  BY Appended
<1>2. AllFit(s) /\ Fits(s, op, N + 1)
  OBVIOUS
<1> HIDE DEF t, N
<1>3. ASSUME NEW n \in 1 .. N + 1 PROVE Fits(t, t[n], n)
  <2>1. n \in Nat /\ \A p \in 1 .. n - 1 : t[p] = s[p]
    BY <1>1
  <2>2. /\ \A cr : Made(t, cr, n) <=> Made(s, cr, n)
        /\ \A cr : There(t, cr, n) <=> There(s, cr, n)
        /\ \A f : Back(t, f, n) <=> Back(s, f, n)
    BY <2>1, SamePrefix
  <2>3. n \in 1 .. N \/ n = N + 1
    BY <1>1
  <2>4. Fits(s, t[n], n)
    <3>1. CASE n \in 1 .. N
      BY <1>1, <1>2, <3>1 DEF AllFit, N
    <3>2. CASE n = N + 1
      BY <1>1, <1>2, <3>2
    <3> QED
      BY <2>3, <3>1, <3>2
  <2> QED
    BY <2>2, <2>4 DEF Fits
<1> QED
  BY <1>1, <1>3 DEF AllFit, t

\* What an added op changes.
LEMMA AppendedLeaves ==
    ASSUME NEW s \in Seq(Op), NEW op \in Op
    PROVE  LET t == Append(s, op)
               n == Len(s) + 1
           IN  /\ \A cr : Made(t, cr, Len(t) + 1) <=> Made(s, cr, n) \/ Decides(op, cr)
               /\ \A cr : Decides(op, cr) /\ op.type # "delete" => There(t, cr, Len(t) + 1)
               /\ \A cr : ~Decides(op, cr) /\ There(s, cr, n) => There(t, cr, Len(t) + 1)
               /\ \A f : ~Deletes(op, f) /\ (Settles(op) \/ Back(s, f, n)) => Back(t, f, Len(t) + 1)
<1> DEFINE t == Append(s, op)
           N == Len(s)
           n == N + 1
<1>1. /\ t \in Seq(Op) /\ Len(t) = n /\ t[n] = op /\ N \in Nat
      /\ \A m \in 1 .. N : t[m] = s[m]
  BY Appended
<1> HIDE DEF t, N
<1>2. ASSUME NEW p \in 1 .. (n + 1) - 1 PROVE p = n \/ (p \in 1 .. n - 1 /\ t[p] = s[p])
  BY <1>1
<1>3. ASSUME NEW p \in 1 .. n - 1 PROVE p \in 1 .. (n + 1) - 1 /\ t[p] = s[p] /\ p \in Nat
  BY <1>1
<1>4. n \in 1 .. (n + 1) - 1 /\ n \in Nat /\ n + 1 \in Nat
  BY <1>1
<1>5. ASSUME NEW cr PROVE Made(t, cr, n + 1) <=> Made(s, cr, n) \/ Decides(op, cr)
  <2>1. ASSUME Made(t, cr, n + 1) PROVE Made(s, cr, n) \/ Decides(op, cr)
    BY <1>1, <1>2, <2>1 DEF Made
  <2>2. ASSUME Made(s, cr, n) PROVE Made(t, cr, n + 1)
    BY <1>3, <2>2 DEF Made
  <2>3. ASSUME Decides(op, cr) PROVE Made(t, cr, n + 1)
    BY <1>1, <1>4, <2>3 DEF Made
  <2> QED
    BY <2>1, <2>2, <2>3
<1>6. ASSUME NEW cr, Decides(op, cr), op.type # "delete" PROVE There(t, cr, n + 1)
  <2>1. \A q \in n + 1 .. (n + 1) - 1 : FALSE
    BY <1>4
  <2> QED
    BY <1>1, <1>4, <1>6, <2>1 DEF There
<1>7. ASSUME NEW cr, ~Decides(op, cr), There(s, cr, n) PROVE There(t, cr, n + 1)
  <2>1. PICK p \in 1 .. n - 1 :
          /\ Decides(s[p], cr) /\ s[p].type # "delete"
          /\ \A q \in p + 1 .. n - 1 : ~Decides(s[q], cr)
    BY <1>7 DEF There
  <2>2. p \in 1 .. (n + 1) - 1 /\ Decides(t[p], cr) /\ t[p].type # "delete" /\ p \in Nat
    BY <1>3, <2>1
  <2>3. ASSUME NEW q \in p + 1 .. (n + 1) - 1 PROVE ~Decides(t[q], cr)
    <3>1. q = n \/ (q \in p + 1 .. n - 1 /\ q \in 1 .. n - 1)
      BY <1>4, <2>2
    <3> QED
      BY <1>1, <1>3, <1>7, <2>1, <3>1
  <2> QED
    BY <2>2, <2>3 DEF There
<1>8. ASSUME NEW f, ~Deletes(op, f), Settles(op) \/ Back(s, f, n) PROVE Back(t, f, n + 1)
  <2> SUFFICES ASSUME NEW p \in 1 .. (n + 1) - 1, Deletes(t[p], f)
               PROVE  \E q \in p + 1 .. (n + 1) - 1 : Settles(t[q])
    BY DEF Back
  <2>1. p \in 1 .. n - 1 /\ t[p] = s[p]
    BY <1>1, <1>2, <1>8
  <2>2. CASE Settles(op)
    <3>1. n \in p + 1 .. (n + 1) - 1
      BY <1>4, <2>1
    <3> QED
      BY <1>1, <2>2, <3>1
  <2>3. CASE Back(s, f, n)
    <3>1. PICK q \in p + 1 .. n - 1 : Settles(s[q])
      BY <2>1, <2>3 DEF Back
    <3>2. q \in 1 .. n - 1 /\ q \in p + 1 .. (n + 1) - 1
      BY <1>4, <2>1
    <3> QED
      BY <1>3, <3>1, <3>2
  <2> QED
    BY <1>8, <2>2, <2>3
<1> HIDE DEF n
<1>9. Len(t) + 1 = n + 1
  BY <1>1
<1> QED
  BY <1>5, <1>6, <1>7, <1>8, <1>9 DEF t, n, N

\* No two CRs hold one value, nor one what another falls back on.
Apart(c) ==
    /\ \A m, n \in DOMAIN c : m # n => c[m].val # c[n].val
    /\ \A m \in DOMAIN c : \A n \in DOMAIN CRNames \ {m} : c[m].val # n

\* The op is the one its generator tracks: the CRs after it are as it leaves them.
Follow(op, c, after) ==
    /\ after \in Seq([val : Values \cup Nat, live : BOOLEAN]) /\ Len(after) <= Len(CRNames)
    /\ Apart(after)
    /\ \A n \in 1 .. Len(CRNames) :
          n <= Len(after) <=> n <= Len(c) \/ Decides(op, CRNames[n])
    /\ \A n \in 1 .. Len(after) : after[n].live =>
          \/ Decides(op, CRNames[n]) /\ op.type # "delete"
          \/ ~Decides(op, CRNames[n]) /\ n <= Len(c) /\ c[n].live

\* Each op drawn keeps what generation tracks.
LEMMA AdvanceInv ==
    ASSUME GenInv, drawing = "ops", NEW op \in Op, NEW after,
           Carries(op), op.type # "fault", Fits(ops, op, Len(ops) + 1),
           Follow(op, crs, after), advance(op, after)
    PROVE  GenInv'
<1> DEFINE t == Append(ops, op)
<1>0. ops \in Seq(Op) /\ Len(ops) \in Nat /\ AllFit(ops) /\ Tracks
      /\ \A n \in 1 .. Len(ops) : Carries(ops[n]) /\ ops[n].type # "fault"
  BY DEF GenInv, GenTypeOK
<1>1. ops' = t /\ crs' = after /\ drawing' = "ops"
  BY DEF advance
<1>2. /\ t \in Seq(Op) /\ Len(t) = Len(ops) + 1 /\ t[Len(ops) + 1] = op /\ t # <<>>
      /\ \A m \in 1 .. Len(ops) : t[m] = ops[m]
  BY <1>0, Appended
<1>3. /\ \A cr : Made(t, cr, Len(t) + 1) <=> Made(ops, cr, Len(ops) + 1) \/ Decides(op, cr)
      /\ \A cr : Decides(op, cr) /\ op.type # "delete" => There(t, cr, Len(t) + 1)
      /\ \A cr : ~Decides(op, cr) /\ There(ops, cr, Len(ops) + 1) => There(t, cr, Len(t) + 1)
      /\ \A f : ~Deletes(op, f) /\ (Settles(op) \/ Back(ops, f, Len(ops) + 1)) =>
                   Back(t, f, Len(t) + 1)
  BY <1>0, AppendedLeaves
<1>4. AllFit(t)
  BY <1>0, AppendedFits
<1> HIDE DEF t
<1>5. ASSUME NEW n \in 1 .. Len(t) PROVE Carries(t[n]) /\ t[n].type # "fault"
  <2>1. n \in 1 .. Len(ops) \/ n = Len(ops) + 1
    BY <1>0, <1>2
  <2> QED
    BY <1>0, <1>2, <2>1
<1>6. \A n \in 1 .. Len(CRNames) : Made(t, CRNames[n], Len(t) + 1) <=> n <= Len(after)
  BY <1>0, <1>3 DEF Tracks, Follow
<1>7. ASSUME NEW n \in 1 .. Len(after), after[n].live PROVE There(t, CRNames[n], Len(t) + 1)
  <2>1. \/ Decides(op, CRNames[n]) /\ op.type # "delete"
        \/ ~Decides(op, CRNames[n]) /\ n <= Len(crs) /\ crs[n].live
    BY <1>7 DEF Follow
  <2>2. n <= Len(crs) => n \in 1 .. Len(crs)
    BY DEF GenInv, GenTypeOK
  <2>3. n \in 1 .. Len(crs) /\ crs[n].live => There(ops, CRNames[n], Len(ops) + 1)
    BY <1>0 DEF Tracks
  <2> QED
    BY <1>3, <2>1, <2>2, <2>3
<1>8. ASSUME NEW f \in Fixtures, f \notin gone' PROVE Back(t, f, Len(t) + 1)
  <2>1. gone' = IF Settles(op) THEN {}
                ELSE IF op.type = "deleteFixture" THEN gone \cup {op.key} ELSE gone
    BY DEF advance
  <2>2. Settles(op) => op.type # "deleteFixture"
    BY DEF Settles, MutatingOps, CROps
  <2>3. ~Deletes(op, f)
    BY <1>8, <2>1, <2>2 DEF Deletes
  <2>4. f \notin gone => Back(ops, f, Len(ops) + 1)
    BY <1>0 DEF Tracks
  <2>5. Settles(op) \/ f \notin gone
    BY <1>8, <2>1
  <2> QED
    BY <1>3, <2>3, <2>4, <2>5
<1>9. Tracks'
  BY <1>1, <1>6, <1>7, <1>8 DEF Tracks
<1>10. GenTypeOK'
  BY <1>1, <1>2 DEF GenTypeOK, Follow
<1>11. DistinctHeld' /\ Own'
  BY <1>1 DEF DistinctHeld, Own, Follow, Apart
<1>12. DrawnIsJudged'
  BY <1>1 DEF DrawnIsJudged
<1> QED
  BY <1>1, <1>2, <1>4, <1>5, <1>9, <1>10, <1>11, <1>12 DEF GenInv

\* An op of any type whose key is the one its type needs.
LEMMA PlainOpIs ==
    ASSUME NEW type \in OpTypes, NEW key \in Keys \cup {NoKey},
           (key # NoKey) = (type \in CROps \cup FixtureOps \cup {"deleteManaged"})
    PROVE  /\ PlainOp(type, key) \in Op /\ PlainOp(type, key).type = type
           /\ PlainOp(type, key).key = key /\ PlainOp(type, key).noSettle = FALSE
           /\ PlainOp(type, key).until = 0 /\ PlainOp(type, key).fault = NoFault
           /\ Carries(PlainOp(type, key))
<1> DEFINE op == PlainOp(type, key)
<1>1. /\ op.type = type /\ op.key = key /\ op.noSettle = FALSE /\ op.until = 0
      /\ op.fault = NoFault
  BY DEF PlainOp
<1>2. op \in Op
  BY DEF PlainOp, Op, NoFault
<1> HIDE DEF op
<1>3. Carries(op)
  BY <1>1 DEF Carries
<1> QED
  BY <1>1, <1>2, <1>3 DEF op

\* The ops on a CR that generation draws carry what their type asks for.
LEMMA CROpIs ==
    ASSUME NEW type \in CROps, NEW n \in 1 .. Len(CRNames), NEW noSettle \in BOOLEAN
    PROVE  /\ CROp(type, n, noSettle) \in Op /\ CROp(type, n, noSettle).type = type
           /\ CROp(type, n, noSettle).key = CRNames[n] /\ Carries(CROp(type, n, noSettle))
<1> DEFINE P == PlainOp(type, CRNames[n])
           op == CROp(type, n, noSettle)
<1>1. CRNames[n] \in Keys /\ CRNames[n] # NoKey
  BY DrawAndShrinkAssumption
<1>2. type \in OpTypes
  BY DEF OpTypes, MutatingOps
<1>3. /\ P \in Op /\ P.type = type /\ P.key = CRNames[n] /\ P.until = 0 /\ P.fault = NoFault
      /\ Carries(P)
  <2>1. (CRNames[n] # NoKey) = (type \in CROps \cup FixtureOps \cup {"deleteManaged"})
    BY <1>1
  <2>2. CRNames[n] \in Keys \cup {NoKey}
    BY <1>1
  <2> QED
    BY <1>2, <2>1, <2>2, PlainOpIs
<1>4. op = [P EXCEPT !.noSettle = noSettle]
  BY DEF CROp
<1> HIDE DEF P, op
<1>5. /\ op \in Op /\ op.type = type /\ op.key = CRNames[n] /\ op.until = 0 /\ op.fault = NoFault
  BY <1>3, <1>4 DEF Op
<1>6. Carries(op)
  <2>1. /\ op.type \in OpTypes /\ op.type \in CROps /\ op.key # NoKey /\ ~(op.until # 0)
        /\ ~(op.fault # NoFault)
    BY <1>1, <1>2, <1>5
  <2>2. op.type \in CROps \cup FixtureOps \cup {"deleteManaged"}
    BY <2>1
  <2> QED
    BY <2>1, <2>2, Zenon DEF Carries
<1> QED
  BY <1>5, <1>6 DEF op

\* The op of the n-th CR decides that CR's fate and no other's.
LEMMA DecidesOne ==
    ASSUME NEW op, NEW n \in 1 .. Len(CRNames), op.key = CRNames[n],
           NEW m \in 1 .. Len(CRNames)
    PROVE  Decides(op, CRNames[m]) <=> m = n /\ op.type \in {"create", "recreate", "delete"}
<1>1. CRNames[m] = CRNames[n] => m = n
  BY DrawAndShrinkAssumption
<1> QED
  BY <1>1 DEF Decides

\* A value that collides with no other, or a CR's own base, may be written.
LEMMA WriteApart ==
    ASSUME GenInv, NEW n \in 1 .. Len(CRNames), NEW v, v = n \/ ~Collides(n, v),
           NEW after, DOMAIN after \subseteq 1 .. Len(CRNames),
           \A m \in DOMAIN after : m # n => m \in DOMAIN crs /\ after[m].val = crs[m].val,
           n \in DOMAIN after => after[n].val = v
    PROVE  Apart(after)
<1>0. DOMAIN CRNames = 1 .. Len(CRNames)
  BY DrawAndShrinkAssumption
<1>1. ASSUME NEW m \in DOMAIN after, m # n PROVE after[m].val # v /\ m \in DOMAIN CRNames \ {n}
  <2>1. m \in DOMAIN CRNames \ {n} /\ m \in DOMAIN crs /\ after[m].val = crs[m].val
    BY <1>0, <1>1
  <2>2. crs[m].val # n
    BY <1>0, <1>1, <2>1 DEF GenInv, Own
  <2>3. ~Collides(n, v) => v # crs[m].val
    BY <2>1 DEF Collides
  <2> QED
    BY <2>1, <2>2, <2>3
<1>2. ASSUME NEW k \in DOMAIN CRNames \ {n} PROVE v # k
  BY <1>2 DEF Collides
<1>3. ASSUME NEW m \in DOMAIN after, NEW k \in DOMAIN after, m # k
      PROVE  after[m].val # after[k].val
  <2>1. CASE m = n
    BY <1>1, <1>3, <2>1
  <2>2. CASE k = n
    BY <1>1, <1>3, <2>2
  <2>3. CASE m # n /\ k # n
    BY <1>3, <2>3 DEF GenInv, DistinctHeld
  <2> QED
    BY <2>1, <2>2, <2>3
<1>4. ASSUME NEW m \in DOMAIN after, NEW k \in DOMAIN CRNames \ {m} PROVE after[m].val # k
  <2>1. CASE m = n
    BY <1>2, <2>1
  <2>2. CASE m # n
    BY <2>2 DEF GenInv, Own
  <2> QED
    BY <2>1, <2>2
<1> QED
  BY <1>3, <1>4 DEF Apart

\* A create is drawn for a CR that has none yet, with a value no other holds.
LEMMA CreateInv ==
    ASSUME GenInv, DrawCreate
    PROVE  GenInv'
<1> DEFINE n == Len(crs) + 1
           N == Len(CRNames)
<1>0. /\ crs \in Seq([val : Values \cup Nat, live : BOOLEAN]) /\ Len(crs) \in Nat
      /\ Len(crs) <= N /\ N \in Nat /\ N # 0
  BY DrawAndShrinkAssumption, GenerateAssumption DEF GenInv, GenTypeOK
<1>1. drawing = "ops" /\ n \in 1 .. N
  <2>1. CASE ops = <<>> /\ drawing = "ops"
    <3>1. Len(crs) = 0
      BY <2>1 DEF GenInv
    <3> QED
      BY <1>0, <2>1, <3>1
  <2>2. CASE More("create")
    <3>1. drawing = "ops" /\ Len(crs) < N
      BY <2>2 DEF More, Legal
    <3> QED
      BY <1>0, <3>1
  <2> QED
    BY <2>1, <2>2 DEF DrawCreate
<1>2. PICK noSettle \in BOOLEAN, v \in DrawnVals(n) :
        advance(CROp("create", n, noSettle), Append(crs, [val |-> v, live |-> TRUE]))
  BY DEF DrawCreate
<1> DEFINE op == CROp("create", n, noSettle)
           new == [val |-> v, live |-> TRUE]
           after == Append(crs, new)
<1>3. op \in Op /\ op.type = "create" /\ op.key = CRNames[n] /\ Carries(op)
  BY <1>1, CROpIs DEF CROps
<1>4. v \in Values \cup Nat /\ (v = n \/ ~Collides(n, v))
  BY <1>0 DEF DrawnVals
<1>5. advance(op, after)
  BY <1>2
<1> HIDE DEF op
<1>6. new \in [val : Values \cup Nat, live : BOOLEAN] /\ new.val = v
  BY <1>4
<1> HIDE DEF new
<1>7. /\ after \in Seq([val : Values \cup Nat, live : BOOLEAN]) /\ Len(after) = n
      /\ after[n] = new /\ \A m \in 1 .. Len(crs) : after[m] = crs[m]
  BY <1>0, <1>6
<1> HIDE DEF after
<1>8. DOMAIN after = 1 .. n /\ DOMAIN crs = 1 .. Len(crs)
  BY <1>0, <1>7
<1>9. ASSUME NEW m \in 1 .. n, m # n PROVE m \in 1 .. Len(crs)
  BY <1>0, <1>9
<1>10. Apart(after)
  <2>1. DOMAIN after \subseteq 1 .. Len(CRNames)
    BY <1>0, <1>1, <1>8
  <2>2. \A m \in DOMAIN after : m # n => m \in DOMAIN crs /\ after[m].val = crs[m].val
    BY <1>7, <1>8, <1>9
  <2>3. after[n].val = v /\ n \in 1 .. Len(CRNames)
    BY <1>1, <1>6, <1>7
  <2> HIDE DEF n
  <2> QED
    BY <1>4, <2>1, <2>2, <2>3, WriteApart
<1>11. ASSUME NEW m \in 1 .. N PROVE Decides(op, CRNames[m]) <=> m = n
  BY <1>1, <1>3, DecidesOne
<1>12. Follow(op, crs, after)
  <2>1. \A m \in 1 .. N : m <= Len(after) <=> m <= Len(crs) \/ Decides(op, CRNames[m])
    BY <1>0, <1>7, <1>11
  <2>2. ASSUME NEW m \in 1 .. Len(after), after[m].live
        PROVE  \/ Decides(op, CRNames[m]) /\ op.type # "delete"
               \/ ~Decides(op, CRNames[m]) /\ m <= Len(crs) /\ crs[m].live
    <3>1. m \in 1 .. N
      BY <1>0, <1>1, <1>7
    <3>2. CASE m = n
      BY <1>3, <1>11, <3>1, <3>2
    <3>3. CASE m # n
      <4>1. m \in 1 .. Len(crs)
        BY <1>7, <1>9, <3>3
      <4>2. m <= Len(crs)
        BY <1>0, <4>1
      <4> QED
        BY <1>7, <1>11, <2>2, <3>1, <3>3, <4>1, <4>2
    <3> QED
      BY <3>2, <3>3
  <2>3. Len(after) <= N
    BY <1>1, <1>7
  <2> QED
    BY <1>7, <1>10, <2>1, <2>2, <2>3 DEF Follow
<1>13. Fits(ops, op, Len(ops) + 1)
  <2>1. ~(n <= Len(crs))
    BY <1>0
  <2>2. ~Made(ops, CRNames[n], Len(ops) + 1)
    BY <1>1, <2>1 DEF GenInv, Tracks
  <2> QED
    BY <1>3, <2>2 DEF Fits
<1> QED
  BY <1>1, <1>3, <1>5, <1>12, <1>13, AdvanceInv

\* A write, deletion or re-creation of one of the CRs created.
LEMMA WriteInv ==
    ASSUME GenInv, drawing = "ops", NEW n \in 1 .. Len(crs),
           NEW type \in {"update", "delete", "recreate"}, NEW noSettle \in BOOLEAN,
           NEW v, v \in Values \cup Nat, v = n \/ ~Collides(n, v) \/ v = crs[n].val,
           NEW live \in BOOLEAN, live => type # "delete" /\ (type = "update" => crs[n].live),
           type # "recreate" => crs[n].live,
           advance(CROp(type, n, noSettle), [crs EXCEPT ![n] = [val |-> v, live |-> live]])
    PROVE  GenInv'
<1> DEFINE N == Len(CRNames)
           op == CROp(type, n, noSettle)
           new == [val |-> v, live |-> live]
           after == [crs EXCEPT ![n] = new]
<1>0. /\ crs \in Seq([val : Values \cup Nat, live : BOOLEAN]) /\ Len(crs) \in Nat
      /\ Len(crs) <= N /\ N \in Nat
  BY DrawAndShrinkAssumption DEF GenInv, GenTypeOK
<1>1. n \in 1 .. N
  BY <1>0
<1>2. op \in Op /\ op.type = type /\ op.key = CRNames[n] /\ Carries(op)
  BY <1>1, CROpIs DEF CROps
<1>3. advance(op, after)
  OBVIOUS
<1> HIDE DEF op
<1>4. new \in [val : Values \cup Nat, live : BOOLEAN] /\ new.val = v /\ new.live = live
  OBVIOUS
<1> HIDE DEF new
<1>5. /\ after \in Seq([val : Values \cup Nat, live : BOOLEAN]) /\ Len(after) = Len(crs)
      /\ after[n] = new /\ \A m \in 1 .. Len(crs) : m # n => after[m] = crs[m]
  BY <1>0, <1>4
<1> HIDE DEF after
<1>6. DOMAIN after = 1 .. Len(crs) /\ DOMAIN crs = 1 .. Len(crs)
  BY <1>0, <1>5
<1>7. Apart(after)
  <2>1. DOMAIN after \subseteq 1 .. Len(CRNames)
    BY <1>0, <1>6
  <2>2. \A m \in DOMAIN after : m # n => m \in DOMAIN crs /\ after[m].val = crs[m].val
    BY <1>5, <1>6
  <2>3. after[n].val = v
    BY <1>4, <1>5
  <2>4. CASE v = n \/ ~Collides(n, v)
    BY <1>1, <2>1, <2>2, <2>3, <2>4, WriteApart
  <2>5. CASE v = crs[n].val
    <3>1. \A m \in DOMAIN crs : after[m].val = crs[m].val
      BY <1>6, <2>2, <2>3, <2>5
    <3> QED
      BY <1>6, <3>1 DEF Apart, GenInv, DistinctHeld, Own
  <2> QED
    BY <2>4, <2>5
<1>8. ASSUME NEW m \in 1 .. N
      PROVE  Decides(op, CRNames[m]) <=> m = n /\ type \in {"recreate", "delete"}
  BY <1>1, <1>2, DecidesOne
<1>9. Follow(op, crs, after)
  <2>1. \A m \in 1 .. N : m <= Len(after) <=> m <= Len(crs) \/ Decides(op, CRNames[m])
    BY <1>0, <1>5, <1>8
  <2>2. ASSUME NEW m \in 1 .. Len(after), after[m].live
        PROVE  \/ Decides(op, CRNames[m]) /\ op.type # "delete"
               \/ ~Decides(op, CRNames[m]) /\ m <= Len(crs) /\ crs[m].live
    <3>1. m \in 1 .. N /\ m <= Len(crs) /\ m \in 1 .. Len(crs)
      BY <1>0, <1>1, <1>5
    <3>2. CASE m = n
      <4>1. live
        BY <1>4, <1>5, <2>2, <3>2
      <4> QED
        BY <1>2, <1>8, <3>1, <3>2, <4>1
    <3>3. CASE m # n
      BY <1>5, <1>8, <2>2, <3>1, <3>3
    <3> QED
      BY <3>2, <3>3
  <2> QED
    BY <1>0, <1>5, <1>7, <2>1, <2>2 DEF Follow
<1>10. Fits(ops, op, Len(ops) + 1)
  <2>1. n <= Len(crs)
    BY <1>0
  <2>2. Made(ops, CRNames[n], Len(ops) + 1)
    BY <1>1, <2>1 DEF GenInv, Tracks
  <2>3. crs[n].live => There(ops, CRNames[n], Len(ops) + 1)
    BY DEF GenInv, Tracks
  <2> QED
    BY <1>2, <2>2, <2>3 DEF Fits
<1>11. op.type # "fault"
  BY <1>2
<1> QED
  BY <1>2, <1>3, <1>9, <1>10, <1>11, AdvanceInv

\* An op that leaves every CR as it is.
LEMMA StillInv ==
    ASSUME GenInv, drawing = "ops", NEW op \in Op, Carries(op),
           op.type \in {"settle", "restart", "deleteManaged", "updateFixture", "deleteFixture"},
           op.type = "deleteFixture" => Back(ops, op.key, Len(ops) + 1),
           advance(op, crs)
    PROVE  GenInv'
<1>1. \A cr : ~Decides(op, cr)
  BY DEF Decides
<1>2. /\ crs \in Seq([val : Values \cup Nat, live : BOOLEAN]) /\ Len(crs) <= Len(CRNames)
      /\ DOMAIN crs = 1 .. Len(crs) /\ Len(crs) \in Nat
  BY DEF GenInv, GenTypeOK
<1>3. Apart(crs)
  BY DEF Apart, GenInv, DistinctHeld, Own
<1>4. \A n \in 1 .. Len(crs) : n <= Len(crs)
  BY <1>2
<1>5. Follow(op, crs, crs)
  BY <1>1, <1>2, <1>3, <1>4 DEF Follow
<1>6. Fits(ops, op, Len(ops) + 1) /\ op.type # "fault"
  BY DEF Fits
<1> QED
  BY <1>5, <1>6, AdvanceInv

\* A settle or a restart leaves the CRs as they are.
LEMMA WaitInv ==
    ASSUME GenInv, drawing = "ops", NEW type \in {"settle", "restart"},
           advance(PlainOp(type, NoKey), crs)
    PROVE  GenInv'
<1> DEFINE op == PlainOp(type, NoKey)
<1>1. type \in OpTypes /\ NoKey \in Keys \cup {NoKey}
  BY DEF OpTypes
<1>2. ~(NoKey # NoKey) /\ ~(type \in CROps \cup FixtureOps \cup {"deleteManaged"})
  BY DEF CROps, FixtureOps
<1>3. op \in Op /\ op.type = type /\ Carries(op)
  <2>1. (NoKey # NoKey) = (type \in CROps \cup FixtureOps \cup {"deleteManaged"})
    BY <1>2
  <2> QED
    BY <1>1, <2>1, PlainOpIs
<1>4. advance(op, crs)
  OBVIOUS
<1> HIDE DEF op
<1> QED
  BY <1>3, <1>4, StillInv

\* So does an op on a managed object or a fixture, deleted only while it is back.
LEMMA OnceInv ==
    ASSUME GenInv, drawing = "ops",
           NEW type \in {"deleteManaged", "updateFixture", "deleteFixture"}, NEW key \in Keys,
           type = "deleteFixture" => Back(ops, key, Len(ops) + 1),
           advance(PlainOp(type, key), crs)
    PROVE  GenInv'
<1> DEFINE op == PlainOp(type, key)
<1>1. type \in OpTypes /\ key \in Keys \cup {NoKey}
  BY DEF OpTypes, MutatingOps
<1>2. key # NoKey /\ type \in CROps \cup FixtureOps \cup {"deleteManaged"}
  BY DrawAndShrinkAssumption DEF FixtureOps
<1>3. op \in Op /\ op.type = type /\ op.key = key /\ Carries(op)
  <2>1. (key # NoKey) = (type \in CROps \cup FixtureOps \cup {"deleteManaged"})
    BY <1>2
  <2> QED
    BY <1>1, <2>1, PlainOpIs
<1>4. advance(op, crs)
  OBVIOUS
<1> HIDE DEF op
<1> QED
  BY <1>3, <1>4, StillInv

\* A CR as generation keeps it.
CR == [val : Values \cup Nat, live : BOOLEAN]

\* Writing one field of a CR keeps the other.
LEMMA CRWritten ==
    ASSUME NEW c \in CR, NEW v, NEW live
    PROVE  /\ [c EXCEPT !.val = v] = [val |-> v, live |-> c.live]
           /\ [c EXCEPT !.live = live] = [val |-> c.val, live |-> live]
           /\ c.val \in Values \cup Nat /\ c.live \in BOOLEAN
<1>1. c = [val |-> c.val, live |-> c.live] /\ c.val \in Values \cup Nat /\ c.live \in BOOLEAN
  BY DEF CR
<1> DEFINE a == c.val
           b == c.live
<1>2. c = [val |-> a, live |-> b]
  BY <1>1
<1> HIDE DEF a, b
<1>3. [c EXCEPT !.val = v] = [val |-> v, live |-> b]
  BY <1>2
<1>4. [c EXCEPT !.live = live] = [val |-> a, live |-> live]
  BY <1>2
<1> QED
  BY <1>1, <1>3, <1>4 DEF a, b

\* A live CR was created.
LEMMA LiveIs ==
    ASSUME GenInv, NEW n \in Live
    PROVE  n \in 1 .. Len(crs) /\ crs[n].live /\ crs[n] \in CR
<1>1. crs \in Seq(CR)
  BY DEF GenInv, GenTypeOK, CR
<1>2. n \in DOMAIN crs /\ crs[n].live
  BY Zenon DEF Live
<1>3. n \in 1 .. Len(crs) /\ crs[n] \in CR
  BY <1>1, <1>2
<1> QED
  BY <1>2, <1>3

\* An update keeps its CR live and its value apart; else a settle is drawn.
LEMMA UpdateInv ==
    ASSUME GenInv, DrawUpdate
    PROVE  GenInv'
<1>0. drawing = "ops" /\ crs \in Seq([val : Values \cup Nat, live : BOOLEAN])
  BY DEF DrawUpdate, More, GenInv, GenTypeOK
<1>1. PICK n \in Live, noSettle \in BOOLEAN :
          \/ \E v \in Values :
                /\ ~Refuses(crs[n].val, v) /\ ~Collides(n, v)
                /\ advance(CROp("update", n, noSettle), [crs EXCEPT ![n].val = v])
          \/ advance(PlainOp("settle", NoKey), crs)
  BY DEF DrawUpdate
<1>2. n \in 1 .. Len(crs) /\ crs[n].live /\ crs[n] \in CR
  BY LiveIs
<1>3. ASSUME NEW v \in Values, ~Collides(n, v),
             advance(CROp("update", n, noSettle), [crs EXCEPT ![n].val = v])
      PROVE  GenInv'
  <2> DEFINE live == crs[n].live
  <2>1. live \in BOOLEAN /\ live
    BY <1>2, CRWritten
  <2>2. [crs[n] EXCEPT !.val = v] = [val |-> v, live |-> live]
    BY <1>2, CRWritten
  <2>3. [crs EXCEPT ![n].val = v] = [crs EXCEPT ![n] = [val |-> v, live |-> live]]
    BY <2>2
  <2> HIDE DEF live
  <2>4. advance(CROp("update", n, noSettle), [crs EXCEPT ![n] = [val |-> v, live |-> live]])
    BY <1>3, <2>3
  <2>5. v \in Values \cup Nat
    OBVIOUS
  <2> DEFINE type == "update"
  <2>6. type \in {"update", "delete", "recreate"} /\ type # "delete"
    OBVIOUS
  <2> QED
    BY <1>0, <1>2, <1>3, <2>1, <2>4, <2>5, <2>6, WriteInv
<1>4. CASE advance(PlainOp("settle", NoKey), crs)
  BY <1>0, <1>4, WaitInv
<1> QED
  BY <1>1, <1>3, <1>4

\* A delete finds its CR live.
LEMMA DeleteInv ==
    ASSUME GenInv, DrawDelete
    PROVE  GenInv'
<1>0. drawing = "ops" /\ crs \in Seq([val : Values \cup Nat, live : BOOLEAN])
  BY DEF DrawDelete, More, GenInv, GenTypeOK
<1>1. PICK n \in Live, noSettle \in BOOLEAN :
        advance(CROp("delete", n, noSettle), [crs EXCEPT ![n].live = FALSE])
  BY DEF DrawDelete
<1>2. n \in 1 .. Len(crs) /\ crs[n].live /\ crs[n] \in CR
  BY LiveIs
<1> DEFINE v == crs[n].val
           live == FALSE
<1>3. v \in Values \cup Nat
  BY <1>2, CRWritten
<1>4. [crs[n] EXCEPT !.live = FALSE] = [val |-> v, live |-> live]
  BY <1>2, CRWritten
<1>5. [crs EXCEPT ![n].live = FALSE] = [crs EXCEPT ![n] = [val |-> v, live |-> live]]
  BY <1>4
<1>6. live \in BOOLEAN /\ ~live
  OBVIOUS
<1>7. v = crs[n].val
  OBVIOUS
<1> HIDE DEF v, live
<1>8. advance(CROp("delete", n, noSettle), [crs EXCEPT ![n] = [val |-> v, live |-> live]])
  BY <1>1, <1>5
<1> QED
  BY <1>0, <1>2, <1>3, <1>6, <1>7, <1>8, WriteInv

\* A recreate finds its CR created.
LEMMA RecreateInv ==
    ASSUME GenInv, DrawRecreate
    PROVE  GenInv'
<1>0. drawing = "ops" /\ crs \in Seq([val : Values \cup Nat, live : BOOLEAN])
  BY DEF DrawRecreate, More, GenInv, GenTypeOK
<1>1a. PICK n \in DOMAIN crs, noSettle \in BOOLEAN : \E v \in DrawnVals(n) :
        advance(CROp("recreate", n, noSettle), [crs EXCEPT ![n] = [val |-> v, live |-> TRUE]])
  BY DEF DrawRecreate
<1>1. PICK v \in DrawnVals(n) :
        advance(CROp("recreate", n, noSettle), [crs EXCEPT ![n] = [val |-> v, live |-> TRUE]])
  BY <1>1a
<1>2. n \in 1 .. Len(crs) /\ n \in Nat
  BY <1>0
<1>3. v \in Values \cup Nat /\ (v = n \/ ~Collides(n, v))
  BY <1>2 DEF DrawnVals
<1> DEFINE live == TRUE
<1>4. live \in BOOLEAN
  OBVIOUS
<1>5. advance(CROp("recreate", n, noSettle), [crs EXCEPT ![n] = [val |-> v, live |-> live]])
  BY <1>1
<1> HIDE DEF live
<1> DEFINE type == "recreate"
<1>6. type \in {"update", "delete", "recreate"} /\ type # "delete" /\ type # "update"
  OBVIOUS
<1> QED
  BY <1>0, <1>2, <1>3, <1>4, <1>5, <1>6, WriteInv

\* The other ops find their fixtures back.
LEMMA OtherInv ==
    ASSUME GenInv, DrawOther
    PROVE  GenInv'
<1>1. PICK type \in {"settle", "restart", "deleteManaged", "updateFixture", "deleteFixture"} :
        /\ More(type)
        /\ \E key \in CASE type = "deleteManaged" -> Range(Kinds)
                        [] type = "updateFixture" -> Updatable
                        [] type = "deleteFixture" -> Fixtures \ gone
                        [] OTHER -> {NoKey} :
              advance(PlainOp(type, key), crs)
  BY DEF DrawOther
<1>2. drawing = "ops"
  BY <1>1 DEF More
<1>3. CASE type \in {"settle", "restart"}
  <2>1. advance(PlainOp(type, NoKey), crs)
    BY <1>1, <1>3
  <2> QED
    BY <1>2, <1>3, <2>1, WaitInv
<1>4. CASE type \in {"deleteManaged", "updateFixture", "deleteFixture"}
  <2>1. PICK key : /\ type = "deleteManaged" => key \in Range(Kinds)
                   /\ type = "updateFixture" => key \in Updatable
                   /\ type = "deleteFixture" => key \in Fixtures /\ key \notin gone
                   /\ advance(PlainOp(type, key), crs)
    BY <1>1, <1>4
  <2>2. key \in Keys
    <3>1. CASE type = "deleteManaged"
      <4>1. Range(Kinds) \subseteq Keys
        BY DrawAndShrinkAssumption DEF Range
      <4> QED
        BY <2>1, <3>1, <4>1
    <3>2. CASE type \in {"updateFixture", "deleteFixture"}
      BY <2>1, <3>2, DrawAndShrinkAssumption, GenerateAssumption
    <3> QED
      BY <1>4, <3>1, <3>2
  <2>3. type = "deleteFixture" => Back(ops, key, Len(ops) + 1)
    BY <1>2, <2>1 DEF GenInv, Tracks
  <2> QED
    BY <1>2, <1>4, <2>1, <2>2, <2>3, OnceInv
<1> QED
  BY <1>3, <1>4

-----------------------------------------------------------------------------
(* Finishing what was drawn. *)

\* What DrawnIsJudged asks of a sequence, op by op.
Judgeable(s) ==
    \A n \in 1 .. Len(s) :
        /\ s[n].type = "restart" => Settles(s[n - 1]) /\ Settles(s[n + 1])
        /\ s[n].type = "deleteManaged" => Settles(s[n - 1])
        /\ s[n].type = "fault" =>
              \A m \in n .. s[n].fault.op - 1 : s[m].type \notin {"restart", "deleteManaged"}
        /\ s[n].type = "deleteFixture" => \A m \in n .. s[n].until - 1 : ~Settles(s[m])

\* A sequence that fits, is judged and ends on a wait is, once finished, one the
\* Runner accepts and the checks can judge.
LEMMA FinishedJudged ==
    ASSUME NEW t \in Seq(Op), t # <<>>, Settles(t[Len(t)]), AllFit(t), Judged(t),
           \A n \in 1 .. Len(t) :
              /\ Carries(t[n])
              /\ t[n].type = "fault" =>
                    /\ t[n].fault.op > n /\ t[n].fault.op <= Len(t)
                    /\ \A m \in n .. t[n].fault.op - 1 :
                          t[m].type \notin {"restart", "deleteManaged"}
    PROVE  /\ Finished(t) \in Seq(Op) /\ Finished(t) # <<>> /\ Len(Finished(t)) = Len(t)
           /\ Valid(Finished(t)) /\ ValidCRs(Finished(t)) /\ AllFit(Finished(t))
           /\ Judged(Finished(t)) /\ Restores(Finished(t)) /\ Judgeable(Finished(t))
           /\ \A n \in 1 .. Len(t) : Carries(Finished(t)[n]) /\ Finished(t)[n].type = t[n].type
<1> DEFINE u == Finished(t)
<1>0. Len(t) \in Nat /\ Len(t) # 0
  OBVIOUS
<1>1. u \in Seq(Op) /\ Len(u) = Len(t)
  BY FinishedIs
<1>2. ASSUME NEW n \in 1 .. Len(t)
      PROVE  /\ u[n].type = t[n].type /\ u[n].noSettle = t[n].noSettle
             /\ u[n].fault = t[n].fault
  BY FinishedIs
<1>3. /\ Valid(u) /\ AllFit(u) /\ ValidCRs(u)
      /\ \A n \in 1 .. Len(t) : Carries(u[n])
      /\ \A n \in 1 .. Len(t) : u[n].type = "deleteFixture" =>
            \A m \in n .. u[n].until - 1 : ~Settles(u[m])
  BY FinishedValid
<1> HIDE DEF u
<1>4. ASSUME NEW n \in 1 .. Len(t) PROVE Settles(u[n]) <=> Settles(t[n])
  BY <1>2 DEF Settles
<1>5. ASSUME NEW n \in 1 .. Len(t)
      PROVE  /\ u[n].type = "restart" =>
                   n > 1 /\ n < Len(t) /\ Settles(u[n - 1]) /\ Settles(u[n + 1])
             /\ u[n].type = "deleteManaged" => n > 1 /\ Settles(u[n - 1])
  <2>1. /\ t[n].type = "restart" =>
              n > 1 /\ n < Len(t) /\ Settles(t[n - 1]) /\ Settles(t[n + 1])
        /\ t[n].type = "deleteManaged" => n > 1 /\ Settles(t[n - 1])
    BY DEF Judged
  <2>2. (n > 1 => n - 1 \in 1 .. Len(t)) /\ (n < Len(t) => n + 1 \in 1 .. Len(t))
    BY <1>0
  <2> QED
    BY <1>2, <1>4, <2>1, <2>2
<1>6. ASSUME NEW n \in 1 .. Len(t), u[n].type = "fault", NEW m \in n .. u[n].fault.op - 1
      PROVE  u[m].type \notin {"restart", "deleteManaged"}
  <2> DEFINE e == t[n].fault.op
  <2>0. t[n] \in Op
    OBVIOUS
  <2>1. e \in Nat /\ e <= Len(t) /\ m \in n .. e - 1
    BY <1>2, <1>6, <2>0 DEF Op
  <2>2. t[m].type \notin {"restart", "deleteManaged"}
    BY <1>2, <1>6, <2>1
  <2> HIDE DEF e
  <2>3. m \in 1 .. Len(t)
    BY <1>0, <2>1
  <2> QED
    BY <1>2, <2>2, <2>3
<1>7. Judged(u)
  BY <1>1, <1>5 DEF Judged
<1>8. Restores(u)
  BY <1>1, <1>3 DEF Restores
<1>9. Judgeable(u)
  BY <1>1, <1>3, <1>5, <1>6 DEF Judgeable
<1>10. u # <<>>
  BY <1>0, <1>1
<1> QED
  BY <1>1, <1>2, <1>3, <1>7, <1>8, <1>9, <1>10 DEF u

\* The waits put in make the drawn ops a sequence that is judged.
LEMMA CheckpointInv ==
    ASSUME GenInv, Checkpoint
    PROVE  GenInv'
<1>0. /\ drawing = "ops" /\ ops # <<>> /\ drawing' = "judged" /\ ops' = checkpointed(ops)
      /\ crs' = crs /\ gone' = gone
  BY DEF Checkpoint
<1>1. /\ ops \in Seq(Op) /\ AllFit(ops)
      /\ \A n \in 1 .. Len(ops) : Carries(ops[n]) /\ ops[n].type # "fault"
  BY <1>0 DEF GenInv, GenTypeOK
<1>2. PICK t \in Seq(Op) :
        /\ checkpointed(ops) = Finished(t) /\ t # <<>> /\ Settles(t[Len(t)])
        /\ AllFit(t) /\ Judged(t)
        /\ \A n \in 1 .. Len(t) : Carries(t[n]) /\ t[n].type # "fault"
  BY <1>0, <1>1, CheckpointedIs
<1> DEFINE u == Finished(t)
<1>3. /\ u \in Seq(Op) /\ u # <<>> /\ Len(u) = Len(t)
      /\ Valid(u) /\ ValidCRs(u) /\ AllFit(u) /\ Judged(u) /\ Restores(u)
      /\ \A n \in 1 .. Len(t) : Carries(u[n]) /\ u[n].type = t[n].type
  BY <1>2, FinishedJudged
<1>4. ops' = u
  BY <1>0, <1>2
<1> HIDE DEF u
<1>5. \A n \in 1 .. Len(u) : Carries(u[n]) /\ u[n].type # "fault"
  BY <1>2, <1>3
<1>6. GenTypeOK' /\ DistinctHeld' /\ Own'
  BY <1>0, <1>3, <1>4 DEF GenInv, GenTypeOK, DistinctHeld, Own
<1>7. DrawnIsJudged'
  BY <1>0 DEF DrawnIsJudged
<1> QED
  BY <1>0, <1>3, <1>4, <1>5, <1>6, <1>7 DEF GenInv

\* A drawn sequence of which each op can be judged.
LEMMA DrawnInv ==
    ASSUME GenTypeOK', DistinctHeld', Own', drawing' = "drawn", ops' # <<>>,
           Valid(ops'), ValidCRs(ops'), Judgeable(ops')
    PROVE  GenInv'
<1>1. DOMAIN ops' = 1 .. Len(ops')
  BY DEF GenTypeOK
<1>2. DrawnIsJudged'
  BY <1>1 DEF DrawnIsJudged, Judgeable
<1> QED
  BY <1>2 DEF GenInv

\* A fault put in, or none, leaves the sequence legal and judged.
LEMMA FaultInv ==
    ASSUME GenInv, DrawFault
    PROVE  GenInv'
<1>0. /\ drawing = "judged" /\ drawing' = "drawn" /\ crs' = crs /\ gone' = gone
      /\ ops' = ops \/ \E s \in eligibleStarts(ops) : ops' = faulted(ops, s)
  BY DEF DrawFault
<1>1. /\ ops \in Seq(Op) /\ ops # <<>> /\ AllFit(ops) /\ Judged(ops) /\ Restores(ops)
      /\ Valid(ops) /\ ValidCRs(ops)
      /\ \A n \in 1 .. Len(ops) : Carries(ops[n]) /\ ops[n].type # "fault"
  BY <1>0 DEF GenInv, GenTypeOK
<1>2. CASE ops' = ops
  <2>1. Judgeable(ops)
    BY <1>1 DEF Judged, Restores, Judgeable
  <2>2. GenTypeOK' /\ DistinctHeld' /\ Own'
    BY <1>0, <1>2 DEF GenInv, GenTypeOK, DistinctHeld, Own
  <2> QED
    BY <1>0, <1>1, <1>2, <2>1, <2>2, DrawnInv
<1>3. ASSUME NEW s \in eligibleStarts(ops), ops' = faulted(ops, s) PROVE GenInv'
  <2>1. Settles(ops[Len(ops)])
    BY <1>1 DEF Valid
  <2>2. PICK t \in Seq(Op) :
          /\ faulted(ops, s) = Finished(t) /\ t # <<>> /\ Settles(t[Len(t)])
          /\ AllFit(t) /\ Judged(t)
          /\ \A n \in 1 .. Len(t) :
                /\ Carries(t[n])
                /\ t[n].type = "fault" =>
                      /\ t[n].fault.op > n /\ t[n].fault.op <= Len(t)
                      /\ \A m \in n .. t[n].fault.op - 1 :
                            t[m].type \notin {"restart", "deleteManaged"}
    BY <1>1, <2>1, FaultedIs
  <2> DEFINE u == Finished(t)
  <2>3. u \in Seq(Op) /\ u # <<>> /\ Valid(u) /\ ValidCRs(u) /\ Judgeable(u)
    BY <2>2, FinishedJudged
  <2>4. ops' = u
    BY <1>3, <2>2
  <2> HIDE DEF u
  <2>5. GenTypeOK' /\ DistinctHeld' /\ Own'
    BY <1>0, <2>3, <2>4 DEF GenInv, GenTypeOK, DistinctHeld, Own
  <2> QED
    BY <1>0, <2>3, <2>4, <2>5, DrawnInv
<1> QED
  BY <1>0, <1>2, <1>3

\* The ops of a baseline: a create, a deleteManaged for each kind, and it may be
\* an update.
Opens(t) ==
    /\ t \in Seq(Op) /\ Len(t) > 0
    /\ t[1].type = "create" /\ t[1].key = CRNames[1]
    /\ \A m \in 2 .. Len(t) :
          t[m].type = "deleteManaged" \/ (t[m].type = "update" /\ t[m].key = CRNames[1])
    /\ \A m \in 1 .. Len(t) : Carries(t[m]) /\ t[m].noSettle = FALSE

\* What Baseline opens with, a create and ops that settle, is legal and judged.
LEMMA OpeningDrawn ==
    ASSUME NEW t, Opens(t)
    PROVE  /\ Indexed(t) \in Seq(Op) /\ Indexed(t) # <<>> /\ Valid(Indexed(t))
           /\ ValidCRs(Indexed(t)) /\ Judgeable(Indexed(t))
<1>0. t \in Seq(Op) /\ Len(t) \in Nat /\ Len(t) > 0 /\ DOMAIN t = 1 .. Len(t)
  BY DEF Opens
<1>1. ASSUME NEW n \in 1 .. Len(t)
      PROVE  /\ Carries(t[n]) /\ Settles(t[n])
             /\ (n = 1 /\ t[n].type = "create" /\ t[n].key = CRNames[1])
                \/ (n \in 2 .. Len(t) /\ n > 1 /\ t[n].type = "deleteManaged")
                \/ (n \in 2 .. Len(t) /\ n > 1 /\ t[n].type = "update" /\ t[n].key = CRNames[1])
  <2>1. n = 1 \/ (n \in 2 .. Len(t) /\ n > 1)
    BY <1>0
  <2>2. /\ Carries(t[n]) /\ t[n].noSettle = FALSE
        /\ (n = 1 /\ t[n].type = "create" /\ t[n].key = CRNames[1])
           \/ (n \in 2 .. Len(t) /\ n > 1 /\ t[n].type = "deleteManaged")
           \/ (n \in 2 .. Len(t) /\ n > 1 /\ t[n].type = "update" /\ t[n].key = CRNames[1])
    BY <2>1 DEF Opens
  <2>3. Settles(t[n])
    BY <2>2 DEF Settles, MutatingOps, CROps
  <2> QED
    BY <2>2, <2>3
<1>2. Indexed(t) = Finished(t)
  <2>1. ASSUME NEW n \in 1 .. Len(t) PROVE t[n].type # "deleteFixture"
    BY <1>1
  <2>2. Restored(t) = [n \in DOMAIN t |-> t[n]]
    BY <1>0, <2>1 DEF Restored
  <2>3. Restored(t) = t
    BY <1>0, <2>2
  <2> QED
    BY <2>3 DEF Finished
<1>3. ASSUME NEW n \in 1 .. Len(t) PROVE Fits(t, t[n], n)
  <2>1. CASE n = 1
    <3>1. \A cr : ~Made(t, cr, n)
      BY <2>1 DEF Made
    <3> QED
      BY <1>1, <2>1, <3>1 DEF Fits
  <2>2. CASE n > 1 /\ t[n].type = "deleteManaged"
    BY <2>2 DEF Fits
  <2>3. CASE n > 1 /\ t[n].type = "update" /\ t[n].key = CRNames[1]
    <3>1. 1 \in 1 .. n - 1 /\ 1 \in 1 .. Len(t)
      BY <1>0, <2>3
    <3>2. Decides(t[1], CRNames[1]) /\ t[1].type # "delete"
      BY <1>1, <3>1 DEF Decides
    <3>3. ASSUME NEW q \in 1 + 1 .. n - 1 PROVE ~Decides(t[q], CRNames[1])
      <4>1. q \in 1 .. Len(t) /\ q # 1
        BY <1>0
      <4> QED
        BY <1>1, <4>1 DEF Decides
    <3>4. There(t, CRNames[1], n)
      BY <3>1, <3>2, <3>3 DEF There
    <3> QED
      BY <2>3, <3>4 DEF Fits
  <2> QED
    BY <1>1, <2>1, <2>2, <2>3
<1>4. AllFit(t)
  BY <1>3 DEF AllFit
<1>5. ASSUME NEW n \in 1 .. Len(t)
      PROVE  /\ t[n].type # "restart"
             /\ t[n].type = "deleteManaged" => n > 1 /\ Settles(t[n - 1])
  <2>1. n > 1 => n - 1 \in 1 .. Len(t)
    BY <1>0
  <2> QED
    BY <1>1, <2>1
<1>6. Judged(t)
  BY <1>5 DEF Judged
<1>7. t # <<>> /\ Settles(t[Len(t)])
  <2>1. Len(t) \in 1 .. Len(t)
    BY <1>0
  <2> QED
    BY <1>0, <1>1, <2>1
<1>8. \A n \in 1 .. Len(t) : Carries(t[n]) /\ t[n].type # "fault"
  BY <1>1
<1> QED
  BY <1>0, <1>2, <1>4, <1>6, <1>7, <1>8, FinishedJudged

\* Baseline, with the change of the field or without.
LEMMA BaselineInv ==
    ASSUME GenInv, Baseline
    PROVE  GenInv'
<1> DEFINE first == PlainOp("create", CRNames[1])
           rest == [n \in DOMAIN Kinds |-> PlainOp("deleteManaged", Kinds[n])]
           opening == <<first>> \o rest
           update == PlainOp("update", CRNames[1])
<1>0. /\ CRNames \in Seq(Keys) /\ Len(CRNames) \in Nat /\ 1 \in 1 .. Len(CRNames)
      /\ CRNames[1] \in Keys /\ CRNames[1] # NoKey /\ DOMAIN CRNames = 1 .. Len(CRNames)
  BY DrawAndShrinkAssumption, GenerateAssumption
<1>1. /\ first \in Op /\ first.type = "create" /\ first.key = CRNames[1]
      /\ first.noSettle = FALSE /\ Carries(first)
  <2>1. "create" \in OpTypes /\ "create" \in CROps /\ CRNames[1] \in Keys \cup {NoKey}
    BY <1>0 DEF OpTypes, MutatingOps, CROps
  <2>2. (CRNames[1] # NoKey) = ("create" \in CROps \cup FixtureOps \cup {"deleteManaged"})
    BY <1>0, <2>1
  <2> QED
    BY <2>1, <2>2, PlainOpIs
<1>2. /\ update \in Op /\ update.type = "update" /\ update.key = CRNames[1]
      /\ update.noSettle = FALSE /\ Carries(update)
  <2>1. "update" \in OpTypes /\ "update" \in CROps /\ CRNames[1] \in Keys \cup {NoKey}
    BY <1>0 DEF OpTypes, MutatingOps, CROps
  <2>2. (CRNames[1] # NoKey) = ("update" \in CROps \cup FixtureOps \cup {"deleteManaged"})
    BY <1>0, <2>1
  <2> QED
    BY <2>1, <2>2, PlainOpIs
<1>3. ASSUME NEW n \in DOMAIN Kinds
      PROVE  LET op == PlainOp("deleteManaged", Kinds[n])
             IN  op \in Op /\ op.type = "deleteManaged" /\ op.noSettle = FALSE /\ Carries(op)
  <2>1. Kinds[n] \in Keys /\ Kinds[n] # NoKey
    BY DrawAndShrinkAssumption
  <2>2. "deleteManaged" \in OpTypes /\ Kinds[n] \in Keys \cup {NoKey}
    BY <2>1 DEF OpTypes, MutatingOps
  <2>3. (Kinds[n] # NoKey) = ("deleteManaged" \in CROps \cup FixtureOps \cup {"deleteManaged"})
    BY <2>1
  <2> QED
    BY <2>2, <2>3, PlainOpIs
<1>4. /\ rest \in Seq(Op)
      /\ \A n \in 1 .. Len(rest) :
            rest[n].type = "deleteManaged" /\ rest[n].noSettle = FALSE /\ Carries(rest[n])
  <2>1. Kinds \in Seq(Keys) /\ Len(Kinds) \in Nat /\ DOMAIN Kinds = 1 .. Len(Kinds)
    BY DrawAndShrinkAssumption
  <2>2. rest \in [1 .. Len(Kinds) -> Op]
    BY <1>3, <2>1
  <2>3. \A n \in 1 .. Len(Kinds) : rest[n] = PlainOp("deleteManaged", Kinds[n])
    BY <2>1
  <2> HIDE DEF rest
  <2>4. rest \in Seq(Op) /\ Len(rest) = Len(Kinds)
    BY <2>1, <2>2
  <2> QED
    BY <1>3, <2>1, <2>3, <2>4
<1> HIDE DEF first, rest, update
<1>5. Opens(opening)
  <2> DEFINE o == <<first>>
  <2>1. o \in Seq(Op) /\ Len(o) = 1 /\ o[1] = first
    BY <1>1
  <2> HIDE DEF o
  <2>2. /\ o \o rest \in Seq(Op) /\ Len(o \o rest) = Len(o) + Len(rest)
        /\ \A i \in 1 .. Len(o) : (o \o rest)[i] = o[i]
        /\ \A i \in 1 .. Len(rest) : (o \o rest)[Len(o) + i] = rest[i]
    <3>1. o \in Seq(Op) /\ rest \in Seq(Op)
      BY <1>4, <2>1
    <3> QED
      BY <3>1, Joined
  <2>3. opening = o \o rest
    BY DEF o
  <2> DEFINE K == Len(rest)
  <2>4. K \in Nat /\ opening \in Seq(Op) /\ Len(opening) = 1 + K
    BY <1>4, <2>1, <2>2, <2>3
  <2>5. opening[1] = first /\ \A i \in 1 .. K : opening[1 + i] = rest[i]
    <3>1. 1 \in 1 .. Len(o)
      BY <2>1
    <3> QED
      BY <2>1, <2>2, <2>3, <3>1
  <2> HIDE DEF K, opening
  <2>6. ASSUME NEW m \in 1 .. 1 + K
        PROVE  m = 1 \/ (m - 1 \in 1 .. K /\ opening[m] = rest[m - 1])
    <3>1. m = 1 \/ (m - 1 \in 1 .. K /\ m = 1 + (m - 1))
      BY <2>4
    <3> QED
      BY <2>5, <3>1
  <2>7. ASSUME NEW m \in 2 .. 1 + K PROVE opening[m].type = "deleteManaged"
    <3>1. m \in 1 .. 1 + K /\ m # 1
      BY <2>4
    <3> QED
      BY <1>4, <2>6, <3>1 DEF K
  <2>8. ASSUME NEW m \in 1 .. 1 + K PROVE Carries(opening[m]) /\ opening[m].noSettle = FALSE
    BY <1>1, <1>4, <2>5, <2>6 DEF K
  <2>9. 1 + K > 0
    BY <2>4
  <2> QED
    BY <1>1, <2>4, <2>5, <2>7, <2>8, <2>9 DEF Opens
<1> HIDE DEF opening
<1>6. Opens(Append(opening, update))
  <2> DEFINE t == Append(opening, update)
             L == Len(opening)
  <2>1. opening \in Seq(Op) /\ L \in Nat /\ L > 0
    BY <1>5 DEF Opens
  <2>2. /\ t \in Seq(Op) /\ Len(t) = L + 1 /\ t[L + 1] = update
        /\ \A m \in 1 .. L : t[m] = opening[m]
    BY <1>2, <2>1, Appended
  <2>3. /\ opening[1].type = "create" /\ opening[1].key = CRNames[1]
        /\ \A m \in 2 .. L : opening[m].type = "deleteManaged"
                              \/ (opening[m].type = "update" /\ opening[m].key = CRNames[1])
        /\ \A m \in 1 .. L : Carries(opening[m]) /\ opening[m].noSettle = FALSE
    BY <1>5 DEF Opens
  <2> HIDE DEF t, L
  <2>4. t[1] = opening[1] /\ L + 1 > 0
    BY <2>1, <2>2
  <2>5. ASSUME NEW m \in 2 .. L + 1
        PROVE  t[m].type = "deleteManaged" \/ (t[m].type = "update" /\ t[m].key = CRNames[1])
    <3>1. m = L + 1 \/ (m \in 2 .. L /\ m \in 1 .. L)
      BY <2>1
    <3> QED
      BY <1>2, <2>2, <2>3, <3>1
  <2>6. ASSUME NEW m \in 1 .. L + 1 PROVE Carries(t[m]) /\ t[m].noSettle = FALSE
    <3>1. m = L + 1 \/ m \in 1 .. L
      BY <2>1
    <3> QED
      BY <1>2, <2>2, <2>3, <3>1
  <2>7. Opens(t)
    BY <2>2, <2>3, <2>4, <2>5, <2>6 DEF Opens
  <2> QED
    BY <2>7 DEF t
<1>7. \/ ops' = Indexed(opening) /\ crs' = <<[val |-> 1, live |-> TRUE]>>
      \/ \E v \in Values : /\ ~Collides(1, v)
                           /\ ops' = Indexed(Append(opening, update))
                           /\ crs' = <<[val |-> v, live |-> TRUE]>>
  BY DEF Baseline, opening, update, first, rest
<1>8. PICK t, v : /\ Opens(t) /\ ops' = Indexed(t) /\ crs' = <<[val |-> v, live |-> TRUE]>>
                  /\ v \in Values \cup Nat /\ (v = 1 \/ ~Collides(1, v))
  <2>1. CASE ops' = Indexed(opening) /\ crs' = <<[val |-> 1, live |-> TRUE]>>
    <3>1. 1 \in Values \cup Nat
      OBVIOUS
    <3> QED
      BY <1>5, <2>1, <3>1
  <2>2. ASSUME NEW v \in Values, ~Collides(1, v), ops' = Indexed(Append(opening, update)),
               crs' = <<[val |-> v, live |-> TRUE]>>
        PROVE  \E t, w : /\ Opens(t) /\ ops' = Indexed(t) /\ crs' = <<[val |-> w, live |-> TRUE]>>
                         /\ w \in Values \cup Nat /\ (w = 1 \/ ~Collides(1, w))
    BY <1>6, <2>2
  <2> QED
    BY <1>7, <2>1, <2>2
<1>9. /\ ops' \in Seq(Op) /\ ops' # <<>> /\ Valid(ops') /\ ValidCRs(ops') /\ Judgeable(ops')
  BY <1>8, OpeningDrawn
<1> DEFINE new == [val |-> v, live |-> TRUE]
<1>10. new \in [val : Values \cup Nat, live : BOOLEAN] /\ new.val = v
  BY <1>8
<1> HIDE DEF new
<1>11. /\ crs' \in Seq([val : Values \cup Nat, live : BOOLEAN]) /\ Len(crs') = 1
       /\ DOMAIN crs' = 1 .. 1 /\ crs'[1].val = v
  BY <1>8, <1>10 DEF new
<1>12. \A m \in DOMAIN crs' : m = 1
  BY <1>11
<1>13. Len(crs') <= Len(CRNames)
  BY <1>0, <1>11
<1>14. ASSUME NEW n \in DOMAIN CRNames \ {1} PROVE v # n
  BY <1>8 DEF Collides
<1>15. drawing' = "drawn"
  BY DEF Baseline
<1>16. GenTypeOK' /\ DistinctHeld' /\ Own'
  BY <1>9, <1>11, <1>12, <1>13, <1>14, <1>15 DEF GenTypeOK, DistinctHeld, Own
<1> QED
  BY <1>9, <1>15, <1>16, DrawnInv

-----------------------------------------------------------------------------
(* The results. *)

Inv == GenInv /\ ShrinkInv

\* Nothing is drawn and nothing is shrunk.
LEMMA InitInv == Init => Inv
<1> SUFFICES ASSUME Init PROVE Inv
  OBVIOUS
<1>1. drawing = "ops" /\ ops = <<>> /\ crs = <<>>
  BY DEF Init, GenInit
<1>2. /\ shrinking = "no" /\ smallest = <<>> /\ ids = <<>> /\ failing = <<>>
      /\ oracle = [needs |-> {}, least |-> 0, flaky |-> FALSE]
      /\ pos = 1 /\ axis = 1
  BY DEF Init, ShrinkInit
<1>3. simplified = FALSE /\ late = FALSE
  BY DEF Init, ShrinkInit
<1>4. <<>> \in Seq(Op) /\ <<>> \in Seq(Nat) /\ Len(<<>>) = 0 /\ 1 .. 0 = {} /\ DOMAIN <<>> = {}
  OBVIOUS
<1>5. GenInv
  <2>1. Len(CRNames) \in Nat
    BY DrawAndShrinkAssumption
  <2>2. GenTypeOK /\ DistinctHeld /\ Own
    BY <1>1, <1>4, <2>1 DEF GenTypeOK, DistinctHeld, Own
  <2>3. AllFit(ops) /\ \A n \in 1 .. Len(ops) : Carries(ops[n]) /\ ops[n].type # "fault"
    BY <1>1, <1>4 DEF AllFit
  <2>4. Tracks
    <3>1. \A cr : ~Made(<<>>, cr, 1)
      BY DEF Made
    <3>2. \A f : Back(<<>>, f, 1)
      BY DEF Back
    <3>3. Len(ops) + 1 = 1 /\ Len(crs) = 0 /\ \A n \in 1 .. Len(CRNames) : ~(n <= 0)
      BY <1>1
    <3> QED
      BY <1>1, <1>4, <3>1, <3>2, <3>3 DEF Tracks
  <2> QED
    BY <1>1, <2>2, <2>3, <2>4 DEF GenInv, DrawnIsJudged
<1>6. ShrinkInv
  <2>1. oracle \in [needs : SUBSET Nat, least : Nat, flaky : BOOLEAN]
    BY <1>2
  <2>2. simplified \in BOOLEAN /\ late \in BOOLEAN
    BY <1>3
  <2>3. ShrinkTypeOK
    BY <1>2, <1>4, <2>1, <2>2 DEF ShrinkTypeOK
  <2>4. Placed(smallest, ids, failing)
    BY <1>2, <1>4 DEF Placed
  <2> QED
    BY <1>2, <2>3, <2>4 DEF ShrinkInv, Shrinkable, Behind, Minimal
<1> QED
  BY <1>5, <1>6 DEF Inv

\* Drawing and shrinking share nothing but the sequence handed on.
LEMMA GenStill == ASSUME GenInv, UNCHANGED genVars PROVE GenInv'
<1>1. drawing' = drawing /\ ops' = ops /\ crs' = crs /\ gone' = gone
  BY DEF genVars
<1> QED
  BY <1>1 DEF GenInv, GenTypeOK, DistinctHeld, Own, Tracks, DrawnIsJudged

\* Drawing does not touch the shrinker.
LEMMA ShrinkStill == ASSUME ShrinkInv, UNCHANGED shrinkVars PROVE ShrinkInv'
<1>1. /\ shrinking' = shrinking /\ smallest' = smallest /\ ids' = ids /\ failing' = failing
      /\ oracle' = oracle /\ pos' = pos /\ axis' = axis
      /\ simplified' = simplified /\ late' = late
  BY DEF shrinkVars
<1> QED
  BY <1>1 DEF ShrinkInv, ShrinkTypeOK, Shrinkable, Behind, Minimal, Kept, Hard, Fails

\* A drawn sequence is valid, and so is a given one: shrinking starts from a valid
\* sequence with every op in its place.
LEMMA StartInv ==
    ASSUME Inv, StartShrinking
    PROVE  ShrinkInv'
<1>1. ASSUME drawing = "drawn", NEW n \in DOMAIN ops,
             Begin(ops, [needs |-> {n}, least |-> 0, flaky |-> FALSE])
      PROVE  ShrinkInv'
  <2> DEFINE bug == [needs |-> {n}, least |-> 0, flaky |-> FALSE]
  <2>1. ops \in Seq(Op) /\ Valid(ops)
    BY <1>1 DEF Inv, GenInv, GenTypeOK
  <2>2. n \in Nat
    BY <2>1
  <2>3. bug \in [needs : SUBSET Nat, least : Nat, flaky : BOOLEAN]
    BY <2>2
  <2>4. Begin(ops, bug)
    BY <1>1
  <2> HIDE DEF bug
  <2> QED
    BY <2>1, <2>3, <2>4, BeginInv
<1>2. ASSUME NEW seq \in Given, NEW bug \in Bugs(seq), Begin(seq, bug)
      PROVE  ShrinkInv'
  <2>1. seq \in Seq(Op) /\ Valid(seq) /\ Leasts \subseteq Nat
    BY DrawAndShrinkAssumption
  <2>2. DOMAIN seq \subseteq Nat
    BY <2>1
  <2>3. bug \in [needs : SUBSET Nat, least : Nat, flaky : BOOLEAN]
    <3>1. \/ \E needs \in SUBSET DOMAIN seq, least \in Leasts :
                bug = [needs |-> needs, least |-> least, flaky |-> FALSE]
          \/ bug = [needs |-> {}, least |-> 0, flaky |-> TRUE]
      BY DEF Bugs
    <3>2. ASSUME NEW needs \in SUBSET DOMAIN seq, NEW least \in Leasts,
                 bug = [needs |-> needs, least |-> least, flaky |-> FALSE]
          PROVE  bug \in [needs : SUBSET Nat, least : Nat, flaky : BOOLEAN]
      <4>1. needs \in SUBSET Nat /\ least \in Nat
        BY <2>1, <2>2
      <4> QED
        BY <3>2, <4>1
    <3>3. CASE bug = [needs |-> {}, least |-> 0, flaky |-> TRUE]
      BY <3>3
    <3> QED
      BY <3>1, <3>2, <3>3
  <2> QED
    BY <1>2, <2>1, <2>3, BeginInv
<1> QED
  BY <1>1, <1>2 DEF StartShrinking

\* Every step, one case for each operation.
LEMMA NextInv ==
    ASSUME Inv, [Next]_vars
    PROVE  Inv'
<1>1. CASE GenNext /\ UNCHANGED shrinkVars
  <2>1. GenInv'
    <3>1. CASE DrawCreate
      BY <3>1, CreateInv DEF Inv
    <3>2. CASE DrawUpdate
      BY <3>2, UpdateInv DEF Inv
    <3>3. CASE DrawDelete
      BY <3>3, DeleteInv DEF Inv
    <3>4. CASE DrawRecreate
      BY <3>4, RecreateInv DEF Inv
    <3>5. CASE DrawOther
      BY <3>5, OtherInv DEF Inv
    <3>6. CASE Checkpoint
      BY <3>6, CheckpointInv DEF Inv
    <3>7. CASE DrawFault
      BY <3>7, FaultInv DEF Inv
    <3>8. CASE Baseline
      BY <3>8, BaselineInv DEF Inv
    <3> QED
      BY <1>1, <3>1, <3>2, <3>3, <3>4, <3>5, <3>6, <3>7, <3>8 DEF GenNext
  <2> QED
    BY <1>1, <2>1, ShrinkStill DEF Inv
<1>2. CASE StartShrinking
  <2>1. UNCHANGED genVars
    BY <1>2 DEF StartShrinking
  <2> QED
    BY <1>2, <2>1, StartInv, GenStill DEF Inv
<1>3. CASE ShrinkNext /\ UNCHANGED genVars
  <2>1. ShrinkInv'
    <3>1. CASE TryRemove
      BY <3>1, RemoveInv DEF Inv
    <3>2. CASE TryWeaken
      BY <3>2, WeakenInv DEF Inv
    <3>3. CASE EndPass
      BY <3>3, EndPassInv DEF Inv
    <3>4. CASE Deadline
      BY <3>4, DeadlineInv DEF Inv
    <3> QED
      BY <1>3, <3>1, <3>2, <3>3, <3>4 DEF ShrinkNext
  <2> QED
    BY <1>3, <2>1, GenStill DEF Inv
<1>4. CASE UNCHANGED vars
  <2>1. UNCHANGED genVars /\ UNCHANGED shrinkVars
    BY <1>4 DEF vars
  <2> QED
    BY <2>1, GenStill, ShrinkStill DEF Inv
<1> QED
  BY <1>1, <1>2, <1>3, <1>4 DEF Next, Idle

\* The inductive invariant of drawing and shrinking holds throughout.
LEMMA Invariance == Spec => []Inv
<1>1. Inv /\ [Next]_vars => Inv'
  BY NextInv
<1> QED
  BY InitInv, <1>1, PTL DEF Spec

\* For every target, every length and every choice of the generator: each
\* sequence drawn, with its waits and its fault put in (checkpointed, faulted),
\* is one Validate and checkCRs accept, and no two CRs ever hold one value.
THEOREM DrawsLegally == Spec => []DrawnIsLegal
<1>1. Inv => DrawnIsLegal
  BY DEF Inv, GenInv, DrawnIsLegal
<1> QED
  BY Invariance, <1>1, PTL

\* Each restart and deleteManaged of a drawn sequence has the waits G5 and G7
\* judge it by and no fault over it, and no op settles without its fixtures.
THEOREM DrawsForTheChecks == Spec => []DrawnIsJudged
<1>1. Inv => DrawnIsJudged
  BY DEF Inv, GenInv
<1> QED
  BY Invariance, <1>1, PTL

\* Whatever ops went, in whatever order, and whatever the replays showed, each
\* fault of the shrunk sequence ends, and each fixture comes back, at the op it
\* did or the first one left after it (Sequence.without).
THEOREM ShrinksInPlace == Spec => []EndsWhereItDid
<1>1. Inv => EndsWhereItDid
  BY PlacedEnds DEF Inv, ShrinkInv, ShrinkTypeOK
<1> QED
  BY Invariance, <1>1, PTL

\* Where replays are not flaky and the deadline did not pass, what Shrink returns
\* loses the failure with any op it loses and with any fault made milder.
THEOREM ShrinksToMinimal == Spec => []Minimal
<1>1. Inv => Minimal
  BY DEF Inv, ShrinkInv
<1> QED
  BY Invariance, <1>1, PTL
=============================================================================
