-------------------------- MODULE CollectorProofs --------------------------
(***************************************************************************)
(* The safety of the collector, for any objects, owners and failures.  The *)
(* argument: UIDs are never given twice and every write raises the         *)
(* version, so an owner found gone stays gone, and a copy of an object     *)
(* whose version is still the stored one is the stored object.             *)
(***************************************************************************)
EXTENDS Collector, TLAPS, SequenceTheorems

\* c is what the API server stored at k at some time: its version still stored
\* means that k is still as c says.
Known(k, c) ==
    /\ c.uid <= uids
    /\ c.version <= version
    /\ \A ref \in c.refs : ref.uid \in 1 .. uids
    /\ c.uid # 0 /\ store[k].uid # 0 /\ store[k].version = c.version => store[k] = c

KnownStore == \A k \in Keys : Known(k, store[k])

KnownCopies ==
    \A k \in Keys :
        /\ Known(k, cache[k])
        /\ Known(k, listed[k])
        /\ \A i \in 1 .. Len(pending[k]) : Known(k, pending[k][i])

\* The informers hold watched kinds only.
UnwatchedUnknown ==
    \A k \in Keys : KindOf[k] \notin Watched =>
        cache[k].refs = {} /\ listed[k].refs = {} /\ pending[k] = <<>>

\* What was read in this sweep was read after the listing, and is still so.
ReadIsTrue ==
    /\ phase \in {"idle", "listing", "stopped"} => \A k \in Keys : resolved[k].how = "unread"
    /\ \A k \in Keys : \A ref \in listed[k].refs : foundGone(ref) => Gone(ref)

\* An object whose owners are all gone, as the collector knows it.
Orphaned(object) ==
    object.refs # {} /\ \A ref \in object.refs : ref.uid \in 1 .. uids /\ Gone(ref)

SentOrphaned ==
    \A m \in sent : KindOf[m.key] \in Watched /\ Known(m.key, m.object) /\ Orphaned(m.object)

DeletionsOrphaned == \A d \in deletions : Orphaned(d.object)

\* The delete the sweep waits for is of the object it judged last.
AwaitedIsJudged ==
    /\ phase = "deleting" => Orphaned(listed[answer.key])
    /\ \A m \in sent : m.awaited =>
          /\ phase = "deleting" /\ answer.key = m.key /\ m.object = listed[m.key]
          /\ answer.result = "none"

IInv ==
    /\ TypeOK
    /\ KnownStore
    /\ KnownCopies
    /\ UnwatchedUnknown
    /\ ReadIsTrue
    /\ SentOrphaned
    /\ DeletionsOrphaned
    /\ AwaitedIsJudged
    /\ NoSilentDelete

-----------------------------------------------------------------------------
(* What a write does. *)

\* A write at k: UIDs and versions only grow, and what is stored at k is removed, or
\* kept or created with the new version.
Advanced(k) ==
    /\ uids' \in 0 .. MaxUID /\ uids <= uids'
    /\ version' = version + 1
    /\ writer' \in {"others", "collector"}
    /\ store' \in [Keys -> Object]
    /\ \A q \in Keys : q # k => store'[q] = store[q]
    /\ store'[k].uid \in {0, store[k].uid} \/ store'[k].uid > uids
    /\ store'[k].uid # 0 => store'[k].version = version'
    /\ store'[k].uid <= uids' /\ store'[k].version <= version'
    /\ \A ref \in store'[k].refs : ref.uid \in 1 .. uids'

\* A writer names UIDs that were given.
LEMMA RefsAreGiven ==
    ASSUME uids \in Nat, NEW k \in Keys, NEW refs \in RefsOf(k)
    PROVE  refs \in SUBSET Ref /\ \A ref \in refs : ref.uid \in 1 .. uids
<1>1. PICK owners \in OwnerChoices[k] :
        refs \in {{[key |-> o[1], served |-> o[2], uid |-> f[o]] : o \in owners} :
                     f \in [owners -> 1 .. uids]}
  BY DEF RefsOf
<1>2. PICK f \in [owners -> 1 .. uids] :
        refs = {[key |-> o[1], served |-> o[2], uid |-> f[o]] : o \in owners}
  BY <1>1
<1>3. owners \subseteq Keys \X BOOLEAN
  BY GarbageCollectionConstants
<1>4. ASSUME NEW ref \in refs PROVE ref \in Ref /\ ref.uid \in 1 .. uids
  <2>1. PICK o \in owners : ref = [key |-> o[1], served |-> o[2], uid |-> f[o]]
    BY <1>2
  <2>2. o[1] \in Keys /\ o[2] \in BOOLEAN
    BY <1>3
  <2>3. f[o] \in 1 .. uids /\ f[o] \in Nat
    BY <1>2
  <2> QED
    BY <2>1, <2>2, <2>3 DEF Ref
<1> QED
  BY <1>4

\* A write advances the API server if the object it stores does.
LEMMA WriteAdvancesWith ==
    ASSUME ServerTypeOK, NEW k \in Keys, NEW by \in {"others", "collector"},
           NEW object \in Object, Write(by, k, object),
           uids' \in 0 .. MaxUID, uids <= uids',
           object.uid \in {0, store[k].uid} \/ object.uid > uids,
           object.uid <= uids', object.version <= version + 1,
           object.uid # 0 => object.version = version + 1,
           \A ref \in object.refs : ref.uid \in 1 .. uids'
    PROVE  Advanced(k)
<1>1. store' = [store EXCEPT ![k] = object] /\ version' = version + 1 /\ writer' = by
  BY DEF Write
<1>2. store' \in [Keys -> Object] /\ store'[k] = object
  BY <1>1 DEF ServerTypeOK
<1>3. \A q \in Keys : q # k => store'[q] = store[q]
  BY <1>1 DEF ServerTypeOK
<1> QED
  BY <1>1, <1>2, <1>3 DEF Advanced

\* Every write of the target, the runner or the collector is such a step.
LEMMA WriteAdvances ==
    ASSUME ServerTypeOK, KnownStore, NEW k \in Keys,
           Others(k) \/ DeleteObject("collector", k)
    PROVE  Advanced(k)
<1>1. /\ store[k] \in Object
      /\ store[k].uid <= uids /\ store[k].version <= version
      /\ \A ref \in store[k].refs : ref.uid \in 1 .. uids
      /\ uids \in 0 .. MaxUID /\ uids \in Nat /\ version \in Nat
  BY DEF KnownStore, Known, ServerTypeOK
<1>2. PICK v \in Nat : v = version + 1
  BY <1>1
<1>3. NoObject \in Object /\ NoObject.uid = 0 /\ NoObject.version = 0 /\ NoObject.refs = {}
  BY DEF NoObject, Object
<1>4. CASE Create(k)
  <2>1. PICK refs \in RefsOf(k), finalizer \in BOOLEAN :
          Write("others", k, [uid |-> uids + 1, version |-> version + 1, refs |-> refs,
                              finalizer |-> finalizer, deleting |-> FALSE])
    BY <1>4 DEF Create
  <2>2. refs \in SUBSET Ref /\ \A ref \in refs : ref.uid \in 1 .. uids
    BY <1>1, RefsAreGiven
  <2> DEFINE new == [uid |-> uids + 1, version |-> version + 1, refs |-> refs,
                     finalizer |-> finalizer, deleting |-> FALSE]
  <2>3. new \in Object
    BY <1>1, <2>2 DEF Object
  <2>4. uids' = uids + 1 /\ uids' \in 0 .. MaxUID
    BY <1>1, <1>4, GarbageCollectionConstants DEF Create
  <2>5. \A ref \in new.refs : ref.uid \in 1 .. uids'
    BY <1>1, <2>2, <2>4
  <2>6. new.uid = uids + 1 /\ new.version = version + 1
    OBVIOUS
  <2> HIDE DEF new
  <2>7. Write("others", k, new)
    BY <2>1 DEF new
  <2> QED
    BY <1>1, <2>3, <2>4, <2>5, <2>6, <2>7, WriteAdvancesWith
<1>5. CASE Adopt(k)
  <2>1. PICK refs \in RefsOf(k) :
          Write("others", k, [store[k] EXCEPT !.refs = refs, !.version = version + 1])
    BY <1>5 DEF Adopt
  <2>2. refs \in SUBSET Ref /\ \A ref \in refs : ref.uid \in 1 .. uids
    BY <1>1, RefsAreGiven
  <2> DEFINE new == [store[k] EXCEPT !.refs = refs, !.version = v]
  <2>3. new \in Object /\ new.uid = store[k].uid /\ new.version = v /\ new.refs = refs
    BY <1>1, <2>2 DEF Object
  <2>4. uids' = uids
    BY <1>5 DEF Adopt
  <2> HIDE DEF new
  <2>5. Write("others", k, new)
    BY <1>2, <2>1 DEF new
  <2> QED
    BY <1>2, <1>1, <2>2, <2>3, <2>4, <2>5, WriteAdvancesWith
<1>6. CASE Finalize(k)
  <2> DEFINE new == [store[k] EXCEPT !.finalizer = FALSE, !.version = v]
  <2>1. new \in Object /\ new.uid = store[k].uid /\ new.version = v
        /\ new.refs = store[k].refs
    BY <1>1 DEF Object
  <2>2. uids' = uids
    BY <1>6 DEF Finalize
  <2> HIDE DEF new
  <2>3. Write("others", k, new) \/ Write("others", k, NoObject)
    BY <1>2, <1>6 DEF Finalize, new
  <2> QED
    BY <1>2, <1>1, <1>3, <2>1, <2>2, <2>3, WriteAdvancesWith
<1>7. ASSUME NEW by \in {"others", "collector"}, DeleteObject(by, k) PROVE Advanced(k)
  <2> DEFINE new == [store[k] EXCEPT !.deleting = TRUE, !.version = v]
  <2>1. new \in Object /\ new.uid = store[k].uid /\ new.version = v
        /\ new.refs = store[k].refs
    BY <1>1 DEF Object
  <2>2. uids' = uids
    BY <1>7 DEF DeleteObject
  <2> HIDE DEF new
  <2>3. Write(by, k, new) \/ Write(by, k, NoObject)
    BY <1>2, <1>7 DEF DeleteObject, Deleted, new
  <2> QED
    BY <1>2, <1>1, <1>3, <2>1, <2>2, <2>3, WriteAdvancesWith
<1> QED
  BY <1>4, <1>5, <1>6, <1>7 DEF Others

\* An owner that is gone stays gone.
LEMMA GoneIsStable ==
    ASSUME ServerTypeOK, NEW k \in Keys, Advanced(k), NEW ref \in Ref,
           ref.uid \in 1 .. uids, Gone(ref)
    PROVE  Gone(ref)' /\ ref.uid \in 1 .. uids'
BY DEF ServerTypeOK, Advanced, Gone, Resolvable, Ref, Object

\* A copy of a stored object stays one.
LEMMA KnownIsStable ==
    ASSUME ServerTypeOK, NEW k \in Keys, Advanced(k),
           NEW q \in Keys, NEW c \in Object, Known(q, c)
    PROVE  Known(q, c)'
BY DEF ServerTypeOK, Advanced, Known, Object, Ref

\* What is stored after a write is a copy of itself.
LEMMA KnownStoreIsStable ==
    ASSUME ServerTypeOK, KnownStore, NEW k \in Keys, Advanced(k)
    PROVE  KnownStore' /\ ServerTypeOK'
<1>1. ServerTypeOK'
  BY DEF ServerTypeOK, Advanced
<1>2. ASSUME NEW q \in Keys PROVE Known(q, store[q])'
  BY DEF ServerTypeOK, Advanced, KnownStore, Known, Object, Ref
<1> QED
  BY <1>1, <1>2 DEF KnownStore
-----------------------------------------------------------------------------
(* Types. *)

\* The owners an object names.
LEMMA RefType ==
    ASSUME NEW o \in Object, NEW ref \in o.refs
    PROVE  ref \in Ref /\ ref.key \in Keys
BY DEF Object, Ref

\* A call that fails keeps the count of failures and retries.
LEMMA LogFailureType ==
    ASSUME TypeOK, logFailure
    PROVE  timers' \in Nat /\ failures' \in 0 .. MaxFailures
BY CollectorConstants DEF TypeOK, logFailure, retryVars

\* A write queues an event of an object.
LEMMA EmitType ==
    ASSUME pending \in [Keys -> Seq(Object)], store' \in [Keys -> Object],
           NEW k \in Keys, Emit(k)
    PROVE  /\ pending' \in [Keys -> Seq(Object)]
           /\ \A q \in Keys : q # k => pending'[q] = pending[q]
           /\ pending'[k] = pending[k] \/ pending'[k] = Append(pending[k], store'[k])
           /\ KindOf[k] \notin Watched => pending'[k] = pending[k]
<1>1. Append(pending[k], store'[k]) \in Seq(Object)
  BY AppendProperties
<1> QED
  BY <1>1 DEF Emit

\* A delete the sweep gives up on is otherwise the same.
LEMMA Abandoned ==
    ASSUME NEW m \in Delete
    PROVE  /\ [m EXCEPT !.awaited = FALSE] \in Delete
           /\ [m EXCEPT !.awaited = FALSE].key = m.key
           /\ [m EXCEPT !.awaited = FALSE].object = m.object
           /\ [m EXCEPT !.awaited = FALSE].awaited = FALSE
BY DEF Delete

\* Every step keeps the types.
LEMMA StepTypeOK == TypeOK /\ KnownStore /\ [Next]_vars => TypeOK'
<1> SUFFICES ASSUME TypeOK, KnownStore, [Next]_vars PROVE TypeOK'
  OBVIOUS
<1> USE DEF TypeOK, informerVars, sweepVars, callVars, retryVars
<1> DEFINE Phases == {"idle", "listing", "reading", "judging", "deleting", "stopped"}
           Same == UNCHANGED serverVars => ServerTypeOK'
<1>1. Same
  BY DEF serverVars, ServerTypeOK
<1>2. NoObject \in Object /\ Unread \in Owner /\ NoAnswer \in [key : Keys, result : Results \cup {"none"}]
  <2>1. NoObject \in Object
    BY DEF NoObject, Object
  <2>2. Unread \in Owner
    BY DEF Unread, Owner
  <2>3. (CHOOSE k \in Keys : TRUE) \in Keys
    BY GarbageCollectionConstants
  <2> QED
    BY <2>1, <2>2, <2>3 DEF NoAnswer
<1>3. CASE BeginSweep
  BY <1>1, <1>3, GarbageCollectionConstants DEF BeginSweep
<1>4. CASE BeginReading
  <2>1. todo' \subseteq Keys
    <3>1. \A k \in Keys : \A r \in listed[k].refs : r.key \in Keys
      BY DEF Object, Ref
    <3> QED
      BY <1>4, <3>1 DEF BeginReading, Refs
  <2> QED
    BY <1>1, <1>4, <2>1 DEF BeginReading
<1>5. CASE BeginJudging
  BY <1>1, <1>5 DEF BeginJudging
<1>6. CASE EndSweep
  <2>1. listed' \in [Keys -> Object] /\ resolved' \in [Keys -> Owner]
    BY <1>2, <1>6 DEF EndSweep
  <2> QED
    BY <1>1, <1>6, <2>1 DEF EndSweep
<1>7. ASSUME NEW result \in Results, try(result)
      PROVE  deletions' \in SUBSET [key : Keys, object : Object, result : Results]
  BY <1>7 DEF try
<1>8. CASE Answered
  <2>1. answer.result \in Results
    BY <1>8 DEF Answered
  <2> QED
    BY <1>1, <1>2, <1>7, <1>8, <2>1 DEF Answered
<1>9. CASE Failed
  <2>1. sent' \in SUBSET Delete
    BY <1>9, Abandoned DEF Failed
  <2>2. "error" \in Results
    BY DEF Results
  <2> QED
    BY <1>1, <1>2, <1>7, <1>9, <2>1, <2>2, LogFailureType DEF Failed
<1>10. ASSUME NEW kind \in Kinds, List(kind) PROVE TypeOK'
  <2>1. listed' \in [Keys -> Object]
    BY <1>2, <1>10 DEF List
  <2> QED
    BY <1>1, <1>10, <2>1 DEF List
<1>11. ASSUME NEW k \in Keys, ReadOwner(k) PROVE TypeOK'
  <2>1. found(k) \in Nat
    BY DEF found, ServerTypeOK, Object
  <2>2. \A o \in Owner : [resolved EXCEPT ![k] = o] \in [Keys -> Owner]
    OBVIOUS
  <2>3. [how |-> "read", uid |-> found(k)] \in Owner /\ [how |-> "unreadable", uid |-> 0] \in Owner
    BY <2>1 DEF Owner
  <2>4. resolved' \in [Keys -> Owner]
    BY <1>11, <2>2, <2>3 DEF ReadOwner
  <2>5. timers' \in Nat /\ failures' \in 0 .. MaxFailures
    BY <1>11, LogFailureType DEF ReadOwner
  <2> QED
    BY <1>1, <1>11, <2>4, <2>5 DEF ReadOwner
<1>12. ASSUME NEW k \in Keys, Judge(k) PROVE TypeOK'
  <2>1. [key |-> k, object |-> listed[k], awaited |-> TRUE] \in Delete
    BY DEF Delete
  <2>2. sent' \in SUBSET Delete
    BY <1>12, <2>1 DEF Judge
  <2>3. listed[k].refs \subseteq Ref
    BY DEF Object
  <2>4. unresolved' \in SUBSET (Keys \X Ref)
    BY <1>12, <2>3 DEF Judge
  <2>5. answer' \in [key : Keys, result : Results \cup {"none"}] /\ phase' \in Phases
    BY <1>12 DEF Judge
  <2> QED
    BY <1>1, <1>12, <2>2, <2>4, <2>5 DEF Judge
<1>13. ASSUME NEW k \in Keys, Written(k) PROVE TypeOK'
  <2>1. Advanced(k)
    BY <1>13, WriteAdvances DEF Written
  <2>2. ServerTypeOK' /\ store' \in [Keys -> Object]
    BY <2>1, KnownStoreIsStable DEF ServerTypeOK
  <2>3. pending' \in [Keys -> Seq(Object)]
    BY <1>13, <2>2, EmitType DEF Written
  <2> QED
    BY <1>13, <2>2, <2>3 DEF Written
<1>14. ASSUME NEW k \in Keys, Deliver(k) PROVE TypeOK'
  <2>1. Head(pending[k]) \in Object /\ Tail(pending[k]) \in Seq(Object)
    BY <1>14, HeadTailProperties DEF Deliver
  <2> QED
    BY <1>1, <1>14, <2>1 DEF Deliver, notify
<1>15. ASSUME NEW m \in sent, Serve(m) PROVE TypeOK'
  <2>1. m.key \in Keys
    BY DEF Delete
  <2>2. CASE UNCHANGED <<serverVars, pending>>
    BY <1>1, <1>15, <2>2 DEF Serve, Results
  <2>3. CASE DeleteObject("collector", m.key) /\ Emit(m.key)
    <3>1. Advanced(m.key)
      BY <2>1, <2>3, WriteAdvances
    <3>2. ServerTypeOK' /\ store' \in [Keys -> Object]
      BY <2>1, <3>1, KnownStoreIsStable DEF ServerTypeOK
    <3>3. pending' \in [Keys -> Seq(Object)]
      BY <2>1, <2>3, <3>2, EmitType
    <3> QED
      BY <1>15, <3>2, <3>3 DEF Serve, Results
  <2> QED
    BY <1>15, <2>2, <2>3 DEF Serve
<1>16. CASE Retry
  BY <1>1, <1>16 DEF Retry, notify
<1>17. CASE Stop
  BY <1>1, <1>17 DEF Stop
<1>18. CASE RunReturns
  BY <1>1, <1>18 DEF RunReturns
<1>19. CASE UNCHANGED vars
  BY <1>1, <1>19 DEF vars
<1> QED
  BY <1>3, <1>4, <1>5, <1>6, <1>8, <1>9, <1>10, <1>11, <1>12, <1>13, <1>14, <1>15,
     <1>16, <1>17, <1>18, <1>19 DEF Next, SweepStep
-----------------------------------------------------------------------------
(* The inductive invariant. *)

\* It holds before anything is written.
LEMMA InitIInv == Init => IInv
<1> SUFFICES ASSUME Init PROVE IInv
  OBVIOUS
<1>1. TypeOK
  <2>1. NoObject \in Object /\ Unread \in Owner
    BY DEF NoObject, Object, Unread, Owner
  <2>2. answer \in [key : Keys, result : Results \cup {"none"}]
    <3>1. (CHOOSE k \in Keys : TRUE) \in Keys
      BY GarbageCollectionConstants
    <3> QED
      BY <3>1 DEF Init, NoAnswer
  <2>3. ServerTypeOK
    BY <2>1, GarbageCollectionConstants DEF ServerTypeOK, Init, ServerInit
  <2>4. pending \in [Keys -> Seq(Object)] /\ cache \in [Keys -> Object]
        /\ listed \in [Keys -> Object] /\ resolved \in [Keys -> Owner]
    BY <2>1 DEF Init
  <2>5. events \in BOOLEAN /\ cancelled \in BOOLEAN
    BY DEF Init
  <2>6. timers \in Nat /\ failures \in 0 .. MaxFailures
    BY CollectorConstants DEF Init
  <2>7. /\ phase \in {"idle", "listing", "reading", "judging", "deleting", "stopped"}
        /\ todo \in SUBSET (Kinds \cup Keys)
    BY DEF Init
  <2>8. /\ sent \in SUBSET Delete
        /\ deletions \in SUBSET [key : Keys, object : Object, result : Results]
        /\ unresolved \in SUBSET (Keys \X Ref)
    BY DEF Init
  <2> QED
    BY <2>2, <2>3, <2>4, <2>5, <2>6, <2>7, <2>8 DEF TypeOK
<1>2. NoObject.refs = {} /\ NoObject.uid = 0 /\ NoObject.version = 0
  BY DEF NoObject
<1>3. \A k \in Keys : Known(k, NoObject)
  <2>1. uids = 0 /\ version = 0
    BY DEF Init, ServerInit
  <2> QED
    BY <1>2, <2>1 DEF Known
<1>4. KnownStore /\ KnownCopies
  BY <1>3 DEF KnownStore, KnownCopies, Init, ServerInit
<1>5. UnwatchedUnknown
  BY <1>2 DEF UnwatchedUnknown, Init
<1>6. ReadIsTrue
  BY <1>2 DEF ReadIsTrue, Unread, Init
<1>7. SentOrphaned /\ DeletionsOrphaned /\ AwaitedIsJudged /\ NoSilentDelete
  BY DEF SentOrphaned, DeletionsOrphaned, AwaitedIsJudged, NoSilentDelete, Init
<1> QED
  BY <1>1, <1>4, <1>5, <1>6, <1>7 DEF IInv

\* A write of anybody's, at any point of a sweep, keeps all of it.
LEMMA WriteKeeps ==
    ASSUME IInv, TypeOK', NEW k \in Keys, Advanced(k), Emit(k),
           UNCHANGED <<cache, sweepVars, deletions>>,
           sent' \subseteq sent, answer'.key = answer.key,
           answer' = answer \/ \A m \in sent' : ~m.awaited
    PROVE  IInv'
<1> USE DEF IInv
<1>1. /\ ServerTypeOK
      /\ pending \in [Keys -> Seq(Object)]
      /\ cache \in [Keys -> Object] /\ listed \in [Keys -> Object]
      /\ sent \in SUBSET Delete
      /\ store' \in [Keys -> Object]
  BY DEF TypeOK, Advanced
<1>2. /\ cache' = cache /\ listed' = listed /\ phase' = phase
      /\ resolved' = resolved /\ deletions' = deletions
  BY DEF sweepVars
<1>3. KnownStore'
  BY <1>1, KnownStoreIsStable
<1>4. ASSUME NEW object \in Object, Orphaned(object) PROVE Orphaned(object)'
  <2>1. object.refs \subseteq Ref
    BY DEF Object
  <2> QED
    BY <1>1, <1>4, <2>1, GoneIsStable DEF Orphaned
<1>5. KnownCopies'
  <2> SUFFICES ASSUME NEW q \in Keys
               PROVE  /\ Known(q, cache[q])' /\ Known(q, listed[q])'
                      /\ \A i \in 1 .. Len(pending'[q]) : Known(q, pending[q][i])'
    BY DEF KnownCopies
  <2>1. Known(q, cache[q])' /\ Known(q, listed[q])'
    <3>1. cache[q] \in Object /\ listed[q] \in Object /\ Known(q, cache[q]) /\ Known(q, listed[q])
      BY <1>1 DEF KnownCopies
    <3> QED
      BY <1>1, <1>2, <3>1, KnownIsStable DEF Known
  <2>2. ASSUME NEW i \in 1 .. Len(pending[q]) PROVE Known(q, pending[q][i]) /\ pending[q][i] \in Object
    BY <1>1, <2>2 DEF KnownCopies
  <2>3. ASSUME NEW c \in Object, Known(q, c)
        PROVE  /\ c.uid <= uids' /\ c.version <= version'
               /\ \A ref \in c.refs : ref.uid \in 1 .. uids'
               /\ c.uid # 0 /\ store'[q].uid # 0 /\ store'[q].version = c.version => store'[q] = c
    BY <1>1, <2>3, KnownIsStable DEF Known
  <2>4. CASE pending'[q] = pending[q]
    BY <2>1, <2>2, <2>3, <2>4 DEF Known
  <2>5. CASE q = k /\ pending'[q] = Append(pending[q], store'[q])
    <3>1. pending[q] \in Seq(Object) /\ store'[q] \in Object
      BY <1>1
    <3>2. Len(pending'[q]) = Len(pending[q]) + 1
      BY <2>5, <3>1, AppendProperties
    <3>3. pending'[q][Len(pending[q]) + 1] = store'[q]
      BY <2>5, <3>1, AppendProperties
    <3>4. \A i \in 1 .. Len(pending[q]) : pending'[q][i] = pending[q][i]
      BY <2>5, <3>1, AppendProperties
    <3>5. Known(q, store[q])'
      BY <1>3 DEF KnownStore
    <3>6. ASSUME NEW i \in 1 .. Len(pending'[q]) PROVE Known(q, pending[q][i])'
      <4>1. CASE i \in 1 .. Len(pending[q])
        BY <2>2, <2>3, <3>4, <4>1 DEF Known
      <4>2. CASE i = Len(pending[q]) + 1
        BY <3>3, <3>5, <4>2 DEF Known
      <4>3. Len(pending[q]) \in Nat
        BY <3>1
      <4> QED
        BY <3>2, <4>1, <4>2, <4>3
    <3> QED
      BY <2>1, <3>6
  <2> QED
    BY <1>1, <2>1, <2>4, <2>5, EmitType
<1>6. UnwatchedUnknown'
  BY <1>1, <1>2, EmitType DEF UnwatchedUnknown
<1>7. ReadIsTrue'
  <2>1. ASSUME NEW q \in Keys, NEW ref \in listed[q].refs, foundGone(ref)' PROVE Gone(ref)'
    <3>1. foundGone(ref)
      BY <1>2, <2>1 DEF foundGone, Resolvable
    <3>2. ref \in Ref /\ ref.uid \in 1 .. uids
      BY <1>1 DEF KnownCopies, Known, Object
    <3> QED
      BY <1>1, <3>1, <3>2, GoneIsStable DEF ReadIsTrue
  <2> QED
    BY <1>2, <2>1 DEF ReadIsTrue
<1>8. SentOrphaned'
  <2>1. ASSUME NEW m \in sent PROVE KindOf[m.key] \in Watched /\ Known(m.key, m.object)' /\ Orphaned(m.object)'
    <3>1. m.key \in Keys /\ m.object \in Object
      BY <1>1 DEF Delete
    <3> QED
      BY <1>1, <1>4, <3>1, KnownIsStable DEF SentOrphaned
  <2> QED
    BY <2>1 DEF SentOrphaned
<1>9. DeletionsOrphaned'
  <2>1. \A d \in deletions : d.object \in Object
    BY DEF TypeOK
  <2> QED
    BY <1>2, <1>4, <2>1 DEF DeletionsOrphaned
<1>10. AwaitedIsJudged'
  <2>1. listed[answer.key] \in Object
    BY <1>1 DEF TypeOK
  <2> QED
    BY <1>2, <1>4, <2>1 DEF AwaitedIsJudged, Orphaned, Gone
<1> QED
  BY <1>2, <1>3, <1>5, <1>6, <1>7, <1>8, <1>9, <1>10 DEF NoSilentDelete
\* A step that leaves the API server, the informers and what the sweep knows and
\* sent alone keeps all of it, unless it enters or leaves Collector.delete.
LEMMA PhaseKeeps ==
    ASSUME IInv, TypeOK',
           UNCHANGED <<serverVars, informerVars, listed, resolved, sent, answer, deletions>>,
           phase' = phase \/ "deleting" \notin {phase, phase'},
           phase' \in {"idle", "listing", "stopped"} => phase \in {"idle", "listing", "stopped"}
    PROVE  IInv'
<1> USE DEF IInv, serverVars, informerVars
<1>1. KnownStore' /\ KnownCopies'
  BY DEF KnownStore, KnownCopies, Known
<1>2. UnwatchedUnknown'
  BY DEF UnwatchedUnknown
<1>3. ReadIsTrue'
  BY DEF ReadIsTrue, foundGone, Gone, Resolvable
<1>4. SentOrphaned' /\ DeletionsOrphaned'
  BY DEF SentOrphaned, DeletionsOrphaned, Orphaned, Gone, Known
<1>5. AwaitedIsJudged'
  BY DEF AwaitedIsJudged, Orphaned, Gone
<1>6. NoSilentDelete'
  BY DEF AwaitedIsJudged, NoSilentDelete
<1> QED
  BY <1>1, <1>2, <1>3, <1>4, <1>5, <1>6

\* Collector.delete returns and has recorded the attempt.
LEMMA DeleteKeeps ==
    ASSUME IInv, TypeOK', phase = "deleting", phase' = "judging", NEW result, try(result),
           UNCHANGED <<serverVars, informerVars, listed, resolved>>,
           \/ sent' = sent /\ \A m \in sent : ~m.awaited
           \/ sent' = {[m EXCEPT !.awaited = FALSE] : m \in sent}
    PROVE  IInv'
<1> USE DEF IInv, serverVars, informerVars
<1>1. KnownStore' /\ KnownCopies'
  BY DEF KnownStore, KnownCopies, Known
<1>2. UnwatchedUnknown' /\ ReadIsTrue'
  BY DEF UnwatchedUnknown, ReadIsTrue, foundGone, Gone, Resolvable
<1>3. sent \subseteq Delete
  BY DEF TypeOK
<1>4. ASSUME NEW n \in sent'
      PROVE  ~n.awaited /\ \E m \in sent : n.key = m.key /\ n.object = m.object
  <2>1. CASE sent' = sent /\ \A m \in sent : ~m.awaited
    BY <2>1
  <2>2. CASE sent' = {[m EXCEPT !.awaited = FALSE] : m \in sent}
    <3>1. PICK m \in sent : n = [m EXCEPT !.awaited = FALSE]
      BY <2>2
    <3> QED
      BY <1>3, <3>1, Abandoned
  <2> QED
    BY <2>1, <2>2
<1>5. SentOrphaned'
  BY <1>4 DEF SentOrphaned, Orphaned, Gone, Known
<1>6. DeletionsOrphaned'
  BY DEF try, DeletionsOrphaned, AwaitedIsJudged, Orphaned, Gone
<1>7. AwaitedIsJudged'
  BY <1>4 DEF AwaitedIsJudged
<1>8. NoSilentDelete'
  <2>1. ASSUME NEW m \in sent
        PROVE  \E d \in deletions' : d.key = m.key /\ d.object = m.object
    <3>1. CASE m.awaited
      <4>1. m.key = answer.key /\ m.object = listed[answer.key]
        BY <3>1 DEF AwaitedIsJudged
      <4>2. [key |-> answer.key, object |-> listed[answer.key], result |-> result] \in deletions'
        BY DEF try
      <4> QED
        BY <4>1, <4>2
    <3>2. CASE ~m.awaited
      BY <3>2 DEF NoSilentDelete, try
    <3> QED
      BY <3>1, <3>2
  <2> QED
    BY <1>4, <2>1 DEF NoSilentDelete
<1> QED
  BY <1>1, <1>2, <1>5, <1>6, <1>7, <1>8
\* The one awaited delete is the one the API server acts on.
LEMMA ServedIsAwaited ==
    ASSUME IInv, NEW m \in sent, Serve(m)
    PROVE  /\ sent' \subseteq sent /\ answer'.key = answer.key
           /\ answer' = answer \/ \A n \in sent' : ~n.awaited
<1>1. sent \subseteq Delete /\ answer \in [key : Keys, result : Results \cup {"none"}]
  BY DEF IInv, TypeOK
<1>2. sent' = sent \ {m} /\ answer'.key = answer.key
  BY <1>1 DEF Serve
<1>3. CASE m.awaited
  <2>1. ASSUME NEW n \in sent, n.awaited PROVE n = m
    BY <1>1, <1>3, <2>1 DEF IInv, AwaitedIsJudged, Delete
  <2> QED
    BY <1>2, <2>1
<1>4. CASE ~m.awaited
  BY <1>2, <1>4 DEF Serve
<1> QED
  BY <1>2, <1>3, <1>4

\* Every step keeps the invariant.
LEMMA StepIInv == IInv /\ [Next]_vars => IInv'
<1> SUFFICES ASSUME IInv, [Next]_vars PROVE IInv'
  OBVIOUS
<1> USE DEF sweepVars, callVars
<1>1. TypeOK /\ TypeOK' /\ ServerTypeOK /\ KnownStore
  BY StepTypeOK DEF IInv, TypeOK
<1>2. CASE BeginSweep \/ BeginReading \/ BeginJudging \/ RunReturns
  BY <1>1, <1>2, PhaseKeeps DEF BeginSweep, BeginReading, BeginJudging, RunReturns
<1>3. CASE Retry \/ Stop \/ UNCHANGED vars
  BY <1>1, <1>3, PhaseKeeps DEF Retry, Stop, vars
<1>4. CASE EndSweep
  <2>1. NoObject.refs = {} /\ NoObject.uid = 0 /\ NoObject.version = 0
    BY DEF NoObject
  <2>2. KnownStore' /\ KnownCopies'
    <3>1. ASSUME NEW k \in Keys PROVE Known(k, listed[k])'
      BY <1>1, <1>4, <2>1 DEF EndSweep, Known, serverVars, ServerTypeOK
    <3> QED
      BY <1>4, <3>1 DEF IInv, EndSweep, KnownStore, KnownCopies, Known, serverVars, informerVars
  <2>3. UnwatchedUnknown' /\ ReadIsTrue'
    BY <1>4, <2>1 DEF IInv, EndSweep, UnwatchedUnknown, ReadIsTrue, Unread, informerVars
  <2>4. SentOrphaned' /\ DeletionsOrphaned'
    BY <1>4 DEF IInv, EndSweep, SentOrphaned, DeletionsOrphaned, Orphaned, Gone, Known, serverVars
  <2>5. AwaitedIsJudged' /\ NoSilentDelete'
    BY <1>4 DEF IInv, EndSweep, AwaitedIsJudged, NoSilentDelete
  <2> QED
    BY <1>1, <2>2, <2>3, <2>4, <2>5 DEF IInv
<1>5. CASE Answered
  <2>1. \A m \in sent : ~m.awaited
    BY <1>5 DEF IInv, AwaitedIsJudged, Answered
  <2> QED
    BY <1>1, <1>5, <2>1, DeleteKeeps DEF Answered
<1>6. CASE Failed
  BY <1>1, <1>6, DeleteKeeps DEF Failed
<1>7. ASSUME NEW kind \in Kinds, List(kind) PROVE IInv'
  <2>1. NoObject.refs = {} /\ NoObject.uid = 0 /\ NoObject.version = 0
    BY DEF NoObject
  <2>2. \A k \in Keys : listed'[k] \in {listed[k], cache[k], NoObject}
    BY <1>7 DEF List
  <2>3. KnownStore' /\ KnownCopies'
    <3>1. ASSUME NEW k \in Keys PROVE Known(k, listed[k])'
      BY <1>1, <1>7, <2>1, <2>2 DEF IInv, List, KnownCopies, Known, serverVars, ServerTypeOK
    <3> QED
      BY <1>7, <3>1 DEF IInv, List, KnownStore, KnownCopies, Known, serverVars, informerVars
  <2>4. UnwatchedUnknown'
    BY <1>7, <2>1, <2>2 DEF IInv, List, UnwatchedUnknown, informerVars
  <2>5. ReadIsTrue'
    <3>1. \A k \in Keys : resolved'[k].how = "unread"
      BY <1>7 DEF IInv, List, ReadIsTrue
    <3>2. \A k \in Keys : \A ref \in listed'[k].refs : ref.key \in Keys
      <4>1. \A k \in Keys : listed'[k] \in Object
        BY <1>1 DEF TypeOK
      <4> QED
        BY <4>1, RefType
    <3> QED
      BY <3>1, <3>2 DEF ReadIsTrue, foundGone
  <2>6. SentOrphaned' /\ DeletionsOrphaned'
    BY <1>7 DEF IInv, List, SentOrphaned, DeletionsOrphaned, Orphaned, Gone, Known, serverVars
  <2>7. AwaitedIsJudged' /\ NoSilentDelete'
    BY <1>7 DEF IInv, List, AwaitedIsJudged, NoSilentDelete
  <2> QED
    BY <1>1, <2>3, <2>4, <2>5, <2>6, <2>7 DEF IInv
<1>8. ASSUME NEW k \in Keys, ReadOwner(k) PROVE IInv'
  <2>1. KnownStore' /\ KnownCopies' /\ UnwatchedUnknown'
    BY <1>8 DEF IInv, ReadOwner, KnownStore, KnownCopies, Known, UnwatchedUnknown,
                serverVars, informerVars
  <2>2. ReadIsTrue'
    <3>1. ASSUME NEW q \in Keys, NEW ref \in listed[q].refs, foundGone(ref)' PROVE Gone(ref)'
      <4>1. ref.key \in Keys
        <5>1. listed[q] \in Object
          BY <1>1 DEF TypeOK
        <5> QED
          BY <5>1, RefType
      <4>2. CASE ref.key # k
        BY <1>1, <1>8, <3>1, <4>1, <4>2
           DEF IInv, TypeOK, ReadOwner, ReadIsTrue, foundGone, Gone, Resolvable, serverVars
      <4>3. CASE ref.key = k
        <5>1. resolved'[k] = [how |-> "read", uid |-> store[k].uid]
          BY <1>1, <1>8, <3>1, <4>3 DEF TypeOK, ReadOwner, foundGone, found
        <5> QED
          BY <1>8, <3>1, <4>3, <5>1 DEF ReadOwner, foundGone, Gone, Resolvable, serverVars
      <4> QED
        BY <4>2, <4>3
    <3> QED
      BY <1>8, <3>1 DEF ReadOwner, ReadIsTrue
  <2>3. SentOrphaned' /\ DeletionsOrphaned'
    BY <1>8 DEF IInv, ReadOwner, SentOrphaned, DeletionsOrphaned, Orphaned, Gone, Known, serverVars
  <2>4. AwaitedIsJudged' /\ NoSilentDelete'
    BY <1>8 DEF IInv, ReadOwner, AwaitedIsJudged, NoSilentDelete
  <2> QED
    BY <1>1, <2>1, <2>2, <2>3, <2>4 DEF IInv
<1>9. ASSUME NEW k \in Keys, Judge(k) PROVE IInv'
  <2>1. CASE UNCHANGED <<sent, answer, phase>>
    BY <1>1, <1>9, <2>1, PhaseKeeps DEF Judge
  <2>2. CASE /\ collectible(k)
             /\ sent' = sent \cup {[key |-> k, object |-> listed[k], awaited |-> TRUE]}
             /\ answer' = [key |-> k, result |-> "none"]
             /\ phase' = "deleting"
    <3> DEFINE new == [key |-> k, object |-> listed[k], awaited |-> TRUE]
    <3>1. Orphaned(listed[k]) /\ Known(k, listed[k]) /\ KindOf[k] \in Watched
      BY <2>2 DEF IInv, collectible, Orphaned, ReadIsTrue, KnownCopies, Known, UnwatchedUnknown
    <3>2. new.key = k /\ new.object = listed[k] /\ new.awaited = TRUE
      OBVIOUS
    <3>3. phase = "judging" /\ \A m \in sent : ~m.awaited
      BY <1>9 DEF IInv, Judge, AwaitedIsJudged
    <3>4. sent' = sent \cup {new}
      BY <2>2
    <3> HIDE DEF new
    <3>5. KnownStore' /\ KnownCopies' /\ UnwatchedUnknown'
      BY <1>9 DEF IInv, Judge, KnownStore, KnownCopies, Known, UnwatchedUnknown,
                  serverVars, informerVars
    <3>6. ReadIsTrue'
      BY <1>9, <2>2 DEF IInv, Judge, ReadIsTrue, foundGone, Gone, Resolvable, serverVars
    <3>7. SentOrphaned'
      BY <1>9, <3>1, <3>2, <3>4 DEF IInv, Judge, SentOrphaned, Orphaned, Gone, Known, serverVars
    <3>8. DeletionsOrphaned'
      BY <1>9 DEF IInv, Judge, DeletionsOrphaned, Orphaned, Gone, serverVars
    <3>9. AwaitedIsJudged'
      BY <1>9, <2>2, <3>1, <3>2, <3>3, <3>4 DEF Judge, AwaitedIsJudged, Orphaned, Gone, serverVars
    <3>10. NoSilentDelete'
      BY <1>9, <2>2, <3>2, <3>3, <3>4 DEF IInv, Judge, NoSilentDelete
    <3> QED
      BY <1>1, <3>5, <3>6, <3>7, <3>8, <3>9, <3>10 DEF IInv
  <2> QED
    BY <1>9, <2>1, <2>2 DEF Judge
<1>10. ASSUME NEW k \in Keys, Written(k) PROVE IInv'
  <2>1. Advanced(k)
    BY <1>1, <1>10, WriteAdvances DEF Written
  <2> QED
    BY <1>1, <1>10, <2>1, WriteKeeps DEF Written
<1>11. ASSUME NEW k \in Keys, Deliver(k) PROVE IInv'
  <2>1. pending[k] \in Seq(Object) /\ pending[k] # <<>>
    BY <1>1, <1>11 DEF TypeOK, Deliver
  <2>2. /\ Len(pending[k]) \in Nat \ {0} /\ Head(pending[k]) = pending[k][1]
        /\ Len(Tail(pending[k])) = Len(pending[k]) - 1
        /\ \A i \in 1 .. Len(Tail(pending[k])) : Tail(pending[k])[i] = pending[k][i + 1]
    BY <2>1, HeadTailProperties
  <2>3. /\ cache'[k] = pending[k][1] /\ pending'[k] = Tail(pending[k])
        /\ \A q \in Keys : q # k => cache'[q] = cache[q] /\ pending'[q] = pending[q]
    BY <1>1, <1>11, <2>2 DEF TypeOK, Deliver
  <2>4. KnownStore' /\ KnownCopies'
    <3>1. KnownStore'
      BY <1>11 DEF IInv, Deliver, KnownStore, Known, serverVars
    <3>2. ASSUME NEW q \in Keys
          PROVE  /\ Known(q, cache[q])' /\ Known(q, listed[q])'
                 /\ \A i \in 1 .. Len(pending'[q]) : Known(q, pending[q][i])'
      <4>1. CASE q # k
        BY <1>11, <2>3, <4>1 DEF IInv, Deliver, KnownCopies, Known, serverVars
      <4>2. CASE q = k
        <5>1. \A i \in 1 .. Len(pending[k]) : Known(k, pending[k][i])
          BY DEF IInv, KnownCopies
        <5>2. Known(q, cache[q])' /\ Known(q, listed[q])'
          BY <1>11, <2>2, <2>3, <4>2, <5>1 DEF IInv, Deliver, KnownCopies, Known, serverVars
        <5>3. ASSUME NEW i \in 1 .. Len(pending'[q]) PROVE Known(q, pending[q][i])'
          <6>1. pending'[q][i] = pending[k][i + 1] /\ i + 1 \in 1 .. Len(pending[k])
            <7>1. pending'[q] = Tail(pending[k]) /\ i \in 1 .. Len(Tail(pending[k]))
              BY <2>3, <4>2, <5>3
            <7>2. Tail(pending[k])[i] = pending[k][i + 1]
              BY <2>2, <7>1
            <7>3. i + 1 \in 1 .. Len(pending[k])
              BY <2>2, <7>1
            <7> QED
              BY <7>1, <7>2, <7>3
          <6> QED
            BY <1>11, <4>2, <5>1, <6>1 DEF Deliver, Known, serverVars
        <5> QED
          BY <5>2, <5>3
      <4> QED
        BY <4>1, <4>2
    <3> QED
      BY <3>1, <3>2 DEF KnownCopies
  <2>5. UnwatchedUnknown'
    BY <1>11, <2>1, <2>3 DEF IInv, Deliver, UnwatchedUnknown
  <2>6. ReadIsTrue'
    BY <1>11 DEF IInv, Deliver, ReadIsTrue, foundGone, Gone, Resolvable, serverVars
  <2>7. SentOrphaned' /\ DeletionsOrphaned'
    BY <1>11 DEF IInv, Deliver, SentOrphaned, DeletionsOrphaned, Orphaned, Gone, Known, serverVars
  <2>8. AwaitedIsJudged' /\ NoSilentDelete'
    BY <1>11 DEF IInv, Deliver, AwaitedIsJudged, NoSilentDelete, Orphaned, Gone, serverVars
  <2> QED
    BY <1>1, <2>4, <2>5, <2>6, <2>7, <2>8 DEF IInv
<1>12. ASSUME NEW m \in sent, Serve(m) PROVE IInv'
  <2>1. m.key \in Keys
    BY <1>1 DEF TypeOK, Delete
  <2>2. CASE UNCHANGED <<serverVars, pending>>
    <3>1. KnownStore' /\ KnownCopies' /\ UnwatchedUnknown'
      BY <1>12, <2>2 DEF IInv, Serve, KnownStore, KnownCopies, Known, UnwatchedUnknown, serverVars
    <3>2. ReadIsTrue'
      BY <1>12, <2>2 DEF IInv, Serve, ReadIsTrue, foundGone, Gone, Resolvable, serverVars
    <3>3. SentOrphaned' /\ DeletionsOrphaned'
      BY <1>12, <2>2 DEF IInv, Serve, SentOrphaned, DeletionsOrphaned, Orphaned, Gone, Known, serverVars
    <3>4. AwaitedIsJudged' /\ NoSilentDelete'
      BY <1>12, <2>2, ServedIsAwaited
         DEF IInv, Serve, AwaitedIsJudged, NoSilentDelete, Orphaned, Gone, serverVars
    <3> QED
      BY <1>1, <3>1, <3>2, <3>3, <3>4 DEF IInv
  <2>3. CASE DeleteObject("collector", m.key) /\ Emit(m.key)
    <3>1. Advanced(m.key)
      BY <1>1, <2>1, <2>3, WriteAdvances
    <3>2. UNCHANGED <<cache, sweepVars, deletions>>
      BY <1>12 DEF Serve
    <3> QED
      BY <1>1, <1>12, <2>1, <2>3, <3>1, <3>2, ServedIsAwaited, WriteKeeps
  <2> QED
    BY <1>12, <2>2, <2>3 DEF Serve
<1> QED
  BY <1>2, <1>3, <1>4, <1>5, <1>6, <1>7, <1>8, <1>9, <1>10, <1>11, <1>12
     DEF Next, SweepStep
-----------------------------------------------------------------------------
(* What the collector's specification guarantees. *)

\* The inductive invariant holds in every state.
THEOREM Inductive == Spec => []IInv
<1> QED
  BY InitIInv, StepIInv, PTL DEF Spec

\* The state keeps its types, for any namespace and any number of failures.
THEOREM TypeCorrect == Spec => []TypeOK
<1>1. IInv => TypeOK
  BY DEF IInv
<1> QED
  BY <1>1, Inductive, PTL

\* A delete still on its way never reaches an object with an owner that is not gone
\* (Collector.sweep, Collector.delete).
THEOREM NoOwnedObjectDeleted == Spec => []SafeDelete
<1>1. IInv => SafeDelete
  BY DEF IInv, SafeDelete, SentOrphaned, Orphaned
<1> QED
  BY <1>1, Inductive, PTL

\* Every owner named in collector.jsonl is gone and stays gone (Collector.delete).
THEOREM LogTellsTruth == Spec => []LoggedOwnersGone
<1>1. IInv => LoggedOwnersGone
  BY DEF IInv, LoggedOwnersGone, DeletionsOrphaned, Orphaned
<1> QED
  BY <1>1, Inductive, PTL

\* No delete takes effect that the collector's log does not hold, Stop or not
\* (Collector.delete).
THEOREM EveryDeleteLogged == Spec => []NoSilentDelete
<1>1. IInv => NoSilentDelete
  BY DEF IInv
<1> QED
  BY <1>1, Inductive, PTL

\* A delete whose preconditions hold is the delete of an orphan.
LEMMA ServeCollects ==
    ASSUME IInv, NEW m \in sent, Serve(m), ~UNCHANGED serverVars
    PROVE  \E k \in Keys : Collect(k)
<1>1. m.key \in Keys
  BY DEF IInv, TypeOK, Delete
<1>2. store[m.key].uid # 0 /\ Matches(m) /\ DeleteObject("collector", m.key)
  BY DEF Serve
<1>3. store[m.key] = m.object
  BY <1>2 DEF Matches, IInv, SentOrphaned, Known
<1>4. Orphan(m.key)
  BY <1>2, <1>3 DEF Orphan, DeleteObject, IInv, SentOrphaned, Orphaned
<1> QED
  BY <1>1, <1>2, <1>4 DEF Collect

\* The collector implements the specification of garbage collection: whatever
\* it writes is the delete of an object all of whose owners are gone at that moment
\* (Collector).
THEOREM Refinement == Spec => GCSpec
<1>1. Init => ServerInit
  BY DEF Init
<1>2. IInv /\ [Next]_vars => [GCNext]_serverVars
  <2> SUFFICES ASSUME IInv, [Next]_vars, ~UNCHANGED serverVars PROVE GCNext
    OBVIOUS
  <2>1. CASE SweepStep
    BY <2>1 DEF SweepStep, BeginSweep, BeginReading, BeginJudging, EndSweep, Answered,
                Failed, List, ReadOwner, Judge
  <2>2. ASSUME NEW k \in Keys, Written(k) \/ Deliver(k) PROVE GCNext
    BY <2>2 DEF Written, Deliver, GCNext
  <2>3. ASSUME NEW m \in sent, Serve(m) PROVE GCNext
    BY <2>3, ServeCollects DEF GCNext
  <2>4. CASE Retry \/ Stop \/ RunReturns \/ UNCHANGED vars
    BY <2>4 DEF Retry, Stop, RunReturns, vars
  <2> QED
    BY <2>1, <2>2, <2>3, <2>4 DEF Next
<1> QED
  BY <1>1, <1>2, Inductive, PTL DEF Spec, GCSpec

=============================================================================
