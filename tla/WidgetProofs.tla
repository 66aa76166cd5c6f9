---------------------------- MODULE WidgetProofs ----------------------------
(***************************************************************************)
(* The safety of the toy controller, for any number of children, Widgets,  *)
(* user operations and failed calls.                                       *)
(*                                                                         *)
(* The first inductive invariant, OInv, says what a stale copy of the      *)
(* Widget still tells of the one there is: a finalizer the cache shows and *)
(* no deletion mean that this very Widget still has it, because only a     *)
(* reconcile that saw the deletion releases it.  The second, QInv, says    *)
(* that a reconcile during which nothing was written and no event came has *)
(* found everything it went through as the spec asks.                      *)
(***************************************************************************)
EXTENDS Widget, TLAPS, FiniteSetTheorems, WellFoundedInduction

\* Where a reconcile is, and what the objects look like.
Points == {"idle", "finalizer", "label", "ensure", "surplus", "cleanup", "sweep", "release"}
Widgets == [there : BOOLEAN, uid : Nat, gen : Nat, count : 0 .. MaxCount, fin : BOOLEAN,
            deleting : BOOLEAN, ready : Nat, obs : Nat]
ConfigMaps == [there : BOOLEAN, owner : Nat, label : {0, 1}]
Copies == [widget : Widgets, kids : [Kids -> ConfigMaps], label : {0, 1}]

\* Every variable has its type.
TypeOK ==
    /\ api \in Copies /\ cache \in Copies
    /\ stale \subseteq Objects /\ queued \in BOOLEAN
    /\ rec \in [at : Points, w : Widgets, label : {0, 1}, todo : SUBSET Kids,
                controlled : SUBSET Kids]
    /\ budget \in [ops : Nat, mishaps : Nat]

\* The absent Widget and the absent ConfigMap are records like the others.
LEMMA Blank == NoWidget \in Widgets /\ NoKid \in ConfigMaps
BY WidgetConstants DEF Widgets, ConfigMaps, NoWidget, NoKid

\* The children are finitely many.
LEMMA KidsFinite == IsFiniteSet(Kids)
BY FS_Interval, WidgetConstants DEF Kids

\* The child a loop takes next is one of those it has left.
LEMMA LeastTodo ==
    ASSUME NEW S \in SUBSET Kids, S # {} PROVE Min(S) \in S
<1> DEFINE R == {ss \in Nat \X Nat : ss[1] < ss[2]}
<1>1. S \subseteq Nat
  BY WidgetConstants DEF Kids
<1>2. IsWellFoundedOn(R, Nat)
  BY NatLessThanWellFounded DEF OpToRel
<1> HIDE DEF R
<1>3. PICK n \in S : \A m \in S : <<m, n>> \notin R
  BY <1>1, <1>2, WFMin
<1>4. ASSUME NEW m \in S, m < n PROVE FALSE
  <2>1. <<m, n>> \in R
    BY <1>1, <1>4 DEF R
  <2> QED
    BY <1>3, <2>1
<1>5. \A m \in S : n <= m
  BY <1>1, <1>4
<1> QED
  BY <1>3, <1>5 DEF Min

\* Every step keeps the types.
LEMMA StepTypeOK == TypeOK /\ [Next]_vars => TypeOK'
<1> SUFFICES ASSUME TypeOK, [Next]_vars PROVE TypeOK'
  OBVIOUS
<1> USE WidgetConstants
<1> DEFINE RecOK == rec' \in [at : Points, w : Widgets, label : {0, 1}, todo : SUBSET Kids,
                              controlled : SUBSET Kids] /\ queued' \in BOOLEAN
           ApiOK == api' \in Copies /\ stale' \subseteq Objects
           CacheOK == cache' \in Copies
           BudgetOK == budget' \in [ops : Nat, mishaps : Nat]
<1>1. Idle \in [at : Points, w : Widgets, label : {0, 1}, todo : SUBSET Kids,
                controlled : SUBSET Kids]
  BY Blank DEF Idle, Points
<1>2. ASSUME NEW w \in Widgets, SetWidget(w) PROVE ApiOK
  BY <1>2 DEF SetWidget, TypeOK, Copies, Objects
<1>3. ASSUME NEW i \in Kids, NEW kid \in ConfigMaps, SetKid(i, kid) PROVE ApiOK
  BY <1>3 DEF SetKid, TypeOK, Copies, Objects
<1>4. NoWrite => ApiOK
  BY DEF NoWrite, TypeOK
<1>5. Ends \/ Errs => RecOK
  BY <1>1 DEF Ends, Errs, TypeOK
<1>6. CASE Get
  <2>1. RecOK
    BY <1>1, <1>6 DEF Get, TypeOK, Copies, Points
  <2> QED
    BY <1>4, <1>6, <2>1 DEF Get, TypeOK
<1>7. CASE AddFinalizer
  <2>1. [api.widget EXCEPT !.fin = TRUE] \in Widgets
    BY DEF TypeOK, Copies, Widgets
  <2>2. ApiOK /\ RecOK
    BY <1>2, <1>4, <1>5, <1>7, <2>1 DEF AddFinalizer, Goes, TypeOK, Points
  <2> QED
    BY <1>7, <2>2 DEF AddFinalizer, TypeOK
<1>8. CASE ReadLabel
  <2>1. RecOK
    BY <1>8 DEF ReadLabel, Goes, TypeOK, Copies, required, Points
  <2> QED
    BY <1>4, <1>8, <2>1 DEF ReadLabel, TypeOK
<1>9. CASE EnsureChild
  <2> DEFINE i == Min(rec.todo)
             desired == [there |-> TRUE, owner |-> rec.w.uid, label |-> rec.label]
  <2>1. desired \in ConfigMaps
    BY DEF TypeOK, Widgets, ConfigMaps
  <2>2. rec.todo # {} => i \in Kids
    BY LeastTodo DEF TypeOK
  <2> HIDE DEF i, desired
  <2>3. RecOK
    BY <1>5, <1>9 DEF EnsureChild, Goes, TypeOK, Points
  <2>4. ApiOK
    BY <1>3, <1>4, <1>9, <2>1, <2>2 DEF EnsureChild, i, desired
  <2> QED
    BY <1>9, <2>3, <2>4 DEF EnsureChild, TypeOK
<1>10. CASE ListChildren
  <2>1. RecOK
    BY <1>10 DEF ListChildren, Goes, TypeOK, controlledIn, surplus, Points
  <2> QED
    BY <1>4, <1>10, <2>1 DEF ListChildren, TypeOK
<1>11. CASE DeleteChild
  <2>1. rec.todo # {} => Min(rec.todo) \in Kids
    BY LeastTodo DEF TypeOK
  <2>2. RecOK
    BY <1>11 DEF DeleteChild, Goes, TypeOK
  <2>3. ApiOK
    BY <1>3, <1>4, <1>11, <2>1, Blank DEF DeleteChild
  <2> QED
    BY <1>11, <2>2, <2>3 DEF DeleteChild, TypeOK
<1>12. CASE WriteStatus
  <2> DEFINE ready == Cardinality(rec.controlled \cap required(rec.w))
  <2>1. ready \in Nat
    BY KidsFinite, FS_Subset, FS_CardinalityType DEF TypeOK
  <2>2. [api.widget EXCEPT !.ready = ready, !.obs = rec.w.gen] \in Widgets
    BY <2>1 DEF TypeOK, Copies, Widgets
  <2> HIDE DEF ready
  <2>3. ApiOK
    BY <1>2, <1>4, <1>12, <2>2 DEF WriteStatus, patchStatus, ready
  <2> QED
    BY <1>5, <1>12, <2>3 DEF WriteStatus, TypeOK
<1>13. CASE CleanUp
  <2>1. RecOK
    BY <1>13 DEF CleanUp, Goes, TypeOK, left, controlledIn, Points
  <2> QED
    BY <1>4, <1>13, <2>1 DEF CleanUp, TypeOK
<1>14. CASE SweepEnds
  BY <1>4, <1>5, <1>14 DEF SweepEnds, TypeOK
<1>15. CASE Release
  <2>1. [api.widget EXCEPT !.fin = FALSE] \in Widgets
    BY DEF TypeOK, Copies, Widgets
  <2>2. ApiOK
    BY <1>2, <1>4, <1>15, <2>1, Blank DEF Release
  <2> QED
    BY <1>5, <1>15, <2>2 DEF Release, TypeOK
<1>16. CASE CallFails
  BY <1>4, <1>5, <1>16 DEF CallFails, Mishap, TypeOK
<1>17. CASE Restart
  BY <1>1, <1>17 DEF Restart, Mishap, TypeOK
<1>18. CASE UserActs
  <2>1. User => BudgetOK /\ RecOK /\ CacheOK
    BY DEF User, TypeOK
  <2>2. ASSUME NEW count \in 0 .. MaxCount, Create(budget.ops + 1, count) PROVE TypeOK'
    <3>1. [NoWidget EXCEPT !.there = TRUE, !.uid = budget.ops + 1, !.gen = 1, !.count = count]
            \in Widgets
      <4>1. budget.ops + 1 \in Nat
        BY DEF TypeOK
      <4> QED
        BY <4>1 DEF NoWidget, Widgets
    <3> QED
      BY <1>2, <2>1, <2>2, <3>1 DEF Create, TypeOK
  <2>3. ASSUME NEW count \in 0 .. MaxCount, Update(count) PROVE TypeOK'
    <3>1. api.widget \in Widgets /\ api.widget.gen + 1 \in Nat
      BY DEF Widgets, Copies, TypeOK
    <3>2. [api.widget EXCEPT !.count = count, !.gen = api.widget.gen + 1] \in Widgets
      BY <3>1 DEF Widgets
    <3> QED
      BY <1>2, <2>1, <2>3, <3>2 DEF Update, TypeOK
  <2>4. CASE Delete
    <3>1. [api.widget EXCEPT !.deleting = TRUE] \in Widgets
      BY DEF Widgets, Copies, TypeOK
    <3> QED
      BY <1>2, <2>1, <2>4, <3>1, Blank DEF Delete, TypeOK
  <2>5. CASE Relabel
    <3>1. ApiOK
      BY <2>5 DEF Relabel, TypeOK, Copies, Objects
    <3> QED
      BY <2>1, <2>5, <3>1 DEF Relabel, TypeOK
  <2>6. ASSUME NEW i \in Kids, DeleteManaged(i) PROVE TypeOK'
    BY <1>3, <2>1, <2>6, Blank DEF DeleteManaged, TypeOK
  <2> QED
    BY <1>18, <2>2, <2>3, <2>4, <2>5, <2>6 DEF UserActs
<1>19. ASSUME NEW x \in Objects, CacheSync(x) PROVE TypeOK'
  <2>1. CacheOK
    BY <1>19 DEF CacheSync, TypeOK, Copies, Objects
  <2> QED
    BY <1>19, <2>1 DEF CacheSync, TypeOK, enqueues
<1>20. CASE UNCHANGED vars
  BY <1>20 DEF vars, TypeOK
<1> QED
  BY <1>6, <1>7, <1>8, <1>9, <1>10, <1>11, <1>12, <1>13, <1>14, <1>15, <1>16, <1>17, <1>18,
     <1>19, <1>20 DEF Next, Reconcile, Rest

-----------------------------------------------------------------------------
(* Who owns a child: the finalizer, the uids and the stale copies. *)

\* A Widget being deleted has its finalizer still, and an absent one has nothing.
Sound(w) == (w.deleting => w.fin) /\ (w.fin => w.there) /\ (w.there <=> w.uid > 0)

AllSound == Sound(api.widget) /\ Sound(cache.widget) /\ Sound(rec.w)

\* The uid of the next Widget is new to the API server, the cache and the reconcile.
Issued ==
    api.widget.uid <= budget.ops /\ cache.widget.uid <= budget.ops /\ rec.w.uid <= budget.ops

\* A Widget the cache shows with a finalizer, or as being deleted, is so still.
CacheLags ==
    cache.widget.uid = api.widget.uid =>
        /\ cache.widget.fin => api.widget.fin
        /\ cache.widget.deleting => api.widget.deleting

\* The Widget the cache shows with a finalizer and not being deleted is there.
FinalizerHolds ==
    cache.widget.fin /\ ~cache.widget.deleting =>
        api.widget.fin /\ api.widget.uid = cache.widget.uid

\* While the cache shows a deletion, no later Widget has a finalizer yet.
DeletedIsLast ==
    cache.widget.deleting /\ api.widget.fin => api.widget.uid = cache.widget.uid

\* A deletion the cache learns of before the finalizer is patched in is of that Widget.
Finalizing ==
    rec.at = "finalizer" /\ cache.widget.deleting =>
        api.widget.there /\ api.widget.uid = cache.widget.uid

\* Children are created only for the Widget there is, which has its finalizer.
Syncing ==
    rec.at \in {"label", "ensure", "surplus"} => api.widget.fin /\ api.widget.uid = rec.w.uid

\* Children are swept only of a Widget being deleted, or gone.
Deleting ==
    rec.at \in {"cleanup", "sweep", "release"} =>
        /\ rec.w.deleting
        /\ api.widget.fin => api.widget.uid = rec.w.uid
        /\ api.widget.uid = rec.w.uid => api.widget.deleting
        /\ cache.widget.uid = rec.w.uid => cache.widget.deleting

\* No child is left of a Widget about to be released.
Releasing ==
    rec.at = "release" =>
        \A i \in Kids : api.kids[i].there => api.kids[i].owner # rec.w.uid

OInv ==
    /\ AllSound /\ Issued /\ CacheLags /\ FinalizerHolds /\ DeletedIsLast
    /\ Finalizing /\ Syncing /\ Deleting /\ Releasing /\ NoOrphans

\* The invariant holds before the first Widget is created.
LEMMA InitOInv == Init => TypeOK /\ OInv
<1> SUFFICES ASSUME Init PROVE TypeOK /\ OInv
  OBVIOUS
<1>1. TypeOK
  BY Blank DEF Init, TypeOK, Copies, Idle, Points
<1>2. OInv
  BY DEF Init, OInv, Idle, NoWidget, NoKid, AllSound, Sound, Issued, CacheLags,
         FinalizerHolds, DeletedIsLast, Finalizing, Syncing, Deleting, Releasing, NoOrphans
<1> QED
  BY <1>1, <1>2

\* What a write, and a step of the reconcile, leave behind.
LEMMA Writes ==
    ASSUME TypeOK
    PROVE  /\ \A w : SetWidget(w) => api'.widget = w /\ api'.kids = api.kids
           /\ \A i, kid : SetKid(i, kid) =>
                  api'.widget = api.widget /\ api'.kids = [api.kids EXCEPT ![i] = kid]
           /\ \A r : Goes(r) => rec' = r
           /\ NoWrite => api' = api
           /\ Ends \/ Errs => rec' = Idle
BY DEF TypeOK, Copies, SetWidget, SetKid, Goes, NoWrite, Ends, Errs

\* Every step, of the controller, the user or a failure, keeps it.
LEMMA StepOInv == TypeOK /\ OInv /\ [Next]_vars => OInv'
<1> SUFFICES ASSUME TypeOK, OInv, [Next]_vars PROVE OInv'
  OBVIOUS
<1> USE Writes
<1> DEFINE Quiet == rec' = Idle /\ UNCHANGED <<api, cache>> /\ budget'.ops = budget.ops
<1>0. /\ api.widget \in Widgets /\ cache.widget \in Widgets /\ rec.w \in Widgets
      /\ api.widget.uid \in Nat /\ cache.widget.uid \in Nat /\ rec.w.uid \in Nat
      /\ api.kids \in [Kids -> ConfigMaps] /\ budget.ops \in Nat /\ rec.at \in Points
  BY DEF TypeOK, Copies, Widgets
<1>1. Idle.at = "idle" /\ Sound(Idle.w) /\ Idle.w.uid = 0
  BY DEF Idle, NoWidget, Sound
<1>2. Quiet => OInv'
  BY <1>0, <1>1 DEF OInv, AllSound, Sound, Issued, CacheLags, FinalizerHolds, DeletedIsLast,
     Finalizing, Syncing, Deleting, Releasing, NoOrphans
<1>6. CASE Get
  <2>1. api' = api /\ cache' = cache /\ budget' = budget
    BY <1>6 DEF Get
  <2>2. CASE ~cache.widget.there
    BY <1>2, <1>6, <2>1, <2>2 DEF Get
  <2>3. CASE cache.widget.there
    <3>1. /\ rec'.w = cache.widget
          /\ rec'.at = IF cache.widget.deleting THEN "cleanup"
                       ELSE IF ~cache.widget.fin THEN "finalizer" ELSE "label"
      BY <1>6, <2>3 DEF Get, Idle
    <3> QED
      BY <1>0, <2>1, <2>3, <3>1 DEF OInv, AllSound, Sound, Issued, CacheLags,
         FinalizerHolds, DeletedIsLast, Finalizing, Syncing, Deleting, Releasing, NoOrphans
  <2> QED
    BY <2>2, <2>3
<1>7. CASE AddFinalizer
  <2>1. cache' = cache /\ budget' = budget /\ rec.at = "finalizer"
    BY <1>7 DEF AddFinalizer
  <2>2. CASE ~api.widget.there \/ (api.widget.deleting /\ ~api.widget.fin)
    BY <1>2, <1>7, <2>1, <2>2 DEF AddFinalizer
  <2>3. CASE ~(~api.widget.there \/ (api.widget.deleting /\ ~api.widget.fin))
    <3>0. api.widget.fin => [api.widget EXCEPT !.fin = TRUE] = api.widget
      BY <1>0 DEF Widgets
    <3>1. /\ rec' = [rec EXCEPT !.at = "label", !.w = [api.widget EXCEPT !.fin = TRUE]]
          /\ api'.widget = [api.widget EXCEPT !.fin = TRUE]
          /\ api'.kids = api.kids
      BY <1>7, <2>3, <3>0 DEF AddFinalizer
    <3>2. /\ rec'.at = "label" /\ rec'.w = api'.widget
          /\ api'.widget.there = api.widget.there
          /\ api'.widget.uid = api.widget.uid
          /\ api'.widget.deleting = api.widget.deleting
          /\ api'.widget.fin
      BY <1>0, <3>1 DEF TypeOK, Widgets
    <3> QED
      BY <1>0, <2>1, <2>3, <3>1, <3>2 DEF OInv, AllSound, Sound, Issued, CacheLags,
         FinalizerHolds, DeletedIsLast, Finalizing, Syncing, Deleting, Releasing, NoOrphans
  <2> QED
    BY <2>2, <2>3
<1>8. CASE ReadLabel
  <2>1. /\ api' = api /\ cache' = cache /\ budget' = budget
        /\ rec.at = "label" /\ rec'.at = "ensure" /\ rec'.w = rec.w
    BY <1>8 DEF ReadLabel, TypeOK
  <2> QED
    BY <1>0, <2>1 DEF OInv, AllSound, Sound, Issued, CacheLags, FinalizerHolds,
       DeletedIsLast, Finalizing, Syncing, Deleting, Releasing, NoOrphans
<1>9. CASE EnsureChild
  <2> DEFINE desired == [there |-> TRUE, owner |-> rec.w.uid, label |-> rec.label]
             next == [rec EXCEPT !.todo = @ \ {Min(rec.todo)}]
  <2>1. /\ cache' = cache /\ budget' = budget
        /\ rec.at = "ensure" /\ next.at = rec.at /\ next.w = rec.w
    BY <1>9 DEF EnsureChild, TypeOK
  <2>2. CASE Errs /\ NoWrite
    BY <1>2, <2>1, <2>2
  <2>3. CASE Goes(next) /\ (NoWrite \/ SetKid(Min(rec.todo), desired))
    <3>1. /\ rec' = next /\ api'.widget = api.widget
          /\ api'.kids = api.kids \/ api'.kids = [api.kids EXCEPT ![Min(rec.todo)] = desired]
      BY <2>3
    <3> HIDE DEF next
    <3>2. NoOrphans'
      BY <1>0, <2>1, <3>1 DEF OInv, Syncing, Sound, AllSound, NoOrphans
    <3> QED
      BY <1>0, <2>1, <3>1, <3>2 DEF OInv, AllSound, Sound, Issued, CacheLags,
         FinalizerHolds, DeletedIsLast, Finalizing, Syncing, Deleting, Releasing
  <2> QED
    BY <1>9, <2>2, <2>3 DEF EnsureChild
<1>10. CASE ListChildren
  <2>1. /\ api' = api /\ cache' = cache /\ budget' = budget
        /\ rec.at = "ensure" /\ rec'.at = "surplus" /\ rec'.w = rec.w
    BY <1>10 DEF ListChildren, TypeOK
  <2> QED
    BY <1>0, <2>1 DEF OInv, AllSound, Sound, Issued, CacheLags, FinalizerHolds,
       DeletedIsLast, Finalizing, Syncing, Deleting, Releasing, NoOrphans
<1>11. CASE DeleteChild
  <2>1. /\ cache' = cache /\ budget' = budget
        /\ rec'.at = rec.at /\ rec'.w = rec.w /\ rec.at \in {"surplus", "sweep"}
        /\ api'.widget = api.widget
        /\ api'.kids = api.kids \/ api'.kids = [api.kids EXCEPT ![Min(rec.todo)] = NoKid]
    BY <1>11 DEF DeleteChild, TypeOK
  <2>2. NoOrphans'
    BY <1>0, <2>1 DEF OInv, NoOrphans, NoKid
  <2> QED
    BY <1>0, <2>1, <2>2 DEF OInv, AllSound, Sound, Issued, CacheLags, FinalizerHolds,
       DeletedIsLast, Finalizing, Syncing, Deleting, Releasing
<1>12. CASE WriteStatus
  <2> DEFINE ready == Cardinality(rec.controlled \cap required(rec.w))
  <2>1. /\ cache' = cache /\ budget' = budget /\ rec' = Idle
        /\ \/ api' = api
           \/ /\ api'.widget = [api.widget EXCEPT !.ready = ready, !.obs = rec.w.gen]
              /\ api'.kids = api.kids
    BY <1>12 DEF WriteStatus, patchStatus
  <2> HIDE DEF ready
  <2>2. /\ \A f \in {"there", "uid", "fin", "deleting"} : api'.widget[f] = api.widget[f]
        /\ api'.kids = api.kids
    BY <1>0, <2>1 DEF Widgets
  <2>3. /\ api'.widget.there = api.widget.there
        /\ api'.widget.uid = api.widget.uid
        /\ api'.widget.fin = api.widget.fin
        /\ api'.widget.deleting = api.widget.deleting
    BY <1>0, <2>1 DEF Widgets
  <2> QED
    BY <1>0, <1>1, <2>1, <2>2, <2>3 DEF OInv, AllSound, Sound, Issued, CacheLags,
       FinalizerHolds, DeletedIsLast, Finalizing, Syncing, Deleting, Releasing, NoOrphans
<1>13. CASE CleanUp
  <2>1. /\ api' = api /\ cache' = cache
        /\ budget' = budget /\ rec.at = "cleanup" /\ rec'.w = rec.w
        /\ rec'.at = IF left = {} THEN "release" ELSE "sweep"
    BY <1>13 DEF CleanUp, TypeOK
  <2>2. Releasing'
    BY <1>0, <2>1 DEF Releasing, left, controlledIn
  <2> QED
    BY <1>0, <2>1, <2>2 DEF OInv, AllSound, Sound, Issued, CacheLags, FinalizerHolds,
       DeletedIsLast, Finalizing, Syncing, Deleting, NoOrphans
<1>14. CASE SweepEnds
  BY <1>2, <1>14 DEF SweepEnds
<1>15. CASE Release
  <2>1. cache' = cache /\ budget' = budget /\ rec' = Idle /\ rec.at = "release"
    BY <1>15 DEF Release
  <2>2. CASE NoWrite
    BY <1>2, <2>1, <2>2
  <2>3. CASE rec.w.fin /\ api.widget.fin /\ ~NoWrite
    <3>1. api.widget.deleting /\ api.widget.uid = rec.w.uid
      BY <2>1, <2>3 DEF OInv, Deleting
    <3>2. api'.widget = NoWidget /\ api'.kids = api.kids
      BY <1>15, <2>3, <3>1 DEF Release
    <3>3. \A i \in Kids : ~api.kids[i].there
      BY <2>1, <3>1 DEF OInv, Releasing, NoOrphans
    <3>4. ~NoWidget.there /\ ~NoWidget.fin /\ ~NoWidget.deleting /\ NoWidget.uid = 0
      BY DEF NoWidget
    <3> QED
      BY <1>0, <1>1, <2>1, <3>1, <3>2, <3>3, <3>4 DEF OInv, AllSound, Sound, Issued,
         CacheLags, FinalizerHolds, DeletedIsLast, Finalizing, Syncing, Deleting, Releasing,
         NoOrphans
  <2> QED
    BY <1>15, <2>2, <2>3 DEF Release
<1>16. CASE CallFails
  BY <1>2, <1>16 DEF CallFails, Mishap, TypeOK
<1>17. CASE Restart
  <2>1. api' = api /\ cache' = api /\ rec' = Idle /\ budget'.ops = budget.ops
    BY <1>17 DEF Restart, Mishap, TypeOK
  <2> QED
    BY <1>0, <1>1, <2>1 DEF OInv, AllSound, Sound, Issued, CacheLags, FinalizerHolds,
       DeletedIsLast, Finalizing, Syncing, Deleting, Releasing, NoOrphans
<1>18. CASE UserActs
  <2> DEFINE Same == cache' = cache /\ rec' = rec /\ budget'.ops = budget.ops + 1
  <2>1. User => Same
    BY DEF User, TypeOK
  <2>2. ASSUME NEW count \in 0 .. MaxCount, Create(budget.ops + 1, count) PROVE OInv'
    <3>1. /\ api'.kids = api.kids /\ ~api.widget.there
          /\ api'.widget = [NoWidget EXCEPT !.there = TRUE, !.uid = budget.ops + 1, !.gen = 1,
                                            !.count = count]
      BY <2>2 DEF Create
    <3>2. /\ api'.widget.there /\ api'.widget.uid = budget.ops + 1 
          /\ ~api'.widget.fin /\ ~api'.widget.deleting
      BY <3>1 DEF NoWidget
    <3>3. Same
      BY <2>1, <2>2 DEF Create
    <3> QED
      BY <1>0, <2>1, <3>1, <3>2, <3>3 DEF OInv, AllSound, Sound, Issued, CacheLags,
         FinalizerHolds, DeletedIsLast, Finalizing, Syncing, Deleting, Releasing, NoOrphans
  <2>3. ASSUME NEW count \in 0 .. MaxCount, Update(count) PROVE OInv'
    <3>1. /\ api'.kids = api.kids /\ Same
          /\ api'.widget = [api.widget EXCEPT !.count = count, !.gen = @ + 1]
      BY <2>1, <2>3 DEF Update
    <3>2. /\ api'.widget.there = api.widget.there
          /\ api'.widget.uid = api.widget.uid
          /\ api'.widget.fin = api.widget.fin
          /\ api'.widget.deleting = api.widget.deleting
      BY <1>0, <3>1 DEF Widgets
    <3> QED
      BY <1>0, <2>1, <3>1, <3>2 DEF OInv, AllSound, Sound, Issued, CacheLags,
         FinalizerHolds, DeletedIsLast, Finalizing, Syncing, Deleting, Releasing, NoOrphans
  <2>4. CASE Delete
    <3>1. /\ api'.kids = api.kids /\ Same /\ api.widget.there /\ ~api.widget.deleting
          /\ api'.widget = IF api.widget.fin THEN [api.widget EXCEPT !.deleting = TRUE]
                           ELSE NoWidget
      BY <2>1, <2>4 DEF Delete
    <3>2. CASE api.widget.fin
      <4>1. /\ api'.widget.there = api.widget.there
            /\ api'.widget.uid = api.widget.uid
            /\ api'.widget.fin = api.widget.fin
            /\ api'.widget.deleting
        BY <1>0, <3>1, <3>2 DEF Widgets
      <4> QED
        BY <1>0, <2>1, <3>1, <3>2, <4>1 DEF OInv, AllSound, Sound, Issued, CacheLags,
           FinalizerHolds, DeletedIsLast, Finalizing, Syncing, Deleting, Releasing,
           NoOrphans
    <3>3. CASE ~api.widget.fin
      <4>1. /\ ~api'.widget.there /\ ~api'.widget.fin
            /\ ~api'.widget.deleting /\ api'.widget.uid = 0
        BY <3>1, <3>3 DEF NoWidget
      <4> QED
        BY <1>0, <2>1, <3>1, <3>3, <4>1 DEF OInv, AllSound, Sound, Issued, CacheLags,
           FinalizerHolds, DeletedIsLast, Finalizing, Syncing, Deleting, Releasing,
           NoOrphans
    <3> QED
      BY <3>2, <3>3
  <2>5. CASE Relabel
    <3>1. Same /\ api'.widget = api.widget /\ api'.kids = api.kids
      BY <2>1, <2>5 DEF Relabel, TypeOK, Copies
    <3> QED
      BY <1>0, <2>1, <3>1 DEF OInv, AllSound, Sound, Issued, CacheLags, FinalizerHolds,
         DeletedIsLast, Finalizing, Syncing, Deleting, Releasing, NoOrphans
  <2>6. ASSUME NEW i \in Kids, DeleteManaged(i) PROVE OInv'
    <3>1. Same /\ api'.widget = api.widget /\ api'.kids = [api.kids EXCEPT ![i] = NoKid]
      BY <2>1, <2>6 DEF DeleteManaged
    <3>2. NoOrphans' /\ Releasing'
      BY <1>0, <2>1, <3>1 DEF OInv, NoOrphans, NoKid, Releasing
    <3> QED
      BY <1>0, <2>1, <3>1, <3>2 DEF OInv, AllSound, Sound, Issued, CacheLags,
         FinalizerHolds, DeletedIsLast, Finalizing, Syncing, Deleting
  <2> QED
    BY <1>18, <2>2, <2>3, <2>4, <2>5, <2>6 DEF UserActs
<1>19. ASSUME NEW x \in Objects, CacheSync(x) PROVE OInv'
  <2>1. /\ api' = api /\ rec' = rec /\ budget' = budget
        /\ cache'.widget \in {cache.widget, api.widget}
    BY <1>19 DEF CacheSync, TypeOK, Copies
  <2> QED
    BY <1>0, <2>1 DEF OInv, AllSound, Sound, Issued, CacheLags, FinalizerHolds,
       DeletedIsLast, Finalizing, Syncing, Deleting, Releasing, NoOrphans
<1>20. CASE UNCHANGED vars
  BY <1>20 DEF vars, OInv, AllSound, Sound, Issued, CacheLags, FinalizerHolds,
     DeletedIsLast, Finalizing, Syncing, Deleting, Releasing, NoOrphans
<1> QED
  BY <1>6, <1>7, <1>8, <1>9, <1>10, <1>11, <1>12, <1>13, <1>14, <1>15, <1>16, <1>17, <1>18,
     <1>19, <1>20 DEF Next, Reconcile, Rest

-----------------------------------------------------------------------------
(* What a reconcile that nothing disturbed has found. *)

\* What is not stale is in the cache as it is.
Fresh ==
    /\ TheWidget \notin stale => cache.widget = api.widget
    /\ TheLabel \notin stale => cache.label = api.label
    /\ \A i \in Kids : i \notin stale => cache.kids[i] = api.kids[i]

\* Nothing was written and no event came since the reconcile's Get.
Undisturbed == ~queued /\ stale = {}

\* The child is as the reconcile asks for it.
asDesired(i) == api.kids[i] = [there |-> TRUE, owner |-> rec.w.uid, label |-> rec.label]

\* The reconcile holds the Widget as it is, and what it went through is right.
Progress ==
    /\ rec.w = api.widget
    /\ rec.at \in {"finalizer", "label", "ensure", "surplus"} => ~rec.w.deleting
    /\ rec.at = "finalizer" => ~rec.w.fin
    /\ rec.at \in {"ensure", "surplus"} => rec.label = api.label
    /\ rec.at = "ensure" => \A i \in required(rec.w) \ rec.todo : asDesired(i)
    /\ rec.at = "surplus" =>
          /\ \A i \in required(rec.w) : asDesired(i)
          /\ rec.controlled = controlledIn(api.kids, rec.w)
          /\ rec.todo = rec.controlled \ required(rec.w)
    /\ rec.at = "sweep" => rec.todo # {} /\ rec.todo \subseteq controlledIn(api.kids, rec.w)

QInv ==
    /\ Fresh
    /\ Undisturbed /\ rec.at # "idle" => Progress
    /\ QuietIsRight

\* Nothing is asked for at first.
LEMMA InitQInv == Init => QInv
BY DEF Init, QInv, Fresh, QuietIsRight, Undisturbed, AtRest, Idle, NoWidget

\* A spec asks for as many children as it counts.
LEMMA RequiredCount ==
    ASSUME NEW w \in Widgets PROVE Cardinality(required(w)) = w.count
<1>1. required(w) = 0 .. w.count - 1 /\ w.count \in Nat
  BY WidgetConstants DEF required, Kids, Widgets
<1> QED
  BY <1>1, FS_Interval

\* A write makes its object stale; an event and a restart refresh the cache.
LEMMA StepFresh == TypeOK /\ Fresh /\ [Next]_vars => Fresh'
<1> SUFFICES ASSUME TypeOK, Fresh, [Next]_vars PROVE Fresh'
  OBVIOUS
<1> USE WidgetConstants
<1>0. TheWidget \notin Kids /\ TheLabel \notin Kids /\ TheWidget # TheLabel
  BY DEF TheWidget, TheLabel, Kids
<1>1. ASSUME NEW w, SetWidget(w), cache' = cache PROVE Fresh'
  BY <1>0, <1>1 DEF SetWidget, Fresh, TypeOK, Copies
<1>2. ASSUME NEW i, NEW kid, SetKid(i, kid), cache' = cache PROVE Fresh'
  BY <1>0, <1>2 DEF SetKid, Fresh, TypeOK, Copies
<1>3. ASSUME NoWrite, cache' = cache PROVE Fresh'
  BY <1>3 DEF NoWrite, Fresh
<1>4. CASE Reconcile
  <2>1. CASE Get \/ ReadLabel \/ ListChildren \/ CleanUp \/ SweepEnds
    BY <1>3, <2>1 DEF Get, ReadLabel, ListChildren, CleanUp, SweepEnds
  <2>2. CASE AddFinalizer
    BY <1>1, <1>3, <2>2 DEF AddFinalizer
  <2>3. CASE EnsureChild
    BY <1>2, <1>3, <2>3 DEF EnsureChild
  <2>4. CASE DeleteChild
    BY <1>2, <1>3, <2>4 DEF DeleteChild
  <2>5. CASE WriteStatus
    BY <1>1, <1>3, <2>5 DEF WriteStatus, patchStatus
  <2>6. CASE Release
    BY <1>1, <1>3, <2>6 DEF Release
  <2> QED
    BY <1>4, <2>1, <2>2, <2>3, <2>4, <2>5, <2>6 DEF Reconcile
<1>5. CASE CallFails
  BY <1>3, <1>5 DEF CallFails
<1>6. CASE Restart
  BY <1>6 DEF Restart, Fresh
<1>7. CASE UserActs
  <2>1. ASSUME NEW count, Create(budget.ops + 1, count) \/ Update(count) PROVE Fresh'
    BY <1>1, <2>1 DEF Create, Update, User
  <2>2. CASE Delete
    BY <1>1, <2>2 DEF Delete, User
  <2>3. CASE Relabel
    BY <1>0, <2>3 DEF Relabel, User, Fresh, TypeOK, Copies
  <2>4. ASSUME NEW i \in Kids, DeleteManaged(i) PROVE Fresh'
    BY <1>2, <2>4 DEF DeleteManaged, User
  <2> QED
    BY <1>7, <2>1, <2>2, <2>3, <2>4 DEF UserActs
<1>8. ASSUME NEW x \in Objects, CacheSync(x) PROVE Fresh'
  BY <1>0, <1>8 DEF CacheSync, Fresh, TypeOK, Copies, Objects
<1>9. CASE UNCHANGED vars
  BY <1>9 DEF vars, Fresh
<1> QED
  BY <1>4, <1>5, <1>6, <1>7, <1>8, <1>9 DEF Next, Rest

\* A step that leaves the controller undisturbed has found one more thing right.
LEMMA StepQInv == TypeOK /\ OInv /\ QInv /\ [Next]_vars => QInv'
<1> SUFFICES ASSUME TypeOK, OInv, QInv, [Next]_vars PROVE QInv'
  OBVIOUS
<1> USE Writes
<1>1. Fresh'
  BY StepFresh DEF QInv
<1> SUFFICES ASSUME Undisturbed' PROVE (rec.at # "idle" => Progress)' /\ QuietIsRight'
  BY <1>1 DEF QInv, QuietIsRight, AtRest, Undisturbed
<1>2. /\ \A w : ~SetWidget(w)
      /\ \A i, kid : ~SetKid(i, kid)
      /\ ~Errs
  BY DEF Undisturbed, SetWidget, SetKid, Errs
<1>3. ASSUME NoWrite, queued' = queued PROVE Undisturbed /\ api' = api
  BY <1>3 DEF NoWrite, Undisturbed
<1>4. ASSUME NoWrite, queued' = queued, rec.at # "idle" 
      PROVE  /\ Progress /\ api' = api /\ cache.label = api.label
             /\ \A i \in Kids : cache.kids[i] = api.kids[i]
  BY <1>3, <1>4 DEF QInv, Fresh, Undisturbed
<1>5. rec'.at = "idle" => (rec.at # "idle" => Progress)'
  OBVIOUS
<1>6. rec'.at # "idle" => QuietIsRight'
  BY DEF QuietIsRight, AtRest
<1>7. rec.at \in Points /\ api.widget \in Widgets /\ api.kids \in [Kids -> ConfigMaps]
      /\ rec.todo \in SUBSET Kids /\ rec.w \in Widgets
  BY DEF TypeOK, Copies
<1>10. CASE Get
  <2>1. NoWrite /\ cache.widget = api.widget /\ api' = api
    BY <1>10 DEF Get, Undisturbed, NoWrite, QInv, Fresh
  <2>2. CASE ~api.widget.there
    BY <1>10, <2>1, <2>2 DEF Get, Idle, QuietIsRight
  <2>3. CASE api.widget.there
    <3>1. /\ rec'.w = api.widget
          /\ rec'.at = IF api.widget.deleting THEN "cleanup"
                       ELSE IF ~api.widget.fin THEN "finalizer" ELSE "label"
      BY <1>10, <2>1, <2>3 DEF Get, Idle
    <3> QED
      BY <1>6, <2>1, <3>1 DEF Progress
  <2> QED
    BY <2>2, <2>3
<1>11. CASE AddFinalizer
  <2>1. NoWrite /\ queued' = queued /\ rec.at = "finalizer" /\ api.widget.fin
    BY <1>2, <1>11 DEF AddFinalizer, Goes
  <2> QED
    BY <1>4, <2>1 DEF Progress
<1>12. CASE ReadLabel
  <2>1. NoWrite /\ queued' = queued /\ rec.at = "label"
    BY <1>12 DEF ReadLabel, Goes
  <2>2. /\ rec'.at = "ensure" /\ rec'.w = rec.w /\ rec'.label = cache.label
        /\ rec'.todo = required(rec.w)
    BY <1>12 DEF ReadLabel, TypeOK
  <2> QED
    BY <1>4, <1>6, <2>1, <2>2 DEF Progress
<1>13. CASE EnsureChild
  <2> DEFINE i == Min(rec.todo)
             desired == [there |-> TRUE, owner |-> rec.w.uid, label |-> rec.label]
             next == [rec EXCEPT !.todo = @ \ {i}]
  <2>1. /\ NoWrite /\ rec' = next /\ queued' = queued
        /\ rec.at = "ensure" /\ cache.kids[i] = desired /\ rec.todo # {}
    BY <1>2, <1>13 DEF EnsureChild, Goes
  <2>2. i \in Kids
    BY <1>7, <2>1, LeastTodo
  <2>3. /\ next.at = "ensure" /\ next.w = rec.w /\ next.label = rec.label
        /\ next.todo = rec.todo \ {i}
    BY <2>1 DEF TypeOK
  <2> HIDE DEF i, next
  <2>4. api.kids[i] = desired
    BY <1>4, <2>1, <2>2
  <2> QED
    BY <1>4, <1>6, <2>1, <2>3, <2>4 DEF Progress, asDesired
<1>14. CASE ListChildren
  <2>1. NoWrite /\ queued' = queued /\ rec.at = "ensure" /\ rec.todo = {}
    BY <1>14 DEF ListChildren, Goes
  <2>2. /\ rec'.at = "surplus" /\ rec'.w = rec.w /\ rec'.label = rec.label
        /\ rec'.controlled = controlledIn(cache.kids, rec.w)
        /\ rec'.todo = controlledIn(cache.kids, rec.w) \ required(rec.w)
    <3> DEFINE c == controlledIn(cache.kids, rec.w)
               d == surplus(c)
    <3>1. rec' = [rec EXCEPT !.at = "surplus", !.todo = d, !.controlled = c]
      BY <1>14 DEF ListChildren
    <3>2. d = c \ required(rec.w)
      BY DEF surplus
    <3> HIDE DEF c, d
    <3>3. /\ rec'.at = "surplus" /\ rec'.w = rec.w /\ rec'.label = rec.label
          /\ rec'.controlled = c /\ rec'.todo = d
      BY <3>1 DEF TypeOK
    <3> QED
      BY <3>2, <3>3 DEF c
  <2>3. Progress /\ api' = api
    BY <1>4, <2>1
  <2>4. controlledIn(cache.kids, rec.w) = controlledIn(api.kids, rec.w)
    BY <1>4, <2>1 DEF controlledIn
  <2> QED
    BY <1>6, <2>1, <2>2, <2>3, <2>4 DEF Progress, asDesired
<1>15. CASE DeleteChild
  <2>1. /\ NoWrite /\ queued' = queued
        /\ rec.todo # {} /\ rec.at \in {"surplus", "sweep"} /\ ~api.kids[Min(rec.todo)].there
    BY <1>2, <1>15 DEF DeleteChild, Goes
  <2>2. Min(rec.todo) \in rec.todo
    BY <1>7, <2>1, LeastTodo
  <2>3. rec.todo \subseteq controlledIn(api.kids, rec.w)
    BY <1>4, <2>1 DEF Progress
  <2> QED
    BY <2>1, <2>2, <2>3 DEF controlledIn
<1>16. CASE WriteStatus
  <2> DEFINE ready == Cardinality(rec.controlled \cap required(rec.w))
  <2>1. /\ NoWrite /\ queued' = queued /\ rec' = Idle
        /\ rec.at = "surplus" /\ rec.todo = {} /\ ~statusChanged(ready)
    BY <1>2, <1>16 DEF WriteStatus, Ends, patchStatus
  <2>2. Progress /\ api' = api
    BY <1>4, <2>1
  <2>3. controlledIn(api.kids, api.widget) = required(api.widget)
    BY <1>7, <2>1, <2>2 DEF Progress, asDesired, controlledIn, required
  <2>4. rec.controlled \cap required(rec.w) = required(rec.w)
    BY <2>1, <2>2, <2>3 DEF Progress
  <2>5. ready = api.widget.count
    BY <1>7, <2>2, <2>4, RequiredCount DEF Progress
  <2>6. \A i \in required(api.widget) : api.kids[i].label = api.label
    BY <2>1, <2>2 DEF Progress, asDesired
  <2>7. /\ ~api.widget.deleting
        /\ api.widget.ready = api.widget.count /\ api.widget.obs = api.widget.gen
    BY <2>1, <2>2, <2>5 DEF Progress, statusChanged
  <2> QED
    BY <2>1, <2>2, <2>3, <2>6, <2>7 DEF QuietIsRight, Idle
<1>17. CASE CleanUp
  <2>1. NoWrite /\ queued' = queued /\ rec.at = "cleanup"
    BY <1>17 DEF CleanUp, Goes
  <2>2. /\ rec'.at = IF left = {} THEN "release" ELSE "sweep"
        /\ rec'.w = rec.w /\ rec'.todo = left
    BY <1>17 DEF CleanUp, TypeOK
  <2> QED
    BY <1>4, <1>6, <2>1, <2>2 DEF Progress, left
<1>18. CASE SweepEnds
  <2>1. NoWrite /\ queued' = queued /\ rec.at = "sweep" /\ rec.todo = {}
    BY <1>18 DEF SweepEnds, Ends
  <2> QED
    BY <1>4, <2>1 DEF Progress
<1>19. CASE Release
  <2>1. NoWrite /\ queued' = queued /\ rec.at = "release" /\ (~rec.w.fin \/ ~api.widget.fin)
    BY <1>2, <1>19 DEF Release, Ends
  <2>2. rec.w.fin /\ api.widget.fin
    BY <1>4, <2>1 DEF Progress, OInv, Deleting, AllSound, Sound
  <2> QED
    BY <2>1, <2>2
<1>20. CASE CallFails
  BY <1>2, <1>20 DEF CallFails
<1>21. CASE Restart
  <2>1. ~api'.widget.there /\ rec' = Idle
    BY <1>21 DEF Restart, Undisturbed
  <2> QED
    BY <2>1 DEF QuietIsRight, Idle
<1>22. CASE UserActs
  BY <1>2, <1>22 DEF UserActs, Create, Update, Delete, DeleteManaged, Relabel, Undisturbed
<1>23. ASSUME NEW x \in Objects, CacheSync(x) PROVE FALSE
  BY <1>23 DEF CacheSync, enqueues, Undisturbed
<1>24. CASE UNCHANGED vars
  BY <1>24 DEF vars, QInv, Progress, asDesired, QuietIsRight, AtRest, Undisturbed
<1> QED
  BY <1>10, <1>11, <1>12, <1>13, <1>14, <1>15, <1>16, <1>17, <1>18, <1>19, <1>20, <1>21,
     <1>22, <1>23, <1>24 DEF Next, Reconcile, Rest

\* The three invariants together are inductive.
LEMMA Inductive == Spec => [](TypeOK /\ OInv /\ QInv)
<1>1. Init => TypeOK /\ OInv /\ QInv
  BY InitOInv, InitQInv
<1>2. TypeOK /\ OInv /\ QInv /\ [Next]_vars => (TypeOK /\ OInv /\ QInv)'
  BY StepTypeOK, StepOInv, StepQInv
<1> QED
  BY <1>1, <1>2, PTL DEF Spec

\* The state of the controller keeps its types.
THEOREM WidgetTypes == Spec => []TypeOK
BY Inductive, PTL

\* No ConfigMap outlives its Widget or is there without its Widget's finalizer,
\* whatever the cache lags behind, whichever call fails and wherever a restart
\* stops the worker (Reconcile and syncChildren in widget_controller.go).
THEOREM NoneOrphaned == Spec => []NoOrphans
<1>1. OInv => NoOrphans
  BY DEF OInv
<1> QED
  BY <1>1, Inductive, PTL

\* A controller with nothing queued, nothing under way and nothing to hear of
\* has left every child, label and status as the Widget's spec asks.
THEOREM RestIsRight == Spec => []QuietIsRight
<1>1. QInv => QuietIsRight
  BY DEF QInv
<1> QED
  BY <1>1, Inductive, PTL
=============================================================================
