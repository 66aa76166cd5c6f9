------------------------- MODULE GarbageCollection -------------------------
(***************************************************************************)
(* What the collector promises, over the API server's objects of the run   *)
(* namespace: an object with owners is deleted only when every owner is    *)
(* gone, as kube-controller-manager would do it.                           *)
(*                                                                         *)
(* The API server is modelled as the collector meets it: every object has  *)
(* a UID that is never used again and a resourceVersion that every write   *)
(* raises, a delete may name both as preconditions, and a finalizer turns  *)
(* a delete into a mark.  Objects are written by the target, the runner    *)
(* and the target's own deletes; kind and name together are a key.         *)
(***************************************************************************)
EXTENDS Naturals

CONSTANTS
    Keys,         \* objects of the namespace, by kind and name
    Kinds,
    KindOf,       \* the kind of each key
    Watched,      \* the kinds the collector watches
    OwnerChoices, \* OwnerChoices[k]: the sets of <<owner, version is served>> k may name
    MaxUID,       \* bound: objects created
    MaxVersion    \* bound: the others write no later version

ASSUME GarbageCollectionConstants ==
    /\ Keys # {}
    /\ KindOf \in [Keys -> Kinds]
    /\ Watched \subseteq Kinds
    /\ OwnerChoices \in [Keys -> SUBSET SUBSET (Keys \X BOOLEAN)]
    /\ MaxUID \in Nat
    /\ MaxVersion \in Nat

VARIABLES
    store,  \* store[k]: the object at k, NoObject if there is none
    uids,   \* the last UID given
    version, \* the last resourceVersion given
    writer  \* whose write that was: the collector has a user agent of its own

serverVars == <<store, uids, version, writer>>

\* An ownerReference: its key has no version, as the collector's ownerKey.
Ref == [key : Keys, served : BOOLEAN, uid : Nat]

Object == [uid : Nat, version : Nat, refs : SUBSET Ref, finalizer : BOOLEAN,
           deleting : BOOLEAN]

NoObject == [uid |-> 0, version |-> 0, refs |-> {}, finalizer |-> FALSE,
             deleting |-> FALSE]

ServerTypeOK ==
    /\ store \in [Keys -> Object]
    /\ uids \in 0 .. MaxUID
    /\ version \in Nat
    /\ writer \in {"nobody", "others", "collector"}

\* The references k may carry: a writer takes an owner's UID from an object it
\* has seen, so it names no UID yet to be given.
RefsOf(k) ==
    UNION {{{[key |-> o[1], served |-> o[2], uid |-> f[o]] : o \in owners} :
               f \in [owners -> 1 .. uids]} : owners \in OwnerChoices[k]}

\* The collector can resolve the owner: it watches the kind, and the API server
\* serves the version the reference names.
Resolvable(ref) == KindOf[ref.key] \in Watched /\ ref.served

Gone(ref) == Resolvable(ref) /\ store[ref.key].uid # ref.uid

\* An object of a watched kind that must be deleted.
Orphan(k) ==
    /\ store[k].uid # 0
    /\ ~store[k].deleting
    /\ KindOf[k] \in Watched
    /\ store[k].refs # {}
    /\ \A ref \in store[k].refs : Gone(ref)

-----------------------------------------------------------------------------
ServerInit ==
    /\ store = [k \in Keys |-> NoObject]
    /\ uids = 0
    /\ version = 0
    /\ writer = "nobody"

Write(by, k, object) ==
    /\ by = "others" => version < MaxVersion
    /\ version' = version + 1
    /\ writer' = by
    /\ store' = [store EXCEPT ![k] = object]

Create(k) ==
    /\ store[k].uid = 0
    /\ uids < MaxUID
    /\ uids' = uids + 1
    /\ \E refs \in RefsOf(k), finalizer \in BOOLEAN :
          Write("others", k,
                [uid |-> uids + 1, version |-> version + 1, refs |-> refs,
                 finalizer |-> finalizer, deleting |-> FALSE])

\* A live owner adopts the object, or an owner lets go of it.
Adopt(k) ==
    /\ store[k].uid # 0
    /\ \E refs \in RefsOf(k) :
          /\ refs # store[k].refs
          /\ Write("others", k, [store[k] EXCEPT !.refs = refs, !.version = version + 1])
    /\ UNCHANGED uids

\* The object a delete leaves: none, or a marked one while it has a finalizer.
Deleted(object) ==
    IF object.finalizer
      THEN [object EXCEPT !.deleting = TRUE, !.version = version + 1]
      ELSE NoObject

\* A delete of an object already marked changes nothing.
DeleteObject(by, k) ==
    /\ store[k].uid # 0
    /\ ~store[k].deleting
    /\ Write(by, k, Deleted(store[k]))
    /\ UNCHANGED uids

\* The last finalizer goes; a marked object goes with it.
Finalize(k) ==
    /\ store[k].finalizer
    /\ Write("others", k,
             IF store[k].deleting THEN NoObject
             ELSE [store[k] EXCEPT !.finalizer = FALSE, !.version = version + 1])
    /\ UNCHANGED uids

Others(k) == Create(k) \/ Adopt(k) \/ DeleteObject("others", k) \/ Finalize(k)

\* The collector deletes k.
Collect(k) == Orphan(k) /\ DeleteObject("collector", k)

GCNext == \E k \in Keys : Others(k) \/ Collect(k)

GCSpec == ServerInit /\ [][GCNext]_serverVars

=============================================================================
