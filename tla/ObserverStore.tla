--------------------------- MODULE ObserverStore ---------------------------
(***************************************************************************)
(* The version history the Observer keeps of the run namespace             *)
(* (internal/observe/store.go), as operators on the sequence of versions   *)
(* in the order recorded.  A version carries the fields the checks read:   *)
(*   key       the object's kind and name; a recreated object keeps it     *)
(*   uid       a new one for every incarnation under the key               *)
(*   rv        the resourceVersion                                         *)
(*   time      when the event arrived; instants are positive and 0 is the  *)
(*             zero time.Time                                              *)
(*   owner     the uid of the CR its ownerReferences name, 0 for none      *)
(*   fin, deleting, deleted                                                *)
(*             it carries finalizers, has a deletionTimestamp, is gone     *)
(*   ready     what the target's Ready predicate evaluates to on it        *)
(*   val       the rest of its content                                     *)
(***************************************************************************)
EXTENDS Integers, Sequences, FiniteSetsExt, SequencesExt

CONSTANTS
    PrimaryKeys,   \* keys of objects of the target's primary kind
    ManagedKeys    \* keys of objects of the kinds the target declares it manages

Keys == PrimaryKeys \cup ManagedKeys

-----------------------------------------------------------------------------

History(versions, key) == SelectSeq(versions, LAMBDA v : v.key = key)

\* The positions of the last version of each object recorded by t.
LatestAt(versions, t) ==
    {i \in DOMAIN versions :
        /\ versions[i].time <= t
        /\ \A j \in i + 1 .. Len(versions) :
              versions[j].key = versions[i].key => versions[j].time > t}

\* What Live keeps: the latest version of every object that still exists.
Live(versions, t) ==
    {v \in {versions[i] : i \in LatestAt(versions, t)} : ~v.deleted}

Window(versions, from, to) ==
    SelectSeq(versions, LAMBDA v : from <= v.time /\ v.time <= to)

\* An object is the target's by its kind, unless reconciler-fuzzer or the
\* cluster created it.
IsManaged(excluded, key) == key \in ManagedKeys \ excluded

Current(versions, t) == {v \in Live(versions, t) : v.key \in PrimaryKeys}

Managed(versions, excluded, t) ==
    {v \in Live(versions, t) : IsManaged(excluded, v.key)}

\* Record: a version the store already holds last under its key is dropped, so
\* that a relist does not duplicate history.
Record(versions, v) ==
    LET held == History(versions, v.key)
        last == held[Len(held)]
    IN  IF /\ held # <<>>
           /\ last.uid = v.uid /\ last.rv = v.rv /\ last.deleted = v.deleted
        THEN versions
        ELSE Append(versions, v)
=============================================================================
