--------------------------- MODULE DrawAndShrink ---------------------------
(***************************************************************************)
(* Generate and Shrink together: a sequence is drawn, and shrunk where its *)
(* run failed. The command line shrinks only what was drawn                *)
(* (cli.reportFailure); Shrink itself takes any valid sequence, so others  *)
(* may be given, with the faults drawn ones here do not carry.             *)
(***************************************************************************)
EXTENDS Generate, Shrink

CONSTANTS
    Keys,        \* the names of CRs, fixtures and managed kinds
    Given,       \* other valid sequences whose run may fail
    Leasts,      \* how long a fault must last for the bug to show
    MaxNeeds     \* how many ops it needs

Op == [i : Nat, type : OpTypes, key : Keys \cup {NoKey}, noSettle : BOOLEAN, until : Nat,
       fault : [op : Nat, count : Nat, for : Nat, delay : Nat]]

\* The CRs a target's config lets generation name have a name each, and a given
\* sequence is validated when it is read.
ASSUME DrawAndShrinkAssumption ==
    /\ CRNames \in Seq(Keys) /\ Kinds \in Seq(Keys) /\ Fixtures \subseteq Keys /\ NoKey \notin Keys
    /\ \A m, n \in DOMAIN CRNames : CRNames[m] = CRNames[n] => m = n
    /\ Given \subseteq Seq(Op) /\ \A seq \in Given : Valid(seq)
    /\ Leasts \subseteq Nat /\ MaxNeeds \in Nat

vars == <<genVars, shrinkVars>>

Bugs(seq) ==
    {[needs |-> needs, least |-> least, flaky |-> FALSE] :
        needs \in {s \in SUBSET DOMAIN seq : Cardinality(s) <= MaxNeeds}, least \in Leasts} \cup
    {[needs |-> {}, least |-> 0, flaky |-> TRUE]}

\* A drawn sequence that fails under its fault, or a given one, is shrunk.
StartShrinking ==
    /\ \/ /\ drawing = "drawn"
          /\ \E n \in DOMAIN ops : /\ ops[n].type = "fault"
                                   /\ Begin(ops, [needs |-> {n}, least |-> 0, flaky |-> FALSE])
       \/ ops = <<>> /\ \E seq \in Given : \E bug \in Bugs(seq) : Begin(seq, bug)
    /\ UNCHANGED genVars

Idle == (shrinking = "done" \/ (shrinking = "no" /\ drawing = "drawn")) /\ UNCHANGED vars

Init == GenInit /\ ShrinkInit
Next ==
    \/ shrinking = "no" /\ GenNext /\ UNCHANGED shrinkVars
    \/ StartShrinking
    \/ ShrinkNext /\ UNCHANGED genVars
    \/ Idle

Spec == Init /\ [][Next]_vars
FairSpec == Spec /\ WF_vars(ShrinkNext /\ UNCHANGED genVars)
=============================================================================
