---------------------------- MODULE MCCollector ----------------------------
(***************************************************************************)
(* A custom resource, a dependent that names it as owner at a version the  *)
(* API server serves or at one it does not.  The dependent may also name   *)
(* an owner of a kind the collector does not watch, which nobody creates.  *)
(***************************************************************************)
EXTENDS Collector

MCKeys == {"cr", "dep", "ext"}
MCKinds == {"CR", "Dep", "Ext"}
MCKindOf == [k \in MCKeys |-> CASE k = "cr" -> "CR" [] k = "dep" -> "Dep" [] OTHER -> "Ext"]
MCWatched == {"CR", "Dep"}
MCOwnerChoices ==
    [k \in MCKeys |->
        IF k = "dep" THEN {{<<"cr", TRUE>>}, {<<"cr", FALSE>>, <<"ext", TRUE>>}}
        ELSE IF k = "cr" THEN {{}} ELSE {}]

\* Two kinds, for liveness.
MCTwoKeys == {"cr", "dep"}
MCTwoKinds == {"CR", "Dep"}
MCTwoKindOf == [k \in MCTwoKeys |-> IF k = "cr" THEN "CR" ELSE "Dep"]
MCTwoOwnerChoices == [k \in MCTwoKeys |-> IF k = "dep" THEN {{<<"cr", TRUE>>}} ELSE {{}}]

=============================================================================
