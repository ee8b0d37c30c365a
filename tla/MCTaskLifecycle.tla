-------------------------- MODULE MCTaskLifecycle --------------------------
(***************************************************************************)
(* Small instances of the lifecycle: one stage with an expansion of one or *)
(* two kids that its own Worker reviews, or two stages in a row.           *)
(***************************************************************************)
EXTENDS LifecycleRefinement

CONSTANTS s1, s2, k1, k2, e1

Nobody == {}
Empty == [n \in {} |-> n]

OneStage == {s1}
TwoStages == {s1, s2}
StageChain == [n \in {s1, s2} |-> IF n = s2 THEN {s1} ELSE {}]

OneKid == {k1}
TwoKids == {k1, k2}
OneExpansion == {e1}
OwnerIsStage == [e \in {e1} |-> s1]
OneInGroup == [k \in {k1} |-> e1]
TwoInGroup == [k \in {k1, k2} |-> e1]
NoDeps == [n \in {s1} \cup Kids |-> {}]
KidChain == [n \in {s1, k1, k2} |-> IF n = k2 THEN {k1} ELSE {}]

FirstKid == {k1}
Everybody == Nodes
Reviews == Checkers

=============================================================================
