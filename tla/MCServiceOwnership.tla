------------------------- MODULE MCServiceOwnership -------------------------
(***************************************************************************)
(* Small instances of the commands that share a data directory.            *)
(***************************************************************************)
EXTENDS ServiceOwnership

CONSTANTS s1, s2, t1

Two == {s1, s2}
Second == {s2}
OneStop == {t1}
Nobody == {}

Alike == {[i \in Starts |-> 1]}
SomeDiffer == Alike \cup {[i \in Starts |-> IF i = s2 THEN 2 ELSE 1]}
Everybody == Commands

=============================================================================
