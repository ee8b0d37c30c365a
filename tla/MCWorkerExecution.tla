------------------------- MODULE MCWorkerExecution -------------------------
(***************************************************************************)
(* Small instances of the execution of one Worker: one Controller that may *)
(* crash, or two that do not.                                              *)
(***************************************************************************)
EXTENDS WorkerExecution, TLC

CONSTANTS c1, c2, wake

OneController == {c1}
TwoControllers == {c1, c2}
OneWake == {wake}
NoWakes == {}

Normal == {}
Failing == {"failed"}
AnyEnding == {"failed", "unknown"}

\* Controllers run the same code and are never compared.
Peers == Permutations(Controllers)

=============================================================================
