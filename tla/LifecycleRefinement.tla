------------------------ MODULE LifecycleRefinement ------------------------
(***************************************************************************)
(* The reconcile pass implements the promise: the outcome of a Task and    *)
(* the verdict of the Run are functions of the committed state.            *)
(***************************************************************************)
EXTENDS TaskLifecycle

OutcomeOf(n) ==
  CASE state[n] = "absent" -> "absent"
    [] state[n] \in Open -> "open"
    [] state[n] = "succeeded" -> "kept"
    [] state[n] \in Dead -> "lost"
    [] state[n] = "blocked" -> "held"

VerdictOf ==
  CASE run \in RunTerminal -> run
    [] run = "blocked" -> "held"
    [] OTHER -> "open"

Promise == INSTANCE TaskPromise WITH
  Owner <- [k \in Kids |-> Parent(k)],
  outcome <- [n \in Tasks |-> OutcomeOf(n)],
  verdict <- VerdictOf

\* Every behaviour of the lifecycle is one the promise allows.
ImplementsPromise == Promise!Spec

=============================================================================
