--------------------- MODULE LifecycleRefinementProofs ---------------------
(***************************************************************************)
(* The lifecycle implements the promise, for every graph, budget and set   *)
(* of faults.                                                              *)
(***************************************************************************)
EXTENDS LifecycleRefinement, TaskLifecycleProofs

\* A held Run has been bootstrapped.
HeldHasStage == run = "blocked" => \E s \in Stages : state[s] # "absent"

LEMMA RunMoves ==
  ASSUME [Next]_vars
  PROVE  \/ run' = run
         \/ Bootstrap
         \/ FinishRun
<1>1. CASE ApplyCandidates \/ ApplyReviews \/ ApplyExecutionFailures
  BY <1>1 DEF ApplyCandidates, ApplyReviews, ApplyExecutionFailures
<1>2. CASE PropagateFailures \/ ApplyExpansions \/ CloseReviewNodes
  BY <1>2 DEF PropagateFailures, ApplyExpansions, CloseReviewNodes
<1>3. CASE FreezeInputs \/ PromoteReady \/ StartWorkers
  BY <1>3 DEF FreezeInputs, PromoteReady, StartWorkers
<1>4. CASE WakeReviewers \/ WakeRevisions \/ WakeParents \/ WakeIdleWorkers
  BY <1>4 DEF WakeReviewers, WakeRevisions, WakeParents, WakeIdleWorkers
<1>5. CASE Restart \/ Facts \/ UNCHANGED vars
  BY <1>5, FactsKeepState DEF Restart, vars
<1> QED
  BY <1>1, <1>2, <1>3, <1>4, <1>5 DEF Next, ReconcilePass

LEMMA HeldStep ==
  ASSUME Consistent, HeldHasStage, [Next]_vars
  PROVE  HeldHasStage'
<1> SUFFICES ASSUME run' = "blocked" PROVE \E s \in Stages : state'[s] # "absent"
  BY DEF HeldHasStage
<1>1. \E s \in Stages : state[s] # "absent"
  <2>1. CASE run' = run
    BY <2>1 DEF HeldHasStage
  <2>2. CASE Bootstrap
    BY <2>2 DEF Bootstrap, HeldHasStage
  <2>3. CASE FinishRun
    BY <2>3 DEF FinishRun, HeldHasStage
  <2> QED
    BY <2>1, <2>2, <2>3, RunMoves
<1>2. Stages \subseteq Nodes
  BY DEF Nodes, Tasks
<1> QED
  BY <1>1, <1>2, NodesStay DEF Consistent

\* Every move of a Task is one the promise allows.
LEMMA OutcomeMoves ==
  ASSUME Consistent, [Next]_vars, NEW n \in Tasks
  PROVE  /\ OutcomeOf(n)' \in {"absent", "open", "kept", "lost", "held"}
         /\ OutcomeOf(n)' \in Promise!After(OutcomeOf(n))
         /\ n \in Kids /\ OutcomeOf(n) = "absent" /\ OutcomeOf(n)' = "open"
              => OutcomeOf(Parent(n)) = "open"
<1> USE DEF Consistent
<1>0. n \in Nodes /\ state[n] \in NodeStates
  BY DEF Nodes, TypeOK
<1>1. state'[n] \in NodeStates
  BY <1>0, ConsistentStep DEF TypeOK
<1>2. \/ state'[n] = state[n]
      \/ /\ state[n] = "absent"
         /\ state'[n] = "pending"
         /\ n \in Kids => IsOpen(Parent(n))
      \/ /\ state[n] \in Open
         /\ state'[n] \in Open \cup Dead \cup {"blocked", "succeeded"}
  <2>1. CASE ApplyReviews
    BY <2>1, ReviewsMove DEF ReviewMove, Open
  <2>2. CASE (ReconcilePass \/ Restart) /\ ~ApplyReviews
    BY <1>0, <2>2, PhasesMove DEF NodeMoves, IsOpen
  <2>3. CASE Facts \/ UNCHANGED vars
    BY <2>3, FactsKeepState DEF vars
  <2> QED
    BY <2>1, <2>2, <2>3 DEF Next
<1> QED
  BY <1>0, <1>1, <1>2
     DEF OutcomeOf, Promise!After, NodeStates, Open, Terminal, Dead, IsOpen

\* What FinishRun decides is what the promise concludes.
LEMMA FinishConcludes ==
  ASSUME TypeOK, FinishRun, run' # run
  PROVE  Promise!Conclude
<1>0. /\ Stages \subseteq Nodes /\ Kids \subseteq Nodes
      /\ Stages \subseteq Tasks /\ Kids \subseteq Tasks
  BY DEF Nodes, Tasks
<1>1. run' = RunVerdict /\ state' = state /\ run \notin RunTerminal
  BY DEF FinishRun, Pass, RunIsOpen
<1>2. \A n \in Tasks : OutcomeOf(n)' = OutcomeOf(n)
  BY <1>1 DEF OutcomeOf
<1>3. VerdictOf \in {"open", "held"}
  BY <1>1 DEF VerdictOf
<1>4. CASE run' = "blocked"
  <2>1. PICK s \in Stages : state[s] = "blocked"
    BY <1>1, <1>4 DEF RunVerdict
  <2>2. OutcomeOf(s) = "held"
    BY <2>1 DEF OutcomeOf, Open, Dead
  <2>3. VerdictOf' = "held"
    BY <1>4 DEF VerdictOf, RunTerminal
  <2> QED
    BY <1>0, <1>2, <1>3, <2>2, <2>3 DEF Promise!Conclude, Promise!Hold
<1>5. CASE run' = "completed"
  <2>1. /\ \A s \in Stages : state[s] = "succeeded"
        /\ {k \in Kids : state[k] \notin {"absent", "succeeded"}} = {}
    BY <1>1, <1>5 DEF RunVerdict
  <2>2. /\ \A s \in Stages : OutcomeOf(s) = "kept"
        /\ \A k \in Kids : OutcomeOf(k) \in {"absent", "kept"}
    BY <2>1 DEF OutcomeOf, Open, Dead
  <2>3. VerdictOf' = "completed"
    BY <1>5 DEF VerdictOf, RunTerminal
  <2> QED
    BY <1>0, <1>2, <1>3, <2>2, <2>3 DEF Promise!Conclude, Promise!Complete
<1>6. CASE run' = "failed"
  <2>1. \A s \in Stages : state[s] # "blocked"
    BY <1>1, <1>6 DEF RunVerdict
  <2>2. PICK n \in Tasks : state[n] \in Dead
    BY <1>0, <1>1, <1>6 DEF RunVerdict
  <2>3. OutcomeOf(n) = "lost"
    BY <2>2 DEF OutcomeOf, Open, Dead
  <2>4. \A s \in Stages : OutcomeOf(s) # "held"
    BY <1>0, <2>1 DEF OutcomeOf, TypeOK, NodeStates, Terminal, Dead
  <2>5. VerdictOf' = "failed"
    BY <1>6 DEF VerdictOf, RunTerminal
  <2> QED
    BY <1>0, <1>2, <1>3, <2>3, <2>4, <2>5
       DEF Promise!Conclude, Promise!Fail, Promise!Tasks, Tasks
<1> QED
  BY <1>1, <1>4, <1>5, <1>6 DEF RunVerdict

\* Every step of the lifecycle is a step of the promise, or none.
LEMMA PromiseStep ==
  ASSUME Consistent, HeldHasStage, [Next]_vars
  PROVE  [Promise!Next]_<<[n \in Tasks |-> OutcomeOf(n)], VerdictOf>>
<1>1. CASE FinishRun /\ run' # run
  BY <1>1, FinishConcludes DEF Consistent, Promise!Next
<1>2. CASE run \in RunTerminal
  <2>1. state' = state /\ run' = run
    BY <1>2, TerminalRunRests, FactsKeepState DEF Next, vars
  <2> QED
    BY <2>1 DEF OutcomeOf, VerdictOf
<1>3. CASE run \notin RunTerminal /\ VerdictOf' = VerdictOf
  <2>1. VerdictOf \in {"open", "held"}
    BY <1>3 DEF VerdictOf
  <2>2. \A n \in Tasks :
          /\ OutcomeOf(n)' \in {"absent", "open", "kept", "lost", "held"}
          /\ OutcomeOf(n)' \in Promise!After(OutcomeOf(n))
    BY OutcomeMoves
  <2>3. \A k \in Kids :
          /\ k \in Tasks /\ Parent(k) \in Tasks
          /\ OutcomeOf(k) = "absent" /\ OutcomeOf(k)' = "open"
               => OutcomeOf(Parent(k)) = "open"
    BY OutcomeMoves, GraphAssumption DEF Tasks, Parent
  <2>4. Promise!Work
    BY <1>3, <2>1, <2>2, <2>3 DEF Promise!Work, Promise!Tasks, Tasks
  <2> QED
    BY <2>4 DEF Promise!Next
<1>4. CASE Bootstrap /\ run' # run /\ run \notin RunTerminal
  <2>1. run' = "running" /\ \A n \in Nodes : state[n] = "absent"
    BY <1>4 DEF Bootstrap, Committed
  <2>2. run # "blocked"
    BY <2>1 DEF HeldHasStage, Nodes, Tasks
  <2> QED
    BY <1>3, <1>4, <2>1, <2>2 DEF VerdictOf, RunTerminal
<1> QED
  BY <1>1, <1>2, <1>3, <1>4, RunMoves DEF VerdictOf

\* The Run keeps its promise: Tasks move one way, under open owners, and the
\* Run concludes only what their outcomes support.
THEOREM PromiseKept == Spec => ImplementsPromise
<1>1. Init => Promise!Init /\ HeldHasStage
  <2> SUFFICES ASSUME Init PROVE Promise!Init /\ HeldHasStage
    OBVIOUS
  <2>1. \A n \in Tasks : OutcomeOf(n) = "absent"
    BY DEF Init, OutcomeOf, Nodes, Open, Dead
  <2>2. VerdictOf = "open" /\ HeldHasStage
    BY DEF Init, VerdictOf, RunTerminal, HeldHasStage
  <2> QED
    BY <2>1, <2>2 DEF Promise!Init, Promise!Tasks, Tasks
<1> QED
  BY <1>1, HeldStep, PromiseStep, AlwaysConsistent, PTL
     DEF Spec, ImplementsPromise, Promise!Spec

=============================================================================
