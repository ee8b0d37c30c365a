------------------------ MODULE TaskLifecycleProofs ------------------------
(***************************************************************************)
(* Proofs about the lifecycle, for every graph, budget and set of faults.  *)
(***************************************************************************)
EXTENDS TaskLifecycle, TLAPS

\* Moving some Nodes to states of the right type keeps the type of state.
LEMMA UpdatedType ==
  ASSUME state \in [Nodes -> NodeStates], NEW done, NEW new,
         \A n \in done \cap Nodes : new[n] \in NodeStates
  PROVE  Updated(done, new) \in [Nodes -> NodeStates]
  BY DEF Updated

LEMMA MovedType ==
  ASSUME state \in [Nodes -> NodeStates], NEW done, NEW to \in NodeStates
  PROVE  Moved(done, to) \in [Nodes -> NodeStates]
  BY UpdatedType DEF Moved

LEMMA PassType ==
  ASSUME NEW here, NEW due, NEW done, NEW next \in Phases, Pass(here, due, done, next)
  PROVE  phase' \in Phases
  BY DEF Pass, Phases

\* The initial state is well typed.
LEMMA InitType == Init => TypeOK
  BY NodesAssumption DEF Init, TypeOK, NodeStates, Open, Terminal, Decisions,
     Verdicts, Requests, Observations, RunStatuses, Phases

\* Every fact keeps the types.
LEMMA FactsType == TypeOK /\ Facts => TypeOK'
<1> SUFFICES ASSUME TypeOK, Facts PROVE TypeOK'
  OBVIOUS
<1>0. Tasks \subseteq Nodes
  BY DEF Nodes
<1>1. ASSUME NEW n \in Tasks, SubmitCandidate(n) PROVE TypeOK'
  <2>1. round[n] + 1 \in 1..MaxRounds
    BY <1>1, NodesAssumption DEF SubmitCandidate, RoundAllowed, TypeOK
  <2>2. round' \in [Tasks -> 0..MaxRounds]
    BY <1>1, <2>1, NodesAssumption DEF SubmitCandidate, TypeOK
  <2>3. decision' \in [Tasks -> [1..MaxRounds -> Decisions]]
    BY <1>1, <2>1 DEF SubmitCandidate, TypeOK, Decisions
  <2> QED
    BY <1>1, <2>2, <2>3 DEF SubmitCandidate, TypeOK, workerVars, inboxVars
<1>2. ASSUME NEW n \in Tasks, NEW v \in Verdicts, RecordReview(n, v)
      PROVE  decision' \in [Tasks -> [1..MaxRounds -> Decisions]]
  BY <1>2 DEF RecordReview, TypeOK, Decisions
<1>3. ASSUME NEW n \in Tasks, SubmitReview(n) PROVE TypeOK'
  <2>1. request' \in [Expansions -> Requests]
    BY <1>3 DEF SubmitReview, TypeOK, Requests
  <2>2. \E v \in Verdicts : RecordReview(n, v)
    BY <1>3 DEF SubmitReview, Verdicts
  <2>3. PICK v \in Verdicts : RecordReview(n, v)
    BY <2>2
  <2> QED
    BY <1>2, <2>1, <2>3 DEF RecordReview, TypeOK, workerVars, inboxVars
<1>4. ASSUME NEW n \in Tasks, Deliver(n) PROVE TypeOK'
  <2>1. Deliverable(n) \subseteq sent
    BY DEF Deliverable
  <2> QED
    BY <1>4, <2>1 DEF Deliver, TypeOK, taskVars, workerVars
<1>5. ASSUME NEW e \in Expansions, RequestExpansion(e) PROVE TypeOK'
  BY <1>5 DEF RequestExpansion, TypeOK, Requests, taskVars, workerVars, inboxVars
<1>6. ASSUME NEW n \in Nodes, Observe(n) PROVE TypeOK'
  BY <1>6 DEF Observe, TypeOK, Observations, taskVars, inboxVars
<1>7. ASSUME NEW n \in Nodes, ReportUsage(n) PROVE TypeOK'
  BY <1>7 DEF ReportUsage, TypeOK, taskVars, inboxVars
<1> QED
  BY <1>1, <1>3, <1>4, <1>5, <1>6, <1>7 DEF Facts

\* The message that asks a parent for a review has the type of a message.
LEMMA ReviewMessageType ==
  ASSUME TypeOK, NEW n \in Tasks \ Checked
  PROVE  ReviewMessage(n) \in Messages
  BY NodesAssumption, GraphAssumption
     DEF ReviewMessage, Messages, Parent, Tasks, TypeOK

\* Every phase of the pass keeps the types.
LEMMA PassKeepsType == TypeOK /\ (ReconcilePass \/ Restart) => TypeOK'
<1> SUFFICES ASSUME TypeOK, ReconcilePass \/ Restart PROVE TypeOK'
  OBVIOUS
<1> USE DEF taskVars, workerVars, inboxVars
<1>0. /\ Tasks \subseteq Nodes
      /\ state \in [Nodes -> NodeStates]
      /\ Kids \subseteq Tasks
      /\ {"succeeded", "failed", "blocked", "cancelled", "pending", "ready",
          "running", "awaiting_review"} \subseteq NodeStates
  BY DEF Nodes, Tasks, TypeOK, NodeStates, Open, Terminal
<1>1. CASE ApplyCandidates
  <2>1. state' \in [Nodes -> NodeStates]
    BY <1>0, <1>1, MovedType DEF ApplyCandidates
  <2>2. phase' \in Phases
    BY <1>1, PassType DEF ApplyCandidates, Phases
  <2> QED
    BY <1>1, <2>1, <2>2 DEF ApplyCandidates, TypeOK
<1>2. CASE ApplyReviews
  <2>1. PICK done :
          /\ state' = Updated(done, [n \in done |-> ReviewOutcome(n)])
          /\ accepted' = [n \in Tasks |->
               IF n \in done /\ ReviewOutcome(n) = "succeeded"
               THEN round[n] ELSE accepted[n]]
    BY <1>2 DEF ApplyReviews
  <2>2. state' \in [Nodes -> NodeStates]
    <3>1. \A n : ReviewOutcome(n) \in NodeStates
      BY <1>0 DEF ReviewOutcome
    <3>2. \A n \in done \cap Nodes :
            [m \in done |-> ReviewOutcome(m)][n] \in NodeStates
      BY <3>1
    <3> QED
      BY <1>0, <2>1, <3>2, UpdatedType
  <2>3. accepted' \in [Tasks -> 0..MaxRounds]
    BY <2>1 DEF TypeOK
  <2>4. phase' \in Phases
    BY <1>2, PassType DEF ApplyReviews, Phases
  <2> QED
    BY <1>2, <2>2, <2>3, <2>4 DEF ApplyReviews, TypeOK
<1>3. CASE ApplyExecutionFailures
  <2>1. state' \in [Nodes -> NodeStates]
    <3>1. PICK done :
            state' = Updated(done,
              [n \in done |-> IF n \in Failing THEN "failed" ELSE "blocked"])
      BY <1>3 DEF ApplyExecutionFailures
    <3> QED
      BY <1>0, <3>1, UpdatedType
  <2>2. phase' \in Phases
    BY <1>3, PassType DEF ApplyExecutionFailures, Phases
  <2> QED
    BY <1>3, <2>1, <2>2 DEF ApplyExecutionFailures, TypeOK
<1>4. CASE PropagateFailures
  <2>1. state' \in [Nodes -> NodeStates]
    <3>1. PICK done, new :
            /\ new \in [done -> {"failed", "blocked", "cancelled"}]
            /\ state' = Updated(done, new)
      BY <1>4 DEF PropagateFailures
    <3> QED
      BY <1>0, <3>1, UpdatedType
  <2>2. phase' \in Phases
    BY <1>4, PassType DEF PropagateFailures, Phases
  <2> QED
    BY <1>4, <2>1, <2>2 DEF PropagateFailures, TypeOK
<1>5. CASE ApplyExpansions
  <2>1. PICK granted, done :
          /\ request' = [e \in Expansions |->
               IF e \in granted THEN "applied"
               ELSE IF e \in done THEN "rejected" ELSE request[e]]
          /\ state' = Moved(Granted(granted), "pending")
    BY <1>5 DEF ApplyExpansions
  <2>2. state' \in [Nodes -> NodeStates]
    BY <1>0, <2>1, MovedType
  <2>3. request' \in [Expansions -> Requests]
    BY <2>1 DEF TypeOK, Requests
  <2>4. phase' \in Phases
    BY <1>5, PassType DEF ApplyExpansions, Phases
  <2> QED
    BY <1>5, <2>2, <2>3, <2>4 DEF ApplyExpansions, TypeOK
<1>6. CASE Bootstrap
  <2>1. state' \in [Nodes -> NodeStates] /\ run' \in RunStatuses
    BY <1>0, <1>6, MovedType DEF Bootstrap, TypeOK, RunStatuses
  <2>2. phase' \in Phases
    BY <1>6, PassType DEF Bootstrap, Phases
  <2> QED
    BY <1>6, <2>1, <2>2 DEF Bootstrap, TypeOK
<1>7. CASE CloseReviewNodes
  <2>1. state' \in [Nodes -> NodeStates]
    BY <1>0, <1>7, MovedType DEF CloseReviewNodes
  <2>2. phase' \in Phases
    BY <1>7, PassType DEF CloseReviewNodes, Phases
  <2> QED
    BY <1>7, <2>1, <2>2 DEF CloseReviewNodes, TypeOK
<1>8. CASE FreezeInputs
  <2>1. PICK done \in SUBSET Nodes, refused \in SUBSET Faulty :
          /\ inputs' = inputs \cup (done \ refused)
          /\ state' = Moved(refused, "failed")
    BY <1>8 DEF FreezeInputs, Committed
  <2>2. state' \in [Nodes -> NodeStates]
    BY <1>0, <2>1, MovedType
  <2>3. inputs' \in SUBSET Nodes
    BY <2>1 DEF TypeOK
  <2>4. phase' \in Phases
    BY <1>8, PassType DEF FreezeInputs, Phases
  <2> QED
    BY <1>8, <2>2, <2>3, <2>4 DEF FreezeInputs, TypeOK
<1>9. CASE PromoteReady
  <2>1. state' \in [Nodes -> NodeStates]
    BY <1>0, <1>9, MovedType DEF PromoteReady
  <2>2. phase' \in Phases
    BY <1>9, PassType DEF PromoteReady, Phases
  <2> QED
    BY <1>9, <2>1, <2>2 DEF PromoteReady, TypeOK
<1>10. CASE StartWorkers
  <2>1. PICK done, refused :
          /\ state' = Updated(done,
               [n \in done |-> IF n \in refused THEN "failed" ELSE "running"])
          /\ observed' = [n \in Nodes |->
               IF n \in done \ refused THEN "live" ELSE observed[n]]
    BY <1>10 DEF StartWorkers
  <2>2. state' \in [Nodes -> NodeStates]
    BY <1>0, <2>1, UpdatedType
  <2>3. observed' \in [Nodes -> Observations]
    BY <2>1 DEF TypeOK, Observations
  <2>4. phase' \in Phases
    BY <1>10, PassType DEF StartWorkers, Phases
  <2> QED
    BY <1>10, <2>2, <2>3, <2>4 DEF StartWorkers, TypeOK
<1>11. CASE WakeReviewers
  <2>1. PICK done :
          /\ state' = Updated(done \ ParentToAsk,
               [n \in done |-> IF n \in ParentLost THEN "failed" ELSE "pending"])
          /\ sent' = sent \cup {ReviewMessage(n) : n \in done \cap ParentToAsk}
    BY <1>11 DEF WakeReviewers
  <2>2. state' \in [Nodes -> NodeStates]
    BY <1>0, <2>1, UpdatedType
  <2>3. sent' \in SUBSET Messages
    <3>1. ParentToAsk \subseteq Tasks \ Checked
      BY DEF ParentToAsk, ReviewedByParent, Waiting
    <3>2. \A n \in ParentToAsk : ReviewMessage(n) \in Messages
      BY <3>1, ReviewMessageType
    <3> QED
      BY <2>1, <3>2 DEF TypeOK
  <2>4. phase' \in Phases
    BY <1>11, PassType DEF WakeReviewers, Phases
  <2> QED
    BY <1>11, <2>2, <2>3, <2>4 DEF WakeReviewers, TypeOK
<1>12. CASE WakeRevisions
  <2>1. PICK done \in SUBSET Tasks :
          /\ state' = Moved(done \cap spent, "failed")
          /\ sent' = sent \cup {ReviseMessage(n, round[n]) : n \in done \ spent}
    BY <1>12 DEF WakeRevisions, Committed
  <2>2. state' \in [Nodes -> NodeStates]
    BY <1>0, <2>1, MovedType
  <2>3. \A n \in Tasks : ReviseMessage(n, round[n]) \in Messages
    BY DEF ReviseMessage, Messages, TypeOK
  <2>4. sent' \in SUBSET Messages
    BY <2>1, <2>3 DEF TypeOK
  <2>5. phase' \in Phases
    BY <1>12, PassType DEF WakeRevisions, Phases
  <2> QED
    BY <1>12, <2>2, <2>4, <2>5 DEF WakeRevisions, TypeOK
<1>13. CASE WakeParents
  <2>1. /\ \A k \in Kids : AcceptedMessage(k) \in Messages
        /\ \A e \in Expansions : JoinMessage(e) \in Messages
    BY <1>0, NodesAssumption, GraphAssumption
       DEF AcceptedMessage, JoinMessage, Messages, Parent, TypeOK
  <2>5. Wakes \subseteq Messages
    BY <2>1 DEF Wakes
  <2>2. PICK done \in SUBSET Messages :
          /\ state' = Moved({m.to : m \in done} \cap spent, "failed")
          /\ sent' = sent \cup {m \in done : m.to \notin spent}
    BY <1>13, <2>5 DEF WakeParents, Committed
  <2>3. state' \in [Nodes -> NodeStates]
    BY <1>0, <2>2, MovedType
  <2>4. sent' \in SUBSET Messages
    BY <2>2 DEF TypeOK
  <2>6. phase' \in Phases
    BY <1>13, PassType DEF WakeParents, Phases
  <2> QED
    BY <1>13, <2>3, <2>4, <2>6 DEF WakeParents, TypeOK
<1>14. CASE WakeIdleWorkers
  <2>1. state' \in [Nodes -> NodeStates]
    BY <1>0, <1>14, MovedType DEF WakeIdleWorkers
  <2>2. phase' \in Phases
    BY <1>14, PassType DEF WakeIdleWorkers, Phases
  <2> QED
    BY <1>14, <2>1, <2>2 DEF WakeIdleWorkers, TypeOK
<1>15. CASE FinishRun
  <2>1. run' \in RunStatuses
    BY <1>15 DEF FinishRun, RunVerdict, TypeOK, RunStatuses, RunTerminal
  <2>2. phase' \in Phases
    BY <1>15, PassType DEF FinishRun, Phases
  <2> QED
    BY <1>15, <2>1, <2>2 DEF FinishRun, TypeOK
<1>16. CASE Restart
  BY <1>16 DEF Restart, TypeOK, Phases
<1> QED
  BY <1>1, <1>2, <1>3, <1>4, <1>5, <1>6, <1>7, <1>8, <1>9, <1>10, <1>11,
     <1>12, <1>13, <1>14, <1>15, <1>16 DEF ReconcilePass

\* Each variable always has its type: no fact and no phase, however cut short,
\* writes a state, round, verdict, receipt or message that does not exist.
THEOREM TypeCorrect == Spec => []TypeOK
<1>1. TypeOK /\ [Next]_vars => TypeOK'
  <2> SUFFICES ASSUME TypeOK, [Next]_vars PROVE TypeOK'
    OBVIOUS
  <2>1. CASE Next
    BY <2>1, FactsType, PassKeepsType DEF Next
  <2>2. CASE UNCHANGED vars
    BY <2>2 DEF vars, taskVars, workerVars, inboxVars, TypeOK
  <2> QED
    BY <2>1, <2>2
<1> QED
  BY <1>1, InitType, PTL DEF Spec

-----------------------------------------------------------------------------
(* What the phases may do to a Node.                                       *)

\* A Kid exists only once the request for its group was applied.
KidsAreGranted ==
  \A k \in Kids : state[k] # "absent" => request[GroupOf[k]] = "applied"

\* Only a Node that exists has a Worker.
WorkersExist == \A n \in Nodes : HasWorker(n) => state[n] # "absent"

\* Nothing is recorded of the rounds still to come.
FutureIsBlank ==
  \A n \in Tasks : \A r \in 1..MaxRounds :
    r > round[n] => decision[n][r] = "none"

\* The inductive invariant: AcceptedOnly is kept by a phase that creates Kids
\* only because none of them existed, and by a submission only because
\* nothing is known of the round it opens.
Consistent ==
  /\ TypeOK
  /\ AcceptedOnly
  /\ KidsAreGranted
  /\ WorkersExist
  /\ FutureIsBlank

\* A Node is created pending, a Kid for an open owner; an open Node moves on or is lost, and of all
\* Nodes only a review Node succeeds without a verdict on a candidate.
NodeMoves ==
  \A n \in Nodes :
    \/ state'[n] = state[n]
    \/ /\ state[n] = "absent"
       /\ state'[n] = "pending"
       /\ n \in Kids => /\ request'[GroupOf[n]] = "applied"
                        /\ IsOpen(Parent(n))
    \/ /\ IsOpen(n)
       /\ state'[n] \in Open \cup Dead \cup {"blocked"}
       /\ state'[n] = "ready" => DepsSucceeded(n)
    \/ IsOpen(n) /\ n \in Checkers /\ state'[n] = "succeeded"

\* What ApplyReviews does to a Task.
ReviewMove(n) ==
  \/ state'[n] = state[n] /\ accepted'[n] = accepted[n]
  \/ /\ state[n] = "awaiting_review"
     /\ Current(n) = "accept"
     /\ state'[n] = "succeeded"
     /\ accepted'[n] = round[n]
  \/ /\ state[n] = "awaiting_review"
     /\ Current(n) = "revise"
     /\ state'[n] = "running"
     /\ accepted'[n] = accepted[n]

LEMMA UpdatedAt ==
  ASSUME NEW done, NEW new, NEW n \in Nodes
  PROVE  Updated(done, new)[n] = IF n \in done THEN new[n] ELSE state[n]
  BY DEF Updated

LEMMA MovedAt ==
  ASSUME NEW done, NEW to, NEW n \in Nodes
  PROVE  Moved(done, to)[n] = IF n \in done THEN to ELSE state[n]
  BY UpdatedAt DEF Moved

\* ApplyReviews only moves Tasks, each by its own verdict.
LEMMA ReviewsMove ==
  ASSUME TypeOK, ApplyReviews
  PROVE  /\ \A n \in Tasks : ReviewMove(n)
         /\ \A n \in Nodes \ Tasks : state'[n] = state[n]
<1>1. PICK done \in SUBSET {n \in Tasks : VerdictApplicable(n)} :
        /\ state' = Updated(done, [n \in done |-> ReviewOutcome(n)])
        /\ accepted' = [n \in Tasks |->
             IF n \in done /\ ReviewOutcome(n) = "succeeded"
             THEN round[n] ELSE accepted[n]]
  BY DEF ApplyReviews, Committed
<1>2. \A n \in Nodes :
        state'[n] = IF n \in done THEN ReviewOutcome(n) ELSE state[n]
  BY <1>1, UpdatedAt
<1>3. \A n \in Tasks : ReviewMove(n)
  BY <1>1, <1>2 DEF Nodes, ReviewMove, ReviewOutcome, VerdictApplicable
<1> QED
  BY <1>1, <1>2, <1>3

\* A group that may still be granted has no Kid yet.
LEMMA GrantedAreAbsent ==
  ASSUME KidsAreGranted, NEW granted \in SUBSET PendingRequests,
         NEW k \in Granted(granted)
  PROVE  state[k] = "absent" /\ IsOpen(Parent(k))
  BY GraphAssumption DEF KidsAreGranted, PendingRequests, Granted, Parent

\* ApplyExpansions grants some of the pending requests it decides.
LEMMA ExpansionsEffect ==
  ASSUME ApplyExpansions
  PROVE  \E granted \in SUBSET PendingRequests, done \in SUBSET PendingRequests :
           /\ request' = [e \in Expansions |->
                IF e \in granted THEN "applied"
                ELSE IF e \in done THEN "rejected" ELSE request[e]]
           /\ state' = Moved(Granted(granted), "pending")
<1>1. PICK skipped \in SUBSET Overtaken :
        \E done \in Committed(PendingRequests \ skipped) :
        \E granted \in SUBSET {e \in done : MayExpand(e)} :
          /\ request' = [e \in Expansions |->
               IF e \in granted THEN "applied"
               ELSE IF e \in done THEN "rejected" ELSE request[e]]
          /\ state' = Moved(Granted(granted), "pending")
  BY DEF ApplyExpansions
<1>2. PICK done \in Committed(PendingRequests \ skipped) :
        \E granted \in SUBSET {e \in done : MayExpand(e)} :
          /\ request' = [e \in Expansions |->
               IF e \in granted THEN "applied"
               ELSE IF e \in done THEN "rejected" ELSE request[e]]
          /\ state' = Moved(Granted(granted), "pending")
  BY <1>1
<1>3. done \in SUBSET PendingRequests
  BY <1>2 DEF Committed
<1> QED
  BY <1>2, <1>3

\* An applied request is never decided again.
LEMMA AppliedStays ==
  ASSUME TypeOK, [Next]_vars, NEW e \in Expansions, request[e] = "applied"
  PROVE  request'[e] = "applied"
<1>1. CASE ApplyExpansions
  <2>1. PICK granted \in SUBSET PendingRequests, done \in SUBSET PendingRequests :
          request' = [x \in Expansions |->
            IF x \in granted THEN "applied"
            ELSE IF x \in done THEN "rejected" ELSE request[x]]
    BY <1>1, ExpansionsEffect
  <2> QED
    BY <2>1 DEF PendingRequests
<1>2. CASE (ReconcilePass \/ Restart) /\ ~ApplyExpansions
  <2>1. CASE ApplyCandidates \/ ApplyReviews \/ ApplyExecutionFailures
    BY <2>1 DEF ApplyCandidates, ApplyReviews, ApplyExecutionFailures
  <2>2. CASE PropagateFailures \/ CloseReviewNodes
    BY <2>2 DEF PropagateFailures, CloseReviewNodes
  <2>6. CASE Bootstrap
    BY <2>6 DEF Bootstrap
  <2>3. CASE FreezeInputs \/ PromoteReady \/ StartWorkers
    BY <2>3 DEF FreezeInputs, PromoteReady, StartWorkers
  <2>4. CASE WakeReviewers \/ WakeRevisions \/ WakeParents \/ WakeIdleWorkers
    BY <2>4 DEF WakeReviewers, WakeRevisions, WakeParents, WakeIdleWorkers
  <2>5. CASE FinishRun \/ Restart
    BY <2>5 DEF FinishRun, Restart
  <2> QED
    BY <1>2, <2>1, <2>2, <2>3, <2>4, <2>5, <2>6 DEF ReconcilePass
<1>3. CASE Facts
  <2>1. ASSUME NEW n \in Tasks, SubmitReview(n) PROVE request'[e] = "applied"
    BY <2>1 DEF SubmitReview, TypeOK
  <2>2. ASSUME NEW x \in Expansions, RequestExpansion(x)
        PROVE  request'[e] = "applied"
    BY <2>2 DEF RequestExpansion, TypeOK
  <2>3. CASE \/ \E n \in Tasks : SubmitCandidate(n) \/ Deliver(n)
             \/ \E n \in Nodes : Observe(n) \/ ReportUsage(n)
    BY <2>3 DEF SubmitCandidate, Deliver, Observe, ReportUsage
  <2> QED
    BY <1>3, <2>1, <2>2, <2>3 DEF Facts
<1>4. CASE UNCHANGED vars
  BY <1>4 DEF vars
<1> QED
  BY <1>1, <1>2, <1>3, <1>4 DEF Next

\* The review Nodes that WakeReviewers creates are not Tasks, and are absent.
LEMMA MissingAreAbsent ==
  ASSUME TypeOK, NEW c \in MissingReviewers
  PROVE  c \in Checkers /\ state[c] = "absent"
<1>1. PICK n \in Waiting \cap Checked : c = Reviewer(n) /\ state[c] = "absent"
  BY DEF MissingReviewers
<1>2. round[n] \in 1..MaxRounds
  BY <1>1, NodesAssumption DEF Waiting, Undecided, Current, TypeOK
<1> QED
  BY <1>1, <1>2 DEF Reviewer, Checkers

\* Every other phase moves Nodes only along NodeMoves.
LEMMA PhasesMove ==
  ASSUME TypeOK, KidsAreGranted, WorkersExist,
         ReconcilePass \/ Restart, ~ApplyReviews
  PROVE  NodeMoves
<1> USE DEF Open, Dead
<1>0. Tasks \subseteq Nodes /\ Kids \subseteq Nodes /\ Stages \subseteq Nodes
  BY DEF Nodes, Tasks
<1>1. CASE ApplyCandidates
  <2>1. PICK done \in SUBSET {n \in Tasks : state[n] = "running"} :
          state' = Moved(done, "awaiting_review")
    BY <1>1 DEF ApplyCandidates, Committed
  <2> QED
    BY <2>1, MovedAt DEF NodeMoves, IsOpen
<1>3. CASE ApplyExecutionFailures
  <2>1. PICK done \in SUBSET (Failing \cup UnknownEffect) :
          /\ state' = Updated(done,
               [n \in done |-> IF n \in Failing THEN "failed" ELSE "blocked"])
          /\ done \cap IllegalFailures = {}
    BY <1>3 DEF ApplyExecutionFailures, Committed
  <2>2. \A n \in Nodes :
          state'[n] = IF n \in done
                      THEN IF n \in Failing THEN "failed" ELSE "blocked"
                      ELSE state[n]
    BY <2>1, UpdatedAt
  <2>3. \A n \in done : IsOpen(n)
    <3>1. \A n \in Failing \ IllegalFailures : IsOpen(n)
      BY DEF Failing, IllegalFailures, ExecutionLost, WorkersExist, HasWorker,
             IsOpen, Terminal, TypeOK, NodeStates
    <3> QED
      BY <2>1, <3>1 DEF UnknownEffect
  <2> QED
    BY <2>2, <2>3 DEF NodeMoves
<1>4. CASE PropagateFailures
  <2>1. PICK done, new :
          /\ done \in SUBSET {n \in Nodes : IsOpen(n)}
          /\ new \in [done -> {"failed", "blocked", "cancelled"}]
          /\ state' = Updated(done, new)
    BY <1>4 DEF PropagateFailures, Committed
  <2> QED
    BY <2>1, UpdatedAt DEF NodeMoves
<1>5. CASE ApplyExpansions
  <2>1. PICK granted \in SUBSET PendingRequests, done \in SUBSET PendingRequests :
          /\ request' = [e \in Expansions |->
               IF e \in granted THEN "applied"
               ELSE IF e \in done THEN "rejected" ELSE request[e]]
          /\ state' = Moved(Granted(granted), "pending")
    BY <1>5, ExpansionsEffect
  <2>2. \A k \in Granted(granted) :
          /\ state[k] = "absent"
          /\ request'[GroupOf[k]] = "applied"
          /\ IsOpen(Parent(k))
    BY <2>1, GrantedAreAbsent, GraphAssumption DEF Granted
  <2> QED
    BY <2>1, <2>2, MovedAt DEF NodeMoves
<1>6. CASE Bootstrap
  <2>1. PICK done \in SUBSET (IF \A n \in Nodes : state[n] = "absent"
                              THEN {"bootstrap"} ELSE {}) :
          IF done # {} THEN state' = Moved(Stages, "pending")
          ELSE UNCHANGED state
    BY <1>6 DEF Bootstrap, Committed
  <2>2. CASE done # {}
    <3>1. \A n \in Nodes : state[n] = "absent"
      BY <2>1, <2>2
    <3> QED
      BY <2>1, <2>2, <3>1, MovedAt, NodesAssumption DEF NodeMoves
  <2>3. CASE done = {}
    BY <2>1, <2>3 DEF NodeMoves
  <2> QED
    BY <2>2, <2>3
<1>7. CASE CloseReviewNodes
  <2>1. PICK done \in SUBSET {c \in Checkers : IsOpen(c)} :
          state' = Moved(done, "succeeded")
    BY <1>7 DEF CloseReviewNodes, Committed
  <2> QED
    BY <2>1, MovedAt DEF NodeMoves
<1>8. CASE FreezeInputs
  <2>1. PICK refused \in SUBSET {n \in Nodes : IsOpen(n)} :
          state' = Moved(refused, "failed")
    BY <1>8 DEF FreezeInputs, Committed
  <2> QED
    BY <2>1, MovedAt DEF NodeMoves
<1>9. CASE PromoteReady
  <2>1. PICK done \in SUBSET {n \in Nodes : state[n] = "pending" /\ DepsSucceeded(n)} :
          state' = Moved(done, "ready")
    BY <1>9 DEF PromoteReady, Committed, TypeOK
  <2> QED
    BY <2>1, MovedAt DEF NodeMoves, IsOpen
<1>10. CASE StartWorkers
  <2>1. PICK done \in SUBSET {n \in Nodes : state[n] = "ready"}, refused \in SUBSET Faulty :
          state' = Updated(done,
            [n \in done |-> IF n \in refused THEN "failed" ELSE "running"])
    BY <1>10 DEF StartWorkers, Committed
  <2> QED
    BY <2>1, UpdatedAt DEF NodeMoves, IsOpen
<1>11. CASE WakeReviewers
  <2>1. PICK done \in SUBSET (MissingReviewers \cup ParentLost \cup ParentToAsk) :
          state' = Updated(done \ ParentToAsk,
            [n \in done |-> IF n \in ParentLost THEN "failed" ELSE "pending"])
    BY <1>11 DEF WakeReviewers, Committed
  <2>2. \A n \in Nodes :
          state'[n] = IF n \in done \ ParentToAsk
                      THEN IF n \in ParentLost THEN "failed" ELSE "pending"
                      ELSE state[n]
    BY <2>1, UpdatedAt
  <2>3. \A n \in ParentLost : IsOpen(n)
    BY DEF ParentLost, ReviewedByParent, Waiting, IsOpen
  <2>4. \A c \in MissingReviewers : state[c] = "absent" /\ c \notin Kids
    BY MissingAreAbsent, NodesAssumption DEF Tasks
  <2> QED
    BY <2>1, <2>2, <2>3, <2>4 DEF NodeMoves
<1>12. CASE WakeRevisions
  <2>1. PICK done \in SUBSET {n \in Tasks : state[n] = "running"} :
          state' = Moved(done \cap spent, "failed")
    BY <1>12 DEF WakeRevisions, Committed
  <2> QED
    BY <2>1, MovedAt DEF NodeMoves, IsOpen
<1>13. CASE WakeParents
  <2>1. PICK done \in SUBSET {m \in Wakes : IsOpen(m.to)} :
          state' = Moved({m.to : m \in done} \cap spent, "failed")
    BY <1>13 DEF WakeParents, Committed
  <2> QED
    BY <2>1, MovedAt DEF NodeMoves
<1>14. CASE WakeIdleWorkers
  <2>1. PICK done \in SUBSET {n \in spent : state[n] = "running"} :
          state' = Moved(done, "failed")
    BY <1>14 DEF WakeIdleWorkers, Committed
  <2> QED
    BY <2>1, MovedAt DEF NodeMoves, IsOpen
<1>15. CASE FinishRun \/ Restart
  BY <1>15 DEF FinishRun, Restart, NodeMoves
<1> QED
  BY <1>1, <1>3, <1>4, <1>5, <1>6, <1>7, <1>8, <1>9, <1>10, <1>11, <1>12,
     <1>13, <1>14, <1>15 DEF ReconcilePass

\* Only ApplyReviews accepts, and no phase writes a candidate or a verdict.
LEMMA PhasesKeepVerdicts ==
  ASSUME ReconcilePass \/ Restart
  PROVE  /\ UNCHANGED <<round, decision>>
         /\ ~ApplyReviews => UNCHANGED accepted
  BY DEF ReconcilePass, Restart, ApplyCandidates, ApplyReviews,
     ApplyExecutionFailures, PropagateFailures, ApplyExpansions, Bootstrap,
     CloseReviewNodes, FreezeInputs, PromoteReady, StartWorkers, WakeReviewers,
     WakeRevisions, WakeParents, WakeIdleWorkers, FinishRun, taskVars

\* No fact changes the state of a Node.
LEMMA FactsKeepState ==
  ASSUME Facts
  PROVE  UNCHANGED <<state, accepted, run>>
  BY DEF Facts, SubmitCandidate, SubmitReview, RecordReview, RequestExpansion,
     Observe, ReportUsage, Deliver, taskVars

\* Once the Run is terminal no phase runs.
LEMMA TerminalRunRests ==
  ASSUME ReconcilePass \/ Restart, run \in RunTerminal
  PROVE  state' = state /\ run' = run
<1> USE DEF Pass, RunIsOpen
<1>1. ~ReconcilePass
  <2>1. ~ApplyCandidates /\ ~ApplyReviews /\ ~ApplyExecutionFailures
    BY DEF ApplyCandidates, ApplyReviews, ApplyExecutionFailures
  <2>2. ~PropagateFailures /\ ~ApplyExpansions /\ ~Bootstrap
    BY DEF PropagateFailures, ApplyExpansions, Bootstrap
  <2>3. ~CloseReviewNodes /\ ~FreezeInputs /\ ~PromoteReady /\ ~StartWorkers
    BY DEF CloseReviewNodes, FreezeInputs, PromoteReady, StartWorkers
  <2>4. ~WakeReviewers /\ ~WakeRevisions /\ ~WakeParents
    BY DEF WakeReviewers, WakeRevisions, WakeParents
  <2>5. ~WakeIdleWorkers /\ ~FinishRun
    BY DEF WakeIdleWorkers, FinishRun
  <2> QED
    BY <2>1, <2>2, <2>3, <2>4, <2>5 DEF ReconcilePass
<1> QED
  BY <1>1 DEF Restart

-----------------------------------------------------------------------------
(* AcceptedOnly and the invariants it rests on.                            *)

\* A fact is only ever recorded of an open Task that is not accepted.
LEMMA FactsKeepAccepted ==
  ASSUME TypeOK, AcceptedOnly, FutureIsBlank, Facts
  PROVE  AcceptedOnly' /\ FutureIsBlank'
<1>1. ASSUME NEW n \in Tasks, SubmitCandidate(n)
      PROVE  AcceptedOnly' /\ FutureIsBlank'
  <2>1. /\ round' = [round EXCEPT ![n] = @ + 1]
        /\ decision' = [decision EXCEPT ![n][round[n] + 1] = "undecided"]
        /\ state[n] = "running"
        /\ round[n] + 1 \in 1..MaxRounds
        /\ UNCHANGED <<state, accepted>>
    BY <1>1, NodesAssumption DEF SubmitCandidate, RoundAllowed, TypeOK
  <2>2. accepted[n] = 0
    BY <2>1 DEF AcceptedOnly, TypeOK
  <2>3. AcceptedOnly'
    BY <2>1, <2>2 DEF AcceptedOnly, TypeOK
  <2>4. FutureIsBlank'
    BY <2>1, NodesAssumption DEF FutureIsBlank, TypeOK
  <2> QED
    BY <2>3, <2>4
<1>2. ASSUME NEW n \in Tasks, NEW v \in Verdicts, RecordReview(n, v)
      PROVE  AcceptedOnly' /\ FutureIsBlank'
  <2>1. /\ decision' = [decision EXCEPT ![n][round[n]] = v]
        /\ state[n] = "awaiting_review"
        /\ round[n] \in 1..MaxRounds
        /\ UNCHANGED <<state, round, accepted>>
    BY <1>2, NodesAssumption
       DEF RecordReview, Undecided, Current, TypeOK
  <2>2. accepted[n] = 0
    BY <2>1 DEF AcceptedOnly, TypeOK
  <2>3. AcceptedOnly'
    BY <2>1, <2>2 DEF AcceptedOnly, TypeOK
  <2>4. FutureIsBlank'
    BY <2>1, NodesAssumption DEF FutureIsBlank, TypeOK
  <2> QED
    BY <2>3, <2>4
<1>3. ASSUME NEW n \in Tasks, SubmitReview(n)
      PROVE  AcceptedOnly' /\ FutureIsBlank'
  <2>1. PICK v \in Verdicts : RecordReview(n, v)
    BY <1>3 DEF SubmitReview, Verdicts
  <2> QED
    BY <1>2, <2>1
<1>4. ASSUME UNCHANGED <<state, round, decision, accepted>>
      PROVE  AcceptedOnly' /\ FutureIsBlank'
  BY <1>4 DEF AcceptedOnly, FutureIsBlank
<1>5. CASE \/ \E n \in Tasks : Deliver(n)
           \/ \E e \in Expansions : RequestExpansion(e)
           \/ \E n \in Nodes : Observe(n) \/ ReportUsage(n)
  BY <1>4, <1>5 DEF Deliver, RequestExpansion, Observe, ReportUsage, taskVars
<1> QED
  BY <1>1, <1>3, <1>5 DEF Facts

\* A phase keeps them: it accepts only what a reviewer accepted.
LEMMA PassKeepsAccepted ==
  ASSUME TypeOK, AcceptedOnly, FutureIsBlank, KidsAreGranted, WorkersExist,
         ReconcilePass \/ Restart
  PROVE  AcceptedOnly' /\ FutureIsBlank'
<1>1. UNCHANGED <<round, decision>>
  BY PhasesKeepVerdicts
<1>2. FutureIsBlank'
  BY <1>1 DEF FutureIsBlank
<1>3. CASE ApplyReviews
  <2>1. \A n \in Tasks : ReviewMove(n)
    BY <1>3, ReviewsMove
  <2>2. ASSUME NEW n \in Tasks
        PROVE  /\ state'[n] = "succeeded" <=> accepted'[n] # 0
               /\ accepted'[n] # 0 => /\ accepted'[n] = round[n]
                                      /\ decision[n][accepted'[n]] = "accept"
    <3>1. ReviewMove(n)
      BY <2>1
    <3>2. Current(n) = "accept" => round[n] # 0 /\ decision[n][round[n]] = "accept"
      BY DEF Current, TypeOK
    <3> QED
      BY <3>1, <3>2 DEF ReviewMove, AcceptedOnly, TypeOK
  <2>3. AcceptedOnly'
    BY <1>1, <2>2 DEF AcceptedOnly
  <2> QED
    BY <1>2, <2>3
<1>4. CASE ~ApplyReviews
  <2>1. NodeMoves /\ UNCHANGED accepted
    BY <1>4, PhasesMove, PhasesKeepVerdicts
  <2>2. \A n \in Tasks : state'[n] = "succeeded" <=> state[n] = "succeeded"
    BY <2>1, NodesAssumption DEF NodeMoves, Nodes, IsOpen, Open, Dead
  <2>3. AcceptedOnly'
    BY <1>1, <2>1, <2>2 DEF AcceptedOnly
  <2> QED
    BY <1>2, <2>3
<1> QED
  BY <1>3, <1>4

\* No step makes a Node absent again.
LEMMA NodesStay ==
  ASSUME TypeOK, KidsAreGranted, WorkersExist, [Next]_vars, NEW n \in Nodes,
         state[n] # "absent"
  PROVE  state'[n] # "absent"
<1>1. CASE ApplyReviews
  BY <1>1, ReviewsMove DEF ReviewMove
<1>2. CASE (ReconcilePass \/ Restart) /\ ~ApplyReviews
  BY <1>2, PhasesMove DEF NodeMoves, Open, Dead
<1>3. CASE Facts \/ UNCHANGED vars
  BY <1>3, FactsKeepState DEF vars
<1> QED
  BY <1>1, <1>2, <1>3 DEF Next

\* What was applied stays applied, and a Kid is created by what is applied.
LEMMA KidsStayGranted ==
  ASSUME TypeOK, KidsAreGranted, WorkersExist, [Next]_vars
  PROVE  KidsAreGranted'
<1> SUFFICES ASSUME NEW k \in Kids, state'[k] # "absent"
             PROVE  request'[GroupOf[k]] = "applied"
  BY DEF KidsAreGranted
<1>0. k \in Nodes /\ k \in Tasks /\ GroupOf[k] \in Expansions
  BY GraphAssumption DEF Nodes, Tasks
<1>1. CASE state[k] = "absent"
  <2>1. CASE ApplyReviews
    BY <1>0, <1>1, <2>1, ReviewsMove DEF ReviewMove
  <2>2. CASE (ReconcilePass \/ Restart) /\ ~ApplyReviews
    BY <1>0, <1>1, <2>2, PhasesMove DEF NodeMoves, IsOpen, Open
  <2>3. CASE Facts \/ UNCHANGED vars
    BY <1>1, <2>3, FactsKeepState DEF vars
  <2> QED
    BY <2>1, <2>2, <2>3 DEF Next
<1>2. CASE state[k] # "absent"
  BY <1>0, <1>2, AppliedStays DEF KidsAreGranted
<1> QED
  BY <1>1, <1>2

\* Only StartWorkers creates a Worker, for a ready Node.
LEMMA WorkersFollow ==
  ASSUME TypeOK, [Next]_vars, NEW n \in Nodes, observed'[n] # "none"
  PROVE  HasWorker(n) \/ (state[n] = "ready" /\ StartWorkers)
<1>1. CASE StartWorkers
  <2>1. PICK done \in SUBSET {m \in Nodes : state[m] = "ready"}, refused \in SUBSET Faulty :
          observed' = [m \in Nodes |->
            IF m \in done \ refused THEN "live" ELSE observed[m]]
    BY <1>1 DEF StartWorkers, Committed
  <2> QED
    BY <1>1, <2>1 DEF HasWorker
<1>2. CASE Facts
  <2>1. ASSUME NEW m \in Nodes, Observe(m) PROVE HasWorker(n)
    BY <2>1 DEF Observe, CanAct, HasWorker, TypeOK
  <2>2. ASSUME NEW m \in Tasks, SubmitReview(m) PROVE observed' = observed
    BY <2>2 DEF SubmitReview, RecordReview, workerVars
  <2>3. CASE \/ \E m \in Tasks : SubmitCandidate(m) \/ Deliver(m)
             \/ \E e \in Expansions : RequestExpansion(e)
             \/ \E m \in Nodes : ReportUsage(m)
    BY <2>3 DEF SubmitCandidate, Deliver, RequestExpansion, ReportUsage,
       workerVars, HasWorker
  <2> QED
    BY <1>2, <2>1, <2>2, <2>3 DEF Facts, HasWorker
<1>3. CASE (ReconcilePass \/ Restart) /\ ~StartWorkers
  <2>1. CASE ApplyCandidates \/ ApplyReviews \/ ApplyExecutionFailures
    BY <2>1 DEF ApplyCandidates, ApplyReviews, ApplyExecutionFailures,
       workerVars, HasWorker
  <2>2. CASE PropagateFailures \/ CloseReviewNodes \/ ApplyExpansions
    BY <2>2 DEF PropagateFailures, CloseReviewNodes, ApplyExpansions,
       workerVars, HasWorker
  <2>3. CASE Bootstrap
    BY <2>3 DEF Bootstrap, workerVars, HasWorker
  <2>4. CASE FreezeInputs \/ PromoteReady
    BY <2>4 DEF FreezeInputs, PromoteReady, workerVars, HasWorker
  <2>5. CASE WakeReviewers \/ WakeRevisions \/ WakeParents \/ WakeIdleWorkers
    BY <2>5 DEF WakeReviewers, WakeRevisions, WakeParents, WakeIdleWorkers,
       workerVars, HasWorker
  <2>6. CASE FinishRun \/ Restart
    BY <2>6 DEF FinishRun, Restart, workerVars, HasWorker
  <2> QED
    BY <1>3, <2>1, <2>2, <2>3, <2>4, <2>5, <2>6 DEF ReconcilePass
<1>4. CASE UNCHANGED vars
  BY <1>4 DEF vars, workerVars, HasWorker
<1> QED
  BY <1>1, <1>2, <1>3, <1>4 DEF Next

\* The inductive invariant holds and every step keeps it.
LEMMA ConsistentStep == Consistent /\ [Next]_vars => Consistent'
<1> SUFFICES ASSUME Consistent, [Next]_vars PROVE Consistent'
  OBVIOUS
<1> USE DEF Consistent
<1>1. TypeOK'
  BY FactsType, PassKeepsType
     DEF Next, vars, taskVars, workerVars, inboxVars, TypeOK
<1>2. AcceptedOnly' /\ FutureIsBlank'
  <2>1. CASE Facts
    BY <2>1, FactsKeepAccepted
  <2>2. CASE ReconcilePass \/ Restart
    BY <2>2, PassKeepsAccepted
  <2>3. CASE UNCHANGED vars
    BY <2>3 DEF vars, taskVars, AcceptedOnly, FutureIsBlank
  <2> QED
    BY <2>1, <2>2, <2>3 DEF Next
<1>3. KidsAreGranted'
  BY KidsStayGranted
<1>4. WorkersExist'
  <2> SUFFICES ASSUME NEW n \in Nodes, observed'[n] # "none"
               PROVE  state'[n] # "absent"
    BY DEF WorkersExist, HasWorker
  <2>1. state[n] # "absent"
    BY WorkersFollow DEF WorkersExist
  <2> QED
    BY <2>1, NodesStay
<1> QED
  BY <1>1, <1>2, <1>3, <1>4

LEMMA ConsistentInit == Init => Consistent
  BY InitType, NodesAssumption DEF Init, Consistent, AcceptedOnly, KidsAreGranted,
     WorkersExist, FutureIsBlank, HasWorker, Nodes, Tasks

LEMMA AlwaysConsistent == Spec => []Consistent
  BY ConsistentInit, ConsistentStep, PTL DEF Spec

\* A Task succeeds if and only if its last candidate was accepted by its
\* reviewer, whatever the graph, the faults and the interrupted passes.
THEOREM AcceptedOnlyHolds == Spec => []AcceptedOnly
<1>1. Consistent => AcceptedOnly
  BY DEF Consistent
<1> QED
  BY <1>1, AlwaysConsistent, PTL

-----------------------------------------------------------------------------
(* Nothing terminal is taken back.                                         *)

\* A fact never overwrites a verdict: a candidate opens a blank round and a
\* review decides an undecided one.
LEMMA FactsKeepVerdicts ==
  ASSUME TypeOK, FutureIsBlank, Facts, NEW n \in Tasks, NEW r \in 1..MaxRounds,
         decision[n][r] \in Verdicts
  PROVE  decision'[n][r] = decision[n][r]
<1>1. ASSUME NEW m \in Tasks, SubmitCandidate(m)
      PROVE  decision'[n][r] = decision[n][r]
  <2>1. /\ decision' = [decision EXCEPT ![m][round[m] + 1] = "undecided"]
        /\ round[m] + 1 \in 1..MaxRounds
        /\ round[m] + 1 > round[m]
    BY <1>1, NodesAssumption DEF SubmitCandidate, RoundAllowed, TypeOK
  <2>2. decision[m][round[m] + 1] = "none"
    BY <2>1 DEF FutureIsBlank
  <2> QED
    BY <2>1, <2>2 DEF Verdicts, TypeOK
<1>2. ASSUME NEW m \in Tasks, SubmitReview(m)
      PROVE  decision'[n][r] = decision[n][r]
  <2>1. PICK v : RecordReview(m, v)
    BY <1>2 DEF SubmitReview
  <2>2. /\ decision' = [decision EXCEPT ![m][round[m]] = v]
        /\ decision[m][round[m]] = "undecided"
    BY <2>1 DEF RecordReview, Undecided, Current
  <2> QED
    BY <2>2 DEF Verdicts, TypeOK
<1>3. CASE \/ \E m \in Tasks : Deliver(m)
           \/ \E e \in Expansions : RequestExpansion(e)
           \/ \E m \in Nodes : Observe(m) \/ ReportUsage(m)
  BY <1>3 DEF Deliver, RequestExpansion, Observe, ReportUsage, taskVars
<1> QED
  BY <1>1, <1>2, <1>3 DEF Facts

\* The step that Irrevocable demands, from the inductive invariant.
LEMMA IrrevocableStep ==
  ASSUME Consistent, [Next]_vars
  PROVE  [/\ \A n \in Nodes :
               state[n] \in Terminal \cup {"blocked"} => state'[n] = state[n]
          /\ \A n \in Tasks :
               /\ accepted[n] # 0 => accepted'[n] = accepted[n]
               /\ \A r \in 1..MaxRounds :
                    decision[n][r] \in Verdicts
                      => decision'[n][r] = decision[n][r]
          /\ run \in RunTerminal => state' = state /\ run' = run]_vars
<1> USE DEF Consistent
<1>1. CASE Facts
  BY <1>1, FactsKeepState, FactsKeepVerdicts
<1>2. CASE ReconcilePass \/ Restart
  <2>1. ASSUME NEW n \in Nodes, state[n] \in Terminal \cup {"blocked"}
        PROVE  state'[n] = state[n]
    <3>1. CASE ApplyReviews
      BY <2>1, <3>1, ReviewsMove DEF ReviewMove, Terminal
    <3>2. CASE ~ApplyReviews
      BY <1>2, <2>1, <3>2, PhasesMove DEF NodeMoves, IsOpen, Open, Terminal
    <3> QED
      BY <3>1, <3>2
  <2>2. ASSUME NEW n \in Tasks, accepted[n] # 0
        PROVE  accepted'[n] = accepted[n]
    <3>1. CASE ApplyReviews
      BY <2>2, <3>1, ReviewsMove DEF ReviewMove, AcceptedOnly
    <3>2. CASE ~ApplyReviews
      BY <1>2, <3>2, PhasesKeepVerdicts
    <3> QED
      BY <3>1, <3>2
  <2>3. decision' = decision
    BY <1>2, PhasesKeepVerdicts
  <2>4. run \in RunTerminal => state' = state /\ run' = run
    BY <1>2, TerminalRunRests
  <2> QED
    BY <2>1, <2>2, <2>3, <2>4
<1>3. CASE UNCHANGED vars
  BY <1>3
<1> QED
  BY <1>1, <1>2, <1>3 DEF Next

\* No step takes back a terminal Node, a verdict, an accepted candidate or a
\* terminal Run, or resumes a Node held for an unknown effect.
THEOREM IrrevocableHolds == Spec => Irrevocable
  BY AlwaysConsistent, IrrevocableStep, PTL DEF Spec, Irrevocable

-----------------------------------------------------------------------------
(* Dependencies come first, and a completed Run is closed.                 *)

\* A Node is ready only after its dependencies.
ReadyAfterDependencies ==
  \A n \in Nodes : state[n] = "ready" => DepsSucceeded(n)

\* What succeeded stays so, so that a check of the dependencies stays true.
LEMMA DepsStaySucceeded ==
  ASSUME Consistent, [Next]_vars, NEW n \in Nodes, DepsSucceeded(n)
  PROVE  DepsSucceeded(n)'
<1>1. \A d \in Tasks : state[d] = "succeeded" => state'[d] = "succeeded"
  BY IrrevocableStep DEF Nodes, Terminal, vars
<1> QED
  BY <1>1, GraphAssumption DEF DepsSucceeded

LEMMA ReadyStep ==
  ASSUME Consistent, ReadyAfterDependencies, [Next]_vars
  PROVE  ReadyAfterDependencies'
<1> SUFFICES ASSUME NEW n \in Nodes, state'[n] = "ready" PROVE DepsSucceeded(n)
  BY DepsStaySucceeded DEF ReadyAfterDependencies
<1> USE DEF Consistent
<1>1. CASE state'[n] = state[n]
  BY <1>1 DEF ReadyAfterDependencies
<1>2. CASE ApplyReviews
  BY <1>1, <1>2, ReviewsMove DEF ReviewMove
<1>3. CASE (ReconcilePass \/ Restart) /\ ~ApplyReviews
  BY <1>1, <1>3, PhasesMove DEF NodeMoves
<1>4. CASE Facts \/ UNCHANGED vars
  BY <1>1, <1>4, FactsKeepState DEF vars
<1> QED
  BY <1>2, <1>3, <1>4 DEF Next

LEMMA StartedStep ==
  ASSUME Consistent, ReadyAfterDependencies, StartedAfterDependencies, [Next]_vars
  PROVE  StartedAfterDependencies'
<1> SUFFICES ASSUME NEW n \in Tasks, observed'[n] # "none", NEW d \in Deps[n]
             PROVE  state'[d] = "succeeded"
  BY DEF StartedAfterDependencies, HasWorker
<1>1. n \in Nodes /\ d \in Tasks
  BY GraphAssumption DEF Nodes
<1>2. HasWorker(n) \/ state[n] = "ready"
  BY <1>1, WorkersFollow DEF Consistent
<1>3. DepsSucceeded(n)
  BY <1>1, <1>2 DEF StartedAfterDependencies, ReadyAfterDependencies, DepsSucceeded
<1> QED
  BY <1>1, <1>3, DepsStaySucceeded DEF DepsSucceeded

\* No execution of a Task is ever started before all its dependencies have
\* succeeded, and none of them is lost afterwards.
THEOREM StartedAfterDependenciesHolds == Spec => []StartedAfterDependencies
<1>1. Init => ReadyAfterDependencies /\ StartedAfterDependencies
  BY DEF Init, ReadyAfterDependencies, StartedAfterDependencies, HasWorker, Nodes
<1> QED
  BY <1>1, ReadyStep, StartedStep, AlwaysConsistent, PTL DEF Spec

\* Only FinishRun completes a Run, and then nothing is open.
LEMMA CompletedStep ==
  ASSUME TypeOK, CompletedIsClosed, [Next]_vars
  PROVE  CompletedIsClosed'
<1> SUFFICES ASSUME run' = "completed" PROVE CompletedIsClosed'
  BY DEF CompletedIsClosed
<1>1. CASE run = "completed"
  <2>1. state' = state
    BY <1>1, TerminalRunRests, FactsKeepState DEF Next, vars, RunTerminal
  <2> QED
    BY <1>1, <2>1 DEF CompletedIsClosed
<1>2. CASE run # "completed"
  <2>1. FinishRun
    <3>1. CASE Bootstrap
      BY <1>2, <3>1 DEF Bootstrap
    <3>2. CASE ApplyCandidates \/ ApplyReviews \/ ApplyExecutionFailures
      BY <1>2, <3>2 DEF ApplyCandidates, ApplyReviews, ApplyExecutionFailures
    <3>3. CASE PropagateFailures \/ ApplyExpansions \/ CloseReviewNodes
      BY <1>2, <3>3 DEF PropagateFailures, ApplyExpansions, CloseReviewNodes
    <3>4. CASE FreezeInputs \/ PromoteReady \/ StartWorkers
      BY <1>2, <3>4 DEF FreezeInputs, PromoteReady, StartWorkers
    <3>5. CASE WakeReviewers \/ WakeRevisions \/ WakeParents \/ WakeIdleWorkers
      BY <1>2, <3>5 DEF WakeReviewers, WakeRevisions, WakeParents, WakeIdleWorkers
    <3>6. CASE Restart \/ Facts \/ UNCHANGED vars
      BY <1>2, <3>6, FactsKeepState DEF Restart, vars
    <3> QED
      BY <3>1, <3>2, <3>3, <3>4, <3>5, <3>6 DEF Next, ReconcilePass
  <2>2. RunVerdict = "completed" /\ state' = state
    BY <1>2, <2>1 DEF FinishRun
  <2>3. /\ \A s \in Stages : state[s] = "succeeded"
        /\ {k \in Kids : state[k] \notin {"absent", "succeeded"}} = {}
        /\ TrailingReviews = {}
    BY <1>2, <2>2 DEF RunVerdict
  <2>4. \A c \in Checkers : state[c] \in Terminal \cup {"absent"}
    BY <2>3 DEF TrailingReviews, TypeOK, NodeStates, Nodes
  <2> QED
    BY <2>2, <2>3, <2>4 DEF CompletedIsClosed
<1> QED
  BY <1>1, <1>2

\* A Run is only ever completed with every Task accepted and every review
\* Node ended, and nothing is reopened in it afterwards.
THEOREM CompletedIsClosedHolds == Spec => []CompletedIsClosed
<1>1. Init => CompletedIsClosed
  BY DEF Init, CompletedIsClosed
<1> QED
  BY <1>1, CompletedStep, TypeCorrect, PTL DEF Spec

=============================================================================
