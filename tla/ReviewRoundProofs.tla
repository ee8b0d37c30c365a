------------------------- MODULE ReviewRoundProofs -------------------------
(***************************************************************************)
(* Proofs about the rounds of a Task: the order in which its candidates,   *)
(* reviews, feedback and children follow each other.                       *)
(***************************************************************************)
EXTENDS TaskLifecycleProofs

-----------------------------------------------------------------------------
(* Rework follows delivered feedback.                                      *)

\* Something is known of every round up to the current one.
RoundsAreKnown ==
  \A n \in Tasks : \A r \in 1..MaxRounds : r <= round[n] => decision[n][r] # "none"

Ordered == Consistent /\ RoundsAreKnown /\ ReworkFollowsFeedback

\* What a fact does to the rounds.
FactKinds ==
  \/ \E n \in Tasks : SubmitCandidate(n)
  \/ \E n \in Tasks, v \in Verdicts : RecordReview(n, v) /\ UNCHANGED inboxVars
  \/ UNCHANGED <<round, decision>> /\ delivered \subseteq delivered'

LEMMA FactsAreKinds == Facts => FactKinds
<1> SUFFICES ASSUME Facts PROVE FactKinds
  OBVIOUS
<1>1. ASSUME NEW n \in Tasks, SubmitReview(n)
      PROVE  \E v \in Verdicts : RecordReview(n, v) /\ UNCHANGED inboxVars
  BY <1>1 DEF SubmitReview, RecordReview, Verdicts
<1>2. ASSUME NEW n \in Tasks, Deliver(n)
      PROVE  UNCHANGED <<round, decision>> /\ delivered \subseteq delivered'
  BY <1>2 DEF Deliver, taskVars
<1>3. CASE \/ \E e \in Expansions : RequestExpansion(e)
           \/ \E n \in Nodes : Observe(n) \/ ReportUsage(n)
  BY <1>3 DEF RequestExpansion, Observe, ReportUsage, taskVars, inboxVars, FactKinds
<1> QED
  BY <1>1, <1>2, <1>3 DEF Facts, FactKinds

\* A phase delivers nothing.
LEMMA PhasesDeliverNothing == ReconcilePass \/ Restart => UNCHANGED delivered
  BY DEF ReconcilePass, Restart, ApplyCandidates, ApplyReviews,
     ApplyExecutionFailures, PropagateFailures, ApplyExpansions, Bootstrap,
     CloseReviewNodes, FreezeInputs, PromoteReady, StartWorkers, WakeReviewers,
     WakeRevisions, WakeParents, WakeIdleWorkers, FinishRun, inboxVars

\* A candidate opens the next round, after feedback on the one before.
LEMMA SubmitEffect ==
  ASSUME Consistent, RoundsAreKnown, NEW n \in Tasks, SubmitCandidate(n)
  PROVE  /\ \A m \in Tasks : round'[m] = IF m = n THEN round[n] + 1 ELSE round[m]
         /\ \A m \in Tasks, r \in 1..MaxRounds :
              decision'[m][r] = IF m = n /\ r = round[n] + 1 THEN "undecided"
                                ELSE decision[m][r]
         /\ state[n] = "running"
         /\ round[n] \in 0..MaxRounds /\ round[n] + 1 \in 1..MaxRounds
         /\ round[n] > 0 => /\ decision[n][round[n]] \in Rework
                            /\ ReviseMessage(n, round[n]) \in delivered
         /\ UNCHANGED <<state, inputs, accepted, request, run, phase>>
         /\ UNCHANGED <<workerVars, inboxVars>>
<1>1. round[n] \in 0..MaxRounds /\ round[n] + 1 \in 1..MaxRounds
  BY NodesAssumption DEF Consistent, TypeOK, SubmitCandidate, RoundAllowed
<1>2. ASSUME round[n] > 0
      PROVE  decision[n][round[n]] \in Rework /\ ReviseMessage(n, round[n]) \in delivered
  <2>1. round[n] \in 1..MaxRounds /\ Current(n) = decision[n][round[n]]
    BY <1>1, <1>2 DEF Current
  <2>2. Current(n) \in Decisions /\ Current(n) # "none"
    <3>1. decision[n] \in [1..MaxRounds -> Decisions]
      BY DEF Consistent, TypeOK
    <3>2. Current(n) \in Decisions
      BY <2>1, <3>1
    <3>3. round[n] \in Nat /\ round[n] <= round[n]
      BY <1>1
    <3>4. decision[n][round[n]] # "none"
      BY <2>1, <3>3 DEF RoundsAreKnown
    <3> QED
      BY <2>1, <3>2, <3>4
  <2>3. Current(n) \notin {"undecided", "accept"}
    BY DEF SubmitCandidate
  <2>4. Current(n) \in Rework
    BY <2>2, <2>3 DEF Decisions, Verdicts, Rework
  <2> QED
    BY <2>1, <2>4 DEF SubmitCandidate, FeedbackDelivered
<1>3. \A m \in Tasks : round'[m] = IF m = n THEN round[n] + 1 ELSE round[m]
  BY DEF SubmitCandidate, Consistent, TypeOK
<1>4. \A m \in Tasks, r \in 1..MaxRounds :
        decision'[m][r] = IF m = n /\ r = round[n] + 1 THEN "undecided" ELSE decision[m][r]
  BY <1>1 DEF SubmitCandidate, Consistent, TypeOK
<1> QED
  BY <1>1, <1>2, <1>3, <1>4 DEF SubmitCandidate

\* A verdict is given on the candidate of the current round.
LEMMA ReviewEffect ==
  ASSUME Consistent, NEW n \in Tasks, NEW v \in Verdicts, RecordReview(n, v)
  PROVE  /\ \A m \in Tasks, r \in 1..MaxRounds :
              decision'[m][r] = IF m = n /\ r = round[n] THEN v ELSE decision[m][r]
         /\ round[n] \in 1..MaxRounds /\ decision[n][round[n]] = "undecided"
         /\ state[n] = "awaiting_review"
         /\ UNCHANGED <<state, inputs, round, accepted, run, phase>>
         /\ UNCHANGED <<workerVars, inboxVars>>
  BY NodesAssumption DEF RecordReview, Undecided, Current, Consistent, TypeOK

LEMMA OrderedStep == Ordered /\ [Next]_vars => Ordered'
<1> SUFFICES ASSUME Ordered, [Next]_vars PROVE Ordered'
  OBVIOUS
<1> USE DEF Ordered
<1>1. Consistent'
  BY ConsistentStep
<1> SUFFICES RoundsAreKnown' /\ ReworkFollowsFeedback'
  BY <1>1
<1>2. ASSUME NEW n \in Tasks, SubmitCandidate(n)
      PROVE  RoundsAreKnown' /\ ReworkFollowsFeedback'
  <2>1. RoundsAreKnown'
    <3> SUFFICES ASSUME NEW m \in Tasks, NEW r \in 1..MaxRounds, r <= round'[m]
                 PROVE  decision'[m][r] # "none"
      BY DEF RoundsAreKnown
    <3>1. round[m] \in Nat /\ round[n] \in Nat
      BY NodesAssumption DEF Consistent, TypeOK
    <3> QED
      BY <1>2, <3>1, SubmitEffect DEF RoundsAreKnown, Verdicts
  <2>2. ReworkFollowsFeedback'
    <3> SUFFICES ASSUME NEW m \in Tasks, NEW r \in 1..MaxRounds, r < round'[m]
                 PROVE  decision'[m][r] \in Rework /\ ReviseMessage(m, r)' \in delivered'
      BY DEF ReworkFollowsFeedback
    <3>1. ReviseMessage(m, r)' = ReviseMessage(m, r) /\ delivered' = delivered
      BY <1>2, SubmitEffect DEF inboxVars, ReviseMessage
    <3>2. decision'[m][r] = decision[m][r] /\ r <= round[m] /\ (r = round[m] => m = n)
      BY <1>2, SubmitEffect, NodesAssumption DEF Consistent, TypeOK
    <3>3. round[m] \in 0..MaxRounds
      BY DEF Consistent, TypeOK
    <3>4. CASE r < round[m]
      BY <3>1, <3>2, <3>4 DEF ReworkFollowsFeedback
    <3>5. CASE r = round[m]
      BY <1>2, <3>1, <3>2, <3>5, SubmitEffect
    <3> QED
      BY <3>2, <3>3, <3>4, <3>5
  <2> QED
    BY <2>1, <2>2
<1>3. ASSUME NEW n \in Tasks, NEW v \in Verdicts, RecordReview(n, v)
      PROVE  RoundsAreKnown' /\ ReworkFollowsFeedback'
  <2>1. RoundsAreKnown'
    <3> SUFFICES ASSUME NEW m \in Tasks, NEW r \in 1..MaxRounds, r <= round'[m]
                 PROVE  decision'[m][r] # "none"
      BY DEF RoundsAreKnown
    <3>1. round[m] \in Nat /\ round[n] \in Nat
      BY NodesAssumption DEF Consistent, TypeOK
    <3> QED
      BY <1>3, <3>1, ReviewEffect DEF RoundsAreKnown, Verdicts
  <2>2. ReworkFollowsFeedback'
    <3> SUFFICES ASSUME NEW m \in Tasks, NEW r \in 1..MaxRounds, r < round'[m]
                 PROVE  decision'[m][r] \in Rework /\ ReviseMessage(m, r)' \in delivered'
      BY DEF ReworkFollowsFeedback
    <3>1. ReviseMessage(m, r)' = ReviseMessage(m, r) /\ delivered' = delivered
      BY <1>3, ReviewEffect DEF inboxVars, ReviseMessage
    <3>2. decision'[m][r] = decision[m][r] /\ r < round[m]
      BY <1>3, ReviewEffect, NodesAssumption DEF Consistent, TypeOK
    <3> QED
      BY <3>1, <3>2 DEF ReworkFollowsFeedback
  <2> QED
    BY <2>1, <2>2
<1>4. CASE UNCHANGED <<round, decision>> /\ delivered \subseteq delivered'
  BY <1>4 DEF RoundsAreKnown, ReworkFollowsFeedback, ReviseMessage
<1>5. CASE ReconcilePass \/ Restart
  BY <1>4, <1>5, PhasesKeepVerdicts, PhasesDeliverNothing
<1>6. CASE Facts
  <2>1. FactKinds
    BY <1>6, FactsAreKinds
  <2> QED
    BY <1>2, <1>3, <1>4, <2>1 DEF FactKinds
<1>7. CASE UNCHANGED vars
  BY <1>4, <1>7 DEF vars, taskVars, inboxVars
<1> QED
  BY <1>1, <1>2, <1>5, <1>6, <1>7 DEF Next

LEMMA OrderedInit == Init => Ordered
<1> SUFFICES ASSUME Init PROVE Ordered
  OBVIOUS
<1>1. Consistent
  BY ConsistentInit
<1>2. \A n \in Tasks : round[n] = 0
  BY DEF Init
<1> QED
  BY <1>1, <1>2 DEF Ordered, RoundsAreKnown, ReworkFollowsFeedback

LEMMA AlwaysOrdered == Spec => []Ordered
  BY OrderedInit, OrderedStep, PTL DEF Spec

\* Each candidate but the last was sent back, and its feedback delivered
\* before the next one was recorded, for any number of rounds
\* (_append_candidate, delivery_gate).
THEOREM ReworkFollowsFeedbackHolds == Spec => []ReworkFollowsFeedback
<1>1. Ordered => ReworkFollowsFeedback
  BY DEF Ordered
<1> QED
  BY <1>1, AlwaysOrdered, PTL

-----------------------------------------------------------------------------
(* What a step does to Tasks, review Nodes, requests, messages and phases. *)

\* The phases of a pass that come after every request was decided, and after
\* every recorded review was closed.
AfterExpansions ==
  {"bootstrap", "closing", "inputs", "promotion", "start", "reviewers"}
AfterClosing == {"inputs", "promotion", "start", "reviewers", "revisions"}

Awaits(n) == state[n] = "awaiting_review"

\* An expansion that n asked for is still to be decided.
Wants(n) == \E e \in Expansions : OwnerOf[e] = n /\ request[e] = "requested"

\* A step keeps the state of a Task, loses it, or moves it on for a reason.
TaskMove(n) ==
  \/ state'[n] = state[n]
  \/ IsOpen(n) /\ state'[n] \in Dead \cup {"blocked"}
  \/ /\ state[n] = "absent" /\ state'[n] = "pending"
     /\ n \in Kids => request[GroupOf[n]] = "requested" /\ IsOpen(Parent(n))
  \/ state[n] = "pending" /\ state'[n] = "ready"
  \/ state[n] = "ready" /\ state'[n] = "running"
  \/ /\ state[n] = "running" /\ Undecided(n) /\ state'[n] = "awaiting_review"
     /\ phase = "candidates"
  \/ Awaits(n) /\ Current(n) = "accept" /\ state'[n] = "succeeded"
  \/ /\ Awaits(n) /\ Current(n) = "revise" /\ state'[n] = "running"
     /\ phase = "reviews"

\* A step keeps the state of a review Node, ends or advances it, or creates
\* it for the candidate that waits.
CheckerMove(c) ==
  \/ state'[c] = state[c]
  \/ IsOpen(c)
  \/ /\ state[c] = "absent" /\ phase = "reviewers"
     /\ \E n \in Checked : Awaits(n) /\ Undecided(n) /\ c = <<n, round[n]>>

\* Each phase of the pass makes only these moves.
LEMMA PhaseMovesTasks ==
  ASSUME TypeOK, KidsAreGranted, WorkersExist,
         ReconcilePass \/ Restart, NEW n \in Tasks
  PROVE  TaskMove(n)
<1> USE DEF Open, Dead
<1>0. n \in Nodes /\ n \notin Checkers
  BY NodesAssumption DEF Nodes
<1>1. CASE ApplyCandidates
  <2>1. PICK done \in SUBSET {m \in Tasks : state[m] = "running" /\ Undecided(m)} :
          state' = Moved(done, "awaiting_review") /\ phase = "candidates"
    BY <1>1 DEF ApplyCandidates, Committed, Pass
  <2> QED
    BY <1>0, <2>1, MovedAt DEF TaskMove
<1>2. CASE ApplyReviews
  <2>1. ReviewMove(n) /\ phase = "reviews"
    BY <1>2, ReviewsMove DEF ApplyReviews, Pass
  <2> QED
    BY <2>1 DEF TaskMove, ReviewMove, Awaits
<1>3. CASE ApplyExecutionFailures
  <2>1. PICK done \in SUBSET (Failing \cup UnknownEffect) :
          /\ state' = Updated(done,
               [m \in done |-> IF m \in Failing THEN "failed" ELSE "blocked"])
          /\ done \cap IllegalFailures = {}
    BY <1>3 DEF ApplyExecutionFailures, Committed
  <2>2. state'[n] = IF n \in done
                    THEN IF n \in Failing THEN "failed" ELSE "blocked"
                    ELSE state[n]
    BY <1>0, <2>1, UpdatedAt
  <2>3. n \in done => IsOpen(n)
    <3>1. n \in Failing \ IllegalFailures => IsOpen(n)
      BY <1>0 DEF Failing, IllegalFailures, ExecutionLost, WorkersExist, HasWorker,
             IsOpen, Terminal, TypeOK, NodeStates
    <3> QED
      BY <2>1, <3>1 DEF UnknownEffect
  <2> QED
    BY <2>2, <2>3 DEF TaskMove
<1>4. CASE PropagateFailures
  <2>1. PICK done, new :
          /\ done \in SUBSET {m \in Nodes : IsOpen(m)}
          /\ new \in [done -> {"failed", "blocked", "cancelled"}]
          /\ state' = Updated(done, new)
    BY <1>4 DEF PropagateFailures, Committed
  <2> QED
    BY <1>0, <2>1, UpdatedAt DEF TaskMove
<1>5. CASE ApplyExpansions
  <2>1. PICK granted \in SUBSET PendingRequests :
          state' = Moved(Granted(granted), "pending")
    BY <1>5, ExpansionsEffect
  <2>2. n \in Granted(granted) =>
          /\ state[n] = "absent"
          /\ request[GroupOf[n]] = "requested"
          /\ IsOpen(Parent(n))
    BY <2>1, GrantedAreAbsent DEF Granted, PendingRequests
  <2> QED
    BY <1>0, <2>1, <2>2, MovedAt DEF TaskMove
<1>6. CASE Bootstrap
  <2>1. PICK done \in SUBSET (IF \A m \in Nodes : state[m] = "absent"
                              THEN {"bootstrap"} ELSE {}) :
          IF done # {} THEN state' = Moved(Stages, "pending")
          ELSE UNCHANGED state
    BY <1>6 DEF Bootstrap, Committed
  <2>2. CASE done # {}
    <3>1. state' = Moved(Stages, "pending") /\ state[n] = "absent"
      BY <1>0, <2>1, <2>2
    <3>2. n \in Stages => n \notin Kids
      BY NodesAssumption
    <3> QED
      BY <1>0, <3>1, <3>2, MovedAt DEF TaskMove
  <2>3. CASE done = {}
    BY <2>1, <2>3 DEF TaskMove
  <2> QED
    BY <2>2, <2>3
<1>7. CASE CloseReviewNodes
  <2>1. PICK done \in SUBSET Checkers : state' = Moved(done, "succeeded")
    BY <1>7 DEF CloseReviewNodes, Committed
  <2> QED
    BY <1>0, <2>1, MovedAt DEF TaskMove
<1>8. CASE FreezeInputs
  <2>1. PICK refused \in SUBSET {m \in Nodes : IsOpen(m)} :
          state' = Moved(refused, "failed")
    BY <1>8 DEF FreezeInputs, Committed
  <2> QED
    BY <1>0, <2>1, MovedAt DEF TaskMove
<1>9. CASE PromoteReady
  <2>1. PICK done \in SUBSET {m \in Nodes : state[m] = "pending"} :
          state' = Moved(done, "ready")
    BY <1>9 DEF PromoteReady, Committed, TypeOK
  <2> QED
    BY <1>0, <2>1, MovedAt DEF TaskMove
<1>10. CASE StartWorkers
  <2>1. PICK done \in SUBSET {m \in Nodes : state[m] = "ready"}, refused \in SUBSET Faulty :
          state' = Updated(done,
            [m \in done |-> IF m \in refused THEN "failed" ELSE "running"])
    BY <1>10 DEF StartWorkers, Committed
  <2> QED
    BY <1>0, <2>1, UpdatedAt DEF TaskMove, IsOpen
<1>11. CASE WakeReviewers
  <2>1. PICK done \in SUBSET (MissingReviewers \cup ParentLost \cup ParentToAsk) :
          state' = Updated(done \ ParentToAsk,
            [m \in done |-> IF m \in ParentLost THEN "failed" ELSE "pending"])
    BY <1>11 DEF WakeReviewers, Committed
  <2>2. state'[n] = IF n \in done \ ParentToAsk
                    THEN IF n \in ParentLost THEN "failed" ELSE "pending"
                    ELSE state[n]
    BY <1>0, <2>1, UpdatedAt
  <2>3. n \notin MissingReviewers
    BY <1>0, MissingAreAbsent
  <2>4. n \in ParentLost => IsOpen(n)
    BY DEF ParentLost, ReviewedByParent, Waiting, IsOpen
  <2> QED
    BY <2>1, <2>2, <2>3, <2>4 DEF TaskMove
<1>12. CASE WakeRevisions
  <2>1. PICK done \in SUBSET {m \in Tasks : state[m] = "running"} :
          state' = Moved(done \cap spent, "failed")
    BY <1>12 DEF WakeRevisions, Committed
  <2> QED
    BY <1>0, <2>1, MovedAt DEF TaskMove, IsOpen
<1>13. CASE WakeParents
  <2>1. PICK done \in SUBSET {m \in Wakes : IsOpen(m.to)} :
          state' = Moved({m.to : m \in done} \cap spent, "failed")
    BY <1>13 DEF WakeParents, Committed
  <2> QED
    BY <1>0, <2>1, MovedAt DEF TaskMove
<1>14. CASE WakeIdleWorkers
  <2>1. PICK done \in SUBSET {m \in spent : state[m] = "running"} :
          state' = Moved(done, "failed")
    BY <1>14 DEF WakeIdleWorkers, Committed
  <2> QED
    BY <1>0, <2>1, MovedAt DEF TaskMove, IsOpen
<1>15. CASE FinishRun \/ Restart
  BY <1>15 DEF FinishRun, Restart, TaskMove
<1> QED
  BY <1>1, <1>2, <1>3, <1>4, <1>5, <1>6, <1>7, <1>8, <1>9, <1>10, <1>11, <1>12,
     <1>13, <1>14, <1>15 DEF ReconcilePass

\* So does every step: a fact changes no state.
LEMMA TaskMoves ==
  ASSUME Consistent, [Next]_vars, NEW n \in Tasks
  PROVE  TaskMove(n)
<1>1. CASE Facts \/ UNCHANGED vars
  BY <1>1, FactsKeepState DEF TaskMove, vars
<1>2. CASE ReconcilePass \/ Restart
  BY <1>2, PhaseMovesTasks DEF Consistent
<1> QED
  BY <1>1, <1>2 DEF Next

\* A new review Node belongs to the candidate that waits for it.
LEMMA CheckerMoves ==
  ASSUME Consistent, [Next]_vars, NEW c \in Checkers
  PROVE  CheckerMove(c)
<1> USE DEF Consistent
<1>0. c \in Nodes \ Tasks /\ c \notin Kids /\ c \notin Stages
  BY NodesAssumption DEF Nodes, Tasks
<1>1. CASE Facts \/ UNCHANGED vars
  BY <1>1, FactsKeepState DEF CheckerMove, vars
<1>2. CASE ApplyReviews
  BY <1>0, <1>2, ReviewsMove DEF CheckerMove
<1>3. CASE WakeReviewers
  <2>1. PICK done \in SUBSET (MissingReviewers \cup ParentLost \cup ParentToAsk) :
          state' = Updated(done \ ParentToAsk,
            [m \in done |-> IF m \in ParentLost THEN "failed" ELSE "pending"])
    BY <1>3 DEF WakeReviewers, Committed
  <2>2. CASE c \in done
    <3>1. c \notin ParentLost \cup ParentToAsk
      BY <1>0 DEF ParentLost, ParentToAsk, ReviewedByParent, Waiting
    <3>2. c \in MissingReviewers
      BY <2>1, <2>2, <3>1
    <3>3. phase = "reviewers"
      BY <1>3 DEF WakeReviewers, Pass
    <3> QED
      BY <3>2, <3>3, MissingAreAbsent
         DEF MissingReviewers, Waiting, Reviewer, CheckerMove, Awaits
  <2>3. CASE c \notin done
    BY <1>0, <2>1, <2>3, UpdatedAt DEF CheckerMove
  <2> QED
    BY <2>2, <2>3
<1>4. CASE (ReconcilePass \/ Restart) /\ ~ApplyReviews /\ ~WakeReviewers
  <2>1. CASE ApplyExpansions
    <3>1. PICK granted : state' = Moved(Granted(granted), "pending")
      BY <2>1 DEF ApplyExpansions
    <3> QED
      BY <1>0, <3>1, MovedAt DEF CheckerMove, Granted
  <2>2. CASE Bootstrap
    <3>1. state' = Moved(Stages, "pending") \/ state' = state
      BY <2>2 DEF Bootstrap
    <3> QED
      BY <1>0, <3>1, MovedAt DEF CheckerMove
  <2>3. CASE PromoteReady
    <3>1. PICK done \in SUBSET {m \in inputs : state[m] = "pending"} :
            state' = Moved(done, "ready")
      BY <2>3 DEF PromoteReady, Committed
    <3> QED
      BY <1>0, <3>1, MovedAt DEF CheckerMove, IsOpen, Open
  <2>4. NodeMoves
    BY <1>4, PhasesMove
  <2>5. state'[c] = state[c] \/ (state[c] = "absent" /\ state'[c] = "pending") \/ IsOpen(c)
    BY <1>0, <2>4 DEF NodeMoves
  <2>6. CASE state'[c] = "pending" /\ ~ApplyExpansions /\ ~Bootstrap /\ ~PromoteReady
    <3>1. CASE ApplyCandidates
      <4>1. PICK done : state' = Moved(done, "awaiting_review")
        BY <3>1 DEF ApplyCandidates
      <4> QED
        BY <1>0, <2>6, <4>1, MovedAt DEF CheckerMove
    <3>2. CASE ApplyExecutionFailures
      <4>1. PICK done : state' = Updated(done,
              [n \in done |-> IF n \in Failing THEN "failed" ELSE "blocked"])
        BY <3>2 DEF ApplyExecutionFailures
      <4> QED
        BY <1>0, <2>6, <4>1, UpdatedAt DEF CheckerMove
    <3>3. CASE PropagateFailures
      <4>1. PICK done, new : /\ new \in [done -> {"failed", "blocked", "cancelled"}]
                             /\ state' = Updated(done, new)
        BY <3>3 DEF PropagateFailures
      <4> QED
        BY <1>0, <2>6, <4>1, UpdatedAt DEF CheckerMove
    <3>4. CASE CloseReviewNodes
      <4>1. PICK done : state' = Moved(done, "succeeded")
        BY <3>4 DEF CloseReviewNodes
      <4> QED
        BY <1>0, <2>6, <4>1, MovedAt DEF CheckerMove
    <3>5. CASE FreezeInputs \/ WakeRevisions \/ WakeParents \/ WakeIdleWorkers
      <4>1. PICK done : state' = Moved(done, "failed")
        BY <3>5 DEF FreezeInputs, WakeRevisions, WakeParents, WakeIdleWorkers
      <4> QED
        BY <1>0, <2>6, <4>1, MovedAt DEF CheckerMove
    <3>6. CASE StartWorkers
      <4>1. PICK done, refused : state' = Updated(done,
              [n \in done |-> IF n \in refused THEN "failed" ELSE "running"])
        BY <3>6 DEF StartWorkers
      <4> QED
        BY <1>0, <2>6, <4>1, UpdatedAt DEF CheckerMove
    <3>7. CASE FinishRun \/ Restart
      BY <3>7 DEF FinishRun, Restart, CheckerMove
    <3> QED
      BY <1>4, <2>6, <3>1, <3>2, <3>3, <3>4, <3>5, <3>6, <3>7 DEF ReconcilePass
  <2> QED
    BY <2>1, <2>2, <2>3, <2>5, <2>6 DEF CheckerMove
<1> QED
  BY <1>1, <1>2, <1>3, <1>4 DEF Next

\* A new message asks for the review of a candidate that waits, or feeds a
\* verdict back to a Task that runs, or tells an owner of its children.
LEMMA SentGrows ==
  ASSUME TypeOK, [Next]_vars
  PROVE  /\ sent \subseteq sent'
         /\ \A m \in sent' \ sent :
              \/ /\ phase = "reviewers"
                 /\ \E n \in Tasks \ Checked :
                      Awaits(n) /\ Undecided(n) /\ m = ReviewMessage(n)
              \/ /\ phase = "revisions"
                 /\ \E n \in Tasks : /\ state[n] = "running"
                                     /\ Current(n) \in Rework
                                     /\ m = ReviseMessage(n, round[n])
              \/ m.kind \in {"accepted", "join"}
<1>1. CASE WakeReviewers
  <2>1. PICK done : sent' = sent \cup {ReviewMessage(n) : n \in done \cap ParentToAsk}
    BY <1>1 DEF WakeReviewers
  <2>2. phase = "reviewers"
    BY <1>1 DEF WakeReviewers, Pass
  <2> QED
    BY <2>1, <2>2 DEF ParentToAsk, ReviewedByParent, Waiting, Awaits
<1>2. CASE WakeRevisions
  <2>1. PICK done \in SUBSET {n \in Tasks : state[n] = "running" /\ Current(n) \in Rework} :
          sent' = sent \cup {ReviseMessage(n, round[n]) : n \in done \ spent}
    BY <1>2 DEF WakeRevisions, Committed
  <2>2. phase = "revisions"
    BY <1>2 DEF WakeRevisions, Pass
  <2> QED
    BY <2>1, <2>2
<1>3. CASE WakeParents
  <2>1. PICK done \in SUBSET Wakes :
          sent' = sent \cup {m \in done : m.to \notin spent}
    BY <1>3 DEF WakeParents, Committed
  <2>2. \A m \in Wakes : m.kind \in {"accepted", "join"}
    BY DEF Wakes, AcceptedMessage, JoinMessage
  <2> QED
    BY <2>1, <2>2
<1>4. CASE UNCHANGED sent
  BY <1>4
<1>5. CASE Facts
  <2>1. UNCHANGED sent
    BY <1>5 DEF Facts, SubmitCandidate, SubmitReview, RecordReview,
       RequestExpansion, Observe, ReportUsage, Deliver, inboxVars
  <2> QED
    BY <1>4, <2>1
<1>6. CASE UNCHANGED vars
  BY <1>4, <1>6 DEF vars, inboxVars
<1>7. CASE (ReconcilePass \/ Restart) /\ ~WakeReviewers /\ ~WakeRevisions /\ ~WakeParents
  <2>1. CASE ApplyCandidates \/ ApplyReviews \/ ApplyExecutionFailures
    BY <1>4, <2>1 DEF ApplyCandidates, ApplyReviews, ApplyExecutionFailures, inboxVars
  <2>2. CASE PropagateFailures \/ CloseReviewNodes \/ ApplyExpansions
    BY <1>4, <2>2 DEF PropagateFailures, CloseReviewNodes, ApplyExpansions, inboxVars
  <2>3. CASE Bootstrap \/ FinishRun \/ Restart
    BY <1>4, <2>3 DEF Bootstrap, FinishRun, Restart, inboxVars
  <2>4. CASE FreezeInputs \/ PromoteReady \/ StartWorkers \/ WakeIdleWorkers
    BY <1>4, <2>4 DEF FreezeInputs, PromoteReady, StartWorkers, WakeIdleWorkers, inboxVars
  <2> QED
    BY <1>7, <2>1, <2>2, <2>3, <2>4 DEF ReconcilePass
<1> QED
  BY <1>1, <1>2, <1>3, <1>5, <1>6, <1>7 DEF Next

\* Only a running Task without an undecided candidate asks for an expansion,
\* or its reviewer does, on the candidate it decides.
LEMMA RequestsGrow ==
  ASSUME TypeOK, [Next]_vars, NEW e \in Expansions,
         request[e] # "requested", request'[e] = "requested"
  PROVE  \/ state[OwnerOf[e]] = "running" /\ ~Undecided(OwnerOf[e])
         \/ RecordReview(OwnerOf[e], "expand")
<1>1. CASE ApplyExpansions
  <2>1. PICK granted, done :
          request' = [x \in Expansions |->
            IF x \in granted THEN "applied"
            ELSE IF x \in done THEN "rejected" ELSE request[x]]
    BY <1>1, ExpansionsEffect
  <2> QED
    BY <2>1
<1>2. CASE (ReconcilePass \/ Restart) /\ ~ApplyExpansions
  <2>1. CASE ApplyCandidates \/ ApplyReviews \/ ApplyExecutionFailures
    BY <2>1 DEF ApplyCandidates, ApplyReviews, ApplyExecutionFailures
  <2>2. CASE PropagateFailures \/ CloseReviewNodes
    BY <2>2 DEF PropagateFailures, CloseReviewNodes
  <2>3. CASE FreezeInputs \/ PromoteReady \/ StartWorkers \/ Bootstrap
    BY <2>3 DEF FreezeInputs, PromoteReady, StartWorkers, Bootstrap
  <2>4. CASE WakeReviewers \/ WakeRevisions \/ WakeParents \/ WakeIdleWorkers
    BY <2>4 DEF WakeReviewers, WakeRevisions, WakeParents, WakeIdleWorkers
  <2>5. CASE FinishRun \/ Restart
    BY <2>5 DEF FinishRun, Restart
  <2> QED
    BY <1>2, <2>1, <2>2, <2>3, <2>4, <2>5 DEF ReconcilePass
<1>3. CASE Facts
  <2>1. ASSUME NEW n \in Tasks, SubmitReview(n)
        PROVE  RecordReview(OwnerOf[e], "expand")
    <3>1. PICK x \in Expansions : /\ OwnerOf[x] = n
                                  /\ RecordReview(n, "expand")
                                  /\ request' = [request EXCEPT ![x] = "requested"]
      BY <2>1 DEF SubmitReview
    <3>2. x = e
      BY <3>1 DEF TypeOK
    <3> QED
      BY <3>1, <3>2
  <2>2. ASSUME NEW x \in Expansions, RequestExpansion(x)
        PROVE  state[OwnerOf[e]] = "running" /\ ~Undecided(OwnerOf[e])
    <3>1. x = e
      BY <2>2 DEF RequestExpansion, TypeOK
    <3> QED
      BY <2>2, <3>1 DEF RequestExpansion
  <2>3. CASE \/ \E n \in Tasks : SubmitCandidate(n) \/ Deliver(n)
             \/ \E n \in Nodes : Observe(n) \/ ReportUsage(n)
    BY <2>3 DEF SubmitCandidate, Deliver, Observe, ReportUsage
  <2> QED
    BY <1>3, <2>1, <2>2, <2>3 DEF Facts
<1>4. CASE UNCHANGED vars
  BY <1>4 DEF vars
<1> QED
  BY <1>1, <1>2, <1>3, <1>4 DEF Next

\* The pass goes beyond the expansions only when every request of an owner
\* whose candidate waits undecided was decided.
LEMMA AfterExpansionsStep ==
  ASSUME TypeOK, [Next]_vars, phase' \in AfterExpansions, phase \notin AfterExpansions
  PROVE  /\ phase = "expansions"
         /\ \A e \in Expansions :
              Awaits(OwnerOf[e]) /\ Undecided(OwnerOf[e]) => request'[e] # "requested"
<1>1. CASE ApplyExpansions
  <2>1. PICK skipped \in SUBSET Overtaken :
          \E done \in Committed(PendingRequests \ skipped) :
          \E granted \in SUBSET {e \in done : MayExpand(e)} :
            /\ Pass("expansions", PendingRequests \ skipped, done, "bootstrap")
            /\ request' = [e \in Expansions |->
                 IF e \in granted THEN "applied"
                 ELSE IF e \in done THEN "rejected" ELSE request[e]]
    BY <1>1 DEF ApplyExpansions
  <2>2. PICK done \in Committed(PendingRequests \ skipped) :
          \E granted \in SUBSET {e \in done : MayExpand(e)} :
            /\ Pass("expansions", PendingRequests \ skipped, done, "bootstrap")
            /\ request' = [e \in Expansions |->
                 IF e \in granted THEN "applied"
                 ELSE IF e \in done THEN "rejected" ELSE request[e]]
    BY <2>1
  <2>3. PICK granted \in SUBSET {e \in done : MayExpand(e)} :
          /\ Pass("expansions", PendingRequests \ skipped, done, "bootstrap")
          /\ request' = [e \in Expansions |->
               IF e \in granted THEN "applied"
               ELSE IF e \in done THEN "rejected" ELSE request[e]]
    BY <2>2
  <2>4. phase = "expansions" /\ done = PendingRequests \ skipped
    BY <2>3 DEF Pass, AfterExpansions
  <2>5. ASSUME NEW e \in Expansions, Awaits(OwnerOf[e]), Undecided(OwnerOf[e]),
               request[e] = "requested"
        PROVE  e \in done
    BY <2>4, <2>5
       DEF PendingRequests, Overtaken, Awaits, Undecided, IsOpen, Open, Verdicts
  <2> QED
    BY <2>4, <2>3, <2>5
<1>2. CASE (ReconcilePass \/ Restart) /\ ~ApplyExpansions
  <2> USE DEF Pass, AfterExpansions
  <2>1. CASE ApplyCandidates \/ ApplyReviews \/ ApplyExecutionFailures
    BY <2>1 DEF ApplyCandidates, ApplyReviews, ApplyExecutionFailures
  <2>2. CASE PropagateFailures \/ CloseReviewNodes
    BY <2>2 DEF PropagateFailures, CloseReviewNodes
  <2>3. CASE FreezeInputs \/ PromoteReady \/ StartWorkers \/ Bootstrap
    BY <2>3 DEF FreezeInputs, PromoteReady, StartWorkers, Bootstrap
  <2>4. CASE WakeReviewers \/ WakeRevisions \/ WakeParents \/ WakeIdleWorkers
    BY <2>4 DEF WakeReviewers, WakeRevisions, WakeParents, WakeIdleWorkers
  <2>5. CASE FinishRun \/ Restart
    BY <2>5 DEF FinishRun, Restart
  <2> QED
    BY <1>2, <2>1, <2>2, <2>3, <2>4, <2>5 DEF ReconcilePass
<1>3. CASE Facts
  BY <1>3 DEF Facts, SubmitCandidate, SubmitReview, RecordReview,
     RequestExpansion, Observe, ReportUsage, Deliver
<1>4. CASE UNCHANGED vars
  BY <1>4 DEF vars
<1> QED
  BY <1>1, <1>2, <1>3, <1>4 DEF Next

\* The pass goes beyond the closing of reviews only when every open review
\* Node whose Worker recorded its verdict was closed.
LEMMA AfterClosingStep ==
  ASSUME TypeOK, [Next]_vars, phase' \in AfterClosing, phase \notin AfterClosing
  PROVE  /\ phase = "closing"
         /\ \A c \in Checkers :
              IsOpen(c) /\ HasWorker(c) /\ ReceiptRecorded(c) => state'[c] = "succeeded"
<1>1. CASE CloseReviewNodes
  <2>1. PICK done \in SUBSET Checkers :
          /\ Pass("closing",
                  {c \in Checkers : IsOpen(c) /\ HasWorker(c) /\ ReceiptRecorded(c)},
                  done, "inputs")
          /\ state' = Moved(done, "succeeded")
    BY <1>1 DEF CloseReviewNodes, Committed
  <2>2. /\ phase = "closing"
        /\ done = {c \in Checkers : IsOpen(c) /\ HasWorker(c) /\ ReceiptRecorded(c)}
    BY <2>1 DEF Pass, AfterClosing
  <2> QED
    BY <2>1, <2>2, MovedAt DEF Nodes
<1>2. CASE (ReconcilePass \/ Restart) /\ ~CloseReviewNodes
  <2> USE DEF Pass, AfterClosing
  <2>1. CASE ApplyCandidates \/ ApplyReviews \/ ApplyExecutionFailures
    BY <2>1 DEF ApplyCandidates, ApplyReviews, ApplyExecutionFailures
  <2>2. CASE PropagateFailures \/ ApplyExpansions
    BY <2>2 DEF PropagateFailures, ApplyExpansions
  <2>3. CASE FreezeInputs \/ PromoteReady \/ StartWorkers \/ Bootstrap
    BY <2>3 DEF FreezeInputs, PromoteReady, StartWorkers, Bootstrap
  <2>4. CASE WakeReviewers \/ WakeRevisions \/ WakeParents \/ WakeIdleWorkers
    BY <2>4 DEF WakeReviewers, WakeRevisions, WakeParents, WakeIdleWorkers
  <2>5. CASE FinishRun \/ Restart
    BY <2>5 DEF FinishRun, Restart
  <2> QED
    BY <1>2, <2>1, <2>2, <2>3, <2>4, <2>5 DEF ReconcilePass
<1>3. CASE Facts
  BY <1>3 DEF Facts, SubmitCandidate, SubmitReview, RecordReview,
     RequestExpansion, Observe, ReportUsage, Deliver
<1>4. CASE UNCHANGED vars
  BY <1>4 DEF vars
<1> QED
  BY <1>1, <1>2, <1>3, <1>4 DEF Next

\* A step opens the next round of a Task, decides the current one, or leaves
\* its round and what is known of it alone.
RoundMove(n) ==
  \/ /\ state[n] = "running" /\ round'[n] = round[n] + 1 /\ Undecided(n)'
     /\ UNCHANGED <<state, sent, phase, request, observed>>
  \/ /\ Awaits(n) /\ Undecided(n) /\ CanAct(Reviewer(n)) /\ round'[n] = round[n]
     /\ n \notin Checked => ReviewMessage(n) \in sent
     /\ Current(n)' \in Verdicts
     /\ Current(n)' = "accept" => OpenRequired(n) = {}
     /\ UNCHANGED <<state, sent, phase, observed>>
  \/ round'[n] = round[n] /\ Current(n)' = Current(n)

\* Every step does one of the three.
LEMMA RoundsMove ==
  ASSUME Ordered, [Next]_vars, NEW n \in Tasks
  PROVE  RoundMove(n) /\ round[n] \in 0..MaxRounds /\ round'[n] \in 0..MaxRounds
<1> USE DEF Ordered
<1>0. round[n] \in 0..MaxRounds /\ round'[n] \in 0..MaxRounds
  BY ConsistentStep DEF Consistent, TypeOK
<1>1. ASSUME NEW m \in Tasks, SubmitCandidate(m) PROVE RoundMove(n)
  <2>1. /\ round'[n] = IF n = m THEN round[m] + 1 ELSE round[n]
        /\ \A r \in 1..MaxRounds :
             decision'[n][r] = IF n = m /\ r = round[m] + 1 THEN "undecided"
                               ELSE decision[n][r]
        /\ state[m] = "running"
        /\ round[m] \in 0..MaxRounds /\ round[m] + 1 \in 1..MaxRounds
        /\ UNCHANGED <<state, sent, phase, request, observed>>
    BY <1>1, SubmitEffect DEF workerVars, inboxVars
  <2>2. CASE n = m
    BY <2>1, <2>2, NodesAssumption DEF RoundMove, Undecided, Current
  <2>3. CASE n # m
    <3>1. round'[n] = round[n]
      BY <2>1, <2>3
    <3>2. round[n] > 0 => decision'[n][round[n]] = decision[n][round[n]]
      BY <1>0, <2>1, <2>3, NodesAssumption
    <3> QED
      BY <3>1, <3>2 DEF RoundMove, Current
  <2> QED
    BY <2>2, <2>3
<1>2. ASSUME NEW m \in Tasks, NEW v \in Verdicts, RecordReview(m, v) PROVE RoundMove(n)
  <2>1. /\ round'[n] = round[n]
        /\ \A r \in 1..MaxRounds :
             decision'[n][r] = IF n = m /\ r = round[m] THEN v ELSE decision[n][r]
        /\ round[m] \in 1..MaxRounds
        /\ UNCHANGED <<state, sent, phase, observed>>
    BY <1>2, ReviewEffect DEF workerVars, inboxVars
  <2>2. CASE n = m
    <3>1. Current(n)' = v
      BY <2>1, <2>2, NodesAssumption DEF Current
    <3> QED
      BY <1>2, <2>1, <2>2, <3>1 DEF RoundMove, RecordReview, Awaits
  <2>3. CASE n # m
    <3>1. round[n] > 0 => decision'[n][round[n]] = decision[n][round[n]]
      BY <1>0, <2>1, <2>3, NodesAssumption
    <3> QED
      BY <2>1, <3>1 DEF RoundMove, Current
  <2> QED
    BY <2>2, <2>3
<1>3. CASE UNCHANGED <<round, decision>>
  BY <1>0, <1>3 DEF RoundMove, Current
<1>4. CASE Facts
  <2>1. FactKinds
    BY <1>4, FactsAreKinds
  <2>2. CASE UNCHANGED <<round, decision>> /\ delivered \subseteq delivered'
    BY <1>0, <1>3, <2>2
  <2> QED
    BY <1>0, <1>1, <1>2, <2>1, <2>2 DEF FactKinds
<1>5. CASE ReconcilePass \/ Restart
  BY <1>0, <1>3, <1>5, PhasesKeepVerdicts
<1>6. CASE UNCHANGED vars
  BY <1>0, <1>3, <1>6 DEF vars, taskVars
<1> QED
  BY <1>0, <1>4, <1>5, <1>6 DEF Next

\* The first transitions leave the states before the first candidate.
BlankBeforeStart ==
  \A n \in Tasks : state[n] \in {"absent", "pending", "ready"} => round[n] = 0

LEMMA BlankStep ==
  ASSUME Ordered, BlankBeforeStart, [Next]_vars
  PROVE  BlankBeforeStart'
<1> SUFFICES ASSUME NEW n \in Tasks, state'[n] \in {"absent", "pending", "ready"}
             PROVE  round'[n] = 0
  BY DEF BlankBeforeStart
<1>1. TaskMove(n) /\ RoundMove(n)
  BY TaskMoves, RoundsMove DEF Ordered
<1>2. state[n] \in {"absent", "pending", "ready"}
  BY <1>1 DEF TaskMove, Dead
<1>3. round[n] = 0
  BY <1>2 DEF BlankBeforeStart
<1> QED
  BY <1>1, <1>2, <1>3 DEF RoundMove, Awaits

\* Nothing is asked or fed back for a round still to come.
NothingEarly ==
  \A n \in Tasks, r \in 1..MaxRounds :
    r > round[n] =>
      /\ n \in Checked => state[<<n, r>>] = "absent"
      /\ n \notin Checked =>
           [to |-> Parent(n), kind |-> "review", of |-> n, round |-> r] \notin sent
      /\ ReviseMessage(n, r) \notin sent

\* A new review Node, question or feedback is of the current round.
LEMMA NothingEarlyStep ==
  ASSUME Ordered, NothingEarly, [Next]_vars
  PROVE  NothingEarly'
<1> SUFFICES ASSUME NEW n \in Tasks, NEW r \in 1..MaxRounds, r > round'[n]
             PROVE  /\ n \in Checked => state'[<<n, r>>] = "absent"
                    /\ n \notin Checked =>
                         [to |-> Parent(n), kind |-> "review", of |-> n, round |-> r]
                           \notin sent'
                    /\ ReviseMessage(n, r) \notin sent'
  BY DEF NothingEarly, ReviseMessage, Parent
<1>1. r > round[n]
  BY RoundsMove, NodesAssumption DEF RoundMove
<1>2. r # round[n]
  BY <1>1, RoundsMove, NodesAssumption
<1>3. ASSUME n \in Checked PROVE state'[<<n, r>>] = "absent"
  <2>1. <<n, r>> \in Checkers /\ state[<<n, r>>] = "absent"
    BY <1>1, <1>3 DEF Checkers, NothingEarly
  <2>2. CheckerMove(<<n, r>>)
    BY <2>1, CheckerMoves DEF Ordered
  <2> QED
    BY <1>2, <2>1, <2>2 DEF CheckerMove, IsOpen, Open
<1>4. \A m \in sent' \ sent : m.kind \in {"review", "revise"} => m.round = round[m.of]
  <2> SUFFICES ASSUME NEW m \in sent' \ sent, m.kind \in {"review", "revise"}
               PROVE  m.round = round[m.of]
    OBVIOUS
  <2>1. \/ \E x \in Tasks \ Checked : m = ReviewMessage(x)
        \/ \E x \in Tasks : m = ReviseMessage(x, round[x])
    BY SentGrows DEF Ordered, Consistent
  <2> QED
    BY <2>1 DEF ReviewMessage, ReviseMessage
<1>5. ASSUME n \notin Checked
      PROVE  [to |-> Parent(n), kind |-> "review", of |-> n, round |-> r] \notin sent'
  <2> DEFINE m == [to |-> Parent(n), kind |-> "review", of |-> n, round |-> r]
  <2>1. m \notin sent
    BY <1>1, <1>5 DEF NothingEarly
  <2>2. m.kind = "review" /\ m.round = r /\ m.of = n
    OBVIOUS
  <2> HIDE DEF m
  <2>3. m \notin sent'
    BY <1>2, <1>4, <2>1, <2>2
  <2> QED
    BY <2>3 DEF m
<1>6. ReviseMessage(n, r) \notin sent'
  <2>1. ReviseMessage(n, r) \notin sent
    BY <1>1 DEF NothingEarly
  <2>2. /\ ReviseMessage(n, r).kind = "revise"
        /\ ReviseMessage(n, r).round = r
        /\ ReviseMessage(n, r).of = n
    BY DEF ReviseMessage
  <2> QED
    BY <1>2, <1>4, <2>1, <2>2
<1> QED
  BY <1>3, <1>5, <1>6

-----------------------------------------------------------------------------
(* Children come before acceptance.                                        *)

\* The review of the current candidate of n has been asked for.
Asked(n) ==
  IF n \in Checked THEN round[n] > 0 /\ state[Reviewer(n)] # "absent"
  ELSE ReviewMessage(n) \in sent

\* A Task whose undecided candidate is to be reviewed does not run.
AskedWaits == \A n \in Tasks : Asked(n) /\ Undecided(n) => state[n] # "running"

\* Its requests were decided before the review was asked for.
AskedWantsNothing ==
  \A n \in Tasks :
    (Asked(n) \/ phase \in AfterExpansions) /\ Awaits(n) /\ Undecided(n)
      => ~Wants(n)

\* An accepted candidate has no child that is open or still to be created.
AcceptIsLast ==
  \A n \in Tasks :
    Awaits(n) /\ Current(n) = "accept" => ~Wants(n) /\ OpenRequired(n) = {}

\* The inductive invariant: an accept finds no open child (_record_review), and
\* no child can still be created because the review is only asked for after the
\* phase that decides the requests made before the candidate.
Timely ==
  /\ Ordered
  /\ BlankBeforeStart
  /\ NothingEarly
  /\ AskedWaits
  /\ AskedWantsNothing
  /\ AcceptIsLast
  /\ AcceptedWithChildren

\* An undecided candidate has a round.
LEMMA UndecidedHasRound ==
  ASSUME NEW n \in Tasks, TypeOK, Current(n) # "none"
  PROVE  round[n] \in 1..MaxRounds
  BY NodesAssumption DEF Current, TypeOK

\* A review is first asked for in the phase "reviewers", of a waiting Task; a
\* new candidate has not been asked for.
LEMMA AskedStep ==
  ASSUME Timely, [Next]_vars, NEW n \in Tasks, Asked(n)', Undecided(n)'
  PROVE  /\ Undecided(n) /\ round'[n] = round[n]
         /\ ~Asked(n) => Awaits(n) /\ phase = "reviewers"
<1> USE DEF Timely
<1>0. TypeOK /\ TypeOK' /\ RoundMove(n)
  BY ConsistentStep, RoundsMove DEF Ordered, Consistent
<1>1. CASE state[n] = "running" /\ round'[n] = round[n] + 1 /\ UNCHANGED <<state, sent>>
  <2>1. round'[n] \in 1..MaxRounds /\ round'[n] > round[n]
    BY <1>0, <1>1, RoundsMove, NodesAssumption
  <2>2. CASE n \in Checked
    BY <1>1, <2>1, <2>2 DEF NothingEarly, Asked, Reviewer
  <2>3. CASE n \notin Checked
    BY <1>1, <2>1, <2>3 DEF NothingEarly, Asked, ReviewMessage
  <2> QED
    BY <2>2, <2>3
<1>2. CASE round'[n] = round[n] /\ Current(n)' = Current(n)
  <2>1. Undecided(n)
    BY <1>2 DEF Undecided
  <2>2. round[n] \in 1..MaxRounds
    BY <1>0, <2>1, UndecidedHasRound DEF Undecided
  <2>3. CASE n \in Checked /\ ~Asked(n)
    <3>1. <<n, round[n]>> \in Checkers
      BY <2>2, <2>3 DEF Checkers
    <3>2. state[<<n, round[n]>>] = "absent" /\ state'[<<n, round[n]>>] # "absent"
      BY <1>2, <2>2, <2>3, NodesAssumption DEF Asked, Reviewer
    <3>3. CheckerMove(<<n, round[n]>>)
      BY <3>1, CheckerMoves DEF Ordered
    <3> QED
      BY <1>2, <2>1, <3>2, <3>3 DEF CheckerMove, IsOpen, Open
  <2>4. CASE n \notin Checked /\ ~Asked(n)
    <3>1. ReviewMessage(n)' = ReviewMessage(n)
      BY <1>2 DEF ReviewMessage, Parent
    <3>2. ReviewMessage(n) \in sent' \ sent
      BY <2>4, <3>1 DEF Asked
    <3>3. /\ \A m \in Tasks : ReviewMessage(n) # ReviseMessage(m, round[m])
          /\ ReviewMessage(n).kind = "review"
          /\ \A m \in Tasks : ReviewMessage(n) = ReviewMessage(m) => n = m
      BY DEF ReviewMessage, ReviseMessage
    <3>4. phase = "reviewers" /\ Awaits(n)
      BY <1>0, <3>2, <3>3, SentGrows
    <3> QED
      BY <1>2, <2>1, <3>4
  <2> QED
    BY <1>2, <2>1, <2>3, <2>4
<1> QED
  BY <1>0, <1>1, <1>2 DEF RoundMove, Undecided, Verdicts

\* A Task that comes to wait for a review ran, and the pass begins.
LEMMA AwaitsStep ==
  ASSUME Timely, [Next]_vars, NEW n \in Tasks, Awaits(n)', ~Awaits(n)
  PROVE  /\ state[n] = "running" /\ Undecided(n) /\ phase = "candidates"
<1>1. TaskMove(n)
  BY TaskMoves DEF Timely, Ordered
<1> QED
  BY <1>1 DEF TaskMove, Awaits, Dead

\* No phase sets a Task running whose review was asked for.
LEMMA AskedWaitsStep ==
  ASSUME Timely, [Next]_vars
  PROVE  AskedWaits'
<1> SUFFICES ASSUME NEW n \in Tasks, Asked(n)', Undecided(n)', state'[n] = "running"
             PROVE  FALSE
  BY DEF AskedWaits
<1>1. Undecided(n) /\ (~Asked(n) => Awaits(n))
  BY AskedStep
<1>2. round[n] > 0
  BY <1>1, UndecidedHasRound, NodesAssumption DEF Undecided, Timely, Ordered, Consistent
<1>3. TaskMove(n)
  BY TaskMoves DEF Timely, Ordered
<1>4. CASE state[n] = "running"
  BY <1>1, <1>4 DEF Timely, AskedWaits, Awaits
<1>5. CASE state[n] = "ready"
  BY <1>2, <1>5 DEF Timely, BlankBeforeStart
<1> QED
  BY <1>1, <1>3, <1>4, <1>5 DEF TaskMove, Dead, Undecided

\* A request made by n appears only while n runs or with the verdict "expand".
LEMMA WantsStep ==
  ASSUME Timely, [Next]_vars, NEW n \in Tasks, Wants(n)', ~Wants(n)
  PROVE  \/ state[n] = "running" /\ ~Undecided(n)
         \/ Awaits(n) /\ Current(n)' = "expand"
<1> USE DEF Timely, Ordered
<1>1. PICK e \in Expansions : OwnerOf[e] = n /\ request'[e] = "requested"
  BY DEF Wants
<1>2. request[e] # "requested"
  BY <1>1 DEF Wants
<1>3. CASE RecordReview(n, "expand")
  <2>1. "expand" \in Verdicts
    BY DEF Verdicts
  <2> QED
    BY <1>3, <2>1, ReviewEffect, NodesAssumption DEF Awaits, Current
<1> QED
  BY <1>1, <1>2, <1>3, RequestsGrow DEF Consistent

\* The phase that asks for reviews comes after the one that decides requests.
LEMMA AskedWantsStep ==
  ASSUME Timely, [Next]_vars
  PROVE  AskedWantsNothing'
<1> SUFFICES ASSUME NEW n \in Tasks, Asked(n)' \/ phase' \in AfterExpansions,
                    Awaits(n)', Undecided(n)'
             PROVE  ~Wants(n)'
  BY DEF AskedWantsNothing
<1>0. TypeOK /\ RoundMove(n)
  BY RoundsMove DEF Timely, Ordered, Consistent
<1>1. CASE Awaits(n)
  <2>1. Undecided(n)
    BY <1>0, <1>1 DEF RoundMove, Undecided, Awaits, Verdicts
  <2>2. CASE ~Wants(n)
    BY <1>1, <2>1, <2>2, WantsStep DEF Awaits, Undecided
  <2>3. CASE Wants(n)
    <3>1. ~Asked(n) /\ phase \notin AfterExpansions
      BY <1>1, <2>1, <2>3 DEF Timely, AskedWantsNothing
    <3>2. phase' \in AfterExpansions
      BY <3>1, AskedStep DEF AfterExpansions
    <3> QED
      BY <1>0, <1>1, <2>1, <3>1, <3>2, AfterExpansionsStep DEF Wants
  <2> QED
    BY <2>2, <2>3
<1>2. CASE ~Awaits(n)
  <2>1. state[n] = "running" /\ Undecided(n) /\ phase = "candidates"
    BY <1>2, AwaitsStep
  <2>2. ~Asked(n)'
    BY <1>2, <2>1, AskedStep DEF Timely, AskedWaits
  <2>3. phase = "expansions"
    BY <1>0, <2>1, <2>2, AfterExpansionsStep DEF AfterExpansions
  <2> QED
    BY <2>1, <2>3
<1> QED
  BY <1>1, <1>2

\* A Kid is created only by a request, and stays.
LEMMA OpenRequiredStep ==
  ASSUME Timely, [Next]_vars, NEW n \in Tasks, OpenRequired(n) = {}, ~Wants(n)
  PROVE  OpenRequired(n)' = {}
<1> SUFFICES ASSUME NEW k \in Kids, Parent(k) = n, state'[k] \notin {"absent", "succeeded"}
             PROVE  FALSE
  BY DEF OpenRequired, Parent
<1>1. TaskMove(k)
  BY TaskMoves DEF Timely, Ordered, Tasks
<1>2. state[k] \in {"absent", "succeeded"}
  BY DEF OpenRequired
<1>3. request[GroupOf[k]] # "requested"
  BY GraphAssumption DEF Wants, Parent
<1> QED
  BY <1>1, <1>2, <1>3 DEF TaskMove, IsOpen, Open, Awaits

\* A reviewer accepts only what was asked for, with no child open.
LEMMA AcceptIsLastStep ==
  ASSUME Timely, [Next]_vars
  PROVE  AcceptIsLast'
<1> SUFFICES ASSUME NEW n \in Tasks, Awaits(n)', Current(n)' = "accept"
             PROVE  ~Wants(n)' /\ OpenRequired(n)' = {}
  BY DEF AcceptIsLast
<1>0. TypeOK /\ WorkersExist /\ RoundMove(n)
  BY RoundsMove DEF Timely, Ordered, Consistent
<1>1. CASE Awaits(n) /\ ~Wants(n) /\ OpenRequired(n) = {}
  BY <1>1, WantsStep, OpenRequiredStep DEF Awaits
<1>2. CASE Current(n)' = Current(n)
  <2>1. Awaits(n)
    BY <1>2, AwaitsStep DEF Undecided
  <2> QED
    BY <1>1, <1>2, <2>1 DEF Timely, AcceptIsLast
<1>3. CASE /\ Awaits(n) /\ Undecided(n) /\ CanAct(Reviewer(n))
           /\ n \notin Checked => ReviewMessage(n) \in sent
           /\ OpenRequired(n) = {}
  <2>1. Asked(n)
    <3>1. round[n] \in 1..MaxRounds
      BY <1>0, <1>3, UndecidedHasRound DEF Undecided
    <3>2. n \in Checked => Reviewer(n) \in Nodes
      BY <3>1 DEF Reviewer, Nodes, Checkers
    <3>3. n \in Checked => state[Reviewer(n)] # "absent"
      BY <1>0, <1>3, <3>2 DEF WorkersExist, HasWorker, CanAct
    <3> QED
      BY <1>3, <3>1, <3>3, NodesAssumption DEF Asked
  <2>2. ~Wants(n)
    BY <1>3, <2>1 DEF Timely, AskedWantsNothing
  <2> QED
    BY <1>1, <1>3, <2>2
<1> QED
  BY <1>0, <1>2, <1>3 DEF RoundMove, Undecided

\* A Task succeeds by such an accept, and creates no child afterwards.
LEMMA ChildrenStep ==
  ASSUME Timely, [Next]_vars
  PROVE  AcceptedWithChildren'
<1> SUFFICES ASSUME NEW k \in Kids, state'[Parent(k)] = "succeeded",
                    state'[k] \notin {"absent", "succeeded"}
             PROVE  FALSE
  BY DEF AcceptedWithChildren, Parent
<1>0. k \in Tasks /\ Parent(k) \in Tasks /\ GroupOf[k] \in Expansions
  BY GraphAssumption DEF Tasks, Parent
<1>1. TaskMove(k) /\ TaskMove(Parent(k))
  BY <1>0, TaskMoves DEF Timely, Ordered
<1>2. CASE state[Parent(k)] = "succeeded"
  <2>1. state[k] \in {"absent", "succeeded"}
    BY <1>2 DEF Timely, AcceptedWithChildren
  <2> QED
    BY <1>1, <1>2, <2>1 DEF TaskMove, IsOpen, Open, Awaits
<1>3. CASE state[Parent(k)] # "succeeded"
  <2>1. Awaits(Parent(k)) /\ Current(Parent(k)) = "accept"
    BY <1>1, <1>3 DEF TaskMove, Dead
  <2>2. ~Wants(Parent(k)) /\ OpenRequired(Parent(k)) = {}
    BY <1>0, <2>1 DEF Timely, AcceptIsLast
  <2>3. OpenRequired(Parent(k))' = {}
    BY <1>0, <2>2, OpenRequiredStep
  <2> QED
    BY <2>3 DEF OpenRequired, Parent
<1> QED
  BY <1>2, <1>3

LEMMA TimelyInit == Init => Timely
<1> SUFFICES ASSUME Init PROVE Timely
  OBVIOUS
<1>1. Ordered
  BY OrderedInit
<1>2. /\ \A n \in Nodes : state[n] = "absent"
      /\ \A n \in Tasks : round[n] = 0
      /\ \A e \in Expansions : request[e] = "none"
      /\ sent = {}
  BY DEF Init
<1>3. /\ Tasks \subseteq Nodes /\ Kids \subseteq Tasks
      /\ \A k \in Kids : Parent(k) \in Tasks
      /\ \A n \in Checked, r \in 1..MaxRounds : <<n, r>> \in Nodes
  BY GraphAssumption DEF Nodes, Tasks, Parent, Checkers
<1>4. BlankBeforeStart /\ NothingEarly
  BY <1>2, <1>3 DEF BlankBeforeStart, NothingEarly
<1>5. AskedWaits /\ AskedWantsNothing /\ AcceptIsLast
  BY <1>2, <1>3 DEF AskedWaits, AskedWantsNothing, AcceptIsLast, Awaits
<1>6. AcceptedWithChildren
  BY <1>2, <1>3 DEF AcceptedWithChildren
<1> QED
  BY <1>1, <1>4, <1>5, <1>6 DEF Timely

LEMMA TimelyStep == Timely /\ [Next]_vars => Timely'
<1> SUFFICES ASSUME Timely, [Next]_vars PROVE Timely'
  OBVIOUS
<1>1. Ordered' /\ BlankBeforeStart' /\ NothingEarly'
  BY OrderedStep, BlankStep, NothingEarlyStep DEF Timely
<1> QED
  BY <1>1, AskedWaitsStep, AskedWantsStep, AcceptIsLastStep, ChildrenStep DEF Timely

LEMMA AlwaysTimely == Spec => []Timely
  BY TimelyInit, TimelyStep, PTL DEF Spec

\* No Task ever succeeds while a child of one of its expansions is open, and
\* none is created for it afterwards, for any graph and however the phases are
\* cut short (_append_candidate, _record_review, _apply_expansions).
THEOREM AcceptedWithChildrenHolds == Spec => []AcceptedWithChildren
<1>1. Timely => AcceptedWithChildren
  BY DEF Timely
<1> QED
  BY <1>1, AlwaysTimely, PTL

-----------------------------------------------------------------------------
(* One review Node is open at a time.                                      *)

Closed(c) == state[c] \in Terminal \cup {"blocked"}

DeliveredWasSent == delivered \subseteq sent

\* The verdict on the current candidate came from the Worker of its review Node.
VerdictHasReviewer ==
  \A n \in Checked : Current(n) \in Verdicts => HasWorker(Reviewer(n))

\* In a pass that has closed the recorded reviews, a Task sent back to its
\* Worker has no open review Node.
ReworkIsClosed ==
  \A n \in Checked :
    phase \in AfterClosing /\ state[n] = "running" /\ Current(n) \in Rework
      => Closed(Reviewer(n))

\* Feedback was sent after the review Node that gave it was closed.
FeedbackIsClosed ==
  \A n \in Checked, r \in 1..MaxRounds :
    ReviseMessage(n, r) \in sent => Closed(<<n, r>>)

\* The inductive invariant: a new round needs the delivered feedback of the
\* round before, and that feedback is only sent by a phase that runs after the
\* one that closes the review Node of that round.
OneReview ==
  /\ Timely
  /\ DeliveredWasSent
  /\ VerdictHasReviewer
  /\ ReworkIsClosed
  /\ FeedbackIsClosed

\* Only queued messages are delivered, and no message leaves the inbox.
LEMMA DeliveredStep ==
  ASSUME TypeOK, DeliveredWasSent, [Next]_vars
  PROVE  DeliveredWasSent'
<1>1. sent \subseteq sent'
  BY SentGrows
<1>2. CASE UNCHANGED delivered
  BY <1>1, <1>2 DEF DeliveredWasSent
<1>3. ASSUME NEW n \in Tasks, Deliver(n) PROVE DeliveredWasSent'
  <2>1. Deliverable(n) \subseteq sent
    BY DEF Deliverable
  <2> QED
    BY <1>1, <1>3, <2>1 DEF Deliver, DeliveredWasSent
<1>4. CASE Facts
  <2>1. CASE \E n \in Tasks : SubmitCandidate(n)
    BY <1>2, <2>1 DEF SubmitCandidate, inboxVars
  <2>2. CASE \E n \in Tasks : SubmitReview(n)
    BY <1>2, <2>2 DEF SubmitReview, RecordReview, inboxVars
  <2>3. CASE \/ \E e \in Expansions : RequestExpansion(e)
             \/ \E n \in Nodes : Observe(n) \/ ReportUsage(n)
    BY <1>2, <2>3 DEF RequestExpansion, Observe, ReportUsage, inboxVars
  <2> QED
    BY <1>3, <1>4, <2>1, <2>2, <2>3 DEF Facts
<1>5. CASE ReconcilePass \/ Restart
  BY <1>2, <1>5, PhasesDeliverNothing
<1>6. CASE UNCHANGED vars
  BY <1>2, <1>6 DEF vars, inboxVars
<1> QED
  BY <1>4, <1>5, <1>6 DEF Next

\* A Worker that exists goes on to exist.
LEMMA WorkersStay ==
  ASSUME TypeOK, [Next]_vars, NEW n \in Nodes, HasWorker(n)
  PROVE  observed'[n] # "none"
<1> USE DEF HasWorker
<1>1. CASE StartWorkers
  BY <1>1 DEF StartWorkers
<1>2. CASE \E m \in Nodes : Observe(m)
  BY <1>2 DEF Observe, TypeOK
<1>3. CASE UNCHANGED observed
  BY <1>3
<1>4. CASE Facts
  <2>1. CASE \E m \in Tasks : SubmitReview(m)
    BY <1>3, <2>1 DEF SubmitReview, RecordReview, workerVars
  <2>2. CASE \/ \E m \in Tasks : SubmitCandidate(m) \/ Deliver(m)
             \/ \E e \in Expansions : RequestExpansion(e)
             \/ \E m \in Nodes : ReportUsage(m)
    BY <1>3, <2>2 DEF SubmitCandidate, Deliver, RequestExpansion, ReportUsage, workerVars
  <2> QED
    BY <1>2, <1>4, <2>1, <2>2 DEF Facts
<1>5. CASE (ReconcilePass \/ Restart) /\ ~StartWorkers
  <2>1. CASE ApplyCandidates \/ ApplyReviews \/ ApplyExecutionFailures
    BY <1>3, <2>1 DEF ApplyCandidates, ApplyReviews, ApplyExecutionFailures, workerVars
  <2>2. CASE PropagateFailures \/ CloseReviewNodes \/ ApplyExpansions
    BY <1>3, <2>2 DEF PropagateFailures, CloseReviewNodes, ApplyExpansions, workerVars
  <2>3. CASE Bootstrap \/ FreezeInputs \/ PromoteReady
    BY <1>3, <2>3 DEF Bootstrap, FreezeInputs, PromoteReady, workerVars
  <2>4. CASE WakeReviewers \/ WakeRevisions \/ WakeParents \/ WakeIdleWorkers
    BY <1>3, <2>4 DEF WakeReviewers, WakeRevisions, WakeParents, WakeIdleWorkers, workerVars
  <2>5. CASE FinishRun \/ Restart
    BY <1>3, <2>5 DEF FinishRun, Restart, workerVars
  <2> QED
    BY <1>5, <2>1, <2>2, <2>3, <2>4, <2>5 DEF ReconcilePass
<1>6. CASE UNCHANGED vars
  BY <1>3, <1>6 DEF vars, workerVars
<1> QED
  BY <1>1, <1>4, <1>5, <1>6 DEF Next

\* A closed review Node stays closed.
LEMMA ClosedStays ==
  ASSUME Consistent, [Next]_vars, NEW c \in Nodes, Closed(c)
  PROVE  Closed(c)'
<1>1. state'[c] = state[c]
  BY IrrevocableStep DEF Closed, vars
<1> QED
  BY <1>1 DEF Closed

\* The review Node of a candidate that exists is a Node.
LEMMA ReviewerIsNode ==
  ASSUME TypeOK, NEW n \in Checked, Current(n) # "none"
  PROVE  Reviewer(n) \in Checkers /\ Reviewer(n) \in Nodes /\ round[n] \in 1..MaxRounds
<1>1. round[n] \in 1..MaxRounds
  BY UndecidedHasRound, NodesAssumption
<1> QED
  BY <1>1 DEF Reviewer, Checkers, Nodes

\* Only a Worker of the review Node records a verdict.
LEMMA VerdictStep ==
  ASSUME OneReview, [Next]_vars
  PROVE  VerdictHasReviewer'
<1> SUFFICES ASSUME NEW n \in Checked, Current(n)' \in Verdicts
             PROVE  HasWorker(Reviewer(n))'
  BY DEF VerdictHasReviewer
<1>0. TypeOK /\ RoundMove(n) /\ n \in Tasks
  BY RoundsMove, NodesAssumption DEF OneReview, Timely, Ordered, Consistent
<1>1. CASE /\ Undecided(n) /\ CanAct(Reviewer(n)) /\ round'[n] = round[n]
           /\ UNCHANGED observed
  BY <1>1 DEF HasWorker, CanAct, Reviewer
<1>2. CASE round'[n] = round[n] /\ Current(n)' = Current(n)
  <2>1. HasWorker(Reviewer(n)) /\ Reviewer(n) \in Nodes
    BY <1>0, <1>2, ReviewerIsNode DEF OneReview, VerdictHasReviewer, Verdicts
  <2>2. Reviewer(n)' = Reviewer(n)
    BY <1>2 DEF Reviewer
  <2> QED
    BY <1>0, <2>1, <2>2, WorkersStay DEF HasWorker
<1> QED
  BY <1>0, <1>1, <1>2 DEF RoundMove, Undecided, Verdicts

\* A Task is set running again before the closing, and closed is its review.
LEMMA ReworkStep ==
  ASSUME OneReview, [Next]_vars
  PROVE  ReworkIsClosed'
<1> SUFFICES ASSUME NEW n \in Checked, phase' \in AfterClosing, state'[n] = "running",
                    Current(n)' \in Rework
             PROVE  Closed(Reviewer(n))'
  BY DEF ReworkIsClosed
<1> USE DEF OneReview, Timely, Ordered
<1>0. /\ TypeOK /\ TypeOK' /\ Consistent /\ WorkersExist
      /\ n \in Tasks /\ TaskMove(n) /\ RoundMove(n)
  BY TaskMoves, RoundsMove, NodesAssumption, ConsistentStep DEF Consistent
<1>1. round'[n] = round[n] /\ Current(n) \in Rework
  BY <1>0 DEF RoundMove, Undecided, Rework, Awaits
<1>2. Reviewer(n)' = Reviewer(n) /\ Reviewer(n) \in Checkers /\ Reviewer(n) \in Nodes
  BY <1>0, <1>1, ReviewerIsNode DEF Reviewer, Rework
<1>3. round[n] > 0 /\ Reviewer(n) = <<n, round[n]>> /\ ReceiptRecorded(Reviewer(n))
  BY <1>0, <1>1, ReviewerIsNode, NodesAssumption
     DEF Reviewer, ReceiptRecorded, Current, Rework, Verdicts
<1>4. state[n] # "running" => phase = "reviews"
  BY <1>0, <1>3 DEF TaskMove, BlankBeforeStart, Dead
<1>5. phase \in AfterClosing \/ phase = "closing"
  BY <1>0, AfterClosingStep
<1>6. state[n] = "running"
  BY <1>4, <1>5 DEF AfterClosing
<1>7. CASE phase \in AfterClosing
  BY <1>0, <1>1, <1>2, <1>6, <1>7, ClosedStays DEF ReworkIsClosed, Closed
<1>8. CASE phase \notin AfterClosing
  <2>1. HasWorker(Reviewer(n)) /\ state[Reviewer(n)] # "absent"
    BY <1>0, <1>1, <1>2 DEF VerdictHasReviewer, WorkersExist, Rework, Verdicts
  <2>2. CASE IsOpen(Reviewer(n))
    <3>1. state'[Reviewer(n)] = "succeeded"
      BY <1>0, <1>2, <1>3, <1>8, <2>1, <2>2, AfterClosingStep
    <3> QED
      BY <1>2, <3>1 DEF Closed, Terminal
  <2>3. CASE ~IsOpen(Reviewer(n))
    <3>1. Closed(Reviewer(n))
      BY <1>0, <1>2, <2>1, <2>3 DEF TypeOK, NodeStates, Closed, IsOpen
    <3> QED
      BY <1>0, <1>2, <3>1, ClosedStays DEF Closed
  <2> QED
    BY <2>2, <2>3
<1> QED
  BY <1>7, <1>8

\* Feedback is sent in the same pass, after the closing.
LEMMA FeedbackStep ==
  ASSUME OneReview, [Next]_vars
  PROVE  FeedbackIsClosed'
<1> SUFFICES ASSUME NEW n \in Checked, NEW r \in 1..MaxRounds,
                    ReviseMessage(n, r) \in sent'
             PROVE  Closed(<<n, r>>)'
  BY DEF FeedbackIsClosed, ReviseMessage
<1> USE DEF OneReview, Timely, Ordered
<1>0. TypeOK /\ Consistent /\ <<n, r>> \in Nodes /\ n \in Tasks
  BY NodesAssumption DEF Consistent, Nodes, Checkers
<1>1. Closed(<<n, r>>)
  <2>1. CASE ReviseMessage(n, r) \in sent
    BY <2>1 DEF FeedbackIsClosed
  <2>2. CASE ReviseMessage(n, r) \notin sent
    <3>1. /\ ReviseMessage(n, r).kind = "revise"
          /\ \A m \in Tasks : ReviseMessage(n, r) # ReviewMessage(m)
          /\ \A m \in Tasks : ReviseMessage(n, r) = ReviseMessage(m, round[m])
               => m = n /\ r = round[n]
      BY DEF ReviseMessage, ReviewMessage
    <3>2. /\ phase = "revisions" /\ state[n] = "running"
          /\ Current(n) \in Rework /\ r = round[n]
      BY <1>0, <2>2, <3>1, SentGrows
    <3> QED
      BY <3>2 DEF ReworkIsClosed, AfterClosing, Reviewer
  <2> QED
    BY <2>1, <2>2
<1> QED
  BY <1>0, <1>1, ClosedStays DEF Closed

LEMMA OneReviewInit == Init => OneReview
<1> SUFFICES ASSUME Init PROVE OneReview
  OBVIOUS
<1>1. Timely
  BY TimelyInit
<1>2. \A n \in Tasks : Current(n) = "none"
  BY DEF Init, Current
<1>3. DeliveredWasSent /\ FeedbackIsClosed
  BY DEF Init, DeliveredWasSent, FeedbackIsClosed
<1>4. VerdictHasReviewer /\ ReworkIsClosed
  BY <1>2, NodesAssumption DEF VerdictHasReviewer, ReworkIsClosed, Verdicts, Rework
<1> QED
  BY <1>1, <1>3, <1>4 DEF OneReview

LEMMA OneReviewStep == OneReview /\ [Next]_vars => OneReview'
<1> SUFFICES ASSUME OneReview, [Next]_vars PROVE OneReview'
  OBVIOUS
<1>1. Timely' /\ DeliveredWasSent'
  BY TimelyStep, DeliveredStep DEF OneReview, Timely, Ordered, Consistent
<1> QED
  BY <1>1, VerdictStep, ReworkStep, FeedbackStep DEF OneReview

\* An earlier review Node was closed by its feedback; a later one is absent.
LEMMA OpenReviewStep == OneReview => OpenReviewIsCurrent
<1> SUFFICES ASSUME OneReview, NEW c \in Checkers, IsOpen(c)
             PROVE  c[2] = round[c[1]]
  BY DEF OpenReviewIsCurrent
<1> USE DEF OneReview, Timely, Ordered
<1>1. PICK n \in Checked, r \in 1..MaxRounds : c = <<n, r>>
  BY DEF Checkers
<1>2. n \in Tasks /\ round[n] \in 0..MaxRounds
  BY NodesAssumption DEF Consistent, TypeOK
<1>3. CASE r > round[n]
  BY <1>1, <1>2, <1>3 DEF NothingEarly, IsOpen, Open
<1>4. CASE r < round[n]
  <2>1. ReviseMessage(n, r) \in sent
    BY <1>2, <1>4 DEF ReworkFollowsFeedback, DeliveredWasSent
  <2> QED
    BY <1>1, <2>1 DEF FeedbackIsClosed, Closed, IsOpen, Open, Terminal
<1> QED
  BY <1>1, <1>2, <1>3, <1>4, NodesAssumption

\* A review Node that is open always reviews the current candidate: no verdict
\* can reach a candidate that was replaced, for any number of rounds
\* (_close_review_nodes, _wake_revisions, _append_candidate).
THEOREM OpenReviewIsCurrentHolds == Spec => []OpenReviewIsCurrent
  BY OneReviewInit, OneReviewStep, OpenReviewStep, PTL DEF Spec

=============================================================================
