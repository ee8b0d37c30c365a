--------------------------- MODULE TaskLifecycle ---------------------------
(***************************************************************************)
(* The life of the Nodes of one Run: the facts that Workers and Backends   *)
(* append through the Api, and the reconcile pass by which the Scheduler   *)
(* turns those facts into Node and Run state.                              *)
(*                                                                         *)
(* Facts (candidate, review, expansion request, observation, delivery) are *)
(* appended at any moment, also between two phases of a pass.  A phase     *)
(* reads one snapshot and commits one plan per Node it is due to change;   *)
(* each plan compares the Node's revision, which every fact about the Node *)
(* bumps, so a phase is one step that commits every plan it decided or, if *)
(* a conflict or a crash interrupts it, only some of them.                 *)
(*                                                                         *)
(* Run control (pause, cancel, deadline), Decisions, acceptance revisions  *)
(* and the capacity gate are not part of this module: the Run is wanted    *)
(* running, each Worker has one epoch and there is always a free slot.     *)
(***************************************************************************)
EXTENDS Naturals, FiniteSets

CONSTANTS
  Stages,      \* declared Nodes of the frozen Graph
  Kids,        \* Nodes an expansion may create
  Expansions,  \* expansion requests a Run may see
  OwnerOf,     \* expansion -> the Task that asks for it
  GroupOf,     \* kid -> the expansion that creates it
  Deps,        \* Task -> the Tasks it depends on
  Checked,     \* Tasks whose reviewer_ref is a review_receipt Task
  MaxRounds,   \* max_review_rounds of the Run budget
  Faulty,      \* Nodes whose inputs, binding or execution may fail
  Uncertain,   \* Nodes whose execution may end with an unknown effect
  Capped,      \* Nodes whose usage or continuations may run out
  Interrupts   \* whether conflicts and crashes may cut a pass short

Tasks == Stages \cup Kids

\* The review Node of round r of Task n: "{target}-review-r{round}".
Checkers == Checked \X (1..MaxRounds)

Nodes == Tasks \cup Checkers

ASSUME NodesAssumption ==
  /\ Stages \cap Kids = {}
  /\ Tasks \cap Checkers = {}
  /\ Checked \subseteq Tasks
  /\ Stages \subseteq Checked
  /\ MaxRounds \in Nat \ {0}

ASSUME GraphAssumption ==
  /\ OwnerOf \in [Expansions -> Tasks]
  /\ GroupOf \in [Kids -> Expansions]
  /\ Deps \in [Tasks -> SUBSET Tasks]

ASSUME BoundsAssumption ==
  /\ Faulty \subseteq Nodes
  /\ Uncertain \subseteq Nodes
  /\ Capped \subseteq Nodes
  /\ Interrupts \in BOOLEAN

VARIABLES
  state,      \* Node -> its committed state, "absent" before it exists
  inputs,     \* the Nodes whose input_refs are frozen
  round,      \* Task -> round of its current candidate, 0 before the first
  decision,   \* Task -> round -> what is known of that round's candidate
  accepted,   \* Task -> round of accepted_candidate_ref, 0 for None
  request,    \* expansion -> state of its expansion_request
  observed,   \* Node -> what the Controller last observed of its Worker
  spent,      \* Nodes whose committed usage has met a cap
  sent,       \* delivery keys in the inbox of their Worker
  delivered,  \* delivery keys the Controller has delivered
  run,        \* status of the Run
  phase       \* the phase of the reconcile pass that runs next

taskVars == <<round, decision, accepted>>
inboxVars == <<sent, delivered>>
workerVars == <<observed, spent>>
vars == <<state, inputs, taskVars, request, workerVars, inboxVars, run, phase>>

-----------------------------------------------------------------------------
(* States and delivery keys.                                               *)

Terminal == {"succeeded", "failed", "cancelled"}
Dead == {"failed", "cancelled"}
Open == {"pending", "ready", "running", "awaiting_review"}
NodeStates == Open \cup Terminal \cup {"absent", "blocked"}

Phases == {"candidates", "reviews", "failures", "propagation", "expansions",
           "bootstrap", "closing", "inputs", "promotion", "start", "reviewers",
           "revisions", "parents", "idle", "finish"}

\* A Node that a phase which skips terminal and blocked Nodes still handles.
IsOpen(n) == state[n] \in Open

Verdicts == {"accept", "revise", "expand"}
Rework == {"revise", "expand"}
Decisions == Verdicts \cup {"none", "undecided"}

RunTerminal == {"completed", "failed"}
RunStatuses == RunTerminal \cup {"pending", "running", "blocked"}

Requests == {"none", "requested", "applied", "rejected"}
Observations == {"none", "live", "failed", "unknown"}

-----------------------------------------------------------------------------
(* Relations between Nodes.                                                *)

Parent(k) == OwnerOf[GroupOf[k]]

Children(e) == {k \in Kids : GroupOf[k] = e}

\* Deviation, too weak a count: only lost children keep an owner open.
LostRequired(n) == {k \in Kids : Parent(k) = n /\ state[k] \in Dead}

\* Created by an applied expansion of n and not yet succeeded.
OpenRequired(n) ==
  {k \in Kids : Parent(k) = n /\ state[k] \notin {"absent", "succeeded"}}

\* Deviation, too weak a gate: no dependency was lost.
DepsAlive(n) ==
  n \in Tasks => \A d \in Deps[n] : state[d] \notin Dead

DepsSucceeded(n) ==
  n \in Tasks => \A d \in Deps[n] : state[d] = "succeeded"

HasWorker(n) == observed[n] # "none"

\* A turn may still call the Api: no exit of the process was observed.
CanAct(n) == observed[n] \in {"live", "unknown"}

\* What is known of the candidate of n's current round.
Current(n) ==
  IF n \in Tasks /\ round[n] > 0 THEN decision[n][round[n]] ELSE "none"

Undecided(n) == Current(n) = "undecided"

\* Deviation, too narrow a receipt: an accept only.
ReceiptAccepted(c) == decision[c[1]][c[2]] = "accept"

\* Some verdict on the candidate a review Node is bound to is committed.
ReceiptRecorded(c) == decision[c[1]][c[2]] \in Verdicts

\* The Node whose Worker is bound to review the current candidate of n.
Reviewer(n) == IF n \in Checked THEN <<n, round[n]>> ELSE Parent(n)

-----------------------------------------------------------------------------
(* The inbox: one message per delivery key.                                *)

Messages == [to : Tasks, kind : {"review", "revise", "accepted", "join"},
             of : Tasks \cup Expansions, round : 0..MaxRounds]

ReviewMessage(n) ==
  [to |-> Parent(n), kind |-> "review", of |-> n, round |-> round[n]]

ReviseMessage(n, r) == [to |-> n, kind |-> "revise", of |-> n, round |-> r]

AcceptedMessage(k) ==
  [to |-> Parent(k), kind |-> "accepted", of |-> k, round |-> accepted[k]]

JoinMessage(e) ==
  [to |-> OwnerOf[e], kind |-> "join", of |-> e, round |-> 0]

\* Deviation, too early a gate: the feedback is in the inbox.
FeedbackEnqueued(n) == ReviseMessage(n, round[n]) \in sent

\* The feedback on the current candidate of n reached its execution.
FeedbackDelivered(n) == ReviseMessage(n, round[n]) \in delivered

\* The queued messages the delivery gate lets through to the Worker of n.
Deliverable(n) ==
  LET queued == {m \in sent \ delivered : m.to = n}
  IN IF \/ state[n] \in Terminal
        \/ Undecided(n)
        \/ state[n] = "awaiting_review" /\ Current(n) # "none"
     THEN {}
     ELSE IF Current(n) \in Rework /\ ~FeedbackDelivered(n)
     THEN queued \cap {ReviseMessage(n, round[n])}
     ELSE queued

-----------------------------------------------------------------------------
TypeOK ==
  /\ state \in [Nodes -> NodeStates]
  /\ inputs \in SUBSET Nodes
  /\ round \in [Tasks -> 0..MaxRounds]
  /\ decision \in [Tasks -> [1..MaxRounds -> Decisions]]
  /\ accepted \in [Tasks -> 0..MaxRounds]
  /\ request \in [Expansions -> Requests]
  /\ observed \in [Nodes -> Observations]
  /\ spent \in SUBSET Nodes
  /\ sent \in SUBSET Messages
  /\ delivered \in SUBSET Messages
  /\ run \in RunStatuses
  /\ phase \in Phases

Init ==
  /\ state = [n \in Nodes |-> "absent"]
  /\ inputs = {}
  /\ round = [n \in Tasks |-> 0]
  /\ decision = [n \in Tasks |-> [r \in 1..MaxRounds |-> "none"]]
  /\ accepted = [n \in Tasks |-> 0]
  /\ request = [e \in Expansions |-> "none"]
  /\ observed = [n \in Nodes |-> "none"]
  /\ spent = {}
  /\ sent = {}
  /\ delivered = {}
  /\ run = "pending"
  /\ phase = "candidates"

-----------------------------------------------------------------------------
(* Facts.  The Api refuses every fact but an observation on a terminal Run.*)

RunIsOpen == run \notin RunTerminal

\* Deviation, off by one: a round beyond the budget is allowed.
RoundReached(n) == round[n] <= MaxRounds

\* The Run budget still allows one more round.
RoundAllowed(n) == round[n] < MaxRounds

\* The Worker of n submits the candidate of the next round.
SubmitCandidate(n) ==
  /\ RunIsOpen
  /\ CanAct(n)
  /\ state[n] = "running"
  /\ OpenRequired(n) = {}
  /\ Current(n) \notin {"undecided", "accept"}
  /\ Current(n) \in Rework => FeedbackDelivered(n)
  /\ RoundAllowed(n)
  /\ round' = [round EXCEPT ![n] = @ + 1]
  /\ decision' = [decision EXCEPT ![n][round[n] + 1] = "undecided"]
  /\ UNCHANGED <<state, inputs, accepted, request, workerVars, inboxVars,
                 run, phase>>

\* The Worker bound to the current candidate of n records its verdict; a
\* parent's Worker is bound to it by the turn its review message starts.
RecordReview(n, verdict) ==
  /\ RunIsOpen
  /\ state[n] = "awaiting_review"
  /\ Undecided(n)
  /\ CanAct(Reviewer(n))
  /\ n \notin Checked => ReviewMessage(n) \in sent
  /\ verdict = "accept" => OpenRequired(n) = {}
  /\ decision' = [decision EXCEPT ![n][round[n]] = verdict]
  /\ UNCHANGED <<state, inputs, round, accepted, workerVars, inboxVars,
                 run, phase>>

\* "accept" and "revise" record nothing else; "expand" also requests e.
SubmitReview(n) ==
  \/ /\ \E verdict \in {"accept", "revise"} : RecordReview(n, verdict)
     /\ UNCHANGED request
  \/ \E e \in Expansions :
       /\ OwnerOf[e] = n
       /\ request[e] = "none"
       /\ RecordReview(n, "expand")
       /\ request' = [request EXCEPT ![e] = "requested"]

\* The Worker of the owner asks for e; the owner's revision does not move.
RequestExpansion(e) ==
  /\ RunIsOpen
  /\ CanAct(OwnerOf[e])
  /\ state[OwnerOf[e]] = "running"
  /\ ~Undecided(OwnerOf[e])
  /\ request[e] = "none"
  /\ request' = [request EXCEPT ![e] = "requested"]
  /\ UNCHANGED <<state, inputs, taskVars, workerVars, inboxVars, run, phase>>

\* The Controller reports that the execution of n failed, that the outcome
\* of its effects is unknown, or that an unknown outcome was resolved.
Observe(n) ==
  /\ \/ n \in Faulty /\ CanAct(n) /\ observed' = [observed EXCEPT ![n] = "failed"]
     \/ /\ n \in Uncertain
        /\ CanAct(n)
        /\ observed' = [observed EXCEPT
             ![n] = IF @ = "live" THEN "unknown" ELSE "live"]
  /\ UNCHANGED <<state, inputs, taskVars, request, spent, inboxVars, run, phase>>

\* An observation carries the usage that meets a cap of n's Worker.
ReportUsage(n) ==
  /\ n \in Capped \ spent
  /\ observed[n] = "live"
  /\ spent' = spent \cup {n}
  /\ UNCHANGED <<state, inputs, taskVars, request, observed, inboxVars, run, phase>>

\* The Controller hands a queued message to the Backend and records it.
Deliver(n) ==
  /\ RunIsOpen
  /\ observed[n] = "live"
  /\ \E m \in Deliverable(n) : delivered' = delivered \cup {m}
  /\ UNCHANGED <<state, inputs, taskVars, request, workerVars, sent, run, phase>>

-----------------------------------------------------------------------------
(* The reconcile pass.                                                     *)

\* What a phase that decided the plans of `due` may commit of them.
Committed(due) == {done \in SUBSET due : Interrupts \/ done = due}

\* The phase `here` commits `done` of `due`; the pass goes on to `next`, or
\* starts again when a conflict or a crash cut it short.
Pass(here, due, done, next) ==
  /\ RunIsOpen
  /\ phase = here
  /\ phase' = IF done = due THEN next ELSE "candidates"

\* The Nodes of `done` take the state `new` gives them.
Updated(done, new) ==
  [n \in Nodes |-> IF n \in done THEN new[n] ELSE state[n]]

Moved(done, to) == Updated(done, [n \in done |-> to])

\* A crash or conflict between two phases.
Restart ==
  /\ Interrupts
  /\ phase # "candidates"
  /\ phase' = "candidates"
  /\ UNCHANGED <<state, inputs, taskVars, request, workerVars, inboxVars, run>>

\* A committed candidate moves its running Task to review.
ApplyCandidates ==
  LET due == {n \in Tasks : state[n] = "running" /\ Undecided(n)}
  IN \E done \in Committed(due) :
       /\ Pass("candidates", due, done, "reviews")
       /\ state' = Moved(done, "awaiting_review")
       /\ UNCHANGED <<inputs, taskVars, request, workerVars, inboxVars, run>>

\* Deviation, too wide a transition: any verdict settles the Task.
AnyOutcome(n) == "succeeded"

\* review_transition: accept settles the Task, revise returns it to its
\* Worker, expand proposes no mutation.
ReviewOutcome(n) == IF Current(n) = "accept" THEN "succeeded" ELSE "running"

VerdictApplicable(n) ==
  state[n] = "awaiting_review" /\ Current(n) \in {"accept", "revise"}

ApplyReviews ==
  LET due == {n \in Tasks : VerdictApplicable(n)}
  IN \E done \in Committed(due) :
       /\ Pass("reviews", due, done, "failures")
       /\ state' = Updated(done, [n \in done |-> ReviewOutcome(n)])
       /\ accepted' = [n \in Tasks |->
            IF n \in done /\ ReviewOutcome(n) = "succeeded"
            THEN round[n] ELSE accepted[n]]
       /\ UNCHANGED <<inputs, round, decision, request, workerVars, inboxVars,
                      run>>

\* Deviation, too wide an attribution: terminal Nodes are not skipped.
ExecutionFailed(n) == observed[n] = "failed" /\ ~Undecided(n)

ExecutionLost(n) ==
  observed[n] = "failed" /\ state[n] \notin Terminal /\ ~Undecided(n)

Failing == {n \in Nodes : ExecutionLost(n)}

UnknownEffect == {n \in Nodes : observed[n] = "unknown" /\ IsOpen(n)}

IllegalFailures == {n \in Failing : state[n] = "blocked"}

\* A failed execution fails its Node unless an undecided candidate owns it;
\* an unknown one blocks it.  blocked -> failed is not a legal transition:
\* the plan is refused, the error leaves the pass and the rest of it is lost.
ApplyExecutionFailures ==
  LET due == Failing \cup UnknownEffect
  IN \E done \in IF IllegalFailures = {} THEN Committed(due)
                 ELSE SUBSET (due \ IllegalFailures) :
       /\ Pass("failures", due, done, "propagation")
       /\ state' = Updated(done,
            [n \in done |-> IF n \in Failing THEN "failed" ELSE "blocked"])
       /\ UNCHANGED <<inputs, taskVars, request, workerVars, inboxVars, run>>

\* The review Node of n that decides its fate: the earliest one that is lost.
LostReviews(n) ==
  {c \in Checkers : c[1] = n /\ state[c] \in Dead \cup {"blocked"}}

ReviewFate(n) ==
  LET first == CHOOSE c \in LostReviews(n) :
                 \A d \in LostReviews(n) : c[2] <= d[2]
  IN IF state[first] = "blocked" THEN "blocked" ELSE "failed"

LostDeps(n) == {d \in Deps[n] : state[d] \in Dead}
HeldDeps(n) == {d \in Deps[n] : state[d] = "blocked"}

Existing(e) == {k \in Children(e) : state[k] # "absent"}

\* Deviation, too late a failure: the group is lost when all of it is lost.
LostWholeGroup(e) ==
  /\ IsOpen(OwnerOf[e])
  /\ Existing(e) # {}
  /\ \A k \in Existing(e) : state[k] \in Dead

LostGroup(e) ==
  IsOpen(OwnerOf[e]) /\ \E k \in Existing(e) : state[k] \in Dead

HeldGroup(e) ==
  /\ IsOpen(OwnerOf[e])
  /\ ~LostGroup(e)
  /\ \E k \in Existing(e) : state[k] = "blocked"

OrphanedGroup(e) == Existing(e) # {} /\ state[OwnerOf[e]] \in Dead

\* Every state propagation may give to an open Node: its review Node and its
\* dependencies come first, then the groups, in the order they are scanned.
Fates(n) ==
  CASE LostReviews(n) # {} -> {ReviewFate(n)}
    [] LostReviews(n) = {} /\ n \in Tasks /\ LostDeps(n) # {} -> {"failed"}
    [] LostReviews(n) = {} /\ n \in Tasks /\ LostDeps(n) = {}
       /\ HeldDeps(n) # {} -> {"blocked"}
    [] OTHER ->
       {s \in {"failed", "blocked", "cancelled"} :
          \/ s = "failed" /\ \E e \in Expansions : OwnerOf[e] = n /\ LostGroup(e)
          \/ s = "blocked" /\ \E e \in Expansions : OwnerOf[e] = n /\ HeldGroup(e)
          \/ /\ s = "cancelled"
             /\ n \in Kids
             /\ LostGroup(GroupOf[n]) \/ OrphanedGroup(GroupOf[n])}

PropagateFailures ==
  LET due == {n \in Nodes : IsOpen(n) /\ Fates(n) # {}}
  IN \E done \in Committed(due) :
       /\ Pass("propagation", due, done, "expansions")
       /\ \E new \in [done -> {"failed", "blocked", "cancelled"}] :
            /\ \A n \in done : new[n] \in Fates(n)
            /\ state' = Updated(done, new)
       /\ UNCHANGED <<inputs, taskVars, request, workerVars, inboxVars, run>>

PendingRequests ==
  {e \in Expansions : request[e] = "requested" /\ IsOpen(OwnerOf[e])}

\* Requests whose owner a committed fact may overtake between the snapshot of
\* this phase and its plan: the plan conflicts and they stay requested.
Overtaken ==
  {e \in PendingRequests :
     \/ state[OwnerOf[e]] = "running" /\ Undecided(OwnerOf[e])
     \/ state[OwnerOf[e]] = "awaiting_review" /\ Current(OwnerOf[e]) \in Verdicts}

\* Kids that a grant of these requests creates.
Granted(granted) == {k \in Kids : GroupOf[k] \in granted}

MayExpand(e) == state[OwnerOf[e]] \in {"running", "awaiting_review"}

\* An expansion of an open owner is applied or, when policy, budget or the
\* owner's state refuse it, rejected; the owner's candidate is not consulted.
ApplyExpansions ==
  \E skipped \in SUBSET Overtaken :
  \E done \in Committed(PendingRequests \ skipped) :
  \E granted \in SUBSET {e \in done : MayExpand(e)} :
    /\ Interrupts \/ skipped = {}
    /\ Pass("expansions", PendingRequests \ skipped, done, "bootstrap")
    /\ request' = [e \in Expansions |->
         IF e \in granted THEN "applied"
         ELSE IF e \in done THEN "rejected" ELSE request[e]]
    /\ state' = Moved(Granted(granted), "pending")
    /\ UNCHANGED <<inputs, taskVars, workerVars, inboxVars, run>>

\* One plan creates every declared stage and starts the Run.
Bootstrap ==
  LET due == IF \A n \in Nodes : state[n] = "absent" THEN {"bootstrap"} ELSE {}
  IN \E done \in Committed(due) :
       /\ Pass("bootstrap", due, done, "closing")
       /\ IF done # {}
          THEN state' = Moved(Stages, "pending") /\ run' = "running"
          ELSE UNCHANGED <<state, run>>
       /\ UNCHANGED <<inputs, taskVars, request, workerVars, inboxVars>>

\* Any verdict of the bound Worker on the bound candidate closes its review.
CloseReviewNodes ==
  LET due == {c \in Checkers : /\ IsOpen(c)
                               /\ HasWorker(c)
                               /\ ReceiptRecorded(c)}
  IN \E done \in Committed(due) :
       /\ Pass("closing", due, done, "inputs")
       /\ state' = Moved(done, "succeeded")
       /\ UNCHANGED <<inputs, taskVars, request, workerVars, inboxVars, run>>

\* Inputs are frozen once every dependency succeeded; inputs that cannot be
\* resolved or exceed the context limit fail the Node.
FreezeInputs ==
  LET due == {n \in Nodes : IsOpen(n) /\ n \notin inputs /\ DepsSucceeded(n)}
  IN \E done \in Committed(due) : \E refused \in SUBSET (done \cap Faulty) :
       /\ Pass("inputs", due, done, "promotion")
       /\ inputs' = inputs \cup (done \ refused)
       /\ state' = Moved(refused, "failed")
       /\ UNCHANGED <<taskVars, request, workerVars, inboxVars, run>>

PromoteReady ==
  LET due == {n \in inputs : state[n] = "pending" /\ DepsSucceeded(n)}
  IN \E done \in Committed(due) :
       /\ Pass("promotion", due, done, "start")
       /\ state' = Moved(done, "ready")
       /\ UNCHANGED <<inputs, taskVars, request, workerVars, inboxVars, run>>

\* A ready Node gets its only Worker; an unexecutable binding fails it.
StartWorkers ==
  LET due == {n \in Nodes : state[n] = "ready" /\ ~HasWorker(n)}
  IN \E done \in Committed(due) : \E refused \in SUBSET (done \cap Faulty) :
       /\ Pass("start", due, done, "reviewers")
       /\ state' = Updated(done,
            [n \in done |-> IF n \in refused THEN "failed" ELSE "running"])
       /\ observed' = [n \in Nodes |->
            IF n \in done \ refused THEN "live" ELSE observed[n]]
       /\ UNCHANGED <<inputs, taskVars, request, spent, inboxVars, run>>

Waiting == {n \in Tasks : state[n] = "awaiting_review" /\ Undecided(n)}

\* The review Nodes that do not exist yet.
MissingReviewers ==
  {Reviewer(n) : n \in {m \in Waiting \cap Checked : state[Reviewer(m)] = "absent"}}

ReviewedByParent ==
  {n \in Waiting \ Checked : IsOpen(Parent(n)) /\ HasWorker(Parent(n))}

\* Children whose parent's execution failed, or met its cap before being asked.
ParentLost ==
  {n \in ReviewedByParent :
     \/ observed[Parent(n)] = "failed"
     \/ Parent(n) \in spent /\ ReviewMessage(n) \notin sent}

ParentToAsk ==
  {n \in ReviewedByParent \ ParentLost : ReviewMessage(n) \notin sent}

\* An undecided candidate gets its review Node, or a message to the parent's
\* Worker; a child whose parent can no longer review it fails.
WakeReviewers ==
  LET due == MissingReviewers \cup ParentLost \cup ParentToAsk
  IN \E done \in Committed(due) :
       /\ Pass("reviewers", due, done, "revisions")
       /\ state' = Updated(done \ ParentToAsk,
            [n \in done |-> IF n \in ParentLost THEN "failed" ELSE "pending"])
       /\ sent' = sent \cup {ReviewMessage(n) : n \in done \cap ParentToAsk}
       /\ UNCHANGED <<inputs, taskVars, request, workerVars, delivered, run>>

\* Rework is driven by the current candidate's feedback; a Worker that has
\* met its cap cannot take it, so its Task fails.
WakeRevisions ==
  LET due == {n \in Tasks : /\ state[n] = "running"
                            /\ Current(n) \in Rework
                            /\ ReviseMessage(n, round[n]) \notin sent}
  IN \E done \in Committed(due) :
       /\ Pass("revisions", due, done, "parents")
       /\ state' = Moved(done \cap spent, "failed")
       /\ sent' = sent \cup {ReviseMessage(n, round[n]) : n \in done \ spent}
       /\ UNCHANGED <<inputs, taskVars, request, workerVars, delivered, run>>

\* An owner is told of each accepted child and of each group that joined.
Wakes ==
  {AcceptedMessage(k) : k \in {c \in Kids : state[c] = "succeeded"}}
  \cup
  {JoinMessage(e) : e \in {x \in Expansions :
     Existing(x) # {} /\ \A k \in Existing(x) : state[k] = "succeeded"}}

\* An owner whose Worker has met its cap fails instead of being told.
WakeParents ==
  LET due == {m \in Wakes \ sent : IsOpen(m.to) /\ HasWorker(m.to)}
  IN \E done \in Committed(due) :
       /\ Pass("parents", due, done, "idle")
       /\ state' = Moved({m.to : m \in done} \cap spent, "failed")
       /\ sent' = sent \cup {m \in done : m.to \notin spent}
       /\ UNCHANGED <<inputs, taskVars, request, workerVars, delivered, run>>

\* A turn that ended without a result and may not be continued fails its
\* Node.  Which of the Workers are idle is not recorded: any of them may be.
WakeIdleWorkers ==
  LET exhausted == {n \in spent : /\ state[n] = "running"
                                  /\ observed[n] = "live"
                                  /\ OpenRequired(n) = {}
                                  /\ Current(n) \notin {"undecided", "accept"}
                                  /\ \A m \in sent \ delivered : m.to # n}
  IN \E idle \in SUBSET exhausted : \E done \in Committed(idle) :
       /\ Pass("idle", idle, done, "finish")
       /\ state' = Moved(done, "failed")
       /\ UNCHANGED <<inputs, taskVars, request, workerVars, inboxVars, run>>

\* Deviation, too strict an end: a review Node that failed keeps the Run open.
UnfinishedReviews == {c \in Checkers : state[c] \notin {"absent", "succeeded"}}

\* Review Nodes that have not ended.
TrailingReviews == {c \in Checkers : state[c] \in Open \cup {"blocked"}}

\* The status _finish_run gives the Run, from the stages and what is left open.
RunVerdict ==
  LET required == {k \in Kids : state[k] \notin {"absent", "succeeded"}}
  IN IF \E s \in Stages : state[s] = "blocked" THEN "blocked"
     ELSE IF \A s \in Stages : state[s] = "succeeded"
     THEN IF \E k \in required : state[k] \in Dead THEN "failed"
          ELSE IF required \cup TrailingReviews = {} THEN "completed" ELSE run
     ELSE IF \E s \in Stages : state[s] \in Dead THEN "failed" ELSE run

FinishRun ==
  /\ Pass("finish", {}, {}, "candidates")
  /\ run' = IF \A s \in Stages : state[s] = "absent" THEN run ELSE RunVerdict
  /\ UNCHANGED <<state, inputs, taskVars, request, workerVars, inboxVars>>

ReconcilePass ==
  \/ ApplyCandidates \/ ApplyReviews \/ ApplyExecutionFailures
  \/ PropagateFailures \/ ApplyExpansions \/ Bootstrap \/ CloseReviewNodes
  \/ FreezeInputs \/ PromoteReady \/ StartWorkers \/ WakeReviewers
  \/ WakeRevisions \/ WakeParents \/ WakeIdleWorkers \/ FinishRun

Facts ==
  \/ \E n \in Tasks : SubmitCandidate(n) \/ SubmitReview(n) \/ Deliver(n)
  \/ \E e \in Expansions : RequestExpansion(e)
  \/ \E n \in Nodes : Observe(n) \/ ReportUsage(n)

Next == ReconcilePass \/ Restart \/ Facts

Spec == Init /\ [][Next]_vars

\* The host reconciles the Run again and again, and delivers what is queued.
Fairness ==
  /\ WF_vars(ReconcilePass)
  /\ \A n \in Tasks : WF_vars(Deliver(n))

FairSpec == Spec /\ Fairness

-----------------------------------------------------------------------------
(* What the lifecycle guarantees.                                          *)

\* A Task has succeeded exactly when it has an accepted candidate, and that
\* candidate is its last one and was accepted by its reviewer
\* (review_transition, and no other writer of "succeeded").
AcceptedOnly ==
  \A n \in Tasks :
    /\ state[n] = "succeeded" <=> accepted[n] # 0
    /\ accepted[n] # 0 => /\ accepted[n] = round[n]
                          /\ decision[n][accepted[n]] = "accept"

\* A completed Run left nothing behind: every Task that exists was accepted
\* and every review Node ended (_finish_run checks the whole graph).
CompletedIsClosed ==
  run = "completed" =>
    /\ \A n \in Stages : state[n] = "succeeded"
    /\ \A n \in Kids : state[n] \in {"absent", "succeeded"}
    /\ \A c \in Checkers : state[c] \in Terminal \cup {"absent"}

\* Every round but the last one was sent back, and its feedback had been
\* delivered to the execution that produced the next candidate.
ReworkFollowsFeedback ==
  \A n \in Tasks : \A r \in 1..MaxRounds :
    r < round[n] => /\ decision[n][r] \in Rework
                    /\ ReviseMessage(n, r) \in delivered

\* No Task succeeds while a child of one of its expansions is open: a request
\* made before the candidate is applied before the candidate can be reviewed,
\* and an accept is refused while a child is open.
AcceptedWithChildren ==
  \A k \in Kids :
    state[Parent(k)] = "succeeded" => state[k] \in {"absent", "succeeded"}

\* A review Node that is still open reviews the current candidate: the one
\* of the previous round ended before a new candidate could be submitted.
OpenReviewIsCurrent ==
  \A c \in Checkers : IsOpen(c) => c[2] = round[c[1]]

\* An execution exists only for a Task whose dependencies all succeeded.
StartedAfterDependencies ==
  \A n \in Tasks : HasWorker(n) => \A d \in Deps[n] : state[d] = "succeeded"

\* No step takes back a terminal Node, a verdict, an accepted candidate or a
\* terminal Run, and no step of the pass resumes a Node blocked by an unknown
\* effect: such an effect is never replayed.
Irrevocable ==
  [][/\ \A n \in Nodes :
          state[n] \in Terminal \cup {"blocked"} => state'[n] = state[n]
     /\ \A n \in Tasks :
          /\ accepted[n] # 0 => accepted'[n] = accepted[n]
          /\ \A r \in 1..MaxRounds :
               decision[n][r] \in Verdicts => decision'[n][r] = decision[n][r]
     /\ run \in RunTerminal => state' = state /\ run' = run]_vars

\* A review Node whose receipt is recorded is closed, so that it cannot keep
\* the Run from completing, unless the Run ended otherwise.
RecordedReviewCloses ==
  \A c \in Checkers :
    (IsOpen(c) /\ HasWorker(c) /\ decision[c[1]][c[2]] \in Verdicts)
      ~> (~IsOpen(c) \/ ~RunIsOpen)

\* When a required child is lost, its owner is lost too (or is itself held,
\* or had succeeded, or the Run is over) and no sibling is left open.
LostGroupIsCleared ==
  \A k \in Kids :
    state[k] \in Dead
      ~> \/ ~RunIsOpen
         \/ /\ ~IsOpen(Parent(k))
            /\ state[Parent(k)] \in Dead =>
                 \A j \in Children(GroupOf[k]) : ~IsOpen(j)

\* Once every stage has ended, the Run ends.
RunSettles ==
  (\A s \in Stages : state[s] \in Terminal) ~> ~RunIsOpen

-----------------------------------------------------------------------------
(* What the source says and the code does not keep.                          *)

\* "A candidate submitted while one is open would become a parent result
\* without that child, so the submission is refused explicitly; the Node stays
\* running and may review or wait for the children, then submit once the join
\* closes" (_append_candidate).
CandidateAfterChildren ==
  \A n \in Tasks : IsOpen(n) /\ Undecided(n) => OpenRequired(n) = {}

\* "accept closes the target, while revise/expand closes this review round
\* and leaves the target to rework" (_close_review_nodes).
ReworkIsResumed ==
  \A n \in Tasks :
    (state[n] = "awaiting_review" /\ Current(n) \in Rework)
      ~> (state[n] # "awaiting_review" \/ ~RunIsOpen)

\* "a failed process or an unresolved side-effect cannot leave it "running"
\* forever" (_apply_execution_failures).
FailedExecutionEnds ==
  \A n \in Nodes :
    (observed[n] = "failed" /\ state[n] = "running" /\ ~Undecided(n))
      ~> (state[n] # "running" \/ ~RunIsOpen)

\* The "receipt for that exact candidate discharges this review round for any
\* committed verdict" (_closure_satisfied): a discharged review never fails.
ReceiptDischarges ==
  [][\A c \in Checkers :
       IsOpen(c) /\ decision[c[1]][c[2]] \in Verdicts => state'[c] # "failed"]_vars

\* "A submitted candidate still owns its review path; only a Worker failure
\* without one fails the Node" (_apply_execution_failures): while a candidate
\* is undecided only its review can fail it.
CandidateOwnsReview ==
  [][\A n \in Tasks :
       Undecided(n) /\ IsOpen(n) /\ state'[n] = "failed"
         => \/ LostReviews(n) # {}
            \/ n \notin Checked /\ (observed[Parent(n)] = "failed" \/ Parent(n) \in spent)
            \/ \E k \in Kids : Parent(k) = n /\ state[k] \in Dead]_vars

=============================================================================
