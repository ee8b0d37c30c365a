-------------------------- MODULE ParentDecisions --------------------------
(***************************************************************************)
(* One Task (the child) that asks the owner of its expansion (the parent)  *)
(* for decisions, and whose acceptance contract the parent may revise.     *)
(* A child whose reviews show no improvement is taken to its parent by the *)
(* Scheduler.  The reply competes at the delivery gate with the child's    *)
(* other messages, and a revision waits for questions and replies.         *)
(*                                                                         *)
(* One host runs: a pass of the Scheduler, phase after phase, again while  *)
(* it changes anything, then the Controller of each Worker, delivering one *)
(* message and reporting what it observes.  What the two executions do and *)
(* what the reviewer records happens at any moment in between.             *)
(*                                                                         *)
(* The steps within a Controller, and a replacement that meets a Backend   *)
(* which is still busy, are those of WorkerExecution.                      *)
(***************************************************************************)
EXTENDS Naturals, Sequences, FiniteSets

CONSTANTS
  Undeclared,        \* stands for a limit that the budget does not declare
  MaxRounds,         \* max_review_rounds of the Run budget
  Limit,             \* no_improvement_limit of the child's Task, or Undeclared
  MaxContinuations,  \* max_continuations of the budget, or Undeclared
  MaxAsks,           \* bound: questions the child asks
  MaxRevisions,      \* bound: revisions the parent proposes
  Busy,              \* whether the parent's turn that opened the child goes on
  Capped,            \* Workers whose usage may meet its cap
  Endings,           \* how a turn may end besides normally
  LosesAnswers,      \* whether a question's answer from the Api may be lost
  Crashes            \* whether the host may crash and be started again

Workers == {"child", "parent"}
Terminal == {"succeeded", "failed", "cancelled"}
Closed == Terminal \cup {"blocked"}
Results == {"improved", "not_improved", "unknown"}

ASSUME BudgetAssumption ==
  /\ MaxRounds \in Nat \ {0}
  /\ Limit = Undeclared \/ Limit \in Nat \ {0}
  /\ MaxContinuations = Undeclared \/ MaxContinuations \in Nat
  /\ MaxAsks \in Nat /\ MaxRevisions \in Nat

ASSUME FaultAssumption ==
  /\ Capped \subseteq Workers
  /\ Endings \subseteq {"failed", "unknown"}
  /\ {Busy, LosesAnswers, Crashes} \subseteq BOOLEAN

VARIABLES
  child,       \* its Node: state, round, number of its contract
  candidates,  \* its candidates, by round: verdict, contract, progress result
  requested,   \* the number of contract revisions proposed so far
  parent,      \* state of the parent's Node: "open", "failed" or "blocked"
  questions,   \* rows of decision_requests, in the order of creation
  exec,        \* Worker rows: epoch, contract, desired, observed, turn
  spent,       \* Workers whose committed usage meets a cap
  inbox,       \* Worker -> its messages: key, epoch, state
  idles,       \* turns of the parent with a committed idle observation
  proc,        \* Worker -> its process: "none", "active", "ended", ...
  turns,       \* Worker -> the turns its processes were started for
  stops,       \* Workers whose Backend has been told to stop
  yielded,     \* the child's turn has asked and does nothing more
  phase,       \* the step of the host that is next
  changed      \* whether this pass has committed anything

nodeVars == <<child, candidates, requested, parent, questions>>
rowVars == <<exec, spent, inbox, idles>>
procVars == <<proc, turns, stops, yielded>>
passVars == <<phase, changed>>
vars == <<nodeVars, rowVars, procVars, passVars>>

-----------------------------------------------------------------------------
(* What is committed. *)

HasCandidate ==
  child.round > 0 /\ candidates[child.round].contract = child.contract

\* The decision on the candidate of the current round and contract.
Verdict == IF HasCandidate THEN candidates[child.round].verdict ELSE "none"
Undecided == Verdict = "undecided"

Pending == requested > child.contract /\ child.state \notin Terminal
Local == child.contract > 0
Superseded == exec["child"].contract # child.contract

InState(s) == {d \in DOMAIN questions : questions[d].state = s}
Open == InState("open")

Key(kind, of, turn) == [kind |-> kind, of |-> of, turn |-> turn]
Start(e) == Key("start", e, 0)
Reply(d) == Key("reply", d, 0)
Feedback == Key("revise", child.round, 0)
Request(d) == Key("ask", d, 0)
Again(d, t) == Key("again", d, t)

Rows(w, s) ==
  {i \in DOMAIN inbox[w] : inbox[w][i].epoch = exec[w].epoch /\ inbox[w][i].state \in s}
Keys(w, s) == {inbox[w][i].key : i \in Rows(w, s)}
Seen(w) == Keys(w, {"pending", "delivered", "superseded"})
Queued(w) == Rows(w, {"pending"})

\* Deliveries of any epoch.
EverDelivered(w) ==
  {inbox[w][i].key : i \in {j \in DOMAIN inbox[w] : inbox[w][j].state = "delivered"}}

Used(w) ==
  Cardinality({i \in DOMAIN inbox[w] : inbox[w][i].key.kind \in {"continue", "again"}})

Post(w, k) ==
  inbox' = [inbox EXCEPT
              ![w] = Append(@, [key |-> k, epoch |-> exec[w].epoch, state |-> "pending"])]

\* Deviation, too wide a window: the evidence of an earlier contract counts.
CountedAcross(r) == candidates[r].result \in Results

\* The fold over the committed evaluations of the current comparison window.
Counted(r) == candidates[r].contract = child.contract /\ candidates[r].result \in Results

\* Deviation, off by one: the limit itself is still allowed.
Exceeds(streak) == streak > Limit

Reaches(streak) == streak = Limit

Fold[r \in 0..Len(candidates)] ==
  IF r = 0 THEN [streak |-> 0, trigger |-> 0]
  ELSE LET before == Fold[r - 1] IN
       CASE Counted(r) /\ candidates[r].result = "improved" ->
              [streak |-> 0, trigger |-> 0]
         [] Counted(r) /\ candidates[r].result = "not_improved" ->
              [streak |-> before.streak + 1,
               trigger |-> IF Reaches(before.streak + 1) /\ before.trigger = 0
                             THEN r ELSE before.trigger]
         [] OTHER -> before

Trigger == IF Limit = Undeclared THEN 0 ELSE Fold[Len(candidates)].trigger
Stalled == Trigger # 0

\* The system request of the current trigger, if there is one.
Handoffs ==
  {d \in DOMAIN questions : questions[d].source = "progress"
                            /\ questions[d].trigger = Trigger}
Released == \E d \in Handoffs : questions[d].state = "resolved"

-----------------------------------------------------------------------------
(* The delivery gate. *)

Owed == {Reply(d) : d \in InState("resolved")} \ EverDelivered("child")

FeedbackOwed ==
  Verdict = "revise" /\ Feedback \notin Keys("child", {"delivered"})

\* Deviation, lost order: a reply takes its turn among the other messages.
ChildGateInOrder(k) ==
  /\ child.state \notin Terminal
  /\ ~Undecided /\ ~(HasCandidate /\ child.state = "awaiting_review") /\ Open = {}
  /\ Pending \/ (Local /\ Superseded) => k \in Owed
  /\ FeedbackOwed => k \in {Feedback} \cup Owed

\* Deviation, too strict a gate: an execution to be replaced gets nothing.
ChildGateShut(k) ==
  /\ child.state \notin Terminal
  /\ ~Undecided /\ ~(HasCandidate /\ child.state = "awaiting_review") /\ Open = {}
  /\ ~Pending /\ ~(Local /\ Superseded)
  /\ Owed # {} => k \in Owed

\* The messages of the child that may be delivered now.
ChildGate(k) ==
  /\ child.state \notin Terminal
  /\ ~Undecided
  /\ ~(HasCandidate /\ child.state = "awaiting_review")
  /\ Open = {}
  /\ IF Pending \/ (Local /\ Superseded) THEN k \in Owed
     ELSE IF Local /\ Start(exec["child"].epoch) \notin Keys("child", {"delivered"})
       THEN k = Start(exec["child"].epoch)
     ELSE IF Stalled /\ ~Released THEN k \in Owed
     ELSE IF Owed # {} THEN k \in Owed
     ELSE FeedbackOwed => k = Feedback

Gate(w, k) == IF w = "child" THEN ChildGate(k) ELSE parent # "failed"

\* Deviation, forgotten reply: a pending revision stops every message.
DispatchQuiet(k) ==
  \/ k \in Keys("child", {"pending"})
  \/ ~Pending /\ ~(Local /\ Superseded) /\ "child" \notin spent

\* Whether the Scheduler may queue message k for the child.
DispatchAllowed(k) ==
  \/ k \in Keys("child", {"pending"})
  \/ Pending /\ Open = {} /\ k \in Owed
  \/ ~Pending /\ ~(Local /\ Superseded) /\ "child" \notin spent

-----------------------------------------------------------------------------
(* Initially the child has just been started by a turn of its parent that  *)
(* may go on.                                                              *)

Message(k, s) == [key |-> k, epoch |-> 0, state |-> s]

Row(o, t) ==
  [epoch |-> 0, contract |-> 0, desired |-> "active", observed |-> o, turn |-> t]

Init ==
  /\ child = [state |-> "running", round |-> 0, contract |-> 0]
  /\ candidates = <<>>
  /\ requested = 0
  /\ parent = "open"
  /\ questions = <<>>
  /\ exec = [w \in Workers |-> IF w = "child" THEN Row("starting", 0)
                               ELSE Row(IF Busy THEN "active" ELSE "idle", 1)]
  /\ spent = {}
  /\ inbox = [w \in Workers |->
                <<Message(Start(0), IF w = "child" THEN "pending" ELSE "delivered")>>]
  /\ idles = IF Busy THEN {} ELSE {1}
  /\ proc = [w \in Workers |-> CASE w = "child" -> "none"
                                [] Busy -> "active"
                                [] OTHER -> "ended"]
  /\ turns = [w \in Workers |->
                IF w = "child" THEN <<>> ELSE <<[key |-> Start(0), epoch |-> 0]>>]
  /\ stops = {}
  /\ yielded = FALSE
  /\ phase = "facts"
  /\ changed = FALSE

-----------------------------------------------------------------------------
(* What the child's turn may record. *)

Acts(w) == proc[w] = "active"

Question(source, trigger) ==
  [source |-> source, state |-> "open", round |-> child.round + 1,
   contract |-> child.contract, epoch |-> exec["child"].epoch, trigger |-> trigger]

Asked == Cardinality({d \in DOMAIN questions : questions[d].source = "worker"})

\* Deviation, the turn goes on after its question.
GoesOn == UNCHANGED yielded

\* The turn ends with its question unless the answer to the call is lost.
Yields == yielded' \in {TRUE} \cup (IF LosesAnswers THEN {FALSE} ELSE {})

Ask ==
  /\ Acts("child") /\ ~yielded
  /\ Asked < MaxAsks
  /\ Open = {}
  /\ parent # "failed"
  /\ ~Superseded
  /\ child.state = "running"
  /\ ~Undecided
  /\ questions' = Append(questions, Question("worker", 0))
  /\ Yields
  /\ UNCHANGED <<child, candidates, requested, parent, rowVars, proc, turns, stops,
                 passVars>>

Candidate == [verdict |-> "undecided", contract |-> child.contract, result |-> "none"]

\* Deviation, off by one: a round beyond the budget is allowed.
RoundsOrOneMore == child.round <= MaxRounds

RoundsLeft == child.round < MaxRounds

Submit ==
  /\ Acts("child") /\ ~yielded
  /\ ~Superseded
  /\ child.state = "running"
  /\ ~Pending
  /\ child.round > 0 => candidates[child.round].verdict \notin {"undecided", "accept"}
  /\ ~FeedbackOwed
  /\ RoundsLeft
  /\ candidates' = Append(candidates, Candidate)
  /\ child' = [child EXCEPT !.round = @ + 1]
  /\ UNCHANGED <<requested, parent, questions, rowVars, procVars, passVars>>

\* The reviewer's verdict, with the progress it found where that is declared.
Review ==
  /\ child.state = "awaiting_review"
  /\ Undecided
  /\ \E v \in {"accept", "revise"},
        p \in (IF Limit = Undeclared THEN {"none"} ELSE Results) :
       candidates' = [candidates EXCEPT ![child.round].verdict = v,
                                        ![child.round].result = p]
  /\ UNCHANGED <<child, requested, parent, questions, rowVars, procVars, passVars>>

-----------------------------------------------------------------------------
(* What the parent's turn may record. *)

Turn(w) == turns[w][Len(turns[w])]

\* A turn may only answer the question of the message it was started for.
Resolve(d) ==
  /\ Acts("parent")
  /\ Turn("parent").key.kind \in {"ask", "again"}
  /\ Turn("parent").key.of = d
  /\ d \in Open
  /\ child.state = "waiting_decision"
  /\ questions[d].round = child.round + 1
  /\ questions[d].contract = child.contract
  /\ questions' = [questions EXCEPT ![d].state = "resolved"]
  /\ UNCHANGED <<child, candidates, requested, parent, rowVars, procVars, passVars>>

Revise ==
  /\ Acts("parent")
  /\ requested < MaxRevisions
  /\ exec["parent"].desired # "stopped"
  /\ child.state \in {"running", "awaiting_review"}
  /\ ~Undecided
  /\ ~Pending
  /\ ~Superseded
  /\ requested' = requested + 1
  /\ UNCHANGED <<child, candidates, parent, questions, rowVars, procVars, passVars>>

TurnEnds(w) ==
  /\ proc[w] = "active"
  /\ proc' \in {[proc EXCEPT ![w] = e] : e \in {"ended"} \cup Endings}
  /\ yielded' = (yielded /\ w # "child")
  /\ UNCHANGED <<nodeVars, rowVars, turns, stops, passVars>>

-----------------------------------------------------------------------------
(* The phases of a pass. *)

Pass(here, next) == phase = here /\ phase' = next /\ UNCHANGED changed
Commit(here, next) == phase = here /\ phase' = next /\ changed' = TRUE

Applied ==
  CASE child.state = "running" /\ Undecided -> "awaiting_review"
    [] child.state = "awaiting_review" /\ Verdict = "accept" -> "succeeded"
    [] child.state = "awaiting_review" /\ Verdict = "revise" -> "running"
    [] OTHER -> child.state

ApplyFacts ==
  /\ IF Applied = child.state THEN Pass("facts", "progress")
                              ELSE Commit("facts", "progress")
  /\ child' = [child EXCEPT !.state = Applied]
  /\ UNCHANGED <<candidates, requested, parent, questions, rowVars, procVars>>

HandoffDue == child.state = "running" /\ Stalled /\ Handoffs = {} /\ Open = {}

\* One system request for each trigger; without a parent to ask, the end.
ReconcileProgress ==
  /\ IF ~HandoffDue
       THEN /\ Pass("progress", "failures")
            /\ UNCHANGED <<child, questions>>
       ELSE /\ Commit("progress", "failures")
            /\ IF parent = "failed"
                 THEN /\ child' = [child EXCEPT !.state = "failed"]
                      /\ UNCHANGED questions
                 ELSE /\ questions' = Append(questions, Question("progress", Trigger))
                      /\ UNCHANGED child
  /\ UNCHANGED <<candidates, requested, parent, rowVars, procVars>>

\* What an observation makes of a Node that is not over.
Struck(state, w, owned) ==
  CASE state \in Terminal -> state
    [] exec[w].observed = "failed" /\ ~owned -> "failed"
    [] exec[w].observed = "unknown" -> "blocked"
    [] OTHER -> state

\* A failed execution of a blocked Node: the transition is refused, and the
\* error ends the pass.
Refused ==
  \/ parent = "blocked" /\ exec["parent"].observed = "failed"
  \/ child.state = "blocked" /\ exec["child"].observed = "failed" /\ ~Undecided

RaiseIn(here) == phase = here /\ phase' = "deliver child" /\ changed' = FALSE

FailuresRefused == Refused /\ RaiseIn("failures") /\ UNCHANGED <<nodeVars, rowVars, procVars>>

\* Failure attribution, then its propagation between parent and child.
ApplyFailures ==
  LET c == Struck(child.state, "child", Undecided)
      p == Struck(parent, "parent", FALSE)
      p2 == CASE p \in Closed -> p
              [] c \in {"failed", "cancelled"} -> "failed"
              [] c = "blocked" -> "blocked"
              [] OTHER -> p
      c2 == IF p2 = "failed" /\ c \notin Closed THEN "cancelled" ELSE c
  IN /\ ~Refused
     /\ IF c2 = child.state /\ p2 = parent THEN Pass("failures", "decisions")
                                           ELSE Commit("failures", "decisions")
     /\ child' = [child EXCEPT !.state = c2]
     /\ parent' = p2
     /\ UNCHANGED <<candidates, requested, questions, rowVars, procVars>>

-----------------------------------------------------------------------------
(* Decisions and acceptance revisions. *)

Wait ==
  /\ Open # {} /\ child.state = "running"
  /\ Commit("decisions", "acceptance")
  /\ child' = [child EXCEPT !.state = "waiting_decision"]
  /\ UNCHANGED inbox

\* The reply to the latest question, for a child that waits for it.
Answered ==
  /\ child.state = "waiting_decision"
  /\ Len(questions) \in InState("resolved")
  /\ exec["child"].desired # "stopped"

Answer == Reply(Len(questions))

ReplyDue == Answered /\ (Answer \in Seen("child") \/ DispatchAllowed(Answer))

\* A crash may separate the reply from the resumption.
Resume ==
  /\ ReplyDue
  /\ IF Answer \in Seen("child") THEN UNCHANGED inbox ELSE Post("child", Answer)
  /\ \/ /\ Commit("decisions", "acceptance")
        /\ child' = [child EXCEPT !.state = "running"]
     \/ /\ Crashes /\ Answer \notin Seen("child")
        /\ Pass("decisions", "facts")
        /\ UNCHANGED child

NothingDecided ==
  /\ ~ReplyDue
  /\ ~(Open # {} /\ child.state = "running")
  /\ Pass("decisions", "acceptance")
  /\ UNCHANGED <<child, inbox>>

ApplyDecisions ==
  /\ Wait \/ Resume \/ NothingDecided
  /\ UNCHANGED <<candidates, requested, parent, questions, exec, spent, idles, procVars>>

\* Deviation, too early: a reply in the inbox counts as read.
RepliesQueued ==
  \A d \in InState("resolved") :
    \E i \in DOMAIN inbox["child"] : inbox["child"][i].key = Reply(d)

\* Each reply was read by the execution that asked.
RepliesConsumed ==
  \A d \in InState("resolved") :
    \E i \in DOMAIN inbox["child"] :
      inbox["child"][i] = [key |-> Reply(d), epoch |-> questions[d].epoch,
                           state |-> "delivered"]

MayApply ==
  /\ Pending
  /\ child.state = "running"
  /\ Verdict \notin {"undecided", "accept"}
  /\ Open = {}
  /\ RepliesConsumed

ApplyRevision ==
  /\ MayApply
  /\ Commit("acceptance", "wakes")
  /\ child' = [child EXCEPT !.contract = @ + 1]
  /\ exec' = [exec EXCEPT !["child"].desired = "stopped"]
  /\ UNCHANGED <<inbox, stops, proc>>

HandOffDue == ~Pending /\ Local /\ ~Superseded /\ Start(exec["child"].epoch) \notin Seen("child")

HandOff ==
  /\ HandOffDue
  /\ Commit("acceptance", "wakes")
  /\ Post("child", Start(exec["child"].epoch))
  /\ UNCHANGED <<child, exec, stops, proc>>

Drained == ~Pending /\ Superseded /\ exec["child"].observed \in {"stopped", "failed"}

Supersede ==
  /\ Drained /\ Queued("child") # {}
  /\ Commit("acceptance", "wakes")
  /\ inbox' = [inbox EXCEPT !["child"] =
                 [i \in DOMAIN @ |-> IF i \in Queued("child")
                                       THEN [@[i] EXCEPT !.state = "superseded"] ELSE @[i]]]
  /\ UNCHANGED <<child, exec, stops, proc>>

\* A fresh epoch with a new entity; the Api refuses it for a Node that is over,
\* and the error ends the pass.
Rebind ==
  /\ Drained /\ Queued("child") = {}
  /\ IF child.state = "running"
       THEN /\ Commit("acceptance", "wakes")
            /\ exec' = [exec EXCEPT !["child"] =
                          [epoch |-> @.epoch + 1, contract |-> child.contract,
                           desired |-> "active", observed |-> "starting", turn |-> 0]]
            /\ stops' = stops \ {"child"}
            /\ proc' = [proc EXCEPT !["child"] = "none"]
       ELSE /\ RaiseIn("acceptance")
            /\ UNCHANGED <<exec, stops, proc>>
  /\ UNCHANGED <<child, inbox>>

NothingToRevise ==
  /\ ~MayApply /\ ~HandOffDue /\ ~Drained
  /\ Pass("acceptance", "wakes")
  /\ UNCHANGED <<child, exec, inbox, stops, proc>>

ReconcileAcceptance ==
  /\ ApplyRevision \/ HandOff \/ Supersede \/ Rebind \/ NothingToRevise
  /\ UNCHANGED <<candidates, requested, parent, questions, spent, idles, turns, yielded>>

-----------------------------------------------------------------------------
(* Waking the child and, for an open question, its parent. *)

Fail(w) ==
  IF w = "child"
    THEN child' = [child EXCEPT !.state = "failed"] /\ UNCHANGED parent
    ELSE parent' = "failed" /\ UNCHANGED child

\* Message k is queued for w.
Send(w, k) == Commit("wakes", "idle") /\ Post(w, k) /\ UNCHANGED <<child, parent>>

\* Node w fails instead of being sent a message its Worker may not have.
GiveUp(w) == Commit("wakes", "idle") /\ Fail(w) /\ UNCHANGED inbox

StartDue == child.state = "running" /\ Start(exec["child"].epoch) \notin Seen("child")

ReworkDue ==
  /\ child.state = "running"
  /\ ~StartDue
  /\ Verdict = "revise"
  /\ ~Pending /\ ~(Local /\ Superseded)
  /\ Feedback \notin Seen("child")

WakeChild ==
  \/ StartDue /\ Send("child", Start(exec["child"].epoch))
  \/ ReworkDue /\ "child" \notin spent /\ Send("child", Feedback)
  \/ ReworkDue /\ "child" \in spent /\ GiveUp("child")

\* Questions whose child waits, for a parent that was not told to stop.
Waiting == IF child.state = "waiting_decision" THEN Open ELSE {}

AuthorityLost == parent \in Closed \/ exec["parent"].observed = "failed"

\* The request's own turn is known to have ended without an answer.
Unanswered(d) ==
  LET row == exec["parent"] IN
  /\ row.observed = "idle"
  /\ row.turn # 0
  /\ \A i \in Queued("parent") : inbox["parent"][i].key.kind # "again"
                                 \/ inbox["parent"][i].key.of # d
  /\ \/ LET k == turns["parent"][row.turn].key IN k.kind \in {"ask", "again"} /\ k.of = d
     \/ \E t \in idles : turns["parent"][t].key = Request(d)
  /\ Again(d, row.turn) \notin Seen("parent")

AskParent(d) ==
  /\ ~AuthorityLost
  /\ Request(d) \notin Seen("parent")
  /\ IF "parent" \in spent THEN GiveUp("parent") ELSE Send("parent", Request(d))

AskAgain(d) ==
  /\ ~AuthorityLost
  /\ Request(d) \in Seen("parent")
  /\ Unanswered(d)
  /\ \/ "parent" \in spent /\ GiveUp("parent")
     \/ /\ "parent" \notin spent
        /\ MaxContinuations # Undeclared
        /\ IF Used("parent") >= MaxContinuations
             THEN GiveUp("parent")
             ELSE Send("parent", Again(d, exec["parent"].turn))

WakeParent ==
  \E d \in Waiting :
    \/ AuthorityLost /\ GiveUp("child")
    \/ AskParent(d)
    \/ AskAgain(d)

Undelivered(d) == Request(d) \notin Seen("parent")

NobodyToWake ==
  /\ ~StartDue /\ ~ReworkDue
  /\ \A d \in Waiting :
       /\ ~AuthorityLost
       /\ ~Undelivered(d)
       /\ Unanswered(d) => MaxContinuations = Undeclared /\ "parent" \notin spent
  /\ Pass("wakes", "idle")
  /\ UNCHANGED <<child, parent, inbox>>

WakeWorkers ==
  /\ WakeChild \/ WakeParent \/ NobodyToWake
  /\ UNCHANGED <<candidates, requested, questions, exec, spent, idles, procVars>>

-----------------------------------------------------------------------------
(* The end of a pass. *)

\* An idle turn that left the child unfinished, with nothing else to come.
Idle ==
  LET row == exec["child"] IN
  /\ child.state = "running"
  /\ row.observed = "idle"
  /\ row.turn # 0
  /\ ~Pending
  /\ ~(Local /\ Superseded)
  /\ Open = {}
  /\ Verdict \notin {"undecided", "accept"}
  /\ Queued("child") = {}
  /\ Key("continue", 0, row.turn) \notin Seen("child")

Exhausted ==
  \/ "child" \in spent
  \/ MaxContinuations # Undeclared /\ Used("child") >= MaxContinuations

WakeIdle ==
  /\ IF Idle /\ (Exhausted \/ MaxContinuations # Undeclared)
       THEN /\ Commit("idle", "close")
            /\ IF Exhausted
                 THEN child' = [child EXCEPT !.state = "failed"] /\ UNCHANGED inbox
                 ELSE Post("child", Key("continue", 0, exec["child"].turn)) /\ UNCHANGED child
       ELSE Pass("idle", "close") /\ UNCHANGED <<child, inbox>>
  /\ UNCHANGED <<candidates, requested, parent, questions, exec, spent, idles, procVars>>

\* A question of a Node that can no longer wait is cancelled.
Withdrawn == IF child.state \in Closed THEN Open ELSE {}

\* Workers of Nodes that are over are told to stop.
Retired ==
  {w \in Workers : /\ exec[w].desired # "stopped"
                   /\ IF w = "child" THEN child.state \in Terminal ELSE parent = "failed"}

\* The pass is repeated until it commits nothing.
ClosePass ==
  /\ phase = "close"
  /\ questions' = [d \in DOMAIN questions |->
                     IF d \in Withdrawn THEN [questions[d] EXCEPT !.state = "cancelled"]
                                        ELSE questions[d]]
  /\ exec' = [w \in Workers |-> IF w \in Retired THEN [exec[w] EXCEPT !.desired = "stopped"]
                                                 ELSE exec[w]]
  /\ phase' = IF changed \/ Withdrawn # {} \/ Retired # {} THEN "facts" ELSE "deliver child"
  /\ changed' = FALSE
  /\ UNCHANGED <<child, candidates, requested, parent, spent, inbox, idles, procVars>>

-----------------------------------------------------------------------------
(* The Controllers. *)

DeliverPhase(w) == IF w = "child" THEN "deliver child" ELSE "deliver parent"
ReportPhase(w) == IF w = "child" THEN "report child" ELSE "report parent"
AfterReport(w) == IF w = "child" THEN "deliver parent" ELSE "facts"

\* The first queued message that the gate lets through.
NextUp(w) ==
  LET ready == {i \in Queued(w) : Gate(w, inbox[w][i].key)} IN
  {i \in ready : \A j \in ready : i <= j}

Accepts(w) == proc[w] \notin {"active", "unknown"} /\ w \notin spent

\* The Backend starts a turn, and the delivery is recorded.
Deliver(w) ==
  /\ Pass(DeliverPhase(w), ReportPhase(w))
  /\ exec[w].desired # "stopped"
  /\ Accepts(w)
  /\ \E i \in NextUp(w) :
       /\ inbox' = [inbox EXCEPT ![w][i].state = "delivered"]
       /\ turns' = [turns EXCEPT ![w] = Append(@, [key |-> inbox[w][i].key,
                                                   epoch |-> exec[w].epoch])]
  /\ proc' = [proc EXCEPT ![w] = "active"]
  /\ UNCHANGED <<nodeVars, exec, spent, idles, stops, yielded>>

\* Nothing is delivered, or the Backend is told to stop.
NoDelivery(w) ==
  /\ Pass(DeliverPhase(w), ReportPhase(w))
  /\ \/ /\ exec[w].desired = "stopped"
        /\ stops' = stops \cup {w}
     \/ /\ exec[w].desired # "stopped"
        /\ ~Accepts(w) \/ NextUp(w) = {}
        /\ UNCHANGED stops
  /\ UNCHANGED <<nodeVars, rowVars, proc, turns, yielded>>

\* What a poll of the Backend finds; a stop explains every end but an unknown one.
Found(w) ==
  CASE proc[w] \in {"active", "unknown"} -> proc[w]
    [] w \in stops -> "stopped"
    [] proc[w] = "failed" -> "failed"
    [] OTHER -> "idle"

Current(w) ==
  IF turns[w] # <<>> /\ Turn(w).epoch = exec[w].epoch THEN Len(turns[w]) ELSE 0

Report(w) ==
  /\ Pass(ReportPhase(w), AfterReport(w))
  /\ exec' = [exec EXCEPT ![w].observed = Found(w), ![w].turn = Current(w)]
  /\ idles' = idles \cup (IF w = "parent" /\ Found(w) = "idle" /\ Current(w) # 0
                             THEN {Current(w)} ELSE {})
  /\ spent' \in {spent} \cup (IF w \in Capped /\ Current(w) # 0 THEN {spent \cup {w}} ELSE {})
  /\ UNCHANGED <<nodeVars, inbox, procVars>>

\* The host dies and a new one starts with a pass.
Crash ==
  /\ Crashes /\ phase # "facts"
  /\ phase' = "facts" /\ changed' = FALSE
  /\ UNCHANGED <<nodeVars, rowVars, procVars>>

-----------------------------------------------------------------------------

Scheduler ==
  \/ ApplyFacts \/ ReconcileProgress \/ FailuresRefused \/ ApplyFailures \/ ApplyDecisions
  \/ ReconcileAcceptance \/ WakeWorkers \/ WakeIdle \/ ClosePass

Controller(w) == Deliver(w) \/ NoDelivery(w) \/ Report(w)

Host == Scheduler \/ \E w \in Workers : Controller(w)

Next ==
  \/ Ask \/ Submit \/ Review \/ Revise
  \/ \E d \in DOMAIN questions : Resolve(d)
  \/ \E w \in Workers : TurnEnds(w)
  \/ Host
  \/ Crash

\* The loop of the host runs until it is shut down, and a wall limit ends turns.
Fairness == WF_vars(Host) /\ \A w \in Workers : WF_vars(TurnEnds(w))

Spec == Init /\ [][Next]_vars
FairSpec == Spec /\ Fairness

-----------------------------------------------------------------------------
(* Properties. *)

States == {"running", "awaiting_review", "waiting_decision"} \cup Closed

KeySet ==
  [kind : {"start", "reply", "revise", "ask", "again", "continue"},
   of : Nat, turn : Nat]

\* The state is as the Control Plane stores it: Node states, candidates with
\* their verdicts, questions, Worker rows, inboxes, and the processes' turns.
TypeOK ==
  /\ child \in [state : States, round : 0..MaxRounds, contract : 0..MaxRevisions]
  /\ candidates \in Seq([verdict : {"undecided", "accept", "revise"},
                         contract : 0..MaxRevisions, result : Results \cup {"none"}])
  /\ Len(candidates) = child.round
  /\ requested \in child.contract..MaxRevisions
  /\ parent \in {"open", "failed", "blocked"}
  /\ questions \in Seq([source : {"worker", "progress"}, trigger : 0..MaxRounds,
                        state : {"open", "resolved", "cancelled"},
                        round : 1..MaxRounds + 1, contract : 0..MaxRevisions,
                        epoch : 0..MaxRevisions])
  /\ exec \in [Workers -> [epoch : 0..MaxRevisions, contract : 0..MaxRevisions,
                           desired : {"active", "stopped"}, turn : Nat,
                           observed : {"starting", "active", "idle", "failed",
                                       "unknown", "stopped"}]]
  /\ spent \subseteq Workers
  /\ inbox \in [Workers -> Seq([key : KeySet, epoch : 0..MaxRevisions,
                                state : {"pending", "delivered", "superseded"}])]
  /\ idles \subseteq DOMAIN turns["parent"]
  /\ proc \in [Workers -> {"none", "active", "ended", "failed", "unknown"}]
  /\ turns \in [Workers -> Seq([key : KeySet, epoch : 0..MaxRevisions])]
  /\ stops \subseteq Workers
  /\ yielded \in BOOLEAN /\ changed \in BOOLEAN
  /\ phase \in {"facts", "progress", "failures", "decisions", "acceptance", "wakes",
                "idle", "close", "deliver child", "report child", "deliver parent",
                "report parent"}

\* The question a Task waits for can be answered: it was asked for the round and
\* the contract the Task is still in, which _append_decision_resolution requires
\* of every answer.
AnswerableWait ==
  child.state = "waiting_decision" =>
    \A d \in Open : /\ questions[d].round = child.round + 1
                    /\ questions[d].contract = child.contract

\* The comparison window of contract c before round n, defined without a fold:
\* the rounds since the last improvement that were not one.
Window(c, n) ==
  LET of(results) == {r \in 1..n : candidates[r].contract = c
                                   /\ candidates[r].result \in results}
  IN {r \in of({"not_improved"}) : \A q \in of({"improved"}) : q < r}

\* The round at which that window reached the limit.
StalledAt(c, n) ==
  {r \in Window(c, n) : Cardinality({q \in Window(c, n) : q <= r}) = Limit}

\* A Task is stalled exactly at the Limit-th comparison without improvement since
\* the last improvement under its present contract: fold_progress_evaluations
\* neither counts evidence that cannot be compared nor forgets the trigger when
\* the streak goes on.
StallIsCounted ==
  Limit # Undeclared =>
    StalledAt(child.contract, child.round) = (IF Stalled THEN {Trigger} ELSE {})

\* No candidate was ever recorded after a stall under the same contract before
\* the parent answered the request of that very stall, whatever turns, messages
\* and crashes lay between (the delivery gates and the submission's checks
\* together; no check names the stall).
NoRoundPastStall ==
  Limit # Undeclared =>
    \A r \in DOMAIN candidates :
      \A t \in StalledAt(candidates[r].contract, r - 1) :
        \E d \in DOMAIN questions : /\ questions[d].trigger = t
                                    /\ questions[d].state = "resolved"

\* The execution that asked a question reads its answer, and is not replaced by
\* one under a new contract before it did.
RepliesReachTheirAsker ==
  /\ \A i \in DOMAIN turns["child"] :
       LET t == turns["child"][i] IN
       t.key.kind = "reply" => t.epoch = questions[t.key.of].epoch
  /\ \A d \in InState("resolved") :
       questions[d].epoch < exec["child"].epoch =>
         \E i \in DOMAIN turns["child"] : turns["child"][i].key = Reply(d)

\* The Scheduler neither continues the child nor fails it for continuations used
\* up while the child's turn goes on: an advance per completed turn.
OnlyEndedTurnsContinue ==
  [][phase = "idle" /\ phase' = "close" /\ <<child, inbox>>' # <<child, inbox>>
       => proc["child"] # "active"]_vars

\* A Task does not wait for ever: it resumes or is over.
WaitEnds == child.state = "waiting_decision" ~> child.state # "waiting_decision"

\* A proposed revision is applied, or the Task is over first, although it waits
\* for questions, for replies and for the turn that goes on.
RevisionsLand == Pending ~> ~Pending

\* What the questions look like to a Task: see DecisionPromise.
Standing ==
  [d \in DOMAIN questions |->
     CASE questions[d].state = "open" -> "open"
       [] questions[d].state = "cancelled" -> "withdrawn"
       [] Reply(d) \in EverDelivered("child") -> "read"
       [] OTHER -> "answered"]

Promise ==
  INSTANCE DecisionPromise WITH
    standing <- Standing,
    closed <- child.state \in Closed,
    work <- Cardinality({i \in DOMAIN turns["child"] : turns["child"][i].key.kind # "reply"})

\* Every step of the Scheduler, the Controllers and the executions is a step of
\* the promise the Control Plane makes about decisions, or none.
KeepsPromise == Promise!Spec

=============================================================================
