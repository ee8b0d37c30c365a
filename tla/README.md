# AgentGenome control plane: TLA+ models, checks and proofs

AgentGenome runs a frozen graph of agent tasks. The part of it whose
correctness is hard is the control plane, `src/node_runtime/control_plane/`:
agents ("Workers") append facts to a database, a Scheduler turns facts into
Node and Run state in repeated passes, and Controllers carry messages to the
agent processes and observations back. Around it are the processes that share
one data directory and the panel that shows a Run. This directory holds TLA+
models of these parts, the TLC configurations that check them on small instances, and
proofs, checked by TLAPS, of the properties that matter most.

All paths below are relative to `src/node_runtime/control_plane/` unless they
start with `src/`.

## 1. The system

### Parts, state and operations

| Part | State it keeps | Operations | Talks to |
|---|---|---|---|
| Api (`api.py`, `resources.py`) | everything durable: Run, Nodes, Workers (each row with a `revision`), facts (candidates, reviews, expansion requests, observations, decisions, acceptance revisions), the inbox with one row per delivery key, plan and request receipts, events | `create_run`, `append_fact`, `commit_plan`, `enqueue_message`, `record_message_delivery`, `supersede_inbox`, `set_run_intent`, `read_events` | Storage: each operation is one SQLite transaction |
| Scheduler (`scheduler.py`, `lifecycle.py`) | none: it reads a snapshot and writes plans that name the revisions they rely on | `reconcile`: run control, then twenty phases in a fixed order | Api only |
| Controller (`controller.py`) | the Backend handle of a Worker | `reconcile`: apply the Run's intent, deliver the next message, observe, report | Api, Backend |
| Backend (`backends/*.py`) | processes, a journal per Worker, delivered keys, the observation id | `start`, `deliver`, `observe`, `stop`, `cancel` | operating system |
| Worker tools (`tools.py`, `worker_api.py`, `worker_specs.py`) | none; a token bound to a Worker | `submit_candidate`, `submit_review`, `request_expansion`, decisions, acceptance revisions | Api |
| Decisions (`decisions.py`) | open questions, answers, evaluations of progress | ask, answer, wait, resume, withdraw; whether a Task has stalled; the gates of a reply and of everything else while one is due | Scheduler, Controller |
| Policies (`policies.py`) and budgets | none | whether an expansion may be granted, a turn continued, a Worker given a slot | Scheduler |
| Execution facts (`execution_facts.py`) | progress, activity and quiescence of an execution | merge of snapshots | Controller, Scheduler |
| Host (`host.py`, `server.py`) | `host.json`, `host.launch.json`, `service.json` and the lock `host.lock` of a data directory; the control thread of a process | `start`, `serve`, `stop`, `status`; `reconcile_once`: Scheduler, then every Controller, for each Run | Scheduler, Controller, operating system |
| Definitions (`task_definitions.py`, `agent_definitions.py`, `bindings.py`) | the frozen Graph | parse, validate, freeze | Api |
| Trace (`trace.py`) | none | snapshots of a Run with the cursor of its events, and the events after a cursor | Api |
| Clients and front ends (`backends/pi_trace.mjs`, `client.py`, `mcp_server.py`, `http_api.py`, ...) | the panel: the Run it shows, its requests, timers and stream | choose a Run, follow it, reconnect; transport, authentication | Trace, Api, Host |

### How they interact

Inside the control plane nothing calls across parts except through the database. A Worker's tool call
appends a fact in one transaction. The Scheduler reads a *snapshot*, decides,
and commits a *plan*, which the Api refuses as a conflict when a revision it
names has moved. A phase commits one plan for each Node (or Worker) it changes,
re-reading the snapshot between them. A conflict ends the pass quietly; the
host starts another. A Controller reads the inbox through a *delivery gate*
(`lifecycle.py`), hands the first message it lets through to the Backend and
then records the delivery.

The Scheduler and the Controllers of a data directory run in the control thread
of the one process that has claimed it. `start` launches such a process or joins
one that another `start` launched; `stop` finds it by the records and waits for
it. A panel reads a snapshot over HTTP and follows the events after its cursor.

### What is hard about it

* Facts arrive between any two phases, and between a phase's snapshot and its
  plan. A phase that is right on every quiet state may be wrong on a state in
  which two facts arrived in an order nobody wrote down.
* A pass may stop anywhere, in the middle of a phase too, and starts again from
  the first phase.
* A checker, an owner and a child each hold a piece of one decision: the
  verdict, the children a candidate must not overtake, the candidate itself.
* Failures propagate along four relations (dependency, parent, group, review),
  in one phase, while other phases create and start Nodes.
* Messages may be queued long before they may be delivered, and a Worker may
  act before it has read the one that matters.
* A Task that asks waits on another Task, whose own turns, caps and failures
  decide whether an answer comes; contracts change in the meantime.
* Slots are counted from what was observed and queued, which lags behind what
  runs; owners that hold one wait for children that need one.
* Processes start, stop, hang and die around three files and a lock, and every
  one of them acts on what it read a moment ago.
* In the panel, every answer may come after the user has moved on.

`PROJECT.json` lists these at the lines where they bite ("hazards").

### What makes each part correct

* Scheduler and facts: only a reviewed and accepted candidate settles a Task;
  nothing terminal is taken back; rework follows delivered feedback; a Task is
  started only after its dependencies; a Run is completed only when nothing is
  left open, and settles once its stages have; a loss takes with it what
  depends on it.
* Controller and Backend: a message starts at most one turn of the execution it
  was meant for; an observation never overwrites a newer one; a replaced or
  stopped execution cannot act.
* Run control: a paused or cancelled Run starts nothing new; a cancelled Run
  ends when its executions have.
* Decisions and acceptance revisions: an answer is read by the execution that
  asked, before any other work; a stalled Task goes no further until its parent
  has answered; a wait ends; the contract of a Node changes only between
  executions, and does change.
* Capacity: no more busy Workers than slots, but for what a crash or the
  replacement of an execution hides; everybody gets a slot in the end.
* Host: one process at a time works on a data directory; clients find it; a stop
  that says so has stopped it; commands answer and shutdowns end.
* Panel: what it shows is what the user chose, and comes to be up to date.
* Execution facts: the merge of snapshots is independent of their order.

## 2. Modules

| Module | What it is |
|---|---|
| `TaskLifecycle` | the Nodes of one Run: facts and the reconcile pass |
| `TaskPromise` | what a Run promises about its Tasks, abstractly |
| `LifecycleRefinement` | the refinement mapping from the first to the second |
| `TaskLifecycleProofs`, `ReviewRoundProofs`, `LifecycleRefinementProofs` | proofs about the lifecycle, about its rounds of review, and that it keeps the promise |
| `WorkerExecution` | one Worker: run control, Controllers, its Backend, the replacement of its execution |
| `WorkerExecutionProofs` | proofs about its executions and their ends |
| `ParentDecisions` | a Task and the parent that decides for it: questions, progress, contracts, budgets |
| `DecisionPromise` | what a Task is promised about its decisions; `ParentDecisions` implements it |
| `ParentDecisionsProofs` | proofs about questions, stalls and replies, and that the promise is kept |
| `WorkerSlots` | the Workers of one Run and its capacity |
| `WorkerSlotsProofs` | the proof that the capacity is kept |
| `ServiceOwnership` | the commands and processes that share one data directory |
| `DirectoryPromise` | what owning a data directory promises; `ServiceOwnership` implements it |
| `ServiceOwnershipProofs` | proofs about the owner of a data directory |
| `TracePanel` | the panel as a client of the service |
| `TracePanelProofs` | proofs about what the panel shows |
| `MCTaskLifecycle`, `MCWorkerExecution`, `MCParentDecisions`, `MCWorkerSlots`, `MCServiceOwnership`, `MCTracePanel` | small instances of each for TLC |

The component modules look at one system from several sides, and none
instantiates another. `TaskLifecycle` has many Nodes and takes executions as
given: a Worker is observed live, failed or unknown, and acts while it can.
`WorkerExecution` has one Node and takes its work as given, but has every step
between the Scheduler's intent and the process that obeys it: what the first
assumes of a Worker (an execution that failed is observed, a stopped one stays
stopped) is what the second checks. `ParentDecisions` has the phases these two
leave out, for the two Workers they relate, with the whole tick of one host.
`WorkerSlots` has the same tick for three levels of Workers that compete, and
leaves failures out. That there is one host is what `ServiceOwnership` checks.
`TracePanel` takes from all of them that events happen.

### TaskLifecycle and the code

| Model | Code |
|---|---|
| `state`, `round`, `accepted`, `inputs` | columns of the `nodes` row |
| `decision[n][r]` | the candidate of round r and its committed review |
| `request[e]` | an expansion request: requested, applied or rejected |
| `observed`, `spent` | the Worker row: observed state, usage that met a cap |
| `sent`, `delivered` | the inbox: delivery keys enqueued and delivered |
| `run`, `phase` | the Run's status; where the running pass is |
| `SubmitCandidate`, `RecordReview`, `SubmitReview`, `RequestExpansion`, `Observe`, `ReportUsage` | `Api.append_fact` by a Worker's tools or a Controller |
| `Deliver` | `Controller._deliver_next` behind `lifecycle.delivery_gate` |
| `ApplyCandidates` ... `FinishRun` | one action per phase of `Scheduler._reconcile_locked`, in its order (`phase`) |
| `Restart` | the pass is left at a conflict, an error or a crash |

A phase reads one snapshot and commits one plan per Node. Every fact about a
Node bumps the Node's revision and a plan names it, so the plan is either based
on what is committed or refused. A phase is therefore one step that commits all
it decided or, when `Interrupts` is set, any part of it, and then may be
abandoned: that covers a conflict, an error and a crash between any two plans.
A phase that raises an illegal transition (`IllegalFailures`) never gets past
itself, as in the code. Facts happen between any two phases. A plan that does not
name what it relies on would not show in this model: the comparison is what lets a
phase be one step, and no property is about it. Goal progress and
decisions are phases of `ParentDecisions`, acceptance revisions of that module
and of `WorkerExecution`; here the Run is wanted running.

### WorkerExecution and the code

| Model | Code |
|---|---|
| `worker` | epoch, intent_seq and desired of the `workers` row |
| `fresh` | which processes hold a snapshot of that row with its current `revision` |
| `latest`, `late` | the last `worker_observed` event; whether a `message_delivered` event follows it |
| `inbox` | delivery state of each message of each epoch |
| `contract`, `requested` | the Node's `contract_ref` as a number of applied acceptance revisions; a pending one |
| `node`, `run`, `expired` | state of the Node; desired and status of the Run; whether its deadline passed |
| `back`, `turns` | the Pi Backend's state file and process of each epoch; processes ever started for a message |
| `ctl` | where each Controller is in `reconcile`, and what it has read |
| `control` | what `_run_control` decided, and whether the Run moved since |
| `ReadWorker` ... `Reread` | the steps of `Controller.reconcile`: read the row, read the Run, gate, deliver, record, stop, observe, report, retry a conflict once |
| `Deliver*`, `StopBackend`, `Observe`, `ProcessEnds` | `PiBackend.deliver`, `stop`, `observe`, and the watcher of a process |
| `Crash`, `CrashInDeliver`, `DeliverFails`, `PassCrashes` | the process of a Controller dies, also between the two saves of a delivery; a launch fails; the Scheduler dies between two phases |
| `ControlDecides` ... `FinishRun` | the phases of the pass that concern a Worker: run control, execution failures, acceptance revisions, wake-ups, stopping, the end of the Run |
| `SetIntent`, `DeadlinePasses`, `ProposeRevision` | `Api.set_run_intent`, the wall clock, `_append_acceptance_revision` |

Each call of the Backend holds its lock (`_guard`) and each call of the Api is
one transaction, so each is one step, and everything else may happen between
two of them. In run control the snapshot and its plans are separate steps, for
a plan there may be stale; elsewhere a plan that meets a newer revision would
only repeat the phase. Two Controllers are allowed because the code allows for
them (`controller.py:201`, `scheduler.py:241`, `backends/locks.py`): a new host
starts while an old one is still shutting down.

The Backend reports what `_compute` derives: a stop explains every end except an
effect that is unknown, and a process that vanished unwatched and without a stop
is unknown. What a process does is left out but for how it ends. A Run with
acceptance revisions belongs to a child Node; the stage above it follows its
outcome in the same pass (`Outcomes`).

### ParentDecisions and the code

| Model | Code |
|---|---|
| `child`, `candidates` | the child's `nodes` row; its candidates with their reviews and progress evaluations |
| `requested` | `acceptance_revisions` of the child |
| `questions` | rows of `decision_requests`, by Workers and by the progress gate |
| `exec`, `spent`, `inbox` | rows of `workers`, usage at its cap, the inboxes with their delivery keys |
| `proc`, `turns`, `stops`, `yielded` | the Pi Backend: process, turns started, stop, a turn that has asked |
| `Ask`, `Resolve`, `Revise` | `request_decision`, `resolve_decision`, `revise_acceptance` with the checks of their `_append_*` |
| `Submit`, `Review` | `_append_candidate`, `_append_review` with its evaluation |
| `Fold`, `Trigger`, `Stalled`, `Handoffs`, `Released` | `fold_progress_evaluations` and the handoff of a stall |
| `ChildGate`, `DispatchAllowed` | `delivery_gate` with `decisions.py`, `_dispatch_allowed` |
| `ApplyFacts` ... `ClosePass` | the phases of the pass, in its order |
| `Deliver`, `Report` | what a Controller does in a tick for one Worker |
| `Crash` | the host dies and starts over |

The Backend here is the sum of what `WorkerExecution` takes apart: a delivery
and its record are one step, and so are an observation and its report.

### WorkerSlots and the code

| Model | Code |
|---|---|
| `limits` | `max_inflight_nodes` and the bounds of one Run |
| `node`, `verdict`, `revision` | Node states with rounds and contracts, the verdict on the current candidate, pending acceptance revisions |
| `worker`, `queue` | rows of `workers`, pending rows of the inbox of the current epoch |
| `proc`, `taken`, `told` | the execution, the messages its Backend accepted, a stop |
| `Gate`, `Occupies`, `Inflight`, `DispatchAllowed` | `delivery_gate`, `_occupies_slot`, `_inflight`, `_dispatch_allowed` |
| `StartWorkers`, `Wake`, `Due` | `_start_workers`, `_wake_reviewers`, `_wake_revisions`, `_wake_parents`, `_wake_idle_workers` |
| `Deliver`, `Record`, `Skip`, `Report` | a Controller's visit to one Worker, with the crash of the host possible before each |
| `Submit`, `Decide`, `Revise`, `TurnEnds` | what an agent does with the message it was given |

A phase acts as often as something is due for it, one commit a step, and a phase
with nothing to do takes no step (`Remaining`).

### ServiceOwnership and the code

| Model | Code |
|---|---|
| `host`, `launch`, `service` | `host.json`, `host.launch.json`, `service.json` |
| `pc`, `loop`, `healthy`, `exit` | a service process: where its main thread is, its control thread, its health, its shutdown event |
| `cmd`, `pending` | a command and the process it waits for |
| `LockFree` | nobody holds `host.lock` |
| `Claim` ... `Exit` (`Serve`) | `serve`: claim, publish the claim, bind, start the loop, write `service.json`, install handlers, listen, shut, join, mark, release |
| `Tick`, `NextTick` | `_control_loop` |
| `Reuse` ... `Unlink` (`Start`) | `_command_start`: reuse, join, spawn, write the launch record, poll, terminate its own, clean up |
| `Check`, `AwaitEnd` (`Stop`) | `_command_stop` |
| `Kill`, `KillCommand` | a process or a command dies anywhere |

### TracePanel and the code

| Model | Code |
|---|---|
| `log`, `created` | the events of each Run, the list of Runs |
| `selected`, `session`, `manual`, `listed`, `listing` | the panel's choice of a Run and the polling of the list |
| `shown`, `cursor`, `missed` | the snapshot on the screen, the cursor, whether a refresh was lost |
| `opens`, `backoff`, `refresh`, `timer`, `queued`, `watch` | `openRun`, its retry, `refreshSnapshot`, `scheduleRefresh`, `watchLoop` with its stream |
| `Current` | `current(generation, runId)`, with the abort of a request that was replaced |
| `Answer*` and `*Arrives` | the answer leaves the service; the continuation behind its `await` |
| `OpenFails`, `RefreshFails`, `ListFails`, `WatchBreaks` | the `catch` of each |

Operators whose comment begins with "Deviation" are not part of the
specifications: each is a variant of a definition with a plausible mistake in
it, used to make sure that a property notices.

## 3. What TLC checks

Every run passes but the last, which ends with the violation of its property.
States are distinct states.

| Run | Instance | Shows |
|---|---|---|
| `LifecycleSafety` | 1 stage, 1 child, 2 rounds, every Node may fail, reviews may be held, interrupts; 1.36M states | types; only a reviewed and accepted candidate settles a Task (`AcceptedOnly`); a later candidate is only submitted after the feedback was delivered (`ReworkFollowsFeedback`); nothing is accepted over an open child (`AcceptedWithChildren`); no review of an old round stays open beside a newer candidate (`OpenReviewIsCurrent`); all of it refines `TaskPromise` (`ImplementsPromise`) |
| `LifecycleStages` | 2 stages in a chain, 2 rounds, every Node may fail, fair; 52 thousand states | a Task starts after its dependencies (`StartedAfterDependencies`); discharged reviews close (`RecordedReviewCloses`); the Run ends once its stages have (`RunSettles`) |
| `LifecycleGroup` | 1 stage, 2 children, one may fail or be held, the owner may run out, fair; 326 thousand states | nothing settled is taken back (`Irrevocable`); a lost child takes its siblings and its owner (`LostGroupIsCleared`) |
| `ExecutionCrashes` | 1 Controller and a Scheduler that crash anywhere, 1 revision, every ending; 1.47M states | types; no message starts two processes (`StartedOnce`); an applied contract is handed over to a fresh execution, wherever in the replacement, the hand-off and its delivery somebody crashes, once the crashes end (`RebindCompletes`) |
| `ExecutionPeers` | 2 Controllers, 1 revision, processes end normally; 1.32M states | no process of an old epoch runs beside a newer one (`OneExecution`); a retired message never starts (`SupersededNeverStarts`); a delayed report never takes back a stop (`StopIsFinal`) |
| `ExecutionIntents` | 1 Controller, 1 revision, 2 changes of intent, a deadline; 466 thousand states | a pause settles with nothing running, also when something was delivered after it (`PauseConverges`); a cancelled or expired Run ends and drains (`EndingDrains`) |
| `DecisionsSafety` | 2 rounds, a limit of 1, 1 revision, no continuations, both Workers may be capped, every ending, crashes; 2.19M states | types; a Task is stalled exactly at the limit of its present contract (`StallIsCounted`); no candidate follows a stall before its question was answered (`NoRoundPastStall`); the execution that asked reads the answer (`RepliesReachTheirAsker`) |
| `DecisionsLive` | 1 round, 1 question, 1 revision, 1 continuation, a parent that goes on, fair; 340 thousand states | the question a Task waits for can be answered (`AnswerableWait`); all of it refines `DecisionPromise` (`KeepsPromise`); a wait ends (`WaitEnds`); a proposed revision is applied or the Task is over (`RevisionsLand`) |
| `Ownership` | 2 processes, one perhaps a `serve` in the foreground and perhaps configured otherwise, 1 `stop`, time may run out, everybody may be killed; 158 thousand states | types; the claim of a directory changes hands through nobody's and nobody works without it (`OneOwner`, a refinement of `DirectoryPromise`); a service that answers is the one the records name (`RecordNamesService`); what a waiting `stop` sees is one service, which nobody succeeds meanwhile (`StopSeesOneService`); commands answer (`CommandsAnswer`); a process told to end ends, even when its tick hangs (`ShutdownEnds`) |
| `Capacity` | an owner of an owner of two leaves; one slot with rework, with idle turns, with a revision, with a crash, and two slots; 882 thousand states | types; more busy Workers than slots only where a crash or a replacement explains it (`ExcessIsExplained`); all of them get their slots and the task is finished (`EverybodyServed`) |
| `Panel` | 2 Runs, 2 events each, 3 inputs of the user, 1 fault; 620 thousand states | types, and neither two loops nor none follow a Run (`TypeOK`); what is shown is what was chosen (`ShowsChosenRun`); it becomes up to date (`CatchesUp`); a lost connection comes back (`Reconnects`) |
| `FailedRevision` | 1 Controller, 1 revision, processes may fail | see section 5 |

### Bounds

*Lifecycle.* One owner with one expansion is the smallest graph in which the
candidate, children and review of a Task race; a second child is needed for
groups and a second stage for dependencies and for the end of the Run. Two
rounds are needed for rework, and the second is also the last one, where a
revise leaves no further round. Relations between Nodes are
never more than binary in the code (owner and child, Task and dependency, Task
and review, siblings), which is why no third Node is needed; the theorems of
section 4 remove the bound for the properties they prove.

*Execution.* One epoch change has an old, a new, and everything between. One
message per epoch suffices for crashes and races of one delivery; a second
(`wake`) makes a busy entity and an order of delivery possible, on the
instances of section 5. Two changes of
intent give pause and resume, cancel after pause, and running again after
either. No variable is cut off: observation ids are bounded because the
contents of an execution change finitely often, and `intent_seq` because every
stop and every replacement happens once per epoch.

*Decisions.* A stall needs a candidate that was compared and the round after it,
and a limit of 1 makes it happen in two rounds; the revision makes it stale. A
question, a revision and a continuation suffice for each to meet the others in
every order. The two runs divide what one instance cannot hold: endings, caps
and crashes on one side, questions asked by the child and fairness on the other.
The number of rounds and of continuations is the budget's; `MaxAsks` and
`MaxRevisions` are bounds of the model.

*Ownership.* Two processes contend, and one `stop` meets either of them. A third
`start` would only wait as the second does.

*Capacity.* Top, Mid and two leaves give an owner that waits and is waited for,
and siblings that compete. With one slot every wait is a possible deadlock. The
five settings are initial states of one run, each with one of the things that
may exceed or withhold a slot.

*Panel.* Two Runs are needed to choose between, two events for one that comes
during the refresh of another, three inputs to open, choose and come back.

### Fairness

* `ReconcilePass`, `PassStep`: weakly fair, for `host.py` runs `reconcile_once`
  for each open Run until it shuts down.
* `Deliver(n)` and `ReconcileStep(c)`: weakly fair, for the same loop reconciles
  every Worker of an open Run, and of a terminal one those that still have to be
  drained (`NeedsReconcile`).
* `ProcessEnds(e)`: weakly fair, for `_watch` and `_expire` enforce a wall limit.
* What Workers submit, reviews, faults, intents and crashes are never fair.
* `ParentDecisions`: `Host` (the tick of the same loop) and `TurnEnds(w)` (the
  wall limit of a turn) are weakly fair; that a parent answers is not assumed. A
  wait ends because an unanswered question is asked again until the
  continuations of a budget that declares them are used up.
* `WorkerSlots`: `Host`, and `Agent(n)`: a turn comes to its result or to its
  end, which is the premise of a Run that makes progress at all.
* `ServiceOwnership`: each process gets on with its main thread and, between two
  ticks, with its control thread; each command with its own steps. Nothing says
  that a tick ends (`Tick`), nor a request that keeps the listener (`Drain`).
* `TracePanel`: `Progress` as a whole, since one event loop runs everything that
  is ready: requests are answered, timers fire and the stream is read.

`RebindCompletes` is checked where everybody may crash. Its premise `FaultsEnd`
says that in the end all steps are those of the host, the processes, the
publisher and the parent: a host that crashes in every pass gets nowhere. It names
the steps that remain and not the crashes that end, because a crash at the
beginning of a step that changes nothing else looks like that step.

In the fair lifecycle runs `Interrupts` is off: a Scheduler that met a conflict
or crashed in every pass would not get anywhere, and the code promises nothing
then. `LifecycleSafety`, `LifecycleStages`, `LifecycleGroup`, `Ownership`,
`Capacity` and `Panel` say `CHECK_DEADLOCK FALSE`: a Run that has ended, a
directory whose commands have answered, a finished task and a collapsed panel
with nothing left to do may all stop. The execution and decision configurations
check for deadlock, since the host never stops ticking.

## 4. What is proved

| Theorem | Module | States |
|---|---|---|
| `TypeCorrect` | `TaskLifecycleProofs` | `TypeOK` always holds |
| `AcceptedOnlyHolds` | " | `AcceptedOnly` |
| `IrrevocableHolds` | " | `Irrevocable`, an action property |
| `StartedAfterDependenciesHolds` | " | `StartedAfterDependencies` |
| `CompletedIsClosedHolds` | " | `CompletedIsClosed`: a completed Run has every Task accepted and every review ended, and stays so |
| `ReworkFollowsFeedbackHolds` | `ReviewRoundProofs` | `ReworkFollowsFeedback` |
| `AcceptedWithChildrenHolds` | " | `AcceptedWithChildren`: no Task succeeds with a child open or still to come |
| `OpenReviewIsCurrentHolds` | " | `OpenReviewIsCurrent`: an open review Node is that of the current candidate |
| `PromiseKept` | `LifecycleRefinementProofs` | the lifecycle refines `TaskPromise` |
| `TypeCorrect` | `WorkerExecutionProofs` | `TypeOK` always holds |
| `StartedOnceHolds` | " | `StartedOnce`: a message starts at most one process |
| `StopIsFinalHolds` | " | `StopIsFinal`, an action property |
| `StoppedNeverStartsHolds` | " | `StoppedNeverStarts`, an action property stated there: what was observed as stopped starts nothing |
| `SupersededNeverStartsHolds` | " | `SupersededNeverStarts`, an action property, where no process fails |
| `OneExecutionHolds` | " | `OneExecution`, with one Controller or where no process fails |
| `TypeCorrect` | `ParentDecisionsProofs` | `TypeOK` always holds |
| `StallIsCountedHolds` | " | `StallIsCounted`: the fold over the evaluations finds the stall, for any number of rounds |
| `NoRoundPastStallHolds` | " | `NoRoundPastStall` |
| `RepliesReachTheirAskerHolds` | " | `RepliesReachTheirAsker` |
| `AnswerableWaitHolds` | " | `AnswerableWait`, where no answer of the Api is lost |
| `PromiseKept` | " | the decisions refine `DecisionPromise` |
| `TypeCorrect` | `WorkerSlotsProofs` | `TypeOK` always holds |
| `ExcessIsExplainedHolds` | " | `ExcessIsExplained`: capacity is exceeded only by crashes and replacements |
| `TypeCorrect` | `ServiceOwnershipProofs` | `TypeOK` always holds |
| `OneOwnerHolds` | " | the processes refine `DirectoryPromise` |
| `RecordNamesServiceHolds` | " | `RecordNamesService` |
| `StopSeesOneServiceHolds` | " | `StopSeesOneService`, an action property |
| `TypeCorrect` | `TracePanelProofs` | `TypeOK` always holds |
| `ShowsChosenRunHolds` | " | `ShowsChosenRun` |

### The lifecycle

The proofs hold for every graph, number of rounds, set of faults and kind of
interruption, from three assumptions on the constants of `TaskLifecycle`:
`NodesAssumption` (stages, children and review Nodes are
disjoint, every stage has a review Task, at least one round), `GraphAssumption` (typing of the graph; no
acyclicity is needed) and `BoundsAssumption` (typing of the faults).

The inductive invariant is `Consistent`: `TypeOK`, `AcceptedOnly` and three
facts the phases rely on without checking.

* `KidsAreGranted`: a child exists only once its expansion was applied.
  Without it the phase that grants an expansion could overwrite a child.
* `WorkersExist`: only a Node that was started has a Worker. Without it an
  observation could fail a Node that is still absent.
* `FutureIsBlank`: nothing is known about the rounds after the current one.
  Without it a new candidate could find its verdict already there.

`AcceptedOnly` alone is not inductive, since a verdict is given in one step and
applied in another. The proof that a step keeps it goes through `NodeMoves` and
`ReviewMove`, which say along which edges each phase moves a Node; the edge into
"succeeded" is the only one of interest, and it belongs to `ApplyReviews` (and
to the closing of review Nodes). `Irrevocable`, `StartedAfterDependencies` and
`CompletedIsClosed` use the same two lemmas. The refinement maps the state of
Nodes and Run; a phase that moves Nodes is the promise's `Work`, `FinishRun` is
`Conclude`, and every fact is a stutter. It needs one more invariant,
`HeldHasStage`: a Run that is blocked was bootstrapped, so bootstrapping, which
marks a Run as running, never takes back that it is held.

`ReworkFollowsFeedback` needs `RoundsAreKnown`: every round up to the current one
has a candidate. Without it a current round without any decision would pass the
check that a new candidate finds neither an undecided nor an accepted one, and
leave a round behind that was never sent back. Phases change no verdict and
deliver nothing, so only submissions, reviews and deliveries matter.

The other two proofs about rounds have to know what each phase may rely on from
the ones before it in the same pass, since that is what the order of the phases
is for. `AcceptedWithChildren` rests on `Timely`. When a verdict is given, the
children that exist have succeeded (the code checks it), but an expansion may
have been requested and not yet decided; a child created from it would be born
under an accepted candidate.

* `AskedWaits`: a candidate whose review was asked for is in
  `awaiting_review`, so its Worker requests no further expansion.
* `AskedWantsNothing`: its earlier requests were decided before the review was
  asked for. It holds because requests are decided earlier in a pass than
  reviewers are woken, and it has to be said for the phases between the two,
  where the review may not have been asked for yet (`AfterExpansions`).
* `AcceptIsLast`: so an accepted candidate has no child open or still to come.
* `BlankBeforeStart`, `NothingEarly`: nothing is known, asked or fed back of a
  round to come, so that a new round begins without a review.

`OpenReviewIsCurrent` rests on `OneReview`, which adds to `Timely` that feedback
is only sent once the review Node of its round is closed (`FeedbackIsClosed`),
because closing comes earlier in the pass than sending (`ReworkIsClosed`, for the
phases between), that what was delivered was sent, and that a verdict came from a
review Node that has a Worker (`VerdictHasReviewer`), which the closing phase can
therefore close. A new candidate needs the delivered feedback of the one before,
so the old review Node is closed by then.

### The executions of a Worker

The proofs hold for any messages, number of Controllers and bounds, from
`ProcessAssumption` and `LimitAssumption`, and for any way processes may end where
nothing else is said.

* `TypeCorrect` needs `RevisionsBounded`: a pending revision leaves room for its
  contract, and a Worker is only bound to a contract its Node has.
* `StartedOnce` rests on `TurnsAreSaved`: every process that was started for a
  message has the message in the saved deliveries of its Backend, which it checks
  under its lock before it starts one. The crash between the two saves of a
  delivery is why the second may not be made before the first.
* `StopIsFinal` and `StoppedNeverStarts` rest on `StopInv`, which is about every
  record of an execution: the committed observation and what each Controller has
  polled and not reported. A record's id is never ahead of its Backend, and one id
  stands for one content (`RecordsArePolled`); what was seen as stopped was told
  to stop and runs nothing (`StoppedIsQuiet`); and no record takes back a stop
  that an older one reports (`StopsAgree`). The last is the one a delayed report
  could break: a Controller that polled before the stop has a smaller id, which
  the Api refuses. It is not inductive without the first two.
* `SupersededNeverStarts` rests on `ReplacedIsQuiet` and `NothingFails`. With
  processes that fail it is false: an execution observed failed counts as drained
  although nothing told it to stop, and section 5 has the counterexample. So the
  theorem assumes that none does ("failed" is not among `Endings`).
* `OneExecution` follows from the same two without that kind of end, for any
  number of Controllers. With it, it follows for one Controller from `SingleInv`:
  the Controller starts processes for the bound epoch only, what it is about to
  report as stopped or failed still is, and once the stop of the Worker has been
  answered it is starting nothing. That there is one is what `OneOwner` of
  `ServiceOwnership` provides. The case left out, several Controllers and
  processes that fail, is the counterexample in section 5.

### Decisions

The proofs hold for any number of rounds, questions, revisions and turns, any
limit, and whether or not the host crashes, from `BudgetAssumption` and
`FaultAssumption`. They are in layers, each of which assumes those before it.

* `TInv` is `TypeOK` with `VersionsGrow`: an execution is bound to a contract the
  Task already has, and there is a new execution only for a new contract.
* `AskInv`: one question is open, the last; it is of the present execution and
  contract; a wait is for it; and a contract is only replaced when nothing is
  asked and every reply is consumed.
* `ReplyInv` adds the messages: a queued reply belongs to an answered question and
  to the execution that asked, a delivered one to a turn, and a turn that read a
  reply read an answer. `RepliesReachTheirAsker` is the part the run checks.
* `StallInv`, for `NoRoundPastStall`: after a stall the parent has answered before
  feedback is delivered, before a round follows, and so for every earlier round.
  Feedback is the step where it could go wrong, since it is queued and delivered
  in different steps, and a revision in between changes what counts as a stall;
  hence `CandidatesOfNow`, `LastIsNewest`, `EvidenceIsDecided`, `FeedbackFollows`.
* `QuietInv`, for `AnswerableWait`: the open question is of the present round, and
  while there is one the turn that runs has ended with it or has not the feedback
  it would need to submit. The hypothesis `LosesAnswers = FALSE` is needed: with an
  answer of the Api lost on its way the turn goes on and submits, the
  counterexample in section 5. No other theorem makes it.
* `StartInv`, for the refinement: before the execution of a new contract has its
  first message nothing is asked or owed and nothing runs, and what is uncertain
  is observed so while it lasts.

`StallIsCounted` says what a recursive function computes, for any number of
rounds. The induction over them is a proof by least counterexample: there is a
least round at which the fold does not count as it should (`LeastNat`, from the
well-foundedness of the numbers, which needs no operator as a parameter), and the
round before it leads to a contradiction; `FoldCounts` relates streak and trigger
to sets of rounds, whose size is known by `FiniteSetTheorems`.

The refinement maps each question to how it stands (`StandingOf`: open,
withdrawn, answered, read) and each turn that was started for anything but an
answer to work (`WorkTurns`). To ask, withdraw, answer or read a question, to start
a turn of work, and to end or block the Task are each one step of the promise, and
every other step is a stutter. For each of them `KeptInv` shows that the promise
allows it.

### The capacity of a Run

The proofs hold for any number of leaves, capacity and bounds, from
`NodeAssumption` and `LimitAssumption`. `ExcessIsExplained` counts processes, of
which the Scheduler knows nothing; it counts slots. The invariant that relates
the two is `SlotInv`.

* The Workers that run while the Scheduler takes them to be quiescent (`Unseen`),
  but for the one that is being visited, are no more than the crashes. A delivery
  makes its Worker unseen and the report that ends the visit makes it seen; a
  crash in between adds the one visited.
* The Workers that hold a slot or run (`Busy`) are no more than the capacity, the
  crashes and the replacements. Where a slot is taken, those that hold one are
  fewer than the capacity, so after it at most the capacity, and the others are
  among the unseen: this is where the first part is needed. Replacing an execution
  is the one step that makes a Worker busy without asking for a slot.

What makes it true is that nothing else makes a Worker busy, and that needs
`TInv`. A delivery starts a process only at a Worker that holds a slot, because
the gate of the Controller and that of the count are one (`Gate`). Whatever
closes a gate keeps the count low, and the steps that might open one do not: the
verdict that sends a candidate back opens it only for feedback, which was not
sent yet (`VerdictAgrees`); a new contract closes it until the execution is
replaced (`ContractAgrees`); to record a delivery makes its message read, which
could let another through, but the Worker holds a slot by then or has closed its
gate itself (`DeliveryStands`); the first message of a Worker is sent while it is
starting (`StartIsFirst`, `VisitsFollow`); and a Worker observed as stopped was
told to stop, so that nothing is delivered to it (`WorkerAgrees`).

### The owner of a data directory

The proofs hold for any number of processes and commands, of any configuration,
whichever may be killed and whether or not time runs out, from
`NamesAssumption`, `ConfigAssumption` and `FaultAssumption`. The inductive
invariant `Owned` says what a process holds at each place of its program.

* `ClaimHeld`, `ClaimSeen`: from the publication of its claim to its release a
  process is the one `host.json` names, and whoever that names has not released.
  Without the second a new claimant could find a record whose process lives on
  and has let go.
* `ClaimTurn`: one process at a time decides to claim, and only while no
  claimant lives; that is what the lock is for. Without it the first of two that
  publish would be overwritten.
* `WorkOwned`: a control thread belongs to a process with a claim, which is what
  the refinement needs at every step that ends one.
* `Unlaunched`: a `start` has launched nothing before it spawns, so its process
  is not set back to the beginning.
* `Published`: from the writing of `service.json` to the end of serving the
  record is its own. Others write it only with a claim.

`StopSeesOneService` needs besides that nobody decides about a claim while a `stop`
holds the lock (`StopLocks`). Then the owner can only be lost (`OwnerStep`), and
since `service.json` is only written by a live owner (`RecordStep`, from
`ClaimHeld`), it stays that of the process the `stop` waits for. `OneOwner` maps the owner to a live claimant and goes through the
same lemmas: the death or release of an owner is `Leave`, a claim `Take`, the
start of a thread `Work`.

### The panel

The proofs hold for any Runs and any bounds. The invariant is `TypeOK`, with
`RefreshOfShown` and `ShowsChosenRun`.

* `InCharge`, part of `TypeOK`: exactly one of a snapshot request, a retry and a
  stream follows the selected Run. It says that the request is for the selected
  Run; otherwise its answer, which is then dropped, would leave nobody in charge.
* `RefreshOfShown`: while a refresh that counts is under way there is a snapshot
  on the screen. Its answer is compared with that snapshot.

### Only model-checked

Every invariant, every action property without fairness and each refinement that
a run checks is also proved. What remains is what holds under fairness, which the
prover does not support: `RecordedReviewCloses`, `RunSettles`,
`LostGroupIsCleared`, `PauseConverges`, `EndingDrains`, `RebindCompletes`,
`WaitEnds`, `RevisionsLand`, `EverybodyServed`, `CommandsAnswer`, `ShutdownEnds`,
`CatchesUp` and `Reconnects`. Three theorems have a hypothesis on the faults
(`SupersededNeverStarts`, `OneExecution`, `AnswerableWait`); without it they are
false, as section 5 says.

## 5. Where the code and its texts disagree

One run ends with a counterexample; `PROJECT.json` quotes the lines.

* `FailedRevision`: a Node that fails after its acceptance revision was applied
  and before its execution was replaced makes every later pass raise in the
  acceptance phase, so that the Run never ends. One Controller suffices.

More were met on other instances, and have no run of their own. Where a property
is named, it is stated in the module and the instance violates it.

*Lifecycle.*

* `ReworkIsResumed` (one stage, one child, two rounds, nobody faulty, fair): an
  expand verdict is committed, but no phase moves its target out of
  `awaiting_review` (`lifecycle.py:95`), and it waits for ever.
* `CandidateAfterChildren` (the same with one round): an
  expansion that was requested before a candidate is applied after it.
* `FailedExecutionEnds` (two independent stages, both faulty, one of them
  uncertain, one round, fair): a blocked Node whose Worker is then observed failed
  stops every later pass, and other Nodes with it.
* `ReceiptDischarges` (two stages, reviews faulty): a checker that fails after
  it recorded its verdict loses its review Node, and the target.
* `CandidateOwnsReview` (one stage, one child, the stage capped): an owner that
  met its cap with its candidate already submitted is failed when a child is
  accepted.

*Execution.*

* `CancelledIsQuiet` (one Controller, a second message, an intent, processes that
  may fail): a Worker already observed failed counts as stopped when the
  Run is cancelled (`scheduler.py:282`), although a Controller under way can still
  start a queued message; the Run is then cancelled while a process of it runs.
* `OneExecution` (two Controllers, a second message, a revision, processes that
  may fail): an observation polled before a delivery and committed after it makes
  the epoch look drained, and it is replaced while its process runs.
  `ExecutionPeers`, where it holds, has neither the message nor the failure.
* `RebindCompletes` (two Controllers, no crash): a delivery committed after the stop
  was observed leaves the epoch "in flight" for ever, since an unchanged
  observation is never reported again.
* A Run that is cancelled, told to stop, and then wanted running again keeps a
  stopped Worker that nothing sets to work. No text of the repository says what
  should happen.

*Decisions.*

* `AnswerableWait` (the instance of `DecisionsLive` with `LosesAnswers`): a
  question is committed and its answer lost on the way (`pi_node_tools.mjs:232`),
  so the turn goes on, submits, and the Task then waits with a question of a
  round that is over.
* `OnlyEndedTurnsContinue` (with `Crashes`): after a crash between a delivery
  and its record the pass sees an idle Worker whose turn is under way, and charges
  it a continuation: "One advance per completed turn" (`scheduler.py`, 2265-2273).
* `WaitEnds` (with the parent or the child capped): a parent that meets its cap
  with the question in its queue never answers and is never failed for it, nor is
  a capped child whose reply is withheld: "A parent that can no longer act fails
  the child explicitly instead of leaving the wait durable forever"
  (`scheduler.py:2030`).

*Data directory.*

* `StartReuses` (the instance of `Ownership`): a `start` between another
  process's claim and its first healthy answer spawns a process that is refused,
  and reports a failure although the service is ready by then (`host.py:10`, 690,
  765).
* A `stop` between a claim and the writing of `service.json` answers that nothing
  is running while the service comes up (`host.py:13`, 776): `Check` ends in
  "not_running".
* `StoppedIsFree` (the instance of `Ownership`): a process that has released its
  claim and not ended yet is still named by `service.json`. When another one
  claims in between, a `stop` ends the first and answers that nothing is running
  while the second comes up or works (`host.py:811`). The premise of
  `StopSeesOneService` leaves exactly this case out.
* A `start` that fails cleans up the launch record it finds, which may be
  another's by then (`host.py:759`); the claim looks at both records, and nothing
  follows from it.

*Panel.*

* `BehindIsSaid` (the instance of `Panel`): a refresh fails, the panel says
  "disconnected", the next heartbeat of the stream says "connected", and the
  refresh is not made again (`pi_trace.mjs:636`). docs/pi-extension.md:53 promises
  an explicit state for every interruption.
* A refresh that was read earlier may replace a snapshot that was read later
  (`pi_trace.mjs:628`); `missed` says so, and `CatchesUp` excuses it.

## 6. What is not modelled

* Receipts of idempotent requests, artifacts, and the validation of graphs: one
  transaction each, without concurrency of their own.
* Merging activity snapshots (`execution_facts.py`): an execution here has no
  activities beside its turn.
* `waiting_children` is a Node state no code path enters, and
  `apply_run_intent` and `reconcile_tools` (recovery of unknown tool effects) are
  called by nothing in `src/node_runtime`: there, what is unknown stays unknown
  until a stop explains it.
* The version of a Backend's state file also moves on every save; here the
  observation id moves only when what is observed does. Ids still never go back.
* `ParentDecisions` has one child and one parent, and no second expansion; the
  options of a question and what an answer says make no difference to it. A stop
  that meets a Backend which is still busy is in `WorkerExecution`.
* `WorkerSlots` leaves failures, decisions and usage caps to the other modules,
  and has one host. Its agents do what a message asks for, after at most
  `limits.idles` turns without a result. The order of Nodes is that of their
  creation. A decision reply that passes the gate while a revision is pending
  asks for no slot in the code; here nobody asks. A receipt that was known already
  ends the visit of the Controller, where the code goes on to the next message;
  that one is handed over at the next visit.
* `ServiceOwnership`: a process is named by the start that launched it and is
  reaped when it dies, so that a pid is never that of another process (the code
  compares start times to that end). A status request is one step; all answers of
  a command that say neither "ready", "failed", "stopped" nor that nothing runs
  are "error". Logs, log rotation and credentials are left out.
* `TracePanel`: the details of a Node and their loader, the overlay and the picker
  beyond the choice they make, keys and rendering, the diagnostics of requests,
  closing the panel, and the terminal errors (an expired cursor, a missing Run, a
  refused credential). Service id, credentials and log survive restarts of the
  service, so that the first of them does not happen.
* Materials, prompts, tokens, definitions, transport, authentication, the other
  front ends and the execution logs: data handling and I/O.

## 7. Plan

Done: `TaskLifecycle`, `TaskPromise`; `WorkerExecution`; `ParentDecisions`,
`DecisionPromise`; `WorkerSlots`; `ServiceOwnership`, `DirectoryPromise`;
`TracePanel`; proofs of every safety property of the runs, module by module, and
of the three refinements.

1. Proofs: the parts of liveness that are safety, such as which step is possible
   at each place of a wait (`WaitEnds`, `EverybodyServed`), stated as invariants
   without ENABLED.
2. Receipts: `commit_plan` and `append_fact` retried after a lost answer.
   Abstract specification: each request takes effect at most once.
3. Pure algorithms, over bounded inputs, against reference definitions: merging
   activity snapshots (`execution_facts.py`), the outcome of a Run.

Abstract specifications are stated first, as `TaskPromise` was, and the detailed
modules are written so that they can be proved about: no RECURSIVE operator,
assumptions by name, one action per operation.
