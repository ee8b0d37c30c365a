-------------------------- MODULE WorkerExecution --------------------------
(***************************************************************************)
(* One Worker of a running Node: the Scheduler commits what is wanted of   *)
(* it, Controllers carry that to the Backend that owns its processes and   *)
(* report back what they observe, and a publisher pauses, resumes and      *)
(* cancels the Run meanwhile.                                              *)
(*                                                                         *)
(* A Worker is executed by one Backend entity per epoch.  Its row carries  *)
(* a revision which every update bumps: instead of a number, `fresh` holds *)
(* the processes whose snapshot of the row still has the current revision. *)
(* A new contract for the Node (an acceptance revision) is applied, the    *)
(* old execution stopped, its inbox superseded and the next epoch bound to *)
(* the contract, so epoch e always holds contract e.                       *)
(*                                                                         *)
(* The Scheduler and the Controllers are independent processes here, as    *)
(* their code assumes; one reconcile pass runs at a time (_reconcile_lock),*)
(* and each call of the Backend excludes every other one (_guard).  Budget *)
(* caps, decisions and reviews, which may also hold a delivery back, are   *)
(* not part of this module, nor are internal activities of an execution.   *)
(***************************************************************************)
EXTENDS Naturals, FiniteSets

CONSTANTS
  Controllers,  \* Controller processes that reconcile the Worker
  Scheduler,    \* the process that runs the reconcile pass
  None,         \* no delivery key, no process
  Start,        \* the key of the message that starts an epoch
  Wakes,        \* keys of the ordinary messages a Worker may be sent
  MaxEpoch,     \* acceptance revisions the Node may be given
  MaxIntents,   \* times the publisher may change the Run's intent
  HasDeadline,  \* whether the Run's budget has a deadline
  Endings,      \* how a process may end, besides exiting normally
  Crashes       \* whether processes may crash, and launches fail

Keys == {Start} \cup Wakes
Epochs == 0..MaxEpoch
Messages == Keys \X Epochs

ASSUME ProcessAssumption ==
  /\ Scheduler \notin Controllers
  /\ None \notin Controllers \cup Keys
  /\ Start \notin Wakes

ASSUME LimitAssumption ==
  /\ MaxEpoch \in Nat
  /\ MaxIntents \in Nat
  /\ HasDeadline \in BOOLEAN
  /\ Endings \subseteq {"failed", "unknown"}
  /\ Crashes \in BOOLEAN

VARIABLES
  worker,     \* the Worker row: its epoch, intent_seq and desired state
  latest,     \* the latest committed observation of the Worker
  late,       \* whether a delivery of this epoch was committed after it
  inbox,      \* message -> its delivery_state, "none" before it is queued
  contract,   \* the Node's contract, counted in acceptance revisions
  requested,  \* whether an acceptance revision waits to be applied
  node,       \* state of the Node
  run,        \* desired and status of the Run
  expired,    \* whether its deadline has passed
  intents,    \* how often the publisher changed the desired state
  back,       \* epoch -> state of the Backend entity that executes it
  turns,      \* message -> processes ever started for it
  ctl,        \* Controller -> where its reconcile is, and what it has read
  fresh,      \* processes whose snapshot of the Worker row is current
  phase,      \* the phase of the reconcile pass that runs next
  control     \* what run control decided, and whether the Run moved since

apiVars == <<worker, latest, late, inbox, contract, requested, node>>
runVars == <<run, expired, intents>>
backVars == <<back, turns>>
passVars == <<phase, control>>
vars == <<apiVars, runVars, backVars, ctl, fresh, passVars>>

-----------------------------------------------------------------------------
(* States.                                                                 *)

NodeTerminal == {"succeeded", "failed", "cancelled"}
RunTerminal == {"completed", "failed", "cancelled"}
Intents == {"running", "paused", "cancelled"}
Observed == {"starting", "active", "idle", "stopped", "failed", "unknown"}

\* A process: its outcome is "gone" when it disappeared without an exit
\* record, and "unknown" when an effect of it, or its identity, is unknown.
Processes == {"none", "alive", "exited", "failed", "gone", "unknown"}

Observations == [epoch : Epochs, seq : Nat, id : Nat, observed : Observed]

Contents == [observed : Observed, key : Keys \cup {None}, stop : BOOLEAN]

Entities == [deliveries : SUBSET Keys, current : Keys \cup {None},
             proc : Processes, watcher : Controllers \cup {None},
             stop : BOOLEAN, id : Nat, seen : Contents]

Steps == {"idle", "run", "choose", "deliver", "record", "stop", "observe",
          "report", "reread"}

Reconciles == [pc : Steps, epoch : Epochs, seq : Nat, todo : SUBSET Keys,
               key : Keys \cup {None}, dup : BOOLEAN, observed : Observed,
               id : Nat, again : BOOLEAN]

Phases == {"control", "commit", "failures", "acceptance", "wakes",
           "stopping", "finish"}

Decisions == {"none", "resume", "reopen", "pause", "stop", "fail", "cancel"}

RunIsOpen == run.status \notin RunTerminal

\* The row's observed state is the latest observation of its epoch.
ObservedNow ==
  IF latest.epoch = worker.epoch THEN latest.observed ELSE "starting"

Quiescent == ObservedNow \in {"idle", "stopped", "failed"}
ExecutionStopped == ObservedNow \in {"stopped", "failed"}

\* A request no longer pends once the Node or the Run is over.
Requested == requested /\ node \notin NodeTerminal /\ RunIsOpen

Pending == {k \in Keys : inbox[k, worker.epoch] = "pending"}

-----------------------------------------------------------------------------
TypeOK ==
  /\ worker \in [epoch : Epochs, seq : Nat, desired : {"active", "stopped"}]
  /\ latest \in Observations
  /\ late \in BOOLEAN
  /\ inbox \in [Messages -> {"none", "pending", "delivered", "superseded"}]
  /\ contract \in Epochs
  /\ requested \in BOOLEAN
  /\ node \in NodeTerminal \cup {"running", "blocked"}
  /\ run \in [desired : Intents,
              status : RunTerminal \cup {"running", "paused", "blocked"}]
  /\ expired \in BOOLEAN
  /\ intents \in 0..MaxIntents
  /\ back \in [Epochs -> Entities]
  /\ turns \in [Messages -> Nat]
  /\ ctl \in [Controllers -> Reconciles]
  /\ fresh \in SUBSET (Controllers \cup {Scheduler})
  /\ phase \in Phases
  /\ control \in [decision : Decisions, fresh : BOOLEAN]

Fresh == [observed |-> "starting", key |-> None, stop |-> FALSE]

NewEntity == [deliveries |-> {}, current |-> None, proc |-> "none",
              watcher |-> None, stop |-> FALSE, id |-> 0, seen |-> Fresh]

Idle == [pc |-> "idle", epoch |-> 0, seq |-> 0, todo |-> {}, key |-> None,
         dup |-> FALSE, observed |-> "starting", id |-> 0, again |-> FALSE]

Undecided == [decision |-> "none", fresh |-> FALSE]

\* The Node has just been started: its Worker exists, nothing is queued.
Init ==
  /\ worker = [epoch |-> 0, seq |-> 1, desired |-> "active"]
  /\ latest = [epoch |-> 0, seq |-> 0, id |-> 0, observed |-> "starting"]
  /\ late = FALSE
  /\ inbox = [m \in Messages |-> "none"]
  /\ contract = 0
  /\ requested = FALSE
  /\ node = "running"
  /\ run = [desired |-> "running", status |-> "running"]
  /\ expired = FALSE
  /\ intents = 0
  /\ back = [e \in Epochs |-> NewEntity]
  /\ turns = [m \in Messages |-> 0]
  /\ ctl = [c \in Controllers |-> Idle]
  /\ fresh = {}
  /\ phase = "control"
  /\ control = Undecided

-----------------------------------------------------------------------------
(* The Backend.  One operator per call; every call excludes the others.    *)

Started(b, k, c) ==
  [b EXCEPT !.deliveries = @ \cup {k}, !.current = k, !.proc = "alive",
            !.watcher = c]

\* The delivery is saved and nobody watches what runs for it, if anything.
Unattended(b, k, proc) ==
  [b EXCEPT !.deliveries = @ \cup {k}, !.current = k, !.proc = proc,
            !.watcher = None]

Busy(b) == b.proc \in {"alive", "gone", "unknown"}

\* What a poll of the entity finds.  A stop explains every end but an
\* unknown effect; a process that vanished without one is unknown.
Seen(b) ==
  CASE b.proc = "alive" -> "active"
    [] b.proc = "unknown" -> "unknown"
    [] b.proc # "alive" /\ b.proc # "unknown" /\ b.stop -> "stopped"
    [] b.proc = "gone" /\ ~b.stop -> "unknown"
    [] b.proc = "failed" /\ ~b.stop -> "failed"
    [] b.proc \in {"none", "exited"} /\ ~b.stop -> "idle"

\* The observation id moves exactly when what is observed has changed.
Polled(b) ==
  LET content == [observed |-> Seen(b), key |-> b.current, stop |-> b.stop]
  IN  [b EXCEPT !.seen = content, !.id = IF content = b.seen THEN @ ELSE @ + 1]

Unwatched(b, c) == [b EXCEPT !.watcher = IF @ = c THEN None ELSE @]

\* A process ends by itself, or by its wall limit or a stop; without the
\* Controller that watched it nobody records how.
ProcessEnds(e) ==
  /\ back[e].proc = "alive"
  /\ \E end \in {"exited", "gone"} \cup Endings :
       /\ (end = "gone") => (back[e].watcher = None)
       /\ (end \in {"exited", "failed"}) => (back[e].watcher # None)
       /\ back' = [back EXCEPT ![e].proc = end, ![e].watcher = None]
  /\ UNCHANGED <<apiVars, runVars, turns, ctl, fresh, passVars>>

-----------------------------------------------------------------------------
(* A Controller's reconcile of the Worker.                                 *)

At(c, pc) == ctl[c].pc = pc

Goto(c, pc) == ctl' = [ctl EXCEPT ![c].pc = pc]

\* The reconcile ends, normally or with an error the host logs.
Done(c) ==
  /\ ctl' = [ctl EXCEPT ![c] = Idle]
  /\ fresh' = fresh \ {c}

\* Deviation, a host that is done with a Run once it is over.
OpenOnly == RunIsOpen

\* The host reconciles every Worker of an open Run; of a terminal one only
\* those that still have to be drained.
NeedsReconcile == RunIsOpen \/ (worker.desired = "stopped" /\ ~ExecutionStopped)

ReadWorker(c) ==
  /\ At(c, "idle")
  /\ NeedsReconcile
  /\ ctl' = [ctl EXCEPT ![c] =
               [Idle EXCEPT !.pc = IF worker.desired = "stopped" THEN "stop"
                                   ELSE "run",
                            !.epoch = worker.epoch, !.seq = worker.seq]]
  /\ fresh' = fresh \cup {c}
  /\ UNCHANGED <<apiVars, runVars, backVars, passVars>>

ReadRun(c) ==
  /\ At(c, "run")
  /\ Goto(c, IF run.desired = "running" /\ RunIsOpen THEN "choose"
             ELSE "observe")
  /\ UNCHANGED <<apiVars, runVars, backVars, fresh, passVars>>

\* What the delivery gate lets through to epoch e: nothing under a contract
\* it does not hold, and first of all the hand-off of the one it does.
Gate(e) ==
  IF node \in NodeTerminal \/ Requested \/ contract > e THEN {}
  ELSE IF e > 0 /\ inbox[Start, e] # "delivered" THEN {Start}
  ELSE Keys

Choose(c) ==
  /\ At(c, "choose")
  /\ LET todo == {k \in Gate(ctl[c].epoch) : inbox[k, ctl[c].epoch] = "pending"}
     IN  ctl' = [ctl EXCEPT ![c].todo = todo,
                            ![c].pc = IF todo = {} THEN "observe" ELSE "deliver"]
  /\ UNCHANGED <<apiVars, runVars, backVars, fresh, passVars>>

\* The oldest message comes first, and that is the one that starts the epoch.
NextUp(c) ==
  {k \in ctl[c].todo : Start \in ctl[c].todo => k = Start}

Entity(c) == back[ctl[c].epoch]

\* Deviation, a Backend that has no record of the deliveries it was given.
MayStartAgain(c, k) == ~Entity(c).stop /\ ~Busy(Entity(c))

\* Deviation, a stop that only ends the process that runs.
MayStartStopped(c, k) == k \notin Entity(c).deliveries /\ ~Busy(Entity(c))

MayStart(c, k) == k \notin Entity(c).deliveries /\ ~Entity(c).stop /\ ~Busy(Entity(c))

Deliver(c) ==
  /\ At(c, "deliver")
  /\ \E k \in NextUp(c) :
       /\ MayStart(c, k)
       /\ back' = [back EXCEPT ![ctl[c].epoch] = Started(@, k, c)]
       /\ turns' = [turns EXCEPT ![<<k, ctl[c].epoch>>] = @ + 1]
       /\ ctl' = [ctl EXCEPT ![c].pc = "record", ![c].key = k]
  /\ UNCHANGED <<apiVars, runVars, fresh, passVars>>

\* Deviation, a delivery the Backend already has is not recorded.
DuplicateUnrecorded(c) ==
  /\ At(c, "deliver")
  /\ NextUp(c) \cap Entity(c).deliveries # {}
  /\ Goto(c, "observe")
  /\ UNCHANGED <<apiVars, runVars, backVars, fresh, passVars>>

DeliverDuplicate(c) ==
  /\ At(c, "deliver")
  /\ \E k \in NextUp(c) \cap Entity(c).deliveries :
       ctl' = [ctl EXCEPT ![c].pc = "record", ![c].key = k, ![c].dup = TRUE]
  /\ UNCHANGED <<apiVars, runVars, backVars, fresh, passVars>>

DeliverRefused(c) ==
  /\ At(c, "deliver")
  /\ \E k \in NextUp(c) \ Entity(c).deliveries : ~MayStart(c, k)
  /\ Goto(c, "observe")
  /\ UNCHANGED <<apiVars, runVars, backVars, fresh, passVars>>

\* The process cannot be launched: the Backend keeps the delivery as failed
\* and the reconcile ends with the error.
DeliverFails(c) ==
  /\ Crashes
  /\ At(c, "deliver")
  /\ \E k \in NextUp(c) :
       /\ MayStart(c, k)
       /\ back' = [back EXCEPT ![ctl[c].epoch] = Unattended(@, k, "exited")]
  /\ Done(c)
  /\ UNCHANGED <<apiVars, runVars, turns, passVars>>

\* The Controller commits that the message reached the Backend.
CommitDelivery(c) ==
  LET k == ctl[c].key
      e == ctl[c].epoch
      rest == [ctl[c] EXCEPT !.todo = @ \ {k}, !.key = None, !.dup = FALSE]
      more == ctl[c].dup /\ rest.todo # {}
  IN  /\ At(c, "record")
      /\ worker.epoch = e
      /\ inbox[k, e] # "superseded"
      /\ inbox' = [inbox EXCEPT ![<<k, e>>] = "delivered"]
      /\ late' = (late \/ inbox[k, e] = "pending")
      /\ ctl' = [ctl EXCEPT ![c] =
                   [rest EXCEPT !.pc = IF more THEN "deliver" ELSE "observe"]]
      /\ UNCHANGED <<worker, latest, contract, requested, node, runVars,
                     backVars, fresh, passVars>>

DeliveryRejected(c) ==
  /\ At(c, "record")
  /\ \/ worker.epoch # ctl[c].epoch
     \/ inbox[ctl[c].key, ctl[c].epoch] = "superseded"
  /\ Done(c)
  /\ UNCHANGED <<apiVars, runVars, backVars, passVars>>

StopBackend(c) ==
  /\ At(c, "stop")
  /\ back' = [back EXCEPT ![ctl[c].epoch].stop = TRUE]
  /\ Goto(c, "observe")
  /\ UNCHANGED <<apiVars, runVars, turns, fresh, passVars>>

\* A poll also enforces the wall limit of a process nobody watches.
Observe(c) ==
  LET b == Entity(c) IN
  /\ At(c, "observe")
  /\ \E proc \in {b.proc} \cup
       (IF b.proc = "alive" /\ b.watcher = None /\ ~b.stop /\ "failed" \in Endings
        THEN {"failed"} ELSE {}) :
       LET polled == Polled([b EXCEPT !.proc = proc]) IN
       /\ back' = [back EXCEPT ![ctl[c].epoch] = polled]
       /\ ctl' = [ctl EXCEPT ![c].pc = "report", ![c].id = polled.id,
                             ![c].observed = polled.seen.observed,
                             ![c].todo = {}]
  /\ UNCHANGED <<apiVars, runVars, turns, fresh, passVars>>

Fact(c) == [epoch |-> ctl[c].epoch, seq |-> ctl[c].seq, id |-> ctl[c].id,
            observed |-> ctl[c].observed]

\* Deviation, any observation of the epoch is written.
AdmittedAny(c) == TRUE

\* The revision the Controller read is the current one, and no newer
\* observation of this epoch is committed.
Admitted(c) ==
  /\ c \in fresh
  /\ ctl[c].seq = worker.seq
  /\ latest.epoch = ctl[c].epoch => ctl[c].id >= latest.id

ReportCommits(c) ==
  /\ At(c, "report")
  /\ Fact(c) # latest
  /\ worker.epoch = ctl[c].epoch
  /\ Admitted(c)
  /\ latest' = Fact(c)
  /\ late' = FALSE
  /\ fresh' = {}
  /\ ctl' = [ctl EXCEPT ![c] = Idle]
  /\ UNCHANGED <<worker, inbox, contract, requested, node, runVars, backVars,
                 passVars>>

\* Nothing new to say, an epoch that is over, or a second conflict.
ReportEnds(c) ==
  /\ At(c, "report")
  /\ \/ Fact(c) = latest
     \/ worker.epoch # ctl[c].epoch
     \/ ~Admitted(c) /\ ctl[c].again
  /\ Done(c)
  /\ UNCHANGED <<apiVars, runVars, backVars, passVars>>

ReportConflicts(c) ==
  /\ At(c, "report")
  /\ Fact(c) # latest
  /\ worker.epoch = ctl[c].epoch
  /\ ~Admitted(c)
  /\ ~ctl[c].again
  /\ Goto(c, "reread")
  /\ UNCHANGED <<apiVars, runVars, backVars, fresh, passVars>>

\* A conflict is never retried with the old payload: the row is read again
\* and the Backend polled again, which does not pass on a stop.
Reread(c) ==
  /\ At(c, "reread")
  /\ IF worker.epoch # ctl[c].epoch THEN Done(c)
     ELSE /\ ctl' = [ctl EXCEPT ![c].pc = "observe", ![c].seq = worker.seq,
                                ![c].again = TRUE]
          /\ fresh' = fresh \cup {c}
  /\ UNCHANGED <<apiVars, runVars, backVars, passVars>>

ReconcileStep(c) ==
  \/ ReadWorker(c) \/ ReadRun(c) \/ Choose(c)
  \/ Deliver(c) \/ DeliverDuplicate(c) \/ DeliverRefused(c)
  \/ CommitDelivery(c) \/ DeliveryRejected(c)
  \/ StopBackend(c) \/ Observe(c)
  \/ ReportCommits(c) \/ ReportEnds(c) \/ ReportConflicts(c) \/ Reread(c)

\* The process of the Controller dies, and its watcher threads with it.
Crash(c) ==
  /\ Crashes
  /\ ctl[c] # Idle \/ \E e \in Epochs : back[e].watcher = c
  /\ Done(c)
  /\ back' = [e \in Epochs |-> Unwatched(back[e], c)]
  /\ UNCHANGED <<apiVars, runVars, turns, passVars>>

\* It dies between the two saves of a delivery: nobody watches a process
\* that was launched, and nothing tells whether one was.
CrashInDeliver(c) ==
  /\ Crashes
  /\ At(c, "deliver")
  /\ \E k \in NextUp(c), proc \in {"alive", "unknown"} :
       /\ MayStart(c, k)
       /\ back' = [e \in Epochs |->
                    Unwatched(IF e = ctl[c].epoch THEN Unattended(back[e], k, proc)
                              ELSE back[e], c)]
       /\ turns' = [turns EXCEPT ![<<k, ctl[c].epoch>>] =
                      IF proc = "alive" THEN @ + 1 ELSE @]
  /\ Done(c)
  /\ UNCHANGED <<apiVars, runVars, passVars>>

-----------------------------------------------------------------------------
(* The reconcile pass: run control, and then one phase after the other.  A *)
(* plan that meets a newer revision, or an error, starts the pass again.   *)

Enter(next) == phase' = next /\ control' = Undecided

\* Deviation, what is wanted of a new execution written as what is observed.
WantedObserved(desired) ==
  [worker EXCEPT !.desired = IF desired = "active" THEN "starting" ELSE desired,
                 !.seq = @ + 1]

\* Every change of what is wanted of a Worker bumps its intent and revision.
Wanted(desired) == [worker EXCEPT !.desired = desired, !.seq = @ + 1]

StopWorker ==
  /\ worker.desired # "stopped"
  /\ worker' = Wanted("stopped")
  /\ fresh' = {}

Ending == run.desired = "cancelled" \/ expired

Pausing == run.desired = "paused" /\ ~expired

Resuming == run.desired = "running" /\ ~expired

\* Deviation, a pause that waits for an idle Worker and not for a quiet one.
DecisionIdle ==
  CASE Resuming /\ run.status = "paused" -> "resume"
    [] Pausing /\ ObservedNow = "idle" /\ run.status # "paused" -> "pause"
    [] Ending /\ worker.desired # "stopped" -> "stop"
    [] Ending /\ worker.desired = "stopped" /\ expired -> "fail"
    [] Ending /\ worker.desired = "stopped" /\ ~expired /\ ExecutionStopped
         -> "cancel"
    [] OTHER -> "none"

\* What run control decides from its snapshot.
Decision ==
  CASE Resuming /\ run.status = "paused" -> "resume"
    [] Pausing /\ Quiescent /\ run.status # "paused" -> "pause"
    [] Pausing /\ ~Quiescent /\ run.status = "paused" -> "reopen"
    [] Ending /\ worker.desired # "stopped" -> "stop"
    [] Ending /\ worker.desired = "stopped" /\ expired -> "fail"
    [] Ending /\ worker.desired = "stopped" /\ ~expired /\ ExecutionStopped
         -> "cancel"
    [] OTHER -> "none"

ControlDecides ==
  /\ phase = "control"
  /\ RunIsOpen
  /\ Decision # "none"
  /\ phase' = "commit"
  /\ control' = [decision |-> Decision, fresh |-> TRUE]
  /\ fresh' = fresh \cup {Scheduler}
  /\ UNCHANGED <<apiVars, runVars, backVars, ctl>>

\* Nothing to decide: the pass goes on, or skips all that would dispatch.
ControlPasses ==
  /\ phase = "control"
  /\ ~RunIsOpen \/ Decision = "none"
  /\ Enter(IF RunIsOpen /\ Resuming THEN "failures" ELSE "stopping")
  /\ UNCHANGED <<apiVars, runVars, backVars, ctl, fresh>>

CommitStop ==
  /\ phase = "commit"
  /\ control.decision = "stop"
  /\ Scheduler \in fresh
  /\ StopWorker
  /\ Enter("stopping")
  /\ UNCHANGED <<latest, late, inbox, contract, requested, node, runVars,
                 backVars, ctl>>

\* Ending the Run ends its Node first; an unknown outcome stays unknown when
\* the deadline, not the publisher, ends it.
NodeMustEnd ==
  \/ control.decision = "cancel" /\ node \notin NodeTerminal
  \/ control.decision = "fail" /\ node = "running"

CommitNodeEnd ==
  /\ phase = "commit"
  /\ NodeMustEnd
  /\ node' = IF control.decision = "cancel" THEN "cancelled" ELSE "failed"
  /\ UNCHANGED <<worker, latest, late, inbox, contract, requested, runVars,
                 backVars, ctl, fresh, passVars>>

NewStatus ==
  CASE control.decision \in {"resume", "reopen"} -> "running"
    [] control.decision = "pause" -> "paused"
    [] control.decision = "fail" -> "failed"
    [] control.decision = "cancel" -> "cancelled"

CommitStatus ==
  /\ phase = "commit"
  /\ control.decision \notin {"none", "stop"}
  /\ ~NodeMustEnd
  /\ control.fresh
  /\ run' = [run EXCEPT !.status = NewStatus]
  /\ fresh' = fresh \ {Scheduler}
  /\ Enter("stopping")
  /\ UNCHANGED <<apiVars, expired, intents, backVars, ctl>>

\* The Worker or the Run has moved since the snapshot: read everything again.
CommitConflicts ==
  /\ phase = "commit"
  /\ IF control.decision = "stop" THEN Scheduler \notin fresh
     ELSE ~NodeMustEnd /\ ~control.fresh
  /\ fresh' = fresh \ {Scheduler}
  /\ Enter("control")
  /\ UNCHANGED <<apiVars, runVars, backVars, ctl>>

\* A candidate of a Worker that has worked is accepted and applied.
AcceptCandidate ==
  /\ phase = "failures"
  /\ node = "running"
  /\ contract = worker.epoch
  /\ \E k \in Keys : turns[k, worker.epoch] > 0
  /\ node' = "succeeded"
  /\ Enter("acceptance")
  /\ UNCHANGED <<worker, latest, late, inbox, contract, requested, runVars,
                 backVars, ctl, fresh>>

\* A failed process fails the Node, and an unknown effect blocks it.  What
\* was unknown can only become stopped, so a blocked Node is never failed.
ApplyExecutionFailures ==
  /\ phase = "failures"
  /\ node' = CASE node = "running" /\ ObservedNow = "failed" -> "failed"
              [] node = "running" /\ ObservedNow = "unknown" -> "blocked"
              [] OTHER -> node
  /\ Enter("acceptance")
  /\ UNCHANGED <<worker, latest, late, inbox, contract, requested, runVars,
                 backVars, ctl, fresh>>

\* The pending acceptance revision becomes the contract, and the execution
\* that holds the old one is told to stop.
ApplyRevision ==
  /\ phase = "acceptance"
  /\ Requested
  /\ node = "running"
  /\ IF run.desired = "running"
     THEN /\ contract' = contract + 1
          /\ requested' = FALSE
          /\ IF worker.desired = "stopped" THEN UNCHANGED <<worker, fresh>>
             ELSE StopWorker
          /\ Enter("wakes")
     ELSE Enter("control") /\ UNCHANGED <<contract, requested, worker, fresh>>
  /\ UNCHANGED <<latest, late, inbox, node, runVars, backVars, ctl>>

\* Applying a revision has stopped the execution it supersedes.
Superseded == ~Requested /\ contract > worker.epoch

Drained == Superseded /\ worker.desired = "stopped" /\ ExecutionStopped

\* What the old epoch never took is retired before it is replaced.
SupersedeInbox ==
  /\ phase = "acceptance"
  /\ Drained
  /\ Pending # {}
  /\ inbox' = [m \in Messages |->
                IF m \in Pending \X {worker.epoch} THEN "superseded"
                ELSE inbox[m]]
  /\ Enter("wakes")
  /\ UNCHANGED <<worker, latest, late, contract, requested, node, runVars,
                 backVars, ctl, fresh>>

\* The latest observation answers the latest intent, and no delivery came
\* after it.
SafeToReplace == latest.epoch = worker.epoch /\ latest.seq = worker.seq /\ ~late

MayRebind == SafeToReplace /\ node = "running" /\ RunIsOpen

Rebind ==
  /\ phase = "acceptance"
  /\ Drained
  /\ Pending = {}
  /\ MayRebind
  /\ worker' = [Wanted("active") EXCEPT !.epoch = @ + 1]
  /\ late' = FALSE
  /\ fresh' = {}
  /\ Enter("wakes")
  /\ UNCHANGED <<latest, inbox, contract, requested, node, runVars, backVars,
                 ctl>>

\* A refused replacement is no conflict: the error ends the whole pass.
RebindRefused ==
  /\ phase = "acceptance"
  /\ Drained
  /\ Pending = {}
  /\ ~MayRebind
  /\ Enter("control")
  /\ UNCHANGED <<apiVars, runVars, backVars, ctl, fresh>>

HandOffDue == ~Requested /\ contract = worker.epoch /\ contract > 0
              /\ inbox[Start, worker.epoch] = "none"

\* The fresh epoch is owed the contract it was bound to.
HandOff ==
  /\ phase = "acceptance"
  /\ HandOffDue
  /\ inbox' = [inbox EXCEPT ![<<Start, worker.epoch>>] = "pending"]
  /\ Enter("wakes")
  /\ UNCHANGED <<worker, latest, late, contract, requested, node, runVars,
                 backVars, ctl, fresh>>

NothingToRevise ==
  /\ phase = "acceptance"
  /\ \/ Requested /\ node # "running"
     \/ Superseded /\ ~Drained
     \/ ~Requested /\ ~Superseded /\ ~HandOffDue
  /\ Enter("wakes")
  /\ UNCHANGED <<apiVars, runVars, backVars, ctl, fresh>>

\* Nothing but its start is sent to an execution whose contract is changing.
DispatchAllowed(k) ==
  k # Start => /\ inbox[Start, worker.epoch] # "none"
               /\ ~Requested
               /\ contract = worker.epoch

StartDue == node = "running" /\ inbox[Start, worker.epoch] = "none"

Enqueue(k) ==
  /\ phase = "wakes"
  /\ RunIsOpen
  /\ node = "running"
  /\ inbox[k, worker.epoch] = "none"
  /\ DispatchAllowed(k)
  /\ inbox' = [inbox EXCEPT ![<<k, worker.epoch>>] = "pending"]
  /\ UNCHANGED <<worker, latest, late, contract, requested, node, runVars,
                 backVars, ctl, fresh, passVars>>

WakesEnd ==
  /\ phase = "wakes"
  /\ ~StartDue
  /\ Enter("stopping")
  /\ UNCHANGED <<apiVars, runVars, backVars, ctl, fresh>>

\* The Worker of a Node that is over, or of a failed Run, is told to stop.
StopDue == worker.desired # "stopped"
           /\ (node \in NodeTerminal \/ run.status = "failed")

StopTerminalWorker ==
  /\ phase = "stopping"
  /\ IF StopDue THEN StopWorker ELSE UNCHANGED <<worker, fresh>>
  /\ Enter("finish")
  /\ UNCHANGED <<latest, late, inbox, contract, requested, node, runVars,
                 backVars, ctl>>

\* The stage the Node belongs to has followed it earlier in the pass, except
\* that other Nodes may keep it open when the Node succeeds.
Outcomes ==
  CASE node = "blocked" -> {"blocked"}
    [] node # "blocked" /\ run.status = "blocked" -> {"running"}
    [] node = "succeeded" /\ run.status # "blocked" -> {"completed", run.status}
    [] node \in {"failed", "cancelled"} /\ run.status # "blocked" -> {"failed"}
    [] node = "running" /\ run.status # "blocked" -> {run.status}

FinishRun ==
  /\ phase = "finish"
  /\ IF RunIsOpen /\ run.desired = "running"
     THEN \E status \in Outcomes : run' = [run EXCEPT !.status = status]
     ELSE UNCHANGED run
  /\ Enter("control")
  /\ UNCHANGED <<apiVars, expired, intents, backVars, ctl, fresh>>

PassStep ==
  \/ ControlDecides \/ ControlPasses
  \/ CommitStop \/ CommitNodeEnd \/ CommitStatus \/ CommitConflicts
  \/ AcceptCandidate \/ ApplyExecutionFailures
  \/ ApplyRevision \/ SupersedeInbox
  \/ Rebind \/ RebindRefused \/ HandOff \/ NothingToRevise
  \/ (\E k \in Keys : Enqueue(k)) \/ WakesEnd
  \/ StopTerminalWorker \/ FinishRun

\* The Scheduler dies in the middle of a pass; the next begins with the first
\* phase and reads everything again.
PassCrashes ==
  /\ Crashes
  /\ phase # "control"
  /\ fresh' = fresh \ {Scheduler}
  /\ Enter("control")
  /\ UNCHANGED <<apiVars, runVars, backVars, ctl>>

-----------------------------------------------------------------------------
(* Around it.                                                              *)

SetIntent(i) ==
  /\ intents < MaxIntents
  /\ run.desired # i
  /\ run' = [run EXCEPT !.desired = i]
  /\ intents' = intents + 1
  /\ control' = [control EXCEPT !.fresh = FALSE]
  /\ UNCHANGED <<apiVars, expired, backVars, ctl, fresh, phase>>

DeadlinePasses ==
  /\ HasDeadline
  /\ ~expired
  /\ expired' = TRUE
  /\ UNCHANGED <<apiVars, run, intents, backVars, ctl, fresh, passVars>>

\* The parent asks for new criteria, of an execution that holds the current.
ProposeRevision ==
  /\ RunIsOpen
  /\ node = "running"
  /\ ~requested
  /\ contract = worker.epoch
  /\ contract < MaxEpoch
  /\ requested' = TRUE
  /\ UNCHANGED <<worker, latest, late, inbox, contract, node, runVars,
                 backVars, ctl, fresh, passVars>>

Next ==
  \/ PassStep \/ PassCrashes
  \/ \E c \in Controllers : ReconcileStep(c) \/ Crash(c) \/ DeliverFails(c)
                            \/ CrashInDeliver(c)
  \/ \E e \in Epochs : ProcessEnds(e)
  \/ \E i \in Intents : SetIntent(i)
  \/ DeadlinePasses
  \/ ProposeRevision

\* The host runs the pass and every Worker's reconcile again and again, and
\* a process has a wall limit.
Fairness ==
  /\ WF_vars(PassStep)
  /\ \A c \in Controllers : WF_vars(ReconcileStep(c))
  /\ \A e \in Epochs : WF_vars(ProcessEnds(e))

Spec == Init /\ [][Next]_vars /\ Fairness

-----------------------------------------------------------------------------
(* Properties.                                                             *)

Live(e) == back[e].proc = "alive"

\* A message starts at most one process, whoever delivers it and whatever
\* crashes before the delivery is committed (Pi backend, deliver).
StartedOnce == \A m \in Messages : turns[m] <= 1

\* Once the Worker is bound to an epoch, no process of an earlier one runs
\* (Api._require_safe_epoch_replacement).
OneExecution == \A e \in Epochs : e < worker.epoch => ~Live(e)

\* A Run that is cancelled has no process left (Scheduler._run_control).
CancelledIsQuiet == run.status = "cancelled" => \A e \in Epochs : ~Live(e)

\* A delayed report never takes back that an execution has stopped
\* (Controller._report, Api._append_observation).
StopIsFinal ==
  [][(latest.observed = "stopped" /\ latest'.epoch = latest.epoch)
       => latest'.observed = "stopped"]_vars

\* A message retired with its epoch never starts a process afterwards
\* (Api.supersede_inbox).
SupersededNeverStarts ==
  [][\A m \in Messages : inbox[m] = "superseded" => turns'[m] = turns[m]]_vars

\* A Run left to pause ends up paused with nothing running, also when a
\* Controller delivered after it was first paused (Scheduler._run_control).
PauseConverges ==
  <>[](run.desired = "paused") =>
    <>[](\/ run.status = "paused" /\ \A e \in Epochs : ~Live(e)
         \/ ~RunIsOpen)

\* A Run that is left to be cancelled, or that meets its deadline, is over
\* and its Worker observed stopped, also when it was over before that
\* (Scheduler._run_control, Host._needs_drain).
EndingDrains ==
  <>[](run.desired = "cancelled" \/ expired) =>
    <>[](~RunIsOpen /\ ExecutionStopped)

\* A failed Node ends a Run that is meant to run (Scheduler._finish_run).
FailureEndsRun ==
  (node = "failed") ~> (~RunIsOpen \/ run.desired # "running")

\* In the end nothing crashes and every launch succeeds.
FaultsEnd ==
  <>[][\/ PassStep \/ ProposeRevision \/ DeadlinePasses
       \/ \E c \in Controllers : ReconcileStep(c)
       \/ \E e \in Epochs : ProcessEnds(e)
       \/ \E i \in Intents : SetIntent(i)]_vars

\* An applied contract reaches a fresh execution and is handed over to it,
\* unless the Node or the Run stops first, wherever in the replacement, the
\* hand-off and its delivery the host dies and starts again
\* (Scheduler._reconcile_acceptance_revisions, Controller._deliver_next).
RebindCompletes ==
  FaultsEnd =>
    (contract > worker.epoch) ~>
      (\/ inbox[Start, contract] = "delivered"
       \/ node # "running" \/ run.desired # "running")

=============================================================================
