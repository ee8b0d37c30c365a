----------------------- MODULE WorkerExecutionProofs -----------------------
(***************************************************************************)
(* Proofs about the execution of one Worker, for any number of Controllers *)
(* (but where a theorem says otherwise), messages, epochs and intents, any *)
(* way a process may end, and any crash.                                   *)
(***************************************************************************)
EXTENDS WorkerExecution, TLAPS

-----------------------------------------------------------------------------
(* The inductive invariants.                                               *)

\* Only a contract below the bound may be revised, and only a Worker behind
\* its contract is bound to the next epoch.
RevisionsBounded ==
  worker.epoch <= contract /\ (requested => contract < MaxEpoch)

\* Every process was started by a delivery that its Backend has saved.
TurnsAreSaved ==
  \A k \in Keys, e \in Epochs :
    turns[<<k, e>>] <= 1 /\ (turns[<<k, e>>] > 0 => k \in back[e].deliveries)

\* The execution was told to stop and runs nothing, for good: its Backend
\* starts nothing after a stop.
Quiet(e) == back[e].stop /\ back[e].proc \notin {"alive", "unknown"}

\* What was recorded of the executions: the committed observation, and what
\* each Controller is about to report.
Records == {latest} \cup {Fact(c) : c \in {d \in Controllers : At(d, "report")}}

\* Every record comes from a poll, and one id stands for one content.
RecordsArePolled ==
  \A r \in Records :
    /\ r.id <= back[r.epoch].id
    /\ r.id = back[r.epoch].id => r.observed = back[r.epoch].seen.observed

\* What was seen as stopped is quiet.
StoppedIsQuiet ==
  /\ \A e \in Epochs : back[e].seen.observed = "stopped" => Quiet(e)
  /\ \A r \in Records :
       r.observed = "stopped" => back[r.epoch].seen.observed = "stopped"

\* No record takes back a stop that an older one reports.
StopsAgree ==
  \A r, q \in Records :
    (r.epoch = q.epoch /\ r.observed = "stopped" /\ r.id <= q.id)
      => q.observed = "stopped"

StopInv == RecordsArePolled /\ StoppedIsQuiet /\ StopsAgree

\* Where no process fails, none is recorded as failed.
NothingFails ==
  /\ \A e \in Epochs :
       back[e].proc # "failed" /\ back[e].seen.observed # "failed"
  /\ \A r \in Records : r.observed # "failed"

\* What was replaced, and what had messages retired, is quiet.
ReplacedIsQuiet ==
  /\ \A e \in Epochs : e < worker.epoch => Quiet(e)
  /\ \A k \in Keys, e \in Epochs : inbox[<<k, e>>] = "superseded" => Quiet(e)

\* A Controller that may still start a process.
Starting(c) == ctl[c].pc \in {"run", "choose", "deliver", "record"}

Over == {"stopped", "failed"}

\* The stop of the Worker has been answered by an observation.
Answered ==
  /\ latest.epoch = worker.epoch
  /\ latest.seq = worker.seq
  /\ worker.desired = "stopped"

\* With one Controller, the execution it starts processes for is the current
\* one, what it is about to report is still so, and nothing is being started
\* once a stop is answered.
SingleInv ==
  /\ latest.seq <= worker.seq
  /\ \A c \in Controllers :
       /\ Starting(c) => ctl[c].epoch = worker.epoch
       /\ At(c, "report") /\ ctl[c].observed \in Over => ~Live(ctl[c].epoch)
  /\ Answered => \A c \in Controllers : ~Starting(c)
  /\ Answered /\ latest.observed \in Over => ~Live(worker.epoch)
  /\ OneExecution

-----------------------------------------------------------------------------
(* Types.                                                                  *)

\* What a call of the Backend returns is an entity.
LEMMA EntityType ==
  ASSUME NEW b \in Entities, NEW k \in Keys, NEW c \in Controllers,
         NEW proc \in Processes
  PROVE  /\ Started(b, k, c) \in Entities
         /\ Unattended(b, k, proc) \in Entities
         /\ Unwatched(b, c) \in Entities
         /\ [b EXCEPT !.stop = TRUE] \in Entities
         /\ [b EXCEPT !.proc = proc, !.watcher = None] \in Entities
         /\ [b EXCEPT !.proc = proc] \in Entities
BY DEF Started, Unattended, Unwatched, Entities, Processes

LEMMA PolledType ==
  ASSUME NEW b \in Entities
  PROVE  /\ Seen(b) \in Observed
         /\ Polled(b) \in Entities
         /\ Polled(b).id \in Nat
         /\ Polled(b).seen.observed = Seen(b)
<1>1. b.proc \in Processes /\ b.stop \in BOOLEAN
  BY DEF Entities
<1>2. Seen(b) \in Observed
  BY <1>1 DEF Seen, Observed, Processes
<1> DEFINE content == [observed |-> Seen(b), key |-> b.current, stop |-> b.stop]
           new == IF content = b.seen THEN b.id ELSE b.id + 1
<1>3. content \in Contents
  BY <1>2 DEF Contents, Entities
<1>4. new \in Nat
  BY DEF Entities
<1>5. Polled(b) = [b EXCEPT !.seen = content, !.id = new]
  BY DEF Polled
<1> HIDE DEF content, new
<1>6. Polled(b) \in Entities /\ Polled(b).id = new /\ Polled(b).seen = content
  BY <1>3, <1>4, <1>5 DEF Entities
<1> QED
  BY <1>2, <1>4, <1>6 DEF content

\* The initial state is well typed.
LEMMA InitType == Init => TypeOK
<1> SUFFICES ASSUME Init PROVE TypeOK
  OBVIOUS
<1> USE DEF Init
<1>1. 0 \in Epochs
  BY LimitAssumption DEF Epochs
<1>2. Fresh \in Contents
  BY DEF Fresh, Contents, Observed
<1>3. NewEntity \in Entities
  BY <1>2 DEF NewEntity, Entities, Processes
<1>4. Idle \in Reconciles
  BY <1>1 DEF Idle, Reconciles, Steps, Observed
<1>5. Undecided \in [decision : Decisions, fresh : BOOLEAN]
  BY DEF Undecided, Decisions
<1>6. latest \in Observations
  BY <1>1 DEF Observations, Observed
<1>7. worker \in [epoch : Epochs, seq : Nat, desired : {"active", "stopped"}]
  BY <1>1
<1>8. run \in [desired : Intents,
               status : RunTerminal \cup {"running", "paused", "blocked"}]
  BY DEF Intents
<1>9. /\ back \in [Epochs -> Entities]
      /\ ctl \in [Controllers -> Reconciles]
      /\ turns \in [Messages -> Nat]
      /\ inbox \in [Messages -> {"none", "pending", "delivered", "superseded"}]
  BY <1>3, <1>4
<1>10. intents \in 0..MaxIntents
  BY LimitAssumption
<1> QED
  BY <1>1, <1>5, <1>6, <1>7, <1>8, <1>9, <1>10 DEF TypeOK, Phases

\* Every step of a Controller keeps the types.
LEMMA ReconcileType ==
  ASSUME TypeOK, NEW c \in Controllers,
         ReconcileStep(c) \/ Crash(c) \/ DeliverFails(c) \/ CrashInDeliver(c)
  PROVE  TypeOK'
<1> USE DEF TypeOK, apiVars, runVars, backVars, passVars
<1>0. /\ ctl[c] \in Reconciles
      /\ ctl[c].epoch \in Epochs
      /\ Entity(c) \in Entities
      /\ Idle \in Reconciles
  <2>1. 0 \in Epochs
    BY LimitAssumption DEF Epochs
  <2> QED
    BY <2>1 DEF Reconciles, Entity, Idle, Steps, Observed
<1>1. Done(c) => ctl' \in [Controllers -> Reconciles]
                 /\ fresh' \in SUBSET (Controllers \cup {Scheduler})
  BY <1>0 DEF Done
<1>2. ASSUME NEW pc \in Steps, Goto(c, pc)
      PROVE  ctl' \in [Controllers -> Reconciles]
  BY <1>0, <1>2 DEF Goto, Reconciles
<1>3. \A k : k \in NextUp(c) => k \in Keys
  BY <1>0 DEF NextUp, Reconciles
<1>4. CASE ReadWorker(c)
  <2>1. ctl' \in [Controllers -> Reconciles]
    BY <1>0, <1>4 DEF ReadWorker, Reconciles, Steps
  <2> QED
    BY <1>4, <2>1 DEF ReadWorker
<1>5. CASE ReadRun(c)
  BY <1>2, <1>5 DEF ReadRun, Steps
<1>6. CASE Choose(c)
  <2>1. ctl' \in [Controllers -> Reconciles]
    BY <1>0, <1>6 DEF Choose, Reconciles, Steps, Gate, Keys
  <2> QED
    BY <1>6, <2>1 DEF Choose
<1>7. CASE Deliver(c)
  <2>1. PICK k \in Keys :
          /\ back' = [back EXCEPT ![ctl[c].epoch] = Started(Entity(c), k, c)]
          /\ turns' = [turns EXCEPT ![<<k, ctl[c].epoch>>] = @ + 1]
          /\ ctl' = [ctl EXCEPT ![c].pc = "record", ![c].key = k]
    BY <1>0, <1>3, <1>7 DEF Deliver, Entity
  <2>2. Started(Entity(c), k, c) \in Entities
    BY <1>0, EntityType DEF Processes
  <2>3. back' \in [Epochs -> Entities]
    BY <1>0, <2>1, <2>2 DEF Entity
  <2>4. turns' \in [Messages -> Nat]
    BY <1>0, <2>1 DEF Messages
  <2>5. ctl' \in [Controllers -> Reconciles]
    BY <1>0, <2>1 DEF Reconciles, Steps
  <2> QED
    BY <1>7, <2>3, <2>4, <2>5 DEF Deliver
<1>8. CASE DeliverDuplicate(c)
  <2>1. PICK k \in Keys :
          ctl' = [ctl EXCEPT ![c].pc = "record", ![c].key = k, ![c].dup = TRUE]
    BY <1>3, <1>8 DEF DeliverDuplicate
  <2>2. ctl' \in [Controllers -> Reconciles]
    BY <1>0, <2>1 DEF Reconciles, Steps
  <2> QED
    BY <1>8, <2>2 DEF DeliverDuplicate
<1>9. CASE DeliverRefused(c)
  BY <1>2, <1>9 DEF DeliverRefused, Steps
<1>10. CASE CommitDelivery(c)
  <2>1. ctl' \in [Controllers -> Reconciles]
    <3> DEFINE rest == [ctl[c] EXCEPT !.todo = @ \ {ctl[c].key}, !.key = None,
                                      !.dup = FALSE]
               more == ctl[c].dup /\ rest.todo # {}
    <3>1. rest \in Reconciles
      BY <1>0 DEF Reconciles
    <3>2. ctl' = [ctl EXCEPT ![c] =
                    [rest EXCEPT !.pc = IF more THEN "deliver" ELSE "observe"]]
      BY <1>10 DEF CommitDelivery
    <3> HIDE DEF rest, more
    <3> QED
      BY <3>1, <3>2 DEF Reconciles, Steps
  <2>2. inbox' \in [Messages -> {"none", "pending", "delivered", "superseded"}]
    BY <1>10 DEF CommitDelivery
  <2>3. late' \in BOOLEAN
    BY <1>10 DEF CommitDelivery
  <2> QED
    BY <1>10, <2>1, <2>2, <2>3 DEF CommitDelivery
<1>11. CASE DeliveryRejected(c)
  BY <1>1, <1>11 DEF DeliveryRejected
<1>12. CASE StopBackend(c)
  <2>1. [Entity(c) EXCEPT !.stop = TRUE] \in Entities
    BY <1>0 DEF Entities
  <2>2. back' \in [Epochs -> Entities]
    BY <1>0, <1>12, <2>1 DEF StopBackend, Entity
  <2> QED
    BY <1>2, <1>12, <2>2 DEF StopBackend, Steps
<1>13. CASE Observe(c)
  <2>1. PICK proc \in {Entity(c).proc, "failed"} :
          LET polled == Polled([Entity(c) EXCEPT !.proc = proc])
          IN  /\ back' = [back EXCEPT ![ctl[c].epoch] = polled]
              /\ ctl' = [ctl EXCEPT ![c].pc = "report", ![c].id = polled.id,
                                    ![c].observed = polled.seen.observed,
                                    ![c].todo = {}]
    BY <1>13 DEF Observe
  <2> DEFINE b == [Entity(c) EXCEPT !.proc = proc]
  <2>2. b \in Entities
    BY <1>0 DEF Entities, Processes
  <2>3. /\ Polled(b) \in Entities
        /\ Polled(b).id \in Nat
        /\ Polled(b).seen.observed \in Observed
    BY <2>2, PolledType
  <2>4. back' \in [Epochs -> Entities]
    BY <1>0, <2>1, <2>3
  <2>5. ctl' \in [Controllers -> Reconciles]
    BY <1>0, <2>1, <2>3 DEF Reconciles, Steps
  <2> QED
    BY <1>13, <2>4, <2>5 DEF Observe
<1>14. CASE ReportCommits(c)
  <2>1. latest' \in Observations
    BY <1>0, <1>14 DEF ReportCommits, Fact, Observations, Reconciles
  <2> QED
    BY <1>0, <1>14, <2>1 DEF ReportCommits
<1>15. CASE ReportEnds(c)
  BY <1>1, <1>15 DEF ReportEnds
<1>16. CASE ReportConflicts(c)
  BY <1>2, <1>16 DEF ReportConflicts, Steps
<1>17. CASE Reread(c)
  <2>1. CASE worker.epoch # ctl[c].epoch
    BY <1>1, <1>17, <2>1 DEF Reread
  <2>2. CASE worker.epoch = ctl[c].epoch
    <3>1. ctl' \in [Controllers -> Reconciles]
      BY <1>0, <1>17, <2>2 DEF Reread, Reconciles, Steps
    <3> QED
      BY <1>17, <2>2, <3>1 DEF Reread
  <2> QED
    BY <2>1, <2>2
<1>18. CASE Crash(c)
  <2>1. \A e \in Epochs : Unwatched(back[e], c) \in Entities
    BY DEF Unwatched, Entities
  <2>2. back' \in [Epochs -> Entities]
    BY <1>18, <2>1 DEF Crash
  <2> QED
    BY <1>1, <1>18, <2>2 DEF Crash
<1>19. CASE DeliverFails(c)
  <2>1. PICK k \in Keys :
          back' = [back EXCEPT ![ctl[c].epoch] =
                     Unattended(Entity(c), k, "exited")]
    BY <1>0, <1>3, <1>19 DEF DeliverFails, Entity
  <2>2. Unattended(Entity(c), k, "exited") \in Entities
    BY <1>0, EntityType DEF Processes
  <2>3. back' \in [Epochs -> Entities]
    BY <1>0, <2>1, <2>2 DEF Entity
  <2> QED
    BY <1>1, <1>19, <2>3 DEF DeliverFails
<1>20. CASE CrashInDeliver(c)
  <2>1. PICK k \in Keys, proc \in {"alive", "unknown"} :
          /\ back' = [e \in Epochs |->
                Unwatched(IF e = ctl[c].epoch THEN Unattended(back[e], k, proc)
                          ELSE back[e], c)]
          /\ turns' = [turns EXCEPT ![<<k, ctl[c].epoch>>] =
                         IF proc = "alive" THEN @ + 1 ELSE @]
    BY <1>3, <1>20 DEF CrashInDeliver
  <2>2. ASSUME NEW e \in Epochs
        PROVE  Unwatched(IF e = ctl[c].epoch THEN Unattended(back[e], k, proc)
                         ELSE back[e], c) \in Entities
    <3>1. back[e] \in Entities /\ Unattended(back[e], k, proc) \in Entities
      BY EntityType DEF Processes
    <3> QED
      BY <3>1, EntityType DEF Processes
  <2>3. back' \in [Epochs -> Entities]
    BY <2>1, <2>2
  <2>4. turns' \in [Messages -> Nat]
    BY <1>0, <2>1 DEF Messages
  <2> QED
    BY <1>1, <1>20, <2>3, <2>4 DEF CrashInDeliver
<1> QED
  BY <1>4, <1>5, <1>6, <1>7, <1>8, <1>9, <1>10, <1>11, <1>12, <1>13, <1>14,
     <1>15, <1>16, <1>17, <1>18, <1>19, <1>20 DEF ReconcileStep

LEMMA EnterType ==
  ASSUME NEW next \in Phases, Enter(next)
  PROVE  phase' \in Phases /\ control' \in [decision : Decisions, fresh : BOOLEAN]
BY DEF Enter, Undecided, Decisions

LEMMA WantedType ==
  ASSUME TypeOK, NEW desired \in {"active", "stopped"}
  PROVE  /\ Wanted(desired) = [epoch |-> worker.epoch, seq |-> worker.seq + 1,
                               desired |-> desired]
         /\ Wanted(desired) \in [epoch : Epochs, seq : Nat,
                                 desired : {"active", "stopped"}]
<1>1. worker \in [epoch : Epochs, seq : Nat, desired : {"active", "stopped"}]
  BY DEF TypeOK
<1>2. Wanted(desired) = [worker EXCEPT !.desired = desired, !.seq = @ + 1]
  BY DEF Wanted
<1>3. worker.seq + 1 \in Nat
  BY <1>1
<1> QED
  BY <1>1, <1>2, <1>3

\* The Worker's epoch never passes its contract, and only a contract below
\* the bound may be revised.
LEMMA PassKeepsBound ==
  ASSUME TypeOK, RevisionsBounded, PassStep \/ PassCrashes
  PROVE  RevisionsBounded'
<1> USE DEF RevisionsBounded
<1>1. /\ contract \in 0..MaxEpoch
      /\ worker.epoch \in 0..MaxEpoch
      /\ MaxEpoch \in Nat
  BY LimitAssumption DEF TypeOK, Epochs
<1>2. StopWorker => worker'.epoch = worker.epoch
  BY WantedType DEF StopWorker
<1>3. CASE CommitStop
  BY <1>2, <1>3 DEF CommitStop
<1>4. CASE ApplyRevision
  <2>1. CASE run.desired = "running"
    <3>1. contract' = contract + 1 /\ requested' = FALSE
      BY <1>4, <2>1 DEF ApplyRevision
    <3>2. worker'.epoch = worker.epoch
      BY <1>2, <1>4, <2>1 DEF ApplyRevision
    <3> QED
      BY <1>1, <3>1, <3>2
  <2>2. CASE run.desired # "running"
    BY <1>4, <2>2 DEF ApplyRevision
  <2> QED
    BY <2>1, <2>2
<1>5. CASE Rebind
  <2>1. worker'.epoch = worker.epoch + 1 /\ contract > worker.epoch
    <3>1. Wanted("active") \in [epoch : Epochs, seq : Nat,
                                desired : {"active", "stopped"}]
          /\ Wanted("active").epoch = worker.epoch
      BY WantedType
    <3> QED
      BY <1>5, <3>1 DEF Rebind, Drained, Superseded
  <2> QED
    BY <1>1, <1>5, <2>1 DEF Rebind
<1>6. CASE StopTerminalWorker
  BY <1>2, <1>6 DEF StopTerminalWorker
<1>7. CASE UNCHANGED <<worker, contract, requested>>
  BY <1>7
<1> QED
  <2>1. ASSUME NEW k \in Keys, Enqueue(k)
        PROVE  UNCHANGED <<worker, contract, requested>>
    BY <2>1 DEF Enqueue
  <2>2. \/ CommitStop \/ ApplyRevision \/ Rebind \/ StopTerminalWorker
        \/ UNCHANGED <<worker, contract, requested>>
    BY <2>1 DEF PassStep, PassCrashes, ControlDecides, ControlPasses,
       CommitNodeEnd, CommitStatus, CommitConflicts, AcceptCandidate,
       ApplyExecutionFailures, SupersedeInbox, RebindRefused, HandOff,
       NothingToRevise, WakesEnd, FinishRun, apiVars
  <2> QED
    BY <1>3, <1>4, <1>5, <1>6, <1>7, <2>2

\* Every phase of the pass keeps the types.
LEMMA PassType ==
  ASSUME TypeOK, RevisionsBounded, PassStep \/ PassCrashes
  PROVE  TypeOK' /\ RevisionsBounded'
<1> SUFFICES TypeOK'
  BY PassKeepsBound
<1> USE DEF TypeOK, apiVars, runVars, backVars, passVars
<1>0. /\ {"control", "commit", "failures", "acceptance", "wakes", "stopping",
          "finish"} = Phases
      /\ Start \in Keys
  BY DEF Phases, Keys
<1>1. CASE ControlDecides
  <2>1. Decision \in Decisions
    BY DEF Decision, Decisions
  <2> QED
    BY <1>0, <1>1, <2>1 DEF ControlDecides
<1>2. CASE ControlPasses
  BY <1>0, <1>2, EnterType DEF ControlPasses
<1>3. StopWorker => /\ worker' \in [epoch : Epochs, seq : Nat,
                                    desired : {"active", "stopped"}]
                    /\ fresh' = {}
  BY WantedType DEF StopWorker
<1>4. CASE CommitStop
  BY <1>0, <1>3, <1>4, EnterType DEF CommitStop
<1>5. CASE CommitNodeEnd
  BY <1>5 DEF CommitNodeEnd, NodeTerminal
<1>6. CASE CommitStatus
  <2>1. NewStatus \in RunTerminal \cup {"running", "paused", "blocked"}
    BY <1>6 DEF CommitStatus, NewStatus, RunTerminal, Decisions
  <2>2. run' \in [desired : Intents,
                  status : RunTerminal \cup {"running", "paused", "blocked"}]
    BY <1>6, <2>1 DEF CommitStatus
  <2> QED
    BY <1>0, <1>6, <2>2, EnterType DEF CommitStatus
<1>7. CASE CommitConflicts
  BY <1>0, <1>7, EnterType DEF CommitConflicts
<1>8. CASE AcceptCandidate
  BY <1>0, <1>8, EnterType DEF AcceptCandidate, NodeTerminal
<1>9. CASE ApplyExecutionFailures
  <2>1. node' \in NodeTerminal \cup {"running", "blocked"}
    BY <1>9 DEF ApplyExecutionFailures, NodeTerminal
  <2> QED
    BY <1>0, <1>9, <2>1, EnterType DEF ApplyExecutionFailures
<1>10. CASE ApplyRevision
  <2>1. contract' \in Epochs
    <3>1. contract \in 0..MaxEpoch /\ MaxEpoch \in Nat
      BY LimitAssumption DEF Epochs
    <3>2. \/ contract' = contract
          \/ contract' = contract + 1 /\ contract < MaxEpoch
      BY <1>10 DEF ApplyRevision, Requested, RevisionsBounded
    <3> QED
      BY <3>1, <3>2 DEF Epochs
  <2> QED
    BY <1>0, <1>3, <1>10, <2>1, EnterType DEF ApplyRevision
<1>11. CASE SupersedeInbox
  BY <1>0, <1>11, EnterType DEF SupersedeInbox
<1>12. CASE Rebind
  <2>1. worker.epoch + 1 \in Epochs
    BY <1>12, LimitAssumption
       DEF Rebind, Drained, Superseded, RevisionsBounded, Epochs
  <2>2. worker' \in [epoch : Epochs, seq : Nat, desired : {"active", "stopped"}]
    BY <1>12, <2>1, WantedType DEF Rebind
  <2> QED
    BY <1>0, <1>12, <2>2, EnterType DEF Rebind
<1>13. CASE RebindRefused
  BY <1>0, <1>13, EnterType DEF RebindRefused
<1>14. CASE HandOff
  BY <1>0, <1>14, EnterType DEF HandOff
<1>15. CASE NothingToRevise
  BY <1>0, <1>15, EnterType DEF NothingToRevise
<1>16. ASSUME NEW k \in Keys, Enqueue(k) PROVE TypeOK'
  BY <1>16 DEF Enqueue
<1>17. CASE WakesEnd
  BY <1>0, <1>17, EnterType DEF WakesEnd
<1>18. CASE StopTerminalWorker
  BY <1>0, <1>3, <1>18, EnterType DEF StopTerminalWorker
<1>19. CASE FinishRun
  <2>1. Outcomes \subseteq RunTerminal \cup {"running", "paused", "blocked"}
    BY DEF Outcomes, RunTerminal, NodeTerminal
  <2>2. run' \in [desired : Intents,
                  status : RunTerminal \cup {"running", "paused", "blocked"}]
    BY <1>19, <2>1 DEF FinishRun
  <2> QED
    BY <1>0, <1>19, <2>2, EnterType DEF FinishRun
<1>20. CASE PassCrashes
  BY <1>0, <1>20, EnterType DEF PassCrashes
<1> QED
  BY <1>1, <1>2, <1>4, <1>5, <1>6, <1>7, <1>8, <1>9, <1>10, <1>11, <1>12,
     <1>13, <1>14, <1>15, <1>16, <1>17, <1>18, <1>19, <1>20 DEF PassStep

\* The types and the bound hold of every step.
LEMMA TypeInductive ==
  TypeOK /\ RevisionsBounded /\ [Next]_vars => TypeOK' /\ RevisionsBounded'
<1> SUFFICES ASSUME TypeOK, RevisionsBounded, [Next]_vars
             PROVE  TypeOK' /\ RevisionsBounded'
  OBVIOUS
<1> USE DEF apiVars, runVars, backVars, passVars
<1>1. CASE PassStep \/ PassCrashes
  BY <1>1, PassType
<1>2. ASSUME NEW c \in Controllers,
             ReconcileStep(c) \/ Crash(c) \/ DeliverFails(c) \/ CrashInDeliver(c)
      PROVE  TypeOK' /\ RevisionsBounded'
  <2>1. UNCHANGED <<worker, contract, requested>>
    BY <1>2 DEF ReconcileStep, ReadWorker, ReadRun, Choose, Deliver,
       DeliverDuplicate, DeliverRefused, CommitDelivery, DeliveryRejected,
       StopBackend, Observe, ReportCommits, ReportEnds, ReportConflicts, Reread,
       Crash, DeliverFails, CrashInDeliver
  <2> QED
    BY <1>2, <2>1, ReconcileType DEF RevisionsBounded
<1>3. ASSUME NEW e \in Epochs, ProcessEnds(e)
      PROVE  TypeOK' /\ RevisionsBounded'
  <2>1. PICK end \in Processes :
          back' = [back EXCEPT ![e].proc = end, ![e].watcher = None]
    BY <1>3, LimitAssumption DEF ProcessEnds, Processes
  <2>2. back \in [Epochs -> Entities]
    BY DEF TypeOK
  <2>3. [back[e] EXCEPT !.proc = end, !.watcher = None] \in Entities
    BY <2>2 DEF Entities
  <2>4. back' \in [Epochs -> Entities]
    BY <2>1, <2>2, <2>3
  <2> QED
    BY <1>3, <2>4 DEF ProcessEnds, TypeOK, RevisionsBounded
<1>4. ASSUME NEW i \in Intents, SetIntent(i)
      PROVE  TypeOK' /\ RevisionsBounded'
  <2>1. intents' \in 0..MaxIntents
    BY <1>4, LimitAssumption DEF SetIntent, TypeOK
  <2> QED
    BY <1>4, <2>1 DEF SetIntent, TypeOK, RevisionsBounded
<1>5. CASE DeadlinePasses
  BY <1>5 DEF DeadlinePasses, TypeOK, RevisionsBounded
<1>6. CASE ProposeRevision
  BY <1>6 DEF ProposeRevision, TypeOK, RevisionsBounded
<1>7. CASE UNCHANGED vars
  BY <1>7 DEF vars, TypeOK, RevisionsBounded
<1> QED
  BY <1>1, <1>2, <1>3, <1>4, <1>5, <1>6, <1>7 DEF Next

LEMMA TypeInvariant == Spec => [](TypeOK /\ RevisionsBounded)
<1>1. Init => TypeOK /\ RevisionsBounded
  BY InitType, LimitAssumption DEF Init, RevisionsBounded
<1> QED
  BY <1>1, TypeInductive, PTL DEF Spec

\* Every reachable state is well typed (the Worker row, its observations and
\* its inbox, the Backend's entities and the Controllers' reads).
THEOREM TypeCorrect == Spec => []TypeOK
  BY TypeInvariant, PTL

-----------------------------------------------------------------------------
(* What one step does to an execution.                                     *)

\* Nothing starts: at most the process ends, or a stop is asked for.
Kept(e) ==
  /\ back'[e].deliveries = back[e].deliveries
  /\ \A k \in Keys : turns'[<<k, e>>] = turns[<<k, e>>]
  /\ back[e].stop => back'[e].stop
  /\ \/ back'[e].proc = back[e].proc
     \/ back[e].proc = "alive" /\ back'[e].proc # "alive"
  /\ back'[e].proc = "failed" =>
       back[e].proc = "failed" \/ "failed" \in Endings

\* A message it was never given is delivered to it.
StartedIn(e) ==
  /\ ~back[e].stop
  /\ \E k \in Keys \ back[e].deliveries :
       /\ back'[e].deliveries = back[e].deliveries \cup {k}
       /\ turns'[<<k, e>>] \in {turns[<<k, e>>], turns[<<k, e>>] + 1}
       /\ \A j \in Keys \ {k} : turns'[<<j, e>>] = turns[<<j, e>>]
  /\ back'[e].proc \in {"alive", "exited", "unknown"}

SameSeen(e) == back'[e].seen = back[e].seen /\ back'[e].id = back[e].id

\* A delivery starts something only for a message that is not saved, in an
\* execution that was not told to stop.
LEMMA DeliverStep ==
  ASSUME TypeOK, NEW c \in Controllers,
         Deliver(c) \/ DeliverFails(c) \/ CrashInDeliver(c),
         NEW e \in Epochs
  PROVE  /\ Kept(e) \/ (StartedIn(e) /\ e = ctl[c].epoch)
         /\ SameSeen(e)
<1> DEFINE b == back[ctl[c].epoch]
<1>0. /\ back \in [Epochs -> Entities]
      /\ turns \in [Messages -> Nat]
      /\ ctl[c].epoch \in Epochs
      /\ \A k : k \in NextUp(c) => k \in Keys
  BY DEF TypeOK, NextUp, Reconciles
<1>1. PICK k \in Keys, proc \in {"alive", "exited", "unknown"} :
        /\ k \notin b.deliveries /\ ~b.stop
        /\ \/ back' = [back EXCEPT ![ctl[c].epoch] = Started(b, k, c)]
              /\ proc = "alive"
           \/ back' = [back EXCEPT ![ctl[c].epoch] = Unattended(b, k, proc)]
           \/ back' = [f \in Epochs |->
                        Unwatched(IF f = ctl[c].epoch
                                  THEN Unattended(back[f], k, proc)
                                  ELSE back[f], c)]
        /\ \/ turns' = turns
           \/ turns' = [turns EXCEPT ![<<k, ctl[c].epoch>>] = @ + 1]
           \/ turns' = [turns EXCEPT ![<<k, ctl[c].epoch>>] = @]
  <2>1. CASE Deliver(c)
    BY <1>0, <2>1 DEF Deliver, MayStart, Entity
  <2>2. CASE DeliverFails(c)
    BY <1>0, <2>2 DEF DeliverFails, MayStart, Entity
  <2>3. CASE CrashInDeliver(c)
    <3>1. PICK k \in Keys, proc \in {"alive", "unknown"} :
            /\ MayStart(c, k)
            /\ back' = [f \in Epochs |->
                         Unwatched(IF f = ctl[c].epoch
                                   THEN Unattended(back[f], k, proc)
                                   ELSE back[f], c)]
            /\ turns' = [turns EXCEPT ![<<k, ctl[c].epoch>>] =
                           IF proc = "alive" THEN @ + 1 ELSE @]
      BY <1>0, <2>3 DEF CrashInDeliver
    <3> QED
      BY <3>1 DEF MayStart, Entity
  <2> QED
    BY <2>1, <2>2, <2>3
<1>2. \A f \in Epochs : Unwatched(back[f], c) =
        [back[f] EXCEPT !.watcher = IF @ = c THEN None ELSE @]
  BY DEF Unwatched
<1>3. CASE e # ctl[c].epoch
  <2>1. \/ back'[e] = back[e]
        \/ back'[e] = Unwatched(back[e], c)
    BY <1>0, <1>1, <1>3
  <2>2. \A j \in Keys : turns'[<<j, e>>] = turns[<<j, e>>]
    BY <1>0, <1>1, <1>3 DEF Messages
  <2> QED
    BY <1>0, <2>1, <2>2 DEF Kept, SameSeen, Unwatched, Entities
<1>4. CASE e = ctl[c].epoch
  <2>1. \/ back'[e] = Started(b, k, c) /\ proc = "alive"
        \/ back'[e] = Unattended(b, k, proc)
        \/ back'[e] = Unwatched(Unattended(b, k, proc), c)
    BY <1>0, <1>1, <1>4
  <2>2. /\ back'[e].deliveries = back[e].deliveries \cup {k}
        /\ back'[e].proc = proc
        /\ SameSeen(e)
    <3>1. b \in Entities
      BY <1>0
    <3>2. CASE back'[e] = Started(b, k, c) /\ proc = "alive"
      BY <1>4, <3>1, <3>2 DEF Started, SameSeen, Entities
    <3>3. CASE back'[e] = Unattended(b, k, proc)
      BY <1>4, <3>1, <3>3 DEF Unattended, SameSeen, Entities
    <3>4. CASE back'[e] = Unwatched(Unattended(b, k, proc), c)
      BY <1>4, <3>1, <3>4 DEF Unattended, Unwatched, SameSeen, Entities
    <3> QED
      BY <2>1, <3>2, <3>3, <3>4
  <2>3. /\ turns'[<<k, e>>] \in {turns[<<k, e>>], turns[<<k, e>>] + 1}
        /\ \A j \in Keys \ {k} : turns'[<<j, e>>] = turns[<<j, e>>]
    BY <1>0, <1>1, <1>4 DEF Messages
  <2> QED
    BY <1>1, <1>4, <2>2, <2>3 DEF StartedIn
<1> QED
  BY <1>3, <1>4

\* A poll changes nothing but what was seen last.
LEMMA PolledFields ==
  ASSUME NEW b \in Entities
  PROVE  /\ Seen(Polled(b)) = Seen(b)
         /\ Polled(b).seen.observed = Seen(b)
         /\ Polled(b).deliveries = b.deliveries
         /\ Polled(b).stop = b.stop
         /\ Polled(b).proc = b.proc
         /\ Polled(b).id \in {b.id, b.id + 1}
         /\ Polled(b).id = b.id => Polled(b).seen.observed = b.seen.observed
<1> DEFINE content == [observed |-> Seen(b), key |-> b.current, stop |-> b.stop]
           new == IF content = b.seen THEN b.id ELSE b.id + 1
<1>1. Polled(b) = [b EXCEPT !.seen = content, !.id = new]
  BY DEF Polled
<1>2. content.observed = Seen(b)
  OBVIOUS
<1>3. b.id \in Nat
  BY DEF Entities
<1>4. new \in {b.id, b.id + 1} /\ (new = b.id => content = b.seen)
  BY <1>3
<1> HIDE DEF content, new
<1>5. /\ Polled(b).seen = content /\ Polled(b).id = new
      /\ Polled(b).deliveries = b.deliveries
      /\ Polled(b).stop = b.stop /\ Polled(b).proc = b.proc
  BY <1>1 DEF Entities
<1>6. Seen(Polled(b)) = Seen(b)
  BY <1>5 DEF Seen
<1> QED
  BY <1>2, <1>4, <1>5, <1>6

\* A poll keeps the execution, and says what it finds.
LEMMA ObserveStep ==
  ASSUME TypeOK, NEW c \in Controllers, Observe(c)
  PROVE  LET e == ctl[c].epoch IN
         /\ Kept(e)
         /\ back'[e].stop = back[e].stop
         /\ back'[e].seen.observed = Seen(back'[e])
         /\ back'[e].id \in {back[e].id, back[e].id + 1}
         /\ back'[e].id = back[e].id =>
              back'[e].seen.observed = back[e].seen.observed
         /\ Fact(c)'.epoch = e
         /\ Fact(c)'.id = back'[e].id
         /\ Fact(c)'.observed = back'[e].seen.observed
         /\ \A f \in Epochs \ {e} : back'[f] = back[f]
         /\ \A d \in Controllers \ {c} : ctl'[d] = ctl[d]
         /\ UNCHANGED <<worker, latest, inbox, turns>>
<1> DEFINE e == ctl[c].epoch
<1>1. PICK proc \in {Entity(c).proc, "failed"} :
        LET polled == Polled([back[e] EXCEPT !.proc = proc])
        IN  /\ proc = Entity(c).proc \/ (/\ Entity(c).proc = "alive"
                                         /\ "failed" \in Endings)
            /\ back' = [back EXCEPT ![e] = polled]
            /\ ctl' = [ctl EXCEPT ![c].pc = "report", ![c].id = polled.id,
                                  ![c].observed = polled.seen.observed,
                                  ![c].todo = {}]
  BY DEF Observe, Entity
<1> DEFINE b == [back[e] EXCEPT !.proc = proc]
<1>2. /\ e \in Epochs
      /\ back[e] \in Entities
      /\ b \in Entities
      /\ ctl \in [Controllers -> Reconciles]
      /\ ctl[c] \in Reconciles
  <2>1. /\ ctl \in [Controllers -> Reconciles]
        /\ back \in [Epochs -> Entities]
    BY DEF TypeOK
  <2>2. e \in Epochs
    BY <2>1 DEF Reconciles
  <2>3. back[e] \in Entities
    BY <2>1, <2>2
  <2>4. b \in Entities
    BY <2>3 DEF Processes, Entity, Entities
  <2> QED
    BY <2>1, <2>2, <2>3, <2>4
<1>3. /\ Seen(Polled(b)) = Seen(b)
      /\ Polled(b).seen.observed = Seen(b)
      /\ Polled(b).deliveries = b.deliveries
      /\ Polled(b).stop = b.stop
      /\ Polled(b).proc = b.proc
      /\ Polled(b).id \in {b.id, b.id + 1}
      /\ Polled(b).id = b.id => Polled(b).seen.observed = b.seen.observed
  BY <1>2, PolledFields
<1>4. /\ b.deliveries = back[e].deliveries
      /\ b.stop = back[e].stop
      /\ b.proc = proc
      /\ b.id = back[e].id
      /\ b.seen = back[e].seen
  BY <1>2 DEF Entities
<1>5. /\ back'[e] = Polled(b)
      /\ \A f \in Epochs \ {e} : back'[f] = back[f]
  BY <1>1, <1>2 DEF TypeOK
<1>6. /\ ctl'[c].epoch = e
      /\ ctl'[c].id = Polled(b).id
      /\ ctl'[c].observed = Polled(b).seen.observed
      /\ \A d \in Controllers \ {c} : ctl'[d] = ctl[d]
  BY <1>1, <1>2 DEF Reconciles
<1>7. UNCHANGED <<worker, latest, inbox, turns>>
  BY DEF Observe, apiVars
<1>8. /\ Fact(c)'.epoch = e
      /\ Fact(c)'.id = Polled(b).id
      /\ Fact(c)'.observed = Polled(b).seen.observed
  BY <1>6 DEF Fact
<1>9. Kept(e)
  BY <1>1, <1>3, <1>4, <1>5, <1>7 DEF Kept, Entity
<1> HIDE DEF b
<1> QED
  BY <1>3, <1>4, <1>5, <1>6, <1>7, <1>8, <1>9

\* The pass, the publisher and the parent leave the Backend, its Controllers
\* and the observations alone.
LEMMA OutsideStep ==
  ASSUME \/ PassStep \/ PassCrashes \/ (\E i \in Intents : SetIntent(i))
         \/ DeadlinePasses \/ ProposeRevision \/ UNCHANGED vars
  PROVE  UNCHANGED <<latest, back, turns, ctl>>
<1> USE DEF apiVars, runVars, backVars, passVars
<1>1. CASE PassStep
  <2>1. ASSUME NEW k \in Keys, Enqueue(k)
        PROVE  UNCHANGED <<latest, back, turns, ctl>>
    BY <2>1 DEF Enqueue
  <2> QED
    BY <1>1, <2>1 DEF PassStep, ControlDecides, ControlPasses, CommitStop,
       CommitNodeEnd, CommitStatus, CommitConflicts, AcceptCandidate,
       ApplyExecutionFailures, ApplyRevision, SupersedeInbox, Rebind,
       RebindRefused, HandOff, NothingToRevise, WakesEnd, StopTerminalWorker,
       FinishRun
<1>2. CASE ~PassStep
  BY <1>2 DEF PassCrashes, SetIntent, DeadlinePasses, ProposeRevision, vars
<1> QED
  BY <1>1, <1>2

\* The steps of a Controller that start and poll nothing.
OtherStep(c) ==
  \/ ReadWorker(c) \/ ReadRun(c) \/ Choose(c)
  \/ DeliverDuplicate(c) \/ DeliverRefused(c)
  \/ CommitDelivery(c) \/ DeliveryRejected(c)
  \/ StopBackend(c) \/ ReportCommits(c) \/ ReportEnds(c)
  \/ ReportConflicts(c) \/ Reread(c) \/ Crash(c)

LEMMA OtherStepKeeps ==
  ASSUME TypeOK, NEW c \in Controllers, OtherStep(c), NEW e \in Epochs
  PROVE  Kept(e) /\ SameSeen(e)
<1> USE DEF apiVars, runVars, backVars, passVars
<1>0. back \in [Epochs -> Entities]
  BY DEF TypeOK
<1>1. CASE Crash(c)
  <2>1. back'[e] = Unwatched(back[e], c)
    BY <1>1 DEF Crash
  <2>2. turns' = turns
    BY <1>1 DEF Crash
  <2> QED
    BY <1>0, <2>1, <2>2 DEF Kept, SameSeen, Unwatched, Entities
<1>2. CASE StopBackend(c)
  <2>1. back'[e] = back[e] \/ back'[e] = [back[e] EXCEPT !.stop = TRUE]
    BY <1>0, <1>2 DEF StopBackend
  <2>2. turns' = turns
    BY <1>2 DEF StopBackend
  <2> QED
    BY <1>0, <2>1, <2>2 DEF Kept, SameSeen, Entities
<1>3. CASE ~Crash(c) /\ ~StopBackend(c)
  <2>1. UNCHANGED <<back, turns>>
    BY <1>3 DEF OtherStep, ReadWorker, ReadRun, Choose, DeliverDuplicate,
       DeliverRefused, CommitDelivery, DeliveryRejected, ReportCommits,
       ReportEnds, ReportConflicts, Reread
  <2> QED
    BY <2>1 DEF Kept, SameSeen
<1> QED
  BY <1>1, <1>2, <1>3

\* A process that ends leaves its execution as it is otherwise.
LEMMA EndKeeps ==
  ASSUME TypeOK, NEW f \in Epochs, ProcessEnds(f), NEW e \in Epochs
  PROVE  Kept(e) /\ SameSeen(e) /\ UNCHANGED <<worker, inbox, latest, ctl>>
<1>0. back \in [Epochs -> Entities]
  BY DEF TypeOK
<1>1. PICK end \in {"exited", "gone"} \cup Endings :
        /\ back[f].proc = "alive"
        /\ back' = [back EXCEPT ![f].proc = end, ![f].watcher = None]
  BY DEF ProcessEnds
<1>2. end # "alive"
  BY LimitAssumption
<1>3. \/ back'[e] = back[e]
      \/ e = f /\ back'[e] = [back[e] EXCEPT !.proc = end, !.watcher = None]
  BY <1>0, <1>1
<1>4. UNCHANGED <<worker, inbox, latest, ctl, turns>>
  BY DEF ProcessEnds, apiVars
<1> QED
  BY <1>0, <1>1, <1>2, <1>3, <1>4 DEF Kept, SameSeen, Entities

\* Every step of the system: who started what, and what was seen.
LEMMA ExecutionStep ==
  ASSUME TypeOK, [Next]_vars, NEW e \in Epochs
  PROVE  \/ Kept(e)
         \/ /\ StartedIn(e)
            /\ \E c \in Controllers : At(c, "deliver") /\ ctl[c].epoch = e
<1>1. ASSUME NEW c \in Controllers,
             Deliver(c) \/ DeliverFails(c) \/ CrashInDeliver(c)
      PROVE  At(c, "deliver")
  BY <1>1 DEF Deliver, DeliverFails, CrashInDeliver
<1>2. ASSUME NEW c \in Controllers, Observe(c) PROVE Kept(e)
  <2>1. CASE e = ctl[c].epoch
    BY <1>2, <2>1, ObserveStep
  <2>2. CASE e # ctl[c].epoch
    <3>1. back'[e] = back[e] /\ turns' = turns
      BY <1>2, <2>2, ObserveStep
    <3> QED
      BY <3>1 DEF Kept
  <2> QED
    BY <2>1, <2>2
<1>3. ASSUME UNCHANGED <<latest, back, turns, ctl>> PROVE Kept(e)
  BY <1>3 DEF Kept
<1> QED
  BY <1>1, <1>2, <1>3, DeliverStep, OtherStepKeeps, EndKeeps, OutsideStep
     DEF Next, ReconcileStep, OtherStep

\* Only a poll makes a record: a committed observation was reported, and a
\* report is not changed.
LEMMA RecordsStep ==
  ASSUME TypeOK, [Next]_vars, \A c \in Controllers : ~Observe(c)
  PROVE  Records' \subseteq Records /\ \A e \in Epochs : SameSeen(e)
<1> USE DEF apiVars, runVars, backVars, passVars
<1>0. ctl \in [Controllers -> Reconciles]
  BY DEF TypeOK
<1>1. ASSUME NEW c \in Controllers,
             \A d \in Controllers \ {c} : ctl'[d] = ctl[d],
             ctl'[c].pc # "report",
             latest' \in Records
      PROVE  Records' \subseteq Records
  <2>1. ASSUME NEW d \in Controllers, At(d, "report")'
        PROVE  At(d, "report") /\ Fact(d)' = Fact(d)
    BY <1>1, <2>1 DEF At, Fact
  <2> QED
    BY <1>1, <2>1 DEF Records
<1>2. ASSUME NEW c \in Controllers,
             OtherStep(c) \/ Deliver(c) \/ DeliverFails(c) \/ CrashInDeliver(c)
      PROVE  Records' \subseteq Records
  <2>1. /\ \A d \in Controllers \ {c} : ctl'[d] = ctl[d]
        /\ ctl'[c].pc # "report"
    <3>0. ASSUME ctl' = [ctl EXCEPT ![c] = Idle]
          PROVE  /\ \A d \in Controllers \ {c} : ctl'[d] = ctl[d]
                 /\ ctl'[c].pc # "report"
      BY <1>0, <3>0 DEF Idle
    <3>1. CASE ReadWorker(c)
      <4>1. ctl' = [ctl EXCEPT ![c] =
                      [Idle EXCEPT !.pc = IF worker.desired = "stopped"
                                          THEN "stop" ELSE "run",
                                   !.epoch = worker.epoch, !.seq = worker.seq]]
        BY <3>1 DEF ReadWorker
      <4> QED
        BY <1>0, <4>1 DEF Idle
    <3>8. CASE ReadRun(c)
      BY <1>0, <3>8 DEF ReadRun, Goto, Reconciles
    <3>2. CASE Choose(c)
      BY <1>0, <3>2 DEF Choose, Reconciles
    <3>3. CASE DeliverDuplicate(c) \/ Deliver(c)
      BY <1>0, <3>3 DEF DeliverDuplicate, Deliver, Reconciles
    <3>4. CASE CommitDelivery(c)
      BY <1>0, <3>4 DEF CommitDelivery, Reconciles
    <3>5. CASE DeliverRefused(c) \/ StopBackend(c) \/ ReportConflicts(c)
      BY <1>0, <3>5 DEF DeliverRefused, StopBackend, ReportConflicts, Goto,
         Reconciles
    <3>6. CASE \/ DeliveryRejected(c) \/ ReportCommits(c) \/ ReportEnds(c)
               \/ Crash(c) \/ DeliverFails(c) \/ CrashInDeliver(c)
      BY <3>0, <3>6 DEF DeliveryRejected, ReportCommits, ReportEnds, Crash,
         DeliverFails, CrashInDeliver, Done
    <3>7. CASE Reread(c)
      BY <1>0, <3>7 DEF Reread, Done, Idle, Reconciles
    <3> QED
      BY <1>2, <3>1, <3>2, <3>3, <3>4, <3>5, <3>6, <3>7, <3>8 DEF OtherStep
  <2>2. latest' \in Records
    <3>1. CASE ReportCommits(c)
      BY <3>1 DEF ReportCommits, Records
    <3>2. CASE ~ReportCommits(c)
      <4>1. latest' = latest
        BY <1>2, <3>2 DEF OtherStep, ReadWorker, ReadRun, Choose, Deliver,
           DeliverDuplicate, DeliverRefused, CommitDelivery, DeliveryRejected,
           StopBackend, ReportEnds, ReportConflicts, Reread, Crash,
           DeliverFails, CrashInDeliver
      <4> QED
        BY <4>1 DEF Records
    <3> QED
      BY <3>1, <3>2
  <2> QED
    BY <1>1, <2>1, <2>2
<1>3. ASSUME UNCHANGED <<latest, ctl>> PROVE Records' \subseteq Records
  BY <1>3 DEF Records, At, Fact
<1>4. ASSUME UNCHANGED back, NEW e \in Epochs PROVE SameSeen(e)
  BY <1>4 DEF SameSeen
<1>5. CASE \E c \in Controllers :
             OtherStep(c) \/ Deliver(c) \/ DeliverFails(c) \/ CrashInDeliver(c)
  BY <1>2, <1>5, DeliverStep, OtherStepKeeps
<1>6. CASE \E e \in Epochs : ProcessEnds(e)
  BY <1>3, <1>6, EndKeeps
<1>7. CASE \/ PassStep \/ PassCrashes \/ (\E i \in Intents : SetIntent(i))
           \/ DeadlinePasses \/ ProposeRevision \/ UNCHANGED vars
  BY <1>3, <1>4, <1>7, OutsideStep
<1> QED
  BY <1>5, <1>6, <1>7 DEF Next, ReconcileStep, OtherStep

\* A quiet execution stays quiet, and starts no process.
LEMMA QuietStays ==
  ASSUME TypeOK, [Next]_vars, NEW e \in Epochs, Quiet(e)
  PROVE  Quiet(e)' /\ \A k \in Keys : turns'[<<k, e>>] = turns[<<k, e>>]
  BY ExecutionStep DEF Quiet, Kept, StartedIn

-----------------------------------------------------------------------------
(* A message starts at most one process.                                   *)

LEMMA TurnsInductive ==
  ASSUME TypeOK, TurnsAreSaved, [Next]_vars
  PROVE  TurnsAreSaved'
<1> SUFFICES ASSUME NEW k \in Keys, NEW e \in Epochs
             PROVE  /\ turns'[<<k, e>>] <= 1
                    /\ turns'[<<k, e>>] > 0 => k \in back'[e].deliveries
  BY DEF TurnsAreSaved
<1>0. /\ turns[<<k, e>>] <= 1
      /\ turns[<<k, e>>] > 0 => k \in back[e].deliveries
      /\ turns[<<k, e>>] \in Nat
  BY DEF TurnsAreSaved, TypeOK, Messages
<1>1. CASE Kept(e)
  BY <1>0, <1>1 DEF Kept
<1>2. CASE StartedIn(e)
  BY <1>0, <1>2 DEF StartedIn
<1> QED
  BY <1>1, <1>2, ExecutionStep

\* A message starts at most one process, whoever delivers it, however often
\* its delivery is retried and whatever crashes before it is committed, for
\* any number of Controllers (Pi backend, deliver).
THEOREM StartedOnceHolds == Spec => []StartedOnce
<1>1. Init => TurnsAreSaved
  <2> SUFFICES ASSUME Init, NEW k \in Keys, NEW e \in Epochs
               PROVE  turns[<<k, e>>] <= 1 /\ ~(turns[<<k, e>>] > 0)
    BY DEF TurnsAreSaved
  <2>1. <<k, e>> \in Messages
    BY DEF Messages
  <2>2. turns[<<k, e>>] = 0
    BY <2>1 DEF Init
  <2> QED
    BY <2>2
<1>2. TypeOK /\ TurnsAreSaved /\ [Next]_vars => TurnsAreSaved'
  BY TurnsInductive
<1>3. TurnsAreSaved => StartedOnce
  BY DEF TurnsAreSaved, StartedOnce, Messages
<1> QED
  BY <1>1, <1>2, <1>3, TypeInvariant, PTL DEF Spec

-----------------------------------------------------------------------------
(* A stop is final.                                                        *)

LEMMA RecordsType ==
  ASSUME TypeOK, NEW r \in Records
  PROVE  r.epoch \in Epochs /\ r.id \in Nat
  BY DEF TypeOK, Records, Fact, Observations, Reconciles

\* Where no poll is made, nothing new is said of an execution.
LEMMA StopKept ==
  ASSUME TypeOK, StopInv, [Next]_vars, \A c \in Controllers : ~Observe(c)
  PROVE  StopInv'
<1>1. Records' \subseteq Records /\ \A e \in Epochs : SameSeen(e)
  BY RecordsStep
<1>2. RecordsArePolled'
  BY <1>1, RecordsType DEF StopInv, RecordsArePolled, SameSeen
<1>3. StoppedIsQuiet'
  BY <1>1, RecordsType, QuietStays DEF StopInv, StoppedIsQuiet, SameSeen
<1>4. StopsAgree'
  BY <1>1 DEF StopInv, StopsAgree
<1> QED
  BY <1>2, <1>3, <1>4 DEF StopInv

\* A poll reports what it finds, under an id that no other content has.
LEMMA StopPolled ==
  ASSUME TypeOK, StopInv, [Next]_vars, NEW c \in Controllers, Observe(c)
  PROVE  StopInv'
<1>a. PICK e \in Epochs : e = ctl[c].epoch
  BY DEF TypeOK, Reconciles
<1>b. PICK new : new = Fact(c)'
  OBVIOUS
<1>0. /\ back[e].id \in Nat
      /\ \A r \in Records : r.epoch \in Epochs /\ r.id \in Nat
  BY RecordsType DEF TypeOK, Entities
<1>1. /\ back'[e].stop = back[e].stop
      /\ back'[e].seen.observed = Seen(back'[e])
      /\ back'[e].id \in {back[e].id, back[e].id + 1}
      /\ back'[e].id = back[e].id =>
           back'[e].seen.observed = back[e].seen.observed
      /\ new.epoch = e
      /\ new.id = back'[e].id
      /\ new.observed = back'[e].seen.observed
      /\ \A f \in Epochs \ {e} : back'[f] = back[f]
  BY <1>a, <1>b, ObserveStep
<1>2. \A r \in Records' : r \in Records \/ r = new
  <2>1. ASSUME NEW d \in Controllers, d # c, At(d, "report")'
        PROVE  Fact(d)' \in Records
    <3>1. ctl'[d] = ctl[d]
      BY <2>1, ObserveStep
    <3> QED
      BY <2>1, <3>1 DEF Records, At, Fact
  <2>2. latest' = latest
    BY ObserveStep
  <2> QED
    BY <1>b, <2>1, <2>2 DEF Records
<1>3. Quiet(e)' => Seen(back'[e]) = "stopped"
  BY DEF Quiet, Seen
<1>4. Seen(back'[e]) = "stopped" => Quiet(e)'
  <2>1. TypeOK'
    BY ReconcileType DEF ReconcileStep
  <2>2. back'[e].proc \in Processes /\ back'[e].stop \in BOOLEAN
    BY <2>1 DEF TypeOK, Entities
  <2> QED
    BY <2>2 DEF Quiet, Seen, Processes
<1>5. back[e].seen.observed = "stopped" => new.observed = "stopped"
  <2>1. back[e].seen.observed = "stopped" => Quiet(e)
    BY <1>0 DEF StopInv, StoppedIsQuiet
  <2> QED
    BY <1>0, <1>1, <1>3, <2>1, QuietStays
<1>6. RecordsArePolled'
  <2> SUFFICES ASSUME NEW r \in Records'
               PROVE  /\ r.id <= back'[r.epoch].id
                      /\ r.id = back'[r.epoch].id =>
                           r.observed = back'[r.epoch].seen.observed
    BY DEF RecordsArePolled
  <2>1. CASE r = new
    BY <1>0, <1>1, <2>1
  <2>2. CASE r \in Records
    <3>1. /\ r.id <= back[r.epoch].id
          /\ r.id = back[r.epoch].id =>
               r.observed = back[r.epoch].seen.observed
          /\ r.epoch \in Epochs /\ r.id \in Nat
      BY <1>0, <2>2 DEF StopInv, RecordsArePolled
    <3>2. CASE r.epoch = e
      BY <1>0, <1>1, <3>1, <3>2
    <3>3. CASE r.epoch # e
      BY <1>1, <3>1, <3>3
    <3> QED
      BY <3>2, <3>3
  <2> QED
    BY <1>2, <2>1, <2>2
<1>7. StoppedIsQuiet'
  <2>1. ASSUME NEW f \in Epochs, back'[f].seen.observed = "stopped"
        PROVE  Quiet(f)'
    <3>1. CASE f = e
      BY <1>1, <1>4, <2>1, <3>1
    <3>2. CASE f # e
      BY <1>1, <2>1, <3>2, QuietStays DEF StopInv, StoppedIsQuiet
    <3> QED
      BY <3>1, <3>2
  <2>2. ASSUME NEW r \in Records', r.observed = "stopped"
        PROVE  back'[r.epoch].seen.observed = "stopped"
    <3>1. CASE r = new
      BY <1>1, <2>2, <3>1
    <3>2. CASE r \in Records
      <4>1. back[r.epoch].seen.observed = "stopped"
        BY <2>2, <3>2 DEF StopInv, StoppedIsQuiet
      <4> QED
        BY <1>0, <1>1, <1>5, <3>2, <4>1
    <3> QED
      BY <1>2, <3>1, <3>2
  <2> QED
    BY <2>1, <2>2 DEF StoppedIsQuiet
<1>8. StopsAgree'
  <2> SUFFICES ASSUME NEW r \in Records', NEW q \in Records',
                      r.epoch = q.epoch, r.observed = "stopped", r.id <= q.id
               PROVE  q.observed = "stopped"
    BY DEF StopsAgree
  <2>1. CASE r \in Records /\ q \in Records
    BY <2>1 DEF StopInv, StopsAgree
  <2>2. CASE r \in Records /\ q = new
    <3>1. back[e].seen.observed = "stopped"
      BY <1>1, <2>2 DEF StopInv, StoppedIsQuiet
    <3> QED
      BY <1>5, <2>2, <3>1
  <2>3. CASE r = new /\ q \in Records
    <3>1. q.epoch = e /\ q.id <= back[e].id /\ q.id \in Nat
      BY <1>0, <1>1, <2>3 DEF StopInv, RecordsArePolled
    <3>2. q.id = back[e].id /\ back'[e].id = back[e].id
      BY <1>0, <1>1, <2>3, <3>1
    <3>3. q.observed = back[e].seen.observed
      BY <2>3, <3>1, <3>2 DEF StopInv, RecordsArePolled
    <3> QED
      BY <1>1, <2>3, <3>2, <3>3
  <2> QED
    BY <1>2, <2>1, <2>2, <2>3
<1> QED
  BY <1>6, <1>7, <1>8 DEF StopInv

LEMMA StopInvariant == Spec => []StopInv
<1>1. Init => StopInv
  <2> SUFFICES ASSUME Init PROVE StopInv
    OBVIOUS
  <2>1. \A c \in Controllers : ~At(c, "report")
    BY DEF Init, At, Idle
  <2>2. Records = {latest}
    BY <2>1 DEF Records
  <2>3. latest.epoch \in Epochs /\ latest.id = 0 /\ latest.observed = "starting"
    BY LimitAssumption DEF Init, Epochs
  <2>4. \A e \in Epochs : back[e].id = 0 /\ back[e].seen.observed = "starting"
    BY DEF Init, NewEntity, Fresh
  <2> QED
    BY <2>2, <2>3, <2>4 DEF StopInv, RecordsArePolled, StoppedIsQuiet, StopsAgree
<1>2. TypeOK /\ StopInv /\ [Next]_vars => StopInv'
  BY StopKept, StopPolled
<1> QED
  BY <1>1, <1>2, TypeInvariant, PTL DEF Spec

\* Once an execution is observed as stopped, no report, however delayed and
\* whoever made it, takes that back (Controller._report,
\* Api._append_observation).
THEOREM StopIsFinalHolds == Spec => StopIsFinal
<1>1. ASSUME TypeOK, StopInv, [Next]_vars,
             latest.observed = "stopped", latest'.epoch = latest.epoch
      PROVE  latest'.observed = "stopped"
  <2>1. CASE \E c \in Controllers : ReportCommits(c)
    <3>1. PICK c \in Controllers : ReportCommits(c)
      BY <2>1
    <3>2. /\ latest' = Fact(c) /\ Fact(c) \in Records /\ latest \in Records
          /\ Fact(c).epoch = latest.epoch /\ latest.id <= Fact(c).id
      BY <1>1, <3>1, RecordsType DEF ReportCommits, Records, Admitted, Fact
    <3> QED
      BY <1>1, <3>2 DEF StopInv, StopsAgree
  <2>2. CASE \A c \in Controllers : ~ReportCommits(c)
    <3>1. latest' = latest
      BY <1>1, <2>2, OutsideStep, ObserveStep, EndKeeps
         DEF Next, ReconcileStep, ReadWorker, ReadRun, Choose, Deliver,
         DeliverDuplicate, DeliverRefused, CommitDelivery, DeliveryRejected,
         StopBackend, ReportEnds, ReportConflicts, Reread, Crash,
         DeliverFails, CrashInDeliver, apiVars
    <3> QED
      BY <1>1, <3>1
  <2> QED
    BY <2>1, <2>2
<1>2. TypeOK /\ StopInv /\ [Next]_vars
        => [(latest.observed = "stopped" /\ latest'.epoch = latest.epoch)
              => latest'.observed = "stopped"]_vars
  BY <1>1
<1> QED
  BY <1>2, TypeInvariant, StopInvariant, PTL DEF Spec, StopIsFinal

\* An execution that was observed as stopped starts no other process, whatever
\* Controllers still hold of it, however its processes ended and whichever
\* messages are queued for it (Pi backend, deliver and stop).
StoppedNeverStarts ==
  [][latest.observed = "stopped" =>
       \A k \in Keys : turns'[<<k, latest.epoch>>] = turns[<<k, latest.epoch>>]]_vars

THEOREM StoppedNeverStartsHolds == Spec => StoppedNeverStarts
<1>1. ASSUME TypeOK, StopInv, [Next]_vars, latest.observed = "stopped"
      PROVE  \A k \in Keys : turns'[<<k, latest.epoch>>] = turns[<<k, latest.epoch>>]
  <2>1. latest.epoch \in Epochs
    BY <1>1 DEF TypeOK, Observations
  <2>2. latest \in Records
    BY DEF Records
  <2>3. Quiet(latest.epoch)
    BY <1>1, <2>1, <2>2 DEF StopInv, StoppedIsQuiet
  <2> QED
    BY <1>1, <2>1, <2>3, QuietStays
<1>2. TypeOK /\ StopInv /\ [Next]_vars
        => [latest.observed = "stopped" =>
              \A k \in Keys :
                turns'[<<k, latest.epoch>>] = turns[<<k, latest.epoch>>]]_vars
  BY <1>1
<1> QED
  BY <1>2, TypeInvariant, StopInvariant, PTL DEF Spec, StoppedNeverStarts

-----------------------------------------------------------------------------
(* What was replaced runs no more.                                         *)

\* Who changes the Worker row, its inbox and the reads of its Controllers.
LEMMA StopWorkerStep ==
  ASSUME TypeOK, StopWorker
  PROVE  worker'.epoch = worker.epoch /\ worker'.seq = worker.seq + 1
  BY WantedType DEF StopWorker

LEMMA RebindStep ==
  ASSUME TypeOK, Rebind
  PROVE  /\ worker'.epoch = worker.epoch + 1
         /\ worker'.seq = worker.seq + 1
         /\ UNCHANGED inbox
<1>1. /\ Wanted("active") \in [epoch : Epochs, seq : Nat,
                              desired : {"active", "stopped"}]
      /\ Wanted("active").epoch = worker.epoch
      /\ Wanted("active").seq = worker.seq + 1
  BY WantedType
<1>2. worker' = [Wanted("active") EXCEPT !.epoch = @ + 1] /\ UNCHANGED inbox
  BY DEF Rebind
<1> QED
  BY <1>1, <1>2

LEMMA WorkerStep ==
  ASSUME TypeOK, [Next]_vars
  PROVE  \/ Rebind
         \/ worker'.epoch = worker.epoch /\ worker'.seq = worker.seq + 1
         \/ worker' = worker
<1>1. CASE PassStep
  <2>1. ASSUME NEW k \in Keys, Enqueue(k) PROVE worker' = worker
    BY <2>1 DEF Enqueue
  <2> QED
    BY <1>1, <2>1, StopWorkerStep DEF PassStep, ControlDecides, ControlPasses,
       CommitStop, CommitNodeEnd, CommitStatus, CommitConflicts,
       AcceptCandidate, ApplyExecutionFailures, ApplyRevision, SupersedeInbox,
       RebindRefused, HandOff, NothingToRevise, WakesEnd, StopTerminalWorker,
       FinishRun, apiVars
<1>2. ASSUME NEW c \in Controllers,
             ReconcileStep(c) \/ Crash(c) \/ DeliverFails(c) \/ CrashInDeliver(c)
      PROVE  worker' = worker
  BY <1>2 DEF ReconcileStep, ReadWorker, ReadRun, Choose, Deliver,
     DeliverDuplicate, DeliverRefused, CommitDelivery, DeliveryRejected,
     StopBackend, Observe, ReportCommits, ReportEnds, ReportConflicts, Reread,
     Crash, DeliverFails, CrashInDeliver, apiVars
<1>3. ASSUME NEW e \in Epochs, ProcessEnds(e) PROVE worker' = worker
  BY <1>3 DEF ProcessEnds, apiVars
<1>4. ASSUME \/ PassCrashes \/ (\E i \in Intents : SetIntent(i))
             \/ DeadlinePasses \/ ProposeRevision \/ UNCHANGED vars
      PROVE  worker' = worker
  BY <1>4 DEF PassCrashes, SetIntent, DeadlinePasses, ProposeRevision, vars,
     apiVars
<1> QED
  BY <1>1, <1>2, <1>3, <1>4 DEF Next

\* Only the messages of a drained execution are retired.
LEMMA InboxStep ==
  ASSUME TypeOK, [Next]_vars, NEW k \in Keys, NEW e \in Epochs,
         inbox'[<<k, e>>] = "superseded"
  PROVE  \/ inbox[<<k, e>>] = "superseded"
         \/ SupersedeInbox /\ e = worker.epoch
<1>0. <<k, e>> \in Messages /\ Start \in Keys
  BY DEF Messages, Keys
<1>1. ASSUME NEW m \in Messages, NEW q \in {"pending", "delivered"},
             inbox' = [inbox EXCEPT ![m] = q]
      PROVE  inbox[<<k, e>>] = "superseded"
  BY <1>0, <1>1 DEF TypeOK
<1>2. CASE PassStep
  <2>1. ASSUME NEW j \in Keys, Enqueue(j)
        PROVE  inbox[<<k, e>>] = "superseded"
    <3>1. inbox' = [inbox EXCEPT ![<<j, worker.epoch>>] = "pending"]
      BY <2>1 DEF Enqueue
    <3>2. <<j, worker.epoch>> \in Messages
      BY DEF TypeOK, Messages
    <3> QED
      BY <1>1, <3>1, <3>2
  <2>2. CASE HandOff
    <3>1. inbox' = [inbox EXCEPT ![<<Start, worker.epoch>>] = "pending"]
      BY <2>2 DEF HandOff
    <3>2. <<Start, worker.epoch>> \in Messages
      BY <1>0 DEF TypeOK, Messages
    <3> QED
      BY <1>1, <3>1, <3>2
  <2>3. CASE SupersedeInbox
    <3>1. inbox' = [m \in Messages |->
                     IF m \in Pending \X {worker.epoch} THEN "superseded"
                     ELSE inbox[m]]
      BY <2>3 DEF SupersedeInbox
    <3> QED
      BY <1>0, <2>3, <3>1
  <2>4. CASE UNCHANGED inbox
    BY <2>4
  <2> QED
    BY <1>2, <2>1, <2>2, <2>3, <2>4 DEF PassStep, ControlDecides,
       ControlPasses, CommitStop, CommitNodeEnd, CommitStatus,
       CommitConflicts, AcceptCandidate, ApplyExecutionFailures,
       ApplyRevision, Rebind, RebindRefused, NothingToRevise, WakesEnd,
       StopTerminalWorker, FinishRun, apiVars
<1>3. ASSUME NEW c \in Controllers, CommitDelivery(c)
      PROVE  inbox[<<k, e>>] = "superseded"
  <2>1. inbox' = [inbox EXCEPT ![<<ctl[c].key, ctl[c].epoch>>] = "delivered"]
    BY <1>3 DEF CommitDelivery
  <2>2. CASE <<ctl[c].key, ctl[c].epoch>> \in Messages
    BY <1>1, <2>1, <2>2
  <2>3. CASE <<ctl[c].key, ctl[c].epoch>> \notin Messages
    BY <1>0, <2>1, <2>3 DEF TypeOK
  <2> QED
    BY <2>2, <2>3
<1>4. ASSUME NEW c \in Controllers,
             ReconcileStep(c) \/ Crash(c) \/ DeliverFails(c) \/ CrashInDeliver(c),
             ~CommitDelivery(c)
      PROVE  inbox' = inbox
  BY <1>4 DEF ReconcileStep, ReadWorker, ReadRun, Choose, Deliver,
     DeliverDuplicate, DeliverRefused, DeliveryRejected,
     StopBackend, Observe, ReportCommits, ReportEnds, ReportConflicts, Reread,
     Crash, DeliverFails, CrashInDeliver, apiVars
<1>5. ASSUME NEW f \in Epochs, ProcessEnds(f) PROVE inbox' = inbox
  BY <1>5 DEF ProcessEnds, apiVars
<1>6. ASSUME \/ PassCrashes \/ (\E i \in Intents : SetIntent(i))
             \/ DeadlinePasses \/ ProposeRevision \/ UNCHANGED vars
      PROVE  inbox' = inbox
  BY <1>6 DEF PassCrashes, SetIntent, DeadlinePasses, ProposeRevision, vars,
     apiVars
<1> QED
  BY <1>2, <1>3, <1>4, <1>5, <1>6 DEF Next, ReconcileStep

\* What is drained was last observed as stopped, or as failed.
LEMMA DrainedIsOver ==
  ASSUME Drained
  PROVE  /\ latest.epoch = worker.epoch
         /\ latest.observed \in Over
         /\ worker.desired = "stopped"
  BY DEF Drained, ExecutionStopped, ObservedNow, Over

LEMMA FailureFree ==
  ASSUME "failed" \notin Endings, TypeOK, NothingFails, [Next]_vars
  PROVE  NothingFails'
<1>1. ASSUME NEW e \in Epochs PROVE back'[e].proc # "failed"
  BY <1>1, ExecutionStep DEF NothingFails, Kept, StartedIn
<1>2. CASE \A c \in Controllers : ~Observe(c)
  BY <1>1, <1>2, RecordsStep DEF NothingFails, SameSeen
<1>3. ASSUME NEW c \in Controllers, Observe(c) PROVE NothingFails'
  <2>1. PICK e \in Epochs : e = ctl[c].epoch
    BY DEF TypeOK, Reconciles
  <2>2. /\ back'[e].seen.observed = Seen(back'[e])
        /\ Fact(c)'.observed = back'[e].seen.observed
        /\ \A f \in Epochs \ {e} : back'[f] = back[f]
        /\ \A d \in Controllers \ {c} : ctl'[d] = ctl[d]
        /\ latest' = latest
    BY <1>3, <2>1, ObserveStep
  <2>3. Seen(back'[e]) # "failed"
    <3>1. TypeOK'
      BY <1>3, ReconcileType DEF ReconcileStep
    <3>2. back'[e].proc \in Processes \ {"failed"} /\ back'[e].stop \in BOOLEAN
      BY <1>1, <3>1 DEF TypeOK, Entities
    <3> QED
      BY <3>2 DEF Seen, Processes
  <2>4. ASSUME NEW d \in Controllers, At(d, "report")'
        PROVE  Fact(d)'.observed # "failed"
    <3>1. CASE d = c
      BY <2>2, <2>3, <3>1
    <3>2. CASE d # c
      <4>1. At(d, "report") /\ Fact(d)' = Fact(d)
        BY <2>2, <2>4, <3>2 DEF At, Fact
      <4> QED
        BY <4>1 DEF NothingFails, Records
    <3> QED
      BY <3>1, <3>2
  <2>5. latest'.observed # "failed"
    BY <2>2 DEF NothingFails, Records
  <2>6. \A r \in Records' : r.observed # "failed"
    BY <2>4, <2>5 DEF Records
  <2>7. \A f \in Epochs : back'[f].seen.observed # "failed"
    BY <2>2, <2>3 DEF NothingFails
  <2> QED
    BY <1>1, <2>6, <2>7 DEF NothingFails
<1> QED
  BY <1>2, <1>3

LEMMA ReplacedInductive ==
  ASSUME TypeOK, StopInv, NothingFails, ReplacedIsQuiet, [Next]_vars
  PROVE  ReplacedIsQuiet'
<1>1. Drained => Quiet(worker.epoch) /\ worker.epoch \in Epochs
  <2>1. latest \in Records
    BY DEF Records
  <2>2. latest.epoch \in Epochs
    BY DEF TypeOK, Observations
  <2> QED
    BY <2>1, <2>2, DrainedIsOver
       DEF StopInv, StoppedIsQuiet, NothingFails, Over
<1>2. ASSUME NEW e \in Epochs, e < worker'.epoch PROVE Quiet(e)'
  <2>1. CASE e < worker.epoch
    BY <2>1, QuietStays DEF ReplacedIsQuiet
  <2>2. CASE ~(e < worker.epoch)
    <3>1. Rebind /\ e = worker.epoch
      <4>1. e \in Nat /\ worker.epoch \in Nat
        BY LimitAssumption DEF TypeOK, Epochs
      <4> QED
        BY <1>2, <2>2, <4>1, WorkerStep, RebindStep
    <3>2. Quiet(e)
      BY <1>1, <3>1 DEF Rebind
    <3> QED
      BY <3>2, QuietStays
  <2> QED
    BY <2>1, <2>2
<1>3. ASSUME NEW k \in Keys, NEW e \in Epochs,
             inbox'[<<k, e>>] = "superseded"
      PROVE  Quiet(e)'
  <2>1. CASE inbox[<<k, e>>] = "superseded"
    BY <2>1, QuietStays DEF ReplacedIsQuiet
  <2>2. CASE SupersedeInbox /\ e = worker.epoch
    BY <1>1, <2>2, QuietStays DEF SupersedeInbox
  <2> QED
    BY <1>3, <2>1, <2>2, InboxStep
<1> QED
  BY <1>2, <1>3 DEF ReplacedIsQuiet

LEMMA ReplacedInvariant ==
  ASSUME "failed" \notin Endings
  PROVE  Spec => [](NothingFails /\ ReplacedIsQuiet)
<1>1. Init => NothingFails /\ ReplacedIsQuiet
  <2> SUFFICES ASSUME Init PROVE NothingFails /\ ReplacedIsQuiet
    OBVIOUS
  <2>1. \A c \in Controllers : ~At(c, "report")
    BY DEF Init, At, Idle
  <2>2. Records = {latest} /\ latest.observed = "starting"
    BY <2>1 DEF Records, Init
  <2>3. \A e \in Epochs : /\ back[e].proc = "none"
                          /\ back[e].seen.observed = "starting"
    BY DEF Init, NewEntity, Fresh
  <2>4. \A k \in Keys, e \in Epochs : inbox[<<k, e>>] = "none"
    BY DEF Init, Messages
  <2>5. \A e \in Epochs : ~(e < worker.epoch)
    BY LimitAssumption DEF Init, Epochs
  <2> QED
    BY <2>2, <2>3, <2>4, <2>5 DEF NothingFails, ReplacedIsQuiet
<1>2. TypeOK /\ StopInv /\ NothingFails /\ ReplacedIsQuiet /\ [Next]_vars
        => NothingFails' /\ ReplacedIsQuiet'
  BY FailureFree, ReplacedInductive
<1> QED
  BY <1>1, <1>2, TypeInvariant, StopInvariant, PTL DEF Spec

\* Where no process fails, a message retired with its epoch starts no process
\* afterwards, for any number of Controllers (Api.supersede_inbox).
THEOREM SupersededNeverStartsHolds ==
  ASSUME "failed" \notin Endings
  PROVE  Spec => SupersededNeverStarts
<1>1. ASSUME TypeOK, ReplacedIsQuiet, [Next]_vars, NEW m \in Messages,
             inbox[m] = "superseded"
      PROVE  turns'[m] = turns[m]
  <2>1. PICK k \in Keys, e \in Epochs : m = <<k, e>>
    BY DEF Messages
  <2>2. Quiet(e)
    BY <1>1, <2>1 DEF ReplacedIsQuiet
  <2> QED
    BY <1>1, <2>1, <2>2, QuietStays
<1>2. TypeOK /\ NothingFails /\ ReplacedIsQuiet /\ [Next]_vars
        => [\A m \in Messages :
              inbox[m] = "superseded" => turns'[m] = turns[m]]_vars
  BY <1>1
<1> QED
  BY <1>2, TypeInvariant, ReplacedInvariant, PTL
     DEF Spec, SupersededNeverStarts

-----------------------------------------------------------------------------
(* One Controller, and any way its processes end.                          *)

\* A Controller begins to start something when it reads the Worker row, and
\* what it reports is what it has polled.
Moves(c) ==
  /\ Starting(c)' =>
       \/ Starting(c) /\ ctl'[c].epoch = ctl[c].epoch
       \/ ReadWorker(c)
  /\ At(c, "report")' =>
       \/ At(c, "report") /\ ctl'[c] = ctl[c]
       \/ Observe(c)

LEMMA ControllerStep ==
  ASSUME TypeOK, [Next]_vars, NEW c \in Controllers
  PROVE  Moves(c)
<1>0. ctl \in [Controllers -> Reconciles]
  BY DEF TypeOK
<1>1. ASSUME ctl'[c] = ctl[c] PROVE Moves(c)
  BY <1>1 DEF Moves, Starting, At
<1>2. ASSUME ctl' = [ctl EXCEPT ![c] = Idle] PROVE Moves(c)
  BY <1>0, <1>2 DEF Moves, Idle, Starting, At
<1>3. CASE ReadRun(c)
  BY <1>0, <1>3 DEF Moves, ReadRun, Goto, At, Starting, Reconciles
<1>4. CASE Choose(c)
  <2>1. /\ ctl[c].pc = "choose"
        /\ ctl'[c].epoch = ctl[c].epoch
        /\ ctl'[c].pc # "report"
    BY <1>0, <1>4 DEF Choose, At, Reconciles
  <2> QED
    BY <2>1 DEF Moves, Starting, At
<1>5. CASE DeliverDuplicate(c) \/ Deliver(c)
  <2>1. /\ ctl[c].pc = "deliver"
        /\ ctl'[c].epoch = ctl[c].epoch
        /\ ctl'[c].pc # "report"
    <3>1. PICK k : \/ ctl' = [ctl EXCEPT ![c].pc = "record", ![c].key = k]
                   \/ ctl' = [ctl EXCEPT ![c].pc = "record", ![c].key = k,
                                         ![c].dup = TRUE]
      BY <1>5 DEF DeliverDuplicate, Deliver
    <3>2. ctl[c].pc = "deliver"
      BY <1>5 DEF DeliverDuplicate, Deliver, At
    <3> QED
      BY <1>0, <3>1, <3>2 DEF Reconciles
  <2> QED
    BY <2>1 DEF Moves, Starting, At
<1>6. CASE CommitDelivery(c)
  <2>1. /\ ctl[c].pc = "record"
        /\ ctl'[c].epoch = ctl[c].epoch
        /\ ctl'[c].pc # "report"
    BY <1>0, <1>6 DEF CommitDelivery, At, Reconciles
  <2> QED
    BY <2>1 DEF Moves, Starting, At
<1>7. CASE DeliverRefused(c) \/ StopBackend(c) \/ ReportConflicts(c)
  BY <1>0, <1>7 DEF Moves, DeliverRefused, StopBackend, ReportConflicts, Goto, At,
     Starting, Reconciles
<1>8. CASE \/ DeliveryRejected(c) \/ ReportCommits(c) \/ ReportEnds(c)
           \/ Crash(c) \/ DeliverFails(c) \/ CrashInDeliver(c)
  BY <1>2, <1>8 DEF DeliveryRejected, ReportCommits, ReportEnds, Crash,
     DeliverFails, CrashInDeliver, Done
<1>9. CASE Reread(c)
  <2>1. CASE worker.epoch # ctl[c].epoch
    BY <1>2, <1>9, <2>1 DEF Reread, Done
  <2>2. CASE worker.epoch = ctl[c].epoch
    <3>1. ctl'[c].pc = "observe"
      BY <1>0, <1>9, <2>2 DEF Reread, Reconciles
    <3> QED
      BY <3>1 DEF Moves, Starting, At
  <2> QED
    BY <2>1, <2>2
<1>10. CASE Observe(c)
  <2>1. ctl'[c].pc = "report"
    BY <1>0, <1>10 DEF Observe, Reconciles
  <2> QED
    BY <1>10, <2>1 DEF Moves, Starting
<1>11. CASE ReadWorker(c)
  <2>1. ctl' = [ctl EXCEPT ![c] =
                  [Idle EXCEPT !.pc = IF worker.desired = "stopped"
                                      THEN "stop" ELSE "run",
                               !.epoch = worker.epoch, !.seq = worker.seq]]
    BY <1>11 DEF ReadWorker
  <2>2. ctl'[c].pc # "report"
    BY <1>0, <2>1 DEF Idle
  <2> QED
    BY <1>11, <2>2 DEF Moves, At
<1>12. ASSUME NEW d \in Controllers \ {c},
              ReconcileStep(d) \/ Crash(d) \/ DeliverFails(d) \/ CrashInDeliver(d)
       PROVE  ctl'[c] = ctl[c]
  BY <1>0, <1>12 DEF ReconcileStep, ReadWorker, ReadRun, Choose, Deliver,
     DeliverDuplicate, DeliverRefused, CommitDelivery, DeliveryRejected,
     StopBackend, Observe, ReportCommits, ReportEnds, ReportConflicts, Reread,
     Crash, DeliverFails, CrashInDeliver, Goto, Done
<1>13. CASE \E e \in Epochs : ProcessEnds(e)
  BY <1>1, <1>13, EndKeeps
<1>14. CASE \/ PassStep \/ PassCrashes \/ (\E i \in Intents : SetIntent(i))
            \/ DeadlinePasses \/ ProposeRevision \/ UNCHANGED vars
  BY <1>1, <1>14, OutsideStep
<1>15. CASE ReconcileStep(c) \/ Crash(c) \/ DeliverFails(c) \/ CrashInDeliver(c)
  BY <1>3, <1>4, <1>5, <1>6, <1>7, <1>8, <1>9, <1>10, <1>11, <1>15
     DEF ReconcileStep
<1>16. CASE \E d \in Controllers :
               ReconcileStep(d) \/ Crash(d) \/ DeliverFails(d) \/ CrashInDeliver(d)
  BY <1>1, <1>12, <1>15, <1>16
<1> QED
  BY <1>13, <1>14, <1>16 DEF Next

LEMMA SingleInductive ==
  ASSUME \A c, d \in Controllers : c = d,
         TypeOK, SingleInv, [Next]_vars
  PROVE  SingleInv'
<1>0. /\ worker.epoch \in Nat /\ worker.seq \in Nat
      /\ worker.epoch \in Epochs /\ latest.seq \in Nat
      /\ Epochs \subseteq Nat
  BY LimitAssumption DEF TypeOK, Observations, Epochs
<1>1. ASSUME NEW e \in Epochs, ~Live(e)
      PROVE  \/ ~Live(e)'
             \/ \E c \in Controllers : At(c, "deliver") /\ ctl[c].epoch = e
  BY <1>1, ExecutionStep DEF Live, Kept
<1>2. \/ latest' = latest
      \/ \E c \in Controllers : ReportCommits(c)
  BY OutsideStep, ObserveStep, EndKeeps
     DEF Next, ReconcileStep, ReadWorker, ReadRun, Choose, Deliver,
     DeliverDuplicate, DeliverRefused, CommitDelivery, DeliveryRejected,
     StopBackend, ReportEnds, ReportConflicts, Reread, Crash,
     DeliverFails, CrashInDeliver, apiVars
<1>3. ASSUME NEW c \in Controllers, ReportCommits(c)
      PROVE  /\ latest' = Fact(c) /\ worker' = worker /\ back' = back
             /\ latest'.seq = worker.seq /\ latest'.epoch = worker.epoch
             /\ latest'.observed = ctl[c].observed
             /\ ctl[c].epoch = worker.epoch
             /\ At(c, "report")
             /\ ctl' = [ctl EXCEPT ![c] = Idle]
  BY <1>3 DEF ReportCommits, Admitted, Fact, backVars
<1>4. latest'.seq <= worker'.seq
  <2>1. CASE latest' = latest
    <3>1. worker'.seq \in {worker.seq, worker.seq + 1}
      BY WorkerStep, RebindStep
    <3> QED
      BY <1>0, <2>1, <3>1 DEF SingleInv
  <2>2. CASE \E c \in Controllers : ReportCommits(c)
    BY <1>0, <1>3, <2>2
  <2> QED
    BY <1>2, <2>1, <2>2
\* Only a report answers a stop.
<1>5. Answered' => \/ Answered /\ worker' = worker /\ latest' = latest
                   \/ \E c \in Controllers : ReportCommits(c)
  <2> SUFFICES ASSUME Answered', latest' = latest
               PROVE  Answered /\ worker' = worker
    BY <1>2
  <2>1. worker'.seq # worker.seq + 1
    BY <1>0 DEF SingleInv, Answered
  <2>2. worker' = worker
    BY <2>1, WorkerStep, RebindStep
  <2> QED
    BY <2>2 DEF Answered
\* An epoch is replaced only when its stop is answered.
<1>6. Rebind => /\ \A c \in Controllers : ~Starting(c)
                /\ ~Live(worker.epoch)
                /\ UNCHANGED <<back, ctl>>
  <2>1. Rebind => Answered /\ latest.observed \in Over
    BY DrainedIsOver DEF Rebind, MayRebind, SafeToReplace, Answered
  <2>2. Rebind => UNCHANGED <<back, ctl>>
    BY DEF Rebind, backVars
  <2> QED
    BY <2>1, <2>2 DEF SingleInv
<1>7. ASSUME NEW c \in Controllers, Starting(c)'
      PROVE  ctl'[c].epoch = worker'.epoch
  <2>1. CASE Rebind
    BY <1>6, <1>7, <2>1 DEF Starting
  <2>2. CASE worker'.epoch = worker.epoch
    <3>1. CASE Starting(c) /\ ctl'[c].epoch = ctl[c].epoch
      BY <2>2, <3>1 DEF SingleInv
    <3>2. CASE ReadWorker(c)
      <4>1. ctl' = [ctl EXCEPT ![c] =
                      [Idle EXCEPT !.pc = IF worker.desired = "stopped"
                                          THEN "stop" ELSE "run",
                                   !.epoch = worker.epoch, !.seq = worker.seq]]
        BY <3>2 DEF ReadWorker
      <4> QED
        BY <2>2, <4>1 DEF TypeOK, Idle
    <3> QED
      BY <1>7, <3>1, <3>2, ControllerStep DEF Moves
  <2> QED
    BY <2>1, <2>2, WorkerStep
<1>8. ASSUME NEW c \in Controllers, At(c, "report")',
             ctl'[c].observed \in Over
      PROVE  ~Live(ctl[c].epoch)' /\ ctl'[c].epoch = ctl[c].epoch
  <2>1. PICK e \in Epochs : e = ctl[c].epoch
    BY DEF TypeOK, Reconciles
  <2>2. CASE At(c, "report") /\ ctl'[c] = ctl[c]
    <3>1. ~Live(e)
      BY <1>8, <2>1, <2>2 DEF SingleInv
    <3>2. \A d \in Controllers : ~At(d, "deliver")
      BY <2>2 DEF At
    <3> QED
      BY <1>1, <2>1, <2>2, <3>1, <3>2 DEF Live
  <2>3. CASE Observe(c)
    <3>1. /\ back'[e].seen.observed = Seen(back'[e])
          /\ Fact(c)'.epoch = e
          /\ Fact(c)'.observed = back'[e].seen.observed
      BY <2>1, <2>3, ObserveStep
    <3>2. Seen(back'[e]) \in Over
      BY <1>8, <3>1 DEF Fact
    <3>3. back'[e].proc # "alive"
      BY <3>2 DEF Seen, Over
    <3> QED
      BY <2>1, <3>1, <3>3 DEF Live, Fact
  <2> QED
    BY <1>8, <2>2, <2>3, ControllerStep DEF Moves
<1>9. ASSUME Answered', NEW c \in Controllers PROVE ~Starting(c)'
  <2>1. CASE Answered /\ worker' = worker
    <3>1. ~Starting(c)
      BY <2>1 DEF SingleInv
    <3>2. ASSUME ReadWorker(c) PROVE ~Starting(c)'
      <4>1. ctl' = [ctl EXCEPT ![c] =
                      [Idle EXCEPT !.pc = "stop", !.epoch = worker.epoch,
                                   !.seq = worker.seq]]
        BY <2>1, <3>2 DEF ReadWorker, Answered
      <4> QED
        BY <4>1 DEF TypeOK, Idle, Starting
    <3> QED
      BY <3>1, <3>2, ControllerStep DEF Moves
  <2>2. CASE \E d \in Controllers : ReportCommits(d)
    <3>1. ReportCommits(c)
      BY <2>2
    <3> QED
      BY <1>3, <3>1 DEF TypeOK, Idle, Starting
  <2> QED
    BY <1>5, <1>9, <2>1, <2>2
<1>10. ASSUME Answered', latest'.observed \in Over
       PROVE  back'[worker'.epoch].proc # "alive"
  <2>1. CASE Answered /\ worker' = worker /\ latest' = latest
    <3>1. /\ ~Live(worker.epoch)
          /\ \A c \in Controllers : ~Starting(c)
      BY <1>10, <2>1 DEF SingleInv
    <3> QED
      BY <1>0, <1>1, <2>1, <3>1 DEF Live, Starting, At
  <2>2. CASE \E c \in Controllers : ReportCommits(c)
    <3>1. PICK c \in Controllers : ReportCommits(c)
      BY <2>2
    <3> QED
      BY <1>3, <1>10, <3>1 DEF SingleInv, Live
  <2> QED
    BY <1>5, <1>10, <2>1, <2>2
<1>11. ASSUME NEW e \in Epochs, e < worker'.epoch
       PROVE  back'[e].proc # "alive"
  <2>1. CASE Rebind
    <3>1. e < worker.epoch \/ e = worker.epoch
      BY <1>0, <1>11, <2>1, RebindStep
    <3> QED
      BY <1>6, <2>1, <3>1 DEF SingleInv, OneExecution, Live
  <2>2. CASE worker'.epoch = worker.epoch
    <3>1. ~Live(e)
      BY <1>11, <2>2 DEF SingleInv, OneExecution
    <3>2. \A c \in Controllers : At(c, "deliver") => ctl[c].epoch # e
      BY <1>0, <1>11, <2>2 DEF SingleInv, Starting, At
    <3> QED
      BY <1>1, <3>1, <3>2 DEF Live
  <2> QED
    BY <2>1, <2>2, WorkerStep
<1> QED
  BY <1>4, <1>7, <1>8, <1>9, <1>10, <1>11 DEF SingleInv, OneExecution, Live

LEMMA SingleInvariant ==
  ASSUME \A c, d \in Controllers : c = d
  PROVE  Spec => []SingleInv
<1>1. Init => SingleInv
  <2> SUFFICES ASSUME Init PROVE SingleInv
    OBVIOUS
  <2>1. \A c \in Controllers : ~At(c, "report") /\ ~Starting(c)
    BY DEF Init, At, Starting, Idle
  <2>2. \A e \in Epochs : ~Live(e)
    BY DEF Init, Live, NewEntity
  <2>3. ~Answered /\ latest.seq <= worker.seq /\ worker.epoch \in Epochs
    BY LimitAssumption DEF Init, Answered, Epochs
  <2> QED
    BY <2>1, <2>2, <2>3 DEF SingleInv, OneExecution
<1>2. TypeOK /\ SingleInv /\ [Next]_vars => SingleInv'
  BY SingleInductive
<1> QED
  BY <1>1, <1>2, TypeInvariant, PTL DEF Spec

\* Once the Worker is bound to an epoch no process of an earlier one runs
\* (Api._require_safe_epoch_replacement): with one Controller, which is what
\* the ownership of a data directory provides, however processes end and
\* whatever crashes, and with any number of them where no process fails.
THEOREM OneExecutionHolds ==
  ASSUME "failed" \notin Endings \/ \A c, d \in Controllers : c = d
  PROVE  Spec => []OneExecution
<1>1. CASE "failed" \notin Endings
  <2>1. ReplacedIsQuiet => OneExecution
    BY DEF ReplacedIsQuiet, OneExecution, Quiet, Live
  <2> QED
    BY <1>1, <2>1, ReplacedInvariant, PTL
<1>2. CASE \A c, d \in Controllers : c = d
  <2>1. SingleInv => OneExecution
    BY DEF SingleInv
  <2> QED
    BY <1>2, <2>1, SingleInvariant, PTL
<1> QED
  BY <1>1, <1>2

=============================================================================
