---------------------------- MODULE WorkerSlots ----------------------------
(***************************************************************************)
(* How the Workers of a Run share its capacity, the number of Workers that *)
(* may be busy at a time (max_inflight_nodes).                             *)
(*                                                                         *)
(* A task Top was split into one child, Mid, and that into Leaves.  Every  *)
(* message of the inbox that makes a Worker busy needs a slot: the start   *)
(* of a leaf, a candidate to review, feedback on one, an accepted child,   *)
(* the join of all of them, and a further turn after one without result.   *)
(* The Scheduler counts slots from what it knows: the observed state of    *)
(* each Worker and the queued messages its delivery gate lets through.     *)
(* The Controller runs after it in the same process, Worker by Worker.     *)
(*                                                                         *)
(* A new contract may be given to a leaf (an acceptance revision): its     *)
(* execution is stopped and replaced, and epoch e holds contract e.        *)
(*                                                                         *)
(* Failures, budgets and decisions are left to TaskLifecycle and           *)
(* ParentDecisions: every Agent here does what its message asks for, after *)
(* at most a few turns without a result, which the budgets allow.          *)
(***************************************************************************)
EXTENDS Naturals, FiniteSets, SequencesExt

CONSTANTS
  Top, Mid,      \* the two owners
  Leaves,        \* the children of Mid, in the order of their creation
  None,          \* no parent, no key
  Settings       \* capacities and bounds a Run may have

Order == <<Top, Mid>> \o Leaves
Nodes == ToSet(Order)

ASSUME NodeAssumption ==
  /\ Leaves \in Seq(ToSet(Leaves)) /\ Leaves # <<>> /\ None \notin Nodes
  /\ \A i, j \in DOMAIN Order : Order[i] = Order[j] => i = j

\* The capacity, and how many candidates a Node may submit, and how many turns
\* without a result, acceptance revisions and crashes of the host there may be.
Limits == [capacity : Nat \ {0}, rounds : Nat \ {0}, idles : Nat, revisions : Nat,
           crashes : Nat]

ASSUME LimitAssumption == Settings \subseteq Limits

VARIABLES
  limits,    \* the setting of this Run
  node,      \* Node -> its state, round and contract
  verdict,   \* Node -> that of its current candidate, "none" without one
  revision,  \* Node -> the contract its latest acceptance revision asks for
  worker,    \* Node -> the row of its Worker
  queue,     \* Node -> messages its Worker's epoch was sent that are pending
  proc,      \* Node -> the process of the Worker's execution
  taken,     \* Node -> messages its execution has accepted, each a turn
  told,      \* Nodes whose execution was told to stop
  idles,     \* turns that ended without a result
  phase,     \* the phase of the tick that runs next
  changed,   \* whether the pass has committed anything yet
  left,      \* Nodes whose Workers the Controller has to visit
  sent,      \* the message it has just handed over
  crashes    \* of the host

nodeVars == <<node, verdict, revision>>
backVars == <<proc, taken, told>>
hostVars == <<phase, changed, left, sent>>
vars == <<limits, nodeVars, worker, queue, backVars, idles, hostVars, crashes>>

Parent(n) == IF n = Top THEN None ELSE IF n = Mid THEN Top ELSE Mid
Children(n) == {c \in Nodes : Parent(c) = n}

\* Messages: a further turn is named by the number of the turn before it.
Key(kind, of, number) == [kind |-> kind, of |-> of, number |-> number]
Start(n) == Key("start", n, worker[n].epoch)
Review(c) == Key("review", c, node[c].round)
Feedback(n) == Key("revise", n, node[n].round)
Accepted(c) == Key("accepted", c, node[c].round)
Join(n) == Key("join", n, 0)
Continue(n) == Key("continue", n, worker[n].turn)

Queued(n) == ToSet(queue[n])
\* Those recorded as delivered: the pending ones may be accepted, too.
Read(n) == taken[n] \ Queued(n)
Seen(n) == Queued(n) \cup taken[n]

Pending(n) == revision[n] > node[n].contract /\ node[n].state # "succeeded"
Superseded(n) == worker[n].epoch # node[n].contract
Undecided(n) == verdict[n] = "undecided"
FeedbackOwed(n) == verdict[n] = "revise" /\ Feedback(n) \notin Read(n)
OpenChildren(n) == {c \in Children(n) : node[c].state # "succeeded"}
Bound(n) == worker[n].observed # "none"

-----------------------------------------------------------------------------
(* Slots.                                                                  *)

\* Whether message k may be delivered to n now.
Gate(n, k) ==
  /\ node[n].state # "succeeded"
  /\ ~Undecided(n)
  /\ ~(verdict[n] # "none" /\ node[n].state = "awaiting_review")
  /\ ~Pending(n) /\ ~Superseded(n)
  /\ node[n].contract > 0 /\ Start(n) \notin Read(n) => k = Start(n)
  /\ FeedbackOwed(n) => k = Feedback(n)

Quiescent(n) == worker[n].observed \in {"none", "idle", "stopped"}

\* Deviation, observed only: queued messages reserve nothing.
OccupiesObserved(n) == ~Quiescent(n)

\* Deviation, any message: even one that is held back reserves a slot.
OccupiesQueued(n) ==
  ~Quiescent(n) \/ (worker[n].observed = "idle" /\ queue[n] # <<>>)

\* A Worker holds a slot until it is known to be quiescent, and again from
\* when a message that may be delivered to it is queued.
Occupies(n) ==
  \/ ~Quiescent(n)
  \/ worker[n].observed = "idle" /\ \E k \in Queued(n) : Gate(n, k)

Inflight == {n \in Nodes : Occupies(n)}
SlotFree == Cardinality(Inflight) < limits.capacity

\* Whether the Scheduler may queue message k for n.
DispatchAllowed(n, k) ==
  \/ k \in Queued(n)
  \/ ~Pending(n) /\ ~Superseded(n) /\ (Occupies(n) \/ SlotFree)

-----------------------------------------------------------------------------
(* The Agents.                                                             *)

Live(n) == proc[n] = "live"

\* Initially Mid's turn has just installed the leaves; Top waits for it.
Init ==
  /\ limits \in Settings
  /\ node = [n \in Nodes |->
               [state |-> IF n \in ToSet(Leaves) THEN "ready" ELSE "running",
                round |-> 0, contract |-> 0]]
  /\ verdict = [n \in Nodes |-> "none"]
  /\ revision = [n \in Nodes |-> 0]
  /\ worker = [n \in Nodes |->
                 [epoch |-> 0, desired |-> "active",
                  observed |-> IF n = Top THEN "idle" ELSE IF n = Mid THEN "active" ELSE "none",
                  turn |-> IF n \in ToSet(Leaves) THEN 0 ELSE 1]]
  /\ queue = [n \in Nodes |-> <<>>]
  /\ taken = [n \in Nodes |-> IF n \in ToSet(Leaves) THEN {} ELSE {Key("start", n, 0)}]
  /\ proc = [n \in Nodes |-> IF n = Top THEN "ended" ELSE IF n = Mid THEN "live" ELSE "none"]
  /\ told = {} /\ idles = 0
  /\ phase = "commit" /\ changed = FALSE /\ left = {} /\ sent = None
  /\ crashes = 0

\* A candidate is refused while one is under review, its feedback unread,
\* children open, or another contract about to replace the execution.
MaySubmit(n) ==
  /\ Live(n)
  /\ node[n].state = "running"
  /\ ~Superseded(n) /\ ~Pending(n)
  /\ OpenChildren(n) = {}
  /\ verdict[n] \notin {"undecided", "accept"}
  /\ ~FeedbackOwed(n)
  /\ node[n].round < limits.rounds

Submit(n) ==
  /\ MaySubmit(n)
  /\ verdict' = [verdict EXCEPT ![n] = "undecided"]
  /\ node' = [node EXCEPT ![n].round = @ + 1]
  /\ UNCHANGED <<limits, revision, worker, queue, backVars, idles, hostVars, crashes>>

\* A turn of the parent decides on a candidate, which it may send back while
\* the Node's rounds last.
Decide(c) ==
  /\ c # Top /\ Live(Parent(c))
  /\ node[c].state = "awaiting_review" /\ Undecided(c)
  /\ \E v \in {"accept"} \cup (IF node[c].round < limits.rounds THEN {"revise"} ELSE {}) :
       verdict' = [verdict EXCEPT ![c] = v]
  /\ UNCHANGED <<limits, node, revision, worker, queue, backVars, idles, hostVars, crashes>>

\* The acceptance revisions there were.
Revisions == {r \in Nodes \X (1..limits.revisions) : r[2] <= revision[r[1]]}

\* It may ask for another contract, too.
Revise(c) ==
  /\ c # Top /\ Live(Parent(c))
  /\ Cardinality(Revisions) < limits.revisions
  /\ node[c].state \in {"running", "awaiting_review"}
  /\ ~Undecided(c) /\ ~Pending(c) /\ ~Superseded(c) /\ Bound(c)
  /\ revision' = [revision EXCEPT ![c] = @ + 1]
  /\ UNCHANGED <<limits, node, verdict, worker, queue, backVars, idles, hostVars, crashes>>

\* Candidates a turn of n was told to review.
ToReview(n) ==
  {c \in Children(n) : /\ node[c].state = "awaiting_review" /\ Undecided(c)
                       /\ Review(c) \in taken[n]}

TurnEnds(n) ==
  /\ Live(n)
  /\ ToReview(n) = {}
  /\ IF MaySubmit(n) /\ n \notin told
       THEN idles < limits.idles /\ idles' = idles + 1
       ELSE UNCHANGED idles
  /\ proc' = [proc EXCEPT ![n] = "ended"]
  /\ UNCHANGED <<limits, nodeVars, worker, queue, taken, told, hostVars, crashes>>

Agent(n) == Submit(n) \/ TurnEnds(n) \/ \E c \in Children(n) : Decide(c)

-----------------------------------------------------------------------------
(* The Scheduler's pass, phase by phase; it repeats until nothing changes. *)

\* Nodes are taken in the order of their creation.
First(S) ==
  Order[CHOOSE i \in DOMAIN Order : Order[i] \in S /\ \A j \in 1..(i - 1) : Order[j] \notin S]

Post(n, k) == queue' = [queue EXCEPT ![n] = Append(@, k)]

\* Candidates and verdicts become the state of their Node.
Applied(n) ==
  CASE node[n].state = "running" /\ Undecided(n) -> "awaiting_review"
    [] node[n].state = "awaiting_review" /\ verdict[n] = "accept" -> "succeeded"
    [] node[n].state = "awaiting_review" /\ verdict[n] = "revise" -> "running"
    [] OTHER -> node[n].state

ToApply == {n \in Nodes : Applied(n) # node[n].state}

ToRevise ==
  {n \in Nodes : Pending(n) /\ node[n].state = "running"
                 /\ verdict[n] \notin {"undecided", "accept"}}
ToReplace == {n \in Nodes : ~Pending(n) /\ Superseded(n) /\ worker[n].observed = "stopped"}

\* The new contract is in force and the old execution has to stop.
ApplyRevision(n) ==
  /\ node' = [node EXCEPT ![n].contract = @ + 1]
  /\ verdict' = [verdict EXCEPT ![n] = "none"]
  /\ worker' = [worker EXCEPT ![n].desired = "stopped"]
  /\ UNCHANGED <<queue, backVars>>

\* Once it has, its inbox is retired and the next execution bound: nobody
\* asks for a slot.
Rebind(n) ==
  /\ worker' = [worker EXCEPT ![n] = [epoch |-> @.epoch + 1, desired |-> "active",
                                     observed |-> "starting", turn |-> 0]]
  /\ queue' = [queue EXCEPT ![n] = <<>>]
  /\ proc' = [proc EXCEPT ![n] = "none"] /\ taken' = [taken EXCEPT ![n] = {}]
  /\ told' = told \ {n}
  /\ UNCHANGED <<node, verdict>>

\* A ready Node gets a Worker while there is a slot for it.
ToCreate == {n \in Nodes : node[n].state = "ready" /\ SlotFree}

\* A Worker that has not got the message that starts its epoch gets it.
ToStart == {n \in Nodes : /\ Bound(n) /\ node[n].state = "running"
                          /\ Start(n) \notin Seen(n)}

\* The messages each of the waking phases owes somebody.
ToWake(here) ==
  CASE here = "reviewers" ->
         {<<Parent(c), Review(c)>> : c \in {n \in Nodes \ {Top} :
            node[n].state = "awaiting_review" /\ Undecided(n)}}
    [] here = "revisions" ->
         {<<n, Feedback(n)>> : n \in {m \in Nodes :
            node[m].state = "running" /\ verdict[m] = "revise"}}
    [] here = "parents" ->
         {<<Parent(c), Accepted(c)>> : c \in {n \in Nodes \ {Top} :
            node[n].state = "succeeded" /\ node[Parent(n)].state # "succeeded"}}
         \cup {<<n, Join(n)>> : n \in {m \in {Top, Mid} :
            OpenChildren(m) = {} /\ node[m].state # "succeeded"}}
    [] here = "idle" ->
         {<<n, Continue(n)>> : n \in {m \in Nodes :
            /\ node[m].state = "running" /\ worker[m].observed = "idle"
            /\ worker[m].turn # 0
            /\ OpenChildren(m) = {}
            /\ verdict[m] \notin {"undecided", "accept"}
            /\ queue[m] = <<>>}}

\* Deviation, a message that is still pending is queued again.
OwedUnread(here) ==
  {m \in ToWake(here) : m[2] \notin Read(m[1]) /\ DispatchAllowed(m[1], m[2])}

Owed(here) ==
  {m \in ToWake(here) : m[2] \notin Seen(m[1]) /\ DispatchAllowed(m[1], m[2])}

\* The phases of a pass.  One that has nothing to do takes no time.
Rank == [commit |-> 1, acceptance |-> 2, start |-> 3, reviewers |-> 4,
         revisions |-> 5, parents |-> 6, idle |-> 7]

Due(here) ==
  CASE here = "commit" -> ToApply # {}
    [] here = "acceptance" -> ToRevise \cup ToReplace # {}
    [] here = "start" -> ToStart \cup ToCreate # {}
    [] OTHER -> Owed(here) # {}

Remaining == {p \in DOMAIN Rank : phase \in DOMAIN Rank /\ Rank[phase] <= Rank[p] /\ Due(p)}

Commit(here) ==
  /\ here \in Remaining /\ \A p \in Remaining : Rank[here] <= Rank[p]
  /\ phase' = here /\ changed' = TRUE /\ UNCHANGED <<left, sent>>

ApplyFacts ==
  /\ Commit("commit")
  /\ LET n == First(ToApply) IN node' = [node EXCEPT ![n].state = Applied(n)]
  /\ UNCHANGED <<verdict, revision, worker, queue, backVars>>

ReconcileAcceptance ==
  /\ Commit("acceptance")
  /\ \/ \E n \in ToRevise : ApplyRevision(n)
     \/ \E n \in ToReplace : Rebind(n)
  /\ UNCHANGED revision

StartWorkers ==
  /\ Commit("start")
  /\ IF ToStart # {}
       THEN Post(First(ToStart), Start(First(ToStart))) /\ UNCHANGED <<node, worker>>
       ELSE /\ node' = [node EXCEPT ![First(ToCreate)].state = "running"]
            /\ worker' = [worker EXCEPT ![First(ToCreate)].observed = "starting"]
            /\ UNCHANGED queue
  /\ UNCHANGED <<verdict, revision, backVars>>

Wake(here) ==
  /\ Commit(here)
  /\ \E m \in Owed(here) : Post(m[1], m[2])
  /\ UNCHANGED <<nodeVars, worker, backVars>>

\* Workers of accepted Nodes are to stop; then the Controller's turn comes.
ClosePass ==
  LET over == {n \in Nodes : node[n].state = "succeeded" /\ worker[n].desired = "active"} IN
  /\ phase \in DOMAIN Rank /\ Remaining = {}
  /\ worker' = [n \in Nodes |-> IF n \in over THEN [worker[n] EXCEPT !.desired = "stopped"]
                                               ELSE worker[n]]
  /\ IF changed \/ over # {} THEN phase' = "commit" /\ UNCHANGED left
                            ELSE phase' = "deliver" /\ left' = {n \in Nodes : Bound(n)}
  /\ changed' = FALSE
  /\ UNCHANGED <<nodeVars, queue, backVars, sent>>

Scheduler ==
  /\ \/ ApplyFacts \/ ReconcileAcceptance \/ StartWorkers \/ ClosePass
     \/ \E here \in {"reviewers", "revisions", "parents", "idle"} : Wake(here)
  /\ UNCHANGED <<limits, idles, crashes>>

-----------------------------------------------------------------------------
(* The Controller.                                                         *)

at == First(left)

Moves(next) == phase' = next /\ UNCHANGED <<changed, left>>

\* The places of the messages that may be delivered.
Deliverable == {i \in DOMAIN queue[at] : Gate(at, queue[at][i])}

\* The first of them, unless the execution is busy with another one.
NextUp ==
  {queue[at][i] : i \in {j \in Deliverable :
     /\ \A h \in Deliverable : j <= h
     /\ queue[at][j] \in taken[at] \/ ~Live(at)}}

\* The Backend starts a turn, or has started it before the host crashed.
Deliver ==
  /\ phase = "deliver" /\ Moves("record")
  /\ worker[at].desired = "active"
  /\ \E k \in NextUp :
       /\ sent' = k
       /\ proc' = IF k \in taken[at] THEN proc ELSE [proc EXCEPT ![at] = "live"]
       /\ taken' = [taken EXCEPT ![at] = @ \cup {k}]
  /\ UNCHANGED <<nodeVars, worker, queue, told>>

\* The delivery is recorded.
Record ==
  /\ phase = "record" /\ Moves("report")
  /\ queue' = [queue EXCEPT ![at] = RemoveAt(@, CHOOSE i \in DOMAIN @ : @[i] = sent)]
  /\ sent' = None
  /\ UNCHANGED <<nodeVars, worker, backVars>>

\* Nothing can be handed over, or the execution is told to stop.
Skip ==
  /\ phase = "deliver" /\ Moves("report")
  /\ IF worker[at].desired = "stopped"
       THEN told' = told \cup {at}
       ELSE UNCHANGED told /\ NextUp = {}
  /\ UNCHANGED <<nodeVars, worker, queue, proc, taken, sent>>

Found(n) ==
  IF Live(n) THEN "active" ELSE IF n \in told THEN "stopped" ELSE "idle"

\* What the Backend finds is reported, and the next Worker's turn comes.
Report ==
  /\ phase = "report"
  /\ left' = left \ {at} /\ phase' = (IF left' = {} THEN "commit" ELSE "deliver")
  /\ worker' = [worker EXCEPT ![at].observed = Found(at),
                              ![at].turn = Cardinality(taken[at])]
  /\ UNCHANGED <<changed, sent, nodeVars, queue, backVars>>

Controller ==
  /\ Deliver \/ Record \/ Skip \/ Report
  /\ UNCHANGED <<limits, idles, crashes>>

\* The host dies anywhere in a tick; the executions go on.
Crash ==
  /\ crashes < limits.crashes /\ crashes' = crashes + 1
  /\ phase' = "commit" /\ changed' = FALSE /\ left' = {} /\ sent' = None
  /\ UNCHANGED <<limits, nodeVars, worker, queue, backVars, idles>>

Host == Scheduler \/ Controller

Next ==
  \/ Host
  \/ \E n \in Nodes : Agent(n) \/ Revise(n)
  \/ Crash

\* The host ticks; an Agent gets on with its turn, which a wall limit ends.
Fairness == WF_vars(Host) /\ \A n \in Nodes : WF_vars(Agent(n))

Spec == Init /\ [][Next]_vars /\ Fairness

-----------------------------------------------------------------------------
(* Properties.                                                             *)

Keys == [kind : {"start", "review", "revise", "accepted", "join", "continue"},
         of : Nodes, number : Nat]

\* The state is as the Control Plane and the Backend keep it.
TypeOK ==
  /\ limits \in Settings
  /\ node \in [Nodes -> [state : {"ready", "running", "awaiting_review", "succeeded"},
                         round : 0..limits.rounds, contract : 0..limits.revisions]]
  /\ verdict \in [Nodes -> {"none", "undecided", "revise", "accept"}]
  /\ revision \in [Nodes -> 0..limits.revisions]
  /\ worker \in [Nodes -> [epoch : 0..limits.revisions, desired : {"active", "stopped"},
                           observed : {"none", "starting", "active", "idle", "stopped"},
                           turn : Nat]]
  /\ queue \in [Nodes -> Seq(Keys)]
  /\ proc \in [Nodes -> {"none", "live", "ended"}] /\ taken \in [Nodes -> SUBSET Keys]
  /\ told \subseteq Nodes /\ left \subseteq Nodes /\ sent \in Keys \cup {None}
  /\ idles \in 0..limits.idles /\ crashes \in 0..limits.crashes /\ changed \in BOOLEAN
  /\ phase \in DOMAIN Rank \cup {"deliver", "record", "report"}
  /\ \A n \in Nodes : \A i, j \in DOMAIN queue[n] : queue[n][i] = queue[n][j] => i = j

\* The executions that were replaced.
Replaced == {e \in Nodes \X (1..limits.revisions) : e[2] <= worker[e[1]].epoch}

\* No more Workers are busy than the capacity allows, but for one turn per
\* crash between a delivery and its report, which the restarted Scheduler
\* cannot see, and one per execution replaced, which asks for no slot
\* (_occupies_slot, _dispatch_allowed, _start_workers).
ExcessIsExplained ==
  Cardinality({n \in Nodes : Live(n)})
    <= limits.capacity + crashes + Cardinality(Replaced)

\* However few the slots are, owners and children that wait for each other
\* all get theirs, and the task is finished.
EverybodyServed == <>(node[Top].state = "awaiting_review")

=============================================================================
