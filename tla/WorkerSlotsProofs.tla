------------------------- MODULE WorkerSlotsProofs -------------------------
(***************************************************************************)
(* What WorkerSlots keeps, for any leaves, capacities and bounds.          *)
(*                                                                         *)
(* A Worker the Scheduler knows to be busy holds a slot, and it gives a    *)
(* slot only to one that finds it free.  So no more Workers are busy than  *)
(* the capacity, but for those whose process runs unseen, each of which a  *)
(* crash left between its delivery and its report, and those that were     *)
(* given a new execution.                                                  *)
(***************************************************************************)
EXTENDS WorkerSlots, FiniteSetTheorems, SequenceTheorems, TLAPS

-----------------------------------------------------------------------------
(* The Nodes, and the first of some of them.                               *)

LEMMA OrderIsSeq ==
  /\ Order \in Seq(Nodes) /\ DOMAIN Order = 1..Len(Order) /\ Len(Order) \in Nat
  /\ Nodes = {Top, Mid} \cup ToSet(Leaves)
  /\ Len(Leaves) \in Nat /\ DOMAIN Order = 1..(2 + Len(Leaves))
  /\ Order[1] = Top /\ Order[2] = Mid
  /\ \A i \in 1..Len(Leaves) : Order[i + 2] = Leaves[i]
<1> DEFINE All == {Top, Mid} \cup ToSet(Leaves)
           owners == <<Top, Mid>>
<1>1. Leaves \in Seq(ToSet(Leaves)) /\ ToSet(Leaves) = {Leaves[i] : i \in 1..Len(Leaves)}
  BY NodeAssumption DEF ToSet
<1>2. owners \in Seq(All) /\ Len(owners) = 2 /\ owners[1] = Top /\ owners[2] = Mid
  OBVIOUS
<1>3. Leaves \in Seq(All) /\ Len(Leaves) \in Nat
  BY <1>1, SeqMonotonic
<1>4. Order = owners \o Leaves
  BY DEF Order
<1> HIDE DEF owners, All
<1>5. /\ Order \in Seq(All) /\ Len(Order) = 2 + Len(Leaves)
      /\ \A i \in 1..(2 + Len(Leaves)) :
           Order[i] = IF i <= 2 THEN owners[i] ELSE Leaves[i - 2]
  <2> DEFINE both == owners \o Leaves
  <2>1. /\ both \in Seq(All) /\ Len(both) = Len(owners) + Len(Leaves)
        /\ \A i \in 1..(Len(owners) + Len(Leaves)) :
             both[i] = IF i <= Len(owners) THEN owners[i] ELSE Leaves[i - Len(owners)]
    BY <1>2, <1>3, ConcatProperties
  <2>2. Order = both
    BY <1>4
  <2> HIDE DEF both
  <2> QED
    BY <1>2, <2>1, <2>2
<1>6. DOMAIN Order = 1..(2 + Len(Leaves))
  BY <1>5
<1>7. Nodes = {Order[i] : i \in 1..(2 + Len(Leaves))}
  BY <1>6 DEF Nodes, ToSet
<1>8. Order[1] = Top /\ Order[2] = Mid
  BY <1>2, <1>3, <1>5
<1>9. \A i \in 1..Len(Leaves) : i + 2 \in 1..(2 + Len(Leaves)) /\ Order[i + 2] = Leaves[i]
  BY <1>3, <1>5
<1>10. \A i \in 1..(2 + Len(Leaves)) : i \in {1, 2} \/ i - 2 \in 1..Len(Leaves)
  BY <1>3
<1>11. All \subseteq Nodes
  <2>1. ToSet(Leaves) \subseteq Nodes
    BY <1>1, <1>7, <1>9
  <2>2. 1 \in 1..(2 + Len(Leaves)) /\ 2 \in 1..(2 + Len(Leaves))
    BY <1>3
  <2> QED
    BY <1>7, <1>8, <2>1, <2>2 DEF All
<1>12. Order \in Seq(Nodes)
  BY <1>5, <1>11, SeqMonotonic
<1>13. Nodes \subseteq All
  BY <1>5, <1>7, <1>6
<1> QED
  BY <1>3, <1>5, <1>6, <1>8, <1>9, <1>11, <1>12, <1>13 DEF All

LEMMA NodesAre ==
  /\ IsFiniteSet(Nodes) /\ Top \in Nodes /\ Mid \in Nodes
  /\ \A n \in Nodes : n # Top => Parent(n) \in Nodes
<1>1. Nodes = {Order[i] : i \in 1..Len(Order)}
  BY OrderIsSeq DEF Nodes, ToSet
<1>2. IsFiniteSet(1..Len(Order))
  BY OrderIsSeq, FS_Interval
<1> DEFINE place == [i \in 1..Len(Order) |-> Order[i]]
<1>3. place \in Surjection(1..Len(Order), Nodes)
  BY <1>1 DEF Surjection
<1>4. IsFiniteSet(Nodes)
  BY <1>2, <1>3, FS_Surjection
<1> QED
  BY <1>4, OrderIsSeq DEF Parent

\* No owner is a leaf.
LEMMA PlacesDiffer == Top # Mid /\ Top \notin ToSet(Leaves) /\ Mid \notin ToSet(Leaves)
<1>1. /\ Len(Leaves) \in Nat /\ DOMAIN Order = 1..(2 + Len(Leaves))
      /\ Order[1] = Top /\ Order[2] = Mid
      /\ \A i \in 1..Len(Leaves) : Order[i + 2] = Leaves[i]
  BY OrderIsSeq
<1>2. \A i, j \in 1..(2 + Len(Leaves)) : Order[i] = Order[j] => i = j
  BY <1>1, NodeAssumption
<1>3. Top # Mid
  BY <1>1, <1>2
<1>4. ASSUME NEW i \in 1..Len(Leaves) PROVE Leaves[i] # Top /\ Leaves[i] # Mid
  BY <1>1, <1>2
<1> QED
  BY <1>3, <1>4, NodeAssumption DEF ToSet

\* A set of numbers has a least one.
LEMMA LeastOf ==
  ASSUME NEW S \in SUBSET Nat, S # {}
  PROVE  \E x \in S : \A y \in S : x <= y
<1>1. PICK x \in S : \A y \in S : <<y, x>> \notin OpToRel(<, Nat)
  BY NatLessThanWellFounded, WFMin
<1>2. \A y \in S : ~(y < x)
  BY <1>1 DEF OpToRel
<1> QED
  BY <1>2

LEMMA FirstIn ==
  ASSUME NEW S \in SUBSET Nodes, S # {}
  PROVE  First(S) \in S
<1> DEFINE places == {i \in DOMAIN Order : Order[i] \in S}
<1>1. places \in SUBSET Nat /\ places # {}
  BY OrderIsSeq DEF Nodes, ToSet
<1>2. PICK i \in places : \A j \in places : i <= j
  BY <1>1, LeastOf
<1>3. \A j \in 1..(i - 1) : Order[j] \notin S
  BY <1>2, OrderIsSeq
<1> QED
  BY <1>2, <1>3 DEF First

-----------------------------------------------------------------------------
(* Inboxes.                                                                *)

Distinct(s) == \A i, j \in DOMAIN s : s[i] = s[j] => i = j

LEMMA AppendTo ==
  ASSUME NEW S, NEW s \in Seq(S), NEW k \in S
  PROVE  /\ Append(s, k) \in Seq(S) /\ ToSet(Append(s, k)) = ToSet(s) \cup {k}
         /\ Distinct(s) /\ k \notin ToSet(s) => Distinct(Append(s, k))
<1> DEFINE t == Append(s, k)
<1>1. /\ t \in Seq(S) /\ Len(t) = Len(s) + 1 /\ Len(s) \in Nat
      /\ \A i \in 1..Len(s) : t[i] = s[i]
      /\ t[Len(s) + 1] = k
  BY AppendProperties
<1> HIDE DEF t
<1>2. DOMAIN s = 1..Len(s) /\ DOMAIN t = 1..(Len(s) + 1)
  BY <1>1
<1>3. ToSet(t) = ToSet(s) \cup {k}
  <2>1. ToSet(s) = {s[i] : i \in 1..Len(s)} /\ ToSet(t) = {t[i] : i \in 1..(Len(s) + 1)}
    BY <1>2 DEF ToSet
  <2>2. \A i \in 1..(Len(s) + 1) : i \in 1..Len(s) \/ i = Len(s) + 1
    BY <1>1
  <2>3. \A i \in 1..Len(s) : i \in 1..(Len(s) + 1)
    BY <1>1
  <2> QED
    BY <1>1, <2>1, <2>2, <2>3
<1>4. ASSUME Distinct(s), k \notin ToSet(s) PROVE Distinct(t)
  <2> SUFFICES ASSUME NEW i \in 1..(Len(s) + 1), NEW j \in 1..(Len(s) + 1), t[i] = t[j]
      PROVE  i = j
    BY <1>2 DEF Distinct
  <2>1. \A h \in 1..Len(s) : s[h] # k
    BY <1>2, <1>4 DEF ToSet
  <2> QED
    BY <1>1, <1>2, <1>4, <2>1 DEF Distinct
<1> QED
  BY <1>1, <1>3, <1>4 DEF t

LEMMA RemoveFrom ==
  ASSUME NEW S, NEW s \in Seq(S), NEW i \in DOMAIN s, Distinct(s)
  PROVE  /\ RemoveAt(s, i) \in Seq(S) /\ Distinct(RemoveAt(s, i))
         /\ ToSet(RemoveAt(s, i)) = ToSet(s) \ {s[i]}
<1> DEFINE front == SubSeq(s, 1, i - 1)
           back == SubSeq(s, i + 1, Len(s))
           t == RemoveAt(s, i)
<1>1. Len(s) \in Nat /\ DOMAIN s = 1..Len(s) /\ \A j \in 1..Len(s) : s[j] \in S
  BY LenProperties
<1>2. /\ front \in Seq(S) /\ Len(front) = i - 1
      /\ \A j \in 1..(i - 1) : front[j] = s[j]
  BY <1>1, SubSeqProperties, Z3
<1>3. /\ back \in Seq(S) /\ Len(back) = Len(s) - i
      /\ \A j \in 1..(Len(s) - i) : back[j] = s[i + j]
  BY <1>1, SubSeqProperties, Z3
<1>4. t = front \o back
  BY DEF RemoveAt
<1> HIDE DEF front, back, t
<1>5. /\ t \in Seq(S) /\ Len(t) = Len(s) - 1
      /\ \A j \in 1..(Len(s) - 1) : t[j] = IF j < i THEN s[j] ELSE s[j + 1]
  <2>1. /\ t \in Seq(S) /\ Len(t) = Len(front) + Len(back)
        /\ \A j \in 1..(Len(front) + Len(back)) :
             t[j] = IF j <= Len(front) THEN front[j] ELSE back[j - Len(front)]
    BY <1>2, <1>3, <1>4, ConcatProperties
  <2>2. Len(front) + Len(back) = Len(s) - 1
    BY <1>1, <1>2, <1>3
  <2>3. ASSUME NEW j \in 1..(Len(s) - 1)
        PROVE  t[j] = IF j < i THEN s[j] ELSE s[j + 1]
    <3>1. CASE j < i
      BY <1>1, <1>2, <2>1, <2>2, <3>1
    <3>2. CASE ~(j < i)
      <4>1. t[j] = back[j - (i - 1)]
        BY <1>1, <1>2, <2>1, <2>2, <3>2
      <4>2. j - (i - 1) \in 1..(Len(s) - i) /\ i + (j - (i - 1)) = j + 1
        BY <1>1, <3>2
      <4>3. back[j - (i - 1)] = s[i + (j - (i - 1))]
        BY <1>3, <4>2
      <4> QED
        BY <3>2, <4>1, <4>2, <4>3
    <3> QED
      BY <3>1, <3>2
  <2> QED
    BY <2>1, <2>2, <2>3
<1>6. DOMAIN t = 1..(Len(s) - 1)
  BY <1>5
<1>7. Distinct(t)
  BY <1>1, <1>5, <1>6 DEF Distinct
<1>8. ToSet(t) \subseteq ToSet(s) \ {s[i]}
  <2> SUFFICES ASSUME NEW j \in 1..(Len(s) - 1) PROVE t[j] \in ToSet(s) \ {s[i]}
    BY <1>6 DEF ToSet
  <2> QED
    BY <1>1, <1>5 DEF Distinct, ToSet
<1>9. ToSet(s) \ {s[i]} \subseteq ToSet(t)
  <2> SUFFICES ASSUME NEW j \in 1..Len(s), j # i PROVE s[j] \in ToSet(t)
    BY <1>1 DEF ToSet
  <2>1. CASE j < i
    BY <1>1, <1>5, <1>6, <2>1 DEF ToSet
  <2>2. CASE j > i
    <3>1. j - 1 \in 1..(Len(s) - 1) /\ t[j - 1] = s[j]
      BY <1>1, <1>5, <2>2
    <3> QED
      BY <1>6, <3>1 DEF ToSet
  <2> QED
    BY <1>1, <2>1, <2>2
<1> QED
  BY <1>5, <1>7, <1>8, <1>9 DEF t

-----------------------------------------------------------------------------
(* The invariant.                                                          *)

\* A new contract is at most one ahead of the one in force, and one that is in
\* force but not yet bound is the latest, on a Node that has no candidate.
ContractAgrees(n) ==
  /\ worker[n].epoch <= node[n].contract
  /\ node[n].contract <= revision[n] /\ revision[n] <= node[n].contract + 1
  /\ Superseded(n) =>
       /\ node[n].contract = worker[n].epoch + 1 /\ revision[n] = node[n].contract
       /\ node[n].state = "running" /\ verdict[n] = "none"

\* Feedback on a candidate is sent once its review has been applied.
VerdictAgrees(n) ==
  /\ node[n].state = "awaiting_review" => verdict[n] # "none"
  /\ \A k \in Seen(n) : k.kind = "revise" =>
       /\ k.number <= node[n].round
       /\ k.number = node[n].round => ~Undecided(n) /\ node[n].state # "awaiting_review"

\* Ready Nodes have no Worker, and who has stopped was told to.
WorkerAgrees(n) ==
  /\ node[n].state = "ready" <=> ~Bound(n)
  /\ node[n].state = "ready" => proc[n] = "none" /\ verdict[n] = "none"
  /\ worker[n].observed = "stopped" => n \in told
  /\ n \in told => worker[n].desired = "stopped"
  /\ IsFiniteSet(taken[n])

\* A Worker that was not sent the message that starts its epoch is starting.
StartIsFirst(n) ==
  Bound(n) /\ Start(n) \notin Seen(n) =>
    /\ worker[n].observed = "starting" /\ proc[n] = "none"
    /\ node[n].state = "running" /\ ~Undecided(n)

Local(n) == ContractAgrees(n) /\ VerdictAgrees(n) /\ WorkerAgrees(n) /\ StartIsFirst(n)

\* The Controller runs after a pass with nothing left to do, so every Worker
\* was sent its first message, and it visits those there are.
VisitsFollow ==
  /\ phase \in DOMAIN Rank /\ ~changed => phase = "commit"
  /\ Bound(Top)
  /\ \A n \in left : Bound(n)
  /\ phase \notin DOMAIN Rank =>
       left # {} /\ \A n \in Nodes : Bound(n) => Start(n) \in Seen(n)

\* The message handed over was deliverable, unless the turn has submitted since
\* or another contract is asked for.
StandsFor(n, k) ==
  /\ k \in Queued(n) /\ k \in taken[n]
  /\ worker[n].observed # "stopped" /\ node[n].state = "running"
  /\ Gate(n, k) \/ Undecided(n) \/ Pending(n)

DeliveryStands == phase = "record" => \A n \in {at}, k \in {sent} : StandsFor(n, k)

TInv == TypeOK /\ (\A n \in Nodes : Local(n)) /\ VisitsFollow /\ DeliveryStands

\* The Worker whose delivery is not reported yet.
Visiting == IF phase \in {"record", "report"} THEN {at} ELSE {}

\* Workers that hold a slot or run, and those that run while the Scheduler
\* takes them to be quiescent.
IsBusy(n) == Occupies(n) \/ Live(n)
IsUnseen(n) == Live(n) /\ Quiescent(n)
Busy == {n \in Nodes : IsBusy(n)}
Unseen == {n \in Nodes : IsUnseen(n)}

\* A crash leaves at most the Worker it was about unseen, so a free slot is
\* one that no more than the unseen ones exceed.
SlotInv ==
  /\ Cardinality(Unseen \ Visiting) <= crashes
  /\ Cardinality(Busy) <= limits.capacity + crashes + Cardinality(Replaced)

-----------------------------------------------------------------------------
(* Types.                                                                  *)

States == {"ready", "running", "awaiting_review", "succeeded"}
Phases == {"commit", "acceptance", "start", "reviewers", "revisions", "parents", "idle"}

LEMMA RankIs ==
  /\ DOMAIN Rank = Phases
  /\ \A p \in Phases : Rank[p] \in Nat /\ Rank["commit"] <= Rank[p]
BY DEF Rank, Phases

LEMMA LimitsAre ==
  ASSUME limits \in Settings
  PROVE  /\ limits.capacity \in Nat /\ limits.rounds \in Nat /\ limits.idles \in Nat
         /\ limits.revisions \in Nat /\ limits.crashes \in Nat
BY LimitAssumption DEF Limits

LEMMA Fields ==
  ASSUME TypeOK, NEW n \in Nodes
  PROVE  /\ node[n].state \in States
         /\ node[n].round \in 0..limits.rounds /\ node[n].round \in Nat
         /\ node[n].contract \in 0..limits.revisions /\ node[n].contract \in Nat
         /\ verdict[n] \in {"none", "undecided", "revise", "accept"}
         /\ revision[n] \in 0..limits.revisions /\ revision[n] \in Nat
         /\ worker[n].epoch \in 0..limits.revisions /\ worker[n].epoch \in Nat
         /\ worker[n].desired \in {"active", "stopped"}
         /\ worker[n].observed \in {"none", "starting", "active", "idle", "stopped"}
         /\ worker[n].turn \in Nat
         /\ queue[n] \in Seq(Keys) /\ Distinct(queue[n]) /\ Queued(n) \subseteq Keys
         /\ proc[n] \in {"none", "live", "ended"} /\ taken[n] \subseteq Keys
         /\ Seen(n) \subseteq Keys
<1>1. /\ node[n] \in [state : States, round : 0..limits.rounds, contract : 0..limits.revisions]
      /\ worker[n] \in [epoch : 0..limits.revisions, desired : {"active", "stopped"},
                        observed : {"none", "starting", "active", "idle", "stopped"},
                        turn : Nat]
  BY DEF TypeOK, States
<1>2. limits.rounds \in Nat /\ limits.revisions \in Nat
  BY LimitsAre DEF TypeOK
<1>3. queue[n] \in Seq(Keys) /\ Distinct(queue[n]) /\ taken[n] \subseteq Keys
  BY DEF TypeOK, Distinct
<1>4. ToSet(queue[n]) \subseteq Keys
  BY <1>3 DEF ToSet
<1>5. /\ verdict[n] \in {"none", "undecided", "revise", "accept"}
      /\ revision[n] \in 0..limits.revisions /\ proc[n] \in {"none", "live", "ended"}
  BY DEF TypeOK
<1> QED
  BY <1>1, <1>2, <1>3, <1>4, <1>5 DEF Queued, Seen

LEMMA KeyIs ==
  ASSUME NEW kind \in {"start", "review", "revise", "accepted", "join", "continue"},
         NEW of \in Nodes, NEW number \in Nat
  PROVE  /\ Key(kind, of, number) \in Keys
         /\ Key(kind, of, number).kind = kind /\ Key(kind, of, number).of = of
         /\ Key(kind, of, number).number = number
BY DEF Key, Keys

LEMMA KeysAre ==
  ASSUME TypeOK, NEW n \in Nodes
  PROVE  /\ {Start(n), Review(n), Feedback(n), Accepted(n), Join(n), Continue(n)} \subseteq Keys
         /\ Start(n).kind = "start" /\ Review(n).kind = "review"
         /\ Feedback(n).kind = "revise" /\ Feedback(n).number = node[n].round
         /\ Accepted(n).kind = "accepted" /\ Join(n).kind = "join"
         /\ Continue(n).kind = "continue"
<1>1. node[n].round \in Nat /\ worker[n].epoch \in Nat /\ worker[n].turn \in Nat /\ 0 \in Nat
  BY Fields
<1> QED
  BY <1>1, KeyIs DEF Start, Review, Feedback, Accepted, Join, Continue

\* The type of each variable, so that a step shows those of what it changes.
NodeType == node \in [Nodes -> [state : States, round : 0..limits.rounds,
                                contract : 0..limits.revisions]]
VerdictType == verdict \in [Nodes -> {"none", "undecided", "revise", "accept"}]
RevisionType == revision \in [Nodes -> 0..limits.revisions]
WorkerType ==
  worker \in [Nodes -> [epoch : 0..limits.revisions, desired : {"active", "stopped"},
                        observed : {"none", "starting", "active", "idle", "stopped"},
                        turn : Nat]]
QueueType == queue \in [Nodes -> Seq(Keys)] /\ \A n \in Nodes : Distinct(queue[n])
ProcType == proc \in [Nodes -> {"none", "live", "ended"}]
TakenType == taken \in [Nodes -> SUBSET Keys]
HostType ==
  /\ left \subseteq Nodes /\ sent \in Keys \cup {None} /\ changed \in BOOLEAN
  /\ phase \in Phases \cup {"deliver", "record", "report"}
CountType ==
  /\ limits \in Settings /\ told \subseteq Nodes
  /\ idles \in 0..limits.idles /\ crashes \in 0..limits.crashes

Types == /\ NodeType /\ VerdictType /\ RevisionType /\ WorkerType
         /\ QueueType /\ ProcType /\ TakenType /\ HostType /\ CountType

LEMMA TypesAre == TypeOK <=> Types
<1>1. DOMAIN Rank = Phases
  BY RankIs
<1>2. QueueType <=> /\ queue \in [Nodes -> Seq(Keys)]
                    /\ \A n \in Nodes : \A i, j \in DOMAIN queue[n] :
                         queue[n][i] = queue[n][j] => i = j
  BY DEF QueueType, Distinct
<1> QED
  BY <1>1, <1>2 DEF TypeOK, Types, NodeType, VerdictType, RevisionType, WorkerType, ProcType,
     TakenType, HostType, CountType, States

LEMMA TypesAreNext == TypeOK' <=> Types'
<1>1. DOMAIN Rank = Phases
  BY RankIs
<1>2. QueueType' <=> /\ queue' \in [Nodes -> Seq(Keys)]
                     /\ \A n \in Nodes : \A i, j \in DOMAIN queue'[n] :
                          queue'[n][i] = queue'[n][j] => i = j
  BY DEF QueueType, Distinct
<1> QED
  BY <1>1, <1>2 DEF TypeOK, Types, NodeType, VerdictType, RevisionType, WorkerType, ProcType,
     TakenType, HostType, CountType, States

-----------------------------------------------------------------------------
(* What a step leaves alone.                                               *)

Same(m) ==
  /\ node'[m] = node[m] /\ verdict'[m] = verdict[m] /\ revision'[m] = revision[m]
  /\ worker'[m] = worker[m] /\ queue'[m] = queue[m]
  /\ proc'[m] = proc[m] /\ taken'[m] = taken[m] /\ (m \in told' <=> m \in told)

\* What a delivery depends on.
SameGates(m) ==
  /\ node'[m] = node[m] /\ verdict'[m] = verdict[m] /\ revision'[m] = revision[m]
  /\ worker'[m].epoch = worker[m].epoch /\ Read(m)' = Read(m)

LEMMA SameGatesKeep ==
  ASSUME NEW m, SameGates(m), NEW k
  PROVE  Gate(m, k)' <=> Gate(m, k)
BY DEF SameGates, Gate, Undecided, Pending, Superseded, FeedbackOwed, Start, Feedback, Key

LEMMA SameAre ==
  ASSUME NEW m, Same(m)
  PROVE  /\ SameGates(m) /\ Queued(m)' = Queued(m) /\ Seen(m)' = Seen(m)
         /\ Bound(m)' = Bound(m) /\ Start(m)' = Start(m)
         /\ Superseded(m)' = Superseded(m) /\ Pending(m)' = Pending(m)
         /\ Undecided(m)' = Undecided(m) /\ Live(m)' = Live(m) /\ Quiescent(m)' = Quiescent(m)
BY DEF Same, SameGates, Queued, Seen, Read, Bound, Start, Key, Superseded, Pending, Undecided,
   Live, Quiescent

LEMMA SameKeeps ==
  ASSUME NEW m, Same(m)
  PROVE  /\ Local(m) => Local(m)'
         /\ Occupies(m)' <=> Occupies(m)
         /\ \A k : StandsFor(m, k) => StandsFor(m, k)'
<1>1. /\ SameGates(m) /\ Queued(m)' = Queued(m) /\ Seen(m)' = Seen(m)
      /\ Bound(m)' = Bound(m) /\ Start(m)' = Start(m)
      /\ Superseded(m)' = Superseded(m) /\ Pending(m)' = Pending(m)
      /\ Undecided(m)' = Undecided(m) /\ Live(m)' = Live(m) /\ Quiescent(m)' = Quiescent(m)
  BY SameAre
<1>2. \A k : Gate(m, k)' <=> Gate(m, k)
  BY <1>1, SameGatesKeep
<1>3. ContractAgrees(m) => ContractAgrees(m)'
  BY <1>1 DEF ContractAgrees, Same
<1>4. VerdictAgrees(m) => VerdictAgrees(m)'
  BY <1>1 DEF VerdictAgrees, Same
<1>5. WorkerAgrees(m) => WorkerAgrees(m)'
  BY <1>1 DEF WorkerAgrees, Same
<1>6. StartIsFirst(m) => StartIsFirst(m)'
  BY <1>1 DEF StartIsFirst, Same
<1> QED
  BY <1>1, <1>2, <1>3, <1>4, <1>5, <1>6 DEF Local, Occupies, StandsFor, Same

\* The Worker that is visited.
LEMMA AtIn ==
  ASSUME TInv, phase \notin Phases
  PROVE  at \in Nodes /\ at \in left /\ Bound(at)
<1>1. left \in SUBSET Nodes /\ left # {}
  BY TypesAre, RankIs DEF TInv, Types, HostType, VisitsFollow
<1>2. at \in left
  BY <1>1, FirstIn DEF at
<1> QED
  BY <1>1, <1>2 DEF TInv, VisitsFollow

-----------------------------------------------------------------------------
(* Counting.                                                               *)

LEMMA SetsAre ==
  ASSUME TypeOK
  PROVE  /\ IsFiniteSet(Busy) /\ Cardinality(Busy) \in Nat
         /\ IsFiniteSet(Unseen) /\ Cardinality(Unseen) \in Nat
         /\ IsFiniteSet(Unseen \ Visiting) /\ Cardinality(Unseen \ Visiting) \in Nat
         /\ IsFiniteSet(Inflight) /\ Cardinality(Inflight) \in Nat
         /\ IsFiniteSet(Replaced) /\ Cardinality(Replaced) \in Nat
         /\ limits.capacity \in Nat /\ limits.revisions \in Nat /\ crashes \in Nat
<1>1. /\ limits.capacity \in Nat /\ limits.revisions \in Nat /\ limits.crashes \in Nat
      /\ crashes \in 0..limits.crashes
  BY LimitsAre DEF TypeOK
<1>2. \A m \in Nat : IsFiniteSet(1..m)
  BY FS_Interval
<1>3. IsFiniteSet(Nodes \X (1..limits.revisions))
  BY <1>1, <1>2, NodesAre, FS_Product
<1>4. Replaced \in SUBSET (Nodes \X (1..limits.revisions))
  BY DEF Replaced
<1>5. /\ Busy \in SUBSET Nodes /\ Unseen \in SUBSET Nodes /\ Unseen \ Visiting \in SUBSET Nodes
      /\ Inflight \in SUBSET Nodes
  BY DEF Busy, Unseen, Inflight
<1>6. /\ IsFiniteSet(Busy) /\ IsFiniteSet(Unseen) /\ IsFiniteSet(Unseen \ Visiting)
      /\ IsFiniteSet(Inflight)
  BY <1>5, NodesAre, FS_Subset
<1>7. IsFiniteSet(Replaced)
  BY <1>3, <1>4, FS_Subset
<1> QED
  BY <1>1, <1>6, <1>7, FS_CardinalityType

LEMMA CountLess ==
  ASSUME NEW S, NEW T, IsFiniteSet(T), S \subseteq T
  PROVE  IsFiniteSet(S) /\ Cardinality(S) <= Cardinality(T)
BY FS_Subset

LEMMA CountOneMore ==
  ASSUME NEW S, NEW T, NEW x, IsFiniteSet(T), S \subseteq T \cup {x}
  PROVE  IsFiniteSet(S) /\ Cardinality(S) <= Cardinality(T) + 1
<1>1. /\ IsFiniteSet(T \cup {x}) /\ Cardinality(T) \in Nat
      /\ Cardinality(T \cup {x}) \in {Cardinality(T), Cardinality(T) + 1}
  BY FS_AddElement, FS_CardinalityType
<1>2. IsFiniteSet(S) /\ Cardinality(S) <= Cardinality(T \cup {x})
  BY <1>1, CountLess
<1>3. Cardinality(S) \in Nat
  BY <1>2, FS_CardinalityType
<1> QED
  BY <1>1, <1>2, <1>3

\* Nobody gets busy or unseen.
LEMMA CalmKeeps ==
  ASSUME TypeOK, SlotInv, UNCHANGED <<limits, crashes>>,
         \A n \in Nodes : worker'[n].epoch = worker[n].epoch,
         \A n \in Nodes : IsBusy(n)' => IsBusy(n),
         (Unseen \ Visiting)' \subseteq Unseen \ Visiting
  PROVE  SlotInv'
<1>1. Busy' \subseteq Busy
  BY DEF Busy
<1>2. Replaced' = Replaced
  BY DEF Replaced
<1>3. /\ Cardinality(Busy') <= Cardinality(Busy)
      /\ Cardinality((Unseen \ Visiting)') <= Cardinality(Unseen \ Visiting)
      /\ Cardinality(Busy') \in Nat /\ Cardinality((Unseen \ Visiting)') \in Nat
  BY <1>1, SetsAre, CountLess, FS_CardinalityType
<1> QED
  BY <1>2, <1>3, SetsAre DEF SlotInv

\* In a pass nobody is visited, and who gets busy does so by a free slot.
LEMMA PassSlots ==
  ASSUME TypeOK, SlotInv, UNCHANGED <<limits, crashes>>, phase \in Phases, phase' \in Phases,
         NEW n \in Nodes, \A m \in Nodes \ {n} : Same(m),
         worker'[n].epoch = worker[n].epoch, IsUnseen(n)' => IsUnseen(n),
         SlotFree \/ (IsBusy(n)' => IsBusy(n))
  PROVE  SlotInv'
<1>1. Visiting = {} /\ Visiting' = {}
  BY DEF Visiting, Phases
<1>2. /\ \A m \in Nodes \ {n} : IsUnseen(m)' <=> IsUnseen(m)
      /\ \A m \in Nodes \ {n} : IsBusy(m)' <=> IsBusy(m)
      /\ \A m \in Nodes \ {n} : Occupies(m)' <=> Occupies(m)
      /\ \A m \in Nodes \ {n} : worker'[m].epoch = worker[m].epoch
  BY SameKeeps, SameAre DEF IsUnseen, IsBusy, Same
<1>3. Unseen' \subseteq Unseen
  BY <1>2 DEF Unseen
<1>4. CASE IsBusy(n)' => IsBusy(n)
  BY <1>1, <1>2, <1>3, <1>4, CalmKeeps
<1>5. CASE SlotFree
  <2>1. /\ IsFiniteSet(Inflight') /\ Cardinality(Inflight') \in Nat
        /\ Cardinality(Inflight') <= Cardinality(Inflight) + 1
    <3>1. Inflight' \subseteq Inflight \cup {n}
      BY <1>2 DEF Inflight
    <3> QED
      BY <3>1, SetsAre, CountOneMore, FS_CardinalityType
  <2>2. /\ IsFiniteSet(Unseen') /\ Cardinality(Unseen') \in Nat
        /\ Cardinality(Unseen') <= Cardinality(Unseen)
    BY <1>3, SetsAre, CountLess, FS_CardinalityType
  <2>3. /\ Cardinality(Busy') <= Cardinality(Inflight') + Cardinality(Unseen')
        /\ Cardinality(Busy') \in Nat
    <3>1. Busy' = Inflight' \cup Unseen'
      BY DEF Busy, Inflight, Unseen, IsBusy, IsUnseen, Occupies
    <3>2. /\ IsFiniteSet(Inflight' \cup Unseen')
          /\ Cardinality(Inflight' \cup Unseen') =
               Cardinality(Inflight') + Cardinality(Unseen') - Cardinality(Inflight' \cap Unseen')
      BY <2>1, <2>2, FS_Union
    <3>3. IsFiniteSet(Inflight' \cap Unseen')
      BY <2>1, FS_Intersection
    <3>4. Cardinality(Inflight' \cap Unseen') \in Nat /\ Cardinality(Inflight' \cup Unseen') \in Nat
      BY <3>2, <3>3, FS_CardinalityType
    <3> QED
      BY <2>1, <2>2, <3>1, <3>2, <3>4
  <2>4. Unseen \ Visiting = Unseen /\ (Unseen \ Visiting)' = Unseen'
    BY <1>1
  <2>5. Cardinality(Unseen) <= crashes /\ Cardinality(Inflight) < limits.capacity
    BY <1>5, <2>4 DEF SlotInv, SlotFree
  <2>6. Replaced' = Replaced
    BY <1>2 DEF Replaced
  <2>7. Cardinality((Unseen \ Visiting)') <= crashes'
    BY <2>2, <2>4, <2>5, SetsAre
  <2>8. Cardinality(Busy') <= limits.capacity + crashes + Cardinality(Replaced)
    BY <2>1, <2>2, <2>3, <2>5, SetsAre
  <2> QED
    BY <2>6, <2>7, <2>8 DEF SlotInv
<1> QED
  BY <1>4, <1>5

\* An execution that is replaced counts for itself.
LEMMA RebindSlots ==
  ASSUME TypeOK, TypeOK', SlotInv, UNCHANGED <<limits, crashes>>, phase \in Phases, phase' \in Phases,
         NEW n \in Nodes, \A m \in Nodes \ {n} : Same(m),
         worker'[n].epoch = worker[n].epoch + 1, ~IsUnseen(n)'
  PROVE  SlotInv'
<1>1. Visiting = {} /\ Visiting' = {}
  BY DEF Visiting, Phases
<1>2. /\ \A m \in Nodes \ {n} : IsUnseen(m)' <=> IsUnseen(m)
      /\ \A m \in Nodes \ {n} : IsBusy(m)' <=> IsBusy(m)
      /\ \A m \in Nodes \ {n} : worker'[m].epoch = worker[m].epoch
  BY SameKeeps, SameAre DEF IsUnseen, IsBusy, Same
<1>3. Unseen' \subseteq Unseen /\ Busy' \subseteq Busy \cup {n}
  BY <1>2 DEF Unseen, Busy
<1>4. /\ Cardinality((Unseen \ Visiting)') <= Cardinality(Unseen \ Visiting)
      /\ Cardinality((Unseen \ Visiting)') \in Nat
  BY <1>1, <1>3, SetsAre, CountLess, FS_CardinalityType
<1>5. Cardinality(Busy') <= Cardinality(Busy) + 1 /\ Cardinality(Busy') \in Nat
  BY <1>3, SetsAre, CountOneMore, FS_CardinalityType
<1>6. Cardinality(Replaced') = Cardinality(Replaced) + 1
  <2>1. /\ worker[n].epoch \in Nat /\ limits.revisions \in Nat
        /\ worker[n].epoch + 1 \in 1..limits.revisions
    <3>1. worker[n].epoch \in Nat /\ limits.revisions \in Nat
      BY Fields, SetsAre
    <3>2. worker'[n].epoch \in 0..limits.revisions
      BY TypesAreNext DEF Types, WorkerType
    <3> QED
      BY <3>1, <3>2
  <2>2. \A m \in Nodes : worker[m].epoch \in Nat
    BY Fields
  <2> DEFINE e == <<n, worker[n].epoch + 1>>
  <2>3. Replaced' = Replaced \cup {e}
    BY <1>2, <2>1, <2>2 DEF Replaced
  <2>4. e \notin Replaced
    BY <2>1 DEF Replaced
  <2> HIDE DEF e
  <2> QED
    BY <2>3, <2>4, SetsAre, FS_AddElement
<1>7. Cardinality((Unseen \ Visiting)') <= crashes'
  BY <1>4, SetsAre DEF SlotInv
<1>8. Cardinality(Busy') <= limits.capacity + crashes + (Cardinality(Replaced) + 1)
  BY <1>5, SetsAre DEF SlotInv
<1> QED
  BY <1>6, <1>7, <1>8 DEF SlotInv

-----------------------------------------------------------------------------
(* Steps of one Worker.                                                    *)

\* A step of an Agent at n: the host has to be kept from nothing but n's delivery.
LEMMA AgentStep ==
  ASSUME TInv, NEW n \in Nodes, Types', limits' = limits,
         UNCHANGED <<worker, queue, taken, told, hostVars>>,
         \A m \in Nodes \ {n} : Same(m), Local(n)',
         \A k : StandsFor(n, k) => StandsFor(n, k)', crashes' = crashes,
         IsBusy(n)' => IsBusy(n), IsUnseen(n)' => IsUnseen(n)
  PROVE  TInv' /\ (SlotInv => SlotInv')
<1>1. \A m \in Nodes : Local(m)'
  BY SameKeeps DEF TInv
<1>2. \A m : /\ Bound(m)' = Bound(m) /\ Start(m)' = Start(m) /\ Seen(m)' = Seen(m)
  BY DEF Bound, Start, Key, Seen, Queued
<1>3. VisitsFollow'
  BY <1>2 DEF TInv, VisitsFollow, hostVars
<1>4. at' = at /\ sent' = sent /\ phase' = phase
  BY DEF at, hostVars
<1>5. phase = "record" => at \in Nodes
  BY AtIn DEF Phases
<1>6. DeliveryStands'
  <2> SUFFICES ASSUME phase = "record", NEW m \in {at'}, NEW k \in {sent'}
      PROVE  StandsFor(m, k)'
    BY <1>4 DEF DeliveryStands
  <2>1. m = at /\ k = sent /\ m \in Nodes
    BY <1>4, <1>5
  <2>2. StandsFor(m, k)
    BY <2>1 DEF TInv, DeliveryStands
  <2>3. CASE m = n
    BY <2>2, <2>3
  <2>4. CASE m # n
    BY <2>1, <2>2, <2>4, SameKeeps
  <2> QED
    BY <2>3, <2>4
<1>7. SlotInv => SlotInv'
  <2>1. Visiting' = Visiting
    BY <1>4 DEF Visiting
  <2>2. \A m \in Nodes : (IsBusy(m)' => IsBusy(m)) /\ (IsUnseen(m)' => IsUnseen(m))
    BY SameKeeps, SameAre DEF IsBusy, IsUnseen
  <2>3. (Unseen \ Visiting)' \subseteq Unseen \ Visiting
    BY <2>1, <2>2 DEF Unseen
  <2> QED
    BY <2>2, <2>3, CalmKeeps DEF TInv
<1> QED
  BY <1>1, <1>3, <1>6, <1>7, TypesAreNext DEF TInv

\* A step of the Scheduler at n.
LEMMA PassStep ==
  ASSUME TInv, NEW n \in Nodes, Types', limits' = limits,
         phase' \in Phases, changed' = TRUE, left' = left,
         \A m \in Nodes \ {n} : Same(m), Local(n)', Bound(n) => Bound(n)'
  PROVE  TInv'
<1>1. \A m \in Nodes : Local(m)'
  BY SameKeeps DEF TInv
<1>2. \A m \in Nodes : Bound(m) => Bound(m)'
  BY SameAre
<1>3. Top \in Nodes /\ left \subseteq Nodes /\ left' = left
  BY NodesAre, TypesAre DEF TInv, Types, HostType
<1>4. VisitsFollow'
  BY <1>2, <1>3, RankIs DEF TInv, VisitsFollow
<1>5. DeliveryStands'
  BY DEF DeliveryStands, Phases
<1> QED
  BY <1>1, <1>4, <1>5, TypesAreNext DEF TInv

-----------------------------------------------------------------------------
(* The Agents.                                                             *)

\* The pairs of a Node and a number up to f of it.
LEMMA PairsCount ==
  ASSUME NEW N, IsFiniteSet(N), NEW m \in Nat, NEW f \in [N -> Nat], NEW P,
         P = {r \in N \X (1..m) : r[2] <= f[r[1]]}
  PROVE  /\ IsFiniteSet(P) /\ Cardinality(P) \in Nat
         /\ \A n \in N : f[n] <= m => f[n] <= Cardinality(P)
<1>1. IsFiniteSet(N \X (1..m))
  <2>1. IsFiniteSet(1..m)
    BY FS_Interval
  <2> QED
    BY <2>1, FS_Product
<1>2. IsFiniteSet(P) /\ Cardinality(P) \in Nat
  BY <1>1, FS_Subset, FS_CardinalityType
<1>3. ASSUME NEW n \in N, f[n] <= m PROVE f[n] <= Cardinality(P)
  <2> DEFINE pair == [i \in 1..f[n] |-> <<n, i>>]
  <2>1. \A i \in 1..f[n] : <<n, i>> \in P
    BY <1>3
  <2>2. pair \in Injection(1..f[n], P)
    BY <2>1 DEF Injection, IsInjective
  <2>3. Cardinality(1..f[n]) <= Cardinality(P)
    BY <1>2, <2>2, FS_Injection
  <2>4. Cardinality(1..f[n]) = f[n]
    BY FS_Interval
  <2> QED
    BY <2>3, <2>4
<1> QED
  BY <1>2, <1>3

LEMMA RevisionsCount ==
  ASSUME TypeOK
  PROVE  /\ Cardinality(Revisions) \in Nat
         /\ \A n \in Nodes : revision[n] <= Cardinality(Revisions)
<1>1. revision \in [Nodes -> Nat] /\ \A n \in Nodes : revision[n] <= limits.revisions
  BY Fields, TypesAre DEF Types, RevisionType
<1>2. limits.revisions \in Nat
  BY LimitsAre DEF TypeOK
<1>3. Revisions = {r \in Nodes \X (1..limits.revisions) : r[2] <= revision[r[1]]}
  BY DEF Revisions
<1>4. /\ Cardinality(Revisions) \in Nat
      /\ \A n \in Nodes : revision[n] <= limits.revisions => revision[n] <= Cardinality(Revisions)
  BY <1>1, <1>2, <1>3, NodesAre, PairsCount
<1> QED
  BY <1>1, <1>4

LEMMA SubmitKeeps ==
  ASSUME TInv, NEW n \in Nodes, Submit(n)
  PROVE  TInv' /\ (SlotInv => SlotInv')
<1>1. /\ Types /\ Local(n) /\ Live(n) /\ node[n].state = "running"
      /\ ~Superseded(n) /\ ~Pending(n) /\ ~Undecided(n) /\ node[n].round < limits.rounds
      /\ node[n].round \in Nat
  BY TypesAre, Fields DEF TInv, Submit, MaySubmit, Undecided
<1>2. /\ verdict' = [verdict EXCEPT ![n] = "undecided"]
      /\ node' = [node EXCEPT ![n].round = @ + 1]
      /\ UNCHANGED <<limits, revision, worker, queue, proc, taken, told, idles, hostVars, crashes>>
  BY DEF Submit, backVars
<1>3. VerdictType' /\ verdict'[n] = "undecided" /\ \A m \in Nodes \ {n} : verdict'[m] = verdict[m]
  BY <1>1, <1>2 DEF Types, VerdictType
<1>4. /\ NodeType' /\ \A m \in Nodes \ {n} : node'[m] = node[m]
      /\ node'[n].state = node[n].state /\ node'[n].contract = node[n].contract
      /\ node'[n].round = node[n].round + 1
  <2>1. limits.rounds \in Nat
    BY <1>1, LimitsAre DEF Types, CountType
  <2> QED
    BY <1>1, <1>2, <2>1 DEF Types, NodeType
<1>5. Types'
  BY <1>1, <1>2, <1>3, <1>4 DEF Types, RevisionType, WorkerType, QueueType, ProcType, TakenType,
     HostType, CountType, hostVars
<1>6. \A m \in Nodes \ {n} : Same(m)
  BY <1>2, <1>3, <1>4 DEF Same
<1>7. Seen(n)' = Seen(n) /\ Bound(n)' = Bound(n) /\ Start(n)' = Start(n)
      /\ Superseded(n)' = Superseded(n)
  BY <1>2, <1>4 DEF Seen, Queued, Bound, Start, Key, Superseded
<1>8. Local(n)'
  <2>1. ContractAgrees(n)'
    BY <1>1, <1>2, <1>4, <1>7 DEF Local, ContractAgrees
  <2>2. VerdictAgrees(n)'
    <3>1. \A k \in Seen(n) : k.number \in Nat
      BY Fields DEF TInv, Keys
    <3> QED
      BY <1>1, <1>3, <1>4, <1>7, <3>1 DEF Local, VerdictAgrees
  <2>3. WorkerAgrees(n)'
    BY <1>1, <1>2, <1>3, <1>4, <1>7 DEF Local, WorkerAgrees, Live
  <2>4. StartIsFirst(n)'
    BY <1>1, <1>2, <1>7 DEF Local, StartIsFirst, Live
  <2> QED
    BY <2>1, <2>2, <2>3, <2>4 DEF Local
<1>9. \A k : StandsFor(n, k) => StandsFor(n, k)'
  BY <1>2, <1>3, <1>4 DEF StandsFor, Queued, Undecided
<1>10. IsBusy(n) /\ (IsUnseen(n)' => IsUnseen(n))
  BY <1>1, <1>2 DEF IsBusy, IsUnseen, Live, Quiescent
<1> QED
  BY <1>2, <1>5, <1>6, <1>8, <1>9, <1>10, AgentStep

LEMMA DecideKeeps ==
  ASSUME TInv, NEW n \in Nodes, Decide(n)
  PROVE  TInv' /\ (SlotInv => SlotInv')
<1>1. /\ Types /\ Local(n) /\ node[n].state = "awaiting_review" /\ Undecided(n)
  BY TypesAre DEF TInv, Decide
<1>2. PICK v \in {"accept", "revise"} : verdict' = [verdict EXCEPT ![n] = v]
  BY DEF Decide
<1>3. UNCHANGED <<limits, node, revision, worker, queue, proc, taken, told, idles, hostVars, crashes>>
  BY DEF Decide, backVars
<1>4. VerdictType' /\ verdict'[n] = v /\ \A m \in Nodes \ {n} : verdict'[m] = verdict[m]
  BY <1>1, <1>2 DEF Types, VerdictType
<1>5. Types'
  BY <1>1, <1>3, <1>4 DEF Types, NodeType, RevisionType, WorkerType, QueueType, ProcType,
     TakenType, HostType, CountType, hostVars
<1>6. \A m \in Nodes \ {n} : Same(m)
  BY <1>3, <1>4 DEF Same
<1>7. Seen(n)' = Seen(n) /\ Bound(n)' = Bound(n) /\ Start(n)' = Start(n)
      /\ Superseded(n)' = Superseded(n)
  BY <1>3 DEF Seen, Queued, Bound, Start, Key, Superseded
<1>8. Local(n)'
  <2>1. ContractAgrees(n)'
    BY <1>1, <1>3, <1>7 DEF Local, ContractAgrees
  <2>2. VerdictAgrees(n)'
    BY <1>1, <1>3, <1>4, <1>7 DEF Local, VerdictAgrees, Undecided
  <2>3. WorkerAgrees(n)'
    BY <1>1, <1>3, <1>7 DEF Local, WorkerAgrees
  <2>4. StartIsFirst(n)'
    BY <1>1, <1>3, <1>7 DEF Local, StartIsFirst
  <2> QED
    BY <2>1, <2>2, <2>3, <2>4 DEF Local
<1>9. \A k : ~StandsFor(n, k)
  BY <1>1 DEF StandsFor
<1>10. /\ Quiescent(n)' = Quiescent(n) /\ Live(n)' = Live(n)
       /\ \A k : ~Gate(n, k)'
  BY <1>1, <1>3, <1>4 DEF Quiescent, Live, Gate
<1>11. (IsBusy(n)' => IsBusy(n)) /\ (IsUnseen(n)' => IsUnseen(n))
  BY <1>10 DEF IsBusy, IsUnseen, Occupies
<1> QED
  BY <1>3, <1>5, <1>6, <1>8, <1>9, <1>11, AgentStep

LEMMA ReviseKeeps ==
  ASSUME TInv, NEW n \in Nodes, Revise(n)
  PROVE  TInv' /\ (SlotInv => SlotInv')
<1>1. /\ Types /\ Local(n) /\ node[n].state \in {"running", "awaiting_review"}
      /\ ~Superseded(n) /\ ~Pending(n) /\ revision[n] \in Nat /\ node[n].contract \in Nat
  BY TypesAre, Fields DEF TInv, Revise
<1>2. /\ revision' = [revision EXCEPT ![n] = @ + 1]
      /\ UNCHANGED <<limits, node, verdict, worker, queue, proc, taken, told, idles, hostVars, crashes>>
  BY DEF Revise, backVars
<1>3. /\ RevisionType' /\ revision'[n] = revision[n] + 1
      /\ \A m \in Nodes \ {n} : revision'[m] = revision[m]
  <2>1. revision[n] <= Cardinality(Revisions) /\ Cardinality(Revisions) < limits.revisions
    BY RevisionsCount DEF TInv, Revise
  <2>2. limits.revisions \in Nat /\ Cardinality(Revisions) \in Nat
    BY RevisionsCount, LimitsAre DEF TInv, TypeOK
  <2>3. revision[n] + 1 \in 0..limits.revisions
    BY <1>1, <2>1, <2>2
  <2> QED
    BY <1>1, <1>2, <2>3 DEF Types, RevisionType
<1>4. Types'
  BY <1>1, <1>2, <1>3 DEF Types, NodeType, VerdictType, WorkerType, QueueType, ProcType,
     TakenType, HostType, CountType, hostVars
<1>5. \A m \in Nodes \ {n} : Same(m)
  BY <1>2, <1>3 DEF Same
<1>6. Seen(n)' = Seen(n) /\ Bound(n)' = Bound(n) /\ Start(n)' = Start(n)
      /\ Superseded(n)' = Superseded(n)
  BY <1>2 DEF Seen, Queued, Bound, Start, Key, Superseded
<1>7. revision[n] <= node[n].contract
  BY <1>1 DEF Pending
<1>8. Local(n)'
  <2>1. ContractAgrees(n)'
    BY <1>1, <1>2, <1>3, <1>6, <1>7 DEF Local, ContractAgrees
  <2>2. VerdictAgrees(n)'
    BY <1>1, <1>2, <1>6 DEF Local, VerdictAgrees, Undecided
  <2>3. WorkerAgrees(n)'
    BY <1>1, <1>2, <1>6 DEF Local, WorkerAgrees
  <2>4. StartIsFirst(n)'
    BY <1>1, <1>2, <1>6 DEF Local, StartIsFirst, Undecided
  <2> QED
    BY <2>1, <2>2, <2>3, <2>4 DEF Local
<1>9. Pending(n)'
  BY <1>1, <1>2, <1>3, <1>7 DEF Local, ContractAgrees, Pending
<1>10. \A k : StandsFor(n, k) => StandsFor(n, k)'
  BY <1>2, <1>9 DEF StandsFor, Queued
<1>11. /\ Quiescent(n)' = Quiescent(n) /\ Live(n)' = Live(n)
       /\ \A k : ~Gate(n, k)'
  BY <1>2, <1>9 DEF Quiescent, Live, Gate
<1>12. (IsBusy(n)' => IsBusy(n)) /\ (IsUnseen(n)' => IsUnseen(n))
  BY <1>11 DEF IsBusy, IsUnseen, Occupies
<1> QED
  BY <1>2, <1>4, <1>5, <1>8, <1>10, <1>12, AgentStep

LEMMA TurnEndsKeeps ==
  ASSUME TInv, NEW n \in Nodes, TurnEnds(n)
  PROVE  TInv' /\ (SlotInv => SlotInv')
<1>1. Types /\ Local(n) /\ Live(n)
  BY TypesAre DEF TInv, TurnEnds
<1>2. /\ proc' = [proc EXCEPT ![n] = "ended"] /\ idles' \in 0..limits.idles
      /\ UNCHANGED <<limits, nodeVars, worker, queue, taken, told, hostVars, crashes>>
  <2>1. idles \in 0..limits.idles /\ limits.idles \in Nat
    BY <1>1, LimitsAre DEF Types, CountType
  <2> QED
    BY <2>1 DEF TurnEnds
<1>3. ProcType' /\ proc'[n] = "ended" /\ \A m \in Nodes \ {n} : proc'[m] = proc[m]
  BY <1>1, <1>2 DEF Types, ProcType
<1>4. Types'
  BY <1>1, <1>2, <1>3 DEF Types, NodeType, VerdictType, RevisionType, WorkerType, QueueType,
     TakenType, HostType, CountType, hostVars, nodeVars
<1>5. \A m \in Nodes \ {n} : Same(m)
  BY <1>2, <1>3 DEF Same, nodeVars
<1>6. /\ Seen(n)' = Seen(n) /\ Bound(n)' = Bound(n) /\ Start(n)' = Start(n)
      /\ Superseded(n)' = Superseded(n) /\ Read(n)' = Read(n)
  BY <1>2 DEF Seen, Read, Queued, Bound, Start, Key, Superseded, nodeVars
<1>7. Local(n)'
  <2>1. ContractAgrees(n)'
    BY <1>1, <1>2, <1>6 DEF Local, ContractAgrees, nodeVars
  <2>2. VerdictAgrees(n)'
    BY <1>1, <1>2, <1>6 DEF Local, VerdictAgrees, Undecided, nodeVars
  <2>3. WorkerAgrees(n)'
    BY <1>1, <1>2, <1>6 DEF Local, WorkerAgrees, nodeVars, Live
  <2>4. StartIsFirst(n)'
    BY <1>1, <1>6 DEF Local, StartIsFirst, Live
  <2> QED
    BY <2>1, <2>2, <2>3, <2>4 DEF Local
<1>8. \A k : Gate(n, k)' <=> Gate(n, k)
  BY <1>2, <1>6, SameGatesKeep DEF SameGates, nodeVars
<1>9. \A k : StandsFor(n, k) => StandsFor(n, k)'
  BY <1>2, <1>8 DEF StandsFor, Queued, Undecided, Pending, nodeVars
<1>10. /\ Quiescent(n)' = Quiescent(n) /\ Queued(n)' = Queued(n) /\ ~Live(n)'
       /\ worker'[n] = worker[n]
  BY <1>2, <1>3 DEF Quiescent, Queued, Live
<1>11. (IsBusy(n)' => IsBusy(n)) /\ ~IsUnseen(n)'
  BY <1>8, <1>10 DEF IsBusy, IsUnseen, Occupies
<1> QED
  BY <1>2, <1>4, <1>5, <1>7, <1>9, <1>11, AgentStep

-----------------------------------------------------------------------------
(* The Scheduler.                                                          *)

LEMMA CommitIs ==
  ASSUME TypeOK, NEW here, Commit(here)
  PROVE  /\ phase \in Phases /\ here \in Phases /\ phase' = here
         /\ changed' = TRUE /\ left' = left /\ sent' = sent
         /\ Due(here) /\ HostType'
<1>1. phase \in DOMAIN Rank /\ here \in DOMAIN Rank /\ Due(here)
  BY DEF Commit, Remaining
<1>2. phase' = here /\ changed' = TRUE /\ left' = left /\ sent' = sent
  BY DEF Commit
<1> QED
  BY <1>1, <1>2, RankIs, TypesAre DEF Types, HostType

LEMMA DueIs ==
  /\ Due("commit") <=> ToApply # {}
  /\ Due("start") <=> ToStart \cup ToCreate # {}
BY DEF Due

LEMMA PostIs ==
  ASSUME TypeOK, NEW n \in Nodes, NEW k \in Keys, k \notin Seen(n), Post(n, k),
         taken' = taken
  PROVE  /\ QueueType' /\ \A m \in Nodes \ {n} : queue'[m] = queue[m]
         /\ Queued(n)' = Queued(n) \cup {k} /\ Seen(n)' = Seen(n) \cup {k}
         /\ Read(n)' = Read(n)
<1>1. queue[n] \in Seq(Keys) /\ Distinct(queue[n]) /\ QueueType
  BY Fields, TypesAre DEF Types
<1>2. k \notin ToSet(queue[n]) /\ k \notin taken[n]
  BY DEF Seen, Queued
<1> DEFINE q == Append(queue[n], k)
<1>3. q \in Seq(Keys) /\ Distinct(q) /\ ToSet(q) = ToSet(queue[n]) \cup {k}
  BY <1>1, <1>2, AppendTo
<1>4. queue' = [queue EXCEPT ![n] = q]
  BY DEF Post
<1> HIDE DEF q
<1>5. queue'[n] = q /\ \A m \in Nodes \ {n} : queue'[m] = queue[m]
  BY <1>1, <1>4 DEF QueueType
<1>6. queue' \in [Nodes -> Seq(Keys)]
  BY <1>1, <1>3, <1>4 DEF QueueType
<1>7. \A m \in Nodes : Distinct(queue'[m])
  BY <1>1, <1>3, <1>5 DEF QueueType
<1>8. QueueType'
  BY <1>6, <1>7 DEF QueueType, Distinct
<1>9. Queued(n)' = Queued(n) \cup {k}
  BY <1>3, <1>5 DEF Queued
<1> QED
  BY <1>2, <1>5, <1>8, <1>9 DEF Seen, Read, Queued

\* A message is sent that is no feedback, or feedback on the latest candidate.
LEMMA PostKeeps ==
  ASSUME TInv, NEW here, Commit(here), NEW n \in Nodes, NEW k \in Keys, k \notin Seen(n),
         Post(n, k), UNCHANGED <<limits, nodeVars, worker, backVars, idles, crashes>>,
         k.kind = "revise" => /\ k.number = node[n].round
                              /\ node[n].state = "running" /\ verdict[n] = "revise",
         Occupies(n) \/ SlotFree
  PROVE  TInv' /\ (SlotInv => SlotInv')
<1>1. Types /\ Local(n) /\ TypeOK
  BY TypesAre DEF TInv
<1>2. /\ UNCHANGED <<limits, node, verdict, revision, worker, proc, taken, told, idles, crashes>>
  BY DEF nodeVars, backVars
<1>3. /\ QueueType' /\ \A m \in Nodes \ {n} : queue'[m] = queue[m]
      /\ Queued(n)' = Queued(n) \cup {k} /\ Seen(n)' = Seen(n) \cup {k}
  BY <1>1, <1>2, PostIs
<1>4. /\ phase' \in Phases /\ changed' = TRUE /\ left' = left /\ HostType'
  BY <1>1, CommitIs
<1>5. Types'
  BY <1>1, <1>2, <1>3, <1>4 DEF Types, NodeType, VerdictType, RevisionType, WorkerType, ProcType,
     TakenType, CountType
<1>6. \A m \in Nodes \ {n} : Same(m)
  BY <1>2, <1>3 DEF Same
<1>7. Bound(n)' = Bound(n) /\ Start(n)' = Start(n) /\ Superseded(n)' = Superseded(n)
      /\ Undecided(n)' = Undecided(n)
  BY <1>2 DEF Bound, Start, Key, Superseded, Undecided
<1>8. Local(n)'
  <2>1. ContractAgrees(n)'
    BY <1>1, <1>2, <1>7 DEF Local, ContractAgrees
  <2>2. VerdictAgrees(n)'
    <3>1. node[n].round \in Nat
      BY <1>1, Fields
    <3>2. verdict[n] = "revise" => ~Undecided(n)
      BY DEF Undecided
    <3> QED
      BY <1>1, <1>2, <1>3, <1>7, <3>1, <3>2 DEF Local, VerdictAgrees
  <2>3. WorkerAgrees(n)'
    BY <1>1, <1>2, <1>7 DEF Local, WorkerAgrees
  <2>4. StartIsFirst(n)'
    BY <1>1, <1>2, <1>3, <1>7 DEF Local, StartIsFirst
  <2> QED
    BY <2>1, <2>2, <2>3, <2>4 DEF Local
<1>9. TInv'
  BY <1>2, <1>4, <1>5, <1>6, <1>7, <1>8, PassStep
<1>10. SlotInv => SlotInv'
  <2>1. phase \in Phases /\ phase' \in Phases
    BY <1>1, CommitIs
  <2>2. Occupies(n) => IsBusy(n)
    BY DEF IsBusy
  <2>3. IsUnseen(n)' => IsUnseen(n)
    BY <1>2 DEF IsUnseen, Live, Quiescent
  <2>4. worker'[n].epoch = worker[n].epoch
    BY <1>2
  <2> QED
    BY <1>1, <1>2, <1>6, <2>1, <2>2, <2>3, <2>4, PassSlots
<1> QED
  BY <1>9, <1>10

LEMMA ToApplyIs ==
  ASSUME NEW n \in ToApply
  PROVE  /\ n \in Nodes
         /\ \/ node[n].state = "running" /\ Undecided(n) /\ Applied(n) = "awaiting_review"
            \/ node[n].state = "awaiting_review" /\ verdict[n] = "accept" /\ Applied(n) = "succeeded"
            \/ node[n].state = "awaiting_review" /\ verdict[n] = "revise" /\ Applied(n) = "running"
BY DEF ToApply, Applied

\* The state of one Node is set.
LEMMA StateIs ==
  ASSUME Types, NEW n \in Nodes, NEW s \in States, node' = [node EXCEPT ![n].state = s],
         limits' = limits
  PROVE  /\ NodeType' /\ \A m \in Nodes \ {n} : node'[m] = node[m]
         /\ node'[n].state = s /\ node'[n].round = node[n].round
         /\ node'[n].contract = node[n].contract
BY DEF Types, NodeType

LEMMA ApplyFactsKeeps ==
  ASSUME TInv, ApplyFacts, UNCHANGED <<limits, idles, crashes>>
  PROVE  TInv' /\ (SlotInv => SlotInv')
<1>1. Types /\ TypeOK
  BY TypesAre DEF TInv
<1>2. /\ phase' \in Phases /\ changed' = TRUE /\ left' = left /\ HostType' /\ ToApply # {}
  <2>1. /\ phase' \in Phases /\ changed' = TRUE /\ left' = left /\ HostType' /\ Due("commit")
    BY <1>1, CommitIs DEF ApplyFacts
  <2> QED
    BY <2>1, DueIs
<1>3. PICK n \in ToApply : node' = [node EXCEPT ![n].state = Applied(n)]
  <2>1. ToApply \in SUBSET Nodes
    BY DEF ToApply
  <2> QED
    BY <1>2, <2>1, FirstIn DEF ApplyFacts
<1>4. UNCHANGED <<limits, verdict, revision, worker, queue, proc, taken, told, idles, crashes>>
  BY DEF ApplyFacts, backVars
<1>5. /\ n \in Nodes /\ Applied(n) \in States
      /\ \/ node[n].state = "running" /\ Undecided(n) /\ Applied(n) = "awaiting_review"
         \/ node[n].state = "awaiting_review" /\ verdict[n] = "accept" /\ Applied(n) = "succeeded"
         \/ node[n].state = "awaiting_review" /\ verdict[n] = "revise" /\ Applied(n) = "running"
  BY ToApplyIs DEF States
<1>6. /\ NodeType' /\ \A m \in Nodes \ {n} : node'[m] = node[m]
      /\ node'[n].state = Applied(n) /\ node'[n].round = node[n].round
      /\ node'[n].contract = node[n].contract
  BY <1>1, <1>3, <1>4, <1>5, StateIs
<1>7. Types'
  BY <1>1, <1>2, <1>4, <1>6 DEF Types, VerdictType, RevisionType, WorkerType, QueueType, ProcType,
     TakenType, CountType
<1>8. \A m \in Nodes \ {n} : Same(m)
  BY <1>4, <1>6 DEF Same
<1>9. Seen(n)' = Seen(n) /\ Bound(n)' = Bound(n) /\ Start(n)' = Start(n)
      /\ Superseded(n)' = Superseded(n) /\ Undecided(n)' = Undecided(n)
  BY <1>4, <1>6 DEF Seen, Queued, Bound, Start, Key, Superseded, Undecided
<1>10. Local(n) /\ (verdict[n] # "undecided" => ~Undecided(n)) /\ (Undecided(n) => verdict[n] = "undecided")
  BY <1>5 DEF TInv, Undecided
<1>11. Local(n)'
  <2>1. ContractAgrees(n)'
    BY <1>4, <1>5, <1>6, <1>9, <1>10 DEF Local, ContractAgrees
  <2>2. VerdictAgrees(n)'
    BY <1>4, <1>5, <1>6, <1>9, <1>10 DEF Local, VerdictAgrees
  <2>3. WorkerAgrees(n)'
    BY <1>4, <1>5, <1>6, <1>9, <1>10 DEF Local, WorkerAgrees
  <2>4. StartIsFirst(n)'
    BY <1>4, <1>5, <1>6, <1>9, <1>10 DEF Local, StartIsFirst
  <2> QED
    BY <2>1, <2>2, <2>3, <2>4 DEF Local
<1>12. TInv'
  BY <1>2, <1>4, <1>5, <1>7, <1>8, <1>9, <1>11, PassStep
<1>13. IsBusy(n)' => IsBusy(n)
  <2>1. /\ Quiescent(n)' = Quiescent(n) /\ Live(n)' = Live(n)
        /\ Queued(n)' = Queued(n) /\ Read(n)' = Read(n)
    BY <1>4 DEF Quiescent, Live, Queued, Read
  <2>2. \A k \in Queued(n) : ~Gate(n, k)'
    <3>1. CASE Applied(n) = "awaiting_review"
      BY <1>5, <1>9, <3>1 DEF Gate
    <3>2. CASE Applied(n) = "succeeded"
      BY <1>6, <3>2 DEF Gate
    <3>3. CASE Applied(n) = "running"
      <4>1. node[n].state = "awaiting_review" /\ verdict[n] = "revise"
        BY <1>5, <3>3
      <4>2. Feedback(n)' = Feedback(n)
        BY <1>6 DEF Feedback, Key
      <4>3. Feedback(n) \notin Seen(n)
        BY <1>1, <1>5, <1>10, <4>1, KeysAre DEF Local, VerdictAgrees
      <4>4. verdict'[n] = "revise" /\ Feedback(n)' \notin Read(n)'
        BY <1>4, <2>1, <4>1, <4>2, <4>3 DEF Seen, Read
      <4>5. \A k : Gate(n, k)' => k = Feedback(n)'
        BY <4>4 DEF Gate, FeedbackOwed
      <4> QED
        BY <4>2, <4>3, <4>5 DEF Seen
    <3> QED
      BY <1>5, <3>1, <3>2, <3>3
  <2> QED
    BY <2>1, <2>2 DEF IsBusy, Occupies
<1>14. SlotInv => SlotInv'
  <2>1. phase \in Phases /\ phase' \in Phases
    BY <1>1, CommitIs DEF ApplyFacts
  <2>2. IsUnseen(n)' => IsUnseen(n)
    BY <1>4 DEF IsUnseen, Live, Quiescent
  <2>3. worker'[n].epoch = worker[n].epoch
    BY <1>4
  <2> QED
    BY <1>1, <1>4, <1>5, <1>8, <1>13, <2>1, <2>2, <2>3, PassSlots
<1> QED
  BY <1>12, <1>14

LEMMA ApplyRevisionKeeps ==
  ASSUME TInv, NEW n \in ToRevise, ApplyRevision(n), Commit("acceptance"),
         UNCHANGED <<limits, revision, idles, crashes>>
  PROVE  TInv' /\ (SlotInv => SlotInv')
<1>1. /\ Types /\ TypeOK /\ n \in Nodes /\ Local(n)
      /\ Pending(n) /\ node[n].state = "running" /\ verdict[n] # "undecided"
  BY TypesAre DEF TInv, ToRevise
<1>2. /\ phase' \in Phases /\ changed' = TRUE /\ left' = left /\ HostType'
  BY <1>1, CommitIs
<1>3. /\ node' = [node EXCEPT ![n].contract = @ + 1]
      /\ verdict' = [verdict EXCEPT ![n] = "none"]
      /\ worker' = [worker EXCEPT ![n].desired = "stopped"]
      /\ UNCHANGED <<limits, revision, queue, proc, taken, told, idles, crashes>>
  BY DEF ApplyRevision, backVars
<1>4. /\ node[n].contract \in Nat /\ revision[n] \in Nat /\ worker[n].epoch \in Nat
      /\ revision[n] <= limits.revisions /\ limits.revisions \in Nat
      /\ revision[n] = node[n].contract + 1 /\ worker[n].epoch = node[n].contract
  <2>1. /\ node[n].contract \in Nat /\ revision[n] \in Nat /\ worker[n].epoch \in Nat
        /\ revision[n] <= limits.revisions /\ limits.revisions \in Nat
    BY <1>1, Fields, LimitsAre DEF TypeOK
  <2> QED
    BY <1>1, <2>1 DEF Local, ContractAgrees, Pending, Superseded
<1>5. /\ NodeType' /\ \A m \in Nodes \ {n} : node'[m] = node[m]
      /\ node'[n].state = node[n].state /\ node'[n].round = node[n].round
      /\ node'[n].contract = node[n].contract + 1
  BY <1>1, <1>3, <1>4 DEF Types, NodeType
<1>6. VerdictType' /\ verdict'[n] = "none" /\ \A m \in Nodes \ {n} : verdict'[m] = verdict[m]
  BY <1>1, <1>3 DEF Types, VerdictType
<1>7. /\ WorkerType' /\ \A m \in Nodes \ {n} : worker'[m] = worker[m]
      /\ worker'[n].epoch = worker[n].epoch /\ worker'[n].desired = "stopped"
      /\ worker'[n].observed = worker[n].observed
  BY <1>1, <1>3 DEF Types, WorkerType
<1>8. Types'
  BY <1>1, <1>2, <1>3, <1>5, <1>6, <1>7 DEF Types, RevisionType, QueueType, ProcType,
     TakenType, CountType
<1>9. \A m \in Nodes \ {n} : Same(m)
  BY <1>3, <1>5, <1>6, <1>7 DEF Same
<1>10. /\ Seen(n)' = Seen(n) /\ Bound(n)' = Bound(n) /\ Start(n)' = Start(n) /\ ~Undecided(n)'
  BY <1>3, <1>6, <1>7 DEF Seen, Queued, Bound, Start, Key, Undecided
<1>11. Local(n)'
  <2>1. ContractAgrees(n)'
    BY <1>1, <1>3, <1>4, <1>5, <1>6, <1>7 DEF ContractAgrees, Superseded
  <2>2. VerdictAgrees(n)'
    BY <1>1, <1>5, <1>10 DEF Local, VerdictAgrees
  <2>3. WorkerAgrees(n)'
    BY <1>1, <1>3, <1>5, <1>6, <1>7, <1>10 DEF Local, WorkerAgrees
  <2>4. StartIsFirst(n)'
    BY <1>1, <1>3, <1>5, <1>7, <1>10 DEF Local, StartIsFirst
  <2> QED
    BY <2>1, <2>2, <2>3, <2>4 DEF Local
<1>12. TInv'
  BY <1>1, <1>2, <1>3, <1>8, <1>9, <1>10, <1>11, PassStep
<1>13. /\ Quiescent(n)' = Quiescent(n) /\ Live(n)' = Live(n) /\ \A k : ~Gate(n, k)'
  BY <1>3, <1>4, <1>5, <1>7 DEF Quiescent, Live, Gate, Superseded
<1>14. SlotInv => SlotInv'
  <2>1. phase \in Phases /\ phase' \in Phases
    BY <1>1, CommitIs
  <2>2. (IsBusy(n)' => IsBusy(n)) /\ (IsUnseen(n)' => IsUnseen(n))
    BY <1>13 DEF IsBusy, IsUnseen, Occupies
  <2> QED
    BY <1>1, <1>3, <1>7, <1>9, <2>1, <2>2, PassSlots
<1> QED
  BY <1>12, <1>14

LEMMA RebindKeeps ==
  ASSUME TInv, NEW n \in ToReplace, Rebind(n), Commit("acceptance"),
         UNCHANGED <<limits, revision, idles, crashes>>
  PROVE  TInv' /\ (SlotInv => SlotInv')
<1>1. /\ Types /\ TypeOK /\ n \in Nodes /\ Local(n)
      /\ Superseded(n) /\ worker[n].observed = "stopped"
  BY TypesAre DEF TInv, ToReplace
<1>2. /\ phase' \in Phases /\ changed' = TRUE /\ left' = left /\ HostType'
  BY <1>1, CommitIs
<1>3. /\ worker' = [worker EXCEPT ![n] = [epoch |-> worker[n].epoch + 1, desired |-> "active",
                                         observed |-> "starting", turn |-> 0]]
      /\ queue' = [queue EXCEPT ![n] = <<>>]
      /\ proc' = [proc EXCEPT ![n] = "none"] /\ taken' = [taken EXCEPT ![n] = {}]
      /\ told' = told \ {n}
      /\ UNCHANGED <<limits, node, verdict, revision, idles, crashes>>
  BY <1>1 DEF Rebind, Types, WorkerType
<1>4. /\ worker[n].epoch \in Nat /\ node[n].contract \in 0..limits.revisions
      /\ limits.revisions \in Nat /\ node[n].round \in Nat
      /\ node[n].contract = worker[n].epoch + 1 /\ revision[n] = node[n].contract
      /\ node[n].state = "running" /\ verdict[n] = "none"
  BY <1>1, Fields, LimitsAre DEF TypeOK, Local, ContractAgrees
<1>5. /\ WorkerType' /\ \A m \in Nodes \ {n} : worker'[m] = worker[m]
      /\ worker'[n].epoch = node[n].contract /\ worker'[n].desired = "active"
      /\ worker'[n].observed = "starting"
  <2> DEFINE w == [epoch |-> worker[n].epoch + 1, desired |-> "active",
                   observed |-> "starting", turn |-> 0]
  <2>1. w \in [epoch : 0..limits.revisions, desired : {"active", "stopped"},
               observed : {"none", "starting", "active", "idle", "stopped"}, turn : Nat]
    BY <1>4
  <2>2. w.epoch = node[n].contract /\ w.desired = "active" /\ w.observed = "starting"
    BY <1>4
  <2>3. worker' = [worker EXCEPT ![n] = w]
    BY <1>3
  <2> HIDE DEF w
  <2> QED
    BY <1>1, <1>3, <2>1, <2>2, <2>3 DEF Types, WorkerType
<1>6. QueueType' /\ queue'[n] = <<>> /\ \A m \in Nodes \ {n} : queue'[m] = queue[m]
  <2>1. /\ queue'[n] = <<>> /\ \A m \in Nodes \ {n} : queue'[m] = queue[m]
        /\ queue' \in [Nodes -> Seq(Keys)]
    BY <1>1, <1>3, EmptySeq DEF Types, QueueType
  <2>2. Distinct(<<>>)
    BY DEF Distinct
  <2>3. \A m \in Nodes : Distinct(queue'[m])
    BY <1>1, <2>1, <2>2 DEF Types, QueueType
  <2> QED
    BY <2>1, <2>3 DEF QueueType, Distinct
<1>7. ProcType' /\ proc'[n] = "none" /\ \A m \in Nodes \ {n} : proc'[m] = proc[m]
  BY <1>1, <1>3 DEF Types, ProcType
<1>8. TakenType' /\ taken'[n] = {} /\ \A m \in Nodes \ {n} : taken'[m] = taken[m]
  BY <1>1, <1>3 DEF Types, TakenType
<1>9. Types'
  BY <1>1, <1>2, <1>3, <1>5, <1>6, <1>7, <1>8 DEF Types, NodeType, VerdictType, RevisionType,
     CountType
<1>10. \A m \in Nodes \ {n} : Same(m)
  BY <1>3, <1>5, <1>6, <1>7, <1>8 DEF Same
<1>11. Seen(n)' = {} /\ Bound(n)' /\ ~Superseded(n)' /\ ~Undecided(n)'
  <2>1. ToSet(<<>>) = {}
    BY DEF ToSet
  <2> QED
    BY <1>3, <1>4, <1>5, <1>6, <1>8, <2>1 DEF Seen, Queued, Bound, Superseded, Undecided
<1>12. Local(n)'
  <2>1. ContractAgrees(n)'
    BY <1>3, <1>4, <1>5, <1>11 DEF ContractAgrees
  <2>2. VerdictAgrees(n)'
    BY <1>3, <1>4, <1>11 DEF VerdictAgrees
  <2>3. WorkerAgrees(n)'
    BY <1>3, <1>4, <1>5, <1>7, <1>8, <1>11, FS_EmptySet DEF WorkerAgrees
  <2>4. StartIsFirst(n)'
    BY <1>3, <1>4, <1>5, <1>7, <1>11 DEF StartIsFirst
  <2> QED
    BY <2>1, <2>2, <2>3, <2>4 DEF Local
<1>13. TInv'
  BY <1>1, <1>2, <1>3, <1>9, <1>10, <1>11, <1>12, PassStep
<1>14. SlotInv => SlotInv'
  <2>1. phase \in Phases /\ phase' \in Phases
    BY <1>1, CommitIs
  <2>2. ~IsUnseen(n)' /\ worker'[n].epoch = worker[n].epoch + 1
    BY <1>4, <1>5, <1>7 DEF IsUnseen, Live
  <2> QED
    BY <1>1, <1>3, <1>10, <1>13, <2>1, <2>2, RebindSlots DEF TInv
<1> QED
  BY <1>13, <1>14

LEMMA ToStartIs ==
  ASSUME TypeOK, NEW n \in ToStart
  PROVE  /\ n \in Nodes /\ Bound(n) /\ node[n].state = "running"
         /\ Start(n) \notin Seen(n) /\ Start(n) \in Keys /\ Start(n).kind = "start"
BY KeysAre DEF ToStart

LEMMA StartingOccupies ==
  ASSUME NEW n \in Nodes, Local(n), Bound(n), Start(n) \notin Seen(n)
  PROVE  Occupies(n)
BY DEF Local, StartIsFirst, Occupies, Quiescent

\* A Worker is created.
Creates(n) ==
  /\ n \in ToCreate
  /\ node' = [node EXCEPT ![n].state = "running"]
  /\ worker' = [worker EXCEPT ![n].observed = "starting"]
  /\ UNCHANGED <<verdict, revision, queue, proc, taken, told>>

LEMMA StartWorkersIs ==
  ASSUME TypeOK, StartWorkers
  PROVE  \/ \E n \in ToStart : Post(n, Start(n)) /\ UNCHANGED <<nodeVars, worker, backVars>>
         \/ \E n \in ToCreate : Creates(n)
<1>1. ToStart \in SUBSET Nodes /\ ToCreate \in SUBSET Nodes
  BY DEF ToStart, ToCreate
<1>2. Due("start")
  BY CommitIs DEF StartWorkers
<1>3. CASE ToStart # {}
  BY <1>1, <1>3, FirstIn DEF StartWorkers, nodeVars
<1>4. CASE ToStart = {}
  <2>1. First(ToCreate) \in ToCreate
    BY <1>1, <1>2, <1>4, DueIs, FirstIn
  <2> QED
    BY <1>4, <2>1 DEF StartWorkers, Creates, backVars
<1> QED
  BY <1>3, <1>4

LEMMA CreatesKeeps ==
  ASSUME TInv, NEW n, Creates(n), Commit("start"), UNCHANGED <<limits, idles, crashes>>
  PROVE  TInv' /\ (SlotInv => SlotInv')
<1>1. /\ Types /\ TypeOK /\ n \in Nodes /\ Local(n) /\ node[n].state = "ready"
  BY TypesAre DEF TInv, Creates, ToCreate
<1>2. /\ phase' \in Phases /\ changed' = TRUE /\ left' = left /\ HostType'
  BY <1>1, CommitIs
<1>3. UNCHANGED <<limits, verdict, revision, queue, proc, taken, told, idles, crashes>>
  BY DEF Creates
<1>4. /\ NodeType' /\ \A m \in Nodes \ {n} : node'[m] = node[m]
      /\ node'[n].state = "running" /\ node'[n].round = node[n].round
      /\ node'[n].contract = node[n].contract
  BY <1>1, StateIs DEF Creates, States
<1>5. /\ WorkerType' /\ \A m \in Nodes \ {n} : worker'[m] = worker[m]
      /\ worker'[n].epoch = worker[n].epoch /\ worker'[n].desired = worker[n].desired
      /\ worker'[n].observed = "starting"
  BY <1>1, <1>3 DEF Types, WorkerType, Creates
<1>6. Types'
  BY <1>1, <1>2, <1>3, <1>4, <1>5 DEF Types, VerdictType, RevisionType, QueueType, ProcType,
     TakenType, CountType
<1>7. \A m \in Nodes \ {n} : Same(m)
  BY <1>3, <1>4, <1>5 DEF Same
<1>8. /\ verdict[n] = "none" /\ proc[n] = "none" /\ ~Bound(n) /\ ~Undecided(n)
      /\ ~Superseded(n)
  BY <1>1 DEF Local, WorkerAgrees, ContractAgrees, Undecided
<1>9. Seen(n)' = Seen(n) /\ Bound(n)' /\ ~Superseded(n)' /\ ~Undecided(n)'
  BY <1>3, <1>4, <1>5, <1>8 DEF Seen, Queued, Bound, Superseded, Undecided
<1>10. Local(n)'
  <2>1. ContractAgrees(n)'
    BY <1>1, <1>3, <1>4, <1>5, <1>9 DEF Local, ContractAgrees
  <2>2. VerdictAgrees(n)'
    BY <1>1, <1>3, <1>4, <1>9 DEF Local, VerdictAgrees
  <2>3. WorkerAgrees(n)'
    BY <1>1, <1>3, <1>4, <1>5, <1>8, <1>9 DEF Local, WorkerAgrees
  <2>4. StartIsFirst(n)'
    BY <1>3, <1>4, <1>5, <1>8, <1>9 DEF StartIsFirst
  <2> QED
    BY <2>1, <2>2, <2>3, <2>4 DEF Local
<1>11. TInv'
  BY <1>1, <1>2, <1>3, <1>6, <1>7, <1>9, <1>10, PassStep
<1>12. SlotInv => SlotInv'
  <2>1. phase \in Phases /\ phase' \in Phases
    BY <1>1, CommitIs
  <2>2. SlotFree /\ ~IsUnseen(n)'
    BY <1>3, <1>8 DEF Creates, ToCreate, IsUnseen, Live
  <2> QED
    BY <1>1, <1>3, <1>5, <1>7, <2>1, <2>2, PassSlots
<1> QED
  BY <1>11, <1>12

LEMMA StartWorkersKeeps ==
  ASSUME TInv, StartWorkers, UNCHANGED <<limits, idles, crashes>>
  PROVE  TInv' /\ (SlotInv => SlotInv')
<1>1. TypeOK /\ Commit("start")
  BY DEF TInv, StartWorkers
<1>2. CASE \E n \in ToStart : Post(n, Start(n)) /\ UNCHANGED <<nodeVars, worker, backVars>>
  <2>1. PICK n \in ToStart : Post(n, Start(n)) /\ UNCHANGED <<nodeVars, worker, backVars>>
    BY <1>2
  <2>2. /\ n \in Nodes /\ Start(n) \notin Seen(n) /\ Start(n) \in Keys /\ Start(n).kind # "revise"
        /\ Bound(n)
    BY <1>1, ToStartIs
  <2>3. Occupies(n)
    BY <2>2, StartingOccupies DEF TInv
  <2> DEFINE k == Start(n)
  <2>4. k \in Keys /\ k \notin Seen(n) /\ Post(n, k) /\ k.kind # "revise"
    BY <2>1, <2>2
  <2> HIDE DEF k
  <2> QED
    BY <1>1, <2>1, <2>2, <2>3, <2>4, PostKeeps
<1>3. CASE \E n \in ToCreate : Creates(n)
  BY <1>1, <1>3, CreatesKeeps
<1> QED
  BY <1>1, <1>2, <1>3, StartWorkersIs

Waking == {"reviewers", "revisions", "parents", "idle"}

LEMMA ToWakeIs ==
  ASSUME TypeOK, NEW here \in Waking, NEW m \in ToWake(here)
  PROVE  /\ m[1] \in Nodes /\ m[2] \in Keys
         /\ m[2].kind = "revise" => /\ m[2].number = node[m[1]].round
                                    /\ node[m[1]].state = "running" /\ verdict[m[1]] = "revise"
<1>1. \A c \in Nodes \ {Top} : Parent(c) \in Nodes
  BY NodesAre
<1>2. CASE here = "reviewers"
  <2>1. PICK c \in Nodes \ {Top} : m = <<Parent(c), Review(c)>>
    BY <1>2 DEF ToWake
  <2>2. Review(c) \in Keys /\ Review(c).kind = "review"
    BY KeysAre
  <2> QED
    BY <1>1, <2>1, <2>2
<1>3. CASE here = "revisions"
  <2>1. PICK n \in Nodes : m = <<n, Feedback(n)>> /\ node[n].state = "running" /\ verdict[n] = "revise"
    BY <1>3 DEF ToWake
  <2>2. Feedback(n) \in Keys /\ Feedback(n).number = node[n].round
    BY KeysAre
  <2> QED
    BY <2>1, <2>2
<1>4. CASE here = "parents"
  <2>1. \/ \E c \in Nodes \ {Top} : m = <<Parent(c), Accepted(c)>>
        \/ \E n \in {Top, Mid} : m = <<n, Join(n)>>
    BY <1>4 DEF ToWake
  <2>2. CASE \E c \in Nodes \ {Top} : m = <<Parent(c), Accepted(c)>>
    <3>1. PICK c \in Nodes \ {Top} : m = <<Parent(c), Accepted(c)>>
      BY <2>2
    <3>2. Accepted(c) \in Keys /\ Accepted(c).kind = "accepted"
      BY KeysAre
    <3> QED
      BY <1>1, <3>1, <3>2
  <2>3. CASE \E n \in {Top, Mid} : m = <<n, Join(n)>>
    <3>1. PICK n \in Nodes : m = <<n, Join(n)>>
      BY <2>3, NodesAre
    <3>2. Join(n) \in Keys /\ Join(n).kind = "join"
      BY KeysAre
    <3> QED
      BY <3>1, <3>2
  <2> QED
    BY <2>1, <2>2, <2>3
<1>5. CASE here = "idle"
  <2>1. PICK n \in Nodes : m = <<n, Continue(n)>>
    BY <1>5 DEF ToWake
  <2>2. Continue(n) \in Keys /\ Continue(n).kind = "continue"
    BY KeysAre
  <2> QED
    BY <2>1, <2>2
<1> QED
  BY <1>2, <1>3, <1>4, <1>5 DEF Waking

LEMMA WakeKeeps ==
  ASSUME TInv, NEW here \in Waking, Wake(here), UNCHANGED <<limits, idles, crashes>>
  PROVE  TInv' /\ (SlotInv => SlotInv')
<1>1. PICK m \in Owed(here) : Post(m[1], m[2])
  BY DEF Wake
<1>2. m \in ToWake(here) /\ m[2] \notin Seen(m[1]) /\ (Occupies(m[1]) \/ SlotFree)
  BY DEF Owed, DispatchAllowed, Seen
<1>3. PICK n \in Nodes, k \in Keys :
        /\ n = m[1] /\ k = m[2] /\ Post(n, k) /\ k \notin Seen(n)
        /\ k.kind = "revise" => /\ k.number = node[n].round
                                /\ node[n].state = "running" /\ verdict[n] = "revise"
        /\ Occupies(n) \/ SlotFree
  BY <1>1, <1>2, ToWakeIs DEF TInv
<1>4. Commit(here) /\ UNCHANGED <<nodeVars, worker, backVars>>
  BY DEF Wake
<1> QED
  BY <1>3, <1>4, PostKeeps

LEMMA ClosePassKeeps ==
  ASSUME TInv, ClosePass, UNCHANGED <<limits, idles, crashes>>
  PROVE  TInv' /\ (SlotInv => SlotInv')
<1>1. Types /\ TypeOK /\ \A n \in Nodes : Local(n)
  BY TypesAre DEF TInv
<1> DEFINE over == {n \in Nodes : node[n].state = "succeeded" /\ worker[n].desired = "active"}
<1>2. /\ phase \in Phases /\ Remaining = {} /\ changed' = FALSE
      /\ worker' = [n \in Nodes |-> IF n \in over THEN [worker[n] EXCEPT !.desired = "stopped"]
                                                   ELSE worker[n]]
      /\ \/ phase' = "commit" /\ left' = left
         \/ ~changed /\ phase' = "deliver" /\ left' = {n \in Nodes : Bound(n)}
      /\ UNCHANGED <<limits, node, verdict, revision, queue, proc, taken, told, sent, idles, crashes>>
  BY RankIs DEF ClosePass, nodeVars, backVars
<1>3. /\ WorkerType'
      /\ \A n \in Nodes : /\ worker'[n].epoch = worker[n].epoch
                          /\ worker'[n].observed = worker[n].observed
                          /\ worker'[n].desired \in {worker[n].desired, "stopped"}
  <2> HIDE DEF over
  <2> QED
    BY <1>1, <1>2 DEF Types, WorkerType
<1>4. /\ HostType' /\ phase' \in {"commit", "deliver"}
      /\ phase' = "deliver" => ~changed /\ left' = {n \in Nodes : Bound(n)}
      /\ left' \subseteq left \cup {n \in Nodes : Bound(n)}
  BY <1>1, <1>2 DEF Types, HostType, Phases
<1>5. Types'
  BY <1>1, <1>2, <1>3, <1>4 DEF Types, NodeType, VerdictType, RevisionType, QueueType, ProcType,
     TakenType, CountType
<1>6. \A n \in Nodes : /\ Seen(n)' = Seen(n) /\ Bound(n)' = Bound(n) /\ Start(n)' = Start(n)
                       /\ Superseded(n)' = Superseded(n) /\ Undecided(n)' = Undecided(n)
  BY <1>2, <1>3 DEF Seen, Queued, Bound, Start, Key, Superseded, Undecided
<1>7. ASSUME NEW n \in Nodes PROVE Local(n)'
  <2>1. ContractAgrees(n)'
    BY <1>1, <1>2, <1>3, <1>6 DEF Local, ContractAgrees
  <2>2. VerdictAgrees(n)'
    BY <1>1, <1>2, <1>6 DEF Local, VerdictAgrees
  <2>3. WorkerAgrees(n)'
    BY <1>1, <1>2, <1>3, <1>6 DEF Local, WorkerAgrees
  <2>4. StartIsFirst(n)'
    BY <1>1, <1>2, <1>3, <1>6 DEF Local, StartIsFirst
  <2> QED
    BY <2>1, <2>2, <2>3, <2>4 DEF Local
<1>8. Top \in Nodes /\ left \subseteq Nodes
  BY <1>1, NodesAre DEF Types, HostType
<1>9. Bound(Top) /\ \A n \in left : Bound(n)
  BY DEF TInv, VisitsFollow
<1>10. ASSUME ~changed, NEW n \in Nodes, Bound(n) PROVE Start(n) \in Seen(n)
  <2>1. phase = "commit"
    BY <1>2, <1>10, RankIs DEF TInv, VisitsFollow
  <2>2. ~Due("start")
    <3>1. /\ "start" \in DOMAIN Rank /\ phase \in DOMAIN Rank /\ Rank[phase] <= Rank["start"]
      BY <1>2, <2>1, RankIs DEF Phases
    <3>2. "start" \notin Remaining
      BY <1>2
    <3> QED
      BY <3>1, <3>2 DEF Remaining
  <2>3. n \notin ToStart
    BY <2>2, DueIs
  <2> QED
    BY <1>1, <1>10, <2>3 DEF ToStart, Local, StartIsFirst
<1>11. VisitsFollow'
  <2>1. Bound(Top)' /\ \A n \in left' : Bound(n)'
    BY <1>4, <1>6, <1>8, <1>9
  <2>2. phase' = "deliver" => left' # {} /\ \A n \in Nodes : Bound(n)' => Start(n)' \in Seen(n)'
    BY <1>4, <1>6, <1>8, <1>9, <1>10
  <2> QED
    BY <1>4, <2>1, <2>2, RankIs DEF VisitsFollow, Phases
<1>12. DeliveryStands'
  BY <1>4 DEF DeliveryStands
<1>13. TInv'
  BY <1>5, <1>7, <1>11, <1>12, TypesAreNext DEF TInv
<1>14. SlotInv => SlotInv'
  <2>1. \A n \in Nodes : /\ Live(n)' = Live(n) /\ Quiescent(n)' = Quiescent(n)
                         /\ SameGates(n) /\ Queued(n)' = Queued(n)
    BY <1>2, <1>3 DEF Live, Quiescent, SameGates, Read, Queued
  <2>2. \A n \in Nodes : Occupies(n)' <=> Occupies(n)
    BY <1>3, <2>1, SameGatesKeep DEF Occupies
  <2>3. \A n \in Nodes : (IsBusy(n)' => IsBusy(n)) /\ (IsUnseen(n)' => IsUnseen(n))
    BY <2>1, <2>2 DEF IsBusy, IsUnseen
  <2>4. Visiting = {} /\ Visiting' = {}
    BY <1>2, <1>4 DEF Visiting, Phases
  <2>5. (Unseen \ Visiting)' \subseteq Unseen \ Visiting
    BY <2>3, <2>4 DEF Unseen
  <2> QED
    BY <1>1, <1>2, <1>3, <2>3, <2>5, CalmKeeps
<1> QED
  BY <1>13, <1>14

-----------------------------------------------------------------------------
(* The Controller.                                                         *)

LEMMA VisitStep ==
  ASSUME TInv, phase \notin Phases, NEW n \in Nodes, n = at, Types',
         \A m \in Nodes \ {n} : Same(m), Local(n)',
         Seen(n)' = Seen(n), Start(n)' = Start(n), Bound(n)',
         left' \subseteq left, phase' = "commit" \/ (phase' \notin Phases /\ left' # {}),
         DeliveryStands', UNCHANGED <<limits, crashes>>, worker'[n].epoch = worker[n].epoch,
         IsBusy(n)' => IsBusy(n),
         ~IsUnseen(n)' \/ (phase' \in {"record", "report"} /\ left' = left)
  PROVE  TInv' /\ (SlotInv => SlotInv')
<1>1. \A m \in Nodes : Local(m)'
  BY SameKeeps DEF TInv
<1>2. \A m \in Nodes \ {n} : Bound(m)' = Bound(m) /\ Start(m)' = Start(m) /\ Seen(m)' = Seen(m)
  BY SameAre
<1>3. /\ Bound(Top) /\ Top \in Nodes /\ left \subseteq Nodes /\ Bound(n)
      /\ \A m \in left : Bound(m)
      /\ \A m \in Nodes : Bound(m) => Start(m) \in Seen(m)
  BY NodesAre, RankIs, AtIn, TypesAre DEF TInv, VisitsFollow, Types, HostType
<1>4. VisitsFollow'
  <2>1. Bound(Top)' /\ \A m \in left' : Bound(m)'
    BY <1>2, <1>3
  <2>2. \A m \in Nodes : Bound(m)' => Start(m)' \in Seen(m)'
    BY <1>2, <1>3
  <2> QED
    BY <2>1, <2>2, RankIs DEF VisitsFollow, Phases
<1>5. TInv'
  BY <1>1, <1>4, TypesAreNext DEF TInv
<1>6. SlotInv => SlotInv'
  <2>1. \A m \in Nodes \ {n} : /\ IsBusy(m)' <=> IsBusy(m)
                               /\ IsUnseen(m)' <=> IsUnseen(m)
                               /\ worker'[m].epoch = worker[m].epoch
    BY SameKeeps, SameAre DEF IsBusy, IsUnseen, Same
  <2>2. Visiting \subseteq {n}
    BY DEF Visiting
  <2>3. IsUnseen(n)' => n \in Visiting'
    BY DEF Visiting, at
  <2>4. (Unseen \ Visiting)' \subseteq Unseen \ Visiting
    BY <2>1, <2>2, <2>3 DEF Unseen
  <2> QED
    BY <2>1, <2>4, CalmKeeps DEF TInv
<1> QED
  BY <1>5, <1>6

LEMMA NextUpIs ==
  ASSUME NEW k \in NextUp
  PROVE  /\ k \in Queued(at) /\ Gate(at, k) /\ (k \in taken[at] \/ ~Live(at))
BY DEF NextUp, Deliverable, Queued, ToSet

LEMMA DeliverKeeps ==
  ASSUME TInv, Deliver, UNCHANGED <<limits, idles, crashes>>
  PROVE  TInv' /\ (SlotInv => SlotInv')
<1>1. /\ Types /\ TypeOK /\ phase = "deliver" /\ phase \notin Phases
      /\ phase' = "record" /\ changed' = changed /\ left' = left
  BY TypesAre DEF TInv, Deliver, Moves, Phases
<1>2. PICK n \in Nodes : n = at /\ Bound(n)
  BY <1>1, AtIn
<1>3. Local(n) /\ at' = n /\ Start(n) \in Seen(n) /\ left # {}
  BY <1>1, <1>2, RankIs DEF TInv, VisitsFollow, at
<1>4. PICK k \in NextUp :
        /\ sent' = k
        /\ proc' = IF k \in taken[n] THEN proc ELSE [proc EXCEPT ![n] = "live"]
        /\ taken' = [taken EXCEPT ![n] = @ \cup {k}]
  BY <1>2 DEF Deliver
<1>5. /\ worker[n].desired = "active"
      /\ UNCHANGED <<limits, node, verdict, revision, worker, queue, told, idles, crashes>>
  BY <1>2 DEF Deliver, nodeVars
<1>6. k \in Queued(n) /\ Gate(n, k) /\ k \in Keys
  <2>1. k \in Queued(n) /\ Gate(n, k)
    BY <1>2, NextUpIs
  <2> QED
    BY <1>1, <2>1, Fields
<1>7. /\ TakenType' /\ taken'[n] = taken[n] \cup {k} /\ \A m \in Nodes \ {n} : taken'[m] = taken[m]
  BY <1>1, <1>4, <1>6 DEF Types, TakenType
<1>8. ProcType' /\ \A m \in Nodes \ {n} : proc'[m] = proc[m]
  BY <1>1, <1>4 DEF Types, ProcType
<1>9. Types'
  BY <1>1, <1>4, <1>5, <1>6, <1>7, <1>8 DEF Types, NodeType, VerdictType, RevisionType, WorkerType,
     QueueType, HostType, CountType
<1>10. \A m \in Nodes \ {n} : Same(m)
  BY <1>5, <1>7, <1>8 DEF Same
<1>11. /\ Queued(n)' = Queued(n) /\ Seen(n)' = Seen(n) /\ Read(n)' = Read(n)
       /\ Bound(n)' = Bound(n) /\ Start(n)' = Start(n)
       /\ Superseded(n)' = Superseded(n) /\ Undecided(n)' = Undecided(n)
  BY <1>5, <1>6, <1>7 DEF Queued, Seen, Read, Bound, Start, Key, Superseded, Undecided
<1>12. node[n].state = "running" /\ worker[n].observed # "stopped"
  <2>1. node[n].state \in States
    BY <1>1, Fields
  <2> QED
    BY <1>2, <1>3, <1>5, <1>6, <2>1 DEF States, Gate, Local, VerdictAgrees, WorkerAgrees
<1>13. Local(n)'
  <2>1. ContractAgrees(n)'
    BY <1>3, <1>5, <1>11 DEF Local, ContractAgrees
  <2>2. VerdictAgrees(n)'
    BY <1>3, <1>5, <1>11 DEF Local, VerdictAgrees
  <2>3. WorkerAgrees(n)'
    <3>1. IsFiniteSet(taken'[n])
      BY <1>3, <1>7, FS_AddElement DEF Local, WorkerAgrees
    <3> QED
      BY <1>3, <1>5, <1>11, <1>12, <3>1 DEF Local, WorkerAgrees
  <2>4. StartIsFirst(n)'
    BY <1>3, <1>11 DEF StartIsFirst
  <2> QED
    BY <2>1, <2>2, <2>3, <2>4 DEF Local
<1>14. DeliveryStands'
  <2>1. Gate(n, k)'
    BY <1>5, <1>6, <1>11, SameGatesKeep DEF SameGates
  <2>2. StandsFor(n, k)'
    BY <1>5, <1>6, <1>7, <1>11, <1>12, <2>1 DEF StandsFor
  <2> QED
    BY <1>3, <1>4, <2>2 DEF DeliveryStands
<1>15. IsBusy(n)
  <2>1. worker[n].observed \in {"none", "starting", "active", "idle", "stopped"}
    BY <1>1, Fields
  <2> QED
    BY <1>2, <1>6, <1>12, <2>1 DEF IsBusy, Occupies, Quiescent, Bound
<1> QED
  BY <1>1, <1>2, <1>3, <1>5, <1>9, <1>10, <1>11, <1>13, <1>14, <1>15, VisitStep DEF Phases

LEMMA RecordIs ==
  ASSUME TInv, Record, NEW n \in Nodes, n = at
  PROVE  /\ QueueType' /\ \A m \in Nodes \ {n} : queue'[m] = queue[m]
         /\ Queued(n)' = Queued(n) \ {sent} /\ sent \in taken[n] /\ sent \in Queued(n)
         /\ StandsFor(n, sent)
<1>1. TypeOK /\ QueueType /\ phase = "record"
  BY TypesAre DEF TInv, Types, Record
<1>2. StandsFor(n, sent)
  BY <1>1 DEF TInv, DeliveryStands
<1>3. sent \in Queued(n) /\ sent \in taken[n]
  BY <1>2 DEF StandsFor
<1>4. PICK i \in DOMAIN queue[n] : i = CHOOSE j \in DOMAIN queue[n] : queue[n][j] = sent
  BY <1>3 DEF Queued, ToSet
<1>5. queue[n][i] = sent
  BY <1>3, <1>4 DEF Queued, ToSet
<1> DEFINE q == RemoveAt(queue[n], i)
<1>6. q \in Seq(Keys) /\ Distinct(q) /\ ToSet(q) = ToSet(queue[n]) \ {sent}
  BY <1>1, <1>5, Fields, RemoveFrom
<1>7. queue' = [queue EXCEPT ![n] = q]
  BY <1>1, <1>4 DEF Record, QueueType
<1> HIDE DEF q
<1>8. queue'[n] = q /\ \A m \in Nodes \ {n} : queue'[m] = queue[m]
  BY <1>1, <1>7 DEF QueueType
<1>9. queue' \in [Nodes -> Seq(Keys)]
  BY <1>1, <1>6, <1>7 DEF QueueType
<1>10. \A m \in Nodes : Distinct(queue'[m])
  BY <1>1, <1>6, <1>8 DEF QueueType
<1>11. QueueType'
  BY <1>9, <1>10 DEF QueueType, Distinct
<1> QED
  BY <1>2, <1>3, <1>6, <1>8, <1>11 DEF Queued

LEMMA RecordKeeps ==
  ASSUME TInv, Record, UNCHANGED <<limits, idles, crashes>>
  PROVE  TInv' /\ (SlotInv => SlotInv')
<1>1. /\ Types /\ TypeOK /\ phase = "record" /\ phase \notin Phases
      /\ phase' = "report" /\ changed' = changed /\ left' = left /\ sent' = None
  BY TypesAre DEF TInv, Record, Moves, Phases
<1>2. PICK n \in Nodes : n = at /\ Bound(n)
  BY <1>1, AtIn
<1>3. Local(n) /\ Start(n) \in Seen(n) /\ left # {}
  BY <1>1, <1>2, RankIs DEF TInv, VisitsFollow
<1>4. UNCHANGED <<limits, node, verdict, revision, worker, proc, taken, told, idles, crashes>>
  BY DEF Record, nodeVars, backVars
<1>5. /\ QueueType' /\ \A m \in Nodes \ {n} : queue'[m] = queue[m]
      /\ Queued(n)' = Queued(n) \ {sent} /\ sent \in taken[n]
  BY <1>2, RecordIs
<1>6. Types'
  BY <1>1, <1>4, <1>5 DEF Types, NodeType, VerdictType, RevisionType, WorkerType, ProcType,
     TakenType, HostType, CountType
<1>7. \A m \in Nodes \ {n} : Same(m)
  BY <1>4, <1>5 DEF Same
<1>8. /\ Seen(n)' = Seen(n) /\ Bound(n)' = Bound(n) /\ Start(n)' = Start(n)
      /\ Superseded(n)' = Superseded(n) /\ Undecided(n)' = Undecided(n)
  BY <1>4, <1>5 DEF Seen, Bound, Start, Key, Superseded, Undecided
<1>9. Local(n)'
  <2>1. ContractAgrees(n)'
    BY <1>3, <1>4, <1>8 DEF Local, ContractAgrees
  <2>2. VerdictAgrees(n)'
    BY <1>3, <1>4, <1>8 DEF Local, VerdictAgrees
  <2>3. WorkerAgrees(n)'
    BY <1>3, <1>4, <1>8 DEF Local, WorkerAgrees
  <2>4. StartIsFirst(n)'
    BY <1>3, <1>8 DEF StartIsFirst
  <2> QED
    BY <2>1, <2>2, <2>3, <2>4 DEF Local
<1>10. DeliveryStands'
  BY <1>1 DEF DeliveryStands
<1>11. IsBusy(n)' => IsBusy(n)
  <2>1. /\ Live(n)' = Live(n) /\ Quiescent(n)' = Quiescent(n)
    BY <1>4 DEF Live, Quiescent
  <2>2. StandsFor(n, sent)
    BY <1>2, RecordIs
  <2>3. CASE Gate(n, sent)
    <3>1. worker[n].observed \in {"none", "starting", "active", "idle", "stopped"}
      BY <1>1, Fields
    <3> QED
      BY <1>2, <2>2, <2>3, <3>1 DEF StandsFor, IsBusy, Occupies, Quiescent, Bound
  <2>4. CASE Undecided(n) \/ Pending(n)
    <3>1. \A k : ~Gate(n, k)'
      BY <1>4, <2>4 DEF Gate, Undecided, Pending
    <3> QED
      BY <2>1, <3>1 DEF IsBusy, Occupies
  <2> QED
    BY <2>2, <2>3, <2>4 DEF StandsFor
<1> QED
  BY <1>1, <1>2, <1>3, <1>4, <1>6, <1>7, <1>8, <1>9, <1>10, <1>11, VisitStep DEF Phases

LEMMA SkipKeeps ==
  ASSUME TInv, Skip, UNCHANGED <<limits, idles, crashes>>
  PROVE  TInv' /\ (SlotInv => SlotInv')
<1>1. /\ Types /\ TypeOK /\ phase = "deliver" /\ phase \notin Phases
      /\ phase' = "report" /\ changed' = changed /\ left' = left /\ sent' = sent
  BY TypesAre DEF TInv, Skip, Moves, Phases
<1>2. PICK n \in Nodes : n = at /\ Bound(n)
  BY <1>1, AtIn
<1>3. Local(n) /\ Start(n) \in Seen(n) /\ left # {}
  BY <1>1, <1>2, RankIs DEF TInv, VisitsFollow
<1>4. UNCHANGED <<limits, node, verdict, revision, worker, queue, proc, taken, idles, crashes>>
  BY DEF Skip, nodeVars
<1>5. told' = told \/ (told' = told \cup {n} /\ worker[n].desired = "stopped")
  BY <1>2 DEF Skip
<1>6. Types'
  BY <1>1, <1>4, <1>5 DEF Types, NodeType, VerdictType, RevisionType, WorkerType, QueueType,
     ProcType, TakenType, HostType, CountType
<1>7. \A m \in Nodes \ {n} : Same(m)
  BY <1>4, <1>5 DEF Same
<1>8. /\ Seen(n)' = Seen(n) /\ Bound(n)' = Bound(n) /\ Start(n)' = Start(n)
      /\ Superseded(n)' = Superseded(n) /\ Undecided(n)' = Undecided(n)
  BY <1>4 DEF Seen, Queued, Bound, Start, Key, Superseded, Undecided
<1>9. Local(n)'
  <2>1. ContractAgrees(n)'
    BY <1>3, <1>4, <1>8 DEF Local, ContractAgrees
  <2>2. VerdictAgrees(n)'
    BY <1>3, <1>4, <1>8 DEF Local, VerdictAgrees
  <2>3. WorkerAgrees(n)'
    BY <1>3, <1>4, <1>5, <1>8 DEF Local, WorkerAgrees
  <2>4. StartIsFirst(n)'
    BY <1>3, <1>8 DEF StartIsFirst
  <2> QED
    BY <2>1, <2>2, <2>3, <2>4 DEF Local
<1>10. DeliveryStands'
  BY <1>1 DEF DeliveryStands
<1>11. IsBusy(n)' => IsBusy(n)
  <2>1. /\ Live(n)' = Live(n) /\ Quiescent(n)' = Quiescent(n)
        /\ SameGates(n) /\ Queued(n)' = Queued(n)
    BY <1>4 DEF Live, Quiescent, SameGates, Read, Queued
  <2> QED
    BY <1>4, <2>1, SameGatesKeep DEF IsBusy, Occupies
<1> QED
  BY <1>1, <1>2, <1>3, <1>4, <1>6, <1>7, <1>8, <1>9, <1>10, <1>11, VisitStep DEF Phases

LEMMA ReportIs ==
  ASSUME TInv, Report, UNCHANGED <<limits, idles, crashes>>
  PROVE  \E n \in Nodes :
           /\ n = at /\ Bound(n) /\ left' = left \ {n}
           /\ phase' = IF left' = {} THEN "commit" ELSE "deliver"
           /\ WorkerType' /\ \A m \in Nodes \ {n} : worker'[m] = worker[m]
           /\ worker'[n].epoch = worker[n].epoch /\ worker'[n].desired = worker[n].desired
           /\ worker'[n].observed = Found(n) /\ Found(n) \in {"active", "stopped", "idle"}
           /\ UNCHANGED <<limits, node, verdict, revision, queue, proc, taken, told, sent, changed,
                          idles, crashes>>
<1>1. Types /\ phase \notin Phases
  BY TypesAre DEF TInv, Report, Phases
<1>2. PICK n \in Nodes : n = at /\ Bound(n)
  BY <1>1, AtIn
<1>3. Found(n) \in {"active", "stopped", "idle"}
  BY DEF Found
<1>4. Cardinality(taken[n]) \in Nat
  BY FS_CardinalityType DEF TInv, Local, WorkerAgrees
<1>5. worker' = [worker EXCEPT ![n].observed = Found(n), ![n].turn = Cardinality(taken[n])]
  BY <1>2 DEF Report
<1>6. /\ WorkerType' /\ \A m \in Nodes \ {n} : worker'[m] = worker[m]
      /\ worker'[n].epoch = worker[n].epoch /\ worker'[n].desired = worker[n].desired
      /\ worker'[n].observed = Found(n)
  <2> DEFINE o == Found(n)
             t == Cardinality(taken[n])
  <2>1. /\ o \in {"active", "stopped", "idle"} /\ t \in Nat
        /\ worker' = [worker EXCEPT ![n].observed = o, ![n].turn = t]
    BY <1>3, <1>4, <1>5
  <2> HIDE DEF o, t
  <2>2. /\ WorkerType' /\ \A m \in Nodes \ {n} : worker'[m] = worker[m]
        /\ worker'[n].epoch = worker[n].epoch /\ worker'[n].desired = worker[n].desired
        /\ worker'[n].observed = o
    BY <1>1, <2>1 DEF Types, WorkerType
  <2> QED
    BY <2>2 DEF o
<1> QED
  BY <1>2, <1>3, <1>6 DEF Report, nodeVars, backVars

LEMMA ReportKeeps ==
  ASSUME TInv, Report, UNCHANGED <<limits, idles, crashes>>
  PROVE  TInv' /\ (SlotInv => SlotInv')
<1>1. /\ Types /\ TypeOK /\ phase = "report" /\ phase \notin Phases
  BY TypesAre DEF TInv, Report, Phases
<1>2. PICK n \in Nodes :
        /\ n = at /\ Bound(n) /\ left' = left \ {n}
        /\ phase' = IF left' = {} THEN "commit" ELSE "deliver"
        /\ WorkerType' /\ \A m \in Nodes \ {n} : worker'[m] = worker[m]
        /\ worker'[n].epoch = worker[n].epoch /\ worker'[n].desired = worker[n].desired
        /\ worker'[n].observed = Found(n) /\ Found(n) \in {"active", "stopped", "idle"}
        /\ UNCHANGED <<limits, node, verdict, revision, queue, proc, taken, told, sent, changed,
                       idles, crashes>>
  BY ReportIs
<1>3. Local(n) /\ Start(n) \in Seen(n)
  BY <1>1, <1>2, RankIs DEF TInv, VisitsFollow
<1>4. /\ phase' \in {"commit", "deliver"} /\ left' \subseteq left
      /\ phase' = "commit" \/ (phase' \notin Phases /\ left' # {})
  BY <1>2 DEF Phases
<1>5. Types'
  BY <1>1, <1>2, <1>4 DEF Types, NodeType, VerdictType, RevisionType, QueueType,
     ProcType, TakenType, HostType, CountType, Phases
<1>6. \A m \in Nodes \ {n} : Same(m)
  BY <1>2 DEF Same
<1>7. /\ Seen(n)' = Seen(n) /\ Bound(n)' /\ Start(n)' = Start(n)
      /\ Superseded(n)' = Superseded(n) /\ Undecided(n)' = Undecided(n)
  BY <1>2 DEF Seen, Queued, Bound, Start, Key, Superseded, Undecided
<1>8. Found(n) = "stopped" => n \in told
  BY DEF Found
<1>9. Local(n)'
  <2>1. ContractAgrees(n)'
    BY <1>2, <1>3, <1>7 DEF Local, ContractAgrees
  <2>2. VerdictAgrees(n)'
    BY <1>2, <1>3, <1>7 DEF Local, VerdictAgrees
  <2>3. WorkerAgrees(n)'
    BY <1>2, <1>3, <1>7, <1>8 DEF Local, WorkerAgrees
  <2>4. StartIsFirst(n)'
    BY <1>3, <1>7 DEF StartIsFirst
  <2> QED
    BY <2>1, <2>2, <2>3, <2>4 DEF Local
<1>10. DeliveryStands'
  BY <1>4 DEF DeliveryStands
<1>11. /\ Live(n)' = Live(n) /\ SameGates(n) /\ Queued(n)' = Queued(n)
  BY <1>2 DEF Live, SameGates, Read, Queued
<1>12. IsBusy(n)' => IsBusy(n)
  <2>1. CASE Found(n) = "idle" /\ ~Live(n)
    <3>1. n \notin told
      BY <2>1 DEF Found
    <3>2. worker[n].observed \in {"starting", "active", "idle"}
      BY <1>1, <1>2, <1>3, <3>1, Fields DEF Local, WorkerAgrees, Bound
    <3>3. Occupies(n)' => \E k \in Queued(n) : Gate(n, k)
      BY <1>2, <1>11, <2>1, SameGatesKeep DEF Occupies, Quiescent
    <3> QED
      BY <1>11, <2>1, <3>2, <3>3 DEF IsBusy, Occupies, Quiescent
  <2>2. CASE Found(n) = "stopped" /\ ~Live(n)
    BY <1>2, <1>11, <2>2 DEF IsBusy, Occupies, Quiescent
  <2> QED
    BY <1>2, <2>1, <2>2 DEF IsBusy, Found
<1>13. ~IsUnseen(n)'
  BY <1>2, <1>11 DEF IsUnseen, Found, Quiescent
<1> QED
  BY <1>1, <1>2, <1>4, <1>5, <1>6, <1>7, <1>9, <1>10, <1>12, <1>13, VisitStep

LEMMA CrashKeeps ==
  ASSUME TInv, Crash
  PROVE  TInv' /\ (SlotInv => SlotInv')
<1>1. Types /\ \A n \in Nodes : Local(n)
  BY TypesAre DEF TInv
<1>2. /\ phase' = "commit" /\ changed' = FALSE /\ left' = {} /\ sent' = None
      /\ crashes < limits.crashes /\ crashes' = crashes + 1
      /\ UNCHANGED <<limits, node, verdict, revision, worker, queue, proc, taken, told, idles>>
  BY DEF Crash, nodeVars, backVars
<1>3. CountType'
  <2>1. limits.crashes \in Nat /\ crashes \in 0..limits.crashes
    BY <1>1, LimitsAre DEF Types, CountType
  <2> QED
    BY <1>1, <1>2, <2>1 DEF Types, CountType
<1>4. Types'
  BY <1>1, <1>2, <1>3 DEF Types, NodeType, VerdictType, RevisionType, WorkerType, QueueType,
     ProcType, TakenType, HostType, Phases
<1>5. \A n \in Nodes : Same(n)
  BY <1>2 DEF Same
<1>6. \A n \in Nodes : Local(n)'
  BY <1>1, <1>5, SameKeeps
<1>7. Bound(Top)'
  BY <1>2 DEF TInv, VisitsFollow, Bound
<1>8. VisitsFollow' /\ DeliveryStands'
  BY <1>2, <1>7, RankIs DEF VisitsFollow, DeliveryStands, Phases
<1>9. TInv'
  BY <1>4, <1>6, <1>8, TypesAreNext DEF TInv
<1>10. SlotInv => SlotInv'
  <2> SUFFICES ASSUME SlotInv PROVE SlotInv'
    OBVIOUS
  <2>1. \A n \in Nodes : (IsBusy(n)' <=> IsBusy(n)) /\ (IsUnseen(n)' <=> IsUnseen(n))
    BY <1>5, SameKeeps, SameAre DEF IsBusy, IsUnseen
  <2>2. Busy' = Busy /\ Unseen' = Unseen
    BY <2>1 DEF Busy, Unseen
  <2>3. Replaced' = Replaced
    BY <1>2 DEF Replaced
  <2>4. (Unseen \ Visiting)' \subseteq (Unseen \ Visiting) \cup {at}
    BY <2>2 DEF Visiting
  <2>5. TypeOK
    BY DEF TInv
  <2>6. /\ Cardinality((Unseen \ Visiting)') <= Cardinality(Unseen \ Visiting) + 1
        /\ Cardinality((Unseen \ Visiting)') \in Nat
    BY <2>4, <2>5, SetsAre, CountOneMore, FS_CardinalityType
  <2>7. Cardinality((Unseen \ Visiting)') <= crashes'
    BY <1>2, <2>5, <2>6, SetsAre DEF SlotInv
  <2>8. Cardinality(Busy) <= limits.capacity + (crashes + 1) + Cardinality(Replaced)
    BY <2>5, SetsAre DEF SlotInv
  <2> QED
    BY <1>2, <2>2, <2>3, <2>7, <2>8 DEF SlotInv
<1> QED
  BY <1>9, <1>10

-----------------------------------------------------------------------------
(* Types, and what they rest on, are kept.                                 *)

LEMMA InitHolds ==
  ASSUME Init
  PROVE  TInv
<1>1. limits \in Settings /\ limits.capacity \in Nat /\ limits.rounds \in Nat /\ limits.idles \in Nat
      /\ limits.revisions \in Nat /\ limits.crashes \in Nat
  BY LimitsAre DEF Init
<1>2. NodeType
  BY <1>1 DEF Init, NodeType, States
<1>3. VerdictType /\ RevisionType
  BY <1>1 DEF Init, VerdictType, RevisionType
<1>4. WorkerType
  BY <1>1 DEF Init, WorkerType
<1>5. QueueType
  BY EmptySeq DEF Init, QueueType, Distinct
<1>6. ProcType
  BY DEF Init, ProcType
<1>7. TakenType
  <2>1. \A n \in Nodes : Key("start", n, 0) \in Keys
    BY KeyIs
  <2>2. taken = [n \in Nodes |-> IF n \in ToSet(Leaves) THEN {} ELSE {Key("start", n, 0)}]
    BY DEF Init
  <2>3. \A n \in Nodes : (IF n \in ToSet(Leaves) THEN {} ELSE {Key("start", n, 0)}) \in SUBSET Keys
    BY <2>1
  <2> QED
    BY <2>2, <2>3 DEF TakenType
<1>8. HostType /\ CountType
  <2>1. HostType
    BY DEF Init, HostType, Phases
  <2>2. /\ told = {} /\ idles = 0 /\ crashes = 0
    BY DEF Init
  <2> QED
    BY <1>1, <2>1, <2>2 DEF CountType
<1>9. TypeOK
  BY <1>2, <1>3, <1>4, <1>5, <1>6, <1>7, <1>8, TypesAre DEF Types
<1>10. Top # Mid /\ Top \notin ToSet(Leaves) /\ Mid \notin ToSet(Leaves)
  BY PlacesDiffer
<1>11. ASSUME NEW n \in Nodes PROVE Local(n)
  <2>1. /\ node[n] = [state |-> IF n \in ToSet(Leaves) THEN "ready" ELSE "running",
                      round |-> 0, contract |-> 0]
        /\ verdict[n] = "none" /\ revision[n] = 0 /\ queue[n] = <<>>
        /\ taken[n] = (IF n \in ToSet(Leaves) THEN {} ELSE {Key("start", n, 0)})
        /\ worker[n].epoch = 0 /\ worker[n].desired = "active" /\ n \notin told
    BY DEF Init
  <2>2. worker[n].observed = IF n = Top THEN "idle" ELSE IF n = Mid THEN "active" ELSE "none"
    BY DEF Init
  <2>3. n \in ToSet(Leaves) => proc[n] = "none" /\ n # Top /\ n # Mid
    BY <1>10 DEF Init
  <2>4. n \notin ToSet(Leaves) => n \in {Top, Mid}
    BY OrderIsSeq
  <2>5. ToSet(queue[n]) = {} /\ Seen(n) = taken[n]
    BY <2>1 DEF ToSet, Seen, Queued
  <2>6. ContractAgrees(n)
    BY <2>1 DEF ContractAgrees, Superseded
  <2>7. VerdictAgrees(n)
    BY <2>1, <2>5 DEF VerdictAgrees, Key
  <2>8. WorkerAgrees(n)
    <3>1. IsFiniteSet(taken[n])
      BY <2>1, FS_EmptySet, FS_Singleton
    <3> QED
      BY <2>1, <2>2, <2>3, <2>4, <3>1 DEF WorkerAgrees, Bound
  <2>9. StartIsFirst(n)
    BY <2>1, <2>2, <2>3, <2>4, <2>5 DEF StartIsFirst, Bound, Start
  <2> QED
    BY <2>6, <2>7, <2>8, <2>9 DEF Local
<1>12. Bound(Top)
  BY NodesAre DEF Init, Bound
<1>13. VisitsFollow /\ DeliveryStands
  BY <1>12, RankIs DEF Init, VisitsFollow, DeliveryStands, Phases
<1> QED
  BY <1>9, <1>11, <1>13 DEF TInv

\* The steps of the specification.
LEMMA NextIs ==
  ASSUME Next
  PROVE  \/ \E n \in Nodes : Submit(n) \/ TurnEnds(n) \/ Decide(n) \/ Revise(n)
         \/ /\ UNCHANGED <<limits, idles, crashes>>
            /\ \/ ApplyFacts \/ StartWorkers \/ ClosePass
               \/ /\ Commit("acceptance") /\ UNCHANGED revision
                  /\ \/ \E n \in ToRevise : ApplyRevision(n)
                     \/ \E n \in ToReplace : Rebind(n)
               \/ \E here \in Waking : Wake(here)
               \/ Deliver \/ Record \/ Skip \/ Report
         \/ Crash
BY DEF Next, Host, Scheduler, Controller, Agent, Children, ReconcileAcceptance, Waking

LEMMA StepKeeps ==
  ASSUME TInv, Next
  PROVE  TInv' /\ (SlotInv => SlotInv')
BY NextIs, SubmitKeeps, TurnEndsKeeps, DecideKeeps, ReviseKeeps, ApplyFactsKeeps,
   StartWorkersKeeps, ClosePassKeeps, ApplyRevisionKeeps, RebindKeeps, WakeKeeps, DeliverKeeps,
   RecordKeeps, SkipKeeps, ReportKeeps, CrashKeeps

LEMMA StutterKeeps ==
  ASSUME TInv, UNCHANGED vars
  PROVE  TInv' /\ (SlotInv => SlotInv')
<1>1. Types /\ \A n \in Nodes : Local(n)
  BY TypesAre DEF TInv
<1>2. UNCHANGED <<limits, node, verdict, revision, worker, queue, proc, taken, told, idles,
                  phase, changed, left, sent, crashes>>
  BY DEF vars, nodeVars, backVars, hostVars
<1>3. Types'
  BY <1>1, <1>2 DEF Types, NodeType, VerdictType, RevisionType, WorkerType, QueueType,
     ProcType, TakenType, HostType, CountType
<1>4. \A n \in Nodes : Same(n)
  BY <1>2 DEF Same
<1>5. \A n \in Nodes : Local(n)'
  BY <1>1, <1>4, SameKeeps
<1>6. at' = at
  BY <1>2 DEF at
<1>7. VisitsFollow'
  <2>1. \A n : Bound(n)' = Bound(n) /\ Start(n)' = Start(n) /\ Seen(n)' = Seen(n)
    BY <1>2 DEF Bound, Start, Key, Seen, Queued
  <2> QED
    BY <1>2, <2>1 DEF TInv, VisitsFollow
<1>8. DeliveryStands'
  <2>1. phase = "record" => at \in Nodes
    BY AtIn DEF Phases
  <2> QED
    BY <1>2, <1>4, <1>6, <2>1, SameKeeps DEF TInv, DeliveryStands
<1>9. SlotInv => SlotInv'
  <2>1. \A n \in Nodes : (IsBusy(n)' <=> IsBusy(n)) /\ (IsUnseen(n)' <=> IsUnseen(n))
    BY <1>4, SameKeeps, SameAre DEF IsBusy, IsUnseen
  <2>2. (Unseen \ Visiting)' = Unseen \ Visiting
    BY <1>2, <1>6, <2>1 DEF Unseen, Visiting
  <2> QED
    BY <1>2, <2>1, <2>2, CalmKeeps DEF TInv
<1> QED
  BY <1>3, <1>5, <1>7, <1>8, <1>9, TypesAreNext DEF TInv

\* The state is as the Control Plane and the Backend keep it, whatever the
\* leaves and the bounds are: every Worker's contract, candidate, inbox and
\* process are among those the code can store.
THEOREM TypeCorrect == Spec => []TypeOK
<1>1. Init => TInv
  BY InitHolds
<1>2. TInv /\ [Next]_vars => TInv'
  BY StepKeeps, StutterKeeps
<1>3. TInv => TypeOK
  BY DEF TInv
<1> QED
  BY <1>1, <1>2, <1>3, PTL DEF Spec

-----------------------------------------------------------------------------
(* Slots.                                                                  *)

LEMMA InitSlots ==
  ASSUME Init
  PROVE  SlotInv
<1>1. TypeOK /\ limits.capacity \in Nat \ {0} /\ crashes = 0
  BY InitHolds, LimitAssumption DEF TInv, Init, Limits
<1>2. \A n \in Nodes : Live(n) => n = Mid /\ ~Quiescent(n)
  <2>1. ASSUME NEW n \in Nodes, Live(n) PROVE n = Mid
    BY <2>1 DEF Init, Live
  <2>2. worker[Mid].observed = "active"
    BY NodesAre, PlacesDiffer DEF Init
  <2> QED
    BY <2>1, <2>2 DEF Quiescent
<1>3. \A n \in Nodes : Occupies(n) => n = Mid
  <2> SUFFICES ASSUME NEW n \in Nodes, n # Mid PROVE ~Occupies(n)
    OBVIOUS
  <2>1. worker[n].observed \in {"idle", "none"} /\ queue[n] = <<>>
    BY DEF Init
  <2>2. Queued(n) = {}
    BY <2>1 DEF Queued, ToSet
  <2> QED
    BY <2>1, <2>2 DEF Occupies, Quiescent
<1>4. Unseen = {} /\ Busy \subseteq {} \cup {Mid}
  BY <1>2, <1>3 DEF Unseen, Busy, IsUnseen, IsBusy
<1>5. Unseen \ Visiting = {}
  BY <1>4
<1>6. Cardinality(Busy) <= 1
  BY <1>4, FS_EmptySet, CountOneMore
<1> QED
  BY <1>1, <1>5, <1>6, SetsAre, FS_EmptySet DEF SlotInv

\* However many Workers there are and whatever is asked of them, no more are
\* busy than the capacity allows, but for one per crash and one per execution
\* replaced (_occupies_slot, _dispatch_allowed, _start_workers).
THEOREM ExcessIsExplainedHolds == Spec => []ExcessIsExplained
<1>1. Init => TInv /\ SlotInv
  BY InitHolds, InitSlots
<1>2. TInv /\ SlotInv /\ [Next]_vars => (TInv /\ SlotInv)'
  BY StepKeeps, StutterKeeps
<1>3. TInv /\ SlotInv => ExcessIsExplained
  <2> SUFFICES ASSUME TInv, SlotInv PROVE ExcessIsExplained
    OBVIOUS
  <2> DEFINE live == {n \in Nodes : Live(n)}
  <2>1. live \subseteq Busy
    BY DEF Busy, IsBusy
  <2>2. TypeOK
    BY DEF TInv
  <2>3. Cardinality(live) <= Cardinality(Busy) /\ Cardinality(live) \in Nat
    BY <2>1, <2>2, SetsAre, CountLess, FS_CardinalityType
  <2> HIDE DEF live
  <2>4. Cardinality(live) <= limits.capacity + crashes + Cardinality(Replaced)
    BY <2>2, <2>3, SetsAre DEF SlotInv
  <2> QED
    BY <2>4 DEF live, ExcessIsExplained
<1> QED
  BY <1>1, <1>2, <1>3, PTL DEF Spec

=============================================================================
