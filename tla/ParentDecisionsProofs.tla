----------------------- MODULE ParentDecisionsProofs -----------------------
(***************************************************************************)
(* Proofs about the decisions of a Task: its questions and their answers,  *)
(* the revisions of its contract, and the stalls that are taken to its     *)
(* parent.  Their order is that of the invariants, each of which rests on  *)
(* those before it: the types with TInv, the questions and replies with    *)
(* AskInv and ReplyInv, the stalls with StallInv, the rounds of questions  *)
(* with QuietInv, the first message of an execution with StartInv.         *)
(***************************************************************************)
EXTENDS ParentDecisions, FiniteSetTheorems, SequenceTheorems, WellFoundedInduction, TLAPS

-----------------------------------------------------------------------------
(* The fold over the comparisons.  Nothing is assumed of the number of     *)
(* rounds: a least round at which a fact fails would contradict it.        *)

\* A set of numbers has a least one.
LEMMA LeastNat ==
  ASSUME NEW S \in SUBSET Nat, S # {}
  PROVE  \E x \in S : \A y \in S : x <= y
<1>1. IsWellFoundedOn(OpToRel(<, Nat), Nat)
  BY NatLessThanWellFounded
<1>2. PICK x \in S : \A y \in S : <<y, x>> \notin OpToRel(<, Nat)
  BY <1>1, WFMin
<1>3. \A y \in S : ~(y < x)
  BY <1>2 DEF OpToRel
<1> QED
  BY <1>3

\* What fold_progress_evaluations makes of round r, from the rounds before it.
Body(f, r) ==
  IF r = 0 THEN [streak |-> 0, trigger |-> 0]
  ELSE LET before == f[r - 1] IN
       CASE Counted(r) /\ candidates[r].result = "improved" ->
              [streak |-> 0, trigger |-> 0]
         [] Counted(r) /\ candidates[r].result = "not_improved" ->
              [streak |-> before.streak + 1,
               trigger |-> IF Reaches(before.streak + 1) /\ before.trigger = 0
                             THEN r ELSE before.trigger]
         [] OTHER -> before

\* A function with that recursion exists for every number of rounds.
LEMMA FoldExists ==
  ASSUME NEW N \in Nat
  PROVE  \E g : g = [r \in 0..N |-> Body(g, r)]
<1> DEFINE Has(n) == \E g : g = [r \in 0..n |-> Body(g, r)]
           S == {n \in Nat : ~Has(n)}
<1>1. SUFFICES ASSUME S # {} PROVE FALSE
  OBVIOUS
<1>2. PICK n \in S : \A m \in S : n <= m
  <2>1. S \in SUBSET Nat
    OBVIOUS
  <2> QED
    BY <1>1, <2>1, LeastNat
<1>3. Has(0)
  <2> DEFINE g == [r \in 0..0 |-> [streak |-> 0, trigger |-> 0]]
  <2>1. g = [r \in 0..0 |-> Body(g, r)]
    BY DEF Body
  <2> QED
    BY <2>1
<1>4. n # 0 /\ n - 1 \in Nat /\ Has(n - 1)
  <2> HIDE DEF Has
  <2>1. n # 0
    BY <1>2, <1>3
  <2>2. n - 1 \in Nat /\ n - 1 \notin S
    BY <1>2, <2>1
  <2> QED
    BY <2>1, <2>2
<1>5. PICK h : h = [r \in 0..(n - 1) |-> Body(h, r)]
  BY <1>4
<1> DEFINE g == [r \in 0..n |-> IF r = n THEN Body(h, n) ELSE h[r]]
<1>6. \A r \in 0..n : g[r] = Body(g, r)
  <2>1. ASSUME NEW r \in 0..n PROVE g[r] = Body(h, r)
    <3>1. CASE r = n
      BY <3>1
    <3>2. CASE r # n
      <4>1. r \in 0..(n - 1)
        BY <1>2, <3>2
      <4>2. h[r] = Body(h, r)
        BY <1>5, <4>1
      <4> QED
        BY <3>2, <4>2
    <3> QED
      BY <3>1, <3>2
  <2>2. ASSUME NEW r \in 0..n, r # 0 PROVE g[r - 1] = h[r - 1]
    <3>1. r - 1 \in 0..n /\ r - 1 # n
      BY <1>2, <2>2
    <3> QED BY <3>1
  <2>3. ASSUME NEW r \in 0..n PROVE Body(h, r) = Body(g, r)
    <3> HIDE DEF g
    <3> QED
    BY <2>2 DEF Body
  <2> QED
    BY <2>1, <2>3
<1>7. g = [r \in 0..n |-> Body(g, r)]
  <2> DEFINE k == [r \in 0..n |-> Body(g, r)]
  <2>1. g = [r \in 0..n |-> g[r]]
     OBVIOUS
  <2> HIDE DEF g
  <2> QED  BY <1>6, <2>1
<1> QED
  <2>1. Has(n)
    <3> HIDE DEF g
    <3> QED BY <1>7
  <2> HIDE DEF Has
  <2> QED BY <1>2, <2>1

\* So Fold is what its recursion says, at every round.
LEMMA FoldStep ==
  ASSUME Len(candidates) \in Nat
  PROVE  \A r \in 0..Len(candidates) : Fold[r] = Body(Fold, r)
<1>1. \E g : g = [r \in 0..Len(candidates) |-> Body(g, r)]
  BY FoldExists
<1>2. Fold = CHOOSE g : g = [r \in 0..Len(candidates) |-> Body(g, r)]
  BY DEF Fold, Body
<1>3. Fold = [r \in 0..Len(candidates) |-> Body(Fold, r)]
  <2> HIDE DEF Fold
  <2> QED
  BY <1>1, <1>2
<1> QED
  BY <1>3

\* The window and the stalls of a sequence of candidates.
WindowOf(s, c, n) ==
  {r \in 1..n : /\ s[r].contract = c /\ s[r].result = "not_improved"
                /\ \A q \in 1..n : s[q].contract = c /\ s[q].result = "improved" => q < r}

\* The round at which the window reached the limit, in sequence s.
StalledOf(s, c, n) ==
  {r \in WindowOf(s, c, n) : Cardinality({q \in WindowOf(s, c, n) : q <= r}) = Limit}

\* The window and the stall of the model are those of its candidates.
LEMMA StalledAtIs ==
  ASSUME NEW c, NEW n
  PROVE  /\ Window(c, n) = WindowOf(candidates, c, n)
         /\ StalledAt(c, n) = StalledOf(candidates, c, n)
<1>1. Window(c, n) = WindowOf(candidates, c, n)
  BY DEF Window, WindowOf
<1> QED
  BY <1>1 DEF StalledAt, StalledOf

\* Only the rounds up to n count.
LEMMA StalledOfSame ==
  ASSUME NEW s, NEW t, NEW c, NEW n \in Nat,
         \A r \in 1..n : t[r].contract = s[r].contract /\ t[r].result = s[r].result
  PROVE  StalledOf(t, c, n) = StalledOf(s, c, n)
<1>1. WindowOf(t, c, n) = WindowOf(s, c, n)
  BY DEF WindowOf
<1> QED
  BY <1>1 DEF StalledOf

\* The window takes in a round that is a comparison without improvement, is
\* emptied by an improvement, and does not see any other round.
LEMMA WindowStep ==
  ASSUME NEW s, NEW c, NEW n \in Nat \ {0}
  PROVE  WindowOf(s, c, n) =
           IF s[n].contract = c /\ s[n].result = "improved" THEN {}
           ELSE IF s[n].contract = c /\ s[n].result = "not_improved"
             THEN WindowOf(s, c, n - 1) \cup {n}
           ELSE WindowOf(s, c, n - 1)
  BY DEF WindowOf

\* A window is a finite set.
LEMMA WindowFinite ==
  ASSUME NEW s, NEW c, NEW n \in Nat
  PROVE  WindowOf(s, c, n) \subseteq 1..n /\ IsFiniteSet(WindowOf(s, c, n))
<1>1. WindowOf(s, c, n) \subseteq 1..n
  BY DEF WindowOf
<1> QED
  BY <1>1, FS_Interval, FS_Subset, 1 \in Int, n \in Int

\* One round more: what an improvement, a comparison without one and a round
\* that is not counted make of the window and of the stall.
LEMMA StalledStep ==
  ASSUME NEW s, NEW c, NEW n \in Nat \ {0}
  PROVE  StalledOf(s, c, n) =
           IF s[n].contract = c /\ s[n].result = "improved" THEN {}
           ELSE IF s[n].contract = c /\ s[n].result = "not_improved"
             THEN StalledOf(s, c, n - 1)
                    \cup (IF Cardinality(WindowOf(s, c, n - 1)) + 1 = Limit THEN {n} ELSE {})
           ELSE StalledOf(s, c, n - 1)
<1>1. CASE /\ s[n].contract = c /\ s[n].result = "not_improved"
  <2>1. WindowOf(s, c, n) = WindowOf(s, c, n - 1) \cup {n}
    BY <1>1, WindowStep
  <2>2. WindowOf(s, c, n - 1) \subseteq 1..(n - 1) /\ IsFiniteSet(WindowOf(s, c, n - 1))
    BY WindowFinite
  <2>3. \A r \in WindowOf(s, c, n - 1) :
          {q \in WindowOf(s, c, n) : q <= r} = {q \in WindowOf(s, c, n - 1) : q <= r}
    BY <2>1, <2>2
  <2>4. {q \in WindowOf(s, c, n) : q <= n} = WindowOf(s, c, n - 1) \cup {n}
    BY <2>1, <2>2
  <2>5. n \notin WindowOf(s, c, n - 1)
    BY <2>2
  <2>6. Cardinality({q \in WindowOf(s, c, n) : q <= n})
          = Cardinality(WindowOf(s, c, n - 1)) + 1
    BY <2>2, <2>4, <2>5, FS_AddElement
  <2>7. StalledOf(s, c, n) = {r \in WindowOf(s, c, n - 1) :
                             Cardinality({q \in WindowOf(s, c, n) : q <= r}) = Limit}
                          \cup {r \in {n} :
                                  Cardinality({q \in WindowOf(s, c, n) : q <= r}) = Limit}
    BY <2>1 DEF StalledOf
  <2>8. StalledOf(s, c, n - 1) = {r \in WindowOf(s, c, n - 1) :
                             Cardinality({q \in WindowOf(s, c, n) : q <= r}) = Limit}
    BY <2>3 DEF StalledOf
  <2>9. {r \in {n} : Cardinality({q \in WindowOf(s, c, n) : q <= r}) = Limit}
          = IF Cardinality(WindowOf(s, c, n - 1)) + 1 = Limit THEN {n} ELSE {}
    BY <2>6
  <2> QED
    BY <1>1, <2>7, <2>8, <2>9
<1>2. CASE s[n].contract = c /\ s[n].result = "improved"
  BY <1>2, WindowStep DEF StalledOf
<1>3. CASE ~(s[n].contract = c /\ s[n].result \in {"improved", "not_improved"})
  <2>1. WindowOf(s, c, n) = WindowOf(s, c, n - 1)
    BY <1>3, WindowStep
  <2> QED
    BY <1>3, <2>1 DEF StalledOf
<1> QED
  BY <1>1, <1>2, <1>3

\* The fold at round n: its streak is the size of the window, its trigger the
\* stall.
FoldCounts(n) ==
  /\ Fold[n].trigger \in 0..n
  /\ Fold[n].streak = Cardinality(WindowOf(candidates, child.contract, n))
  /\ Fold[n].trigger = 0 =>
       StalledOf(candidates, child.contract, n) = {} /\ Fold[n].streak < Limit
  /\ Fold[n].trigger # 0 =>
       StalledOf(candidates, child.contract, n) = {Fold[n].trigger} /\ Fold[n].streak >= Limit

\* The fold counts right at every round.
LEMMA FoldCountsAll ==
  ASSUME Len(candidates) \in Nat, Limit \in Nat \ {0}
  PROVE  \A n \in 0..Len(candidates) : FoldCounts(n)
<1> DEFINE S == {n \in 0..Len(candidates) : ~FoldCounts(n)}
<1>1. SUFFICES ASSUME S # {} PROVE FALSE
  OBVIOUS
<1>2. PICK n \in S : \A m \in S : n <= m
  <2>1. S \in SUBSET Nat
    OBVIOUS
  <2> QED
    BY <1>1, <2>1, LeastNat
<1>3. n \in 0..Len(candidates) /\ ~FoldCounts(n)
  OBVIOUS
<1>4. Fold[n] = Body(Fold, n)
  BY <1>3, FoldStep
<1>5. n # 0
  <2> SUFFICES ASSUME n = 0 PROVE FALSE
    OBVIOUS
  <2>1. Fold[n] = [streak |-> 0, trigger |-> 0]
    BY <1>4 DEF Body
  <2>2. /\ WindowOf(candidates, child.contract, n) = {}
        /\ StalledOf(candidates, child.contract, n) = {}
    BY DEF WindowOf, StalledOf
  <2>3. Cardinality(WindowOf(candidates, child.contract, n)) = 0
    BY <2>2, FS_EmptySet
  <2>4. Fold[n].streak = 0 /\ Fold[n].trigger = 0 /\ 0 < Limit
    BY <2>1
  <2> HIDE DEF S
  <2> QED
    BY <1>3, <2>2, <2>3, <2>4 DEF FoldCounts
<1> DEFINE b == n - 1
           c == child.contract
           r == candidates[n].result
<1>6. b \in 0..Len(candidates) /\ b \notin S /\ n \in Nat \ {0} /\ b \in Nat
  BY <1>2, <1>3, <1>5
<1>7. FoldCounts(b)
  BY <1>6
<1>9. /\ IsFiniteSet(WindowOf(candidates, c, b))
      /\ n \notin WindowOf(candidates, c, b)
      /\ WindowOf(candidates, c, b) \subseteq 1..b
  BY <1>6, WindowFinite
<1>10. Cardinality(WindowOf(candidates, c, b)) \in Nat
  BY <1>9, FS_CardinalityType
<1>11. CASE candidates[n].contract = c /\ r = "improved"
  <2>1. Fold[n] = [streak |-> 0, trigger |-> 0]
    BY <1>4, <1>5, <1>11 DEF Body, Counted, Results
  <2>2. WindowOf(candidates, c, n) = {} /\ StalledOf(candidates, c, n) = {}
    BY <1>6, <1>11, WindowStep, StalledStep
  <2> QED
    BY <1>3, <2>1, <2>2, FS_EmptySet DEF FoldCounts
<1>12. CASE candidates[n].contract = c /\ r = "not_improved"
  <2>1. Fold[n] = [streak |-> Fold[b].streak + 1,
                   trigger |-> IF Fold[b].streak + 1 = Limit /\ Fold[b].trigger = 0
                                 THEN n ELSE Fold[b].trigger]
    BY <1>4, <1>5, <1>12 DEF Body, Counted, Results, Reaches
  <2>2. WindowOf(candidates, c, n) = WindowOf(candidates, c, b) \cup {n}
    BY <1>6, <1>12, WindowStep
  <2>3. Cardinality(WindowOf(candidates, c, n)) = Cardinality(WindowOf(candidates, c, b)) + 1
    BY <1>9, <2>2, FS_AddElement
  <2>4. StalledOf(candidates, c, n) =
          StalledOf(candidates, c, b)
            \cup (IF Cardinality(WindowOf(candidates, c, b)) + 1 = Limit THEN {n} ELSE {})
    BY <1>6, <1>12, StalledStep
  <2> HIDE DEF b
  <2>5. b \in Nat /\ b < n
    BY <1>6 DEF b
  <2>6. CASE Fold[b].trigger = 0
    BY <1>3, <1>6, <1>7, <1>10, <2>1, <2>3, <2>4, <2>5, <2>6 DEF FoldCounts
  <2>7. CASE Fold[b].trigger # 0
    BY <1>3, <1>6, <1>7, <1>10, <2>1, <2>3, <2>4, <2>5, <2>7 DEF FoldCounts
  <2> QED
    BY <2>6, <2>7
<1>13. CASE ~(candidates[n].contract = c /\ r \in {"improved", "not_improved"})
  <2>1. Fold[n] = Fold[b]
    BY <1>4, <1>5, <1>13 DEF Body, Counted, Results
  <2>2. /\ WindowOf(candidates, c, n) = WindowOf(candidates, c, b)
        /\ StalledOf(candidates, c, n) = StalledOf(candidates, c, b)
    BY <1>6, <1>13, WindowStep, StalledStep
  <2>3. b < n
    BY <1>6
  <2> HIDE DEF b
  <2> QED
    BY <1>3, <1>6, <1>7, <2>1, <2>2, <2>3 DEF FoldCounts
<1> QED
  BY <1>11, <1>12, <1>13

-----------------------------------------------------------------------------
(* The types.                                                              *)

\* A function on 1..n is a sequence.
LEMMA SeqOfFunction ==
  ASSUME NEW S, NEW n \in Nat, NEW f \in [1..n -> S]
  PROVE  f \in Seq(S) /\ Len(f) = n /\ DOMAIN f = 1..n
  OBVIOUS

\* What Append does to a sequence.
LEMMA AppendTo ==
  ASSUME NEW S, NEW s \in Seq(S), NEW e \in S
  PROVE  /\ Append(s, e) \in Seq(S)
         /\ Len(Append(s, e)) = Len(s) + 1
         /\ DOMAIN Append(s, e) = 1..Len(s) + 1
         /\ DOMAIN s = 1..Len(s)
         /\ \A i \in 1..Len(s) : Append(s, e)[i] = s[i]
         /\ Append(s, e)[Len(s) + 1] = e
  OBVIOUS

\* The types of the rows, by name.
CandidateSet ==
  [verdict : {"undecided", "accept", "revise"}, contract : 0..MaxRevisions,
   result : Results \cup {"none"}]
QuestionSet ==
  [source : {"worker", "progress"}, trigger : 0..MaxRounds,
   state : {"open", "resolved", "cancelled"}, round : 1..MaxRounds + 1,
   contract : 0..MaxRevisions, epoch : 0..MaxRevisions]
MessageSet ==
  [key : KeySet, epoch : 0..MaxRevisions, state : {"pending", "delivered", "superseded"}]
TurnSet == [key : KeySet, epoch : 0..MaxRevisions]
RowSet ==
  [epoch : 0..MaxRevisions, contract : 0..MaxRevisions, desired : {"active", "stopped"},
   turn : Nat, observed : {"starting", "active", "idle", "failed", "unknown", "stopped"}]

\* An execution is bound to a contract the Task has, and one more execution
\* means one more contract.
VersionsGrow ==
  /\ exec["child"].epoch <= exec["child"].contract
  /\ exec["child"].contract <= child.contract

\* The types, with the order of the versions they need.
TInv == TypeOK /\ VersionsGrow

\* The type invariant in terms of the named row types.
LEMMA TypesNamed ==
  TypeOK <=>
  /\ child \in [state : States, round : 0..MaxRounds, contract : 0..MaxRevisions]
  /\ candidates \in Seq(CandidateSet)
  /\ Len(candidates) = child.round
  /\ requested \in child.contract..MaxRevisions
  /\ parent \in {"open", "failed", "blocked"}
  /\ questions \in Seq(QuestionSet)
  /\ exec \in [Workers -> RowSet]
  /\ spent \subseteq Workers
  /\ inbox \in [Workers -> Seq(MessageSet)]
  /\ idles \subseteq DOMAIN turns["parent"]
  /\ proc \in [Workers -> {"none", "active", "ended", "failed", "unknown"}]
  /\ turns \in [Workers -> Seq(TurnSet)]
  /\ stops \subseteq Workers
  /\ yielded \in BOOLEAN /\ changed \in BOOLEAN
  /\ phase \in {"facts", "progress", "failures", "decisions", "acceptance", "wakes",
                "idle", "close", "deliver child", "report child", "deliver parent",
                "report parent"}
  BY DEF TypeOK, CandidateSet, QuestionSet, MessageSet, TurnSet, RowSet

\* The child is started with well-formed rows.
LEMMA InitTyped == Init => TInv
<1> SUFFICES ASSUME Init PROVE TInv
  OBVIOUS
<1> USE BudgetAssumption DEF Init
<1>0. 0 \in 0..MaxRevisions /\ 0 \in 0..MaxRounds /\ 0 \in Nat
  OBVIOUS
<1>1. \A s \in {"pending", "delivered"} : <<Message(Start(0), s)>> \in Seq(MessageSet)
  BY <1>0 DEF Message, MessageSet, Start, Key, KeySet
<1>2. \A o \in {"starting", "active", "idle"}, t \in {0, 1} : Row(o, t) \in RowSet
  BY <1>0 DEF Row, RowSet
<1>3. exec \in [Workers -> RowSet] /\ inbox \in [Workers -> Seq(MessageSet)]
  BY <1>1, <1>2 DEF Workers
<1>4. <<[key |-> Start(0), epoch |-> 0]>> \in Seq(TurnSet) /\ <<>> \in Seq(TurnSet)
  BY <1>0 DEF TurnSet, Start, Key, KeySet
<1>5. turns \in [Workers -> Seq(TurnSet)] /\ DOMAIN turns["parent"] = {1}
  BY <1>4 DEF Workers
<1>6. idles \subseteq DOMAIN turns["parent"]
  BY <1>5
<1>7. proc \in [Workers -> {"none", "active", "ended", "failed", "unknown"}]
  BY DEF Workers
<1>8. candidates \in Seq(CandidateSet) /\ questions \in Seq(QuestionSet) /\ Len(candidates) = 0
  OBVIOUS
<1>9. TypeOK
  <2>1. child \in [state : States, round : 0..MaxRounds, contract : 0..MaxRevisions]
    BY <1>0 DEF States
  <2>2. Len(candidates) = child.round /\ requested \in child.contract..MaxRevisions
    BY <1>8, <1>0
  <2>3. /\ spent \subseteq Workers /\ stops \subseteq Workers
        /\ parent = "open" /\ phase = "facts"
        /\ yielded \in BOOLEAN /\ changed \in BOOLEAN
    OBVIOUS
  <2> HIDE DEF Init
  <2> QED
    BY <1>3, <1>5, <1>6, <1>7, <1>8, <2>1, <2>2, <2>3, TypesNamed
<1>10. VersionsGrow
  BY DEF VersionsGrow, Row, Workers
<1> QED
  BY <1>9, <1>10 DEF TInv

\* The types, fact by fact.
LEMMA NodeTypes ==
  ASSUME TypeOK
  PROVE  /\ child \in [state : States, round : 0..MaxRounds, contract : 0..MaxRevisions]
         /\ child.state \in States /\ child.round \in 0..MaxRounds
         /\ child.contract \in 0..MaxRevisions
         /\ child.round \in Nat /\ child.contract \in Nat
         /\ MaxRounds \in Nat /\ MaxRevisions \in Nat
<1>1. child \in [state : States, round : 0..MaxRounds, contract : 0..MaxRevisions]
  BY TypesNamed
<1> QED
  BY <1>1, BudgetAssumption

\* There is a candidate for each round.
LEMMA CandidateTypes ==
  ASSUME TypeOK
  PROVE  /\ candidates \in Seq(CandidateSet)
         /\ Len(candidates) = child.round
         /\ DOMAIN candidates = 1..child.round
         /\ \A r \in 1..child.round : candidates[r] \in CandidateSet
<1>1. candidates \in Seq(CandidateSet) /\ Len(candidates) = child.round
  BY TypesNamed
<1> QED
  BY <1>1, LenProperties, ElementOfSeq

\* The rows of decision_requests.
LEMMA QuestionTypes ==
  ASSUME TypeOK
  PROVE  /\ questions \in Seq(QuestionSet)
         /\ DOMAIN questions = 1..Len(questions) /\ Len(questions) \in Nat
         /\ \A d \in 1..Len(questions) : questions[d] \in QuestionSet
<1>1. questions \in Seq(QuestionSet)
  BY TypesNamed
<1> QED
  BY <1>1, LenProperties, ElementOfSeq

\* The Worker rows.
LEMMA RowTypes ==
  ASSUME TypeOK, NEW w \in Workers
  PROVE  /\ exec[w] \in RowSet
         /\ exec[w].epoch \in 0..MaxRevisions /\ exec[w].epoch \in Nat
         /\ exec[w].contract \in 0..MaxRevisions /\ exec[w].contract \in Nat
         /\ exec[w].turn \in Nat
<1>1. exec[w] \in RowSet
  BY TypesNamed
<1> QED
  BY <1>1, BudgetAssumption DEF RowSet

\* The messages of a Worker.
LEMMA InboxTypes ==
  ASSUME TypeOK, NEW w \in Workers
  PROVE  /\ inbox[w] \in Seq(MessageSet)
         /\ DOMAIN inbox[w] = 1..Len(inbox[w]) /\ Len(inbox[w]) \in Nat
         /\ \A i \in 1..Len(inbox[w]) : inbox[w][i] \in MessageSet
<1>1. inbox[w] \in Seq(MessageSet)
  BY TypesNamed
<1> QED
  BY <1>1, LenProperties, ElementOfSeq

\* The turns of a Worker.
LEMMA TurnTypes ==
  ASSUME TypeOK, NEW w \in Workers
  PROVE  /\ turns[w] \in Seq(TurnSet)
         /\ DOMAIN turns[w] = 1..Len(turns[w]) /\ Len(turns[w]) \in Nat
         /\ \A i \in 1..Len(turns[w]) : turns[w][i] \in TurnSet
<1>1. turns[w] \in Seq(TurnSet)
  BY TypesNamed
<1> QED
  BY <1>1, LenProperties, ElementOfSeq

\* The trigger is the stall under the present contract, if there is one.
LEMMA TriggerType ==
  ASSUME TypeOK
  PROVE  /\ Trigger \in 0..child.round
         /\ Limit # Undeclared =>
              StalledOf(candidates, child.contract, child.round)
                = (IF Stalled THEN {Trigger} ELSE {})
<1>1. CASE Limit = Undeclared
  BY <1>1, NodeTypes DEF Trigger
<1>2. CASE Limit # Undeclared
  <2>1. Len(candidates) = child.round /\ child.round \in Nat
    BY CandidateTypes, NodeTypes
  <2>2. FoldCounts(child.round)
    BY <1>2, <2>1, FoldCountsAll, BudgetAssumption
  <2> QED
    BY <1>2, <2>1, <2>2 DEF FoldCounts, Trigger, Stalled
<1> QED
  BY <1>1, <1>2

\* A queued message is well formed.
LEMMA PostTyped ==
  ASSUME TypeOK, NEW w \in Workers, NEW k \in KeySet, Post(w, k)
  PROVE  inbox' \in [Workers -> Seq(MessageSet)]
<1>1. inbox[w] \in Seq(MessageSet)
      /\ [key |-> k, epoch |-> exec[w].epoch, state |-> "pending"] \in MessageSet
  BY InboxTypes, RowTypes DEF MessageSet
<1>2. Append(inbox[w], [key |-> k, epoch |-> exec[w].epoch, state |-> "pending"])
        \in Seq(MessageSet)
  BY <1>1, AppendTo
<1>3. inbox \in [Workers -> Seq(MessageSet)]
  BY TypesNamed
<1> QED
  BY <1>2, <1>3 DEF Post

\* A new question is well formed.
LEMMA QuestionTyped ==
  ASSUME TypeOK, NEW source \in {"worker", "progress"}, NEW trigger \in 0..child.round
  PROVE  Question(source, trigger) \in QuestionSet
<1>1. trigger \in 0..MaxRounds /\ child.round + 1 \in 1..MaxRounds + 1
  BY NodeTypes
<1>2. exec["child"].epoch \in 0..MaxRevisions
  BY RowTypes DEF Workers
<1> QED
  BY <1>1, <1>2, NodeTypes DEF Question, QuestionSet

\* Keys are well formed.
LEMMA KeyTyped ==
  ASSUME NEW kind \in {"start", "reply", "revise", "ask", "again", "continue"},
         NEW n \in Nat, NEW t \in Nat
  PROVE  Key(kind, n, t) \in KeySet
  BY DEF Key, KeySet

\* The keys of the messages that are sent.
LEMMA KeysTyped ==
  ASSUME TypeOK
  PROVE  /\ \A e \in Nat : Start(e) \in KeySet /\ Reply(e) \in KeySet /\ Request(e) \in KeySet
         /\ \A d, t \in Nat : Again(d, t) \in KeySet /\ Key("continue", 0, t) \in KeySet
         /\ Feedback \in KeySet
  BY NodeTypes, KeyTyped DEF Start, Reply, Request, Again, Feedback

\* What a poll reports is well formed.
LEMMA CurrentTyped ==
  ASSUME TypeOK, NEW w \in Workers
  PROVE  /\ Current(w) \in Nat
         /\ Current(w) # 0 => Current(w) \in DOMAIN turns[w]
         /\ Found(w) \in {"active", "unknown", "stopped", "failed", "idle"}
<1>1. turns[w] \in Seq(TurnSet) /\ DOMAIN turns[w] = 1..Len(turns[w]) /\ Len(turns[w]) \in Nat
  BY TurnTypes
<1>2. turns[w] # <<>> => Len(turns[w]) # 0
  BY <1>1
<1>3. proc[w] \in {"none", "active", "ended", "failed", "unknown"}
  BY TypesNamed
<1>4. Found(w) \in {"active", "unknown", "stopped", "failed", "idle"}
  BY <1>3 DEF Found
<1> QED
  BY <1>1, <1>2, <1>4 DEF Current

\* A review fills in the verdict and the result of a candidate.
LEMMA Decided ==
  ASSUME NEW c \in CandidateSet, NEW v, NEW p
  PROVE  [[c EXCEPT !.verdict = v] EXCEPT !.result = p]
           = [verdict |-> v, contract |-> c.contract, result |-> p]
<1>1. [c EXCEPT !.verdict = v] = [verdict |-> v, contract |-> c.contract, result |-> c.result]
  BY DEF CandidateSet
<1> DEFINE d == [verdict |-> v, contract |-> c.contract, result |-> c.result]
<1>2. [d EXCEPT !.result = p] = [verdict |-> v, contract |-> c.contract, result |-> p]
  OBVIOUS
<1> QED
  BY <1>1, <1>2

\* Every step keeps the rows well formed and the versions in order.
LEMMA TypedStep == TInv /\ [Next]_vars => TInv'
<1> SUFFICES ASSUME TInv, [Next]_vars PROVE TypeOK' /\ VersionsGrow'
  BY DEF TInv
<1>0. TypeOK /\ VersionsGrow
  BY DEF TInv
<1> USE DEF nodeVars, rowVars, procVars, passVars
<1>1. CASE Ask
  <2>1. questions' \in Seq(QuestionSet)
    <3>1. Question("worker", 0) \in QuestionSet
      BY <1>0, QuestionTyped, NodeTypes
    <3> QED
      BY <1>0, <1>1, <3>1, QuestionTypes, AppendTo DEF Ask
  <2> QED
    BY <1>0, <1>1, <2>1 DEF Ask, Yields, TypeOK, VersionsGrow, QuestionSet
<1>2. CASE Submit
  <2>1. Candidate \in CandidateSet
    BY <1>0, NodeTypes DEF Candidate, CandidateSet, Results
  <2>2. candidates' \in Seq(CandidateSet) /\ Len(candidates') = Len(candidates) + 1
    BY <1>0, <1>2, <2>1, CandidateTypes, AppendTo DEF Submit
  <2>3. child' = [child EXCEPT !.round = child.round + 1] /\ child.round + 1 \in 0..MaxRounds
    BY <1>0, <1>2, NodeTypes DEF Submit, RoundsLeft
  <2> QED
    BY <1>0, <1>2, <2>2, <2>3 DEF Submit, TypeOK, VersionsGrow, CandidateSet
<1>3. CASE Review
  <2>1. child.round \in 1..Len(candidates)
    BY <1>0, <1>3, NodeTypes, CandidateTypes DEF Review, Undecided, Verdict, HasCandidate
  <2>2. PICK v \in {"accept", "revise"}, p \in Results \cup {"none"} :
          candidates' = [candidates EXCEPT ![child.round].verdict = v,
                                           ![child.round].result = p]
    BY <1>3 DEF Review
  <2> DEFINE c == candidates[child.round]
             e == [verdict |-> v, contract |-> c.contract, result |-> p]
  <2>3. c \in CandidateSet
    BY <1>0, <2>1, CandidateTypes
  <2>4. candidates' = [candidates EXCEPT ![child.round] = e]
    <3>1. [[c EXCEPT !.verdict = v] EXCEPT !.result = p] = e
      BY <2>3, Decided
    <3>2. child.round \in DOMAIN candidates
      BY <1>0, <2>1, CandidateTypes
    <3>3. candidates' = [candidates EXCEPT ![child.round] =
                           [[c EXCEPT !.verdict = v] EXCEPT !.result = p]]
      BY <2>2, <3>2
    <3> HIDE DEF c, e
    <3> QED
      BY <3>1, <3>3
  <2>5. e \in CandidateSet
    BY <2>3 DEF CandidateSet
  <2> HIDE DEF e
  <2>6. candidates' \in Seq(CandidateSet) /\ Len(candidates') = Len(candidates)
    BY <1>0, <2>1, <2>4, <2>5, CandidateTypes, ExceptSeq
  <2> QED
    BY <1>0, <1>3, <2>6 DEF Review, TypeOK, VersionsGrow, CandidateSet
<1>4. ASSUME NEW d \in DOMAIN questions, Resolve(d) PROVE TypeOK' /\ VersionsGrow'
  <2> DEFINE q == questions[d]
             e == [q EXCEPT !.state = "resolved"]
  <2>1. d \in 1..Len(questions) /\ q \in QuestionSet
    BY <1>0, QuestionTypes
  <2>2. e \in QuestionSet
    BY <2>1 DEF QuestionSet
  <2>3. questions' = [questions EXCEPT ![d] = e]
    BY <1>4 DEF Resolve
  <2>4. questions' \in Seq(QuestionSet)
    BY <1>0, <2>1, <2>2, <2>3, QuestionTypes, ExceptSeq
  <2> QED
    BY <1>0, <1>4, <2>4 DEF Resolve, TypeOK, VersionsGrow, QuestionSet
<1>5. CASE Revise
  <2>1. requested' \in child.contract..MaxRevisions
    <3>1. requested \in child.contract..MaxRevisions
      BY <1>0, TypesNamed
    <3> QED
      BY <1>0, <1>5, <3>1, NodeTypes DEF Revise
  <2> QED
    BY <1>0, <1>5, <2>1 DEF Revise, TypeOK, VersionsGrow
<1>6. ASSUME NEW w \in Workers, TurnEnds(w) PROVE TypeOK' /\ VersionsGrow'
  <2>1. proc' \in [Workers -> {"none", "active", "ended", "failed", "unknown"}]
    BY <1>0, <1>6, FaultAssumption DEF TurnEnds, TypeOK
  <2> QED
    BY <1>0, <1>6, <2>1 DEF TurnEnds, TypeOK, VersionsGrow
<1>7. CASE ApplyFacts
  <2>1. Applied \in States
    BY <1>0 DEF Applied, TypeOK, States, Closed, Terminal
  <2> QED
    BY <1>0, <1>7, <2>1 DEF ApplyFacts, Pass, Commit, TypeOK, VersionsGrow
<1>8. CASE ReconcileProgress
  <2>1. /\ child' \in [state : States, round : 0..MaxRounds, contract : 0..MaxRevisions]
        /\ child'.round = child.round /\ child'.contract = child.contract
        /\ phase' = "failures" /\ changed' \in BOOLEAN
    BY <1>0, <1>8 DEF ReconcileProgress, Pass, Commit, TypeOK, States, Closed, Terminal
  <2>2. questions' \in Seq(QuestionSet)
    <3>1. Question("progress", Trigger) \in QuestionSet
      BY <1>0, QuestionTyped, TriggerType
    <3> QED
      BY <1>0, <1>8, <3>1, QuestionTypes, AppendTo DEF ReconcileProgress
  <2> QED
    BY <1>0, <1>8, <2>1, <2>2 DEF ReconcileProgress, TypeOK, VersionsGrow, QuestionSet
<1>9. CASE FailuresRefused
  BY <1>0, <1>9 DEF FailuresRefused, RaiseIn, TypeOK, VersionsGrow
<1>10. CASE ApplyFailures
  <2>1. /\ child' \in [state : States, round : 0..MaxRounds, contract : 0..MaxRevisions]
        /\ child'.round = child.round /\ child'.contract = child.contract
        /\ parent' \in {"open", "failed", "blocked"}
        /\ phase' = "decisions" /\ changed' \in BOOLEAN
    BY <1>0, <1>10
       DEF ApplyFailures, Struck, Pass, Commit, TypeOK, States, Closed, Terminal
  <2> QED
    BY <1>0, <1>10, <2>1 DEF ApplyFailures, TypeOK, VersionsGrow
<1>11. CASE ApplyDecisions
  <2>1. /\ child' \in [state : States, round : 0..MaxRounds, contract : 0..MaxRevisions]
        /\ child'.round = child.round /\ child'.contract = child.contract
        /\ phase' \in {"facts", "acceptance"} /\ changed' \in BOOLEAN
    BY <1>0, <1>11 DEF ApplyDecisions, Wait, Resume, NothingDecided, Pass, Commit,
       TypeOK, States
  <2>2. inbox' \in [Workers -> Seq(MessageSet)]
    <3>1. Answer \in KeySet
      BY <1>0, KeysTyped, QuestionTypes DEF Answer
    <3>2. CASE Post("child", Answer)
      BY <1>0, <3>1, <3>2, PostTyped DEF Workers
    <3>3. CASE inbox' = inbox
      BY <1>0, <3>3, TypesNamed
    <3> QED
      BY <1>11, <3>2, <3>3 DEF ApplyDecisions, Wait, Resume, NothingDecided
  <2> QED
    BY <1>0, <1>11, <2>1, <2>2 DEF ApplyDecisions, TypeOK, VersionsGrow, MessageSet
<1>12. CASE ReconcileAcceptance
  <2>1. CASE ApplyRevision
    <3>1. child' = [child EXCEPT !.contract = child.contract + 1]
          /\ child.contract + 1 \in 0..MaxRevisions
          /\ requested \in child'.contract..MaxRevisions
      <4>1. requested \in child.contract..MaxRevisions /\ requested > child.contract
        BY <1>0, <2>1, TypesNamed DEF ApplyRevision, MayApply, Pending
      <4>2. child' = [child EXCEPT !.contract = child.contract + 1]
        BY <2>1 DEF ApplyRevision
      <4>3. child'.contract = child.contract + 1
        BY <1>0, <4>2, NodeTypes
      <4> QED
        BY <1>0, <4>1, <4>2, <4>3, NodeTypes
    <3>2. exec' \in [Workers -> RowSet] /\ exec'["child"].epoch = exec["child"].epoch
          /\ exec'["child"].contract = exec["child"].contract
      BY <1>0, <2>1, TypesNamed DEF ApplyRevision, RowSet, Workers
    <3>3. phase' = "wakes" /\ changed' = TRUE
      BY <2>1 DEF ApplyRevision, Commit
    <3>4. VersionsGrow'
      BY <1>0, <3>1, <3>2, NodeTypes, RowTypes DEF VersionsGrow, Workers
    <3> QED
      BY <1>0, <1>12, <2>1, <3>1, <3>2, <3>3, <3>4
         DEF ApplyRevision, ReconcileAcceptance, TypeOK, RowSet
  <2>2. CASE HandOff
    <3>1. inbox' \in [Workers -> Seq(MessageSet)]
      BY <1>0, <2>2, PostTyped, KeysTyped, RowTypes DEF HandOff, Workers
    <3> QED
      BY <1>0, <1>12, <2>2, <3>1
         DEF HandOff, Commit, ReconcileAcceptance, TypeOK, VersionsGrow, MessageSet
  <2>3. CASE Supersede
    <3> DEFINE s == inbox["child"]
               t == [i \in DOMAIN s |-> IF i \in Queued("child")
                                       THEN [s[i] EXCEPT !.state = "superseded"] ELSE s[i]]
    <3>0. s \in Seq(MessageSet) /\ DOMAIN s = 1..Len(s) /\ Len(s) \in Nat
          /\ \A i \in 1..Len(s) : s[i] \in MessageSet
      BY <1>0, InboxTypes DEF Workers
    <3>1. ASSUME NEW i \in 1..Len(s)
          PROVE  (IF i \in Queued("child")
                    THEN [s[i] EXCEPT !.state = "superseded"] ELSE s[i]) \in MessageSet
      <4>1. s[i] \in MessageSet
        BY <3>0
      <4> QED
        BY <4>1 DEF MessageSet
    <3>2. t \in [1..Len(s) -> MessageSet]
      BY <3>0, <3>1
    <3>3. t \in Seq(MessageSet)
      BY <3>0, <3>2, SeqOfFunction
    <3>4. inbox' = [inbox EXCEPT !["child"] = t]
      BY <2>3 DEF Supersede
    <3>5. inbox' \in [Workers -> Seq(MessageSet)]
      <4> HIDE DEF t
      <4> QED
        BY <1>0, <3>3, <3>4, TypesNamed
    <3> QED
      BY <1>0, <1>12, <2>3, <3>5
         DEF Supersede, Commit, ReconcileAcceptance, TypeOK, VersionsGrow, MessageSet
  <2>4. CASE Rebind
    <3> DEFINE e == [epoch |-> exec["child"].epoch + 1, contract |-> child.contract,
                     desired |-> "active", observed |-> "starting", turn |-> 0]
    <3>1. CASE child.state # "running"
      BY <1>0, <1>12, <2>4, <3>1
         DEF Rebind, RaiseIn, ReconcileAcceptance, TypeOK, VersionsGrow
    <3>2. CASE child.state = "running"
      <4>1. exec["child"].epoch + 1 <= child.contract
        BY <1>0, <2>4, NodeTypes, RowTypes
           DEF Rebind, Drained, Superseded, VersionsGrow, Workers
      <4>2. e \in RowSet
        BY <1>0, <4>1, NodeTypes, RowTypes DEF RowSet, Workers
      <4>3. exec' = [exec EXCEPT !["child"] = e]
        BY <2>4, <3>2 DEF Rebind
      <4>4. exec' \in [Workers -> RowSet] /\ exec'["child"] = e
        <5> HIDE DEF e
        <5> QED
          BY <1>0, <4>2, <4>3, TypesNamed DEF Workers
      <4>5. VersionsGrow'
        BY <1>0, <2>4, <4>1, <4>4, NodeTypes DEF Rebind, VersionsGrow
      <4>6. stops' \subseteq Workers /\ phase' = "wakes" /\ changed' = TRUE
        BY <1>0, <2>4, <3>2, TypesNamed DEF Rebind, Commit
      <4>7. proc' \in [Workers -> {"none", "active", "ended", "failed", "unknown"}]
        BY <1>0, <2>4, <3>2, TypesNamed DEF Rebind
      <4> HIDE DEF e
      <4> QED
        BY <1>0, <1>12, <2>4, <4>4, <4>5, <4>6, <4>7
           DEF Rebind, ReconcileAcceptance, TypeOK, RowSet
    <3> QED
      BY <3>1, <3>2
  <2>5. CASE NothingToRevise
    BY <1>0, <1>12, <2>5
       DEF NothingToRevise, Pass, ReconcileAcceptance, TypeOK, VersionsGrow
  <2> QED
    BY <1>12, <2>1, <2>2, <2>3, <2>4, <2>5 DEF ReconcileAcceptance
<1>13. CASE WakeWorkers
  <2>1. /\ child' \in [state : States, round : 0..MaxRounds, contract : 0..MaxRevisions]
        /\ child'.round = child.round /\ child'.contract = child.contract
        /\ parent' \in {"open", "failed", "blocked"}
        /\ phase' = "idle" /\ changed' \in BOOLEAN
    BY <1>0, <1>13 DEF WakeWorkers, WakeChild, WakeParent, AskParent, AskAgain,
       NobodyToWake, Send, GiveUp, Fail, Pass, Commit, TypeOK, States, Closed, Terminal
  <2>2. CASE inbox' = inbox
    BY <1>0, <1>13, <2>1, <2>2 DEF WakeWorkers, TypeOK, VersionsGrow
  <2>3. CASE inbox' # inbox
    <3>1. PICK w \in Workers, k \in KeySet : Post(w, k)
      <4>1. CASE WakeChild
        <5>1. Start(exec["child"].epoch) \in KeySet /\ Feedback \in KeySet
          BY <1>0, KeysTyped, RowTypes DEF Workers
        <5>2. Post("child", Start(exec["child"].epoch)) \/ Post("child", Feedback)
          BY <4>1, <2>3 DEF WakeChild, Send, GiveUp
        <5> QED
          BY <5>1, <5>2 DEF Workers
      <4>2. CASE WakeParent
        <5>1. PICK d \in Waiting :
                \/ Post("parent", Request(d))
                \/ Post("parent", Again(d, exec["parent"].turn))
          BY <4>2, <2>3 DEF WakeParent, AskParent, AskAgain, Send, GiveUp
        <5>2. d \in Nat
          BY <1>0, QuestionTypes DEF Waiting, Open, InState
        <5>3. Request(d) \in KeySet /\ Again(d, exec["parent"].turn) \in KeySet
          BY <1>0, <5>2, KeysTyped, RowTypes DEF Workers
        <5> QED
          BY <5>1, <5>3 DEF Workers
      <4> QED
        BY <1>13, <2>3, <4>1, <4>2 DEF WakeWorkers, NobodyToWake
    <3>2. inbox' \in [Workers -> Seq(MessageSet)]
      BY <1>0, <3>1, PostTyped
    <3> QED
      BY <1>0, <1>13, <2>1, <3>2 DEF WakeWorkers, TypeOK, VersionsGrow, MessageSet
  <2> QED
    BY <2>2, <2>3
<1>14. CASE WakeIdle
  <2>1. /\ child' \in [state : States, round : 0..MaxRounds, contract : 0..MaxRevisions]
        /\ child'.round = child.round /\ child'.contract = child.contract
        /\ phase' = "close" /\ changed' \in BOOLEAN
    BY <1>0, <1>14 DEF WakeIdle, Pass, Commit, TypeOK, States, Closed, Terminal
  <2>2. inbox' \in [Workers -> Seq(MessageSet)]
    <3>1. Key("continue", 0, exec["child"].turn) \in KeySet
      BY <1>0, KeysTyped, RowTypes DEF Workers
    <3>2. CASE Post("child", Key("continue", 0, exec["child"].turn))
      BY <1>0, <3>1, <3>2, PostTyped DEF Workers
    <3>3. CASE inbox' = inbox
      BY <1>0, <3>3, TypesNamed
    <3> QED
      BY <1>14, <3>2, <3>3 DEF WakeIdle
  <2> QED
    BY <1>0, <1>14, <2>1, <2>2 DEF WakeIdle, TypeOK, VersionsGrow, MessageSet
<1>15. CASE ClosePass
  <2>1. questions' \in Seq(QuestionSet)
    <3>1. questions \in Seq(QuestionSet)
      BY <1>0, QuestionTypes
    <3>2. questions' \in [1..Len(questions) -> QuestionSet]
      <4>0. DOMAIN questions = 1..Len(questions)
        BY <1>0, QuestionTypes
      <4> SUFFICES ASSUME NEW d \in 1..Len(questions)
                   PROVE  (IF d \in Withdrawn THEN [questions[d] EXCEPT !.state = "cancelled"]
                                              ELSE questions[d]) \in QuestionSet
        BY <1>15, <4>0 DEF ClosePass
      <4>1. questions[d] \in QuestionSet
        BY <1>0, QuestionTypes
      <4> QED
        BY <4>1 DEF QuestionSet
    <3> QED
      BY <1>0, <3>2, QuestionTypes, SeqOfFunction
  <2>2. exec' \in [Workers -> RowSet] /\ exec'["child"].epoch = exec["child"].epoch
        /\ exec'["child"].contract = exec["child"].contract
    <3>1. \A w \in Workers : exec[w] \in RowSet
      BY <1>0, TypesNamed
    <3> QED
      BY <1>15, <3>1 DEF ClosePass, RowSet, Workers
  <2>3. changed' \in BOOLEAN /\ phase' \in {"facts", "deliver child"}
    BY <1>15 DEF ClosePass
  <2> QED
    BY <1>0, <1>15, <2>1, <2>2, <2>3
       DEF ClosePass, TypeOK, VersionsGrow, QuestionSet, RowSet
<1>16. ASSUME NEW w \in Workers, Deliver(w) PROVE TypeOK' /\ VersionsGrow'
  <2>1. PICK i \in NextUp(w) :
          /\ inbox' = [inbox EXCEPT ![w][i].state = "delivered"]
          /\ turns' = [turns EXCEPT ![w] = Append(@, [key |-> inbox[w][i].key,
                                                     epoch |-> exec[w].epoch])]
    BY <1>16 DEF Deliver
  <2>2. i \in 1..Len(inbox[w]) /\ inbox[w][i] \in MessageSet /\ inbox[w] \in Seq(MessageSet)
    BY <1>0, InboxTypes DEF NextUp, Queued, Rows
  <2> DEFINE m == [inbox[w][i] EXCEPT !.state = "delivered"]
             t == [key |-> inbox[w][i].key, epoch |-> exec[w].epoch]
  <2>3. m \in MessageSet
    BY <2>2 DEF MessageSet
  <2>4. t \in TurnSet
    BY <1>0, <2>2, RowTypes DEF MessageSet, TurnSet
  <2>5. inbox' = [inbox EXCEPT ![w] = [inbox[w] EXCEPT ![i] = m]]
    BY <2>1
  <2>6. [inbox[w] EXCEPT ![i] = m] \in Seq(MessageSet)
    <3> HIDE DEF m
    <3> QED
      BY <2>2, <2>3, ExceptSeq
  <2>7. inbox' \in [Workers -> Seq(MessageSet)]
    <3> HIDE DEF m
    <3> QED
      BY <1>0, <2>5, <2>6, TypesNamed
  <2>8. turns[w] \in Seq(TurnSet) /\ turns' = [turns EXCEPT ![w] = Append(turns[w], t)]
    BY <1>0, <2>1, TurnTypes
  <2>9. /\ Append(turns[w], t) \in Seq(TurnSet)
        /\ DOMAIN turns[w] \subseteq DOMAIN Append(turns[w], t)
    <3> HIDE DEF t
    <3> QED
      BY <2>4, <2>8, AppendTo
  <2>10. /\ turns' \in [Workers -> Seq(TurnSet)]
         /\ DOMAIN turns["parent"] \subseteq DOMAIN turns'["parent"]
    <3> HIDE DEF t
    <3> QED
      BY <1>0, <2>8, <2>9, TypesNamed DEF Workers
  <2>11. proc' \in [Workers -> {"none", "active", "ended", "failed", "unknown"}]
    BY <1>0, <1>16, TypesNamed DEF Deliver
  <2>12. phase' \in {"report child", "report parent"} /\ changed' = changed
    BY <1>16 DEF Deliver, Pass, ReportPhase
  <2> QED
    BY <1>0, <1>16, <2>7, <2>10, <2>11, <2>12
       DEF Deliver, TypeOK, VersionsGrow, MessageSet, TurnSet
<1>17. ASSUME NEW w \in Workers, NoDelivery(w) PROVE TypeOK' /\ VersionsGrow'
  BY <1>0, <1>17 DEF NoDelivery, Pass, ReportPhase, TypeOK, VersionsGrow
<1>18. ASSUME NEW w \in Workers, Report(w) PROVE TypeOK' /\ VersionsGrow'
  <2>1. /\ exec' = [exec EXCEPT ![w].observed = Found(w), ![w].turn = Current(w)]
        /\ idles' \subseteq DOMAIN turns["parent"]
        /\ spent' \subseteq Workers
    BY <1>0, <1>18, CurrentTyped, TypesNamed DEF Report
  <2>2. exec' \in [Workers -> RowSet] /\ exec'["child"].epoch = exec["child"].epoch
        /\ exec'["child"].contract = exec["child"].contract
    <3> DEFINE e == [exec[w] EXCEPT !.observed = Found(w), !.turn = Current(w)]
    <3>1. exec' = [exec EXCEPT ![w] = e]
      BY <2>1
    <3>2. e \in RowSet /\ e.epoch = exec[w].epoch /\ e.contract = exec[w].contract
      BY <1>0, CurrentTyped, RowTypes DEF RowSet
    <3> HIDE DEF e
    <3> QED
      BY <1>0, <3>1, <3>2, TypesNamed DEF Workers
  <2>3. phase' \in {"deliver parent", "facts"} /\ changed' = changed
    BY <1>18 DEF Report, Pass, AfterReport
  <2> QED
    BY <1>0, <1>18, <2>1, <2>2, <2>3 DEF Report, TypeOK, VersionsGrow, RowSet
<1>19. CASE Crash
  BY <1>0, <1>19 DEF Crash, TypeOK, VersionsGrow
<1>20. CASE UNCHANGED vars
  BY <1>0, <1>20 DEF vars, TypeOK, VersionsGrow
<1> QED
  BY <1>1, <1>2, <1>3, <1>4, <1>5, <1>6, <1>7, <1>8, <1>9, <1>10, <1>11, <1>12, <1>13,
     <1>14, <1>15, <1>16, <1>17, <1>18, <1>19, <1>20
     DEF Next, Host, Scheduler, Controller

-----------------------------------------------------------------------------
(* What the steps do to the versions, the rows and the questions.          *)

\* Every step, action by action, with the executions' turns and what happens
\* in the processes taken together where they leave the committed state alone.
Minor ==
  \/ Revise \/ FailuresRefused \/ Crash \/ UNCHANGED vars
  \/ \E w \in Workers : TurnEnds(w) \/ NoDelivery(w)

LEMMA StepCases ==
  ASSUME [Next]_vars
  PROVE  \/ Ask \/ Submit \/ Review \/ (\E d \in DOMAIN questions : Resolve(d))
         \/ ApplyFacts \/ ReconcileProgress \/ ApplyFailures \/ ApplyDecisions
         \/ ReconcileAcceptance \/ WakeWorkers \/ WakeIdle \/ ClosePass
         \/ (\E w \in Workers : Deliver(w)) \/ (\E w \in Workers : Report(w))
         \/ Minor
  BY DEF Next, Host, Scheduler, Controller, Minor

\* What no minor step touches.
LEMMA MinorSteps ==
  ASSUME Minor
  PROVE  UNCHANGED <<child, candidates, parent, questions, exec, inbox, turns>>
  BY DEF Minor, Revise, FailuresRefused, Crash, TurnEnds, NoDelivery,
     vars, nodeVars, rowVars, procVars, passVars

\* The two steps that change what the child is bound to.
Revises == ReconcileAcceptance /\ ApplyRevision
Rebinds == ReconcileAcceptance /\ Rebind /\ child.state = "running"

\* The actions of the host that leave the candidates, the rounds and the
\* contract of the child alone, and at most move its state.
LEMMA HostSteps ==
  ASSUME TypeOK, [Next]_vars, ~Submit, ~Review, ~Revises
  PROVE  UNCHANGED candidates /\ child'.round = child.round
         /\ child'.contract = child.contract
<1>0. \A s : [child EXCEPT !.state = s].round = child.round
             /\ [child EXCEPT !.state = s].contract = child.contract
  BY NodeTypes
<1>1. CASE Ask \/ (\E d \in DOMAIN questions : Resolve(d)) \/ ApplyFacts \/ ApplyFailures
  BY <1>0, <1>1 DEF Ask, Resolve, ApplyFacts, ApplyFailures
<1>2. CASE ReconcileProgress \/ ApplyDecisions
  BY <1>0, <1>2 DEF ReconcileProgress, ApplyDecisions, Wait, Resume, NothingDecided
<1>3. CASE ReconcileAcceptance
  BY <1>3 DEF ReconcileAcceptance, Revises, HandOff, Supersede, Rebind, NothingToRevise
<1>4. CASE WakeWorkers
  BY <1>0, <1>4 DEF WakeWorkers, WakeChild, WakeParent, AskParent, AskAgain, NobodyToWake,
     Send, GiveUp, Fail
<1>5. CASE WakeIdle
  BY <1>0, <1>5 DEF WakeIdle
<1>6. CASE ClosePass \/ (\E w \in Workers : Deliver(w) \/ Report(w))
  BY <1>6 DEF ClosePass, Deliver, Report, nodeVars
<1> QED
  BY <1>1, <1>2, <1>3, <1>4, <1>5, <1>6, StepCases, MinorSteps

\* The versions: a submission is the only new round, and adds a candidate to
\* the others.
LEMMA SubmitMoves ==
  ASSUME TypeOK, Submit
  PROVE  /\ child'.round = child.round + 1 /\ child'.contract = child.contract
         /\ child'.state = child.state
         /\ DOMAIN candidates' = 1..child.round + 1
         /\ \A r \in 1..child.round : candidates'[r] = candidates[r]
         /\ candidates'[child.round + 1] = Candidate
  BY CandidateTypes, NodeTypes, AppendTo DEF Submit, Candidate

\* A review decides the current candidate and touches no other.
LEMMA ReviewMoves ==
  ASSUME TypeOK, Review
  PROVE  /\ child' = child
         /\ child.round \in 1..child.round
         /\ DOMAIN candidates' = DOMAIN candidates
         /\ \A r \in 1..child.round :
              r # child.round => candidates'[r] = candidates[r]
         /\ candidates[child.round].verdict = "undecided"
         /\ candidates[child.round].contract = child.contract
         /\ candidates'[child.round].contract = child.contract
         /\ candidates'[child.round].verdict \in {"accept", "revise"}
         /\ Limit = Undeclared => candidates'[child.round].result = "none"
<1>1. PICK v \in {"accept", "revise"},
           p \in (IF Limit = Undeclared THEN {"none"} ELSE Results) :
          candidates' = [candidates EXCEPT ![child.round].verdict = v,
                                           ![child.round].result = p]
  BY DEF Review
<1>2. /\ child.round > 0
      /\ candidates[child.round].contract = child.contract
      /\ candidates[child.round].verdict = "undecided"
  BY DEF Review, Undecided, Verdict, HasCandidate
<1>3. child.round \in 1..child.round /\ child.round \in DOMAIN candidates
      /\ candidates[child.round] \in CandidateSet
  BY <1>2, CandidateTypes, NodeTypes
<1> DEFINE c == candidates[child.round]
           e == [[c EXCEPT !.verdict = v] EXCEPT !.result = p]
<1>4. candidates' = [candidates EXCEPT ![child.round] = e]
  BY <1>1, <1>3
<1>5. e = [verdict |-> v, contract |-> c.contract, result |-> p]
  BY <1>3, Decided
<1>6. e.verdict = v /\ e.contract = c.contract /\ e.result = p
  BY <1>5
<1> HIDE DEF e
<1>7. candidates'[child.round] = e /\ DOMAIN candidates' = DOMAIN candidates
      /\ \A r \in DOMAIN candidates : r # child.round => candidates'[r] = candidates[r]
  BY <1>3, <1>4
<1> QED
  BY <1>1, <1>2, <1>3, <1>6, <1>7, CandidateTypes DEF Review

\* A revision raises the contract and tells the execution to stop.
LEMMA RevisionMoves ==
  ASSUME TypeOK, Revises
  PROVE  /\ child'.contract = child.contract + 1 /\ child'.round = child.round
         /\ child'.state = child.state
         /\ UNCHANGED <<candidates, questions, inbox, turns, proc, yielded>>
         /\ exec'["child"].epoch = exec["child"].epoch
         /\ exec'["child"].contract = exec["child"].contract
         /\ exec'["child"].observed = exec["child"].observed
<1>1. child' = [child EXCEPT !.contract = child.contract + 1]
      /\ exec' = [exec EXCEPT !["child"] = [exec["child"] EXCEPT !.desired = "stopped"]]
  BY DEF Revises, ApplyRevision
<1>2. exec'["child"] = [exec["child"] EXCEPT !.desired = "stopped"]
  BY <1>1, TypesNamed DEF Workers
<1>3. exec["child"] \in RowSet
  BY RowTypes DEF Workers
<1>4. /\ [exec["child"] EXCEPT !.desired = "stopped"].epoch = exec["child"].epoch
      /\ [exec["child"] EXCEPT !.desired = "stopped"].contract = exec["child"].contract
      /\ [exec["child"] EXCEPT !.desired = "stopped"].observed = exec["child"].observed
  BY <1>3 DEF RowSet
<1> QED
  BY <1>1, <1>2, <1>4, NodeTypes DEF Revises, ApplyRevision, ReconcileAcceptance

\* A replacement is a new execution under the present contract.
LEMMA RebindMoves ==
  ASSUME TypeOK, Rebinds
  PROVE  /\ exec'["child"] = [epoch |-> exec["child"].epoch + 1,
              contract |-> child.contract, desired |-> "active",
              observed |-> "starting", turn |-> 0]
         /\ proc'["child"] = "none"
         /\ Superseded
         /\ UNCHANGED <<child, candidates, questions, inbox, turns, yielded>>
<1>1. exec' = [exec EXCEPT !["child"] = [epoch |-> exec["child"].epoch + 1,
              contract |-> child.contract, desired |-> "active",
              observed |-> "starting", turn |-> 0]]
      /\ proc' = [proc EXCEPT !["child"] = "none"]
  BY DEF Rebinds, Rebind
<1> QED
  BY <1>1, TypesNamed DEF Rebinds, Rebind, Drained, ReconcileAcceptance, Workers

\* Every other step leaves the epoch and the contract of the child's Worker.
LEMMA RowsKeep ==
  ASSUME TypeOK, [Next]_vars, ~Rebinds
  PROVE  /\ exec'["child"].epoch = exec["child"].epoch
         /\ exec'["child"].contract = exec["child"].contract
<1>0. /\ exec["child"] \in RowSet /\ "child" \in Workers /\ DOMAIN exec = Workers
      /\ exec["child"] = exec["child"]
  BY RowTypes, TypesNamed DEF Workers
<1>1. CASE UNCHANGED exec
  BY <1>1
<1>2. CASE Revises
  BY <1>2, RevisionMoves
<1>3. CASE ClosePass
  <2>1. exec'["child"] \in {exec["child"], [exec["child"] EXCEPT !.desired = "stopped"]}
    BY <1>0, <1>3 DEF ClosePass
  <2> QED
    BY <1>0, <2>1 DEF RowSet
<1>4. ASSUME NEW w \in Workers, Report(w)
      PROVE  /\ exec'["child"].epoch = exec["child"].epoch
             /\ exec'["child"].contract = exec["child"].contract
  <2> DEFINE e == [exec[w] EXCEPT !.observed = Found(w), !.turn = Current(w)]
  <2>1. exec' = [exec EXCEPT ![w] = e]
    BY <1>4 DEF Report
  <2>2. e.epoch = exec[w].epoch /\ e.contract = exec[w].contract
    BY RowTypes DEF RowSet
  <2> HIDE DEF e
  <2> QED
    BY <1>0, <2>1, <2>2
<1> QED
  BY <1>1, <1>2, <1>3, <1>4, StepCases, MinorSteps
     DEF Ask, Submit, Review, Resolve, ApplyFacts, ReconcileProgress, ApplyFailures,
         ApplyDecisions, ReconcileAcceptance, Revises, Rebinds, HandOff, Supersede, Rebind,
         NothingToRevise, RaiseIn, WakeWorkers, WakeIdle, Deliver, nodeVars, rowVars

\* A question is opened, by the child's turn or by the Scheduler.
Asks == Ask \/ (ReconcileProgress /\ HandoffDue /\ parent # "failed")

\* Only a stalled child that runs under its present contract is handed off.
LEMMA AskMoves ==
  ASSUME TypeOK, Asks
  PROVE  /\ child.state = "running" /\ Open = {}
         /\ child'.state = child.state /\ UNCHANGED <<candidates, inbox, turns, exec, proc>>
         /\ child'.round = child.round /\ child'.contract = child.contract
         /\ \E q \in QuestionSet :
              /\ questions' = Append(questions, q)
              /\ q.state = "open" /\ q.round = child.round + 1
              /\ q.contract = child.contract /\ q.epoch = exec["child"].epoch
              /\ Ask \/ q = Question("progress", Trigger)
<1>1. Question("worker", 0) \in QuestionSet /\ Question("progress", Trigger) \in QuestionSet
  BY QuestionTyped, TriggerType, NodeTypes
<1> DEFINE P(q) == /\ q.state = "open" /\ q.round = child.round + 1
                   /\ q.contract = child.contract /\ q.epoch = exec["child"].epoch
<1>2. P(Question("worker", 0)) /\ P(Question("progress", Trigger))
  BY DEF Question
<1>3. CASE Ask
  <2>1. questions' = Append(questions, Question("worker", 0))
    BY <1>3 DEF Ask
  <2> QED
    BY <1>1, <1>2, <1>3, <2>1 DEF Ask, rowVars
<1>4. CASE ReconcileProgress /\ HandoffDue /\ parent # "failed"
  <2>1. questions' = Append(questions, Question("progress", Trigger))
    BY <1>4 DEF ReconcileProgress
  <2> QED
    BY <1>1, <1>2, <1>4, <2>1 DEF ReconcileProgress, HandoffDue, rowVars, procVars
<1> QED
  BY <1>3, <1>4 DEF Asks

\* What is known of a question never changes, but for its being closed.
LEMMA QuestionsKeep ==
  ASSUME TypeOK, [Next]_vars
  PROVE  /\ Asks \/ Len(questions') = Len(questions)
         /\ DOMAIN questions' = 1..Len(questions')
         /\ DOMAIN questions \subseteq DOMAIN questions'
         /\ \A d \in DOMAIN questions :
              /\ questions'[d].source = questions[d].source
              /\ questions'[d].trigger = questions[d].trigger
              /\ questions'[d].round = questions[d].round
              /\ questions'[d].contract = questions[d].contract
              /\ questions'[d].epoch = questions[d].epoch
              /\ questions'[d].state # questions[d].state =>
                   /\ d \in Open /\ UNCHANGED <<child, candidates, inbox, turns, proc>>
                   /\ exec'["child"].epoch = exec["child"].epoch
                   /\ \/ questions'[d].state = "resolved" /\ Resolve(d)
                      \/ questions'[d].state = "cancelled" /\ ClosePass
<1> DEFINE Same(d, q) == /\ q.source = questions[d].source
                         /\ q.trigger = questions[d].trigger
                         /\ q.round = questions[d].round
                         /\ q.contract = questions[d].contract
                         /\ q.epoch = questions[d].epoch
<1>0. /\ DOMAIN questions = 1..Len(questions) /\ Len(questions) \in Nat
      /\ \A d \in DOMAIN questions : questions[d] \in QuestionSet
      /\ \A d \in DOMAIN questions, s \in {"resolved", "cancelled"} :
            /\ Same(d, [questions[d] EXCEPT !.state = s])
            /\ [questions[d] EXCEPT !.state = s].state = s
  <2>1. DOMAIN questions = 1..Len(questions) /\ Len(questions) \in Nat
        /\ \A d \in DOMAIN questions : questions[d] \in QuestionSet
    BY QuestionTypes
  <2> QED
    BY <2>1 DEF QuestionSet
<1>1. CASE UNCHANGED questions
  BY <1>0, <1>1
<1>2. CASE Asks
  <2>1. PICK q \in QuestionSet : questions' = Append(questions, q)
    BY <1>2, AskMoves
  <2>2. /\ Len(questions') = Len(questions) + 1
        /\ DOMAIN questions' = 1..Len(questions) + 1
        /\ \A d \in 1..Len(questions) : questions'[d] = questions[d]
    BY <2>1, QuestionTypes, AppendTo
  <2> QED
    BY <1>0, <1>2, <2>2
<1>3. ASSUME NEW d \in DOMAIN questions, Resolve(d)
      PROVE  /\ Len(questions') = Len(questions) /\ DOMAIN questions' = DOMAIN questions
             /\ questions'[d] = [questions[d] EXCEPT !.state = "resolved"]
             /\ \A c \in DOMAIN questions : c # d => questions'[c] = questions[c]
             /\ d \in Open /\ UNCHANGED <<child, candidates, inbox, turns, exec, proc>>
  <2> DEFINE e == [questions[d] EXCEPT !.state = "resolved"]
  <2>1. questions' = [questions EXCEPT ![d] = e]
    BY <1>3 DEF Resolve
  <2>2. e \in QuestionSet
    BY <1>0 DEF QuestionSet
  <2>3. Len(questions') = Len(questions) /\ DOMAIN questions' = DOMAIN questions
    <3> HIDE DEF e
    <3> QED
      BY <1>0, <2>1, <2>2, ExceptSeq, QuestionTypes
  <2> QED
    BY <1>3, <2>1, <2>3 DEF Resolve, rowVars, procVars
<1>4. CASE ClosePass
  <2>1. DOMAIN questions' = DOMAIN questions /\ Len(questions') = Len(questions)
    <3>1. DOMAIN questions' = DOMAIN questions
      BY <1>4 DEF ClosePass
    <3>2. questions' \in [1..Len(questions) -> QuestionSet]
      <4>1. \A d \in DOMAIN questions :
              [questions[d] EXCEPT !.state = "cancelled"] \in QuestionSet
        BY <1>0 DEF QuestionSet
      <4> QED
        BY <1>0, <1>4, <4>1 DEF ClosePass
    <3> QED
      BY <1>0, <3>1, <3>2, SeqOfFunction
  <2>2. \A d \in DOMAIN questions : questions'[d] =
          IF d \in Withdrawn THEN [questions[d] EXCEPT !.state = "cancelled"] ELSE questions[d]
    BY <1>4 DEF ClosePass
  <2>3. Withdrawn \subseteq Open
    BY DEF Withdrawn
  <2>4. UNCHANGED <<child, candidates, inbox, turns, proc>>
        /\ exec'["child"].epoch = exec["child"].epoch
    <3>1. ~Rebinds
      BY <1>4 DEF ClosePass, Rebinds, Rebind, Commit
    <3> QED
      BY <1>4, <3>1, RowsKeep DEF ClosePass, procVars
  <2> QED
    BY <1>0, <1>4, <2>1, <2>2, <2>3, <2>4
<1>5. UNCHANGED questions \/ Asks \/ (\E d \in DOMAIN questions : Resolve(d)) \/ ClosePass
  BY StepCases, MinorSteps
     DEF Asks, Submit, Review, ApplyFacts, ReconcileProgress, ApplyFailures,
     ApplyDecisions, ReconcileAcceptance, WakeWorkers, WakeIdle, Deliver, Report, nodeVars
<1>6. CASE \E d \in DOMAIN questions : Resolve(d)
  <2>1. PICK d \in DOMAIN questions : Resolve(d)
    BY <1>6
  <2>2. /\ Len(questions') = Len(questions) /\ DOMAIN questions' = DOMAIN questions
        /\ questions'[d] = [questions[d] EXCEPT !.state = "resolved"]
        /\ \A c \in DOMAIN questions : c # d => questions'[c] = questions[c]
        /\ d \in Open /\ UNCHANGED <<child, candidates, inbox, turns, exec, proc>>
    BY <1>3, <2>1
  <2>3. Same(d, questions'[d]) /\ questions'[d].state = "resolved"
    BY <1>0, <2>2
  <2>4. \A c \in DOMAIN questions : c # d => Same(c, questions'[c])
                                         /\ questions'[c].state = questions[c].state
    BY <2>2
  <2> QED
    BY <1>0, <2>1, <2>2, <2>3, <2>4
<1> QED
  BY <1>1, <1>2, <1>4, <1>5, <1>6

-----------------------------------------------------------------------------
(* What the steps do to the child's messages and turns.                    *)

\* The messages of the child.
Mail == inbox["child"]

\* Message k is queued for the child.
Posts(k) ==
  /\ Post("child", k)
  /\ UNCHANGED <<candidates, questions, exec, turns, proc>>
  /\ child'.round = child.round /\ child'.contract = child.contract
  /\ \/ k = Start(exec["child"].epoch)
     \/ k.kind = "continue"
     \/ k = Feedback /\ Verdict = "revise"
     \/ k = Answer /\ Answered

\* The child's messages that are to be replaced are retired.
Retires == ReconcileAcceptance /\ Supersede

\* A turn of the child is started for message i.
Starts(i) ==
  /\ i \in NextUp("child")
  /\ inbox' = [inbox EXCEPT !["child"][i].state = "delivered"]
  /\ turns' = [turns EXCEPT !["child"] = Append(@, [key |-> Mail[i].key,
                                                   epoch |-> exec["child"].epoch])]
  /\ proc' = [proc EXCEPT !["child"] = "active"]
  /\ Accepts("child")
  /\ UNCHANGED <<nodeVars, exec, stops, yielded>>

\* All that ever happens to the messages and turns of the child.
LEMMA InboxCases ==
  ASSUME TypeOK, [Next]_vars
  PROVE  \/ inbox'["child"] = Mail /\ turns'["child"] = turns["child"]
         \/ \E k \in KeySet : Posts(k)
         \/ Retires
         \/ \E i \in DOMAIN Mail : Starts(i)
<1>1. CASE UNCHANGED <<inbox, turns>>
  BY <1>1 DEF Mail
<1>2. CASE ApplyDecisions
  <2>1. CASE Resume /\ Post("child", Answer)
    <3>1. Posts(Answer)
      <4>1. child'.round = child.round /\ child'.contract = child.contract
        BY <2>1, NodeTypes DEF Resume
      <4> QED
        BY <1>2, <2>1, <4>1 DEF ApplyDecisions, Posts, Resume, ReplyDue, procVars
    <3>2. Answer \in KeySet
      BY KeysTyped, QuestionTypes DEF Answer
    <3> QED
      BY <3>1, <3>2
  <2> QED
    BY <1>1, <1>2, <2>1 DEF ApplyDecisions, Wait, Resume, NothingDecided, procVars
<1>3. CASE ReconcileAcceptance
  <2>1. CASE HandOff
    <3>1. Posts(Start(exec["child"].epoch))
      BY <1>3, <2>1 DEF ReconcileAcceptance, HandOff, Posts
    <3> QED
      BY <3>1, KeysTyped, RowTypes DEF Workers
  <2> QED
    BY <1>1, <1>3, <2>1
       DEF ReconcileAcceptance, Retires, ApplyRevision, Rebind, NothingToRevise
<1>4. CASE WakeWorkers
  <2>1. CASE WakeChild
    <3>1. ASSUME NEW k, Send("child", k),
                 k = Start(exec["child"].epoch) \/ (k = Feedback /\ Verdict = "revise")
          PROVE  Posts(k)
      BY <1>4, <3>1 DEF WakeWorkers, Send, Posts, procVars
    <3>2. Start(exec["child"].epoch) \in KeySet /\ Feedback \in KeySet
      BY KeysTyped, RowTypes DEF Workers
    <3>3. CASE inbox' # inbox
      <4>1. \/ Send("child", Start(exec["child"].epoch))
            \/ Send("child", Feedback) /\ Verdict = "revise"
        BY <2>1, <3>3 DEF WakeChild, GiveUp, ReworkDue
      <4>2. CASE Send("child", Start(exec["child"].epoch))
        <5>1. Posts(Start(exec["child"].epoch))
          BY <3>1, <4>2
        <5> QED
          BY <3>2, <5>1
      <4>3. CASE Send("child", Feedback) /\ Verdict = "revise"
        <5>1. Posts(Feedback)
          BY <3>1, <4>3
        <5> QED
          BY <3>2, <5>1
      <4> QED
        BY <4>1, <4>2, <4>3
    <3> QED
      BY <1>1, <1>4, <3>3 DEF WakeWorkers, procVars
  <2>2. CASE ~WakeChild
    <3>1. turns' = turns
      BY <1>4 DEF WakeWorkers, procVars
    <3>2. inbox'["child"] = Mail
      <4>1. CASE inbox' = inbox
        BY <4>1 DEF Mail
      <4>2. CASE \E k : Post("parent", k)
        BY <4>2, TypesNamed DEF Post, Mail, Workers
      <4> QED
        BY <1>4, <2>2, <4>1, <4>2
           DEF WakeWorkers, WakeParent, AskParent, AskAgain, Send, GiveUp,
           NobodyToWake
    <3> QED
      BY <3>1, <3>2
  <2> QED
    BY <2>1, <2>2
<1>5. CASE WakeIdle
  <2> DEFINE k == Key("continue", 0, exec["child"].turn)
  <2>1. CASE Post("child", k) /\ child' = child
    <3>1. Posts(k)
      BY <1>5, <2>1 DEF WakeIdle, Posts, procVars, Key
    <3>2. k \in KeySet
      BY KeysTyped, RowTypes DEF Workers
    <3> QED
      BY <3>1, <3>2
  <2> QED
    BY <1>1, <1>5, <2>1 DEF WakeIdle, procVars
<1>6. ASSUME NEW w \in Workers, Deliver(w)
      PROVE  \/ inbox'["child"] = Mail /\ turns'["child"] = turns["child"]
             \/ \E i \in DOMAIN Mail : Starts(i)
  <2>1. CASE w = "parent"
    <3>1. PICK i \in NextUp(w) :
            /\ inbox' = [inbox EXCEPT ![w][i].state = "delivered"]
            /\ turns' = [turns EXCEPT ![w] = Append(@, [key |-> inbox[w][i].key,
                                                       epoch |-> exec[w].epoch])]
      BY <1>6 DEF Deliver
    <3> QED
      BY <2>1, <3>1, TypesNamed DEF Mail, Workers
  <2>2. CASE w = "child"
    <3>1. PICK i \in NextUp("child") :
            /\ inbox' = [inbox EXCEPT !["child"][i].state = "delivered"]
            /\ turns' = [turns EXCEPT !["child"] = Append(@, [key |-> Mail[i].key,
                                                       epoch |-> exec["child"].epoch])]
      BY <1>6, <2>2 DEF Deliver, Mail
    <3>2. Starts(i)
      BY <1>6, <2>2, <3>1 DEF Deliver, Starts
    <3> QED
      BY <3>1, <3>2 DEF NextUp, Queued, Rows, Mail
  <2> QED
    BY <2>1, <2>2 DEF Workers
<1> QED
  BY <1>1, <1>2, <1>3, <1>4, <1>5, <1>6, StepCases, MinorSteps
     DEF Ask, Submit, Review, Resolve, ApplyFacts, ReconcileProgress, ApplyFailures,
         ClosePass, Report, rowVars, procVars

\* A queued message is the last of the inbox.
LEMMA PostsMoves ==
  ASSUME TypeOK, NEW k, Posts(k)
  PROVE  /\ DOMAIN inbox'["child"] = 1..Len(Mail) + 1
         /\ \A i \in DOMAIN Mail : inbox'["child"][i] = Mail[i]
         /\ inbox'["child"][Len(Mail) + 1] =
              [key |-> k, epoch |-> exec["child"].epoch, state |-> "pending"]
<1> DEFINE m == [key |-> k, epoch |-> exec["child"].epoch, state |-> "pending"]
<1>1. inbox'["child"] = Append(Mail, m)
  BY TypesNamed DEF Posts, Post, Mail, Workers
<1>2. Mail \in Seq(MessageSet) /\ DOMAIN Mail = 1..Len(Mail)
  BY InboxTypes DEF Mail, Workers
<1> HIDE DEF m
<1>3. /\ DOMAIN inbox'["child"] = 1..Len(Mail) + 1
      /\ \A i \in 1..Len(Mail) : inbox'["child"][i] = Mail[i]
      /\ inbox'["child"][Len(Mail) + 1] = m
  BY <1>1, <1>2
<1> QED
  BY <1>2, <1>3 DEF m

\* Retired messages were not delivered, and delivered ones stay.
LEMMA RetiresMoves ==
  ASSUME TypeOK, Retires
  PROVE  /\ UNCHANGED <<child, candidates, questions, exec, turns, proc, yielded>>
         /\ DOMAIN inbox'["child"] = DOMAIN Mail
         /\ \A i \in DOMAIN Mail :
              /\ inbox'["child"][i].key = Mail[i].key
              /\ inbox'["child"][i].epoch = Mail[i].epoch
              /\ Mail[i].state = "delivered" => inbox'["child"][i] = Mail[i]
              /\ Mail[i].state # "delivered" => inbox'["child"][i].state # "delivered"
<1>1. inbox'["child"] = [i \in DOMAIN Mail |-> IF i \in Queued("child")
                             THEN [Mail[i] EXCEPT !.state = "superseded"] ELSE Mail[i]]
  BY TypesNamed DEF Retires, Supersede, Mail, Workers
<1>2. \A i \in DOMAIN Mail : Mail[i] \in MessageSet
  BY InboxTypes DEF Mail, Workers
<1>3. \A i \in DOMAIN Mail :
        /\ [Mail[i] EXCEPT !.state = "superseded"].key = Mail[i].key
        /\ [Mail[i] EXCEPT !.state = "superseded"].epoch = Mail[i].epoch
        /\ [Mail[i] EXCEPT !.state = "superseded"].state = "superseded"
  BY <1>2 DEF MessageSet
<1>4. \A i \in Queued("child") : Mail[i].state = "pending"
  BY DEF Queued, Rows, Mail
<1> QED
  <2>1. UNCHANGED <<child, candidates, questions, exec, turns, proc, yielded>>
    BY DEF Retires, Supersede, ReconcileAcceptance
  <2>2. DOMAIN inbox'["child"] = DOMAIN Mail
    BY <1>1
  <2>3. ASSUME NEW i \in DOMAIN Mail
        PROVE  /\ inbox'["child"][i].key = Mail[i].key
               /\ inbox'["child"][i].epoch = Mail[i].epoch
               /\ Mail[i].state = "delivered" => inbox'["child"][i] = Mail[i]
               /\ Mail[i].state # "delivered" => inbox'["child"][i].state # "delivered"
    <3>1. CASE i \in Queued("child")
      <4>1. inbox'["child"][i] = [Mail[i] EXCEPT !.state = "superseded"]
        BY <1>1, <3>1
      <4> QED
        BY <1>3, <1>4, <3>1, <4>1
    <3>2. CASE i \notin Queued("child")
      BY <1>1, <3>2
    <3> QED
      BY <3>1, <3>2
  <2> QED
    BY <2>1, <2>2, <2>3

\* The started turn is for a message that the gate let through.
LEMMA StartsMoves ==
  ASSUME TypeOK, NEW i \in DOMAIN Mail, Starts(i)
  PROVE  /\ ChildGate(Mail[i].key)
         /\ Mail[i].epoch = exec["child"].epoch /\ Mail[i].state = "pending"
         /\ DOMAIN inbox'["child"] = DOMAIN Mail
         /\ \A j \in DOMAIN Mail : j # i => inbox'["child"][j] = Mail[j]
         /\ inbox'["child"][i] = [key |-> Mail[i].key, epoch |-> Mail[i].epoch,
                                  state |-> "delivered"]
         /\ DOMAIN turns'["child"] = 1..Len(turns["child"]) + 1
         /\ DOMAIN turns["child"] = 1..Len(turns["child"])
         /\ \A t \in DOMAIN turns["child"] : turns'["child"][t] = turns["child"][t]
         /\ turns'["child"][Len(turns["child"]) + 1] =
              [key |-> Mail[i].key, epoch |-> exec["child"].epoch]
         /\ proc["child"] \notin {"active", "unknown"} /\ proc'["child"] = "active"
         /\ UNCHANGED <<child, candidates, requested, parent, questions, exec, yielded>>
<1>1. ChildGate(Mail[i].key) /\ Mail[i].epoch = exec["child"].epoch
      /\ Mail[i].state = "pending"
  BY DEF Starts, NextUp, Queued, Rows, Gate, Mail
<1> DEFINE m == [Mail[i] EXCEPT !.state = "delivered"]
           t == [key |-> Mail[i].key, epoch |-> exec["child"].epoch]
<1>2. Mail[i] \in MessageSet /\ Mail \in Seq(MessageSet)
  BY InboxTypes DEF Mail, Workers
<1>3. m = [key |-> Mail[i].key, epoch |-> Mail[i].epoch, state |-> "delivered"]
  BY <1>2 DEF MessageSet
<1>4. inbox'["child"] = [Mail EXCEPT ![i] = m]
  BY TypesNamed DEF Starts, Mail, Workers
<1>5. /\ DOMAIN inbox'["child"] = DOMAIN Mail
      /\ \A j \in DOMAIN Mail : j # i => inbox'["child"][j] = Mail[j]
      /\ inbox'["child"][i] = m
  <2> HIDE DEF m
  <2> QED
    BY <1>4
<1>6. t \in TurnSet
  BY <1>2, RowTypes DEF MessageSet, TurnSet, Workers
<1>7. turns'["child"] = Append(turns["child"], t)
  BY TypesNamed DEF Starts, Workers
<1>8. /\ DOMAIN turns'["child"] = 1..Len(turns["child"]) + 1
      /\ DOMAIN turns["child"] = 1..Len(turns["child"])
      /\ \A n \in DOMAIN turns["child"] : turns'["child"][n] = turns["child"][n]
      /\ turns'["child"][Len(turns["child"]) + 1] = t
  <2>1. turns["child"] \in Seq(TurnSet)
    BY TurnTypes DEF Workers
  <2> HIDE DEF t
  <2> QED
    BY <1>6, <1>7, <2>1, AppendTo
<1>9. proc["child"] \notin {"active", "unknown"} /\ proc'["child"] = "active"
  BY TypesNamed DEF Starts, Accepts, Workers
<1> QED
  BY <1>1, <1>3, <1>5, <1>8, <1>9 DEF Starts, nodeVars

-----------------------------------------------------------------------------
(* The questions and their replies.                                        *)

\* The child's messages stay as they are, but for the deliveries and the
\* retirements of those that were queued.
LEMMA MessagesStay ==
  ASSUME TypeOK, [Next]_vars, NEW i \in DOMAIN Mail
  PROVE  /\ i \in DOMAIN inbox'["child"]
         /\ inbox'["child"][i].key = Mail[i].key
         /\ inbox'["child"][i].epoch = Mail[i].epoch
         /\ Mail[i].state = "delivered" => inbox'["child"][i] = Mail[i]
         /\ inbox'["child"][i].state = "delivered" =>
              Mail[i].state = "delivered" \/ Starts(i)
<1>0. DOMAIN Mail = 1..Len(Mail) /\ Len(Mail) \in Nat
  BY InboxTypes DEF Mail, Workers
<1>1. CASE inbox'["child"] = Mail
  BY <1>1
<1>2. ASSUME NEW k \in KeySet, Posts(k)
      PROVE  i \in DOMAIN inbox'["child"] /\ inbox'["child"][i] = Mail[i]
  <2>1. /\ DOMAIN inbox'["child"] = 1..Len(Mail) + 1
        /\ \A j \in DOMAIN Mail : inbox'["child"][j] = Mail[j]
    BY <1>2, PostsMoves
  <2> QED
    BY <1>0, <2>1
<1>3. CASE Retires
  BY <1>3, RetiresMoves
<1>4. ASSUME NEW j \in DOMAIN Mail, Starts(j)
      PROVE  /\ i \in DOMAIN inbox'["child"]
             /\ inbox'["child"][i].key = Mail[i].key
             /\ inbox'["child"][i].epoch = Mail[i].epoch
             /\ Mail[i].state = "delivered" => inbox'["child"][i] = Mail[i]
             /\ inbox'["child"][i].state = "delivered" =>
                  Mail[i].state = "delivered" \/ Starts(i)
  <2>1. CASE i = j
    <3>1. Starts(i)
      BY <1>4, <2>1
    <3>2. /\ Mail[i].state = "pending" /\ DOMAIN inbox'["child"] = DOMAIN Mail
          /\ inbox'["child"][i] = [key |-> Mail[i].key, epoch |-> Mail[i].epoch,
                                   state |-> "delivered"]
      BY <3>1, StartsMoves
    <3> QED
      BY <3>1, <3>2
  <2>2. CASE i # j
    <3>1. /\ DOMAIN inbox'["child"] = DOMAIN Mail
          /\ \A n \in DOMAIN Mail : n # j => inbox'["child"][n] = Mail[n]
      BY <1>4, StartsMoves
    <3> QED
      BY <2>2, <3>1
  <2> QED
    BY <2>1, <2>2
<1> QED
  BY <1>1, <1>2, <1>3, <1>4, InboxCases

\* The turns stay as they were.
LEMMA TurnsStay ==
  ASSUME TypeOK, [Next]_vars, NEW t \in DOMAIN turns["child"]
  PROVE  t \in DOMAIN turns'["child"] /\ turns'["child"][t] = turns["child"][t]
<1>0. DOMAIN turns["child"] = 1..Len(turns["child"]) /\ Len(turns["child"]) \in Nat
  BY TurnTypes DEF Workers
<1>1. ASSUME NEW j \in DOMAIN Mail, Starts(j)
      PROVE  t \in DOMAIN turns'["child"] /\ turns'["child"][t] = turns["child"][t]
  <2>1. /\ DOMAIN turns'["child"] = 1..Len(turns["child"]) + 1
        /\ \A n \in DOMAIN turns["child"] : turns'["child"][n] = turns["child"][n]
    BY <1>1, StartsMoves
  <2> QED
    BY <1>0, <2>1
<1>2. CASE turns'["child"] = turns["child"]
  BY <1>2
<1>3. CASE Retires
  BY <1>3, RetiresMoves
<1>4. ASSUME NEW k, Posts(k) PROVE turns' = turns
  BY <1>4 DEF Posts
<1> QED
  BY <1>1, <1>2, <1>3, <1>4, InboxCases

\* Of a question that waits, the child had been running.
LEMMA WaitMoves ==
  ASSUME TypeOK, [Next]_vars, child'.state = "waiting_decision",
         child.state # "waiting_decision"
  PROVE  child.state = "running" /\ Open # {} /\ UNCHANGED <<questions, exec>>
<1>0. \A s : [child EXCEPT !.state = s].state = s
  BY NodeTypes
<1>1. ~Submit /\ ~Revises
  BY SubmitMoves, RevisionMoves
<1>2. ~ApplyFacts /\ ~ReconcileProgress /\ ~ApplyFailures
  BY <1>0
     DEF ApplyFacts, Applied, ReconcileProgress, ApplyFailures, Struck, Closed,
         Terminal
<1>3. ~WakeWorkers /\ ~WakeIdle
  BY <1>0 DEF WakeWorkers, WakeChild, WakeParent, AskParent, AskAgain, NobodyToWake,
     Send, GiveUp, Fail, WakeIdle
<1>4. ~ReconcileAcceptance
  BY <1>1 DEF ReconcileAcceptance, Revises, HandOff, Supersede, Rebind, NothingToRevise
<1>5. CASE ApplyDecisions
  BY <1>0, <1>5 DEF ApplyDecisions, Wait, Resume, NothingDecided
<1> QED
  BY <1>1, <1>2, <1>3, <1>4, <1>5, StepCases, MinorSteps
     DEF Ask, Review, Resolve, ClosePass, Deliver, Report, nodeVars

-----------------------------------------------------------------------------

\* A candidate was submitted under a contract its execution was bound to.
CandidatesOfNow ==
  \A r \in 1..child.round : candidates[r].contract <= exec["child"].contract

\* One question is open at a time, the last.
OpenIsLast == \A d \in Open : d = Len(questions)

\* No question is of an execution to come, and the open one is of the present
\* execution and contract.
QuestionsOfNow ==
  \A d \in DOMAIN questions :
    /\ questions[d].epoch <= exec["child"].epoch
    /\ d \in Open => /\ questions[d].epoch = exec["child"].epoch
                     /\ questions[d].contract = child.contract

\* A child waits for the last question, and in the execution that asked it.
WaitIsCurrent ==
  child.state = "waiting_decision" =>
    /\ Len(questions) \in DOMAIN questions
    /\ questions[Len(questions)].epoch = exec["child"].epoch
    /\ ~Superseded

\* A contract is revised when nothing is asked, and no reply is on its way.
SettledBeforeRevision == Superseded => Open = {} /\ RepliesConsumed

\* The questions, the contract and the executions agree.
AskInv ==
  /\ CandidatesOfNow /\ OpenIsLast /\ QuestionsOfNow
  /\ WaitIsCurrent /\ SettledBeforeRevision

\* A queued reply is that of a question answered, and for the execution that asked.
ReplyRows ==
  \A i \in DOMAIN Mail :
    Mail[i].key.kind = "reply" =>
      /\ Mail[i].key.of \in InState("resolved")
      /\ Mail[i].key = Reply(Mail[i].key.of)
      /\ Mail[i].epoch = questions[Mail[i].key.of].epoch

\* A delivered reply was delivered to a turn.
DeliveredReplies ==
  \A i \in DOMAIN Mail :
    Mail[i].key.kind = "reply" /\ Mail[i].state = "delivered" =>
      \E t \in DOMAIN turns["child"] : turns["child"][t].key = Mail[i].key

\* What was read was an answer.
AnswersRead ==
  \A t \in DOMAIN turns["child"] :
    turns["child"][t].key.kind = "reply" =>
      turns["child"][t].key.of \in InState("resolved")

\* The replies follow the questions: RepliesReachTheirAsker, made inductive.
ReplyInv == AskInv /\ ReplyRows /\ AnswersRead /\ DeliveredReplies /\ RepliesReachTheirAsker

\* A stall is a comparison without improvement under the present contract.
LEMMA StalledIsCurrent ==
  ASSUME TypeOK, Stalled
  PROVE  /\ Limit # Undeclared /\ Trigger \in 1..child.round
         /\ candidates[Trigger].contract = child.contract
         /\ candidates[Trigger].result = "not_improved"
<1>1. Limit # Undeclared
  BY DEF Stalled, Trigger
<1>2. Trigger \in StalledOf(candidates, child.contract, child.round)
  BY <1>1, TriggerType
<1> QED
  BY <1>1, <1>2 DEF StalledOf, WindowOf

\* Nobody asks while the execution is to be replaced.
LEMMA AsksCurrent ==
  ASSUME TInv, CandidatesOfNow, Asks
  PROVE  ~Superseded
<1>1. CASE Ask
  BY <1>1 DEF Ask
<1>2. CASE Stalled
  BY <1>2, StalledIsCurrent, NodeTypes, RowTypes
     DEF TInv, VersionsGrow, CandidatesOfNow, Superseded, Workers
<1> QED
  BY <1>1, <1>2 DEF Asks, HandoffDue

\* Candidates come from executions of their contract.
LEMMA CandidatesOfNowStep ==
  ASSUME TInv, CandidatesOfNow, [Next]_vars
  PROVE  CandidatesOfNow'
<1>0. TypeOK /\ exec["child"].contract <= child.contract
  BY DEF TInv, VersionsGrow
<1>1. CASE Submit
  <2>1. exec["child"].contract = child.contract /\ Candidate.contract = child.contract
    BY <1>1 DEF Submit, Superseded, Candidate
  <2>2. exec'["child"].contract = exec["child"].contract
    BY <1>1 DEF Submit, rowVars
  <2> QED
    BY <1>0, <1>1, <2>1, <2>2, SubmitMoves, NodeTypes, RowTypes
       DEF CandidatesOfNow, Workers
<1>2. CASE Review
  <2>2. exec'["child"].contract = exec["child"].contract
    BY <1>2 DEF Review, rowVars
  <2>3. \A r \in 1..child.round : candidates'[r].contract = candidates[r].contract
    BY <1>0, <1>2, ReviewMoves
  <2> QED
    BY <1>0, <1>2, <2>2, <2>3, ReviewMoves DEF CandidatesOfNow
<1>3. CASE ~Submit /\ ~Review
  <2>1. UNCHANGED candidates /\ child'.round = child.round
    BY <1>0, <1>3, HostSteps, RevisionMoves
  <2>2. exec'["child"].contract >= exec["child"].contract
    <3>1. CASE Rebinds
      BY <1>0, <3>1, RebindMoves, NodeTypes, RowTypes DEF Workers
    <3>2. CASE ~Rebinds
      BY <1>0, <3>2, RowsKeep, RowTypes DEF Workers
    <3> QED
      BY <3>1, <3>2
  <2>3. exec'["child"].contract \in Nat /\ exec["child"].contract \in Nat
        /\ \A r \in 1..child.round : candidates[r].contract \in Nat
    <3>1. exec'["child"].contract \in Nat
      <4>1. CASE Rebinds
        BY <1>0, <4>1, RebindMoves, NodeTypes
      <4>2. CASE ~Rebinds
        BY <1>0, <4>2, RowsKeep, RowTypes DEF Workers
      <4> QED
        BY <4>1, <4>2
    <3> QED
      BY <1>0, <3>1, RowTypes, CandidateTypes, NodeTypes DEF Workers, CandidateSet
  <2> QED
    BY <2>1, <2>2, <2>3 DEF CandidatesOfNow
<1> QED
  BY <1>1, <1>2, <1>3

\* The contract of the child and of its Worker change by a revision and by a
\* replacement only, both when the child runs.
LEMMA SupersededKeeps ==
  ASSUME TypeOK, [Next]_vars, ~Revises, ~Rebinds
  PROVE  /\ child'.contract = child.contract
         /\ exec'["child"].epoch = exec["child"].epoch
         /\ Superseded' = Superseded
<1>1. child'.contract = child.contract
  BY HostSteps, SubmitMoves, ReviewMoves
<1> QED
  BY <1>1, RowsKeep DEF Superseded

\* Without a new question none is opened.
LEMMA ClosedNow ==
  ASSUME TypeOK, [Next]_vars, ~Asks
  PROVE  Open' \subseteq Open
  BY QuestionsKeep DEF Open, InState

\* Replies that were read stay read, as long as nothing is asked.
LEMMA ConsumedKeeps ==
  ASSUME TypeOK, [Next]_vars, Open = {}, ~Asks, RepliesConsumed
  PROVE  RepliesConsumed'
<1>1. \A d \in InState("resolved")' : d \in InState("resolved")
                                      /\ questions'[d].epoch = questions[d].epoch
  BY QuestionsKeep DEF InState
<1> SUFFICES ASSUME NEW d \in InState("resolved")'
             PROVE  \E i \in DOMAIN inbox'["child"] :
                      inbox'["child"][i] = [key |-> Reply(d), epoch |-> questions'[d].epoch,
                                            state |-> "delivered"]
  BY DEF RepliesConsumed, Reply, Key
<1>2. d \in InState("resolved") /\ questions'[d].epoch = questions[d].epoch
  BY <1>1
<1>3. PICK i \in DOMAIN inbox["child"] :
        inbox["child"][i] = [key |-> Reply(d), epoch |-> questions[d].epoch,
                             state |-> "delivered"]
  BY <1>2 DEF RepliesConsumed
<1>4. i \in DOMAIN inbox'["child"] /\ inbox'["child"][i] = inbox["child"][i]
  <2>1. i \in DOMAIN Mail /\ Mail[i].state = "delivered"
    BY <1>3 DEF Mail
  <2> QED
    BY <2>1, MessagesStay DEF Mail
<1> QED
  BY <1>2, <1>3, <1>4

\* Every step keeps the questions in agreement with contract and execution.
LEMMA AskInvStep ==
  ASSUME TInv, AskInv, [Next]_vars
  PROVE  AskInv'
<1>0. TypeOK /\ CandidatesOfNow' /\ CandidatesOfNow
  BY CandidatesOfNowStep DEF AskInv, TInv
<1>t. /\ DOMAIN questions = 1..Len(questions) /\ Len(questions) \in Nat
      /\ exec["child"].epoch \in Nat
      /\ \A d \in DOMAIN questions : questions[d] \in QuestionSet /\ questions[d].epoch \in Nat
  <2>1. DOMAIN questions = 1..Len(questions) /\ Len(questions) \in Nat
        /\ \A d \in DOMAIN questions : questions[d] \in QuestionSet
    BY <1>0, QuestionTypes
  <2> QED
    BY <1>0, <2>1, RowTypes DEF QuestionSet, Workers
<1>1. CASE Asks
  <2>1. PICK q \in QuestionSet :
          /\ questions' = Append(questions, q)
          /\ q.state = "open" /\ q.contract = child.contract /\ q.epoch = exec["child"].epoch
    BY <1>0, <1>1, AskMoves
  <2>2. /\ DOMAIN questions' = 1..Len(questions) + 1 /\ Len(questions') = Len(questions) + 1
        /\ \A d \in 1..Len(questions) : questions'[d] = questions[d]
        /\ questions'[Len(questions) + 1] = q
    BY <1>0, <2>1, QuestionTypes, AppendTo
  <2>3. /\ child'.state = "running" /\ child'.contract = child.contract /\ exec' = exec
        /\ Open = {} /\ ~Superseded
    BY <1>0, <1>1, AskMoves, AsksCurrent
  <2>4. Open' = {Len(questions) + 1}
    BY <1>t, <2>1, <2>2, <2>3 DEF Open, InState
  <2>5. ~Superseded'
    BY <2>3 DEF Superseded
  <2>6. OpenIsLast' /\ WaitIsCurrent' /\ SettledBeforeRevision'
    BY <2>2, <2>3, <2>4, <2>5 DEF OpenIsLast, WaitIsCurrent, SettledBeforeRevision
  <2>7. QuestionsOfNow'
    <3> SUFFICES ASSUME NEW d \in DOMAIN questions'
                 PROVE  /\ questions'[d].epoch <= exec["child"].epoch
                        /\ d \in Open' => /\ questions'[d].epoch = exec["child"].epoch
                                          /\ questions'[d].contract = child.contract
      BY <2>3 DEF QuestionsOfNow
    <3>1. CASE d \in 1..Len(questions)
      BY <1>t, <2>2, <2>4, <3>1 DEF AskInv, QuestionsOfNow
    <3>2. CASE d = Len(questions) + 1
      BY <1>t, <2>1, <2>2, <3>2
    <3> QED
      BY <1>t, <2>2, <3>1, <3>2
  <2> QED
    BY <1>0, <2>6, <2>7 DEF AskInv
<1>2. CASE ~Asks
  <2>1. /\ Open' \subseteq Open /\ DOMAIN questions' = DOMAIN questions
        /\ Len(questions') = Len(questions)
        /\ \A d \in DOMAIN questions : /\ questions'[d].epoch = questions[d].epoch
                                       /\ questions'[d].contract = questions[d].contract
    BY <1>0, <1>2, <1>t, ClosedNow, QuestionsKeep
  <2>2. OpenIsLast'
    BY <2>1 DEF AskInv, OpenIsLast
  <2>3. CASE Rebinds
    <3>1. /\ exec'["child"].epoch = exec["child"].epoch + 1 /\ UNCHANGED child
          /\ exec'["child"].contract = child.contract /\ child.state = "running" /\ Superseded
      BY <1>0, <2>3, RebindMoves DEF Rebinds
    <3>2. Open' = {} /\ ~Superseded'
      BY <2>1, <3>1 DEF AskInv, SettledBeforeRevision, Superseded
    <3> QED
      BY <1>0, <1>t, <2>1, <2>2, <3>1, <3>2
         DEF AskInv, QuestionsOfNow, WaitIsCurrent, SettledBeforeRevision
  <2>4. CASE Revises
    <3>1. Open = {} /\ RepliesConsumed /\ child.state = "running"
      BY <2>4 DEF Revises, ApplyRevision, MayApply
    <3>2. child'.state = "running" /\ exec'["child"].epoch = exec["child"].epoch
      BY <1>0, <2>4, <3>1, RevisionMoves
    <3>3. RepliesConsumed' /\ Open' = {}
      BY <1>0, <1>2, <2>1, <3>1, ConsumedKeeps
    <3> QED
      BY <1>0, <2>1, <2>2, <3>2, <3>3
         DEF AskInv, QuestionsOfNow, WaitIsCurrent, SettledBeforeRevision
  <2>5. CASE ~Rebinds /\ ~Revises
    <3>1. /\ child'.contract = child.contract /\ Superseded' = Superseded
          /\ exec'["child"].epoch = exec["child"].epoch
      BY <1>0, <2>5, SupersededKeeps
    <3>2. QuestionsOfNow'
      BY <2>1, <3>1 DEF AskInv, QuestionsOfNow
    <3>3. SettledBeforeRevision'
      BY <1>0, <1>2, <2>1, <3>1, ConsumedKeeps DEF AskInv, SettledBeforeRevision
    <3>4. WaitIsCurrent'
      <4> SUFFICES ASSUME child'.state = "waiting_decision"
                   PROVE  /\ Len(questions) \in DOMAIN questions
                          /\ questions[Len(questions)].epoch = exec["child"].epoch
                          /\ ~Superseded
        BY <2>1, <3>1 DEF WaitIsCurrent
      <4>1. CASE child.state = "waiting_decision"
        BY <4>1 DEF AskInv, WaitIsCurrent
      <4>2. CASE child.state # "waiting_decision"
        <5>1. Open # {}
          BY <1>0, <4>2, WaitMoves
        <5>2. PICK d \in Open : TRUE
          BY <5>1
        <5>3. d = Len(questions) /\ d \in DOMAIN questions
          BY DEF AskInv, OpenIsLast, Open, InState
        <5> QED
          BY <5>1, <5>3 DEF AskInv, QuestionsOfNow, SettledBeforeRevision
      <4> QED
        BY <4>1, <4>2
    <3> QED
      BY <1>0, <2>2, <3>2, <3>3, <3>4 DEF AskInv
  <2> QED
    BY <2>3, <2>4, <2>5
<1> QED
  BY <1>1, <1>2

\* A reply is queued for an answered question, and for the execution that
\* asked.
LEMMA ReplyRowsStep ==
  ASSUME TInv, ReplyInv, [Next]_vars
  PROVE  ReplyRows'
<1>0. TypeOK /\ AskInv
  BY DEF TInv, ReplyInv
<1>1. \A d \in InState("resolved") : d \in InState("resolved")'
                                     /\ questions'[d].epoch = questions[d].epoch
  BY <1>0, QuestionsKeep DEF InState, Open
<1>2. DOMAIN Mail = 1..Len(Mail) /\ Len(Mail) \in Nat
  BY <1>0, InboxTypes DEF Mail, Workers
<1> SUFFICES ASSUME NEW i \in DOMAIN inbox'["child"], inbox'["child"][i].key.kind = "reply"
             PROVE  \E d : /\ d = inbox'["child"][i].key.of
                           /\ d \in InState("resolved")'
                           /\ inbox'["child"][i].key = Reply(d)
                           /\ inbox'["child"][i].epoch = questions'[d].epoch
  BY DEF ReplyRows, Mail, Reply, Key
<1>3. CASE i \in DOMAIN Mail
  <2>1. inbox'["child"][i].key = Mail[i].key /\ inbox'["child"][i].epoch = Mail[i].epoch
    BY <1>0, <1>3, MessagesStay
  <2> QED
    BY <1>1, <1>3, <2>1 DEF ReplyInv, ReplyRows
<1>4. CASE i \notin DOMAIN Mail
  <2>1. PICK k \in KeySet : Posts(k)
    BY <1>0, <1>4, InboxCases, RetiresMoves, StartsMoves
  <2>2. inbox'["child"][i] = [key |-> k, epoch |-> exec["child"].epoch, state |-> "pending"]
    <3>1. /\ DOMAIN inbox'["child"] = 1..Len(Mail) + 1
          /\ inbox'["child"][Len(Mail) + 1] =
               [key |-> k, epoch |-> exec["child"].epoch, state |-> "pending"]
      BY <1>0, <2>1, PostsMoves
    <3> QED
      BY <1>2, <1>4, <3>1
  <2>3. k = Answer /\ Answered /\ questions' = questions
    BY <2>1, <2>2 DEF Posts, Start, Feedback, Key
  <2>4. /\ Len(questions) \in InState("resolved")
        /\ questions[Len(questions)].epoch = exec["child"].epoch
    BY <1>0, <2>3 DEF Answered, AskInv, WaitIsCurrent
  <2>5. k = Reply(Len(questions)) /\ k.of = Len(questions)
    BY <2>3 DEF Answer, Reply, Key
  <2> QED
    BY <1>1, <2>2, <2>4, <2>5
<1> QED
  BY <1>3, <1>4

\* A delivery of a reply is a turn.
LEMMA DeliveredRepliesStep ==
  ASSUME TInv, ReplyInv, [Next]_vars
  PROVE  DeliveredReplies'
<1>0. TypeOK
  BY DEF TInv
<1> SUFFICES ASSUME NEW i \in DOMAIN inbox'["child"], inbox'["child"][i].key.kind = "reply",
                    inbox'["child"][i].state = "delivered"
             PROVE  \E t \in DOMAIN turns'["child"] :
                      turns'["child"][t].key = inbox'["child"][i].key
  BY DEF DeliveredReplies, Mail
<1>1. i \in DOMAIN Mail
  <2> SUFFICES ASSUME i \notin DOMAIN Mail PROVE FALSE
    OBVIOUS
  <2>1. PICK k \in KeySet : Posts(k)
    BY <1>0, InboxCases, RetiresMoves, StartsMoves
  <2>2. /\ DOMAIN inbox'["child"] = 1..Len(Mail) + 1
        /\ inbox'["child"][Len(Mail) + 1] =
             [key |-> k, epoch |-> exec["child"].epoch, state |-> "pending"]
    BY <1>0, <2>1, PostsMoves
  <2> QED
    BY <1>0, <2>2, InboxTypes DEF Mail, Workers
<1>2. /\ inbox'["child"][i].key = Mail[i].key
      /\ Mail[i].state = "delivered" \/ Starts(i)
  BY <1>0, <1>1, MessagesStay
<1>3. CASE Mail[i].state = "delivered"
  <2>1. PICK t \in DOMAIN turns["child"] : turns["child"][t].key = Mail[i].key
    BY <1>1, <1>2, <1>3 DEF ReplyInv, DeliveredReplies
  <2> QED
    BY <1>0, <1>2, <2>1, TurnsStay
<1>4. CASE Starts(i)
  <2>1. /\ DOMAIN turns'["child"] = 1..Len(turns["child"]) + 1
        /\ turns'["child"][Len(turns["child"]) + 1] =
              [key |-> Mail[i].key, epoch |-> exec["child"].epoch]
    BY <1>0, <1>1, <1>4, StartsMoves
  <2>2. Len(turns["child"]) \in Nat
    BY <1>0, TurnTypes DEF Workers
  <2> QED
    BY <1>2, <2>1, <2>2
<1> QED
  BY <1>2, <1>3, <1>4

\* A turn is started for a message, and for nothing else.
LEMMA NewTurn ==
  ASSUME TypeOK, [Next]_vars, NEW t \in DOMAIN turns'["child"], t \notin DOMAIN turns["child"]
  PROVE  \E i \in DOMAIN Mail : Starts(i) /\ turns'["child"][t] =
           [key |-> Mail[i].key, epoch |-> exec["child"].epoch]
<1>1. PICK i \in DOMAIN Mail : Starts(i)
  <2>1. turns'["child"] # turns["child"]
    OBVIOUS
  <2> QED
    BY <2>1, InboxCases, RetiresMoves DEF Posts
<1>2. /\ DOMAIN turns'["child"] = 1..Len(turns["child"]) + 1
      /\ turns'["child"][Len(turns["child"]) + 1] =
           [key |-> Mail[i].key, epoch |-> exec["child"].epoch]
  BY <1>1, StartsMoves
<1>3. DOMAIN turns["child"] = 1..Len(turns["child"]) /\ Len(turns["child"]) \in Nat
  BY TurnTypes DEF Workers
<1> QED
  BY <1>1, <1>2, <1>3

\* A turn for a reply is of the execution that asked, which is replaced later.
LEMMA RepliesReachStep ==
  ASSUME TInv, ReplyInv, [Next]_vars
  PROVE  RepliesReachTheirAsker' /\ AnswersRead'
<1>0. TypeOK /\ AskInv /\ exec["child"].epoch \in Nat
  BY RowTypes DEF TInv, ReplyInv, Workers
<1>1. \A d \in InState("resolved") : d \in InState("resolved")'
                                     /\ questions'[d].epoch = questions[d].epoch
  BY <1>0, QuestionsKeep DEF InState, Open
<1>2. ASSUME NEW t \in DOMAIN turns'["child"], turns'["child"][t].key.kind = "reply"
      PROVE  /\ turns'["child"][t].epoch = questions'[turns'["child"][t].key.of].epoch
             /\ turns'["child"][t].key.of \in InState("resolved")'
  <2>1. CASE t \in DOMAIN turns["child"]
    <3>1. turns'["child"][t] = turns["child"][t]
      BY <1>0, <2>1, TurnsStay
    <3>2. /\ turns["child"][t].epoch = questions[turns["child"][t].key.of].epoch
          /\ turns["child"][t].key.of \in InState("resolved")
      BY <1>2, <2>1, <3>1 DEF ReplyInv, RepliesReachTheirAsker, AnswersRead
    <3> QED
      BY <1>1, <3>1, <3>2
  <2>2. CASE t \notin DOMAIN turns["child"]
    <3>1. PICK i \in DOMAIN Mail : Starts(i) /\ turns'["child"][t] =
             [key |-> Mail[i].key, epoch |-> exec["child"].epoch]
      BY <1>0, <2>2, NewTurn
    <3>2. /\ turns'["child"][t].key = Mail[i].key
          /\ turns'["child"][t].epoch = exec["child"].epoch
          /\ Mail[i].epoch = exec["child"].epoch
      <4>1. Mail[i].epoch = exec["child"].epoch
        BY <1>0, <3>1, StartsMoves
      <4> QED
        BY <3>1, <4>1
    <3>3. Mail[i].key.of \in InState("resolved")
          /\ Mail[i].epoch = questions[Mail[i].key.of].epoch
      BY <1>2, <3>2 DEF ReplyInv, ReplyRows
    <3> QED
      BY <1>1, <3>2, <3>3
  <2> QED
    BY <2>1, <2>2
<1>3. ASSUME NEW d \in InState("resolved")', questions'[d].epoch < exec'["child"].epoch
      PROVE  \E t \in DOMAIN turns'["child"] : turns'["child"][t].key = Reply(d)
  <2>1. d \in DOMAIN questions
    <3> SUFFICES ASSUME d \notin DOMAIN questions PROVE FALSE
      OBVIOUS
    <3>1. Asks
      BY <1>0, <1>3, QuestionsKeep, QuestionTypes DEF InState
    <3>2. PICK q \in QuestionSet : questions' = Append(questions, q) /\ q.state = "open"
      BY <1>0, <3>1, AskMoves
    <3>3. d = Len(questions) + 1 /\ questions'[d] = q
      BY <1>0, <3>2, QuestionTypes, AppendTo DEF InState
    <3> QED
      BY <1>3, <3>2, <3>3 DEF InState
  <2>2. questions'[d].epoch = questions[d].epoch
    BY <1>0, <2>1, QuestionsKeep
  <2>3. d \in InState("resolved")
    <3> SUFFICES ASSUME d \notin InState("resolved") PROVE FALSE
      OBVIOUS
    <3>1. questions'[d].state # questions[d].state
      BY <1>3, <2>1 DEF InState
    <3>2. d \in Open /\ exec'["child"].epoch = exec["child"].epoch
      BY <1>0, <2>1, <3>1, QuestionsKeep
    <3>3. questions[d].epoch = exec["child"].epoch
      BY <1>0, <2>1, <3>2 DEF AskInv, QuestionsOfNow
    <3> QED
      BY <1>0, <1>3, <2>2, <3>2, <3>3
  <2>4. \E t \in DOMAIN turns["child"] : turns["child"][t].key = Reply(d)
    <3>1. CASE questions[d].epoch < exec["child"].epoch
      BY <2>3, <3>1 DEF ReplyInv, RepliesReachTheirAsker
    <3>2. CASE ~(questions[d].epoch < exec["child"].epoch)
      <4>1. Rebinds
        BY <1>0, <1>3, <2>2, <3>2, RowsKeep
      <4>2. RepliesConsumed
        BY <1>0, <4>1, RebindMoves DEF AskInv, SettledBeforeRevision
      <4>3. PICK i \in DOMAIN Mail :
              Mail[i] = [key |-> Reply(d), epoch |-> questions[d].epoch, state |-> "delivered"]
        BY <2>3, <4>2 DEF RepliesConsumed, Mail
      <4>4. Mail[i].key = Reply(d) /\ Mail[i].key.kind = "reply" /\ Mail[i].state = "delivered"
        BY <4>3 DEF Reply, Key
      <4> QED
        BY <4>4 DEF ReplyInv, DeliveredReplies
    <3> QED
      BY <3>1, <3>2
  <2> QED
    BY <1>0, <2>4, TurnsStay
<1> QED
  BY <1>2, <1>3 DEF RepliesReachTheirAsker, AnswersRead, Reply, Key

\* Nothing is asked at first.
LEMMA ReplyInit ==
  ASSUME Init
  PROVE  ReplyInv
<1>1. /\ questions = <<>> /\ turns["child"] = <<>> /\ child.round = 0
      /\ child.state = "running" /\ exec["child"].contract = child.contract
      /\ Mail = <<Message(Start(0), "pending")>>
  BY DEF Init, Workers, Row, Mail
<1>2. DOMAIN questions = {} /\ DOMAIN turns["child"] = {} /\ DOMAIN Mail = {1}
      /\ Mail[1].key.kind = "start"
  BY <1>1 DEF Message, Start, Key
<1>3. AskInv
  BY <1>1, <1>2 DEF AskInv, CandidatesOfNow, OpenIsLast, QuestionsOfNow, WaitIsCurrent,
     SettledBeforeRevision, Superseded, Open, InState
<1> QED
  BY <1>2, <1>3 DEF ReplyInv, ReplyRows, AnswersRead, DeliveredReplies,
     RepliesReachTheirAsker, InState

\* The execution that asked a question reads its answer, and is not replaced
\* before it did: the dispatch and delivery rules for replies, and
\* reconcile_acceptance's wait for consumed replies, whatever the interleaving
\* and wherever the host crashes.
THEOREM RepliesReachTheirAskerHolds == Spec => []RepliesReachTheirAsker
<1>1. Init => TInv /\ ReplyInv
  BY InitTyped, ReplyInit
<1>2. TInv /\ ReplyInv /\ [Next]_vars => (TInv /\ ReplyInv)'
  BY TypedStep, AskInvStep, ReplyRowsStep, DeliveredRepliesStep, RepliesReachStep
     DEF ReplyInv
<1>3. ReplyInv => RepliesReachTheirAsker
  BY DEF ReplyInv
<1> QED
  BY <1>1, <1>2, <1>3, PTL DEF Spec

-----------------------------------------------------------------------------
(* The stalls.                                                             *)

\* The parent has answered the system request of the stall at round t.
StallAnswered(t) ==
  \E d \in DOMAIN questions : /\ questions[d].source = "progress"
                              /\ questions[d].trigger = t
                              /\ questions[d].state = "resolved"

\* The stall under the present contract, as a set.
StalledNow == StalledOf(candidates, child.contract, child.round)

\* Feedback is that of a candidate sent back.
FeedbackFollows ==
  \A i \in DOMAIN Mail :
    Mail[i].key.kind = "revise" =>
      /\ Mail[i].key.of \in 1..child.round
      /\ candidates[Mail[i].key.of].verdict = "revise"

\* The last feedback is delivered to no stalled child, and no round of a
\* stalled child follows, before the parent's answer.
FeedbackReleased ==
  \A i \in DOMAIN Mail :
    Mail[i].key = Feedback /\ Mail[i].state = "delivered" =>
      \A t \in StalledNow : StallAnswered(t)

\* A stalled round is the last until the parent has answered.
StallReleased == \A t \in StalledNow : t < child.round => StallAnswered(t)

\* Every round after a stall of its contract follows the parent's answer.
RoundsReleased ==
  \A r \in 1..child.round :
    \A t \in StalledOf(candidates, candidates[r].contract, r - 1) : StallAnswered(t)

\* Only the last candidate is undecided, and then without evidence.
EvidenceIsDecided ==
  \A r \in 1..child.round :
    candidates[r].verdict = "undecided" => r = child.round /\ candidates[r].result = "none"

\* No candidate is of a later contract than the last.
LastIsNewest ==
  \A r \in 1..child.round : candidates[r].contract <= candidates[child.round].contract

\* NoRoundPastStall, made inductive.
StallInv ==
  /\ CandidatesOfNow /\ LastIsNewest /\ EvidenceIsDecided /\ FeedbackFollows
  /\ FeedbackReleased /\ StallReleased /\ RoundsReleased

\* An answer to a stall stays.
LEMMA AnsweredStays ==
  ASSUME TypeOK, [Next]_vars, NEW t, StallAnswered(t)
  PROVE  StallAnswered(t)'
  BY QuestionsKeep DEF StallAnswered, Open, InState

\* A new message of the child is queued.
LEMMA NewRow ==
  ASSUME TypeOK, [Next]_vars, NEW i \in DOMAIN inbox'["child"], i \notin DOMAIN Mail
  PROVE  \E k \in KeySet : Posts(k) /\ inbox'["child"][i] =
           [key |-> k, epoch |-> exec["child"].epoch, state |-> "pending"]
<1>1. PICK k \in KeySet : Posts(k)
  BY InboxCases, RetiresMoves, StartsMoves
<1>2. /\ DOMAIN inbox'["child"] = 1..Len(Mail) + 1
      /\ inbox'["child"][Len(Mail) + 1] =
           [key |-> k, epoch |-> exec["child"].epoch, state |-> "pending"]
  BY <1>1, PostsMoves
<1>3. DOMAIN Mail = 1..Len(Mail) /\ Len(Mail) \in Nat
  BY InboxTypes DEF Mail, Workers
<1> QED
  BY <1>1, <1>2, <1>3

\* Contracts only grow from round to round, and evidence comes with a verdict.
LEMMA CandidatesOrderStep ==
  ASSUME TInv, StallInv, [Next]_vars
  PROVE  LastIsNewest' /\ EvidenceIsDecided'
<1>0. TypeOK /\ exec["child"].contract <= child.contract /\ CandidatesOfNow
  BY DEF TInv, VersionsGrow, StallInv
<1>1. CASE Submit
  <2>1. /\ child'.round = child.round + 1
        /\ \A r \in 1..child.round : candidates'[r] = candidates[r]
        /\ candidates'[child.round + 1] = Candidate
    BY <1>0, <1>1, SubmitMoves
  <2>2. /\ Candidate.contract = child.contract /\ Candidate.verdict = "undecided"
        /\ Candidate.result = "none"
    BY DEF Candidate
  <2>3. \A r \in 1..child.round : candidates[r].contract <= child.contract
    BY <1>0, NodeTypes, RowTypes, CandidateTypes
       DEF CandidatesOfNow, Workers, CandidateSet
  <2>4. \A r \in 1..child.round : candidates[r].verdict # "undecided"
    <3>1. child.round > 0 => candidates[child.round].verdict # "undecided"
      BY <1>1 DEF Submit
    <3> QED
      BY <1>0, <3>1, NodeTypes DEF StallInv, EvidenceIsDecided
  <2> QED
    BY <1>0, <2>1, <2>2, <2>3, <2>4, NodeTypes DEF LastIsNewest, EvidenceIsDecided
<1>2. CASE Review
  BY <1>0, <1>2, ReviewMoves DEF StallInv, LastIsNewest, EvidenceIsDecided
<1>3. CASE ~Submit /\ ~Review
  <2>1. UNCHANGED candidates /\ child'.round = child.round
    BY <1>0, <1>3, HostSteps, RevisionMoves
  <2> QED
    BY <2>1 DEF StallInv, LastIsNewest, EvidenceIsDecided
<1> QED
  BY <1>1, <1>2, <1>3

\* Feedback is queued for a candidate that was sent back.
LEMMA FeedbackFollowsStep ==
  ASSUME TInv, StallInv, [Next]_vars
  PROVE  FeedbackFollows'
<1>0. TypeOK /\ child.round \in Nat
  BY NodeTypes DEF TInv
<1>1. \A r \in 1..child.round : candidates[r].verdict = "revise" =>
        r \in 1..child'.round /\ candidates'[r].verdict = "revise"
  <2>1. CASE Submit
    BY <1>0, <2>1, SubmitMoves
  <2>2. CASE Review
    BY <1>0, <2>2, ReviewMoves
  <2>3. CASE ~Submit /\ ~Review
    BY <1>0, <2>3, HostSteps, RevisionMoves
  <2> QED
    BY <2>1, <2>2, <2>3
<1> SUFFICES ASSUME NEW i \in DOMAIN inbox'["child"], inbox'["child"][i].key.kind = "revise"
             PROVE  \E r \in 1..child.round :
                      r = inbox'["child"][i].key.of /\ candidates[r].verdict = "revise"
  BY <1>1 DEF FeedbackFollows, Mail
<1>2. CASE i \in DOMAIN Mail
  <2>1. inbox'["child"][i].key = Mail[i].key
    BY <1>0, <1>2, MessagesStay
  <2> QED
    BY <1>2, <2>1 DEF StallInv, FeedbackFollows
<1>3. CASE i \notin DOMAIN Mail
  <2>1. PICK k \in KeySet : Posts(k) /\ inbox'["child"][i] =
          [key |-> k, epoch |-> exec["child"].epoch, state |-> "pending"]
    BY <1>0, <1>3, NewRow
  <2>2. k = Feedback /\ Verdict = "revise"
    BY <2>1 DEF Posts, Start, Answer, Reply, Key
  <2>3. /\ child.round > 0 /\ candidates[child.round].verdict = "revise"
        /\ k.of = child.round
    BY <2>2 DEF Verdict, HasCandidate, Feedback, Key
  <2> QED
    BY <1>0, <2>1, <2>3
<1> QED
  BY <1>2, <1>3

\* The stalls under the child's contract stay as they are but for a review
\* which may add the round it decides, and go with the contract.
LEMMA StallsStay ==
  ASSUME TInv, CandidatesOfNow, EvidenceIsDecided, [Next]_vars
  PROVE  /\ \A t \in StalledNow' : t \in StalledNow \/ (Review /\ t = child.round)
         /\ Revises => StalledNow' = {}
<1>0. /\ TypeOK /\ child.round \in Nat /\ child.contract \in Nat
      /\ exec["child"].contract <= child.contract /\ exec["child"].contract \in Nat
  BY NodeTypes, RowTypes DEF TInv, VersionsGrow, Workers
<1>1. CASE Submit
  <2>1. /\ child'.round = child.round + 1 /\ child'.contract = child.contract
        /\ \A r \in 1..child.round : candidates'[r] = candidates[r]
        /\ candidates'[child.round + 1] = Candidate
    BY <1>0, <1>1, SubmitMoves
  <2>2. Candidate.result = "none"
    BY DEF Candidate
  <2>3. StalledNow' = StalledOf(candidates', child.contract, child.round)
    <3>1. child.round + 1 \in Nat \ {0} /\ (child.round + 1) - 1 = child.round
      BY <1>0
    <3>2. StalledOf(candidates', child.contract, child.round + 1)
            = StalledOf(candidates', child.contract, (child.round + 1) - 1)
      BY <2>1, <2>2, <3>1, StalledStep
    <3> QED
      BY <2>1, <3>1, <3>2 DEF StalledNow
  <2>4. StalledOf(candidates', child.contract, child.round) = StalledNow
    BY <1>0, <2>1, StalledOfSame DEF StalledNow
  <2>5. ~Revises
    BY <1>0, <2>1, RevisionMoves
  <2> QED
    BY <2>3, <2>4, <2>5
<1>2. CASE Review
  <2>1. /\ child' = child /\ child.round \in Nat \ {0}
        /\ \A r \in 1..child.round : r # child.round => candidates'[r] = candidates[r]
        /\ candidates[child.round].verdict = "undecided"
    BY <1>0, <1>2, ReviewMoves
  <2>2. candidates[child.round].result = "none"
    BY <2>1 DEF EvidenceIsDecided
  <2> DEFINE b == child.round - 1
  <2>3. StalledNow = StalledOf(candidates, child.contract, b)
    BY <2>1, <2>2, StalledStep DEF StalledNow
  <2>4. b \in Nat /\ \A r \in 1..b : candidates'[r] = candidates[r]
    BY <2>1
  <2>5. StalledOf(candidates', child.contract, b) = StalledOf(candidates, child.contract, b)
    <3> HIDE DEF b
    <3> QED
      BY <2>4, StalledOfSame
  <2>6. StalledNow' \subseteq StalledOf(candidates', child.contract, b) \cup {child.round}
    BY <2>1, StalledStep DEF StalledNow
  <2>7. ~Revises
    BY <1>0, <2>1, RevisionMoves
  <2> QED
    BY <1>2, <2>3, <2>5, <2>6, <2>7
<1>3. CASE Revises
  <2>1. child'.contract = child.contract + 1 /\ child'.round = child.round
        /\ UNCHANGED candidates
    BY <1>0, <1>3, RevisionMoves
  <2>2. \A r \in 1..child.round : candidates[r].contract \in Nat
    BY <1>0, CandidateTypes, NodeTypes DEF CandidateSet
  <2>3. \A r \in 1..child.round : candidates[r].contract # child.contract + 1
    BY <1>0, <2>2 DEF CandidatesOfNow
  <2>4. StalledNow' = {}
    BY <2>1, <2>3 DEF StalledNow, StalledOf, WindowOf
  <2> QED
    BY <2>4
<1>4. CASE ~Submit /\ ~Review /\ ~Revises
  BY <1>0, <1>4, HostSteps DEF StalledNow
<1> QED
  BY <1>1, <1>2, <1>3, <1>4

\* The gate lets no feedback through to a stalled child before the answer.
LEMMA GateAwaitsAnswer ==
  ASSUME TInv, Limit # Undeclared, ChildGate(Feedback), NEW t \in StalledNow
  PROVE  StallAnswered(t)
<1>0. TypeOK
  BY DEF TInv
<1>1. Stalled /\ t = Trigger
  BY <1>0, TriggerType DEF StalledNow
<1>2. Feedback \notin Owed /\ Feedback # Start(exec["child"].epoch)
  BY DEF Owed, Feedback, Start, Reply, Key
<1>3. Released
  BY <1>1, <1>2 DEF ChildGate
<1> QED
  BY <1>1, <1>3 DEF Released, Handoffs, StallAnswered

\* A candidate follows the delivered feedback of the last.
LEMMA SubmitReleased ==
  ASSUME TInv, StallInv, Submit, NEW t \in StalledNow
  PROVE  StallAnswered(t)
<1>0. /\ TypeOK /\ child.round \in Nat /\ child.contract \in Nat
      /\ exec["child"].contract <= child.contract /\ exec["child"].contract \in Nat
  BY NodeTypes, RowTypes DEF TInv, VersionsGrow, Workers
<1>1. t \in 1..child.round /\ candidates[t].contract = child.contract
  BY DEF StalledNow, StalledOf, WindowOf
<1>2. HasCandidate
  <2>1. child.contract <= candidates[child.round].contract
        /\ candidates[child.round].contract <= exec["child"].contract
    BY <1>0, <1>1 DEF StallInv, LastIsNewest, CandidatesOfNow
  <2>2. candidates[child.round].contract \in Nat
    BY <1>0, <1>1, CandidateTypes, NodeTypes DEF CandidateSet
  <2> QED
    BY <1>0, <1>1, <2>1, <2>2 DEF HasCandidate
<1>3. Verdict = "revise"
  <2>1. /\ child.round \in 1..child.round
        /\ candidates[child.round].verdict \notin {"undecided", "accept"}
    BY <1>0, <1>1 DEF Submit
  <2>2. candidates[child.round] \in CandidateSet
    BY <1>0, <2>1, CandidateTypes
  <2> QED
    BY <1>2, <2>1, <2>2 DEF Verdict, CandidateSet
<1>4. Feedback \in Keys("child", {"delivered"})
  BY <1>3 DEF Submit, FeedbackOwed
<1>5. PICK i \in DOMAIN Mail : Mail[i].key = Feedback /\ Mail[i].state = "delivered"
  BY <1>4 DEF Keys, Rows, Mail
<1> QED
  BY <1>5 DEF StallInv, FeedbackReleased

\* The last feedback reaches no stalled child before the parent's answer.
LEMMA FeedbackReleasedStep ==
  ASSUME TInv, StallInv, Limit # Undeclared, [Next]_vars
  PROVE  FeedbackReleased'
<1>0. /\ TypeOK /\ child.round \in Nat /\ child.contract \in Nat
  BY NodeTypes DEF TInv
<1> SUFFICES ASSUME NEW i \in DOMAIN inbox'["child"], inbox'["child"][i].key = Feedback',
                    inbox'["child"][i].state = "delivered", NEW t \in StalledNow'
             PROVE  StallAnswered(t)'
  BY DEF FeedbackReleased, Mail, StallAnswered
<1>1. i \in DOMAIN Mail
  <2> SUFFICES ASSUME i \notin DOMAIN Mail PROVE FALSE
    OBVIOUS
  <2>1. PICK k \in KeySet : inbox'["child"][i] =
          [key |-> k, epoch |-> exec["child"].epoch, state |-> "pending"]
    BY <1>0, NewRow
  <2> QED
    BY <2>1
<1>2. /\ inbox'["child"][i].key = Mail[i].key
      /\ Mail[i].state = "delivered" \/ Starts(i)
  BY <1>0, <1>1, MessagesStay
<1>3. /\ child'.round \in 1..child.round /\ candidates[child'.round].verdict = "revise"
      /\ Mail[i].key = Key("revise", child'.round, 0)
  BY <1>1, <1>2 DEF StallInv, FeedbackFollows, Feedback, Key
<1>4. ~Submit /\ ~Review /\ child'.round = child.round
  <2>1. ~Submit
    BY <1>0, <1>3, SubmitMoves
  <2>2. ~Review
    BY <1>0, <1>3, ReviewMoves
  <2> QED
    BY <1>0, <2>1, <2>2, HostSteps, RevisionMoves
<1>5. t \in StalledNow /\ Mail[i].key = Feedback
  BY <1>3, <1>4, StallsStay DEF StallInv, Feedback
<1>6. CASE Mail[i].state = "delivered"
  BY <1>0, <1>1, <1>5, <1>6, AnsweredStays DEF StallInv, FeedbackReleased
<1>7. CASE Starts(i)
  <2>1. ChildGate(Feedback)
    BY <1>0, <1>1, <1>5, <1>7, StartsMoves
  <2> QED
    BY <1>0, <1>5, <2>1, GateAwaitsAnswer, AnsweredStays
<1> QED
  BY <1>2, <1>6, <1>7

\* No round follows a stall before the parent's answer.
LEMMA StallReleasedStep ==
  ASSUME TInv, StallInv, [Next]_vars
  PROVE  StallReleased'
<1>0. TypeOK
  BY DEF TInv
<1> SUFFICES ASSUME NEW t \in StalledNow', t < child'.round
             PROVE  StallAnswered(t)'
  BY DEF StallReleased, StallAnswered
<1>1. t \in StalledNow \/ (Review /\ t = child.round)
  BY StallsStay DEF StallInv
<1>2. t \in Nat /\ child.round \in Nat
  BY <1>0, <1>1, NodeTypes DEF StalledNow, StalledOf, WindowOf
<1>3. CASE Submit
  <2>1. t \in StalledNow
    BY <1>0, <1>1, <1>2, <1>3, ReviewMoves, SubmitMoves
  <2> QED
    BY <1>0, <1>3, <2>1, SubmitReleased, AnsweredStays
<1>4. CASE ~Submit
  <2>1. child'.round = child.round
    BY <1>0, <1>4, HostSteps, RevisionMoves, ReviewMoves
  <2>2. t \in StalledNow /\ t < child.round
    BY <1>1, <1>2, <2>1
  <2> QED
    BY <1>0, <2>2, AnsweredStays DEF StallInv, StallReleased
<1> QED
  BY <1>3, <1>4

\* Nor is that undone by a later stall or contract.
LEMMA RoundsReleasedStep ==
  ASSUME TInv, StallInv, [Next]_vars
  PROVE  RoundsReleased'
<1>0. TypeOK /\ child.round \in Nat
  BY NodeTypes DEF TInv
<1> SUFFICES ASSUME NEW r \in 1..child'.round,
                    NEW t \in StalledOf(candidates', candidates'[r].contract, r - 1)
             PROVE  StallAnswered(t)'
  BY DEF RoundsReleased, StallAnswered
<1>1. ASSUME r \in 1..child.round, candidates'[r].contract = candidates[r].contract,
             \A q \in 1..(r - 1) : candidates'[q] = candidates[q]
      PROVE  StallAnswered(t)'
  <2>1. StalledOf(candidates', candidates[r].contract, r - 1)
          = StalledOf(candidates, candidates[r].contract, r - 1)
    <3>1. r - 1 \in Nat
      BY <1>1
    <3> QED
      BY <1>1, <3>1, StalledOfSame
  <2>2. StallAnswered(t)
    BY <1>1, <2>1 DEF StallInv, RoundsReleased
  <2> QED
    BY <1>0, <2>2, AnsweredStays
<1>2. CASE Submit
  <2>1. /\ child'.round = child.round + 1
        /\ \A q \in 1..child.round : candidates'[q] = candidates[q]
        /\ candidates'[child.round + 1] = Candidate
    BY <1>0, <1>2, SubmitMoves
  <2>2. CASE r \in 1..child.round
    <3>1. \A q \in 1..(r - 1) : q \in 1..child.round
      BY <1>0, <2>2
    <3> QED
      BY <1>1, <2>1, <2>2, <3>1
  <2>3. CASE r = child.round + 1
    <3>1. candidates'[r].contract = child.contract /\ r - 1 = child.round
      BY <1>0, <2>1, <2>3 DEF Candidate
    <3>2. StalledOf(candidates', child.contract, child.round) = StalledNow
      BY <1>0, <2>1, StalledOfSame DEF StalledNow
    <3>3. t \in StalledNow
      BY <3>1, <3>2
    <3> QED
      BY <1>0, <1>2, <3>3, SubmitReleased, AnsweredStays
  <2> QED
    BY <1>0, <2>1, <2>2, <2>3
<1>3. CASE Review
  <2>1. /\ child' = child
        /\ \A q \in 1..child.round : q # child.round => candidates'[q] = candidates[q]
        /\ candidates'[child.round].contract = candidates[child.round].contract
    BY <1>0, <1>3, ReviewMoves
  <2>2. r \in 1..child.round /\ candidates'[r].contract = candidates[r].contract
    BY <2>1
  <2>3. \A q \in 1..(r - 1) : q \in 1..child.round /\ q # child.round
    BY <1>0, <2>2
  <2> QED
    BY <1>1, <2>1, <2>2, <2>3
<1>4. CASE ~Submit /\ ~Review
  BY <1>0, <1>1, <1>4, HostSteps, RevisionMoves
<1> QED
  BY <1>2, <1>3, <1>4

\* Every step keeps StallInv.
LEMMA StallInvStep ==
  ASSUME TInv, StallInv, Limit # Undeclared, [Next]_vars
  PROVE  StallInv'
<1>1. CandidatesOfNow' /\ LastIsNewest' /\ EvidenceIsDecided' /\ FeedbackFollows'
  BY CandidatesOfNowStep, CandidatesOrderStep, FeedbackFollowsStep DEF StallInv
<1> QED
  BY <1>1, FeedbackReleasedStep, StallReleasedStep, RoundsReleasedStep DEF StallInv

\* A Task is stalled exactly at the Limit-th comparison without improvement
\* under its present contract: what fold_progress_evaluations computes, for any
\* number of rounds.
THEOREM StallIsCountedHolds == Spec => []StallIsCounted
<1>1. Init => TInv
  BY InitTyped
<1>2. TInv /\ [Next]_vars => TInv'
  BY TypedStep
<1>3. TInv => StallIsCounted
  BY TriggerType, StalledAtIs DEF TInv, StallIsCounted
<1> QED
  BY <1>1, <1>2, <1>3, PTL DEF Spec

\* Nothing is stalled at first.
LEMMA StallInit ==
  ASSUME Init
  PROVE  StallInv
<1>1. /\ child.round = 0 /\ Mail = <<Message(Start(0), "pending")>>
  BY DEF Init, Workers, Mail
<1>2. 1..child.round = {} /\ DOMAIN Mail = {1} /\ Mail[1].key.kind = "start"
  BY <1>1 DEF Message, Start, Key
<1>3. StalledNow = {}
  BY <1>2 DEF StalledNow, StalledOf, WindowOf
<1> QED
  BY <1>2, <1>3
     DEF StallInv, CandidatesOfNow, LastIsNewest, EvidenceIsDecided,
         FeedbackFollows,
     FeedbackReleased, StallReleased, RoundsReleased

\* No candidate follows a stall under the same contract before the parent
\* answered the request of that stall: the delivery gates and the checks of a
\* submission together, whatever turns, messages and crashes lie between.
THEOREM NoRoundPastStallHolds == Spec => []NoRoundPastStall
<1>1. CASE Limit = Undeclared
  <2>1. NoRoundPastStall
    BY <1>1 DEF NoRoundPastStall
  <2> QED
    BY <2>1, PTL
<1>2. CASE Limit # Undeclared
  <2>1. Init => TInv /\ StallInv
    BY InitTyped, StallInit
  <2>2. TInv /\ StallInv /\ [Next]_vars => (TInv /\ StallInv)'
    BY <1>2, TypedStep, StallInvStep
  <2>3. TInv /\ StallInv => NoRoundPastStall
    <3> SUFFICES ASSUME TInv, StallInv PROVE NoRoundPastStall
      OBVIOUS
    <3>1. DOMAIN candidates = 1..child.round
      BY CandidateTypes DEF TInv
    <3>2. SUFFICES ASSUME NEW r \in 1..child.round,
                          NEW t \in StalledAt(candidates[r].contract, r - 1)
                   PROVE  \E d \in DOMAIN questions : /\ questions[d].trigger = t
                                                      /\ questions[d].state = "resolved"
      BY <3>1 DEF NoRoundPastStall
    <3>3. t \in StalledOf(candidates, candidates[r].contract, r - 1)
      BY StalledAtIs
    <3>4. StallAnswered(t)
      BY <3>3 DEF StallInv, RoundsReleased
    <3> QED
      BY <3>4 DEF StallAnswered
  <2> QED
    BY <2>1, <2>2, <2>3, PTL DEF Spec
<1> QED
  BY <1>1, <1>2

-----------------------------------------------------------------------------
(* The child's process, and the round of the question it waits for.        *)

\* What the child's Controller delivers starts a turn.
LEMMA DeliverStarts ==
  ASSUME TypeOK, Deliver("child")
  PROVE  \E i \in DOMAIN Mail : Starts(i)
<1>1. PICK i \in NextUp("child") :
        /\ inbox' = [inbox EXCEPT !["child"][i].state = "delivered"]
        /\ turns' = [turns EXCEPT !["child"] = Append(@, [key |-> Mail[i].key,
                                                   epoch |-> exec["child"].epoch])]
  BY DEF Deliver, Mail
<1>2. Starts(i)
  BY <1>1 DEF Deliver, Starts
<1> QED
  BY <1>1, <1>2 DEF NextUp, Queued, Rows, Mail

\* The child's process runs when it did, or when a turn is started.
LEMMA ProcessMoves ==
  ASSUME TypeOK, [Next]_vars
  PROVE  /\ proc'["child"] = "active" =>
              \/ proc["child"] = "active" /\ (Ask \/ yielded' = yielded)
              \/ \E i \in DOMAIN Mail : Starts(i)
         /\ proc["child"] = "unknown" => proc'["child"] = "unknown" \/ Rebinds
<1>0. /\ "child" \in Workers /\ "parent" \in Workers /\ "child" # "parent"
      /\ DOMAIN proc = Workers
  BY TypesNamed DEF Workers
<1>1. CASE UNCHANGED proc /\ (Ask \/ UNCHANGED yielded)
  BY <1>1
<1>2. ASSUME NEW w \in Workers, TurnEnds(w)
      PROVE  /\ proc'["child"] = "active" => proc["child"] = "active" /\ yielded' = yielded
             /\ proc["child"] = "unknown" => proc'["child"] = "unknown"
  <2>1. PICK e \in {"ended"} \cup Endings : proc' = [proc EXCEPT ![w] = e]
    BY <1>2 DEF TurnEnds
  <2>2. e # "active"
    BY FaultAssumption
  <2>3. yielded \in BOOLEAN /\ yielded' = (yielded /\ w # "child") /\ proc[w] = "active"
    BY <1>2, TypesNamed DEF TurnEnds
  <2> QED
    BY <1>0, <2>1, <2>2, <2>3
<1>3. ASSUME NEW w \in Workers, Deliver(w)
      PROVE  /\ \/ proc'["child"] = proc["child"] /\ yielded' = yielded
                \/ \E i \in DOMAIN Mail : Starts(i)
             /\ proc["child"] = "unknown" => proc'["child"] = "unknown"
  <2>1. CASE w = "child"
    BY <1>3, <2>1, DeliverStarts DEF Deliver, Accepts
  <2>2. CASE w = "parent"
    BY <1>0, <1>3, <2>2 DEF Deliver
  <2> QED
    BY <2>1, <2>2 DEF Workers
<1>4. CASE ReconcileAcceptance
  <2>1. CASE Rebinds
    BY <2>1, RebindMoves
  <2>2. CASE ~Rebinds
    BY <1>1, <1>4, <2>2
       DEF ReconcileAcceptance, ApplyRevision, HandOff, Supersede, Rebind,
       Rebinds, NothingToRevise
  <2> QED
    BY <2>1, <2>2
<1>5. CASE Minor
  <2>1. CASE UNCHANGED proc /\ UNCHANGED yielded
    BY <1>1, <2>1
  <2>2. CASE \E w \in Workers : TurnEnds(w)
    BY <1>2, <2>2
  <2> QED
    BY <1>5, <2>1, <2>2
       DEF Minor, Revise, FailuresRefused, Crash, NoDelivery, vars, procVars
<1> QED
  BY <1>1, <1>2, <1>3, <1>4, <1>5, StepCases
     DEF Ask, Submit, Review, Resolve, ApplyFacts, ReconcileProgress, ApplyFailures,
         ApplyDecisions, WakeWorkers, WakeIdle, ClosePass, Report, procVars

\* A child that resumes had waited, or was sent back.
LEMMA ResumeMoves ==
  ASSUME TypeOK, [Next]_vars, child'.state \in {"running", "waiting_decision"},
         child.state \notin {"running", "waiting_decision"}
  PROVE  ApplyFacts /\ Verdict = "revise"
<1>0. \A s : [child EXCEPT !.state = s].state = s
  BY NodeTypes
<1>1. ~Submit /\ ~Revises
  BY SubmitMoves, RevisionMoves
<1>2. ~ReconcileProgress /\ ~ApplyFailures
  BY <1>0 DEF ReconcileProgress, HandoffDue, ApplyFailures, Struck, Closed, Terminal
<1>3. ~WakeWorkers /\ ~WakeIdle
  BY <1>0 DEF WakeWorkers, WakeChild, WakeParent, AskParent, AskAgain, NobodyToWake,
     Send, GiveUp, Fail, WakeIdle
<1>4. ~ReconcileAcceptance
  BY <1>1 DEF ReconcileAcceptance, Revises, HandOff, Supersede, Rebind, NothingToRevise
<1>5. ~ApplyDecisions
  BY <1>0 DEF ApplyDecisions, Wait, Resume, NothingDecided, ReplyDue, Answered
<1>6. CASE ApplyFacts
  BY <1>0, <1>6 DEF ApplyFacts, Applied
<1> QED
  BY <1>1, <1>2, <1>3, <1>4, <1>5, <1>6, StepCases, MinorSteps
     DEF Ask, Review, Resolve, ClosePass, Deliver, Report, nodeVars

-----------------------------------------------------------------------------

\* The question that is open was asked in the present round.
OpenIsCurrent == \A d \in Open : questions[d].round = child.round + 1

\* While a question is open, the child's turn is over, ends with the question,
\* or cannot submit before the feedback is delivered.
OpenIsQuiet == Open # {} /\ proc["child"] = "active" => yielded \/ FeedbackOwed

\* A child that goes on was not accepted.
NotAccepted == child.state \in {"running", "waiting_decision"} => Verdict # "accept"

\* AnswerableWait, made inductive.
QuietInv == OpenIsCurrent /\ OpenIsQuiet /\ NotAccepted

\* Only submissions, reviews and revisions change the verdict in force.
LEMMA VerdictKeeps ==
  ASSUME TypeOK, [Next]_vars, ~Submit, ~Review, ~Revises
  PROVE  Verdict' = Verdict /\ Feedback' = Feedback /\ HasCandidate' = HasCandidate
  BY HostSteps DEF Verdict, HasCandidate, Feedback

\* An accepted child does not go on.
LEMMA NotAcceptedStep ==
  ASSUME TInv, CandidatesOfNow, NotAccepted, [Next]_vars
  PROVE  NotAccepted'
<1>0. /\ TypeOK /\ child.round \in Nat /\ child.contract \in Nat
      /\ exec["child"].contract <= child.contract /\ exec["child"].contract \in Nat
  BY NodeTypes, RowTypes DEF TInv, VersionsGrow, Workers
<1> SUFFICES ASSUME child'.state \in {"running", "waiting_decision"}
             PROVE  Verdict' # "accept"
  BY DEF NotAccepted
<1>1. CASE Submit
  BY <1>0, <1>1, SubmitMoves DEF Verdict, HasCandidate, Candidate
<1>2. CASE Review
  BY <1>0, <1>2, ReviewMoves DEF Review
<1>3. CASE Revises
  <2>1. /\ child'.contract = child.contract + 1 /\ child'.round = child.round
        /\ candidates' = candidates
    BY <1>0, <1>3, RevisionMoves
  <2>2. child.round > 0 => candidates[child.round].contract \in Nat
                           /\ candidates[child.round].contract <= child.contract
    BY <1>0, CandidateTypes, NodeTypes DEF CandidatesOfNow, CandidateSet
  <2> QED
    BY <1>0, <2>1, <2>2 DEF Verdict, HasCandidate
<1>4. CASE ~Submit /\ ~Review /\ ~Revises
  BY <1>0, <1>4, VerdictKeeps, ResumeMoves DEF NotAccepted
<1> QED
  BY <1>1, <1>2, <1>3, <1>4

\* Feedback that is owed stays so, unless a turn is started.
LEMMA FeedbackOwedStays ==
  ASSUME TypeOK, [Next]_vars, FeedbackOwed, ~Revises, ~Rebinds,
         ~\E i \in DOMAIN Mail : Starts(i)
  PROVE  FeedbackOwed' /\ ~Submit
<1>1. ~Submit
  BY DEF Submit
<1>2. ~Review
  BY DEF Review, Undecided, FeedbackOwed
<1>3. Verdict' = "revise" /\ Feedback' = Feedback
  BY <1>1, <1>2, VerdictKeeps DEF FeedbackOwed
<1>4. Feedback \notin Keys("child", {"delivered"})'
  <2> SUFFICES ASSUME NEW i \in DOMAIN inbox'["child"], inbox'["child"][i].key = Feedback,
                      inbox'["child"][i].epoch = exec'["child"].epoch,
                      inbox'["child"][i].state = "delivered"
               PROVE  FALSE
    BY <1>3 DEF Keys, Rows
  <2>1. i \in DOMAIN Mail
    <3> SUFFICES ASSUME i \notin DOMAIN Mail PROVE FALSE
      OBVIOUS
    <3>1. PICK k \in KeySet : inbox'["child"][i] =
            [key |-> k, epoch |-> exec["child"].epoch, state |-> "pending"]
      BY NewRow
    <3> QED
      BY <3>1
  <2>2. Mail[i].key = Feedback /\ Mail[i].epoch = exec["child"].epoch
        /\ Mail[i].state = "delivered"
    BY <2>1, MessagesStay, RowsKeep
  <2> QED
    BY <2>1, <2>2 DEF FeedbackOwed, Keys, Rows, Mail
<1> QED
  BY <1>1, <1>3, <1>4 DEF FeedbackOwed

\* The feedback of the review that stalled the child is still owed when the
\* Scheduler hands the child to its parent.
LEMMA HandedOffOwed ==
  ASSUME TInv, StallInv, NotAccepted, HandoffDue
  PROVE  FeedbackOwed
<1>0. TypeOK /\ child.round \in Nat
  BY NodeTypes DEF TInv
<1>1. /\ Stalled /\ child.state = "running" /\ Limit # Undeclared
      /\ Trigger \in 1..child.round /\ candidates[Trigger].contract = child.contract
      /\ candidates[Trigger].result = "not_improved" /\ Trigger \in StalledNow
  BY <1>0, StalledIsCurrent, TriggerType DEF HandoffDue, StalledNow
<1>2. ~StallAnswered(Trigger)
  BY DEF HandoffDue, Handoffs, StallAnswered
<1>3. Trigger = child.round
  BY <1>0, <1>1, <1>2 DEF StallInv, StallReleased
<1>4. HasCandidate /\ Verdict = candidates[child.round].verdict
  BY <1>0, <1>1, <1>3 DEF HasCandidate, Verdict
<1>5. Verdict = "revise"
  <2>1. candidates[child.round].verdict # "undecided"
    BY <1>1, <1>3 DEF StallInv, EvidenceIsDecided
  <2>2. candidates[child.round] \in CandidateSet
    BY <1>0, <1>1, <1>3, CandidateTypes
  <2> QED
    BY <1>1, <1>4, <2>1, <2>2 DEF NotAccepted, CandidateSet
<1>6. \A i \in DOMAIN Mail : ~(Mail[i].key = Feedback /\ Mail[i].state = "delivered")
  BY <1>1, <1>2 DEF StallInv, FeedbackReleased
<1> QED
  BY <1>5, <1>6 DEF FeedbackOwed, Keys, Rows, Mail

\* A question keeps its round: while it is open nothing is submitted.
LEMMA QuietStep ==
  ASSUME TInv, AskInv, Limit # Undeclared => StallInv, QuietInv, LosesAnswers = FALSE,
         [Next]_vars
  PROVE  OpenIsCurrent' /\ OpenIsQuiet'
<1>0. TypeOK /\ child.round \in Nat
  BY NodeTypes DEF TInv
<1>1. CASE Asks
  <2>1. PICK q \in QuestionSet :
          questions' = Append(questions, q) /\ q.round = child.round + 1
    BY <1>0, <1>1, AskMoves
  <2>2. Open = {} /\ child'.round = child.round
    BY <1>0, <1>1, AskMoves
  <2>3. /\ DOMAIN questions' = 1..Len(questions) + 1 /\ DOMAIN questions = 1..Len(questions)
        /\ \A d \in 1..Len(questions) : questions'[d] = questions[d]
        /\ questions'[Len(questions) + 1] = q /\ Len(questions) \in Nat
    BY <1>0, <2>1, QuestionTypes, AppendTo
  <2>4. Open' \subseteq {Len(questions) + 1}
    BY <2>2, <2>3 DEF Open, InState
  <2>5. OpenIsCurrent'
    BY <2>1, <2>2, <2>3, <2>4 DEF OpenIsCurrent
  <2>6. CASE Ask
    BY <2>5, <2>6 DEF Ask, Yields, OpenIsQuiet
  <2>7. CASE ReconcileProgress /\ HandoffDue /\ parent # "failed"
    <3>1. FeedbackOwed
      BY <1>0, <2>7, HandedOffOwed, StalledIsCurrent DEF QuietInv, HandoffDue
    <3>2. UNCHANGED <<child, candidates, inbox, exec>>
      BY <2>7 DEF ReconcileProgress, rowVars
    <3>3. FeedbackOwed'
      BY <3>1, <3>2 DEF FeedbackOwed, Feedback, Verdict, HasCandidate, Keys, Rows
    <3> QED
      BY <2>5, <3>3 DEF OpenIsQuiet
  <2> QED
    BY <1>1, <2>6, <2>7 DEF Asks
<1>2. CASE ~Asks /\ Open' # {}
  <2>1. Open' \subseteq Open /\ Open # {}
    BY <1>0, <1>2, ClosedNow
  <2>2. ~Rebinds /\ ~Revises /\ ~\E i \in DOMAIN Mail : Starts(i)
    <3>1. ~Rebinds
      BY <1>0, <2>1, RebindMoves DEF AskInv, SettledBeforeRevision
    <3>2. ~Revises
      BY <2>1 DEF Revises, ApplyRevision, MayApply
    <3>3. ~\E i \in DOMAIN Mail : Starts(i)
      BY <1>0, <2>1, StartsMoves DEF ChildGate
    <3> QED
      BY <3>1, <3>2, <3>3
  <2>3. ~Submit
    BY <2>1 DEF QuietInv, OpenIsQuiet, Submit, Acts
  <2>4. child'.round = child.round
    BY <1>0, <2>2, <2>3, HostSteps, ReviewMoves
  <2>5. OpenIsCurrent'
    BY <1>0, <1>2, <2>1, <2>4, QuestionsKeep DEF QuietInv, OpenIsCurrent, Open, InState
  <2>6. OpenIsQuiet'
    <3> SUFFICES ASSUME proc'["child"] = "active"
                 PROVE  yielded' \/ FeedbackOwed'
      BY DEF OpenIsQuiet
    <3>1. proc["child"] = "active" /\ yielded' = yielded
      BY <1>0, <1>2, <2>2, ProcessMoves DEF Asks
    <3> QED
      BY <1>0, <2>1, <2>2, <3>1, FeedbackOwedStays DEF QuietInv, OpenIsQuiet
  <2> QED
    BY <2>5, <2>6
<1>3. CASE ~Asks /\ Open' = {}
  BY <1>3 DEF OpenIsCurrent, OpenIsQuiet
<1> QED
  BY <1>1, <1>2, <1>3

\* The question a Task waits for was asked in the round and under the contract
\* it is still in, so that _append_decision_resolution takes the answer.  It
\* needs that a turn ends with its question: with an answer of the Api lost on
\* its way, the turn may go on and submit.
THEOREM AnswerableWaitHolds ==
  ASSUME LosesAnswers = FALSE
  PROVE  Spec => []AnswerableWait
<1> DEFINE IInv == TInv /\ AskInv /\ (Limit # Undeclared => StallInv) /\ QuietInv
<1>1. Init => IInv
  <2> SUFFICES ASSUME Init PROVE IInv
    OBVIOUS
  <2>1. child.round = 0 /\ questions = <<>>
    BY DEF Init
  <2>2. Open = {} /\ Verdict = "none"
    BY <2>1 DEF Open, InState, Verdict, HasCandidate
  <2>3. QuietInv
    BY <2>2 DEF QuietInv, OpenIsCurrent, OpenIsQuiet, NotAccepted
  <2> QED
    BY <2>3, InitTyped, ReplyInit, StallInit DEF ReplyInv
<1>2. IInv /\ [Next]_vars => IInv'
  <2> SUFFICES ASSUME IInv, [Next]_vars PROVE IInv'
    OBVIOUS
  <2>1. TInv' /\ AskInv'
    BY TypedStep, AskInvStep
  <2>2. (Limit # Undeclared => StallInv)'
    BY StallInvStep
  <2>3. QuietInv'
    BY QuietStep, NotAcceptedStep DEF AskInv, QuietInv
  <2> QED
    BY <2>1, <2>2, <2>3
<1>3. IInv => AnswerableWait
  BY DEF QuietInv, AskInv, OpenIsCurrent, QuestionsOfNow, AnswerableWait, Open, InState
<1> QED
  BY <1>1, <1>2, <1>3, PTL DEF Spec

-----------------------------------------------------------------------------
(* The first message of an execution.                                      *)

\* A sequence that is one longer, and otherwise the same.
LEMMA AppendIs ==
  ASSUME NEW S, NEW s \in Seq(S), NEW e \in S, NEW t \in [1..Len(s) + 1 -> S],
         \A i \in 1..Len(s) : t[i] = s[i], t[Len(s) + 1] = e
  PROVE  t = Append(s, e)
<1>1. t \in Seq(S) /\ Len(t) = Len(s) + 1
  <2>1. Len(s) + 1 \in Nat
    OBVIOUS
  <2> QED
    BY <2>1, SeqOfFunction
<1>2. /\ Append(s, e) \in Seq(S) /\ Len(Append(s, e)) = Len(s) + 1
      /\ \A i \in 1..Len(s) : Append(s, e)[i] = s[i]
      /\ Append(s, e)[Len(s) + 1] = e
  BY AppendTo
<1>3. Len(s) \in Nat
  OBVIOUS
<1>4. \A i \in 1..Len(t) : t[i] = Append(s, e)[i]
  BY <1>1, <1>2, <1>3
<1> QED
  BY <1>1, <1>2, <1>4, SeqEqual

\* A message is delivered once a turn is started for it, and stays so.
LEMMA DeliveriesMove ==
  ASSUME TypeOK, [Next]_vars
  PROVE  /\ EverDelivered("child") \subseteq EverDelivered("child")'
         /\ \A k \in EverDelivered("child")' :
              \/ k \in EverDelivered("child")
              \/ \E i \in DOMAIN Mail : Starts(i) /\ k = Mail[i].key
<1>1. ASSUME NEW k \in EverDelivered("child") PROVE k \in EverDelivered("child")'
  <2>1. PICK i \in DOMAIN Mail : Mail[i].state = "delivered" /\ Mail[i].key = k
    BY <1>1 DEF EverDelivered, Mail
  <2>2. i \in DOMAIN inbox'["child"] /\ inbox'["child"][i] = Mail[i]
    BY <2>1, MessagesStay
  <2> QED
    BY <2>1, <2>2 DEF EverDelivered
<1>2. ASSUME NEW k \in EverDelivered("child")'
      PROVE  \/ k \in EverDelivered("child")
             \/ \E i \in DOMAIN Mail : Starts(i) /\ k = Mail[i].key
  <2>1. PICK i \in DOMAIN inbox'["child"] :
          inbox'["child"][i].state = "delivered" /\ inbox'["child"][i].key = k
    BY <1>2 DEF EverDelivered
  <2>2. i \in DOMAIN Mail
    <3> SUFFICES ASSUME i \notin DOMAIN Mail PROVE FALSE
      OBVIOUS
    <3>1. PICK j \in KeySet : inbox'["child"][i] =
            [key |-> j, epoch |-> exec["child"].epoch, state |-> "pending"]
      BY NewRow
    <3> QED
      BY <2>1, <3>1
  <2>3. Mail[i].key = k /\ (Mail[i].state = "delivered" \/ Starts(i))
    BY <2>1, <2>2, MessagesStay
  <2> QED
    BY <2>2, <2>3 DEF EverDelivered, Mail
<1> QED
  BY <1>1, <1>2

\* A Task that is over or blocked stays so.
LEMMA ClosedStays ==
  ASSUME TypeOK, [Next]_vars, child.state \in Closed
  PROVE  child'.state \in Closed
<1>0. /\ \A s : [child EXCEPT !.state = s].state = s
      /\ child.state \notin {"running", "awaiting_review", "waiting_decision"}
  BY NodeTypes DEF Closed, Terminal
<1>1. ~Submit /\ ~Revises
  BY <1>0 DEF Submit, Revises, ApplyRevision, MayApply
<1>2. CASE ApplyFacts
  BY <1>0, <1>2 DEF ApplyFacts, Applied
<1>3. CASE ReconcileProgress
  BY <1>0, <1>3 DEF ReconcileProgress, HandoffDue
<1>4. CASE ApplyFailures
  BY <1>0, <1>4 DEF ApplyFailures, Struck, Closed, Terminal
<1>5. CASE WakeWorkers \/ WakeIdle
  BY <1>0, <1>5 DEF WakeWorkers, WakeChild, WakeParent, AskParent, AskAgain, NobodyToWake,
     Send, GiveUp, Fail, WakeIdle, Closed, Terminal
<1>6. CASE ReconcileAcceptance
  BY <1>1, <1>6
     DEF ReconcileAcceptance, Revises, HandOff, Supersede, Rebind, NothingToRevise
<1>7. CASE ApplyDecisions
  BY <1>0, <1>7 DEF ApplyDecisions, Wait, Resume, NothingDecided, ReplyDue, Answered
<1> QED
  BY <1>1, <1>2, <1>3, <1>4, <1>5, <1>6, <1>7, StepCases, MinorSteps
     DEF Ask, Review, Resolve, ClosePass, Deliver, Report, nodeVars

\* Only an observation of uncertainty blocks the child.
LEMMA BlockedMoves ==
  ASSUME TypeOK, [Next]_vars, child'.state = "blocked", child.state # "blocked"
  PROVE  exec["child"].observed = "unknown" /\ UNCHANGED proc
<1>0. \A s : [child EXCEPT !.state = s].state = s
  BY NodeTypes
<1>1. ~Submit /\ ~Revises
  BY SubmitMoves, RevisionMoves
<1>2. ~ApplyFacts /\ ~ReconcileProgress
  BY <1>0 DEF ApplyFacts, Applied, ReconcileProgress
<1>3. ~WakeWorkers /\ ~WakeIdle
  BY <1>0 DEF WakeWorkers, WakeChild, WakeParent, AskParent, AskAgain, NobodyToWake,
     Send, GiveUp, Fail, WakeIdle
<1>4. ~ReconcileAcceptance
  BY <1>1 DEF ReconcileAcceptance, Revises, HandOff, Supersede, Rebind, NothingToRevise
<1>5. ~ApplyDecisions
  BY <1>0 DEF ApplyDecisions, Wait, Resume, NothingDecided
<1>6. CASE ApplyFailures
  BY <1>0, <1>6 DEF ApplyFailures, Struck, Closed, Terminal, procVars
<1> QED
  BY <1>1, <1>2, <1>3, <1>4, <1>5, <1>6, StepCases, MinorSteps
     DEF Ask, Review, Resolve, ClosePass, Deliver, Report, nodeVars

\* What is observed of the child's Worker changes when it is polled or replaced.
LEMMA ObservationMoves ==
  ASSUME TypeOK, [Next]_vars, ~Rebinds,
         exec'["child"].observed = "unknown", exec["child"].observed # "unknown"
  PROVE  proc["child"] = "unknown"
<1>0. /\ exec["child"] \in RowSet /\ "child" \in Workers /\ DOMAIN exec = Workers
      /\ exec["child"] = exec["child"]
  BY RowTypes, TypesNamed DEF Workers
<1>1. exec' # exec
  OBVIOUS
<1>2. ~Revises
  BY RevisionMoves
<1>3. ~ClosePass
  <2> SUFFICES ASSUME ClosePass PROVE FALSE
    OBVIOUS
  <2>1. exec'["child"] \in {exec["child"], [exec["child"] EXCEPT !.desired = "stopped"]}
    BY <1>0 DEF ClosePass
  <2> QED
    BY <1>0, <2>1 DEF RowSet
<1>4. ASSUME NEW w \in Workers, Report(w)
      PROVE  proc["child"] = "unknown"
  <2> DEFINE e == [exec[w] EXCEPT !.observed = Found(w), !.turn = Current(w)]
  <2>1. exec' = [exec EXCEPT ![w] = e]
    BY <1>4 DEF Report
  <2>2. e.observed = Found(w)
    BY RowTypes DEF RowSet
  <2> HIDE DEF e
  <2>3. w = "child" /\ Found(w) = "unknown"
    BY <1>0, <2>1, <2>2
  <2> QED
    BY <2>3 DEF Found
<1> QED
  BY <1>1, <1>2, <1>3, <1>4, StepCases, MinorSteps
     DEF Ask, Submit, Review, Resolve, ApplyFacts, ReconcileProgress, ApplyFailures,
         ApplyDecisions, ReconcileAcceptance, Revises, Rebinds, HandOff, Supersede, Rebind,
         NothingToRevise, RaiseIn, WakeWorkers, WakeIdle, Deliver, nodeVars, rowVars

-----------------------------------------------------------------------------

\* Before the execution of a revised contract has its first message, nothing
\* is asked or owed, nothing runs, and there is no candidate of the contract.
NotStarted ==
  child.contract > 0 /\ ~Superseded
  /\ Start(exec["child"].epoch) \notin Keys("child", {"delivered"})

StartFirst ==
  NotStarted => /\ Open = {} /\ Owed = {} /\ proc["child"] # "active"
                /\ \A r \in 1..child.round : candidates[r].contract < child.contract

\* Uncertainty is observed, and blocks the child, while it lasts.
UncertaintyLasts ==
  /\ exec["child"].observed = "unknown" => proc["child"] = "unknown"
  /\ child.state = "blocked" => proc["child"] = "unknown"

\* What the promise needs to know of the start of an execution and of
\* uncertainty.
StartInv == StartFirst /\ UncertaintyLasts

\* Uncertainty is observed, and lasts until the execution is replaced.
LEMMA UncertaintyStep ==
  ASSUME TypeOK, UncertaintyLasts, [Next]_vars
  PROVE  UncertaintyLasts'
<1>1. CASE Rebinds
  BY <1>1, RebindMoves DEF Rebinds, UncertaintyLasts
<1>2. CASE ~Rebinds
  <2>1. proc["child"] = "unknown" => proc'["child"] = "unknown"
    BY <1>2, ProcessMoves
  <2>2. exec'["child"].observed = "unknown" => proc["child"] = "unknown"
    BY <1>2, ObservationMoves DEF UncertaintyLasts
  <2>3. child'.state = "blocked" => proc["child"] = "unknown"
    BY BlockedMoves DEF UncertaintyLasts
  <2> QED
    BY <2>1, <2>2, <2>3 DEF UncertaintyLasts
<1> QED
  BY <1>1, <1>2

\* The first message of a replacement comes when nothing is asked or owed.
LEMMA StartFirstStep ==
  ASSUME TInv, AskInv, StartFirst, [Next]_vars
  PROVE  StartFirst'
<1>0. /\ TypeOK /\ child.round \in Nat /\ child.contract \in Nat
      /\ exec["child"].contract <= child.contract /\ exec["child"].contract \in Nat
  BY NodeTypes, RowTypes DEF TInv, VersionsGrow, Workers
<1> SUFFICES ASSUME NotStarted'
             PROVE  /\ Open' = {} /\ Owed' = {} /\ proc'["child"] # "active"
                    /\ \A r \in 1..child'.round : candidates'[r].contract < child'.contract
  BY DEF StartFirst
<1>1. CASE Rebinds
  <2>1. /\ Superseded /\ proc'["child"] = "none"
        /\ UNCHANGED <<child, candidates, questions, inbox>>
    BY <1>0, <1>1, RebindMoves
  <2>2. Open = {} /\ RepliesConsumed
    BY <2>1 DEF AskInv, SettledBeforeRevision
  <2>3. Owed = {}
    <3>1. ASSUME NEW d \in InState("resolved") PROVE Reply(d) \in EverDelivered("child")
      <4>1. PICK i \in DOMAIN inbox["child"] :
              inbox["child"][i] = [key |-> Reply(d), epoch |-> questions[d].epoch,
                                   state |-> "delivered"]
        BY <2>2 DEF RepliesConsumed
      <4>2. inbox["child"][i].state = "delivered" /\ inbox["child"][i].key = Reply(d)
        BY <4>1
      <4> QED
        BY <4>2 DEF EverDelivered
    <3> QED
      BY <3>1 DEF Owed
  <2>4. Open' = {} /\ Owed' = {}
    BY <2>1, <2>2, <2>3 DEF Open, Owed, InState, EverDelivered, Reply, Key
  <2>5. \A r \in 1..child.round : candidates[r].contract < child.contract
    <3>1. \A r \in 1..child.round : candidates[r].contract \in Nat
      BY <1>0, CandidateTypes, NodeTypes DEF CandidateSet
    <3> QED
      BY <1>0, <2>1, <3>1 DEF AskInv, CandidatesOfNow, Superseded
  <2> QED
    BY <2>1, <2>4, <2>5
<1>2. CASE Revises
  <2>1. child'.contract = child.contract + 1
        /\ exec'["child"].contract = exec["child"].contract
    BY <1>0, <1>2, RevisionMoves
  <2> QED
    BY <1>0, <2>1 DEF NotStarted, Superseded
<1>3. CASE ~Rebinds /\ ~Revises
  <2>1. /\ child'.contract = child.contract /\ Superseded' = Superseded
        /\ exec'["child"].epoch = exec["child"].epoch
    BY <1>0, <1>3, SupersededKeeps
  <2>2. ASSUME NEW i \in DOMAIN Mail,
               Mail[i].key = Start(exec["child"].epoch),
               Mail[i].epoch = exec["child"].epoch
        PROVE  inbox'["child"][i].state # "delivered" /\ Mail[i].state # "delivered"
    <3>1. /\ i \in DOMAIN inbox'["child"] /\ inbox'["child"][i].key = Mail[i].key
          /\ inbox'["child"][i].epoch = Mail[i].epoch
          /\ Mail[i].state = "delivered" => inbox'["child"][i] = Mail[i]
      BY <1>0, MessagesStay
    <3>2. inbox'["child"][i].state # "delivered"
      BY <2>1, <2>2, <3>1 DEF NotStarted, Keys, Rows, Start, Key
    <3> QED
      BY <3>1, <3>2
  <2>3. NotStarted
    BY <2>1, <2>2 DEF NotStarted, Keys, Rows, Mail
  <2>4. /\ Open = {} /\ Owed = {} /\ proc["child"] # "active"
        /\ \A r \in 1..child.round : candidates[r].contract < child.contract
    BY <2>3 DEF StartFirst
  <2>5. ~Asks
    <3>1. ~Ask
      BY <2>4 DEF Ask, Acts
    <3>2. ~HandoffDue
      BY <1>0, <2>4, StalledIsCurrent DEF HandoffDue
    <3> QED
      BY <3>1, <3>2 DEF Asks
  <2>6. Open' = {}
    BY <1>0, <2>4, <2>5, ClosedNow
  <2>7. Owed' = {}
    <3>1. \A d \in InState("resolved")' : d \in InState("resolved")
      BY <1>0, <2>4, <2>5, QuestionsKeep DEF InState, Open
    <3>2. \A d \in InState("resolved") : Reply(d) \in EverDelivered("child")'
      BY <1>0, <2>4, DeliveriesMove DEF Owed
    <3> QED
      BY <3>1, <3>2 DEF Owed, Reply, Key
  <2>8. ~\E i \in DOMAIN Mail : Starts(i)
    <3> SUFFICES ASSUME NEW i \in DOMAIN Mail, Starts(i) PROVE FALSE
      OBVIOUS
    <3>1. /\ ChildGate(Mail[i].key) /\ Mail[i].epoch = exec["child"].epoch
          /\ inbox'["child"][i] = [key |-> Mail[i].key, epoch |-> Mail[i].epoch,
                                   state |-> "delivered"]
      BY <1>0, StartsMoves
    <3>2. Mail[i].key = Start(exec["child"].epoch)
      BY <2>3, <2>4, <3>1 DEF ChildGate, NotStarted, Local
    <3>3. inbox'["child"][i].state # "delivered"
      BY <2>2, <3>1, <3>2
    <3> QED
      BY <3>1, <3>3
  <2>9. proc'["child"] # "active"
    BY <1>0, <2>4, <2>8, ProcessMoves
  <2>10. child'.round = child.round
         /\ \A r \in 1..child.round : candidates'[r].contract = candidates[r].contract
    <3>1. ~Submit
      BY <2>4 DEF Submit, Acts
    <3> QED
      BY <1>0, <1>3, <3>1, HostSteps, ReviewMoves
  <2> QED
    BY <2>1, <2>4, <2>6, <2>7, <2>9, <2>10
<1> QED
  BY <1>1, <1>2, <1>3

-----------------------------------------------------------------------------
(* The promise made about decisions.                                       *)

\* How a question may stand.
Ways == {"open", "withdrawn", "read", "answered"}

\* The turns of the child that were started for anything but an answer.
WorkTurns == {t \in DOMAIN turns["child"] : turns["child"][t].key.kind # "reply"}

\* What the promise rests on.
KeptInv == TInv /\ ReplyInv /\ StartInv

\* How a question stands, from its row and the child's messages.
StandingOf(state, read) ==
  CASE state = "open" -> "open"
    [] state = "cancelled" -> "withdrawn"
    [] read -> "read"
    [] OTHER -> "answered"

\* How each question stands.
LEMMA StandingIs ==
  ASSUME TypeOK
  PROVE  /\ DOMAIN Standing = 1..Len(questions) /\ Len(questions) \in Nat
         /\ Standing \in [1..Len(questions) -> Ways]
         /\ \A d \in 1..Len(questions) :
              Standing[d] = StandingOf(questions[d].state, Reply(d) \in EverDelivered("child"))
<1>1. DOMAIN questions = 1..Len(questions) /\ Len(questions) \in Nat
  BY QuestionTypes
<1>2. \A d \in DOMAIN questions :
        Standing[d] = StandingOf(questions[d].state, Reply(d) \in EverDelivered("child"))
  BY DEF Standing, StandingOf
<1>3. \A d \in DOMAIN questions : Standing[d] \in Ways
  BY DEF Standing, Ways
<1> QED
  BY <1>1, <1>2, <1>3 DEF Standing

\* The turns can be counted.
LEMMA WorkFinite ==
  ASSUME TypeOK
  PROVE  IsFiniteSet(WorkTurns) /\ Cardinality(WorkTurns) \in Nat
<1>1. WorkTurns \subseteq 1..Len(turns["child"]) /\ Len(turns["child"]) \in Nat
  BY TurnTypes DEF WorkTurns, Workers
<1>2. IsFiniteSet(1..Len(turns["child"]))
  BY <1>1, FS_Interval
<1> QED
  BY <1>1, <1>2, FS_Subset, FS_CardinalityType

\* Without a delivery the questions stand as their rows say.
LEMMA StandingSame ==
  ASSUME TypeOK, TypeOK', [Next]_vars, UNCHANGED questions, ~\E i \in DOMAIN Mail : Starts(i)
  PROVE  Standing' = Standing
<1>1. EverDelivered("child")' = EverDelivered("child")
  BY DeliveriesMove
<1>2. \A d : Reply(d)' = Reply(d)
  BY DEF Reply, Key
<1> QED
  BY <1>1, <1>2 DEF Standing

\* Without a delivery no work is started.
LEMMA WorkSame ==
  ASSUME TypeOK, [Next]_vars, ~\E i \in DOMAIN Mail : Starts(i)
  PROVE  WorkTurns' = WorkTurns
<1>1. turns'["child"] = turns["child"]
  BY InboxCases, RetiresMoves DEF Posts
<1> QED
  BY <1>1 DEF WorkTurns

\* A turn is started: an answer is read, or the work goes on with nothing owed.
LEMMA StartsKeeps ==
  ASSUME KeptInv, TypeOK', [Next]_vars, NEW i \in DOMAIN Mail, Starts(i)
  PROVE  /\ child' = child /\ child.state \notin Closed
         /\ \/ /\ WorkTurns' = WorkTurns
               /\ \/ Standing' = Standing
                  \/ \E d \in DOMAIN Standing :
                       Standing[d] = "answered" /\ Standing' = [Standing EXCEPT ![d] = "read"]
            \/ /\ Cardinality(WorkTurns') = Cardinality(WorkTurns) + 1
               /\ Standing' = Standing
               /\ \A d \in DOMAIN Standing : Standing[d] \in {"read", "withdrawn"}
<1>0. TypeOK /\ ReplyRows /\ StartFirst /\ UncertaintyLasts
  BY DEF KeptInv, TInv, ReplyInv, StartInv
<1> DEFINE k == Mail[i].key
<1>1. /\ ChildGate(k) /\ UNCHANGED <<child, questions>>
      /\ proc["child"] # "unknown" /\ proc["child"] # "active"
      /\ inbox'["child"][i].key = k /\ inbox'["child"][i].state = "delivered"
      /\ i \in DOMAIN inbox'["child"]
      /\ \A j \in DOMAIN Mail : j # i => inbox'["child"][j] = Mail[j]
      /\ DOMAIN inbox'["child"] = DOMAIN Mail
  <2>1. /\ ChildGate(Mail[i].key) /\ UNCHANGED <<child, questions>>
        /\ proc["child"] \notin {"active", "unknown"}
        /\ DOMAIN inbox'["child"] = DOMAIN Mail
        /\ \A j \in DOMAIN Mail : j # i => inbox'["child"][j] = Mail[j]
    BY <1>0, StartsMoves
  <2>2. inbox'["child"][i] = [key |-> Mail[i].key, epoch |-> Mail[i].epoch,
                              state |-> "delivered"]
    BY <1>0, StartsMoves
  <2>3. inbox'["child"][i].key = Mail[i].key /\ inbox'["child"][i].state = "delivered"
    BY <2>2
  <2> QED
    BY <2>1, <2>3
<1>2. child.state \notin Closed
  BY <1>0, <1>1 DEF ChildGate, Closed, UncertaintyLasts
<1>3. EverDelivered("child")' = EverDelivered("child") \cup {k}
  <2>1. k \in EverDelivered("child")'
    BY <1>1 DEF EverDelivered
  <2>2. EverDelivered("child")' \subseteq EverDelivered("child") \cup {k}
    <3> SUFFICES ASSUME NEW j \in DOMAIN inbox'["child"],
                        inbox'["child"][j].state = "delivered"
                 PROVE  inbox'["child"][j].key \in EverDelivered("child") \cup {k}
      BY DEF EverDelivered
    <3> QED
      BY <1>1 DEF EverDelivered, Mail
  <2> QED
    BY <1>0, <2>1, <2>2, DeliveriesMove
<1>4. /\ DOMAIN turns'["child"] = 1..Len(turns["child"]) + 1
      /\ DOMAIN turns["child"] = 1..Len(turns["child"])
      /\ \A t \in DOMAIN turns["child"] : turns'["child"][t] = turns["child"][t]
      /\ turns'["child"][Len(turns["child"]) + 1].key = k
      /\ Len(turns["child"]) \in Nat
  <2>1. turns'["child"][Len(turns["child"]) + 1] =
          [key |-> Mail[i].key, epoch |-> exec["child"].epoch]
    BY <1>0, StartsMoves
  <2>2. /\ DOMAIN turns'["child"] = 1..Len(turns["child"]) + 1
        /\ DOMAIN turns["child"] = 1..Len(turns["child"])
        /\ \A t \in DOMAIN turns["child"] : turns'["child"][t] = turns["child"][t]
    BY <1>0, StartsMoves
  <2>3. turns'["child"][Len(turns["child"]) + 1].key = Mail[i].key
    BY <2>1
  <2>4. Len(turns["child"]) \in Nat
    BY <1>0, TurnTypes DEF Workers
  <2> QED
    BY <2>2, <2>3, <2>4
<1>5. /\ DOMAIN Standing = 1..Len(questions) /\ Len(questions) \in Nat
      /\ Standing \in [1..Len(questions) -> Ways]
      /\ \A d \in 1..Len(questions) :
           Standing[d] = StandingOf(questions[d].state, Reply(d) \in EverDelivered("child"))
  BY <1>0, StandingIs
<1>6. /\ Standing' \in [1..Len(questions) -> Ways]
      /\ \A d \in 1..Len(questions) :
           Standing'[d] = StandingOf(questions[d].state,
                                     Reply(d) \in EverDelivered("child")')
  <2>1. DOMAIN questions = 1..Len(questions) /\ questions' = questions
    BY <1>0, <1>1, QuestionTypes
  <2>2. Standing' = [d \in DOMAIN questions |->
                       StandingOf(questions[d].state, Reply(d) \in EverDelivered("child")')]
    BY <2>1 DEF Standing, StandingOf, Reply, Key
  <2>3. \A state, read : StandingOf(state, read) \in Ways
    BY DEF StandingOf, Ways
  <2> QED
    BY <2>1, <2>2, <2>3
<1> HIDE DEF k
<1>7. CASE k.kind = "reply"
  <2>1. WorkTurns' = WorkTurns
    BY <1>4, <1>7 DEF WorkTurns
  <2>2. k.of \in InState("resolved") /\ k = Reply(k.of)
    BY <1>0, <1>7 DEF ReplyRows, k
  <2>3. k.of \in DOMAIN Standing /\ questions[k.of].state = "resolved"
    BY <1>0, <1>5, <2>2, QuestionTypes DEF InState
  <2>4. \A d \in 1..Len(questions) : d # k.of =>
          (Reply(d) \in EverDelivered("child")' <=> Reply(d) \in EverDelivered("child"))
    <3>1. \A d : Reply(d).of = d
      BY DEF Reply, Key
    <3> QED
      BY <1>3, <3>1
  <2>5. \A d \in 1..Len(questions) : d # k.of => Standing'[d] = Standing[d]
    BY <1>5, <1>6, <2>4 DEF StandingOf
  <2>6. Standing'[k.of] = "read" /\ Standing[k.of] \in {"read", "answered"}
    BY <1>3, <1>5, <1>6, <2>2, <2>3 DEF StandingOf
  <2>7. Standing' = [Standing EXCEPT ![k.of] = "read"]
    BY <1>5, <1>6, <2>3, <2>5, <2>6
  <2>8. Standing[k.of] = "read" => Standing' = Standing
    BY <1>5, <1>6, <2>5, <2>6
  <2> QED
    BY <1>1, <1>2, <2>1, <2>3, <2>6, <2>7, <2>8
<1>8. CASE k.kind # "reply"
  <2>1. WorkTurns' = WorkTurns \cup {Len(turns["child"]) + 1}
        /\ Len(turns["child"]) + 1 \notin WorkTurns
    BY <1>4, <1>8 DEF WorkTurns
  <2>2. Cardinality(WorkTurns') = Cardinality(WorkTurns) + 1
    BY <1>0, <2>1, WorkFinite, FS_AddElement
  <2>3. \A d \in 1..Len(questions) :
          Reply(d) \in EverDelivered("child")' <=> Reply(d) \in EverDelivered("child")
    BY <1>3, <1>8 DEF Reply, Key
  <2>4. Standing' = Standing
    BY <1>5, <1>6, <2>3 DEF StandingOf
  <2>5. k \notin Owed
    BY <1>8 DEF Owed, Reply, Key
  <2>6. Open = {} /\ Owed = {}
    <3>1. Open = {} /\ ~(Pending \/ (Local /\ Superseded))
      BY <1>1, <2>5 DEF ChildGate
    <3>2. CASE Local /\ Start(exec["child"].epoch) \notin Keys("child", {"delivered"})
      <4>1. NotStarted
        BY <3>1, <3>2 DEF NotStarted, Local
      <4> QED
        BY <1>0, <4>1 DEF StartFirst
    <3>3. CASE ~(Local /\ Start(exec["child"].epoch) \notin Keys("child", {"delivered"}))
      BY <1>1, <2>5, <3>1, <3>3 DEF ChildGate
    <3> QED
      BY <3>2, <3>3
  <2>7. ASSUME NEW d \in DOMAIN Standing
        PROVE  Standing[d] \in {"read", "withdrawn"}
    <3>1. d \in DOMAIN questions /\ d \in 1..Len(questions) /\ questions[d] \in QuestionSet
      BY <1>0, <1>5, QuestionTypes
    <3>2. questions[d].state \in {"resolved", "cancelled"}
      BY <2>6, <3>1 DEF Open, InState, QuestionSet
    <3>3. questions[d].state = "resolved" => Reply(d) \in EverDelivered("child")
      BY <2>6, <3>1 DEF Owed, InState
    <3> QED
      BY <1>5, <3>1, <3>2, <3>3 DEF StandingOf
  <2> QED
    BY <1>1, <1>2, <2>2, <2>4, <2>7
<1> QED
  BY <1>7, <1>8

\* A question that is opened stands behind the others, which are closed.
LEMMA AskKeeps ==
  ASSUME KeptInv, [Next]_vars, Asks
  PROVE  /\ child.state \notin Closed /\ child'.state \notin Closed
         /\ WorkTurns' = WorkTurns
         /\ \A d \in DOMAIN Standing : Standing[d] # "open"
         /\ Standing' = Append(Standing, "open")
<1>0. TypeOK /\ ReplyRows
  BY DEF KeptInv, TInv, ReplyInv
<1>1. /\ child.state = "running" /\ child'.state = "running" /\ Open = {}
      /\ UNCHANGED <<inbox, turns>>
  BY <1>0, AskMoves
<1>2. PICK q \in QuestionSet : questions' = Append(questions, q) /\ q.state = "open"
  BY <1>0, AskMoves
<1>3. /\ DOMAIN questions = 1..Len(questions) /\ Len(questions) \in Nat
      /\ DOMAIN questions' = 1..Len(questions) + 1
      /\ \A d \in 1..Len(questions) : questions'[d] = questions[d]
      /\ questions'[Len(questions) + 1] = q
  BY <1>0, <1>2, QuestionTypes, AppendTo
<1>4. EverDelivered("child")' = EverDelivered("child")
  BY <1>1 DEF EverDelivered
<1>5. /\ Standing \in [1..Len(questions) -> Ways]
      /\ \A d \in 1..Len(questions) :
           Standing[d] = StandingOf(questions[d].state, Reply(d) \in EverDelivered("child"))
  BY <1>0, StandingIs
<1>6. Standing' = [d \in 1..Len(questions) + 1 |->
                     StandingOf(questions'[d].state, Reply(d) \in EverDelivered("child"))]
  BY <1>3, <1>4 DEF Standing, StandingOf, Reply, Key
<1>7. \A state, read : StandingOf(state, read) \in Ways
  BY DEF StandingOf, Ways
<1>8. Standing \in Seq(Ways) /\ Len(Standing) = Len(questions)
  BY <1>3, <1>5, SeqOfFunction
<1>9. Standing' \in [1..Len(Standing) + 1 -> Ways]
  BY <1>6, <1>7, <1>8
<1>10. \A d \in 1..Len(Standing) : Standing'[d] = Standing[d]
  BY <1>3, <1>5, <1>6, <1>8
<1>11. Standing'[Len(Standing) + 1] = "open"
  <2>1. Len(questions) + 1 \in 1..Len(questions) + 1
    BY <1>3
  <2>2. Standing'[Len(questions) + 1] =
          StandingOf("open", Reply(Len(questions) + 1) \in EverDelivered("child"))
    BY <1>2, <1>3, <1>6, <2>1
  <2>3. Reply(Len(questions) + 1) \notin EverDelivered("child")
    <3> SUFFICES ASSUME NEW i \in DOMAIN Mail, Mail[i].key = Reply(Len(questions) + 1)
                 PROVE  FALSE
      BY DEF EverDelivered, Mail
    <3>1. Len(questions) + 1 \in InState("resolved")
      BY <1>0 DEF ReplyRows, Reply, Key
    <3> QED
      BY <1>3, <3>1 DEF InState
  <2> QED
    BY <1>8, <2>2, <2>3 DEF StandingOf
<1>12. Standing' = Append(Standing, "open")
  <2>1. "open" \in Ways
    BY DEF Ways
  <2> QED
    BY <1>8, <1>9, <1>10, <1>11, <2>1, AppendIs
<1>13. \A d \in DOMAIN Standing : Standing[d] # "open"
  <2>1. \A d \in 1..Len(questions) : questions[d].state # "open"
    BY <1>1, <1>3 DEF Open, InState
  <2>2. \A d \in DOMAIN Standing : d \in 1..Len(questions)
    BY <1>5
  <2> QED
    BY <1>5, <2>1, <2>2 DEF StandingOf
<1> QED
  BY <1>1, <1>12, <1>13 DEF WorkTurns, Closed, Terminal

\* A question that is answered, or withdrawn when the Task is over.
LEMMA ClosingKeeps ==
  ASSUME KeptInv, TypeOK', [Next]_vars, NEW d \in Open, NEW s \in {"resolved", "cancelled"},
         UNCHANGED <<inbox, turns>>, questions' = [questions EXCEPT ![d].state = s]
  PROVE  /\ WorkTurns' = WorkTurns
         /\ d \in DOMAIN Standing /\ Standing[d] = "open"
         /\ Standing' = [Standing EXCEPT ![d] = IF s = "resolved" THEN "answered"
                                                                  ELSE "withdrawn"]
<1>0. TypeOK /\ ReplyRows
  BY DEF KeptInv, TInv, ReplyInv
<1>1. /\ DOMAIN questions = 1..Len(questions) /\ Len(questions) \in Nat
      /\ d \in 1..Len(questions) /\ questions[d].state = "open"
      /\ questions[d] \in QuestionSet
  BY <1>0, QuestionTypes DEF Open, InState
<1>2. /\ DOMAIN questions' = 1..Len(questions) /\ questions'[d].state = s
      /\ \A c \in 1..Len(questions) : c # d => questions'[c] = questions[c]
  <2> DEFINE e == [questions[d] EXCEPT !.state = s]
  <2>1. questions' = [questions EXCEPT ![d] = e]
    OBVIOUS
  <2>2. e.state = s
    BY <1>1 DEF QuestionSet
  <2> HIDE DEF e
  <2> QED
    BY <1>1, <2>1, <2>2
<1>3. /\ DOMAIN Standing = 1..Len(questions)
      /\ Standing \in [1..Len(questions) -> Ways]
      /\ \A c \in 1..Len(questions) :
           Standing[c] = StandingOf(questions[c].state, Reply(c) \in EverDelivered("child"))
  BY <1>0, StandingIs
<1>4. EverDelivered("child")' = EverDelivered("child")
  BY DEF EverDelivered
<1>5. Standing' = [c \in 1..Len(questions) |->
                     StandingOf(questions'[c].state, Reply(c) \in EverDelivered("child"))]
  BY <1>2, <1>4 DEF Standing, StandingOf, Reply, Key
<1>6. Reply(d) \notin EverDelivered("child")
  <2> SUFFICES ASSUME NEW i \in DOMAIN Mail, Mail[i].key = Reply(d) PROVE FALSE
    BY DEF EverDelivered, Mail
  <2>1. d \in InState("resolved")
    BY <1>0 DEF ReplyRows, Reply, Key
  <2> QED
    BY <1>1, <2>1 DEF InState
<1>7. Standing'[d] = (IF s = "resolved" THEN "answered" ELSE "withdrawn")
  BY <1>1, <1>2, <1>5, <1>6 DEF StandingOf
<1>8. \A c \in 1..Len(questions) : c # d => Standing'[c] = Standing[c]
  BY <1>2, <1>3, <1>5
<1>9. Standing' = [Standing EXCEPT ![d] = IF s = "resolved" THEN "answered"
                                                            ELSE "withdrawn"]
  BY <1>3, <1>5, <1>7, <1>8
<1>10. Standing[d] = "open" /\ d \in DOMAIN Standing
  BY <1>1, <1>3, <1>6 DEF StandingOf
<1>11. WorkTurns' = WorkTurns
  BY DEF WorkTurns
<1> QED
  BY <1>9, <1>10, <1>11

\* Every step keeps the promise about decisions, or does nothing to it.
LEMMA PromiseStep ==
  ASSUME KeptInv, TypeOK', [Next]_vars
  PROVE  [Promise!Next]_(Promise!vars)
<1>0. TypeOK /\ OpenIsLast
  BY DEF KeptInv, TInv, ReplyInv, AskInv
<1> DEFINE Over == child.state \in Closed
<1>w. /\ {i \in DOMAIN turns["child"] : turns["child"][i].key.kind # "reply"} = WorkTurns
      /\ {i \in DOMAIN turns["child"] : turns["child"][i].key.kind # "reply"}' = WorkTurns'
  BY DEF WorkTurns
<1>v. ASSUME Standing' = Standing, WorkTurns' = WorkTurns, Over' = Over
      PROVE  UNCHANGED Promise!vars
  BY <1>v, <1>w DEF Promise!vars
<1>1. ASSUME NEW i \in DOMAIN Mail, Starts(i)
      PROVE  Promise!Work \/ (\E d \in DOMAIN Standing : Promise!Read(d))
             \/ UNCHANGED Promise!vars
  <2>1. child' = child /\ ~Over /\ Over' = Over
    BY <1>1, StartsKeeps
  <2>2. CASE WorkTurns' = WorkTurns /\ Standing' = Standing
    BY <1>v, <2>1, <2>2
  <2>3. ASSUME NEW d \in DOMAIN Standing, WorkTurns' = WorkTurns,
               Standing[d] = "answered", Standing' = [Standing EXCEPT ![d] = "read"]
        PROVE  Promise!Read(d)
    BY <1>w, <2>1, <2>3 DEF Promise!Read
  <2>4. CASE /\ Cardinality(WorkTurns') = Cardinality(WorkTurns) + 1
             /\ Standing' = Standing
             /\ \A d \in DOMAIN Standing : Standing[d] \in {"read", "withdrawn"}
    <3>1. Promise!Work
      BY <1>w, <2>1, <2>4 DEF Promise!Work, Promise!Settled
    <3> QED
      BY <3>1
  <2> QED
    BY <1>1, <2>2, <2>3, <2>4, StartsKeeps
<1>2. ASSUME Asks PROVE Promise!Ask
  <2>1. ~Over /\ Over' = Over /\ WorkTurns' = WorkTurns
        /\ (\A d \in DOMAIN Standing : Standing[d] # "open")
        /\ Standing' = Append(Standing, "open")
    BY <1>2, AskKeeps
  <2> QED
    BY <1>w, <2>1 DEF Promise!Ask
<1>3. ASSUME NEW d \in DOMAIN questions, Resolve(d)
      PROVE  d \in DOMAIN Standing /\ Promise!Answer(d)
  <2>1. /\ child' = child /\ ~Over /\ Over' = Over /\ UNCHANGED <<inbox, turns>> /\ d \in Open
        /\ questions' = [questions EXCEPT ![d].state = "resolved"]
    BY <1>3 DEF Resolve, Closed, Terminal, rowVars, procVars
  <2>2. /\ WorkTurns' = WorkTurns /\ d \in DOMAIN Standing /\ Standing[d] = "open"
        /\ Standing' = [Standing EXCEPT ![d] = "answered"]
    BY <2>1, ClosingKeeps
  <2> QED
    BY <1>w, <2>1, <2>2 DEF Promise!Answer
<1>4. ASSUME ClosePass, Withdrawn # {}
      PROVE  \E d \in DOMAIN Standing : Promise!Withdraw(d)
  <2>1. PICK d \in Open : TRUE
    BY <1>4 DEF Withdrawn
  <2>2. /\ Withdrawn = {d} /\ Over /\ child' = child /\ Over' = Over
        /\ UNCHANGED <<inbox, turns>>
    BY <1>0, <1>4, <2>1 DEF Withdrawn, OpenIsLast, ClosePass, procVars
  <2>3. questions' = [questions EXCEPT ![d].state = "cancelled"]
    BY <1>4, <2>2 DEF ClosePass
  <2>4. /\ WorkTurns' = WorkTurns /\ d \in DOMAIN Standing /\ Standing[d] = "open"
        /\ Standing' = [Standing EXCEPT ![d] = "withdrawn"]
    BY <2>1, <2>2, <2>3, ClosingKeeps
  <2>5. Promise!Withdraw(d)
    BY <1>w, <2>2, <2>4 DEF Promise!Withdraw
  <2> QED
    BY <2>4, <2>5
<1>5. ASSUME ~\E i \in DOMAIN Mail : Starts(i), ~Asks,
             ~(\E d \in DOMAIN questions : Resolve(d)), ~(ClosePass /\ Withdrawn # {})
      PROVE  Promise!Close \/ UNCHANGED Promise!vars
  <2>1. questions' = questions
    <3>1. CASE ClosePass
      <4>1. questions' = [d \in DOMAIN questions |-> questions[d]]
        BY <1>5, <3>1 DEF ClosePass
      <4> QED
        BY <1>0, <4>1, QuestionTypes
    <3>2. CASE ~ClosePass
      BY <1>5, <3>2, StepCases, MinorSteps DEF Asks, Submit, Review, ApplyFacts,
         ReconcileProgress, ApplyFailures, ApplyDecisions, ReconcileAcceptance, WakeWorkers,
         WakeIdle, Deliver, Report, nodeVars
    <3> QED
      BY <3>1, <3>2
  <2>2. Standing' = Standing /\ WorkTurns' = WorkTurns
    BY <1>0, <1>5, <2>1, StandingSame, WorkSame
  <2>3. Over => Over'
    BY <1>0, ClosedStays
  <2>4. CASE ~Over /\ Over'
    <3>1. Promise!Close
      BY <1>w, <2>2, <2>4 DEF Promise!Close
    <3> QED
      BY <3>1
  <2>5. CASE Over' = Over
    BY <1>v, <2>2, <2>5
  <2> QED
    BY <2>3, <2>4, <2>5
<1> HIDE DEF Over
<1> QED
  BY <1>1, <1>2, <1>3, <1>4, <1>5 DEF Promise!Next

\* At first there is no question, no work and nothing is over.
LEMMA PromiseInit == Init => Promise!Init /\ StartInv
<1> SUFFICES ASSUME Init PROVE Promise!Init /\ StartInv
  OBVIOUS
<1>1. /\ questions = <<>> /\ turns["child"] = <<>> /\ child.state = "running"
      /\ child.contract = 0 /\ exec["child"].observed = "starting"
  BY DEF Init, Workers, Row
<1>2. Standing = <<>>
  BY <1>1 DEF Standing
<1>3. {i \in DOMAIN turns["child"] : turns["child"][i].key.kind # "reply"} = {}
  BY <1>1
<1>4. StartInv
  BY <1>1 DEF StartInv, StartFirst, NotStarted, UncertaintyLasts
<1> QED
  BY <1>1, <1>2, <1>3, <1>4, FS_EmptySet DEF Promise!Init, Closed, Terminal

\* The Control Plane keeps its promise about decisions: one question at a time,
\* an answer read by itself and before any other work, and a question withdrawn
\* at the end of the Task only.
THEOREM PromiseKept == Spec => KeepsPromise
<1>1. Init => KeptInv /\ Promise!Init
  BY InitTyped, ReplyInit, PromiseInit DEF KeptInv
<1>2. KeptInv /\ [Next]_vars => KeptInv'
  <2> SUFFICES ASSUME KeptInv, [Next]_vars PROVE KeptInv'
    OBVIOUS
  <2>1. TypeOK /\ TInv /\ ReplyInv /\ AskInv /\ StartFirst /\ UncertaintyLasts
    BY DEF KeptInv, TInv, ReplyInv, StartInv
  <2> QED
    BY <2>1, TypedStep, AskInvStep, ReplyRowsStep, DeliveredRepliesStep, RepliesReachStep,
       StartFirstStep, UncertaintyStep DEF KeptInv, ReplyInv, StartInv
<1>3. KeptInv => TypeOK
  BY DEF KeptInv, TInv
<1> QED
  BY <1>1, <1>2, <1>3, PromiseStep, PTL DEF Spec, KeepsPromise, Promise!Spec

\* The rows of nodes, decision_requests, workers and messages, and the turns of
\* the processes, are well formed.
THEOREM TypeCorrect == Spec => []TypeOK
<1>1. TInv => TypeOK
  BY DEF TInv
<1> QED
  BY <1>1, InitTyped, TypedStep, PTL DEF Spec

=============================================================================
