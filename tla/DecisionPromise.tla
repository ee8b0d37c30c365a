-------------------------- MODULE DecisionPromise --------------------------
(***************************************************************************)
(* What a Task is promised about its decisions, without Workers, messages, *)
(* passes or contracts: one question at a time; an answer is read by itself*)
(* and before any other work; only the end of the Task withdraws a question*)
(***************************************************************************)
EXTENDS Naturals, Sequences

VARIABLES
  standing,   \* question -> "open", "answered", "read" or "withdrawn"
  closed,     \* whether the Task is over, or blocked
  work        \* the number of turns started for anything but an answer

vars == <<standing, closed, work>>

Settled(d) == standing[d] \in {"read", "withdrawn"}

Init == standing = <<>> /\ closed = FALSE /\ work = 0

Ask ==
  /\ ~closed
  /\ \A d \in DOMAIN standing : standing[d] # "open"
  /\ standing' = Append(standing, "open")
  /\ UNCHANGED <<closed, work>>

Answer(d) ==
  /\ ~closed
  /\ standing[d] = "open"
  /\ standing' = [standing EXCEPT ![d] = "answered"]
  /\ UNCHANGED <<closed, work>>

Read(d) ==
  /\ ~closed
  /\ standing[d] = "answered"
  /\ standing' = [standing EXCEPT ![d] = "read"]
  /\ UNCHANGED <<closed, work>>

Work ==
  /\ ~closed
  /\ \A d \in DOMAIN standing : Settled(d)
  /\ work' = work + 1
  /\ UNCHANGED <<standing, closed>>

Close == ~closed /\ closed' = TRUE /\ UNCHANGED <<standing, work>>

Withdraw(d) ==
  /\ closed
  /\ standing[d] = "open"
  /\ standing' = [standing EXCEPT ![d] = "withdrawn"]
  /\ UNCHANGED <<closed, work>>

Next ==
  \/ Ask \/ Work \/ Close
  \/ \E d \in DOMAIN standing : Answer(d) \/ Read(d) \/ Withdraw(d)

Spec == Init /\ [][Next]_vars

=============================================================================
