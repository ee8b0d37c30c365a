---------------------------- MODULE TaskPromise ----------------------------
(***************************************************************************)
(* What a Run promises about its Tasks, whatever happens inside: a Task is *)
(* opened once, under an owner that is still open, and comes to one of     *)
(* three outcomes that nothing takes back (kept: its result was accepted;  *)
(* lost: it failed or was cancelled; held: the effect of its execution is  *)
(* unknown).  The Run completes only when every opened Task was kept.      *)
(***************************************************************************)
CONSTANTS
  Stages,   \* the Tasks the Run declares
  Kids,     \* the Tasks it may open later
  Owner     \* kid -> the Task it is opened for

VARIABLES
  outcome,  \* Task -> "absent", "open", "kept", "lost" or "held"
  verdict   \* of the Run: "open", "held", "completed" or "failed"

Tasks == Stages \cup Kids

Init ==
  /\ outcome = [n \in Tasks |-> "absent"]
  /\ verdict = "open"

After(o) ==
  CASE o = "absent" -> {"absent", "open"}
    [] o = "open" -> {"open", "kept", "lost", "held"}
    [] OTHER -> {o}

\* Any number of Tasks move, each along its own life.
Work ==
  /\ verdict \in {"open", "held"}
  /\ outcome' \in [Tasks -> {"absent", "open", "kept", "lost", "held"}]
  /\ \A n \in Tasks : outcome'[n] \in After(outcome[n])
  /\ \A k \in Kids :
       outcome[k] = "absent" /\ outcome'[k] = "open" => outcome[Owner[k]] = "open"
  /\ UNCHANGED verdict

Complete ==
  /\ \A s \in Stages : outcome[s] = "kept"
  /\ \A k \in Kids : outcome[k] \in {"absent", "kept"}
  /\ verdict' = "completed"

Fail ==
  /\ \E n \in Tasks : outcome[n] = "lost"
  /\ \A s \in Stages : outcome[s] # "held"
  /\ verdict' = "failed"

Hold ==
  /\ \E s \in Stages : outcome[s] = "held"
  /\ verdict' = "held"

Conclude ==
  /\ verdict \in {"open", "held"}
  /\ Complete \/ Fail \/ Hold
  /\ UNCHANGED outcome

Next == Work \/ Conclude

Spec == Init /\ [][Next]_<<outcome, verdict>>

=============================================================================
