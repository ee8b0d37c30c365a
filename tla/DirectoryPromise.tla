-------------------------- MODULE DirectoryPromise --------------------------
(***************************************************************************)
(* What owning a data directory promises: one owner at a time, and nobody  *)
(* works on the directory but its owner.  An owner that leaves, or dies,   *)
(* has stopped working, and the next one takes a directory nobody owns.    *)
(***************************************************************************)
CONSTANTS Starts, None

VARIABLES
  owner,   \* the process that owns the directory
  working  \* the processes that reconcile its Runs

Init == owner = None /\ working = {}

Take(i) == owner = None /\ owner' = i /\ UNCHANGED working

Work(i) == owner = i /\ working' = {i} /\ UNCHANGED owner

Rest == working' = {} /\ UNCHANGED owner

Leave == owner' = None /\ working' = {}

Next == (\E i \in Starts : Take(i) \/ Work(i)) \/ Rest \/ Leave

Spec == Init /\ [][Next]_<<owner, working>>

=============================================================================
