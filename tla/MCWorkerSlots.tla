--------------------------- MODULE MCWorkerSlots ---------------------------
(***************************************************************************)
(* Small instances of the Workers that share the capacity of a Run.        *)
(***************************************************************************)
EXTENDS WorkerSlots

CONSTANTS t, m, a, b

Pair == <<a, b>>

Alone == [capacity |-> 1, rounds |-> 1, idles |-> 0, revisions |-> 0, crashes |-> 0]

\* One slot with rework, with idle turns, with a revision or with a crash, and
\* two slots.
Mixed == {[Alone EXCEPT !.rounds = 2], [Alone EXCEPT !.idles = 2],
          [Alone EXCEPT !.idles = 1, !.revisions = 1], [Alone EXCEPT !.crashes = 1],
          [Alone EXCEPT !.capacity = 2]}

=============================================================================
