---------------------------- MODULE MCTracePanel ----------------------------
(***************************************************************************)
(* Small instances of the trace panel.                                     *)
(***************************************************************************)
EXTENDS TracePanel

CONSTANTS a, b

Both == {a, b}

=============================================================================
