------------------------- MODULE MCParentDecisions -------------------------
(***************************************************************************)
(* Small instances of a Task and the parent that decides for it.           *)
(***************************************************************************)
EXTENDS ParentDecisions

Nobody == {}
Both == {"child", "parent"}
Child == {"child"}
Parent == {"parent"}
Normal == {}
AnyEnding == {"failed", "unknown"}

=============================================================================
