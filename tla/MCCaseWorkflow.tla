--------------------------- MODULE MCCaseWorkflow ---------------------------
(* Small instances of CaseWorkflow for TLC. *)
EXTENDS CaseWorkflow

CONSTANTS c1, c2, ann, abe, pod

MCRole == [u \in Users |-> IF u = abe THEN "approver" ELSE "analyst"]
MCAmount == [c \in Cases |-> 2]
=============================================================================
