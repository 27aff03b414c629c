-------------------------- MODULE MCDuplicateCases --------------------------
(* A small instance of DuplicateCases for TLC. *)
EXTENDS DuplicateCases

CONSTANTS c1, c2, ann, abe

MCRole == [u \in Users |-> IF u = abe THEN "approver" ELSE "analyst"]
SameAmount == [c \in Cases |-> 1]
MCAge == [c \in Cases |-> IF c = c1 THEN 1 ELSE 2]
=============================================================================
