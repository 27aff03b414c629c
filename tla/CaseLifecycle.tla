---------------------------- MODULE CaseLifecycle ----------------------------
(***************************************************************************)
(* What the case store promises about one thing only: the state of a case  *)
(* starts where the table starts and moves along the edges of the table.   *)
(* CaseWorkflow and DuplicateCases, which model the operations that move   *)
(* it, are shown to implement this specification.                          *)
(***************************************************************************)
EXTENDS CaseStates

CONSTANT Cases

VARIABLE state

(* A case that has not been opened. *)
Unopened == "unopened"

Init == state = [c \in Cases |-> Unopened]

(* openCase leaves the case discovered; openManualCase opens and classifies *)
(* it in one transaction.                                                   *)
MayMove(from, to) ==
    \/ from = Unopened /\ to \in {INITIAL_STATE, "classified"}
    \/ canTransition(from, to)

(* One transaction may move several cases: a batch is removed together.     *)
Next ==
    /\ state' = [c \in Cases |-> state'[c]]
    /\ \A c \in Cases : state'[c] # state[c] => MayMove(state[c], state'[c])

Spec == Init /\ [][Next]_state

=============================================================================
