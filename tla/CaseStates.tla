----------------------------- MODULE CaseStates -----------------------------
(***************************************************************************)
(* The states of a deduction case and the table of its legal moves         *)
(* (packages/core-domain/src/state-machine.ts).  Pure definitions: every   *)
(* module about cases extends this one.                                    *)
(***************************************************************************)

(* No filing and no write-off has happened yet in these nine states. *)
MERGEABLE_STATES ==
    {"discovered", "classified", "evidence_pending", "evidence_complete",
     "decided", "auto_dispute_queued", "analyst_review",
     "auto_writeoff_queued", "awaiting_approval"}

TERMINAL_STATES == {"won", "lost", "partial", "written_off"}

CASE_STATES ==
    MERGEABLE_STATES \cup TERMINAL_STATES \cup {"submitted", "merged", "removed"}

(* Finished, merged away or removed: nobody should be working such a case. *)
CLOSED_STATES == TERMINAL_STATES \cup {"merged", "removed"}

(* Mutant: a state the type does not name. *)
NewState == "new"

INITIAL_STATE == "discovered"

OUTCOMES == {"won", "lost", "partial"}

Edge(from, to, trigger) == [from |-> from, to |-> to, trigger |-> trigger]

(* The table.  The guard names of an edge are the callers' business: each   *)
(* caller passes TRUE for the guard it has just checked.                    *)
TRANSITIONS ==
    {Edge("discovered", "classified", "document.classified"),
     Edge("classified", "evidence_pending", "evidence.planned"),
     Edge("classified", "analyst_review", "decision.recorded"),
     Edge("evidence_pending", "evidence_complete", "evidence.sufficient"),
     Edge("evidence_complete", "decided", "decision.recorded"),
     Edge("analyst_review", "evidence_pending", "evidence.requested"),
     Edge("awaiting_approval", "submitted", "submission.recorded"),
     Edge("awaiting_approval", "written_off", "writeoff.recorded")}
    \cup {Edge("decided", s, "decision.routed") :
            s \in {"auto_dispute_queued", "analyst_review", "auto_writeoff_queued"}}
    \cup {Edge(s, "awaiting_approval", "packet.assembled") :
            s \in {"auto_dispute_queued", "analyst_review", "auto_writeoff_queued"}}
    \cup {Edge("submitted", s, t) :
            s \in OUTCOMES, t \in {"outcome.detected", "outcome.recorded"}}
    \cup {Edge(s, "merged", "case.merged_into") : s \in MERGEABLE_STATES}
    \cup {Edge("merged", s, "case.merge_undone") : s \in MERGEABLE_STATES}
    \cup {Edge(s, "removed", "case.removed") : s \in MERGEABLE_STATES}

isTerminal(s) == s \in TERMINAL_STATES

isClosed(s) == s \in CLOSED_STATES

transitionsFrom(s) == {t \in TRANSITIONS : t.from = s}

canTransition(from, to) == \E t \in transitionsFrom(from) : t.to = to

=============================================================================
