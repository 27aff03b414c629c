--------------------------- MODULE DuplicateCases ---------------------------
(***************************************************************************)
(* Two cases that may be the same deduction: the pair is named, a person   *)
(* answers "same" or "different", a confirmed pair is merged (one case     *)
(* survives, the other becomes merged), and a merge can be undone.  These  *)
(* operations run beside everything CaseWorkflow does to the same cases.   *)
(*                                                                         *)
(* deduction_merges is append-only: a merge row, and an unmerge row that   *)
(* takes it back.  The rules are the database's (migration 0032); the      *)
(* store locks both cases in id order and asks it.                         *)
(*                                                                         *)
(* How far a case was worked decides which of a pair survives, so what is  *)
(* written about its accounting counts too.  Posting models a settlement   *)
(* in full, its two people included; here it is only how far it has got.   *)
(***************************************************************************)
EXTENDS CaseWorkflow

CONSTANTS
    Age,         \* the order of deductions.created_at, oldest first
    Settleable,  \* cases on which somebody may prepare a settlement
    MaxUndos     \* bound: undoMerge requests in flight at once

ASSUME AgeAssumption ==
    /\ Age \in [Cases -> Nat]
    /\ \A a, b \in Cases : Age[a] = Age[b] => a = b
ASSUME SettleableAssumption == Settleable \subseteq Cases
ASSUME UndoAssumption == MaxUndos \in Nat

VARIABLES
    named,      \* pairs with a case.possible_duplicate event
    verdict,    \* duplicate_pair_verdicts: the answer standing on each pair
    merges,     \* deduction_merges rows with action merge
    unmerges,   \* deduction_merges rows with action unmerge
    undoing,    \* undoMerge requests that have read the survivor, not yet locked
    books       \* "settled": a settlement decision; "posted": a writeoffs or writebacks row

dupVars == <<named, verdict, merges, unmerges, undoing, books>>
allVars == <<vars, dupVars>>

Pairs == {{a, b} : a, b \in Cases} \ {{c} : c \in Cases}

MergeRows == [merged : Cases, surviving : Cases, state_before : MERGEABLE_STATES]
UnmergeRows == [merged : Cases, surviving : Cases]
UndoRequests == [merged : Cases, surviving : Cases, by : Users]

(* deduction_merges_current *)
mergesCurrent ==
    {m \in merges :
        [merged |-> m.merged, surviving |-> m.surviving] \notin unmerges}

DupInit ==
    /\ Init
    /\ named = {}
    /\ verdict = [p \in Pairs |-> "none"]
    /\ merges = {}
    /\ unmerges = {}
    /\ undoing = {}
    /\ books = [c \in Cases |-> "none"]

-----------------------------------------------------------------------------
(* 2: filed, or a row about to be posted; 1: somebody decided (a dispute or *)
(* a settlement) or declined it; 0: nobody worked it.                       *)
merge_work_rank(c) ==
    IF submissionsOf(c) # {} \/ books[c] = "posted" THEN 2
    ELSE IF preparer[c] # NoUser \/ books[c] = "settled" \/ declined[c] THEN 1
    ELSE 0

(* a survives b: more work, and of equally worked cases the older.          *)
survives(a, b) ==
    \/ merge_work_rank(a) > merge_work_rank(b)
    \/ merge_work_rank(a) = merge_work_rank(b) /\ Age[a] < Age[b]

(* Mutant: the older case survives whatever was filed. *)
OlderSurvives(a, b) ==
    /\ \A m \in mergesCurrent : m.merged \notin {a, b}
    /\ \A m \in merges : {m.merged, m.surviving} # {a, b}
    /\ Age[a] < Age[b]
    /\ \A m \in mergesCurrent : m.surviving # b
    /\ Amount[a] = Amount[b]

(* merge_refusal, the standing verdict apart: a survives, b is the loser.   *)
mergeable(a, b) ==
    /\ \A m \in mergesCurrent : m.merged \notin {a, b}
    /\ \A m \in merges : {m.merged, m.surviving} # {a, b}
    /\ merge_work_rank(b) # 2
    /\ survives(a, b)
    /\ \A m \in mergesCurrent : m.surviving # b
    /\ state[b] \in MERGEABLE_STATES
    /\ Amount[a] = Amount[b]

(* The merge row, and the trigger that moves the loser.                     *)
mergeInto(a, b) ==
    /\ mergeable(a, b)
    /\ merges' = merges \cup
          {[merged |-> b, surviving |-> a, state_before |-> state[b]]}
    /\ state' = [state EXCEPT ![b] = "merged"]

(* Whichever of the two survives.                                           *)
mergeLockedPair(a, b) == mergeInto(a, b) \/ mergeInto(b, a)

opened(c) == state[c] # Unopened

(* openCase found a probable match, or namePossibleDuplicate recorded one   *)
(* that an older build had left out.                                        *)
namePossibleDuplicate(a, b) ==
    /\ a # b
    /\ opened(a) /\ opened(b)
    /\ {a, b} \notin named
    /\ named' = named \cup {{a, b}}
    /\ UNCHANGED <<vars, verdict, merges, unmerges, undoing, books>>

(* The answer, and the merge when the person asked for it and the database  *)
(* allows it: a refused merge leaves the answer standing.                   *)
recordDuplicateVerdict(u, a, b, answer, merge) ==
    /\ mayWrite(u)
    /\ {a, b} \in named
    /\ verdict[{a, b}] = "none"
    /\ verdict' = [verdict EXCEPT ![{a, b}] = answer]
    /\ \/ answer = "same" /\ merge /\ mergeLockedPair(a, b)
       \/ /\ answer = "same" /\ merge => ~mergeable(a, b) /\ ~mergeable(b, a)
          /\ UNCHANGED <<state, merges>>
    /\ UNCHANGED <<job, notice, evidence, deadline, workVars, requestVars,
                   named, unmerges, undoing, books>>

(* An answer given earlier is acted on.                                     *)
mergeConfirmedDuplicate(u, a, b) ==
    /\ mayWrite(u)
    /\ {a, b} \in Pairs
    /\ verdict[{a, b}] = "same"
    /\ mergeLockedPair(a, b)
    /\ UNCHANGED <<job, notice, evidence, deadline, workVars, requestVars,
                   named, verdict, unmerges, undoing, books>>

(* undoMerge reads the survivor before it locks the two cases.              *)
beginUndo(u, m) ==
    /\ mayWrite(u)
    /\ Cardinality(undoing) < MaxUndos
    /\ undoing' = undoing \cup
                     {[merged |-> m.merged, surviving |-> m.surviving, by |-> u]}
    /\ UNCHANGED <<vars, named, verdict, merges, unmerges, books>>

standing(q) ==
    {m \in mergesCurrent : m.merged = q.merged /\ m.surviving = q.surviving}

(* Mutant: the restored case starts again from classified. *)
StateUndone(m) == "classified"

(* project_deduction_merge: the state kept in the merge row.                *)
stateRestored(m) == m.state_before

(* Both locked: the unmerge row, the loser back in the state the merge row  *)
(* kept, and the verdict withdrawn.                                         *)
undoMerge(q) ==
    /\ \E m \in standing(q) :
          state' = [state EXCEPT ![q.merged] = stateRestored(m)]
    /\ unmerges' = unmerges \cup {[merged |-> q.merged, surviving |-> q.surviving]}
    /\ verdict' = [verdict EXCEPT ![{q.merged, q.surviving}] = "none"]
    /\ undoing' = undoing \ {q}
    /\ UNCHANGED <<job, notice, evidence, deadline, workVars, requestVars,
                   named, merges, books>>

undoRefused(q) ==
    /\ standing(q) = {}
    /\ undoing' = undoing \ {q}
    /\ UNCHANGED <<vars, named, verdict, merges, unmerges, books>>

-----------------------------------------------------------------------------
(* The accounting of a case.  Neither operation looks at the state or moves *)
(* it; refuse_work_on_merged_case, the trigger on the rows they insert,     *)
(* locks the case and refuses one that is merged away.                      *)

notMergedAway(c) == \A m \in mergesCurrent : m.merged # c

prepareSettlementDecision(u, c) ==
    /\ mayWrite(u)
    /\ opened(c) /\ c \in Settleable
    /\ notMergedAway(c)
    /\ books[c] = "none"
    /\ books' = [books EXCEPT ![c] = "settled"]
    /\ UNCHANGED <<vars, named, verdict, merges, unmerges, undoing>>

(* An approved settlement, or a packet whose approval covers the posting.   *)
queueDecisionPostings(u, c) ==
    /\ mayApprove(u)
    /\ books[c] = "settled" \/ (books[c] = "none" /\ writeback[c] = u)
    /\ notMergedAway(c)
    /\ books' = [books EXCEPT ![c] = "posted"]
    /\ UNCHANGED <<vars, named, verdict, merges, unmerges, undoing>>

-----------------------------------------------------------------------------
(* removal_is_guarded looks for a standing merge when a case is removed.    *)
removeUnmergedCases(u, batch) ==
    /\ \A m \in mergesCurrent : m.surviving \notin batch
    /\ removeCases(u, batch)

(* Cases are created in the order of their ages.                            *)
OpeningInOrder ==
    /\ Opening
    /\ \A c \in Cases : ~opened(c) /\ state'[c] # Unopened =>
          \A d \in Cases : Age[d] < Age[c] => opened(d)

(* A settlement is a decision too to the statement that declines a case: a  *)
(* snapshot that has it is refused.                                         *)
declinesUnsettled == \A q \in declining' \ declining : books[q.case] = "none"

Working ==
    /\ \/ OpeningInOrder \/ Documents \/ Deciding \/ Assembling \/ Filing
       \/ \E u \in Users, batch \in SUBSET Cases : removeUnmergedCases(u, batch)
    /\ declinesUnsettled
    /\ UNCHANGED dupVars

Answering ==
    \E u \in Users, a, b \in Cases :
        \/ namePossibleDuplicate(a, b)
        \/ \E answer \in {"same", "different"}, merge \in BOOLEAN :
              recordDuplicateVerdict(u, a, b, answer, merge)
        \/ mergeConfirmedDuplicate(u, a, b)

Undoing ==
    \/ \E u \in Users, m \in mergesCurrent : beginUndo(u, m)
    \/ \E q \in undoing : undoMerge(q) \/ undoRefused(q)

Booking ==
    \E u \in Users, c \in Cases :
        prepareSettlementDecision(u, c) \/ queueDecisionPostings(u, c)

DupNext == Working \/ Answering \/ Undoing \/ Booking

DupSpec == DupInit /\ [][DupNext]_allVars

-----------------------------------------------------------------------------
(* Properties *)

(* The rows of the pair tables, beside the types of the workflow.            *)
DupTypeOK ==
    /\ TypeOK
    /\ named \in SUBSET Pairs
    /\ verdict \in [Pairs -> {"none", "same", "different"}]
    /\ merges \in SUBSET MergeRows
    /\ unmerges \in SUBSET UnmergeRows
    /\ undoing \in SUBSET UndoRequests
    /\ books \in [Cases -> {"none", "settled", "posted"}]

(* deductions.state is a projection of deduction_merges: a case is merged    *)
(* exactly while one merge of it stands, and the pair of a standing merge    *)
(* has its verdict "same", whatever answers, merges, undos and workflow      *)
(* steps interleave.                                                         *)
MergedIsAProjection ==
    /\ \A c \in Cases :
          state[c] = "merged" <=> \E m \in mergesCurrent : m.merged = c
    /\ \A m, n \in mergesCurrent : m.merged = n.merged => m = n
    /\ \A m \in mergesCurrent : verdict[{m.merged, m.surviving}] = "same"

(* Merges do not chain: the case a duplicate was merged into is not itself   *)
(* merged away, so following one merge always ends at the surviving case.    *)
MergesDoNotChain == \A m, n \in mergesCurrent : m.surviving # n.merged

(* A case that was filed, or whose accounting is on its way to the books, is *)
(* never the one that disappears, whenever the row and the merge meet.       *)
FiledIsNeverMergedAway ==
    /\ \A s \in submissions : state[s.case] # "merged"
    /\ \A c \in Cases : books[c] = "posted" => state[c] # "merged"
=============================================================================
