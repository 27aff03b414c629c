---------------------------- MODULE CaseWorkflow ----------------------------
(***************************************************************************)
(* The life of a deduction case in the store: opened by the job that read  *)
(* its notice (or typed in by hand), decided by one person, assembled into *)
(* a packet, approved by a second person, filed, and closed with an        *)
(* outcome; or declined, or removed as opened in error.                    *)
(*                                                                         *)
(* A handler of packages/store-postgres/src/workflow.ts is one transaction *)
(* that first locks the case row (lockCase), so it is one action here.     *)
(* Packets, approvals and submissions are never updated or deleted, so a   *)
(* handler that reads one before it locks the case (approve,               *)
(* recordSubmission) sees what it would see after.  What is read before    *)
(* the lock and CAN change is kept in a request, and the handler is split  *)
(* there:                                                                  *)
(*   - assemblePacket reads the findings and the evidence checklist in     *)
(*     transactions of their own, then begins its own (whose start time is *)
(*     the packet's created_at), then waits for the row lock;              *)
(*   - declineCase looks for a decision in the statement that locks the    *)
(*     row: the snapshot of the statement, not the row as locked;          *)
(*   - the job that opens a case from a notice runs one transaction per    *)
(*     store call.                                                         *)
(* A refusal leaves the database as it was: it is a stutter, or the end of *)
(* the request.                                                            *)
(***************************************************************************)
EXTENDS CaseStates, Integers, Sequences, FiniteSets

CONSTANTS
    Cases,      \* deductions
    ByNotice,   \* the cases a notice may announce
    ByHand,     \* the cases a person may type in
    Deadlines,  \* whether a case may open with a deadline, and without one
    Users,      \* members of the one organisation modelled
    Role,       \* the membership role of each user
    Evidence,   \* documents a person may attach to a case
    Channels,   \* how a dispute is filed: portal, email, post
    Amount,     \* the deduction of each case, in cents
    MaxRequests, \* bound: requests of one kind in flight at once
    MaxBegins    \* bound: assembly transactions begun in a behaviour

WRITER_ROLES == {"owner", "approver", "analyst"}
APPROVER_ROLES == {"owner", "approver"}

ASSUME CaseAssumption == ByNotice \cup ByHand \subseteq Cases /\ Deadlines \subseteq BOOLEAN
ASSUME RoleAssumption == Role \in [Users -> WRITER_ROLES \cup {"viewer"}]
ASSUME AmountAssumption == Amount \in [Cases -> Nat \ {0}]
ASSUME BoundAssumption == MaxRequests \in Nat /\ MaxBegins \in Nat

VARIABLES
    state,        \* deductions.state
    job,          \* where the job that opens the case has got to
    notice,       \* the notice: not linked, a paper one, or a typed record
    evidence,     \* deduction_documents with role evidence
    deadline,     \* deductions.dispute_deadline is set
    preparer,     \* decisions.prepared_by of the human decision
    declined,     \* declined_candidates has a row
    packets,      \* rows of packets, in the order they were committed
    handed,       \* the earlier packet the last assembly handed back, or 0
    approvals,    \* rows of approvals with action_type submit
    writeback,    \* approver_id of the approvals row with action_type writeback
    submissions,  \* rows of submissions
    recovered,    \* recovered_cents of the outcome.recorded event
    assembling,   \* requests between the reads and the lock of assemblePacket
    declining,    \* requests whose declining statement waits for the row
    clock         \* start times given to assembly transactions

caseVars == <<state, job, notice, evidence, deadline>>
workVars == <<preparer, declined, packets, handed, approvals, writeback,
              submissions, recovered>>
requestVars == <<assembling, declining, clock>>
vars == <<caseVars, workVars, requestVars>>

Unopened == "unopened"
NoUser == "no user"
Notice == "notice"

ASSUME NoClash == NoUser \notin Users /\ Notice \notin Evidence

JobSteps == {"none", "opened", "linked", "done", "dead"}

(* packetDocuments: the notice unless it is our own typed record, and the   *)
(* evidence.                                                                *)
packetDocuments(c) ==
    evidence[c] \cup (IF notice[c] = "paper" THEN {Notice} ELSE {})

(* What a packet's hash is taken over: the enclosed documents, and the      *)
(* narrative, which says what the findings and the checklist said when they *)
(* were read, and the deadline.                                             *)
Contents == [docs : SUBSET (Evidence \cup {Notice}),
             terms : SUBSET (Evidence \cup {Notice}),
             deadline : BOOLEAN]

Packets == [content : Contents, at : Nat]

mayWrite(u) == Role[u] \in WRITER_ROLES
mayApprove(u) == Role[u] \in APPROVER_ROLES

(* readPacketBy decision and content hash. *)
packetWith(c, content) ==
    {i \in DOMAIN packets[c] : packets[c][i].content = content}

(* latestPacket: order by created_at desc, the start time of the assembling *)
(* transaction.                                                             *)
latestPacket(c) ==
    {i \in DOMAIN packets[c] :
        \A j \in DOMAIN packets[c] : packets[c][j].at <= packets[c][i].at}

-----------------------------------------------------------------------------
Init ==
    /\ state = [c \in Cases |-> Unopened]
    /\ job = [c \in Cases |-> "none"]
    /\ notice = [c \in Cases |-> "none"]
    /\ evidence = [c \in Cases |-> {}]
    /\ deadline = [c \in Cases |-> FALSE]
    /\ preparer = [c \in Cases |-> NoUser]
    /\ declined = [c \in Cases |-> FALSE]
    /\ packets = [c \in Cases |-> << >>]
    /\ handed = [c \in Cases |-> 0]
    /\ approvals = {}
    /\ writeback = [c \in Cases |-> NoUser]
    /\ submissions = {}
    /\ recovered = [c \in Cases |-> 0]
    /\ assembling = {}
    /\ declining = {}
    /\ clock = 0

-----------------------------------------------------------------------------
(* Opening.  openCaseFromNotice makes one transaction per call: the row is  *)
(* inserted discovered, the notice is linked, and transitionCase writes     *)
(* 'classified' without looking at the state it replaces (only the triggers *)
(* on deductions refuse a merged or a removed row).                         *)
openCase(c) ==
    /\ c \in ByNotice
    /\ state[c] = Unopened
    /\ state' = [state EXCEPT ![c] = INITIAL_STATE]
    /\ job' = [job EXCEPT ![c] = "opened"]
    /\ \E d \in Deadlines : deadline' = [deadline EXCEPT ![c] = d]
    /\ UNCHANGED <<notice, evidence, workVars, requestVars>>

(* The trigger refuses a link to a merged case.                             *)
linkNotice(c) ==
    /\ job[c] = "opened"
    /\ state[c] # "merged"
    /\ job' = [job EXCEPT ![c] = "linked"]
    /\ notice' = [notice EXCEPT ![c] = "paper"]
    /\ UNCHANGED <<state, evidence, deadline, workVars, requestVars>>


(* Mutant: nothing guards a merged row. *)
MergedMayMove(c) == state[c] # "removed"

(* merged_state_is_a_projection and removal_is_guarded: a plain update       *)
(* moves neither a merged nor a removed row.                                *)
updateAdmitted(c) == state[c] \notin {"merged", "removed"}

transitionCase(c) ==
    /\ job[c] = "linked"
    /\ updateAdmitted(c)
    /\ state' = [state EXCEPT ![c] = "classified"]
    /\ job' = [job EXCEPT ![c] = "done"]
    /\ UNCHANGED <<notice, evidence, deadline, workVars, requestVars>>

(* The job dies between two of its transactions, or one of them is refused. *)
(* Its retry is refused as a duplicate of the case it left behind.          *)
jobDies(c) ==
    /\ job[c] \in {"opened", "linked"}
    /\ job' = [job EXCEPT ![c] = "dead"]
    /\ UNCHANGED <<state, notice, evidence, deadline, workVars, requestVars>>

(* One transaction, ending in classified.                                   *)
openManualCase(u, c) ==
    /\ c \in ByHand
    /\ state[c] = Unopened
    /\ mayWrite(u)
    /\ state' = [state EXCEPT ![c] = "classified"]
    /\ notice' = [notice EXCEPT ![c] = "typed"]
    /\ \E d \in Deadlines : deadline' = [deadline EXCEPT ![c] = d]
    /\ UNCHANGED <<job, evidence, workVars, requestVars>>

attachEvidence(u, c, d) ==
    /\ mayWrite(u)
    /\ state[c] \notin {Unopened, "merged"}
    /\ d \notin evidence[c]
    /\ evidence' = [evidence EXCEPT ![c] = @ \cup {d}]
    /\ UNCHANGED <<state, job, notice, deadline, workVars, requestVars>>

(* Mutant: only a finished case is refused, not a merged or a removed one. *)
UnfinishedTakesDeadline(c) ==
    state[c] # Unopened /\ ~isTerminal(state[c]) /\ ~deadline[c]

mayTakeDeadline(c) == state[c] # Unopened /\ ~isClosed(state[c]) /\ ~deadline[c]

setDisputeDeadline(u, c) ==
    /\ mayWrite(u)
    /\ mayTakeDeadline(c)
    /\ deadline' = [deadline EXCEPT ![c] = TRUE]
    /\ UNCHANGED <<state, job, notice, evidence, workVars, requestVars>>

-----------------------------------------------------------------------------

mayDecide(c) == ~declined[c] /\ state[c] = "classified"

recordHumanDecision(u, c) ==
    /\ mayWrite(u)
    /\ mayDecide(c)
    /\ preparer' = [preparer EXCEPT ![c] = u]
    /\ state' = [state EXCEPT ![c] = "analyst_review"]
    /\ UNCHANGED <<job, notice, evidence, deadline, declined, packets, handed,
                   approvals, writeback, submissions, recovered, requestVars>>

(* The declining statement starts: it takes its snapshot, in which it looks *)
(* for a decision and for the notice, and goes for the row lock.            *)
beginDecline(u, c) ==
    /\ mayWrite(u)
    /\ state[c] # Unopened
    /\ Cardinality(declining) < MaxRequests
    /\ declining' = declining \cup
          {[case |-> c, decided |-> preparer[c] # NoUser,
            noticed |-> notice[c] # "none"]}
    /\ UNCHANGED <<caseVars, workVars, assembling, clock>>

DECLINABLE_STATES == {"discovered", "classified"}

(* Mutant: the decision is looked for, and the state taken on trust. *)
DeclineOnSnapshot(q) ==
    ~q.decided /\ q.noticed /\ ~declined[q.case]

(* The row is locked: its state is the committed one, the decision and the  *)
(* notice are what the snapshot had, and the standing decline is read by a  *)
(* later statement.                                                         *)
mayDecline(q) ==
    /\ ~q.decided
    /\ state[q.case] \in DECLINABLE_STATES
    /\ q.noticed
    /\ ~declined[q.case]

declineCase(q) ==
    /\ mayDecline(q)
    /\ declined' = [declined EXCEPT ![q.case] = TRUE]
    /\ declining' = declining \ {q}
    /\ UNCHANGED <<caseVars, preparer, packets, handed, approvals, writeback,
                   submissions, recovered, assembling, clock>>

declineRefused(q) ==
    /\ ~mayDecline(q)
    /\ declining' = declining \ {q}
    /\ UNCHANGED <<caseVars, workVars, assembling, clock>>

-----------------------------------------------------------------------------
(* Assembling.  The route reconciles the case and the store reads the       *)
(* checklist, both over the documents attached now, before the transaction. *)
readTerms(u, c) ==
    /\ mayWrite(u)
    /\ preparer[c] # NoUser
    /\ Cardinality(assembling) < MaxRequests
    /\ assembling' = assembling \cup
                        {[case |-> c, terms |-> packetDocuments(c), at |-> 0]}
    /\ UNCHANGED <<caseVars, workVars, declining, clock>>

(* begin: now() is fixed here for the whole transaction.                    *)
beginAssembly(q) ==
    /\ q.at = 0
    /\ clock < MaxBegins
    /\ clock' = clock + 1
    /\ assembling' = (assembling \ {q}) \cup {[q EXCEPT !.at = clock + 1]}
    /\ UNCHANGED <<caseVars, workVars, declining>>

(* The letter as it reads with the case row locked.                         *)
contentOf(q) == [docs |-> packetDocuments(q.case),
                 terms |-> q.terms,
                 deadline |-> deadline[q.case]]

approvalsOf(c) == {a \in approvals : a.case = c}

(* Mutant: the standing approval is not looked for. *)
AssembleAfterApproval(c) ==
    packetDocuments(c) # {} /\ state[c] \in {"analyst_review", "awaiting_approval"}

mayAssemble(c) ==
    /\ packetDocuments(c) # {}
    /\ \/ state[c] = "analyst_review"
       \/ state[c] = "awaiting_approval" /\ approvalsOf(c) = {}

(* Contents not seen before for this decision: a new row.                   *)
assemblePacket(q) ==
    /\ q.at # 0
    /\ packetWith(q.case, contentOf(q)) = {}
    /\ mayAssemble(q.case)
    /\ packets' = [packets EXCEPT ![q.case] =
                      Append(@, [content |-> contentOf(q), at |-> q.at])]
    /\ handed' = [handed EXCEPT ![q.case] = 0]
    /\ state' = [state EXCEPT ![q.case] = "awaiting_approval"]
    /\ assembling' = assembling \ {q}
    /\ UNCHANGED <<job, notice, evidence, deadline, preparer, declined,
                   approvals, writeback, submissions, recovered, declining, clock>>

(* Identical contents are one packet, handed back whatever the state.       *)
handBackPacket(q) ==
    /\ q.at # 0
    /\ packetDocuments(q.case) # {}
    /\ \E i \in packetWith(q.case, contentOf(q)) :
          handed' = [handed EXCEPT ![q.case] = i]
    /\ assembling' = assembling \ {q}
    /\ UNCHANGED <<caseVars, preparer, declined, packets, approvals, writeback,
                   submissions, recovered, declining, clock>>

(* Refused under the lock, or the request died before it.                   *)
assemblyEnds(q) ==
    /\ assembling' = assembling \ {q}
    /\ UNCHANGED <<caseVars, workVars, declining, clock>>

-----------------------------------------------------------------------------
(* Approving.  The person names a packet; it must be the latest.  The       *)
(* database refuses the preparer, a member who is not an approver, and a    *)
(* second approval of the decision.  Ticking alsoWriteback adds the         *)
(* approval of the writeback in the same transaction.                       *)
approve(u, c, i, alsoWriteback) ==
    /\ state[c] = "awaiting_approval"
    /\ i \in latestPacket(c)
    /\ mayApprove(u)
    /\ u # preparer[c]
    /\ approvalsOf(c) = {}
    /\ approvals' = approvals \cup
          {[case |-> c, by |-> u, packet_hash |-> packets[c][i].content]}
    /\ IF alsoWriteback
       THEN /\ writeback[c] = NoUser
            /\ writeback' = [writeback EXCEPT ![c] = u]
       ELSE UNCHANGED writeback
    /\ UNCHANGED <<caseVars, preparer, declined, packets, handed, submissions,
                   recovered, requestVars>>

submissionsOf(c) == {s \in submissions : s.case = c}

(* Mutant: any approval of the case lets any of its packets be filed. *)
AnyApprovalOf(c, i, a) == a.case = c

(* The packet named must be the one the approval named.                     *)
approvalNames(c, i, a) == a.case = c /\ a.packet_hash = packets[c][i].content

(* Mutant: only the channel is asked about, not the state. *)
FileTwice(c, channel) == \A s \in submissionsOf(c) : s.channel # channel

mayFile(c, channel) ==
    /\ \A s \in submissionsOf(c) : s.channel # channel
    /\ state[c] = "awaiting_approval"

recordSubmission(u, c, i, a, channel) ==
    /\ mayWrite(u)
    /\ mayFile(c, channel)
    /\ approvalNames(c, i, a)
    /\ submissions' = submissions \cup
          {[case |-> c, channel |-> channel, packet_hash |-> packets[c][i].content]}
    /\ state' = [state EXCEPT ![c] = "submitted"]
    /\ UNCHANGED <<job, notice, evidence, deadline, preparer, declined, packets,
                   handed, approvals, writeback, recovered, requestVars>>

(* checkRecoveredCents: won is all of it, lost none, partial in between.    *)
checkRecoveredCents(c, outcome, cents) ==
    /\ cents >= 0
    /\ outcome = "lost" => cents = 0
    /\ outcome = "won" => cents = Amount[c]
    /\ outcome = "partial" => 0 < cents /\ cents < Amount[c]

recordOutcome(u, c, outcome, cents) ==
    /\ mayWrite(u)
    /\ state[c] = "submitted"
    /\ checkRecoveredCents(c, outcome, cents)
    /\ recovered' = [recovered EXCEPT ![c] = cents]
    /\ state' = [state EXCEPT ![c] = outcome]
    /\ UNCHANGED <<job, notice, evidence, deadline, preparer, declined, packets,
                   handed, approvals, writeback, submissions, requestVars>>

REMOVABLE_STATES == MERGEABLE_STATES

(* Mutant: one case of the batch speaks for the others. *)
SomeRemovable(batch) == \E c \in batch : state[c] \in REMOVABLE_STATES

(* All of the batch or none of it.                                          *)
allRemovable(batch) == \A c \in batch : state[c] \in REMOVABLE_STATES

removeCases(u, batch) ==
    /\ mayApprove(u)
    /\ batch # {}
    /\ allRemovable(batch)
    /\ state' = [c \in Cases |-> IF c \in batch THEN "removed" ELSE state[c]]
    /\ UNCHANGED <<job, notice, evidence, deadline, workVars, requestVars>>

-----------------------------------------------------------------------------
Opening ==
    \E c \in Cases :
        \/ openCase(c)
        \/ linkNotice(c)
        \/ transitionCase(c)
        \/ jobDies(c)
        \/ \E u \in Users : openManualCase(u, c)

Documents ==
    \E u \in Users, c \in Cases :
        \/ \E d \in Evidence : attachEvidence(u, c, d)
        \/ setDisputeDeadline(u, c)

Deciding ==
    \/ \E u \in Users, c \in Cases : recordHumanDecision(u, c) \/ beginDecline(u, c)
    \/ \E q \in declining : declineCase(q) \/ declineRefused(q)

Assembling ==
    \/ \E u \in Users, c \in Cases : readTerms(u, c)
    \/ \E q \in assembling :
          \/ beginAssembly(q)
          \/ assemblePacket(q)
          \/ handBackPacket(q)
          \/ assemblyEnds(q)

Filing ==
    \E u \in Users, c \in Cases :
        \/ \E i \in DOMAIN packets[c], w \in BOOLEAN : approve(u, c, i, w)
        \/ \E i \in DOMAIN packets[c], a \in approvals, ch \in Channels :
              recordSubmission(u, c, i, a, ch)
        \/ \E outcome \in OUTCOMES, cents \in 0 .. Amount[c] :
              recordOutcome(u, c, outcome, cents)

Removing ==
    \E u \in Users, batch \in SUBSET Cases : removeCases(u, batch)

Next == Opening \/ Documents \/ Deciding \/ Assembling \/ Filing \/ Removing

Spec == Init /\ [][Next]_vars

-----------------------------------------------------------------------------
(* Properties *)

ApprovalRows == [case : Cases, by : Users, packet_hash : Contents]
SubmissionRows == [case : Cases, channel : Channels, packet_hash : Contents]
AssemblyRequests == [case : Cases, terms : SUBSET (Evidence \cup {Notice}),
                     at : Nat]
DeclineRequests == [case : Cases, decided : BOOLEAN, noticed : BOOLEAN]

TypeOK ==
    /\ state \in [Cases -> CASE_STATES \cup {Unopened}]
    /\ job \in [Cases -> JobSteps]
    /\ notice \in [Cases -> {"none", "paper", "typed"}]
    /\ evidence \in [Cases -> SUBSET Evidence]
    /\ deadline \in [Cases -> BOOLEAN]
    /\ preparer \in [Cases -> Users \cup {NoUser}]
    /\ declined \in [Cases -> BOOLEAN]
    /\ packets \in [Cases -> Seq(Packets)]
    /\ handed \in [Cases -> Nat]
    /\ approvals \in SUBSET ApprovalRows
    /\ writeback \in [Cases -> Users \cup {NoUser}]
    /\ submissions \in SUBSET SubmissionRows
    /\ recovered \in [Cases -> Nat]
    /\ assembling \in SUBSET AssemblyRequests
    /\ declining \in SUBSET DeclineRequests
    /\ clock \in Nat

(* Nothing is filed but what a second person approved: every submission      *)
(* carries, byte for byte (by hash), the packet named by an approval of the  *)
(* same case, given by an owner or approver who is not the person who        *)
(* prepared the decision (recordSubmission's hash check, app.require_approval *)
(* and enforce_separation_of_duties together).                               *)
FiledAsApproved ==
    \A s \in submissions :
        \E a \in approvals :
            /\ a.case = s.case
            /\ a.packet_hash = s.packet_hash
            /\ mayApprove(a.by)
            /\ preparer[s.case] \in Users \ {a.by}

(* An approval is never left naming a packet that was replaced: whatever     *)
(* assembly was in flight when it was given, the packet it names is, and     *)
(* stays, the one latestPacket returns (approve and assemblePacket both ask  *)
(* under the case's row lock).                                               *)
ApprovedIsLatest ==
    \A a \in approvals :
        \E i \in latestPacket(a.case) : packets[a.case][i].content = a.packet_hash

(* Fought or declined, never both: no case has both a decision and a decline, *)
(* although declineCase looks for the decision in a snapshot that may be older *)
(* than the row it locks.                                                    *)
FoughtOrDeclined == \A c \in Cases : ~ (declined[c] /\ preparer[c] # NoUser)

(* The state of a case and its rows agree: a decided case is past the        *)
(* decision and one under review or waiting has one, a case waiting or filed *)
(* has a packet, a case is filed iff it has a submission, and it has only    *)
(* one; the money of an outcome is the outcome's.  setState writes the state *)
(* and each handler its rows; no constraint of the database relates them.    *)
StateMatchesRows ==
    \A c \in Cases :
        /\ preparer[c] # NoUser => state[c] \notin {Unopened, "discovered", "classified"}
        /\ state[c] \in {"analyst_review", "awaiting_approval"} => preparer[c] # NoUser
        /\ state[c] \in {"awaiting_approval", "submitted"} => packets[c] # << >>
        /\ state[c] \in {"submitted"} \cup OUTCOMES <=> submissionsOf(c) # {}
        /\ \A s, t \in submissionsOf(c) : s = t
        /\ \A a, b \in approvalsOf(c) : a = b
        /\ recovered[c] = Amount[c] <=> state[c] = "won"
        /\ recovered[c] \in 1 .. Amount[c] - 1 <=> state[c] = "partial"

(* No row of work is written on a case once it is closed (finished, merged   *)
(* away or removed), not even by a request that started before it closed.    *)
ClosedTakesNoWork ==
    [][\A c \in Cases : isClosed(state[c]) =>
          /\ preparer'[c] = preparer[c]
          /\ declined'[c] = declined[c]
          /\ packets'[c] = packets[c]
          /\ deadline'[c] = deadline[c]
          /\ {a \in approvals' : a.case = c} = approvalsOf(c)
          /\ {s \in submissions' : s.case = c} = submissionsOf(c)]_vars

Lifecycle == INSTANCE CaseLifecycle WITH state <- state

(* Every operation moves cases along the edges of the transition table only. *)
FollowsTheTable == Lifecycle!Spec

=============================================================================
