------------------------------ MODULE Posting ------------------------------
(***************************************************************************)
(* A deduction's accounting, posted to QuickBooks under an approval.       *)
(*                                                                         *)
(* Two decisions of a case are posted: the dispute decision (schema B, the *)
(* found posting, approved with the packet) and the settlement (schema S,  *)
(* prepared by one person and approved by another).  An approval is        *)
(* followed, in transactions of their own, by a write-off row, by one      *)
(* writebacks row per QuickBooks entity, and by an event on the queue; a   *)
(* run of the post-writeback job then sends one row, reads it back, and    *)
(* records what became of it.  A failed or stuck row is retried when a     *)
(* person asks, and a settlement whose posting never left is voided.       *)
(*                                                                         *)
(* A transaction of packages/store-postgres/src/posting.ts is one action.  *)
(* A run of packages/pipeline/src/posting-job.ts is split at every await   *)
(* of QuickBooks or of the store, and a void at the read of QuickBooks     *)
(* between its two checks.  A request that is refused leaves the database  *)
(* as it was: it is a stutter, or the end of the request.                  *)
(*                                                                         *)
(* Left out: amounts, accounts and journal lines; the posting switch, the  *)
(* deployment's setting, the caller's membership and the sealed token, any *)
(* of which may refuse a request or a run at any time (JobRefused).  One   *)
(* connection is modelled: postingForCase answers none where there are two.*)
(*                                                                         *)
(* QuickBooks itself is modelled by how the code uses it: it keeps what it *)
(* accepts, answers a repeated request id with the entity it already made  *)
(* (if it does: ADR 0060 leaves that to a run in the sandbox), finds       *)
(* entities by the reference stamped on them, and may reject, fail or lose *)
(* its answer.                                                             *)
(***************************************************************************)
EXTENDS Naturals, Sequences, FiniteSets

CONSTANTS
    Cases,         \* deductions
    Users,         \* members of the one organisation modelled
    Approvers,     \* those whose role is owner or approver
    Outcomes,      \* the settlement outcomes people choose from
    MaxDecisions,  \* bound: decisions begun in a behaviour
    MaxAsks,       \* bound: retries people ask for, per writeback
    MaxVoids,      \* bound: voids in flight at once
    LateRequests,  \* whether QuickBooks may act after the sender gave up
    MayDie,        \* whether a worker or a request may die between two steps
    Remembers      \* whether QuickBooks answers a request id it has seen with what it made

SETTLEMENT_OUTCOMES == {"won", "partial", "lost", "declined"}
WRITEBACK_METHODS == {"journal_entry", "payment_application"}
NOTHING_SENT_REASONS ==
    {"no_invoice", "invoice_not_found", "invoice_lookup_failed", "build_failed", "lines_changed"}

\* The five reasons of NOTHING_SENT_REASONS are told apart by nobody: one stands for them.
NotSentReason == "invoice_lookup_failed"
Reasons == {NotSentReason, "readback_failed", "ambiguous_reference", "readback_mismatch",
            "send_failed", "unknown_outcome", "found_on_retry", "sent"}

ASSUME PeopleAssumption == Approvers \subseteq Users
ASSUME OutcomeAssumption == Outcomes \subseteq SETTLEMENT_OUTCOMES
ASSUME PostingBounds ==
    /\ MaxDecisions \in Nat /\ MaxAsks \in Nat /\ MaxVoids \in Nat
    /\ {LateRequests, MayDie, Remembers} \subseteq BOOLEAN

VARIABLES
    facts,     \* decisions begun, in the order of created_at (their transactions' start)
    decisions, \* those whose row is committed
    approvals, \* approvals rows with action_type writeback: decision and approver
    settling,  \* how far the request that approved a decision has got
    writeoffs, \* decisions with a writeoffs row
    row,       \* writebacks.status of each decision and method, or "none"
    txn,       \* writebacks.qbo_txn_id, 0 for null
    attempts,  \* the reasons of the writeback.attempted events of each row
    voided,    \* decisions with a settlement.posting_voided event
    asks,      \* retries asked for so far
    queue,     \* events sent to the queue and not yet run
    jobs,      \* runs of the job in progress
    voids,     \* voids in progress: what was asked and what is left to look for
    entries,   \* what QuickBooks holds, in the order it was made
    wire       \* requests QuickBooks may still act on, their sender gone

vars == <<facts, decisions, approvals, settling, writeoffs, row, txn, attempts, voided,
          asks, queue, jobs, voids, entries, wire>>

Stamps == 1..MaxDecisions
Writebacks == Stamps \X WRITEBACK_METHODS
Entry(d) == <<d, "journal_entry">>
Payment(d) == <<d, "payment_application">>

Fact == [case : Cases, schema : {"B"}, by : Users, outcome : {"none"}]
        \cup [case : Cases, schema : {"S"}, by : Users, outcome : Outcomes]
Request == [wb : Writebacks, id : Writebacks \X Nat]
Event == [wb : Writebacks, retry : BOOLEAN, key : 0..MaxAsks]
Step == {"invoice", "find", "send", "read_back", "record"}
Job == [event : Event, step : Step, txn : Nat, status : {"none", "failed", "succeeded"},
        reason : Reasons \cup {"none"}]

TypeOK ==
    /\ facts \in Seq(Fact) /\ Len(facts) <= MaxDecisions
    /\ decisions \subseteq DOMAIN facts
    /\ approvals \subseteq [decision : Stamps, by : Approvers]
    /\ settling \in [Stamps -> {"idle", "writeoff", "entry", "payment", "queue", "over"}]
    /\ writeoffs \subseteq Stamps
    /\ row \in [Writebacks -> {"none", "pending", "failed", "succeeded"}]
    /\ txn \in [Writebacks -> 0..Len(entries)]
    /\ attempts \in [Writebacks -> SUBSET Reasons]
    /\ voided \subseteq Stamps
    /\ asks \in [Writebacks -> 0..MaxAsks]
    /\ queue \subseteq Event
    /\ jobs \subseteq Job
    /\ voids \subseteq [decision : Stamps, rows : SUBSET Writebacks, left : SUBSET Writebacks]
    /\ entries \in Seq(Request)
    /\ wire \subseteq Request

Init ==
    /\ facts = << >> /\ decisions = {} /\ approvals = {}
    /\ settling = [d \in Stamps |-> "idle"]
    /\ writeoffs = {}
    /\ row = [w \in Writebacks |-> "none"]
    /\ txn = [w \in Writebacks |-> 0]
    /\ attempts = [w \in Writebacks |-> {}]
    /\ voided = {}
    /\ asks = [w \in Writebacks |-> 0]
    /\ queue = {} /\ jobs = {} /\ voids = {} /\ entries = << >> /\ wire = {}

-----------------------------------------------------------------------------
(* Decisions and their approval *)

approved(d) == \E a \in approvals : a.decision = d
settlements(c) == {d \in decisions : facts[d].case = c /\ facts[d].schema = "S"}
\* The settlement that stands: approved, and its posting not voided.
live(d) == approved(d) /\ d \notin voided
\* select ... order by created_at desc limit 1
isLatest(d) == \A e \in settlements(facts[d].case) : e <= d
withPayment(d) == facts[d].schema = "B" \/ facts[d].outcome = "declined"
\* Whether the drafted entry debits a write-off account: nothing is written off when all is won.
expenseDebit(d) == facts[d].schema = "S" /\ facts[d].outcome # "won"

\* A prepare has read the chart and the invoice and begins its transaction, whose start is
\* the decision's created_at; it then waits for the case's row lock.
BeginSettlement(c, u, o) ==
    /\ Len(facts) < MaxDecisions
    /\ facts' = Append(facts, [case |-> c, schema |-> "S", by |-> u, outcome |-> o])
    /\ UNCHANGED <<decisions, approvals, settling, writeoffs, row, txn, attempts, voided, asks,
                   queue, jobs, voids, entries, wire>>

\* Mutant: the check that no settlement stands is dropped.
PrepareOverLive(d) == TRUE

mayPrepare(d) == \A e \in settlements(facts[d].case) : ~live(e)

PrepareSettlement(d) ==
    /\ d \in DOMAIN facts \ decisions
    /\ facts[d].schema = "S"
    /\ mayPrepare(d)
    /\ decisions' = decisions \cup {d}
    /\ UNCHANGED <<facts, approvals, settling, writeoffs, row, txn, attempts, voided, asks,
                   queue, jobs, voids, entries, wire>>

\* Mutant: any settlement of the case may be approved, superseded or not.
ApproveSuperseded(d, u) == u \in Approvers \ {facts[d].by} /\ ~approved(d)

\* Mutant: separation of duties is not enforced.
ApproveOwn(d, u) == u \in Approvers /\ ~approved(d) /\ isLatest(d)

mayApprove(d, u) ==
    /\ u \in Approvers \ {facts[d].by}
    /\ ~approved(d)
    /\ isLatest(d)

ApproveSettlement(d, u) ==
    /\ d \in decisions /\ facts[d].schema = "S"
    /\ mayApprove(d, u)
    /\ approvals' = approvals \cup {[decision |-> d, by |-> u]}
    /\ settling' = [settling EXCEPT ![d] = IF expenseDebit(d) THEN "writeoff" ELSE "entry"]
    /\ UNCHANGED <<facts, decisions, writeoffs, row, txn, attempts, voided, asks, queue, jobs,
                   voids, entries, wire>>

\* The dispute is approved, and the found posting with it; a case is decided once.
ApproveDispute(c, p, u) ==
    LET d == Len(facts) + 1 IN
    /\ d <= MaxDecisions
    /\ \A e \in DOMAIN facts : ~(facts[e].case = c /\ facts[e].schema = "B")
    /\ u \in Approvers \ {p}
    /\ facts' = Append(facts, [case |-> c, schema |-> "B", by |-> p, outcome |-> "none"])
    /\ decisions' = decisions \cup {d}
    /\ approvals' = approvals \cup {[decision |-> d, by |-> u]}
    /\ settling' = [settling EXCEPT ![d] = "entry"]
    /\ UNCHANGED <<writeoffs, row, txn, attempts, voided, asks, queue, jobs, voids, entries, wire>>

-----------------------------------------------------------------------------
(* The rest of the approving request: the rows, then the queue *)

InsertWriteoff(d) ==
    /\ settling[d] = "writeoff"
    /\ writeoffs' = writeoffs \cup {d}
    /\ settling' = [settling EXCEPT ![d] = "entry"]
    /\ UNCHANGED <<facts, decisions, approvals, row, txn, attempts, voided, asks, queue, jobs,
                   voids, entries, wire>>

\* insertWriteback: the row is pending, its request id its own id.
InsertWriteback(d, w, next) ==
    /\ approved(d)
    /\ row[w] = "none"
    /\ row' = [row EXCEPT ![w] = "pending"]
    /\ settling' = [settling EXCEPT ![d] = next]
    /\ UNCHANGED <<facts, decisions, approvals, writeoffs, txn, attempts, voided, asks, queue,
                   jobs, voids, entries, wire>>

InsertEntry(d) ==
    /\ settling[d] = "entry"
    /\ InsertWriteback(d, Entry(d), IF withPayment(d) THEN "payment" ELSE "queue")

InsertPayment(d) ==
    /\ settling[d] = "payment"
    /\ InsertWriteback(d, Payment(d), "queue")

\* queueWriteback of the entry, its sendKey the row's id; a payment is first sent by a retry.
QueueFirst(d) ==
    /\ settling[d] = "queue"
    /\ settling' = [settling EXCEPT ![d] = "over"]
    /\ queue' \in {queue, queue \cup {[wb |-> Entry(d), retry |-> FALSE, key |-> 0]}}
    /\ UNCHANGED <<facts, decisions, approvals, writeoffs, row, txn, attempts, voided, asks,
                   jobs, voids, entries, wire>>

\* The request dies, or the database refuses it: what was committed stays.
RequestDies(d) ==
    /\ MayDie
    /\ settling[d] \notin {"idle", "over"}
    /\ settling' = [settling EXCEPT ![d] = "over"]
    /\ UNCHANGED <<facts, decisions, approvals, writeoffs, row, txn, attempts, voided, asks,
                   queue, jobs, voids, entries, wire>>

mayRequeue(w) == row[w] \in {"pending", "failed"} /\ w[1] \notin voided

\* "Check QuickBooks and retry": a failed row goes back to pending, a pending one is queued as
\* it is; the event carries a key of its own.  The queue may refuse the event.
RetryWriteback(w) ==
    /\ mayRequeue(w)
    /\ asks[w] < MaxAsks
    /\ row' = [row EXCEPT ![w] = "pending"]
    /\ asks' = [asks EXCEPT ![w] = @ + 1]
    /\ queue' \in {queue, queue \cup {[wb |-> w, retry |-> TRUE, key |-> asks[w] + 1]}}
    /\ UNCHANGED <<facts, decisions, approvals, settling, writeoffs, txn, attempts, voided,
                   jobs, voids, entries, wire>>

-----------------------------------------------------------------------------
(* The job: one run per event, one run at a time per connection *)

\* concurrency: limit 1 per connection.
slotFree == jobs = {}

\* Mutant: a payment does not wait for its entry.
PaymentAnyTime(w) == TRUE

entryVerified(w) == w[2] = "payment_application" => row[Entry(w[1])] = "succeeded"

\* What the job reads of the row before it does anything.
mayPost(w) == row[w] = "pending" /\ w[1] \notin voided /\ entryVerified(w)

StartJob(e) ==
    /\ e \in queue /\ slotFree
    /\ mayPost(e.wb)
    /\ queue' = queue \ {e}
    /\ jobs' = jobs \cup {[event |-> e, step |-> "invoice", txn |-> 0, status |-> "none",
                           reason |-> "none"]}
    /\ UNCHANGED <<facts, decisions, approvals, settling, writeoffs, row, txn, attempts, voided,
                   asks, voids, entries, wire>>

\* A refusal records nothing: the row is not one to post, or posting is off, the member gone.
JobRefused(e) ==
    /\ e \in queue /\ slotFree
    /\ queue' = queue \ {e}
    /\ UNCHANGED <<facts, decisions, approvals, settling, writeoffs, row, txn, attempts, voided,
                   asks, jobs, voids, entries, wire>>

became(j, k) == jobs' = (jobs \ {j}) \cup {k}
\* The run has its answer and is about to record it.
ends(j, status, reason, id) ==
    became(j, [j EXCEPT !.step = "record", !.status = status, !.reason = reason, !.txn = id])
rowsUnchanged == UNCHANGED <<facts, decisions, approvals, settling, writeoffs, row, txn,
                             attempts, voided, asks, queue, voids>>

\* The invoice is looked up and the entry built, or the run ends with nothing sent.
firstCall(j) == IF j.event.retry THEN "find" ELSE "send"

BuildPosting(j) ==
    /\ j.step = "invoice"
    /\ \/ ends(j, "failed", NotSentReason, 0)
       \/ became(j, [j EXCEPT !.step = firstCall(j)])
    /\ rowsUnchanged /\ UNCHANGED <<entries, wire>>

\* Mutant: a payment is looked for by the reference of its entry.
EntryReference(w) == Entry(w[1])

\* The reference stamped on what a row posts is made from the row's id.
postingReference(w) == w

\* QuickBooks: the entities that carry a reference, by their ids.
findByReference(ref) == {i \in DOMAIN entries : entries[i].wb = ref}

FindByReference(j) ==
    LET found == findByReference(postingReference(j.event.wb)) IN
    /\ j.step = "find"
    /\ \/ ends(j, "failed", "readback_failed", 0)
       \/ Cardinality(found) > 1 /\ ends(j, "failed", "ambiguous_reference", 0)
       \/ \E i \in found : /\ Cardinality(found) = 1
                           /\ \/ ends(j, "succeeded", "found_on_retry", i)
                              \/ ends(j, "failed", "readback_mismatch", 0)
       \/ found = {} /\ became(j, [j EXCEPT !.step = "send"])
    /\ rowsUnchanged /\ UNCHANGED <<entries, wire>>

\* Mutant: each send takes a fresh request id.
FreshRequestId(j) == <<j.event.wb, j.event.key + 1>>

\* The request id of every send of a row is the row's own id.
requestId(j) == <<j.event.wb, 0>>

\* QuickBooks: a request whose id it has seen makes nothing new.
seen(r) == Remembers /\ \E i \in DOMAIN entries : entries[i].id = r.id
accept(r) == IF seen(r) THEN entries ELSE Append(entries, r)

\* client.post: answered; rejected with a 4xx; or no answer, and the request was acted on,
\* lost, or is still on its way.
Post(j) ==
    LET r == [wb |-> j.event.wb, id |-> requestId(j)] IN
    /\ j.step = "send"
    /\ \/ /\ entries' = accept(r) /\ UNCHANGED wire
          /\ \E i \in DOMAIN entries' :
                /\ entries'[i].id = r.id
                /\ became(j, [j EXCEPT !.step = "read_back", !.txn = i])
       \/ ends(j, "failed", "send_failed", 0) /\ UNCHANGED <<entries, wire>>
       \/ /\ ends(j, "failed", "unknown_outcome", 0)
          /\ \/ entries' \in {entries, accept(r)} /\ UNCHANGED wire
             \/ LateRequests /\ wire' = wire \cup {r} /\ UNCHANGED entries
    /\ rowsUnchanged

\* client.getById, then verifyReadBack: only a match succeeds.
ReadBack(j) ==
    /\ j.step = "read_back"
    /\ \/ ends(j, "failed", "readback_failed", 0)
       \/ ends(j, "failed", "readback_mismatch", 0)
       \/ ends(j, "succeeded", "sent", j.txn)
    /\ rowsUnchanged /\ UNCHANGED <<entries, wire>>

\* recordWritebackAttempt: the event and the row, in one transaction, which the database
\* refuses when it would undo a success; the id is written once.
RecordAttempt(j) ==
    LET w == j.event.wb IN
    /\ j.step = "record"
    /\ jobs' = jobs \ {j}
    /\ IF row[w] = "succeeded" /\ j.status = "failed"
       THEN UNCHANGED <<row, txn, attempts>>
       ELSE /\ row' = [row EXCEPT ![w] = j.status]
            /\ txn' = [txn EXCEPT ![w] = IF @ = 0 THEN j.txn ELSE @]
            /\ attempts' = [attempts EXCEPT ![w] = @ \cup {j.reason}]
    /\ UNCHANGED <<facts, decisions, approvals, settling, writeoffs, voided, asks, queue, voids,
                   entries, wire>>

\* The worker is killed; retries is 0, so the event is not run again.
JobDies(j) ==
    /\ MayDie
    /\ j \in jobs
    /\ jobs' = jobs \ {j}
    /\ rowsUnchanged /\ UNCHANGED <<entries, wire>>

\* QuickBooks acts on a request its sender gave up on.
LateAccept(r) ==
    /\ r \in wire
    /\ wire' = wire \ {r}
    /\ entries' = accept(r)
    /\ rowsUnchanged /\ UNCHANGED jobs

-----------------------------------------------------------------------------
(* Voiding a settlement whose posting never left *)

rowsOf(d) == {w \in {Entry(d), Payment(d)} : row[w] # "none"}
nothingWasSent(reasons) == reasons # {} /\ reasons \subseteq NOTHING_SENT_REASONS

\* check: approved, not voided, nothing succeeded, the entry failed, and every recorded
\* attempt ended before the send.
mayVoid(d) ==
    /\ d \in decisions /\ facts[d].schema = "S"
    /\ live(d)
    /\ \A w \in rowsOf(d) : row[w] # "succeeded"
    /\ row[Entry(d)] = "failed"
    /\ nothingWasSent(attempts[Entry(d)])
    /\ attempts[Payment(d)] = {} \/ nothingWasSent(attempts[Payment(d)])

BeginVoid(d) ==
    /\ Cardinality(voids) < MaxVoids
    /\ mayVoid(d)
    /\ voids' = voids \cup {[decision |-> d, rows |-> rowsOf(d), left |-> rowsOf(d)]}
    /\ UNCHANGED <<facts, decisions, approvals, settling, writeoffs, row, txn, attempts, voided,
                   asks, queue, jobs, entries, wire>>

\* ledgerHoldsNothing asks QuickBooks for one row after another.
LookForRow(v, w) ==
    /\ w \in v.left
    /\ findByReference(postingReference(w)) = {}
    /\ voids' = (voids \ {v}) \cup {[v EXCEPT !.left = @ \ {w}]}
    /\ UNCHANGED <<facts, decisions, approvals, settling, writeoffs, row, txn, attempts, voided,
                   asks, queue, jobs, entries, wire>>

\* Mutant: what was checked before QuickBooks was read is not checked again.
CheckedOnce(v) == TRUE

\* The second check, under the locks.
stillVoidable(v) == mayVoid(v.decision) /\ rowsOf(v.decision) = v.rows

VoidSettlementPosting(v) ==
    /\ v.left = {}
    /\ stillVoidable(v)
    /\ voided' = voided \cup {v.decision}
    /\ voids' = voids \ {v}
    /\ UNCHANGED <<facts, decisions, approvals, settling, writeoffs, row, txn, attempts, asks,
                   queue, jobs, entries, wire>>

\* The void is refused by a check, by what QuickBooks holds or because it cannot be read.
VoidRefused(v) ==
    /\ v \in voids
    /\ voids' = voids \ {v}
    /\ UNCHANGED <<facts, decisions, approvals, settling, writeoffs, row, txn, attempts, voided,
                   asks, queue, jobs, entries, wire>>

-----------------------------------------------------------------------------
Prepare == \/ \E c \in Cases, u \in Users, o \in Outcomes : BeginSettlement(c, u, o)
           \/ \E d \in DOMAIN facts : PrepareSettlement(d)

Approve == \/ \E d \in decisions, u \in Users : ApproveSettlement(d, u)
           \/ \E c \in Cases, p \in Users, u \in Approvers : ApproveDispute(c, p, u)

Settle == \E d \in Stamps :
    \/ InsertWriteoff(d) \/ InsertEntry(d) \/ InsertPayment(d) \/ QueueFirst(d)
    \/ RequestDies(d)

Run == \/ \E e \in queue : StartJob(e) \/ JobRefused(e)
       \/ \E j \in jobs : \/ BuildPosting(j) \/ FindByReference(j) \/ Post(j) \/ ReadBack(j)
                          \/ RecordAttempt(j) \/ JobDies(j)
       \/ \E r \in wire : LateAccept(r)

Void == \/ \E d \in decisions : BeginVoid(d)
        \/ \E v \in voids : \/ \E w \in v.left : LookForRow(v, w)
                            \/ VoidSettlementPosting(v) \/ VoidRefused(v)

Next == \/ Prepare \/ Approve \/ Settle \/ Run \/ Void
        \/ \E w \in Writebacks : RetryWriteback(w)

Spec == Init /\ [][Next]_vars

-----------------------------------------------------------------------------
(* Properties *)

inLedger(d) == findByReference(Entry(d)) \cup findByReference(Payment(d)) # {}

\* A row is in the books at most once, however often it is sent: the request id a retry
\* carries is the one of the first send, whatever became of that (posting-job.ts, post).
PostedAtMostOnce ==
    \A w \in Writebacks : Cardinality(findByReference(w)) <= 1

\* A settlement that stands is the case's latest: nothing newer is prepared over it, and no
\* other is approved beside it, in whatever order transactions begin and get the row lock.
LiveSettlementIsLatest ==
    \A d \in decisions : facts[d].schema = "S" /\ live(d) => isLatest(d)

\* What QuickBooks holds or may yet make was approved by a second person.
PostedIsApproved ==
    \A r \in {entries[i] : i \in DOMAIN entries} \cup wire :
        \E a \in approvals : a.decision = r.wb[1] /\ a.by # facts[r.wb[1]].by

\* A row that succeeded names an entity QuickBooks holds, and that entity is its own.
SucceededIsInLedger ==
    \A w \in Writebacks : row[w] = "succeeded" =>
        txn[w] \in DOMAIN entries /\ entries[txn[w]].wb = w

\* A zero payment is in the books only once the entry it applies is verified there.
PaymentFollowsEntry ==
    \A d \in Stamps : findByReference(Payment(d)) # {} => row[Entry(d)] = "succeeded"

\* A voided settlement is not in the books, and never gets there (voidSettlementPosting).
VoidedHoldsNothing == \A d \in voided : ~inLedger(d)

\* A case is settled in the books once: of its settlements, at most one was ever posted.
SettledOnceInTheBooks ==
    \A c \in Cases : Cardinality({d \in settlements(c) : inLedger(d)}) <= 1
=============================================================================
