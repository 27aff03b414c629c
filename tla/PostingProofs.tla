--------------------------- MODULE PostingProofs ---------------------------
(***************************************************************************)
(* Which settlement of a case stands, and what reaches the books, for any  *)
(* number of cases, people, decisions and retries.                         *)
(*                                                                         *)
(* LiveSettlementIsLatest is inductive once an approval is known to name a *)
(* committed decision: a prepare that gets the lock late must not add a    *)
(* decision that was approved before it existed.                           *)
(*                                                                         *)
(* PostInv follows a posting from its approval through the row, the event, *)
(* the run and the request into QuickBooks.  SentInv, which needs workers  *)
(* that live to record what they did, adds that nothing is sent without a  *)
(* trace a void would see.                                                 *)
(***************************************************************************)
EXTENDS Posting, FiniteSetTheorems, TLAPS

\* Committed decisions are among those begun, and what is approved is committed.
ApprovedIsCommitted ==
    /\ facts \in Seq(Fact)
    /\ decisions \subseteq DOMAIN facts
    /\ \A a \in approvals : a.decision \in decisions

IInv == ApprovedIsCommitted /\ LiveSettlementIsLatest

\* Nothing of the rows, the queue, the job or a void disturbs the invariant: they leave the
\* decisions and their approvals alone, and a void only takes a settlement out.
LEMMA RestOfTheSystem ==
  ASSUME IInv, UNCHANGED <<facts, decisions, approvals>>, voided \subseteq voided'
  PROVE  IInv'
BY DEF IInv, ApprovedIsCommitted, LiveSettlementIsLatest, live, approved, isLatest, settlements

\* Appending a fact leaves the earlier ones as they were.
LEMMA FactsAppended ==
  ASSUME facts \in Seq(Fact), NEW f \in Fact, facts' = Append(facts, f)
  PROVE  /\ facts' \in Seq(Fact) /\ Len(facts') = Len(facts) + 1
         /\ DOMAIN facts \subseteq DOMAIN facts'
         /\ Len(facts) + 1 \in DOMAIN facts'
         /\ Len(facts) + 1 \notin DOMAIN facts
         /\ facts'[Len(facts) + 1] = f
         /\ \A d \in DOMAIN facts : facts'[d] = facts[d]
<1>1. /\ facts' \in Seq(Fact) /\ Len(facts') = Len(facts) + 1 /\ Len(facts) \in Nat
      /\ DOMAIN facts' = 1..Len(facts') /\ DOMAIN facts = 1..Len(facts)
  OBVIOUS
<1>2. facts'[Len(facts) + 1] = f
  OBVIOUS
<1>3. \A d \in DOMAIN facts : facts'[d] = facts[d]
  OBVIOUS
<1> QED
  BY <1>1, <1>2, <1>3

\* A settlement's transaction begins: the decision is not a row yet.
LEMMA BeginKeeps ==
  ASSUME IInv, NEW c \in Cases, NEW u \in Users, NEW o \in Outcomes, BeginSettlement(c, u, o)
  PROVE  IInv'
<1> DEFINE f == [case |-> c, schema |-> "S", by |-> u, outcome |-> o]
<1>1. f \in Fact
  BY DEF Fact
<1>2. facts' = Append(facts, f) /\ UNCHANGED <<decisions, approvals, voided>>
  BY DEF BeginSettlement
<1> HIDE DEF f
<1>3. /\ facts' \in Seq(Fact) /\ DOMAIN facts \subseteq DOMAIN facts'
      /\ \A d \in DOMAIN facts : facts'[d] = facts[d]
  BY <1>1, <1>2, FactsAppended DEF IInv, ApprovedIsCommitted
<1> QED
  BY <1>2, <1>3 DEF IInv, ApprovedIsCommitted, LiveSettlementIsLatest, live, approved, isLatest,
                    settlements

\* A prepared settlement is new to its case, where none stands.
LEMMA PrepareKeeps ==
  ASSUME IInv, NEW d \in DOMAIN facts, PrepareSettlement(d)
  PROVE  IInv'
<1>1. /\ d \notin decisions /\ mayPrepare(d) /\ decisions' = decisions \cup {d}
      /\ UNCHANGED <<facts, approvals, voided>>
  BY DEF PrepareSettlement
<1>2. ApprovedIsCommitted'
  BY <1>1 DEF IInv, ApprovedIsCommitted
<1>3. LiveSettlementIsLatest'
  <2> SUFFICES ASSUME NEW e \in decisions', (facts[e].schema = "S" /\ live(e))'
               PROVE  isLatest(e)'
    BY DEF LiveSettlementIsLatest
  <2>1. live(e) /\ facts[e].schema = "S"
    BY <1>1 DEF live, approved
  <2>2. e \in decisions
    BY <2>1 DEF live, approved, IInv, ApprovedIsCommitted
  <2>3. isLatest(e)
    BY <2>1, <2>2 DEF IInv, LiveSettlementIsLatest
  <2>4. facts[e].case # facts[d].case
    BY <1>1, <2>1, <2>2 DEF mayPrepare, settlements
  <2> QED
    BY <1>1, <2>3, <2>4 DEF isLatest, settlements
<1> QED
  BY <1>2, <1>3 DEF IInv

\* What is approved is the latest settlement of its case at that moment.
LEMMA ApproveKeeps ==
  ASSUME IInv, NEW d \in decisions, NEW u \in Users, ApproveSettlement(d, u)
  PROVE  IInv'
<1>1. /\ isLatest(d) /\ approvals' = approvals \cup {[decision |-> d, by |-> u]}
      /\ UNCHANGED <<facts, decisions, voided>>
  BY DEF ApproveSettlement, mayApprove
<1>2. ApprovedIsCommitted'
  BY <1>1 DEF IInv, ApprovedIsCommitted
<1>3. \A e : live(e)' => live(e) \/ e = d
  BY <1>1 DEF live, approved
<1>4. LiveSettlementIsLatest'
  BY <1>1, <1>3 DEF IInv, LiveSettlementIsLatest, isLatest, settlements
<1> QED
  BY <1>2, <1>4 DEF IInv

\* A dispute is no settlement, and its decision is new.
LEMMA DisputeKeeps ==
  ASSUME IInv, NEW c \in Cases, NEW p \in Users, NEW u \in Approvers, ApproveDispute(c, p, u)
  PROVE  IInv'
<1> DEFINE n == Len(facts) + 1
           f == [case |-> c, schema |-> "B", by |-> p, outcome |-> "none"]
<1>1. f \in Fact /\ f.schema = "B"
  BY DEF Fact
<1>2. /\ facts' = Append(facts, f)
      /\ decisions' = decisions \cup {n}
      /\ approvals' = approvals \cup {[decision |-> n, by |-> u]}
      /\ UNCHANGED voided
  BY DEF ApproveDispute
<1> HIDE DEF f
<1>3. /\ facts' \in Seq(Fact) /\ DOMAIN facts \subseteq DOMAIN facts'
      /\ n \in DOMAIN facts' /\ n \notin DOMAIN facts /\ facts'[n] = f
      /\ \A d \in DOMAIN facts : facts'[d] = facts[d]
  BY <1>1, <1>2, FactsAppended DEF IInv, ApprovedIsCommitted
<1> HIDE DEF n
<1>4. ApprovedIsCommitted'
  BY <1>2, <1>3 DEF IInv, ApprovedIsCommitted
<1>5. LiveSettlementIsLatest'
  <2> SUFFICES ASSUME NEW e \in decisions', (facts[e].schema = "S" /\ live(e))'
               PROVE  isLatest(e)'
    BY DEF LiveSettlementIsLatest
  <2>1. e # n
    BY <1>1, <1>3
  <2>2. e \in decisions /\ e \in DOMAIN facts /\ live(e) /\ facts[e].schema = "S"
    BY <1>2, <1>3, <2>1 DEF live, approved, IInv, ApprovedIsCommitted
  <2>3. isLatest(e)
    BY <2>2 DEF IInv, LiveSettlementIsLatest
  <2>4. \A x \in settlements(facts[e].case)' : x \in settlements(facts[e].case)
    BY <1>1, <1>2, <1>3, <2>2 DEF settlements, IInv, ApprovedIsCommitted
  <2> QED
    BY <1>3, <2>2, <2>3, <2>4 DEF isLatest
<1> QED
  BY <1>4, <1>5 DEF IInv

\* The request after the approval, the retry, the job and the void leave the decisions alone.
LEMMA OthersKeep ==
  ASSUME IInv, Settle \/ Run \/ Void \/ \E w \in Writebacks : RetryWriteback(w)
  PROVE  IInv'
<1>1. CASE Settle
  BY <1>1, RestOfTheSystem DEF Settle, InsertWriteoff, InsertEntry, InsertPayment,
     InsertWriteback, QueueFirst, RequestDies
<1>2. CASE Run
  <2>1. UNCHANGED <<facts, decisions, approvals>> /\ voided' = voided
    BY <1>2 DEF Run, StartJob, JobRefused, BuildPosting, FindByReference, Post, ReadBack,
       RecordAttempt, JobDies, LateAccept, rowsUnchanged
  <2> QED
    BY <2>1, RestOfTheSystem
<1>3. CASE Void
  BY <1>3, RestOfTheSystem DEF Void, BeginVoid, LookForRow, VoidSettlementPosting, VoidRefused
<1>4. CASE \E w \in Writebacks : RetryWriteback(w)
  BY <1>4, RestOfTheSystem DEF RetryWriteback
<1> QED
  BY <1>1, <1>2, <1>3, <1>4

\* The invariant behind LiveIsLatest.
THEOREM StandingInvariance == Spec => []IInv
<1>1. Init => IInv
  BY DEF Init, IInv, ApprovedIsCommitted, LiveSettlementIsLatest
<1>2. IInv /\ [Next]_vars => IInv'
  <2> SUFFICES ASSUME IInv, [Next]_vars PROVE IInv'
    OBVIOUS
  <2>1. CASE UNCHANGED vars
    BY <2>1, RestOfTheSystem DEF vars
  <2>2. CASE Prepare
    BY <2>2, BeginKeeps, PrepareKeeps DEF Prepare
  <2>3. CASE Approve
    BY <2>3, ApproveKeeps, DisputeKeeps DEF Approve
  <2> QED
    BY <2>1, <2>2, <2>3, OthersKeep DEF Next
<1> QED
  BY <1>1, <1>2, PTL DEF Spec

\* A settlement that stands is the latest of its case (prepareSettlementDecision and
\* approveSettlement, under the case's row lock), for every value of the constants.
THEOREM LiveIsLatest == Spec => []LiveSettlementIsLatest
BY StandingInvariance, PTL DEF IInv

\* Two settlements of one case never stand together: the books are settled by one of them.
LEMMA OneStands ==
  ASSUME IInv, NEW d \in decisions, NEW e \in decisions, live(d), live(e),
         facts[d].schema = "S", facts[e].schema = "S", facts[d].case = facts[e].case
  PROVE  d = e
<1>1. d \in Nat /\ e \in Nat
  BY DEF IInv, ApprovedIsCommitted
<1>2. e <= d /\ d <= e
  BY DEF IInv, LiveSettlementIsLatest, isLatest, settlements
<1> QED
  BY <1>1, <1>2

-----------------------------------------------------------------------------
(***************************************************************************)
(* What reaches the books.  The chain from an approval to an entity in     *)
(* QuickBooks runs through a row, an event, a run of the job and a request *)
(* on the wire; PostInv says of each link what the next one relies on.     *)
(***************************************************************************)

\* What QuickBooks made, and what it may still act on.
Requests == {entries[i] : i \in DOMAIN entries} \cup wire

holds(i, w) == i \in DOMAIN entries /\ entries[i].wb = w

\* Separation of duties, kept by every approval.
ApprovalSound(a) == a.decision \in decisions /\ a.by # facts[a.decision].by

\* The id a run has to record is of an entity of its own row.
Knows(j) ==
    /\ j.step = "read_back" => holds(j.txn, j.event.wb)
    /\ j.step = "record" =>
          /\ j.reason \in Reasons
          /\ \/ j.status = "failed" /\ j.txn = 0
             \/ j.status = "succeeded" /\ holds(j.txn, j.event.wb)

\* A run is at work on a pending row, after its entry if it is a payment's.
JobSound(j) ==
    /\ row[j.event.wb] = "pending"
    /\ entryVerified(j.event.wb)
    /\ j.event.wb[1] \notin voided
    /\ Knows(j)

\* A request carries the id of its row, which is there, and after its entry if a payment's.
RequestSound(r) == r.id = <<r.wb, 0>> /\ row[r.wb] # "none" /\ entryVerified(r.wb)

\* A row is of an approved decision, and the id it keeps is of an entity of its own.
RowSound(w) ==
    /\ row[w] # "none" => approved(w[1])
    /\ row[w] = "succeeded" => txn[w] # 0
    /\ txn[w] # 0 => holds(txn[w], w)

\* One run at a time, and each link sound.
Linked ==
    /\ \A j, k \in jobs : j = k
    /\ \A j \in jobs : JobSound(j)
    /\ \A r \in Requests : RequestSound(r)
    /\ \A w \in Writebacks : RowSound(w)

PostInv == TypeOK /\ (\A a \in approvals : ApprovalSound(a)) /\ Linked

USE DEF WRITEBACK_METHODS

\* The two rows of a decision.
LEMMA RowType ==
  ASSUME NEW d \in Stamps
  PROVE  /\ Entry(d) \in Writebacks /\ Payment(d) \in Writebacks
         /\ Entry(d)[1] = d /\ Payment(d)[1] = d /\ Entry(d) # Payment(d)
         /\ Entry(d)[2] = "journal_entry" /\ Payment(d)[2] = "payment_application"
BY DEF Entry, Payment, Writebacks

\* A row is its decision's entry or its payment.
LEMMA RowIs ==
  ASSUME NEW w \in Writebacks
  PROVE  w[1] \in Stamps /\ (w = Entry(w[1]) \/ w = Payment(w[1]))
BY DEF Entry, Payment, Writebacks

\* The parts of a run, a request and an event.
LEMMA JobParts ==
  ASSUME NEW j \in Job
  PROVE  /\ j.event \in Event /\ j.event.wb \in Writebacks /\ j.txn \in Nat
         /\ j.step \in Step /\ j.status \in {"none", "failed", "succeeded"}
BY DEF Job, Event

\* A run that goes on to its next step.
LEMMA RunGoesOn ==
  ASSUME NEW j \in Job, NEW sp \in Step, NEW k, k = [j EXCEPT !.step = sp]
  PROVE  k \in Job /\ k.event = j.event /\ k.step = sp
BY DEF Job, Step

\* One more entity in the books leaves the others where they were.
LEMMA EntriesGrow ==
  ASSUME entries \in Seq(Request), NEW r \in Request,
         entries' \in {entries, Append(entries, r)}
  PROVE  /\ entries' \in Seq(Request) /\ Len(entries) \in Nat
         /\ Len(entries') \in Nat /\ Len(entries) <= Len(entries')
         /\ DOMAIN entries = 1..Len(entries) /\ DOMAIN entries' = 1..Len(entries')
         /\ \A i \in DOMAIN entries : i \in DOMAIN entries' /\ entries'[i] = entries[i]
         /\ \A i \in DOMAIN entries' : \/ i \in DOMAIN entries /\ entries'[i] = entries[i]
                                       \/ i \notin DOMAIN entries /\ entries'[i] = r
<1>1. CASE entries' = entries
  BY <1>1
<1>2. CASE entries' = Append(entries, r)
  <2>1. /\ entries' \in Seq(Request) /\ Len(entries') = Len(entries) + 1 /\ Len(entries) \in Nat
        /\ DOMAIN entries' = 1..Len(entries') /\ DOMAIN entries = 1..Len(entries)
    BY <1>2
  <2>2. entries'[Len(entries) + 1] = r
    BY <1>2
  <2>3. \A i \in DOMAIN entries : entries'[i] = entries[i]
    BY <1>2
  <2> QED
    BY <2>1, <2>2, <2>3
<1> QED
  BY <1>1, <1>2


\* The request a run sends, and a run that will not record "nothing sent".
RequestOf(j) == [wb |-> j.event.wb, id |-> <<j.event.wb, 0>>]
Told(k) == \/ k.step = "read_back"
           \/ k.step = "record" /\ k.reason \notin NOTHING_SENT_REASONS

\* A run goes on as k; once it may have touched QuickBooks it will say so.
GoesOn(j, k) ==
    /\ jobs' = {k}
    /\ k.event = j.event
    /\ Knows(k)'
    /\ \/ UNCHANGED <<entries, wire>> /\ j.step # "read_back"
       \/ Told(k)

\* What a run that is not recording does to the books: at most one request of its own row,
\* with the row's request id, and then it knows what it has to record.
LEMMA JobMoves ==
  ASSUME PostInv, NEW j \in jobs,
         BuildPosting(j) \/ FindByReference(j) \/ Post(j) \/ ReadBack(j)
  PROVE  /\ RequestOf(j) \in Request /\ RequestOf(j).wb = j.event.wb
         /\ RequestOf(j).id = <<j.event.wb, 0>>
         /\ entries' \in {entries, accept(RequestOf(j))}
         /\ wire' \in {wire, wire \cup {RequestOf(j)}}
         /\ rowsUnchanged
         /\ j.step # "record"
         /\ \E k \in Job : GoesOn(j, k)
<1>1. j \in Job /\ jobs = {j} /\ entries \in Seq(Request)
  BY DEF PostInv, Linked, TypeOK
<1>2. /\ j.event.wb \in Writebacks /\ RequestOf(j) \in Request /\ RequestOf(j).wb = j.event.wb
      /\ RequestOf(j).id = <<j.event.wb, 0>>
  BY <1>1, JobParts DEF Request, RequestOf
<1>3. 0 \in Nat /\ {NotSentReason, "readback_failed", "ambiguous_reference",
       "readback_mismatch", "send_failed", "unknown_outcome", "found_on_retry", "sent"} \subseteq Reasons
  BY DEF Reasons
<1>4. ASSUME NEW st \in {"failed", "succeeded"}, NEW rs \in Reasons, NEW id \in Nat,
             ends(j, st, rs, id),
             (st = "failed" /\ id = 0) \/ (st = "succeeded" /\ holds(id, j.event.wb)'),
             \/ UNCHANGED <<entries, wire>> /\ j.step # "read_back"
             \/ rs \notin NOTHING_SENT_REASONS
      PROVE  \E k \in Job : GoesOn(j, k)
  <2>0. PICK k : k = [j EXCEPT !.step = "record", !.status = st, !.reason = rs, !.txn = id]
    OBVIOUS
  <2>1. /\ k \in Job /\ k.event = j.event /\ k.step = "record"
        /\ k.status = st /\ k.reason = rs /\ k.txn = id
    BY <1>1, <2>0 DEF Job, Step
  <2>2. jobs' = {k}
    BY <1>1, <1>4, <2>0 DEF ends, became
  <2>3. Knows(k)'
    BY <1>4, <2>1 DEF Knows
  <2>4. GoesOn(j, k)
    BY <1>4, <2>1, <2>2, <2>3 DEF GoesOn, Told
  <2> QED
    BY <2>1, <2>4
<1>a. ASSUME NEW sp \in {"find", "send"}, became(j, [j EXCEPT !.step = sp]),
             UNCHANGED <<entries, wire>>, j.step # "read_back"
      PROVE  \E k \in Job : GoesOn(j, k)
  <2>0. PICK k : k = [j EXCEPT !.step = sp]
    OBVIOUS
  <2>1. k \in Job /\ k.event = j.event /\ k.step = sp
    BY <1>1, <2>0, RunGoesOn DEF Step
  <2>2. jobs' = {k}
    BY <1>1, <1>a, <2>0 DEF became
  <2>3. GoesOn(j, k)
    BY <1>a, <2>1, <2>2 DEF GoesOn, Knows
  <2> QED
    BY <2>1, <2>3
<1>5. CASE BuildPosting(j)
  <2>1. rowsUnchanged /\ UNCHANGED <<entries, wire>> /\ j.step = "invoice"
    BY <1>5 DEF BuildPosting
  <2>2. ASSUME ends(j, "failed", NotSentReason, 0)
        PROVE  \E k \in Job : GoesOn(j, k)
    BY <1>3, <1>4, <2>1, <2>2
  <2>3. ASSUME became(j, [j EXCEPT !.step = firstCall(j)])
        PROVE  \E k \in Job : GoesOn(j, k)
    BY <1>a, <2>1, <2>3 DEF firstCall
  <2>4. \E k \in Job : GoesOn(j, k)
    BY <1>5, <2>2, <2>3 DEF BuildPosting
  <2> QED
    BY <1>2, <2>1, <2>4
<1>6. CASE FindByReference(j)
  <2>1. rowsUnchanged /\ UNCHANGED <<entries, wire>> /\ j.step = "find"
    BY <1>6 DEF FindByReference
  <2>2. \A i \in findByReference(postingReference(j.event.wb)) :
           i \in Nat /\ holds(i, j.event.wb)'
    BY <1>1, <2>1 DEF findByReference, postingReference, holds
  <2>3. ASSUME \/ ends(j, "failed", "readback_failed", 0)
               \/ ends(j, "failed", "ambiguous_reference", 0)
               \/ ends(j, "failed", "readback_mismatch", 0)
        PROVE  \E k \in Job : GoesOn(j, k)
    BY <1>3, <1>4, <2>1, <2>3
  <2>4. ASSUME NEW i \in findByReference(postingReference(j.event.wb)),
               ends(j, "succeeded", "found_on_retry", i)
        PROVE  \E k \in Job : GoesOn(j, k)
    BY <1>3, <1>4, <2>1, <2>2, <2>4
  <2>5. ASSUME became(j, [j EXCEPT !.step = "send"])
        PROVE  \E k \in Job : GoesOn(j, k)
    BY <1>a, <2>1, <2>5
  <2>6. \E k \in Job : GoesOn(j, k)
    BY <1>6, <2>3, <2>4, <2>5 DEF FindByReference
  <2> QED
    BY <1>2, <2>1, <2>6
<1>7. CASE Post(j)
  <2>1. rowsUnchanged /\ j.step = "send"
    BY <1>7 DEF Post
  <2>2. RequestOf(j) = [wb |-> j.event.wb, id |-> requestId(j)]
    BY DEF requestId, RequestOf
  <2>3. ASSUME entries' = accept(RequestOf(j)), UNCHANGED wire, NEW i \in DOMAIN entries',
               entries'[i].id = RequestOf(j).id,
               became(j, [j EXCEPT !.step = "read_back", !.txn = i])
        PROVE  \E k \in Job : GoesOn(j, k)
    <3>1. entries' \in {entries, Append(entries, RequestOf(j))}
      BY <2>3 DEF accept
    <3>2. i \in Nat
      BY <1>1, <1>2, <3>1, EntriesGrow
    <3>a. PICK k : k = [j EXCEPT !.step = "read_back", !.txn = i]
      OBVIOUS
    <3>3. k \in Job /\ k.event = j.event /\ k.step = "read_back" /\ k.txn = i
      BY <1>1, <3>2, <3>a DEF Job, Step
    <3>4. entries'[i].wb = j.event.wb
      <4>1. CASE entries'[i] = RequestOf(j)
        BY <1>2, <4>1
      <4>2. CASE i \in DOMAIN entries /\ entries'[i] = entries[i]
        <5>1. entries[i] \in Requests
          BY <4>2 DEF Requests
        <5>2. entries[i].id = <<entries[i].wb, 0>>
          BY <5>1 DEF PostInv, Linked, RequestSound
        <5>3. <<entries[i].wb, 0>> = <<j.event.wb, 0>>
          BY <1>2, <2>3, <4>2, <5>2
        <5> QED
          BY <4>2, <5>3
      <4> QED
        BY <1>1, <1>2, <3>1, <4>1, <4>2, EntriesGrow
    <3>5. jobs' = {k}
      BY <1>1, <2>3, <3>a DEF became
    <3>6. Knows(k)'
      BY <2>3, <3>3, <3>4 DEF Knows, holds
    <3>7. GoesOn(j, k)
      BY <3>3, <3>5, <3>6 DEF GoesOn, Told
    <3> QED
      BY <3>3, <3>7
  <2>4. ASSUME ends(j, "failed", "send_failed", 0) \/ ends(j, "failed", "unknown_outcome", 0)
        PROVE  \E k \in Job : GoesOn(j, k)
    <3>1. {"send_failed", "unknown_outcome"} \cap NOTHING_SENT_REASONS = {}
      BY DEF NOTHING_SENT_REASONS
    <3> QED
      BY <1>3, <1>4, <2>4, <3>1
  <2>5. \E k \in Job : GoesOn(j, k)
    BY <1>7, <2>2, <2>3, <2>4 DEF Post
  <2>6. entries' \in {entries, accept(RequestOf(j))} /\ wire' \in {wire, wire \cup {RequestOf(j)}}
    BY <1>7, <2>2 DEF Post
  <2> QED
    BY <1>2, <2>1, <2>5, <2>6
<1>8. CASE ReadBack(j)
  <2>1. rowsUnchanged /\ UNCHANGED <<entries, wire>> /\ j.step = "read_back"
    BY <1>8 DEF ReadBack
  <2>2. holds(j.txn, j.event.wb)' /\ j.txn \in Nat
    BY <1>1, <2>1, JobParts DEF PostInv, Linked, JobSound, Knows, holds
  <2>a. {"readback_failed", "readback_mismatch", "sent"} \cap NOTHING_SENT_REASONS = {}
    BY DEF NOTHING_SENT_REASONS
  <2>3. ASSUME ends(j, "failed", "readback_failed", 0) \/ ends(j, "failed", "readback_mismatch", 0)
        PROVE  \E k \in Job : GoesOn(j, k)
    BY <1>3, <1>4, <2>3, <2>a
  <2>4. ASSUME ends(j, "succeeded", "sent", j.txn)
        PROVE  \E k \in Job : GoesOn(j, k)
    BY <1>3, <1>4, <2>2, <2>4, <2>a
  <2>5. \E k \in Job : GoesOn(j, k)
    BY <1>8, <2>3, <2>4 DEF ReadBack
  <2> QED
    BY <1>2, <2>1, <2>5
<1> QED
  BY <1>5, <1>6, <1>7, <1>8


\* Stamps are natural numbers, and the decisions begun have stamps.
LEMMA StampType ==
  ASSUME TypeOK
  PROVE  /\ DOMAIN facts = 1..Len(facts) /\ Len(facts) \in Nat
         /\ DOMAIN facts \subseteq Stamps /\ decisions \subseteq Stamps
BY PostingBounds DEF TypeOK, Stamps

\* Every step keeps the types.
LEMMA PostTypeStep ==
  ASSUME PostInv, [Next]_vars
  PROVE  TypeOK'
<1>0. TypeOK
  BY DEF PostInv, Linked
<1>1. ASSUME NEW c \in Cases, NEW u \in Users, NEW o \in Outcomes, BeginSettlement(c, u, o)
      PROVE  TypeOK'
  <2> DEFINE f == [case |-> c, schema |-> "S", by |-> u, outcome |-> o]
  <2>1. f \in Fact /\ facts \in Seq(Fact)
    BY <1>0 DEF Fact, TypeOK
  <2>2. facts' = Append(facts, f)
    BY <1>1 DEF BeginSettlement
  <2> HIDE DEF f
  <2>3. facts' \in Seq(Fact) /\ Len(facts') = Len(facts) + 1 /\ DOMAIN facts \subseteq DOMAIN facts'
    BY <2>1, <2>2, FactsAppended
  <2>4. Len(facts') <= MaxDecisions
    BY <1>0, <1>1, <2>3, PostingBounds, StampType DEF BeginSettlement
  <2> QED
    BY <1>0, <1>1, <2>3, <2>4 DEF BeginSettlement, TypeOK
<1>2. ASSUME NEW d \in DOMAIN facts, PrepareSettlement(d)
      PROVE  TypeOK'
  BY <1>0, <1>2 DEF PrepareSettlement, TypeOK
<1>3. ASSUME NEW d \in decisions, NEW u \in Users, ApproveSettlement(d, u)
      PROVE  TypeOK'
  <2>1. d \in Stamps /\ u \in Approvers
    BY <1>0, <1>3, StampType DEF ApproveSettlement, mayApprove
  <2>2. approvals' \subseteq [decision : Stamps, by : Approvers]
    BY <1>0, <1>3, <2>1 DEF ApproveSettlement, TypeOK
  <2>3. settling' \in [Stamps -> {"idle", "writeoff", "entry", "payment", "queue", "over"}]
    BY <1>0, <1>3, <2>1 DEF ApproveSettlement, TypeOK
  <2> QED
    BY <1>0, <1>3, <2>2, <2>3 DEF ApproveSettlement, TypeOK
<1>4. ASSUME NEW c \in Cases, NEW p \in Users, NEW u \in Approvers, ApproveDispute(c, p, u)
      PROVE  TypeOK'
  <2> DEFINE f == [case |-> c, schema |-> "B", by |-> p, outcome |-> "none"]
             n == Len(facts) + 1
  <2>1. f \in Fact /\ facts \in Seq(Fact) /\ Len(facts) \in Nat
    BY <1>0 DEF Fact, TypeOK
  <2>2. facts' = Append(facts, f) /\ n <= MaxDecisions
    BY <1>4 DEF ApproveDispute
  <2> HIDE DEF f
  <2>3. /\ facts' \in Seq(Fact) /\ Len(facts') = n /\ DOMAIN facts \subseteq DOMAIN facts'
        /\ n \in DOMAIN facts'
    BY <2>1, <2>2, FactsAppended
  <2>4. n \in Stamps
    BY <2>1, <2>2, PostingBounds DEF Stamps
  <2>5. approvals' \subseteq [decision : Stamps, by : Approvers]
    BY <1>0, <1>4, <2>4 DEF ApproveDispute, TypeOK
  <2>6. settling' \in [Stamps -> {"idle", "writeoff", "entry", "payment", "queue", "over"}]
    BY <1>0, <1>4, <2>4 DEF ApproveDispute, TypeOK
  <2>7. decisions' \subseteq DOMAIN facts'
    BY <1>0, <1>4, <2>3 DEF ApproveDispute, TypeOK
  <2> QED
    BY <1>0, <1>4, <2>2, <2>3, <2>5, <2>6, <2>7 DEF ApproveDispute, TypeOK
<1>5. ASSUME NEW d \in Stamps, InsertWriteoff(d) \/ RequestDies(d)
      PROVE  TypeOK'
  BY <1>0, <1>5 DEF InsertWriteoff, RequestDies, TypeOK
<1>6. ASSUME NEW d \in Stamps, InsertEntry(d) \/ InsertPayment(d)
      PROVE  TypeOK'
  <2>1. PICK w \in Writebacks, next \in {"payment", "queue"} : InsertWriteback(d, w, next)
    <3>1. (IF withPayment(d) THEN "payment" ELSE "queue") \in {"payment", "queue"}
      OBVIOUS
    <3> QED
      BY <1>6, <3>1, RowType DEF InsertEntry, InsertPayment
  <2>2. row' \in [Writebacks -> {"none", "pending", "failed", "succeeded"}]
    BY <1>0, <2>1 DEF InsertWriteback, TypeOK
  <2>3. settling' \in [Stamps -> {"idle", "writeoff", "entry", "payment", "queue", "over"}]
    BY <1>0, <2>1 DEF InsertWriteback, TypeOK
  <2> QED
    BY <1>0, <2>1, <2>2, <2>3 DEF InsertWriteback, TypeOK
<1>7. ASSUME NEW d \in Stamps, QueueFirst(d)
      PROVE  TypeOK'
  <2>1. [wb |-> Entry(d), retry |-> FALSE, key |-> 0] \in Event
    BY RowType, PostingBounds DEF Event
  <2>2. queue' \subseteq Event
    BY <1>0, <1>7, <2>1 DEF QueueFirst, TypeOK
  <2> QED
    BY <1>0, <1>7, <2>2 DEF QueueFirst, TypeOK
<1>8. ASSUME NEW w \in Writebacks, RetryWriteback(w)
      PROVE  TypeOK'
  <2>1. asks[w] \in 0..MaxAsks /\ asks[w] + 1 \in 0..MaxAsks
    BY <1>0, <1>8, PostingBounds DEF RetryWriteback, TypeOK
  <2>2. [wb |-> w, retry |-> TRUE, key |-> asks[w] + 1] \in Event
    BY <2>1 DEF Event
  <2>3. queue' \subseteq Event
    BY <1>0, <1>8, <2>2 DEF RetryWriteback, TypeOK
  <2>4. asks' \in [Writebacks -> 0..MaxAsks]
    BY <1>0, <1>8, <2>1 DEF RetryWriteback, TypeOK
  <2> QED
    BY <1>0, <1>8, <2>3, <2>4 DEF RetryWriteback, TypeOK
<1>9. ASSUME NEW e \in queue, StartJob(e) \/ JobRefused(e)
      PROVE  TypeOK'
  <2>1. [event |-> e, step |-> "invoice", txn |-> 0, status |-> "none", reason |-> "none"] \in Job
    BY <1>0 DEF Job, Step, TypeOK
  <2>2. jobs' \subseteq Job /\ queue' \subseteq Event
    BY <1>0, <1>9, <2>1 DEF StartJob, JobRefused, TypeOK
  <2> QED
    BY <1>0, <1>9, <2>2 DEF StartJob, JobRefused, TypeOK
<1>10. ASSUME NEW j \in jobs, BuildPosting(j) \/ FindByReference(j) \/ Post(j) \/ ReadBack(j)
      PROVE  TypeOK'
  <2>1. PICK k \in Job : GoesOn(j, k)
    BY <1>10, JobMoves
  <2>2. /\ RequestOf(j) \in Request /\ rowsUnchanged
        /\ entries' \in {entries, Append(entries, RequestOf(j))}
        /\ wire' \in {wire, wire \cup {RequestOf(j)}}
    BY <1>10, JobMoves DEF accept
  <2>3. entries' \in Seq(Request) /\ 0..Len(entries) \subseteq 0..Len(entries')
    BY <1>0, <2>2, EntriesGrow DEF TypeOK
  <2>4. jobs' \subseteq Job /\ wire' \subseteq Request
    BY <1>0, <2>1, <2>2 DEF GoesOn, TypeOK
  <2> QED
    BY <1>0, <2>2, <2>3, <2>4 DEF rowsUnchanged, TypeOK
<1>11. ASSUME NEW j \in jobs, RecordAttempt(j)
      PROVE  TypeOK'
  <2>1. /\ j \in Job /\ j.event.wb \in Writebacks /\ JobSound(j) /\ j.step = "record"
    BY <1>0, <1>11, JobParts DEF PostInv, Linked, TypeOK, RecordAttempt
  <2>2. j.status \in {"failed", "succeeded"} /\ j.txn \in 0..Len(entries)
    BY <1>0, <2>1 DEF JobSound, Knows, holds, TypeOK
  <2>3. j.status = "failed" \/ j.status = "succeeded"
    BY <2>2
  <2>4. row' \in [Writebacks -> {"none", "pending", "failed", "succeeded"}]
    BY <1>0, <1>11, <2>1, <2>3 DEF RecordAttempt, TypeOK
  <2>5. txn' \in [Writebacks -> 0..Len(entries)]
    BY <1>0, <1>11, <2>1, <2>2 DEF RecordAttempt, TypeOK
  <2>6. attempts' \in [Writebacks -> SUBSET Reasons]
    <3>1. j.reason \in Reasons
      BY <2>1 DEF JobSound, Knows
    <3>2. attempts[j.event.wb] \cup {j.reason} \in SUBSET Reasons
      BY <1>0, <2>1, <3>1 DEF TypeOK
    <3>3. PICK after : after = attempts[j.event.wb] \cup {j.reason}
      OBVIOUS
    <3>4. attempts' = attempts \/ attempts' = [attempts EXCEPT ![j.event.wb] = after]
      BY <1>11, <3>3 DEF RecordAttempt
    <3> QED
      BY <1>0, <3>2, <3>3, <3>4 DEF TypeOK
  <2> QED
    BY <1>0, <1>11, <2>4, <2>5, <2>6 DEF RecordAttempt, TypeOK
<1>12. ASSUME NEW j \in jobs, JobDies(j)
      PROVE  TypeOK'
  BY <1>0, <1>12 DEF JobDies, rowsUnchanged, TypeOK
<1>13. ASSUME NEW r \in wire, LateAccept(r)
      PROVE  TypeOK'
  <2>1. r \in Request /\ entries' \in {entries, Append(entries, r)}
    BY <1>0, <1>13 DEF LateAccept, accept, TypeOK
  <2>2. entries' \in Seq(Request) /\ 0..Len(entries) \subseteq 0..Len(entries')
    BY <1>0, <2>1, EntriesGrow DEF TypeOK
  <2> QED
    BY <1>0, <1>13, <2>2 DEF LateAccept, rowsUnchanged, TypeOK
<1>14. ASSUME NEW d \in decisions, BeginVoid(d)
      PROVE  TypeOK'
  <2>1. d \in Stamps /\ rowsOf(d) \subseteq Writebacks
    BY <1>0, RowType, StampType DEF rowsOf
  <2>2. [decision |-> d, rows |-> rowsOf(d), left |-> rowsOf(d)] \in
          [decision : Stamps, rows : SUBSET Writebacks, left : SUBSET Writebacks]
    BY <2>1
  <2>3. voids' \subseteq [decision : Stamps, rows : SUBSET Writebacks, left : SUBSET Writebacks]
    BY <1>0, <1>14, <2>2 DEF BeginVoid, TypeOK
  <2> QED
    BY <1>0, <1>14, <2>3 DEF BeginVoid, TypeOK
<1>15. ASSUME NEW v \in voids, NEW w \in v.left, LookForRow(v, w)
      PROVE  TypeOK'
  <2>1. v \in [decision : Stamps, rows : SUBSET Writebacks, left : SUBSET Writebacks]
    BY <1>0 DEF TypeOK
  <2>2. [v EXCEPT !.left = @ \ {w}] \in
          [decision : Stamps, rows : SUBSET Writebacks, left : SUBSET Writebacks]
    BY <2>1
  <2>3. voids' \subseteq [decision : Stamps, rows : SUBSET Writebacks, left : SUBSET Writebacks]
    BY <1>0, <1>15, <2>2 DEF LookForRow, TypeOK
  <2> QED
    BY <1>0, <1>15, <2>3 DEF LookForRow, TypeOK
<1>16. ASSUME NEW v \in voids, VoidSettlementPosting(v) \/ VoidRefused(v)
      PROVE  TypeOK'
  BY <1>0, <1>16 DEF VoidSettlementPosting, VoidRefused, TypeOK
<1>17. CASE UNCHANGED vars
  BY <1>0, <1>17 DEF vars, TypeOK
<1> QED
  BY <1>1, <1>2, <1>3, <1>4, <1>5, <1>6, <1>7, <1>8, <1>9, <1>10, <1>11, <1>12, <1>13, <1>14,
     <1>15, <1>16, <1>17 DEF Next, Prepare, Approve, Settle, Run, Void

\* Approvals are only added, and what is approved was prepared by another.
LEMMA ApprovalStep ==
  ASSUME PostInv, [Next]_vars
  PROVE  approvals \subseteq approvals' /\ \A a \in approvals' : ApprovalSound(a)'
<1>0. TypeOK /\ \A a \in approvals : ApprovalSound(a)
  BY DEF PostInv, Linked
<1>a. facts \in Seq(Fact) /\ decisions \subseteq DOMAIN facts
  BY <1>0 DEF TypeOK
<1>1. ASSUME NEW c \in Cases, NEW u \in Users, NEW o \in Outcomes, BeginSettlement(c, u, o)
      PROVE  approvals \subseteq approvals' /\ \A a \in approvals' : ApprovalSound(a)'
  <2> DEFINE f == [case |-> c, schema |-> "S", by |-> u, outcome |-> o]
  <2>1. f \in Fact /\ facts' = Append(facts, f) /\ UNCHANGED <<decisions, approvals>>
    BY <1>1 DEF Fact, BeginSettlement
  <2> HIDE DEF f
  <2>2. \A d \in DOMAIN facts : facts'[d] = facts[d]
    BY <1>a, <2>1, FactsAppended
  <2> QED
    BY <1>0, <1>a, <2>1, <2>2 DEF ApprovalSound
<1>2. ASSUME NEW d \in DOMAIN facts, PrepareSettlement(d)
      PROVE  approvals \subseteq approvals' /\ \A a \in approvals' : ApprovalSound(a)'
  BY <1>0, <1>2 DEF PrepareSettlement, ApprovalSound
<1>3. ASSUME NEW d \in decisions, NEW u \in Users, ApproveSettlement(d, u)
      PROVE  approvals \subseteq approvals' /\ \A a \in approvals' : ApprovalSound(a)'
  BY <1>0, <1>3 DEF ApproveSettlement, mayApprove, ApprovalSound
<1>4. ASSUME NEW c \in Cases, NEW p \in Users, NEW u \in Approvers, ApproveDispute(c, p, u)
      PROVE  approvals \subseteq approvals' /\ \A a \in approvals' : ApprovalSound(a)'
  <2> DEFINE f == [case |-> c, schema |-> "B", by |-> p, outcome |-> "none"]
             n == Len(facts) + 1
  <2>1. /\ f \in Fact /\ f.by = p /\ facts' = Append(facts, f) /\ decisions' = decisions \cup {n}
        /\ approvals' = approvals \cup {[decision |-> n, by |-> u]} /\ u # p
    BY <1>4 DEF Fact, ApproveDispute
  <2> HIDE DEF f
  <2>2. facts'[n] = f /\ \A d \in DOMAIN facts : facts'[d] = facts[d]
    BY <1>a, <2>1, FactsAppended
  <2> HIDE DEF n
  <2>3. \A a \in approvals : ApprovalSound(a)'
    BY <1>0, <1>a, <2>1, <2>2 DEF ApprovalSound
  <2>4. \A a : a = [decision |-> n, by |-> u] => ApprovalSound(a)'
    <3>1. facts'[n].by # u /\ n \in decisions'
      BY <2>1, <2>2
    <3>2. PICK m : m = n
      OBVIOUS
    <3> QED
      BY <3>1, <3>2 DEF ApprovalSound
  <2> QED
    BY <2>1, <2>3, <2>4
<1>5. ASSUME UNCHANGED <<facts, decisions, approvals>>
      PROVE  approvals \subseteq approvals' /\ \A a \in approvals' : ApprovalSound(a)'
  BY <1>0, <1>5 DEF ApprovalSound
<1>6. CASE Settle \/ Void \/ UNCHANGED vars \/ \E w \in Writebacks : RetryWriteback(w)
  <2>1. UNCHANGED <<facts, decisions, approvals>>
    BY <1>6 DEF Settle, Void, vars, InsertWriteoff, InsertEntry, InsertPayment, InsertWriteback,
       QueueFirst, RequestDies, BeginVoid, LookForRow, VoidSettlementPosting, VoidRefused,
       RetryWriteback
  <2> QED
    BY <1>5, <2>1
<1>7. CASE Run
  <2>1. UNCHANGED <<facts, decisions, approvals>>
    BY <1>7 DEF Run, StartJob, JobRefused, BuildPosting, FindByReference, Post, ReadBack,
       RecordAttempt, JobDies, LateAccept, rowsUnchanged
  <2> QED
    BY <1>5, <2>1
<1> QED
  BY <1>1, <1>2, <1>3, <1>4, <1>6, <1>7 DEF Next, Prepare, Approve

\* An entity stays where it is in the books.
LEMMA HoldsOn ==
  ASSUME TypeOK, NEW r \in Request, entries' \in {entries, accept(r)}
  PROVE  /\ \A i, w : holds(i, w) => holds(i, w)'
         /\ {entries[i] : i \in DOMAIN entries}' \subseteq {entries[i] : i \in DOMAIN entries} \cup {r}
<1>1. entries \in Seq(Request) /\ entries' \in {entries, Append(entries, r)}
  BY DEF TypeOK, accept
<1> QED
  BY <1>1, EntriesGrow DEF holds

\* A step that leaves the rows alone, starts no run and sends no request.
LEMMA RowsStay ==
  ASSUME Linked, UNCHANGED <<row, txn, voided>>, approvals \subseteq approvals',
         jobs' \subseteq jobs, Requests' \subseteq Requests,
         \A i, w : holds(i, w) => holds(i, w)'
  PROVE  Linked'
<1>1. \A w : entryVerified(w)' <=> entryVerified(w)
  BY DEF entryVerified
<1>2. \A j \in jobs' : JobSound(j)'
  BY <1>1 DEF Linked, JobSound, Knows
<1>3. \A r \in Requests' : RequestSound(r)'
  BY <1>1 DEF Linked, RequestSound
<1>4. \A w \in Writebacks : RowSound(w)'
  BY DEF Linked, RowSound, approved
<1> QED
  BY <1>2, <1>3, <1>4 DEF Linked

\* A row that did not succeed takes a status: what was verified stays so.
LEMMA RowMoves ==
  ASSUME PostInv, NEW w \in Writebacks, NEW st \in {"pending", "failed", "succeeded"},
         row[w] # "succeeded", row' = [row EXCEPT ![w] = st], UNCHANGED <<entries, wire>>
  PROVE  /\ \A x \in Writebacks : entryVerified(x) => entryVerified(x)'
         /\ \A r \in Requests' : RequestSound(r)'
         /\ \A x \in Writebacks \ {w} : row'[x] = row[x]
         /\ row'[w] = st
         /\ \A i, x : holds(i, x) <=> holds(i, x)'
<1>1. row \in [Writebacks -> {"none", "pending", "failed", "succeeded"}]
  BY DEF PostInv, Linked, TypeOK
<1>2. row'[w] = st /\ \A x \in Writebacks \ {w} : row'[x] = row[x]
  BY <1>1
<1>3. \A x \in Writebacks : entryVerified(x) => entryVerified(x)'
  <2> SUFFICES ASSUME NEW x \in Writebacks, entryVerified(x) PROVE entryVerified(x)'
    OBVIOUS
  <2>1. Entry(x[1]) \in Writebacks
    BY RowIs, RowType
  <2> QED
    BY <1>2, <2>1 DEF entryVerified
<1>4. \A r \in Requests' : RequestSound(r)'
  <2> SUFFICES ASSUME NEW r \in Requests' PROVE RequestSound(r)'
    OBVIOUS
  <2>1. r \in Requests /\ RequestSound(r)
    BY DEF Requests, PostInv, Linked
  <2>2. r \in Request
    BY <2>1 DEF Requests, PostInv, Linked, TypeOK
  <2>3. r.wb \in Writebacks
    BY <2>2 DEF Request
  <2>4. row'[r.wb] # "none"
    BY <1>2, <2>1, <2>3 DEF RequestSound
  <2> QED
    BY <1>3, <2>1, <2>3, <2>4 DEF RequestSound
<1>5. \A i, x : holds(i, x) <=> holds(i, x)'
  BY DEF holds
<1> QED
  BY <1>2, <1>3, <1>4, <1>5

\* A writebacks row is written, or asked for again: its decision is approved, and no run is
\* at work on a row that is not there, nor does a retry disturb one that is.
LEMMA RowAsked ==
  ASSUME PostInv, approvals \subseteq approvals', NEW w \in Writebacks,
         \/ row[w] = "none" /\ approved(w[1])
         \/ row[w] \in {"pending", "failed"},
         row' = [row EXCEPT ![w] = "pending"],
         UNCHANGED <<txn, voided, jobs, entries, wire>>
  PROVE  Linked'
<1>1. /\ \A x \in Writebacks : entryVerified(x) => entryVerified(x)'
      /\ \A r \in Requests' : RequestSound(r)'
      /\ \A x \in Writebacks \ {w} : row'[x] = row[x]
      /\ row'[w] = "pending"
      /\ \A i, x : holds(i, x) <=> holds(i, x)'
  BY RowMoves
<1>2. \A j \in jobs' : JobSound(j)'
  <2> SUFFICES ASSUME NEW j \in jobs PROVE JobSound(j)'
    OBVIOUS
  <2>1. j \in Job /\ j.event.wb \in Writebacks /\ JobSound(j)
    BY JobParts DEF PostInv, Linked, TypeOK
  <2>2. row'[j.event.wb] = "pending" /\ entryVerified(j.event.wb)'
    BY <1>1, <2>1 DEF JobSound
  <2>3. Knows(j)'
    BY <1>1, <2>1 DEF JobSound, Knows
  <2> QED
    BY <2>1, <2>2, <2>3 DEF JobSound
<1>3. \A x \in Writebacks : RowSound(x)'
  <2> SUFFICES ASSUME NEW x \in Writebacks PROVE RowSound(x)'
    OBVIOUS
  <2>1. RowSound(x)
    BY DEF PostInv, Linked
  <2>2. approved(x[1]) => approved(x[1])'
    BY DEF approved
  <2>3. row[w] # "none" => approved(w[1])
    BY DEF PostInv, Linked, RowSound
  <2> QED
    BY <1>1, <2>1, <2>2, <2>3 DEF RowSound
<1> QED
  BY <1>1, <1>2, <1>3 DEF PostInv, Linked

\* A run that is not recording keeps the links: what it sends is a request of its row.
LEMMA JobStepLinks ==
  ASSUME PostInv, NEW j \in jobs, approvals \subseteq approvals',
         BuildPosting(j) \/ FindByReference(j) \/ Post(j) \/ ReadBack(j)
  PROVE  Linked'
<1>1. PICK k \in Job : GoesOn(j, k)
  BY JobMoves
<1>2. /\ RequestOf(j) \in Request /\ RequestOf(j).wb = j.event.wb
      /\ RequestOf(j).id = <<j.event.wb, 0>> /\ rowsUnchanged
      /\ entries' \in {entries, accept(RequestOf(j))}
      /\ wire' \in {wire, wire \cup {RequestOf(j)}}
  BY JobMoves
<1>3. JobSound(j) /\ TypeOK
  BY DEF PostInv, Linked
<1>4. UNCHANGED <<row, txn, voided>> /\ \A w : entryVerified(w)' <=> entryVerified(w)
  BY <1>2 DEF rowsUnchanged, entryVerified
<1>5. JobSound(k)'
  BY <1>1, <1>3, <1>4 DEF JobSound, GoesOn
<1>6. /\ \A i, w : holds(i, w) => holds(i, w)'
      /\ Requests' \subseteq Requests \cup {RequestOf(j)}
  BY <1>2, <1>3, HoldsOn DEF Requests
<1>7. \A r \in Requests' : RequestSound(r)'
  <2>1. \A r \in Requests : RequestSound(r)'
    BY <1>4 DEF PostInv, Linked, RequestSound
  <2>2. RequestSound(RequestOf(j))'
    BY <1>2, <1>3, <1>4 DEF RequestSound, JobSound
  <2> QED
    BY <1>6, <2>1, <2>2
<1>8. \A w \in Writebacks : RowSound(w)'
  BY <1>4, <1>6 DEF PostInv, Linked, RowSound, approved
<1> QED
  BY <1>1, <1>5, <1>7, <1>8 DEF Linked, GoesOn

\* What a run records is what it knows: a success names an entity of the row.
LEMMA RecordLinks ==
  ASSUME PostInv, NEW j \in jobs, RecordAttempt(j)
  PROVE  Linked'
<1>1. /\ j \in Job /\ j.event.wb \in Writebacks /\ JobSound(j) /\ j.step = "record" /\ TypeOK
      /\ jobs' = {}
  BY JobParts DEF PostInv, Linked, TypeOK, RecordAttempt
<1>2. PICK w \in Writebacks : w = j.event.wb
  BY <1>1
<1>3. /\ row[w] = "pending" /\ Knows(j)
      /\ row' = [row EXCEPT ![w] = j.status]
      /\ txn' = [txn EXCEPT ![w] = IF txn[w] = 0 THEN j.txn ELSE txn[w]]
      /\ UNCHANGED <<approvals, voided, entries, wire>>
  BY <1>1, <1>2 DEF JobSound, RecordAttempt
<1>4. \/ j.status = "failed" /\ j.txn = 0
      \/ j.status = "succeeded" /\ holds(j.txn, w)
  BY <1>1, <1>2, <1>3 DEF Knows
<1>5. j.status \in {"pending", "failed", "succeeded"}
  BY <1>4
<1>6. /\ \A r \in Requests' : RequestSound(r)'
      /\ \A x \in Writebacks \ {w} : row'[x] = row[x]
      /\ row'[w] = j.status
      /\ \A i, x : holds(i, x) <=> holds(i, x)'
  BY <1>3, <1>5, RowMoves
<1>7. /\ txn'[w] = (IF txn[w] = 0 THEN j.txn ELSE txn[w])
      /\ \A x \in Writebacks \ {w} : txn'[x] = txn[x]
  BY <1>1, <1>3 DEF TypeOK
<1>8. holds(j.txn, w) => j.txn # 0
  BY <1>1 DEF holds, TypeOK
<1>9. \A x \in Writebacks : RowSound(x)'
  <2> SUFFICES ASSUME NEW x \in Writebacks PROVE RowSound(x)'
    OBVIOUS
  <2>1. RowSound(x) /\ RowSound(w)
    BY DEF PostInv, Linked
  <2>2. approved(x[1]) => approved(x[1])'
    BY <1>3 DEF approved
  <2>3. CASE x # w
    BY <1>6, <1>7, <2>1, <2>2, <2>3 DEF RowSound
  <2>4. CASE x = w
    BY <1>3, <1>4, <1>6, <1>7, <1>8, <2>1, <2>2, <2>4 DEF RowSound
  <2> QED
    BY <2>3, <2>4
<1> QED
  BY <1>1, <1>6, <1>9 DEF Linked

\* A run starts on a pending row, alone.
LEMMA StartLinks ==
  ASSUME PostInv, NEW e \in queue, StartJob(e)
  PROVE  Linked'
<1>1. PICK k : k = [event |-> e, step |-> "invoice", txn |-> 0, status |-> "none",
                    reason |-> "none"]
  OBVIOUS
<1>2. /\ jobs' = {k} /\ k.event = e /\ k.step = "invoice" /\ mayPost(e.wb)
      /\ UNCHANGED <<row, txn, voided, approvals, entries, wire>>
  BY <1>1 DEF StartJob, slotFree
<1>3. JobSound(k)'
  BY <1>2 DEF JobSound, mayPost, Knows, entryVerified
<1>4. \A r \in Requests' : RequestSound(r)'
  BY <1>2 DEF PostInv, Linked, RequestSound, Requests, entryVerified
<1>5. \A w \in Writebacks : RowSound(w)'
  BY <1>2 DEF PostInv, Linked, RowSound, holds, approved
<1> QED
  BY <1>2, <1>3, <1>4, <1>5 DEF Linked

\* A settlement is voided while its entry is failed: no run is at work on a row of it.
LEMMA VoidLinks ==
  ASSUME PostInv, NEW v \in voids, VoidSettlementPosting(v)
  PROVE  Linked'
<1>1. /\ mayVoid(v.decision) /\ voided' = voided \cup {v.decision}
      /\ UNCHANGED <<row, txn, jobs, approvals, entries, wire>>
  BY DEF VoidSettlementPosting, stillVoidable
<1>2. \A w : entryVerified(w)' <=> entryVerified(w)
  BY <1>1 DEF entryVerified
<1>3. \A j \in jobs' : JobSound(j)'
  <2> SUFFICES ASSUME NEW j \in jobs PROVE JobSound(j)'
    BY <1>1
  <2>1. j \in Job /\ j.event.wb \in Writebacks /\ JobSound(j)
    BY JobParts DEF PostInv, Linked, TypeOK
  <2>2. j.event.wb[1] # v.decision
    <3> SUFFICES ASSUME j.event.wb[1] = v.decision PROVE FALSE
      OBVIOUS
    <3>1. row[Entry(v.decision)] = "failed"
      BY <1>1 DEF mayVoid
    <3>2. CASE j.event.wb = Entry(v.decision)
      BY <2>1, <3>1, <3>2 DEF JobSound
    <3>3. CASE j.event.wb = Payment(v.decision)
      BY <2>1, <3>1, <3>3 DEF JobSound, entryVerified, Payment
    <3> QED
      BY <2>1, <3>2, <3>3, RowIs
  <2> QED
    BY <1>1, <1>2, <2>1, <2>2 DEF JobSound, Knows, holds
<1>4. \A r \in Requests' : RequestSound(r)'
  BY <1>1, <1>2 DEF PostInv, Linked, RequestSound, Requests
<1>5. \A w \in Writebacks : RowSound(w)'
  BY <1>1 DEF PostInv, Linked, RowSound, holds, approved
<1> QED
  BY <1>1, <1>3, <1>4, <1>5 DEF PostInv, Linked

\* Every step keeps the links from the approval to the books.
LEMMA LinksStep ==
  ASSUME PostInv, [Next]_vars
  PROVE  Linked'
<1>0. TypeOK /\ Linked /\ approvals \subseteq approvals'
  BY ApprovalStep DEF PostInv
<1>1. ASSUME NEW d \in Stamps, InsertEntry(d) \/ InsertPayment(d)
      PROVE  Linked'
  <2>1. PICK w, next : w \in Writebacks /\ InsertWriteback(d, w, next) /\ w[1] = d
    BY <1>1, RowType DEF InsertEntry, InsertPayment
  <2> QED
    BY <1>0, <2>1, RowAsked DEF InsertWriteback
<1>2. ASSUME NEW w \in Writebacks, RetryWriteback(w)
      PROVE  Linked'
  BY <1>0, <1>2, RowAsked DEF RetryWriteback, mayRequeue
<1>3. ASSUME NEW r \in wire, LateAccept(r)
      PROVE  Linked'
  <2>1. /\ r \in Request /\ entries' \in {entries, accept(r)} /\ wire' = wire \ {r}
        /\ UNCHANGED <<row, txn, voided, jobs>>
    BY <1>0, <1>3 DEF LateAccept, rowsUnchanged, TypeOK
  <2>2. Requests' \subseteq Requests /\ \A i, w : holds(i, w) => holds(i, w)'
    BY <1>0, <2>1, HoldsOn DEF Requests
  <2> QED
    BY <1>0, <2>1, <2>2, RowsStay
<1>4. ASSUME UNCHANGED <<row, txn, voided, entries, wire>>, jobs' \subseteq jobs
      PROVE  Linked'
  <2>1. Requests' \subseteq Requests /\ \A i, w : holds(i, w) => holds(i, w)'
    BY <1>4 DEF Requests, holds
  <2> QED
    BY <1>0, <1>4, <2>1, RowsStay
<1>5. CASE Prepare \/ Approve \/ UNCHANGED vars
  <2>1. UNCHANGED <<row, txn, voided, entries, wire>> /\ jobs' \subseteq jobs
    BY <1>5 DEF Prepare, Approve, vars, BeginSettlement, PrepareSettlement, ApproveSettlement,
       ApproveDispute
  <2> QED
    BY <1>4, <2>1
<1>6. ASSUME NEW d \in Stamps, InsertWriteoff(d) \/ QueueFirst(d) \/ RequestDies(d)
      PROVE  Linked'
  <2>1. UNCHANGED <<row, txn, voided, entries, wire>> /\ jobs' \subseteq jobs
    BY <1>6 DEF InsertWriteoff, QueueFirst, RequestDies
  <2> QED
    BY <1>4, <2>1
<1>7. ASSUME NEW e \in queue, JobRefused(e)
      PROVE  Linked'
  BY <1>4, <1>7 DEF JobRefused
<1>8. ASSUME NEW j \in jobs, JobDies(j)
      PROVE  Linked'
  BY <1>4, <1>8 DEF JobDies, rowsUnchanged
<1>9. ASSUME \/ \E d \in decisions : BeginVoid(d)
             \/ \E v \in voids : VoidRefused(v) \/ \E w \in v.left : LookForRow(v, w)
      PROVE  Linked'
  <2>1. UNCHANGED <<row, txn, voided, entries, wire>> /\ jobs' \subseteq jobs
    BY <1>9 DEF BeginVoid, VoidRefused, LookForRow
  <2> QED
    BY <1>4, <2>1
<1>10. CASE Settle
  BY <1>1, <1>6, <1>10 DEF Settle
<1>11. CASE Run
  BY <1>0, <1>3, <1>7, <1>8, <1>11, StartLinks, JobStepLinks, RecordLinks DEF Run
<1>12. CASE Void
  BY <1>9, <1>12, VoidLinks DEF Void
<1> QED
  BY <1>2, <1>5, <1>10, <1>11, <1>12 DEF Next

\* Every step of the system keeps PostInv.
LEMMA PostInvStep ==
  ASSUME PostInv, [Next]_vars
  PROVE  PostInv'
BY PostTypeStep, ApprovalStep, LinksStep DEF PostInv

\* It holds before anything was prepared.
LEMMA PostInvInit ==
  ASSUME Init
  PROVE  PostInv
<1>1. TypeOK
  BY PostingBounds DEF Init, TypeOK
<1>2. Linked
  BY DEF Init, Linked, Requests, RowSound
<1> QED
  BY <1>1, <1>2 DEF PostInv, Init

\* The chain from an approval to the books holds in every state of every behaviour.
THEOREM PostInvariance == Spec => []PostInv
<1>1. PostInv /\ [Next]_vars => PostInv'
  BY PostInvStep
<1> QED
  BY <1>1, PostInvInit, PTL DEF Spec

\* What QuickBooks holds, or may yet make of a request whose sender is gone, was approved by
\* a member other than the one who prepared it (approveSettlement, decideCase).
THEOREM OnlyApprovedIsPosted == Spec => []PostedIsApproved
<1>1. PostInv => PostedIsApproved
  <2> SUFFICES ASSUME PostInv, NEW r \in Requests
               PROVE  \E a \in approvals : a.decision = r.wb[1] /\ a.by # facts[r.wb[1]].by
    BY DEF PostedIsApproved, Requests
  <2>1. r \in Request
    BY DEF PostInv, TypeOK, Requests
  <2>2. r.wb \in Writebacks /\ row[r.wb] # "none"
    BY <2>1 DEF PostInv, Linked, RequestSound, Request
  <2>3. approved(r.wb[1])
    BY <2>2 DEF PostInv, Linked, RowSound
  <2> QED
    BY <2>3 DEF PostInv, ApprovalSound, approved
<1> QED
  BY <1>1, PostInvariance, PTL

\* A row that succeeded names an entity QuickBooks holds, and that is its own: what a run
\* found, or sent and read back (postWriteback, recordWritebackAttempt).
THEOREM SuccessIsInTheBooks == Spec => []SucceededIsInLedger
<1>1. PostInv => SucceededIsInLedger
  BY DEF PostInv, Linked, RowSound, SucceededIsInLedger, holds
<1> QED
  BY <1>1, PostInvariance, PTL

\* No zero payment is in the books before the entry it applies was verified there, whatever
\* is retried and whatever arrives late (postWriteback's check of the entry's row).
THEOREM EntryThenPayment == Spec => []PaymentFollowsEntry
<1>1. PostInv => PaymentFollowsEntry
  <2> SUFFICES ASSUME PostInv, NEW d \in Stamps, NEW i \in DOMAIN entries,
                      entries[i].wb = Payment(d)
               PROVE  row[Entry(d)] = "succeeded"
    BY DEF PaymentFollowsEntry, findByReference
  <2>1. entryVerified(Payment(d))
    BY DEF PostInv, Linked, RequestSound, Requests
  <2> QED
    BY <2>1, RowType DEF entryVerified
<1> QED
  BY <1>1, PostInvariance, PTL

-----------------------------------------------------------------------------
(***************************************************************************)
(* How often a row, and how often a case, is in the books.                 *)
(***************************************************************************)

\* A set whose members are all one has at most one.
LEMMA AtMostOne ==
  ASSUME NEW S, \A x, y \in S : x = y
  PROVE  Cardinality(S) <= 1
<1>1. CASE S = {}
  BY <1>1, FS_EmptySet
<1>2. CASE S # {}
  <2>1. PICK x \in S : TRUE
    BY <1>2
  <2>2. S = {x}
    BY <2>1
  <2> QED
    BY <2>2, FS_Singleton
<1> QED
  BY <1>1, <1>2

\* A step makes at most one entity, and QuickBooks decides whether it is new.
LEMMA BooksStep ==
  ASSUME PostInv, [Next]_vars
  PROVE  entries' = entries \/ \E r \in Request : entries' = accept(r)
<1>1. ASSUME NEW j \in jobs, BuildPosting(j) \/ FindByReference(j) \/ Post(j) \/ ReadBack(j)
      PROVE  entries' = entries \/ \E r \in Request : entries' = accept(r)
  BY <1>1, JobMoves
<1>2. ASSUME NEW r \in wire, LateAccept(r)
      PROVE  entries' = accept(r) /\ r \in Request
  BY <1>2 DEF LateAccept, PostInv, TypeOK
<1>3. ASSUME NEW j \in jobs, RecordAttempt(j) \/ JobDies(j)
      PROVE  entries' = entries
  BY <1>3 DEF RecordAttempt, JobDies
<1>4. ASSUME NEW e \in queue, StartJob(e) \/ JobRefused(e)
      PROVE  entries' = entries
  BY <1>4 DEF StartJob, JobRefused
<1>5. CASE Prepare \/ Approve \/ UNCHANGED vars
  BY <1>5 DEF Prepare, Approve, vars, BeginSettlement, PrepareSettlement, ApproveSettlement,
     ApproveDispute
<1>6. CASE Settle \/ \E w \in Writebacks : RetryWriteback(w)
  BY <1>6 DEF Settle, InsertWriteoff, InsertEntry, InsertPayment, InsertWriteback, QueueFirst,
     RequestDies, RetryWriteback
<1>7. CASE Void
  BY <1>7 DEF Void, BeginVoid, LookForRow, VoidSettlementPosting, VoidRefused
<1>8. CASE Run
  BY <1>1, <1>2, <1>3, <1>4, <1>8 DEF Run
<1> QED
  BY <1>5, <1>6, <1>7, <1>8 DEF Next

\* No request id was acted on twice.
IdsDiffer == \A i, k \in DOMAIN entries : entries[i].id = entries[k].id => i = k

\* However often a row is sent, and whatever became of each send, QuickBooks makes of it at
\* most one entity: every send carries the row's own id (posting-job.ts, the requestId).  That
\* QuickBooks answers a repeated id with what it made is the assumption ADR 0060 records.
THEOREM OnceInTheBooks ==
  ASSUME Remembers
  PROVE  Spec => []PostedAtMostOnce
<1>1. Init => IdsDiffer
  BY DEF Init, IdsDiffer
<1>2. ASSUME PostInv, IdsDiffer, [Next]_vars
      PROVE  IdsDiffer'
  <2>1. CASE entries' = entries
    BY <1>2, <2>1 DEF IdsDiffer
  <2>2. ASSUME NEW r \in Request, entries' = accept(r), ~seen(r)
        PROVE  IdsDiffer'
    <3>1. entries \in Seq(Request) /\ entries' = Append(entries, r)
      BY <1>2, <2>2 DEF accept, PostInv, TypeOK
    <3>2. \A i \in DOMAIN entries : entries[i].id # r.id
      BY <2>2 DEF seen
    <3>3. /\ DOMAIN entries = 1..Len(entries) /\ Len(entries) \in Nat
          /\ DOMAIN entries' = 1..Len(entries) + 1
          /\ entries'[Len(entries) + 1] = r
          /\ \A i \in DOMAIN entries : entries'[i] = entries[i]
      <4>1. Len(entries') = Len(entries) + 1 /\ entries' \in Seq(Request)
        BY <3>1
      <4>2. entries'[Len(entries) + 1] = r
        BY <3>1
      <4> QED
        BY <3>1, <4>1, <4>2
    <3>4. \A i \in DOMAIN entries' : \/ i \in DOMAIN entries /\ entries'[i] = entries[i]
                                     \/ i = Len(entries) + 1 /\ entries'[i] = r
      BY <3>3
    <3> QED
      BY <1>2, <3>2, <3>4 DEF IdsDiffer
  <2>3. ASSUME NEW r \in Request, entries' = accept(r), seen(r)
        PROVE  entries' = entries
    BY <2>3 DEF accept
  <2> QED
    BY <1>2, <2>1, <2>2, <2>3, BooksStep
<1>3. PostInv /\ IdsDiffer => PostedAtMostOnce
  <2> SUFFICES ASSUME PostInv, IdsDiffer, NEW w \in Writebacks
               PROVE  Cardinality(findByReference(w)) <= 1
    BY DEF PostedAtMostOnce
  <2>1. \A i \in DOMAIN entries : entries[i].id = <<entries[i].wb, 0>>
    BY DEF PostInv, Linked, RequestSound, Requests
  <2>2. \A i, k \in findByReference(w) : i = k
    BY <2>1 DEF findByReference, IdsDiffer
  <2> QED
    BY <2>2, AtMostOne
<1> QED
  BY <1>1, <1>2, <1>3, PostInvariance, PTL DEF Spec

\* Whatever was sent for a row is on record, or a run is about to record it.
LeftTrace(w) ==
    \/ ~(attempts[w] \subseteq NOTHING_SENT_REASONS)
    \/ \E j \in jobs : j.event.wb = w /\ Told(j)

SentInv ==
    /\ \A r \in Requests : LeftTrace(r.wb)
    /\ \A r \in Requests : r.wb[1] \notin voided

\* A step that sends nothing, voids nothing and leaves the runs and their records.
LEMMA SentStays ==
  ASSUME SentInv, UNCHANGED <<attempts, voided>>, jobs \subseteq jobs', Requests' \subseteq Requests
  PROVE  SentInv'
BY DEF SentInv, LeftTrace, Told

\* A run on its way: what it sends, it will record as sent.
LEMMA SentByRun ==
  ASSUME PostInv, SentInv, NEW j \in jobs,
         BuildPosting(j) \/ FindByReference(j) \/ Post(j) \/ ReadBack(j)
  PROVE  SentInv'
<1>1. PICK k \in Job : GoesOn(j, k)
  BY JobMoves
<1>2. /\ RequestOf(j) \in Request /\ RequestOf(j).wb = j.event.wb /\ rowsUnchanged
      /\ entries' \in {entries, accept(RequestOf(j))}
      /\ wire' \in {wire, wire \cup {RequestOf(j)}}
      /\ j.step # "record"
  BY JobMoves
<1>3. jobs = {j} /\ TypeOK /\ JobSound(j)
  BY DEF PostInv, Linked
<1>4. Requests' \subseteq Requests \cup {RequestOf(j)}
  BY <1>2, <1>3, HoldsOn DEF Requests
<1>5. UNCHANGED <<attempts, voided>>
  BY <1>2 DEF rowsUnchanged
<1>6. CASE Told(k)
  <2>1. \A r \in Requests \cup {RequestOf(j)} : LeftTrace(r.wb)'
    <3>1. k \in jobs' /\ k.event.wb = j.event.wb /\ Told(k)'
      BY <1>1, <1>6 DEF GoesOn, Told
    <3>2. LeftTrace(j.event.wb)'
      BY <3>1 DEF LeftTrace
    <3>3. \A r \in Requests : r.wb = j.event.wb \/ ~(attempts[r.wb] \subseteq NOTHING_SENT_REASONS)
      BY <1>3 DEF SentInv, LeftTrace
    <3> QED
      BY <1>2, <1>5, <3>2, <3>3 DEF LeftTrace
  <2>2. \A r \in Requests \cup {RequestOf(j)} : r.wb[1] \notin voided
    BY <1>2, <1>3 DEF SentInv, JobSound
  <2> QED
    BY <1>4, <1>5, <2>1, <2>2 DEF SentInv
<1>7. CASE UNCHANGED <<entries, wire>> /\ j.step # "read_back"
  <2>1. Requests' = Requests
    BY <1>7 DEF Requests
  <2>2. ~Told(j)
    BY <1>2, <1>7 DEF Told
  <2>3. \A r \in Requests : LeftTrace(r.wb)'
    BY <1>3, <1>5, <2>2 DEF SentInv, LeftTrace
  <2> QED
    BY <1>5, <2>1, <2>3 DEF SentInv
<1> QED
  BY <1>1, <1>6, <1>7 DEF GoesOn

\* A run's record takes its place as the trace.
LEMMA SentRecorded ==
  ASSUME PostInv, SentInv, NEW j \in jobs, RecordAttempt(j)
  PROVE  SentInv'
<1>1. /\ j \in Job /\ j.event.wb \in Writebacks /\ JobSound(j) /\ j.step = "record" /\ TypeOK
      /\ jobs = {j}
  BY JobParts DEF PostInv, Linked, TypeOK, RecordAttempt
<1>2. PICK w \in Writebacks : w = j.event.wb
  BY <1>1
<1>3. /\ attempts' = [attempts EXCEPT ![w] = attempts[w] \cup {j.reason}]
      /\ UNCHANGED <<entries, wire, voided>>
  BY <1>1, <1>2 DEF JobSound, RecordAttempt
<1>4. /\ attempts'[w] = attempts[w] \cup {j.reason}
      /\ \A x \in Writebacks \ {w} : attempts'[x] = attempts[x]
  BY <1>1, <1>3 DEF TypeOK
<1>5. Requests' = Requests
  BY <1>3 DEF Requests
<1>6. ASSUME NEW r \in Requests
      PROVE  LeftTrace(r.wb)'
  <2>1. r.wb \in Writebacks
    <3>1. r \in Request
      BY <1>1 DEF Requests, TypeOK
    <3> QED
      BY <3>1 DEF Request
  <2>2. LeftTrace(r.wb)
    BY DEF SentInv
  <2>3. CASE ~(attempts[r.wb] \subseteq NOTHING_SENT_REASONS)
    BY <1>4, <2>1, <2>3 DEF LeftTrace
  <2>4. CASE r.wb = w /\ Told(j)
    BY <1>1, <1>4, <2>4 DEF LeftTrace, Told
  <2> QED
    BY <1>1, <1>2, <2>2, <2>3, <2>4 DEF LeftTrace
<1> QED
  BY <1>3, <1>5, <1>6 DEF SentInv

\* A voided settlement's attempts all ended before the send, and no run is at work on it, so
\* no request is of it.
LEMMA NothingOfTheVoided ==
  ASSUME PostInv, SentInv, NEW v \in voids, VoidSettlementPosting(v)
  PROVE  SentInv'
<1>1. /\ mayVoid(v.decision) /\ voided' = voided \cup {v.decision}
      /\ UNCHANGED <<attempts, jobs, entries, wire>>
  BY DEF VoidSettlementPosting, stillVoidable
<1>2. Requests' = Requests /\ \A w : LeftTrace(w)' <=> LeftTrace(w)
  BY <1>1 DEF Requests, LeftTrace, Told
<1>3. /\ row[Entry(v.decision)] = "failed"
      /\ attempts[Entry(v.decision)] \subseteq NOTHING_SENT_REASONS
      /\ attempts[Payment(v.decision)] \subseteq NOTHING_SENT_REASONS
  BY <1>1 DEF mayVoid, nothingWasSent
<1>4. ASSUME NEW r \in Requests, r.wb[1] = v.decision
      PROVE  FALSE
  <2>1. r.wb \in Writebacks
    <3>1. r \in Request
      BY DEF Requests, PostInv, TypeOK
    <3> QED
      BY <3>1 DEF Request
  <2>2. r.wb = Entry(v.decision) \/ r.wb = Payment(v.decision)
    BY <1>4, <2>1, RowIs
  <2>3. PICK j \in jobs : j.event.wb = r.wb
    BY <1>3, <2>2 DEF SentInv, LeftTrace
  <2>4. JobSound(j)
    BY DEF PostInv, Linked
  <2> QED
    BY <1>3, <2>2, <2>3, <2>4 DEF JobSound, entryVerified, Payment
<1> QED
  BY <1>1, <1>2, <1>4 DEF SentInv

\* Where no worker is killed, nothing that was sent goes unrecorded.
LEMMA SentStep ==
  ASSUME ~MayDie, PostInv, SentInv, [Next]_vars
  PROVE  SentInv'
<1>1. ASSUME NEW r \in wire, LateAccept(r)
      PROVE  SentInv'
  <2>1. /\ r \in Request /\ entries' \in {entries, accept(r)} /\ wire' = wire \ {r}
        /\ UNCHANGED <<attempts, voided, jobs>> /\ TypeOK
    BY <1>1 DEF LateAccept, rowsUnchanged, PostInv, TypeOK
  <2>2. Requests' \subseteq Requests
    BY <2>1, HoldsOn DEF Requests
  <2> QED
    BY <2>1, <2>2, SentStays
<1>2. ASSUME UNCHANGED <<attempts, voided, entries, wire>>, jobs \subseteq jobs'
      PROVE  SentInv'
  BY <1>2, SentStays DEF Requests
<1>3. ASSUME NEW e \in queue, StartJob(e) \/ JobRefused(e)
      PROVE  SentInv'
  BY <1>2, <1>3 DEF StartJob, JobRefused
<1>4. ASSUME NEW j \in jobs, JobDies(j)
      PROVE  FALSE
  BY <1>4 DEF JobDies
<1>5. CASE Prepare \/ Approve \/ UNCHANGED vars
  <2>1. UNCHANGED <<attempts, voided, entries, wire>> /\ jobs \subseteq jobs'
    BY <1>5 DEF Prepare, Approve, vars, BeginSettlement, PrepareSettlement, ApproveSettlement,
       ApproveDispute
  <2> QED
    BY <1>2, <2>1
<1>6. CASE Settle \/ \E w \in Writebacks : RetryWriteback(w)
  <2>1. UNCHANGED <<attempts, voided, entries, wire>> /\ jobs \subseteq jobs'
    BY <1>6 DEF Settle, InsertWriteoff, InsertEntry, InsertPayment, InsertWriteback,
       QueueFirst, RequestDies, RetryWriteback
  <2> QED
    BY <1>2, <2>1
<1>7. ASSUME \/ \E d \in decisions : BeginVoid(d)
             \/ \E v \in voids : VoidRefused(v) \/ \E w \in v.left : LookForRow(v, w)
      PROVE  SentInv'
  <2>1. UNCHANGED <<attempts, voided, entries, wire>> /\ jobs \subseteq jobs'
    BY <1>7 DEF BeginVoid, VoidRefused, LookForRow
  <2> QED
    BY <1>2, <2>1
<1>8. CASE Run
  BY <1>1, <1>3, <1>4, <1>8, SentByRun, SentRecorded DEF Run
<1>9. CASE Void
  BY <1>7, <1>9, NothingOfTheVoided DEF Void
<1> QED
  BY <1>5, <1>6, <1>8, <1>9 DEF Next

\* As long as workers live to record what they did, a run that may have sent leaves a reason
\* no void accepts, and what is voided has no request.
THEOREM SentIsOnRecord ==
  ASSUME ~MayDie
  PROVE  Spec => []SentInv
<1>1. Init => SentInv
  BY DEF Init, SentInv, Requests
<1>2. PostInv /\ SentInv /\ [Next]_vars => SentInv'
  BY SentStep
<1> QED
  BY <1>1, <1>2, PostInvariance, PTL DEF Spec

\* A voided settlement is not in the books and never gets there, late requests included
\* (voidSettlementPosting): its recorded attempts already rule out a request of it.
THEOREM VoidedStaysOut ==
  ASSUME ~MayDie
  PROVE  Spec => []VoidedHoldsNothing
<1>1. TypeOK /\ SentInv => VoidedHoldsNothing
  <2> SUFFICES ASSUME TypeOK, SentInv, NEW d \in voided, NEW i \in DOMAIN entries,
                      entries[i].wb = Entry(d) \/ entries[i].wb = Payment(d)
               PROVE  FALSE
    BY DEF VoidedHoldsNothing, inLedger, findByReference
  <2>1. d \in Stamps
    BY DEF TypeOK
  <2>2. entries[i].wb[1] = d
    BY <2>1, RowType
  <2> QED
    BY <2>2 DEF SentInv, Requests
<1> QED
  BY <1>1, SentIsOnRecord, PostInvariance, PTL DEF PostInv

\* Of a case's settlements at most one was ever posted, however often it was prepared,
\* approved, voided and settled again.
THEOREM CaseIsSettledOnce ==
  ASSUME ~MayDie
  PROVE  Spec => []SettledOnceInTheBooks
<1>1. PostInv /\ SentInv /\ IInv => SettledOnceInTheBooks
  <2> SUFFICES ASSUME PostInv, SentInv, IInv, NEW c \in Cases
               PROVE  Cardinality({d \in settlements(c) : inLedger(d)}) <= 1
    BY DEF SettledOnceInTheBooks
  <2>1. ASSUME NEW d \in settlements(c), inLedger(d)
        PROVE  live(d) /\ d \in decisions /\ facts[d].schema = "S" /\ facts[d].case = c
    <3>1. d \in decisions /\ facts[d].schema = "S" /\ facts[d].case = c
      BY DEF settlements
    <3>2. d \in Stamps
      BY <3>1, StampType DEF PostInv
    <3>3. PICK i \in DOMAIN entries : entries[i].wb = Entry(d) \/ entries[i].wb = Payment(d)
      BY <2>1 DEF inLedger, findByReference
    <3>4. entries[i].wb[1] = d /\ entries[i].wb \in Writebacks /\ entries[i] \in Requests
      BY <3>2, <3>3, RowType DEF Requests
    <3>5. approved(d)
      BY <3>4 DEF PostInv, Linked, RequestSound, RowSound
    <3>6. d \notin voided
      BY <3>4 DEF SentInv
    <3> QED
      BY <3>1, <3>5, <3>6 DEF live
  <2>2. \A d, e \in {x \in settlements(c) : inLedger(x)} : d = e
    BY <2>1, OneStands
  <2> QED
    BY <2>2, AtMostOne
<1> QED
  BY <1>1, SentIsOnRecord, PostInvariance, StandingInvariance, PTL

=============================================================================
