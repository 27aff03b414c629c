----------------------------- MODULE InboundEmail -----------------------------
(***************************************************************************)
(* Email sent to one inbound address of a tenant: the webhook Postmark      *)
(* calls, and calls again until it is told 200 or 403                       *)
(* (apps/web/lib/inbound-route.ts), the request that stores, scans and      *)
(* records an email under its claim (packages/pipeline/src/inbound.ts over  *)
(* packages/store-postgres/src/inbound.ts and migration 0034), the queued   *)
(* job that reads what was stored, the operator's sweep of messages that    *)
(* were never delivered (inbound-sweep.ts), and the members who adopt and   *)
(* retire the address, change roles and press "Read again" meanwhile.       *)
(*                                                                         *)
(* A delivery Postmark has stopped waiting for may still be running beside  *)
(* the next one. The address exists from the start.                         *)
(***************************************************************************)
EXTENDS Naturals, Sequences, FiniteSets, SequencesExt

CONSTANTS
    Messages,        \* emails, each with its MessageID
    Docs,            \* the contents a part may have
    Emails,          \* the parts of each email: a sequence of [kind, doc]
    Refused,         \* contents the front door rejects
    Infected,        \* contents the scanner finds infected
    Notices,         \* contents that classify as a deduction notice
    Members,         \* members of the tenant
    Issuer,          \* the one who issued the address
    NoOne,
    ReadsPerDay,     \* INBOUND_READS_PER_DAY (the code: 100)
    MaxDeliveries,   \* deliveries of one message (Postmark: 11)
    MaxFaults,       \* deaths, failed calls and scans without a verdict
    MaxMoves         \* things members do meanwhile

ASSUME InboundAssumption ==
    /\ Emails \in [Messages -> Seq([kind : {"attachment", "body"}, doc : Docs])]
    /\ Refused \subseteq Docs /\ Infected \subseteq Docs /\ Notices \subseteq Docs
    /\ Issuer \in Members /\ NoOne \notin Members
    /\ {ReadsPerDay, MaxDeliveries, MaxFaults, MaxMoves} \subseteq Nat

Deliveries == Messages \X (1..MaxDeliveries)

VARIABLES
    role,        \* memberships.role
    acting,      \* the latest adopter, else the issuer
    retirer,     \* inbound_address_retirements.retired_by, or NoOne
    rows,        \* inbound_messages: <<message, outcome>>
    parts,       \* inbound_message_parts of each received message
    scan,        \* documents and their latest scan: none | stored | clean | infected | error
    readAs,      \* what each document was classified as when it was read
    lease,       \* documents a person's read holds the claim of
    status,      \* Postmark's: scheduled | done | stopped | unnoted | failed | swept
    tries,       \* deliveries of each message so far
    pc, d,       \* where each delivery stands, and what it knows
    job,         \* the queued read of each message
    faults, moves

address == <<acting, retirer>>
records == <<rows, parts>>
documents == <<scan, readAs, lease>>
postmark == <<status, tries>>
delivery == <<pc, d>>
vars == <<role, address, records, documents, postmark, delivery, job, faults, moves>>

mayWrite(u) == role[u] \in {"owner", "analyst"}

Unknowing == [act |-> NoOne, reads |-> 0, held |-> FALSE, out |-> <<>>]
NoJob == [st |-> "none", user |-> NoOne, asked |-> {}, notice |-> FALSE]

Init ==
    /\ role = [u \in Members |-> "owner"] /\ acting = Issuer /\ retirer = NoOne
    /\ rows = {} /\ parts = [m \in Messages |-> <<>>]
    /\ scan = [x \in Docs |-> "none"] /\ readAs = [x \in Docs |-> "none"] /\ lease = {}
    /\ status = [m \in Messages |-> "scheduled"] /\ tries = [m \in Messages |-> 0]
    /\ pc = [e \in Deliveries |-> "unsent"] /\ d = [e \in Deliveries |-> Unknowing]
    /\ job = [m \in Messages |-> NoJob]
    /\ faults = 0 /\ moves = 0

-----------------------------------------------------------------------------
(* What the webhook answers. Postmark takes 200 as done, stops on 403 and    *)
(* tries anything else again until its schedule runs out; it no longer       *)
(* listens to a delivery it has followed with another.                       *)

Answer(e, code) ==
    LET m == e[1] IN
    /\ pc' = [pc EXCEPT ![e] = "answered"]
    /\ d' = [d EXCEPT ![e] = Unknowing]
    /\ status' = [status EXCEPT ![m] =
         IF @ # "scheduled" \/ tries[m] # e[2] THEN @
         ELSE IF code # "503" THEN code
         ELSE IF tries[m] = MaxDeliveries THEN "failed" ELSE @]
    /\ UNCHANGED tries

Fault == faults < MaxFaults /\ faults' = faults + 1
NoFault == UNCHANGED faults

\* The delivery fails before our code looks anything up (an oversized request,
\* a binding that is not configured, a lookup that throws) or stops part-way.
NotServed(e) ==
    /\ pc[e] \notin {"unsent", "answered"} /\ Fault
    /\ Answer(e, "503")
    /\ UNCHANGED <<role, address, records, documents, job, moves>>

\* Postmark delivers: the first time, after a 503, or when it has waited long
\* enough for an answer. The token is looked up.
Deliver(m) ==
    LET e == <<m, tries[m] + 1>> IN
    /\ status[m] = "scheduled" /\ tries[m] < MaxDeliveries
    /\ tries' = [tries EXCEPT ![m] = @ + 1]
    /\ pc' = [pc EXCEPT ![e] = IF retirer = NoOne THEN "receive" ELSE "refuse"]
    /\ d' = [d EXCEPT ![e].act = IF retirer = NoOne THEN acting ELSE retirer]
    /\ UNCHANGED <<role, address, records, documents, status, job, faults, moves>>

\* Refused at a retired address: noted when its retirer may write, else logged.
Refuse(e) ==
    /\ pc[e] = "refuse"
    /\ rows' = IF mayWrite(d[e].act) THEN rows \union {<<e[1], "refused_retired">>} ELSE rows
    /\ Answer(e, IF mayWrite(d[e].act) THEN "stopped" ELSE "unnoted")
    /\ NoFault /\ UNCHANGED <<role, address, parts, documents, job, moves>>

-----------------------------------------------------------------------------
(* receiveInboundEmail, under the message's claim. An error is answered 503  *)
(* and gives the claim back.                                                 *)

Claiming == {"part", "put", "scan", "record"}
claimFree(e) == \A o \in Deliveries \ {e} : o[1] = e[1] => pc[o] \notin Claiming

received(m) == <<m, "received">> \in rows
readable(p) == p.outcome \in {"stored", "already_held"}
inboundReadsLastDay ==
    FoldFunction(+, 0, [m \in Messages |-> Len(SelectSeq(parts[m], readable))])

\* The steps after the claim; `send` runs with the claim given back.
Goes(e, p) == pc' = [pc EXCEPT ![e] = p] /\ UNCHANGED postmark

\* Mutant of busy: a delivery that finds its message claimed is answered 200.
BusyIsDone(e) ==
    /\ ~claimFree(e) /\ Answer(e, "done")

\* Another delivery has the claim, or none of the process's two connections for claims came
\* free: mail to every workspace shares them, so that may happen to any delivery.
busy(e) == Answer(e, "503")

\* The walk over the parts, n of which are done; an email may have none.
after(e, n) == IF n = Len(Emails[e[1]]) THEN "record" ELSE "part"

Receive(e) ==
    /\ pc[e] = "receive"
    /\ \/ /\ ~mayWrite(d[e].act) /\ Answer(e, "503")
       \/ /\ mayWrite(d[e].act) /\ busy(e)
       \/ /\ mayWrite(d[e].act) /\ claimFree(e)
          /\ IF received(e[1])
             THEN Goes(e, "send") /\ UNCHANGED d
             ELSE Goes(e, after(e, 0)) /\ d' = [d EXCEPT ![e].reads = inboundReadsLastDay]
    /\ NoFault /\ UNCHANGED <<role, address, records, documents, job, moves>>

part(e) == Emails[e[1]][Len(d[e].out) + 1]
doc(e) == part(e).doc

outcomeOf(k, verdict) ==
    CASE verdict = "infected" -> [outcome |-> "not_clean", reads |-> k.reads]
      [] verdict = "clean" /\ k.reads >= ReadsPerDay -> [outcome |-> "over_daily_budget", reads |-> k.reads]
      [] OTHER -> [outcome |-> IF k.held THEN "already_held" ELSE "stored", reads |-> k.reads + 1]

\* The part's outcome is known, and the walk goes on to the next part.
Noted(e, o) ==
    /\ d' = [d EXCEPT ![e].out = Append(@, [kind |-> part(e).kind, doc |-> doc(e), outcome |-> o.outcome]),
                      ![e].reads = o.reads, ![e].held = FALSE]
    /\ Goes(e, after(e, Len(d[e].out) + 1))

\* The front door, and the document the tenant may already hold.
AcceptPart(e) ==
    /\ pc[e] = "part"
    /\ \/ /\ doc(e) \in Refused
          /\ Noted(e, [outcome |-> "refused", reads |-> d[e].reads])
       \/ /\ doc(e) \notin Refused /\ scan[doc(e)] = "none"
          /\ Goes(e, "put") /\ UNCHANGED d
       \/ /\ scan[doc(e)] \in {"clean", "infected"}
          /\ Noted(e, outcomeOf([d[e] EXCEPT !.held = TRUE], scan[doc(e)]))
       \/ /\ scan[doc(e)] \in {"stored", "error"}
          /\ Goes(e, "scan") /\ d' = [d EXCEPT ![e].held = TRUE]
    /\ NoFault /\ UNCHANGED <<role, address, records, documents, job, moves>>

\* Mutant of mayPut: the same bytes may be stored twice.
PutAgain(e) == mayWrite(d[e].act)

\* One document for each content of a tenant, stored by one who may write.
mayPut(e) == mayWrite(d[e].act) /\ scan[doc(e)] = "none"

\* The arrival and its document.
PutDocument(e) ==
    /\ pc[e] = "put"
    /\ \/ /\ mayPut(e)
          /\ scan' = [scan EXCEPT ![doc(e)] = "stored"]
          /\ Goes(e, "scan") /\ UNCHANGED d
       \/ /\ ~mayPut(e) /\ Answer(e, "503") /\ UNCHANGED scan
    /\ NoFault /\ UNCHANGED <<role, address, records, readAs, lease, job, moves>>

verdictOf(x) == IF x \in Infected THEN "infected" ELSE "clean"

\* The scanner answers, or gives no verdict, and its answer is the latest scan.
ScanPart(e) ==
    /\ pc[e] = "scan"
    /\ \/ /\ mayWrite(d[e].act)
          /\ scan' = [scan EXCEPT ![doc(e)] = verdictOf(doc(e))]
          /\ Noted(e, outcomeOf(d[e], verdictOf(doc(e))))
          /\ NoFault
       \/ /\ mayWrite(d[e].act) /\ Fault
          /\ scan' = [scan EXCEPT ![doc(e)] = "error"]
          /\ Answer(e, "503")
       \/ /\ ~mayWrite(d[e].act) /\ Answer(e, "503") /\ NoFault /\ UNCHANGED scan
    /\ UNCHANGED <<role, address, records, readAs, lease, job, moves>>

\* app.record_inbound_message: as the member the address acts as now; a message
\* that is recorded already keeps its row and its parts.
mayRecord(u) == mayWrite(u) /\ u = acting /\ retirer = NoOne

RecordMessage(e) ==
    /\ pc[e] = "record"
    /\ \/ /\ mayRecord(d[e].act)
          /\ rows' = rows \union {<<e[1], "received">>}
          /\ parts' = [parts EXCEPT ![e[1]] = IF received(e[1]) THEN @ ELSE d[e].out]
          /\ Goes(e, "send") /\ UNCHANGED d
       \/ /\ ~mayRecord(d[e].act) /\ Answer(e, "503") /\ UNCHANGED records
    /\ NoFault /\ UNCHANGED <<role, address, documents, job, moves>>

\* The read is queued, once for each message, and the email is done.
SendRead(e) ==
    /\ pc[e] = "send"
    /\ job' = [job EXCEPT ![e[1]] =
         IF @.st = "none" THEN [NoJob EXCEPT !.st = "queued", !.user = d[e].act] ELSE @]
    /\ Answer(e, "done")
    /\ NoFault /\ UNCHANGED <<role, address, records, documents, moves>>

-----------------------------------------------------------------------------
(* readInboundEmailJob: each read is a step the queue keeps; the questions   *)
(* before it are asked again on every pass.                                  *)

docsOf(m, kinds) ==
    {p.doc : p \in {q \in ToSet(parts[m]) : q.kind \in kinds /\ readable(q)}}

\* What reading a document answers: its recorded type, what a read of a clean
\* one finds, or nothing when someone else is reading it or it is not clean.
typeOf(x) == IF x \in Notices THEN "deduction_notice" ELSE "other"
answered(x) ==
    CASE readAs[x] # "none" /\ x \notin lease -> readAs[x]
      [] readAs[x] = "none" /\ x \notin lease /\ scan[x] = "clean" -> typeOf(x)
      [] OTHER -> "none"

ReadOne(m, x) ==
    /\ readAs' = [readAs EXCEPT ![x] = IF answered(x) = "none" THEN @ ELSE answered(x)]
    /\ job' = [job EXCEPT ![m].asked = @ \union {x},
                          ![m].notice = @ \/ answered(x) = "deduction_notice"]

ReadInboundEmail(m) ==
    LET attached == docsOf(m, {"attachment"}) \ job[m].asked
        words == docsOf(m, {"body"}) \ job[m].asked
    IN  /\ job[m].st = "queued"
        /\ \/ /\ mayWrite(job[m].user) /\ \E x \in attached : ReadOne(m, x)
           \/ /\ mayWrite(job[m].user) /\ attached = {} /\ ~job[m].notice
              /\ \E x \in words : ReadOne(m, x)
           \/ /\ ~mayWrite(job[m].user) \/ (attached = {} /\ (job[m].notice \/ words = {}))
              /\ job' = [job EXCEPT ![m].st = "over"] /\ UNCHANGED readAs
        /\ UNCHANGED <<role, address, records, scan, lease, postmark, delivery, faults, moves>>

\* A step that failed on every attempt.
JobGivesUp(m) ==
    /\ job[m].st = "queued" /\ Fault
    /\ job' = [job EXCEPT ![m].st = "over"]
    /\ UNCHANGED <<role, address, records, documents, postmark, delivery, moves>>

-----------------------------------------------------------------------------
(* The operator's sweep of what Postmark gave up on, and the members.        *)

SweepOne(m) ==
    /\ status[m] = "failed" /\ retirer = NoOne /\ mayWrite(acting)
    /\ rows' = rows \union {<<m, "not_received">>}
    /\ status' = [status EXCEPT ![m] = "swept"]
    /\ UNCHANGED <<role, address, parts, documents, tries, delivery, job, faults, moves>>

Move == moves < MaxMoves /\ moves' = moves + 1
Beside == UNCHANGED <<records, scan, postmark, delivery, job, faults>>

AdoptAddress(u) ==
    /\ Move /\ role[u] = "owner" /\ retirer = NoOne
    /\ acting' = u
    /\ Beside /\ UNCHANGED <<role, retirer, readAs, lease>>

RetireAddress(u) ==
    /\ Move /\ role[u] = "owner" /\ retirer = NoOne
    /\ retirer' = u
    /\ Beside /\ UNCHANGED <<role, acting, readAs, lease>>

\* A tenant keeps an owner.
ChangeRole(u, to) ==
    /\ Move /\ role[u] # to
    /\ role' = [role EXCEPT ![u] = to]
    /\ \E o \in Members : role'[o] = "owner"
    /\ Beside /\ UNCHANGED <<address, readAs, lease>>

\* A person presses "Read again": the document's claim is held for the read.
RereadBegins(x) ==
    /\ Move /\ scan[x] = "clean" /\ x \notin lease
    /\ lease' = lease \union {x}
    /\ Beside /\ UNCHANGED <<role, address, readAs>>

RereadEnds(x) ==
    /\ x \in lease
    /\ lease' = lease \ {x}
    /\ readAs' = [readAs EXCEPT ![x] = IF scan[x] = "clean" THEN typeOf(x) ELSE @]
    /\ UNCHANGED <<role, address, records, scan, postmark, delivery, job, faults, moves>>

-----------------------------------------------------------------------------
Webhook(e) ==
    \/ Refuse(e) \/ Receive(e) \/ AcceptPart(e) \/ PutDocument(e) \/ ScanPart(e)
    \/ RecordMessage(e) \/ SendRead(e) \/ NotServed(e)

Next ==
    \/ \E m \in Messages : Deliver(m) \/ ReadInboundEmail(m) \/ JobGivesUp(m) \/ SweepOne(m)
    \/ \E e \in Deliveries : Webhook(e)
    \/ \E u \in Members : AdoptAddress(u) \/ RetireAddress(u)
    \/ \E u \in Members, to \in {"owner", "analyst", "viewer"} : ChangeRole(u, to)
    \/ \E x \in Docs : RereadBegins(x) \/ RereadEnds(x)

Spec == Init /\ [][Next]_vars

-----------------------------------------------------------------------------
(* What the screens list.                                                    *)

emailsThatFiledNothing ==
    {m \in Messages :
       \/ <<m, "refused_retired">> \in rows
       \/ <<m, "not_received">> \in rows /\ ~received(m)
       \/ received(m) /\ \A p \in ToSet(parts[m]) : p.outcome \in {"refused", "not_clean"}}

coverNote(x) ==
    \E m \in Messages :
      /\ \E p \in ToSet(parts[m]) : p.kind = "body" /\ p.doc = x /\ p.outcome # "refused"
      /\ \E p \in ToSet(parts[m]) :
           /\ p.kind = "attachment" /\ p.outcome # "refused"
           /\ readAs[p.doc] = "deduction_notice"

unreadDocuments == {x \in Docs : scan[x] = "clean" /\ readAs[x] = "none" /\ ~coverNote(x)}

-----------------------------------------------------------------------------
\* An email Postmark will not send again (it was told 200 or 403, or gave up and
\* was swept) is either listed as having filed nothing, or each document it left
\* is read, waiting in the list of unread documents, or the cover note of a
\* notice: it is never lost silently (inbound-route.ts:41-46,
\* inbound-sweep.ts:12-17, store inbound.ts:497-499).
\* Two exceptions are real: a scan of the same bytes for another email, begun
\* before the first verdict was recorded, may give none and be the latest; and
\* an attachment with the very bytes of a cover note is taken for one.
NothingFallsSilent ==
    \A m \in Messages : status[m] \in {"done", "stopped", "swept"} =>
      \/ m \in emailsThatFiledNothing
      \/ /\ received(m)
         /\ \A p \in ToSet(parts[m]) : p.outcome \in {"stored", "already_held", "over_daily_budget"} =>
              \/ readAs[p.doc] # "none" \/ p.doc \in unreadDocuments
              \/ scan[p.doc] = "error" \/ coverNote(p.doc)

\* A document is recorded as stored by at most one email: the one that brought
\* it, whatever deliveries overlap or die (inbound.ts:161, migration 0034's
\* check that a stored part arrived by this email).
StoredByOne ==
    \A x \in Docs :
      Cardinality({m \in Messages : \E p \in ToSet(parts[m]) : p.doc = x /\ p.outcome = "stored"}) <= 1

=============================================================================
