---------------------------- MODULE DocumentRead ----------------------------
(***************************************************************************)
(* A document's way from its arrival to a case.                            *)
(*                                                                         *)
(* A document is stored, scanned, and queued to be read.  A run of the     *)
(* read job takes the document's lease, asks whether the record already    *)
(* answers, reads it (model calls), and then, in transactions of their     *)
(* own, records the reading, holds it for a person, opens a case from a    *)
(* notice, or opens one for each line of a remittance or row of a report.  *)
(* A person may ask for a reading again, file a reading on a case, upload  *)
(* the same bytes again, or open a case from a held document.              *)
(*                                                                         *)
(* Every await of the store or of the model ends an action: a run may die  *)
(* there, or its store call may fail, and the queue then runs the event    *)
(* again.  Two kinds of lock are taken on connections of one small pool:   *)
(* the document's lease (tried, never waited for) and the invoice's claim  *)
(* (waited for), both held by a run that already may hold the other.       *)
(*                                                                         *)
(* What a page prints does not change.  Amounts and dates of two papers that *)
(* name one invoice agree, so that a shared invoice is a probable match.   *)
(* Left out: closing and merging of cases (DuplicateCases), the older keys *)
(* of repeated lines, the runner without a queue, and the membership check *)
(* that may refuse any request.                                            *)
(***************************************************************************)
EXTENDS Naturals, Sequences, FiniteSets

CONSTANTS
    Documents,  \* documents, one per content hash
    Pages,      \* what the documents may be and print: kind, source, payer, lines
    Workers,    \* runs of the job and requests that can be in progress at once
    PoolSizes,  \* how many connections the lock pool may have
    Retries,    \* how often the queue runs a failed event again
    MaxSends,   \* bound: rereads, repeated uploads, attachments and openings asked for
    MaxFaults   \* bound: deaths of a run and failures of a store call

NoClaim == "no claim"
Sources == {"web_upload", "email_in", "portal_fetch"}
Kinds == {"deduction_notice", "remittance_advice", "report", "other"}

ASSUME PageAssumption ==
    \A p \in Pages, d \in Documents :
        /\ p[d].kind \in Kinds /\ p[d].source \in Sources /\ p[d].payer \in BOOLEAN
        /\ p[d].kind = "deduction_notice" => Len(p[d].lines) = 1
ASSUME ReadBounds ==
    /\ PoolSizes \subseteq Nat \ {0} /\ Retries \in Nat /\ MaxSends \in Nat /\ MaxFaults \in Nat

VARIABLES
    page,       \* what each document is and prints, for the whole of a behaviour
    pool,       \* connections of the lock pool, for the whole of a behaviour
    scan,       \* the document's stored bytes and their latest verdict
    extraction, \* whether a reading is recorded, and as what kind
    hold,       \* documents with a standing hold
    mapped,     \* reports with a column mapping a person confirmed for their header
    cases,      \* deductions rows, in the order they were inserted
    names,      \* deduction_identifiers rows
    links,      \* deduction_documents rows
    queue,      \* read events not yet run, with the attempts already made
    run,        \* what each worker is doing
    byHand,     \* documents a person opened or filed
    failed,     \* documents of events that failed for good
    sends,      \* requests asked for so far
    faults      \* deaths and failures so far

vars == <<page, pool, scan, extraction, hold, mapped, cases, names, links, queue, run, byHand,
          failed, sends, faults>>
rows == <<scan, extraction, hold, mapped, cases, names, links, byHand>>
bounds == <<page, pool, sends, faults>>

Idle == [pc |-> "idle", doc |-> "nothing", by |-> "read", mayOpen |-> TRUE, attach |-> 0, tries |-> 0,
         kind |-> "other", fits |-> TRUE, line |-> 1, case |-> 0, same |-> {}, like |-> {},
         here |-> {}, again |-> FALSE]

OpeningSteps == {"resolve", "insert", "names", "link", "flag", "classify"}

Init ==
    /\ page \in Pages /\ pool \in PoolSizes
    /\ scan = [d \in Documents |-> "absent"]
    /\ extraction = [d \in Documents |-> "none"]
    /\ mapped \in SUBSET {d \in Documents : page[d].kind = "report"}
    /\ hold = {} /\ cases = << >> /\ names = {} /\ links = {}
    /\ queue = {} /\ run = [w \in Workers |-> Idle]
    /\ byHand = {} /\ failed = {} /\ sends = 0 /\ faults = 0

-----------------------------------------------------------------------------
(* What the record says *)

onCase(d) == \E c \in DOMAIN cases : <<d, c>> \in links
heldByArrival(d) == page[d].source # "web_upload"
opensCaseOnItsOwn(kind) == kind \in {"deduction_notice", "remittance_advice", "report"}
lineOf(w) == page[run[w].doc].lines[run[w].line]

\* Cases that carry this name: an exact match. A line without a claim id names none.
named(kind, id) == {n.case : n \in {m \in names : m.kind = kind /\ m.id = id}}
claimed(id) == IF id = NoClaim THEN {} ELSE named("claim_id", id)

\* unique (org_id, debtor_id, claim_id), which a null debtor does not fire.
sameDebtorAndClaim(d, id) ==
    {c \in DOMAIN cases : page[d].payer /\ cases[c].payer /\ cases[c].claim = id /\ id # NoClaim}

-----------------------------------------------------------------------------
(* Runs, and the connections they hold *)

leased(d) == \E w \in Workers : run[w].doc = d /\ run[w].pc \notin {"idle", "lease"}
onLines(w) == run[w].kind = "remittance_advice"
\* A run of lines holds, from its wait for the claim to the end of the line, a second connection.
holdsSecond(w) == onLines(w) /\ run[w].pc \in {"lock", "look", "merge"} \cup OpeningSteps
claims(w, inv) == holdsSecond(w) /\ run[w].pc # "lock" /\ lineOf(w).invoice = inv
connections ==
    Cardinality({w \in Workers : run[w].pc \notin {"idle", "lease"}})
    + Cardinality({w \in Workers : holdsSecond(w)})

goto(w, pc) == run' = [run EXCEPT ![w].pc = pc]
finish(w) == run' = [run EXCEPT ![w] = Idle]

\* The queue's half of an end: the same event again while attempts remain, else the run has failed.
again(w) ==
    /\ finish(w)
    /\ IF run[w].by # "read"
       THEN UNCHANGED <<queue, failed>>
       ELSE IF run[w].tries < Retries
       THEN /\ queue' = queue \cup {[doc |-> run[w].doc, mayOpen |-> run[w].mayOpen,
                                     attach |-> run[w].attach, tries |-> run[w].tries + 1]}
            /\ UNCHANGED failed
       ELSE failed' = failed \cup {run[w].doc} /\ UNCHANGED queue
gaveUp(w) ==
    /\ finish(w)
    /\ failed' = IF run[w].by = "read" THEN failed \cup {run[w].doc} ELSE failed
    /\ UNCHANGED queue

\* An error thrown out of the run. Opening from a notice records the reading first.
throws(w, retriable) ==
    IF run[w].by = "read" /\ run[w].kind = "deduction_notice" /\ run[w].pc \in OpeningSteps
    THEN run' = [run EXCEPT ![w].pc = "failing", ![w].again = retriable] /\ UNCHANGED <<queue, failed>>
    ELSE IF retriable THEN again(w) ELSE gaveUp(w)

-----------------------------------------------------------------------------
(* Arrivals and requests *)

asks == sends < MaxSends /\ sends' = sends + 1 /\ UNCHANGED <<page, pool, faults>>
send(d, mayOpen, c) ==
    queue' = queue \cup {[doc |-> d, mayOpen |-> mayOpen, attach |-> c, tries |-> 0]}

\* The bytes are new: an upload row, then the document. Scanning is the request's next step.
PutDocument(d) ==
    /\ scan[d] = "absent"
    /\ scan' = [scan EXCEPT ![d] = "stored"]
    /\ UNCHANGED <<extraction, hold, mapped, cases, names, links, queue, run, byHand, failed, bounds>>

\* The verdict is recorded; a clean document is queued, if the request lives and the queue takes it.
RecordScan(d, verdict, queued) ==
    /\ scan[d] \in {"stored", "error"}
    /\ scan' = [scan EXCEPT ![d] = verdict]
    /\ IF verdict = "clean" /\ queued THEN send(d, TRUE, 0) ELSE UNCHANGED queue
    /\ UNCHANGED <<extraction, hold, mapped, cases, names, links, run, byHand, failed, bounds>>

\* Mutant: a reading on record answers for everything, a notice without a case too.
AnswersForNotices(d, c, mayOpen) == extraction[d] # "none"

\* Mutant: whether a person holds the document is not asked.
AnswersUnlessNotice(d, c, mayOpen) ==
    extraction[d] # "none"
    /\ (c # 0 \/ onCase(d) \/ ~(extraction[d] \in {"deduction_notice", "report"} /\ mayOpen))

\* Whether the record answers the request, or the document is to be read (again).
recordedRead(d, c, mayOpen) ==
    /\ extraction[d] # "none"
    /\ \/ c # 0
       \/ onCase(d)
       \/ d \in hold
       \/ ~(extraction[d] \in {"deduction_notice", "report"} /\ mayOpen)

\* The same bytes again, for a case or for none: answered from the record, or queued.
UploadAgain(d, c) ==
    /\ asks
    /\ scan[d] = "clean"
    /\ byHand' = IF c = 0 THEN byHand ELSE byHand \cup {d}
    /\ IF recordedRead(d, c, TRUE)
       THEN /\ links' = IF c = 0 THEN links ELSE links \cup {<<d, c>>}
            /\ UNCHANGED queue
       ELSE send(d, TRUE, c) /\ UNCHANGED links
    /\ UNCHANGED <<scan, extraction, hold, mapped, cases, names, run, failed>>

\* Read again, on the queue: it may open a case if it was uploaded here, or if nothing read it yet.
Reread(d) ==
    /\ asks
    /\ scan[d] = "clean"
    /\ send(d, page[d].source = "web_upload" \/ extraction[d] = "none", 0)
    /\ UNCHANGED <<rows, run, failed>>

\* A person files a recorded reading on a case.
attachReadDocument(d, c) ==
    /\ asks
    /\ extraction[d] # "none"
    /\ links' = links \cup {<<d, c>>}
    /\ byHand' = byHand \cup {d}
    /\ UNCHANGED <<scan, extraction, hold, mapped, cases, names, queue, run, failed>>

\* A person presses "Open a case from it", which is offered for a held document.
OpenHeld(w, d) ==
    /\ asks
    /\ run[w].pc = "idle"
    /\ d \in hold
    /\ run' = [run EXCEPT ![w] = [Idle EXCEPT !.pc = "lease", !.doc = d, !.by = "open"]]
    /\ byHand' = byHand \cup {d}
    /\ UNCHANGED <<scan, extraction, hold, mapped, cases, names, links, queue, failed>>

\* A person confirms the columns of a held sheet, and the request goes on to open it.
MapSheet(w, d) ==
    /\ asks
    /\ run[w].pc = "idle"
    /\ d \in hold /\ page[d].kind = "report"
    /\ mapped' = mapped \cup {d}
    /\ run' = [run EXCEPT ![w] = [Idle EXCEPT !.pc = "lease", !.doc = d, !.by = "open"]]
    /\ byHand' = byHand \cup {d}
    /\ UNCHANGED <<scan, extraction, hold, cases, names, links, queue, failed>>

-----------------------------------------------------------------------------
(* The read job up to its reading *)

StartRun(w, e) ==
    /\ e \in queue
    /\ run[w].pc = "idle"
    /\ queue' = queue \ {e}
    /\ run' = [run EXCEPT ![w] = [Idle EXCEPT !.pc = "lease", !.doc = e.doc, !.mayOpen = e.mayOpen,
                                              !.attach = e.attach, !.tries = e.tries]]
    /\ UNCHANGED <<rows, failed, bounds>>

\* Mutant: the lease is granted to everyone.
LeaseUnchecked(w) ==
    /\ run[w].pc = "lease"
    /\ connections < pool
    /\ goto(w, "check") /\ UNCHANGED <<rows, queue, failed, bounds>>

\* A connection, and the document's lease if nobody has it. A run that does not get it ends, unless
\* it came to file the document on a case: that one is run again later.
withDocumentRead(w) ==
    /\ run[w].pc = "lease"
    /\ connections < pool
    /\ IF ~leased(run[w].doc)
       THEN goto(w, "check") /\ UNCHANGED <<queue, failed>>
       ELSE IF run[w].attach # 0 THEN again(w) ELSE finish(w) /\ UNCHANGED <<queue, failed>>
    /\ UNCHANGED <<rows, bounds>>

\* Mutant: a wait for a connection never ends.
WaitsForEver(w) == FALSE /\ UNCHANGED vars

\* connect() on a full pool is refused after LOCK_POOL_CONNECT_TIMEOUT_MS.
PoolTimeout(w) ==
    /\ run[w].pc \in {"lease", "connect"}
    /\ connections >= pool
    /\ again(w)
    /\ UNCHANGED <<rows, bounds>>

answerFromRecord(w) ==
    LET d == run[w].doc
        c == run[w].attach IN
    /\ run[w].pc = "check" /\ run[w].by = "read"
    /\ recordedRead(d, c, run[w].mayOpen)
    /\ links' = IF c = 0 THEN links ELSE links \cup {<<d, c>>}
    /\ finish(w)
    /\ UNCHANGED <<scan, extraction, hold, mapped, cases, names, queue, byHand, failed, bounds>>

\* Where a reading goes: held, opened, or only recorded.
mustHold(w, kind, fits) ==
    /\ run[w].attach = 0
    /\ opensCaseOnItsOwn(kind)
    /\ \/ heldByArrival(run[w].doc)
       \/ ~fits /\ (run[w].mayOpen \/ kind = "report")

afterRecord(w, kind, fits) ==
    IF run[w].attach # 0 THEN "attach"
    ELSE IF mustHold(w, kind, fits) THEN "hold"
    ELSE IF run[w].mayOpen /\ kind \in {"remittance_advice", "report"} THEN "next"
    ELSE "done"

\* A sheet without a mapping is held, or filed, and no reading is recorded.
afterReading(w, kind, fits) ==
    IF kind = "report" /\ ~fits THEN afterRecord(w, kind, fits)
    ELSE IF kind = "deduction_notice" /\ afterRecord(w, kind, fits) = "done" /\ run[w].mayOpen
    THEN "resolve"
    ELSE "record"

\* Classified and extracted, or a sheet's rows mapped: fits is whether nothing is in doubt.
readDocument(w, kind, fits) ==
    /\ run[w].pc = "check" /\ run[w].by = "read"
    /\ kind = "report" => (fits <=> run[w].doc \in mapped)
    /\ ~recordedRead(run[w].doc, run[w].attach, run[w].mayOpen)
    /\ run' = [run EXCEPT ![w].pc = afterReading(w, kind, fits), ![w].kind = kind, ![w].fits = fits]
    /\ UNCHANGED <<rows, queue, failed, bounds>>

\* The model calls, the classification and the extraction. The last is what a later run asks for.
recordTheRead(w) ==
    LET then == afterRecord(w, run[w].kind, run[w].fits) IN
    /\ run[w].pc = "record"
    /\ extraction' = [extraction EXCEPT ![run[w].doc] = run[w].kind]
    /\ IF run[w].case # 0 \/ then = "done" THEN finish(w) ELSE goto(w, then)
    /\ UNCHANGED <<scan, hold, mapped, cases, names, links, queue, byHand, failed, bounds>>

recordHold(w) ==
    /\ run[w].pc = "hold"
    /\ hold' = hold \cup {run[w].doc}
    /\ finish(w)
    /\ UNCHANGED <<scan, extraction, mapped, cases, names, links, queue, byHand, failed, bounds>>

linkEvidence(w) ==
    /\ run[w].pc = "attach"
    /\ links' = links \cup {<<run[w].doc, run[w].attach>>}
    /\ finish(w)
    /\ UNCHANGED <<scan, extraction, hold, mapped, cases, names, queue, byHand, failed, bounds>>

-----------------------------------------------------------------------------
(* Opening a case *)

\* The first half of the transaction: what the tenant already holds, as this statement sees it.
\* A line's claim id is asked for here too; its invoice was asked for under the claim.
resolveArrival(w) ==
    LET l == lineOf(w)
        same == claimed(l.claim)
        like == IF onLines(w) THEN run[w].like ELSE named("invoice_number", l.invoice) IN
    /\ run[w].pc = "resolve"
    /\ IF Cardinality(same) = 1
       THEN IF onLines(w)
            THEN /\ run' = [run EXCEPT ![w].pc = "merge", ![w].same = same]
                 /\ UNCHANGED <<queue, failed>>
            ELSE throws(w, FALSE)
       ELSE IF same # {} \/ (~onLines(w) /\ Cardinality(like) > 1)
       THEN throws(w, TRUE)
       ELSE /\ run' = [run EXCEPT ![w].pc = "insert", ![w].like = like]
            /\ UNCHANGED <<queue, failed>>
    /\ UNCHANGED <<rows, bounds>>

newCase(w) ==
    [claim |-> lineOf(w).claim, invoice |-> lineOf(w).invoice, payer |-> page[run[w].doc].payer,
     doc |-> run[w].doc, kind |-> run[w].kind, by |-> run[w].by, open |-> FALSE,
     flags |-> IF onLines(w) THEN {} ELSE run[w].like]

\* The name a case is given in the transaction that inserts it. A line gives no source, and no name.
nameAtOnce(w) ==
    IF onLines(w) \/ lineOf(w).claim = NoClaim THEN {}
    ELSE {[case |-> Len(cases) + 1, source |-> page[run[w].doc].source, kind |-> "claim_id",
           id |-> lineOf(w).claim]}

\* Rows that unique (org_id, source, identifier_kind, identifier) will not hold beside this one.
taken(n) == {m \in names : m.source = n.source /\ m.kind = n.kind /\ m.id = n.id}

\* The second half: two unique constraints decide what the reads could not see.
openCase(w) ==
    LET dup == sameDebtorAndClaim(run[w].doc, lineOf(w).claim)
               \cup {m.case : m \in UNION {taken(n) : n \in nameAtOnce(w)}} IN
    /\ run[w].pc = "insert"
    /\ IF dup = {}
       THEN /\ cases' = Append(cases, newCase(w))
            /\ names' = names \cup nameAtOnce(w)
            /\ run' = [run EXCEPT ![w].case = Len(cases) + 1,
                                  ![w].pc = IF onLines(w) THEN "link" ELSE "names"]
            /\ UNCHANGED <<queue, failed>>
       ELSE /\ IF onLines(w)
               THEN /\ run' = [run EXCEPT ![w].pc = "merge", ![w].same = dup]
                    /\ UNCHANGED <<queue, failed>>
               ELSE throws(w, FALSE)
            /\ UNCHANGED <<cases, names>>
    /\ UNCHANGED <<scan, extraction, hold, mapped, links, byHand, bounds>>

\* Both names, each kept only if no case has it from this source.
recordIdentifiers(w) ==
    LET name(k, id) == [case |-> run[w].case, source |-> page[run[w].doc].source, kind |-> k, id |-> id]
        wanted == {name("invoice_number", lineOf(w).invoice)}
                  \cup (IF lineOf(w).claim = NoClaim THEN {} ELSE {name("claim_id", lineOf(w).claim)}) IN
    /\ run[w].pc = "names"
    /\ names' = names \cup {n \in wanted : taken(n) = {}}
    /\ goto(w, IF onLines(w) THEN "flag" ELSE "link")
    /\ UNCHANGED <<scan, extraction, hold, mapped, cases, links, queue, byHand, failed, bounds>>

linkDocument(w) ==
    /\ run[w].pc = "link"
    /\ links' = links \cup {<<run[w].doc, run[w].case>>}
    /\ goto(w, IF onLines(w) THEN "names" ELSE "classify")
    /\ UNCHANGED <<scan, extraction, hold, mapped, cases, names, queue, byHand, failed, bounds>>

\* case.possible_duplicate, one event per case the line may be.
flagDuplicates(w) ==
    /\ run[w].pc = "flag"
    /\ cases' = [cases EXCEPT ![run[w].case].flags = run[w].like]
    /\ goto(w, "classify")
    /\ UNCHANGED <<scan, extraction, hold, mapped, names, links, queue, byHand, failed, bounds>>

\* discovered -> classified: the case is open for work.
transitionCase(w) ==
    /\ run[w].pc = "classify"
    /\ cases' = [cases EXCEPT ![run[w].case].open = TRUE]
    /\ IF run[w].kind = "deduction_notice"
       THEN goto(w, IF run[w].by = "open" THEN "release" ELSE "record")
       ELSE run' = [run EXCEPT ![w].pc = "next", ![w].here = @ \cup {run[w].case},
                               ![w].line = @ + 1, ![w].case = 0]
    /\ UNCHANGED <<scan, extraction, hold, mapped, names, links, queue, byHand, failed, bounds>>

\* What a notice's read does when its opening failed: the reading is kept, the error goes on.
recordThenThrow(w) ==
    /\ run[w].pc = "failing"
    /\ extraction' = [extraction EXCEPT ![run[w].doc] = run[w].kind]
    /\ IF run[w].again THEN again(w) ELSE gaveUp(w)
    /\ UNCHANGED <<scan, hold, mapped, cases, names, links, byHand, bounds>>

-----------------------------------------------------------------------------
(* The lines of a remittance and the rows of a report *)

\* The next line. One under the tolerance is declined, which opens nothing.
nextLine(w) ==
    /\ run[w].pc = "next"
    /\ IF run[w].line > Len(page[run[w].doc].lines)
       THEN IF run[w].by = "open" THEN goto(w, "release") ELSE finish(w)
       ELSE IF lineOf(w).small
       THEN run' = [run EXCEPT ![w].line = @ + 1]
       ELSE goto(w, IF onLines(w) THEN "connect" ELSE "look")
    /\ UNCHANGED <<rows, queue, failed, bounds>>

\* A second connection, while the lease is held on the first.
connectForClaim(w) ==
    /\ run[w].pc = "connect"
    /\ connections < pool
    /\ goto(w, "lock")
    /\ UNCHANGED <<rows, queue, failed, bounds>>

\* Mutant: the claim keeps nobody out.
ClaimUnlocked(w) ==
    /\ run[w].pc = "lock"
    /\ goto(w, "look")
    /\ UNCHANGED <<rows, queue, failed, bounds>>

\* pg_advisory_xact_lock on the org and the invoice: the waiting form.
withInvoiceClaim(w) ==
    /\ run[w].pc = "lock"
    /\ \A v \in Workers : ~claims(v, lineOf(w).invoice)
    /\ goto(w, "look")
    /\ UNCHANGED <<rows, queue, failed, bounds>>

\* A line is the case that has its claim, and is flagged beside those that share its invoice;
\* cases this run opened are other lines. A report's row is skipped if its claim is known.
identityCandidates(w) ==
    LET same == claimed(lineOf(w).claim) \ run[w].here
        like == named("invoice_number", lineOf(w).invoice) \ run[w].here IN
    /\ run[w].pc = "look"
    /\ run' = IF onLines(w)
              THEN IF Cardinality(same) = 1
                   THEN [run EXCEPT ![w].pc = "merge", ![w].same = same]
                   ELSE [run EXCEPT ![w].pc = "resolve",
                                    ![w].like = IF same # {} THEN same ELSE like]
              ELSE IF claimed(lineOf(w).claim) # {}
              THEN [run EXCEPT ![w].pc = "next", ![w].line = @ + 1]
              ELSE [run EXCEPT ![w].pc = "resolve"]
    /\ UNCHANGED <<rows, queue, failed, bounds>>

\* The line is a case the tenant already has: the document is filed there as evidence.
mergeIntoCase(w, c) ==
    /\ run[w].pc = "merge" /\ c \in run[w].same
    /\ links' = links \cup {<<run[w].doc, c>>}
    /\ run' = [run EXCEPT ![w].pc = "next", ![w].line = @ + 1]
    /\ UNCHANGED <<scan, extraction, hold, mapped, cases, names, queue, byHand, failed, bounds>>

-----------------------------------------------------------------------------
(* Opening by hand, and what goes wrong *)

\* Under the lease: on no case, held, and read as a kind that opens one. A sheet held for want of
\* a mapping is read now, if somebody has mapped it since.
openHeldDocument(w) ==
    LET d == run[w].doc
        kind == IF extraction[d] = "none" /\ d \in mapped THEN page[d].kind ELSE extraction[d]
        usable == opensCaseOnItsOwn(kind) /\ (extraction[d] # "none" \/ kind = "report") IN
    /\ run[w].pc = "check" /\ run[w].by = "open"
    /\ IF ~onCase(d) /\ d \in hold /\ usable
       THEN /\ run' = [run EXCEPT ![w].pc = IF kind = "deduction_notice" THEN "resolve" ELSE "next",
                                  ![w].kind = kind]
            /\ extraction' = [extraction EXCEPT ![d] = kind]
       ELSE finish(w) /\ UNCHANGED extraction
    /\ UNCHANGED <<scan, hold, mapped, cases, names, links, queue, byHand, failed, bounds>>

releaseHold(w) ==
    /\ run[w].pc = "release"
    /\ hold' = hold \ {run[w].doc}
    /\ finish(w)
    /\ UNCHANGED <<scan, extraction, mapped, cases, names, links, queue, byHand, failed, bounds>>

\* A worker dies: its locks go with its connections, and the queue runs the event again.
RunDies(w) ==
    /\ faults < MaxFaults /\ faults' = faults + 1
    /\ run[w].pc # "idle"
    /\ again(w)
    /\ UNCHANGED <<rows, page, pool, sends>>

\* A store call fails while a case is being opened.
StoreFails(w) ==
    /\ faults < MaxFaults /\ faults' = faults + 1
    /\ run[w].pc \in OpeningSteps
    /\ throws(w, TRUE)
    /\ UNCHANGED <<rows, page, pool, sends>>

Proceeds(w) ==
    \/ withDocumentRead(w) \/ PoolTimeout(w) \/ answerFromRecord(w)
    \/ \E fits \in BOOLEAN : readDocument(w, page[run[w].doc].kind, fits)
    \/ recordTheRead(w) \/ recordHold(w) \/ linkEvidence(w)
    \/ resolveArrival(w) \/ openCase(w) \/ recordIdentifiers(w) \/ linkDocument(w)
    \/ flagDuplicates(w) \/ transitionCase(w) \/ recordThenThrow(w)
    \/ nextLine(w) \/ connectForClaim(w) \/ withInvoiceClaim(w) \/ identityCandidates(w)
    \/ \E c \in DOMAIN cases : mergeIntoCase(w, c)
    \/ openHeldDocument(w)
    \/ releaseHold(w)

Next ==
    \/ \E d \in Documents :
        \/ PutDocument(d) \/ Reread(d)
        \/ \E v \in {"clean", "refused", "error"}, q \in BOOLEAN : RecordScan(d, v, q)
        \/ \E c \in 0..Len(cases) : UploadAgain(d, c)
        \/ \E c \in DOMAIN cases : attachReadDocument(d, c)
        \/ \E w \in Workers : OpenHeld(w, d) \/ MapSheet(w, d)
    \/ \E w \in Workers :
        \/ \E e \in queue : StartRun(w, e)
        \/ Proceeds(w) \/ RunDies(w) \/ StoreFails(w)

Spec == Init /\ [][Next]_vars

\* Runs go on unless they die, and the queue runs what it was sent; nobody has to ask for anything.
Fairness ==
    /\ \A w \in Workers : WF_vars(Proceeds(w))
    /\ WF_vars(\E w \in Workers, e \in queue : StartRun(w, e))

FairSpec == Spec /\ Fairness

-----------------------------------------------------------------------------
(* What the pipeline promises *)

\* A notice opens one case, whoever reads or opens it how often and in what order: always if it
\* prints a claim id, and while nothing fails if it prints none (withDocumentRead, recordedRead).
NoticeOpensOnce ==
    \A d \in Documents :
        page[d].kind = "deduction_notice" /\ (page[d].lines[1].claim # NoClaim \/ faults = 0)
        => Cardinality({c \in DOMAIN cases : cases[c].doc = d}) <= 1

lineCases == {c \in DOMAIN cases : cases[c].kind = "remittance_advice" /\ cases[c].open}

\* Two remittances that print one claim on one invoice, of a payer no debtor row names, open one
\* case for it: the invoice's claim makes look-then-open one decision (withInvoiceClaim).
OneCasePerLine ==
    \A i, j \in lineCases :
        cases[i].claim = cases[j].claim /\ cases[i].claim # NoClaim
            /\ cases[i].invoice = cases[j].invoice => i = j

\* An earlier case of the same remittance for the same invoice.
siblingBefore(j) ==
    \E k \in DOMAIN cases :
        k < j /\ cases[k].doc = cases[j].doc /\ cases[k].invoice = cases[j].invoice

\* Of two cases opened for one invoice by lines of two remittances, the later is flagged as a
\* possible duplicate (openCasesFromRemittance, POSSIBLE_DUPLICATE). A remittance's second line for
\* an invoice may not be: the invoice's name may be its first line's, and its own cases are no
\* candidates.
SameInvoiceIsFlagged ==
    \A i, j \in lineCases :
        i < j /\ cases[i].invoice = cases[j].invoice /\ cases[i].doc # cases[j].doc
        => cases[j].flags # {} \/ siblingBefore(j)

\* Where a document stands, as DocumentFate tells it apart.
standing(d) ==
    IF scan[d] = "absent" THEN "absent"
    ELSE IF onCase(d) THEN "on_case"
    ELSE IF d \in hold THEN "held"
    ELSE IF extraction[d] # "none" THEN "read"
    ELSE "unread"

fate == [d \in Documents |-> standing(d)]

Fate == INSTANCE DocumentFate WITH fate <- fate, byHand <- byHand

\* The pipeline implements DocumentFate: a document on a case stays on one, a reading is not lost,
\* and a held document reaches a case only after a person opened or filed it.
ImplementsFate == Fate!FateSpec

\* Every event the queue took ends, and every run: no run waits for a connection for ever
\* (LOCK_POOL_CONNECT_TIMEOUT_MS) or for another run's lease or claim.
RunsEnd == <>[](queue = {} /\ \A w \in Workers : run[w].pc = "idle")

\* An uploaded notice whose reading was asked for comes to be on a case, held for a person, or its
\* run is seen to fail: a run that half finished is not taken for a reading that did (recordedRead,
\* asJobFailure).
NoticeIsSettled ==
    \A d \in Documents :
        (\E e \in queue : e.doc = d /\ page[d].kind = "deduction_notice"
                          /\ page[d].source = "web_upload")
        ~> (onCase(d) \/ d \in hold \/ d \in failed)

=============================================================================
