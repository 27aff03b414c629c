-------------------------- MODULE LedgerDiscovery --------------------------
(***************************************************************************)
(* What a ledger sync does with the books it has read (syncLedger and the  *)
(* discovery store).                                                       *)
(*                                                                         *)
(* A sync reads which invoices were paid short, reads once the names and   *)
(* the open cases the workspace knows, and answers each invoice in turn:   *)
(* it names the case that already carries the invoice, declines it, or     *)
(* records a new case.  Recording stores the extract, opens the case and   *)
(* links the two in transactions of their own; a sync may die between any  *)
(* two, and a later one starts over.  A workspace runs one sync at a time. *)
(* Meanwhile the books change, and the readers of paper open cases that    *)
(* name the same invoice numbers.                                          *)
(*                                                                         *)
(* An amount is told apart only as below or above the dispute floor; the   *)
(* extract is told apart by the state of the books it was built from.      *)
(* Papers of one invoice agree with the books on amount and date.  Every   *)
(* payment stays inside the window of the syncs.  Left out: merges, which  *)
(* move names to the survivor, and the counts on the run's own row.        *)
(***************************************************************************)
EXTENDS Naturals, Sequences, FiniteSets

CONSTANTS
    Invoices,  \* the ledger's own ids of invoices
    Numbers,   \* the numberings of the invoices: two may carry one number
    MaxChanges,\* bound: changes of the books
    MaxPapers, \* bound: cases opened from paper
    MaxDeaths  \* bound: syncs that die or whose store call fails

ASSUME DiscoveryBounds == {MaxChanges, MaxPapers, MaxDeaths} \subseteq Nat

VARIABLES
    number,    \* the number printed on each invoice, for the whole of a behaviour
    gap,       \* the short payment of each invoice in the books
    edition,   \* how often the books of an invoice changed: its extract's hash
    documents, \* extracts stored, as invoice and edition
    cases,     \* deductions rows in the order they were inserted
    names,     \* deduction_identifiers rows
    declined,  \* invoices with a declined_candidates row
    sync,      \* what the sync is doing
    changes, papers, deaths

store == <<documents, cases, names, declined>>
books == <<number, gap, edition, changes>>
vars == <<books, store, sync, papers, deaths>>

NoDocument == << >>
Idle == [pc |-> "idle", todo |-> {}, names |-> {}, open |-> {}, inv |-> << >>, case |-> 0, of |-> {}]

\* An extract: the invoice, the state of its books and the gap they show.
Extracts == Invoices \X (0..MaxChanges) \X {"small", "large"}

ledgerNames(i, c) ==
    {[source |-> "erp_sync", kind |-> "ledger_invoice_id", id |-> i, case |-> c],
     [source |-> "erp_sync", kind |-> "invoice_number", id |-> number[i], case |-> c]}

\* insert ... on conflict do nothing, on (source, kind, identifier).
insertIdentifiers(rows) ==
    names \cup {r \in rows : ~\E n \in names : n.source = r.source /\ n.kind = r.kind /\ n.id = r.id}

LedgerCase(i, state) == [inv |-> i, doc |-> <<i, 0, "large">>, state |-> state, of |-> {}]

\* A workspace may hold a ledger case from before cases opened classified.
Init ==
    /\ number \in Numbers
    /\ edition = [i \in Invoices |-> 0]
    /\ sync = Idle /\ declined = {} /\ changes = 0 /\ papers = 0 /\ deaths = 0
    /\ \/ /\ gap = [i \in Invoices |-> "none"]
          /\ documents = {} /\ cases = << >> /\ names = {}
       \/ \E i \in Invoices :
            /\ gap = [j \in Invoices |-> IF j = i THEN "large" ELSE "none"]
            /\ documents = {<<i, 0, "large">>} /\ cases = <<LedgerCase(i, "discovered")>>
            /\ names = ledgerNames(i, 1)

-----------------------------------------------------------------------------
(* Identity and triage, against the lists the sync read once *)

caseOf(rows) == {r.case : r \in rows}
\* Mutant: a name of the kind is a match whatever it says.
AnyNumber(i) == caseOf({n \in sync.names : n.kind \in {"ledger_invoice_id", "invoice_number"}})
exact(i) ==
    caseOf({n \in sync.names : \/ n.kind = "ledger_invoice_id" /\ n.id = i
                               \/ n.kind = "invoice_number" /\ n.id = number[i]})
\* Probable needs the number, amount and date of an open case: papers and books agree on the rest.
probable(i) == {o.case : o \in {p \in sync.open : p.number = number[i]}}
belowFloor(d) == d[3] = "small"

\* The candidates' order: the largest gap first.
nextCandidate(d) == belowFloor(d) => \A e \in sync.todo : belowFloor(e)

-----------------------------------------------------------------------------
(* A sync *)

\* The tally of payments, credits and histories, told apart by the gap it finds.
detectShortPays == {<<i, edition[i], gap[i]>> : i \in {j \in Invoices : gap[j] # "none"}}

erpDiscovered(c) == cases[c].doc # NoDocument /\ cases[c].state = "discovered"

\* classifyLedgerCases, then the books: payments, credits and histories, tallied by detectShortPays.
syncLedger ==
    /\ sync.pc = "idle"
    /\ cases' = [c \in DOMAIN cases |->
                   IF erpDiscovered(c) THEN [cases[c] EXCEPT !.state = "classified"] ELSE cases[c]]
    /\ sync' = [Idle EXCEPT !.pc = "names", !.todo = detectShortPays]
    /\ UNCHANGED <<documents, names, declined, books, papers, deaths>>

knownIdentifiers ==
    /\ sync.pc = "names"
    /\ sync' = [sync EXCEPT !.pc = "open cases", !.names = names]
    /\ UNCHANGED <<store, books, papers, deaths>>

\* A second read, in a transaction of its own.
knownDeductions ==
    /\ sync.pc = "open cases"
    /\ sync' = [sync EXCEPT !.pc = "next",
                  !.open = {[case |-> n.case, number |-> n.id] : n \in {m \in names : m.kind = "invoice_number"}}]
    /\ UNCHANGED <<store, books, papers, deaths>>

\* Mutant: an ambiguous candidate is passed over and written nowhere.
SkipsAmbiguous(d) ==
    LET i == d[1] IN
    /\ sync.pc = "next" /\ d \in sync.todo /\ nextCandidate(d)
    /\ \/ /\ Cardinality(exact(i)) = 1
          /\ \E c \in exact(i) : names' = insertIdentifiers(ledgerNames(i, c))
          /\ sync' = [sync EXCEPT !.todo = @ \ {d}]
       \/ /\ Cardinality(exact(i)) # 1 /\ (exact(i) # {} \/ belowFloor(d) \/ Cardinality(probable(i)) > 1)
          /\ sync' = [sync EXCEPT !.todo = @ \ {d}]
          /\ UNCHANGED names
       \/ /\ exact(i) = {} /\ Cardinality(probable(i)) < 2 /\ ~belowFloor(d)
          /\ sync' = [sync EXCEPT !.todo = @ \ {d}, !.pc = "store", !.inv = d, !.of = probable(i)]
          /\ UNCHANGED names
    /\ UNCHANGED <<documents, cases, declined, books, papers, deaths>>

\* One candidate: triageCandidate on what resolveIdentity says of it.
answer(d) ==
    LET i == d[1] IN
    /\ sync.pc = "next" /\ d \in sync.todo /\ nextCandidate(d)
    /\ \/ /\ Cardinality(exact(i)) = 1       \* skip: the ledger's names are written on that case
          /\ \E c \in exact(i) : names' = insertIdentifiers(ledgerNames(i, c))
          /\ sync' = [sync EXCEPT !.todo = @ \ {d}]
          /\ UNCHANGED declined
       \/ /\ \/ Cardinality(exact(i)) > 1    \* ambiguous
             \/ exact(i) = {} /\ Cardinality(probable(i)) > 1
             \/ exact(i) = {} /\ belowFloor(d)
          /\ declined' = declined \cup {i}   \* once per invoice
          /\ sync' = [sync EXCEPT !.todo = @ \ {d}]
          /\ UNCHANGED names
       \/ /\ exact(i) = {} /\ Cardinality(probable(i)) < 2 /\ ~belowFloor(d)
          /\ sync' = [sync EXCEPT !.todo = @ \ {d}, !.pc = "store", !.inv = d, !.of = probable(i)]
          /\ UNCHANGED <<names, declined>>
    /\ UNCHANGED <<documents, cases, books, papers, deaths>>

answered == sync' = [sync EXCEPT !.pc = "next", !.inv = << >>, !.case = 0, !.of = {}]

\* recordLedgerCase up to the stored extract: one that is some case's notice already names that case.
storeExtract ==
    LET onCase == {c \in DOMAIN cases : cases[c].doc = sync.inv} IN
    /\ sync.pc = "store"
    /\ IF onCase # {}
       THEN /\ \E c \in onCase : names' = insertIdentifiers(ledgerNames(sync.inv[1], c))
            /\ answered
            /\ UNCHANGED documents
       ELSE /\ documents' = documents \cup {sync.inv}
            /\ sync' = [sync EXCEPT !.pc = "open"]
            /\ UNCHANGED names
    /\ UNCHANGED <<cases, declined, books, papers, deaths>>

openCase ==
    /\ sync.pc = "open"
    /\ cases' = Append(cases, [inv |-> sync.inv[1], doc |-> NoDocument, state |-> "discovered", of |-> {}])
    /\ sync' = [sync EXCEPT !.pc = "link", !.case = Len(cases) + 1]
    /\ UNCHANGED <<documents, names, declined, books, papers, deaths>>

\* Mutant: the case is linked to its notice before it is given its names.
LinkedUnnamed ==
    /\ sync.pc = "link"
    /\ cases' = [cases EXCEPT ![sync.case].doc = sync.inv, ![sync.case].state = "classified",
                              ![sync.case].of = sync.of]
    /\ answered
    /\ UNCHANGED <<documents, names, declined, books, papers, deaths>>

\* One transaction: the notice, the names, the classification and the possible duplicate.
linkNotice ==
    /\ sync.pc = "link"
    /\ cases' = [cases EXCEPT ![sync.case].doc = sync.inv, ![sync.case].state = "classified",
                              ![sync.case].of = sync.of]
    /\ names' = insertIdentifiers(ledgerNames(sync.inv[1], sync.case))
    /\ answered
    /\ UNCHANGED <<documents, declined, books, papers, deaths>>

\* Every candidate is answered: the run is recorded as completed.
syncCompletes ==
    /\ sync.pc = "next" /\ sync.todo = {}
    /\ sync' = Idle
    /\ UNCHANGED <<store, books, papers, deaths>>

\* The sync dies, or a call of it fails: what it committed stays, and a later sync starts over.
syncDies ==
    /\ sync.pc # "idle"
    /\ deaths < MaxDeaths /\ deaths' = deaths + 1
    /\ sync' = Idle
    /\ UNCHANGED <<store, books, papers>>

-----------------------------------------------------------------------------
(* Meanwhile *)

\* A short payment is posted in the books, or one more payment or credit changes what is short.
booksChange(i, g) ==
    /\ changes < MaxChanges /\ changes' = changes + 1
    /\ g # "none"
    /\ gap' = [gap EXCEPT ![i] = g] /\ edition' = [edition EXCEPT ![i] = @ + 1]
    /\ UNCHANGED <<number, store, sync, papers, deaths>>

\* The readers of paper open a case for a claim on this invoice number (DocumentRead).
paperOpens(i) ==
    /\ papers < MaxPapers /\ papers' = papers + 1
    /\ cases' = Append(cases, [inv |-> i, doc |-> NoDocument, state |-> "classified", of |-> {}])
    /\ names' = insertIdentifiers({[source |-> "paper", kind |-> "invoice_number", id |-> number[i],
                                    case |-> Len(cases) + 1]})
    /\ UNCHANGED <<documents, declined, books, sync, deaths>>

SyncStep ==
    \/ syncLedger \/ knownIdentifiers \/ knownDeductions
    \/ \E d \in sync.todo : answer(d)
    \/ storeExtract \/ openCase \/ linkNotice \/ syncCompletes

Next ==
    \/ SyncStep \/ syncDies
    \/ \E i \in Invoices, g \in {"small", "large"} : booksChange(i, g)
    \/ \E i \in Invoices : paperOpens(i)

\* The cron starts a sync every day, and the queue runs it to its end.
Spec == Init /\ [][Next]_vars /\ WF_vars(SyncStep)

-----------------------------------------------------------------------------
(* Properties *)

named(i) == \E n \in names : n.kind = "ledger_invoice_id" /\ n.id = i

\* recordLedgerCase: however often the sync dies, starts over or finds the books changed, and
\* whatever number two invoices share, one invoice is the notice of at most one case.
OneNoticePerInvoice ==
    \A c, d \in DOMAIN cases :
        cases[c].doc # NoDocument /\ cases[d].doc # NoDocument /\ cases[c].inv = cases[d].inv => c = d

\* resolveIdentity and ensureIdentifiers: the names a sync writes on a case it did not open never
\* put two invoices of different numbers on one case.
NamesAgree ==
    \A m, n \in names :
        m.case = n.case /\ m.kind = "ledger_invoice_id" /\ n.kind = "ledger_invoice_id"
            => number[m.id] = number[n.id]

\* discovery.ts: no candidate ends silently. A short payment that stays in the books is named by a
\* case or declined in the end.
EveryGapIsAnswered ==
    \A i \in Invoices : gap[i] # "none" ~> (named(i) \/ i \in declined)

=============================================================================
