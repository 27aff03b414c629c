----------------------- MODULE LedgerDiscoveryProofs -----------------------
(***************************************************************************)
(* What a sync records, for any number of invoices, changes of the books,  *)
(* papers and deaths.                                                      *)
(*                                                                         *)
(* DiscoveryInv is the inductive invariant.  A sync answers from a list of *)
(* names it read once, while the paper readers keep writing: what saves it *)
(* is that only a sync writes the ledger's own ids, and that a sync has    *)
(* each invoice at most once before it.  So of an invoice it has still to  *)
(* answer, the old list says what the table says.                          *)
(***************************************************************************)
EXTENDS LedgerDiscovery, TLAPS

Found == Invoices \X Nat \X {"small", "large"}
Pcs == {"idle", "names", "open cases", "next", "store", "open", "link"}
CaseRow == [inv : Invoices, doc : Found \cup {NoDocument}, state : {"discovered", "classified"},
            of : SUBSET Nat]
Printed == {number[i] : i \in Invoices}
SyncType == [pc : Pcs, todo : SUBSET Found, names : SUBSET names,
             open : SUBSET [case : Nat, number : Printed], inv : Found \cup {NoDocument},
             case : Nat, of : SUBSET Nat]

DiscoveryType ==
    /\ gap \in [Invoices -> {"none", "small", "large"}]
    /\ edition \in [Invoices -> Nat]
    /\ cases \in Seq(CaseRow)
    /\ sync \in SyncType

\* A row names a case by the number of the case's invoice, or by an invoice that carries that number.
NameFits(n) ==
    /\ n.case \in DOMAIN cases
    /\ n.kind = "invoice_number" => n.id = number[cases[n.case].inv]
    /\ n.kind = "ledger_invoice_id" =>
          n.id \in Invoices /\ number[n.id] = number[cases[n.case].inv] /\ n.source = "erp_sync"

\* A case opened from the ledger is linked to an extract of its invoice, which is named.
NoticeFits(c) ==
    cases[c].doc # NoDocument => cases[c].doc[1] = cases[c].inv /\ named(cases[c].inv)

listed(i) == \E n \in sync.names : n.kind = "ledger_invoice_id" /\ n.id = i

\* Of the invoices a sync has still to answer the list it read is not stale.
ListIsFresh ==
    /\ \A d, e \in sync.todo : d[1] = e[1] => d = e
    /\ sync.pc \in {"open cases", "next", "store", "open", "link"} =>
          \A d \in sync.todo : named(d[1]) => listed(d[1])

\* The invoice whose case is being recorded has no other.
Recording ==
    sync.pc \in {"store", "open", "link"} =>
        /\ sync.inv \in Found /\ ~named(sync.inv[1])
        /\ \A d \in sync.todo : d[1] # sync.inv[1]
        /\ sync.pc = "link" =>
              /\ sync.case \in DOMAIN cases /\ cases[sync.case].inv = sync.inv[1]

DiscoveryInv ==
    /\ DiscoveryType
    /\ \A n \in names : NameFits(n)
    /\ \A c \in DOMAIN cases : NoticeFits(c)
    /\ ListIsFresh /\ Recording
    /\ OneNoticePerInvoice

-----------------------------------------------------------------------------

\* What ensureIdentifiers leaves in the table: what was there, and of the new rows the ones whose
\* name nobody had.
LEMMA RowsInserted ==
    ASSUME NEW rows, NEW N, N = insertIdentifiers(rows)
    PROVE  /\ names \subseteq N
           /\ \A n \in N : n \in names \/ n \in rows
           /\ \A r \in rows : \E n \in N : n.kind = r.kind /\ n.id = r.id
  BY DEF insertIdentifiers

\* The ledger's names make one invoice named and no other.
LEMMA LedgerNamesWritten ==
    ASSUME NEW i, NEW c, names' = insertIdentifiers(ledgerNames(i, c))
    PROVE  /\ names \subseteq names'
           /\ \A j : named(j)' <=> named(j) \/ j = i
           /\ \A n \in names' : n \in names \/ n \in ledgerNames(i, c)
  <1> DEFINE a == [source |-> "erp_sync", kind |-> "ledger_invoice_id", id |-> i, case |-> c]
             b == [source |-> "erp_sync", kind |-> "invoice_number", id |-> number[i], case |-> c]
  <1>1. ledgerNames(i, c) = {a, b}
    BY DEF ledgerNames
  <1>2. a.kind = "ledger_invoice_id" /\ a.id = i /\ b.kind = "invoice_number"
    OBVIOUS
  <1>3. /\ names \subseteq names'
        /\ \A n \in names' : n \in names \/ n \in ledgerNames(i, c)
        /\ \A r \in ledgerNames(i, c) : \E n \in names' : n.kind = r.kind /\ n.id = r.id
    BY RowsInserted
  <1> HIDE DEF a, b
  <1>4. ASSUME NEW j PROVE named(j)' <=> named(j) \/ j = i
    <2>1. CASE j = i
      BY <1>1, <1>2, <1>3, <2>1 DEF named
    <2>2. CASE j # i
      BY <1>1, <1>2, <1>3, <2>2 DEF named
    <2>3. QED BY <2>1, <2>2
  <1>5. QED BY <1>3, <1>4

\* Rows that fit stay fitting while the cases keep their invoices; the ledger's names of an invoice
\* fit a case whose invoice carries the same number.
LEMMA NamesKeepFitting ==
    ASSUME DiscoveryInv, number' = number,
           \A c \in DOMAIN cases : c \in DOMAIN cases' /\ cases'[c].inv = cases[c].inv,
           \A n \in names' : n \in names \/ NameFits(n)'
    PROVE  \A n \in names' : NameFits(n)'
  BY DEF DiscoveryInv, NameFits

\* The same, row by row, for what a sync writes.
LEMMA LedgerNamesFit ==
    ASSUME NEW i \in Invoices, NEW c \in DOMAIN cases', number' = number,
           number[i] = number[cases'[c].inv]
    PROVE  \A n \in ledgerNames(i, c) : NameFits(n)'
  <1> DEFINE a == [source |-> "erp_sync", kind |-> "ledger_invoice_id", id |-> i, case |-> c]
             b == [source |-> "erp_sync", kind |-> "invoice_number", id |-> number[i], case |-> c]
  <1>1. ledgerNames(i, c) = {a, b}
    BY DEF ledgerNames
  <1>2. /\ a.kind = "ledger_invoice_id" /\ a.id = i /\ a.case = c /\ a.source = "erp_sync"
        /\ b.kind = "invoice_number" /\ b.id = number[i] /\ b.case = c
    OBVIOUS
  <1> HIDE DEF a, b
  <1>3. QED BY <1>1, <1>2 DEF NameFits

\* An extract names its invoice.
LEMMA FoundIsOfInvoice ==
    ASSUME NEW d \in Found
    PROVE  d[1] \in Invoices /\ d # NoDocument
  BY DEF Found, NoDocument

\* A case the sync's list matches carries the number of the invoice.
LEMMA ExactCarriesTheNumber ==
    ASSUME DiscoveryInv, NEW i \in Invoices, NEW c \in exact(i)
    PROVE  c \in DOMAIN cases /\ number[i] = number[cases[c].inv]
  <1>1. PICK n \in sync.names : /\ c = n.case
                                /\ \/ n.kind = "ledger_invoice_id" /\ n.id = i
                                   \/ n.kind = "invoice_number" /\ n.id = number[i]
    BY DEF exact, caseOf
  <1>2. n \in names
    BY DEF DiscoveryInv, DiscoveryType, SyncType
  <1>3. QED BY <1>1, <1>2 DEF DiscoveryInv, NameFits

-----------------------------------------------------------------------------
(* One lemma per step *)

\* The initial workspace, empty or with one case of the ledger's.
LEMMA DiscoveryInit == Init => DiscoveryInv
  <1> SUFFICES ASSUME Init PROVE DiscoveryInv
    OBVIOUS
  <1>1. sync = Idle /\ sync \in SyncType
    BY DEF Init, Idle, SyncType, Pcs, NoDocument
  <1>2. sync.todo = {} /\ sync.pc = "idle"
    BY <1>1 DEF Idle
  <1>3. ListIsFresh /\ Recording
    BY <1>2 DEF ListIsFresh, Recording
  <1>4. edition \in [Invoices -> Nat]
    BY DEF Init
  <1>5. CASE gap = [i \in Invoices |-> "none"] /\ documents = {} /\ cases = << >> /\ names = {}
    BY <1>1, <1>3, <1>4, <1>5 DEF DiscoveryInv, DiscoveryType, OneNoticePerInvoice
  <1>6. ASSUME NEW i \in Invoices,
               gap = [j \in Invoices |-> IF j = i THEN "large" ELSE "none"],
               cases = <<LedgerCase(i, "discovered")>>, names = ledgerNames(i, 1)
        PROVE  DiscoveryInv
    <2>1. <<i, 0, "large">> \in Found
      BY DEF Found
    <2>2. PICK k : k = LedgerCase(i, "discovered")
      OBVIOUS
    <2>3. k \in CaseRow /\ k.inv = i /\ k.doc = <<i, 0, "large">>
      BY <2>1, <2>2 DEF LedgerCase, CaseRow
    <2>4. cases = <<k>> /\ DOMAIN cases = {1} /\ cases[1] = k
      BY <1>6, <2>2
    <2>5. PICK a, b : /\ a = [source |-> "erp_sync", kind |-> "ledger_invoice_id", id |-> i, case |-> 1]
                      /\ b = [source |-> "erp_sync", kind |-> "invoice_number", id |-> number[i], case |-> 1]
      OBVIOUS
    <2>6. names = {a, b}
      BY <1>6, <2>5 DEF ledgerNames
    <2>7. /\ a.kind = "ledger_invoice_id" /\ a.id = i /\ a.case = 1 /\ a.source = "erp_sync"
          /\ b.kind = "invoice_number" /\ b.id = number[i] /\ b.case = 1
      BY <2>5
    <2>8. \A n \in names : NameFits(n)
      BY <2>3, <2>4, <2>6, <2>7 DEF NameFits
    <2>9. \A c \in DOMAIN cases : NoticeFits(c)
      BY <2>3, <2>4, <2>6, <2>7 DEF NoticeFits, named
    <2>10. cases \in Seq(CaseRow)
      BY <2>3, <2>4
    <2>11. gap \in [Invoices -> {"none", "small", "large"}]
      BY <1>6
    <2>12. OneNoticePerInvoice
      BY <2>4 DEF OneNoticePerInvoice
    <2>13. QED BY <1>1, <1>3, <1>4, <2>8, <2>9, <2>10, <2>11, <2>12 DEF DiscoveryInv, DiscoveryType
  <1>7. QED BY <1>5, <1>6 DEF Init

\* A step that leaves the cases and the names alone keeps what is said of them.
LEMMA TablesKept ==
    ASSUME DiscoveryInv, UNCHANGED <<cases, names, number>>
    PROVE  /\ \A n \in names' : NameFits(n)'
           /\ \A c \in DOMAIN cases' : NoticeFits(c)'
           /\ OneNoticePerInvoice'
           /\ (cases \in Seq(CaseRow))'
           /\ \A i : named(i)' <=> named(i)
  BY DEF DiscoveryInv, DiscoveryType, NameFits, NoticeFits, named, OneNoticePerInvoice, CaseRow, Found

\* The run is over, completed or dead.
LEMMA SyncEndKeepsInv ==
    ASSUME DiscoveryInv, syncCompletes \/ syncDies
    PROVE  DiscoveryInv'
  <1>1. UNCHANGED <<cases, names, number, gap, edition>> /\ sync' = Idle
    BY DEF syncCompletes, syncDies, store, books
  <1>2. sync' \in SyncType'
    BY <1>1 DEF Idle, SyncType, Pcs, NoDocument
  <1>3. sync'.todo = {} /\ sync'.pc = "idle"
    BY <1>1 DEF Idle
  <1>4. ListIsFresh' /\ Recording'
    BY <1>3 DEF ListIsFresh, Recording
  <1>5. QED BY <1>1, <1>2, <1>4, TablesKept DEF DiscoveryInv, DiscoveryType

\* classifyLedgerCases changes no invoice and no notice, and what detectShortPays finds is one
\* extract per invoice.
LEMMA SyncLedgerKeepsInv ==
    ASSUME DiscoveryInv, syncLedger
    PROVE  DiscoveryInv'
  <1>1. UNCHANGED <<names, number, gap, edition>>
    BY DEF syncLedger, books
  <1>2. detectShortPays \subseteq Found /\ \A d, e \in detectShortPays : d[1] = e[1] => d = e
    BY DEF detectShortPays, Found, DiscoveryInv, DiscoveryType
  <1>3. PICK k : k = sync'
    OBVIOUS
  <1>4. k.pc = "names" /\ k.todo = detectShortPays /\ k \in SyncType'
    <2>1. k = [pc |-> "names", todo |-> detectShortPays, names |-> {}, open |-> {}, inv |-> << >>,
               case |-> 0, of |-> {}]
      BY <1>3 DEF syncLedger, Idle
    <2>2. QED BY <1>2, <2>1 DEF SyncType, Pcs, NoDocument
  <1>5. ListIsFresh' /\ Recording'
    BY <1>2, <1>3, <1>4 DEF ListIsFresh, Recording
  <1>6. /\ DOMAIN cases' = DOMAIN cases
        /\ \A c \in DOMAIN cases : /\ cases'[c].inv = cases[c].inv /\ cases'[c].doc = cases[c].doc
                                   /\ cases'[c] \in CaseRow
    <2>1. \A c \in DOMAIN cases : cases[c] \in CaseRow
      BY DEF DiscoveryInv, DiscoveryType
    <2>2. QED BY <2>1 DEF syncLedger, CaseRow
  <1>7. cases' \in Seq(CaseRow)
    <2>1. cases \in Seq(CaseRow) /\ DOMAIN cases = 1..Len(cases) /\ Len(cases) \in Nat
      BY DEF DiscoveryInv, DiscoveryType
    <2>2. cases' \in [1..Len(cases) -> CaseRow]
      BY <1>6, <2>1 DEF syncLedger
    <2>3. QED BY <2>1, <2>2
  <1>8. \A n \in names' : NameFits(n)'
    BY <1>1, <1>6 DEF DiscoveryInv, NameFits
  <1>9. \A c \in DOMAIN cases' : NoticeFits(c)'
    BY <1>1, <1>6 DEF DiscoveryInv, NoticeFits, named
  <1>10. OneNoticePerInvoice'
    BY <1>6 DEF DiscoveryInv, OneNoticePerInvoice
  <1>11. QED BY <1>1, <1>3, <1>4, <1>5, <1>7, <1>8, <1>9, <1>10 
         DEF DiscoveryInv, DiscoveryType, CaseRow, Found


\* The sync reads the names: the list is the table.
LEMMA ReadNamesKeepsInv ==
    ASSUME DiscoveryInv, knownIdentifiers
    PROVE  DiscoveryInv'
  <1>1. UNCHANGED <<cases, names, number, gap, edition>>
    BY DEF knownIdentifiers, store, books
  <1>2. sync \in SyncType
    BY DEF DiscoveryInv, DiscoveryType
  <1>3. PICK k : k = sync'
    OBVIOUS
  <1>4. /\ k.pc = "open cases" /\ k.names = names /\ k.todo = sync.todo
        /\ k \in SyncType'
    <2>1. k = [sync EXCEPT !.pc = "open cases", !.names = names]
      BY <1>3 DEF knownIdentifiers
    <2>2. Printed' = Printed /\ names' = names
      BY <1>1 DEF Printed
    <2>3. QED BY <1>2, <2>1, <2>2 DEF SyncType, Pcs
  <1>5. ListIsFresh' /\ Recording'
    BY <1>1, <1>3, <1>4 DEF DiscoveryInv, ListIsFresh, Recording, named, listed
  <1>6. QED BY <1>1, <1>3, <1>4, <1>5, TablesKept DEF DiscoveryInv, DiscoveryType

\* The sync reads the open cases.
LEMMA ReadOpenKeepsInv ==
    ASSUME DiscoveryInv, knownDeductions
    PROVE  DiscoveryInv'
  <1> DEFINE O == {[case |-> n.case, number |-> n.id] : n \in {m \in names : m.kind = "invoice_number"}}
  <1>1. UNCHANGED <<cases, names, number, gap, edition>>
    BY DEF knownDeductions, store, books
  <1>2. sync \in SyncType /\ cases \in Seq(CaseRow)
    BY DEF DiscoveryInv, DiscoveryType
  <1>3. O \subseteq [case : Nat, number : Printed]
    <2>1. SUFFICES ASSUME NEW n \in names, n.kind = "invoice_number"
                   PROVE  n.case \in Nat /\ n.id \in Printed
      OBVIOUS
    <2>2. n.case \in DOMAIN cases /\ n.id = number[cases[n.case].inv]
      BY <2>1 DEF DiscoveryInv, NameFits
    <2>3. n.case \in Nat /\ cases[n.case] \in CaseRow
      BY <1>2, <2>2
    <2>5. cases[n.case].inv \in Invoices
      BY <2>3 DEF CaseRow
    <2>4. QED BY <2>2, <2>3, <2>5 DEF Printed
  <1>4. PICK k : k = sync'
    OBVIOUS
  <1>5. k = [sync EXCEPT !.pc = "next", !.open = O] /\ sync.pc = "open cases"
    BY <1>4 DEF knownDeductions
  <1> HIDE DEF O
  <1>6. /\ k.pc = "next" /\ k.names = sync.names /\ k.todo = sync.todo
        /\ k \in SyncType'
    <2>1. Printed' = Printed /\ names' = names
      BY <1>1 DEF Printed
    <2>2. QED BY <1>2, <1>3, <1>5, <2>1 DEF SyncType, Pcs
  <1>7. ListIsFresh' /\ Recording'
    <2>1. \A j : (named(j)' <=> named(j)) /\ (listed(j)' <=> listed(j))
      BY <1>1, <1>4, <1>6 DEF named, listed
    <2>2. QED BY <1>4, <1>5, <1>6, <2>1 DEF DiscoveryInv, ListIsFresh, Recording
  <1>8. QED BY <1>1, <1>4, <1>6, <1>7, TablesKept DEF DiscoveryInv, DiscoveryType

\* The ledger's names are written on a case whose invoice carries the same number.
LEMMA NamingKeepsTables ==
    ASSUME DiscoveryInv, NEW i \in Invoices, NEW c \in DOMAIN cases,
           number[i] = number[cases[c].inv], UNCHANGED <<cases, number>>,
           names' = insertIdentifiers(ledgerNames(i, c))
    PROVE  /\ names \subseteq names'
           /\ \A n \in names' : NameFits(n)'
           /\ \A e \in DOMAIN cases' : NoticeFits(e)'
           /\ OneNoticePerInvoice'
           /\ (cases \in Seq(CaseRow))'
           /\ \A j : named(j)' <=> named(j) \/ j = i
  <1>1. /\ names \subseteq names'
        /\ \A j : named(j)' <=> named(j) \/ j = i
        /\ \A n \in names' : n \in names \/ n \in ledgerNames(i, c)
    BY LedgerNamesWritten
  <1>2. \A n \in ledgerNames(i, c) : NameFits(n)'
    BY LedgerNamesFit
  <1>3. \A n \in names' : NameFits(n)'
    BY <1>1, <1>2, NamesKeepFitting
  <1>4. \A e \in DOMAIN cases' : NoticeFits(e)'
    BY <1>1 DEF DiscoveryInv, NoticeFits
  <1>5. OneNoticePerInvoice' /\ (cases \in Seq(CaseRow))'
    BY DEF DiscoveryInv, DiscoveryType, OneNoticePerInvoice, CaseRow, Found
  <1>6. QED BY <1>1, <1>3, <1>4, <1>5

\* A candidate is answered: the case that carries it is named, it is declined, or it goes on to be
\* recorded because the list, which is fresh of it, has no name for it.
LEMMA AnswerKeepsInv ==
    ASSUME DiscoveryInv, NEW d \in sync.todo, answer(d)
    PROVE  DiscoveryInv'
  <1>1. UNCHANGED <<cases, number, gap, edition>> /\ sync.pc = "next"
    BY DEF answer, books
  <1>2. /\ sync \in SyncType /\ d \in Found /\ d[1] \in Invoices
        /\ cases \in Seq(CaseRow)
    BY FoundIsOfInvoice DEF DiscoveryInv, DiscoveryType, SyncType
  <1>3. \A e \in sync.todo \ {d} : e[1] # d[1]
    BY DEF DiscoveryInv, ListIsFresh
  <1>4. PICK k : k = sync'
    OBVIOUS
  <1>9. Printed' = Printed
    BY <1>1 DEF Printed
  <1>5. CASE /\ \E c \in exact(d[1]) : names' = insertIdentifiers(ledgerNames(d[1], c))
             /\ sync' = [sync EXCEPT !.todo = @ \ {d}]
    <2>1. PICK c \in exact(d[1]) : names' = insertIdentifiers(ledgerNames(d[1], c))
      BY <1>5
    <2>2. c \in DOMAIN cases /\ number[d[1]] = number[cases[c].inv]
      BY <1>2, ExactCarriesTheNumber
    <2>3. /\ names \subseteq names'
          /\ \A n \in names' : NameFits(n)'
          /\ \A e \in DOMAIN cases' : NoticeFits(e)'
          /\ OneNoticePerInvoice'
          /\ (cases \in Seq(CaseRow))'
          /\ \A j : named(j)' <=> named(j) \/ j = d[1]
      BY <1>1, <1>2, <2>1, <2>2, NamingKeepsTables
    <2>4. /\ k.pc = "next" /\ k.names = sync.names /\ k.todo = sync.todo \ {d}
          /\ k \in SyncType'
      BY <1>1, <1>2, <1>4, <1>5, <1>9, <2>3 DEF SyncType
    <2>5. ListIsFresh' /\ Recording'
      BY <1>1, <1>3, <1>4, <2>3, <2>4 DEF DiscoveryInv, ListIsFresh, Recording, listed
    <2>6. QED BY <1>1, <1>4, <2>3, <2>4, <2>5 DEF DiscoveryInv, DiscoveryType
  <1>6. CASE sync' = [sync EXCEPT !.todo = @ \ {d}] /\ UNCHANGED names
    <2>1. /\ k.pc = "next" /\ k.names = sync.names /\ k.todo = sync.todo \ {d}
          /\ k \in SyncType'
      BY <1>1, <1>2, <1>4, <1>6, <1>9 DEF SyncType
    <2>2. ListIsFresh' /\ Recording'
      <3>1. \A j : (named(j)' <=> named(j)) /\ (listed(j)' <=> listed(j))
        BY <1>4, <1>6, <2>1 DEF named, listed
      <3>2. QED BY <1>1, <1>4, <2>1, <3>1 DEF DiscoveryInv, ListIsFresh, Recording
    <2>3. QED BY <1>1, <1>4, <1>6, <2>1, <2>2, TablesKept DEF DiscoveryInv, DiscoveryType
  <1>7. CASE /\ exact(d[1]) = {} /\ UNCHANGED names
             /\ sync' = [sync EXCEPT !.todo = @ \ {d}, !.pc = "store", !.inv = d, !.of = probable(d[1])]
    <2>1. ~listed(d[1])
      BY <1>7 DEF exact, caseOf, listed
    <2>2. ~named(d[1])
      BY <1>1, <2>1 DEF DiscoveryInv, ListIsFresh
    <2>3. probable(d[1]) \subseteq Nat
      BY <1>2 DEF probable, SyncType
    <2>4. /\ k.pc = "store" /\ k.names = sync.names /\ k.todo = sync.todo \ {d} /\ k.inv = d
          /\ k \in SyncType'
      BY <1>1, <1>2, <1>4, <1>7, <1>9, <2>3 DEF SyncType, Pcs
    <2>5. ListIsFresh' /\ Recording'
      BY <1>1, <1>2, <1>3, <1>4, <1>7, <2>2, <2>4 DEF DiscoveryInv, ListIsFresh, Recording, listed, named
    <2>6. QED BY <1>1, <1>4, <1>7, <2>4, <2>5, TablesKept DEF DiscoveryInv, DiscoveryType
  <1>8. QED BY <1>5, <1>6, <1>7 DEF answer

\* The sync between two steps of one recording: the cases and names it knows keep their relation
\* to the tables.
LEMMA FreshKept ==
    ASSUME DiscoveryInv, sync.pc \in {"store", "open", "link"},
           sync'.todo = sync.todo, sync'.names = sync.names,
           \A j : named(j)' <=> named(j) \/ j = sync.inv[1]
    PROVE  ListIsFresh'
  <1>1. \A j : listed(j)' <=> listed(j)
    BY DEF listed
  <1>2. \A d \in sync.todo : d[1] # sync.inv[1]
    BY DEF DiscoveryInv, Recording
  <1>3. QED BY <1>1, <1>2 DEF DiscoveryInv, ListIsFresh

\* The extract is stored.  No case has it as its notice already: its invoice would be named.
LEMMA StoreKeepsInv ==
    ASSUME DiscoveryInv, storeExtract
    PROVE  DiscoveryInv'
  <1>1. UNCHANGED <<cases, number, gap, edition>> /\ sync.pc = "store"
    BY DEF storeExtract, books
  <1>2. sync.inv \in Found /\ sync.inv # NoDocument /\ ~named(sync.inv[1])
    BY <1>1, FoundIsOfInvoice DEF DiscoveryInv, Recording
  <1>3. {c \in DOMAIN cases : cases[c].doc = sync.inv} = {}
    BY <1>2 DEF DiscoveryInv, NoticeFits
  <1>4. sync' = [sync EXCEPT !.pc = "open"] /\ names' = names
    BY <1>3 DEF storeExtract
  <1>5. sync \in SyncType /\ Printed' = Printed
    BY <1>1 DEF DiscoveryInv, DiscoveryType, Printed
  <1>6. PICK k : k = sync'
    OBVIOUS
  <1>7. /\ k.pc = "open" /\ k.todo = sync.todo /\ k.names = sync.names /\ k.inv = sync.inv
        /\ k \in SyncType'
    BY <1>4, <1>5, <1>6 DEF SyncType, Pcs
  <1>8. \A j : (named(j)' <=> named(j)) /\ (listed(j)' <=> listed(j))
    BY <1>4, <1>6, <1>7 DEF named, listed
  <1>9. ListIsFresh' /\ Recording'
    BY <1>1, <1>6, <1>7, <1>8 DEF DiscoveryInv, ListIsFresh, Recording
  <1>10. QED BY <1>1, <1>4, <1>6, <1>7, <1>9, TablesKept DEF DiscoveryInv, DiscoveryType

\* A case added at the end, with no notice yet.
LEMMA CaseAdded ==
    ASSUME DiscoveryInv, number' = number,
           NEW k \in CaseRow, k.doc = NoDocument, cases' = Append(cases, k),
           names \subseteq names', \A j : named(j)' <=> named(j)
    PROVE  /\ Len(cases) + 1 \in DOMAIN cases' /\ cases'[Len(cases) + 1] = k
           /\ \A c \in DOMAIN cases : c \in DOMAIN cases' /\ cases'[c] = cases[c]
           /\ \A c \in DOMAIN cases' : NoticeFits(c)'
           /\ OneNoticePerInvoice'
           /\ (cases \in Seq(CaseRow))'
  <1>1. cases \in Seq(CaseRow)
    BY DEF DiscoveryInv, DiscoveryType
  <1>2. cases' \in Seq(CaseRow) /\ Len(cases') = Len(cases) + 1
    BY <1>1
  <1>3. Len(cases) + 1 \in DOMAIN cases' /\ cases'[Len(cases) + 1] = k
    BY <1>1
  <1>4. \A c \in DOMAIN cases : c \in DOMAIN cases' /\ cases'[c] = cases[c]
    BY <1>1
  <1>5. \A c \in DOMAIN cases' : c \in DOMAIN cases \/ c = Len(cases) + 1
    BY <1>1
  <1>6. \A c \in DOMAIN cases' : NoticeFits(c)'
    BY <1>3, <1>4, <1>5 DEF DiscoveryInv, NoticeFits
  <1>7. OneNoticePerInvoice'
    BY <1>3, <1>4, <1>5 DEF DiscoveryInv, OneNoticePerInvoice
  <1>8. QED BY <1>2, <1>3, <1>4, <1>6, <1>7 DEF CaseRow, Found

\* The sync opens a case for the extract.
LEMMA OpenKeepsInv ==
    ASSUME DiscoveryInv, openCase
    PROVE  DiscoveryInv'
  <1>1. UNCHANGED <<names, number, gap, edition>> /\ sync.pc = "open"
    BY DEF openCase, books
  <1>2. sync.inv \in Found /\ sync.inv[1] \in Invoices /\ sync \in SyncType /\ Len(cases) \in Nat
    BY <1>1, FoundIsOfInvoice DEF DiscoveryInv, Recording, DiscoveryType
  <1>3. PICK r : r = [inv |-> sync.inv[1], doc |-> NoDocument, state |-> "discovered", of |-> {}]
    OBVIOUS
  <1>4. r \in CaseRow /\ r.doc = NoDocument /\ r.inv = sync.inv[1]
    BY <1>2, <1>3 DEF CaseRow
  <1>5. cases' = Append(cases, r) /\ sync' = [sync EXCEPT !.pc = "link", !.case = Len(cases) + 1]
    BY <1>3 DEF openCase
  <1>6. \A j : named(j)' <=> named(j)
    BY <1>1 DEF named
  <1>7. /\ Len(cases) + 1 \in DOMAIN cases' /\ cases'[Len(cases) + 1] = r
        /\ \A c \in DOMAIN cases : c \in DOMAIN cases' /\ cases'[c] = cases[c]
        /\ \A c \in DOMAIN cases' : NoticeFits(c)'
        /\ OneNoticePerInvoice'
        /\ (cases \in Seq(CaseRow))'
    BY <1>1, <1>4, <1>5, <1>6, CaseAdded
  <1>8. \A n \in names' : NameFits(n)'
    BY <1>1, <1>7, NamesKeepFitting
  <1>9. PICK k : k = sync'
    OBVIOUS
  <1>10. /\ k.pc = "link" /\ k.todo = sync.todo /\ k.names = sync.names /\ k.inv = sync.inv
         /\ k.case = Len(cases) + 1 /\ k \in SyncType'
    <2>1. Printed' = Printed
      BY <1>1 DEF Printed
    <2>2. PICK m \in Nat : m = Len(cases) + 1
      BY <1>2
    <2>3. k = [sync EXCEPT !.pc = "link", !.case = m]
      BY <1>5, <1>9, <2>2
    <2>4. k.case = m /\ k.pc = "link" /\ k.todo = sync.todo /\ k.names = sync.names /\ k.inv = sync.inv
      BY <1>2, <2>3 DEF SyncType
    <2>5. k \in SyncType'
      BY <1>1, <1>2, <2>1, <2>3 DEF SyncType, Pcs
    <2>6. QED BY <2>2, <2>4, <2>5
  <1>11. \A j : listed(j)' <=> listed(j)
    BY <1>9, <1>10 DEF listed
  <1>12. ListIsFresh' /\ Recording'
    BY <1>1, <1>4, <1>6, <1>7, <1>9, <1>10, <1>11 DEF DiscoveryInv, ListIsFresh, Recording
  <1>13. QED BY <1>1, <1>7, <1>8, <1>9, <1>10, <1>12 DEF DiscoveryInv, DiscoveryType

\* The case is linked to its notice, named and classified in one transaction: it is the first and
\* only one of its invoice.
LEMMA LinkKeepsInv ==
    ASSUME DiscoveryInv, linkNotice
    PROVE  DiscoveryInv'
  <1> DEFINE i == sync.inv[1]
             x == sync.case
             N == [cases[x] EXCEPT !.doc = sync.inv, !.state = "classified", !.of = sync.of]
  <1>1. UNCHANGED <<number, gap, edition>> /\ sync.pc = "link"
    BY DEF linkNotice, books
  <1>2. /\ sync.inv \in Found /\ i \in Invoices /\ sync \in SyncType
        /\ sync.inv # NoDocument /\ sync.of \subseteq Nat
    BY <1>1, FoundIsOfInvoice DEF DiscoveryInv, Recording, DiscoveryType, SyncType
  <1>3. /\ x \in DOMAIN cases /\ cases[x].inv = i /\ ~named(i)
        /\ \A d \in sync.todo : d[1] # i
    BY <1>1 DEF DiscoveryInv, Recording
  <1>4. cases \in Seq(CaseRow) /\ cases[x] \in CaseRow
    BY <1>3 DEF DiscoveryInv, DiscoveryType
  <1>5. PICK k : k = N
    OBVIOUS
  <1>6. k \in CaseRow /\ k.doc = sync.inv /\ k.inv = i
    BY <1>2, <1>3, <1>4, <1>5 DEF CaseRow
  <1>7. cases' = [cases EXCEPT ![x] = k]
    BY <1>5 DEF linkNotice
  <1>8. names' = insertIdentifiers(ledgerNames(i, x))
    BY DEF linkNotice
  <1> HIDE DEF N, i, x
  <1>9. /\ cases' \in Seq(CaseRow) /\ DOMAIN cases' = DOMAIN cases /\ cases'[x] = k
        /\ \A c \in DOMAIN cases : c # x => cases'[c] = cases[c]
    BY <1>3, <1>4, <1>6, <1>7
  <1>10. /\ names \subseteq names'
         /\ \A j : named(j)' <=> named(j) \/ j = i
         /\ \A n \in names' : n \in names \/ n \in ledgerNames(i, x)
    BY <1>8, LedgerNamesWritten
  <1>11. \A n \in names' : NameFits(n)'
    <2>1. \A n \in ledgerNames(i, x) : NameFits(n)'
      BY <1>1, <1>2, <1>3, <1>6, <1>9, LedgerNamesFit
    <2>2. \A c \in DOMAIN cases : c \in DOMAIN cases' /\ cases'[c].inv = cases[c].inv
      BY <1>3, <1>6, <1>9
    <2>3. QED BY <1>1, <1>10, <2>1, <2>2, NamesKeepFitting
  <1>12. \A c \in DOMAIN cases' : NoticeFits(c)'
    <2>1. ASSUME NEW c \in DOMAIN cases, c = x PROVE NoticeFits(c)'
      BY <1>6, <1>9, <1>10, <2>1 DEF NoticeFits, i
    <2>2. ASSUME NEW c \in DOMAIN cases, c # x PROVE NoticeFits(c)'
      BY <1>9, <1>10, <2>2 DEF DiscoveryInv, NoticeFits
    <2>3. QED BY <1>9, <2>1, <2>2
  <1>13. OneNoticePerInvoice'
    <2>1. \A c \in DOMAIN cases : cases[c].doc # NoDocument => cases[c].inv # i
      BY <1>3 DEF DiscoveryInv, NoticeFits
    <2>2. QED BY <1>6, <1>9, <2>1 DEF DiscoveryInv, OneNoticePerInvoice
  <1>14. PICK s : s = sync'
    OBVIOUS
  <1>15. s = [sync EXCEPT !.pc = "next", !.inv = NoDocument, !.case = 0, !.of = {}]
    BY <1>14 DEF linkNotice, answered, NoDocument
  <1>16. s.pc = "next" /\ s.todo = sync.todo /\ s.names = sync.names /\ s \in SyncType'
    <2>1. Printed' = Printed
      BY <1>1 DEF Printed
    <2>2. QED BY <1>2, <1>10, <1>15, <2>1 DEF SyncType, Pcs
  <1>17. ListIsFresh'
    BY <1>1, <1>10, <1>14, <1>16, FreshKept DEF i
  <1>18. Recording'
    BY <1>14, <1>16 DEF Recording
  <1>19. QED BY <1>1, <1>9, <1>11, <1>12, <1>13, <1>14, <1>16, <1>17, <1>18
         DEF DiscoveryInv, DiscoveryType, CaseRow, Found

\* A sync that does not move keeps what it knows while names that are not the ledger's are added.
LEMMA SyncWaits ==
    ASSUME DiscoveryInv, UNCHANGED <<sync, number>>, names \subseteq names',
           \A j : named(j)' <=> named(j),
           \A c \in DOMAIN cases : c \in DOMAIN cases' /\ cases'[c] = cases[c]
    PROVE  sync' \in SyncType' /\ ListIsFresh' /\ Recording'
  <1>1. \A j : listed(j)' <=> listed(j)
    BY DEF listed
  <1>2. ListIsFresh'
    BY <1>1 DEF DiscoveryInv, ListIsFresh
  <1>3. Recording'
    BY DEF DiscoveryInv, Recording, Found
  <1>4. Printed' = Printed /\ sync \in SyncType
    BY DEF Printed, DiscoveryInv, DiscoveryType
  <1>5. sync' \in SyncType'
    BY <1>4 DEF SyncType
  <1>6. QED BY <1>2, <1>3, <1>5

\* The books change under the sync: its candidates are what it found.
LEMMA BooksKeepInv ==
    ASSUME DiscoveryInv, NEW i \in Invoices, NEW g \in {"small", "large"}, booksChange(i, g)
    PROVE  DiscoveryInv'
  <1>1. UNCHANGED <<cases, names, number, sync>>
    BY DEF booksChange, store
  <1>2. /\ gap' \in [Invoices -> {"none", "small", "large"}]
        /\ edition' \in [Invoices -> Nat]
    BY DEF DiscoveryInv, DiscoveryType, booksChange
  <1>3. \A j : named(j)' <=> named(j)
    BY <1>1 DEF named
  <1>4. QED BY <1>1, <1>2, <1>3, SyncWaits, TablesKept DEF DiscoveryInv, DiscoveryType

\* A paper opens a case and names it by its number, never by a ledger id.
LEMMA PaperKeepsInv ==
    ASSUME DiscoveryInv, NEW i \in Invoices, paperOpens(i)
    PROVE  DiscoveryInv'
  <1>1. UNCHANGED <<number, gap, edition, sync>>
    BY DEF paperOpens, books
  <1>2. PICK r : r = [inv |-> i, doc |-> NoDocument, state |-> "classified", of |-> {}]
    OBVIOUS
  <1>3. r \in CaseRow /\ r.doc = NoDocument /\ r.inv = i
    BY <1>2 DEF CaseRow
  <1>4. PICK p : p = [source |-> "paper", kind |-> "invoice_number", id |-> number[i],
                      case |-> Len(cases) + 1]
    OBVIOUS
  <1>5. p.kind = "invoice_number" /\ p.id = number[i] /\ p.case = Len(cases) + 1
    BY <1>4
  <1>6. cases' = Append(cases, r) /\ names' = insertIdentifiers({p})
    BY <1>2, <1>4 DEF paperOpens
  <1>7. names \subseteq names' /\ \A n \in names' : n \in names \/ n = p
    BY <1>6, RowsInserted
  <1>8. \A j : named(j)' <=> named(j)
    BY <1>5, <1>7 DEF named
  <1>9. /\ Len(cases) + 1 \in DOMAIN cases' /\ cases'[Len(cases) + 1] = r
        /\ \A c \in DOMAIN cases : c \in DOMAIN cases' /\ cases'[c] = cases[c]
        /\ \A c \in DOMAIN cases' : NoticeFits(c)'
        /\ OneNoticePerInvoice'
        /\ (cases \in Seq(CaseRow))'
    BY <1>1, <1>3, <1>6, <1>7, <1>8, CaseAdded
  <1>10. NameFits(p)'
    BY <1>1, <1>3, <1>5, <1>9 DEF NameFits
  <1>11. \A n \in names' : NameFits(n)'
    BY <1>1, <1>7, <1>9, <1>10, NamesKeepFitting
  <1>12. sync' \in SyncType' /\ ListIsFresh' /\ Recording'
    BY <1>1, <1>7, <1>8, <1>9, SyncWaits
  <1>13. QED BY <1>1, <1>9, <1>11, <1>12 DEF DiscoveryInv, DiscoveryType

-----------------------------------------------------------------------------
(* Theorems *)

\* Every step of the sync, the books and the papers keeps the invariant.
LEMMA DiscoveryStep ==
    DiscoveryInv /\ [Next]_vars => DiscoveryInv'
  <1> SUFFICES ASSUME DiscoveryInv, [Next]_vars PROVE DiscoveryInv'
    OBVIOUS
  <1>1. CASE UNCHANGED vars
    <2>1. UNCHANGED <<cases, names, number, sync, gap, edition>>
      BY <1>1 DEF vars, store, books
    <2>2. \A j : named(j)' <=> named(j)
      BY <2>1 DEF named
    <2>3. QED BY <2>1, <2>2, SyncWaits, TablesKept DEF DiscoveryInv, DiscoveryType
  <1>2. CASE SyncStep
    BY <1>2, SyncLedgerKeepsInv, ReadNamesKeepsInv, ReadOpenKeepsInv, AnswerKeepsInv, StoreKeepsInv,
       OpenKeepsInv, LinkKeepsInv, SyncEndKeepsInv DEF SyncStep
  <1>3. QED BY <1>1, <1>2, SyncEndKeepsInv, BooksKeepInv, PaperKeepsInv DEF Next

\* The inductive invariant: the list a sync answers from is not stale for the invoices it has still
\* to answer, whatever the paper readers and the books did since it was read.
THEOREM DiscoveryInvariance == Spec => []DiscoveryInv
  BY DiscoveryInit, DiscoveryStep, PTL DEF Spec

\* However often syncs die and start over, and whatever number invoices share, one invoice is the
\* notice of at most one case.
THEOREM OneCasePerShortPayment == Spec => []OneNoticePerInvoice
  <1>1. DiscoveryInv => OneNoticePerInvoice
    BY DEF DiscoveryInv
  <1>2. QED BY <1>1, DiscoveryInvariance, PTL

\* The ledger's names on one case are of invoices that carry one number.
THEOREM LedgerNamesAgree == Spec => []NamesAgree
  <1>1. DiscoveryInv => NamesAgree
    BY DEF DiscoveryInv, NameFits, NamesAgree
  <1>2. QED BY <1>1, DiscoveryInvariance, PTL

=============================================================================
