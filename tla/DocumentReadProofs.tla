------------------------- MODULE DocumentReadProofs -------------------------
(***************************************************************************)
(* The document pipeline, for any documents, pages, runs, retries and      *)
(* faults.                                                                 *)
(*                                                                         *)
(* ReadInv says what the tables and the runs know of each other: one run   *)
(* holds a document's lease, a run that came to open or to file is a       *)
(* person's, and a run on its way to a case has no held document in its    *)
(* hands unless a person acted.  From it the pipeline implements           *)
(* DocumentFate.  NoticeInv adds how far the opening of a notice has come, *)
(* LineInv what a line's claim on its invoice protects.                    *)
(***************************************************************************)
EXTENDS DocumentRead, FiniteSetTheorems, TLAPS

Posted == {"link", "names", "flag", "classify"}   \* the case is inserted and not yet open
ForLines == {"connect", "lock", "merge", "flag"}  \* what only the lines of a remittance go through
OnTheWay == {"next", "look", "release", "resolve", "insert"} \cup Posted \cup ForLines
Leased == {"check", "record", "hold", "attach", "failing"} \cup OnTheWay

Claims == {p[d].lines[n].claim : p \in Pages, d \in Documents, n \in Nat}
Billed == {p[d].lines[n].invoice : p \in Pages, d \in Documents, n \in Nat}
CaseRow == [claim : Claims, invoice : Billed, payer : BOOLEAN, doc : Documents, kind : Kinds,
            by : {"read", "open"}, open : BOOLEAN, flags : SUBSET Nat]
RunType == [pc : {"idle", "lease"} \cup Leased, doc : Documents \cup {"nothing"}, by : {"read", "open"},
            mayOpen : BOOLEAN, attach : Nat, tries : Nat, kind : Kinds, fits : BOOLEAN, line : Nat,
            case : Nat, same : SUBSET Nat, like : SUBSET Nat, here : SUBSET Nat, again : BOOLEAN]
EventType == [doc : Documents, mayOpen : BOOLEAN, attach : Nat, tries : Nat]

ReadType ==
    /\ page \in Pages
    /\ scan \in [Documents -> {"absent", "stored", "clean", "refused", "error"}]
    /\ extraction \in [Documents -> Kinds \cup {"none"}]
    /\ hold \subseteq Documents
    /\ cases \in Seq(CaseRow)
    /\ links \subseteq Documents \X Nat
    /\ queue \subseteq EventType
    /\ run \in [Workers -> RunType]
    /\ faults \in Nat

arrived(d) == scan[d] # "absent"
\* A sheet nobody had mapped when it was read.
unmapped(d) == page[d].kind = "report" /\ (d \notin mapped \/ d \in byHand)

CaseFits(c) ==
    /\ cases[c].kind = page[cases[c].doc].kind
    /\ cases[c].kind = "deduction_notice" => cases[c].claim = page[cases[c].doc].lines[1].claim

NameFits(n) ==
    /\ n.case \in DOMAIN cases
    /\ n.kind = "invoice_number" => n.id = cases[n.case].invoice

DocumentFits(d) ==
    /\ extraction[d] # "none" => arrived(d) /\ extraction[d] = page[d].kind
    /\ d \in hold => arrived(d) /\ (extraction[d] # "none" \/ unmapped(d))

LinkFits(l) == arrived(l[1]) /\ l[2] \in DOMAIN cases

\* Who files a document on a case is a person.
AskFits(d, c) == arrived(d) /\ (c # 0 => c \in DOMAIN cases /\ d \in byHand)

TablesFit ==
    /\ \A c \in DOMAIN cases : CaseFits(c)
    /\ \A n \in names : NameFits(n)
    /\ \A d \in Documents : DocumentFits(d)
    /\ \A l \in links : LinkFits(l)
    /\ \A e \in queue : AskFits(e.doc, e.attach)

lineAt(r) == page[r.doc].lines[r.line]
CaseOfRun(r) ==
    /\ r.case \in DOMAIN cases /\ ~cases[r.case].open
    /\ cases[r.case].doc = r.doc /\ cases[r.case].kind = r.kind
    /\ cases[r.case].claim = lineAt(r).claim /\ cases[r.case].invoice = lineAt(r).invoice

\* What a run knows of the tables.
RunFits(r) ==
    /\ r.pc # "idle" => r.doc \in Documents /\ AskFits(r.doc, r.attach)
    /\ r.by = "open" => r.doc \in byHand
    /\ r.pc \in Leased \ {"check"} => r.kind = page[r.doc].kind
    /\ r.pc \in Leased \ {"check"} /\ r.by = "open" => extraction[r.doc] # "none"
    /\ r.pc \in {"lease", "check"} => r.line = 1
    /\ r.pc = "attach" => r.attach # 0
    /\ r.pc = "hold" => extraction[r.doc] # "none" \/ unmapped(r.doc)
    /\ r.pc \in OnTheWay \cup {"record"} => (r.doc \in hold => r.doc \in byHand)
    /\ r.pc = "release" => r.by = "open"
    /\ r.pc \in {"next", "look"} => r.kind # "deduction_notice"
    /\ r.pc \in ForLines => r.kind = "remittance_advice"
    /\ r.kind = "deduction_notice" => r.line = 1
    /\ r.pc \in Posted => CaseOfRun(r)
    /\ r.here \subseteq DOMAIN cases /\ \A k \in r.here : cases[k].doc = r.doc

\* withDocumentRead: one run at a time has a document.
OneLease ==
    \A v, w \in Workers :
        run[v].pc \in Leased /\ run[w].pc \in Leased /\ run[v].doc = run[w].doc => v = w

ReadInv ==
    /\ ReadType /\ TablesFit
    /\ \A w \in Workers : RunFits(run[w])
    /\ OneLease

-----------------------------------------------------------------------------
\* A notice with a claim id gives its case the name in the transaction that inserts it.
ClaimIsNamed(c) ==
    cases[c].kind = "deduction_notice" /\ cases[c].claim # NoClaim =>
        \E n \in names : /\ n.source = page[cases[c].doc].source /\ n.kind = "claim_id"
                         /\ n.id = cases[c].claim

openedFrom(d) == {c \in DOMAIN cases : cases[c].doc = d}

\* While nothing fails, a notice with a case has a run that will link and record it, or has both.
NoticeGoesOn(d) ==
    faults = 0 /\ page[d].kind = "deduction_notice" /\ openedFrom(d) # {} =>
        \/ \E w \in Workers : run[w].doc = d /\ run[w].pc \in Posted
        \/ /\ onCase(d)
           /\ \/ extraction[d] # "none"
              \/ \E w \in Workers : run[w].doc = d /\ run[w].pc = "record"

\* A run on its way to a notice's case is the first, and has linked the case before it opens it.
NoticeFirst(r) ==
    r.kind = "deduction_notice" =>
        /\ faults = 0 /\ r.pc \in {"resolve", "insert"} => openedFrom(r.doc) = {}
        /\ r.pc = "classify" => onCase(r.doc)

NoticeInv ==
    /\ \A c \in DOMAIN cases : ClaimIsNamed(c)
    /\ \A d \in Documents : NoticeGoesOn(d)
    /\ \A w \in Workers : NoticeFirst(run[w])
    /\ \A d \in Documents :
          page[d].kind = "deduction_notice" /\ (page[d].lines[1].claim # NoClaim \/ faults = 0)
          => \A b, c \in openedFrom(d) : b = c

-----------------------------------------------------------------------------
Locked == {"look", "merge"} \cup OpeningSteps
locks(r) == r.kind = "remittance_advice" /\ r.pc \in Locked

OneClaim ==
    \A v, w \in Workers :
        locks(run[v]) /\ locks(run[w]) /\ lineAt(run[v]).invoice = lineAt(run[w]).invoice => v = w

\* The names an open case of a line was given, or found taken.
ClaimHasName(claim) == claimed(claim) # {} \/ claim = NoClaim

InvoiceIsNamed(invoice) == named("invoice_number", invoice) # {}

\* What a run of lines knows while it has the invoice.
LineFresh(r) ==
    r.pc \in {"insert"} \cup Posted =>
        \A i \in lineCases :
            ~(/\ cases[i].claim = lineAt(r).claim /\ cases[i].claim # NoClaim
              /\ cases[i].invoice = lineAt(r).invoice)

LineNamed(r) ==
    r.pc \in {"flag", "classify"} =>
        ClaimHasName(lineAt(r).claim) /\ InvoiceIsNamed(lineAt(r).invoice)

\* A case of another remittance for this invoice is seen, or a line of this one hides it.
LineSees(r) ==
    /\ r.pc \in {"resolve", "insert"} /\ r.like = {}
          /\ (\E i \in lineCases : cases[i].invoice = lineAt(r).invoice /\ cases[i].doc # r.doc)
        => \E k \in DOMAIN cases : cases[k].doc = r.doc /\ cases[k].invoice = lineAt(r).invoice
    /\ r.pc \in Posted /\ r.like = {}
          /\ (\E i \in lineCases : cases[i].invoice = lineAt(r).invoice /\ cases[i].doc # r.doc)
        => siblingBefore(r.case)
    /\ r.pc \in Posted =>
          \A j \in lineCases : cases[j].invoice = lineAt(r).invoice => j < r.case
    /\ r.pc = "classify" => cases[r.case].flags = r.like

LineKnows(r) == locks(r) => LineFresh(r) /\ LineNamed(r) /\ LineSees(r)

LineInv ==
    /\ OneClaim
    /\ \A i \in lineCases :
          ClaimHasName(cases[i].claim) /\ InvoiceIsNamed(cases[i].invoice)
    /\ \A w \in Workers : LineKnows(run[w])
    /\ OneCasePerLine /\ SameInvoiceIsFlagged

(* What steps have in common *)

\* The tables only grow: rows keep what they say, a reading stays, and who maps a sheet is a person.
TablesGrow ==
    /\ page' = page
    /\ \A c \in DOMAIN cases :
          /\ c \in DOMAIN cases'
          /\ cases'[c].claim = cases[c].claim /\ cases'[c].invoice = cases[c].invoice
          /\ cases'[c].doc = cases[c].doc /\ cases'[c].kind = cases[c].kind
    /\ names \subseteq names' /\ byHand \subseteq byHand'
    /\ \A d \in Documents : arrived(d) => arrived(d)'
    /\ \A d \in Documents : extraction[d] # "none" => extraction'[d] # "none"
    /\ \A d \in mapped' : d \in mapped \/ d \in byHand'

\* A line of a page prints a claim and an invoice.
LEMMA LinePrints ==
    ASSUME ReadInv, NEW d \in Documents, NEW n \in Nat
    PROVE  page[d].lines[n].claim \in Claims /\ page[d].lines[n].invoice \in Billed
  BY DEF ReadInv, ReadType, Claims, Billed

\* What the pages say of a document.
LEMMA PageSays ==
    ASSUME ReadInv, NEW d \in Documents
    PROVE  page[d].kind \in Kinds /\ page[d].payer \in BOOLEAN
  BY PageAssumption DEF ReadInv, ReadType

\* A run that only goes to another step.
LEMMA Moved ==
    ASSUME NEW q \in RunType, NEW p \in {"idle", "lease"} \cup Leased, NEW r, r = [q EXCEPT !.pc = p]
    PROVE  /\ r \in RunType /\ r.pc = p
           /\ r.doc = q.doc /\ r.by = q.by /\ r.mayOpen = q.mayOpen /\ r.attach = q.attach
           /\ r.kind = q.kind /\ r.fits = q.fits /\ r.line = q.line /\ r.case = q.case
           /\ r.same = q.same /\ r.like = q.like /\ r.here = q.here
  BY DEF RunType

\* The run of a worker without one.
LEMMA IdleFits ==
    /\ Idle \in RunType /\ Idle.pc = "idle" /\ Idle.by = "read" /\ Idle.kind = "other" /\ Idle.here = {}
    /\ Idle.doc = "nothing" /\ Idle.attach = 0 /\ Idle.case = 0 /\ Idle.like = {} /\ Idle.line = 1
    /\ RunFits(Idle)
  <1>1. /\ Idle \in RunType /\ Idle.pc = "idle" /\ Idle.by = "read" /\ Idle.kind = "other" /\ Idle.here = {}
        /\ Idle.doc = "nothing" /\ Idle.attach = 0 /\ Idle.case = 0 /\ Idle.like = {} /\ Idle.line = 1
    BY DEF Idle, RunType, Kinds
  <1>2. RunFits(Idle)
    BY <1>1 DEF RunFits, Leased, OnTheWay, Posted, ForLines
  <1>3. QED BY <1>1, <1>2

\* What was asked for stays as it was asked.
LEMMA AskKept ==
    ASSUME TablesGrow, NEW d \in Documents, NEW c, AskFits(d, c)
    PROVE  AskFits(d, c)'
  BY DEF TablesGrow, AskFits

\* The case of a run stays its case until somebody opens it.
LEMMA CaseOfRunKept ==
    ASSUME TablesGrow, NEW r, CaseOfRun(r), cases'[r.case].open = cases[r.case].open
    PROVE  CaseOfRun(r)'
  BY DEF TablesGrow, CaseOfRun, lineAt

\* A run knows what it knew while the tables grow and its document is not held behind its back.
LEMMA RunKept ==
    ASSUME TablesGrow, NEW r \in RunType, RunFits(r),
           r.pc \in Leased => (r.doc \in hold' => r.doc \in hold),
           r.pc \in Posted => cases'[r.case].open = cases[r.case].open
    PROVE  RunFits(r)'
  <1>1. r.pc # "idle" => r.doc \in Documents /\ AskFits(r.doc, r.attach)'
    BY AskKept DEF RunFits
  <1>2. r.pc \in Posted => CaseOfRun(r)'
    BY CaseOfRunKept DEF RunFits
  <1>3. r.pc \in Leased => r.doc \in Documents
    BY DEF RunFits, Leased, OnTheWay, Posted, ForLines
  <1>4. r.pc \in OnTheWay \cup {"record"} => r.pc \in Leased
    BY DEF Leased
  <1>5. /\ r.by = "open" => r.doc \in byHand'
        /\ r.pc \in Leased \ {"check"} => r.kind = page'[r.doc].kind
        /\ r.pc \in Leased \ {"check"} /\ r.by = "open" => extraction'[r.doc] # "none"
        /\ r.pc = "attach" => r.attach # 0
        /\ r.pc \in {"lease", "check"} => r.line = 1
        /\ r.pc \in OnTheWay \cup {"record"} => (r.doc \in hold' => r.doc \in byHand')
        /\ r.pc = "release" => r.by = "open"
        /\ r.pc \in {"next", "look"} => r.kind # "deduction_notice"
        /\ r.pc \in ForLines => r.kind = "remittance_advice"
        /\ r.kind = "deduction_notice" => r.line = 1
    BY <1>3, <1>4 DEF RunFits, TablesGrow
  <1>6. r.pc = "hold" => extraction'[r.doc] # "none" \/ unmapped(r.doc)'
    BY <1>3 DEF RunFits, TablesGrow, unmapped, Leased
  <1>7. /\ r.here \subseteq DOMAIN cases' /\ \A k \in r.here : cases'[k].doc = r.doc
    BY DEF RunFits, TablesGrow
  <1>8. QED BY <1>1, <1>2, <1>5, <1>6, <1>7 DEF RunFits

\* The rows that were there still fit.
LEMMA RowsKept ==
    ASSUME ReadInv, TablesGrow
    PROVE  /\ \A c \in DOMAIN cases : CaseFits(c)'
           /\ \A n \in names : NameFits(n)'
           /\ \A l \in links : LinkFits(l)'
           /\ \A e \in queue : AskFits(e.doc, e.attach)'
  <1>1. \A c \in DOMAIN cases : CaseFits(c)'
    BY DEF ReadInv, TablesFit, TablesGrow, CaseFits
  <1>2. \A n \in names : NameFits(n)'
    BY DEF ReadInv, TablesFit, TablesGrow, NameFits
  <1>3. \A l \in links : LinkFits(l)'
    BY DEF ReadInv, ReadType, TablesFit, TablesGrow, LinkFits
  <1>4. ASSUME NEW e \in queue PROVE AskFits(e.doc, e.attach)'
    <2>1. e.doc \in Documents /\ AskFits(e.doc, e.attach)
      BY DEF ReadInv, ReadType, TablesFit, EventType
    <2>2. QED BY <2>1, AskKept
  <1>5. QED BY <1>1, <1>2, <1>3, <1>4

\* One worker moves: the others know what they knew, and nobody gets a document that is leased.
LEMMA OneWorkerMoves ==
    ASSUME ReadInv, TablesGrow, NEW w \in Workers, NEW r \in RunType,
           run' = [run EXCEPT ![w] = r], RunFits(r)',
           r.pc \in Leased =>
               \/ run[w].pc \in Leased /\ run[w].doc = r.doc
               \/ \A v \in Workers : ~(run[v].pc \in Leased /\ run[v].doc = r.doc),
           \A v \in Workers \ {w} :
               /\ run[v].pc \in Leased => (run[v].doc \in hold' => run[v].doc \in hold)
               /\ run[v].pc \in Posted => cases'[run[v].case].open = cases[run[v].case].open
    PROVE  /\ run' \in [Workers -> RunType]
           /\ \A v \in Workers : RunFits(run[v])'
           /\ OneLease'
  <1>1. run \in [Workers -> RunType]
    BY DEF ReadInv, ReadType
  <1>2. run' \in [Workers -> RunType] /\ run'[w] = r /\ \A v \in Workers \ {w} : run'[v] = run[v]
    BY <1>1
  <1>3. ASSUME NEW v \in Workers PROVE RunFits(run[v])'
    <2>1. CASE v = w
      <3>1. PICK q : q = run'[v]
        OBVIOUS
      <3>2. q = r
        BY <1>2, <2>1, <3>1
      <3>3. RunFits(q)' <=> RunFits(run[v])'
        BY <3>1 DEF RunFits, AskFits, CaseOfRun, lineAt, unmapped, arrived
      <3>4. RunFits(q)'
        BY <3>2
      <3>5. QED BY <3>3, <3>4
    <2>2. CASE v # w
      <3>1. PICK q : q = run[v]
        OBVIOUS
      <3>2. q \in RunType /\ RunFits(q) /\ run'[v] = q
        BY <1>1, <1>2, <2>2, <3>1 DEF ReadInv
      <3>3. RunFits(q)'
        BY <2>2, <3>1, <3>2, RunKept
      <3>4. RunFits(q)' <=> RunFits(run[v])'
        BY <3>2 DEF RunFits, AskFits, CaseOfRun, lineAt, unmapped, arrived
      <3>5. QED BY <3>3, <3>4
    <2>3. QED BY <2>1, <2>2
  <1>4. OneLease'
    BY <1>2 DEF ReadInv, OneLease
  <1>5. QED BY <1>2, <1>3, <1>4

\* Nothing is written but the queue: it is enough that the worker's own next run fits.
LEMMA QuietGrows ==
    ASSUME UNCHANGED <<page, rows>>
    PROVE  TablesGrow
  BY DEF TablesGrow, rows, arrived

\* What is written beside the runs, when nothing is but the queue.
LEMMA QuietTables ==
    ASSUME ReadInv, UNCHANGED <<page, rows>>, queue' \subseteq EventType,
           \A e \in queue' : e \in queue \/ AskFits(e.doc, e.attach),
           faults' \in Nat, run' \in [Workers -> RunType]
    PROVE  ReadType' /\ TablesFit'
  <1>1. TablesGrow
    BY QuietGrows
  <1>2. ReadType'
    BY DEF ReadInv, ReadType, rows
  <1>3. \A e \in queue' : AskFits(e.doc, e.attach)'
    <2>1. ASSUME NEW e \in queue' PROVE AskFits(e.doc, e.attach)'
      <3>1. e.doc \in Documents /\ AskFits(e.doc, e.attach)
        BY DEF ReadInv, TablesFit, EventType
      <3>2. QED BY <1>1, <3>1, AskKept
    <2>2. QED BY <2>1
  <1>4. \A d \in Documents : DocumentFits(d)'
    BY DEF ReadInv, TablesFit, DocumentFits, unmapped, arrived, rows
  <1>5. QED BY <1>1, <1>2, <1>3, <1>4, RowsKept DEF TablesFit, rows

\* A step of one worker that writes nothing.
LEMMA QuietStep ==
    ASSUME ReadInv, UNCHANGED <<page, rows>>, NEW w \in Workers, NEW r \in RunType,
           run' = [run EXCEPT ![w] = r], RunFits(r),
           r.pc \in Leased =>
               \/ run[w].pc \in Leased /\ run[w].doc = r.doc
               \/ \A v \in Workers : ~(run[v].pc \in Leased /\ run[v].doc = r.doc),
           queue' \subseteq EventType,
           \A e \in queue' : e \in queue \/ AskFits(e.doc, e.attach),
           faults' \in Nat
    PROVE  ReadInv'
  <1>1. TablesGrow
    BY QuietGrows
  <1>2. RunFits(r)'
    BY <1>1, RunKept DEF rows
  <1>3. /\ run' \in [Workers -> RunType]
        /\ \A v \in Workers : RunFits(run[v])'
        /\ OneLease'
    BY <1>1, <1>2, OneWorkerMoves DEF rows
  <1>4. QED BY <1>3, QuietTables DEF ReadInv

\* A run that ends and is put on the queue again, or is not.
LEMMA EndStep ==
    ASSUME ReadInv, UNCHANGED <<page, rows>>, NEW w \in Workers, run[w].pc # "idle", faults' \in Nat,
           \/ again(w) \/ gaveUp(w)
           \/ finish(w) /\ UNCHANGED queue
    PROVE  ReadInv'
  <1>1. run[w] \in RunType /\ RunFits(run[w]) /\ queue \subseteq EventType
    BY DEF ReadInv, ReadType
  <1>2. run' = [run EXCEPT ![w] = Idle]
    BY DEF again, gaveUp, finish
  <1>3. queue' \subseteq EventType /\ \A e \in queue' : e \in queue \/ AskFits(e.doc, e.attach)
    <2> DEFINE e0 == [doc |-> run[w].doc, mayOpen |-> run[w].mayOpen, attach |-> run[w].attach,
                      tries |-> run[w].tries + 1]
    <2>1. PICK e : e = e0
      OBVIOUS
    <2>2. e \in EventType /\ e.doc = run[w].doc /\ e.attach = run[w].attach
      <3>1. run[w].doc \in Documents
        BY <1>1 DEF RunFits
      <3>2. run[w].mayOpen \in BOOLEAN /\ run[w].attach \in Nat /\ run[w].tries \in Nat
        BY <1>1 DEF RunType
      <3>3. QED BY <2>1, <3>1, <3>2 DEF EventType
    <2>3. AskFits(e.doc, e.attach)
      BY <1>1, <2>2 DEF RunFits
    <2>4. queue' = queue \/ queue' = queue \cup {e}
      BY <2>1 DEF again, gaveUp, finish
    <2>5. QED BY <1>1, <2>2, <2>3, <2>4
  <1>4. Idle \in RunType /\ RunFits(Idle) /\ Idle.pc \notin Leased
    BY IdleFits DEF Leased, OnTheWay, Posted, ForLines
  <1>5. QED BY <1>2, <1>3, <1>4, QuietStep

\* A run that only goes on.
LEMMA MoveStep ==
    ASSUME ReadInv, UNCHANGED <<page, rows, queue>>, NEW w \in Workers, faults' \in Nat,
           NEW r \in RunType, run' = [run EXCEPT ![w] = r], RunFits(r),
           run[w].pc \in Leased, run[w].doc = r.doc
    PROVE  ReadInv'
  BY QuietStep DEF ReadInv, ReadType

\* An error thrown out of a run.
LEMMA ThrowStep ==
    ASSUME ReadInv, UNCHANGED <<page, rows>>, NEW w \in Workers, run[w].pc \in OpeningSteps,
           faults' \in Nat, NEW b \in BOOLEAN, throws(w, b)
    PROVE  ReadInv'
  <1>1. run[w] \in RunType /\ RunFits(run[w]) /\ run[w].pc # "idle" /\ run[w].pc \in Leased \ {"check"}
    BY DEF ReadInv, ReadType, OpeningSteps, Leased, OnTheWay, Posted, ForLines
  <1>2. CASE run' = [run EXCEPT ![w].pc = "failing", ![w].again = b] /\ UNCHANGED queue
    <2>1. PICK r : r = [run[w] EXCEPT !.pc = "failing", !.again = b]
      OBVIOUS
    <2>2. /\ r \in RunType /\ r.pc = "failing" /\ r.doc = run[w].doc /\ r.by = run[w].by
          /\ r.attach = run[w].attach /\ r.kind = run[w].kind /\ r.line = run[w].line
          /\ r.here = run[w].here
      BY <1>1, <2>1 DEF RunType, Leased
    <2>3. RunFits(r)
      BY <1>1, <2>2 DEF RunFits, Leased, OnTheWay, Posted, ForLines
    <2>4. run' = [run EXCEPT ![w] = r]
      BY <1>2, <2>1
    <2>5. QED BY <1>1, <1>2, <2>2, <2>3, <2>4, MoveStep
  <1>3. CASE again(w) \/ gaveUp(w)
    BY <1>1, <1>3, EndStep
  <1>4. QED BY <1>2, <1>3 DEF throws

\* The worker that acts has a run that fits.
LEMMA WorkerHas ==
    ASSUME ReadInv, NEW w \in Workers
    PROVE  run[w] \in RunType /\ RunFits(run[w]) /\ run \in [Workers -> RunType]
  BY DEF ReadInv, ReadType

-----------------------------------------------------------------------------
(* Steps that write nothing *)

\* A run is started for an event.
LEMMA StartRunKeeps ==
    ASSUME ReadInv, NEW w \in Workers, NEW e \in queue, StartRun(w, e)
    PROVE  ReadInv'
  <1>1. e \in EventType /\ AskFits(e.doc, e.attach) /\ queue \subseteq EventType
    BY DEF ReadInv, ReadType, TablesFit
  <1>2. PICK r : r = [Idle EXCEPT !.pc = "lease", !.doc = e.doc, !.mayOpen = e.mayOpen,
                                  !.attach = e.attach, !.tries = e.tries]
    OBVIOUS
  <1>3. /\ r \in RunType /\ r.pc = "lease" /\ r.doc = e.doc /\ r.attach = e.attach /\ r.by = "read"
        /\ r.kind = "other" /\ r.here = {} /\ e.doc \in Documents /\ r.line = 1
    BY <1>1, <1>2, IdleFits DEF RunType, EventType
  <1>4. RunFits(r)
    BY <1>1, <1>3 DEF RunFits, Leased, OnTheWay, Posted, ForLines
  <1>5. r.pc \notin Leased
    BY <1>3 DEF Leased, OnTheWay, Posted, ForLines
  <1>6. /\ UNCHANGED <<page, rows>> /\ faults' \in Nat /\ run' = [run EXCEPT ![w] = r]
        /\ queue' = queue \ {e}
    BY <1>2 DEF StartRun, bounds, ReadInv, ReadType
  <1>7. QED BY <1>1, <1>3, <1>4, <1>5, <1>6, QuietStep

\* The lease is taken, or the run ends.
LEMMA LeaseKeeps ==
    ASSUME ReadInv, NEW w \in Workers, withDocumentRead(w)
    PROVE  ReadInv'
  <1>1. UNCHANGED <<page, rows>> /\ faults' \in Nat /\ run[w].pc = "lease"
    BY DEF withDocumentRead, bounds, ReadInv, ReadType
  <1>2. CASE ~leased(run[w].doc) /\ goto(w, "check") /\ UNCHANGED queue
    <2>1. PICK r : r = [run[w] EXCEPT !.pc = "check"]
      OBVIOUS
    <2>2. /\ r \in RunType /\ r.pc = "check" /\ r.doc = run[w].doc /\ r.by = run[w].by
          /\ r.attach = run[w].attach /\ r.kind = run[w].kind /\ r.line = run[w].line
          /\ r.here = run[w].here
      BY <2>1, Moved, WorkerHas DEF Leased
    <2>3. RunFits(r)
      BY <1>1, <2>2, WorkerHas DEF RunFits, Leased, OnTheWay, Posted, ForLines
    <2>4. \A v \in Workers : ~(run[v].pc \in Leased /\ run[v].doc = r.doc)
      BY <1>2, <2>2 DEF leased, Leased, OnTheWay, Posted, ForLines
    <2>5. run' = [run EXCEPT ![w] = r]
      BY <1>2, <2>1 DEF goto
    <2>6. QED BY <1>1, <1>2, <2>2, <2>3, <2>4, <2>5, QuietStep DEF ReadInv, ReadType
  <1>3. CASE again(w) \/ (finish(w) /\ UNCHANGED queue)
    BY <1>1, <1>3, EndStep
  <1>4. QED BY <1>2, <1>3 DEF withDocumentRead

\* The pool is full, or the run dies.
LEMMA StopKeeps ==
    ASSUME ReadInv, NEW w \in Workers, PoolTimeout(w) \/ RunDies(w)
    PROVE  ReadInv'
  <1>1. UNCHANGED <<page, rows>> /\ faults' \in Nat /\ run[w].pc # "idle" /\ again(w)
    BY DEF PoolTimeout, RunDies, bounds, ReadInv, ReadType
  <1>2. QED BY <1>1, EndStep

\* A store call fails while a case is opened.
LEMMA StoreFailsKeeps ==
    ASSUME ReadInv, NEW w \in Workers, StoreFails(w)
    PROVE  ReadInv'
  <1>1. UNCHANGED <<page, rows>> /\ run[w].pc \in OpeningSteps /\ throws(w, TRUE)
    BY Zenon DEF StoreFails
  <1>2. faults' \in Nat
    BY DEF StoreFails, ReadInv, ReadType
  <1>3. QED BY <1>1, <1>2, ThrowStep

\* The document is read, if the record does not answer: what it goes on to is no held document's way
\* to a case unless a person acted.
LEMMA ReadKeeps ==
    ASSUME ReadInv, NEW w \in Workers, NEW fits \in BOOLEAN,
           readDocument(w, page[run[w].doc].kind, fits)
    PROVE  ReadInv'
  <1> DEFINE d == run[w].doc
             k == page[d].kind
             p == afterReading(w, k, fits)
  <1>1. /\ UNCHANGED <<page, rows, queue>> /\ faults' \in Nat /\ run[w].pc = "check" /\ run[w].by = "read"
        /\ k = "report" => (fits <=> d \in mapped)
        /\ ~recordedRead(d, run[w].attach, run[w].mayOpen)
        /\ run' = [run EXCEPT ![w].pc = p, ![w].kind = k, ![w].fits = fits]
    BY DEF readDocument, bounds, ReadInv, ReadType
  <1>2. run[w] \in RunType /\ RunFits(run[w]) /\ d \in Documents /\ AskFits(d, run[w].attach)
    BY <1>1, WorkerHas DEF RunFits
  <1>3. k \in Kinds /\ DocumentFits(d)
    BY <1>2, PageSays DEF ReadInv, TablesFit
  <1>4. /\ p \in {"attach", "hold", "resolve", "record"}
        /\ p = "attach" => run[w].attach # 0
        /\ p = "hold" => k = "report" /\ ~fits
        /\ p \in {"resolve", "record"} => (k = "report" => fits)
    BY <1>2 DEF afterReading, afterRecord, mustHold, opensCaseOnItsOwn, RunType
  <1>5. d \in hold /\ p \in {"resolve", "record"} => d \in byHand
    BY <1>1, <1>2, <1>3, <1>4 DEF AskFits, DocumentFits, recordedRead, unmapped
  <1>6. PICK r : r = [run[w] EXCEPT !.pc = p, !.kind = k, !.fits = fits]
    OBVIOUS
  <1>7. p \in Leased
    BY <1>4 DEF Leased, OnTheWay
  <1> HIDE DEF p, k
  <1>8. /\ r \in RunType /\ r.pc = p /\ r.kind = k /\ r.doc = d /\ r.by = "read"
        /\ r.attach = run[w].attach /\ r.line = run[w].line /\ r.here = run[w].here
    BY <1>1, <1>2, <1>3, <1>6, <1>7 DEF RunType
  <1>9. RunFits(r)
    <2>1. r.pc \notin Posted \cup ForLines \cup {"idle", "lease", "check", "release", "next", "look"}
      BY <1>4, <1>8 DEF Posted, ForLines
    <2>2. r.line = 1 /\ r.here \subseteq DOMAIN cases /\ \A x \in r.here : cases[x].doc = r.doc
      BY <1>1, <1>2, <1>8 DEF RunFits
    <2>3. r.pc = "hold" => unmapped(r.doc)
      BY <1>1, <1>4, <1>8 DEF unmapped, k
    <2>4. r.pc \in OnTheWay \cup {"record"} => (r.doc \in hold => r.doc \in byHand)
      BY <1>4, <1>5, <1>8 DEF OnTheWay, Posted, ForLines
    <2>5. r.kind = page[r.doc].kind
      BY <1>8 DEF k
    <2>6. QED BY <1>2, <1>4, <1>8, <2>1, <2>2, <2>3, <2>4, <2>5 DEF RunFits
  <1>10. run' = [run EXCEPT ![w] = r]
    BY <1>1, <1>6
  <1>11. run[w].pc \in Leased
    BY <1>1 DEF Leased
  <1>12. QED BY <1>1, <1>8, <1>9, <1>10, <1>11, MoveStep

\* Before the insert: a claim or an invoice the tenant has is merged into, thrown out or looked beside.
LEMMA ResolveKeeps ==
    ASSUME ReadInv, NEW w \in Workers, resolveArrival(w)
    PROVE  ReadInv'
  <1> DEFINE l == lineOf(w)
             same == claimed(l.claim)
             like == IF onLines(w) THEN run[w].like ELSE named("invoice_number", l.invoice)
  <1>1. UNCHANGED <<page, rows>> /\ run[w].pc = "resolve"
    BY DEF resolveArrival, bounds
  <1>2. faults' \in Nat
    BY DEF resolveArrival, bounds, ReadInv, ReadType
  <1>3. run[w] \in RunType /\ RunFits(run[w]) /\ run[w].pc \in OpeningSteps /\ run[w].pc \in Leased
    BY <1>1, WorkerHas DEF OpeningSteps, Leased, OnTheWay
  <1>4. \A kind, id : named(kind, id) \subseteq Nat
    <2>1. \A n \in names : n.case \in Nat
      BY DEF ReadInv, ReadType, TablesFit, NameFits
    <2>2. QED BY <2>1 DEF named
  <1>5. same \subseteq Nat /\ like \subseteq Nat
    BY <1>3, <1>4 DEF claimed, RunType
  <1>6. \/ throws(w, FALSE)
        \/ throws(w, TRUE)
        \/ onLines(w) /\ run' = [run EXCEPT ![w].pc = "merge", ![w].same = same] /\ UNCHANGED queue
        \/ run' = [run EXCEPT ![w].pc = "insert", ![w].like = like] /\ UNCHANGED queue
    BY Zenon DEF resolveArrival
  <1> HIDE DEF same, like, l
  <1>7. CASE throws(w, FALSE) \/ throws(w, TRUE)
    BY <1>1, <1>2, <1>3, <1>7, ThrowStep
  <1>8. CASE onLines(w) /\ run' = [run EXCEPT ![w].pc = "merge", ![w].same = same] /\ UNCHANGED queue
    <2>1. PICK r : r = [run[w] EXCEPT !.pc = "merge", !.same = same]
      OBVIOUS
    <2>2. /\ r \in RunType /\ r.pc = "merge" /\ r.doc = run[w].doc /\ r.by = run[w].by
          /\ r.attach = run[w].attach /\ r.kind = run[w].kind /\ r.line = run[w].line
          /\ r.here = run[w].here
      BY <1>3, <1>5, <2>1 DEF RunType, Leased, OnTheWay, ForLines
    <2>3. RunFits(r)
      BY <1>1, <1>3, <1>8, <2>2 DEF RunFits, Leased, OnTheWay, Posted, ForLines, onLines
    <2>4. QED BY <1>1, <1>2, <1>3, <1>8, <2>1, <2>2, <2>3, MoveStep
  <1>9. CASE run' = [run EXCEPT ![w].pc = "insert", ![w].like = like] /\ UNCHANGED queue
    <2>1. PICK r : r = [run[w] EXCEPT !.pc = "insert", !.like = like]
      OBVIOUS
    <2>2. /\ r \in RunType /\ r.pc = "insert" /\ r.doc = run[w].doc /\ r.by = run[w].by
          /\ r.attach = run[w].attach /\ r.kind = run[w].kind /\ r.line = run[w].line
          /\ r.here = run[w].here
      BY <1>3, <1>5, <2>1 DEF RunType, Leased, OnTheWay
    <2>3. RunFits(r)
      BY <1>1, <1>3, <2>2 DEF RunFits, Leased, OnTheWay, Posted, ForLines
    <2>4. QED BY <1>1, <1>2, <1>3, <1>9, <2>1, <2>2, <2>3, MoveStep
  <1>10. QED BY <1>6, <1>7, <1>8, <1>9

\* A run on its way to a case goes on to another step of the way.
LEMMA OnTheWayFits ==
    ASSUME NEW q \in RunType, NEW r, RunFits(q), q.pc \in OnTheWay,
           r.doc = q.doc, r.by = q.by, r.attach = q.attach, r.kind = q.kind, r.here = q.here,
           r.pc \in OnTheWay \ Posted, r.pc = "release" => r.by = "open",
           r.pc \in {"next", "look"} => r.kind # "deduction_notice",
           r.pc \in ForLines => r.kind = "remittance_advice",
           r.kind = "deduction_notice" => r.line = 1
    PROVE  RunFits(r)
  <1>1. q.pc # "idle" /\ q.pc \in Leased \ {"check"}
    BY DEF Leased, OnTheWay, Posted, ForLines
  <1>2. r.pc \in Leased \ {"check"} /\ r.pc \notin {"lease", "check", "attach", "hold"}
    BY DEF Leased, OnTheWay, Posted, ForLines
  <1>3. QED BY <1>1, <1>2 DEF RunFits

\* The next line of a remittance or row of a report.
LEMMA NextLineKeeps ==
    ASSUME ReadInv, NEW w \in Workers, nextLine(w)
    PROVE  ReadInv'
  <1>1. UNCHANGED <<page, rows, queue>> /\ faults' \in Nat /\ run[w].pc = "next"
    BY DEF nextLine, bounds, ReadInv, ReadType
  <1>2. /\ run[w] \in RunType /\ RunFits(run[w]) /\ run[w].pc \in OnTheWay /\ run[w].pc \in Leased
        /\ run[w].kind # "deduction_notice" /\ run[w].pc # "idle"
    BY <1>1, WorkerHas DEF OnTheWay, Leased, RunFits
  <1>3. ASSUME NEW p \in {"release", "connect", "look"}, goto(w, p),
               p = "release" => run[w].by = "open", p = "connect" => onLines(w)
        PROVE  ReadInv'
    <2>1. PICK r : r = [run[w] EXCEPT !.pc = p]
      OBVIOUS
    <2>2. p \in Leased /\ p \in OnTheWay \ Posted
      BY DEF Leased, OnTheWay, Posted, ForLines
    <2>3. /\ r \in RunType /\ r.pc = p /\ r.doc = run[w].doc /\ r.by = run[w].by
          /\ r.attach = run[w].attach /\ r.kind = run[w].kind /\ r.line = run[w].line
          /\ r.here = run[w].here
      BY <1>2, <2>1, <2>2, Moved
    <2>4. RunFits(r)
      BY <1>2, <1>3, <2>2, <2>3, OnTheWayFits DEF onLines, ForLines
    <2>5. run' = [run EXCEPT ![w] = r]
      BY <1>3, <2>1 DEF goto
    <2>6. QED BY <1>1, <1>2, <2>3, <2>4, <2>5, MoveStep
  <1>4. CASE run' = [run EXCEPT ![w].line = @ + 1]
    <2>1. PICK r : r = [run[w] EXCEPT !.line = run[w].line + 1]
      OBVIOUS
    <2>2. /\ r \in RunType /\ r.pc = "next" /\ r.doc = run[w].doc /\ r.by = run[w].by
          /\ r.attach = run[w].attach /\ r.kind = run[w].kind /\ r.here = run[w].here
      BY <1>1, <1>2, <2>1 DEF RunType
    <2>3. RunFits(r)
      <3>1. "next" \in OnTheWay \ Posted /\ "next" \notin ForLines
        BY DEF OnTheWay, Posted, ForLines
      <3>2. QED BY <1>2, <2>2, <3>1, OnTheWayFits
    <2>4. run' = [run EXCEPT ![w] = r]
      BY <1>4, <2>1
    <2>5. QED BY <1>1, <1>2, <2>2, <2>3, <2>4, MoveStep
  <1>5. CASE finish(w)
    BY <1>1, <1>2, <1>5, EndStep
  <1>6. QED BY <1>3, <1>4, <1>5, Zenon DEF nextLine

\* The connection for a claim, and the claim.
LEMMA ClaimKeeps ==
    ASSUME ReadInv, NEW w \in Workers, connectForClaim(w) \/ withInvoiceClaim(w)
    PROVE  ReadInv'
  <1>1. PICK p \in {"lock", "look"} : /\ UNCHANGED <<page, rows, queue>> /\ faults' \in Nat
                                      /\ run[w].pc \in {"connect", "lock"} /\ goto(w, p)
    BY DEF connectForClaim, withInvoiceClaim, bounds, ReadInv, ReadType
  <1>2. /\ run[w] \in RunType /\ RunFits(run[w]) /\ run[w].pc \in OnTheWay /\ run[w].pc \in Leased
        /\ run[w].kind = "remittance_advice"
    BY <1>1, WorkerHas DEF OnTheWay, Leased, RunFits, ForLines
  <1>3. PICK r : r = [run[w] EXCEPT !.pc = p]
    OBVIOUS
  <1>4. p \in Leased /\ p \in OnTheWay \ Posted
    BY DEF Leased, OnTheWay, Posted, ForLines
  <1>5. /\ r \in RunType /\ r.pc = p /\ r.doc = run[w].doc /\ r.by = run[w].by
        /\ r.attach = run[w].attach /\ r.kind = run[w].kind /\ r.line = run[w].line
        /\ r.here = run[w].here
    BY <1>2, <1>3, <1>4, Moved
  <1>6. RunFits(r)
    BY <1>2, <1>4, <1>5, OnTheWayFits
  <1>7. run' = [run EXCEPT ![w] = r]
    BY <1>1, <1>3 DEF goto
  <1>8. QED BY <1>1, <1>2, <1>5, <1>6, <1>7, MoveStep

\* What the tenant already has for a line or a row.
LEMMA LookKeeps ==
    ASSUME ReadInv, NEW w \in Workers, identityCandidates(w)
    PROVE  ReadInv'
  <1> DEFINE same == claimed(lineOf(w).claim) \ run[w].here
             like == named("invoice_number", lineOf(w).invoice) \ run[w].here
             both == IF same # {} THEN same ELSE like
  <1>1. UNCHANGED <<page, rows, queue>> /\ faults' \in Nat /\ run[w].pc = "look"
    BY DEF identityCandidates, bounds, ReadInv, ReadType
  <1>2. /\ run[w] \in RunType /\ RunFits(run[w]) /\ run[w].pc \in OnTheWay /\ run[w].pc \in Leased
        /\ run[w].kind # "deduction_notice"
    BY <1>1, WorkerHas DEF OnTheWay, Leased, RunFits
  <1>3. same \subseteq Nat /\ both \subseteq Nat
    <2>1. \A n \in names : n.case \in Nat
      BY DEF ReadInv, ReadType, TablesFit, NameFits
    <2>2. \A kind, id : named(kind, id) \subseteq Nat
      BY <2>1 DEF named
    <2>3. QED BY <2>2 DEF claimed
  <1>4. \/ onLines(w) /\ run' = [run EXCEPT ![w].pc = "merge", ![w].same = same]
        \/ run' = [run EXCEPT ![w].pc = "resolve", ![w].like = both]
        \/ run' = [run EXCEPT ![w].pc = "next", ![w].line = @ + 1]
        \/ run' = [run EXCEPT ![w].pc = "resolve"]
    BY Zenon DEF identityCandidates
  <1> HIDE DEF same, like, both
  <1>5. \E r \in RunType :
           /\ run' = [run EXCEPT ![w] = r]
           /\ r.pc \in {"merge", "resolve", "next"} /\ r.doc = run[w].doc /\ r.by = run[w].by
           /\ r.attach = run[w].attach /\ r.kind = run[w].kind /\ r.here = run[w].here
           /\ r.pc = "merge" => onLines(w)
    <2>0. {"merge", "resolve", "next"} \subseteq Leased
      BY DEF Leased, OnTheWay, ForLines
    <2>1. CASE onLines(w) /\ run' = [run EXCEPT ![w].pc = "merge", ![w].same = same]
      <3>1. PICK r : r = [run[w] EXCEPT !.pc = "merge", !.same = same]
        OBVIOUS
      <3>2. /\ r \in RunType /\ r.pc = "merge" /\ r.doc = run[w].doc /\ r.by = run[w].by
            /\ r.attach = run[w].attach /\ r.kind = run[w].kind /\ r.here = run[w].here
        BY <1>2, <1>3, <2>0, <3>1 DEF RunType
      <3>3. run' = [run EXCEPT ![w] = r]
        BY <2>1, <3>1
      <3>4. QED BY <2>1, <3>2, <3>3
    <2>2. CASE run' = [run EXCEPT ![w].pc = "resolve", ![w].like = both]
      <3>1. PICK r : r = [run[w] EXCEPT !.pc = "resolve", !.like = both]
        OBVIOUS
      <3>2. /\ r \in RunType /\ r.pc = "resolve" /\ r.doc = run[w].doc /\ r.by = run[w].by
            /\ r.attach = run[w].attach /\ r.kind = run[w].kind /\ r.here = run[w].here
        BY <1>2, <1>3, <2>0, <3>1 DEF RunType
      <3>3. run' = [run EXCEPT ![w] = r]
        BY <2>2, <3>1
      <3>4. QED BY <3>2, <3>3
    <2>3. CASE run' = [run EXCEPT ![w].pc = "next", ![w].line = @ + 1]
      <3>0. PICK n \in Nat : n = run[w].line + 1
        BY <1>2 DEF RunType
      <3>1. PICK r : r = [run[w] EXCEPT !.pc = "next", !.line = n]
        OBVIOUS
      <3>2. /\ r \in RunType /\ r.pc = "next" /\ r.doc = run[w].doc /\ r.by = run[w].by
            /\ r.attach = run[w].attach /\ r.kind = run[w].kind /\ r.here = run[w].here
        BY <1>2, <2>0, <3>1 DEF RunType
      <3>3. run' = [run EXCEPT ![w] = r]
        BY <2>3, <3>0, <3>1
      <3>4. QED BY <3>2, <3>3
    <2>4. CASE run' = [run EXCEPT ![w].pc = "resolve"]
      <3>1. PICK r : r = [run[w] EXCEPT !.pc = "resolve"]
        OBVIOUS
      <3>2. /\ r \in RunType /\ r.pc = "resolve" /\ r.doc = run[w].doc /\ r.by = run[w].by
            /\ r.attach = run[w].attach /\ r.kind = run[w].kind /\ r.here = run[w].here
        BY <1>2, <2>0, <3>1, Moved
      <3>3. run' = [run EXCEPT ![w] = r]
        BY <2>4, <3>1
      <3>4. QED BY <3>2, <3>3
    <2>5. QED BY <1>4, <2>1, <2>2, <2>3, <2>4
  <1>6. PICK r \in RunType :
           /\ run' = [run EXCEPT ![w] = r]
           /\ r.pc \in {"merge", "resolve", "next"} /\ r.doc = run[w].doc /\ r.by = run[w].by
           /\ r.attach = run[w].attach /\ r.kind = run[w].kind /\ r.here = run[w].here
           /\ r.pc = "merge" => onLines(w)
    BY <1>5
  <1>7. r.pc \in OnTheWay \ Posted /\ (r.pc \in ForLines => r.pc = "merge")
    BY <1>6 DEF OnTheWay, Posted, ForLines
  <1>8. RunFits(r)
    BY <1>2, <1>6, <1>7, OnTheWayFits DEF onLines
  <1>9. QED BY <1>1, <1>2, <1>6, <1>8, MoveStep

-----------------------------------------------------------------------------
(* Steps that write *)

\* A reading is recorded, a document held or filed, by a run that goes on to r.
LEMMA WriteStep ==
    ASSUME ReadInv, NEW w \in Workers, NEW r \in RunType, run' = [run EXCEPT ![w] = r],
           TablesGrow => RunFits(r)',
           r.pc \in Leased => run[w].pc \in Leased /\ run[w].doc = r.doc,
           UNCHANGED <<page, scan, mapped, cases, names, byHand>>,
           queue' \subseteq EventType, \A e \in queue' : e \in queue \/ AskFits(e.doc, e.attach),
           faults' \in Nat,
           extraction' \in [Documents -> Kinds \cup {"none"}],
           \A d \in Documents : \/ extraction'[d] = extraction[d]
                                \/ extraction'[d] = page[d].kind /\ arrived(d),
           hold' \subseteq Documents,
           \A d \in hold' : \/ d \in hold
                            \/ /\ d = run[w].doc /\ run[w].pc \in Leased /\ arrived(d)
                               /\ extraction[d] # "none" \/ unmapped(d),
           links' \subseteq Documents \X Nat, \A l \in links' : l \in links \/ LinkFits(l)
    PROVE  ReadInv'
  <1>1. \A d \in Documents : page[d].kind # "none"
    BY PageSays DEF Kinds
  <1>2. TablesGrow
    BY <1>1 DEF TablesGrow, arrived
  <1>3. \A v \in Workers \ {w} :
           /\ run[v].pc \in Leased => (run[v].doc \in hold' => run[v].doc \in hold)
           /\ run[v].pc \in Posted => cases'[run[v].case].open = cases[run[v].case].open
    BY DEF ReadInv, OneLease
  <1>4. /\ run' \in [Workers -> RunType]
        /\ \A v \in Workers : RunFits(run[v])'
        /\ OneLease'
    BY <1>2, <1>3, OneWorkerMoves
  <1>5. ReadType'
    BY <1>4 DEF ReadInv, ReadType
  <1>6. \A d \in Documents : DocumentFits(d)'
    BY <1>1 DEF ReadInv, TablesFit, DocumentFits, unmapped, arrived
  <1>7. \A e \in queue' : AskFits(e.doc, e.attach)'
    <2>1. ASSUME NEW e \in queue' PROVE AskFits(e.doc, e.attach)'
      <3>1. e.doc \in Documents /\ AskFits(e.doc, e.attach)
        BY DEF ReadInv, TablesFit, EventType
      <3>2. QED BY <1>2, <3>1, AskKept
    <2>2. QED BY <2>1
  <1>8. \A l \in links' : LinkFits(l)'
    BY <1>2, RowsKept DEF LinkFits, arrived
  <1>9. TablesFit'
    BY <1>2, <1>6, <1>7, <1>8, RowsKept DEF TablesFit
  <1>10. QED BY <1>4, <1>5, <1>9 DEF ReadInv

\* The end of a run that knows nothing any more.
LEMMA IdleFitsThen ==
    ASSUME TablesGrow
    PROVE  Idle \in RunType /\ Idle.pc \notin Leased /\ RunFits(Idle)'
  <1>1. Idle \in RunType /\ RunFits(Idle) /\ Idle.pc \notin Leased /\ Idle.pc \notin Posted
    BY IdleFits DEF Leased, OnTheWay, Posted, ForLines
  <1>2. QED BY <1>1, RunKept

\* A run that ends with what it wrote.
LEMMA WriteAndEnd ==
    ASSUME ReadInv, NEW w \in Workers, run' = [run EXCEPT ![w] = Idle],
           UNCHANGED <<page, scan, mapped, cases, names, byHand>>,
           queue' \subseteq EventType, \A e \in queue' : e \in queue \/ AskFits(e.doc, e.attach),
           faults' \in Nat,
           extraction' \in [Documents -> Kinds \cup {"none"}],
           \A d \in Documents : \/ extraction'[d] = extraction[d]
                                \/ extraction'[d] = page[d].kind /\ arrived(d),
           hold' \subseteq Documents,
           \A d \in hold' : \/ d \in hold
                            \/ /\ d = run[w].doc /\ run[w].pc \in Leased /\ arrived(d)
                               /\ extraction[d] # "none" \/ unmapped(d),
           links' \subseteq Documents \X Nat, \A l \in links' : l \in links \/ LinkFits(l)
    PROVE  ReadInv'
  <1>1. Idle \in RunType /\ Idle.pc \notin Leased
    BY IdleFits DEF Leased, OnTheWay, Posted, ForLines
  <1>2. TablesGrow => RunFits(Idle)'
    BY IdleFitsThen
  <1> DEFINE r == Idle
  <1>3. r \in RunType /\ run' = [run EXCEPT ![w] = r] /\ (r.pc \notin Leased) /\ (TablesGrow => RunFits(r)')
    BY <1>1, <1>2
  <1> HIDE DEF r
  <1>4. QED BY <1>3, WriteStep

\* The tables as they are.
LEMMA TypesHave ==
    ASSUME ReadInv
    PROVE  /\ queue \subseteq EventType /\ faults \in Nat /\ hold \subseteq Documents
           /\ extraction \in [Documents -> Kinds \cup {"none"}] /\ links \subseteq Documents \X Nat
           /\ cases \in Seq(CaseRow)
  BY DEF ReadInv, ReadType

\* The document is filed on the case it was sent for, from the record or from a new reading.
LEMMA FileKeeps ==
    ASSUME ReadInv, NEW w \in Workers, answerFromRecord(w) \/ linkEvidence(w)
    PROVE  ReadInv'
  <1> DEFINE d == run[w].doc
             c == run[w].attach
  <1>1. /\ UNCHANGED <<page, scan, extraction, hold, mapped, cases, names, byHand, queue, faults>>
        /\ run' = [run EXCEPT ![w] = Idle] /\ run[w].pc \in {"check", "attach"}
        /\ links' = links \/ (c # 0 /\ links' = links \cup {<<d, c>>})
    <2>1. CASE answerFromRecord(w)
      BY <2>1 DEF answerFromRecord, finish, bounds
    <2>2. CASE linkEvidence(w)
      <3>1. c # 0
        BY <2>2, WorkerHas DEF linkEvidence, RunFits
      <3>2. QED BY <2>2, <3>1 DEF linkEvidence, finish, bounds
    <2>3. QED BY <2>1, <2>2
  <1>2. d \in Documents /\ AskFits(d, c) /\ c \in Nat
    BY <1>1, WorkerHas DEF RunFits, RunType
  <1>3. links' \subseteq Documents \X Nat /\ \A l \in links' : l \in links \/ LinkFits(l)
    BY <1>1, <1>2, TypesHave DEF AskFits, LinkFits
  <1>4. QED BY <1>1, <1>3, TypesHave, WriteAndEnd

\* The reading is recorded, and the run goes where the reading goes.
LEMMA RecordKeeps ==
    ASSUME ReadInv, NEW w \in Workers, recordTheRead(w)
    PROVE  ReadInv'
  <1> DEFINE d == run[w].doc
             p == afterRecord(w, run[w].kind, run[w].fits)
  <1>1. /\ UNCHANGED <<page, scan, hold, mapped, cases, names, links, byHand, queue, faults>>
        /\ extraction' = [extraction EXCEPT ![d] = run[w].kind] /\ run[w].pc = "record"
        /\ (run' = [run EXCEPT ![w] = Idle] \/ (p # "done" /\ run' = [run EXCEPT ![w].pc = p]))
    BY DEF recordTheRead, finish, goto, bounds
  <1>2. /\ run[w] \in RunType /\ RunFits(run[w]) /\ run[w].pc \in Leased /\ d \in Documents
        /\ run[w].kind = page[d].kind /\ arrived(d)
    BY <1>1, WorkerHas DEF RunFits, Leased, AskFits
  <1>3. /\ extraction' \in [Documents -> Kinds \cup {"none"}] /\ extraction'[d] # "none"
        /\ \A e \in Documents : \/ extraction'[e] = extraction[e]
                                \/ extraction'[e] = page[e].kind /\ arrived(e)
    BY <1>1, <1>2, PageSays, TypesHave DEF Kinds
  <1>4. CASE run' = [run EXCEPT ![w] = Idle]
    BY <1>1, <1>3, <1>4, TypesHave, WriteAndEnd
  <1>5. CASE p # "done" /\ run' = [run EXCEPT ![w].pc = p]
    <2>1. /\ p \in {"attach", "hold", "next"} /\ (p = "attach" => run[w].attach # 0)
          /\ (p = "next" => run[w].kind # "deduction_notice")
      BY <1>5 DEF afterRecord
    <2>2. p \in Leased \ {"check"} /\ p \notin Posted \cup ForLines \cup {"look", "release", "lease"}
      BY <2>1 DEF Leased, OnTheWay, Posted, ForLines
    <2> HIDE DEF p
    <2>3. PICK r : r = [run[w] EXCEPT !.pc = p]
      OBVIOUS
    <2>4. /\ r \in RunType /\ r.pc = p /\ r.doc = d /\ r.by = run[w].by
          /\ r.attach = run[w].attach /\ r.kind = run[w].kind /\ r.line = run[w].line
          /\ r.here = run[w].here
      BY <1>2, <2>2, <2>3, Moved
    <2>5. ASSUME TablesGrow PROVE RunFits(r)'
      <3>1. /\ r.doc \in Documents /\ AskFits(r.doc, r.attach)'
        BY <1>1, <1>2, <2>4, <2>5, AskKept DEF RunFits
      <3>2. QED BY <1>1, <1>2, <1>3, <2>1, <2>2, <2>4, <3>1 DEF RunFits
    <2>6. run' = [run EXCEPT ![w] = r]
      BY <1>5, <2>3
    <2>7. QED BY <1>1, <1>2, <1>3, <2>4, <2>5, <2>6, TypesHave, WriteStep
  <1>6. QED BY <1>1, <1>4, <1>5

\* The hold is recorded.
LEMMA HoldKeeps ==
    ASSUME ReadInv, NEW w \in Workers, recordHold(w)
    PROVE  ReadInv'
  <1>1. /\ UNCHANGED <<page, scan, extraction, mapped, cases, names, links, byHand, queue, faults>>
        /\ hold' = hold \cup {run[w].doc} /\ run[w].pc = "hold" /\ run' = [run EXCEPT ![w] = Idle]
    BY DEF recordHold, finish, bounds
  <1>2. /\ run[w].pc \in Leased /\ run[w].doc \in Documents /\ arrived(run[w].doc)
        /\ extraction[run[w].doc] # "none" \/ unmapped(run[w].doc)
    BY <1>1, WorkerHas DEF RunFits, Leased, AskFits
  <1>3. QED BY <1>1, <1>2, TypesHave, WriteAndEnd

\* The hold is lifted.
LEMMA ReleaseKeeps ==
    ASSUME ReadInv, NEW w \in Workers, releaseHold(w)
    PROVE  ReadInv'
  <1>1. /\ UNCHANGED <<page, scan, extraction, mapped, cases, names, links, byHand, queue, faults>>
        /\ hold' = hold \ {run[w].doc} /\ run' = [run EXCEPT ![w] = Idle]
    BY DEF releaseHold, finish, bounds
  <1>2. QED BY <1>1, TypesHave, WriteAndEnd

\* A notice whose opening failed keeps its reading.
LEMMA RecordThenThrowKeeps ==
    ASSUME ReadInv, NEW w \in Workers, recordThenThrow(w)
    PROVE  ReadInv'
  <1> DEFINE d == run[w].doc
  <1>1. /\ UNCHANGED <<page, scan, hold, mapped, cases, names, links, byHand, faults>>
        /\ extraction' = [extraction EXCEPT ![d] = run[w].kind] /\ run[w].pc = "failing"
        /\ again(w) \/ gaveUp(w)
    BY DEF recordThenThrow, bounds
  <1>2. /\ run[w] \in RunType /\ RunFits(run[w]) /\ d \in Documents
        /\ run[w].kind = page[d].kind /\ arrived(d)
    BY <1>1, WorkerHas DEF RunFits, Leased, AskFits
  <1>3. /\ extraction' \in [Documents -> Kinds \cup {"none"}]
        /\ \A e \in Documents : \/ extraction'[e] = extraction[e]
                                \/ extraction'[e] = page[e].kind /\ arrived(e)
    BY <1>1, <1>2, PageSays, TypesHave DEF Kinds
  <1>4. run' = [run EXCEPT ![w] = Idle]
    BY <1>1 DEF again, gaveUp, finish
  <1>5. queue' \subseteq EventType /\ \A e \in queue' : e \in queue \/ AskFits(e.doc, e.attach)
    <2>1. PICK e : e = [doc |-> run[w].doc, mayOpen |-> run[w].mayOpen, attach |-> run[w].attach,
                        tries |-> run[w].tries + 1]
      OBVIOUS
    <2>2. e \in EventType /\ e.doc = run[w].doc /\ e.attach = run[w].attach
      <3>1. run[w].mayOpen \in BOOLEAN /\ run[w].attach \in Nat /\ run[w].tries \in Nat
        BY <1>2 DEF RunType
      <3>2. QED BY <1>2, <2>1, <3>1 DEF EventType
    <2>3. AskFits(e.doc, e.attach)
      BY <1>1, <1>2, <2>2 DEF RunFits
    <2>4. queue' = queue \/ queue' = queue \cup {e}
      BY <1>1, <2>1 DEF again, gaveUp, finish
    <2>5. QED BY <2>2, <2>3, <2>4, TypesHave
  <1>6. QED BY <1>1, <1>3, <1>4, <1>5, TypesHave, WriteAndEnd

\* A line is a case the tenant has: the document is filed there.
LEMMA MergeKeeps ==
    ASSUME ReadInv, NEW w \in Workers, NEW c \in DOMAIN cases, mergeIntoCase(w, c)
    PROVE  ReadInv'
  <1> DEFINE d == run[w].doc
  <1>1. /\ UNCHANGED <<page, scan, extraction, hold, mapped, cases, names, byHand, queue, faults>>
        /\ links' = links \cup {<<d, c>>} /\ run[w].pc = "merge"
        /\ run' = [run EXCEPT ![w].pc = "next", ![w].line = @ + 1]
    BY DEF mergeIntoCase, bounds
  <1>2. /\ run[w] \in RunType /\ RunFits(run[w]) /\ run[w].pc \in Leased /\ run[w].pc \in OnTheWay
        /\ d \in Documents /\ arrived(d) /\ run[w].kind # "deduction_notice" /\ c \in Nat
    BY <1>1, WorkerHas, TypesHave DEF RunFits, Leased, OnTheWay, ForLines, AskFits
  <1>3. PICK n \in Nat : n = run[w].line + 1
    BY <1>2 DEF RunType
  <1>4. PICK r : r = [run[w] EXCEPT !.pc = "next", !.line = n]
    OBVIOUS
  <1>5. "next" \in Leased /\ "next" \in OnTheWay \ Posted /\ "next" \notin ForLines
    BY DEF Leased, OnTheWay, Posted, ForLines
  <1>6. /\ r \in RunType /\ r.pc = "next" /\ r.doc = d /\ r.by = run[w].by
        /\ r.attach = run[w].attach /\ r.kind = run[w].kind /\ r.here = run[w].here
    BY <1>2, <1>4, <1>5 DEF RunType
  <1>7. RunFits(r)
    BY <1>2, <1>5, <1>6, OnTheWayFits
  <1>8. TablesGrow => RunFits(r)'
    BY <1>1, <1>5, <1>6, <1>7, RunKept
  <1>9. run' = [run EXCEPT ![w] = r]
    BY <1>1, <1>3, <1>4
  <1>10. links' \subseteq Documents \X Nat /\ \A l \in links' : l \in links \/ LinkFits(l)
    BY <1>1, <1>2, TypesHave DEF LinkFits
  <1>11. QED BY <1>1, <1>2, <1>6, <1>8, <1>9, <1>10, TypesHave, WriteStep

\* A person opens a held document, under its lease.
LEMMA OpenHeldKeeps ==
    ASSUME ReadInv, NEW w \in Workers, openHeldDocument(w)
    PROVE  ReadInv'
  <1> DEFINE d == run[w].doc
             k == IF extraction[d] = "none" /\ d \in mapped THEN page[d].kind ELSE extraction[d]
             p == IF k = "deduction_notice" THEN "resolve" ELSE "next"
  <1>1. /\ UNCHANGED <<page, scan, hold, mapped, cases, names, links, byHand, queue, faults>>
        /\ run[w].pc = "check" /\ run[w].by = "open"
    BY DEF openHeldDocument, bounds
  <1>2. /\ run[w] \in RunType /\ RunFits(run[w]) /\ run[w].pc \in Leased /\ run[w].pc # "idle"
        /\ d \in Documents /\ arrived(d) /\ d \in byHand /\ run[w].line = 1
    BY <1>1, WorkerHas DEF RunFits, Leased, AskFits
  <1>3. CASE run' = [run EXCEPT ![w] = Idle] /\ UNCHANGED extraction
    BY <1>1, <1>3, TypesHave, WriteAndEnd
  <1>4. CASE /\ opensCaseOnItsOwn(k)
             /\ run' = [run EXCEPT ![w].pc = p, ![w].kind = k]
             /\ extraction' = [extraction EXCEPT ![d] = k]
    <2>1. k = page[d].kind /\ k \in Kinds /\ k # "none"
      BY <1>2, <1>4, PageSays DEF ReadInv, TablesFit, DocumentFits, opensCaseOnItsOwn, Kinds
    <2>2. /\ p \in {"resolve", "next"} /\ (p = "next" => k # "deduction_notice")
      OBVIOUS
    <2> HIDE DEF k, p
    <2>3. /\ extraction' \in [Documents -> Kinds \cup {"none"}] /\ extraction'[d] # "none"
          /\ \A e \in Documents : \/ extraction'[e] = extraction[e]
                                  \/ extraction'[e] = page[e].kind /\ arrived(e)
      BY <1>2, <1>4, <2>1, TypesHave
    <2>4. PICK r : r = [run[w] EXCEPT !.pc = p, !.kind = k]
      OBVIOUS
    <2>5. p \in Leased \ {"check"} /\ p \notin Posted \cup ForLines
      BY <2>2 DEF Leased, OnTheWay, Posted, ForLines
    <2>6. /\ r \in RunType /\ r.pc = p /\ r.doc = d /\ r.by = "open" /\ r.attach = run[w].attach
          /\ r.kind = k /\ r.here = run[w].here /\ r.line = 1
      BY <1>1, <1>2, <2>1, <2>4, <2>5 DEF RunType
    <2>7. ASSUME TablesGrow PROVE RunFits(r)'
      <3>1. AskFits(r.doc, r.attach)'
        BY <1>1, <1>2, <2>6, <2>7, AskKept DEF RunFits
      <3>2. QED BY <1>1, <1>2, <2>1, <2>2, <2>3, <2>5, <2>6, <3>1 DEF RunFits
    <2>8. run' = [run EXCEPT ![w] = r]
      BY <1>4, <2>4
    <2>9. QED BY <1>1, <1>2, <2>3, <2>6, <2>7, <2>8, TypesHave, WriteStep
  <1>5. QED BY <1>3, <1>4, Zenon DEF openHeldDocument, finish

\* The document is linked to the case opened from it.
LEMMA LinkKeeps ==
    ASSUME ReadInv, NEW w \in Workers, linkDocument(w)
    PROVE  ReadInv'
  <1> DEFINE d == run[w].doc
             p == IF onLines(w) THEN "names" ELSE "classify"
  <1>1. /\ UNCHANGED <<page, scan, extraction, hold, mapped, cases, names, byHand, queue, faults>>
        /\ links' = links \cup {<<d, run[w].case>>} /\ run[w].pc = "link"
        /\ run' = [run EXCEPT ![w].pc = p]
    BY DEF linkDocument, bounds, goto
  <1>2. /\ run[w] \in RunType /\ RunFits(run[w]) /\ run[w].pc \in Leased /\ CaseOfRun(run[w])
        /\ d \in Documents /\ arrived(d) /\ run[w].case \in Nat /\ run[w].case \in DOMAIN cases
    BY <1>1, WorkerHas DEF RunFits, RunType, Leased, OnTheWay, Posted, AskFits, CaseOfRun
  <1>3. p \in {"names", "classify"}
    OBVIOUS
  <1> HIDE DEF p
  <1>4. p \in Leased
    BY <1>3 DEF Leased, OnTheWay, Posted
  <1>5. PICK r : r = [run[w] EXCEPT !.pc = p]
    OBVIOUS
  <1>6. /\ r \in RunType /\ r.pc = p /\ r.doc = d /\ r.by = run[w].by /\ r.attach = run[w].attach
        /\ r.kind = run[w].kind /\ r.line = run[w].line /\ r.case = run[w].case /\ r.here = run[w].here
    BY <1>2, <1>4, <1>5, Moved
  <1>7. CaseOfRun(r)
    BY <1>2, <1>6 DEF CaseOfRun, lineAt
  <1>8. RunFits(r)
    BY <1>1, <1>2, <1>3, <1>6, <1>7 DEF RunFits, Leased, OnTheWay, Posted, ForLines
  <1>9. TablesGrow => RunFits(r)'
    BY <1>1, <1>6, <1>8, RunKept
  <1>10. run' = [run EXCEPT ![w] = r]
    BY <1>1, <1>5
  <1>11. links' \subseteq Documents \X Nat /\ \A l \in links' : l \in links \/ LinkFits(l)
    BY <1>1, <1>2, TypesHave DEF LinkFits
  <1>12. QED BY <1>1, <1>2, <1>6, <1>9, <1>10, <1>11, TypesHave, WriteStep

\* Cases and names are written by a run that goes on to r.
LEMMA CaseStep ==
    ASSUME ReadInv, NEW w \in Workers, NEW r \in RunType, run' = [run EXCEPT ![w] = r],
           TablesGrow, RunFits(r)', run[w].pc \in Leased, run[w].doc = r.doc,
           UNCHANGED <<page, scan, extraction, hold, mapped, links, byHand, queue, faults>>,
           cases' \in Seq(CaseRow), \A c \in DOMAIN cases' : c \in DOMAIN cases \/ CaseFits(c)',
           \A n \in names' : n \in names \/ NameFits(n)',
           \A v \in Workers \ {w} :
               run[v].pc \in Posted => cases'[run[v].case].open = cases[run[v].case].open
    PROVE  ReadInv'
  <1>1. /\ run' \in [Workers -> RunType]
        /\ \A v \in Workers : RunFits(run[v])'
        /\ OneLease'
    BY OneWorkerMoves
  <1>2. ReadType'
    BY <1>1 DEF ReadInv, ReadType, CaseRow
  <1>3. \A d \in Documents : DocumentFits(d)'
    BY DEF ReadInv, TablesFit, DocumentFits, unmapped, arrived
  <1>4. /\ \A c \in DOMAIN cases' : CaseFits(c)'
        /\ \A n \in names' : NameFits(n)'
        /\ \A l \in links' : LinkFits(l)'
        /\ \A e \in queue' : AskFits(e.doc, e.attach)'
    BY RowsKept
  <1>5. QED BY <1>1, <1>2, <1>3, <1>4 DEF ReadInv, TablesFit

\* A case is appended.
LEMMA Appended ==
    ASSUME ReadInv, NEW k \in CaseRow, cases' = Append(cases, k)
    PROVE  /\ cases' \in Seq(CaseRow) /\ Len(cases) + 1 \in DOMAIN cases' /\ Len(cases) + 1 \in Nat
           /\ cases'[Len(cases) + 1] = k /\ Len(cases) + 1 \notin DOMAIN cases
           /\ \A c \in DOMAIN cases : c \in DOMAIN cases' /\ cases'[c] = cases[c] /\ c < Len(cases) + 1
           /\ \A c \in DOMAIN cases' : c \in DOMAIN cases \/ c = Len(cases) + 1
  <1>1. cases \in Seq(CaseRow)
    BY TypesHave
  <1>2. QED BY <1>1

\* The row a run inserts is of its document and of its line.
LEMMA NewCaseFits ==
    ASSUME ReadInv, NEW w \in Workers, run[w].pc = "insert", NEW k, k = newCase(w)
    PROVE  /\ k \in CaseRow /\ k.doc = run[w].doc /\ k.kind = run[w].kind /\ ~k.open
           /\ k.claim = lineAt(run[w]).claim /\ k.invoice = lineAt(run[w]).invoice
           /\ lineOf(w) = lineAt(run[w])
           /\ k.kind = page[k.doc].kind
           /\ k.kind = "deduction_notice" => k.claim = page[k.doc].lines[1].claim
  <1>1. /\ run[w] \in RunType /\ RunFits(run[w]) /\ run[w].doc \in Documents
        /\ run[w].kind = page[run[w].doc].kind
        /\ run[w].kind = "deduction_notice" => run[w].line = 1
    BY WorkerHas DEF RunFits, Leased, OnTheWay
  <1>2. run[w].line \in Nat /\ run[w].kind \in Kinds /\ run[w].by \in {"read", "open"} /\ run[w].like \subseteq Nat
    BY <1>1 DEF RunType
  <1>3. lineOf(w).claim \in Claims /\ lineOf(w).invoice \in Billed /\ page[run[w].doc].payer \in BOOLEAN
    BY <1>1, <1>2, LinePrints, PageSays DEF lineOf
  <1>4. PICK f : f = (IF onLines(w) THEN {} ELSE run[w].like) /\ f \subseteq Nat
    BY <1>2
  <1>5. k = [claim |-> lineOf(w).claim, invoice |-> lineOf(w).invoice, payer |-> page[run[w].doc].payer,
             doc |-> run[w].doc, kind |-> run[w].kind, by |-> run[w].by, open |-> FALSE, flags |-> f]
    BY <1>4 DEF newCase
  <1>6. /\ k \in CaseRow /\ k.doc = run[w].doc /\ k.kind = run[w].kind /\ ~k.open
        /\ k.claim = lineOf(w).claim /\ k.invoice = lineOf(w).invoice
    BY <1>1, <1>2, <1>3, <1>4, <1>5 DEF CaseRow
  <1>7. QED BY <1>1, <1>6 DEF lineOf, lineAt

\* What openCase does: it inserts and goes on, finds the row taken and merges, or throws.
LEMMA OpenCaseDoes ==
    ASSUME NEW w \in Workers, openCase(w)
    PROVE  /\ run[w].pc = "insert"
           /\ UNCHANGED <<page, scan, extraction, hold, mapped, links, byHand, faults>>
           /\ \/ /\ cases' = Append(cases, newCase(w)) /\ names' = names \cup nameAtOnce(w)
                 /\ run' = [run EXCEPT ![w].case = Len(cases) + 1,
                                       ![w].pc = IF onLines(w) THEN "link" ELSE "names"]
                 /\ UNCHANGED queue
                 /\ \A n \in nameAtOnce(w) : taken(n) = {}
              \/ /\ UNCHANGED <<cases, names>> /\ throws(w, FALSE)
              \/ /\ UNCHANGED <<cases, names, queue>> /\ onLines(w)
                 /\ \E s : run' = [run EXCEPT ![w].pc = "merge", ![w].same = s]
                           /\ s = sameDebtorAndClaim(run[w].doc, lineOf(w).claim)
                                  \cup {m.case : m \in UNION {taken(n) : n \in nameAtOnce(w)}}
  <1> DEFINE dup == sameDebtorAndClaim(run[w].doc, lineOf(w).claim)
                    \cup {m.case : m \in UNION {taken(n) : n \in nameAtOnce(w)}}
  <1>1. run[w].pc = "insert" /\ UNCHANGED <<page, scan, extraction, hold, mapped, links, byHand, faults>>
    BY DEF openCase, bounds
  <1>2. CASE dup = {}
    <2>1. \A n \in nameAtOnce(w) : taken(n) = {}
      BY <1>2
    <2>2. QED BY <1>1, <1>2, <2>1, Zenon DEF openCase
  <1>3. CASE dup # {}
    <2>1. \/ UNCHANGED <<cases, names>> /\ throws(w, FALSE)
          \/ /\ UNCHANGED <<cases, names, queue>> /\ onLines(w)
             /\ run' = [run EXCEPT ![w].pc = "merge", ![w].same = dup]
      BY <1>3, Zenon DEF openCase
    <2>2. QED BY <1>1, <2>1, Zenon
  <1>4. QED BY <1>2, <1>3

\* The case is inserted, or its row is found taken.
LEMMA OpenCaseKeeps ==
    ASSUME ReadInv, NEW w \in Workers, openCase(w)
    PROVE  ReadInv'
  <1>1. /\ run[w].pc = "insert"
        /\ UNCHANGED <<page, scan, extraction, hold, mapped, links, byHand, faults>>
    BY OpenCaseDoes
  <1>2. /\ run[w] \in RunType /\ RunFits(run[w]) /\ run[w].pc \in Leased /\ run[w].pc \in OpeningSteps
        /\ run[w].doc \in Documents
    BY <1>1, WorkerHas DEF RunFits, Leased, OnTheWay, OpeningSteps
  <1>3. CASE /\ cases' = Append(cases, newCase(w)) /\ names' = names \cup nameAtOnce(w)
             /\ run' = [run EXCEPT ![w].case = Len(cases) + 1,
                                   ![w].pc = IF onLines(w) THEN "link" ELSE "names"]
             /\ UNCHANGED queue
    <2>1. PICK k : k = newCase(w)
      OBVIOUS
    <2>2. /\ k \in CaseRow /\ k.doc = run[w].doc /\ k.kind = run[w].kind /\ ~k.open
          /\ k.claim = lineAt(run[w]).claim /\ k.invoice = lineAt(run[w]).invoice
          /\ k.kind = page[k.doc].kind
          /\ k.kind = "deduction_notice" => k.claim = page[k.doc].lines[1].claim
      BY <1>1, <2>1, NewCaseFits
    <2>3. PICK x : x = Len(cases) + 1
      OBVIOUS
    <2>4. /\ cases' \in Seq(CaseRow) /\ x \in DOMAIN cases' /\ x \in Nat
          /\ cases'[x] = k
          /\ \A c \in DOMAIN cases : c \in DOMAIN cases' /\ cases'[c] = cases[c]
          /\ \A c \in DOMAIN cases' : c \in DOMAIN cases \/ c = x
      BY <1>3, <2>1, <2>2, <2>3, Appended
    <2>5. TablesGrow
      BY <1>1, <1>3, <2>4 DEF TablesGrow, arrived
    <2>6. \A c \in DOMAIN cases' : c \in DOMAIN cases \/ CaseFits(c)'
      BY <1>1, <2>2, <2>4 DEF CaseFits
    <2>7. \A n \in names' : n \in names \/ NameFits(n)'
      <3>1. ASSUME NEW n \in nameAtOnce(w) PROVE n.case = x /\ n.kind = "claim_id"
        BY <2>3 DEF nameAtOnce
      <3>2. QED BY <1>3, <2>4, <3>1 DEF NameFits
    <2>8. PICK p \in {"link", "names"} : p = IF onLines(w) THEN "link" ELSE "names"
      OBVIOUS
    <2>9. p \in Leased /\ p \in Posted
      BY DEF Leased, OnTheWay, Posted
    <2>10. PICK r : r = [run[w] EXCEPT !.case = x, !.pc = p]
      OBVIOUS
    <2>11. /\ r \in RunType /\ r.pc = p /\ r.doc = run[w].doc /\ r.by = run[w].by
           /\ r.attach = run[w].attach /\ r.kind = run[w].kind /\ r.line = run[w].line
           /\ r.case = x /\ r.here = run[w].here
      BY <1>2, <2>4, <2>9, <2>10 DEF RunType
    <2>12. CaseOfRun(r)'
      BY <1>1, <2>2, <2>4, <2>11 DEF CaseOfRun, lineAt
    <2>13. RunFits(r)'
      <3>1. AskFits(r.doc, r.attach)'
        BY <1>1, <1>2, <2>5, <2>11, AskKept DEF RunFits
      <3>2. r.here \subseteq DOMAIN cases' /\ \A j \in r.here : cases'[j].doc = r.doc
        BY <1>2, <2>4, <2>11 DEF RunFits
      <3>3. r.pc \notin ForLines \cup {"next", "look", "release", "hold", "attach", "lease", "check"}
        BY <2>8, <2>11 DEF ForLines
      <3>4. /\ r.by = "open" => r.doc \in byHand /\ extraction[r.doc] # "none"
            /\ r.kind = page[r.doc].kind /\ (r.doc \in hold => r.doc \in byHand)
            /\ r.kind = "deduction_notice" => r.line = 1
        BY <1>1, <1>2, <2>11 DEF RunFits, Leased, OnTheWay
      <3>5. QED BY <1>1, <1>2, <2>11, <2>12, <3>1, <3>2, <3>3, <3>4 DEF RunFits
    <2>14. run' = [run EXCEPT ![w] = r]
      BY <1>3, <2>3, <2>8, <2>10
    <2>15. \A v \in Workers \ {w} :
              run[v].pc \in Posted => cases'[run[v].case].open = cases[run[v].case].open
      BY <2>4, WorkerHas DEF RunFits, CaseOfRun
    <2>16. QED BY <1>1, <1>2, <1>3, <2>4, <2>5, <2>6, <2>7, <2>11, <2>13, <2>14, <2>15, CaseStep
  <1>4. CASE UNCHANGED <<cases, names>> /\ throws(w, FALSE)
    <2>1. UNCHANGED <<page, rows>> /\ faults' \in Nat
      BY <1>1, <1>4, TypesHave DEF rows
    <2>2. QED BY <1>2, <1>4, <2>1, ThrowStep
  <1>5. ASSUME UNCHANGED <<cases, names, queue>>, onLines(w), NEW s,
               run' = [run EXCEPT ![w].pc = "merge", ![w].same = s],
               s = sameDebtorAndClaim(run[w].doc, lineOf(w).claim)
                   \cup {m.case : m \in UNION {taken(n) : n \in nameAtOnce(w)}}
        PROVE  ReadInv'
    <2>1. s \subseteq Nat
      <3>1. \A n \in names : n.case \in Nat
        BY DEF ReadInv, ReadType, TablesFit, NameFits
      <3>2. DOMAIN cases \subseteq Nat
        BY TypesHave
      <3>3. QED BY <1>5, <3>1, <3>2 DEF sameDebtorAndClaim, taken
    <2>2. PICK r : r = [run[w] EXCEPT !.pc = "merge", !.same = s]
      OBVIOUS
    <2>3. "merge" \in Leased /\ "merge" \in OnTheWay \ Posted /\ run[w].pc \in OnTheWay
      BY <1>1 DEF Leased, OnTheWay, Posted, ForLines
    <2>4. /\ r \in RunType /\ r.pc = "merge" /\ r.doc = run[w].doc /\ r.by = run[w].by
          /\ r.attach = run[w].attach /\ r.kind = run[w].kind /\ r.here = run[w].here
      BY <1>2, <2>1, <2>2, <2>3 DEF RunType
    <2>5. RunFits(r)
      BY <1>2, <1>5, <2>3, <2>4, OnTheWayFits DEF onLines
    <2>6. run' = [run EXCEPT ![w] = r]
      BY <1>5, <2>2
    <2>7. UNCHANGED <<page, rows, queue>> /\ faults' \in Nat
      BY <1>1, <1>5, TypesHave DEF rows
    <2>8. QED BY <1>2, <2>4, <2>5, <2>6, <2>7, MoveStep
  <1>6. QED BY <1>3, <1>4, <1>5, OpenCaseDoes

\* The case is given its names, where nobody has them.
LEMMA NamesKeep ==
    ASSUME ReadInv, NEW w \in Workers, recordIdentifiers(w)
    PROVE  ReadInv'
  <1> DEFINE name(k, id) == [case |-> run[w].case, source |-> page[run[w].doc].source, kind |-> k, id |-> id]
             wanted == {name("invoice_number", lineOf(w).invoice)}
                       \cup (IF lineOf(w).claim = NoClaim THEN {} ELSE {name("claim_id", lineOf(w).claim)})
             p == IF onLines(w) THEN "flag" ELSE "link"
  <1>1. /\ UNCHANGED <<page, scan, extraction, hold, mapped, cases, links, byHand, queue, faults>>
        /\ run[w].pc = "names" /\ names \subseteq names' /\ run' = [run EXCEPT ![w].pc = p]
        /\ \A n \in names' : n \in names \/ n \in wanted
    BY DEF recordIdentifiers, bounds, goto
  <1>2. /\ run[w] \in RunType /\ RunFits(run[w]) /\ run[w].pc \in Leased /\ CaseOfRun(run[w])
    BY <1>1, WorkerHas DEF RunFits, Leased, OnTheWay, Posted
  <1>3. \A n \in wanted : n.case = run[w].case /\ (n.kind = "invoice_number" => n.id = lineOf(w).invoice)
    OBVIOUS
  <1>4. p \in {"flag", "link"} /\ (p = "flag" => run[w].kind = "remittance_advice")
    BY DEF onLines
  <1> HIDE DEF wanted, p
  <1>5. TablesGrow
    BY <1>1 DEF TablesGrow, arrived
  <1>6. \A n \in names' : n \in names \/ NameFits(n)'
    BY <1>1, <1>2, <1>3 DEF NameFits, CaseOfRun, lineOf, lineAt
  <1>7. PICK r : r = [run[w] EXCEPT !.pc = p]
    OBVIOUS
  <1>8. /\ r \in RunType /\ r.pc = p /\ r.doc = run[w].doc /\ r.by = run[w].by /\ r.attach = run[w].attach
        /\ r.kind = run[w].kind /\ r.line = run[w].line /\ r.case = run[w].case /\ r.here = run[w].here
    BY <1>2, <1>4, <1>7, Moved DEF Leased, OnTheWay, Posted
  <1>9. CaseOfRun(r)
    BY <1>2, <1>8 DEF CaseOfRun, lineAt
  <1>10. RunFits(r)
    BY <1>1, <1>2, <1>4, <1>8, <1>9 DEF RunFits, Leased, OnTheWay, Posted, ForLines
  <1>11. RunFits(r)'
    BY <1>1, <1>5, <1>8, <1>10, RunKept
  <1>12. run' = [run EXCEPT ![w] = r]
    BY <1>1, <1>7
  <1>13. QED BY <1>1, <1>2, <1>5, <1>6, <1>8, <1>11, <1>12, TypesHave, CaseStep

\* A row of a case is changed in place.
LEMMA RowChanged ==
    ASSUME ReadInv, NEW x \in DOMAIN cases, NEW k \in CaseRow, cases' = [cases EXCEPT ![x] = k]
    PROVE  /\ cases' \in Seq(CaseRow) /\ DOMAIN cases' = DOMAIN cases /\ cases'[x] = k
           /\ \A c \in DOMAIN cases : c # x => cases'[c] = cases[c]
  <1>1. cases \in Seq(CaseRow)
    BY TypesHave
  <1>2. QED BY <1>1

\* The case of one run is not the case of another.
LEMMA CasesOfRunsDiffer ==
    ASSUME ReadInv, NEW w \in Workers, run[w].pc \in Posted, NEW v \in Workers, v # w, run[v].pc \in Posted
    PROVE  run[v].case # run[w].case
  <1>1. CaseOfRun(run[w]) /\ CaseOfRun(run[v]) /\ run[v].pc \in Leased /\ run[w].pc \in Leased
    BY WorkerHas DEF RunFits, Leased, OnTheWay
  <1>2. QED BY <1>1 DEF CaseOfRun, ReadInv, OneLease

\* The possible duplicates of the case are written on it.
LEMMA FlagKeeps ==
    ASSUME ReadInv, NEW w \in Workers, flagDuplicates(w)
    PROVE  ReadInv'
  <1> DEFINE x == run[w].case
  <1>1. /\ UNCHANGED <<page, scan, extraction, hold, mapped, names, links, byHand, queue, faults>>
        /\ run[w].pc = "flag" /\ run' = [run EXCEPT ![w].pc = "classify"]
        /\ cases' = [cases EXCEPT ![x].flags = run[w].like]
    BY DEF flagDuplicates, bounds, goto
  <1>2. /\ run[w] \in RunType /\ RunFits(run[w]) /\ run[w].pc \in Leased /\ CaseOfRun(run[w])
        /\ x \in DOMAIN cases /\ run[w].like \subseteq Nat
    BY <1>1, WorkerHas DEF RunFits, RunType, Leased, OnTheWay, Posted, CaseOfRun
  <1>3. PICK k : k = [cases[x] EXCEPT !.flags = run[w].like]
    OBVIOUS
  <1>4. cases[x] \in CaseRow
    BY <1>2, TypesHave
  <1>5. /\ k \in CaseRow /\ k.claim = cases[x].claim /\ k.invoice = cases[x].invoice /\ k.doc = cases[x].doc
        /\ k.kind = cases[x].kind /\ k.open = cases[x].open
    BY <1>2, <1>3, <1>4 DEF CaseRow
  <1>6. /\ cases' \in Seq(CaseRow) /\ DOMAIN cases' = DOMAIN cases /\ cases'[x] = k
        /\ \A c \in DOMAIN cases : c # x => cases'[c] = cases[c]
    BY <1>1, <1>2, <1>3, <1>5, RowChanged
  <1>7. TablesGrow
    BY <1>1, <1>5, <1>6 DEF TablesGrow, arrived
  <1>8. PICK r : r = [run[w] EXCEPT !.pc = "classify"]
    OBVIOUS
  <1>9. /\ r \in RunType /\ r.pc = "classify" /\ r.doc = run[w].doc /\ r.by = run[w].by
        /\ r.attach = run[w].attach /\ r.kind = run[w].kind /\ r.line = run[w].line
        /\ r.case = run[w].case /\ r.here = run[w].here
    BY <1>2, <1>8, Moved DEF Leased, OnTheWay, Posted
  <1>10. CaseOfRun(r)
    BY <1>2, <1>9 DEF CaseOfRun, lineAt
  <1>11. RunFits(r)
    BY <1>1, <1>2, <1>9, <1>10 DEF RunFits, Leased, OnTheWay, Posted, ForLines
  <1>12. RunFits(r)'
    BY <1>1, <1>5, <1>6, <1>7, <1>9, <1>11, RunKept
  <1>13. run' = [run EXCEPT ![w] = r]
    BY <1>1, <1>8
  <1>14. \A v \in Workers \ {w} :
            run[v].pc \in Posted => cases'[run[v].case].open = cases[run[v].case].open
    BY <1>5, <1>6, WorkerHas DEF RunFits, CaseOfRun
  <1>15. QED BY <1>1, <1>2, <1>6, <1>7, <1>9, <1>12, <1>13, <1>14, CaseStep

\* The case is open for work, and its run goes on to the reading, the hold or the next line.
LEMMA ClassifyKeeps ==
    ASSUME ReadInv, NEW w \in Workers, transitionCase(w)
    PROVE  ReadInv'
  <1> DEFINE x == run[w].case
  <1>1. /\ UNCHANGED <<page, scan, extraction, hold, mapped, names, links, byHand, queue, faults>>
        /\ run[w].pc = "classify"
        /\ cases' = [cases EXCEPT ![x].open = TRUE]
        /\ \/ /\ run[w].kind = "deduction_notice"
              /\ run' = [run EXCEPT ![w].pc = IF run[w].by = "open" THEN "release" ELSE "record"]
           \/ /\ run[w].kind # "deduction_notice"
              /\ run' = [run EXCEPT ![w].pc = "next", ![w].here = @ \cup {run[w].case},
                                    ![w].line = @ + 1, ![w].case = 0]
    BY DEF transitionCase, bounds, goto
  <1>2. /\ run[w] \in RunType /\ RunFits(run[w]) /\ run[w].pc \in Leased /\ CaseOfRun(run[w])
        /\ x \in DOMAIN cases /\ x \in Nat
    BY <1>1, WorkerHas DEF RunFits, RunType, Leased, OnTheWay, Posted, CaseOfRun
  <1>3. PICK k : k = [cases[x] EXCEPT !.open = TRUE]
    OBVIOUS
  <1>4. cases[x] \in CaseRow
    BY <1>2, TypesHave
  <1>5. /\ k \in CaseRow /\ k.claim = cases[x].claim /\ k.invoice = cases[x].invoice /\ k.doc = cases[x].doc
        /\ k.kind = cases[x].kind /\ k.flags = cases[x].flags
    BY <1>3, <1>4 DEF CaseRow
  <1>6. /\ cases' \in Seq(CaseRow) /\ DOMAIN cases' = DOMAIN cases /\ cases'[x] = k
        /\ \A c \in DOMAIN cases : c # x => cases'[c] = cases[c]
    BY <1>1, <1>2, <1>3, <1>5, RowChanged
  <1>7. TablesGrow
    BY <1>1, <1>5, <1>6 DEF TablesGrow, arrived
  <1>8. \E r \in RunType :
           /\ run' = [run EXCEPT ![w] = r] /\ r.doc = run[w].doc /\ r.by = run[w].by
           /\ r.attach = run[w].attach /\ r.kind = run[w].kind
           /\ r.here \subseteq run[w].here \cup {x}
           /\ r.pc \in {"release", "record", "next"} /\ (r.pc = "release" => r.by = "open")
           /\ (r.pc = "next" => r.kind # "deduction_notice")
           /\ (r.kind = "deduction_notice" => r.line = 1)
    <2>1. CASE /\ run[w].kind = "deduction_notice"
               /\ run' = [run EXCEPT ![w].pc = IF run[w].by = "open" THEN "release" ELSE "record"]
      <3>1. PICK p \in {"release", "record"} : p = IF run[w].by = "open" THEN "release" ELSE "record"
        OBVIOUS
      <3>2. PICK r : r = [run[w] EXCEPT !.pc = p]
        OBVIOUS
      <3>3. /\ r \in RunType /\ r.pc = p /\ r.doc = run[w].doc /\ r.by = run[w].by
            /\ r.attach = run[w].attach /\ r.kind = run[w].kind /\ r.line = run[w].line
            /\ r.here = run[w].here
        BY <1>2, <3>1, <3>2, Moved DEF Leased, OnTheWay
      <3>4. run' = [run EXCEPT ![w] = r] /\ r.line = 1
        BY <1>2, <2>1, <3>1, <3>2, <3>3 DEF RunFits
      <3>5. QED BY <2>1, <3>1, <3>3, <3>4
    <2>2. CASE /\ run[w].kind # "deduction_notice"
               /\ run' = [run EXCEPT ![w].pc = "next", ![w].here = @ \cup {run[w].case},
                                     ![w].line = @ + 1, ![w].case = 0]
      <3>1. PICK n \in Nat : n = run[w].line + 1
        BY <1>2 DEF RunType
      <3>8. run[w].here \subseteq Nat
        BY <1>2 DEF RunType
      <3>2. PICK h : h = run[w].here \cup {x} /\ h \subseteq Nat
        BY <1>2, <3>8
      <3>3. PICK r : r = [run[w] EXCEPT !.pc = "next", !.here = h, !.line = n, !.case = 0]
        OBVIOUS
      <3>4. "next" \in Leased
        BY DEF Leased, OnTheWay
      <3>5. /\ r \in RunType /\ r.pc = "next" /\ r.doc = run[w].doc /\ r.by = run[w].by
            /\ r.attach = run[w].attach /\ r.kind = run[w].kind /\ r.here = h
        BY <1>2, <3>1, <3>2, <3>3, <3>4 DEF RunType
      <3>6. run' = [run EXCEPT ![w] = r]
        BY <2>2, <3>1, <3>2, <3>3
      <3>7. QED BY <2>2, <3>2, <3>5, <3>6
    <2>3. QED BY <1>1, <2>1, <2>2
  <1>9. PICK r \in RunType :
           /\ run' = [run EXCEPT ![w] = r] /\ r.doc = run[w].doc /\ r.by = run[w].by
           /\ r.attach = run[w].attach /\ r.kind = run[w].kind
           /\ r.here \subseteq run[w].here \cup {x}
           /\ r.pc \in {"release", "record", "next"} /\ (r.pc = "release" => r.by = "open")
           /\ (r.pc = "next" => r.kind # "deduction_notice")
           /\ (r.kind = "deduction_notice" => r.line = 1)
    BY <1>8
  <1>10. RunFits(r)
    <2>1. r.here \subseteq DOMAIN cases /\ \A j \in r.here : cases[j].doc = r.doc
      BY <1>2, <1>9 DEF RunFits, CaseOfRun
    <2>2. QED BY <1>1, <1>2, <1>9, <2>1 DEF RunFits, Leased, OnTheWay, Posted, ForLines
  <1>11. r.pc \notin Posted
    BY <1>9 DEF Posted
  <1>12. RunFits(r)'
    BY <1>1, <1>7, <1>10, <1>11, RunKept
  <1>13. ASSUME NEW v \in Workers \ {w}, run[v].pc \in Posted
         PROVE  cases'[run[v].case].open = cases[run[v].case].open
    <2>1. run[v].case # x /\ run[v].case \in DOMAIN cases
      BY <1>1, <1>13, CasesOfRunsDiffer, WorkerHas DEF Posted, RunFits, CaseOfRun
    <2>2. QED BY <1>6, <2>1
  <1>14. QED BY <1>1, <1>2, <1>6, <1>7, <1>9, <1>12, <1>13, CaseStep

-----------------------------------------------------------------------------
(* Arrivals and requests *)

\* A request that leaves the runs alone and writes links, the queue, verdicts or who acted.
LEMMA RequestStep ==
    ASSUME ReadInv, UNCHANGED <<page, extraction, hold, mapped, cases, names, run, faults>>,
           scan' \in [Documents -> {"absent", "stored", "clean", "refused", "error"}],
           \A d \in Documents : arrived(d) => arrived(d)',
           byHand \subseteq byHand',
           links' \subseteq Documents \X Nat, \A l \in links' : l \in links \/ LinkFits(l),
           queue' \subseteq EventType,
           \A e \in queue' : e \in queue \/ AskFits(e.doc, e.attach)'
    PROVE  ReadInv'
  <1>1. TablesGrow
    BY DEF TablesGrow
  <1>2. ASSUME NEW v \in Workers PROVE RunFits(run[v])'
    <2>1. PICK q : q = run[v]
      OBVIOUS
    <2>2. q \in RunType /\ RunFits(q) /\ run'[v] = q
      BY <2>1, WorkerHas
    <2>3. RunFits(q)'
      BY <1>1, <2>2, RunKept
    <2>4. RunFits(q)' <=> RunFits(run[v])'
      BY <2>2 DEF RunFits, AskFits, CaseOfRun, lineAt, unmapped, arrived
    <2>5. QED BY <2>3, <2>4
  <1>3. ReadType' /\ OneLease'
    BY DEF ReadInv, ReadType, OneLease, CaseRow
  <1>4. \A d \in Documents : DocumentFits(d)'
    BY DEF ReadInv, TablesFit, DocumentFits, unmapped
  <1>5. \A l \in links' : LinkFits(l)'
    BY <1>1, RowsKept DEF LinkFits, arrived
  <1>6. /\ \A c \in DOMAIN cases' : CaseFits(c)'
        /\ \A n \in names' : NameFits(n)'
        /\ \A e \in queue' : AskFits(e.doc, e.attach)'
    BY <1>1, RowsKept
  <1>7. QED BY <1>2, <1>3, <1>4, <1>5, <1>6 DEF ReadInv, TablesFit

\* A document arrives, and its verdict.
LEMMA ArrivalKeeps ==
    ASSUME ReadInv, NEW d \in Documents, NEW v \in {"clean", "refused", "error"}, NEW q \in BOOLEAN,
           PutDocument(d) \/ RecordScan(d, v, q)
    PROVE  ReadInv'
  <1>1. /\ UNCHANGED <<page, extraction, hold, mapped, cases, names, links, run, byHand, faults>>
        /\ scan' \in [Documents -> {"absent", "stored", "clean", "refused", "error"}]
        /\ scan'[d] # "absent" /\ \A e \in Documents \ {d} : scan'[e] = scan[e]
        /\ queue' = queue \/ send(d, TRUE, 0)
    BY DEF PutDocument, RecordScan, bounds, ReadInv, ReadType
  <1>2. \A e \in Documents : arrived(e) => arrived(e)'
    BY <1>1 DEF arrived
  <1>3. CASE queue' = queue
    BY <1>1, <1>2, <1>3, TypesHave, RequestStep
  <1>4. CASE send(d, TRUE, 0)
    <2>1. PICK e : e = [doc |-> d, mayOpen |-> TRUE, attach |-> 0, tries |-> 0]
      OBVIOUS
    <2>2. e \in EventType /\ e.doc = d /\ e.attach = 0
      BY <2>1 DEF EventType
    <2>3. queue' = queue \cup {e}
      BY <1>4, <2>1 DEF send
    <2>4. AskFits(e.doc, e.attach)'
      BY <1>1, <2>2 DEF AskFits, arrived
    <2>5. QED BY <1>1, <1>2, <2>2, <2>3, <2>4, TypesHave, RequestStep
  <1>5. QED BY <1>1, <1>3, <1>4

\* The same bytes again, or a reading asked for again.
LEMMA AskAgainKeeps ==
    ASSUME ReadInv, NEW d \in Documents, NEW c \in 0..Len(cases), UploadAgain(d, c) \/ Reread(d)
    PROVE  ReadInv'
  <1>1. cases \in Seq(CaseRow) /\ c \in Nat /\ (c # 0 => c \in DOMAIN cases)
    BY TypesHave
  <1>2. arrived(d) /\ scan \in [Documents -> {"absent", "stored", "clean", "refused", "error"}]
    BY DEF arrived, UploadAgain, Reread, ReadInv, ReadType
  <1>3. CASE UploadAgain(d, c)
    <2>1. /\ UNCHANGED <<page, scan, extraction, hold, mapped, cases, names, run, faults>>
          /\ byHand \subseteq byHand' /\ (c # 0 => d \in byHand')
          /\ links' = links \/ (c # 0 /\ links' = links \cup {<<d, c>>})
          /\ queue' = queue \/ send(d, TRUE, c)
      BY <1>3 DEF UploadAgain, asks
    <2>2. links' \subseteq Documents \X Nat /\ \A l \in links' : l \in links \/ LinkFits(l)
      BY <1>1, <1>2, <2>1, TypesHave DEF LinkFits
    <2>3. \A e \in Documents : arrived(e) => arrived(e)'
      BY <2>1 DEF arrived
    <2>4. queue' \subseteq EventType /\ \A e \in queue' : e \in queue \/ AskFits(e.doc, e.attach)'
      <3>1. PICK e : e = [doc |-> d, mayOpen |-> TRUE, attach |-> c, tries |-> 0]
        OBVIOUS
      <3>2. e \in EventType /\ e.doc = d /\ e.attach = c
        BY <1>1, <3>1 DEF EventType
      <3>3. queue' = queue \/ queue' = queue \cup {e}
        BY <2>1, <3>1 DEF send
      <3>4. AskFits(e.doc, e.attach)'
        BY <1>1, <1>2, <2>1, <2>3, <3>2 DEF AskFits
      <3>5. QED BY <3>2, <3>3, <3>4, TypesHave
    <2>5. QED BY <1>2, <2>1, <2>2, <2>3, <2>4, RequestStep
  <1>4. CASE Reread(d)
    <2>1. PICK m : m = (page[d].source = "web_upload" \/ extraction[d] = "none") /\ m \in BOOLEAN
      OBVIOUS
    <2>2. UNCHANGED <<page, scan, extraction, hold, mapped, cases, names, links, byHand, run, faults>>
      BY <1>4 DEF Reread, asks, rows
    <2>3. send(d, m, 0)
      BY <1>4, <2>1 DEF Reread
    <2>4. PICK e : e = [doc |-> d, mayOpen |-> m, attach |-> 0, tries |-> 0]
      OBVIOUS
    <2>5. e \in EventType /\ e.doc = d /\ e.attach = 0
      BY <2>1, <2>4 DEF EventType
    <2>6. queue' = queue \cup {e}
      BY <2>3, <2>4 DEF send
    <2>7. AskFits(e.doc, e.attach)'
      BY <1>2, <2>2, <2>5 DEF AskFits, arrived
    <2>8. \A f \in Documents : arrived(f) => arrived(f)'
      BY <2>2 DEF arrived
    <2>9. QED BY <1>2, <2>2, <2>5, <2>6, <2>7, <2>8, TypesHave, RequestStep
  <1>5. QED BY <1>3, <1>4

\* A person files a reading on a case.
LEMMA AttachKeeps ==
    ASSUME ReadInv, NEW d \in Documents, NEW c \in DOMAIN cases, attachReadDocument(d, c)
    PROVE  ReadInv'
  <1>1. /\ UNCHANGED <<page, scan, extraction, hold, mapped, cases, names, queue, run, faults>>
        /\ byHand' = byHand \cup {d} /\ links' = links \cup {<<d, c>>}
    BY DEF attachReadDocument, asks
  <1>2. arrived(d) /\ scan \in [Documents -> {"absent", "stored", "clean", "refused", "error"}]
    BY DEF attachReadDocument, ReadInv, ReadType, TablesFit, DocumentFits
  <1>3. c \in Nat
    BY TypesHave
  <1>4. links' \subseteq Documents \X Nat /\ \A l \in links' : l \in links \/ LinkFits(l)
    BY <1>1, <1>2, <1>3, TypesHave DEF LinkFits
  <1>5. \A e \in Documents : arrived(e) => arrived(e)'
    BY <1>1 DEF arrived
  <1>6. QED BY <1>1, <1>2, <1>4, <1>5, TypesHave, RequestStep

\* A person asks to open a held document, and may first say what its columns are.
LEMMA HandKeeps ==
    ASSUME ReadInv, NEW w \in Workers, NEW d \in Documents, OpenHeld(w, d) \/ MapSheet(w, d)
    PROVE  ReadInv'
  <1>1. /\ UNCHANGED <<page, scan, extraction, hold, cases, names, links, queue, faults>>
        /\ byHand' = byHand \cup {d} /\ run[w].pc = "idle" /\ d \in hold
        /\ mapped' = mapped \/ mapped' = mapped \cup {d}
        /\ run' = [run EXCEPT ![w] = [Idle EXCEPT !.pc = "lease", !.doc = d, !.by = "open"]]
    BY DEF OpenHeld, MapSheet, asks
  <1>2. TablesGrow
    BY <1>1 DEF TablesGrow, arrived
  <1>3. PICK r : r = [Idle EXCEPT !.pc = "lease", !.doc = d, !.by = "open"]
    OBVIOUS
  <1>4. /\ r \in RunType /\ r.pc = "lease" /\ r.doc = d /\ r.attach = 0 /\ r.by = "open"
        /\ r.kind = "other" /\ r.here = {} /\ r.line = 1
    BY <1>3, IdleFits DEF RunType
  <1>5. arrived(d)
    BY <1>1 DEF ReadInv, TablesFit, DocumentFits
  <1>6. RunFits(r)'
    BY <1>1, <1>4, <1>5 DEF RunFits, AskFits, arrived, Leased, OnTheWay, Posted, ForLines
  <1>7. r.pc \notin Leased
    BY <1>4 DEF Leased, OnTheWay, Posted, ForLines
  <1>8. run' = [run EXCEPT ![w] = r]
    BY <1>1, <1>3
  <1>9. /\ run' \in [Workers -> RunType]
        /\ \A v \in Workers : RunFits(run[v])'
        /\ OneLease'
    BY <1>1, <1>2, <1>4, <1>6, <1>7, <1>8, OneWorkerMoves
  <1>10. ReadType'
    BY <1>1, <1>9 DEF ReadInv, ReadType, CaseRow
  <1>11. \A e \in Documents : DocumentFits(e)'
    BY <1>1 DEF ReadInv, TablesFit, DocumentFits, unmapped, arrived
  <1>12. TablesFit'
    BY <1>1, <1>2, <1>11, RowsKept DEF TablesFit
  <1>13. QED BY <1>9, <1>10, <1>12 DEF ReadInv

-----------------------------------------------------------------------------
\* Nothing has arrived.
LEMMA ReadInit == Init => ReadInv
  <1> SUFFICES ASSUME Init PROVE ReadInv
    OBVIOUS
  <1>1. ReadType
    BY IdleFits DEF Init, ReadType
  <1>2. TablesFit
    BY DEF Init, TablesFit, DocumentFits
  <1>3. \A w \in Workers : run[w] = Idle
    BY DEF Init
  <1>4. \A w \in Workers : RunFits(run[w])
    BY <1>3, IdleFits
  <1>5. OneLease
    BY <1>3, IdleFits DEF OneLease, Leased, OnTheWay, Posted, ForLines
  <1>6. QED BY <1>1, <1>2, <1>4, <1>5 DEF ReadInv

\* A step of a run.
LEMMA ProceedsKeeps ==
    ASSUME ReadInv, NEW w \in Workers, Proceeds(w)
    PROVE  ReadInv'
  BY LeaseKeeps, StopKeeps, FileKeeps, ReadKeeps, RecordKeeps, HoldKeeps, ResolveKeeps, OpenCaseKeeps,
     NamesKeep, LinkKeeps, FlagKeeps, ClassifyKeeps, RecordThenThrowKeeps, NextLineKeeps, ClaimKeeps,
     LookKeeps, MergeKeeps, OpenHeldKeeps, ReleaseKeeps DEF Proceeds

\* Every step keeps ReadInv.
LEMMA ReadStep == ReadInv /\ [Next]_vars => ReadInv'
  <1> SUFFICES ASSUME ReadInv, [Next]_vars PROVE ReadInv'
    OBVIOUS
  <1>1. CASE UNCHANGED vars
    BY <1>1 DEF vars, ReadInv, ReadType, TablesFit, CaseFits, NameFits, DocumentFits, LinkFits, AskFits,
                RunFits, CaseOfRun, lineAt, unmapped, arrived, OneLease, CaseRow
  <1>2. ASSUME NEW d \in Documents,
               \/ PutDocument(d) \/ Reread(d)
               \/ \E v \in {"clean", "refused", "error"}, q \in BOOLEAN : RecordScan(d, v, q)
               \/ \E c \in 0..Len(cases) : UploadAgain(d, c)
               \/ \E c \in DOMAIN cases : attachReadDocument(d, c)
               \/ \E w \in Workers : OpenHeld(w, d) \/ MapSheet(w, d)
        PROVE  ReadInv'
    <2>1. 0 \in 0..Len(cases)
      BY TypesHave
    <2>2. QED BY <1>2, <2>1, ArrivalKeeps, AskAgainKeeps, AttachKeeps, HandKeeps
  <1>3. ASSUME NEW w \in Workers,
               \/ \E e \in queue : StartRun(w, e)
               \/ Proceeds(w) \/ RunDies(w) \/ StoreFails(w)
        PROVE  ReadInv'
    BY <1>3, StartRunKeeps, ProceedsKeeps, StopKeeps, StoreFailsKeeps
  <1>4. QED BY <1>1, <1>2, <1>3 DEF Next

\* What the tables and the runs know of each other, in every reachable state.
THEOREM ReadInvariance == Spec => []ReadInv
  BY ReadInit, ReadStep, PTL DEF Spec

-----------------------------------------------------------------------------
(* The pipeline implements DocumentFate *)

\* What is seen of a document changes for one document, or for none.
LEMMA FateChanges ==
    ASSUME NEW d \in Documents, NEW x, \A e \in Documents \ {d} : standing(e)' = standing(e),
           standing(d)' = x
    PROVE  fate' = [fate EXCEPT ![d] = x] /\ fate[d] = standing(d)
  BY DEF fate

\* Nothing is seen.
LEMMA FateSame ==
    ASSUME \A e \in Documents : standing(e)' = standing(e), UNCHANGED byHand
    PROVE  UNCHANGED <<fate, byHand>>
  BY DEF fate

\* What a document stands on.
LEMMA StandingKept ==
    ASSUME NEW e \in Documents, scan'[e] = "absent" <=> scan[e] = "absent", onCase(e)' <=> onCase(e),
           e \in hold' <=> e \in hold, extraction'[e] = "none" <=> extraction[e] = "none"
    PROVE  standing(e)' = standing(e)
  BY DEF standing

\* Only the cases there are count: a new row files nothing.
LEMMA FiledKept ==
    ASSUME ReadInv, UNCHANGED links, DOMAIN cases \subseteq DOMAIN cases', NEW e \in Documents
    PROVE  onCase(e)' <=> onCase(e)
  BY DEF ReadInv, TablesFit, LinkFits, onCase

\* A document is filed on a case it was not held back from.
LEMMA FilingIsAllowed ==
    ASSUME ReadInv, NEW d \in Documents, NEW c \in DOMAIN cases, arrived(d), d \in hold => d \in byHand,
           links' = links \cup {<<d, c>>}, UNCHANGED <<scan, extraction, hold, cases, byHand>>
    PROVE  [Fate!FateNext]_<<fate, byHand>>
  <1>1. \A e \in Documents \ {d} : onCase(e)' <=> onCase(e)
    BY DEF onCase
  <1>2. \A e \in Documents \ {d} : standing(e)' = standing(e)
    BY <1>1, StandingKept
  <1>3. standing(d)' = "on_case"
    BY DEF standing, onCase, arrived
  <1>4. fate' = [fate EXCEPT ![d] = "on_case"] /\ fate[d] = standing(d)
    BY <1>2, <1>3, FateChanges
  <1>5. CASE standing(d) = "on_case"
    BY <1>2, <1>3, <1>5, FateSame
  <1>6. CASE standing(d) # "on_case"
    <2>1. standing(d) \in {"unread", "read"} \/ (standing(d) = "held" /\ d \in byHand)
      BY <1>6 DEF standing, arrived
    <2>2. Fate!GoesOnCase(d)
      BY <1>4, <2>1 DEF Fate!GoesOnCase
    <2>3. QED BY <2>2 DEF Fate!FateNext
  <1>7. QED BY <1>5, <1>6

\* A person files a document.
LEMMA FilingByHand ==
    ASSUME ReadInv, NEW d \in Documents, NEW c \in DOMAIN cases, arrived(d), byHand' = byHand \cup {d},
           links' = links \cup {<<d, c>>}, UNCHANGED <<scan, extraction, hold, cases>>
    PROVE  Fate!FateNext
  <1>1. \A e \in Documents \ {d} : onCase(e)' <=> onCase(e)
    BY DEF onCase
  <1>2. \A e \in Documents \ {d} : standing(e)' = standing(e)
    BY <1>1, StandingKept
  <1>3. standing(d)' = "on_case" /\ standing(d) # "absent"
    BY DEF standing, onCase, arrived
  <1>4. fate' = [fate EXCEPT ![d] = "on_case"] /\ fate[d] # "absent"
    BY <1>2, <1>3, FateChanges
  <1>5. Fate!FiledByHand(d)
    BY <1>4 DEF Fate!FiledByHand
  <1>6. QED BY <1>5 DEF Fate!FateNext

\* A person acts on a document and nothing else is seen yet.
LEMMA ActingByHand ==
    ASSUME ReadInv, NEW d \in Documents, arrived(d), byHand' = byHand \cup {d},
           UNCHANGED <<scan, extraction, hold, cases, links>>
    PROVE  Fate!FateNext
  <1>1. \A e \in Documents : standing(e)' = standing(e)
    BY DEF standing, onCase
  <1>2. fate' = fate
    BY <1>1 DEF fate
  <1>3. fate[d] # "absent"
    BY DEF fate, standing, arrived, onCase
  <1>4. Fate!PersonActs(d)
    BY <1>2, <1>3 DEF Fate!PersonActs
  <1>5. QED BY <1>4 DEF Fate!FateNext

\* A reading is recorded.
LEMMA RecordingIsSeen ==
    ASSUME ReadInv, NEW d \in Documents, arrived(d), extraction' = [extraction EXCEPT ![d] = page[d].kind],
           UNCHANGED <<scan, hold, cases, links, byHand>>
    PROVE  [Fate!FateNext]_<<fate, byHand>>
  <1>1. extraction'[d] # "none" /\ \A e \in Documents \ {d} : extraction'[e] = extraction[e]
    BY TypesHave, PageSays DEF Kinds
  <1>2. \A e \in Documents : onCase(e)' <=> onCase(e)
    BY DEF onCase
  <1>3. \A e \in Documents \ {d} : standing(e)' = standing(e)
    BY <1>1, <1>2, StandingKept
  <1>4. CASE standing(d) = "unread"
    <2>1. standing(d)' = "read"
      BY <1>1, <1>2, <1>4 DEF standing
    <2>2. fate' = [fate EXCEPT ![d] = "read"] /\ fate[d] = "unread"
      BY <1>3, <1>4, <2>1, FateChanges
    <2>3. Fate!IsRead(d)
      BY <2>2 DEF Fate!IsRead
    <2>4. QED BY <2>3 DEF Fate!FateNext
  <1>5. CASE standing(d) # "unread"
    <2>1. standing(d)' = standing(d)
      BY <1>1, <1>2, <1>5 DEF standing
    <2>2. QED BY <1>3, <2>1, FateSame
  <1>6. QED BY <1>4, <1>5

\* A document is held.
LEMMA HoldingIsSeen ==
    ASSUME ReadInv, NEW d \in Documents, arrived(d), hold' = hold \cup {d},
           UNCHANGED <<scan, extraction, cases, links, byHand>>
    PROVE  [Fate!FateNext]_<<fate, byHand>>
  <1>1. \A e \in Documents : onCase(e)' <=> onCase(e)
    BY DEF onCase
  <1>2. \A e \in Documents \ {d} : standing(e)' = standing(e)
    BY <1>1, StandingKept
  <1>3. CASE standing(d) \in {"unread", "read"}
    <2>1. standing(d)' = "held"
      BY <1>1, <1>3 DEF standing
    <2>2. fate' = [fate EXCEPT ![d] = "held"] /\ fate[d] \in {"unread", "read"}
      BY <1>2, <1>3, <2>1, FateChanges
    <2>3. Fate!IsHeld(d)
      BY <2>2 DEF Fate!IsHeld
    <2>4. QED BY <2>3 DEF Fate!FateNext
  <1>4. CASE standing(d) \notin {"unread", "read"}
    <2>1. standing(d)' = standing(d)
      BY <1>1, <1>4 DEF standing, arrived
    <2>2. QED BY <1>2, <2>1, FateSame
  <1>5. QED BY <1>3, <1>4

\* A hold is lifted, after a person acted and the document was read.
LEMMA ReleasingIsSeen ==
    ASSUME ReadInv, NEW d \in Documents, d \in byHand, extraction[d] # "none", hold' = hold \ {d},
           UNCHANGED <<scan, extraction, cases, links, byHand>>
    PROVE  [Fate!FateNext]_<<fate, byHand>>
  <1>1. \A e \in Documents : onCase(e)' <=> onCase(e)
    BY DEF onCase
  <1>2. \A e \in Documents \ {d} : standing(e)' = standing(e)
    BY <1>1, StandingKept
  <1>3. CASE standing(d) = "held"
    <2>1. standing(d)' = "read"
      BY <1>1, <1>3 DEF standing
    <2>2. fate' = [fate EXCEPT ![d] = "read"] /\ fate[d] = "held"
      BY <1>2, <1>3, <2>1, FateChanges
    <2>3. Fate!IsReleased(d)
      BY <2>2 DEF Fate!IsReleased
    <2>4. QED BY <2>3 DEF Fate!FateNext
  <1>4. CASE standing(d) # "held"
    <2>1. standing(d)' = standing(d)
      BY <1>1, <1>4 DEF standing
    <2>2. QED BY <1>2, <2>1, FateSame
  <1>5. QED BY <1>3, <1>4

\* Nothing is seen of a step that files, holds and reads nothing.
LEMMA UnseenStep ==
    ASSUME ReadInv, UNCHANGED <<scan, extraction, hold, links, byHand>>, DOMAIN cases \subseteq DOMAIN cases'
    PROVE  [Fate!FateNext]_<<fate, byHand>>
  <1>1. \A e \in Documents : onCase(e)' <=> onCase(e)
    BY FiledKept
  <1>2. \A e \in Documents : standing(e)' = standing(e)
    BY <1>1, StandingKept
  <1>3. QED BY <1>2, FateSame

\* What a step of a run shows of the documents.
LEMMA ProceedsFate ==
    ASSUME ReadInv, NEW w \in Workers, Proceeds(w)
    PROVE  [Fate!FateNext]_<<fate, byHand>>
  <1> DEFINE d == run[w].doc
             c == run[w].attach
  <1>1. run[w] \in RunType /\ RunFits(run[w]) /\ (run[w].pc # "idle" => d \in Documents /\ arrived(d))
    BY WorkerHas DEF RunFits, AskFits
  <1>2. CASE \/ withDocumentRead(w) \/ PoolTimeout(w) \/ resolveArrival(w) \/ nextLine(w)
             \/ connectForClaim(w) \/ withInvoiceClaim(w) \/ identityCandidates(w)
             \/ \E f \in BOOLEAN : readDocument(w, page[run[w].doc].kind, f)
    <2>1. UNCHANGED rows
      BY <1>2 DEF withDocumentRead, PoolTimeout, resolveArrival, nextLine, connectForClaim,
                  withInvoiceClaim, identityCandidates, readDocument
    <2>2. QED BY <2>1, UnseenStep DEF rows
  <1>3. CASE answerFromRecord(w) \/ linkEvidence(w)
    <2>1. /\ UNCHANGED <<scan, extraction, hold, cases, byHand>> /\ run[w].pc \in {"check", "attach"}
          /\ links' = links \/ (c # 0 /\ links' = links \cup {<<d, c>>})
      <3>1. CASE answerFromRecord(w)
        BY <3>1 DEF answerFromRecord
      <3>2. CASE linkEvidence(w)
        BY <1>1, <3>2 DEF linkEvidence, RunFits
      <3>3. QED BY <1>3, <3>1, <3>2
    <2>2. c # 0 => c \in DOMAIN cases /\ d \in byHand
      BY <1>1, <2>1 DEF RunFits, AskFits
    <2>3. CASE links' = links
      BY <2>1, <2>3, UnseenStep
    <2>4. CASE c # 0 /\ links' = links \cup {<<d, c>>}
      BY <1>1, <2>1, <2>2, <2>4, FilingIsAllowed
    <2>5. QED BY <2>1, <2>3, <2>4
  <1>4. CASE recordTheRead(w) \/ recordThenThrow(w)
    <2>1. /\ UNCHANGED <<scan, hold, cases, links, byHand>> /\ run[w].pc \in {"record", "failing"}
          /\ extraction' = [extraction EXCEPT ![d] = run[w].kind]
      BY <1>4 DEF recordTheRead, recordThenThrow
    <2>2. run[w].kind = page[d].kind
      BY <1>1, <2>1 DEF RunFits, Leased
    <2>3. QED BY <1>1, <2>1, <2>2, RecordingIsSeen
  <1>5. CASE recordHold(w)
    <2>1. UNCHANGED <<scan, extraction, cases, links, byHand>> /\ run[w].pc = "hold" /\ hold' = hold \cup {d}
      BY <1>5 DEF recordHold
    <2>2. QED BY <1>1, <2>1, HoldingIsSeen
  <1>6. CASE releaseHold(w)
    <2>1. /\ UNCHANGED <<scan, extraction, cases, links, byHand>> /\ run[w].pc = "release"
          /\ hold' = hold \ {d}
      BY <1>6 DEF releaseHold
    <2>2. d \in byHand /\ extraction[d] # "none" /\ d \in Documents
      BY <1>1, <2>1 DEF RunFits, Leased, OnTheWay
    <2>3. QED BY <2>1, <2>2, ReleasingIsSeen
  <1>7. CASE openHeldDocument(w)
    <2>1. UNCHANGED <<scan, hold, cases, links, byHand>> /\ run[w].pc = "check"
      BY <1>7 DEF openHeldDocument
    <2>2. CASE UNCHANGED extraction
      BY <2>1, <2>2, UnseenStep
    <2>3. CASE extraction' # extraction
      <3>1. PICK k : /\ k = IF extraction[d] = "none" /\ d \in mapped THEN page[d].kind ELSE extraction[d]
                     /\ opensCaseOnItsOwn(k) /\ extraction' = [extraction EXCEPT ![d] = k]
        BY <1>7, <2>3, Zenon DEF openHeldDocument
      <3>2. k = page[d].kind
        BY <1>1, <2>1, <3>1 DEF ReadInv, TablesFit, DocumentFits, opensCaseOnItsOwn
      <3>3. QED BY <1>1, <2>1, <3>1, <3>2, RecordingIsSeen
    <2>4. QED BY <2>2, <2>3
  <1>8. CASE linkDocument(w)
    <2>1. /\ UNCHANGED <<scan, extraction, hold, cases, byHand>> /\ run[w].pc = "link"
          /\ links' = links \cup {<<d, run[w].case>>}
      BY <1>8 DEF linkDocument
    <2>2. (d \in hold => d \in byHand) /\ run[w].case \in DOMAIN cases
      BY <1>1, <2>1 DEF RunFits, OnTheWay, Posted, CaseOfRun
    <2>3. QED BY <1>1, <2>1, <2>2, FilingIsAllowed
  <1>9. CASE \E x \in DOMAIN cases : mergeIntoCase(w, x)
    <2>1. PICK x \in DOMAIN cases : mergeIntoCase(w, x)
      BY <1>9
    <2>2. /\ UNCHANGED <<scan, extraction, hold, cases, byHand>> /\ run[w].pc = "merge"
          /\ links' = links \cup {<<d, x>>}
      BY <2>1 DEF mergeIntoCase
    <2>3. d \in hold => d \in byHand
      BY <1>1, <2>2 DEF RunFits, OnTheWay, ForLines
    <2>4. QED BY <1>1, <2>2, <2>3, FilingIsAllowed
  <1>10. CASE openCase(w)
    <2>1. UNCHANGED <<scan, extraction, hold, links, byHand>>
      BY <1>10, OpenCaseDoes
    <2>2. cases' = cases \/ cases' = Append(cases, newCase(w))
      BY <1>10, OpenCaseDoes
    <2>3. run[w].pc = "insert"
      BY <1>10, OpenCaseDoes
    <2>4. DOMAIN cases \subseteq DOMAIN cases'
      <3>1. CASE cases' = Append(cases, newCase(w))
        BY <2>3, <3>1, Appended, NewCaseFits
      <3>2. QED BY <2>2, <3>1
    <2>5. QED BY <2>1, <2>4, UnseenStep
  <1>11. CASE recordIdentifiers(w) \/ flagDuplicates(w) \/ transitionCase(w)
    <2>1. UNCHANGED <<scan, extraction, hold, links, byHand>>
      BY <1>11 DEF recordIdentifiers, flagDuplicates, transitionCase
    <2>2. DOMAIN cases' = DOMAIN cases
      BY <1>11 DEF recordIdentifiers, flagDuplicates, transitionCase
    <2>3. QED BY <2>1, <2>2, UnseenStep
  <1>12. QED BY <1>2, <1>3, <1>4, <1>5, <1>6, <1>7, <1>8, <1>9, <1>10, <1>11 DEF Proceeds

\* What an arrival or a request shows.
LEMMA RequestFate ==
    ASSUME ReadInv, NEW d \in Documents,
           \/ PutDocument(d) \/ Reread(d)
           \/ \E v \in {"clean", "refused", "error"}, q \in BOOLEAN : RecordScan(d, v, q)
           \/ \E c \in 0..Len(cases) : UploadAgain(d, c)
           \/ \E c \in DOMAIN cases : attachReadDocument(d, c)
           \/ \E w \in Workers : OpenHeld(w, d) \/ MapSheet(w, d)
    PROVE  [Fate!FateNext]_<<fate, byHand>>
  <1>0. scan \in [Documents -> {"absent", "stored", "clean", "refused", "error"}] /\ cases \in Seq(CaseRow)
    BY DEF ReadInv, ReadType
  <1>1. CASE PutDocument(d)
    <2>1. /\ UNCHANGED <<extraction, hold, cases, links, byHand>>
          /\ scan[d] = "absent" /\ scan' = [scan EXCEPT ![d] = "stored"]
      BY <1>1 DEF PutDocument
    <2>2. \A e \in Documents : onCase(e)' <=> onCase(e)
      BY <2>1 DEF onCase
    <2>3. \A e \in Documents \ {d} : standing(e)' = standing(e)
      BY <1>0, <2>1, <2>2, StandingKept
    <2>4. ~onCase(d) /\ d \notin hold /\ extraction[d] = "none"
      BY <2>1 DEF ReadInv, TablesFit, DocumentFits, LinkFits, arrived, onCase
    <2>5. standing(d)' = "unread" /\ standing(d) = "absent"
      BY <1>0, <2>1, <2>2, <2>4 DEF standing
    <2>6. fate' = [fate EXCEPT ![d] = "unread"] /\ fate[d] = "absent"
      BY <2>3, <2>5, FateChanges
    <2>7. Fate!Arrives(d)
      BY <2>1, <2>6 DEF Fate!Arrives
    <2>8. QED BY <2>7 DEF Fate!FateNext
  <1>2. CASE Reread(d)
    BY <1>2, UnseenStep DEF Reread, rows
  <1>3. ASSUME NEW v \in {"clean", "refused", "error"}, NEW q \in BOOLEAN, RecordScan(d, v, q)
        PROVE  [Fate!FateNext]_<<fate, byHand>>
    <2>1. /\ UNCHANGED <<extraction, hold, cases, links, byHand>>
          /\ scan[d] # "absent" /\ scan' = [scan EXCEPT ![d] = v]
      BY <1>3 DEF RecordScan
    <2>2. \A e \in Documents : (onCase(e)' <=> onCase(e)) /\ (scan'[e] = "absent" <=> scan[e] = "absent")
      BY <1>0, <2>1 DEF onCase
    <2>3. \A e \in Documents : standing(e)' = standing(e)
      BY <2>1, <2>2, StandingKept
    <2>4. QED BY <2>1, <2>3, FateSame
  <1>4. ASSUME NEW c \in 0..Len(cases), UploadAgain(d, c)
        PROVE  [Fate!FateNext]_<<fate, byHand>>
    <2>1. UNCHANGED <<scan, extraction, hold, cases>> /\ arrived(d)
      BY <1>4 DEF UploadAgain, arrived
    <2>2. \/ UNCHANGED <<links, byHand>>
          \/ c # 0 /\ byHand' = byHand \cup {d} /\ links' = links \cup {<<d, c>>}
          \/ byHand' = byHand \cup {d} /\ UNCHANGED links
      BY <1>4 DEF UploadAgain
    <2>3. c # 0 => c \in DOMAIN cases
      BY <1>0
    <2>4. QED BY <2>1, <2>2, <2>3, UnseenStep, FilingByHand, ActingByHand
  <1>5. ASSUME NEW c \in DOMAIN cases, attachReadDocument(d, c)
        PROVE  [Fate!FateNext]_<<fate, byHand>>
    <2>1. arrived(d)
      BY <1>5 DEF attachReadDocument, ReadInv, TablesFit, DocumentFits
    <2>2. QED BY <1>5, <2>1, FilingByHand DEF attachReadDocument
  <1>6. ASSUME NEW w \in Workers, OpenHeld(w, d) \/ MapSheet(w, d)
        PROVE  [Fate!FateNext]_<<fate, byHand>>
    <2>1. /\ UNCHANGED <<scan, extraction, hold, cases, links>> /\ byHand' = byHand \cup {d} /\ d \in hold
      BY <1>6 DEF OpenHeld, MapSheet
    <2>2. arrived(d)
      BY <2>1 DEF ReadInv, TablesFit, DocumentFits
    <2>3. QED BY <2>1, <2>2, ActingByHand
  <1>7. QED BY <1>1, <1>2, <1>3, <1>4, <1>5, <1>6

\* Every step of the pipeline is a step of DocumentFate, or shows nothing.
LEMMA FateStep == ReadInv /\ [Next]_vars => [Fate!FateNext]_<<fate, byHand>>
  <1> SUFFICES ASSUME ReadInv, [Next]_vars PROVE [Fate!FateNext]_<<fate, byHand>>
    OBVIOUS
  <1>1. CASE UNCHANGED vars
    BY <1>1, UnseenStep DEF vars
  <1>2. ASSUME NEW w \in Workers,
               \/ \E e \in queue : StartRun(w, e)
               \/ RunDies(w) \/ StoreFails(w)
        PROVE  [Fate!FateNext]_<<fate, byHand>>
    <2>1. UNCHANGED rows
      BY <1>2 DEF StartRun, RunDies, StoreFails
    <2>2. QED BY <2>1, UnseenStep DEF rows
  <1>3. QED BY <1>1, <1>2, ProceedsFate, RequestFate, Zenon DEF Next

\* The pipeline implements DocumentFate: a document on a case stays on one, a reading is not lost,
\* and a held document reaches a case only after a person opened or filed it.
THEOREM PipelineImplementsFate == Spec => ImplementsFate
  <1>1. Init => Fate!FateInit
    <2>1. ASSUME Init PROVE Fate!FateInit
      <3>1. \A d \in Documents : standing(d) = "absent"
        BY <2>1 DEF Init, standing
      <3>2. byHand = {}
        BY <2>1 DEF Init
      <3>3. QED BY <3>1, <3>2 DEF Fate!FateInit, fate
    <2>2. QED BY <2>1
  <1>2. QED BY <1>1, ReadInvariance, FateStep, PTL DEF Spec, ImplementsFate, Fate!FateSpec

-----------------------------------------------------------------------------
(* A notice opens one case *)

\* No case is inserted, and what the tables say of a document or a case stays said.
RowsStay ==
    /\ page' = page /\ DOMAIN cases' = DOMAIN cases
    /\ \A c \in DOMAIN cases :
          /\ cases'[c].claim = cases[c].claim /\ cases'[c].doc = cases[c].doc
          /\ cases'[c].kind = cases[c].kind
    /\ names \subseteq names' /\ links \subseteq links'
    /\ \A d \in Documents : extraction[d] # "none" => extraction'[d] # "none"

\* A run has a document: whoever is in the middle of a notice's opening is this run.
LEMMA NoOtherRun ==
    ASSUME ReadInv, NEW w \in Workers, run[w].pc = "check", NEW v \in Workers, run[v].doc = run[w].doc
    PROVE  run[v].pc \notin Posted \cup {"record"}
  BY DEF ReadInv, OneLease, Leased, OnTheWay, Posted

\* What a worker does with its run leaves notices as they were, if it carries on what it began and
\* begins only what nobody did.
LEMMA NoticeMoves ==
    ASSUME ReadInv, NoticeInv, RowsStay, faults' = 0 => faults = 0, NEW w \in Workers,
           \A v \in Workers \ {w} : run'[v] = run[v],
           NEW q, q = run[w], NEW r, r = run'[w],
           faults' = 0 /\ q.pc \in Posted /\ q.kind = "deduction_notice" =>
               \/ r.doc = q.doc /\ r.pc \in Posted
               \/ /\ onCase(q.doc)'
                  /\ extraction'[q.doc] # "none" \/ (r.doc = q.doc /\ r.pc = "record"),
           faults' = 0 /\ q.pc = "record" => extraction'[q.doc] # "none",
           r.kind = "deduction_notice" /\ faults' = 0 /\ r.pc \in {"resolve", "insert"} =>
               openedFrom(r.doc) = {},
           r.kind = "deduction_notice" /\ r.pc = "classify" => onCase(r.doc)'
    PROVE  NoticeInv'
  <1>1. \A d \in Documents : openedFrom(d)' = openedFrom(d)
    BY DEF RowsStay, openedFrom
  <1>2. \A c \in DOMAIN cases' : ClaimIsNamed(c)'
    BY DEF NoticeInv, ClaimIsNamed, RowsStay
  <1>3. ASSUME NEW d \in Documents, onCase(d) PROVE onCase(d)'
    BY <1>3 DEF onCase, RowsStay
  <1>4. ASSUME NEW d \in Documents PROVE NoticeGoesOn(d)'
    <2> SUFFICES ASSUME faults' = 0, page[d].kind = "deduction_notice", openedFrom(d) # {}
                 PROVE  \/ \E v \in Workers : run'[v].doc = d /\ run'[v].pc \in Posted
                        \/ /\ onCase(d)'
                           /\ \/ extraction'[d] # "none"
                              \/ \E v \in Workers : run'[v].doc = d /\ run'[v].pc = "record"
      BY <1>1 DEF NoticeGoesOn, RowsStay
    <2>1. \/ \E v \in Workers : run[v].doc = d /\ run[v].pc \in Posted
          \/ /\ onCase(d)
             /\ \/ extraction[d] # "none"
                \/ \E v \in Workers : run[v].doc = d /\ run[v].pc = "record"
      BY DEF NoticeInv, NoticeGoesOn
    <2>2. CASE \E v \in Workers : run[v].doc = d /\ run[v].pc \in Posted
      <3>1. PICK v \in Workers : run[v].doc = d /\ run[v].pc \in Posted
        BY <2>2
      <3>2. run[v].kind = page[d].kind
        BY <3>1, WorkerHas DEF RunFits, Leased, OnTheWay, Posted
      <3>3. QED BY <3>1, <3>2
    <2>3. CASE onCase(d) /\ extraction[d] # "none"
      BY <1>3, <2>3 DEF RowsStay
    <2>4. CASE onCase(d) /\ \E v \in Workers : run[v].doc = d /\ run[v].pc = "record"
      BY <1>3, <2>4
    <2>5. QED BY <2>1, <2>2, <2>3, <2>4
  <1>5. ASSUME NEW v \in Workers PROVE NoticeFirst(run[v])'
    <2>1. PICK t : t = run'[v]
      OBVIOUS
    <2>2. t.kind = "deduction_notice" /\ faults' = 0 /\ t.pc \in {"resolve", "insert"} =>
             openedFrom(t.doc)' = {}
      <3>1. t.kind = "deduction_notice" /\ faults' = 0 /\ t.pc \in {"resolve", "insert"} =>
               openedFrom(t.doc) = {}
        BY <2>1 DEF NoticeInv, NoticeFirst
      <3>2. QED BY <3>1 DEF openedFrom, RowsStay
    <2>3. t.kind = "deduction_notice" /\ t.pc = "classify" => onCase(t.doc)'
      <3>1. CASE v = w
        BY <2>1, <3>1
      <3>2. CASE v # w
        <4>1. t = run[v]
          BY <2>1, <3>2
        <4>2. t.pc = "classify" => t.doc \in Documents
          BY <4>1, WorkerHas DEF RunFits
        <4>3. QED BY <1>3, <4>1, <4>2 DEF NoticeInv, NoticeFirst
      <3>3. QED BY <3>1, <3>2
    <2>4. NoticeFirst(t)' <=> NoticeFirst(run[v])'
      BY <2>1 DEF NoticeFirst, openedFrom, onCase
    <2>5. NoticeFirst(t)'
      BY <2>2, <2>3 DEF NoticeFirst
    <2>6. QED BY <2>4, <2>5
  <1>6. ASSUME NEW d \in Documents, page'[d].kind = "deduction_notice",
               page'[d].lines[1].claim # NoClaim \/ faults' = 0
        PROVE  \A b, c \in openedFrom(d)' : b = c
    BY <1>1, <1>6 DEF NoticeInv, RowsStay
  <1>7. QED BY <1>2, <1>4, <1>5, <1>6 DEF NoticeInv


\* A step outside a notice's opening.
LEMMA NoticeAside ==
    ASSUME ReadInv, NoticeInv, RowsStay, faults' = 0 => faults = 0, NEW w \in Workers,
           NEW r, run' = [run EXCEPT ![w] = r],
           \/ run[w].pc \notin Posted \cup {"record"} \/ faults' # 0
           \/ run[w].kind # "deduction_notice" /\ run[w].pc # "record",
           r.pc \notin {"resolve", "insert", "classify"} \/ r.kind # "deduction_notice"
    PROVE  NoticeInv'
  <1>1. run'[w] = r /\ \A v \in Workers \ {w} : run'[v] = run[v]
    BY WorkerHas
  <1>2. "record" \notin Posted
    BY DEF Posted
  <1>3. PICK q : q = run[w]
    OBVIOUS
  <1>4. QED BY <1>1, <1>2, <1>3, NoticeMoves

\* Tables left alone stay.
LEMMA QuietStays ==
    ASSUME UNCHANGED <<page, rows>>
    PROVE  RowsStay
  BY DEF RowsStay, rows

\* A run that ends: the queue may have it again.
LEMMA Ends ==
    ASSUME NEW w \in Workers, \/ again(w) \/ gaveUp(w) \/ finish(w)
    PROVE  run' = [run EXCEPT ![w] = Idle]
  BY DEF again, gaveUp, finish

\* A run that throws ends, or keeps its reading first.
LEMMA Throws ==
    ASSUME ReadInv, NEW w \in Workers, NEW b \in BOOLEAN, throws(w, b), run[w].pc \in OpeningSteps
    PROVE  \E r : run' = [run EXCEPT ![w] = r] /\ r.pc \in {"idle", "failing"}
  <1>1. CASE run' = [run EXCEPT ![w].pc = "failing", ![w].again = b]
    <2>1. PICK r : r = [run[w] EXCEPT !.pc = "failing", !.again = b]
      OBVIOUS
    <2>2. r.pc = "failing" /\ run' = [run EXCEPT ![w] = r]
      BY <1>1, <2>1, WorkerHas DEF RunType
    <2>3. QED BY <2>2
  <1>2. CASE again(w) \/ gaveUp(w)
    BY <1>2, Ends, IdleFits
  <1>3. QED BY <1>1, <1>2 DEF throws

\* Steps up to the reading, and the ones that file, hold or release.
LEMMA NoticeFrontSteps ==
    ASSUME ReadInv, NoticeInv, NEW w \in Workers,
           \/ withDocumentRead(w) \/ PoolTimeout(w) \/ answerFromRecord(w)
           \/ recordHold(w) \/ linkEvidence(w) \/ releaseHold(w)
           \/ recordThenThrow(w)
    PROVE  NoticeInv'
  <1>1. /\ UNCHANGED faults /\ RowsStay
        /\ run[w].pc \in {"lease", "connect", "check", "hold", "attach", "release", "failing"}
    <2>1. CASE withDocumentRead(w) \/ PoolTimeout(w)
      BY <2>1, QuietStays DEF withDocumentRead, PoolTimeout, bounds
    <2>2. CASE answerFromRecord(w) \/ linkEvidence(w)
      BY <2>2 DEF answerFromRecord, linkEvidence, RowsStay, bounds
    <2>3. CASE recordHold(w) \/ releaseHold(w)
      BY <2>3 DEF recordHold, releaseHold, RowsStay, bounds
    <2>4. CASE recordThenThrow(w)
      <3>1. run[w].kind \in Kinds
        BY WorkerHas DEF RunType
      <3>2. QED BY <2>4, <3>1, TypesHave DEF recordThenThrow, RowsStay, bounds, Kinds
    <2>5. QED BY <2>1, <2>2, <2>3, <2>4
  <1>2. \E r : run' = [run EXCEPT ![w] = r] /\ r.pc \in {"idle", "check"}
    <2>1. CASE run' = [run EXCEPT ![w] = Idle]
      BY <2>1, IdleFits
    <2>2. CASE run' = [run EXCEPT ![w].pc = "check"]
      <3>1. PICK r : r = [run[w] EXCEPT !.pc = "check"]
        OBVIOUS
      <3>2. r.pc = "check"
        BY <3>1, WorkerHas DEF RunType
      <3>3. QED BY <2>2, <3>1, <3>2
    <2>3. QED
      BY <2>1, <2>2, Ends DEF withDocumentRead, PoolTimeout, answerFromRecord, recordHold, linkEvidence,
         releaseHold, recordThenThrow, goto
  <1>3. run[w].pc \notin Posted \cup {"record"}
    BY <1>1 DEF Posted
  <1>4. QED BY <1>1, <1>2, <1>3, NoticeAside

\* Nobody has begun a notice's case when a run that came first to it begins.
LEMMA NoticeIsNew ==
    ASSUME ReadInv, NoticeInv, faults = 0, NEW w \in Workers, run[w].pc = "check",
           page[run[w].doc].kind = "deduction_notice",
           ~onCase(run[w].doc) \/ extraction[run[w].doc] = "none"
    PROVE  openedFrom(run[w].doc) = {}
  <1>1. run[w].doc \in Documents
    BY WorkerHas DEF RunFits
  <1>2. NoticeGoesOn(run[w].doc)
    BY <1>1 DEF NoticeInv
  <1>3. QED BY <1>2, NoOtherRun DEF NoticeGoesOn

\* A notice is read, by nobody else at the time, and goes on to its case if it has none.
LEMMA NoticeReadStep ==
    ASSUME ReadInv, NoticeInv, NEW w \in Workers, NEW f \in BOOLEAN,
           readDocument(w, page[run[w].doc].kind, f)
    PROVE  NoticeInv'
  <1> DEFINE d == run[w].doc
  <1>1. /\ UNCHANGED <<page, rows, faults>> /\ run[w].pc = "check"
        /\ ~recordedRead(d, run[w].attach, run[w].mayOpen)
        /\ run' = [run EXCEPT ![w].pc = afterReading(w, page[d].kind, f), ![w].kind = page[d].kind,
                              ![w].fits = f]
    BY DEF readDocument, bounds
  <1>2. PICK p : p = afterReading(w, page[d].kind, f)
    OBVIOUS
  <1>3. p \notin {"insert", "classify"}
    BY <1>2 DEF afterReading, afterRecord
  <1>4. PICK r : r = [run[w] EXCEPT !.pc = p, !.kind = page[d].kind, !.fits = f]
    OBVIOUS
  <1>5. r.pc = p /\ r.doc = d /\ r.kind = page[d].kind /\ run' = [run EXCEPT ![w] = r]
    BY <1>1, <1>2, <1>4, WorkerHas DEF RunType
  <1>6. run'[w] = r /\ \A v \in Workers \ {w} : run'[v] = run[v]
    BY <1>5, WorkerHas
  <1>7. RowsStay
    BY <1>1, QuietStays
  <1>8. r.kind = "deduction_notice" /\ faults' = 0 => openedFrom(r.doc) = {}
    BY <1>1, <1>5, NoticeIsNew DEF recordedRead
  <1>9. PICK q : q = run[w]
    OBVIOUS
  <1>10. q.pc \notin Posted \cup {"record"}
    BY <1>1, <1>9 DEF Posted
  <1>11. QED BY <1>1, <1>3, <1>5, <1>6, <1>7, <1>8, <1>9, <1>10, NoticeMoves

\* A person opens a held notice that is on no case.
LEMMA NoticeHeldStep ==
    ASSUME ReadInv, NoticeInv, NEW w \in Workers, openHeldDocument(w)
    PROVE  NoticeInv'
  <1> DEFINE d == run[w].doc
  <1>1. /\ UNCHANGED <<page, cases, names, links, faults>> /\ run[w].pc = "check" /\ d \in Documents
    BY WorkerHas DEF openHeldDocument, bounds, RunFits
  <1>2. PICK q : q = run[w] /\ q.pc \notin Posted \cup {"record"}
    BY <1>1 DEF Posted
  <1>3. CASE run' = [run EXCEPT ![w] = Idle] /\ UNCHANGED extraction
    <2>1. RowsStay
      BY <1>1, <1>3 DEF RowsStay
    <2>2. QED BY <1>1, <1>2, <1>3, <2>1, IdleFits, NoticeAside
  <1>4. ASSUME NEW k, k = (IF extraction[d] = "none" /\ d \in mapped THEN page[d].kind ELSE extraction[d]),
               ~onCase(d), opensCaseOnItsOwn(k),
               run' = [run EXCEPT ![w].pc = IF k = "deduction_notice" THEN "resolve" ELSE "next",
                                  ![w].kind = k],
               extraction' = [extraction EXCEPT ![d] = k]
        PROVE  NoticeInv'
    <2>1. k = page[d].kind /\ k # "none"
      BY <1>1, <1>4 DEF ReadInv, TablesFit, DocumentFits, opensCaseOnItsOwn
    <2>2. RowsStay
      BY <1>1, <1>4, <2>1, TypesHave DEF RowsStay
    <2>3. PICK p : p = IF k = "deduction_notice" THEN "resolve" ELSE "next"
      OBVIOUS
    <2>4. PICK r : r = [run[w] EXCEPT !.pc = p, !.kind = k]
      OBVIOUS
    <2>5. r.pc = p /\ r.doc = d /\ r.kind = k /\ run' = [run EXCEPT ![w] = r]
      BY <1>4, <2>3, <2>4, WorkerHas DEF RunType
    <2>6. run'[w] = r /\ \A v \in Workers \ {w} : run'[v] = run[v]
      BY <2>5, WorkerHas
    <2>7. r.kind = "deduction_notice" /\ faults' = 0 => openedFrom(r.doc) = {}
      BY <1>1, <1>4, <2>1, <2>5, NoticeIsNew
    <2>8. QED BY <1>1, <1>2, <2>2, <2>3, <2>5, <2>6, <2>7, NoticeMoves
  <1>5. QED BY <1>3, <1>4, Zenon DEF openHeldDocument, finish


\* The reading of a notice is on record when its run is done.
LEMMA NoticeRecordStep ==
    ASSUME ReadInv, NoticeInv, NEW w \in Workers, recordTheRead(w)
    PROVE  NoticeInv'
  <1> DEFINE d == run[w].doc
             then == afterRecord(w, run[w].kind, run[w].fits)
  <1>1. /\ UNCHANGED <<page, cases, names, links, faults>> /\ run[w].pc = "record"
        /\ extraction' = [extraction EXCEPT ![d] = run[w].kind]
        /\ run' = [run EXCEPT ![w] = Idle] \/ (run' = [run EXCEPT ![w].pc = then] /\ then # "done")
    BY DEF recordTheRead, bounds, goto, finish
  <1>2. run[w].kind \in Kinds /\ d \in Documents
    BY <1>1, WorkerHas DEF RunType, RunFits
  <1>3. RowsStay /\ extraction'[d] # "none"
    BY <1>1, <1>2, TypesHave DEF RowsStay, Kinds
  <1>4. then \in {"attach", "hold", "next", "done"}
    BY DEF afterRecord
  <1>5. PICK r : run' = [run EXCEPT ![w] = r] /\ r.pc \in {"idle", "attach", "hold", "next"}
    <2>1. CASE run' = [run EXCEPT ![w] = Idle]
      BY <2>1, IdleFits
    <2>2. CASE run' = [run EXCEPT ![w].pc = then] /\ then # "done"
      <3>1. PICK p : p = then
        OBVIOUS
      <3>2. PICK s : s = [run[w] EXCEPT !.pc = p]
        OBVIOUS
      <3>3. s.pc = p /\ run' = [run EXCEPT ![w] = s]
        BY <2>2, <3>1, <3>2, WorkerHas DEF RunType
      <3>4. QED BY <1>4, <2>2, <3>1, <3>3
    <2>3. QED BY <1>1, <2>1, <2>2
  <1>6. run'[w] = r /\ \A v \in Workers \ {w} : run'[v] = run[v]
    BY <1>5, WorkerHas
  <1>7. PICK q : q = run[w] /\ q.pc \notin Posted /\ q.doc = d
    BY <1>1 DEF Posted
  <1>8. QED BY <1>1, <1>3, <1>5, <1>6, <1>7, NoticeMoves

\* A notice that finds nothing under its names goes on to the insert.
LEMMA NoticeResolveStep ==
    ASSUME ReadInv, NoticeInv, NEW w \in Workers, resolveArrival(w)
    PROVE  NoticeInv'
  <1>1. /\ UNCHANGED <<page, rows, faults>> /\ run[w].pc = "resolve" /\ run[w].pc \in OpeningSteps
        /\ run[w].pc \notin Posted \cup {"record"}
    BY DEF resolveArrival, bounds, OpeningSteps, Posted
  <1>2. \/ \E b \in BOOLEAN : throws(w, b)
        \/ \E s : run' = [run EXCEPT ![w].pc = "merge", ![w].same = s]
        \/ \E s : run' = [run EXCEPT ![w].pc = "insert", ![w].like = s]
    BY Zenon DEF resolveArrival
  <1>3. RowsStay
    BY <1>1, QuietStays
  <1>4. CASE \E b \in BOOLEAN : throws(w, b)
    BY <1>1, <1>3, <1>4, Throws, NoticeAside
  <1>5. ASSUME NEW s, run' = [run EXCEPT ![w].pc = "merge", ![w].same = s]
        PROVE  NoticeInv'
    <2>1. PICK r : r = [run[w] EXCEPT !.pc = "merge", !.same = s]
      OBVIOUS
    <2>2. r.pc = "merge" /\ run' = [run EXCEPT ![w] = r]
      BY <1>5, <2>1, WorkerHas DEF RunType
    <2>3. QED BY <1>1, <1>3, <2>2, NoticeAside
  <1>6. ASSUME NEW s, run' = [run EXCEPT ![w].pc = "insert", ![w].like = s]
        PROVE  NoticeInv'
    <2>1. PICK r : r = [run[w] EXCEPT !.pc = "insert", !.like = s]
      OBVIOUS
    <2>2. r.pc = "insert" /\ r.doc = run[w].doc /\ r.kind = run[w].kind /\ run' = [run EXCEPT ![w] = r]
      BY <1>6, <2>1, WorkerHas DEF RunType
    <2>3. run'[w] = r /\ \A v \in Workers \ {w} : run'[v] = run[v]
      BY <2>2, WorkerHas
    <2>4. r.kind = "deduction_notice" /\ faults' = 0 => openedFrom(r.doc) = {}
      BY <1>1, <2>2 DEF NoticeInv, NoticeFirst
    <2>5. PICK q : q = run[w]
      OBVIOUS
    <2>6. QED BY <1>1, <1>3, <2>2, <2>3, <2>4, <2>5, NoticeMoves
  <1>7. QED BY <1>2, <1>4, <1>5, <1>6

\* The case of a notice is named, linked, and then opened.
LEMMA NoticePostedSteps ==
    ASSUME ReadInv, NoticeInv, NEW w \in Workers,
           recordIdentifiers(w) \/ linkDocument(w) \/ flagDuplicates(w)
    PROVE  NoticeInv'
  <1>0. PICK d : d = run[w].doc
    OBVIOUS
  <1>1. /\ UNCHANGED <<page, extraction, faults>> /\ run[w].pc \in Posted \ {"classify"}
        /\ names \subseteq names' /\ links \subseteq links'
    BY DEF recordIdentifiers, linkDocument, flagDuplicates, bounds, Posted
  <1>2. /\ run[w] \in RunType /\ d \in Documents /\ run[w].case \in DOMAIN cases
        /\ run[w].pc = "flag" => run[w].kind # "deduction_notice"
    BY <1>0, <1>1, WorkerHas DEF RunFits, Leased, OnTheWay, Posted, CaseOfRun, ForLines
  <1>3. RowsStay
    <2>1. CASE UNCHANGED cases
      BY <1>1, <2>1 DEF RowsStay
    <2>2. CASE flagDuplicates(w)
      <3>1. cases' = [cases EXCEPT ![run[w].case].flags = run[w].like] /\ cases \in Seq(CaseRow)
        BY <2>2, TypesHave DEF flagDuplicates
      <3>2. DOMAIN cases' = DOMAIN cases /\ \A c \in DOMAIN cases : c # run[w].case => cases'[c] = cases[c]
        BY <3>1
      <3>3. PICK k : k = cases[run[w].case] /\ k \in CaseRow
        BY <1>2, <3>1
      <3>4. cases'[run[w].case] = [k EXCEPT !.flags = run[w].like]
        BY <1>2, <3>1, <3>3
      <3>5. QED BY <1>1, <3>2, <3>3, <3>4 DEF RowsStay, CaseRow
    <2>3. QED BY <2>1, <2>2 DEF recordIdentifiers, linkDocument
  <1>4. PICK p : p \in Posted /\ run' = [run EXCEPT ![w].pc = p]
    BY DEF recordIdentifiers, linkDocument, flagDuplicates, goto, Posted
  <1>5. PICK r : r = [run[w] EXCEPT !.pc = p]
    OBVIOUS
  <1>6. r.pc = p /\ r.doc = d /\ r.kind = run[w].kind /\ run' = [run EXCEPT ![w] = r]
    BY <1>0, <1>2, <1>4, <1>5 DEF RunType
  <1>7. run'[w] = r /\ \A v \in Workers \ {w} : run'[v] = run[v]
    BY <1>6, WorkerHas
  <1>8. r.kind = "deduction_notice" /\ r.pc = "classify" => onCase(d)'
    <2>1. CASE linkDocument(w)
      BY <1>0, <1>2, <1>3, <2>1 DEF linkDocument, onCase, RowsStay
    <2>2. CASE recordIdentifiers(w)
      <3>1. run' = [run EXCEPT ![w].pc = IF onLines(w) THEN "flag" ELSE "link"]
        BY <2>2 DEF recordIdentifiers, goto
      <3>2. run'[w].pc # "classify"
        BY <1>2, <3>1, WorkerHas DEF RunType
      <3>3. QED BY <1>7, <3>2
    <2>3. CASE flagDuplicates(w)
      BY <1>2, <1>6, <2>3 DEF flagDuplicates
    <2>4. QED BY <2>1, <2>2, <2>3
  <1>9. PICK q : q = run[w] /\ q.doc = d /\ q.pc # "record"
    BY <1>0, <1>1 DEF Posted
  <1>10. r.pc \notin {"resolve", "insert"}
    BY <1>4, <1>6 DEF Posted
  <1>11. QED BY <1>1, <1>3, <1>4, <1>6, <1>7, <1>8, <1>9, <1>10, NoticeMoves

\* The case of a notice is open, linked, and read or about to be.
LEMMA NoticeClassifyStep ==
    ASSUME ReadInv, NoticeInv, NEW w \in Workers, transitionCase(w)
    PROVE  NoticeInv'
  <1>0. PICK d : d = run[w].doc
    OBVIOUS
  <1>1. /\ UNCHANGED <<page, extraction, names, links, faults>> /\ run[w].pc = "classify"
        /\ cases' = [cases EXCEPT ![run[w].case].open = TRUE] /\ cases \in Seq(CaseRow)
        /\ \/ /\ run[w].kind = "deduction_notice"
              /\ run' = [run EXCEPT ![w].pc = IF run[w].by = "open" THEN "release" ELSE "record"]
           \/ /\ run[w].kind # "deduction_notice"
              /\ run' = [run EXCEPT ![w].pc = "next", ![w].here = @ \cup {run[w].case},
                                    ![w].line = @ + 1, ![w].case = 0]
    BY TypesHave DEF transitionCase, bounds, goto
  <1>2. /\ run[w] \in RunType /\ d \in Documents /\ run[w].case \in DOMAIN cases
        /\ run[w].by = "open" => extraction[d] # "none"
        /\ run[w].kind = "deduction_notice" => onCase(d)
    BY <1>0, <1>1, WorkerHas DEF RunFits, Leased, OnTheWay, Posted, CaseOfRun, NoticeInv, NoticeFirst
  <1>3. RowsStay
    <2>1. DOMAIN cases' = DOMAIN cases /\ \A c \in DOMAIN cases : c # run[w].case => cases'[c] = cases[c]
      BY <1>1
    <2>2. PICK k : k = cases[run[w].case] /\ k \in CaseRow
      BY <1>1, <1>2
    <2>3. cases'[run[w].case] = [k EXCEPT !.open = TRUE]
      BY <1>1, <1>2, <2>2
    <2>4. QED BY <1>1, <2>1, <2>2, <2>3 DEF RowsStay, CaseRow
  <1>4. CASE /\ run[w].kind # "deduction_notice"
             /\ run' = [run EXCEPT ![w].pc = "next", ![w].here = @ \cup {run[w].case},
                                   ![w].line = @ + 1, ![w].case = 0]
    <2>1. PICK r : r = [run[w] EXCEPT !.pc = "next", !.here = @ \cup {run[w].case}, !.line = @ + 1,
                                      !.case = 0]
      OBVIOUS
    <2>2. r.pc = "next" /\ run' = [run EXCEPT ![w] = r]
      BY <1>2, <1>4, <2>1 DEF RunType
    <2>3. QED BY <1>1, <1>3, <1>4, <2>2, NoticeAside
  <1>5. CASE /\ run[w].kind = "deduction_notice"
             /\ run' = [run EXCEPT ![w].pc = IF run[w].by = "open" THEN "release" ELSE "record"]
    <2>1. PICK p : p = IF run[w].by = "open" THEN "release" ELSE "record"
      OBVIOUS
    <2>2. PICK r : r = [run[w] EXCEPT !.pc = p]
      OBVIOUS
    <2>3. r.pc = p /\ r.doc = d /\ run' = [run EXCEPT ![w] = r]
      BY <1>0, <1>2, <1>5, <2>1, <2>2 DEF RunType
    <2>4. run'[w] = r /\ \A v \in Workers \ {w} : run'[v] = run[v]
      BY <2>3, WorkerHas
    <2>5. onCase(d)'
      BY <1>2, <1>3, <1>5 DEF onCase, RowsStay
    <2>6. PICK q : q = run[w] /\ q.doc = d /\ q.pc = "classify"
      BY <1>0, <1>1
    <2>7. extraction'[d] # "none" \/ r.pc = "record"
      BY <1>1, <1>2, <2>1, <2>3
    <2>8. QED BY <1>1, <1>3, <2>1, <2>3, <2>4, <2>5, <2>6, <2>7, NoticeMoves
  <1>6. QED BY <1>1, <1>4, <1>5


\* Steps of the lines of a remittance and the rows of a report.
LEMMA NoticeLineSteps ==
    ASSUME ReadInv, NoticeInv, NEW w \in Workers,
           \/ nextLine(w) \/ connectForClaim(w) \/ withInvoiceClaim(w) \/ identityCandidates(w)
           \/ \E c \in DOMAIN cases : mergeIntoCase(w, c)
    PROVE  NoticeInv'
  <1>1. /\ UNCHANGED faults /\ RowsStay
        /\ run[w].pc \in {"next", "connect", "lock", "look", "merge"}
    <2>1. CASE \/ nextLine(w) \/ connectForClaim(w) \/ withInvoiceClaim(w) \/ identityCandidates(w)
      BY <2>1, QuietStays
         DEF nextLine, connectForClaim, withInvoiceClaim, identityCandidates, bounds
    <2>2. CASE \E c \in DOMAIN cases : mergeIntoCase(w, c)
      BY <2>2 DEF mergeIntoCase, RowsStay, bounds
    <2>3. QED BY <2>1, <2>2
  <1>2. run[w] \in RunType /\ run[w].kind # "deduction_notice"
    BY <1>1, WorkerHas DEF RunFits, ForLines
  <1>3. run'[w].kind # "deduction_notice" /\ \A v \in Workers \ {w} : run'[v] = run[v]
    <2>1. CASE connectForClaim(w) \/ withInvoiceClaim(w)
      BY <1>2, <2>1, WorkerHas DEF connectForClaim, withInvoiceClaim, goto, RunType
    <2>2. CASE nextLine(w)
      BY <1>2, <2>2, WorkerHas, IdleFits DEF nextLine, goto, finish, RunType
    <2>3. CASE identityCandidates(w)
      <3>1. \/ \E s : run' = [run EXCEPT ![w].pc = "merge", ![w].same = s]
            \/ \E s : run' = [run EXCEPT ![w].pc = "resolve", ![w].like = s]
            \/ \E n : run' = [run EXCEPT ![w].pc = "next", ![w].line = n]
            \/ run' = [run EXCEPT ![w].pc = "resolve"]
        BY <2>3 DEF identityCandidates
      <3>2. QED BY <1>2, <3>1, WorkerHas DEF RunType
    <2>4. CASE \E c \in DOMAIN cases : mergeIntoCase(w, c)
      <3>1. run' = [run EXCEPT ![w].pc = "next", ![w].line = @ + 1]
        BY <2>4 DEF mergeIntoCase
      <3>2. QED BY <1>2, <3>1, WorkerHas DEF RunType
    <2>5. QED BY <2>1, <2>2, <2>3, <2>4
  <1>4. PICK q : q = run[w] /\ q.pc \notin Posted \cup {"record"}
    BY <1>1 DEF Posted
  <1>5. PICK r : r = run'[w] /\ r.kind # "deduction_notice"
    BY <1>3
  <1>6. QED BY <1>1, <1>3, <1>4, <1>5, NoticeMoves

\* The case of a notice is inserted: it is the notice's first, and its claim is named with it.
LEMMA NoticeInsertStep ==
    ASSUME ReadInv, NoticeInv, NEW w \in Workers, openCase(w)
    PROVE  NoticeInv'
  <1>0. PICK d : d = run[w].doc
    OBVIOUS
  <1>1. /\ run[w].pc = "insert"
        /\ UNCHANGED <<page, scan, extraction, hold, mapped, links, byHand, faults>>
    BY OpenCaseDoes
  <1>2. /\ run[w] \in RunType /\ run[w].pc \in OpeningSteps /\ run[w].pc \notin Posted \cup {"record"}
        /\ d \in Documents /\ run[w].kind = page[d].kind /\ run[w].pc \in Leased
        /\ run[w].kind = "deduction_notice" => run[w].line = 1
    BY <1>0, <1>1, WorkerHas DEF RunFits, Leased, OnTheWay, OpeningSteps, Posted
  <1>3. CASE UNCHANGED <<cases, names>> /\ throws(w, FALSE)
    <2>1. RowsStay
      BY <1>1, <1>3 DEF RowsStay
    <2>2. QED BY <1>1, <1>2, <1>3, <2>1, Throws, NoticeAside
  <1>4. ASSUME UNCHANGED <<cases, names>>, NEW s, run' = [run EXCEPT ![w].pc = "merge", ![w].same = s]
        PROVE  NoticeInv'
    <2>1. RowsStay
      BY <1>1, <1>4 DEF RowsStay
    <2>2. PICK r : r = [run[w] EXCEPT !.pc = "merge", !.same = s]
      OBVIOUS
    <2>3. r.pc = "merge" /\ run' = [run EXCEPT ![w] = r]
      BY <1>2, <1>4, <2>2 DEF RunType
    <2>4. QED BY <1>1, <1>2, <2>1, <2>3, NoticeAside
  <1>5. CASE /\ cases' = Append(cases, newCase(w)) /\ names' = names \cup nameAtOnce(w)
             /\ run' = [run EXCEPT ![w].case = Len(cases) + 1,
                                   ![w].pc = IF onLines(w) THEN "link" ELSE "names"]
             /\ \A n \in nameAtOnce(w) : taken(n) = {}
    <2>1. PICK k : k = newCase(w)
      OBVIOUS
    <2>2. /\ k \in CaseRow /\ k.doc = d /\ k.kind = run[w].kind
          /\ k.claim = lineAt(run[w]).claim /\ lineOf(w) = lineAt(run[w])
          /\ k.kind = "deduction_notice" => k.claim = page[d].lines[1].claim
      BY <1>0, <1>1, <2>1, NewCaseFits
    <2>3. PICK x : x = Len(cases) + 1
      OBVIOUS
    <2>4. /\ x \in DOMAIN cases' /\ x \notin DOMAIN cases /\ cases'[x] = k
          /\ \A c \in DOMAIN cases : c \in DOMAIN cases' /\ cases'[c] = cases[c]
          /\ \A c \in DOMAIN cases' : c \in DOMAIN cases \/ c = x
      BY <1>5, <2>1, <2>2, <2>3, Appended
    <2>5. PICK p : p = (IF onLines(w) THEN "link" ELSE "names") /\ p \in Posted
      BY DEF Posted
    <2>6. PICK r : r = [run[w] EXCEPT !.case = x, !.pc = p]
      OBVIOUS
    <2>7. r.pc = p /\ r.doc = d /\ run' = [run EXCEPT ![w] = r]
      BY <1>0, <1>2, <1>5, <2>3, <2>5, <2>6 DEF RunType
    <2>8. run'[w] = r /\ \A v \in Workers \ {w} : run'[v] = run[v]
      BY <2>7, WorkerHas
    <2>9. /\ openedFrom(d)' = openedFrom(d) \cup {x}
          /\ \A e \in Documents \ {d} : openedFrom(e)' = openedFrom(e)
      BY <2>2, <2>4 DEF openedFrom
    <2>10. k.kind = "deduction_notice" /\ k.claim # NoClaim =>
              \E n \in nameAtOnce(w) : /\ n.source = page[d].source /\ n.kind = "claim_id"
                                       /\ n.id = k.claim
      BY <1>0, <2>2 DEF nameAtOnce, onLines
    <2>11. \A c \in DOMAIN cases' : ClaimIsNamed(c)'
      <3>1. ASSUME NEW c \in DOMAIN cases PROVE ClaimIsNamed(c)'
        BY <1>1, <1>5, <2>4 DEF NoticeInv, ClaimIsNamed
      <3>2. ClaimIsNamed(x)'
        BY <1>1, <1>5, <2>2, <2>4, <2>10 DEF ClaimIsNamed
      <3>3. QED BY <2>4, <3>1, <3>2
    <2>12. ASSUME page[d].kind = "deduction_notice", page[d].lines[1].claim # NoClaim \/ faults = 0
           PROVE  openedFrom(d) = {}
      <3>1. CASE faults = 0
        BY <1>0, <1>1, <1>2, <2>12, <3>1 DEF NoticeInv, NoticeFirst
      <3>2. CASE page[d].lines[1].claim # NoClaim
        <4>1. ASSUME NEW b \in openedFrom(d) PROVE FALSE
          <5>1. b \in DOMAIN cases /\ cases[b].doc = d /\ CaseFits(b) /\ ClaimIsNamed(b)
            BY DEF openedFrom, ReadInv, TablesFit, NoticeInv
          <5>2. \E n \in names : n.source = page[d].source /\ n.kind = "claim_id" /\ n.id = k.claim
            BY <1>2, <2>2, <2>12, <3>2, <5>1 DEF CaseFits, ClaimIsNamed
          <5>3. QED BY <1>2, <1>5, <2>2, <2>10, <2>12, <3>2, <5>2 DEF taken
        <4>2. QED BY <4>1
      <3>3. QED BY <2>12, <3>1, <3>2
    <2>13. ASSUME NEW e \in Documents PROVE NoticeGoesOn(e)'
      <3>1. CASE e = d
        BY <2>5, <2>7, <2>8, <3>1 DEF NoticeGoesOn
      <3>2. CASE e # d
        <4>1. NoticeGoesOn(e)
          BY DEF NoticeInv
        <4>2. onCase(e) => onCase(e)'
          BY <1>1, <2>4 DEF onCase
        <4>3. \A v \in Workers : run[v].doc = e => run'[v] = run[v]
          BY <1>0, <2>8, <3>2
        <4>4. QED BY <1>1, <2>9, <3>2, <4>1, <4>2, <4>3 DEF NoticeGoesOn
      <3>3. QED BY <3>1, <3>2
    <2>14. ASSUME NEW v \in Workers PROVE NoticeFirst(run[v])'
      <3>1. PICK t : t = run'[v]
        OBVIOUS
      <3>2. NoticeFirst(t)' <=> NoticeFirst(run[v])'
        BY <3>1 DEF NoticeFirst, openedFrom, onCase
      <3>3. CASE v = w
        BY <2>5, <2>7, <2>8, <3>1, <3>2, <3>3 DEF NoticeFirst
      <3>4. CASE v # w
        <4>1. t = run[v] /\ NoticeFirst(t)
          BY <2>8, <3>1, <3>4 DEF NoticeInv
        <4>2. t.pc \in {"resolve", "insert"} => t.doc \in Documents \ {d}
          BY <1>0, <1>2, <3>4, <4>1, WorkerHas DEF RunFits, ReadInv, OneLease, Leased, OnTheWay
        <4>3. t.pc = "classify" => (onCase(t.doc) => onCase(t.doc)')
          BY <1>1, <2>4 DEF onCase
        <4>4. QED BY <1>1, <2>9, <3>2, <4>1, <4>2, <4>3 DEF NoticeFirst
      <3>5. QED BY <3>3, <3>4
    <2>15. ASSUME NEW e \in Documents, page'[e].kind = "deduction_notice",
                  page'[e].lines[1].claim # NoClaim \/ faults' = 0
           PROVE  \A b, c \in openedFrom(e)' : b = c
      <3>1. CASE e = d
        BY <1>1, <2>9, <2>12, <2>15, <3>1
      <3>2. CASE e # d
        BY <1>1, <2>9, <2>15, <3>2 DEF NoticeInv
      <3>3. QED BY <3>1, <3>2
    <2>16. QED BY <2>11, <2>13, <2>14, <2>15 DEF NoticeInv
  <1>6. QED BY <1>3, <1>4, <1>5, OpenCaseDoes


\* Runs are started, die and fail; a person presses, and a document arrives.
LEMMA NoticeOtherSteps ==
    ASSUME ReadInv, NoticeInv, NEW w \in Workers,
           \/ \E e \in queue : StartRun(w, e)
           \/ RunDies(w) \/ StoreFails(w)
           \/ \E d \in Documents : OpenHeld(w, d) \/ MapSheet(w, d)
    PROVE  NoticeInv'
  <1>1. faults \in Nat
    BY TypesHave
  <1>2. CASE RunDies(w) \/ StoreFails(w)
    <2>1. faults' # 0 /\ RowsStay
      <3>1. faults' = faults + 1 /\ UNCHANGED <<page, rows>>
        BY <1>2 DEF RunDies, StoreFails
      <3>2. QED BY <1>1, <3>1, QuietStays
    <2>2. \E r : run' = [run EXCEPT ![w] = r] /\ r.pc \in {"idle", "failing"}
      BY <1>2, Ends, Throws, IdleFits DEF RunDies, StoreFails
    <2>3. QED BY <2>1, <2>2, NoticeAside
  <1>3. CASE \/ \E e \in queue : StartRun(w, e)
             \/ \E d \in Documents : OpenHeld(w, d) \/ MapSheet(w, d)
    <2>1. UNCHANGED faults /\ RowsStay /\ run[w].pc = "idle"
      BY <1>3, QuietStays DEF StartRun, OpenHeld, MapSheet, asks, bounds, RowsStay
    <2>2. \E r : run' = [run EXCEPT ![w] = r] /\ r.pc = "lease"
      <3>1. \/ \E e \in queue :
                  run' = [run EXCEPT ![w] = [Idle EXCEPT !.pc = "lease", !.doc = e.doc, !.mayOpen = e.mayOpen,
                                                         !.attach = e.attach, !.tries = e.tries]]
            \/ \E d \in Documents :
                  run' = [run EXCEPT ![w] = [Idle EXCEPT !.pc = "lease", !.doc = d, !.by = "open"]]
        BY <1>3 DEF StartRun, OpenHeld, MapSheet
      <3>2. \A e : [Idle EXCEPT !.pc = "lease", !.doc = e.doc, !.mayOpen = e.mayOpen,
                               !.attach = e.attach, !.tries = e.tries].pc = "lease"
        BY DEF Idle
      <3>3. \A d : [Idle EXCEPT !.pc = "lease", !.doc = d, !.by = "open"].pc = "lease"
        BY DEF Idle
      <3>4. QED BY <3>1, <3>2, <3>3, Zenon
    <2>3. run[w].pc \notin Posted \cup {"record"}
      BY <2>1 DEF Posted
    <2>4. QED BY <2>1, <2>2, <2>3, NoticeAside
  <1>4. QED BY <1>2, <1>3

\* Nothing that leaves the runs alone begins or ends a case.
LEMMA NoticeSameRuns ==
    ASSUME ReadInv, NoticeInv, RowsStay, UNCHANGED <<run, faults>>
    PROVE  NoticeInv'
  <1>1. \A d \in Documents : openedFrom(d)' = openedFrom(d) /\ (onCase(d) => onCase(d)')
    BY DEF RowsStay, openedFrom, onCase
  <1>2. \A c \in DOMAIN cases' : ClaimIsNamed(c)'
    BY DEF NoticeInv, ClaimIsNamed, RowsStay
  <1>3. \A d \in Documents : NoticeGoesOn(d)'
    BY <1>1 DEF NoticeInv, NoticeGoesOn, RowsStay
  <1>4. ASSUME NEW v \in Workers PROVE NoticeFirst(run[v])'
    <2>1. run[v].pc \in {"resolve", "insert", "classify"} => run[v].doc \in Documents
      BY WorkerHas DEF RunFits
    <2>2. QED BY <1>1, <2>1 DEF NoticeInv, NoticeFirst
  <1>5. QED BY <1>1, <1>2, <1>3, <1>4 DEF NoticeInv, RowsStay

\* At the start nothing is opened.
LEMMA NoticeInit == Init => NoticeInv
  BY IdleFits DEF Init, NoticeInv, openedFrom, NoticeGoesOn, NoticeFirst

\* Every step keeps NoticeInv.
LEMMA NoticeStep == ReadInv /\ NoticeInv /\ [Next]_vars => NoticeInv'
  <1> SUFFICES ASSUME ReadInv, NoticeInv, [Next]_vars PROVE NoticeInv'
    OBVIOUS
  <1>1. CASE UNCHANGED vars
    BY <1>1, NoticeSameRuns DEF vars, RowsStay
  <1>2. ASSUME NEW d \in Documents,
               \/ PutDocument(d) \/ Reread(d)
               \/ \E v \in {"clean", "refused", "error"}, q \in BOOLEAN : RecordScan(d, v, q)
               \/ \E c \in 0..Len(cases) : UploadAgain(d, c)
               \/ \E c \in DOMAIN cases : attachReadDocument(d, c)
        PROVE  NoticeInv'
    BY <1>2, NoticeSameRuns DEF PutDocument, Reread, RecordScan, UploadAgain, attachReadDocument, asks,
       bounds, rows, RowsStay
  <1>3. ASSUME NEW w \in Workers, Proceeds(w) PROVE NoticeInv'
    BY <1>3, NoticeFrontSteps, NoticeReadStep, NoticeHeldStep, NoticeRecordStep, NoticeResolveStep,
       NoticePostedSteps, NoticeClassifyStep, NoticeLineSteps, NoticeInsertStep DEF Proceeds
  <1>4. QED BY <1>1, <1>2, <1>3, NoticeOtherSteps, Zenon DEF Next

\* How far the opening of a notice has come, in every reachable state.
THEOREM NoticeInvariance == Spec => []NoticeInv
  BY NoticeInit, NoticeStep, ReadInvariance, PTL DEF Spec

\* A notice opens one case, whoever reads or opens it how often and in what order: always if it
\* prints a claim id, and while nothing fails if it prints none (withDocumentRead, recordedRead).
THEOREM NoticesOpenOnce == Spec => []NoticeOpensOnce
  <1>1. NoticeInv => NoticeOpensOnce
    <2>1. ASSUME NoticeInv, NEW d \in Documents, page[d].kind = "deduction_notice",
                 page[d].lines[1].claim # NoClaim \/ faults = 0
          PROVE  Cardinality({c \in DOMAIN cases : cases[c].doc = d}) <= 1
      <3>1. \A b, c \in openedFrom(d) : b = c
        BY <2>1 DEF NoticeInv
      <3>2. openedFrom(d) = {} \/ \E b : openedFrom(d) = {b}
        BY <3>1
      <3>3. Cardinality(openedFrom(d)) <= 1
        <4>1. CASE openedFrom(d) = {}
          BY <4>1, FS_EmptySet
        <4>2. ASSUME NEW b, openedFrom(d) = {b} PROVE Cardinality(openedFrom(d)) <= 1
          <5>1. Cardinality({b}) = 1
            BY FS_Singleton
          <5>2. QED BY <4>2, <5>1
        <4>3. QED BY <3>2, <4>1, <4>2
      <3>4. QED BY <3>3 DEF openedFrom
    <2>2. QED BY <2>1 DEF NoticeOpensOnce
  <1>2. QED BY <1>1, NoticeInvariance, PTL

-----------------------------------------------------------------------------
(* The lines of remittances *)

\* Pages do not change, names stay given, and a row of a case keeps what it is about.
CasesGrow ==
    /\ page' = page /\ names \subseteq names'
    /\ \A c \in DOMAIN cases :
          /\ c \in DOMAIN cases'
          /\ cases'[c].claim = cases[c].claim /\ cases'[c].invoice = cases[c].invoice
          /\ cases'[c].doc = cases[c].doc /\ cases'[c].kind = cases[c].kind

\* Names stay given.
LEMMA NamesStay ==
    ASSUME names \subseteq names', NEW c
    PROVE  (ClaimHasName(c) => ClaimHasName(c)') /\ (InvoiceIsNamed(c) => InvoiceIsNamed(c)')
  BY DEF ClaimHasName, InvoiceIsNamed, claimed, named

\* An earlier case of the same paper for the same invoice stays there.
LEMMA SiblingStays ==
    ASSUME CasesGrow, NEW j \in DOMAIN cases, siblingBefore(j)
    PROVE  siblingBefore(j)'
  BY DEF CasesGrow, siblingBefore

\* A run of lines knows what it knew while no line's case is opened and its own case is not flagged.
LEMMA LineKept ==
    ASSUME CasesGrow, lineCases' = lineCases, NEW r, RunFits(r), LineKnows(r),
           r.pc = "classify" => cases'[r.case].flags = cases[r.case].flags
    PROVE  LineKnows(r)'
  <1> SUFFICES ASSUME locks(r) PROVE LineFresh(r)' /\ LineNamed(r)' /\ LineSees(r)'
    BY DEF LineKnows, locks
  <1>1. LineFresh(r) /\ LineNamed(r) /\ LineSees(r)
    BY DEF LineKnows
  <1>2. PICK l : l = lineAt(r) /\ l = lineAt(r)'
    BY DEF CasesGrow, lineAt
  <1>3. \A i \in lineCases : /\ i \in DOMAIN cases /\ cases'[i].claim = cases[i].claim
                             /\ cases'[i].invoice = cases[i].invoice /\ cases'[i].doc = cases[i].doc
    BY DEF CasesGrow, lineCases
  <1>4. LineFresh(r)'
    BY <1>1, <1>2, <1>3 DEF LineFresh
  <1>5. LineNamed(r)'
    <2>1. /\ ClaimHasName(l.claim) => ClaimHasName(l.claim)'
          /\ InvoiceIsNamed(l.invoice) => InvoiceIsNamed(l.invoice)'
      BY NamesStay DEF CasesGrow
    <2>2. PICK c, i : c = l.claim /\ i = l.invoice
      OBVIOUS
    <2>3. QED BY <1>1, <1>2, <2>1 DEF LineNamed, ClaimHasName, InvoiceIsNamed, claimed
  <1>6. r.pc \in Posted => r.case \in DOMAIN cases
    BY DEF RunFits, CaseOfRun
  <1>7. "classify" \in Posted
    BY DEF Posted
  <1>8. r.pc \in Posted /\ siblingBefore(r.case) => siblingBefore(r.case)'
    BY <1>6, SiblingStays
  <1>9. /\ r.pc \in {"resolve", "insert"} /\ r.like = {}
              /\ (\E i \in lineCases' : cases'[i].invoice = l.invoice /\ cases'[i].doc # r.doc)
           => \E k \in DOMAIN cases' : cases'[k].doc = r.doc /\ cases'[k].invoice = l.invoice
        /\ r.pc \in Posted /\ r.like = {}
              /\ (\E i \in lineCases' : cases'[i].invoice = l.invoice /\ cases'[i].doc # r.doc)
           => siblingBefore(r.case)'
        /\ r.pc \in Posted =>
              \A j \in lineCases' : cases'[j].invoice = l.invoice => j < r.case
        /\ r.pc = "classify" => cases'[r.case].flags = r.like
    <2>1. r.pc \in {"resolve", "insert"} /\ r.like = {}
              /\ (\E i \in lineCases' : cases'[i].invoice = l.invoice /\ cases'[i].doc # r.doc)
           => \E k \in DOMAIN cases' : cases'[k].doc = r.doc /\ cases'[k].invoice = l.invoice
      BY <1>1, <1>2, <1>3 DEF LineSees, CasesGrow
    <2>2. r.pc \in Posted /\ r.like = {}
              /\ (\E i \in lineCases' : cases'[i].invoice = l.invoice /\ cases'[i].doc # r.doc)
           => siblingBefore(r.case)'
      BY <1>1, <1>2, <1>3, <1>8 DEF LineSees
    <2>3. r.pc \in Posted =>
              \A j \in lineCases' : cases'[j].invoice = l.invoice => j < r.case
      BY <1>1, <1>2, <1>3 DEF LineSees
    <2>4. r.pc = "classify" => cases'[r.case].flags = r.like
      BY <1>1 DEF LineSees
    <2>5. QED BY <2>1, <2>2, <2>3, <2>4
  <1>10. LineSees(r)'
    BY <1>2, <1>9 DEF LineSees
  <1>11. QED BY <1>4, <1>5, <1>10

\* One worker moves, and no line's case is opened.
LEMMA LineMoves ==
    ASSUME ReadInv, LineInv, CasesGrow, lineCases' = lineCases,
           \A i \in lineCases : cases'[i].flags = cases[i].flags,
           NEW w \in Workers, NEW r, run' = [run EXCEPT ![w] = r], LineKnows(r)',
           \A v \in Workers \ {w} :
               run[v].pc = "classify" => cases'[run[v].case].flags = cases[run[v].case].flags,
           locks(r) =>
               \/ locks(run[w]) /\ r.doc = run[w].doc /\ r.line = run[w].line
               \/ \A v \in Workers : ~(locks(run[v]) /\ lineAt(run[v]).invoice = lineAt(r).invoice)
    PROVE  LineInv'
  <1>1. run'[w] = r /\ \A v \in Workers \ {w} : run'[v] = run[v]
    BY WorkerHas
  <1>2. \A t : lineAt(t)' = lineAt(t)
    BY DEF CasesGrow, lineAt
  <1>3. OneClaim'
    <2>1. ASSUME NEW u \in Workers, NEW v \in Workers, NEW s, NEW t, s = run'[u], t = run'[v],
                 locks(s), locks(t), lineAt(s).invoice = lineAt(t).invoice
          PROVE  u = v
      <3>1. \A t1 \in Workers, t2 \in Workers :
               locks(run[t1]) /\ locks(run[t2]) /\ lineAt(run[t1]).invoice = lineAt(run[t2]).invoice => t1 = t2
        BY DEF LineInv, OneClaim
      <3>2. locks(r) =>
               \/ locks(run[w]) /\ lineAt(run[w]) = lineAt(r)
               \/ \A x \in Workers : ~(locks(run[x]) /\ lineAt(run[x]).invoice = lineAt(r).invoice)
        BY DEF lineAt
      <3>3. CASE u # w /\ v # w
        BY <1>1, <2>1, <3>1, <3>3
      <3>4. CASE u = w /\ v # w
        <4>1. s = r /\ t = run[v]
          BY <1>1, <2>1, <3>4
        <4>2. QED BY <2>1, <3>1, <3>2, <3>4, <4>1
      <3>5. CASE v = w /\ u # w
        <4>1. t = r /\ s = run[u]
          BY <1>1, <2>1, <3>5
        <4>2. QED BY <2>1, <3>1, <3>2, <3>5, <4>1
      <3>6. QED BY <3>3, <3>4, <3>5
    <2>2. \A u \in Workers : \E s : s = run'[u] /\ (locks(run[u])' <=> locks(s))
                                    /\ lineAt(run[u])' = lineAt(s)
      BY <1>2 DEF locks, lineAt, CasesGrow
    <2>3. QED BY <2>1, <2>2 DEF OneClaim
  <1>4. ASSUME NEW v \in Workers PROVE LineKnows(run[v])'
    <2>1. PICK t : t = run'[v]
      OBVIOUS
    <2>2. LineKnows(t)' <=> LineKnows(run[v])'
      BY <2>1 DEF LineKnows, locks, LineFresh, LineNamed, LineSees, lineAt, ClaimHasName, InvoiceIsNamed,
                  claimed, named, siblingBefore
    <2>3. CASE v = w
      <3>1. t = r
        BY <1>1, <2>1, <2>3
      <3>2. QED BY <2>2, <3>1
    <2>4. CASE v # w
      <3>1. t = run[v]
        BY <1>1, <2>1, <2>4
      <3>2. RunFits(t) /\ LineKnows(t)
        BY <3>1, WorkerHas DEF LineInv
      <3>3. LineKnows(t)'
        BY <2>4, <3>1, <3>2, LineKept
      <3>4. QED BY <2>2, <3>3
    <2>5. QED BY <2>3, <2>4
  <1>5. \A i \in lineCases : /\ i \in DOMAIN cases /\ cases'[i].claim = cases[i].claim
                             /\ cases'[i].invoice = cases[i].invoice /\ cases'[i].doc = cases[i].doc
    BY DEF CasesGrow, lineCases
  <1>6. ASSUME NEW i \in lineCases'
        PROVE  ClaimHasName(cases[i].claim)' /\ InvoiceIsNamed(cases[i].invoice)'
    <2>1. PICK c, v : c = cases[i].claim /\ v = cases[i].invoice
      OBVIOUS
    <2>2. cases'[i].claim = c /\ cases'[i].invoice = v /\ ClaimHasName(c) /\ InvoiceIsNamed(v)
      BY <1>5, <2>1 DEF LineInv
    <2>3. ClaimHasName(c)' /\ InvoiceIsNamed(v)'
      BY <2>2, NamesStay DEF CasesGrow
    <2>4. QED BY <2>2, <2>3 DEF ClaimHasName, InvoiceIsNamed, claimed
  <1>7. OneCasePerLine'
    BY <1>5 DEF LineInv, OneCasePerLine
  <1>8. SameInvoiceIsFlagged'
    BY <1>5, SiblingStays DEF LineInv, SameInvoiceIsFlagged
  <1>9. QED BY <1>3, <1>4, <1>6, <1>7, <1>8 DEF LineInv


\* Nothing is written about cases, and the worker's run has no invoice it could be wrong about.
LEMMA LineAside ==
    ASSUME ReadInv, LineInv, UNCHANGED <<page, cases, names>>, NEW w \in Workers, NEW r,
           run' = [run EXCEPT ![w] = r],
           \/ ~locks(r)
           \/ r.pc = "merge" /\ locks(run[w]) /\ r.doc = run[w].doc /\ r.line = run[w].line
    PROVE  LineInv'
  <1>1. CasesGrow /\ lineCases' = lineCases
    BY DEF CasesGrow, lineCases
  <1>2. LineKnows(r)'
    BY DEF LineKnows, locks, LineFresh, LineNamed, LineSees, Posted
  <1>3. QED BY <1>1, <1>2, LineMoves

\* Steps that end a run, move it to its lease, or file, hold and release.
LEMMA LineFrontSteps ==
    ASSUME ReadInv, LineInv, NEW w \in Workers,
           \/ withDocumentRead(w) \/ PoolTimeout(w) \/ answerFromRecord(w)
           \/ recordHold(w) \/ linkEvidence(w) \/ releaseHold(w)
           \/ recordThenThrow(w) \/ RunDies(w) \/ StoreFails(w) \/ connectForClaim(w)
           \/ \E e \in queue : StartRun(w, e)
           \/ \E d \in Documents : OpenHeld(w, d) \/ MapSheet(w, d)
    PROVE  LineInv'
  <1>1. UNCHANGED <<page, cases, names>>
    BY DEF withDocumentRead, PoolTimeout, answerFromRecord, recordHold, linkEvidence, releaseHold,
           recordThenThrow, RunDies, StoreFails, connectForClaim, StartRun, OpenHeld, MapSheet, asks, rows,
           bounds
  <1>2. run[w] \in RunType
    BY WorkerHas
  <1>3. ASSUME NEW r, run' = [run EXCEPT ![w] = r],
               r.pc \in {"idle", "lease", "check", "failing", "lock"}
        PROVE  LineInv'
    <2>1. ~locks(r)
      BY <1>3 DEF locks, Locked, OpeningSteps
    <2>2. QED BY <1>1, <1>3, <2>1, LineAside
  <1>4. CASE run' = [run EXCEPT ![w] = Idle]
    BY <1>3, <1>4, IdleFits
  <1>5. ASSUME NEW p \in {"check", "lock"}, run' = [run EXCEPT ![w].pc = p]
        PROVE  LineInv'
    <2>1. PICK r : r = [run[w] EXCEPT !.pc = p]
      OBVIOUS
    <2>2. r.pc = p /\ run' = [run EXCEPT ![w] = r]
      BY <1>2, <1>5, <2>1 DEF RunType
    <2>3. QED BY <1>3, <2>2
  <1>6. CASE StoreFails(w)
    BY <1>3, <1>6, Throws DEF StoreFails
  <1>7. CASE \/ \E e \in queue : StartRun(w, e)
             \/ \E d \in Documents : OpenHeld(w, d) \/ MapSheet(w, d)
    <2>1. \/ \E e \in queue :
                run' = [run EXCEPT ![w] = [Idle EXCEPT !.pc = "lease", !.doc = e.doc, !.mayOpen = e.mayOpen,
                                                       !.attach = e.attach, !.tries = e.tries]]
          \/ \E d \in Documents :
                run' = [run EXCEPT ![w] = [Idle EXCEPT !.pc = "lease", !.doc = d, !.by = "open"]]
      BY <1>7 DEF StartRun, OpenHeld, MapSheet
    <2>2. \A e : [Idle EXCEPT !.pc = "lease", !.doc = e.doc, !.mayOpen = e.mayOpen,
                             !.attach = e.attach, !.tries = e.tries].pc = "lease"
      BY DEF Idle
    <2>3. \A d : [Idle EXCEPT !.pc = "lease", !.doc = d, !.by = "open"].pc = "lease"
      BY DEF Idle
    <2>4. \E r : run' = [run EXCEPT ![w] = r] /\ r.pc = "lease"
      BY <2>1, <2>2, <2>3, Zenon
    <2>5. QED BY <1>3, <2>4
  <1>8. \/ run' = [run EXCEPT ![w] = Idle]
        \/ \E p \in {"check", "lock"} : run' = [run EXCEPT ![w].pc = p]
        \/ StoreFails(w)
        \/ \E e \in queue : StartRun(w, e)
        \/ \E d \in Documents : OpenHeld(w, d) \/ MapSheet(w, d)
    BY Ends DEF withDocumentRead, PoolTimeout, answerFromRecord, recordHold, linkEvidence, releaseHold,
                recordThenThrow, RunDies, connectForClaim, goto
  <1>9. QED BY <1>4, <1>5, <1>6, <1>7, <1>8

\* A document is read, and its reading recorded; a person opens a held one.
LEMMA LineReadSteps ==
    ASSUME ReadInv, LineInv, NEW w \in Workers,
           \/ \E f \in BOOLEAN : readDocument(w, page[run[w].doc].kind, f)
           \/ recordTheRead(w) \/ openHeldDocument(w)
    PROVE  LineInv'
  <1>1. UNCHANGED <<page, cases, names>>
    BY DEF readDocument, recordTheRead, openHeldDocument, rows, bounds
  <1>2. run[w] \in RunType
    BY WorkerHas
  <1>3. \A r : \/ r.pc \in {"idle", "record", "attach", "hold", "next", "done"}
               \/ r.pc = "resolve" /\ r.kind = "deduction_notice"
               => ~locks(r)
    BY DEF locks, Locked, OpeningSteps
  <1>4. CASE run' = [run EXCEPT ![w] = Idle]
    BY <1>1, <1>3, <1>4, IdleFits, LineAside
  <1>5. ASSUME NEW f \in BOOLEAN, readDocument(w, page[run[w].doc].kind, f)
        PROVE  LineInv'
    <2>1. PICK k : k = page[run[w].doc].kind
      OBVIOUS
    <2>2. PICK p : p = afterReading(w, k, f)
      OBVIOUS
    <2>3. \/ p \in {"record", "attach", "hold", "next", "done"}
          \/ p = "resolve" /\ k = "deduction_notice"
      BY <2>2 DEF afterReading, afterRecord
    <2>4. PICK r : r = [run[w] EXCEPT !.pc = p, !.kind = k, !.fits = f]
      OBVIOUS
    <2>5. r.pc = p /\ r.kind = k /\ run' = [run EXCEPT ![w] = r]
      BY <1>2, <1>5, <2>1, <2>2, <2>4 DEF RunType, readDocument
    <2>6. QED BY <1>1, <1>3, <2>3, <2>5, LineAside
  <1>6. CASE recordTheRead(w)
    <2>1. PICK p : p = afterRecord(w, run[w].kind, run[w].fits)
      OBVIOUS
    <2>2. p \in {"attach", "hold", "next", "done"}
      BY <2>1 DEF afterRecord
    <2>3. PICK r : r = [run[w] EXCEPT !.pc = p]
      OBVIOUS
    <2>4. r.pc = p /\ (run' = [run EXCEPT ![w] = r] \/ run' = [run EXCEPT ![w] = Idle])
      BY <1>2, <1>6, <2>1, <2>3 DEF RunType, recordTheRead, goto, finish
    <2>5. QED BY <1>1, <1>3, <1>4, <2>2, <2>4, LineAside
  <1>7. CASE openHeldDocument(w)
    <2>1. \/ run' = [run EXCEPT ![w] = Idle]
          \/ \E k : run' = [run EXCEPT ![w].pc = IF k = "deduction_notice" THEN "resolve" ELSE "next",
                                       ![w].kind = k]
      BY <1>7, Zenon DEF openHeldDocument, finish
    <2>2. ASSUME NEW k, run' = [run EXCEPT ![w].pc = IF k = "deduction_notice" THEN "resolve" ELSE "next",
                                           ![w].kind = k]
          PROVE  LineInv'
      <3>1. PICK p : p = IF k = "deduction_notice" THEN "resolve" ELSE "next"
        OBVIOUS
      <3>2. PICK r : r = [run[w] EXCEPT !.pc = p, !.kind = k]
        OBVIOUS
      <3>3. r.pc = p /\ r.kind = k /\ run' = [run EXCEPT ![w] = r]
        BY <1>2, <2>2, <3>1, <3>2 DEF RunType
      <3>4. QED BY <1>1, <1>3, <3>1, <3>3, LineAside
    <2>3. QED BY <1>4, <2>1, <2>2
  <1>8. QED BY <1>5, <1>6, <1>7


\* A run of lines waits for its invoice, and has it alone.
LEMMA LineClaimStep ==
    ASSUME ReadInv, LineInv, NEW w \in Workers, withInvoiceClaim(w)
    PROVE  LineInv'
  <1>1. /\ UNCHANGED <<page, cases, names>> /\ run' = [run EXCEPT ![w].pc = "look"]
        /\ \A v \in Workers : ~claims(v, lineOf(w).invoice)
    BY DEF withInvoiceClaim, rows, bounds, goto
  <1>2. PICK r : r = [run[w] EXCEPT !.pc = "look"]
    OBVIOUS
  <1>3. r.pc = "look" /\ r.doc = run[w].doc /\ r.line = run[w].line /\ run' = [run EXCEPT ![w] = r]
    BY <1>1, <1>2, WorkerHas DEF RunType
  <1>4. \A v \in Workers : ~(locks(run[v]) /\ lineAt(run[v]).invoice = lineAt(r).invoice)
    BY <1>1, <1>3 DEF locks, Locked, claims, holdsSecond, onLines, lineOf, lineAt, OpeningSteps
  <1>5. LineKnows(r)'
    BY <1>3 DEF LineKnows, LineFresh, LineNamed, LineSees, Posted
  <1>6. CasesGrow /\ lineCases' = lineCases
    BY <1>1 DEF CasesGrow, lineCases
  <1>7. QED BY <1>1, <1>3, <1>4, <1>5, <1>6, LineMoves

\* The next line, and a line that is a case already.
LEMMA LineWalkSteps ==
    ASSUME ReadInv, LineInv, NEW w \in Workers,
           nextLine(w) \/ \E c \in DOMAIN cases : mergeIntoCase(w, c)
    PROVE  LineInv'
  <1>1. UNCHANGED <<page, cases, names>>
    BY DEF nextLine, mergeIntoCase, rows, bounds
  <1>2. run[w] \in RunType /\ run \in [Workers -> RunType]
    BY WorkerHas
  <1>3. /\ \A v \in Workers \ {w} : run'[v] = run[v]
        /\ \/ run'[w].pc \in {"idle", "next", "connect", "release"}
           \/ run'[w].pc = "look" /\ run'[w].kind # "remittance_advice"
    <2>1. CASE \E c \in DOMAIN cases : mergeIntoCase(w, c)
      <3>1. run' = [run EXCEPT ![w].pc = "next", ![w].line = @ + 1]
        BY <2>1 DEF mergeIntoCase
      <3>2. QED BY <1>2, <3>1 DEF RunType
    <2>2. CASE nextLine(w)
      <3>1. \/ run' = [run EXCEPT ![w].pc = "release"] \/ run' = [run EXCEPT ![w] = Idle]
            \/ run' = [run EXCEPT ![w].line = @ + 1] /\ run[w].pc = "next"
            \/ run' = [run EXCEPT ![w].pc = "connect"]
            \/ run' = [run EXCEPT ![w].pc = "look"] /\ run[w].kind # "remittance_advice"
        BY <2>2 DEF nextLine, goto, finish, onLines
      <3>2. QED BY <1>2, <3>1, IdleFits DEF RunType
    <2>3. QED BY <2>1, <2>2
  <1>4. PICK r : r = run'[w]
    OBVIOUS
  <1>5. run' = [run EXCEPT ![w] = r]
    <2>1. run' \in [Workers -> RunType]
      BY ReadStep DEF Next, Proceeds, ReadInv, ReadType
    <2>2. QED BY <1>2, <1>3, <1>4, <2>1
  <1>6. ~locks(r)
    BY <1>3, <1>4 DEF locks, Locked, OpeningSteps
  <1>7. QED BY <1>1, <1>5, <1>6, LineAside

\* What is named for an invoice is a case with that invoice.
LEMMA NamedIsCase ==
    ASSUME ReadInv, NEW i, NEW k \in named("invoice_number", i)
    PROVE  k \in DOMAIN cases /\ cases[k].invoice = i
  BY DEF ReadInv, TablesFit, NameFits, named

\* A run of lines looks under its invoice's claim: what it does not see is its own paper's.
LEMMA LineLookStep ==
    ASSUME ReadInv, LineInv, NEW w \in Workers, identityCandidates(w)
    PROVE  LineInv'
  <1> DEFINE inv == lineAt(run[w]).invoice
             all == named("invoice_number", inv)
             same == claimed(lineOf(w).claim) \ run[w].here
             like == all \ run[w].here
  <1>1. UNCHANGED <<page, cases, names>> /\ run[w].pc = "look"
    BY DEF identityCandidates, rows, bounds
  <1>2. run[w] \in RunType /\ RunFits(run[w])
    BY WorkerHas
  <1>3. CASE ~onLines(w)
    <2>1. PICK r : /\ run' = [run EXCEPT ![w] = r]
                   /\ \/ r = [run[w] EXCEPT !.pc = "next", !.line = @ + 1]
                      \/ r = [run[w] EXCEPT !.pc = "resolve"]
      BY <1>3 DEF identityCandidates
    <2>2. ~locks(r)
      BY <1>2, <1>3, <2>1 DEF RunType, locks, onLines
    <2>3. QED BY <1>1, <2>1, <2>2, LineAside
  <1>4. CASE onLines(w)
    <2>1. locks(run[w])
      BY <1>1, <1>4 DEF locks, Locked, onLines
    <2>2. CASE \E s : run' = [run EXCEPT ![w].pc = "merge", ![w].same = s]
      <3>1. PICK s : run' = [run EXCEPT ![w].pc = "merge", ![w].same = s]
        BY <2>2
      <3>2. PICK r : r = [run[w] EXCEPT !.pc = "merge", !.same = s]
        OBVIOUS
      <3>3. /\ r.pc = "merge" /\ r.doc = run[w].doc /\ r.line = run[w].line
            /\ run' = [run EXCEPT ![w] = r]
        BY <1>2, <3>1, <3>2 DEF RunType
      <3>4. QED BY <1>1, <2>1, <3>3, LineAside
    <2>3. ASSUME NEW s, s = (IF same # {} THEN same ELSE like),
                 run' = [run EXCEPT ![w].pc = "resolve", ![w].like = s]
          PROVE  LineInv'
      <3>1. PICK r : r = [run[w] EXCEPT !.pc = "resolve", !.like = s]
        OBVIOUS
      <3>2. /\ r.pc = "resolve" /\ r.doc = run[w].doc /\ r.line = run[w].line /\ r.like = s
            /\ run' = [run EXCEPT ![w] = r]
        BY <1>2, <2>3, <3>1 DEF RunType
      <3>3. lineAt(r).invoice = inv
        BY <3>2 DEF lineAt
      <3>4. ASSUME s = {}, NEW i \in lineCases, cases[i].invoice = inv
            PROVE  \E k \in DOMAIN cases : cases[k].doc = r.doc /\ cases[k].invoice = inv
        <4>1. all # {}
          BY <3>4 DEF LineInv, InvoiceIsNamed
        <4>2. all \subseteq run[w].here
          BY <2>3, <3>4
        <4>3. PICK k : k \in all /\ k \in run[w].here
          BY <4>1, <4>2
        <4>4. k \in DOMAIN cases /\ cases[k].invoice = inv
          BY <4>3, NamedIsCase
        <4>5. QED BY <1>2, <3>2, <4>3, <4>4 DEF RunFits
      <3>5. LineKnows(r)
        BY <3>2, <3>3, <3>4 DEF LineKnows, LineFresh, LineNamed, LineSees, Posted
      <3>6. CasesGrow /\ lineCases' = lineCases
        BY <1>1 DEF CasesGrow, lineCases
      <3>7. LineKnows(r)'
        BY <1>1, <3>5 DEF LineKnows, LineFresh, LineNamed, LineSees, locks, lineAt, lineCases, siblingBefore,
                          ClaimHasName, InvoiceIsNamed, claimed, named
      <3>8. QED BY <1>1, <2>1, <3>2, <3>6, <3>7, LineMoves
    <2>4. QED BY <1>4, <2>2, <2>3, Zenon DEF identityCandidates, lineAt, lineOf
  <1>5. QED BY <1>3, <1>4


\* Nothing written: what is known of a line stays known.
LEMMA LineQuiet ==
    ASSUME UNCHANGED <<page, cases, names>>, NEW r, LineKnows(r)
    PROVE  LineKnows(r)'
  BY DEF LineKnows, LineFresh, LineNamed, LineSees, locks, lineAt, lineCases, siblingBefore, ClaimHasName,
         InvoiceIsNamed, claimed, named

\* A line whose claim no case has goes on to the insert; the open cases of lines have theirs named.
LEMMA LineResolveStep ==
    ASSUME ReadInv, LineInv, NEW w \in Workers, resolveArrival(w)
    PROVE  LineInv'
  <1> DEFINE same == claimed(lineOf(w).claim)
  <1>1. UNCHANGED <<page, cases, names>> /\ run[w].pc = "resolve" /\ run[w].pc \in OpeningSteps
    BY DEF resolveArrival, rows, bounds, OpeningSteps
  <1>2. run[w] \in RunType
    BY WorkerHas
  <1>3. \/ \E b \in BOOLEAN : throws(w, b)
        \/ onLines(w) /\ run' = [run EXCEPT ![w].pc = "merge", ![w].same = same]
        \/ ~onLines(w) /\ \E s : run' = [run EXCEPT ![w].pc = "insert", ![w].like = s]
        \/ /\ onLines(w) /\ same = {}
           /\ run' = [run EXCEPT ![w].pc = "insert", ![w].like = run[w].like]
    BY Zenon DEF resolveArrival
  <1> HIDE DEF same
  <1>4. CASE \E b \in BOOLEAN : throws(w, b)
    <2>1. PICK r : run' = [run EXCEPT ![w] = r] /\ r.pc \in {"idle", "failing"}
      BY <1>1, <1>4, Throws
    <2>2. ~locks(r)
      BY <2>1 DEF locks, Locked, OpeningSteps
    <2>3. QED BY <1>1, <2>1, <2>2, LineAside
  <1>5. CASE onLines(w) /\ run' = [run EXCEPT ![w].pc = "merge", ![w].same = same]
    <2>1. PICK r : r = [run[w] EXCEPT !.pc = "merge", !.same = same]
      OBVIOUS
    <2>2. r.pc = "merge" /\ r.doc = run[w].doc /\ r.line = run[w].line /\ run' = [run EXCEPT ![w] = r]
      BY <1>2, <1>5, <2>1 DEF RunType
    <2>3. locks(run[w])
      BY <1>1, <1>5 DEF locks, Locked, onLines
    <2>4. QED BY <1>1, <2>2, <2>3, LineAside
  <1>6. ASSUME ~onLines(w), NEW s, run' = [run EXCEPT ![w].pc = "insert", ![w].like = s]
        PROVE  LineInv'
    <2>1. PICK r : r = [run[w] EXCEPT !.pc = "insert", !.like = s]
      OBVIOUS
    <2>2. r.kind # "remittance_advice" /\ run' = [run EXCEPT ![w] = r]
      BY <1>2, <1>6, <2>1 DEF RunType, onLines
    <2>3. QED BY <1>1, <2>2, LineAside DEF locks
  <1>7. CASE /\ onLines(w) /\ same = {}
             /\ run' = [run EXCEPT ![w].pc = "insert", ![w].like = run[w].like]
    <2>1. PICK r : r = [run[w] EXCEPT !.pc = "insert", !.like = run[w].like]
      OBVIOUS
    <2>2. /\ r.pc = "insert" /\ r.doc = run[w].doc /\ r.line = run[w].line /\ r.like = run[w].like
          /\ run' = [run EXCEPT ![w] = r]
      BY <1>2, <1>7, <2>1 DEF RunType
    <2>3. locks(run[w]) /\ lineAt(r) = lineOf(w) /\ lineAt(run[w]) = lineOf(w)
      BY <1>1, <1>7, <2>2 DEF locks, Locked, OpeningSteps, onLines, lineAt, lineOf
    <2>4. LineFresh(r)
      BY <1>7, <2>3 DEF LineFresh, LineInv, ClaimHasName, same
    <2>5. LineSees(r)
      <3>1. LineSees(run[w])
        BY <2>3 DEF LineInv, LineKnows
      <3>2. QED BY <1>1, <2>2, <2>3, <3>1 DEF LineSees, Posted
    <2>6. LineKnows(r)'
      BY <1>1, <2>2, <2>4, <2>5, LineQuiet DEF LineKnows, LineNamed
    <2>7. CasesGrow /\ lineCases' = lineCases
      BY <1>1 DEF CasesGrow, lineCases
    <2>8. QED BY <1>1, <2>2, <2>3, <2>6, <2>7, LineMoves
  <1>8. QED BY <1>3, <1>4, <1>5, <1>6, <1>7

\* The line's case is inserted, after every open case for the invoice; it is not open yet.
LEMMA LineInsertStep ==
    ASSUME ReadInv, LineInv, NEW w \in Workers, openCase(w)
    PROVE  LineInv'
  <1>1. run[w].pc = "insert" /\ UNCHANGED page
    BY OpenCaseDoes
  <1>2. run[w] \in RunType /\ RunFits(run[w]) /\ run[w].pc \in OpeningSteps
    BY <1>1, WorkerHas DEF OpeningSteps
  <1>3. CASE UNCHANGED <<cases, names>> /\ throws(w, FALSE)
    <2>1. PICK r : run' = [run EXCEPT ![w] = r] /\ r.pc \in {"idle", "failing"}
      BY <1>2, <1>3, Throws
    <2>2. ~locks(r)
      BY <2>1 DEF locks, Locked, OpeningSteps
    <2>3. QED BY <1>1, <1>3, <2>1, <2>2, LineAside
  <1>4. ASSUME UNCHANGED <<cases, names>>, onLines(w), NEW s,
               run' = [run EXCEPT ![w].pc = "merge", ![w].same = s]
        PROVE  LineInv'
    <2>1. PICK r : r = [run[w] EXCEPT !.pc = "merge", !.same = s]
      OBVIOUS
    <2>2. r.pc = "merge" /\ r.doc = run[w].doc /\ r.line = run[w].line /\ run' = [run EXCEPT ![w] = r]
      BY <1>2, <1>4, <2>1 DEF RunType
    <2>3. locks(run[w])
      BY <1>1, <1>4 DEF locks, Locked, OpeningSteps, onLines
    <2>4. QED BY <1>1, <1>4, <2>2, <2>3, LineAside
  <1>5. CASE /\ cases' = Append(cases, newCase(w)) /\ names' = names \cup nameAtOnce(w)
             /\ run' = [run EXCEPT ![w].case = Len(cases) + 1,
                                   ![w].pc = IF onLines(w) THEN "link" ELSE "names"]
    <2>1. PICK k : k = newCase(w)
      OBVIOUS
    <2>2. /\ k \in CaseRow /\ k.doc = run[w].doc /\ ~k.open /\ k.invoice = lineAt(run[w]).invoice
      BY <1>1, <2>1, NewCaseFits
    <2>3. PICK x : x = Len(cases) + 1
      OBVIOUS
    <2>4. /\ x \in DOMAIN cases' /\ x \notin DOMAIN cases /\ cases'[x] = k
          /\ \A c \in DOMAIN cases : c \in DOMAIN cases' /\ cases'[c] = cases[c] /\ c < x
          /\ \A c \in DOMAIN cases' : c \in DOMAIN cases \/ c = x
      BY <1>5, <2>1, <2>2, <2>3, Appended
    <2>5. PICK p : p = IF onLines(w) THEN "link" ELSE "names"
      OBVIOUS
    <2>6. PICK r : r = [run[w] EXCEPT !.case = x, !.pc = p]
      OBVIOUS
    <2>7. /\ r.pc = p /\ r.doc = run[w].doc /\ r.line = run[w].line /\ r.kind = run[w].kind
          /\ r.like = run[w].like /\ r.case = x /\ run' = [run EXCEPT ![w] = r]
      BY <1>2, <1>5, <2>3, <2>5, <2>6 DEF RunType
    <2>8. CasesGrow /\ lineCases' = lineCases
      BY <1>1, <1>5, <2>2, <2>4 DEF CasesGrow, lineCases
    <2>9. \A v \in Workers \ {w} :
             run[v].pc = "classify" => cases'[run[v].case].flags = cases[run[v].case].flags
      BY <2>4, WorkerHas DEF RunFits, CaseOfRun, Posted
    <2>10. \A i \in lineCases : cases'[i] = cases[i] /\ i < x
      BY <2>4 DEF lineCases
    <2>11. locks(r) => locks(run[w]) /\ r.doc = run[w].doc /\ r.line = run[w].line
      BY <1>1, <2>7 DEF locks, Locked, OpeningSteps
    <2>12. LineKnows(r)'
      <3> SUFFICES ASSUME locks(r) PROVE LineFresh(r)' /\ LineNamed(r)' /\ LineSees(r)'
        BY DEF LineKnows, locks
      <3>1. r.pc = "link" /\ LineFresh(run[w]) /\ LineSees(run[w])
        BY <2>5, <2>7, <2>11 DEF locks, onLines, LineInv, LineKnows
      <3>2. PICK l : l = lineAt(run[w]) /\ l = lineAt(r)'
        BY <1>1, <2>7 DEF lineAt
      <3>3. LineFresh(r)'
        BY <1>1, <2>8, <2>10, <3>1, <3>2 DEF LineFresh
      <3>4. ASSUME r.like = {}, NEW i \in lineCases, cases[i].invoice = l.invoice, cases[i].doc # r.doc
            PROVE  siblingBefore(x)'
        <4>1. PICK j \in DOMAIN cases : cases[j].doc = r.doc /\ cases[j].invoice = l.invoice
          BY <1>1, <2>7, <3>1, <3>2, <3>4 DEF LineSees
        <4>2. QED BY <2>2, <2>4, <2>7, <3>2, <4>1 DEF siblingBefore
      <3>5. LineSees(r)'
        BY <2>7, <2>8, <2>10, <3>1, <3>2, <3>4 DEF LineSees
      <3>6. LineNamed(r)'
        BY <3>1 DEF LineNamed
      <3>7. QED BY <3>3, <3>5, <3>6
    <2>13. QED BY <2>7, <2>8, <2>9, <2>10, <2>11, <2>12, LineMoves
  <1>6. QED BY <1>3, <1>4, <1>5, OpenCaseDoes


\* The names are given, or somebody has them; and the document is linked.
LEMMA LineNameSteps ==
    ASSUME ReadInv, LineInv, NEW w \in Workers, recordIdentifiers(w) \/ linkDocument(w)
    PROVE  LineInv'
  <1>1. /\ UNCHANGED <<page, cases>> /\ names \subseteq names' /\ run[w].pc \in {"names", "link"}
    BY DEF recordIdentifiers, linkDocument, bounds
  <1>2. run[w] \in RunType
    BY WorkerHas
  <1>3. CasesGrow /\ lineCases' = lineCases
    BY <1>1 DEF CasesGrow, lineCases
  <1>4. PICK p : /\ run' = [run EXCEPT ![w].pc = p]
                 /\ \/ p = "flag" /\ onLines(w) /\ recordIdentifiers(w)
                    \/ p = "link" /\ ~onLines(w)
                    \/ p = "names" /\ onLines(w)
                    \/ p = "classify" /\ ~onLines(w)
    BY DEF recordIdentifiers, linkDocument, goto
  <1>5. PICK r : r = [run[w] EXCEPT !.pc = p]
    OBVIOUS
  <1>6. /\ r.pc = p /\ r.doc = run[w].doc /\ r.line = run[w].line /\ r.kind = run[w].kind
        /\ r.like = run[w].like /\ r.case = run[w].case /\ run' = [run EXCEPT ![w] = r]
    BY <1>2, <1>4, <1>5 DEF RunType
  <1>7. locks(r) => locks(run[w]) /\ r.doc = run[w].doc /\ r.line = run[w].line
    BY <1>1, <1>6 DEF locks, Locked, OpeningSteps
  <1>8. LineKnows(r)'
    <2> SUFFICES ASSUME locks(r) PROVE LineFresh(r)' /\ LineNamed(r)' /\ LineSees(r)'
      BY DEF LineKnows, locks
    <2>1. LineFresh(run[w]) /\ LineSees(run[w]) /\ p \in {"flag", "names"} /\ run[w].pc \in Posted /\ p \in Posted
      BY <1>1, <1>4, <1>6, <1>7 DEF LineInv, LineKnows, locks, onLines, Posted
    <2>2. PICK l : l = lineAt(run[w]) /\ l = lineAt(r)' /\ l = lineOf(w)
      BY <1>1, <1>6 DEF lineAt, lineOf
    <2>3. LineFresh(r)'
      BY <1>1, <1>3, <2>1, <2>2 DEF LineFresh
    <2>4. siblingBefore(r.case) => siblingBefore(r.case)'
      BY <1>1 DEF siblingBefore
    <2>5. LineSees(r)'
      BY <1>1, <1>3, <1>6, <2>1, <2>2, <2>4 DEF LineSees
    <2>6. LineNamed(r)'
      <3>1. CASE p = "names"
        BY <1>6, <3>1 DEF LineNamed
      <3>2. CASE p = "flag" /\ recordIdentifiers(w)
        <4> DEFINE name(k, id) ==
                     [case |-> run[w].case, source |-> page[run[w].doc].source, kind |-> k, id |-> id]
                   wanted == {name("invoice_number", l.invoice)}
                             \cup (IF l.claim = NoClaim THEN {} ELSE {name("claim_id", l.claim)})
        <4>1. names' = names \cup {n \in wanted : taken(n) = {}}
          BY <2>2, <3>2 DEF recordIdentifiers
        <4>2. \A n \in wanted : \E m \in names' : m.kind = n.kind /\ m.id = n.id
          BY <4>1 DEF taken
        <4>3. \E m \in names' : m.kind = "invoice_number" /\ m.id = l.invoice
          <5>1. PICK n : n = name("invoice_number", l.invoice)
            OBVIOUS
          <5>2. n.kind = "invoice_number" /\ n.id = l.invoice /\ n \in wanted
            BY <5>1
          <5>3. QED BY <4>2, <5>2
        <4>4. l.claim # NoClaim => \E m \in names' : m.kind = "claim_id" /\ m.id = l.claim
          <5>1. PICK n : n = name("claim_id", l.claim)
            OBVIOUS
          <5>2. n.kind = "claim_id" /\ n.id = l.claim /\ (l.claim # NoClaim => n \in wanted)
            BY <5>1
          <5>3. QED BY <4>2, <5>2
        <4>5. ClaimHasName(l.claim)' /\ InvoiceIsNamed(l.invoice)'
          BY <4>3, <4>4 DEF ClaimHasName, InvoiceIsNamed, claimed, named
        <4>6. QED BY <2>2, <4>5 DEF LineNamed, ClaimHasName, InvoiceIsNamed, claimed
      <3>3. QED BY <1>4, <2>1, <3>1, <3>2
    <2>7. QED BY <2>3, <2>5, <2>6
  <1>9. QED BY <1>1, <1>3, <1>6, <1>7, <1>8, LineMoves

\* What the run saw is written on its case.
LEMMA LineFlagStep ==
    ASSUME ReadInv, LineInv, NEW w \in Workers, flagDuplicates(w)
    PROVE  LineInv'
  <1> DEFINE x == run[w].case
  <1>1. /\ UNCHANGED <<page, names>> /\ run[w].pc = "flag" /\ run' = [run EXCEPT ![w].pc = "classify"]
        /\ cases' = [cases EXCEPT ![x].flags = run[w].like]
    BY DEF flagDuplicates, bounds, goto
  <1>2. /\ run[w] \in RunType /\ RunFits(run[w]) /\ CaseOfRun(run[w]) /\ x \in DOMAIN cases
        /\ ~cases[x].open /\ run[w].like \subseteq Nat
    BY <1>1, WorkerHas DEF RunFits, RunType, Posted, CaseOfRun
  <1>3. PICK k : k = [cases[x] EXCEPT !.flags = run[w].like]
    OBVIOUS
  <1>4. cases[x] \in CaseRow
    BY <1>2, TypesHave
  <1>5. /\ k \in CaseRow /\ k.claim = cases[x].claim /\ k.invoice = cases[x].invoice /\ k.doc = cases[x].doc
        /\ k.kind = cases[x].kind /\ k.open = cases[x].open /\ k.flags = run[w].like
    BY <1>2, <1>3, <1>4 DEF CaseRow
  <1>6. /\ DOMAIN cases' = DOMAIN cases /\ cases'[x] = k
        /\ \A c \in DOMAIN cases : c # x => cases'[c] = cases[c]
    BY <1>1, <1>2, <1>3, <1>5, RowChanged
  <1>7. CasesGrow
    BY <1>1, <1>5, <1>6 DEF CasesGrow
  <1>8. lineCases' = lineCases /\ x \notin lineCases /\ \A i \in lineCases : cases'[i] = cases[i]
    BY <1>2, <1>5, <1>6 DEF lineCases
  <1>9. PICK r : r = [run[w] EXCEPT !.pc = "classify"]
    OBVIOUS
  <1>10. /\ r.pc = "classify" /\ r.doc = run[w].doc /\ r.line = run[w].line /\ r.kind = run[w].kind
         /\ r.like = run[w].like /\ r.case = x /\ run' = [run EXCEPT ![w] = r]
    BY <1>1, <1>2, <1>9 DEF RunType
  <1>11. locks(r) => locks(run[w]) /\ r.doc = run[w].doc /\ r.line = run[w].line
    BY <1>1, <1>10 DEF locks, Locked, OpeningSteps
  <1>12. \A v \in Workers \ {w} :
            run[v].pc = "classify" => cases'[run[v].case].flags = cases[run[v].case].flags
    <2>1. ASSUME NEW v \in Workers \ {w}, run[v].pc = "classify"
          PROVE  cases'[run[v].case].flags = cases[run[v].case].flags
      <3>1. run[v].case # x /\ run[v].case \in DOMAIN cases
        BY <1>1, <2>1, CasesOfRunsDiffer, WorkerHas DEF Posted, RunFits, CaseOfRun
      <3>2. QED BY <1>6, <3>1
    <2>2. QED BY <2>1
  <1>13. LineKnows(r)'
    <2> SUFFICES ASSUME locks(r) PROVE LineFresh(r)' /\ LineNamed(r)' /\ LineSees(r)'
      BY DEF LineKnows, locks
    <2>1. LineFresh(run[w]) /\ LineNamed(run[w]) /\ LineSees(run[w]) /\ run[w].pc \in Posted
      BY <1>1, <1>11 DEF LineInv, LineKnows, Posted
    <2>2. PICK l : l = lineAt(run[w]) /\ l = lineAt(r)'
      BY <1>1, <1>10 DEF lineAt
    <2>3. LineFresh(r)'
      BY <1>8, <2>1, <2>2 DEF LineFresh
    <2>4. LineNamed(r)'
      BY <1>1, <1>10, <2>1, <2>2 DEF LineNamed, ClaimHasName, InvoiceIsNamed, claimed, named
    <2>5. siblingBefore(r.case) => siblingBefore(r.case)'
      BY <1>2, <1>7, <1>10, SiblingStays
    <2>6. LineSees(r)'
      BY <1>5, <1>6, <1>8, <1>10, <2>1, <2>2, <2>5 DEF LineSees
    <2>7. QED BY <2>3, <2>4, <2>6
  <1>14. QED BY <1>7, <1>8, <1>10, <1>11, <1>12, <1>13, LineMoves


\* The line's case opens: nothing for its claim and its invoice was open, it is the last for its
\* invoice, and it says what it may repeat.
LEMMA LineClassifyStep ==
    ASSUME ReadInv, LineInv, NEW w \in Workers, transitionCase(w)
    PROVE  LineInv'
  <1>0. PICK q, x : q = run[w] /\ x = q.case
    OBVIOUS
  <1>1. /\ UNCHANGED <<page, names>> /\ q.pc = "classify"
        /\ cases' = [cases EXCEPT ![x].open = TRUE]
        /\ \/ run' = [run EXCEPT ![w].pc = IF run[w].by = "open" THEN "release" ELSE "record"]
           \/ run' = [run EXCEPT ![w].pc = "next", ![w].here = @ \cup {run[w].case},
                                 ![w].line = @ + 1, ![w].case = 0]
    BY <1>0 DEF transitionCase, bounds, goto
  <1>2. /\ q \in RunType /\ RunFits(q) /\ CaseOfRun(q) /\ x \in DOMAIN cases /\ ~cases[x].open
        /\ cases[x].doc = q.doc /\ cases[x].kind = q.kind
        /\ cases[x].claim = lineAt(q).claim /\ cases[x].invoice = lineAt(q).invoice
    BY <1>0, <1>1, WorkerHas DEF RunFits, Posted, CaseOfRun
  <1>3. PICK k : k = [cases[x] EXCEPT !.open = TRUE]
    OBVIOUS
  <1>4. cases[x] \in CaseRow
    BY <1>2, TypesHave
  <1>5. /\ k \in CaseRow /\ k.claim = cases[x].claim /\ k.invoice = cases[x].invoice /\ k.doc = cases[x].doc
        /\ k.kind = cases[x].kind /\ k.flags = cases[x].flags /\ k.open
    BY <1>3, <1>4 DEF CaseRow
  <1>6. /\ DOMAIN cases' = DOMAIN cases /\ cases'[x] = k
        /\ \A c \in DOMAIN cases : c # x => cases'[c] = cases[c]
    BY <1>1, <1>2, <1>3, <1>5, RowChanged
  <1>7. CasesGrow
    BY <1>1, <1>5, <1>6 DEF CasesGrow
  <1>8. \A c \in DOMAIN cases : cases'[c].flags = cases[c].flags
    BY <1>5, <1>6
  <1>9. PICK r : run' = [run EXCEPT ![w] = r] /\ r.pc \in {"release", "record", "next"}
    <2>1. CASE run' = [run EXCEPT ![w].pc = IF run[w].by = "open" THEN "release" ELSE "record"]
      <3>1. PICK p : p = IF run[w].by = "open" THEN "release" ELSE "record"
        OBVIOUS
      <3>2. PICK s : s = [q EXCEPT !.pc = p]
        OBVIOUS
      <3>3. s.pc = p /\ run' = [run EXCEPT ![w] = s]
        BY <1>0, <1>2, <2>1, <3>1, <3>2 DEF RunType
      <3>4. QED BY <3>1, <3>3
    <2>2. CASE run' = [run EXCEPT ![w].pc = "next", ![w].here = @ \cup {run[w].case},
                                  ![w].line = @ + 1, ![w].case = 0]
      <3>1. PICK s : s = [q EXCEPT !.pc = "next", !.here = @ \cup {run[w].case}, !.line = @ + 1, !.case = 0]
        OBVIOUS
      <3>2. s.pc = "next" /\ run' = [run EXCEPT ![w] = s]
        BY <1>0, <1>2, <2>2, <3>1 DEF RunType
      <3>3. QED BY <3>2
    <2>3. QED BY <1>1, <2>1, <2>2
  <1>10. ~locks(r) /\ LineKnows(r)'
    BY <1>9 DEF LineKnows, locks, Locked, OpeningSteps
  <1>11. CASE q.kind # "remittance_advice"
    <2>1. lineCases' = lineCases /\ \A i \in lineCases : cases'[i].flags = cases[i].flags
      BY <1>2, <1>5, <1>6, <1>8, <1>11 DEF lineCases
    <2>2. \A v \in Workers \ {w} :
             run[v].pc = "classify" => cases'[run[v].case].flags = cases[run[v].case].flags
      BY <1>8, WorkerHas DEF RunFits, Posted, CaseOfRun
    <2>3. QED BY <1>7, <1>9, <1>10, <2>1, <2>2, LineMoves
  <1>12. CASE q.kind = "remittance_advice"
    <2>1. locks(q) /\ LineFresh(q) /\ LineNamed(q) /\ LineSees(q) /\ q.pc \in Posted
      BY <1>0, <1>1, <1>12 DEF LineInv, LineKnows, locks, Locked, OpeningSteps, Posted
    <2>2. lineCases' = lineCases \cup {x} /\ x \notin lineCases
      BY <1>2, <1>5, <1>6, <1>12 DEF lineCases
    <2>3. PICK l : l = lineAt(q)
      OBVIOUS
    <2>4. /\ \A i \in lineCases : /\ i \in DOMAIN cases /\ i # x /\ cases'[i] = cases[i]
                                  /\ ~(/\ cases[i].claim = l.claim /\ cases[i].claim # NoClaim
                                       /\ cases[i].invoice = l.invoice)
                                  /\ cases[i].invoice = l.invoice => i < x
          /\ cases'[x].claim = l.claim /\ cases'[x].invoice = l.invoice /\ cases'[x].doc = q.doc
          /\ cases'[x].flags = q.like
          /\ ClaimHasName(l.claim) /\ InvoiceIsNamed(l.invoice)
      <3>1. \A i \in lineCases : i \in DOMAIN cases /\ i # x /\ cases'[i] = cases[i]
        BY <1>6, <2>2 DEF lineCases
      <3>2. /\ \A i \in lineCases : /\ ~(/\ cases[i].claim = l.claim /\ cases[i].claim # NoClaim
                                         /\ cases[i].invoice = l.invoice)
                                    /\ cases[i].invoice = l.invoice => i < x
            /\ ClaimHasName(l.claim) /\ InvoiceIsNamed(l.invoice)
        BY <1>0, <1>1, <2>1, <2>3 DEF LineFresh, LineNamed, LineSees
      <3>3. /\ cases'[x].claim = l.claim /\ cases'[x].invoice = l.invoice /\ cases'[x].doc = q.doc
            /\ cases'[x].flags = q.like
        BY <1>0, <1>1, <1>2, <1>5, <1>6, <2>1, <2>3 DEF LineSees
      <3>4. QED BY <3>1, <3>2, <3>3
    <2>5. run'[w] = r /\ \A v \in Workers \ {w} : run'[v] = run[v]
      BY <1>9, WorkerHas
    <2>6. OneClaim'
      <3>1. ASSUME NEW u \in Workers, NEW v \in Workers, NEW s, NEW t, s = run'[u], t = run'[v],
                   locks(s), locks(t), lineAt(s).invoice = lineAt(t).invoice
            PROVE  u = v
        <4>1. u # w /\ v # w
          BY <1>10, <2>5, <3>1
        <4>2. QED BY <2>5, <3>1, <4>1 DEF LineInv, OneClaim
      <3>2. \A u \in Workers : \E s : s = run'[u] /\ (locks(run[u])' <=> locks(s))
                                      /\ lineAt(run[u])' = lineAt(s)
        BY <1>1 DEF locks, lineAt
      <3>3. QED BY <3>1, <3>2 DEF OneClaim
    <2>7. ASSUME NEW i \in lineCases'
          PROVE  ClaimHasName(cases[i].claim)' /\ InvoiceIsNamed(cases[i].invoice)'
      <3>1. PICK c, v : c = cases'[i].claim /\ v = cases'[i].invoice
        OBVIOUS
      <3>2. ClaimHasName(c) /\ InvoiceIsNamed(v)
        BY <2>2, <2>4, <3>1 DEF LineInv
      <3>3. ClaimHasName(c)' /\ InvoiceIsNamed(v)'
        BY <1>1, <3>2, NamesStay
      <3>4. QED BY <3>1, <3>3 DEF ClaimHasName, InvoiceIsNamed, claimed
    <2>8. ASSUME NEW v \in Workers PROVE LineKnows(run[v])'
      <3>1. PICK t : t = run'[v]
        OBVIOUS
      <3>2. LineKnows(t)' <=> LineKnows(run[v])'
        BY <3>1 DEF LineKnows, locks, LineFresh, LineNamed, LineSees, lineAt, ClaimHasName, InvoiceIsNamed,
                    claimed, named, siblingBefore
      <3>3. CASE v = w
        <4>1. t = r
          BY <2>5, <3>1, <3>3
        <4>2. QED BY <1>10, <3>2, <4>1
      <3>4. CASE v # w
        <4>1. t = run[v] /\ RunFits(t) /\ LineKnows(t)
          BY <2>5, <3>1, <3>4, WorkerHas DEF LineInv
        <4> SUFFICES ASSUME locks(t) PROVE LineFresh(t)' /\ LineNamed(t)' /\ LineSees(t)'
          BY <3>2 DEF LineKnows, locks
        <4>2. LineFresh(t) /\ LineNamed(t) /\ LineSees(t)
          BY <4>1 DEF LineKnows
        <4>3. PICK m : m = lineAt(t) /\ m = lineAt(t)'
          BY <1>1 DEF lineAt
        <4>4. m.invoice # l.invoice
          BY <1>0, <2>1, <2>3, <3>4, <4>1, <4>3 DEF LineInv, OneClaim
        <4>5. LineFresh(t)'
          BY <2>2, <2>4, <4>2, <4>3, <4>4 DEF LineFresh
        <4>6. LineNamed(t)'
          BY <1>1, <4>2, <4>3 DEF LineNamed, ClaimHasName, InvoiceIsNamed, claimed, named
        <4>7. t.pc \in Posted => t.case \in DOMAIN cases
          BY <4>1 DEF RunFits, CaseOfRun
        <4>8. t.pc \in Posted /\ siblingBefore(t.case) => siblingBefore(t.case)'
          BY <1>7, <4>7, SiblingStays
        <4>9. t.pc = "classify" => cases'[t.case].flags = cases[t.case].flags
          BY <1>8, <4>7 DEF Posted
        <4>10. t.pc \in {"resolve", "insert"} /\ t.like = {}
                 /\ (\E i \in lineCases' : cases'[i].invoice = m.invoice /\ cases'[i].doc # t.doc)
               => \E j \in DOMAIN cases' : cases'[j].doc = t.doc /\ cases'[j].invoice = m.invoice
          BY <1>7, <2>2, <2>4, <4>2, <4>3, <4>4 DEF LineSees, CasesGrow
        <4>11. t.pc \in Posted /\ t.like = {}
                 /\ (\E i \in lineCases' : cases'[i].invoice = m.invoice /\ cases'[i].doc # t.doc)
               => siblingBefore(t.case)'
          BY <2>2, <2>4, <4>2, <4>3, <4>4, <4>8 DEF LineSees
        <4>12. t.pc \in Posted => \A j \in lineCases' : cases'[j].invoice = m.invoice => j < t.case
          BY <2>2, <2>4, <4>2, <4>3, <4>4 DEF LineSees
        <4>13. LineSees(t)'
          BY <4>2, <4>3, <4>9, <4>10, <4>11, <4>12 DEF LineSees
        <4>14. QED BY <4>5, <4>6, <4>13
      <3>5. QED BY <3>3, <3>4
    <2>9. OneCasePerLine'
      BY <2>2, <2>4 DEF LineInv, OneCasePerLine
    <2>10. SameInvoiceIsFlagged'
      <3>1. ASSUME NEW i \in lineCases', NEW j \in lineCases', i < j,
                   cases'[i].invoice = cases'[j].invoice, cases'[i].doc # cases'[j].doc
            PROVE  cases'[j].flags # {} \/ siblingBefore(j)'
        <4>1. CASE i \in lineCases /\ j \in lineCases
          BY <1>7, <2>4, <3>1, <4>1, SiblingStays DEF LineInv, SameInvoiceIsFlagged
        <4>2. CASE i \in lineCases /\ j = x
          <5>1. q.like = {} => siblingBefore(x)
            BY <1>0, <2>1, <2>3, <2>4, <3>1, <4>2 DEF LineSees
          <5>2. QED BY <1>2, <1>7, <2>4, <4>2, <5>1, SiblingStays
        <4>3. CASE i = x /\ j \in lineCases
          <5>1. j < x /\ i < j /\ i = x
            BY <2>4, <3>1, <4>3
          <5>2. i \in Nat /\ j \in Nat
            BY <1>2, <2>4, <4>3, TypesHave
          <5>3. QED BY <5>1, <5>2
        <4>4. CASE i = x /\ j = x
          BY <3>1, <4>4
        <4>5. QED BY <2>2, <4>1, <4>2, <4>3, <4>4
      <3>2. QED BY <3>1 DEF SameInvoiceIsFlagged
    <2>11. QED BY <2>6, <2>7, <2>8, <2>9, <2>10 DEF LineInv
  <1>13. QED BY <1>11, <1>12


\* Nothing that leaves runs and cases alone opens a line's case.
LEMMA LineSameRuns ==
    ASSUME LineInv, UNCHANGED <<page, cases, names, run>>
    PROVE  LineInv'
  <1>1. OneClaim' /\ OneCasePerLine' /\ SameInvoiceIsFlagged'
    BY DEF LineInv, OneClaim, locks, lineAt, OneCasePerLine, SameInvoiceIsFlagged, lineCases, siblingBefore
  <1>2. \A i \in lineCases' : ClaimHasName(cases[i].claim)' /\ InvoiceIsNamed(cases[i].invoice)'
    BY DEF LineInv, lineCases, ClaimHasName, InvoiceIsNamed, claimed, named
  <1>3. ASSUME NEW w \in Workers PROVE LineKnows(run[w])'
    <2>1. PICK r : r = run[w] /\ r = run'[w] /\ LineKnows(r)
      BY DEF LineInv
    <2>2. LineKnows(r)'
      BY <2>1, LineQuiet
    <2>3. QED
      BY <2>1, <2>2 DEF LineKnows, locks, LineFresh, LineNamed, LineSees, lineAt, ClaimHasName, claimed
  <1>4. QED BY <1>1, <1>2, <1>3 DEF LineInv

\* At the start no line has a case.
LEMMA LineInit == Init => LineInv
  <1> SUFFICES ASSUME Init PROVE LineInv
    OBVIOUS
  <1>1. lineCases = {} /\ \A w \in Workers : run[w] = Idle
    BY DEF Init, lineCases
  <1>2. \A w \in Workers : ~locks(run[w])
    BY <1>1, IdleFits DEF locks, Locked, OpeningSteps
  <1>3. QED BY <1>1, <1>2 DEF LineInv, OneClaim, LineKnows, OneCasePerLine, SameInvoiceIsFlagged

\* Every step keeps LineInv.
LEMMA LineStep == ReadInv /\ LineInv /\ [Next]_vars => LineInv'
  <1> SUFFICES ASSUME ReadInv, LineInv, [Next]_vars PROVE LineInv'
    OBVIOUS
  <1>1. CASE UNCHANGED vars
    BY <1>1, LineSameRuns DEF vars
  <1>2. ASSUME NEW d \in Documents,
               \/ PutDocument(d) \/ Reread(d)
               \/ \E v \in {"clean", "refused", "error"}, q \in BOOLEAN : RecordScan(d, v, q)
               \/ \E c \in 0..Len(cases) : UploadAgain(d, c)
               \/ \E c \in DOMAIN cases : attachReadDocument(d, c)
        PROVE  LineInv'
    BY <1>2, LineSameRuns DEF PutDocument, Reread, RecordScan, UploadAgain, attachReadDocument, asks,
       bounds, rows
  <1>3. ASSUME NEW w \in Workers, Proceeds(w) PROVE LineInv'
    BY <1>3, LineFrontSteps, LineReadSteps, LineClaimStep, LineWalkSteps, LineLookStep, LineResolveStep,
       LineInsertStep, LineNameSteps, LineFlagStep, LineClassifyStep DEF Proceeds
  <1>4. QED BY <1>1, <1>2, <1>3, LineFrontSteps, Zenon DEF Next

\* What a line's claim on its invoice protects, in every reachable state.
THEOREM LineInvariance == Spec => []LineInv
  BY LineInit, LineStep, ReadInvariance, PTL DEF Spec

\* Two remittances that print one claim on one invoice open one case for it (withInvoiceClaim).
THEOREM LinesOpenOnce == Spec => []OneCasePerLine
  <1>1. LineInv => OneCasePerLine
    BY DEF LineInv
  <1>2. QED BY <1>1, LineInvariance, PTL

\* Of two cases opened for one invoice by lines of two remittances, the later says so, or an earlier
\* line of its own paper has the invoice's name (openCasesFromRemittance, POSSIBLE_DUPLICATE).
THEOREM SharedInvoicesAreFlagged == Spec => []SameInvoiceIsFlagged
  <1>1. LineInv => SameInvoiceIsFlagged
    BY DEF LineInv
  <1>2. QED BY <1>1, LineInvariance, PTL

=============================================================================
