# A TLA+ model of Mozart's deduction cases

Mozart recovers deductions: a payer short-pays an invoice, the notice or the
remittance that says so is read (or the ledger shows the gap), a *case* is
opened for it, one person decides to dispute it, a packet is assembled, a second
person approves it, it is filed, and the outcome and its accounting are
recorded. The store is Postgres; almost every rule that matters is enforced by a
transaction that locks a row, by an advisory lock held across calls to somebody
else's service, or by a trigger. This project models those transactions, what
runs beside them, what may die between two of them, and what can be read before
a lock and be stale after it. TLC checks the models on small instances; TLAPS
proves the safety properties, and both refinements, for all of them.

## 1. Inventory of the system

| Part | Source | State it keeps | What is hard | Modelled |
| --- | --- | --- | --- | --- |
| Case state machine | `packages/core-domain/src/state-machine.ts` | the table of legal moves | the approval gate must not be avoidable | `CaseStates`, `CaseLifecycle` |
| Case workflow | `packages/store-postgres/src/workflow.ts`, `store.ts`, migrations 0005, 0016, 0044 | deductions, decisions, declined_candidates, packets, approvals, submissions, events | reads before the lock, snapshot reads, transactions in a job, latest by start time | `CaseWorkflow` |
| Duplicates and merges | `workflow.ts` (1747-2315), migration 0032 | verdicts, merges, undos | stale undo, work going on beside a merge | `DuplicateCases` |
| Posting to QuickBooks | `store-postgres/src/posting.ts`, `pipeline/src/posting-job.ts`, `apps/web/lib/inngest-posting.ts`, `qbo/src/posting.ts`, migrations 0037, 0041 | proposals, approvals, writebacks and attempts | a job that dies after QuickBooks answered; request ids; voiding what never went | `Posting` |
| One-press posting setup | `apps/web/lib/posting-setup.ts`, `qbo/src/setup.ts`, `qbo/src/client.ts`, `store-postgres/src/posting.ts` | audit rows of requests and answers, account maps, the switch | an account made and not recorded; a lost or late answer; an accountant who renames, moves or merges it | `PostingSetup` |
| Team | `store-postgres/src/team.ts`, migration 0035 | memberships | two owners who change each other at once; an operator beside them | `Team`, composed with `PostingSetup` |
| Document pipeline | `pipeline/src/steps.ts`, `jobs.ts`, `hold.ts`, `open-held.ts`, `sheet-reading.ts`, `attach.ts`, `store-postgres/src/store.ts` | documents, extractions, leases, holds, identifiers | retries of a job that half finished, two reads of one document, one deduction seen through two channels, one small pool for two kinds of lock | `DocumentRead`, `DocumentFate` |
| Ledger connections and tokens | `store-postgres/src/connections.ts`, `credentials.ts`, `ledger-lock.ts`, `qbo/src/client.ts`, `tokens.ts`, `apps/web/lib/ledger-sync.ts` | connections, sealed sign-ins, the company lock | refresh tokens honoured once, a token lost after it was rotated, a release that races a reconnect | `LedgerConnection` |
| Ledger sync and discovery | `pipeline/src/ledger-job.ts`, `discovery.ts`, `store-postgres/src/discovery.ts` | cases found in the books, names, declined candidates | a sync that dies between three transactions; names read once and used to the end | `LedgerDiscovery` |
| Portal read | `pipeline/src/portal-job.ts`, `store-postgres/src/portal.ts`, `services/portal-read`, migrations 0038, 0039 | credentials, starts, outcomes, captures; the worker's registry in memory | a step retried after it half finished, a worker restarted, a refused password typed again | `PortalRead` |
| Inbound email | `pipeline/src/inbound.ts`, `inbound-sweep.ts`, `store-postgres/src/inbound.ts`, `apps/web/lib/inbound-route.ts`, migration 0034 | messages, parts, claims, the address | redelivery beside a delivery still running, two emails of the same bytes | `InboundEmail` |
| Reason-code maps, dispute windows | `store-postgres/src/payer-code-maps.ts`, `dispute-windows.ts` | append-only rows | | not modelled |
| Money and short-pay arithmetic | `core-domain/src/money.ts`, `short-pay.ts`, `settlement-lines.ts`, `journal.ts` | none (pure) | cents, signs, allocation | not modelled |
| Extraction, ingest hardening, sealing, adapters | `packages/extraction`, `ingest`, `crypto`, `adapters`, `decision` | none | parsing, prompts, bytes: data, not control | not modelled |
| Web pages, fixtures, evals, scripts | `apps/web/app`, `components`, `packages/fixtures`, `packages/evals`, `scripts` | none of their own | | not modelled |

How they interact: a web request or an Inngest job calls the store; each store
call is one transaction (`withTenant`), most of which begin by locking the case
row. Rows of decisions, packets, approvals, submissions, merges, attempts and
events are append-only. Exclusion that must outlast a transaction is an advisory
lock held by a connection of its own (the document's lease, the invoice's claim,
the message's claim, the company's lock, the setup claim, the team's lock). The
only shared memory is the portal worker's registry and a sync's token store. So
the interleavings that matter are those of transactions, of statements inside a
READ COMMITTED transaction that waits for a lock, of answers from QuickBooks,
Intuit, Postmark and the portal, and of what a caller read before.

What makes each part correct (the properties the modules state):

- workflow: nothing is filed but what a second person approved; an approval
  never names a replaced packet; a case is fought or declined, never both; the
  state of a case and its rows agree; closed cases take no work; every move is
  an edge of the table;
- merges: `merged` is a projection of the merge ledger; merges do not chain; a
  case that was filed, or has a row to be posted, is never merged away;
- posting: nothing is sent that was not approved, nothing is sent twice, and
  what is voided is not in the books;
- setup and team: setup never makes two accounts for one row nor forgets one it
  made; no account is recorded twice; a workspace keeps an owner and two people
  who can write;
- documents: one paper opens its case once, whatever is retried; one claim on one
  invoice opens one case, and a shared invoice is flagged; a held document reaches
  a case only by a person; every run ends and every uploaded notice is
  settled;
- ledger: a refresh token is spent once and its successor stored; a confirmed
  revoke leaves nothing alive; a dead sign-in is let go; an invoice is the notice
  of one case and every short payment is answered;
- portal: a refusal that is recorded is never typed again; every run past its
  first step gets an outcome; a capture has one row and, clean, is sent to be read;
- inbound: no email is lost silently, and one email stored a document.

## 2. How the project is laid out

| Module | Builds on | Purpose |
| --- | --- | --- |
| `CaseStates` | | the table of moves |
| `CaseLifecycle` | `CaseStates` | abstract specification of one case's life |
| `CaseWorkflow` | `CaseStates` | the store's transactions on cases |
| `DuplicateCases` | `CaseWorkflow` | merges composed with the whole workflow; implements `CaseLifecycle` |
| `Posting` | | write-backs, the job, QuickBooks |
| `Team`, `PostingSetup` | `PostingSetup` extends `Team` | presses beside changes of who is an owner |
| `DocumentFate` | | abstract specification of one document's way |
| `DocumentRead` | | the pipeline; implements `DocumentFate` |
| `LedgerConnection`, `LedgerDiscovery` | | sign-ins; what a sync does with the books |
| `PortalRead`, `InboundEmail` | | the two channels with outside services |
| `CaseProofs` | `DuplicateCases`, and through it `CaseWorkflow` | theorems about cases and merges |
| `PostingProofs`, `PostingSetupProofs` (with `Team`), `LedgerConnectionProofs`, `LedgerDiscoveryProofs`, `DocumentReadProofs`, `PortalReadProofs`, `InboundEmailProofs` | the module of that name | theorems |
| `MC...` | the module of that name | instances for TLC |

What could still be added, most useful first: what more than one fault does to a
portal read; row locks taken one at a time, for freedom from deadlock between a retry (`requeueWriteback` locks
the row and then, by a foreign key, the case) and a void, which locks them the
other way round.

## 3. The modules and the code

The unit of atomicity is the transaction, or the call to an outside service. A
store method that begins by locking the case row is one action; what it read
*before* the lock, and that can have changed by then, is kept in a request
variable, and the method is split there. A job is split at every await. A
refusal rolls back: it is a stutter, or an action that only ends the request.
Everything that must be unchanged is named in `UNCHANGED`. `PROJECT.json` maps
each definition to its lines.

### CaseStates, CaseLifecycle

`CaseStates` is the table of `state-machine.ts`: the states, the transitions and
`canTransition`. `CaseLifecycle` is the abstract specification: a case starts
unopened and moves along edges of the table. `CaseWorkflow`, and `DuplicateCases`
with the whole workflow in it, implement it (`FollowsTheTable`, checked and
proved), with the variable `state` as the refinement mapping.

### CaseWorkflow

| Variable | In the database |
| --- | --- |
| `state`, `deadline` | the case's row in `deductions` |
| `job` | how far the job that opens a case from a notice has got |
| `notice`, `evidence` | `deduction_documents` |
| `preparer`, `declined` | `decisions.prepared_by`, `declined_candidates` |
| `packets`, `handed` | `packets`, in commit order, each with its `created_at`; the earlier row handed back |
| `approvals`, `writeback`, `submissions`, `recovered` | `approvals` by action type, `submissions`, the `outcome.recorded` event |
| `assembling`, `declining`, `clock` | requests between what they read and the row lock; transaction start times |

The actions carry the names of the store's methods: `openCase`, `linkNotice`
and `transitionCase` are the three transactions of the opening job, which may
die between them (`jobDies`); `readTerms`, `beginAssembly` and `assemblePacket`
(or `handBackPacket`, or `assemblyEnds`) are one call of `assemblePacket`: the
terms are read, the transaction begins (its start is `created_at`), the lock is
granted. `beginDecline` takes the snapshot in which a decline looks for a
decision and `declineCase` re-evaluates only what READ COMMITTED re-evaluates.

### DuplicateCases

Extends `CaseWorkflow` with the named pairs, the standing verdicts, and the
merge and unmerge rows. `mergeable` is the database's `merge_refusal`;
`mergeInto` is the merge row with the trigger that moves the loser;
`undoMerge` restores the state the merge row kept. `beginUndo` is the read of
the survivor that precedes the locks. The workflow runs beside all of it.

`merge_work_rank` also looks at a case's accounting, so `books` says how far that
has got: a settlement decision (`prepareSettlementDecision`), then a `writeoffs` or
`writebacks` row (`queueDecisionPostings`, after an approved settlement or a packet
approved with its posting). `Posting` models these in full; approving a settlement
and inserting its first row are one step here, because an approval without a row
ranks like a decision. Neither looks at the case's state; `notMergedAway` is the
trigger that refuses a merged case. A decline whose snapshot has a settlement is
refused (`declinesUnsettled`); one whose snapshot is older is not.

### Posting

| Variable | In the system |
| --- | --- |
| `facts`, `decisions` | decisions begun, in the order of `created_at`; those committed |
| `approvals`, `voided` | `approvals` with action type writeback; `settlement.posting_voided` events |
| `settling` | how far the approving request has got: write-off, entry row, payment row, queue |
| `writeoffs`, `row`, `txn`, `attempts` | `writeoffs`; `writebacks.status`, `qbo_txn_id`; `writeback.attempted` events |
| `asks`, `queue`, `jobs` | retries asked for; events; runs of `post-writeback` |
| `voids` | a void between its first check and its locks, with the rows left to look for |
| `entries`, `wire` | what QuickBooks holds; requests it may still act on although their sender gave up |

A decision is named by its position in `facts`, that is by the start of its
transaction, because "latest" is `order by created_at`. The job is split at
each await: `StartJob` (the row is read), `BuildPosting`, `FindByReference` (for
an event that says retry), `Post`, `ReadBack`, `RecordAttempt`; it may die
before any of them. QuickBooks is external and is modelled by how the code uses
it. Whether it answers a repeated request id with what it made is a constant,
`Remembers`: ADR 0060 leaves that to a run against QuickBooks' own sandbox company.

### Team, PostingSetup

`Team`: `role` is `memberships.role`; `acts` is whom the ledger connection and
the email address act as. `changes` holds the calls past `team_owner_org`: a call
waits for the team lock, counts under it (`counts`, or `refuses`) and commits;
`operatorChanges` is a change in SQL, which meets only the trigger. What the lock
does not cover (`takesOver`) may change in between.

`PostingSetup`: `log` is the connection's audit rows in the order of their ids,
`chart` the company's accounts as a press tells them apart, `made` what Intuit
made under each request id, `late` requests whose press gave up. A press holds
`withSetupClaim` and goes through `readConnection`, `listAccounts`,
`recordAccountFound` (settling what an earlier press never heard), the plan, and
for each account `recordAccountCreateRequested`, `createAccount`, `readBack`,
`recordAccountCreated`; then the map and the switch. Each write asks the database
again whether the presser is an owner, and `Team` may have changed that. A
request left unanswered may be acted on late, but not after the row's next
request was sent: presses are minutes apart.

### DocumentFate, DocumentRead

`DocumentFate` promises that a document arrives, is read, held or put on a case,
and that a held one reaches a case only after a person acted. `DocumentRead` is
the pipeline: `scan`, `extraction`, `hold`, `cases`, `names` and `links` are rows,
`queue` the events with the attempts made, `run` what each worker does and which
locks it holds. `StartRun` takes the lease or finds it taken; the steps
`resolve`, `insert`, `names`, `link`, `flag`, `classify` are the transactions of
opening a case, under the invoice's claim for the lines of a remittance. A run
may die, or its store call fail, at any step, and the queue runs the event again.
The lease and the claim come from one pool of connections, whose size is chosen
at the start of a behaviour. `ImplementsFate` is the refinement.

### LedgerConnection, LedgerDiscovery

`creds` are the stored sign-ins by `seq`, `live` and `fresh` what Intuit still
honours and what has not expired, `lock` the company's advisory lock. A call
loads, and when the token is about to expire takes the lock, loads again,
refreshes, and saves before it lets go (`withRefreshLock`, `save`). Connects,
moves and disconnects take the same lock. A sync makes two calls over one token
store, which remembers the row loaded last; a refusal for good ends in
`releaseDeadLedger`.

`LedgerDiscovery` is what a sync does with the books: `syncLedger` reads which
invoices were paid short, then the names, then the open cases, and answers each
invoice: it names the case that carries it, declines it, or stores the extract,
opens a case and links the two, in three transactions. Books change and papers
open cases meanwhile; a sync may die anywhere and a later one starts over.

### PortalRead

`pc`, `attempt` and `job` are the queued job's steps and what the finished ones
returned; each step runs whole, again if it failed, and steps of two runs
interleave. `w` and `inFlight` are the worker's registry, which a restart
empties. `startRow`, `endRow`, `capRows`, `holds` are rows of migrations 0038 and
0039. `rejected` is a history variable: what the portal itself refused.

### InboundEmail

`status` and `tries` are Postmark's; `pc` and `d` are deliveries, of which one
Postmark stopped waiting for may still run; `rows`, `parts` and `scan` are the
tenant's; `job` is the queued read. A delivery is `busy` when another has the
message's claim, and may be at any time: the connections for claims are two per
process, shared by the mail of every workspace. The claim, the parts one by one, the record
and the queueing are steps; an email may have no parts, and is then recorded at
once. A message that is recorded already keeps its row and its parts (migration
0034). The sweep finds what was never delivered; members adopt and retire the
address.

## 4. The runs

| Run | Distinct states | What it shows |
| --- | --- | --- |
| `case_workflow` | 430 thousand | One case, from a notice or typed in, two assemblies and two declines in flight: what is filed was approved by a second person; an approval names the latest packet; never decided and declined; state and rows agree; a closed case takes no work. |
| `duplicate_cases` | 1.5 million | Two cases, one opened by a job and one typed in, with the whole workflow, batch removals, a settlement, postings, merges and two undos in flight: `merged` is exactly a projection of the merge ledger, a case that is filed or posted is never merged away, state and rows agree, and every move is in the table. |
| `posting` | 123 thousand | One settlement or found posting, two retries, deaths and late requests: a row is in the books at most once, only after approval; what succeeded is in the ledger; a payment follows its verified entry. |
| `settle_again` | 3.8 million | Two settlements of one case, voids and retries, QuickBooks forgetting request ids but nothing dying: the one that stands is the latest, only one is ever in the books, and a voided one never is. |
| `posting_setup` | 588 thousand | Three presses by two owners, one lost answer or cut-off, and two changes by the team, an operator or an accountant. |
| `document_read` | 539 thousand | Two documents in five pairs that meet, two workers, one retry, one request of a person, one fault. |
| `ledger_connection` | 195 thousand | One company, two owners in one workspace or in two, two connects or disconnects, one expiry, one fault. |
| `ledger_discovery` | 212 thousand | Two invoices with one number or two, two changes of the books, two papers, one death. |
| `portal_read` | 3.4 million | Two runs of one connection that find nothing, a clean and a refused capture, or an infected and a clean one; two things owners do, one fault. |
| `inbound_email` | 1.3 million | Two emails with a body in common, two deliveries of each, one thing a member does, one fault. |

Two runs end in a violation; each checks a sentence of the repository and is a
finding:

- `reconnect_is_never_undone`: `tokens.ts` says a sign-in stored since a refused
  refresh is never undone by the release. The row refused is asked for only after
  the failed run is recorded, of a token store that the sync's other read shares;
  if that read loaded after a reconnect, the release names the new row and turns
  a working connection off.
- `no_later_run_types_it`: `portal-job.ts` says that after a refused sign-in "no
  later run types the same password". The connection is turned off in the last
  step; until then the worker is free and a second run types it. What does hold,
  once the refusal is recorded, is `NotTypedOnceRecorded`.

### Fairness

`case_workflow`, `duplicate_cases`, `posting`, `settle_again`, `posting_setup`,
`portal_read` and `inbound_email` state safety and assume none.

- `DocumentRead`: weak fairness of each worker's steps (a run the platform does
  not kill goes on; waiting for a connection ends by its timeout) and of starting
  queued events (Inngest keeps them). Deaths are bounded faults. Under it `RunsEnd`
  and `NoticeIsSettled`.
- `LedgerConnection`: strong fairness of a sync's progress and of starting one
  (the cron asks again every time, and the company's lock is free again and
  again), weak fairness of other calls' steps, of a disconnect's revoke, and of
  the expiry of access tokens whose sign-in is dead. Under it `DeadSignInIsLetGo`.
- `LedgerDiscovery`: weak fairness of the sync's steps, restarts included (the
  cron). Under it `EveryGapIsAnswered`.

Deadlock is not checked: once requests and bounds are used up the system really
may stop.

### Bounds, and why they are enough

- Races here are between two transactions on one case, so two requests of a kind
  (`MaxRequests`) and three assemblies begun (`MaxBegins`) cover replaced,
  overtaken and handed back. The run with two cases takes one request of a kind
  and two undos: the second finds the merge undone by the first. There the younger
  case may be settled (`Settleable`), so that it outranks the older one; either may
  be posted with its packet. Chains need three
  cases and are covered by proof instead.
- Two people, an analyst and an approver, are what separation of duties tells
  apart.
- A row is retried twice (`MaxAsks`): the first retry can look too early and the
  second can then repeat a send that lands late. Settling again takes two
  decisions, and there one retry.
- Setup: a press that fails, one that settles what it left, and one after an
  accountant's change make three; two owners who change each other at once make
  two changes (`MaxBeside`, shared with the accountant's).
- Documents: two, because identity is a relation of two papers; a pool of two
  connections is the smallest in which two runs can starve each other of claims,
  four is the code's. The proofs hold for any number.
- Ledger: two workspaces are what a move needs, two invoices what one number
  shared needs, two calls what a shared token store needs.
- Portal and inbound: two runs, or two deliveries of two emails, are the smallest
  that overlap; one fault, because what two do together is listed below.
- Amounts are one or two cents: enough for recovered to be all, part or nothing.
- Symmetry is used where two model values are alike in the constants and only
  safety is checked (`posting_setup`, `portal_read`).

Each property has a mutant, a definition with a plausible bug (a guard dropped,
a snapshot trusted, a lock not taken), under which its run finds it violated.
Mutants stand in the modules just before what they replace.

## 5. The proofs

TLC shows a property of one small instance. The theorems below hold for every
value of the constants: any number of cases, people, documents, runs, requests in
flight, retries and faults, unless an assumption is named. Nearly every
theorem is a property that a run checks, and each inductive invariant was checked by TLC on
the run's instance before it was proved. Every proof has the same shape: the
initial states satisfy the invariant, one lemma per action (or group of actions
with the same effect) says that the action keeps it, and the invariant implies
the property.

### CaseProofs: the workflow

- `TypeCorrect`; `NeverBoth`: no case is both decided and declined;
- `FiledOnlyAsApproved`: each submission carries the hash an approver other than
  the preparer approved; `ApprovalNamesLatest`: an approval's packet stays the
  latest;
- `StateAndRowsAgree`: the state of a case and its rows agree;
- `ClosedIsClosed`: no step writes a row of work on a closed case;
- `WorkflowFollowsTheTable`: the refinement of `CaseLifecycle`.

None of the invariants is inductive. `IInv` adds where a case may be:
`DecidedState` (a case with a decision has left the states from which it could be
declined), `OpeningState` (while the opening job runs, only a removal moves the
case, so its unconditional update cannot pull a decided case back),
`ApprovalState` (an approval's case is past the state in which packets are added,
and its approver is not the preparer); `StateMatchesRows` is a conjunct beside
the other three. They rest on three of the module's named assumptions: what is
opened is a case (`CaseAssumption`), amounts are positive (`AmountAssumption`),
and the markers for "nobody" and "the notice" are no user and no document
(`NoClash`); roles and bounds may be anything.

### CaseProofs: merges

- `StateProjectsMerges`: `merged` is a projection of the merge ledger;
- `NoChains`: a case that absorbed another is not merged away while that stands;
- `FiledSurvives`: a case that was filed, or has a row to be posted, is never the
  one that disappears;
- `StateAndRowsAgreeUnderMerges`, `ApprovalsHoldUnderMerges`,
  `MergesFollowTheTable`: the workflow's own results with merges beside it.

The first three are conjuncts of `MergeInv` and need each other: an undo withdraws
the verdict of its pair and restores the case it names, which no other standing
merge may still need (no chains), and a filed or posted case stays out of a merge
only because a merged one takes no work. `UnmergesFollow` is added: an unmerge row
takes back a merge row that is there, so a new merge never finds an old unmerge
row of its pair waiting for it. `DupInv` joins `MergeInv`, `IInv` and `KeptStates`:
the state a standing merge row keeps still fits the rows of the case it took away,
so that `undoMerge` may restore it. The assumptions are those of
the workflow; any set of cases may be settled.

### PostingProofs

- `LiveIsLatest`: a settlement that stands is the latest of its case; no two stand
  together (`OneStands`). The strengthening is that an approval names a committed
  decision.
- `OnlyApprovedIsPosted`, `SuccessIsInTheBooks`, `EntryThenPayment`, from
  `PostInv`: what each row, event, run and request says of the approval it comes
  from and of what QuickBooks holds.
- `OnceInTheBooks`, assuming `Remembers` (QuickBooks answers a repeated request id
  with what it made). It is not claimed without it: a retry can look before a late
  request lands, and then send again.
- `VoidedStaysOut` and `CaseIsSettledOnce`, assuming that no worker dies
  unrecorded (`~MayDie`), with or without `Remembers`. `SentInv` says that nothing
  was sent without a trace on record, or in the hands of a run about to record it,
  and that nothing of a voided decision was sent. The proof does not use the
  void's read of QuickBooks: while workers live, the recorded attempts are enough.
  That read is there for workers that die, and there section 6 says what it misses.

### PostingSetupProofs

- `TeamKeepsWorking`: a workspace that starts with an owner and two people who can
  write keeps them. `TeamInv` adds that one change at a time is past its count
  (the team lock) and that what it counted still holds. It needs finitely many
  members (`TeamAssumption`), and a start that is able to work: the migrations
  impose none.
- `AccountsRecordedOnce`, `NothingMadeIsForgotten`, `NoSecondAccount`, from
  `SetupInv`: one press at a time works, the requests of a row are numbered by
  its answers, what QuickBooks made or may still make was asked for on the record,
  and each press knows of its row what the log says.

### LedgerConnectionProofs

`OnlyTheEndedAreRefused`, `StoredIsHonoured`, `RevokedStaysOver`, from `LedgerInv`:
whoever refreshes, saves or revokes holds the company's lock; the token it has
rotated is the one stored last, and the one it is about to store is honoured,
stored nowhere else and the only one that can become the latest. Assumed:
calls and people are different holders of the lock (`HoldersDiffer`).

### LedgerDiscoveryProofs

`OneCasePerShortPayment` and `LedgerNamesAgree`, from `DiscoveryInv`: only a sync
writes the ledger's own ids, and it has each invoice at most once before it, so of
an invoice still to be answered the list it read at the start says what the table
says now. The invariant also shows that a sync never meets its own extract as
some case's notice: `storeExtract`'s branch for that is not reached from a sync.

### DocumentReadProofs

- `PipelineImplementsFate`: the refinement of `DocumentFate`, from `ReadInv`: one
  run holds a document's lease, a run that came to open or to file is a person's,
  and a run on its way to a case has no held document in its hands unless a
  person acted.
- `NoticesOpenOnce`, from `NoticeInv`: a case's claim is among the names before
  anything else can look for it, and a run that goes on with a notice is the first
  or finds the case.
- `LinesOpenOnce`, `SharedInvoicesAreFlagged`, from `LineInv`: one worker at a time
  has the claim of an invoice, and what it saw under the claim is still so when it
  opens the case.

### PortalReadProofs

- `CapturedOnce` and `EveryRunHasAnOutcome`, from `PortalInv`: what a run may rely
  on at each of its steps (`RunOk`), retries included.
- `RefusedIsNotTypedAgain`, from `SignInv`: a refusal that is recorded has turned
  the connection off for that credential, and no run past the check is about to
  type it.
- `NothingCapturedIsLost`, from `ReqInv`, for at most one fault
  (`MaxFaults <= 1`) and at least two attempts at a step: a capture not yet asked
  for still has its bytes at the worker, or a step that asks before it. With two
  faults it is false (section 6).

### InboundEmailProofs

- `NoEmailFallsSilent`, `OneEmailStoresIt`: the two properties of the run, for any
  emails (empty ones too), deliveries, faults and moves of the members;
- `DoneMeansKept`: Postmark is told 200 only of an email on the record whose read
  is queued;
- `OneDeliveryAtWork`: two deliveries of one email are never at work on it at once,
  and none is once it is recorded;
- `NothingInfectedIsRead`: what the scanner finds infected is never read, nor
  recorded as filed, on any path to a read.

All come from `InboundInv`. `AloneWithIt` is the claim with the look at the record
under it: a delivery may take the claim only of an unrecorded email, and the
record ends its work. `BroughtOnce` says of a document which email brought it from
the moment its bytes are stored, not only once that is recorded: a delivery that
stored it and has not finished counts, and one that found it held does not, so two
emails of the same bytes cannot both come to record it. If the delivery that
stored it dies, nobody is recorded as having done so. `AnsweredFor` says that a part
that left a document was given a verdict, and a document once clean can later
lack one but not become infected: the scanner's word on the same bytes is the same
(`Infected` is a constant). `ToldIsRecorded` ties what Postmark was told to the
rows and the queued job, and `Walking` says where in its email a delivery is. The
proof is in two halves: each action is shown to be a step of one delivery with
the same seven effects (`DeliveryStep`), and such a step keeps each conjunct.

### What the proofs corrected

Five properties held on their instances and turned out to be stated too strongly:
the inductive step failed, and the failing step or a larger instance showed the
behaviour. They now say what the code does.

- `OneAccountPerRow` excepts a request that setup answered with an account of the
  accountant's that looked like its own.
- `RevokedIsOver` is about the sign-in stored last: one from before a reconnect is
  left unrevoked (ADR 0039), and nothing loads it.
- `OneCasePerLine` asks for the same claim *and* the same invoice:
  `withInvoiceClaim` locks by invoice.
- `NothingFallsSilent` excepts an attachment with the very bytes of a cover note,
  which `unreadDocuments` takes for one. It no longer counts a queued job or a
  reader's lease as an excuse: the lists are enough by themselves.
- `SameInvoiceIsFlagged` excepts a remittance's second line for an invoice: the
  candidates of a flag leave out the remittance's own cases, and the invoice's
  name may be its first line's.

### Only model-checked

Liveness (`RunsEnd`, `NoticeIsSettled`, `DeadSignInIsLetGo`, `EveryGapIsAnswered`):
fairness and ENABLED are outside what the prover handles. Every invariant, action
property and refinement that a passing run checks is also proved, under the
assumptions named above.

## 6. Not modelled, and seen while modelling

Not modelled:

- Most of the repository's lines are pages, components, notices, prompts,
  parsing, fixtures and evaluations. They keep no state of their own, and a small
  instance would show nothing about them; the map therefore names about an eighth
  of the implementation's lines.
- Amounts beyond signs and bounds, journal lines, account mapping: data the
  control modelled here does not branch on.
- Row-level security and tenancy: one organisation is modelled (two workspaces
  where a company moves between them); isolation is by policies, not by the order
  of steps.
- Waiting for row locks: a transaction is one action, so deadlock of row locks,
  which Postgres breaks by aborting one side, is outside the models.
- The posting switch, the deployment's setting, membership and the sealed token
  may each refuse a posting run at any time and are one action, `JobRefused`.
- The in-process runner without a queue, backfills, debtor aliases, the snapshot
  of the books, running a recipe in a browser, issuing an email address.

The models also show, or had to allow, the following. None is a run of its own;
each is a place where the code admits more than a reader may expect.

Workflow and posting:

- "Latest packet" goes by the start of a transaction, so of two overlapping
  assemblies the one approved need not be the one assembled last
  (`workflow.ts:2410`, 854); assembling again can hand back a row that approve
  refuses (`workflow.ts:750`).
- Only the loser's state is examined by a merge: a case removed as opened in
  error can be the survivor of a later one (migration 0032:327).
- A settlement that is approved and has no row yet ranks like one that is only
  prepared, so a merge may take its case away; the row is then refused.
- A void asks the ledger before its locks and not again; after two retries in
  between, of which one posts and dies unrecorded, a voided posting is in the
  books (`posting.ts:1516`). `settle_again` therefore assumes that nothing dies.
- A request that dies right after the approval leaves no row to retry and none to
  void (`posting.ts:1500`); a settlement is posted whatever became of the case's
  found posting (`posting.ts:983`).

Setup and team:

- `team_owner_org` is asked before the team lock, so an owner demoted while
  waiting still changes the team (migration 0035:186, 267, 335). A Connect or an
  Adopt that commits between the check of who holds what and the commit leaves a
  connection or an address acting as somebody who is no owner.
- A map saved by hand during a press is overtaken by the press's own: `mapped` is
  read once, and the account-map route takes no claim.
- A request acted on very late, after its row was answered by an account that was
  found, makes an account whose id is on no row.
- An account of the accountant's that looks like the one requested is recorded as
  the answer; if the request is then acted on, the row has two.

Documents:

- Two remittances that print one claim on two invoices, read at the same time, can
  open two cases: the lock that makes look-then-open one decision is the invoice's.
- With the pool full, a remittance line whose claim gets no connection throws; the
  retry answers from the recorded extraction and the remaining lines are never
  opened (`store.ts:3137`, against the comment at 3119). A remittance whose read
  died part-way is likewise not retried, as ADR 0028 says.
- A notice without a claim id that dies between `openCase` and `linkDocument`
  opens a second case on its retry: `NoticeOpensOnce` excepts it.
- A notice does not take the invoice's claim, so one racing a remittance is not
  flagged against it. An emailed notice whose run dies before its hold, and whose
  retry is a reread that may not open, stays on no list: `NoticeIsSettled` is
  about uploads.

Ledger:

- A death between opening and linking leaves a discovered case with no notice, as
  ADR 0029 says, and the next sync opens another.
- A sync in flight goes on after its connection is disconnected or moved; a death
  between disabling and the revoke's audit row leaves no such row. A sign-in from
  before a reconnect is never revoked (ADR 0039) and is honoured until it expires.
- Invoices that share a number land on one case or are declined.

Portal:

- A worker lost, restarted or timed out after a refused sign-in, or a member who
  is no owner at the end, leaves no hold, and the next run types the refused
  password again.
- A capture whose step lost its answer and whose bytes the worker then let go is
  never requested; that takes two faults, and `portal_read` has one.
- A start that records 'refused' and dies, retried after the owner enabled the
  connection, signs in although its run is recorded as refused.

Inbound:

- Two emails received at once each count the day's reads by themselves and can
  pass `INBOUND_READS_PER_DAY` together (`inbound.ts:158`).
- A scan of the same bytes for a second email, begun before the first verdict was
  recorded, may give none and be the latest: the document is then neither read nor
  listed (`NothingFallsSilent` excepts it).
- Cover notes are derived from the document, not from the part
  (`store.ts:3763-3778`): an attachment with the same bytes as the words sent with
  some notice is left off the list of unread documents although nobody read it.
- An attachment somebody else is reading answers no type, so the job reads the
  cover note beside a notice (`pipeline/src/inbound.ts:233`).
