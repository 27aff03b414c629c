---------------------------- MODULE PostingSetup ----------------------------
(***************************************************************************)
(* Turning on posting with one press (ADR 0063): an owner's press reads    *)
(* the company's chart of accounts, makes the accounts that are missing,   *)
(* saves the account map and turns the switch on.  QuickBooks and our      *)
(* database are two places: a press may end anywhere between them, by a    *)
(* refusal, a lost answer or a cut-off, and is pressed again.  Beside it   *)
(* an accountant works in QuickBooks, owners save maps and turn the switch *)
(* by hand, and the team changes who is an owner.                          *)
(*                                                                         *)
(* An account is told apart by the row it is for and by how it looks to a  *)
(* press: as our request would have made it, alike enough to reuse, of a   *)
(* wrong type, inactive, or no longer under our name: renamed, or moved    *)
(* under another account.  A press chooses which rows are ours to create;  *)
(* the others name accounts of the company, whose checks can only refuse,  *)
(* as the A/R row does.                                                    *)
(***************************************************************************)
EXTENDS Team, Sequences

CONSTANTS
    Choices,    \* the rows a press may choose to have created
    MaxPresses, \* bound: presses begun
    MaxBeside,  \* bound: changes begun to the team and accounts touched by the accountant, together
    MaxFaults   \* bound: lost answers, cut-offs and failed reads

SETUP_ROWS == <<"deductions_receivable", "writeoff">>
Rows == {SETUP_ROWS[i] : i \in DOMAIN SETUP_ROWS}

ASSUME SetupAssumption == Choices \subseteq SUBSET Rows /\ {MaxPresses, MaxBeside, MaxFaults} \subseteq Nat

VARIABLES
    chart,    \* the company's accounts for the two rows
    made,     \* what Intuit holds: the account each request id made
    late,     \* requests whose press ended while they were on their way
    log,      \* audit_log rows of the connection, in the order of their ids
    press,    \* each member's press
    mapped,   \* a ledger_account_maps row exists
    enabled,  \* accounting_connections.posting_enabled
    presses, touches, faults

books == <<chart, made, late, touches>>
settings == <<mapped, enabled>>
vars == <<teamVars, books, log, press, settings, presses, faults>>

\* How an account holding our name may look, and one that does not hold it any more.
HolderLooks == {"as sent", "alike", "wrong type", "inactive"}
Looks == HolderLooks \cup {"renamed", "moved"}

NoPress == [pc |-> "idle", want |-> {}, seen |-> {}, todo |-> {}, attempt |-> 0, id |-> 0, ids |-> {}]

Init ==
    /\ TeamInit
    /\ chart = {} /\ made = {} /\ late = {} /\ log = << >>
    /\ press = [u \in Members |-> NoPress]
    /\ mapped = FALSE /\ enabled = FALSE
    /\ presses = 0 /\ touches = 0 /\ faults = 0

-----------------------------------------------------------------------------
(* The audit log *)

entriesOf(row) == {i \in DOMAIN log : log[i].row = row}
requests(row) == {i \in entriesOf(row) : log[i].what = "requested"}
answers(row) == {i \in entriesOf(row) : log[i].what # "requested"}

\* postingSetupRequestId: the request id is the row and the number of its answers.
attemptOf(row) == Cardinality(answers(row))

latestRequest(row) == CHOOSE i \in requests(row) : \A j \in requests(row) : j <= i

\* unansweredAccountCreates
unanswered(row) == requests(row) # {} /\ \A i \in answers(row) : i < latestRequest(row)

\* recordedSetupAccounts
recorded(row) == {log[i].id : i \in answers(row)}

audit(what, row, attempt, id) ==
    log' = Append(log, [what |-> what, row |-> row, attempt |-> attempt, id |-> id])

-----------------------------------------------------------------------------
(* A press *)

\* Mutant: nothing is claimed.
NoClaim == TRUE

\* withSetupClaim: a try-lock held for the whole press.
claimFree == \A u \in Members : press[u].pc = "idle"

at(u, pc) == press[u].pc = pc
goes(u, next) == press' = [press EXCEPT ![u] = next]
ends(u) == goes(u, NoPress)

setUpPosting(u, want) ==
    /\ isOwner(u) /\ at(u, "idle") /\ claimFree
    /\ presses < MaxPresses /\ presses' = presses + 1
    /\ goes(u, [NoPress EXCEPT !.pc = "connection", !.want = want])
    /\ UNCHANGED <<teamVars, books, log, settings, faults>>

\* A connection that has its map is refused.
readConnection(u) ==
    /\ at(u, "connection")
    /\ IF mapped THEN ends(u) ELSE goes(u, [press[u] EXCEPT !.pc = "chart"])
    /\ UNCHANGED <<teamVars, books, log, settings, presses, faults>>

listAccounts(u) ==
    /\ at(u, "chart")
    /\ goes(u, [press[u] EXCEPT !.pc = "settle", !.seen = chart])
    /\ UNCHANGED <<teamVars, books, log, settings, presses, faults>>

seenOf(u, row) == {a \in press[u].seen : a.row = row}
asRequested(u, row) == {a \in seenOf(u, row) : a.look = "as sent"}

\* settleUnanswered: what a request with no answer asked for, found in the chart.
settleable(u, row) == unanswered(row) /\ Cardinality(asRequested(u, row)) = 1

recordAccountFound(u, row) ==
    /\ at(u, "settle") /\ isOwner(u) /\ settleable(u, row)
    /\ \E a \in asRequested(u, row) : audit("found", row, log[latestRequest(row)].attempt, a.id)
    /\ UNCHANGED <<teamVars, books, press, settings, presses, faults>>

\* resolveSetupRow: QuickBooks lets one account hold a name.
holders(u, row) == {a \in seenOf(u, row) : a.look \in HolderLooks}
reusable(u, row) == {a \in holders(u, row) : a.look \in {"as sent", "alike"}}
blocked(u, row) == holders(u, row) # {} /\ reusable(u, row) = {}
\* Mutant: nobody asks what setup recorded before.
NeverRenamed(u, row) == FALSE

\* Ours, recorded before, and still in the chart under another name.
renamed(u, row) == holders(u, row) = {} /\ \E a \in press[u].seen : a.id \in recorded(row)

planPostingSetup(u) ==
    /\ at(u, "settle") /\ \A row \in Rows : ~settleable(u, row)
    /\ IF \E row \in press[u].want : blocked(u, row) \/ renamed(u, row)
       THEN ends(u)
       ELSE LET kept == UNION {reusable(u, row) : row \in press[u].want}
            IN goes(u, [press[u] EXCEPT !.pc = "next", !.seen = {},
                          !.todo = {row \in press[u].want : holders(u, row) = {}},
                          !.ids = {a.id : a \in kept}])
    /\ UNCHANGED <<teamVars, books, log, settings, presses, faults>>

\* The rows are made in the order of SETUP_ROWS.
firstOf(rows) == IF SETUP_ROWS[1] \in rows THEN SETUP_ROWS[1] ELSE SETUP_ROWS[2]
nextRow(u) == firstOf(press[u].todo)

\* Mutant: the request goes out and nothing says so.
AskUnrecorded(u) ==
    /\ at(u, "next") /\ press[u].todo # {} /\ isOwner(u)
    /\ goes(u, [press[u] EXCEPT !.pc = "send", !.attempt = attemptOf(nextRow(u))])
    /\ UNCHANGED <<teamVars, books, log, settings, presses, faults>>

\* createOne: the request is on the record before it goes out.
recordAccountCreateRequested(u) ==
    /\ at(u, "next") /\ press[u].todo # {} /\ isOwner(u)
    /\ audit("requested", nextRow(u), attemptOf(nextRow(u)), 0)
    /\ goes(u, [press[u] EXCEPT !.pc = "send", !.attempt = attemptOf(nextRow(u))])
    /\ UNCHANGED <<teamVars, books, settings, presses, faults>>

\* QuickBooks: a request id it has seen is answered with what it made; a name that is held is refused.
known(r) == {m \in made : m.row = r.row /\ m.attempt = r.attempt}
nameFree(r) == \A a \in chart : a.row = r.row => a.look \notin HolderLooks
newId == 1 + Cardinality(made) + touches

makes(r) ==
    /\ known(r) = {} /\ nameFree(r)
    /\ chart' = chart \cup {[id |-> newId, row |-> r.row, look |-> "as sent"]}
    /\ made' = made \cup {[id |-> newId, row |-> r.row, attempt |-> r.attempt]}

request(u) == [row |-> nextRow(u), attempt |-> press[u].attempt]

\* The POST. Sent again under another id minutes later, the row's older request is no longer on its way.
createAccount(u) ==
    /\ at(u, "send")
    /\ late' = {r \in late : r.row # nextRow(u)}
    /\ \/ /\ makes(request(u))
          /\ goes(u, [press[u] EXCEPT !.pc = "read back", !.id = newId])
       \/ \E m \in known(request(u)) :
             goes(u, [press[u] EXCEPT !.pc = "read back", !.id = m.id]) /\ UNCHANGED <<chart, made>>
       \/ known(request(u)) = {} /\ ~nameFree(request(u)) /\ ends(u) /\ UNCHANGED <<chart, made>>
    /\ UNCHANGED <<teamVars, touches, log, settings, presses, faults>>

\* The answer never came: QuickBooks may have acted, act later, or never.
answerLost(u) ==
    /\ at(u, "send") /\ faults < MaxFaults /\ faults' = faults + 1
    /\ late' = late \cup {request(u)} /\ ends(u)
    /\ UNCHANGED <<teamVars, chart, made, touches, log, settings, presses>>

lateArrives(r) ==
    /\ late' = late \ {r}
    /\ \/ makes(r)
       \/ (known(r) # {} \/ ~nameFree(r)) /\ UNCHANGED <<chart, made>>
    /\ UNCHANGED <<teamVars, touches, log, press, settings, presses, faults>>

\* accountReadBackMismatch, which does not ask under which account ours lies.
readsBackAsSent(a) == a.look \in {"as sent", "moved"}

\* An account that is gone cannot be read, and the request stays unanswered.
readBack(u) ==
    LET got == {a \in chart : a.id = press[u].id} IN
    /\ at(u, "read back")
    /\ \/ got = {} /\ ends(u)
       \/ \E a \in got : goes(u, [press[u] EXCEPT !.pc = IF readsBackAsSent(a) THEN "made" ELSE "mismatch"])
    /\ UNCHANGED <<teamVars, books, log, settings, presses, faults>>

\* One that read back otherwise is recorded too, and the press stops.
recordAccountCreated(u) ==
    /\ press[u].pc \in {"made", "mismatch"} /\ isOwner(u)
    /\ audit("created", nextRow(u), log[latestRequest(nextRow(u))].attempt, press[u].id)
    /\ IF at(u, "made")
       THEN goes(u, [press[u] EXCEPT !.pc = "next", !.todo = @ \ {nextRow(u)}, !.id = 0, !.attempt = 0,
                       !.ids = @ \cup {press[u].id}])
       ELSE ends(u)
    /\ UNCHANGED <<teamVars, books, settings, presses, faults>>

\* The types are read again, of active accounts, before the map is written.
saveAccountMap(u) ==
    LET typed == {a.id : a \in {b \in chart : b.look \notin {"wrong type", "inactive"}}} IN
    /\ at(u, "next") /\ press[u].todo = {}
    /\ \/ press[u].ids \subseteq typed /\ isOwner(u) /\ mapped' = TRUE
          /\ goes(u, [press[u] EXCEPT !.pc = "switch"])
       \/ ~(press[u].ids \subseteq typed) /\ ends(u) /\ UNCHANGED mapped
    /\ UNCHANGED <<teamVars, books, log, enabled, presses, faults>>

setPostingEnabled(u) ==
    /\ at(u, "switch") /\ (enabled \/ isOwner(u))
    /\ enabled' = TRUE /\ ends(u)
    /\ UNCHANGED <<teamVars, books, log, mapped, presses, faults>>

\* OwnerRequiredError at the next write of a press whose owner is none any more.
ownerRequired(u) ==
    /\ press[u].pc \in {"settle", "next", "made", "mismatch", "switch"} /\ ~isOwner(u)
    /\ at(u, "switch") => ~enabled
    /\ at(u, "settle") => \E r \in Rows : settleable(u, r)
    /\ ends(u)
    /\ UNCHANGED <<teamVars, books, log, settings, presses, faults>>

\* QuickBooks cannot be asked, a choice is refused, or the platform cuts the press off.
pressCutOff(u) ==
    /\ ~at(u, "idle") /\ ~at(u, "send") /\ faults < MaxFaults /\ faults' = faults + 1
    /\ ends(u)
    /\ UNCHANGED <<teamVars, books, log, settings, presses>>

Press(u) ==
    \/ \E want \in Choices : setUpPosting(u, want)
    \/ readConnection(u) \/ listAccounts(u)
    \/ \E r \in Rows : recordAccountFound(u, r)
    \/ planPostingSetup(u) \/ recordAccountCreateRequested(u) \/ createAccount(u) \/ answerLost(u)
    \/ readBack(u) \/ recordAccountCreated(u) \/ saveAccountMap(u) \/ setPostingEnabled(u)
    \/ ownerRequired(u) \/ pressCutOff(u)

-----------------------------------------------------------------------------
(* Meanwhile *)

\* The account-map and the switch routes: neither takes the claim.
mapByHand(u) ==
    /\ isOwner(u) /\ ~mapped /\ mapped' = TRUE
    /\ UNCHANGED <<teamVars, books, log, press, enabled, presses, faults>>

switchByHand(u) ==
    /\ isOwner(u) /\ (~enabled => mapped) /\ enabled' = ~enabled
    /\ UNCHANGED <<teamVars, books, log, press, mapped, presses, faults>>

touchesBooks == teamSteps + touches < MaxBeside /\ touches' = touches + 1

accountantMakes(r, look) ==
    /\ touchesBooks /\ nameFree([row |-> r])
    /\ chart' = chart \cup {[id |-> newId, row |-> r, look |-> look]}
    /\ UNCHANGED <<teamVars, made, late, log, press, settings, presses, faults>>

accountantChanges(a, look) ==
    /\ touchesBooks /\ a.look # look
    /\ a.look \notin HolderLooks /\ look \in HolderLooks => nameFree(a)
    /\ chart' = (chart \ {a}) \cup {[a EXCEPT !.look = look]}
    /\ UNCHANGED <<teamVars, made, late, log, press, settings, presses, faults>>

\* Merged into another account, it is gone from the chart.
accountantMerges(a) ==
    /\ touchesBooks /\ chart' = chart \ {a}
    /\ UNCHANGED <<teamVars, made, late, log, press, settings, presses, faults>>

Meanwhile ==
    \/ \E u \in Members : mapByHand(u) \/ switchByHand(u)
    \/ \E r \in late : lateArrives(r)
    \/ \E r \in Rows, look \in HolderLooks : accountantMakes(r, look)
    \/ \E a \in chart : accountantMerges(a) \/ \E look \in Looks : accountantChanges(a, look)

Next ==
    \/ \E u \in Members : Press(u)
    \/ Meanwhile
    \/ TeamNext /\ teamSteps' + touches <= MaxBeside /\ UNCHANGED <<books, log, press, settings, presses, faults>>

Spec == Init /\ [][Next]_vars

-----------------------------------------------------------------------------
(* Properties *)

\* No look-alike of the accountant's was found and recorded as the answer to the request.
answersForItself(m) == \A i \in answers(m.row) : log[i].attempt = m.attempt => log[i].id = m.id

\* planPostingSetup and postingSetupRequestId: whatever is lost, late, renamed or merged, and whoever
\* presses again, a company never has two accounts that setup made for one row, unless it mistook an
\* account of the accountant's for one of them.
OneAccountPerRow ==
    \A r \in Rows :
        Cardinality({a \in chart : a.row = r /\ \E m \in made : m.id = a.id /\ answersForItself(m)}) <= 1

\* withSetupClaim: an account is recorded once, as created by the press that made it or as found.
RecordedOnce == \A i, j \in DOMAIN log : log[i].id # 0 /\ log[i].id = log[j].id => i = j

\* createOne and settleUnanswered: an account QuickBooks made for us is never forgotten; the request
\* that made it is answered on the record, or is the row's latest and open for the next press.
MadeIsOnRecord ==
    \A m \in made :
        \/ \E i \in answers(m.row) : log[i].attempt = m.attempt
        \/ unanswered(m.row) /\ log[latestRequest(m.row)].attempt = m.attempt

=============================================================================
