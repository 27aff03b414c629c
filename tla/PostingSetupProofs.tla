------------------------- MODULE PostingSetupProofs -------------------------
(***************************************************************************)
(* The team and the one-press setup, for any number of members, presses,   *)
(* faults and hands in the chart.                                          *)
(***************************************************************************)
EXTENDS PostingSetup, FiniteSetTheorems, TLAPS

(***************************************************************************)
(* The team.  WorkspaceCanWork is inductive once it is known what a change *)
(* that was counted and not yet committed relies on: the lock it holds     *)
(* keeps every other owner's change, and an operator's change of an owner, *)
(* away until it commits.                                                  *)
(***************************************************************************)

Change == [act : {"invite", "change", "remove"}, of : Members, to : NewRoles \cup {None},
           counted : BOOLEAN]

TeamType ==
    /\ role \in [Members -> ROLES \cup {None}]
    /\ changes \subseteq Change
    /\ operated \in BOOLEAN

\* What was counted still holds: an owner remains, and two who write.
CountHolds(q) ==
    /\ keepsAnOwner(q.of, q.to)
    /\ ~operated /\ q.of \in writers /\ q.to \notin WRITERS => Cardinality(writers \ {q.of}) >= 2

TeamInv ==
    /\ TeamType
    /\ WorkspaceCanWork
    /\ \A q, p \in changes : q.counted /\ p.counted => q = p
    /\ \A q \in changes : q.counted => CountHolds(q)

\* The parts of a change.
LEMMA ChangeParts ==
  ASSUME TeamType, NEW q \in changes
  PROVE  /\ q \in Change /\ q.of \in Members /\ q.to \in NewRoles \cup {None}
         /\ q.counted \in BOOLEAN /\ q.to \in ROLES \cup {None}
BY TeamAssumption DEF TeamType, Change

\* Writers are finitely many.
LEMMA WritersFinite == IsFiniteSet(writers) /\ Cardinality(writers) \in Nat
<1>1. writers \in SUBSET Members
  BY DEF writers
<1> QED
  BY <1>1, TeamAssumption, FS_Subset, FS_CardinalityType

\* A step that leaves the roles, the counted changes and the operator's mark alone.
LEMMA TeamStays ==
  ASSUME TeamInv, UNCHANGED <<role, operated>>, changes' \subseteq Change,
         \A q \in changes' : q.counted => q \in changes
  PROVE  TeamInv'
<1>1. writers' = writers /\ \A m, to : keepsAnOwner(m, to)' <=> keepsAnOwner(m, to)
  BY DEF writers, keepsAnOwner, isOwner
<1>2. WorkspaceCanWork'
  BY <1>1 DEF TeamInv, WorkspaceCanWork, isOwner
<1>3. \A q : CountHolds(q)' <=> CountHolds(q)
  BY <1>1 DEF CountHolds
<1> QED
  BY <1>2, <1>3 DEF TeamInv, TeamType

\* The lock is free: a change is counted, alone.
LEMMA TeamCounts ==
  ASSUME TeamInv, NEW q \in changes, counts(q)
  PROVE  TeamInv'
<1>1. PICK k : k = [q EXCEPT !.counted = TRUE]
  OBVIOUS
<1>2. /\ teamLockFree /\ admitted(q) /\ changes' = (changes \ {q}) \cup {k}
      /\ UNCHANGED <<role, operated>>
  BY <1>1 DEF counts
<1>3. /\ k \in Change /\ k.counted = TRUE /\ k.of = q.of /\ k.to = q.to
  BY <1>1, ChangeParts DEF TeamInv, Change
<1>4. \A p \in changes' : p.counted => p = k
  BY <1>2 DEF teamLockFree
<1>5. writers' = writers /\ \A m, to : keepsAnOwner(m, to)' <=> keepsAnOwner(m, to)
  BY <1>2 DEF writers, keepsAnOwner, isOwner
<1>6. CountHolds(k)'
  <2>1. CountHolds(q)
    BY <1>2 DEF CountHolds, admitted, mayInvite, mayChange, keepsAnOwner, isOwner, writers,
       None, WRITERS
  <2> QED
    BY <1>2, <1>3, <1>5, <2>1 DEF CountHolds
<1>7. WorkspaceCanWork'
  BY <1>2, <1>5 DEF TeamInv, WorkspaceCanWork, isOwner
<1>8. TeamType'
  BY <1>2, <1>3 DEF TeamInv, TeamType
<1> QED
  BY <1>4, <1>6, <1>7, <1>8 DEF TeamInv

\* A member's role changes: who keeps an owner, and who still writes.
LEMMA RoleMoves ==
  ASSUME TeamType, NEW m \in Members, NEW to \in NewRoles \cup {None},
         role' = [role EXCEPT ![m] = to], keepsAnOwner(m, to), \E o \in Members : isOwner(o)
  PROVE  /\ role' \in [Members -> ROLES \cup {None}]
         /\ \E o \in Members : isOwner(o)'
         /\ \A o \in Members \ {m} : role'[o] = role[o]
         /\ role'[m] = to
<1>1. to \in ROLES \cup {None} /\ role \in [Members -> ROLES \cup {None}]
  BY TeamAssumption DEF TeamType
<1>2. role'[m] = to /\ \A o \in Members \ {m} : role'[o] = role[o]
  BY <1>1
<1>3. role' \in [Members -> ROLES \cup {None}]
  BY <1>1
<1>4. \E o \in Members : isOwner(o)'
  <2>1. PICK o \in Members : isOwner(o)
    OBVIOUS
  <2>2. CASE o # m \/ to = "owner"
    BY <1>2, <2>1, <2>2 DEF isOwner
  <2>3. CASE o = m /\ to # "owner"
    BY <1>2, <2>1, <2>3 DEF keepsAnOwner, isOwner
  <2> QED
    BY <2>2, <2>3
<1> QED
  BY <1>2, <1>3, <1>4

\* What was counted is committed.
LEMMA TeamCommits ==
  ASSUME TeamInv, NEW q \in changes, commits(q)
  PROVE  TeamInv'
<1>1. /\ q.counted /\ role' = [role EXCEPT ![q.of] = q.to] /\ changes' = changes \ {q}
      /\ operated' = operated
  BY DEF commits
<1>2. q.of \in Members /\ q.to \in NewRoles \cup {None} /\ CountHolds(q) /\ TeamType
  BY <1>1, ChangeParts DEF TeamInv
<1>3. /\ role' \in [Members -> ROLES \cup {None}] /\ \E o \in Members : isOwner(o)'
      /\ \A o \in Members \ {q.of} : role'[o] = role[o]
      /\ role'[q.of] = q.to
  BY <1>1, <1>2, RoleMoves DEF TeamInv, WorkspaceCanWork, CountHolds
<1>4. ~operated => Cardinality(writers') >= 2
  <2> SUFFICES ASSUME ~operated PROVE Cardinality(writers') >= 2
    OBVIOUS
  <2>0. IsFiniteSet(writers') /\ Cardinality(writers') \in Nat /\ Cardinality(writers) \in Nat
    <3>1. writers' \in SUBSET Members
      BY DEF writers
    <3> QED
      BY <3>1, TeamAssumption, WritersFinite, FS_Subset, FS_CardinalityType
  <2>1. CASE q.of \in writers /\ q.to \notin WRITERS
    <3>1. writers' = writers \ {q.of}
      BY <1>2, <1>3, <2>1 DEF writers
    <3> QED
      BY <1>2, <2>1, <3>1 DEF CountHolds
  <2>2. CASE ~(q.of \in writers /\ q.to \notin WRITERS)
    <3>1. writers \in SUBSET writers'
      BY <1>2, <1>3, <2>2 DEF writers
    <3>2. Cardinality(writers) <= Cardinality(writers')
      BY <2>0, <3>1, FS_Subset
    <3> QED
      BY <2>0, <3>2 DEF TeamInv, WorkspaceCanWork
  <2> QED
    BY <2>1, <2>2
<1>5. \A p \in changes' : ~p.counted
  BY <1>1, ChangeParts DEF TeamInv
<1> QED
  BY <1>1, <1>2, <1>3, <1>4, <1>5 DEF TeamInv, TeamType, WorkspaceCanWork

\* An operator's change keeps an owner, and away from the member a counted change is of.
LEMMA TeamOperated ==
  ASSUME TeamInv, NEW m \in Members, NEW to \in NewRoles \cup {None}, operatorChanges(m, to)
  PROVE  TeamInv'
<1>1. /\ \A q \in changes : q.counted => q.of # m
      /\ isOwner(m) /\ to # "owner" => teamLockFree
      /\ keepsAnOwner(m, to)
      /\ role' = [role EXCEPT ![m] = to] /\ operated' = TRUE /\ changes' = changes
  BY DEF operatorChanges
<1>2. /\ role' \in [Members -> ROLES \cup {None}] /\ \E o \in Members : isOwner(o)'
      /\ \A o \in Members \ {m} : role'[o] = role[o]
      /\ role'[m] = to
  BY <1>1, RoleMoves DEF TeamInv, WorkspaceCanWork
<1>3. ASSUME NEW q \in changes, q.counted
      PROVE  CountHolds(q)'
  <2>1. q.of \in Members /\ q.of # m /\ CountHolds(q)
    BY <1>1, <1>3, ChangeParts DEF TeamInv
  <2>2. ~isOwner(m) \/ to = "owner"
    BY <1>1, <1>3 DEF teamLockFree
  <2>3. keepsAnOwner(q.of, q.to)'
    BY <1>2, <2>1, <2>2 DEF CountHolds, keepsAnOwner, isOwner
  <2> QED
    BY <1>1, <2>3 DEF CountHolds
<1> QED
  BY <1>1, <1>2, <1>3 DEF TeamInv, TeamType, WorkspaceCanWork

\* Whatever is asked, counted, refused, committed, operated or taken over.
LEMMA TeamStep ==
  ASSUME TeamInv, TeamNext
  PROVE  TeamInv'
<1>1. ASSUME NEW u \in Members, NEW m \in Members, NEW act \in {"invite", "change", "remove"},
             NEW to \in NewRoles \cup {None}, asks(u, act, m, to)
      PROVE  TeamInv'
  <2>1. PICK k : k = [act |-> act, of |-> m, to |-> to, counted |-> FALSE]
    OBVIOUS
  <2>2. k \in Change /\ k.counted = FALSE
    BY <2>1 DEF Change
  <2>3. changes' = changes \cup {k} /\ UNCHANGED <<role, operated>>
    BY <1>1, <2>1 DEF asks
  <2> QED
    BY <2>2, <2>3, TeamStays DEF TeamInv, TeamType
<1>2. ASSUME NEW q \in changes, refuses(q)
      PROVE  TeamInv'
  BY <1>2, TeamStays DEF refuses, TeamInv, TeamType
<1>3. ASSUME NEW u \in Members, NEW what, NEW h, takesOver(u, what, h)
      PROVE  TeamInv'
  BY <1>3, TeamStays DEF takesOver, TeamInv, TeamType
<1> QED
  BY <1>1, <1>2, <1>3, TeamCounts, TeamCommits, TeamOperated DEF TeamNext

\* Migration 0035: a workspace that can work goes on to be able to, however the changes of
\* owners and of an operator overlap: an owner remains, and unless an operator changed a
\* membership, two members who can write.
THEOREM TeamKeepsWorking == Spec /\ WorkspaceCanWork => []WorkspaceCanWork
<1>1. Init /\ WorkspaceCanWork => TeamInv
  <2> SUFFICES ASSUME Init, WorkspaceCanWork PROVE TeamInv
    OBVIOUS
  <2>1. changes = {} /\ role = FirstRole /\ operated = FALSE
    BY DEF Init, TeamInit
  <2> QED
    BY <2>1, TeamAssumption DEF TeamInv, TeamType
<1>2. TeamInv /\ [Next]_vars => TeamInv'
  <2> SUFFICES ASSUME TeamInv, [Next]_vars PROVE TeamInv'
    OBVIOUS
  <2>1. CASE UNCHANGED teamVars
    BY <2>1, TeamStays DEF teamVars, TeamInv, TeamType
  <2>2. CASE TeamNext
    BY <2>2, TeamStep
  <2>3. ASSUME NEW u \in Members, Press(u)
        PROVE  UNCHANGED teamVars
    BY <2>3 DEF Press, setUpPosting, readConnection, listAccounts, recordAccountFound,
       planPostingSetup, recordAccountCreateRequested, createAccount, answerLost, readBack,
       recordAccountCreated, saveAccountMap, setPostingEnabled, ownerRequired, pressCutOff
  <2>4. CASE Meanwhile
    BY <2>1, <2>4 DEF Meanwhile, mapByHand, switchByHand, lateArrives, accountantMakes,
       accountantMerges, accountantChanges
  <2>5. CASE UNCHANGED vars
    BY <2>1, <2>5 DEF vars
  <2> QED
    BY <2>1, <2>2, <2>3, <2>4, <2>5 DEF Next
<1>3. TeamInv => WorkspaceCanWork
  BY DEF TeamInv
<1> QED
  BY <1>1, <1>2, <1>3, PTL DEF Spec

-----------------------------------------------------------------------------
(***************************************************************************)
(* The press.  SetupInv says what the audit log, QuickBooks and the press  *)
(* that holds the claim know of each other: a request carries the number   *)
(* of answers its row has, so that whatever QuickBooks makes of one that   *)
(* was lost is made of a number the log still accounts for; and a request  *)
(* is only logged once no account recorded for its row is in the chart.    *)
(***************************************************************************)

\* A row of the log; a request names no account.
LogEntry == {e \in [what : {"requested", "created", "found"}, row : Rows, attempt : Nat, id : Nat] :
                e.what = "requested" => e.id = 0}
Account == [id : Nat \ {0}, row : Rows, look : Looks]
Made == [id : Nat \ {0}, row : Rows, attempt : Nat]
Working == {"send", "read back", "made", "mismatch"}
PressType == [pc : {"idle", "connection", "chart", "settle", "next", "switch"} \cup Working,
              want : SUBSET Rows, seen : SUBSET Account, todo : SUBSET Rows, attempt : Nat,
              id : Nat, ids : SUBSET Nat]

SetupType ==
    /\ log \in Seq(LogEntry)
    /\ chart \subseteq Account
    /\ made \subseteq Made /\ IsFiniteSet(made)
    /\ late \subseteq [row : Rows, attempt : Nat]
    /\ press \in [Members -> PressType]
    /\ touches \in Nat

\* The log of a row: its latest request is its last, a request carries the number of answers
\* before it, the answers of a row are numbered, and a request stands between any two.
RowLogged(row) ==
    /\ requests(row) # {} => latestRequest(row) \in requests(row)
    /\ \A j \in requests(row) : j <= latestRequest(row)
    /\ unanswered(row) => log[latestRequest(row)].attempt = attemptOf(row)
    /\ \A n \in Nat : n < attemptOf(row) => \E i \in answers(row) : log[i].attempt = n
    /\ \A i \in answers(row) : log[i].attempt < attemptOf(row)
    /\ \A i, k \in answers(row) : i < k =>
          /\ log[i].attempt < log[k].attempt
          /\ \E j \in requests(row) : i < j /\ j < k

\* A request that went out is answered, or is open and carries the row's number.
Sent(r) == \/ r.attempt < attemptOf(r.row)
           \/ r.attempt = attemptOf(r.row) /\ unanswered(r.row)

\* One press at a time.
OnePress == \A u, v \in Members : ~at(u, "idle") /\ ~at(v, "idle") => u = v

\* The accounts of the chart and the ones a press has seen there.
Accounts == chart \cup UNION {press[u].seen : u \in Members}

lastId == Cardinality(made) + touches

\* An id is one account's, of one row, wherever it is met.
IdsAgree ==
    /\ \A a \in Accounts : a.id <= lastId
    /\ \A m \in made : m.id <= lastId
    /\ \A i \in DOMAIN log : log[i].id <= lastId
    /\ \A a, b \in Accounts : a.id = b.id => a.row = b.row
    /\ \A a, b \in chart : a.id = b.id => a = b
    /\ \A m, n \in made : m.id = n.id => m.row = n.row
    /\ \A a \in Accounts, m \in made : a.id = m.id => a.row = m.row
    /\ \A i \in DOMAIN log, a \in Accounts : log[i].id = a.id => log[i].row = a.row
    /\ \A i \in DOMAIN log, m \in made : log[i].id = m.id => log[i].row = m.row

\* A request id made at most one account, which is recorded only as an answer of its row.
MadeOnce ==
    /\ \A m, n \in made : m.row = n.row /\ m.attempt = n.attempt => m = n
    /\ \A m \in made : m.id \in recorded(m.row) => m.attempt < attemptOf(m.row)

\* A recorded account that is still in the chart is followed by no request for its row.
NoneAfter ==
    \A a \in Accounts, i \in DOMAIN log : log[i].id = a.id => \A j \in requests(a.row) : j < i

\* What a press knows, of the chart it read, of the rows it has to make and of the account it
\* had made.
PressKnows(p) ==
    /\ p.seen # {} => p.pc = "settle"
    /\ p.pc = "settle" =>
          \A a \in chart, i \in DOMAIN log : log[i].id = a.id => \E b \in p.seen : b.id = a.id
    /\ p.pc \in Working \cup {"next"} =>
          \A row \in p.todo, a \in chart : a.id \notin recorded(row)
    /\ p.pc \in Working =>
          /\ firstOf(p.todo) \in p.todo
          /\ unanswered(firstOf(p.todo)) /\ p.attempt = attemptOf(firstOf(p.todo))
    /\ p.pc \in Working \ {"send"} =>
          \E m \in made : m.id = p.id /\ m.row = firstOf(p.todo) /\ m.attempt = p.attempt

SetupInv ==
    /\ SetupType
    /\ \A row \in Rows : RowLogged(row)
    /\ \A r \in late \cup made : Sent(r)
    /\ OnePress /\ IdsAgree /\ MadeOnce /\ RecordedOnce /\ NoneAfter
    /\ \A u \in Members : PressKnows(press[u])

\* The greatest of a set of numbers is the one chosen.
LEMMA GreatestChosen ==
  ASSUME NEW S \in SUBSET Nat, NEW m \in S, \A j \in S : j <= m
  PROVE  (CHOOSE i \in S : \A j \in S : j <= i) = m
<1> DEFINE c == CHOOSE i \in S : \A j \in S : j <= i
<1>1. \E i \in S : \A j \in S : j <= i
  OBVIOUS
<1>2. c \in S /\ \A j \in S : j <= c
  BY <1>1, Zenon
<1> HIDE DEF c
<1>3. c <= m /\ m <= c /\ c \in Nat /\ m \in Nat
  BY <1>2
<1>4. c = m
  BY <1>3
<1> QED
  BY <1>4 DEF c

\* A row is written at the end of the log.
LEMMA LogGrows ==
  ASSUME log \in Seq(LogEntry), NEW e \in LogEntry, log' = Append(log, e)
  PROVE  /\ log' \in Seq(LogEntry) /\ Len(log) + 1 \in Nat
         /\ DOMAIN log' = DOMAIN log \cup {Len(log) + 1}
         /\ log'[Len(log) + 1] = e
         /\ \A i \in DOMAIN log : i \in Nat /\ i < Len(log) + 1 /\ log'[i] = log[i]
<1>1. /\ log' \in Seq(LogEntry) /\ Len(log') = Len(log) + 1 /\ Len(log) \in Nat
      /\ DOMAIN log' = 1..Len(log') /\ DOMAIN log = 1..Len(log)
  OBVIOUS
<1>2. log'[Len(log) + 1] = e
  OBVIOUS
<1>3. \A i \in DOMAIN log : log'[i] = log[i]
  OBVIOUS
<1>4. DOMAIN log' = DOMAIN log \cup {Len(log) + 1}
  BY <1>1
<1> QED
  BY <1>1, <1>2, <1>3, <1>4

\* The requests and the answers of a row are indices of the log, and finitely many.
LEMMA LogSets ==
  ASSUME log \in Seq(LogEntry), NEW row
  PROVE  /\ requests(row) \subseteq DOMAIN log /\ answers(row) \subseteq DOMAIN log
         /\ requests(row) \subseteq Nat /\ answers(row) \subseteq Nat
         /\ IsFiniteSet(answers(row)) /\ attemptOf(row) \in Nat
<1>1. DOMAIN log = 1..Len(log) /\ Len(log) \in Nat
  OBVIOUS
<1>2. IsFiniteSet(DOMAIN log)
  BY <1>1, FS_Interval
<1>3. answers(row) \in SUBSET DOMAIN log /\ requests(row) \in SUBSET DOMAIN log
  BY DEF answers, requests, entriesOf
<1>4. IsFiniteSet(answers(row))
  BY <1>2, <1>3, FS_Subset
<1> QED
  BY <1>1, <1>3, <1>4, FS_CardinalityType DEF attemptOf

\* The log stays: so does all that is read off it.
LEMMA SameLog ==
  ASSUME log' = log
  PROVE  \A row : /\ requests(row)' = requests(row) /\ answers(row)' = answers(row)
                  /\ attemptOf(row)' = attemptOf(row) /\ recorded(row)' = recorded(row)
                  /\ latestRequest(row)' = latestRequest(row)
                  /\ unanswered(row)' <=> unanswered(row)
BY DEF requests, answers, entriesOf, attemptOf, recorded, latestRequest, unanswered

\* What is read off the log when a request is written.
LEMMA RequestWritten ==
  ASSUME log \in Seq(LogEntry), NEW row \in Rows, NEW n \in Nat, audit("requested", row, n, 0),
         NEW r
  PROVE  /\ log' \in Seq(LogEntry) /\ DOMAIN log' = DOMAIN log \cup {Len(log) + 1}
         /\ answers(r)' = answers(r) /\ attemptOf(r)' = attemptOf(r) /\ recorded(r)' = recorded(r)
         /\ requests(r)' = IF r = row THEN requests(r) \cup {Len(log) + 1} ELSE requests(r)
         /\ log'[Len(log) + 1].row = row /\ log'[Len(log) + 1].attempt = n
         /\ log'[Len(log) + 1].id = 0
         /\ \A i \in DOMAIN log : i \in Nat /\ i < Len(log) + 1 /\ log'[i] = log[i]
<1>1. PICK e : e = [what |-> "requested", row |-> row, attempt |-> n, id |-> 0]
  OBVIOUS
<1>2. /\ e \in LogEntry /\ e.what = "requested" /\ e.row = row /\ e.attempt = n /\ e.id = 0
      /\ log' = Append(log, e)
  BY <1>1 DEF LogEntry, audit
<1>3. /\ log' \in Seq(LogEntry) /\ Len(log) + 1 \in Nat
      /\ DOMAIN log' = DOMAIN log \cup {Len(log) + 1}
      /\ log'[Len(log) + 1] = e
      /\ \A i \in DOMAIN log : i \in Nat /\ i < Len(log) + 1 /\ log'[i] = log[i]
  BY <1>2, LogGrows
<1>4. answers(r)' = answers(r)
  BY <1>2, <1>3 DEF answers, entriesOf
<1>5. requests(r)' = IF r = row THEN requests(r) \cup {Len(log) + 1} ELSE requests(r)
  BY <1>2, <1>3 DEF requests, entriesOf
<1>6. attemptOf(r)' = attemptOf(r)
  BY <1>4 DEF attemptOf
<1>7. recorded(r)' = recorded(r)
  <2>1. answers(r) \subseteq DOMAIN log
    BY LogSets
  <2> QED
    BY <1>3, <1>4, <2>1 DEF recorded
<1> QED
  BY <1>2, <1>3, <1>4, <1>5, <1>6, <1>7

\* What is read off the log when an answer is written.
LEMMA AnswerWritten ==
  ASSUME log \in Seq(LogEntry), NEW what \in {"created", "found"}, NEW row \in Rows,
         NEW n \in Nat, NEW id \in Nat, audit(what, row, n, id), NEW r
  PROVE  /\ log' \in Seq(LogEntry) /\ DOMAIN log' = DOMAIN log \cup {Len(log) + 1}
         /\ requests(r)' = requests(r) /\ latestRequest(r)' = latestRequest(r)
         /\ answers(r)' = IF r = row THEN answers(r) \cup {Len(log) + 1} ELSE answers(r)
         /\ attemptOf(r)' = IF r = row THEN attemptOf(r) + 1 ELSE attemptOf(r)
         /\ recorded(r)' = IF r = row THEN recorded(r) \cup {id} ELSE recorded(r)
         /\ log'[Len(log) + 1].row = row /\ log'[Len(log) + 1].attempt = n
         /\ log'[Len(log) + 1].id = id
         /\ \A i \in DOMAIN log : i \in Nat /\ i < Len(log) + 1 /\ log'[i] = log[i]
<1>1. PICK e : e = [what |-> what, row |-> row, attempt |-> n, id |-> id]
  OBVIOUS
<1>2. /\ e \in LogEntry /\ e.what # "requested" /\ e.row = row /\ e.attempt = n
      /\ e.id = id
      /\ log' = Append(log, e)
  BY <1>1 DEF LogEntry, audit
<1>3. /\ log' \in Seq(LogEntry) /\ Len(log) + 1 \in Nat
      /\ DOMAIN log' = DOMAIN log \cup {Len(log) + 1}
      /\ log'[Len(log) + 1] = e
      /\ \A i \in DOMAIN log : i \in Nat /\ i < Len(log) + 1 /\ log'[i] = log[i]
  BY <1>2, LogGrows
<1>4. answers(r)' = IF r = row THEN answers(r) \cup {Len(log) + 1} ELSE answers(r)
  BY <1>2, <1>3 DEF answers, entriesOf
<1>5. requests(r)' = requests(r)
  BY <1>2, <1>3 DEF requests, entriesOf
<1>6. latestRequest(r)' = latestRequest(r)
  BY <1>5, Zenon DEF latestRequest
<1>7. Len(log) + 1 \notin answers(r) /\ IsFiniteSet(answers(r)) /\ answers(r) \subseteq DOMAIN log
  BY <1>3, LogSets
<1>8. attemptOf(r)' = IF r = row THEN attemptOf(r) + 1 ELSE attemptOf(r)
  BY <1>4, <1>7, FS_AddElement DEF attemptOf
<1>9. recorded(r)' = IF r = row THEN recorded(r) \cup {id} ELSE recorded(r)
  BY <1>2, <1>3, <1>4, <1>7 DEF recorded
<1> QED
  BY <1>2, <1>3, <1>4, <1>5, <1>6, <1>8, <1>9

\* The answers of a row that gets none.
LEMMA SameAnswers ==
  ASSUME log \in Seq(LogEntry), NEW r, RowLogged(r), answers(r)' = answers(r),
         attemptOf(r)' = attemptOf(r), \A i \in DOMAIN log : log'[i] = log[i],
         requests(r) \subseteq requests(r)'
  PROVE  /\ \A n \in Nat : n < attemptOf(r)' => \E i \in answers(r)' : log'[i].attempt = n
         /\ \A i \in answers(r)' : log'[i].attempt < attemptOf(r)'
         /\ \A i, k \in answers(r)' : i < k =>
               log'[i].attempt < log'[k].attempt /\ \E j \in requests(r)' : i < j /\ j < k
<1>1. \A i \in answers(r) : log'[i] = log[i]
  BY LogSets
<1>2. \A n \in Nat : n < attemptOf(r) => \E i \in answers(r) : log[i].attempt = n
  BY DEF RowLogged
<1>3. \A i \in answers(r) : log[i].attempt < attemptOf(r)
  BY DEF RowLogged
<1>4. \A i, k \in answers(r) : i < k =>
         log[i].attempt < log[k].attempt /\ \E j \in requests(r) : i < j /\ j < k
  BY DEF RowLogged
<1> QED
  BY <1>1, <1>2, <1>3, <1>4

\* A request with the row's number becomes the row's latest, and the row is open.
LEMMA RequestKeepsLog ==
  ASSUME log \in Seq(LogEntry), NEW row \in Rows, audit("requested", row, attemptOf(row), 0),
         NEW r \in Rows, RowLogged(r)
  PROVE  /\ RowLogged(r)' /\ (unanswered(r) => unanswered(r)')
         /\ r = row => unanswered(r)'
<1> DEFINE n == Len(log) + 1
<1>1. /\ requests(r) \subseteq DOMAIN log /\ answers(r) \subseteq DOMAIN log
      /\ attemptOf(r) \in Nat /\ attemptOf(row) \in Nat /\ n \in Nat
  BY LogSets
<1>2. /\ log' \in Seq(LogEntry) /\ answers(r)' = answers(r) /\ attemptOf(r)' = attemptOf(r)
      /\ requests(r)' = IF r = row THEN requests(r) \cup {n} ELSE requests(r)
      /\ log'[n].attempt = attemptOf(row)
      /\ \A i \in DOMAIN log : i \in Nat /\ i < n /\ log'[i] = log[i]
  <2>1. PICK k \in Nat : k = attemptOf(row)
    BY <1>1
  <2>2. audit("requested", row, k, 0)
    BY <2>1
  <2> QED
    BY <1>1, <2>1, <2>2, RequestWritten
<1>b. requests(r) \subseteq requests(r)'
  BY <1>2
<1>c. /\ \A k \in Nat : k < attemptOf(r)' => \E i \in answers(r)' : log'[i].attempt = k
      /\ \A i \in answers(r)' : log'[i].attempt < attemptOf(r)'
      /\ \A i, k \in answers(r)' : i < k =>
            log'[i].attempt < log'[k].attempt /\ \E j \in requests(r)' : i < j /\ j < k
  BY <1>2, <1>b, SameAnswers
<1> HIDE DEF n
<1>3. CASE r = row
  <2>1. requests(r)' = requests(r) \cup {n} /\ requests(r)' \subseteq Nat
    BY <1>1, <1>2, <1>3
  <2>2. n \in requests(r)' /\ \A j \in requests(r)' : j <= n
    BY <1>1, <1>2, <2>1
  <2>3. (CHOOSE i \in requests(r)' : \A j \in requests(r)' : j <= i) = n
    BY <2>1, <2>2, GreatestChosen
  <2>4. latestRequest(r)' = n
    BY <2>3 DEF latestRequest
  <2>5. unanswered(r)'
    BY <1>1, <1>2, <2>2, <2>4 DEF unanswered
  <2> QED
    BY <1>2, <1>3, <1>c, <2>2, <2>4, <2>5 DEF RowLogged
<1>4. CASE r # row
  <2>1. requests(r)' = requests(r)
    BY <1>2, <1>4
  <2>2. latestRequest(r)' = latestRequest(r)
    BY <2>1, Zenon DEF latestRequest
  <2>3. unanswered(r)' <=> unanswered(r)
    BY <1>2, <2>1, <2>2 DEF unanswered
  <2>4. unanswered(r) => latestRequest(r) \in DOMAIN log
    BY <1>1 DEF RowLogged, unanswered
  <2> QED
    BY <1>2, <1>4, <1>c, <2>1, <2>2, <2>3, <2>4 DEF RowLogged
<1> QED
  BY <1>3, <1>4

\* An answer to the open request takes the row's number, and the next is one more.
LEMMA AnswerKeepsLog ==
  ASSUME log \in Seq(LogEntry), NEW what \in {"created", "found"}, NEW row \in Rows, NEW id \in Nat,
         RowLogged(row), unanswered(row), audit(what, row, log[latestRequest(row)].attempt, id),
         NEW r \in Rows, RowLogged(r)
  PROVE  /\ RowLogged(r)' /\ ~unanswered(row)'
         /\ r # row => (unanswered(r)' <=> unanswered(r))
<1> DEFINE n == Len(log) + 1
           at0 == log[latestRequest(row)].attempt
<1>0. at0 = attemptOf(row) /\ attemptOf(row) \in Nat
  BY LogSets DEF RowLogged
<1>1. /\ requests(r) \subseteq DOMAIN log /\ answers(r) \subseteq DOMAIN log
      /\ attemptOf(r) \in Nat /\ n \in Nat
  BY LogSets
<1>b. PICK same \in Nat : same = at0
  BY <1>0
<1>c. audit(what, row, same, id)
  BY <1>b
<1>a. /\ requests(row)' = requests(row) /\ latestRequest(row)' = latestRequest(row)
      /\ answers(row)' = answers(row) \cup {n}
  BY <1>c, AnswerWritten
<1>2. /\ log' \in Seq(LogEntry) /\ requests(r)' = requests(r)
      /\ latestRequest(r)' = latestRequest(r)
      /\ answers(r)' = IF r = row THEN answers(r) \cup {n} ELSE answers(r)
      /\ attemptOf(r)' = IF r = row THEN attemptOf(r) + 1 ELSE attemptOf(r)
      /\ log'[n].attempt = at0
      /\ \A i \in DOMAIN log : i \in Nat /\ i < n /\ log'[i] = log[i]
  BY <1>b, <1>c, AnswerWritten
<1> HIDE DEF n, at0
<1>3. ~unanswered(row)'
  <2>1. requests(row) # {} /\ latestRequest(row) \in requests(row)
    BY DEF unanswered, RowLogged
  <2>2. latestRequest(row) \in DOMAIN log
    BY <2>1 DEF requests, entriesOf
  <2>3. n \in answers(row)' /\ ~(n < latestRequest(row)')
    BY <1>1, <1>2, <1>a, <2>2
  <2> QED
    BY <2>3 DEF unanswered
<1>4. CASE r = row
  <2>1. attemptOf(r)' = attemptOf(r) + 1 /\ answers(r)' = answers(r) \cup {n}
    BY <1>2, <1>4
  <2>2. requests(r) # {} /\ latestRequest(r) \in requests(r) /\ latestRequest(r) < n
    BY <1>1, <1>2, <1>4 DEF unanswered, RowLogged
  <2>3. \A i \in answers(r) : i < latestRequest(r)
    BY <1>4 DEF unanswered
  <2>4. \A k \in Nat : k < attemptOf(r)' => \E i \in answers(r)' : log'[i].attempt = k
    <3> SUFFICES ASSUME NEW k \in Nat, k < attemptOf(r) + 1
                 PROVE  \E i \in answers(r)' : log'[i].attempt = k
      BY <2>1
    <3>1. CASE k < attemptOf(r)
      BY <1>1, <1>2, <2>1, <3>1 DEF RowLogged
    <3>2. CASE k = attemptOf(r)
      BY <1>0, <1>2, <1>4, <2>1, <3>2
    <3> QED
      BY <1>1, <3>1, <3>2
  <2>5. \A i \in answers(r) : log'[i].attempt \in Nat /\ log'[i].attempt < attemptOf(r)
    <3>1. \A i \in answers(r) : log[i] \in LogEntry /\ log[i].attempt < attemptOf(r)
      BY <1>1 DEF RowLogged
    <3> QED
      BY <1>1, <1>2, <3>1 DEF LogEntry
  <2>6. \A i \in answers(r)' : log'[i].attempt < attemptOf(r)'
    BY <1>0, <1>1, <1>2, <1>4, <2>1, <2>5
  <2>7. \A i, k \in answers(r)' : i < k =>
           log'[i].attempt < log'[k].attempt /\ \E j \in requests(r)' : i < j /\ j < k
    <3> SUFFICES ASSUME NEW i \in answers(r)', NEW k \in answers(r)', i < k
                 PROVE  log'[i].attempt < log'[k].attempt /\ \E j \in requests(r)' : i < j /\ j < k
      OBVIOUS
    <3>1. i \in answers(r)
      BY <1>1, <1>2, <2>1
    <3>2. CASE k \in answers(r)
      BY <1>1, <1>2, <3>1, <3>2 DEF RowLogged
    <3>3. CASE k = n
      BY <1>0, <1>2, <1>4, <2>2, <2>3, <2>5, <3>1, <3>3
    <3> QED
      BY <2>1, <3>2, <3>3
  <2> QED
    BY <1>2, <1>3, <1>4, <2>2, <2>4, <2>6, <2>7 DEF RowLogged
<1>5. CASE r # row
  <2>1. attemptOf(r)' = attemptOf(r) /\ answers(r)' = answers(r)
    BY <1>2, <1>5
  <2>2. unanswered(r)' <=> unanswered(r)
    BY <1>2, <2>1 DEF unanswered
  <2>3. unanswered(r) => latestRequest(r) \in DOMAIN log
    BY <1>1 DEF RowLogged, unanswered
  <2>4. /\ \A m \in Nat : m < attemptOf(r)' => \E i \in answers(r)' : log'[i].attempt = m
        /\ \A i \in answers(r)' : log'[i].attempt < attemptOf(r)'
        /\ \A i, m \in answers(r)' : i < m =>
              log'[i].attempt < log'[m].attempt /\ \E j \in requests(r)' : i < j /\ j < m
    BY <1>2, <2>1, SameAnswers
  <2> QED
    BY <1>2, <1>3, <1>5, <2>1, <2>2, <2>3, <2>4 DEF RowLogged
<1> QED
  BY <1>3, <1>4, <1>5

\* Types the arithmetic of ids needs.
LEMMA IdTypes ==
  ASSUME SetupType
  PROVE  /\ lastId \in Nat
         /\ \A a \in Accounts : a \in Account /\ a.id \in Nat \ {0} /\ a.row \in Rows
         /\ \A m \in made : m \in Made /\ m.id \in Nat \ {0} /\ m.row \in Rows /\ m.attempt \in Nat
         /\ \A i \in DOMAIN log : i \in Nat /\ log[i] \in LogEntry /\ log[i].id \in Nat
                                  /\ log[i].row \in Rows /\ log[i].attempt \in Nat
<1>1. lastId \in Nat
  BY FS_CardinalityType DEF SetupType, lastId
<1>2. \A a \in Accounts : a \in Account
  <2> SUFFICES ASSUME NEW a \in Accounts PROVE a \in Account
    OBVIOUS
  <2>1. CASE a \in chart
    BY <2>1 DEF SetupType
  <2>2. ASSUME NEW u \in Members, a \in press[u].seen
        PROVE  a \in Account
    <3>1. press[u] \in PressType
      BY DEF SetupType
    <3>2. press[u].seen \subseteq Account
      BY <3>1 DEF PressType
    <3> QED
      BY <2>2, <3>2
  <2> QED
    BY <2>1, <2>2 DEF Accounts
<1>3. \A a \in Accounts : a.id \in Nat \ {0} /\ a.row \in Rows
  BY <1>2 DEF Account
<1>4. \A m \in made : m \in Made /\ m.id \in Nat \ {0} /\ m.row \in Rows /\ m.attempt \in Nat
  BY DEF SetupType, Made
<1>5. \A i \in DOMAIN log : i \in Nat /\ log[i] \in LogEntry
  BY DEF SetupType
<1>6. \A i \in DOMAIN log : log[i].id \in Nat /\ log[i].row \in Rows /\ log[i].attempt \in Nat
  BY <1>5 DEF LogEntry
<1> QED
  BY <1>1, <1>2, <1>3, <1>4, <1>5, <1>6

\* Accounts come and go under ids of their own, and nothing is written in the log.
LEMMA BooksMove ==
  ASSUME SetupInv, log' = log, NEW fresh,
         \A a \in Accounts' : \/ \E b \in Accounts : b.id = a.id /\ b.row = a.row
                              \/ a.id = lastId + 1 /\ a.row = fresh,
         \A m \in made' : m \in made \/ (m.id = lastId + 1 /\ m.row = fresh),
         \/ lastId' = lastId + 1
         \/ /\ lastId' = lastId
            /\ \A a \in Accounts' : a.id <= lastId
            /\ made' = made,
         \A a, b \in chart' : a.id = b.id => a = b,
         \A m, n \in made' : m.row = n.row /\ m.attempt = n.attempt => m = n
  PROVE  IdsAgree' /\ MadeOnce' /\ RecordedOnce' /\ NoneAfter' /\ \A row \in Rows : RowLogged(row)'
<1>1. /\ lastId \in Nat
      /\ \A a \in Accounts : a.id \in Nat
      /\ \A m \in made : m.id \in Nat
      /\ \A i \in DOMAIN log : log[i].id \in Nat
  BY IdTypes DEF SetupInv
<1>2. /\ \A a \in Accounts : a.id <= lastId
      /\ \A m \in made : m.id <= lastId
      /\ \A i \in DOMAIN log : log[i].id <= lastId
      /\ \A a, b \in Accounts : a.id = b.id => a.row = b.row
      /\ \A m, n \in made : m.id = n.id => m.row = n.row
      /\ \A a \in Accounts, m \in made : a.id = m.id => a.row = m.row
      /\ \A i \in DOMAIN log, a \in Accounts : log[i].id = a.id => log[i].row = a.row
      /\ \A i \in DOMAIN log, m \in made : log[i].id = m.id => log[i].row = m.row
  BY DEF SetupInv, IdsAgree
<1>3. /\ \A a \in Accounts' : a.id <= lastId'
      /\ \A m \in made' : m.id <= lastId'
      /\ \A i \in DOMAIN log : log[i].id <= lastId'
  BY <1>1, <1>2
<1>4. /\ \A a, b \in Accounts' : a.id = b.id => a.row = b.row
      /\ \A m, n \in made' : m.id = n.id => m.row = n.row
      /\ \A a \in Accounts', m \in made' : a.id = m.id => a.row = m.row
  BY <1>1, <1>2
<1>5. /\ \A i \in DOMAIN log, a \in Accounts' : log[i].id = a.id => log[i].row = a.row
      /\ \A i \in DOMAIN log, m \in made' : log[i].id = m.id => log[i].row = m.row
  BY <1>1, <1>2
<1>6. IdsAgree'
  BY <1>3, <1>4, <1>5 DEF IdsAgree
<1>7. \A row : /\ requests(row)' = requests(row) /\ answers(row)' = answers(row)
               /\ attemptOf(row)' = attemptOf(row) /\ recorded(row)' = recorded(row)
               /\ latestRequest(row)' = latestRequest(row)
               /\ unanswered(row)' <=> unanswered(row)
  BY SameLog
<1>8. MadeOnce'
  <2>1. \A m \in made' : m.id \in recorded(m.row) => m.attempt < attemptOf(m.row)
    <3> SUFFICES ASSUME NEW m \in made', m.id \in recorded(m.row)
                 PROVE  m.attempt < attemptOf(m.row)
      OBVIOUS
    <3>1. PICK i \in DOMAIN log : log[i].id = m.id
      BY LogSets DEF recorded, SetupInv, SetupType
    <3>2. m \in made
      BY <1>1, <1>2, <3>1
    <3> QED
      BY <3>2 DEF SetupInv, MadeOnce
  <2> QED
    BY <1>7, <2>1 DEF MadeOnce
<1>9. RecordedOnce'
  BY DEF SetupInv, RecordedOnce
<1>10. NoneAfter'
  <2> SUFFICES ASSUME NEW a \in Accounts', NEW i \in DOMAIN log, log[i].id = a.id,
                      NEW j \in requests(a.row)
               PROVE  j < i
    BY <1>7 DEF NoneAfter
  <2>1. PICK b \in Accounts : b.id = a.id /\ b.row = a.row
    BY <1>1, <1>2
  <2> QED
    BY <2>1 DEF SetupInv, NoneAfter
<1>11. \A row \in Rows : RowLogged(row)'
  BY <1>7 DEF SetupInv, RowLogged
<1> QED
  BY <1>6, <1>8, <1>9, <1>10, <1>11

\* What a press knows outlives what others do to the chart.
LEMMA KnowsStays ==
  ASSUME SetupInv, log' = log, made \subseteq made', NEW p, PressKnows(p),
         \A a \in chart' : a.id = lastId + 1 \/ \E b \in chart : b.id = a.id
  PROVE  PressKnows(p)'
<1>1. lastId \in Nat /\ \A i \in DOMAIN log : log[i].id \in Nat /\ log[i].id <= lastId
  BY IdTypes DEF SetupInv, IdsAgree
<1>2. \A row : /\ requests(row)' = requests(row) /\ answers(row)' = answers(row)
               /\ attemptOf(row)' = attemptOf(row) /\ recorded(row)' = recorded(row)
               /\ unanswered(row)' <=> unanswered(row)
  BY SameLog
<1>3. ASSUME p.pc = "settle", NEW a \in chart', NEW i \in DOMAIN log, log[i].id = a.id
      PROVE  \E b \in p.seen : b.id = a.id
  <2>1. PICK c \in chart : c.id = a.id
    BY <1>1, <1>3
  <2> QED
    BY <1>3, <2>1 DEF PressKnows
<1>4. ASSUME p.pc \in Working \cup {"next"}, NEW row \in p.todo, NEW a \in chart',
             a.id \in recorded(row)
      PROVE  FALSE
  <2>1. PICK i \in DOMAIN log : log[i].id = a.id
    BY <1>4, LogSets DEF recorded, SetupInv, SetupType
  <2>2. PICK c \in chart : c.id = a.id
    BY <1>1, <2>1
  <2> QED
    BY <1>4, <2>2 DEF PressKnows
<1> QED
  BY <1>2, <1>3, <1>4 DEF PressKnows

\* A step that writes nothing in the log.
LEMMA QuietStep ==
  ASSUME SetupInv, log' = log, SetupType', OnePress', NEW fresh,
         \A a \in Accounts' : \/ \E b \in Accounts : b.id = a.id /\ b.row = a.row
                              \/ a.id = lastId + 1 /\ a.row = fresh,
         \A m \in made' : m \in made \/ (m.id = lastId + 1 /\ m.row = fresh),
         \/ lastId' = lastId + 1
         \/ /\ lastId' = lastId
            /\ \A a \in Accounts' : a.id <= lastId
            /\ made' = made,
         \A a, b \in chart' : a.id = b.id => a = b,
         \A m, n \in made' : m.row = n.row /\ m.attempt = n.attempt => m = n,
         made \subseteq made',
         \A a \in chart' : a.id = lastId + 1 \/ \E b \in chart : b.id = a.id,
         \A r \in late' \cup made' : Sent(r),
         \A u \in Members : \E p : p = press'[u] /\ (PressKnows(p) \/ PressKnows(p)')
  PROVE  SetupInv'
<1>1. IdsAgree' /\ MadeOnce' /\ RecordedOnce' /\ NoneAfter' /\ \A row \in Rows : RowLogged(row)'
  BY BooksMove
<1>2. \A r \in late' \cup made' : Sent(r)'
  BY SameLog DEF Sent
<1>3. ASSUME NEW u \in Members
      PROVE  PressKnows(press[u])'
  <2>1. PICK p : p = press'[u] /\ (PressKnows(p) \/ PressKnows(p)')
    OBVIOUS
  <2>2. PressKnows(p)'
    BY <2>1, KnowsStays
  <2> QED
    BY <2>1, <2>2 DEF PressKnows
<1> QED
  BY <1>1, <1>2, <1>3 DEF SetupInv

\* A press moves, and its request may stay on its way; the books and the log are as they were.
LEMMA PressMoves ==
  ASSUME SetupInv, NEW u \in Members, NEW k \in PressType, press' = [press EXCEPT ![u] = k],
         log' = log, chart' = chart, made' = made, touches' = touches,
         \A r \in late' : r \in late \/ (r \in [row : Rows, attempt : Nat] /\ Sent(r)),
         k.pc = "idle" \/ ~at(u, "idle") \/ claimFree,
         k.seen \subseteq Accounts, PressKnows(k)
  PROVE  SetupInv'
<1>1. SetupType /\ press \in [Members -> PressType] /\ press'[u] = k
      /\ \A v \in Members \ {u} : press'[v] = press[v]
  BY DEF SetupInv, SetupType
<1>2. SetupType'
  BY <1>1 DEF SetupType
<1>3. OnePress'
  BY <1>1 DEF SetupInv, OnePress, at, claimFree
<1>4. Accounts' \subseteq Accounts
  <2> SUFFICES ASSUME NEW v \in Members, NEW a \in press'[v].seen PROVE a \in Accounts
    BY DEF Accounts
  <2> QED
    BY <1>1 DEF Accounts
<1>5. lastId' = lastId /\ \A a \in Accounts : a.id <= lastId
  BY DEF lastId, SetupInv, IdsAgree
<1>6. \A r \in late' \cup made' : Sent(r)
  BY DEF SetupInv
<1>7. \A v \in Members : PressKnows(press'[v])
  BY <1>1 DEF SetupInv
<1>8. /\ \A a, b \in chart : a.id = b.id => a = b
      /\ \A m, n \in made : m.row = n.row /\ m.attempt = n.attempt => m = n
  BY DEF SetupInv, IdsAgree, MadeOnce
<1> QED
  BY <1>2, <1>3, <1>4, <1>5, <1>6, <1>7, <1>8, QuietStep

\* A press that ended knows nothing.
LEMMA EndedKnows == NoPress \in PressType /\ PressKnows(NoPress)
                    /\ NoPress.pc = "idle" /\ NoPress.seen = {}
BY DEF NoPress, PressType, PressKnows, Working

\* A press that has not read the chart, or is done with it, has seen nothing of it.
LEMMA PressTyped ==
  ASSUME SetupInv, NEW u \in Members
  PROVE  /\ press[u] \in PressType /\ PressKnows(press[u])
         /\ press[u].want \subseteq Rows /\ press[u].seen \subseteq Account
         /\ press[u].todo \subseteq Rows /\ press[u].attempt \in Nat /\ press[u].id \in Nat
         /\ press[u].ids \subseteq Nat /\ press[u].seen \subseteq Accounts
         /\ ~at(u, "settle") => press[u].seen = {}
<1>1. press[u] \in PressType /\ PressKnows(press[u])
  BY DEF SetupInv, SetupType
<1>2. /\ press[u].want \subseteq Rows /\ press[u].seen \subseteq Account
      /\ press[u].todo \subseteq Rows /\ press[u].attempt \in Nat /\ press[u].id \in Nat
      /\ press[u].ids \subseteq Nat
  BY <1>1 DEF PressType
<1>3. press[u].seen \subseteq Accounts /\ (~at(u, "settle") => press[u].seen = {})
  BY <1>1 DEF Accounts, PressKnows, at
<1> QED
  BY <1>1, <1>2, <1>3

\* A press ends, with nothing written and nothing made.
LEMMA PressEnds ==
  ASSUME SetupInv, NEW u \in Members, ends(u), UNCHANGED <<books, log>>
  PROVE  SetupInv'
BY EndedKnows, PressMoves DEF ends, goes, books

\* The steps of a press before it plans.
LEMMA PressReads ==
  ASSUME SetupInv, NEW u \in Members,
         \/ \E want \in Choices : setUpPosting(u, want)
         \/ readConnection(u) \/ listAccounts(u)
  PROVE  SetupInv'
<1>0. /\ UNCHANGED <<books, log>>
  BY DEF setUpPosting, readConnection, listAccounts
<1>1. ASSUME NEW want \in Choices, setUpPosting(u, want)
      PROVE  SetupInv'
  <2>1. PICK k : k = [NoPress EXCEPT !.pc = "connection", !.want = want]
    OBVIOUS
  <2>2. k \in PressType /\ k.pc = "connection" /\ k.seen = {}
    BY <2>1, SetupAssumption DEF NoPress, PressType
  <2>3. PressKnows(k)
    BY <2>2 DEF PressKnows, Working
  <2> QED
    BY <1>0, <1>1, <2>1, <2>2, <2>3, PressMoves DEF setUpPosting, goes, books
<1>2. CASE readConnection(u)
  <2>1. CASE ends(u)
    BY <1>0, <2>1, PressEnds
  <2>2. ASSUME NEW k, k = [press[u] EXCEPT !.pc = "chart"], goes(u, k)
        PROVE  SetupInv'
    <3>1. k \in PressType /\ k.pc = "chart" /\ k.seen = {}
      BY <1>2, <2>2, PressTyped DEF readConnection, at, PressType
    <3>2. PressKnows(k)
      BY <3>1 DEF PressKnows, Working
    <3> QED
      BY <1>0, <1>2, <2>2, <3>1, <3>2, PressMoves DEF readConnection, at, goes, books
  <2> QED
    BY <1>2, <2>1, <2>2 DEF readConnection
<1>3. CASE listAccounts(u)
  <2>1. PICK k : k = [press[u] EXCEPT !.pc = "settle", !.seen = chart]
    OBVIOUS
  <2>2. k \in PressType /\ k.pc = "settle" /\ k.seen = chart
    BY <2>1, PressTyped DEF PressType, SetupInv, SetupType
  <2>3. PressKnows(k)
    BY <2>2 DEF PressKnows, Working
  <2> QED
    BY <1>0, <1>3, <2>1, <2>2, <2>3, PressMoves DEF listAccounts, at, goes, books, Accounts
<1> QED
  BY <1>1, <1>2, <1>3

\* planPostingSetup: of a row that is to be made, no recorded account is in the chart.
LEMMA PressPlans ==
  ASSUME SetupInv, NEW u \in Members, planPostingSetup(u)
  PROVE  SetupInv'
<1>0. at(u, "settle") /\ UNCHANGED <<books, log>>
  BY DEF planPostingSetup
<1>1. CASE ends(u)
  BY <1>0, <1>1, PressEnds
<1>2. CASE ~ends(u)
  <2> DEFINE kept == UNION {reusable(u, row) : row \in press[u].want}
             left == {row \in press[u].want : holders(u, row) = {}}
             got == {a.id : a \in kept}
  <2>1. PICK k : k = [press[u] EXCEPT !.pc = "next", !.seen = {}, !.todo = left, !.ids = got]
    OBVIOUS
  <2>2. goes(u, k) /\ \A row \in press[u].want : ~renamed(u, row)
    BY <1>2, <2>1, Zenon DEF planPostingSetup
  <2>3. press[u] \in PressType /\ press[u].want \subseteq Rows /\ press[u].seen \subseteq Account
        /\ PressKnows(press[u])
    BY PressTyped
  <2>4. left \subseteq Rows
    BY <2>3
  <2>5. got \subseteq Nat
    <3>1. kept \subseteq Account
      BY <2>3 DEF reusable, holders, seenOf
    <3>2. \A a \in kept : a.id \in Nat
      BY <3>1 DEF Account
    <3> QED
      BY <3>2
  <2> HIDE DEF got
  <2>6. ASSUME NEW row \in left, NEW a \in chart
        PROVE  a.id \notin recorded(row)
    <3> SUFFICES ASSUME a.id \in recorded(row) PROVE FALSE
      OBVIOUS
    <3>1. PICK i \in DOMAIN log : log[i].id = a.id
      BY LogSets DEF recorded, SetupInv, SetupType
    <3>2. PICK b \in press[u].seen : b.id = a.id
      BY <1>0, <2>3, <3>1 DEF PressKnows, at
    <3> QED
      BY <2>2, <2>6, <3>2 DEF renamed
  <2> HIDE DEF left
  <2>7. k \in PressType /\ k.pc = "next" /\ k.seen = {} /\ k.todo = left
    BY <2>1, <2>3, <2>4, <2>5 DEF PressType
  <2>8. PressKnows(k)
    BY <2>6, <2>7 DEF PressKnows, Working
  <2> QED
    BY <1>0, <2>2, <2>7, <2>8, PressMoves DEF goes, books, at
<1> QED
  BY <1>1, <1>2

\* The steps of a press that read back and save, and the ways it ends.
LEMMA PressFinishes ==
  ASSUME SetupInv, NEW u \in Members,
         \/ readBack(u) \/ saveAccountMap(u) \/ setPostingEnabled(u)
         \/ ownerRequired(u) \/ pressCutOff(u) \/ answerLost(u)
  PROVE  SetupInv'
<1>0. press[u] \in PressType /\ PressKnows(press[u]) /\ (~at(u, "settle") => press[u].seen = {})
  BY PressTyped
<1>1. CASE readBack(u)
  <2>0. UNCHANGED <<books, log>> /\ at(u, "read back")
    BY <1>1 DEF readBack
  <2>1. CASE ends(u)
    BY <2>0, <2>1, PressEnds
  <2>2. ASSUME NEW pc \in {"made", "mismatch"}, NEW k, k = [press[u] EXCEPT !.pc = pc], goes(u, k)
        PROVE  SetupInv'
    <3>1. /\ k \in PressType /\ k.pc = pc /\ k.seen = {} /\ k.todo = press[u].todo
          /\ k.id = press[u].id /\ k.attempt = press[u].attempt
      BY <1>0, <2>0, <2>2 DEF at, PressType, Working
    <3>2. PressKnows(k)
      BY <1>0, <2>0, <3>1 DEF PressKnows, Working, at
    <3> QED
      BY <2>0, <2>2, <3>1, <3>2, PressMoves DEF at, goes, books
  <2> QED
    BY <1>1, <2>1, <2>2 DEF readBack
<1>2. CASE saveAccountMap(u)
  <2>0. UNCHANGED <<books, log>> /\ at(u, "next")
    BY <1>2 DEF saveAccountMap
  <2>1. CASE ends(u)
    BY <2>0, <2>1, PressEnds
  <2>2. ASSUME NEW k, k = [press[u] EXCEPT !.pc = "switch"], goes(u, k)
        PROVE  SetupInv'
    <3>1. k \in PressType /\ k.pc = "switch" /\ k.seen = {}
      BY <1>0, <2>0, <2>2 DEF at, PressType
    <3>2. PressKnows(k)
      BY <3>1 DEF PressKnows, Working
    <3> QED
      BY <2>0, <2>2, <3>1, <3>2, PressMoves DEF at, goes, books
  <2> QED
    BY <1>2, <2>1, <2>2 DEF saveAccountMap
<1>3. CASE setPostingEnabled(u) \/ ownerRequired(u) \/ pressCutOff(u)
  BY <1>3, PressEnds DEF setPostingEnabled, ownerRequired, pressCutOff
<1>4. CASE answerLost(u)
  <2>1. PICK r : r = request(u)
    OBVIOUS
  <2>2. r.row = firstOf(press[u].todo) /\ r.attempt = press[u].attempt
    BY <2>1 DEF request, nextRow
  <2>3. r.row \in Rows /\ press[u].attempt \in Nat /\ Sent(r)
    BY <1>4, <2>2, PressTyped DEF answerLost, at, PressKnows, Working, Sent
  <2>4. r \in [row : Rows, attempt : Nat]
    BY <2>1, <2>2, <2>3 DEF request
  <2> QED
    BY <1>4, <2>1, <2>3, <2>4, EndedKnows, PressMoves DEF answerLost, ends, goes
<1> QED
  BY <1>1, <1>2, <1>3, <1>4

\* QuickBooks makes what a request asks for, under an id of its own.
LEMMA AccountMade ==
  ASSUME SetupInv, NEW r \in [row : Rows, attempt : Nat], makes(r), Sent(r), touches' = touches
  PROVE  /\ chart' \subseteq Account /\ made' \subseteq Made /\ IsFiniteSet(made')
         /\ made \subseteq made' /\ lastId' = lastId + 1
         /\ \A a \in chart' : a \in chart \/ (a.id = lastId + 1 /\ a.row = r.row)
         /\ \A m \in made' : m \in made \/ (m.id = lastId + 1 /\ m.row = r.row)
         /\ \A a, b \in chart' : a.id = b.id => a = b
         /\ \A m, n \in made' : m.row = n.row /\ m.attempt = n.attempt => m = n
         /\ \A m \in made' : Sent(m)
         /\ \E m \in made' : m.id = newId /\ m.row = r.row /\ m.attempt = r.attempt
<1>0. SetupType /\ r.row \in Rows /\ r.attempt \in Nat /\ touches \in Nat /\ IsFiniteSet(made)
      /\ chart \subseteq Account /\ made \subseteq Made /\ Cardinality(made) \in Nat
  BY FS_CardinalityType DEF SetupInv, SetupType
<1>1. newId = lastId + 1 /\ lastId \in Nat
  BY <1>0 DEF newId, lastId
<1>2. PICK a0 : a0 = [id |-> newId, row |-> r.row, look |-> "as sent"]
  OBVIOUS
<1>3. PICK m0 : m0 = [id |-> newId, row |-> r.row, attempt |-> r.attempt]
  OBVIOUS
<1>4. /\ chart' = chart \cup {a0} /\ made' = made \cup {m0} /\ known(r) = {}
  BY <1>2, <1>3 DEF makes
<1>5. a0 \in Account /\ a0.id = lastId + 1 /\ a0.row = r.row
  <2>1. newId \in Nat \ {0} /\ "as sent" \in Looks
    BY <1>1 DEF Looks, HolderLooks
  <2> QED
    BY <1>0, <1>1, <1>2, <2>1 DEF Account
<1>6. m0 \in Made /\ m0.id = lastId + 1 /\ m0.row = r.row /\ m0.attempt = r.attempt
  BY <1>0, <1>1, <1>3 DEF Made
<1>7. /\ \A a \in chart : a.id \in Nat /\ a.id <= lastId
      /\ \A m \in made : m.id \in Nat /\ m.id <= lastId
      /\ \A a, b \in chart : a.id = b.id => a = b
      /\ \A m, n \in made : m.row = n.row /\ m.attempt = n.attempt => m = n
      /\ \A m \in made : Sent(m)
  BY <1>0, IdTypes DEF SetupInv, IdsAgree, MadeOnce, Accounts
<1>8. m0 \notin made
  BY <1>1, <1>6, <1>7
<1>9. IsFiniteSet(made') /\ lastId' = lastId + 1
  <2>1. IsFiniteSet(made') /\ Cardinality(made') = Cardinality(made) + 1
    BY <1>0, <1>4, <1>8, FS_AddElement
  <2> QED
    BY <1>0, <2>1 DEF lastId
<1>10. \A m, n \in made' : m.row = n.row /\ m.attempt = n.attempt => m = n
  BY <1>4, <1>6, <1>7 DEF known
<1>11. \A a, b \in chart' : a.id = b.id => a = b
  BY <1>1, <1>4, <1>5, <1>7
<1>12. \A m \in made' : Sent(m)
  BY <1>4, <1>6, <1>7 DEF Sent
<1> QED
  BY <1>0, <1>1, <1>4, <1>5, <1>6, <1>9, <1>10, <1>11, <1>12

\* The POST, made, answered from what was made before, or refused.
LEMMA PressPosts ==
  ASSUME SetupInv, NEW u \in Members, createAccount(u)
  PROVE  SetupInv'
<1>0. /\ at(u, "send") /\ log' = log /\ touches' = touches /\ late' \subseteq late
  BY DEF createAccount
<1>1. PICK r : r = request(u)
  OBVIOUS
<1>2. /\ press[u] \in PressType /\ PressKnows(press[u]) /\ press[u].seen = {}
      /\ press[u].todo \subseteq Rows /\ press[u].attempt \in Nat
  BY <1>0, PressTyped DEF at
<1>3. /\ r.row = firstOf(press[u].todo) /\ r.attempt = press[u].attempt
      /\ r.row \in press[u].todo /\ r.row \in Rows
      /\ unanswered(r.row) /\ press[u].attempt = attemptOf(r.row)
  <2>1. r.row = firstOf(press[u].todo) /\ r.attempt = press[u].attempt
    BY <1>1 DEF request, nextRow
  <2> QED
    BY <1>0, <1>2, <2>1 DEF at, PressKnows, Working
<1>4. r \in [row : Rows, attempt : Nat] /\ Sent(r)
  BY <1>1, <1>2, <1>3 DEF request, Sent
<1>5. ASSUME makes(r), NEW k, k = [press[u] EXCEPT !.pc = "read back", !.id = newId], goes(u, k)
      PROVE  SetupInv'
  <2>1. /\ chart' \subseteq Account /\ made' \subseteq Made /\ IsFiniteSet(made')
        /\ made \subseteq made' /\ lastId' = lastId + 1
        /\ \A a \in chart' : a \in chart \/ (a.id = lastId + 1 /\ a.row = r.row)
        /\ \A m \in made' : m \in made \/ (m.id = lastId + 1 /\ m.row = r.row)
        /\ \A a, b \in chart' : a.id = b.id => a = b
        /\ \A m, n \in made' : m.row = n.row /\ m.attempt = n.attempt => m = n
        /\ \A m \in made' : Sent(m)
        /\ \E m \in made' : m.id = newId /\ m.row = r.row /\ m.attempt = r.attempt
    BY <1>0, <1>4, <1>5, AccountMade
  <2>2. newId \in Nat
    BY FS_CardinalityType DEF newId, SetupInv, SetupType
  <2>3. /\ k \in PressType /\ k.pc = "read back" /\ k.seen = {} /\ k.todo = press[u].todo
        /\ k.id = newId /\ k.attempt = press[u].attempt
    BY <1>2, <1>5, <2>2 DEF PressType, Working
  <2>4. /\ press' = [press EXCEPT ![u] = k] /\ press \in [Members -> PressType]
    BY <1>5 DEF goes, SetupInv, SetupType
  <2>5. press'[u] = k /\ \A v \in Members \ {u} : press'[v] = press[v]
    BY <2>4
  <2>6. SetupType'
    BY <1>0, <2>1, <2>3, <2>4 DEF SetupInv, SetupType
  <2>7. OnePress'
    BY <1>0, <2>5 DEF SetupInv, OnePress, at
  <2>8. \A a \in Accounts' : a \in Accounts \/ (a.id = lastId + 1 /\ a.row = r.row)
    <3> SUFFICES ASSUME NEW a \in Accounts'
                 PROVE  a \in Accounts \/ (a.id = lastId + 1 /\ a.row = r.row)
      OBVIOUS
    <3>1. CASE a \in chart'
      BY <2>1, <3>1 DEF Accounts
    <3>2. ASSUME NEW v \in Members, a \in press'[v].seen
          PROVE  a \in Accounts
      BY <1>2, <2>3, <2>5, <3>2 DEF Accounts
    <3> QED
      BY <3>1, <3>2 DEF Accounts
  <2>9. /\ requests(r.row)' = requests(r.row) /\ attemptOf(r.row)' = attemptOf(r.row)
        /\ unanswered(r.row)' <=> unanswered(r.row)
        /\ \A row : recorded(row)' = recorded(row)
    BY <1>0, SameLog
  <2>10. PressKnows(k)'
    <3>1. \A row \in k.todo, a \in chart' : a.id \notin recorded(row)
      <4> SUFFICES ASSUME NEW row \in k.todo, NEW a \in chart', a.id \in recorded(row) PROVE FALSE
        OBVIOUS
      <4>1. PICK i \in DOMAIN log : log[i].id = a.id
        BY LogSets DEF recorded, SetupInv, SetupType
      <4>2. a.id <= lastId /\ lastId \in Nat
        BY <4>1, IdTypes DEF SetupInv, IdsAgree
      <4>3. a \in chart
        BY <2>1, <4>2
      <4> QED
        BY <1>0, <1>2, <2>3, <4>3 DEF PressKnows, at, Working
    <3> QED
      BY <1>3, <2>1, <2>3, <2>9, <3>1 DEF PressKnows, Working
  <2>11. \A v \in Members : \E p : p = press'[v] /\ (PressKnows(p) \/ PressKnows(p)')
    <3> SUFFICES ASSUME NEW v \in Members
                 PROVE  \E p : p = press'[v] /\ (PressKnows(p) \/ PressKnows(p)')
      OBVIOUS
    <3>1. CASE v = u
      BY <2>5, <2>10, <3>1
    <3>2. CASE v # u
      BY <2>5, <3>2 DEF SetupInv
    <3> QED
      BY <3>1, <3>2
  <2>12. \A q \in late' \cup made' : Sent(q)
    BY <1>0, <2>1 DEF SetupInv
  <2> QED
    BY <1>0, <2>1, <2>6, <2>7, <2>8, <2>11, <2>12, QuietStep
<1>6. ASSUME NEW m \in known(r), NEW k, k = [press[u] EXCEPT !.pc = "read back", !.id = m.id],
             goes(u, k), UNCHANGED <<chart, made>>
      PROVE  SetupInv'
  <2>1. m \in made /\ m.row = r.row /\ m.attempt = r.attempt /\ m.id \in Nat
    BY IdTypes DEF known, SetupInv
  <2>2. /\ k \in PressType /\ k.pc = "read back" /\ k.seen = {} /\ k.todo = press[u].todo
        /\ k.id = m.id /\ k.attempt = press[u].attempt
    BY <1>2, <1>6, <2>1 DEF PressType, Working
  <2>3. PressKnows(k)
    BY <1>0, <1>2, <1>3, <2>1, <2>2 DEF PressKnows, Working, at
  <2> QED
    BY <1>0, <1>6, <2>2, <2>3, PressMoves DEF goes, at
<1>7. CASE ends(u) /\ UNCHANGED <<chart, made>>
  BY <1>0, <1>7, EndedKnows, PressMoves DEF ends, goes
<1> QED
  BY <1>1, <1>5, <1>6, <1>7 DEF createAccount

\* What happens to the chart beside the presses: a late request arrives, the accountant works.
LEMMA ChartMoves ==
  ASSUME SetupInv, log' = log, press' = press, NEW fresh, late' \subseteq late,
         chart' \subseteq Account, made' \subseteq Made, IsFiniteSet(made'), touches' \in Nat,
         made \subseteq made', lastId' = lastId + 1,
         \A a \in chart' : \/ \E b \in chart : b.id = a.id /\ b.row = a.row
                           \/ a.id = lastId + 1 /\ a.row = fresh,
         \A m \in made' : m \in made \/ (m.id = lastId + 1 /\ m.row = fresh),
         \A a, b \in chart' : a.id = b.id => a = b,
         \A m, n \in made' : m.row = n.row /\ m.attempt = n.attempt => m = n,
         \A m \in made' : Sent(m)
  PROVE  SetupInv'
<1>1. SetupType' /\ OnePress'
  BY DEF SetupInv, SetupType, OnePress, at
<1>2. \A a \in Accounts' : \/ \E b \in Accounts : b.id = a.id /\ b.row = a.row
                           \/ a.id = lastId + 1 /\ a.row = fresh
  BY DEF Accounts
<1>3. \A q \in late' \cup made' : Sent(q)
  BY DEF SetupInv
<1>4. \A v \in Members : \E p : p = press'[v] /\ (PressKnows(p) \/ PressKnows(p)')
  BY DEF SetupInv
<1>5. \A a \in chart' : a.id = lastId + 1 \/ \E b \in chart : b.id = a.id
  OBVIOUS
<1> QED
  BY <1>1, <1>2, <1>3, <1>4, <1>5, QuietStep

\* Nothing of QuickBooks, the log or a press moves, save requests that come to nothing.
LEMMA SetupStays ==
  ASSUME SetupInv, UNCHANGED <<chart, made, touches, log, press>>, late' \subseteq late
  PROVE  SetupInv'
<1>1. SetupType' /\ OnePress' /\ Accounts' = Accounts /\ lastId' = lastId
  BY DEF SetupInv, SetupType, OnePress, at, Accounts, lastId
<1>2. /\ \A a \in Accounts : a.id <= lastId
      /\ \A a, b \in chart : a.id = b.id => a = b
      /\ \A m, n \in made : m.row = n.row /\ m.attempt = n.attempt => m = n
      /\ \A q \in late' \cup made' : Sent(q)
  BY DEF SetupInv, IdsAgree, MadeOnce
<1>3. \A v \in Members : \E p : p = press'[v] /\ (PressKnows(p) \/ PressKnows(p)')
  BY DEF SetupInv
<1> QED
  BY <1>1, <1>2, <1>3, QuietStep

\* The accountant's hand in the chart, and a request that arrives after its press.
LEMMA BesideStep ==
  ASSUME SetupInv, Meanwhile
  PROVE  SetupInv'
<1>0. /\ SetupType /\ chart \subseteq Account /\ made \subseteq Made /\ IsFiniteSet(made)
      /\ touches \in Nat /\ Cardinality(made) \in Nat /\ lastId \in Nat
      /\ \A a \in chart : a.id \in Nat /\ a.id <= lastId
      /\ \A a, b \in chart : a.id = b.id => a = b
      /\ \A m, n \in made : m.row = n.row /\ m.attempt = n.attempt => m = n
      /\ \A m \in made : Sent(m)
  BY IdTypes, FS_CardinalityType DEF SetupInv, SetupType, IdsAgree, MadeOnce, Accounts
<1>1. ASSUME NEW u \in Members, mapByHand(u) \/ switchByHand(u)
      PROVE  SetupInv'
  BY <1>1, SetupStays DEF mapByHand, switchByHand, books
<1>2. ASSUME NEW r \in late, lateArrives(r)
      PROVE  SetupInv'
  <2>1. r \in [row : Rows, attempt : Nat] /\ Sent(r)
    BY DEF SetupInv, SetupType
  <2>2. CASE makes(r)
    <3>1. log' = log /\ press' = press /\ touches' = touches /\ late' \subseteq late
      BY <1>2 DEF lateArrives
    <3>2. /\ chart' \subseteq Account /\ made' \subseteq Made /\ IsFiniteSet(made')
          /\ made \subseteq made' /\ lastId' = lastId + 1
          /\ \A a \in chart' : a \in chart \/ (a.id = lastId + 1 /\ a.row = r.row)
          /\ \A m \in made' : m \in made \/ (m.id = lastId + 1 /\ m.row = r.row)
          /\ \A a, b \in chart' : a.id = b.id => a = b
          /\ \A m, n \in made' : m.row = n.row /\ m.attempt = n.attempt => m = n
          /\ \A m \in made' : Sent(m)
      BY <2>1, <2>2, <3>1, AccountMade
    <3> QED
      BY <1>0, <3>1, <3>2, ChartMoves
  <2>3. CASE UNCHANGED <<chart, made>>
    BY <1>2, <2>3, SetupStays DEF lateArrives
  <2> QED
    BY <1>2, <2>2, <2>3 DEF lateArrives
<1>3. ASSUME touchesBooks, UNCHANGED <<made, late, log, press>>
      PROVE  lastId' = lastId + 1 /\ touches' \in Nat
  BY <1>0, <1>3 DEF touchesBooks, lastId
<1>4. ASSUME NEW r \in Rows, NEW look \in HolderLooks, accountantMakes(r, look)
      PROVE  SetupInv'
  <2>1. PICK a0 : a0 = [id |-> newId, row |-> r, look |-> look]
    OBVIOUS
  <2>2. a0 \in Account /\ a0.id = lastId + 1 /\ a0.row = r
    <3>1. newId = lastId + 1 /\ newId \in Nat \ {0} /\ look \in Looks
      BY <1>0, <1>4 DEF newId, lastId, Looks
    <3> QED
      BY <1>4, <2>1, <3>1 DEF Account
  <2>3. /\ chart' = chart \cup {a0} /\ touchesBooks /\ UNCHANGED <<made, late, log, press>>
    BY <1>4, <2>1 DEF accountantMakes
  <2>4. \A a, b \in chart' : a.id = b.id => a = b
    BY <1>0, <2>2, <2>3
  <2> QED
    BY <1>0, <1>3, <2>2, <2>3, <2>4, ChartMoves
<1>5. ASSUME NEW a \in chart, accountantMerges(a)
      PROVE  SetupInv'
  <2>1. chart' \subseteq chart /\ touchesBooks /\ UNCHANGED <<made, late, log, press>>
    BY <1>5 DEF accountantMerges
  <2> QED
    BY <1>0, <1>3, <2>1, ChartMoves
<1>6. ASSUME NEW a \in chart, NEW look \in Looks, accountantChanges(a, look)
      PROVE  SetupInv'
  <2>1. PICK k : k = [a EXCEPT !.look = look]
    OBVIOUS
  <2>2. k \in Account /\ k.id = a.id /\ k.row = a.row
    BY <1>0, <1>6, <2>1 DEF Account
  <2>3. /\ chart' = (chart \ {a}) \cup {k} /\ touchesBooks /\ UNCHANGED <<made, late, log, press>>
    BY <1>6, <2>1 DEF accountantChanges
  <2>4. \A b, c \in chart' : b.id = c.id => b = c
    BY <1>0, <2>2, <2>3
  <2> QED
    BY <1>0, <1>3, <2>2, <2>3, <2>4, ChartMoves
<1> QED
  BY <1>1, <1>2, <1>4, <1>5, <1>6 DEF Meanwhile

\* The claim: beside a press that is under way, the others are idle.
LEMMA OthersIdle ==
  ASSUME SetupInv, NEW u \in Members, ~at(u, "idle"), NEW v \in Members, v # u
  PROVE  press[v].pc = "idle" /\ press[v].seen = {}
<1>1. press[v].pc = "idle"
  BY DEF SetupInv, OnePress, at
<1> QED
  BY <1>1, PressTyped DEF at

\* An idle press knows nothing, whatever is written.
LEMMA IdleKnows ==
  ASSUME NEW p, p.pc = "idle", p.seen = {}
  PROVE  PressKnows(p)'
BY DEF PressKnows, Working

\* An account named in the log is named by an answer.
LEMMA NamedByAnswer ==
  ASSUME SetupInv, NEW i \in DOMAIN log, log[i].id # 0
  PROVE  i \in answers(log[i].row) /\ log[i].id \in recorded(log[i].row)
<1>1. log[i] \in LogEntry
  BY IdTypes DEF SetupInv
<1>2. i \in answers(log[i].row)
  BY <1>1 DEF answers, entriesOf, LogEntry
<1> QED
  BY <1>2 DEF recorded

\* createOne: a request is logged once no account recorded for the row is in the chart.
LEMMA PressAsks ==
  ASSUME SetupInv, NEW u \in Members, recordAccountCreateRequested(u)
  PROVE  SetupInv'
<1> DEFINE n == Len(log) + 1
<1>0. /\ at(u, "next") /\ press[u].todo # {} /\ UNCHANGED books
      /\ UNCHANGED <<chart, made, late, touches>>
  BY DEF recordAccountCreateRequested, books
<1>1. /\ press[u] \in PressType /\ PressKnows(press[u]) /\ press[u].seen = {}
      /\ press[u].todo \subseteq Rows /\ SetupType /\ log \in Seq(LogEntry)
  BY <1>0, PressTyped DEF at, SetupInv, SetupType
<1>2. PICK row : row = firstOf(press[u].todo)
  OBVIOUS
<1>3. row \in press[u].todo /\ row \in Rows
  BY <1>0, <1>1, <1>2 DEF firstOf, Rows, SETUP_ROWS
<1>4. PICK at0 : at0 = attemptOf(row)
  OBVIOUS
<1>5. at0 \in Nat /\ audit("requested", row, at0, 0) /\ audit("requested", row, attemptOf(row), 0)
  BY <1>1, <1>2, <1>4, LogSets DEF recordAccountCreateRequested, nextRow
<1>6. PICK k : k = [press[u] EXCEPT !.pc = "send", !.attempt = at0]
  OBVIOUS
<1>7. /\ press' = [press EXCEPT ![u] = k]
      /\ k \in PressType /\ k.pc = "send" /\ k.seen = {} /\ k.todo = press[u].todo
      /\ k.attempt = at0
  BY <1>1, <1>2, <1>4, <1>5, <1>6 DEF recordAccountCreateRequested, nextRow, goes, PressType, Working
<1>8. press'[u] = k /\ \A v \in Members \ {u} : press'[v] = press[v]
  BY <1>7 DEF SetupInv, SetupType
<1>9. /\ log' \in Seq(LogEntry) /\ DOMAIN log' = DOMAIN log \cup {n}
      /\ log'[n].row = row /\ log'[n].id = 0
      /\ \A i \in DOMAIN log : i \in Nat /\ i < n /\ log'[i] = log[i]
  BY <1>1, <1>3, <1>5, RequestWritten
<1>10. \A r : /\ answers(r)' = answers(r) /\ attemptOf(r)' = attemptOf(r)
              /\ recorded(r)' = recorded(r)
              /\ requests(r)' = IF r = row THEN requests(r) \cup {n} ELSE requests(r)
  BY <1>1, <1>3, <1>5, RequestWritten
<1>11. \A r \in Rows : RowLogged(r)' /\ (unanswered(r) => unanswered(r)')
  BY <1>1, <1>3, <1>5, RequestKeepsLog DEF SetupInv
<1>12. unanswered(row)'
  BY <1>1, <1>3, <1>5, RequestKeepsLog DEF SetupInv
<1> HIDE DEF n
<1>13. SetupType'
  BY <1>0, <1>1, <1>7, <1>9 DEF SetupType
<1>14. \A r \in late' \cup made' : Sent(r)'
  <2> SUFFICES ASSUME NEW r \in late \cup made PROVE Sent(r)'
    BY <1>0
  <2>1. r.row \in Rows /\ Sent(r)
    BY <1>1 DEF SetupInv, SetupType, Made
  <2> QED
    BY <1>10, <1>11, <2>1 DEF Sent
<1>15. OnePress'
  BY <1>0, <1>8 DEF SetupInv, OnePress, at
<1>16. Accounts' = chart /\ Accounts = chart
  <2>1. \A v \in Members : press[v].seen = {} /\ press'[v].seen = {}
    BY <1>0, <1>1, <1>7, <1>8, OthersIdle DEF at
  <2> QED
    BY <1>0, <2>1 DEF Accounts
<1>17. /\ lastId' = lastId /\ lastId \in Nat
       /\ \A a \in chart : a.id \in Nat \ {0} /\ a.row \in Rows
       /\ \A m \in made : m.id \in Nat \ {0}
  BY <1>0, <1>1, <1>16, IdTypes DEF lastId
<1>18. IdsAgree'
  <2>1. /\ \A a \in chart : a.id <= lastId
        /\ \A m \in made : m.id <= lastId
        /\ \A i \in DOMAIN log : log[i].id <= lastId
        /\ \A a, b \in chart : a.id = b.id => a.row = b.row /\ a = b
        /\ \A m, o \in made : m.id = o.id => m.row = o.row
        /\ \A a \in chart, m \in made : a.id = m.id => a.row = m.row
        /\ \A i \in DOMAIN log, a \in chart : log[i].id = a.id => log[i].row = a.row
        /\ \A i \in DOMAIN log, m \in made : log[i].id = m.id => log[i].row = m.row
    BY <1>16 DEF SetupInv, IdsAgree
  <2>2. /\ \A i \in DOMAIN log' : log'[i].id <= lastId
        /\ \A i \in DOMAIN log', a \in chart : log'[i].id = a.id => log'[i].row = a.row
        /\ \A i \in DOMAIN log', m \in made : log'[i].id = m.id => log'[i].row = m.row
    BY <1>9, <1>17, <2>1
  <2> QED
    BY <1>0, <1>16, <1>17, <2>1, <2>2 DEF IdsAgree
<1>19. MadeOnce'
  BY <1>0, <1>10 DEF SetupInv, MadeOnce
<1>20. RecordedOnce'
  BY <1>9 DEF SetupInv, RecordedOnce
<1>21. NoneAfter'
  <2> SUFFICES ASSUME NEW a \in chart, NEW i \in DOMAIN log', log'[i].id = a.id,
                      NEW j \in requests(a.row)'
               PROVE  j < i
    BY <1>16 DEF NoneAfter
  <2>1. i \in DOMAIN log /\ log[i].id = a.id /\ log[i].id # 0
    BY <1>9, <1>17
  <2>2. j \in requests(a.row)
    <3> SUFFICES ASSUME j \notin requests(a.row) PROVE FALSE
      OBVIOUS
    <3>1. a.row = row
      BY <1>10
    <3>2. log[i].row = row
      BY <1>16, <2>1, <3>1 DEF SetupInv, IdsAgree
    <3>3. a.id \in recorded(row)
      BY <2>1, <3>2, NamedByAnswer
    <3> QED
      BY <1>0, <1>1, <1>3, <3>3 DEF PressKnows, at
  <2> QED
    BY <1>16, <2>1, <2>2 DEF SetupInv, NoneAfter
<1>22. ASSUME NEW v \in Members
       PROVE  PressKnows(press[v])'
  <2>1. CASE v # u
    <3>1. press'[v].pc = "idle" /\ press'[v].seen = {}
      BY <1>0, <1>8, <2>1, OthersIdle DEF at
    <3> QED
      BY <3>1 DEF PressKnows, Working
  <2>2. CASE v = u
    <3>1. \A r \in k.todo, a \in chart : a.id \notin recorded(r)
      BY <1>0, <1>1, <1>7 DEF PressKnows, at
    <3> QED
      BY <1>0, <1>2, <1>3, <1>4, <1>7, <1>8, <1>10, <1>12, <2>2, <3>1 DEF PressKnows, Working
  <2> QED
    BY <2>1, <2>2
<1> QED
  BY <1>11, <1>13, <1>14, <1>15, <1>18, <1>19, <1>20, <1>21, <1>22 DEF SetupInv

\* The open request of a row is answered with an account that no answer named before.
LEMMA AnswerKeepsSetup ==
  ASSUME SetupInv, NEW what \in {"created", "found"}, NEW row \in Rows, NEW id \in Nat,
         unanswered(row), audit(what, row, log[latestRequest(row)].attempt, id),
         UNCHANGED <<chart, made, late, touches>>, press' \in [Members -> PressType], OnePress',
         Accounts' \subseteq Accounts, id <= lastId,
         \A a \in Accounts : a.id = id => a.row = row,
         \A m \in made : m.id = id => m.row = row,
         \A i \in DOMAIN log : log[i].id # id,
         \A v \in Members : PressKnows(press[v])'
  PROVE  SetupInv'
<1> DEFINE n == Len(log) + 1
<1>1. SetupType /\ log \in Seq(LogEntry) /\ RowLogged(row)
  BY DEF SetupInv, SetupType
<1>2. PICK at0 : at0 = log[latestRequest(row)].attempt
  OBVIOUS
<1>3. at0 \in Nat /\ audit(what, row, at0, id)
  BY <1>1, <1>2, LogSets DEF RowLogged
<1>4. /\ log' \in Seq(LogEntry) /\ DOMAIN log' = DOMAIN log \cup {n} /\ n \in Nat
      /\ log'[n].row = row /\ log'[n].id = id
      /\ \A i \in DOMAIN log : i \in Nat /\ i < n /\ log'[i] = log[i]
  <2>1. n \in Nat
    BY <1>1
  <2> QED
    BY <1>1, <1>3, <2>1, AnswerWritten
<1>5. \A r : /\ requests(r)' = requests(r)
             /\ attemptOf(r)' = IF r = row THEN attemptOf(r) + 1 ELSE attemptOf(r)
             /\ recorded(r)' = IF r = row THEN recorded(r) \cup {id} ELSE recorded(r)
  BY <1>1, <1>3, AnswerWritten
<1>6. \A r \in Rows : RowLogged(r)' /\ (r # row => (unanswered(r)' <=> unanswered(r)))
  BY <1>1, AnswerKeepsLog DEF SetupInv
<1>7. \A r : attemptOf(r) \in Nat /\ requests(r) \subseteq DOMAIN log
  BY <1>1, LogSets
<1> HIDE DEF n
<1>8. SetupType'
  BY <1>1, <1>4 DEF SetupType
<1>9. \A r \in late' \cup made' : Sent(r)' /\ (r.row = row => r.attempt < attemptOf(row)')
  <2> SUFFICES ASSUME NEW r \in late \cup made
               PROVE  Sent(r)' /\ (r.row = row => r.attempt < attemptOf(row)')
    OBVIOUS
  <2>1. r.row \in Rows /\ r.attempt \in Nat /\ Sent(r)
    BY <1>1 DEF SetupInv, SetupType, Made
  <2> QED
    BY <1>5, <1>6, <1>7, <2>1 DEF Sent
<1>10. lastId' = lastId
  BY DEF lastId
<1>11. IdsAgree'
  <2>1. /\ \A a \in Accounts : a.id <= lastId
        /\ \A m \in made : m.id <= lastId
        /\ \A i \in DOMAIN log : log[i].id <= lastId
        /\ \A a, b \in Accounts : a.id = b.id => a.row = b.row
        /\ \A a, b \in chart : a.id = b.id => a = b
        /\ \A m, o \in made : m.id = o.id => m.row = o.row
        /\ \A a \in Accounts, m \in made : a.id = m.id => a.row = m.row
        /\ \A i \in DOMAIN log, a \in Accounts : log[i].id = a.id => log[i].row = a.row
        /\ \A i \in DOMAIN log, m \in made : log[i].id = m.id => log[i].row = m.row
    BY DEF SetupInv, IdsAgree
  <2>2. /\ \A i \in DOMAIN log' : log'[i].id <= lastId
        /\ \A i \in DOMAIN log', a \in Accounts : log'[i].id = a.id => log'[i].row = a.row
        /\ \A i \in DOMAIN log', m \in made : log'[i].id = m.id => log'[i].row = m.row
    BY <1>4, <2>1
  <2> QED
    BY <1>10, <2>1, <2>2 DEF IdsAgree
<1>12. MadeOnce'
  <2>1. \A m \in made : m.id \in recorded(m.row)' => m.attempt < attemptOf(m.row)'
    <3> SUFFICES ASSUME NEW m \in made, m.id \in recorded(m.row)'
                 PROVE  m.attempt < attemptOf(m.row)'
      OBVIOUS
    <3>1. CASE m.row = row
      BY <1>9, <3>1
    <3>2. CASE m.row # row
      BY <1>5, <3>2 DEF SetupInv, MadeOnce
    <3> QED
      BY <3>1, <3>2
  <2> QED
    BY <2>1 DEF SetupInv, MadeOnce
<1>13. RecordedOnce'
  BY <1>4 DEF SetupInv, RecordedOnce
<1>14. NoneAfter'
  <2> SUFFICES ASSUME NEW a \in Accounts, NEW i \in DOMAIN log', log'[i].id = a.id,
                      NEW j \in requests(a.row)
               PROVE  j < i
    BY <1>5 DEF NoneAfter
  <2>1. CASE i \in DOMAIN log
    BY <1>4, <2>1 DEF SetupInv, NoneAfter
  <2>2. CASE i = n
    BY <1>4, <1>7, <2>2
  <2> QED
    BY <1>4, <2>1, <2>2
<1> QED
  BY <1>6, <1>8, <1>9, <1>11, <1>12, <1>13, <1>14 DEF SetupInv

\* settleUnanswered: the account found is one no answer named, for the request is open.
LEMMA PressSettles ==
  ASSUME SetupInv, NEW u \in Members, NEW row \in Rows, recordAccountFound(u, row)
  PROVE  SetupInv'
<1>0. at(u, "settle") /\ unanswered(row) /\ press' = press /\ UNCHANGED <<chart, made, late, touches>>
  BY DEF recordAccountFound, settleable, books
<1>1. PICK a \in press[u].seen : a.row = row /\ audit("found", row, log[latestRequest(row)].attempt, a.id)
  BY DEF recordAccountFound, asRequested, seenOf
<1>2. /\ press[u] \in PressType /\ PressKnows(press[u]) /\ a \in Accounts
      /\ SetupType /\ log \in Seq(LogEntry) /\ RowLogged(row)
  BY PressTyped DEF SetupInv, SetupType
<1>3. PICK id : id = a.id
  OBVIOUS
<1>4. id \in Nat /\ id # 0 /\ id <= lastId /\ audit("found", row, log[latestRequest(row)].attempt, id)
  BY <1>1, <1>2, <1>3, IdTypes DEF SetupInv, IdsAgree
<1>5. /\ \A b \in Accounts : b.id = id => b.row = row
      /\ \A m \in made : m.id = id => m.row = row
  BY <1>1, <1>2, <1>3 DEF SetupInv, IdsAgree
<1>6. \A i \in DOMAIN log : log[i].id # id
  <2> SUFFICES ASSUME NEW i \in DOMAIN log, log[i].id = id PROVE FALSE
    OBVIOUS
  <2>1. log[i].row = row
    BY <1>1, <1>2, <1>3 DEF SetupInv, IdsAgree
  <2>2. i \in answers(row)
    BY <1>4, <2>1, NamedByAnswer
  <2>3. latestRequest(row) \in requests(row) /\ i < latestRequest(row)
    BY <1>0, <1>2, <2>2 DEF unanswered, RowLogged
  <2>4. latestRequest(row) < i
    BY <1>1, <1>2, <1>3, <2>3 DEF SetupInv, NoneAfter
  <2>5. i \in Nat /\ latestRequest(row) \in Nat
    BY <1>2, <2>2, <2>3, LogSets
  <2> QED
    BY <2>3, <2>4, <2>5
<1>7. ASSUME NEW v \in Members
      PROVE  PressKnows(press[v])'
  <2>1. CASE v # u
    <3>1. press'[v].pc = "idle" /\ press'[v].seen = {}
      BY <1>0, <2>1, OthersIdle DEF at
    <3> QED
      BY <3>1 DEF PressKnows, Working
  <2>2. CASE v = u
    <3>1. press'[v].pc = "settle" /\ press'[v].seen = press[u].seen
      BY <1>0, <2>2 DEF at
    <3>2. PICK k \in Nat : k = log[latestRequest(row)].attempt
      BY <1>0, <1>2, LogSets DEF RowLogged
    <3>3. audit("found", row, k, id)
      BY <1>4, <3>2
    <3>4. /\ DOMAIN log' = DOMAIN log \cup {Len(log) + 1} /\ log'[Len(log) + 1].id = id
          /\ \A i \in DOMAIN log : log'[i] = log[i]
      BY <1>2, <1>4, <3>3, AnswerWritten
    <3>5. ASSUME NEW b \in chart, NEW i \in DOMAIN log', log'[i].id = b.id
          PROVE  \E c \in press[u].seen : c.id = b.id
      <4>1. CASE i \in DOMAIN log
        BY <1>0, <1>2, <3>4, <3>5, <4>1 DEF PressKnows, at
      <4>2. CASE i = Len(log) + 1
        BY <1>3, <3>4, <3>5, <4>2
      <4> QED
        BY <3>4, <4>1, <4>2
    <3> QED
      BY <1>0, <3>1, <3>5 DEF PressKnows, Working
  <2> QED
    BY <2>1, <2>2
<1>8. OnePress' /\ Accounts' = Accounts /\ press' \in [Members -> PressType]
  BY <1>0, <1>2 DEF SetupInv, SetupType, OnePress, at, Accounts
<1> QED
  BY <1>0, <1>4, <1>5, <1>6, <1>7, <1>8, AnswerKeepsSetup

\* createOne: the account a press had made is one no answer named, for it carries the row's number.
LEMMA PressRecords ==
  ASSUME SetupInv, NEW u \in Members, recordAccountCreated(u)
  PROVE  SetupInv'
<1>0. /\ press[u].pc \in {"made", "mismatch"} /\ UNCHANGED <<chart, made, late, touches>>
  BY DEF recordAccountCreated, books
<1>1. /\ press[u] \in PressType /\ PressKnows(press[u]) /\ press[u].seen = {}
      /\ press[u].todo \subseteq Rows /\ press[u].ids \subseteq Nat
      /\ SetupType /\ log \in Seq(LogEntry)
  BY <1>0, PressTyped DEF at, SetupInv, SetupType
<1>2. PICK row : row = firstOf(press[u].todo)
  OBVIOUS
<1>3. /\ row \in press[u].todo /\ row \in Rows /\ unanswered(row)
      /\ press[u].attempt = attemptOf(row)
  BY <1>0, <1>1, <1>2 DEF PressKnows, Working
<1>4. PICK m \in made : m.id = press[u].id /\ m.row = row /\ m.attempt = attemptOf(row)
  BY <1>0, <1>1, <1>2, <1>3 DEF PressKnows, Working
<1>5. PICK id : id = press[u].id
  OBVIOUS
<1>6. id \in Nat /\ id # 0 /\ id <= lastId
  BY <1>1, <1>4, <1>5, IdTypes DEF SetupInv, IdsAgree
<1>7. audit("created", row, log[latestRequest(row)].attempt, id)
  BY <1>2, <1>5 DEF recordAccountCreated, nextRow
<1>8. /\ \A b \in Accounts : b.id = id => b.row = row
      /\ \A o \in made : o.id = id => o.row = row
      /\ \A i \in DOMAIN log : log[i].id = id => log[i].row = row
  BY <1>4, <1>5 DEF SetupInv, IdsAgree
<1>9. \A i \in DOMAIN log : log[i].id # id
  <2> SUFFICES ASSUME NEW i \in DOMAIN log, log[i].id = id PROVE FALSE
    OBVIOUS
  <2>1. m.id \in recorded(row)
    BY <1>4, <1>5, <1>6, <1>8, NamedByAnswer
  <2>2. m.attempt < attemptOf(row)
    BY <1>4, <2>1 DEF SetupInv, MadeOnce
  <2>3. attemptOf(row) \in Nat
    BY <1>1, LogSets
  <2> QED
    BY <1>4, <2>2, <2>3
<1>10. \A r : r # row => recorded(r)' = recorded(r)
  <2>1. PICK k \in Nat : k = log[latestRequest(row)].attempt
    BY <1>1, <1>3, LogSets DEF SetupInv, RowLogged
  <2>2. audit("created", row, k, id)
    BY <1>7, <2>1
  <2> QED
    BY <1>1, <1>3, <1>6, <2>2, AnswerWritten
<1>11. PICK k : /\ press' = [press EXCEPT ![u] = k] /\ k \in PressType /\ k.seen = {}
                /\ \/ k.pc = "idle"
                   \/ k.pc = "next" /\ k.todo = press[u].todo \ {row}
  <2>1. CASE at(u, "made")
    <3>1. PICK k : k = [press[u] EXCEPT !.pc = "next", !.todo = press[u].todo \ {row}, !.id = 0,
                          !.attempt = 0, !.ids = press[u].ids \cup {id}]
      OBVIOUS
    <3>2. press' = [press EXCEPT ![u] = k]
      BY <1>2, <1>5, <2>1, <3>1 DEF recordAccountCreated, goes, nextRow
    <3>3. press[u].todo \ {row} \subseteq Rows /\ press[u].ids \cup {id} \subseteq Nat
      BY <1>1, <1>6
    <3>4. k \in PressType /\ k.seen = {} /\ k.pc = "next" /\ k.todo = press[u].todo \ {row}
      BY <1>1, <3>1, <3>3 DEF PressType
    <3> QED
      BY <3>2, <3>4
  <2>2. CASE ~at(u, "made")
    BY <2>2, EndedKnows DEF recordAccountCreated, goes, ends
  <2> QED
    BY <2>1, <2>2
<1>12. /\ press' \in [Members -> PressType] /\ press'[u] = k
       /\ \A v \in Members \ {u} : press'[v] = press[v] /\ press[v].pc = "idle" /\ press[v].seen = {}
  BY <1>0, <1>1, <1>11, OthersIdle DEF SetupType, at
<1>13. OnePress'
  BY <1>12 DEF OnePress, at
<1>14. Accounts' \subseteq Accounts
  BY <1>0, <1>11, <1>12 DEF Accounts
<1>15. ASSUME NEW v \in Members
       PROVE  PressKnows(press[v])'
  <2>1. CASE press'[v].pc = "idle" /\ press'[v].seen = {}
    BY <2>1 DEF PressKnows, Working
  <2>2. CASE v = u /\ k.pc = "next" /\ k.todo = press[u].todo \ {row}
    <3>1. \A r \in k.todo, a \in chart : a.id \notin recorded(r) /\ recorded(r)' = recorded(r)
      BY <1>0, <1>1, <1>10, <2>2 DEF PressKnows, Working
    <3>2. press'[v].pc = "next" /\ press'[v].seen = {} /\ press'[v].todo = k.todo /\ chart' = chart
      BY <1>0, <1>11, <1>12, <2>2
    <3>3. \A r \in press'[v].todo, a \in chart' : a.id \notin recorded(r)'
      BY <3>1, <3>2
    <3> QED
      BY <3>2, <3>3 DEF PressKnows, Working
  <2> QED
    BY <1>11, <1>12, <2>1, <2>2
<1> QED
  BY <1>0, <1>3, <1>6, <1>7, <1>8, <1>9, <1>12, <1>13, <1>14, <1>15, AnswerKeepsSetup

\* At the start nothing is logged, made or under way.
LEMMA SetupStarts == Init => SetupInv
<1> SUFFICES ASSUME Init PROVE SetupInv
  OBVIOUS
<1>1. /\ chart = {} /\ made = {} /\ late = {} /\ log = << >> /\ touches = 0
      /\ press = [u \in Members |-> NoPress]
  BY DEF Init
<1>2. SetupType
  BY <1>1, EndedKnows, FS_EmptySet DEF SetupType
<1>3. \A u \in Members : press[u] = NoPress /\ press[u].seen = {} /\ press[u].pc = "idle"
  BY <1>1, EndedKnows
<1>4. Accounts = {} /\ DOMAIN log = {}
  BY <1>1, <1>3 DEF Accounts
<1>5. \A row : requests(row) = {} /\ answers(row) = {}
  BY <1>4 DEF requests, answers, entriesOf
<1>6. \A row : attemptOf(row) = 0
  BY <1>5, FS_EmptySet DEF attemptOf
<1>7. \A row \in Rows : RowLogged(row)
  BY <1>5, <1>6 DEF RowLogged, unanswered
<1> QED
  BY <1>1, <1>2, <1>3, <1>4, <1>7, EndedKnows
  DEF SetupInv, OnePress, IdsAgree, MadeOnce, RecordedOnce, NoneAfter, at

\* Whatever a press, QuickBooks, the accountant or the team does.
LEMMA SetupStep == SetupInv /\ [Next]_vars => SetupInv'
<1> SUFFICES ASSUME SetupInv, [Next]_vars PROVE SetupInv'
  OBVIOUS
<1>1. ASSUME NEW u \in Members, Press(u)
      PROVE  SetupInv'
  BY <1>1, PressReads, PressSettles, PressPlans, PressAsks, PressPosts, PressFinishes, PressRecords
  DEF Press
<1>2. CASE Meanwhile
  BY <1>2, BesideStep
<1>3. CASE UNCHANGED <<books, log, press>>
  BY <1>3, SetupStays DEF books
<1> QED
  BY <1>1, <1>2, <1>3 DEF Next, vars

\* The log, QuickBooks and the press agree, whatever is lost, late or touched meanwhile: a
\* request carries its row's number and is open until it is answered, an account is of one row
\* and recorded by one answer, and no request follows one whose account is still there.
THEOREM SetupInvariance == Spec => []SetupInv
<1>1. Init => SetupInv
  BY SetupStarts
<1>2. SetupInv /\ [Next]_vars => SetupInv'
  BY SetupStep
<1> QED
  BY <1>1, <1>2, PTL DEF Spec

\* withSetupClaim: an account is recorded once, as created by the press that made it or as found
\* by a later one.
THEOREM AccountsRecordedOnce == Spec => []RecordedOnce
<1>1. SetupInv => RecordedOnce
  BY DEF SetupInv
<1> QED
  BY <1>1, SetupInvariance, PTL

\* createOne and settleUnanswered: what QuickBooks made for us is answered on the record, or its
\* request is the row's latest and open.
THEOREM NothingMadeIsForgotten == Spec => []MadeIsOnRecord
<1>1. ASSUME SetupInv PROVE MadeIsOnRecord
  <2> SUFFICES ASSUME NEW m \in made
               PROVE  \/ \E i \in answers(m.row) : log[i].attempt = m.attempt
                      \/ unanswered(m.row) /\ log[latestRequest(m.row)].attempt = m.attempt
    BY DEF MadeIsOnRecord
  <2>1. m.row \in Rows /\ m.attempt \in Nat /\ Sent(m) /\ RowLogged(m.row)
    BY <1>1, IdTypes DEF SetupInv
  <2> QED
    BY <2>1 DEF Sent, RowLogged
<1>2. SetupInv => MadeIsOnRecord
  BY <1>1
<1> QED
  BY <1>2, SetupInvariance, PTL

\* A later attempt of a row is made only once the account of an earlier one is gone.
LEMMA LaterMeansGone ==
  ASSUME SetupInv, NEW m \in made, NEW n \in made, m.row = n.row, m.attempt < n.attempt,
         answersForItself(m), NEW a \in chart, a.id = m.id
  PROVE  FALSE
<1>1. PICK row : row = m.row
  OBVIOUS
<1>2. /\ row \in Rows /\ m.attempt \in Nat /\ n.attempt \in Nat /\ Sent(m) /\ Sent(n)
      /\ RowLogged(row) /\ log \in Seq(LogEntry)
  BY <1>1, IdTypes DEF SetupInv, SetupType
<1>3. attemptOf(row) \in Nat /\ requests(row) \subseteq Nat /\ answers(row) \subseteq DOMAIN log
      /\ answers(row) \subseteq Nat
  BY <1>2, LogSets
<1>4. m.attempt < attemptOf(row) /\ n.attempt <= attemptOf(row)
  BY <1>1, <1>2, <1>3 DEF Sent
<1>5. PICK i \in answers(row) : log[i].attempt = m.attempt
  BY <1>2, <1>4 DEF RowLogged
<1>6. log[i].id = a.id /\ i \in DOMAIN log /\ a \in Accounts
  BY <1>1, <1>3, <1>5 DEF answersForItself, Accounts
<1>7. a.row = row
  BY <1>1, <1>6 DEF SetupInv, IdsAgree
<1>8. \A j \in requests(row) : j < i
  BY <1>6, <1>7 DEF SetupInv, NoneAfter
<1>9. CASE n.attempt = attemptOf(row)
  <2>1. unanswered(row)
    BY <1>1, <1>2, <1>3, <1>9 DEF Sent
  <2>2. latestRequest(row) \in requests(row) /\ i < latestRequest(row)
    BY <1>2, <1>5, <2>1 DEF unanswered, RowLogged
  <2> QED
    BY <1>3, <1>5, <1>8, <2>2
<1>10. CASE n.attempt < attemptOf(row)
  <2>1. PICK k \in answers(row) : log[k].attempt = n.attempt
    BY <1>2, <1>10 DEF RowLogged
  <2>2. i < k
    <3>1. i # k
      BY <1>2, <1>5, <2>1
    <3>2. CASE k < i
      BY <1>2, <1>5, <2>1, <3>2 DEF RowLogged
    <3> QED
      BY <1>3, <1>5, <2>1, <3>1, <3>2
  <2>3. PICK j \in requests(row) : i < j
    BY <1>2, <1>5, <2>1, <2>2 DEF RowLogged
  <2> QED
    BY <1>3, <1>5, <1>8, <2>3
<1> QED
  BY <1>2, <1>3, <1>4, <1>9, <1>10

\* planPostingSetup and postingSetupRequestId: a company never has two accounts that setup made
\* for one row, unless setup recorded an account of the accountant's as the answer to a request.
THEOREM NoSecondAccount == Spec => []OneAccountPerRow
<1>1. ASSUME SetupInv PROVE OneAccountPerRow
  <2> SUFFICES ASSUME NEW r \in Rows
               PROVE  Cardinality({a \in chart : a.row = r /\ \E m \in made : m.id = a.id /\ answersForItself(m)}) <= 1
    BY DEF OneAccountPerRow
  <2> DEFINE S == {a \in chart : a.row = r /\ \E m \in made : m.id = a.id /\ answersForItself(m)}
  <2>1. ASSUME NEW a \in S, NEW b \in S
        PROVE  a = b
    <3>1. PICK m \in made : m.id = a.id /\ answersForItself(m)
      OBVIOUS
    <3>2. PICK n \in made : n.id = b.id /\ answersForItself(n)
      OBVIOUS
    <3>3. a \in chart /\ b \in chart /\ a \in Accounts /\ b \in Accounts /\ a.row = b.row
      BY DEF Accounts
    <3>4. m.row = n.row /\ m.attempt \in Nat /\ n.attempt \in Nat
      BY <1>1, <3>1, <3>2, <3>3, IdTypes DEF SetupInv, IdsAgree
    <3>5. ~(m.attempt < n.attempt) /\ ~(n.attempt < m.attempt)
      BY <1>1, <3>1, <3>2, <3>3, <3>4, LaterMeansGone
    <3>6. m = n
      BY <1>1, <3>4, <3>5 DEF SetupInv, MadeOnce
    <3> QED
      BY <1>1, <3>1, <3>2, <3>3, <3>6 DEF SetupInv, IdsAgree
  <2> HIDE DEF S
  <2>2. CASE S = {}
    BY <2>2, FS_EmptySet DEF S
  <2>3. ASSUME NEW a \in S
        PROVE  Cardinality(S) <= 1
    <3>1. S = {a}
      BY <2>1, <2>3
    <3> QED
      BY <3>1, FS_Singleton
  <2> QED
    BY <2>2, <2>3 DEF S
<1>2. SetupInv => OneAccountPerRow
  BY <1>1
<1> QED
  BY <1>2, SetupInvariance, PTL

=============================================================================
