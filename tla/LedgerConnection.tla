-------------------------- MODULE LedgerConnection --------------------------
(***************************************************************************)
(* One QuickBooks company, the members who connected it, and the sign-ins  *)
(* stored for them.                                                        *)
(*                                                                         *)
(* Every call to QuickBooks loads the latest stored sign-in.  When its     *)
(* access token is about to expire, the call takes the company's lock,     *)
(* loads again, and has Intuit rotate the refresh token: Intuit honours a  *)
(* refresh token once, so the rotated one must be stored before the lock   *)
(* is let go.  Owners connect, move and disconnect the company under the   *)
(* same lock.  A sync that Intuit refuses for good turns its connection    *)
(* off (releaseDeadLedger) so that the company is not held for ever.       *)
(*                                                                         *)
(* A sync makes two calls at once over one token store, which remembers    *)
(* the row it loaded last.  Each store transaction, each answer of Intuit  *)
(* and each wait for the lock is an action; a process may die between any  *)
(* two, which frees its lock.                                              *)
(*                                                                         *)
(* What a sync does with the books it reads is LedgerDiscovery.  Left out: *)
(* the snapshot of the books, whose calls fail without a release, and      *)
(* audit rows.  A new sync of a workspace starts when the calls of the one *)
(* before have ended.                                                      *)
(***************************************************************************)
EXTENDS Naturals, Sequences, FiniteSets

CONSTANTS
    Members,     \* people who may connect the company
    Workspaces,  \* the workspaces they belong to; each runs one sync at a time
    Layouts,     \* which member may be in which workspace
    Callers,     \* other processes that call QuickBooks: a posting, a page, a setup
    People,      \* requests of owners in progress at once
    MaxAsks,     \* bound: connects and disconnects asked for
    MaxExpiries, \* bound: access tokens of an honoured sign-in that run out
    MaxFaults    \* bound: deaths, lost answers, locks waited for too long

Free == << >>
Reads == {1, 2}
Calls == (Workspaces \X Reads) \cup (Callers \X {1})
Tokens == 1..(MaxAsks + MaxExpiries)

ASSUME LedgerBounds == {MaxAsks, MaxExpiries, MaxFaults} \subseteq Nat
ASSUME LayoutsAssumption == Layouts \subseteq [Members -> Workspaces]
ASSUME HoldersDiffer == Free \notin People /\ People \cap Calls = {}

VARIABLES
    layout,    \* the workspace of each member, for the whole of a behaviour
    owners,    \* members whose role is owner
    conn,      \* accounting_connections rows: none, on, off
    creds,     \* accounting_credentials rows of each connection, by seq
    issued,    \* refresh tokens Intuit has issued
    live,      \* the ones it honours
    fresh,     \* the ones whose access token is not about to expire
    lock,      \* who holds the company's advisory lock
    job,       \* what the sync of each workspace is doing
    call,      \* what each call to QuickBooks is doing
    ask,       \* what each person's request is doing
    ended,     \* tokens Intuit stopped honouring with no successor in the store
    confirmed, \* connections whose last disconnect had its revoke confirmed
    asks, expiries, faults

intuit == <<issued, live, fresh, ended>>
counts == <<layout, asks, expiries>>
vars == <<owners, conn, creds, lock, job, call, ask, confirmed, faults, intuit, counts>>

IdleJob == [pc |-> "idle", member |-> "nobody", loaded |-> 0, dead |-> 0, error |-> "none"]
IdleCall == [pc |-> "idle", member |-> "nobody", tok |-> 0]
IdleAsk == [pc |-> "idle", member |-> "nobody", by |-> "nobody", tok |-> 0]

Init ==
    /\ layout \in Layouts /\ owners = Members
    /\ conn = [m \in Members |-> "none"] /\ creds = [m \in Members |-> << >>]
    /\ issued = 0 /\ live = {} /\ fresh = {} /\ ended = {}
    /\ lock = Free /\ confirmed = {}
    /\ job = [p \in Workspaces |-> IdleJob] /\ call = [c \in Calls |-> IdleCall]
    /\ ask = [r \in People |-> IdleAsk]
    /\ asks = 0 /\ expiries = 0 /\ faults = 0

-----------------------------------------------------------------------------
(* The store and the lock *)

hasSignIn(m) == creds[m] # << >>
latest(m) == creds[m][Len(creds[m])]
elsewhere(m) == \E n \in Members : layout[n] # layout[m] /\ conn[n] = "on"

fault == faults < MaxFaults /\ faults' = faults + 1
freeIf(held) == lock' = IF lock = held THEN Free ELSE lock

-----------------------------------------------------------------------------
(* A call to QuickBooks: QboClient.accessToken and refresh over one token store *)

member(c) == call[c].member
settled(c) == call[c].pc \in {"idle", "done", "refused", "busy", "broke"}
isSync(p) == p \in Workspaces
ends(p) ==
    /\ job' = [job EXCEPT ![p] = IdleJob]
    /\ call' = [c \in Calls |-> IF c[1] = p /\ settled(c) THEN IdleCall ELSE call[c]]

awaited(c) == isSync(c[1]) /\ job[c[1]].pc \in {"reads", "histories", "record"}

\* What a step of a call tells its job: the row that load read in the token store its calls share,
\* and how it failed. The first call of a sync to fail decides; a later one changes nothing.
tells(c, row, error) ==
    job' = IF ~awaited(c) THEN job ELSE [job EXCEPT ![c[1]] =
              IF error = "none" \/ @.error # "none" THEN [@ EXCEPT !.loaded = row]
              ELSE [@ EXCEPT !.loaded = row, !.error = error, !.pc = "record"]]

\* A call nobody waits for leaves nothing behind.
goto(c, pc) ==
    call' = [call EXCEPT ![c] =
               IF pc # "lock" /\ ~awaited(c) THEN IdleCall ELSE [@ EXCEPT !.pc = pc, !.tok = 0]]

lastRow(c) == Len(creds[member(c)])
fails(c, error) == goto(c, error) /\ tells(c, IF awaited(c) THEN job[c[1]].loaded ELSE 0, error)

\* The read itself: an access token outlives its grant or is refused with it, so either answer.
reads(c) ==
    \E answer \in {"done", "broke"} :
        goto(c, answer) /\ tells(c, lastRow(c), IF answer = "done" THEN "none" ELSE answer)

\* The first load, outside the lock.
accessToken(c) ==
    /\ call[c].pc = "load"
    /\ IF latest(member(c)) \in fresh
       THEN reads(c)
       ELSE goto(c, "lock") /\ tells(c, lastRow(c), "none")
    /\ UNCHANGED <<owners, conn, creds, lock, ask, confirmed, faults, intuit, counts>>

\* Mutant: a refresh that does not wait for the company.
WithoutTheLock(c) ==
    /\ call[c].pc = "lock"
    /\ call' = [call EXCEPT ![c].pc = "refresh", ![c].tok = latest(member(c))]
    /\ tells(c, lastRow(c), "none")
    /\ UNCHANGED <<owners, conn, creds, lock, ask, confirmed, faults, intuit, counts>>

\* The second load, under the lock: another call may have rotated the sign-in meanwhile.
withRefreshLock(c) ==
    /\ call[c].pc = "lock" /\ lock = Free
    /\ IF latest(member(c)) \in fresh
       THEN reads(c) /\ UNCHANGED lock
       ELSE /\ lock' = c
            /\ call' = [call EXCEPT ![c].pc = "refresh", ![c].tok = latest(member(c))]
            /\ tells(c, lastRow(c), "none")
    /\ UNCHANGED <<owners, conn, creds, ask, confirmed, faults, intuit, counts>>

\* lock_timeout, or no connection of the lock pool in time.
LedgerAccountBusy(c) ==
    /\ call[c].pc = "lock" /\ lock # Free
    /\ fault
    /\ fails(c, "busy")
    /\ UNCHANGED <<owners, conn, creds, lock, ask, confirmed, intuit, counts>>

\* Intuit answers with a new pair; the old refresh token is dead from here on.
refresh(c) ==
    /\ call[c].pc = "refresh" /\ call[c].tok \in live
    /\ issued' = issued + 1
    /\ live' = (live \ {call[c].tok}) \cup {issued'}
    /\ \/ /\ call' = [call EXCEPT ![c].pc = "save", ![c].tok = issued']
          /\ UNCHANGED <<lock, job, faults, ended>>
       \/ /\ fault                       \* the answer is lost
          /\ fails(c, "broke") /\ freeIf(c)
          /\ ended' = ended \cup {call[c].tok}
    /\ UNCHANGED <<owners, conn, creds, ask, confirmed, fresh, counts>>

\* 400 invalid_grant, or a refresh token past its own date.
grantRefused(c) ==
    /\ call[c].pc = "refresh" /\ call[c].tok \notin live
    /\ fails(c, "refused") /\ freeIf(c)
    /\ UNCHANGED <<owners, conn, creds, ask, confirmed, faults, intuit, counts>>

\* Mutant: the rotated pair is used and not stored.
UsedNotSaved(c) ==
    /\ call[c].pc = "save"
    /\ fresh' = fresh \cup {call[c].tok}
    /\ freeIf(c) /\ reads(c)
    /\ UNCHANGED <<owners, conn, creds, ask, confirmed, faults, issued, live, ended, counts>>

\* save appends the row under the lock; the row loaded last is still the one before it.
save(c) ==
    /\ call[c].pc = "save"
    /\ \/ /\ creds' = [creds EXCEPT ![member(c)] = Append(@, call[c].tok)]
          /\ fresh' = fresh \cup {call[c].tok}
          /\ reads(c)
          /\ UNCHANGED <<faults, ended>>
       \/ /\ fault
          /\ fails(c, "broke")
          /\ ended' = ended \cup {latest(member(c))}
          /\ UNCHANGED <<creds, fresh>>
    /\ freeIf(c)
    /\ UNCHANGED <<owners, conn, ask, confirmed, issued, live, counts>>

CallStep(c) == accessToken(c) \/ refresh(c) \/ grantRefused(c) \/ save(c)

-----------------------------------------------------------------------------
(* A posting, a page or a setup: one call over a token store of its own *)

StartCaller(p, m) ==
    /\ settled(<<p, 1>>) /\ conn[m] = "on" /\ hasSignIn(m)
    /\ call' = [call EXCEPT ![<<p, 1>>] = [pc |-> "load", member |-> m, tok |-> 0]]
    /\ UNCHANGED <<owners, conn, creds, lock, job, ask, confirmed, faults, intuit, counts>>

-----------------------------------------------------------------------------
(* A sync *)

\* syncLedgerJob to its two reads. Its event comes from the cron, which asks daily for every
\* connection that is on, from a connect, or from the queue, which runs a failed event again: at
\* any time, then. An event for a connection that is off is recorded as refused and reads nothing.
StartSync(m) ==
    LET p == layout[m] IN
    /\ job[p].pc = "idle" /\ \A k \in Reads : settled(<<p, k>>)
    /\ conn[m] = "on" /\ hasSignIn(m)
    /\ job' = [job EXCEPT ![p] = [IdleJob EXCEPT !.pc = "reads", !.member = m]]
    /\ call' = [c \in Calls |-> IF c[1] = p THEN [pc |-> "load", member |-> m, tok |-> 0] ELSE call[c]]
    /\ UNCHANGED <<owners, conn, creds, lock, ask, confirmed, faults, intuit, counts>>

\* Both reads came back: the histories of the invoices they name are one read more.
GetHistories(p) ==
    /\ job[p].pc = "reads" /\ \A k \in Reads : call[<<p, k>>].pc = "done"
    /\ job' = [job EXCEPT ![p].pc = "histories"]
    /\ call' = [call EXCEPT ![<<p, 1>>].pc = "load"]
    /\ UNCHANGED <<owners, conn, creds, lock, ask, confirmed, faults, intuit, counts>>

\* The run is recorded as completed.
SyncCompletes(p) ==
    /\ job[p].pc = "histories" /\ call[<<p, 1>>].pc = "done"
    /\ ends(p)
    /\ UNCHANGED <<owners, conn, creds, lock, ask, confirmed, faults, intuit, counts>>

\* The failure is recorded; only then does deadGrant ask the token store which row it loaded last.
RecordFailedRun(p) ==
    /\ job[p].pc = "record"
    /\ IF job[p].error = "refused"
       THEN /\ job' = [job EXCEPT ![p].pc = "release", ![p].dead = job[p].loaded]
            /\ UNCHANGED call
       ELSE ends(p)
    /\ UNCHANGED <<owners, conn, creds, lock, ask, confirmed, faults, intuit, counts>>

\* A release that cannot have the lock is logged and given up; a dead grant is not retried.
ReleaseBusy(p) ==
    /\ job[p].pc = "release" /\ lock # Free
    /\ fault
    /\ ends(p)
    /\ UNCHANGED <<owners, conn, creds, lock, ask, confirmed, intuit, counts>>

\* Mutant: a release that turns nothing off.
NeverReleases(p) ==
    /\ job[p].pc = "release" /\ lock = Free
    /\ ends(p)
    /\ UNCHANGED <<owners, conn, creds, lock, ask, confirmed, faults, intuit, counts>>

\* One transaction under the lock: the row refused must still be the latest.
releaseDeadLedger(p) ==
    LET m == job[p].member IN
    /\ job[p].pc = "release" /\ lock = Free
    /\ conn' = IF m \in owners /\ Len(creds[m]) = job[p].dead /\ conn[m] = "on"
               THEN [conn EXCEPT ![m] = "off"] ELSE conn
    /\ confirmed' = IF conn' # conn THEN confirmed \ {m} ELSE confirmed
    /\ ends(p)
    /\ UNCHANGED <<owners, creds, lock, ask, faults, intuit, counts>>

SyncStep(p) == GetHistories(p) \/ SyncCompletes(p) \/ RecordFailedRun(p)

-----------------------------------------------------------------------------
(* What owners ask for *)

mayAsk(r) == ask[r].pc = "idle" /\ asks < MaxAsks /\ asks' = asks + 1
endsAsk(r) == ask' = [ask EXCEPT ![r] = IdleAsk]

\* The callback route: Intuit gives a pair for the consent code before anything is locked.
SignIn(r, m) ==
    /\ m \in owners /\ mayAsk(r)
    /\ issued' = issued + 1 /\ live' = live \cup {issued'} /\ fresh' = fresh \cup {issued'}
    /\ ask' = [ask EXCEPT ![r] = [pc |-> "signed", member |-> m, by |-> m, tok |-> issued']]
    /\ UNCHANGED <<layout, owners, conn, creds, lock, job, call, confirmed, faults, ended, expiries>>

\* disconnectLedger finds the row: any owner of its workspace may ask.
AskDisconnect(r, m, n) ==
    /\ n \in owners /\ layout[n] = layout[m] /\ conn[m] # "none" /\ mayAsk(r)
    /\ ask' = [ask EXCEPT ![r] = [pc |-> "found", member |-> m, by |-> n, tok |-> 0]]
    /\ UNCHANGED <<layout, owners, conn, creds, lock, job, call, confirmed, faults, intuit, expiries>>

AskBusy(r) ==
    /\ ask[r].pc \in {"signed", "found"} /\ lock # Free
    /\ fault
    /\ endsAsk(r)
    /\ UNCHANGED <<owners, conn, creds, lock, job, call, confirmed, intuit, counts>>

\* planLedgerClaim and claimRow: the member's own row is turned on and the workspace's other
\* one off, unless another workspace holds the company, which the unique index refuses.
connectQboCompany(r) ==
    LET m == ask[r].member IN
    /\ ask[r].pc = "signed" /\ lock = Free
    /\ IF m \in owners /\ ~elsewhere(m)
       THEN /\ conn' = [n \in Members |-> IF n = m THEN "on"
                                         ELSE IF layout[n] = layout[m] /\ conn[n] = "on" THEN "off"
                                         ELSE conn[n]]
            /\ creds' = [creds EXCEPT ![m] = Append(@, ask[r].tok)]
            /\ confirmed' = confirmed \ {m}
       ELSE UNCHANGED <<conn, creds, confirmed>>
    /\ endsAsk(r)
    /\ UNCHANGED <<owners, lock, job, call, faults, intuit, counts>>

disconnectLedger(r) ==
    LET m == ask[r].member IN
    /\ ask[r].pc = "found" /\ lock = Free
    /\ IF ask[r].by \in owners /\ conn[m] = "on"
       THEN /\ conn' = [conn EXCEPT ![m] = "off"]
            /\ ask' = [ask EXCEPT ![r].pc = "revoke"] /\ lock' = r
       ELSE endsAsk(r) /\ UNCHANGED <<conn, lock>>
    /\ UNCHANGED <<owners, creds, job, call, confirmed, faults, intuit, counts>>

\* Mutant: the sign-in to revoke is the one the connection began with.
RevokeFirst(r) ==
    LET m == ask[r].member
        t == creds[m][1] IN
    /\ ask[r].pc = "revoke"
    /\ live' = live \ {t} /\ ended' = ended \cup {t}
    /\ confirmed' = confirmed \cup {m}
    /\ endsAsk(r) /\ lock' = Free
    /\ UNCHANGED <<owners, conn, creds, job, call, issued, fresh, faults, counts>>

\* The latest sign-in is loaded under the same lock and revoked; the answer may be lost. What
\* became of it is audited before the lock is let go.
revokeToken(r) ==
    LET m == ask[r].member
        t == latest(m) IN
    /\ ask[r].pc = "revoke"
    /\ \/ /\ t \in live
          /\ live' = live \ {t} /\ ended' = ended \cup {t}
          /\ confirmed' \in {confirmed \cup {m}, confirmed}
       \/ UNCHANGED <<live, ended, confirmed>>
    /\ endsAsk(r) /\ lock' = Free
    /\ UNCHANGED <<owners, conn, creds, job, call, issued, fresh, faults, counts>>

-----------------------------------------------------------------------------
(* What happens around the system *)

\* An hour passes. A sign-in that is still honoured gets this often as the bound says.
AccessExpires(t) ==
    /\ t \in fresh
    /\ IF t \in live THEN expiries < MaxExpiries /\ expiries' = expiries + 1 ELSE UNCHANGED expiries
    /\ fresh' = fresh \ {t}
    /\ UNCHANGED <<layout, owners, conn, creds, lock, job, call, ask, confirmed, faults, issued, live,
                   ended, asks>>

\* The customer takes the app's access away in QuickBooks, or the refresh token runs out.
GrantEnds(m) ==
    /\ hasSignIn(m) /\ latest(m) \in live
    /\ fault
    /\ live' = live \ {latest(m)} /\ ended' = ended \cup {latest(m)}
    /\ UNCHANGED <<owners, conn, creds, lock, job, call, ask, confirmed, issued, fresh, counts>>

\* A change of role takes an owner's rights.
Demote(m) ==
    /\ fault
    /\ owners' = owners \ {m} /\ owners' # owners
    /\ UNCHANGED <<conn, creds, lock, job, call, ask, confirmed, intuit, counts>>

unsaved(c) == IF call[c].pc = "save" THEN {latest(member(c))} ELSE {}

\* A process dies with all its calls, and its lock with it; the queue or the cron runs a sync again.
ProcessDies(p) ==
    LET mine == {c \in Calls : c[1] = p} IN
    /\ (isSync(p) /\ job[p].pc # "idle") \/ (\E c \in mine : ~settled(c))
    /\ fault
    /\ call' = [c \in Calls |-> IF c \in mine THEN IdleCall ELSE call[c]]
    /\ lock' = IF lock \in mine THEN Free ELSE lock
    /\ ended' = ended \cup UNION {unsaved(c) : c \in mine}
    /\ job' = IF isSync(p) THEN [job EXCEPT ![p] = IdleJob] ELSE job
    /\ UNCHANGED <<owners, conn, creds, ask, confirmed, issued, live, fresh, counts>>

AskDies(r) ==
    /\ ask[r].pc # "idle"
    /\ fault
    /\ endsAsk(r) /\ freeIf(r)
    /\ UNCHANGED <<owners, conn, creds, job, call, confirmed, intuit, counts>>

Next ==
    \/ \E c \in Calls : CallStep(c) \/ withRefreshLock(c) \/ LedgerAccountBusy(c)
    \/ \E p \in Callers, m \in Members : StartCaller(p, m)
    \/ \E m \in Members : StartSync(m) \/ GrantEnds(m) \/ Demote(m)
    \/ \E p \in Workspaces : SyncStep(p) \/ releaseDeadLedger(p) \/ ReleaseBusy(p)
    \/ \E r \in People, m \in Members : SignIn(r, m)
    \/ \E r \in People, m, n \in Members : AskDisconnect(r, m, n)
    \/ \E r \in People : connectQboCompany(r) \/ disconnectLedger(r) \/ revokeToken(r) \/ AskBusy(r) \/ AskDies(r)
    \/ \E t \in Tokens : AccessExpires(t)
    \/ \E p \in Workspaces \cup Callers : ProcessDies(p)

SyncProgress ==
    \/ \E c \in Workspaces \X Reads : CallStep(c) \/ withRefreshLock(c)
    \/ \E p \in Workspaces : SyncStep(p) \/ releaseDeadLedger(p)

\* Processes keep running and time passes; the cron fires and the queue delivers, and Postgres
\* serves the waiters of an advisory lock in turn, so what is possible again and again happens.
\* Nothing is assumed of people, of faults or of what Intuit does.
Fairness ==
    /\ SF_vars(SyncProgress)
    /\ WF_vars(\E c \in Callers \X {1} : CallStep(c))
    /\ WF_vars(\E r \in People : revokeToken(r))
    /\ SF_vars(\E m \in Members : StartSync(m))
    /\ WF_vars(\E t \in Tokens \ live : AccessExpires(t))

Spec == Init /\ [][Next]_vars /\ Fairness

-----------------------------------------------------------------------------
(* Properties *)

\* QboClient.refresh under withRefreshLock: Intuit refuses a refresh only when the sign-in really
\* ended (the customer, a revoke, an answer or a save that was lost), never because another call
\* of this system spent the token first.
RefusedMeansEnded ==
    \A c \in Calls : call[c].pc = "refresh" => call[c].tok \in live \cup ended

\* credentials.save: whatever rotated it and whoever died, the sign-in stored last is one Intuit
\* honours, unless it ended, or the call that holds the lock is about to store its successor.
StoredSignInWorks ==
    \A m \in Members : hasSignIn(m) =>
        \/ latest(m) \in live \cup ended
        \/ \E c \in Calls : lock = c /\ call[c].pc = "save" /\ member(c) = m

\* disconnectLedger: after a disconnect whose revoke was confirmed, the sign-in the connection
\* stored last is not honoured, and no call holds a rotated one it could still store.  A sign-in
\* from before a reconnect may be honoured still: ADR 0039 leaves it unrevoked, and nothing loads it.
RevokedIsOver ==
    \A m \in confirmed :
        /\ latest(m) \notin live
        /\ \A c \in Calls : ~(call[c].pc = "save" /\ member(c) = m)

\* releaseDeadLedger, by the syncs the cron keeps asking for: a connection that is on and whose
\* sign-in ended is turned off in the end, or signed in again, while its member stays an owner.
DeadSignInIsLetGo ==
    \A m \in Members :
        (conn[m] = "on" /\ latest(m) \notin live)
            ~> (conn[m] # "on" \/ latest(m) \in live \/ m \notin owners)

\* connect-qbo.ts and tokens.ts say of a release that a sign-in stored since, a reconnect, is
\* never undone: no sync turns off a connection whose latest sign-in did not end.
ReconnectIsNeverUndone ==
    [][\A p \in Workspaces :
         releaseDeadLedger(p) /\ conn' # conn => latest(job[p].member) \in ended]_vars
=============================================================================
