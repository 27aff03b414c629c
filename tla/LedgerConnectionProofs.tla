----------------------- MODULE LedgerConnectionProofs -----------------------
(***************************************************************************)
(* The sign-ins of a company, for any number of members, workspaces, calls *)
(* and requests.                                                           *)
(*                                                                         *)
(* LedgerInv is the inductive invariant.  Its heart is the lock: whoever   *)
(* refreshes, saves or revokes holds it, so that the token a call has      *)
(* Intuit rotate is the one stored last, and the one it is about to store  *)
(* is honoured, stored nowhere else, and the only one that can become the  *)
(* latest.                                                                 *)
(***************************************************************************)
EXTENDS LedgerConnection, TLAPS

Working == {"refresh", "save"}
CallType == [pc : {"idle", "load", "lock", "done", "refused", "busy", "broke"} \cup Working,
             member : Members \cup {"nobody"}, tok : Nat]
AskType == [pc : {"idle", "signed", "found", "revoke"}, member : Members \cup {"nobody"},
            by : Members \cup {"nobody"}, tok : Nat]

LedgerType ==
    /\ creds \in [Members -> Seq(Nat)]
    /\ issued \in Nat /\ live \subseteq Nat
    /\ conn \in [Members -> {"none", "on", "off"}]
    /\ call \in [Calls -> CallType]
    /\ ask \in [People -> AskType]
    /\ confirmed \subseteq Members

\* Tokens are issued once, and two connections never store the same one last.
TokensDiffer ==
    /\ \A t \in live : t <= issued
    /\ \A m \in Members : hasSignIn(m) => latest(m) \in Nat /\ latest(m) <= issued
    /\ \A m, n \in Members : hasSignIn(m) /\ hasSignIn(n) /\ latest(m) = latest(n) => m = n

\* A token that is honoured and not yet any connection's latest.
New(t) == t \in live /\ \A m \in Members : hasSignIn(m) => latest(m) # t

CallKnows(c) ==
    /\ call[c].pc # "idle" => member(c) \in Members /\ hasSignIn(member(c))
    /\ call[c].pc \in Working => lock = c
    /\ call[c].pc = "refresh" => call[c].tok = latest(member(c)) /\ call[c].tok \in live \cup ended
    /\ call[c].pc = "save" => New(call[c].tok)

AskKnows(r) ==
    /\ ask[r].pc \in {"signed", "found", "revoke"} => ask[r].member \in Members
    /\ ask[r].pc = "revoke" => lock = r /\ hasSignIn(ask[r].member)
    /\ ask[r].pc = "signed" =>
          /\ New(ask[r].tok)
          /\ \A c \in Calls : call[c].pc = "save" => call[c].tok # ask[r].tok
          /\ \A q \in People : ask[q].pc = "signed" /\ ask[q].tok = ask[r].tok => q = r

LedgerInv ==
    /\ LedgerType /\ TokensDiffer
    /\ \A m \in Members : conn[m] = "on" => hasSignIn(m)
    /\ \A c \in Calls : CallKnows(c)
    /\ \A r \in People : AskKnows(r)
    /\ StoredSignInWorks
    /\ \A m \in confirmed : hasSignIn(m)
    /\ RevokedIsOver

\* The parts of a call and of a request.
LEMMA LedgerParts ==
  ASSUME LedgerInv
  PROVE  /\ \A m \in Members : creds[m] \in Seq(Nat)
         /\ \A c \in Calls : /\ call[c] \in CallType /\ call[c].tok \in Nat /\ CallKnows(c)
                             /\ call[c].member \in Members \cup {"nobody"}
         /\ \A r \in People : ask[r] \in AskType /\ ask[r].tok \in Nat /\ AskKnows(r)
<1>1. /\ \A m \in Members : creds[m] \in Seq(Nat)
      /\ \A c \in Calls : call[c] \in CallType /\ CallKnows(c)
      /\ \A r \in People : ask[r] \in AskType /\ AskKnows(r)
  BY DEF LedgerInv, LedgerType
<1>2. \A c \in Calls : call[c].tok \in Nat /\ call[c].member \in Members \cup {"nobody"}
  BY <1>1 DEF CallType
<1>3. \A r \in People : ask[r].tok \in Nat
  BY <1>1 DEF AskType
<1> QED
  BY <1>1, <1>2, <1>3

\* Nobody's lock is no call's.
LEMMA FreeIsNoCall == Free \notin Calls
<1> SUFFICES ASSUME NEW p, NEW k, Free = <<p, k>> PROVE FALSE
  BY DEF Calls
<1>1. Len(Free) = 0 /\ Len(<<p, k>>) = 2
  BY DEF Free
<1> QED
  BY <1>1

\* A step that issues and ends no token, and stores none.
LEMMA QuietStep ==
  ASSUME LedgerInv, LedgerType', UNCHANGED <<creds, issued, live>>, ended \subseteq ended',
         confirmed' \subseteq confirmed,
         \A m \in Members : conn'[m] = "on" => hasSignIn(m),
         \A c \in Calls :
            /\ call'[c].pc # "idle" => call'[c].member \in Members /\ hasSignIn(call'[c].member)
            /\ call'[c].pc \in Working => lock' = c
            /\ call'[c].pc = "refresh" => /\ call'[c].tok = latest(call'[c].member)
                                          /\ call'[c].tok \in live \cup ended'
            /\ call'[c].pc = "save" => call'[c] = call[c]
            /\ call[c].pc = "save" => call'[c] = call[c] \/ latest(member(c)) \in ended',
         \A r \in People :
            /\ ask'[r].pc \in {"signed", "found", "revoke"} => ask'[r].member \in Members
            /\ ask'[r].pc = "revoke" => lock' = r /\ hasSignIn(ask'[r].member)
            /\ ask'[r].pc = "signed" => ask'[r] = ask[r]
  PROVE  LedgerInv'
<1>1. \A m : (hasSignIn(m)' <=> hasSignIn(m)) /\ latest(m)' = latest(m)
  BY DEF hasSignIn, latest
<1>2. TokensDiffer' /\ \A t : New(t)' <=> New(t)
  BY <1>1 DEF LedgerInv, TokensDiffer, New
<1>3. ASSUME NEW c \in Calls
      PROVE  CallKnows(c)'
  <2>1. call'[c].pc = "save" => New(call'[c].tok)
    BY DEF LedgerInv, CallKnows
  <2> QED
    BY <1>1, <1>2, <2>1 DEF CallKnows, member, hasSignIn, latest
<1>4. ASSUME NEW r \in People
      PROVE  AskKnows(r)'
  <2>1. ask'[r].pc = "signed" =>
          /\ New(ask'[r].tok)
          /\ \A c \in Calls : call'[c].pc = "save" => call'[c].tok # ask'[r].tok
          /\ \A q \in People : ask'[q].pc = "signed" /\ ask'[q].tok = ask'[r].tok => q = r
    BY DEF LedgerInv, AskKnows
  <2> QED
    BY <1>1, <1>2, <2>1 DEF AskKnows, hasSignIn
<1>5. StoredSignInWorks'
  <2> SUFFICES ASSUME NEW m \in Members, hasSignIn(m), latest(m) \notin live \cup ended'
               PROVE  \E c \in Calls : lock' = c /\ call'[c].pc = "save" /\ call'[c].member = m
    BY <1>1 DEF StoredSignInWorks, member
  <2>1. PICK c \in Calls : lock = c /\ call[c].pc = "save" /\ member(c) = m
    BY DEF LedgerInv, StoredSignInWorks
  <2> QED
    BY <2>1 DEF Working, member
<1>6. (\A m \in confirmed' : hasSignIn(m)') /\ RevokedIsOver'
  <2>1. \A m \in confirmed' : hasSignIn(m) /\ latest(m) \notin live
    BY DEF LedgerInv, RevokedIsOver
  <2>2. \A m \in confirmed', c \in Calls : ~(call'[c].pc = "save" /\ call'[c].member = m)
    BY DEF LedgerInv, RevokedIsOver, member
  <2> QED
    BY <1>1, <2>1, <2>2 DEF RevokedIsOver, member
<1> QED
  BY <1>1, <1>2, <1>3, <1>4, <1>5, <1>6 DEF LedgerInv

\* Calls move on, or are let go, with the lock they held.
LEMMA CallsMove ==
  ASSUME LedgerInv, UNCHANGED <<creds, issued, live, ask>>, ended \subseteq ended',
         confirmed' \subseteq confirmed, conn' \in [Members -> {"none", "on", "off"}],
         \A m \in Members : conn'[m] = "on" => conn[m] = "on",
         call' \in [Calls -> CallType],
         \A c \in Calls :
            \/ call'[c] = call[c] /\ (lock = c => lock' = c)
            \/ /\ call'[c].pc \notin Working
               /\ call'[c].pc # "idle" => call'[c].member \in Members /\ hasSignIn(call'[c].member)
               /\ call[c].pc = "save" => latest(member(c)) \in ended',
         \A r \in People : lock = r => lock' = r
  PROVE  LedgerInv'
<1>1. LedgerType'
  BY DEF LedgerInv, LedgerType
<1>2. ASSUME NEW c \in Calls
      PROVE  /\ call'[c].pc # "idle" => call'[c].member \in Members /\ hasSignIn(call'[c].member)
             /\ call'[c].pc \in Working => lock' = c
             /\ call'[c].pc = "refresh" => /\ call'[c].tok = latest(call'[c].member)
                                           /\ call'[c].tok \in live \cup ended'
             /\ call'[c].pc = "save" => call'[c] = call[c]
             /\ call[c].pc = "save" => call'[c] = call[c] \/ latest(member(c)) \in ended'
  <2>1. CallKnows(c)
    BY DEF LedgerInv
  <2>2. CASE call'[c] = call[c] /\ (lock = c => lock' = c)
    BY <2>1, <2>2 DEF CallKnows, member
  <2>3. CASE ~(call'[c] = call[c] /\ (lock = c => lock' = c))
    BY <2>3 DEF Working
  <2> QED
    BY <2>2, <2>3
<1>3. \A r \in People :
            /\ ask'[r].pc \in {"signed", "found", "revoke"} => ask'[r].member \in Members
            /\ ask'[r].pc = "revoke" => lock' = r /\ hasSignIn(ask'[r].member)
            /\ ask'[r].pc = "signed" => ask'[r] = ask[r]
  BY DEF LedgerInv, AskKnows
<1>4. \A m \in Members : conn'[m] = "on" => hasSignIn(m)
  BY DEF LedgerInv
<1> QED
  BY <1>1, <1>2, <1>3, <1>4, QuietStep

\* Where a call goes that does not go on to refresh or save.
LEMMA CallGoes ==
  ASSUME LedgerInv, NEW c \in Calls, NEW pc \in {"lock", "done", "refused", "busy", "broke"},
         goto(c, pc)
  PROVE  /\ call' \in [Calls -> CallType]
         /\ \A d \in Calls \ {c} : call'[d] = call[d]
         /\ call'[c].pc \in {"idle", pc} /\ call'[c].pc \notin Working
         /\ call'[c].pc # "idle" => call'[c].member = member(c)
<1>1. call \in [Calls -> CallType] /\ call[c] \in CallType
  BY DEF LedgerInv, LedgerType
<1>2. PICK k : k = [call[c] EXCEPT !.pc = pc, !.tok = 0]
  OBVIOUS
<1>3. k \in CallType /\ k.pc = pc /\ k.member = call[c].member
  BY <1>1, <1>2 DEF CallType
<1>4. PICK j : j = IdleCall
  OBVIOUS
<1>5. j \in CallType /\ j.pc = "idle"
  BY <1>4 DEF CallType, IdleCall
<1>6. call' = [call EXCEPT ![c] = j] \/ call' = [call EXCEPT ![c] = k]
  BY <1>2, <1>4 DEF goto
<1> QED
  BY <1>1, <1>3, <1>5, <1>6 DEF Working, member

\* A call that fails, is refused or has its read, with no token issued, ended or stored.
LEMMA CallSettles ==
  ASSUME LedgerInv, NEW c \in Calls, call[c].pc # "idle",
         NEW pc \in {"lock", "done", "refused", "busy", "broke"}, goto(c, pc),
         UNCHANGED <<creds, issued, live, ask, conn, confirmed>>, ended \subseteq ended',
         lock' = lock \/ (lock = c /\ lock' = Free),
         call[c].pc = "save" => latest(member(c)) \in ended'
  PROVE  LedgerInv'
<1>1. /\ call' \in [Calls -> CallType]
      /\ \A d \in Calls \ {c} : call'[d] = call[d]
      /\ call'[c].pc \notin Working
      /\ call'[c].pc # "idle" => call'[c].member = member(c)
  BY CallGoes
<1>2. member(c) \in Members /\ hasSignIn(member(c))
  BY LedgerParts DEF CallKnows
<1>3. ASSUME NEW d \in Calls
      PROVE  \/ call'[d] = call[d] /\ (lock = d => lock' = d)
             \/ /\ call'[d].pc \notin Working
                /\ call'[d].pc # "idle" => call'[d].member \in Members /\ hasSignIn(call'[d].member)
                /\ call[d].pc = "save" => latest(member(d)) \in ended'
  <2>1. CASE d = c
    BY <1>1, <1>2, <2>1
  <2>2. CASE d # c
    BY <1>1, <2>2
  <2> QED
    BY <2>1, <2>2
<1>4. \A r \in People : lock = r => lock' = r
  BY HoldersDiffer
<1> QED
  BY <1>1, <1>3, <1>4, CallsMove DEF LedgerInv, LedgerType

\* The loads outside and under the lock, and the ways a call fails.
LEMMA CallLoads ==
  ASSUME LedgerInv, NEW c \in Calls,
         accessToken(c) \/ LedgerAccountBusy(c) \/ grantRefused(c)
  PROVE  LedgerInv'
<1>1. CASE accessToken(c)
  BY <1>1, CallSettles DEF accessToken, reads, intuit
<1>2. CASE LedgerAccountBusy(c)
  BY <1>2, CallSettles DEF LedgerAccountBusy, fails, intuit
<1>3. CASE grantRefused(c)
  BY <1>3, CallSettles DEF grantRefused, fails, intuit, freeIf
<1> QED
  BY <1>1, <1>2, <1>3

\* withRefreshLock: nobody else works on the company, so the token loaded is the one stored last
\* and has not been rotated.
LEMMA CallLocks ==
  ASSUME LedgerInv, NEW c \in Calls, withRefreshLock(c)
  PROVE  LedgerInv'
<1>0. /\ call[c].pc = "lock" /\ lock = Free
      /\ UNCHANGED <<creds, issued, live, ended, ask, conn, confirmed>>
  BY DEF withRefreshLock, intuit
<1>1. CASE reads(c) /\ UNCHANGED lock
  BY <1>0, <1>1, CallSettles DEF reads
<1>2. CASE lock' = c /\ call' = [call EXCEPT ![c].pc = "refresh", ![c].tok = latest(member(c))]
  <2>1. member(c) \in Members /\ hasSignIn(member(c)) /\ call \in [Calls -> CallType]
        /\ call[c] \in CallType
    BY <1>0, LedgerParts DEF CallKnows, LedgerInv, LedgerType
  <2>2. latest(member(c)) \in Nat
    BY <2>1 DEF LedgerInv, TokensDiffer
  <2>3. PICK k : k = [call[c] EXCEPT !.pc = "refresh", !.tok = latest(member(c))]
    OBVIOUS
  <2>4. /\ k \in CallType /\ k.pc = "refresh" /\ k.member = member(c)
        /\ k.tok = latest(member(c))
    BY <2>1, <2>2, <2>3 DEF CallType, Working, member
  <2>5. call' = [call EXCEPT ![c] = k]
    BY <1>2, <2>1, <2>3
  <2>6. /\ call' \in [Calls -> CallType] /\ call'[c] = k
        /\ \A d \in Calls \ {c} : call'[d] = call[d]
    BY <2>1, <2>4, <2>5
  <2>7. \A d \in Calls : call[d].pc \notin Working
    BY <1>0, FreeIsNoCall DEF LedgerInv, CallKnows
  <2>8. latest(member(c)) \in live \cup ended
    BY <1>0, <2>1, FreeIsNoCall DEF LedgerInv, StoredSignInWorks
  <2>9. LedgerType'
    BY <1>0, <2>6 DEF LedgerInv, LedgerType
  <2>10. ASSUME NEW d \in Calls
         PROVE  /\ call'[d].pc # "idle" => call'[d].member \in Members /\ hasSignIn(call'[d].member)
                /\ call'[d].pc \in Working => lock' = d
                /\ call'[d].pc = "refresh" => /\ call'[d].tok = latest(call'[d].member)
                                              /\ call'[d].tok \in live \cup ended'
                /\ call'[d].pc = "save" => call'[d] = call[d]
                /\ call[d].pc = "save" => call'[d] = call[d] \/ latest(member(d)) \in ended'
    <3>1. CASE d = c
      BY <1>0, <1>2, <2>1, <2>4, <2>6, <2>8, <3>1
    <3>2. CASE d # c
      BY <2>6, <2>7, <3>2, LedgerParts DEF CallKnows, Working, member
    <3> QED
      BY <3>1, <3>2
  <2>11. \A r \in People : ask[r].pc # "revoke"
    BY <1>0, HoldersDiffer DEF LedgerInv, AskKnows
  <2>12. \A r \in People :
            /\ ask'[r].pc \in {"signed", "found", "revoke"} => ask'[r].member \in Members
            /\ ask'[r].pc = "revoke" => lock' = r /\ hasSignIn(ask'[r].member)
            /\ ask'[r].pc = "signed" => ask'[r] = ask[r]
    BY <1>0, <2>11 DEF LedgerInv, AskKnows
  <2>13. \A m \in Members : conn'[m] = "on" => hasSignIn(m)
    BY <1>0 DEF LedgerInv
  <2> QED
    BY <1>0, <2>9, <2>10, <2>12, <2>13, QuietStep
<1> QED
  BY <1>1, <1>2 DEF withRefreshLock

\* What a sync does between its reads, and how it ends.
LEMMA SyncMoves ==
  ASSUME LedgerInv, NEW p, SyncStep(p) \/ ReleaseBusy(p) \/ releaseDeadLedger(p),
         \A k \in Reads : <<p, k>> \in Calls
  PROVE  LedgerInv'
<1>0. call \in [Calls -> CallType] /\ IdleCall \in CallType /\ IdleCall.pc = "idle"
  BY DEF LedgerInv, LedgerType, IdleCall, CallType
<1>1. ASSUME ends(p)
      PROVE  /\ call' \in [Calls -> CallType]
             /\ \A c \in Calls : \/ call'[c] = call[c]
                                 \/ call'[c].pc = "idle" /\ call[c].pc # "save"
  <2>1. call' = [c \in Calls |-> IF c[1] = p /\ settled(c) THEN IdleCall ELSE call[c]]
    BY <1>1 DEF ends
  <2> QED
    BY <1>0, <2>1 DEF settled
<1>2. ASSUME ends(p), UNCHANGED <<creds, issued, live, ask, ended, lock>>,
             confirmed' \subseteq confirmed, conn' \in [Members -> {"none", "on", "off"}],
             \A m \in Members : conn'[m] = "on" => conn[m] = "on"
      PROVE  LedgerInv'
  BY <1>1, <1>2, CallsMove DEF Working
<1>3. CASE SyncCompletes(p) \/ ReleaseBusy(p)
  BY <1>2, <1>3 DEF SyncCompletes, ReleaseBusy, intuit, LedgerInv, LedgerType
<1>4. CASE releaseDeadLedger(p)
  <2>1. /\ conn' \in [Members -> {"none", "on", "off"}] /\ confirmed' \subseteq confirmed
        /\ \A m \in Members : conn'[m] = "on" => conn[m] = "on"
    BY <1>4 DEF releaseDeadLedger, LedgerInv, LedgerType
  <2> QED
    BY <1>2, <1>4, <2>1 DEF releaseDeadLedger, intuit
<1>5. CASE RecordFailedRun(p)
  <2>1. CASE ends(p)
    BY <1>2, <1>5, <2>1 DEF RecordFailedRun, intuit, LedgerInv, LedgerType
  <2>2. CASE UNCHANGED call
    BY <1>0, <1>5, <2>2, CallsMove DEF RecordFailedRun, intuit, LedgerInv, LedgerType
  <2> QED
    BY <1>5, <2>1, <2>2 DEF RecordFailedRun
<1>6. CASE GetHistories(p)
  <2>1. PICK c \in Calls : c = <<p, 1>> /\ call[c].pc = "done"
    BY <1>6 DEF GetHistories, Reads
  <2>2. PICK k : k = [call[c] EXCEPT !.pc = "load"]
    OBVIOUS
  <2>3. k \in CallType /\ k.pc = "load" /\ k.member = member(c)
    BY <1>0, <2>2 DEF CallType, member
  <2>4. call' = [call EXCEPT ![c] = k]
    BY <1>6, <2>1, <2>2 DEF GetHistories
  <2>5. /\ call' \in [Calls -> CallType] /\ call'[c] = k
        /\ \A d \in Calls \ {c} : call'[d] = call[d]
    BY <1>0, <2>3, <2>4
  <2>6. member(c) \in Members /\ hasSignIn(member(c))
    BY <2>1, LedgerParts DEF CallKnows
  <2>7. ASSUME NEW d \in Calls
        PROVE  \/ call'[d] = call[d]
               \/ /\ call'[d].pc \notin Working
                  /\ call'[d].pc # "idle" => call'[d].member \in Members /\ hasSignIn(call'[d].member)
                  /\ call[d].pc # "save"
    BY <2>1, <2>3, <2>5, <2>6 DEF Working
  <2> QED
    BY <1>6, <2>5, <2>7, CallsMove DEF GetHistories, intuit, LedgerInv, LedgerType
<1> QED
  BY <1>3, <1>4, <1>5, <1>6 DEF SyncStep

\* A sync or another caller starts, or a process dies with its calls.
LEMMA ProcessMoves ==
  ASSUME LedgerInv,
         \/ \E m \in Members : StartSync(m)
         \/ \E p \in Callers, m \in Members : StartCaller(p, m)
         \/ \E p \in Workspaces \cup Callers : ProcessDies(p)
  PROVE  LedgerInv'
<1>0. call \in [Calls -> CallType] /\ IdleCall \in CallType /\ IdleCall.pc = "idle"
      /\ conn \in [Members -> {"none", "on", "off"}]
  BY DEF LedgerInv, LedgerType, IdleCall, CallType
<1>1. ASSUME NEW m \in Members, NEW k, k = [pc |-> "load", member |-> m, tok |-> 0]
      PROVE  k \in CallType /\ k.pc = "load" /\ k.member = m /\ k.pc \notin Working
  BY <1>1 DEF CallType, Working
<1>2. ASSUME NEW m \in Members, StartSync(m)
      PROVE  LedgerInv'
  <2>1. PICK k : k = [pc |-> "load", member |-> m, tok |-> 0]
    OBVIOUS
  <2>2. PICK p : p = layout[m]
    OBVIOUS
  <2>3. /\ call' = [c \in Calls |-> IF c[1] = p THEN k ELSE call[c]]
        /\ \A j \in Reads : settled(<<p, j>>)
        /\ hasSignIn(m) /\ UNCHANGED <<creds, issued, live, ask, ended, lock, conn, confirmed>>
    BY <1>2, <2>1, <2>2 DEF StartSync, intuit
  <2>4. k \in CallType /\ k.pc = "load" /\ k.member = m /\ k.pc \notin Working
    BY <1>1, <2>1
  <2>5. ASSUME NEW c \in Calls, c[1] = p
        PROVE  call[c].pc # "save"
    <3>1. c = <<c[1], c[2]>> /\ c[2] \in Reads
      BY DEF Calls, Reads
    <3> QED
      BY <2>3, <2>5, <3>1 DEF settled
  <2>6. call' \in [Calls -> CallType]
    BY <1>0, <2>3, <2>4
  <2>7. \A c \in Calls : \/ call'[c] = call[c]
                         \/ call'[c] = k /\ call[c].pc # "save"
    BY <2>3, <2>5
  <2> QED
    BY <1>0, <2>3, <2>4, <2>6, <2>7, CallsMove
<1>3. ASSUME NEW p \in Callers, NEW m \in Members, StartCaller(p, m)
      PROVE  LedgerInv'
  <2>1. PICK k : k = [pc |-> "load", member |-> m, tok |-> 0]
    OBVIOUS
  <2>2. PICK c \in Calls : c = <<p, 1>>
    BY <1>3 DEF Calls
  <2>3. /\ call' = [call EXCEPT ![c] = k] /\ call[c].pc # "save"
        /\ hasSignIn(m) /\ UNCHANGED <<creds, issued, live, ask, ended, lock, conn, confirmed>>
    BY <1>3, <2>1, <2>2 DEF StartCaller, intuit, settled
  <2>4. k \in CallType /\ k.pc = "load" /\ k.member = m /\ k.pc \notin Working
    BY <1>1, <2>1
  <2>5. /\ call' \in [Calls -> CallType] /\ call'[c] = k
        /\ \A d \in Calls \ {c} : call'[d] = call[d]
    BY <1>0, <2>3, <2>4
  <2> QED
    BY <1>0, <1>3, <2>3, <2>4, <2>5, CallsMove
<1>4. ASSUME NEW p \in Workspaces \cup Callers, ProcessDies(p)
      PROVE  LedgerInv'
  <2> DEFINE mine == {c \in Calls : c[1] = p}
  <2>1. /\ call' = [c \in Calls |-> IF c \in mine THEN IdleCall ELSE call[c]]
        /\ lock' = IF lock \in mine THEN Free ELSE lock
        /\ ended' = ended \cup UNION {unsaved(c) : c \in mine}
        /\ UNCHANGED <<creds, issued, live, ask, conn, confirmed>>
    BY <1>4 DEF ProcessDies
  <2>2. mine \subseteq Calls
    OBVIOUS
  <2> HIDE DEF mine
  <2>3. \A c \in mine : call[c].pc = "save" => latest(member(c)) \in ended'
    BY <2>1 DEF unsaved
  <2>4. call' \in [Calls -> CallType]
    BY <1>0, <2>1
  <2>5. ASSUME NEW c \in Calls
        PROVE  \/ call'[c] = call[c] /\ (lock = c => lock' = c)
               \/ call'[c].pc = "idle" /\ (call[c].pc = "save" => latest(member(c)) \in ended')
    BY <1>0, <2>1, <2>3
  <2>6. \A r \in People : lock = r => lock' = r
    BY <2>1, <2>2, HoldersDiffer
  <2>7. ended \subseteq ended' /\ "idle" \notin Working
    BY <2>1 DEF Working
  <2> QED
    BY <1>0, <2>1, <2>4, <2>5, <2>6, <2>7, CallsMove
<1> QED
  BY <1>2, <1>3, <1>4

\* A request moves on, with the lock it takes or lets go; no token is touched.
LEMMA AsksMove ==
  ASSUME LedgerInv, NEW r \in People, UNCHANGED <<creds, issued, live, ended, call, confirmed>>,
         conn' \in [Members -> {"none", "on", "off"}],
         \A m \in Members : conn'[m] = "on" => conn[m] = "on",
         ask' \in [People -> AskType], \A q \in People \ {r} : ask'[q] = ask[q],
         ask'[r].pc \in {"found", "revoke"} => ask'[r].member \in Members,
         ask'[r].pc = "revoke" => lock' = r /\ hasSignIn(ask'[r].member),
         ask'[r].pc # "signed",
         \A h \in (Calls \cup People) \ {r} : lock = h => lock' = h
  PROVE  LedgerInv'
<1>1. LedgerType'
  BY DEF LedgerInv, LedgerType
<1>2. \A m \in Members : conn'[m] = "on" => hasSignIn(m)
  BY DEF LedgerInv
<1>3. ASSUME NEW d \in Calls
      PROVE  /\ call'[d].pc # "idle" => call'[d].member \in Members /\ hasSignIn(call'[d].member)
             /\ call'[d].pc \in Working => lock' = d
             /\ call'[d].pc = "refresh" => /\ call'[d].tok = latest(call'[d].member)
                                           /\ call'[d].tok \in live \cup ended'
             /\ call'[d].pc = "save" => call'[d] = call[d]
             /\ call[d].pc = "save" => call'[d] = call[d] \/ latest(member(d)) \in ended'
  <2>1. CallKnows(d) /\ d # r
    BY HoldersDiffer DEF LedgerInv
  <2> QED
    BY <2>1 DEF CallKnows, member
<1>4. ASSUME NEW q \in People
      PROVE  /\ ask'[q].pc \in {"signed", "found", "revoke"} => ask'[q].member \in Members
             /\ ask'[q].pc = "revoke" => lock' = q /\ hasSignIn(ask'[q].member)
             /\ ask'[q].pc = "signed" => ask'[q] = ask[q]
  BY DEF LedgerInv, AskKnows
<1> QED
  BY <1>1, <1>2, <1>3, <1>4, QuietStep

\* A request ends without having changed a sign-in.
LEMMA AskEnds ==
  ASSUME LedgerInv, NEW r \in People
  PROVE  endsAsk(r) => /\ ask' \in [People -> AskType] /\ ask'[r].pc = "idle"
                       /\ \A q \in People \ {r} : ask'[q] = ask[q]
<1>1. IdleAsk \in AskType /\ IdleAsk.pc = "idle" /\ ask \in [People -> AskType]
  BY DEF IdleAsk, AskType, LedgerInv, LedgerType
<1> QED
  BY <1>1 DEF endsAsk

\* What owners ask for and what ends it, short of a sign-in stored or revoked.
LEMMA AskMoves ==
  ASSUME LedgerInv, NEW r \in People,
         \/ \E m, n \in Members : AskDisconnect(r, m, n)
         \/ disconnectLedger(r) \/ AskBusy(r) \/ AskDies(r)
  PROVE  LedgerInv'
<1>0. ask \in [People -> AskType] /\ conn \in [Members -> {"none", "on", "off"}]
  BY DEF LedgerInv, LedgerType
<1>1. ASSUME NEW m \in Members, NEW n \in Members, AskDisconnect(r, m, n)
      PROVE  LedgerInv'
  <2>1. PICK k : k = [pc |-> "found", member |-> m, by |-> n, tok |-> 0]
    OBVIOUS
  <2>2. k \in AskType /\ k.pc = "found" /\ k.member = m
    BY <2>1 DEF AskType
  <2>3. /\ ask' = [ask EXCEPT ![r] = k]
        /\ UNCHANGED <<creds, issued, live, ended, call, confirmed, conn, lock>>
    BY <1>1, <2>1 DEF AskDisconnect, intuit
  <2>4. ask' \in [People -> AskType] /\ ask'[r] = k /\ \A q \in People \ {r} : ask'[q] = ask[q]
    BY <1>0, <2>2, <2>3
  <2> QED
    BY <1>0, <1>1, <2>2, <2>3, <2>4, AsksMove
<1>2. CASE AskBusy(r) \/ AskDies(r)
  <2>1. /\ endsAsk(r) /\ UNCHANGED <<creds, issued, live, ended, call, confirmed, conn>>
        /\ \A h \in (Calls \cup People) \ {r} : lock = h => lock' = h
    BY <1>2 DEF AskBusy, AskDies, intuit, freeIf
  <2>2. /\ ask' \in [People -> AskType] /\ ask'[r].pc = "idle"
        /\ \A q \in People \ {r} : ask'[q] = ask[q]
    BY <2>1, AskEnds
  <2> QED
    BY <1>0, <2>1, <2>2, AsksMove
<1>3. CASE disconnectLedger(r)
  <2>0. /\ UNCHANGED <<creds, issued, live, ended, call, confirmed>> /\ lock = Free
        /\ ask[r].pc = "found"
    BY <1>3 DEF disconnectLedger, intuit
  <2>1. CASE endsAsk(r) /\ UNCHANGED <<conn, lock>>
    <3>1. /\ ask' \in [People -> AskType] /\ ask'[r].pc = "idle"
          /\ \A q \in People \ {r} : ask'[q] = ask[q]
      BY <2>1, AskEnds
    <3> QED
      BY <1>0, <2>0, <2>1, <3>1, AsksMove
  <2>2. ASSUME NEW m, m = ask[r].member, conn[m] = "on", conn' = [conn EXCEPT ![m] = "off"],
               ask' = [ask EXCEPT ![r].pc = "revoke"], lock' = r
        PROVE  LedgerInv'
    <3>1. m \in Members /\ hasSignIn(m)
      BY <2>0, <2>2, LedgerParts DEF AskKnows, LedgerInv
    <3>2. PICK k : k = [ask[r] EXCEPT !.pc = "revoke"]
      OBVIOUS
    <3>3. k \in AskType /\ k.pc = "revoke" /\ k.member = m
      BY <1>0, <2>2, <3>2 DEF AskType
    <3>4. ask' \in [People -> AskType] /\ ask'[r] = k /\ \A q \in People \ {r} : ask'[q] = ask[q]
      BY <1>0, <2>2, <3>2, <3>3
    <3>5. /\ conn' \in [Members -> {"none", "on", "off"}]
          /\ \A n \in Members : conn'[n] = "on" => conn[n] = "on"
      BY <1>0, <2>2
    <3>6. \A h \in (Calls \cup People) \ {r} : lock # h
      BY <2>0, FreeIsNoCall, HoldersDiffer
    <3> QED
      BY <2>0, <2>2, <3>1, <3>3, <3>4, <3>5, <3>6, AsksMove
  <2> QED
    BY <1>3, <2>1, <2>2 DEF disconnectLedger
<1> QED
  BY <1>1, <1>2, <1>3

\* The latest sign-in of a connection ends: the customer, a revoke.
LEMMA TokenEnds ==
  ASSUME LedgerInv, NEW m \in Members, hasSignIn(m),
         live' = live \ {latest(m)}, ended' = ended \cup {latest(m)},
         UNCHANGED <<creds, issued, conn, call>>, ask' \in [People -> AskType],
         \A q \in People : ask'[q] = ask[q] \/ ask'[q].pc = "idle",
         \/ lock' = lock /\ confirmed' = confirmed
         \/ /\ \A c \in Calls : call[c].pc \notin Working
            /\ \A q \in People : ask'[q].pc # "revoke"
            /\ confirmed' \subseteq confirmed \cup {m}
  PROVE  LedgerInv'
<1>1. \A n : (hasSignIn(n)' <=> hasSignIn(n)) /\ latest(n)' = latest(n)
  BY DEF hasSignIn, latest
<1>2. LedgerType'
  BY DEF LedgerInv, LedgerType
<1>3. TokensDiffer'
  BY <1>1 DEF LedgerInv, TokensDiffer
<1>4. \A t : New(t) => New(t)'
  BY <1>1 DEF New
<1>5. ASSUME NEW c \in Calls
      PROVE  CallKnows(c)'
  <2>1. CallKnows(c)
    BY DEF LedgerInv
  <2>2. call[c].pc = "save" => New(call[c].tok)'
    BY <1>4, <2>1 DEF CallKnows
  <2>3. call[c].pc = "refresh" => call[c].tok \in live' \cup ended'
    BY <2>1 DEF CallKnows
  <2> QED
    BY <1>1, <2>1, <2>2, <2>3 DEF CallKnows, member, hasSignIn, latest
<1>6. ASSUME NEW q \in People
      PROVE  AskKnows(q)'
  <2>1. AskKnows(q)
    BY DEF LedgerInv
  <2>2. CASE ask'[q].pc = "idle"
    BY <2>2 DEF AskKnows
  <2>3. CASE ask'[q] = ask[q] /\ ask[q].pc # "idle"
    <3>0. PICK t : t = ask[q].tok
      OBVIOUS
    <3>1. ask[q].pc = "signed" =>
            /\ New(t)'
            /\ \A c \in Calls : call[c].pc = "save" => call[c].tok # t
            /\ \A o \in People : ask'[o].pc = "signed" /\ ask'[o].tok = t => o = q
      <4>1. \A o \in People : ask'[o].pc = "signed" => ask'[o] = ask[o]
        OBVIOUS
      <4> QED
        BY <1>4, <2>1, <3>0, <4>1 DEF AskKnows
    <3>2. ask'[q].pc = "revoke" => lock' = q
      BY <2>1, <2>3 DEF AskKnows
    <3> QED
      BY <1>1, <2>1, <2>3, <3>0, <3>1, <3>2 DEF AskKnows, hasSignIn
  <2> QED
    BY <2>2, <2>3
<1>7. StoredSignInWorks'
  <2> SUFFICES ASSUME NEW n \in Members, hasSignIn(n), latest(n) \notin live' \cup ended'
               PROVE  \E c \in Calls : lock' = c /\ call[c].pc = "save" /\ member(c) = n
    BY <1>1 DEF StoredSignInWorks, member
  <2>1. PICK c \in Calls : lock = c /\ call[c].pc = "save" /\ member(c) = n
    BY DEF LedgerInv, StoredSignInWorks
  <2> QED
    BY <2>1 DEF Working
<1>8. (\A n \in confirmed' : hasSignIn(n)') /\ RevokedIsOver'
  <2>1. \A n \in confirmed' : hasSignIn(n) /\ latest(n) \notin live'
    BY DEF LedgerInv, RevokedIsOver
  <2>2. \A n \in confirmed', c \in Calls : ~(call'[c].pc = "save" /\ call'[c].member = n)
    BY DEF LedgerInv, RevokedIsOver, member, Working
  <2> QED
    BY <1>1, <2>1, <2>2 DEF RevokedIsOver, member
<1>9. \A n \in Members : conn'[n] = "on" => hasSignIn(n)'
  BY <1>1 DEF LedgerInv
<1> QED
  BY <1>2, <1>3, <1>5, <1>6, <1>7, <1>8, <1>9 DEF LedgerInv

\* disconnectLedger's revoke, and the customer who takes the access away.
LEMMA SignInEnds ==
  ASSUME LedgerInv,
         \/ \E r \in People : revokeToken(r)
         \/ \E m \in Members : GrantEnds(m)
  PROVE  LedgerInv'
<1>0. ask \in [People -> AskType] /\ conn \in [Members -> {"none", "on", "off"}]
      /\ confirmed \subseteq Members
  BY DEF LedgerInv, LedgerType
<1>1. ASSUME NEW m \in Members, GrantEnds(m)
      PROVE  LedgerInv'
  BY <1>0, <1>1, TokenEnds DEF GrantEnds
<1>2. ASSUME NEW r \in People, revokeToken(r)
      PROVE  LedgerInv'
  <2>1. ask[r].pc = "revoke" /\ lock = r /\ endsAsk(r) /\ lock' = Free
        /\ UNCHANGED <<creds, issued, conn, call>>
    BY <1>2 DEF revokeToken, LedgerInv, AskKnows
  <2>2. PICK m \in Members : m = ask[r].member /\ hasSignIn(m)
    BY <2>1 DEF LedgerInv, AskKnows
  <2>3. /\ ask' \in [People -> AskType] /\ ask'[r].pc = "idle"
        /\ \A q \in People \ {r} : ask'[q] = ask[q]
    BY <2>1, AskEnds
  <2>4. \A c \in Calls : call[c].pc \notin Working
    BY <2>1, HoldersDiffer DEF LedgerInv, CallKnows
  <2>5. \A q \in People : ask'[q].pc # "revoke"
    BY <2>1, <2>3 DEF LedgerInv, AskKnows
  <2>6. CASE /\ live' = live \ {latest(m)} /\ ended' = ended \cup {latest(m)}
             /\ confirmed' \in {confirmed \cup {m}, confirmed}
    BY <2>1, <2>2, <2>3, <2>4, <2>5, <2>6, TokenEnds
  <2>7. CASE UNCHANGED <<live, ended, confirmed>>
    BY <1>0, <2>1, <2>3, <2>7, AsksMove
  <2> QED
    BY <1>2, <2>2, <2>6, <2>7 DEF revokeToken
<1> QED
  BY <1>1, <1>2

\* A sign-in is stored as its connection's latest.
LEMMA CredsAppend ==
  ASSUME LedgerType, NEW m \in Members, NEW t \in Nat,
         creds' = [creds EXCEPT ![m] = Append(@, t)]
  PROVE  /\ creds' \in [Members -> Seq(Nat)] /\ hasSignIn(m)' /\ latest(m)' = t
         /\ \A n \in Members \ {m} : (hasSignIn(n)' <=> hasSignIn(n)) /\ latest(n)' = latest(n)
<1>1. creds \in [Members -> Seq(Nat)] /\ creds[m] \in Seq(Nat)
  BY DEF LedgerType
<1>2. PICK s : s = Append(creds[m], t)
  OBVIOUS
<1>3. s \in Seq(Nat) /\ Len(s) = Len(creds[m]) + 1 /\ s[Len(s)] = t /\ Len(creds[m]) \in Nat
  BY <1>1, <1>2
<1>4. s # << >>
  BY <1>3
<1>5. creds' = [creds EXCEPT ![m] = s]
  BY <1>2
<1>6. creds' \in [Members -> Seq(Nat)] /\ creds'[m] = s /\ \A n \in Members \ {m} : creds'[n] = creds[n]
  BY <1>1, <1>3, <1>5
<1> QED
  BY <1>3, <1>4, <1>6 DEF hasSignIn, latest

\* Nobody else works on the company while a sign-in is stored.
LEMMA SignInStored ==
  ASSUME LedgerInv, NEW m \in Members, NEW t \in Nat, New(t),
         creds' = [creds EXCEPT ![m] = Append(@, t)], UNCHANGED <<issued, live, ended>>,
         conn' \in [Members -> {"none", "on", "off"}],
         \A n \in Members : conn'[n] = "on" => n = m \/ conn[n] = "on",
         confirmed' \subseteq confirmed, m \notin confirmed',
         call' \in [Calls -> CallType], ask' \in [People -> AskType],
         \A c \in Calls : /\ call'[c].pc \notin Working
                          /\ call'[c].pc # "idle" => call'[c].member \in Members
                                                     /\ hasSignIn(call'[c].member),
         \A q \in People : \/ ask'[q].pc = "idle"
                           \/ /\ ask'[q] = ask[q] /\ ask[q].pc # "revoke"
                              /\ ask[q].pc = "signed" => ask[q].tok # t,
         \A n \in Members \ {m} : hasSignIn(n) => latest(n) \in live \cup ended
  PROVE  LedgerInv'
<1>1. /\ creds' \in [Members -> Seq(Nat)] /\ hasSignIn(m)' /\ latest(m)' = t
      /\ \A n \in Members \ {m} : (hasSignIn(n)' <=> hasSignIn(n)) /\ latest(n)' = latest(n)
  BY CredsAppend DEF LedgerInv
<1>2. LedgerType'
  BY <1>1 DEF LedgerInv, LedgerType
<1>3. TokensDiffer'
  <2>1. \A n \in Members : hasSignIn(n) => latest(n) # t
    BY DEF New
  <2> QED
    BY <1>1, <2>1 DEF LedgerInv, TokensDiffer, New
<1>4. \A x : New(x) /\ x # t => New(x)'
  BY <1>1 DEF New
<1>5. ASSUME NEW c \in Calls
      PROVE  CallKnows(c)'
  <2>1. PICK n : n = call'[c].member
    OBVIOUS
  <2>2. call'[c].pc # "idle" => n \in Members /\ hasSignIn(n)'
    BY <1>1, <2>1
  <2> QED
    BY <2>1, <2>2 DEF CallKnows, Working, member, hasSignIn
<1>6. ASSUME NEW q \in People
      PROVE  AskKnows(q)'
  <2>1. AskKnows(q)
    BY DEF LedgerInv
  <2>2. CASE ask'[q].pc = "idle"
    BY <2>2 DEF AskKnows
  <2>3. CASE ask'[q] = ask[q] /\ ask[q].pc # "idle"
    <3>1. ask[q].pc = "signed" =>
            /\ New(ask[q].tok)'
            /\ \A c \in Calls : call'[c].pc # "save"
            /\ \A o \in People : ask'[o].pc = "signed" /\ ask'[o].tok = ask[q].tok => o = q
      BY <1>4, <2>1, <2>3 DEF AskKnows, Working
    <3> QED
      BY <2>1, <2>3, <3>1 DEF AskKnows
  <2> QED
    BY <2>2, <2>3
<1>7. StoredSignInWorks'
  <2> SUFFICES ASSUME NEW n \in Members, hasSignIn(n)'
               PROVE  latest(n)' \in live' \cup ended'
    BY DEF StoredSignInWorks
  <2>1. CASE n = m
    BY <1>1, <2>1 DEF New
  <2>2. CASE n # m
    BY <1>1, <2>2
  <2> QED
    BY <2>1, <2>2
<1>8. (\A n \in confirmed' : hasSignIn(n)') /\ RevokedIsOver'
  <2>1. \A n \in confirmed' : n \in Members \ {m} /\ hasSignIn(n) /\ latest(n) \notin live
    BY DEF LedgerInv, RevokedIsOver, LedgerType
  <2>2. \A c \in Calls : call'[c].pc # "save"
    BY DEF Working
  <2> QED
    BY <1>1, <2>1, <2>2 DEF RevokedIsOver
<1>9. \A n \in Members : conn'[n] = "on" => hasSignIn(n)'
  BY <1>1 DEF LedgerInv
<1> QED
  BY <1>2, <1>3, <1>5, <1>6, <1>7, <1>8, <1>9 DEF LedgerInv

\* connectQboCompany stores the sign-in of the consent, and save the rotated one.
LEMMA CompanyConnected ==
  ASSUME LedgerInv, NEW r \in People, connectQboCompany(r)
  PROVE  LedgerInv'
<1>0. /\ ask[r].pc = "signed" /\ lock = Free /\ endsAsk(r)
      /\ UNCHANGED <<issued, live, ended, call, lock>>
      /\ ask \in [People -> AskType] /\ conn \in [Members -> {"none", "on", "off"}]
      /\ call \in [Calls -> CallType]
  BY DEF connectQboCompany, intuit, LedgerInv, LedgerType
<1>1. /\ ask' \in [People -> AskType] /\ ask'[r].pc = "idle"
      /\ \A q \in People \ {r} : ask'[q] = ask[q]
  BY <1>0, AskEnds
<1>2. CASE UNCHANGED <<conn, creds, confirmed>>
  BY <1>0, <1>1, <1>2, AsksMove
<1>3. CASE ~UNCHANGED <<conn, creds, confirmed>>
  <2>1. PICK m \in Members : m = ask[r].member
    BY <1>0 DEF LedgerInv, AskKnows
  <2>2. PICK t \in Nat : t = ask[r].tok
    BY LedgerParts
  <2>3. /\ conn' = [n \in Members |-> IF n = m THEN "on"
                                      ELSE IF layout[n] = layout[m] /\ conn[n] = "on" THEN "off"
                                      ELSE conn[n]]
        /\ creds' = [creds EXCEPT ![m] = Append(@, t)]
        /\ confirmed' = confirmed \ {m}
    BY <1>3, <2>1, <2>2 DEF connectQboCompany
  <2>4. /\ conn' \in [Members -> {"none", "on", "off"}]
        /\ \A n \in Members : conn'[n] = "on" => n = m \/ conn[n] = "on"
    BY <1>0, <2>3
  <2>5. New(t) /\ \A q \in People \ {r} : ask[q].pc = "signed" => ask[q].tok # t
    BY <1>0, <2>2 DEF LedgerInv, AskKnows
  <2>6. \A c \in Calls : call[c].pc \notin Working
    BY <1>0, FreeIsNoCall DEF LedgerInv, CallKnows
  <2>7. \A q \in People : ask[q].pc # "revoke"
    BY <1>0, HoldersDiffer DEF LedgerInv, AskKnows
  <2>8. \A c \in Calls : call[c].pc # "idle" => call[c].member \in Members /\ hasSignIn(call[c].member)
    BY DEF LedgerInv, CallKnows, member
  <2>9. \A n \in Members : hasSignIn(n) => latest(n) \in live \cup ended
    BY <2>6 DEF LedgerInv, StoredSignInWorks, Working
  <2> QED
    BY <1>0, <1>1, <2>3, <2>4, <2>5, <2>6, <2>7, <2>8, <2>9, SignInStored
<1> QED
  BY <1>2, <1>3

\* save: the rotated sign-in is stored under the lock, or is lost with its answer.
LEMMA CallSaves ==
  ASSUME LedgerInv, NEW c \in Calls, save(c)
  PROVE  LedgerInv'
<1>0. /\ call[c].pc = "save" /\ freeIf(c) /\ UNCHANGED <<conn, ask, confirmed, issued, live>>
      /\ lock = c
  BY DEF save, LedgerInv, CallKnows, Working
<1>1. CASE UNCHANGED creds
  <2>1. fails(c, "broke") /\ ended' = ended \cup {latest(member(c))}
    <3>1. PICK m \in Members : m = member(c)
      BY <1>0 DEF LedgerInv, CallKnows
    <3>2. PICK t \in Nat : t = call[c].tok
      BY LedgerParts
    <3>3. creds' # [creds EXCEPT ![m] = Append(@, t)]
      <4>1. creds[m] \in Seq(Nat)
        BY LedgerParts
      <4>2. creds[m] # Append(creds[m], t)
        <5>1. Len(Append(creds[m], t)) = Len(creds[m]) + 1 /\ Len(creds[m]) \in Nat
          BY <4>1
        <5> QED
          BY <5>1
      <4> QED
        BY <1>1, <4>2 DEF LedgerInv, LedgerType
    <3> QED
      BY <3>1, <3>2, <3>3 DEF save
  <2> QED
    BY <1>0, <1>1, <2>1, CallSettles DEF fails, freeIf
<1>2. CASE ~UNCHANGED creds
  <2>1. PICK m \in Members : m = member(c) /\ hasSignIn(m)
    BY <1>0 DEF LedgerInv, CallKnows
  <2>2. PICK t \in Nat : t = call[c].tok
    BY LedgerParts
  <2>3. creds' = [creds EXCEPT ![m] = Append(@, t)] /\ reads(c) /\ UNCHANGED ended
    BY <1>2, <2>1, <2>2 DEF save
  <2>4. PICK pc \in {"done", "broke"} : goto(c, pc)
    BY <2>3 DEF reads
  <2>5. /\ call' \in [Calls -> CallType]
        /\ \A d \in Calls \ {c} : call'[d] = call[d]
        /\ call'[c].pc \notin Working
        /\ call'[c].pc # "idle" => call'[c].member = member(c)
    BY <2>4, CallGoes
  <2>6. \A d \in Calls \ {c} : call[d].pc \notin Working
    BY <1>0 DEF LedgerInv, CallKnows
  <2>7. ASSUME NEW d \in Calls
        PROVE  /\ call'[d].pc \notin Working
               /\ call'[d].pc # "idle" => call'[d].member \in Members /\ hasSignIn(call'[d].member)
    <3>1. CASE d = c
      BY <2>1, <2>5, <3>1
    <3>2. CASE d # c
      BY <2>5, <2>6, <3>2 DEF LedgerInv, CallKnows, member
    <3> QED
      BY <3>1, <3>2
  <2>8. New(t) /\ m \notin confirmed
    BY <1>0, <2>1, <2>2 DEF LedgerInv, CallKnows, RevokedIsOver
  <2>9. \A q \in People : ask[q].pc # "revoke" /\ (ask[q].pc = "signed" => ask[q].tok # t)
    BY <1>0, <2>2, HoldersDiffer DEF LedgerInv, AskKnows
  <2>10. \A n \in Members \ {m} : hasSignIn(n) => latest(n) \in live \cup ended
    BY <1>0, <2>1 DEF LedgerInv, StoredSignInWorks
  <2>11. \A n \in Members : conn[n] = "on" => conn[n] = "on"
    OBVIOUS
  <2>12. ask \in [People -> AskType] /\ conn \in [Members -> {"none", "on", "off"}]
    BY DEF LedgerInv, LedgerType
  <2> QED
    BY <1>0, <2>3, <2>5, <2>7, <2>8, <2>9, <2>10, <2>12, SignInStored
<1> QED
  BY <1>1, <1>2

\* A token that Intuit issues is nobody's yet.
LEMMA TokenIssued ==
  ASSUME LedgerInv, NEW new, new = issued + 1, issued' = new, UNCHANGED creds,
         NEW gone \in SUBSET live, live' = (live \ gone) \cup {new}
  PROVE  /\ issued' \in Nat /\ live' \subseteq Nat /\ TokensDiffer' /\ New(new)'
         /\ \A t : New(t) => t # new
         /\ \A t : New(t) /\ t \notin gone => New(t)'
         /\ \A n : (hasSignIn(n)' <=> hasSignIn(n)) /\ latest(n)' = latest(n)
         /\ \A n \in Members : hasSignIn(n) => latest(n) # new
<1>1. \A n : (hasSignIn(n)' <=> hasSignIn(n)) /\ latest(n)' = latest(n)
  BY DEF hasSignIn, latest
<1>2. issued \in Nat /\ live \subseteq Nat
  BY DEF LedgerInv, LedgerType
<1>3. \A n \in Members : hasSignIn(n) => latest(n) \in Nat /\ latest(n) <= issued
  BY DEF LedgerInv, TokensDiffer
<1>4. \A t \in live : t \in Nat /\ t <= issued
  BY <1>2 DEF LedgerInv, TokensDiffer
<1>5. \A n \in Members : hasSignIn(n) => latest(n) # new
  BY <1>2, <1>3
<1>6. \A t : New(t) => t # new
  BY <1>2, <1>4 DEF New
<1>7. TokensDiffer'
  <2>1. /\ \A t \in live' : t <= issued'
        /\ \A n \in Members : hasSignIn(n) => latest(n) \in Nat /\ latest(n) <= issued'
    BY <1>2, <1>3, <1>4
  <2> QED
    BY <1>1, <2>1 DEF LedgerInv, TokensDiffer
<1> QED
  BY <1>1, <1>2, <1>5, <1>6, <1>7 DEF New

\* An owner consents at Intuit.
LEMMA OwnerSignsIn ==
  ASSUME LedgerInv, NEW r \in People, NEW m \in Members, SignIn(r, m)
  PROVE  LedgerInv'
<1> PICK new : new = issued + 1
  OBVIOUS
<1>0. /\ ask[r].pc = "idle" /\ issued' = new /\ live' = live \cup {new}
      /\ UNCHANGED <<creds, conn, call, lock, confirmed, ended>>
  BY DEF SignIn, mayAsk
<1>1. /\ issued' \in Nat /\ live' \subseteq Nat /\ TokensDiffer' /\ New(new)'
      /\ \A t : New(t) => t # new /\ New(t)'
      /\ \A n : (hasSignIn(n)' <=> hasSignIn(n)) /\ latest(n)' = latest(n)
      /\ \A n \in Members : hasSignIn(n) => latest(n) # new
  <2>1. live' = (live \ {}) \cup {new} /\ {} \in SUBSET live
    BY <1>0
  <2> QED
    BY <1>0, <2>1, TokenIssued
<1>2. PICK k : k = [pc |-> "signed", member |-> m, by |-> m, tok |-> issued']
  OBVIOUS
<1>3. k \in AskType /\ k.pc = "signed" /\ k.member = m /\ k.tok = new
  BY <1>0, <1>1, <1>2 DEF AskType
<1>4. ask' = [ask EXCEPT ![r] = k] /\ ask \in [People -> AskType]
  BY <1>2 DEF SignIn, LedgerInv, LedgerType
<1>5. ask' \in [People -> AskType] /\ ask'[r] = k /\ \A q \in People \ {r} : ask'[q] = ask[q]
  BY <1>3, <1>4
<1>6. LedgerType'
  BY <1>0, <1>1, <1>5 DEF LedgerInv, LedgerType
<1>7. ASSUME NEW c \in Calls
      PROVE  CallKnows(c)'
  <2>1. CallKnows(c)
    BY DEF LedgerInv
  <2>0. PICK t : t = call[c].tok
    OBVIOUS
  <2>2. call[c].pc = "save" => New(t)'
    BY <1>1, <2>0, <2>1 DEF CallKnows
  <2>3. call[c].pc = "refresh" => call[c].tok \in live' \cup ended'
    BY <1>0, <2>1 DEF CallKnows
  <2> QED
    BY <1>0, <1>1, <2>0, <2>1, <2>2, <2>3 DEF CallKnows, member, hasSignIn, latest
<1>8. ASSUME NEW q \in People
      PROVE  AskKnows(q)'
  <2>1. \A o \in People : AskKnows(o)
    BY DEF LedgerInv
  <2>2. \A c \in Calls : call[c].pc = "save" => call[c].tok # new
    BY <1>1 DEF LedgerInv, CallKnows
  <2>3. \A o \in People : ask[o].pc = "signed" => ask[o].tok # new /\ New(ask[o].tok)
    BY <1>1, <2>1 DEF AskKnows
  <2>4. CASE q = r
    <3>1. \A o \in People : ask'[o].pc = "signed" /\ ask'[o].tok = new => o = r
      BY <1>5, <2>3
    <3>3. New(new)' /\ ask'[r].tok = new
      BY <1>1, <1>3, <1>5
    <3> QED
      BY <1>0, <1>3, <1>5, <2>2, <2>4, <3>1, <3>3 DEF AskKnows
  <2>5. CASE q # r
    <3>0. PICK t : t = ask[q].tok
      OBVIOUS
    <3>1. ask'[q] = ask[q] /\ AskKnows(q)
      BY <1>5, <2>1, <2>5
    <3>2. ask[q].pc = "signed" =>
            /\ New(t)'
            /\ \A c \in Calls : call[c].pc = "save" => call[c].tok # t
            /\ \A o \in People : ask'[o].pc = "signed" /\ ask'[o].tok = t => o = q
      BY <1>1, <1>3, <1>5, <2>3, <3>0, <3>1 DEF AskKnows
    <3> QED
      BY <1>0, <1>1, <3>0, <3>1, <3>2 DEF AskKnows, hasSignIn
  <2> QED
    BY <2>4, <2>5
<1>9. StoredSignInWorks'
  BY <1>0, <1>1 DEF LedgerInv, StoredSignInWorks, member
<1>10. (\A n \in confirmed' : hasSignIn(n)') /\ RevokedIsOver'
  <2>1. \A n \in confirmed : n \in Members /\ hasSignIn(n) /\ latest(n) \notin live
    BY DEF LedgerInv, RevokedIsOver, LedgerType
  <2>2. \A n \in confirmed : latest(n)' \notin live' /\ hasSignIn(n)'
    BY <1>0, <1>1, <2>1
  <2> QED
    BY <1>0, <2>2 DEF LedgerInv, RevokedIsOver, member
<1>11. \A n \in Members : conn'[n] = "on" => hasSignIn(n)'
  BY <1>0, <1>1 DEF LedgerInv
<1> QED
  BY <1>1, <1>6, <1>7, <1>8, <1>9, <1>10, <1>11 DEF LedgerInv

\* refresh: Intuit rotates the sign-in stored last, for the call that holds the lock; the answer
\* comes, or is lost and the sign-in with it.
LEMMA CallRefreshes ==
  ASSUME LedgerInv, NEW c \in Calls, refresh(c)
  PROVE  LedgerInv'
<1> PICK new : new = issued + 1
  OBVIOUS
<1> PICK old : old = call[c].tok
  OBVIOUS
<1>0. /\ call[c].pc = "refresh" /\ old \in live /\ issued' = new
      /\ live' = (live \ {old}) \cup {new}
      /\ UNCHANGED <<creds, conn, ask, confirmed>>
  BY DEF refresh
<1>1. PICK m \in Members : m = member(c) /\ hasSignIn(m) /\ old = latest(m) /\ lock = c
  BY <1>0 DEF LedgerInv, CallKnows, Working
<1>2. /\ issued' \in Nat /\ live' \subseteq Nat /\ TokensDiffer' /\ New(new)'
      /\ \A t : New(t) => t # new /\ New(t)'
      /\ \A n : (hasSignIn(n)' <=> hasSignIn(n)) /\ latest(n)' = latest(n)
      /\ \A n \in Members : hasSignIn(n) => latest(n) # new
  <2>1. {old} \in SUBSET live /\ \A t : New(t) => t \notin {old}
    BY <1>0, <1>1 DEF New
  <2> QED
    BY <1>0, <2>1, TokenIssued
<1>3. \A d \in Calls \ {c} : call[d].pc \notin Working
  BY <1>1 DEF LedgerInv, CallKnows
<1>4. \A q \in People : ask[q].pc # "revoke"
  BY <1>1, HoldersDiffer DEF LedgerInv, AskKnows
<1>5. \A n \in Members \ {m} : hasSignIn(n) => latest(n) \in live' \cup ended
  <2> SUFFICES ASSUME NEW n \in Members \ {m}, hasSignIn(n) PROVE latest(n) \in live' \cup ended
    OBVIOUS
  <2>1. latest(n) \in live \cup ended
    BY <1>0, <1>1 DEF LedgerInv, StoredSignInWorks
  <2>2. latest(n) # old
    BY <1>1 DEF LedgerInv, TokensDiffer
  <2> QED
    BY <1>0, <2>1, <2>2
<1>6. m \notin confirmed /\ \A n \in confirmed : /\ n \in Members /\ hasSignIn(n)
                                                 /\ latest(n) \notin live'
  <2>1. \A n \in confirmed : n \in Members /\ hasSignIn(n) /\ latest(n) \notin live
    BY DEF LedgerInv, RevokedIsOver, LedgerType
  <2> QED
    BY <1>0, <1>1, <1>2, <2>1
<1>7. ASSUME call' \in [Calls -> CallType], ended \subseteq ended',
             \A d \in Calls \ {c} : call'[d] = call[d],
             call'[c].pc # "idle" => call'[c].member = m,
             \/ call'[c].pc = "save" /\ call'[c].tok = new /\ lock' = c
             \/ call'[c].pc \notin Working /\ old \in ended'
      PROVE  LedgerInv'
  <2>1. LedgerType'
    BY <1>0, <1>2, <1>7 DEF LedgerInv, LedgerType
  <2>2. ASSUME NEW d \in Calls
        PROVE  CallKnows(d)'
    <3>1. CASE d = c
      <4>1. call'[c].pc # "idle" => call'[c].member \in Members /\ hasSignIn(m)'
        BY <1>1, <1>2, <1>7
      <4> QED
        BY <1>2, <1>7, <3>1, <4>1 DEF CallKnows, Working, member, hasSignIn
    <3>2. CASE d # c
      <4>1. call'[d] = call[d] /\ call[d].pc \notin Working /\ CallKnows(d)
        BY <1>3, <1>7, <3>2 DEF LedgerInv
      <4> QED
        BY <1>0, <4>1 DEF CallKnows, Working, member, hasSignIn
    <3> QED
      BY <3>1, <3>2
  <2>3. ASSUME NEW q \in People
        PROVE  AskKnows(q)'
    <3>0. PICK t : t = ask[q].tok
      OBVIOUS
    <3>1. AskKnows(q)
      BY DEF LedgerInv
    <3>2. ask[q].pc = "signed" =>
            /\ New(t)'
            /\ \A d \in Calls : call'[d].pc = "save" => call'[d].tok # t
            /\ \A o \in People : ask[o].pc = "signed" /\ ask[o].tok = t => o = q
      BY <1>2, <1>3, <1>7, <3>0, <3>1 DEF AskKnows, Working
    <3> QED
      BY <1>0, <1>4, <3>0, <3>1, <3>2 DEF AskKnows
  <2>4. StoredSignInWorks'
    <3> SUFFICES ASSUME NEW n \in Members, hasSignIn(n), latest(n) \notin live' \cup ended'
                 PROVE  \E d \in Calls : lock' = d /\ call'[d].pc = "save" /\ call'[d].member = n
      BY <1>2 DEF StoredSignInWorks, member
    <3>1. n = m
      BY <1>5, <1>7
    <3> QED
      BY <1>1, <1>7, <3>1 DEF Working
  <2>5. (\A n \in confirmed' : hasSignIn(n)') /\ RevokedIsOver'
    <3>1. \A n \in confirmed, d \in Calls : ~(call'[d].pc = "save" /\ call'[d].member = n)
      BY <1>3, <1>6, <1>7 DEF Working
    <3> QED
      BY <1>0, <1>2, <1>6, <3>1 DEF RevokedIsOver, member
  <2>6. \A n \in Members : conn'[n] = "on" => hasSignIn(n)'
    BY <1>0, <1>2 DEF LedgerInv
  <2> QED
    BY <1>2, <2>1, <2>2, <2>3, <2>4, <2>5, <2>6 DEF LedgerInv
<1>8. CASE /\ call' = [call EXCEPT ![c].pc = "save", ![c].tok = new]
           /\ UNCHANGED <<lock, ended>>
  <2>1. call \in [Calls -> CallType] /\ call[c] \in CallType
    BY DEF LedgerInv, LedgerType
  <2>2. PICK k : k = [call[c] EXCEPT !.pc = "save", !.tok = new]
    OBVIOUS
  <2>3. k \in CallType /\ k.pc = "save" /\ k.tok = new /\ k.member = m
    BY <1>0, <1>1, <1>2, <2>1, <2>2 DEF CallType, Working, member
  <2>4. call' = [call EXCEPT ![c] = k]
    BY <1>8, <2>1, <2>2
  <2>5. /\ call' \in [Calls -> CallType] /\ call'[c] = k
        /\ \A d \in Calls \ {c} : call'[d] = call[d]
    BY <2>1, <2>3, <2>4
  <2> QED
    BY <1>1, <1>7, <1>8, <2>3, <2>5
<1>9. CASE goto(c, "broke") /\ ended' = ended \cup {old}
  <2>1. /\ call' \in [Calls -> CallType]
        /\ \A d \in Calls \ {c} : call'[d] = call[d]
        /\ call'[c].pc \notin Working
        /\ call'[c].pc # "idle" => call'[c].member = member(c)
    BY <1>9, CallGoes
  <2> QED
    BY <1>1, <1>7, <1>9, <2>1
<1> QED
  BY <1>0, <1>8, <1>9 DEF refresh, fails

\* What touches no sign-in, no call and no request.
LEMMA LedgerStays ==
  ASSUME LedgerInv, UNCHANGED <<creds, issued, live, ask, ended, confirmed, conn, call, lock>>
  PROVE  LedgerInv'
BY CallsMove DEF LedgerInv, LedgerType

\* Nobody has connected yet.
LEMMA LedgerStarts == Init => LedgerInv
<1> SUFFICES ASSUME Init PROVE LedgerInv
  OBVIOUS
<1>1. /\ conn = [m \in Members |-> "none"] /\ creds = [m \in Members |-> << >>]
      /\ issued = 0 /\ live = {} /\ confirmed = {}
      /\ call = [c \in Calls |-> IdleCall] /\ ask = [r \in People |-> IdleAsk]
  BY DEF Init
<1>2. IdleCall \in CallType /\ IdleCall.pc = "idle" /\ IdleAsk \in AskType /\ IdleAsk.pc = "idle"
  BY DEF IdleCall, IdleAsk, CallType, AskType
<1>3. LedgerType
  BY <1>1, <1>2 DEF LedgerType
<1>4. \A m \in Members : ~hasSignIn(m) /\ conn[m] # "on"
  BY <1>1 DEF hasSignIn
<1>5. TokensDiffer /\ StoredSignInWorks /\ RevokedIsOver
  BY <1>1, <1>4 DEF TokensDiffer, StoredSignInWorks, RevokedIsOver
<1>6. \A c \in Calls : CallKnows(c)
  BY <1>1, <1>2 DEF CallKnows, Working
<1>7. \A r \in People : AskKnows(r)
  BY <1>1, <1>2 DEF AskKnows
<1> QED
  BY <1>1, <1>3, <1>4, <1>5, <1>6, <1>7 DEF LedgerInv

\* Whatever a call, a sync, an owner, Intuit or a death does.
LEMMA LedgerStep == LedgerInv /\ [Next]_vars => LedgerInv'
<1> SUFFICES ASSUME LedgerInv, [Next]_vars PROVE LedgerInv'
  OBVIOUS
<1>1. ASSUME NEW c \in Calls, CallStep(c) \/ withRefreshLock(c) \/ LedgerAccountBusy(c)
      PROVE  LedgerInv'
  BY <1>1, CallLoads, CallLocks, CallRefreshes, CallSaves DEF CallStep
<1>2. ASSUME NEW p \in Workspaces, SyncStep(p) \/ releaseDeadLedger(p) \/ ReleaseBusy(p)
      PROVE  LedgerInv'
  BY <1>2, SyncMoves DEF Calls
<1>3. ASSUME NEW m \in Members, Demote(m)
      PROVE  LedgerInv'
  BY <1>3, LedgerStays DEF Demote, intuit
<1>4. ASSUME NEW t \in Tokens, AccessExpires(t)
      PROVE  LedgerInv'
  BY <1>4, LedgerStays DEF AccessExpires
<1>5. CASE UNCHANGED vars
  BY <1>5, LedgerStays DEF vars, intuit
<1> QED
  BY <1>1, <1>2, <1>3, <1>4, <1>5, ProcessMoves, AskMoves, SignInEnds, CompanyConnected, OwnerSignsIn
  DEF Next

\* The lock serialises what is done to the sign-ins of a company: whoever rotates, stores or
\* revokes one has the latest, and nobody stores a token that is not honoured.
THEOREM LedgerInvariance == Spec => []LedgerInv
<1>1. Init => LedgerInv
  BY LedgerStarts
<1>2. LedgerInv /\ [Next]_vars => LedgerInv'
  BY LedgerStep
<1> QED
  BY <1>1, <1>2, PTL DEF Spec

\* QboClient.refresh under withRefreshLock: a refresh is refused only when the sign-in really
\* ended, never because another call of this system spent the token first.
THEOREM OnlyTheEndedAreRefused == Spec => []RefusedMeansEnded
<1>1. LedgerInv => RefusedMeansEnded
  BY DEF LedgerInv, CallKnows, RefusedMeansEnded
<1> QED
  BY <1>1, LedgerInvariance, PTL

\* credentials.save: the sign-in stored last is honoured, has ended, or is about to be followed by
\* its successor, from the call that holds the lock.
THEOREM StoredIsHonoured == Spec => []StoredSignInWorks
<1>1. LedgerInv => StoredSignInWorks
  BY DEF LedgerInv
<1> QED
  BY <1>1, LedgerInvariance, PTL

\* disconnectLedger: once Intuit confirmed the revoke, the connection's latest sign-in is not
\* honoured and no call can store another, until an owner connects again.
THEOREM RevokedStaysOver == Spec => []RevokedIsOver
<1>1. LedgerInv => RevokedIsOver
  BY DEF LedgerInv
<1> QED
  BY <1>1, LedgerInvariance, PTL

=============================================================================
