------------------------------ MODULE PortalRead ------------------------------
(***************************************************************************)
(* Reading one payer portal: the queued job that prepares a run, hands the  *)
(* sealed credential to the worker, follows it, takes in what it captured   *)
(* and records how it ended (packages/pipeline/src/portal-job.ts over       *)
(* packages/store-postgres/src/portal.ts, migrations 0038 and 0039), the    *)
(* worker that signs in and holds results in memory (services/portal-read), *)
(* and the owners who switch the connection, enter credentials and promote  *)
(* recipe versions beside it.                                               *)
(*                                                                         *)
(* The queue runs each step of a run at most MaxAttempts times, whole, and  *)
(* one step of a connection at a time; a run that waits between two steps   *)
(* holds no slot, so the steps of two runs interleave.                      *)
(***************************************************************************)
EXTENDS Naturals, Sequences, FiniteSets

CONSTANTS
    Runs,         \* read requests, each with its own run id
    Docs,         \* the contents a capture may have
    Refused,      \* contents the upload door rejects
    Infected,     \* contents the scanner finds infected
    Listings,     \* what a run may find: sequences of contents
    MaxCaptures,  \* the longest of them (the code: 300)
    NoRun,        \* no run in flight
    MaxAttempts,  \* attempts of one step (the code: 1 + 3 retries)
    MaxFaults,    \* deaths, lost answers, worker restarts and failed scans
    MaxMoves      \* things owners do meanwhile

ASSUME PortalAssumption ==
    /\ NoRun \notin Runs
    /\ Refused \subseteq Docs /\ Infected \subseteq Docs
    /\ Listings \subseteq Seq(Docs) /\ <<>> \in Listings
    /\ \A found \in Listings : Len(found) <= MaxCaptures
    /\ {MaxCaptures, MaxAttempts, MaxFaults, MaxMoves} \subseteq Nat

VARIABLES
    enabled,    \* portal_connections.enabled
    role,       \* the role of the member the runs act as
    version,    \* the promoted recipe version in effect
    creds,      \* portal_credentials, by seq: the version each is sealed to
    holds,      \* credentials a credential_rejected or _removed disable names
    startRow,   \* portal_read_starts: {} or {the version the run names, 0 for null}
    endRow,     \* portal_read_runs: the outcome of each run
    capRows,    \* portal_captures: how many rows each capture of a run has
    docs,       \* documents: what is known of each content
    requested,  \* <<run, content>> whose reading was asked for
    pc,         \* where each run of the job stands
    attempt,    \* which attempt of its step this is
    job,        \* what the run's finished steps returned
    w,          \* RunRegistry.runs: the worker's view of each run
    inFlight,   \* RunRegistry.inFlight
    rejected,   \* credentials the portal itself has refused
    faults, moves

store == <<enabled, role, version, creds, holds>>
rows == <<startRow, endRow, capRows, docs, requested>>
steps == <<pc, attempt, job>>
worker == <<w, inFlight, rejected>>
vars == <<store, rows, steps, worker, faults, moves>>


latest == Len(creds)      \* the latest credential's id; 0 when none is stored
mayWrite == role \in {"owner", "analyst"}
isOwner == role = "owner"

Unheld == [state |-> "unknown", cred |-> 0, result |-> "none", captures |-> <<>>, held |-> TRUE]
NoProgress == [dry |-> FALSE, version |-> 0, end |-> "none", cred |-> 0, result |-> "none",
               captures |-> <<>>, done |-> 0, rowWritten |-> FALSE]

Init ==
    /\ enabled = TRUE /\ role = "owner" /\ holds = {}
    /\ version \in {0, 1} /\ creds = IF version = 0 THEN <<>> ELSE <<1>>
    /\ startRow = [r \in Runs |-> {}] /\ endRow = [r \in Runs |-> "none"]
    /\ capRows = [r \in Runs |-> [i \in 1..MaxCaptures |-> 0]]
    /\ docs = [d \in Docs |-> "none"] /\ requested = {}
    /\ pc = [r \in Runs |-> "unasked"] /\ attempt = [r \in Runs |-> 1]
    /\ job = [r \in Runs |-> NoProgress]
    /\ w = [r \in Runs |-> Unheld] /\ inFlight = NoRun /\ rejected = {}
    /\ faults = 0 /\ moves = 0

-----------------------------------------------------------------------------
(* The queue: a step that fails is taken again from its head, until it has   *)
(* been tried MaxAttempts times; a settled error is not tried again. Either  *)
(* way a run past `prepare` then records its failure.                        *)

Heads == {"prepare", "start", "poll", "result", "capture", "finish", "failure", "reads"}

headOf(p) ==
    CASE p \in Heads -> p
      [] p \in {"preparing", "prepareEnd"} -> "prepare"
      [] p \in {"starting", "asking", "startEnd"} -> "start"
      [] p \in {"scanning", "filing"} -> "capture"
      [] p = "finishing" -> "finish"

MidStep == {"preparing", "prepareEnd", "starting", "asking", "startEnd", "scanning", "filing", "finishing"}

\* One step of the connection's runs is taken at a time.
slotFree(r) == \A q \in Runs \ {r} : pc[q] \notin MidStep

\* Mutant of givenUp: nothing is recorded when a step gives up.
GivenUpAtOnce(p) == "over"

givenUp(p) == IF headOf(p) \in {"prepare", "failure", "reads"} THEN "over" ELSE "failure"

Goto(r, p) == pc' = [pc EXCEPT ![r] = p] /\ UNCHANGED attempt

\* A settled error: the step is not tried again.
Settled(r) ==
    /\ pc' = [pc EXCEPT ![r] = givenUp(@)]
    /\ attempt' = [attempt EXCEPT ![r] = 1]
    /\ UNCHANGED job

Retry(r) ==
    /\ pc' = [pc EXCEPT ![r] = IF attempt[r] < MaxAttempts THEN headOf(@) ELSE givenUp(@)]
    /\ attempt' = [attempt EXCEPT ![r] = IF @ < MaxAttempts THEN @ + 1 ELSE 1]
    /\ UNCHANGED job

\* The step's last call is made: the queue keeps what it returns, or the
\* process dies or the answer is lost before it does.
Returns(r, next, progress) ==
    \/ /\ pc' = [pc EXCEPT ![r] = next]
       /\ attempt' = [attempt EXCEPT ![r] = 1]
       /\ job' = [job EXCEPT ![r] = progress]
       /\ UNCHANGED faults
    \/ faults < MaxFaults /\ faults' = faults + 1 /\ Retry(r)

\* The process dies between two calls of a step.
Dies(r) ==
    /\ pc[r] \in MidStep /\ faults < MaxFaults
    /\ faults' = faults + 1 /\ Retry(r)
    /\ UNCHANGED <<store, rows, worker, moves>>

-----------------------------------------------------------------------------
(* What the store answers.                                                   *)

\* A start row is written once; the same start again is a replay, any other
\* is refused.
mayStart(r, v) == startRow[r] \subseteq {v}

\* An outcome is written once, complete; the same again is a replay.
mayEnd(r, e) == startRow[r] # {} /\ endRow[r] \in {"none", e}

\* portal_captures takes a row of a run its member started and may write for,
\* while the run has no outcome.
mayCapture(r) == mayWrite /\ startRow[r] # {} /\ endRow[r] = "none"

\* The questions a step asks before the worker: is the connection on and its
\* member still an owner, is there a version, a credential, and is the one
\* sealed to the other.
permissionRefusal == ~enabled \/ ~isOwner

decideRun(v) ==
    CASE latest = 0 -> "not_configured"
      [] latest # 0 /\ creds[latest] # v -> "binding_mismatch"
      [] OTHER -> "go"

\* A dry run names its version; any other takes the promoted one in effect.
versionOf(r) == IF job[r].dry THEN 1 ELSE version

-----------------------------------------------------------------------------
(* Asking for a read, from Settings or by the fan-out.                       *)

Queued(r, dry) ==
    /\ pc[r] = "unasked" /\ enabled
    /\ job' = [job EXCEPT ![r].dry = dry]
    /\ Goto(r, "prepare")
    /\ UNCHANGED <<store, rows, worker, faults, moves>>

\* The fan-out asks for every connection that is on.
FanOut(r) == Queued(r, FALSE)

\* The dry-run press is refused without a credential for the version it names,
\* and while the connection's last run has no outcome.
QueueDryRun(r) ==
    /\ latest # 0 /\ creds[latest] = 1
    /\ \A q \in Runs : startRow[q] # {} => endRow[q] # "none"
    /\ Queued(r, TRUE)

-----------------------------------------------------------------------------
(* The steps of the job.                                                     *)

PrepareRun(r) ==
    /\ pc[r] = "prepare" /\ slotFree(r)
    /\ LET v == IF permissionRefusal THEN 0 ELSE versionOf(r)
           d == IF permissionRefusal THEN "refused"
                ELSE IF v = 0 THEN "not_configured" ELSE decideRun(v)
       IN job' = [job EXCEPT ![r].version = v, ![r].end = d]
    /\ Goto(r, "preparing")
    /\ UNCHANGED <<store, rows, worker, faults, moves>>

RecordRunStart(r) ==
    /\ pc[r] = "preparing"
    /\ IF mayStart(r, job[r].version)
       THEN /\ startRow' = [startRow EXCEPT ![r] = {job[r].version}]
            /\ IF job[r].end = "go"
               THEN Returns(r, "start", job[r])
               ELSE Goto(r, "prepareEnd") /\ UNCHANGED <<job, faults>>
       ELSE Settled(r) /\ UNCHANGED <<startRow, faults>>
    /\ UNCHANGED <<store, endRow, capRows, docs, requested, worker, moves>>

\* An outcome written before the worker was ever asked, in `prepare` or `start`.
EndBeforeWorker(r) ==
    /\ pc[r] \in {"prepareEnd", "startEnd"}
    /\ IF mayEnd(r, job[r].end)
       THEN /\ endRow' = [endRow EXCEPT ![r] = job[r].end]
            /\ Returns(r, "over", job[r])
       ELSE Settled(r) /\ UNCHANGED <<endRow, faults>>
    /\ UNCHANGED <<store, startRow, capRows, docs, requested, worker, moves>>

\* The questions again: the run may have waited for a busy worker meanwhile.
StartRun(r) ==
    /\ pc[r] = "start" /\ slotFree(r)
    /\ LET d == IF permissionRefusal THEN "refused" ELSE decideRun(job[r].version)
       IN /\ job' = [job EXCEPT ![r].end = d, ![r].cred = latest]
          /\ Goto(r, IF d = "go" THEN "starting" ELSE "asking")
    /\ UNCHANGED <<store, rows, worker, faults, moves>>

followed(state) == IF state = "running" THEN "poll" ELSE "result"

\* The worker, asked to start: idempotent by run id, one browser at a time,
\* and it may end a run it cannot open before anything is typed.
SendStart(r) ==
    /\ pc[r] = "starting"
    /\ IF w[r].state # "unknown"
       THEN Returns(r, followed(w[r].state), job[r]) /\ UNCHANGED worker
       ELSE IF inFlight # NoRun
       THEN Retry(r) /\ UNCHANGED <<worker, faults>>
       ELSE \/ /\ w' = [w EXCEPT ![r] = [Unheld EXCEPT !.state = "running", !.cred = job[r].cred]]
               /\ inFlight' = r /\ UNCHANGED rejected
               /\ Returns(r, "poll", job[r])
            \/ /\ w' = [w EXCEPT ![r] = [Unheld EXCEPT !.state = "done", !.result = "run_failed"]]
               /\ UNCHANGED <<inFlight, rejected>>
               /\ Returns(r, "result", job[r])
    /\ UNCHANGED <<store, rows, moves>>

\* An end found here is recorded only once the worker does not hold the run;
\* a run it does hold is followed, with the latest credential as the one sent
\* (credentials are only added, so one is there).
OnWorkerAlready(r) ==
    /\ pc[r] = "asking"
    /\ IF w[r].state = "unknown"
       THEN Goto(r, "startEnd") /\ UNCHANGED <<job, faults>>
       ELSE Returns(r, followed(w[r].state), [job[r] EXCEPT !.cred = latest])
    /\ UNCHANGED <<store, rows, worker, moves>>

\* Polling goes on while the worker says running, up to a limit that outlasts
\* the worker's own watchdog.
PollRun(r) ==
    /\ pc[r] = "poll" /\ slotFree(r) /\ w[r].state # "running"
    /\ IF w[r].state = "unknown"
       THEN Settled(r) /\ UNCHANGED faults
       ELSE Returns(r, "result", job[r])
    /\ UNCHANGED <<store, rows, worker, moves>>

TimedOut(r) ==
    /\ pc[r] = "poll" /\ slotFree(r) /\ w[r].state = "running"
    /\ faults < MaxFaults /\ faults' = faults + 1
    /\ Settled(r)
    /\ UNCHANGED <<store, rows, worker, moves>>

FetchResult(r) ==
    /\ pc[r] = "result" /\ slotFree(r)
    /\ IF w[r].state = "done"
       THEN Returns(r, IF w[r].captures = <<>> THEN "finish" ELSE "capture",
                    [job[r] EXCEPT !.result = w[r].result, !.captures = w[r].captures])
       ELSE Settled(r) /\ UNCHANGED faults
    /\ UNCHANGED <<store, rows, worker, moves>>

-----------------------------------------------------------------------------
(* One capture: fetched from the worker, taken in at the upload door, kept   *)
(* with its row in one transaction when its bytes are new, and scanned.      *)

index(r) == job[r].done + 1
bytes(r) == job[r].captures[index(r)]

scanOf(d) == IF d \in Infected THEN "infected" ELSE "clean"

CaptureHeld(r) == w[r].state = "done" /\ w[r].held

IngestCapture(r) ==
    /\ pc[r] = "capture" /\ slotFree(r)
    /\ \/ /\ CaptureHeld(r)
          /\ bytes(r) \in Refused \/ docs[bytes(r)] # "none"
          /\ job' = [job EXCEPT ![r].rowWritten = FALSE]
          /\ Goto(r, IF bytes(r) \in Refused THEN "filing" ELSE "scanning")
          /\ UNCHANGED <<capRows, docs>>
       \/ /\ CaptureHeld(r) /\ mayCapture(r)
          /\ bytes(r) \notin Refused /\ docs[bytes(r)] = "none"
          /\ docs' = [docs EXCEPT ![bytes(r)] = "unscanned"]
          /\ capRows' = [capRows EXCEPT ![r][index(r)] = @ + 1]
          /\ job' = [job EXCEPT ![r].rowWritten = TRUE]
          /\ Goto(r, "scanning")
       \/ /\ \/ ~CaptureHeld(r)
             \/ bytes(r) \notin Refused /\ docs[bytes(r)] = "none" /\ ~mayCapture(r)
          /\ Settled(r) /\ UNCHANGED <<capRows, docs>>
    /\ UNCHANGED <<store, startRow, endRow, requested, worker, faults, moves>>

\* A content already judged is not scanned again; a scan that fails leaves
\* the question open, and the step is asked again once its row is written.
Scan(r) ==
    /\ pc[r] = "scanning"
    /\ \E judged \in BOOLEAN :
         /\ docs[bytes(r)] # "unscanned" => judged
         /\ docs' = [docs EXCEPT ![bytes(r)] = IF judged THEN scanOf(bytes(r)) ELSE @]
         /\ judged \/ faults < MaxFaults
         /\ faults' = IF judged THEN faults ELSE faults + 1
    /\ Goto(r, "filing")
    /\ UNCHANGED <<store, startRow, endRow, capRows, requested, job, worker, moves>>

\* Mutant of filed: the row an earlier attempt wrote is not looked for.
FiledAgain(n) == n + 1

\* A row an earlier attempt wrote is found and kept.
filed(n) == IF n = 0 THEN 1 ELSE n

RecordCapture(r) ==
    /\ pc[r] = "filing"
    /\ LET i == index(r)
           progress == [job[r] EXCEPT !.done = i]
           next == IF i < Len(job[r].captures) THEN "capture" ELSE "finish"
       IN IF capRows[r][i] = 0 /\ ~mayCapture(r)
          THEN Settled(r) /\ UNCHANGED <<capRows, faults>>
          ELSE /\ capRows' = [capRows EXCEPT ![r][i] = IF job[r].rowWritten THEN @ ELSE filed(@)]
               /\ IF docs[bytes(r)] = "unscanned" /\ bytes(r) \notin Refused
                  THEN Retry(r) /\ UNCHANGED faults
                  ELSE Returns(r, next, progress)
    /\ UNCHANGED <<store, startRow, endRow, docs, requested, worker, moves>>

-----------------------------------------------------------------------------
(* The end: a refused sign-in turns the connection off first, then the       *)
(* outcome is written, then what was captured is sent to be read.            *)

taken(r) == {job[r].captures[i] : i \in 1..job[r].done}
clean(r) == taken(r) \ (Refused \union Infected)

endOf(r) ==
    IF job[r].result = "completed" /\ taken(r) \intersect Refused # {}
    THEN "capture_refused" ELSE job[r].result

afterEnd(r) == IF clean(r) = {} THEN "over" ELSE "reads"

\* Only while the refused credential is still the latest; the member the run
\* acts as must still be an owner to turn anything off.
DisableRejected(r) ==
    /\ pc[r] = "finish" /\ slotFree(r)
    /\ IF endOf(r) # "credential_rejected" \/ (isOwner /\ job[r].cred # latest)
       THEN Goto(r, "finishing") /\ UNCHANGED <<enabled, holds, job>>
       ELSE IF isOwner
       THEN /\ enabled' = FALSE /\ holds' = holds \union {job[r].cred}
            /\ Goto(r, "finishing") /\ UNCHANGED job
       ELSE Settled(r) /\ UNCHANGED <<enabled, holds>>
    /\ UNCHANGED <<role, version, creds, rows, worker, faults, moves>>

FinishRun(r) ==
    /\ pc[r] = "finishing"
    /\ IF mayEnd(r, endOf(r))
       THEN /\ endRow' = [endRow EXCEPT ![r] = endOf(r)]
            /\ Returns(r, afterEnd(r), job[r])
       ELSE Settled(r) /\ UNCHANGED <<endRow, faults>>
    /\ UNCHANGED <<store, startRow, capRows, docs, requested, worker, moves>>

\* Mutant of RecordFailure: what a failed run had captured is left unread.
FailWithoutReads(r) ==
    /\ pc[r] = "failure" /\ slotFree(r) /\ mayEnd(r, "failed")
    /\ endRow' = [endRow EXCEPT ![r] = "failed"]
    /\ Returns(r, "over", job[r])
    /\ UNCHANGED <<store, startRow, capRows, docs, requested, worker, moves>>

\* What is left when a step past `prepare` ran out of attempts or settled.
RecordFailure(r) ==
    /\ pc[r] = "failure" /\ slotFree(r)
    /\ IF mayEnd(r, "failed")
       THEN /\ endRow' = [endRow EXCEPT ![r] = "failed"]
            /\ Returns(r, afterEnd(r), job[r])
       ELSE Settled(r) /\ UNCHANGED <<endRow, faults>>
    /\ UNCHANGED <<store, startRow, capRows, docs, requested, worker, moves>>

RequestReads(r) ==
    /\ pc[r] = "reads" /\ slotFree(r)
    /\ requested' = requested \union ({r} \X clean(r))
    /\ Returns(r, "over", job[r])
    /\ UNCHANGED <<store, startRow, endRow, capRows, docs, worker, moves>>

-----------------------------------------------------------------------------
(* The worker: results and captures are held in memory until they are let    *)
(* go, forgotten or lost with the process.                                   *)

SignedIn(r, result, found) ==
    /\ w' = [w EXCEPT ![r].state = "done", ![r].result = result, ![r].captures = found]
    /\ rejected' = IF result = "credential_rejected"
                   THEN rejected \union {<<r, w[r].cred>>} ELSE rejected

RunEnds(r) ==
    /\ inFlight = r /\ w[r].state = "running"
    /\ \/ \E found \in Listings : (job[r].dry => found = <<>>) /\ SignedIn(r, "completed", found)
       \/ \E result \in {"credential_rejected", "run_failed"} : SignedIn(r, result, <<>>)
    /\ inFlight' = NoRun
    /\ UNCHANGED <<store, rows, steps, faults, moves>>

\* The watchdog ends a run that overran, and the browser is still held: a
\* run it cannot let go of takes the process with it.
Overran(r) ==
    /\ inFlight = r /\ w[r].state = "running" /\ faults < MaxFaults
    /\ \E result \in {"credential_rejected", "run_failed"} :
         /\ rejected' = IF result = "credential_rejected"
                        THEN rejected \union {<<r, w[r].cred>>} ELSE rejected
         /\ w' = [w EXCEPT ![r].state = "done", ![r].result = "run_failed"]
    /\ faults' = faults + 1
    /\ UNCHANGED <<store, rows, steps, inFlight, moves>>

Release(r) ==
    /\ inFlight = r /\ w[r].state = "done"
    /\ inFlight' = NoRun
    /\ w' \in {w, [q \in Runs |-> Unheld]}
    /\ UNCHANGED <<store, rows, steps, rejected, faults, moves>>

Restart ==
    /\ faults < MaxFaults /\ faults' = faults + 1
    /\ \E r \in Runs : w[r].state # "unknown"
    /\ rejected' \in {rejected, rejected \union
                        {<<r, w[r].cred>> : r \in {q \in Runs : w[q].state = "running"}}}
    /\ w' = [r \in Runs |-> Unheld] /\ inFlight' = NoRun
    /\ UNCHANGED <<store, rows, steps, moves>>

\* Past its time a result is forgotten; over the memory limit the captures of
\* another finished run are let go.
Sweep(r) ==
    /\ w[r].state = "done" /\ inFlight # r /\ faults < MaxFaults
    /\ w' \in {[w EXCEPT ![r].state = "forgotten"]} \union
              (IF w[r].captures # <<>> THEN {[w EXCEPT ![r].held = FALSE]} ELSE {})
    /\ faults' = faults + 1
    /\ UNCHANGED <<store, rows, steps, inFlight, rejected, moves>>

-----------------------------------------------------------------------------
(* What people do meanwhile, as owners of the workspace.                     *)

Moves == moves < MaxMoves /\ moves' = moves + 1

TurnOff ==
    /\ enabled' = FALSE
    /\ UNCHANGED <<role, version, creds, holds>>

RemoveCredential ==
    /\ enabled' = FALSE /\ holds' = holds \union {latest}
    /\ UNCHANGED <<role, version, creds>>

\* Mutant of TurnOn: the hold on the latest credential is not asked about.
TurnOnHeld ==
    /\ ~enabled /\ enabled' = TRUE
    /\ UNCHANGED <<role, version, creds, holds>>

\* Refused while a hold names the latest credential.
TurnOn ==
    /\ ~enabled /\ latest \notin holds
    /\ enabled' = TRUE
    /\ UNCHANGED <<role, version, creds, holds>>

SealAndStoreCredential ==
    /\ \E v \in {1, 2} : creds' = Append(creds, v)
    /\ UNCHANGED <<enabled, role, version, holds>>

ReviewRecipeVersion ==
    /\ version < 2 /\ version' = version + 1
    /\ UNCHANGED <<enabled, role, creds, holds>>

ChangeRole ==
    /\ role' \in {"owner", "analyst", "viewer"} \ {role}
    /\ UNCHANGED <<enabled, version, creds, holds>>

People ==
    /\ Moves
    /\ \/ TurnOff \/ RemoveCredential \/ TurnOn
       \/ SealAndStoreCredential \/ ReviewRecipeVersion \/ ChangeRole
    /\ UNCHANGED <<rows, steps, worker, faults>>

-----------------------------------------------------------------------------
Step(r) ==
    \/ PrepareRun(r) \/ RecordRunStart(r) \/ EndBeforeWorker(r)
    \/ StartRun(r) \/ SendStart(r) \/ OnWorkerAlready(r)
    \/ PollRun(r) \/ TimedOut(r) \/ FetchResult(r)
    \/ IngestCapture(r) \/ Scan(r) \/ RecordCapture(r)
    \/ DisableRejected(r) \/ FinishRun(r) \/ RecordFailure(r) \/ RequestReads(r)
    \/ Dies(r)

Next ==
    \/ \E r \in Runs : FanOut(r) \/ QueueDryRun(r) \/ Step(r)
    \/ \E r \in Runs : RunEnds(r) \/ Overran(r) \/ Release(r) \/ Sweep(r)
    \/ Restart \/ People

Spec == Init /\ [][Next]_vars

-----------------------------------------------------------------------------
signsIn(r) == inFlight # r /\ inFlight' = r

\* Once a run's refused sign-in is recorded, no run the worker starts later
\* types that credential, whatever the owners, the retries and the other runs
\* do: finishRun turns the connection off before it writes the outcome.
NotTypedOnceRecorded ==
    [][\A r, q \in Runs :
          signsIn(r) /\ endRow[q] = "credential_rejected" => <<q, w'[r].cred>> \notin rejected]_vars

\* A capture fetched again, after a death or a failed scan, keeps its one row.
OneRowPerCapture == \A r \in Runs, i \in 1..MaxCaptures : capRows[r][i] <= 1

\* "From here the start row exists, so whatever happens gets an outcome row":
\* the queue is done with a run past `prepare` only once its outcome is
\* written, however the run ended and whichever step gave up.
OutcomeIsRecorded ==
    [][\A r \in Runs :
          /\ pc[r] \notin {"unasked", "over"} /\ headOf(pc[r]) # "prepare"
          /\ pc'[r] = "over"
          => endRow'[r] # "none"]_vars

captured(r, d) ==
    /\ docs[d] = "clean"
    /\ \E i \in 1..Len(job[r].captures) : job[r].captures[i] = d /\ capRows[r][i] = 1

\* What a run captured and the scanner found clean has been sent to be read
\* once the run is over, also when the run itself ended in failure, if no more
\* than one thing went wrong.
CapturedIsRequested ==
    \A r \in Runs, d \in Docs : pc[r] = "over" /\ captured(r, d) => <<r, d>> \in requested

\* "so no later run types the same password": a credential the portal has
\* refused is not typed again.
NoLaterRunTypesIt ==
    [][\A r, q \in Runs : signsIn(r) => <<q, w'[r].cred>> \notin rejected]_vars

===============================================================================
