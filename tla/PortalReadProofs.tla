-------------------------- MODULE PortalReadProofs --------------------------
(***************************************************************************)
(* The portal read, for any runs, listings, attempts, faults and moves of   *)
(* the owners.                                                              *)
(*                                                                         *)
(* RunOk says what a run of the job may rely on at each of its steps, and   *)
(* what its rows say.  It is stated over one run's own row values, so that  *)
(* what a retry comes back to is one lemma for all steps.  PortalInv is     *)
(* RunOk of every run, with the types.                                      *)
(*                                                                         *)
(* SignInv adds what a recorded refusal protects: the connection stays off  *)
(* for the credential refused, and no run past the check is about to type   *)
(* it.  ReqInv adds, for at most one fault, what a capture not yet asked    *)
(* for still relies on: its bytes at the worker, or a step that asks.       *)
(***************************************************************************)
EXTENDS PortalRead, TLAPS

Pcs == Heads \cup MidStep \cup {"unasked", "over"}
Preparing == {"prepare", "preparing", "prepareEnd"}
Early == Preparing \cup {"unasked", "start", "starting", "asking", "startEnd", "poll", "result"}
Taking == {"capture", "scanning", "filing"}
Started == (Heads \cup MidStep) \ Preparing

Ends == {"none", "refused", "not_configured", "binding_mismatch", "go"}
Results == {"none", "completed", "credential_rejected", "run_failed"}
EndRows == Ends \cup Results \cup {"failed", "capture_refused"}
JobType == [dry : BOOLEAN, version : Nat, end : Ends, cred : Nat, result : Results,
            captures : Seq(Docs), done : Nat, rowWritten : BOOLEAN]
WorkerType == [state : {"unknown", "running", "done", "forgotten"}, cred : Nat, result : Results,
               captures : Seq(Docs), held : BOOLEAN]
DocStates == {"none", "unscanned", "clean", "infected"}

\* A row is there for a capture of the run, whose bytes were refused or are kept.
CaptureOk(n, i, j, ds) ==
    \/ n = 0
    \/ /\ n = 1 /\ i <= Len(j.captures)
       /\ j.captures[i] \in Refused \/ ds[j.captures[i]] # "none"

\* A run at step p that knows j, whose rows are caps, start and end; ds is what is known of contents.
RunOk(p, j, caps, start, end, ds) ==
    /\ p \in Early => j.result = "none" /\ j.captures = << >> /\ j.done = 0
    /\ p \in Taking => j.done < Len(j.captures)
    /\ p \in Taking \cup {"finish", "finishing"} => j.result # "none"
    /\ p = "scanning" => ds[j.captures[j.done + 1]] # "none"
    /\ p = "filing" => j.captures[j.done + 1] \in Refused \/ ds[j.captures[j.done + 1]] # "none"
    /\ p \in {"asking", "startEnd"} => j.end \notin {"none", "go"}
    /\ p \in Started => start # {}
    /\ p = "reads" => end # "none"
    /\ j.done <= Len(j.captures) /\ Len(j.captures) <= MaxCaptures
    /\ \A i \in 1..MaxCaptures : CaptureOk(caps[i], i, j, ds)

WorkerOk(v) ==
    /\ v \in WorkerType /\ Len(v.captures) <= MaxCaptures
    /\ v.state = "done" => v.result # "none"

RowType ==
    /\ startRow \in [Runs -> SUBSET Nat] /\ endRow \in [Runs -> EndRows]
    /\ capRows \in [Runs -> [1..MaxCaptures -> Nat]]
    /\ docs \in [Docs -> DocStates]

PortalType ==
    /\ creds \in Seq(Nat) /\ version \in Nat
    /\ RowType
    /\ pc \in [Runs -> Pcs] /\ job \in [Runs -> JobType] /\ w \in [Runs -> WorkerType]

PortalInv ==
    /\ PortalType
    /\ \A r \in Runs : RunOk(pc[r], job[r], capRows[r], startRow[r], endRow[r], docs)
    /\ \A r \in Runs : WorkerOk(w[r])

\* What OutcomeIsRecorded says of one step.
OutcomeStep ==
    \A r \in Runs :
        /\ pc[r] \notin {"unasked", "over"} /\ headOf(pc[r]) # "prepare"
        /\ pc'[r] = "over"
        => endRow'[r] # "none"

-----------------------------------------------------------------------------
(* Where a step that fails goes *)

\* The head of a step, and where it goes when it is given up.
LEMMA HeadsAre ==
    ASSUME NEW p \in Heads \cup MidStep
    PROVE  /\ headOf(p) \in Heads
           /\ p \in Preparing <=> headOf(p) = "prepare"
           /\ p \in Taking <=> headOf(p) = "capture"
           /\ p \in {"finish", "finishing"} <=> headOf(p) = "finish"
           /\ p \in {"start", "starting", "asking", "startEnd"} <=> headOf(p) = "start"
           /\ p \in {"poll", "result", "failure", "reads"} => headOf(p) = p
           /\ headOf(p) \in {"poll", "result", "failure", "reads"} => headOf(p) = p
           /\ givenUp(p) \in {"over", "failure"}
           /\ givenUp(p) = "over" <=> p \in Preparing \cup {"failure", "reads"}
  <1>1. \/ p \in Heads \/ p \in {"preparing", "prepareEnd"} \/ p \in {"starting", "asking", "startEnd"}
        \/ p \in {"scanning", "filing"} \/ p = "finishing"
    BY DEF MidStep
  <1>2. CASE p \in Heads
    <2>1. headOf(p) = p
      BY <1>2 DEF headOf, Heads
    <2>2. QED BY <1>2, <2>1 DEF Heads, givenUp, Preparing, Taking
  <1>3. CASE p \in {"preparing", "prepareEnd"}
    <2>1. headOf(p) = "prepare"
      BY <1>3 DEF headOf, Heads
    <2>2. QED BY <1>3, <2>1 DEF Heads, givenUp, Preparing, Taking
  <1>4. CASE p \in {"starting", "asking", "startEnd"}
    <2>1. headOf(p) = "start"
      BY <1>4 DEF headOf, Heads
    <2>2. QED BY <1>4, <2>1 DEF Heads, givenUp, Preparing, Taking
  <1>5. CASE p \in {"scanning", "filing"}
    <2>1. headOf(p) = "capture"
      BY <1>5 DEF headOf, Heads
    <2>2. QED BY <1>5, <2>1 DEF Heads, givenUp, Preparing, Taking
  <1>6. CASE p = "finishing"
    <2>1. headOf(p) = "finish"
      BY <1>6 DEF headOf, Heads
    <2>2. QED BY <1>6, <2>1 DEF Heads, givenUp, Preparing, Taking
  <1>7. QED BY <1>1, <1>2, <1>3, <1>4, <1>5, <1>6

\* A step may be taken again from its head, and given up, from wherever it stood.
LEMMA Retreats ==
    ASSUME NEW p \in Heads \cup MidStep, NEW j, NEW caps, NEW start, NEW end, NEW ds,
           RunOk(p, j, caps, start, end, ds)
    PROVE  /\ RunOk(headOf(p), j, caps, start, end, ds) /\ headOf(p) \in Pcs
           /\ RunOk(givenUp(p), j, caps, start, end, ds) /\ givenUp(p) \in Pcs
  <1>1. /\ headOf(p) \in Early <=> p \in Early
        /\ headOf(p) \in Started <=> p \in Started
        /\ headOf(p) \notin {"scanning", "filing", "asking", "startEnd"}
    BY HeadsAre DEF Early, Started, Preparing, Taking, Heads, MidStep
  <1>2. PICK h : h = headOf(p)
    OBVIOUS
  <1>3. PICK g : g = givenUp(p)
    OBVIOUS
  <1>4. /\ h \in Heads /\ (h \in Early <=> p \in Early) /\ (h \in Started <=> p \in Started)
        /\ (h \in Taking <=> p \in Taking)
        /\ (h \in Taking \cup {"finish", "finishing"} <=> p \in Taking \cup {"finish", "finishing"})
        /\ h \notin {"scanning", "filing", "asking", "startEnd"}
        /\ (h = "reads" => p = "reads")
    BY <1>1, <1>2, HeadsAre DEF Taking, Heads
  <1>5. RunOk(h, j, caps, start, end, ds)
    BY <1>4 DEF RunOk
  <1>6. /\ g \in {"over", "failure"} /\ (g = "failure" => p \in Started)
    BY <1>3, HeadsAre DEF Started, Preparing
  <1>7. RunOk(g, j, caps, start, end, ds)
    <2>1. /\ g \notin Early /\ g \notin Taking /\ g \notin Taking \cup {"finish", "finishing"}
          /\ g \notin {"scanning", "filing", "asking", "startEnd", "reads"} /\ (g \in Started => p \in Started)
      BY <1>6 DEF Early, Taking, Preparing, Started, Heads, MidStep
    <2>2. QED BY <2>1 DEF RunOk
  <1>8. QED BY <1>2, <1>3, <1>4, <1>5, <1>6, <1>7 DEF Pcs, Heads


-----------------------------------------------------------------------------
(* One run moves *)

\* What the step of one run keeps: only its own rows change, and no content is forgotten.
Moved(r, c, s, e, ds) ==
    /\ capRows' = [capRows EXCEPT ![r] = c] /\ c \in [1..MaxCaptures -> Nat]
    /\ startRow' = [startRow EXCEPT ![r] = s] /\ s \in SUBSET Nat
    /\ endRow' = [endRow EXCEPT ![r] = e] /\ e \in EndRows
    /\ docs' = ds /\ ds \in [Docs -> DocStates]
    /\ \A d \in Docs : docs[d] # "none" => ds[d] # "none"
    /\ w' \in [Runs -> WorkerType] /\ (\A q \in Runs : WorkerOk(w'[q])) /\ creds' = creds /\ version' = version

\* A row stays good as more becomes known of contents.
LEMMA KnownContents ==
    ASSUME NEW p, NEW j \in JobType, NEW caps, NEW start, NEW end, NEW ds, NEW es,
           \A d \in Docs : ds[d] # "none" => es[d] # "none",
           RunOk(p, j, caps, start, end, ds), p \in Pcs
    PROVE  RunOk(p, j, caps, start, end, es)
  <1>1. \A i \in 1..Len(j.captures) : j.captures[i] \in Docs
    BY DEF JobType
  <1>2. \A i \in 1..MaxCaptures : CaptureOk(caps[i], i, j, es)
    <2>1. SUFFICES ASSUME NEW i \in 1..MaxCaptures PROVE CaptureOk(caps[i], i, j, es)
      OBVIOUS
    <2>2. CaptureOk(caps[i], i, j, ds)
      BY DEF RunOk
    <2>3. QED BY <1>1, <2>2, PortalAssumption DEF CaptureOk, JobType
  <1>3. p \in Taking => j.captures[j.done + 1] \in Docs
    <2>1. p \in Taking => j.done < Len(j.captures)
      BY DEF RunOk
    <2>2. j.done \in Nat /\ Len(j.captures) \in Nat
      BY DEF JobType
    <2>3. QED BY <2>1, <2>2, <1>1
  <1>4. "scanning" \in Taking /\ "filing" \in Taking
    BY DEF Taking
  <1>5. p = "scanning" => es[j.captures[j.done + 1]] # "none"
    BY <1>3, <1>4 DEF RunOk
  <1>6. p = "filing" => (j.captures[j.done + 1] \in Refused \/ es[j.captures[j.done + 1]] # "none")
    BY <1>3, <1>4 DEF RunOk
  <1>7. QED BY <1>2, <1>5, <1>6 DEF RunOk

\* One run goes to p and knows j.
LEMMA OneRunMoves ==
    ASSUME PortalInv, NEW r \in Runs, NEW p \in Pcs, NEW j \in JobType, NEW c, NEW s, NEW e, NEW ds,
           pc' = [pc EXCEPT ![r] = p], job' = [job EXCEPT ![r] = j],
           Moved(r, c, s, e, ds), RunOk(p, j, c, s, e, ds),
           p = "over" => pc[r] \in Preparing \/ e # "none"
    PROVE  PortalInv' /\ OutcomeStep
  <1>1. PortalType'
    BY DEF PortalInv, PortalType, RowType, Moved
  <1>2. ASSUME NEW q \in Runs PROVE RunOk(pc[q], job[q], capRows[q], startRow[q], endRow[q], docs)'
    <2>1. CASE q = r
      <3>1. /\ pc'[q] = p /\ job'[q] = j /\ capRows'[q] = c /\ startRow'[q] = s /\ endRow'[q] = e /\ docs' = ds
        BY <2>1 DEF PortalInv, PortalType, RowType, Moved
      <3>2. QED BY <3>1
    <2>2. CASE q # r
      <3>1. /\ pc'[q] = pc[q] /\ job'[q] = job[q] /\ capRows'[q] = capRows[q] /\ startRow'[q] = startRow[q]
            /\ endRow'[q] = endRow[q] /\ docs' = ds
        BY <2>2 DEF PortalInv, PortalType, RowType, Moved
      <3>2. /\ RunOk(pc[q], job[q], capRows[q], startRow[q], endRow[q], docs) /\ job[q] \in JobType /\ pc[q] \in Pcs
        BY DEF PortalInv, PortalType
      <3>3. RunOk(pc[q], job[q], capRows[q], startRow[q], endRow[q], ds)
        BY <3>2, KnownContents DEF Moved
      <3>4. QED BY <3>1, <3>3
    <2>3. QED BY <2>1, <2>2
  <1>3. \A q \in Runs : WorkerOk(w'[q])
    BY DEF PortalInv, Moved
  <1>4. PortalInv'
    BY <1>1, <1>2, <1>3 DEF PortalInv
  <1>5. OutcomeStep
    <2>1. SUFFICES ASSUME NEW q \in Runs, pc[q] \notin {"unasked", "over"}, headOf(pc[q]) # "prepare", pc'[q] = "over"
                   PROVE  endRow'[q] # "none"
      BY DEF OutcomeStep
    <2>2. q = r /\ p = "over" /\ endRow'[q] = e
      BY <2>1 DEF PortalInv, PortalType, RowType, Moved
    <2>3. pc[q] \in Heads \cup MidStep
      BY <2>1 DEF PortalInv, PortalType, Pcs
    <2>4. pc[q] \notin Preparing
      BY <2>1, <2>3, HeadsAre
    <2>5. QED BY <2>2, <2>4
  <1>6. QED BY <1>4, <1>5

\* A step that fails, whether or not it is tried again.
LEMMA StepFails ==
    ASSUME PortalInv, NEW r \in Runs, pc[r] \in Heads \cup MidStep, NEW c, NEW s, NEW e, NEW ds,
           Retry(r) \/ Settled(r),
           Moved(r, c, s, e, ds), RunOk(pc[r], job[r], c, s, e, ds),
           pc[r] \in {"failure", "reads"} => e # "none"
    PROVE  PortalInv' /\ OutcomeStep
  <1>1. PICK p : pc' = [pc EXCEPT ![r] = p] /\ p \in {headOf(pc[r]), givenUp(pc[r])}
    <2>1. CASE Retry(r)
      <3>1. CASE attempt[r] < MaxAttempts
        <4>1. pc' = [pc EXCEPT ![r] = headOf(pc[r])]
          BY <2>1, <3>1 DEF Retry
        <4>2. QED BY <4>1
      <3>2. CASE ~(attempt[r] < MaxAttempts)
        <4>1. pc' = [pc EXCEPT ![r] = givenUp(pc[r])]
          BY <2>1, <3>2 DEF Retry
        <4>2. QED BY <4>1
      <3>3. QED BY <3>1, <3>2
    <2>2. CASE Settled(r)
      BY <2>2 DEF Settled
    <2>3. QED BY <2>1, <2>2
  <1>2. job' = [job EXCEPT ![r] = job[r]] /\ job[r] \in JobType
    BY DEF Retry, Settled, PortalInv, PortalType
  <1>3. PICK t : t = pc[r]
    OBVIOUS
  <1>4. p \in Pcs /\ RunOk(p, job[r], c, s, e, ds)
    BY <1>1, <1>3, Retreats
  <1>5. p = "over" => pc[r] \in Preparing \/ e # "none"
    <2>1. p = "over" => pc[r] \in Preparing \cup {"failure", "reads"}
      BY <1>1, HeadsAre DEF Heads
    <2>2. QED BY <2>1
  <1>6. PICK j : j = job[r]
    OBVIOUS
  <1>7. QED BY <1>1, <1>2, <1>4, <1>5, <1>6, OneRunMoves

\* The step's last call returns, or its answer is lost.
LEMMA StepReturns ==
    ASSUME PortalInv, NEW r \in Runs, pc[r] \in Heads \cup MidStep, NEW c, NEW s, NEW e, NEW ds,
           NEW next \in Pcs, NEW progress \in JobType, Returns(r, next, progress),
           Moved(r, c, s, e, ds), RunOk(pc[r], job[r], c, s, e, ds), RunOk(next, progress, c, s, e, ds),
           pc[r] \in {"failure", "reads"} => e # "none",
           next = "over" => pc[r] \in Preparing \/ e # "none"
    PROVE  PortalInv' /\ OutcomeStep
  <1>1. CASE Retry(r)
    BY <1>1, StepFails
  <1>2. CASE pc' = [pc EXCEPT ![r] = next] /\ job' = [job EXCEPT ![r] = progress]
    BY <1>2, OneRunMoves
  <1>3. QED BY <1>1, <1>2 DEF Returns


\* What is known of one run before its step.
LEMMA RunFacts ==
    ASSUME PortalInv, NEW r \in Runs
    PROVE  /\ pc[r] \in Pcs /\ job[r] \in JobType /\ capRows[r] \in [1..MaxCaptures -> Nat]
           /\ startRow[r] \in SUBSET Nat /\ endRow[r] \in EndRows /\ docs \in [Docs -> DocStates]
           /\ w \in [Runs -> WorkerType] /\ (\A q \in Runs : WorkerOk(w[q])) /\ latest \in Nat /\ version \in Nat
           /\ RunOk(pc[r], job[r], capRows[r], startRow[r], endRow[r], docs)
           /\ capRows = [capRows EXCEPT ![r] = capRows[r]] /\ startRow = [startRow EXCEPT ![r] = startRow[r]]
           /\ endRow = [endRow EXCEPT ![r] = endRow[r]] /\ pc = [pc EXCEPT ![r] = pc[r]]
           /\ job = [job EXCEPT ![r] = job[r]]
  BY DEF PortalInv, PortalType, RowType, latest

\* A step that leaves every row alone.
LEMMA RowsStay ==
    ASSUME PortalInv, NEW r \in Runs, UNCHANGED <<rows, w, creds, version>>
    PROVE  Moved(r, capRows[r], startRow[r], endRow[r], docs)
  BY RunFacts DEF Moved, rows

\* A run that keeps what it captured is good wherever the conditions of its place hold.
LEMMA RunGoes ==
    ASSUME NEW p, NEW q, NEW j, NEW k, NEW caps, NEW start, NEW s, NEW end, NEW e, NEW ds,
           RunOk(p, j, caps, start, end, ds),
           k.captures = j.captures /\ k.done = j.done /\ k.result = j.result,
           q \in Early => p \in Early,
           q \in Taking => p \in Taking,
           q \in {"finish", "finishing"} => p \in Taking \cup {"finish", "finishing"},
           q = "scanning" => p = "scanning",
           q = "filing" => p \in {"scanning", "filing"},
           q \in {"asking", "startEnd"} => k.end \notin {"none", "go"},
           q \in Started => s # {},
           q = "reads" => e # "none"
    PROVE  RunOk(q, k, caps, s, e, ds)
  <1>1. \A i \in 1..MaxCaptures : CaptureOk(caps[i], i, k, ds)
    BY DEF RunOk, CaptureOk
  <1>2. /\ q \in Early => (k.result = "none" /\ k.captures = << >> /\ k.done = 0)
        /\ q \in Taking => k.done < Len(k.captures)
        /\ q \in Taking \cup {"finish", "finishing"} => k.result # "none"
    BY DEF RunOk
  <1>3. /\ q = "scanning" => ds[k.captures[k.done + 1]] # "none"
        /\ q = "filing" => (k.captures[k.done + 1] \in Refused \/ ds[k.captures[k.done + 1]] # "none")
    BY DEF RunOk
  <1>4. k.done <= Len(k.captures) /\ Len(k.captures) <= MaxCaptures
    BY DEF RunOk
  <1>5. QED BY <1>1, <1>2, <1>3, <1>4 DEF RunOk

-----------------------------------------------------------------------------
(* The steps before the worker has answered *)

\* A read is asked for.
LEMMA QueuedStep ==
    ASSUME PortalInv, NEW r \in Runs, NEW dry \in BOOLEAN, Queued(r, dry)
    PROVE  PortalInv' /\ OutcomeStep
  <1>1. PICK j : j = [job[r] EXCEPT !.dry = dry]
    OBVIOUS
  <1>2. j \in JobType /\ j.captures = job[r].captures /\ j.done = job[r].done /\ j.result = job[r].result
    BY <1>1, RunFacts DEF JobType
  <1>3. job' = [job EXCEPT ![r] = j] /\ pc' = [pc EXCEPT ![r] = "prepare"] /\ pc[r] = "unasked"
    BY <1>1, RunFacts DEF Queued, Goto
  <1>4. Moved(r, capRows[r], startRow[r], endRow[r], docs)
    BY RowsStay DEF Queued, store, worker
  <1>5. RunOk("prepare", j, capRows[r], startRow[r], endRow[r], docs)
    BY <1>2, <1>3, RunFacts, RunGoes DEF Early, Preparing, Taking, Started
  <1>6. "prepare" \in Pcs
    BY DEF Pcs, Heads
  <1>7. QED BY <1>2, <1>3, <1>4, <1>5, <1>6, OneRunMoves

\* The questions of `prepare` are asked.
LEMMA PrepareRunStep ==
    ASSUME PortalInv, NEW r \in Runs, PrepareRun(r)
    PROVE  PortalInv' /\ OutcomeStep
  <1>1. PICK v, d : job' = [job EXCEPT ![r].version = v, ![r].end = d] /\ v \in Nat /\ d \in Ends
    BY RunFacts DEF PrepareRun, versionOf, decideRun, Ends
  <1>2. PICK j : j = [job[r] EXCEPT !.version = v, !.end = d]
    OBVIOUS
  <1>3. j \in JobType /\ j.captures = job[r].captures /\ j.done = job[r].done /\ j.result = job[r].result
    BY <1>1, <1>2, RunFacts DEF JobType
  <1>4. job' = [job EXCEPT ![r] = j] /\ pc' = [pc EXCEPT ![r] = "preparing"] /\ pc[r] = "prepare"
    <2>1. job' = [job EXCEPT ![r] = j]
      BY <1>1, <1>2 DEF PortalInv, PortalType
    <2>2. QED BY <2>1 DEF PrepareRun, Goto
  <1>5. Moved(r, capRows[r], startRow[r], endRow[r], docs)
    BY RowsStay DEF PrepareRun, store, worker
  <1>6. RunOk("preparing", j, capRows[r], startRow[r], endRow[r], docs)
    BY <1>3, <1>4, RunFacts, RunGoes DEF Early, Preparing, Taking, Started
  <1>7. "preparing" \in Pcs
    BY DEF Pcs, MidStep
  <1>8. QED BY <1>3, <1>4, <1>5, <1>6, <1>7, OneRunMoves

\* The start row is written, or refused.
LEMMA RecordRunStartStep ==
    ASSUME PortalInv, NEW r \in Runs, RecordRunStart(r)
    PROVE  PortalInv' /\ OutcomeStep
  <1>1. pc[r] = "preparing" /\ pc[r] \in Heads \cup MidStep /\ pc[r] \in Preparing
    BY DEF RecordRunStart, MidStep, Preparing
  <1>2. CASE ~mayStart(r, job[r].version)
    <2>1. Settled(r) /\ Moved(r, capRows[r], startRow[r], endRow[r], docs)
      BY <1>2, RowsStay DEF RecordRunStart, store, worker, rows
    <2>2. QED BY <1>1, <2>1, RunFacts, StepFails
  <1>3. CASE mayStart(r, job[r].version)
    <2>1. PICK s : s = {job[r].version}
      OBVIOUS
    <2>2. s \in SUBSET Nat /\ s # {}
      BY <2>1, RunFacts DEF JobType
    <2>3. Moved(r, capRows[r], s, endRow[r], docs)
      BY <1>3, <2>1, <2>2, RunFacts DEF Moved, RecordRunStart, store, worker
    <2>4. ASSUME NEW p \in {"preparing", "prepareEnd", "start"}
          PROVE  RunOk(p, job[r], capRows[r], s, endRow[r], docs) /\ p \in Pcs
      BY <1>1, <2>2, RunFacts, RunGoes DEF Early, Preparing, Taking, Started, Pcs, Heads, MidStep
    <2>5. CASE job[r].end = "go"
      <3>1. Returns(r, "start", job[r])
        BY <1>3, <2>5 DEF RecordRunStart
      <3>2. QED BY <1>1, <2>3, <2>4, <3>1, RunFacts, StepReturns
    <2>6. CASE job[r].end # "go"
      <3>1. pc' = [pc EXCEPT ![r] = "prepareEnd"] /\ job' = [job EXCEPT ![r] = job[r]]
        BY <1>3, <2>6, RunFacts DEF RecordRunStart, Goto
      <3>2. QED BY <1>1, <2>3, <2>4, <3>1, RunFacts, OneRunMoves
    <2>7. QED BY <2>5, <2>6
  <1>4. QED BY <1>2, <1>3

\* An outcome is written before the worker was asked.
LEMMA EndBeforeWorkerStep ==
    ASSUME PortalInv, NEW r \in Runs, EndBeforeWorker(r)
    PROVE  PortalInv' /\ OutcomeStep
  <1>1. pc[r] \in {"prepareEnd", "startEnd"} /\ pc[r] \in Heads \cup MidStep
    BY DEF EndBeforeWorker, MidStep
  <1>2. CASE ~mayEnd(r, job[r].end)
    <2>1. Settled(r) /\ Moved(r, capRows[r], startRow[r], endRow[r], docs)
      BY <1>2, RowsStay DEF EndBeforeWorker, store, worker, rows
    <2>2. QED BY <1>1, <2>1, RunFacts, StepFails
  <1>3. CASE mayEnd(r, job[r].end)
    <2>1. PICK e : e = job[r].end
      OBVIOUS
    <2>2. e \in EndRows /\ (pc[r] = "startEnd" => e # "none")
      BY <2>1, RunFacts DEF JobType, EndRows, RunOk
    <2>3. Moved(r, capRows[r], startRow[r], e, docs)
      BY <1>3, <2>1, <2>2, RunFacts DEF Moved, EndBeforeWorker, store, worker
    <2>4. RunOk(pc[r], job[r], capRows[r], startRow[r], e, docs)
      BY <1>1, RunFacts DEF RunOk
    <2>5. RunOk("over", job[r], capRows[r], startRow[r], e, docs) /\ "over" \in Pcs
      BY RunFacts, RunGoes DEF Early, Preparing, Taking, Started, Pcs, Heads, MidStep
    <2>6. Returns(r, "over", job[r])
      BY <1>3 DEF EndBeforeWorker
    <2>7. "prepareEnd" \in Preparing
      BY DEF Preparing
    <2>8. QED BY <1>1, <2>2, <2>3, <2>4, <2>5, <2>6, <2>7, RunFacts, StepReturns
  <1>4. QED BY <1>2, <1>3


\* The questions of `start` are asked.
LEMMA StartRunStep ==
    ASSUME PortalInv, NEW r \in Runs, StartRun(r)
    PROVE  PortalInv' /\ OutcomeStep
  <1>1. PICK d : /\ job' = [job EXCEPT ![r].end = d, ![r].cred = latest] /\ d \in Ends \ {"none"}
                 /\ Goto(r, IF d = "go" THEN "starting" ELSE "asking")
    <2>1. decideRun(job[r].version) \in Ends \ {"none"} /\ "refused" \in Ends \ {"none"}
      BY DEF decideRun, Ends
    <2>2. PICK d : d = IF permissionRefusal THEN "refused" ELSE decideRun(job[r].version)
      OBVIOUS
    <2>3. d \in Ends \ {"none"}
      BY <2>1, <2>2
    <2>4. job' = [job EXCEPT ![r].end = d, ![r].cred = latest] /\ Goto(r, IF d = "go" THEN "starting" ELSE "asking")
      BY <2>2 DEF StartRun
    <2>5. QED BY <2>3, <2>4
  <1>2. PICK p : p = IF d = "go" THEN "starting" ELSE "asking"
    OBVIOUS
  <1>3. PICK j : j = [job[r] EXCEPT !.end = d, !.cred = latest]
    OBVIOUS
  <1>4. /\ j \in JobType /\ j.captures = job[r].captures /\ j.done = job[r].done /\ j.result = job[r].result
        /\ j.end = d
    BY <1>1, <1>3, RunFacts DEF JobType
  <1>5. job' = [job EXCEPT ![r] = j]
    BY <1>1, <1>3 DEF PortalInv, PortalType
  <1>6. pc' = [pc EXCEPT ![r] = p] /\ pc[r] = "start"
    BY <1>1, <1>2 DEF StartRun, Goto
  <1>7. Moved(r, capRows[r], startRow[r], endRow[r], docs)
    BY RowsStay DEF StartRun, store, worker
  <1>8. p \in {"starting", "asking"} /\ (p = "asking" => j.end \notin {"none", "go"}) /\ startRow[r] # {}
    BY <1>1, <1>2, <1>4, <1>6, RunFacts DEF RunOk, Started, Preparing, Heads
  <1>9. RunOk(p, j, capRows[r], startRow[r], endRow[r], docs) /\ p \in Pcs
    BY <1>4, <1>6, <1>8, RunFacts, RunGoes DEF Early, Preparing, Taking, Started, Pcs, MidStep
  <1>10. QED BY <1>4, <1>5, <1>6, <1>7, <1>8, <1>9, OneRunMoves

\* A step that leaves the rows alone and keeps what the run knows of its captures.
LEMMA QuietReturn ==
    ASSUME PortalInv, NEW r \in Runs, pc[r] \in {"starting", "asking", "poll"}, UNCHANGED <<rows, creds, version>>,
           w' \in [Runs -> WorkerType], \A q \in Runs : WorkerOk(w'[q]),
           NEW next \in {"poll", "result"}, NEW j \in JobType,
           j.captures = job[r].captures /\ j.done = job[r].done /\ j.result = job[r].result,
           Returns(r, next, j)
    PROVE  PortalInv' /\ OutcomeStep
  <1>1. Moved(r, capRows[r], startRow[r], endRow[r], docs)
    BY RunFacts DEF Moved, rows
  <1>2. startRow[r] # {}
    BY RunFacts DEF RunOk, Started, Preparing, Heads, MidStep
  <1>3. RunOk(next, j, capRows[r], startRow[r], endRow[r], docs) /\ next \in Pcs
    BY <1>2, RunFacts, RunGoes DEF Early, Preparing, Taking, Started, Pcs, Heads
  <1>4. pc[r] \in Heads \cup MidStep /\ pc[r] \notin {"failure", "reads"}
    BY DEF Heads, MidStep
  <1>5. QED BY <1>1, <1>3, <1>4, RunFacts, StepReturns

\* A step that fails before the outcome is written.
LEMMA QuietFailure ==
    ASSUME PortalInv, NEW r \in Runs, pc[r] \in (Heads \cup MidStep) \ {"failure", "reads"},
           UNCHANGED <<rows, w, creds, version>>,
           Retry(r) \/ Settled(r)
    PROVE  PortalInv' /\ OutcomeStep
  BY RowsStay, RunFacts, StepFails

\* The worker is asked to start the run.
LEMMA SendStartStep ==
    ASSUME PortalInv, NEW r \in Runs, SendStart(r)
    PROVE  PortalInv' /\ OutcomeStep
  <1>1. /\ pc[r] = "starting" /\ UNCHANGED <<rows, creds, version>>
        /\ pc[r] \in (Heads \cup MidStep) \ {"failure", "reads"}
    BY DEF SendStart, store, MidStep
  <1>2. w[r] \in WorkerType /\ job[r] \in JobType /\ w \in [Runs -> WorkerType] /\ (\A q \in Runs : WorkerOk(w[q]))
    BY RunFacts
  <1>3. CASE w[r].state # "unknown"
    <2>1. Returns(r, followed(w[r].state), job[r]) /\ w' = w
      BY <1>3 DEF SendStart, worker
    <2>2. followed(w[r].state) \in {"poll", "result"}
      BY DEF followed
    <2>3. PICK n : n = followed(w[r].state)
      OBVIOUS
    <2>4. QED BY <1>1, <1>2, <2>1, <2>2, <2>3, QuietReturn
  <1>4. CASE w[r].state = "unknown" /\ inFlight # NoRun
    <2>1. Retry(r) /\ w' = w
      BY <1>4 DEF SendStart, worker
    <2>2. QED BY <1>1, <2>1, QuietFailure
  <1>5. CASE w[r].state = "unknown" /\ inFlight = NoRun
    <2>1. PICK v, n : w' = [w EXCEPT ![r] = v] /\ Returns(r, n, job[r]) /\ n \in {"poll", "result"}
                      /\ v \in {[Unheld EXCEPT !.state = "running", !.cred = job[r].cred],
                                [Unheld EXCEPT !.state = "done", !.result = "run_failed"]}
      BY <1>5 DEF SendStart
    <2>2. WorkerOk(v)
      <3>1. Len(<<>>) = 0 /\ << >> \in Seq(Docs) /\ MaxCaptures \in Nat
        BY PortalAssumption
      <3>2. v \in WorkerType /\ v.captures = << >> /\ (v.state = "done" => v.result # "none")
        <4>1. CASE v = [Unheld EXCEPT !.state = "running", !.cred = job[r].cred]
          <5>1. job[r].cred \in Nat
            BY <1>2 DEF JobType
          <5>2. v = [state |-> "running", cred |-> job[r].cred, result |-> "none", captures |-> << >>, held |-> TRUE]
            BY <4>1 DEF Unheld
          <5>3. QED BY <3>1, <5>1, <5>2 DEF WorkerType, Results
        <4>2. CASE v = [Unheld EXCEPT !.state = "done", !.result = "run_failed"]
          <5>1. v = [state |-> "done", cred |-> 0, result |-> "run_failed", captures |-> << >>, held |-> TRUE]
            BY <4>2 DEF Unheld
          <5>2. QED BY <3>1, <5>1 DEF WorkerType, Results
        <4>3. QED BY <2>1, <4>1, <4>2
      <3>3. QED BY <3>1, <3>2 DEF WorkerOk
    <2>3. w' \in [Runs -> WorkerType] /\ (\A q \in Runs : WorkerOk(w'[q]))
      BY <1>2, <2>1, <2>2 DEF WorkerOk
    <2>4. QED BY <1>1, <1>2, <2>1, <2>3, QuietReturn
  <1>6. QED BY <1>3, <1>4, <1>5

\* The worker is asked whether it holds the run already.
LEMMA OnWorkerAlreadyStep ==
    ASSUME PortalInv, NEW r \in Runs, OnWorkerAlready(r)
    PROVE  PortalInv' /\ OutcomeStep
  <1>1. pc[r] = "asking" /\ UNCHANGED <<rows, w, creds, version>>
    BY DEF OnWorkerAlready, store, worker
  <1>2. CASE w[r].state = "unknown"
    <2>1. pc' = [pc EXCEPT ![r] = "startEnd"] /\ job' = [job EXCEPT ![r] = job[r]]
      BY <1>2, RunFacts DEF OnWorkerAlready, Goto
    <2>2. job[r].end \notin {"none", "go"} /\ startRow[r] # {}
      BY <1>1, RunFacts DEF RunOk, Started, Preparing, MidStep
    <2>3. RunOk("startEnd", job[r], capRows[r], startRow[r], endRow[r], docs) /\ "startEnd" \in Pcs
      BY <1>1, <2>2, RunFacts, RunGoes DEF Early, Preparing, Taking, Pcs, MidStep
    <2>4. QED BY <1>1, <2>1, <2>3, RowsStay, RunFacts, OneRunMoves
  <1>3. CASE w[r].state # "unknown"
    <2>1. PICK j, n : j = [job[r] EXCEPT !.cred = latest] /\ n = followed(w[r].state)
      OBVIOUS
    <2>2. j \in JobType /\ j.captures = job[r].captures /\ j.done = job[r].done /\ j.result = job[r].result
      BY <2>1, RunFacts DEF JobType
    <2>3. Returns(r, n, j) /\ n \in {"poll", "result"}
      BY <1>3, <2>1 DEF OnWorkerAlready, followed
    <2>4. QED BY <1>1, <2>2, <2>3, RunFacts, QuietReturn
  <1>4. QED BY <1>2, <1>3

\* Polling ends: the worker is done, has lost the run, or is too late.
LEMMA PollStep ==
    ASSUME PortalInv, NEW r \in Runs, PollRun(r) \/ TimedOut(r)
    PROVE  PortalInv' /\ OutcomeStep
  <1>1. /\ pc[r] = "poll" /\ UNCHANGED <<rows, w, creds, version>>
        /\ pc[r] \in (Heads \cup MidStep) \ {"failure", "reads"}
    BY DEF PollRun, TimedOut, store, worker, Heads
  <1>2. Settled(r) \/ Returns(r, "result", job[r])
    BY DEF PollRun, TimedOut
  <1>3. CASE Settled(r)
    BY <1>1, <1>3, QuietFailure
  <1>4. CASE Returns(r, "result", job[r])
    BY <1>1, <1>4, RunFacts, QuietReturn
  <1>5. QED BY <1>2, <1>3, <1>4

\* The process dies between two calls.
LEMMA DiesStep ==
    ASSUME PortalInv, NEW r \in Runs, Dies(r)
    PROVE  PortalInv' /\ OutcomeStep
  BY QuietFailure DEF Dies, store, worker, MidStep

\* What the worker found is fetched.
LEMMA FetchResultStep ==
    ASSUME PortalInv, NEW r \in Runs, FetchResult(r)
    PROVE  PortalInv' /\ OutcomeStep
  <1>1. /\ pc[r] = "result" /\ UNCHANGED <<rows, w, creds, version>>
        /\ pc[r] \in (Heads \cup MidStep) \ {"failure", "reads"}
    BY DEF FetchResult, store, worker, Heads
  <1>2. CASE w[r].state # "done"
    <2>1. Settled(r)
      BY <1>2 DEF FetchResult
    <2>2. QED BY <1>1, <2>1, QuietFailure
  <1>3. CASE w[r].state = "done"
    <2>1. PICK j : j = [job[r] EXCEPT !.result = w[r].result, !.captures = w[r].captures]
      OBVIOUS
    <2>2. PICK n : n = IF w[r].captures = <<>> THEN "finish" ELSE "capture"
      OBVIOUS
    <2>3. Returns(r, n, j)
      BY <1>3, <2>1, <2>2 DEF FetchResult
    <2>4. /\ job[r].captures = << >> /\ job[r].done = 0 /\ job[r].result = "none" /\ startRow[r] # {}
          /\ \A i \in 1..MaxCaptures : CaptureOk(capRows[r][i], i, job[r], docs)
      BY <1>1, RunFacts DEF RunOk, Early, Started, Preparing, Heads
    <2>5. /\ j \in JobType /\ j.captures = w[r].captures /\ j.done = 0 /\ j.result = w[r].result
          /\ j.result # "none" /\ Len(j.captures) <= MaxCaptures /\ Len(j.captures) \in Nat
      <3>1. WorkerOk(w[r]) /\ job[r] \in JobType
        BY RunFacts
      <3>2. /\ w[r].captures \in Seq(Docs) /\ Len(w[r].captures) <= MaxCaptures /\ w[r].result \in Results
            /\ w[r].result # "none"
        BY <1>3, <3>1 DEF WorkerOk, WorkerType
      <3>3. j \in JobType /\ j.captures = w[r].captures /\ j.done = job[r].done /\ j.result = w[r].result
        BY <2>1, <3>1, <3>2 DEF JobType
      <3>4. QED BY <2>4, <3>2, <3>3
    <2>6. \A i \in 1..MaxCaptures : CaptureOk(capRows[r][i], i, j, docs)
      <3>1. SUFFICES ASSUME NEW i \in 1..MaxCaptures PROVE CaptureOk(capRows[r][i], i, j, docs)
        OBVIOUS
      <3>2. capRows[r][i] = 0
        BY <2>4, PortalAssumption DEF CaptureOk
      <3>3. QED BY <3>2 DEF CaptureOk
    <2>7. n \in {"finish", "capture"} /\ (n = "capture" => 0 < Len(j.captures)) /\ n \in Pcs
      BY <2>2, <2>5 DEF Pcs, Heads, JobType
    <2>8. RunOk(n, j, capRows[r], startRow[r], endRow[r], docs)
      <3>1. n \notin Early /\ n \notin {"scanning", "filing", "asking", "startEnd", "reads"}
        BY <2>7 DEF Early, Preparing
      <3>2. QED BY <2>4, <2>5, <2>6, <2>7, <3>1 DEF RunOk, Taking
    <2>9. QED BY <1>1, <2>3, <2>5, <2>7, <2>8, RowsStay, RunFacts, StepReturns
  <1>4. QED BY <1>2, <1>3


-----------------------------------------------------------------------------
(* Captures *)

\* The capture a run is at.
LEMMA CaptureFacts ==
    ASSUME PortalInv, NEW r \in Runs, pc[r] \in Taking
    PROVE  /\ index(r) \in 1..MaxCaptures /\ index(r) \in 1..Len(job[r].captures) /\ bytes(r) \in Docs
           /\ job[r].done \in Nat /\ index(r) = job[r].done + 1 /\ bytes(r) = job[r].captures[job[r].done + 1]
           /\ startRow[r] # {} /\ job[r].result # "none" /\ Len(job[r].captures) \in Nat
           /\ pc[r] \in (Heads \cup MidStep) \ {"failure", "reads"}
           /\ CaptureOk(capRows[r][index(r)], index(r), job[r], docs)
  <1>1. job[r].done \in Nat /\ job[r].captures \in Seq(Docs) /\ Len(job[r].captures) \in Nat
    BY RunFacts DEF JobType
  <1>2. pc[r] \in Started /\ pc[r] \in (Heads \cup MidStep) \ {"failure", "reads"}
    BY DEF Taking, Started, Heads, MidStep, Preparing
  <1>3. /\ job[r].done < Len(job[r].captures) /\ Len(job[r].captures) <= MaxCaptures
        /\ startRow[r] # {} /\ job[r].result # "none"
    BY <1>2, RunFacts DEF RunOk
  <1>4. index(r) \in 1..MaxCaptures /\ index(r) \in 1..Len(job[r].captures)
    BY <1>1, <1>3, PortalAssumption DEF index
  <1>5. CaptureOk(capRows[r][index(r)], index(r), job[r], docs)
    BY <1>4, RunFacts DEF RunOk
  <1>6. QED BY <1>1, <1>2, <1>3, <1>4, <1>5 DEF index, bytes

\* A run at a capture whose bytes were refused or are kept goes on with it.
LEMMA CaptureGoes ==
    ASSUME NEW p \in Taking, NEW q \in {"scanning", "filing"}, NEW j, NEW k, NEW caps, NEW cs, NEW start, NEW end,
           NEW ds, NEW es, RunOk(p, j, caps, start, end, ds),
           k.captures = j.captures /\ k.done = j.done /\ k.result = j.result, start # {},
           \A i \in 1..MaxCaptures : CaptureOk(cs[i], i, k, es),
           es[k.captures[k.done + 1]] # "none" \/ (q = "filing" /\ k.captures[k.done + 1] \in Refused)
    PROVE  RunOk(q, k, cs, start, end, es)
  <1>1. /\ k.done < Len(k.captures) /\ k.result # "none" /\ k.done <= Len(k.captures) /\ Len(k.captures) <= MaxCaptures
    BY DEF RunOk
  <1>2. q \notin Early /\ q \notin {"asking", "startEnd", "reads"} /\ q \in Pcs
    BY DEF Early, Preparing, Pcs, MidStep
  <1>3. QED BY <1>1, <1>2 DEF RunOk

\* A capture is fetched and taken in.
LEMMA IngestCaptureStep ==
    ASSUME PortalInv, NEW r \in Runs, IngestCapture(r)
    PROVE  PortalInv' /\ OutcomeStep
  <1>1. /\ pc[r] = "capture" /\ pc[r] \in Taking /\ UNCHANGED <<startRow, endRow, w, creds, version>>
    BY DEF IngestCapture, Taking, store, worker
  <1>2. \A i \in 1..MaxCaptures : CaptureOk(capRows[r][i], i, job[r], docs)
    BY RunFacts DEF RunOk
  <1>3. CASE Settled(r) /\ UNCHANGED <<capRows, docs>>
    <2>1. UNCHANGED rows
      BY <1>3 DEF IngestCapture, rows
    <2>2. QED BY <1>1, <1>3, <2>1, CaptureFacts, QuietFailure
  <1>4. CASE /\ bytes(r) \in Refused \/ docs[bytes(r)] # "none"
             /\ job' = [job EXCEPT ![r].rowWritten = FALSE]
             /\ Goto(r, IF bytes(r) \in Refused THEN "filing" ELSE "scanning")
             /\ UNCHANGED <<capRows, docs>>
    <2>1. PICK j, p : /\ j = [job[r] EXCEPT !.rowWritten = FALSE]
                      /\ p = IF bytes(r) \in Refused THEN "filing" ELSE "scanning"
      OBVIOUS
    <2>2. j \in JobType /\ j.captures = job[r].captures /\ j.done = job[r].done /\ j.result = job[r].result
      BY <2>1, RunFacts DEF JobType
    <2>3. job' = [job EXCEPT ![r] = j]
      BY <1>4, <2>1 DEF PortalInv, PortalType
    <2>4. pc' = [pc EXCEPT ![r] = p] /\ p \in {"scanning", "filing"} /\ p \in Pcs
      BY <1>4, <2>1 DEF Goto, Pcs, MidStep
    <2>5. docs[j.captures[j.done + 1]] # "none" \/ (p = "filing" /\ j.captures[j.done + 1] \in Refused)
      BY <1>1, <1>4, <2>1, <2>2, CaptureFacts
    <2>6. \A i \in 1..MaxCaptures : CaptureOk(capRows[r][i], i, j, docs)
      BY <1>2, <2>2 DEF CaptureOk
    <2>7. RunOk(p, j, capRows[r], startRow[r], endRow[r], docs)
      BY <1>1, <2>2, <2>4, <2>5, <2>6, RunFacts, CaptureFacts, CaptureGoes
    <2>8. Moved(r, capRows[r], startRow[r], endRow[r], docs)
      BY <1>1, <1>4, RunFacts DEF Moved
    <2>9. QED BY <2>2, <2>3, <2>4, <2>7, <2>8, OneRunMoves
  <1>5. CASE /\ bytes(r) \notin Refused /\ docs[bytes(r)] = "none"
             /\ docs' = [docs EXCEPT ![bytes(r)] = "unscanned"]
             /\ capRows' = [capRows EXCEPT ![r][index(r)] = @ + 1]
             /\ job' = [job EXCEPT ![r].rowWritten = TRUE]
             /\ Goto(r, "scanning")
    <2>1. PICK j, c, ds : /\ j = [job[r] EXCEPT !.rowWritten = TRUE]
                          /\ c = [capRows[r] EXCEPT ![index(r)] = 1]
                          /\ ds = [docs EXCEPT ![bytes(r)] = "unscanned"]
      OBVIOUS
    <2>2. j \in JobType /\ j.captures = job[r].captures /\ j.done = job[r].done /\ j.result = job[r].result
      BY <2>1, RunFacts DEF JobType
    <2>3. job' = [job EXCEPT ![r] = j]
      BY <1>5, <2>1 DEF PortalInv, PortalType
    <2>4. pc' = [pc EXCEPT ![r] = "scanning"] /\ "scanning" \in Pcs
      BY <1>5 DEF Goto, Pcs, MidStep
    <2>5. capRows[r][index(r)] = 0
      BY <1>1, <1>5, CaptureFacts DEF CaptureOk
    <2>6. capRows' = [capRows EXCEPT ![r] = c] /\ c \in [1..MaxCaptures -> Nat]
      BY <1>1, <1>5, <2>1, <2>5, CaptureFacts DEF PortalInv, PortalType, RowType
    <2>7. /\ ds \in [Docs -> DocStates] /\ docs' = ds /\ ds[bytes(r)] = "unscanned"
          /\ \A d \in Docs : docs[d] # "none" => ds[d] # "none"
      BY <1>1, <1>5, <2>1, CaptureFacts, RunFacts DEF DocStates
    <2>8. \A i \in 1..MaxCaptures : CaptureOk(c[i], i, j, ds)
      <3>1. SUFFICES ASSUME NEW i \in 1..MaxCaptures PROVE CaptureOk(c[i], i, j, ds)
        OBVIOUS
      <3>2. CASE i = index(r)
        <4>1. c[i] = 1 /\ i <= Len(j.captures) /\ j.captures[i] = bytes(r)
          <5>1. c[i] = 1
            BY <2>1, <3>2, RunFacts
          <5>2. index(r) \in 1..Len(job[r].captures) /\ bytes(r) = job[r].captures[index(r)]
            BY <1>1, CaptureFacts
          <5>3. QED BY <2>2, <3>2, <5>1, <5>2
        <4>2. QED BY <2>7, <4>1 DEF CaptureOk
      <3>3. CASE i # index(r)
        <4>1. c[i] = capRows[r][i]
          BY <2>1, <3>3, RunFacts
        <4>2. CASE c[i] = 0
          BY <4>2 DEF CaptureOk
        <4>3. CASE c[i] # 0
          <5>1. i <= Len(j.captures) /\ c[i] = 1 /\ (j.captures[i] \in Refused \/ docs[j.captures[i]] # "none")
            BY <1>2, <2>2, <4>1, <4>3 DEF CaptureOk
          <5>2. j.captures[i] \in Docs
            BY <2>2, <5>1 DEF JobType
          <5>3. QED BY <2>7, <5>1, <5>2 DEF CaptureOk
        <4>4. QED BY <4>2, <4>3
      <3>4. QED BY <3>2, <3>3
    <2>9. ds[j.captures[j.done + 1]] # "none"
      BY <1>1, <2>2, <2>7, CaptureFacts
    <2>10. RunOk("scanning", j, c, startRow[r], endRow[r], ds)
      BY <1>1, <2>2, <2>8, <2>9, RunFacts, CaptureFacts, CaptureGoes
    <2>11. Moved(r, c, startRow[r], endRow[r], ds)
      BY <1>1, <2>6, <2>7, RunFacts DEF Moved
    <2>12. QED BY <2>2, <2>3, <2>4, <2>10, <2>11, OneRunMoves
  <1>6. QED BY <1>3, <1>4, <1>5 DEF IngestCapture

\* A content is scanned.
LEMMA ScanStep ==
    ASSUME PortalInv, NEW r \in Runs, Scan(r)
    PROVE  PortalInv' /\ OutcomeStep
  <1>1. pc[r] = "scanning" /\ pc[r] \in Taking /\ UNCHANGED <<capRows, startRow, endRow, job, w, creds, version>>
    BY DEF Scan, Taking, store, worker
  <1>2. docs[bytes(r)] # "none"
    BY <1>1, RunFacts, CaptureFacts DEF RunOk
  <1>3. PICK x : docs' = [docs EXCEPT ![bytes(r)] = x] /\ x \in DocStates \ {"none"}
    <2>1. PICK judged \in BOOLEAN : docs' = [docs EXCEPT ![bytes(r)] = IF judged THEN scanOf(bytes(r)) ELSE @]
      BY DEF Scan
    <2>2. docs[bytes(r)] \in DocStates \ {"none"} /\ scanOf(bytes(r)) \in DocStates \ {"none"}
      BY <1>1, <1>2, RunFacts, CaptureFacts DEF scanOf, DocStates
    <2>3. docs' = [docs EXCEPT ![bytes(r)] = IF judged THEN scanOf(bytes(r)) ELSE docs[bytes(r)]]
      BY <2>1
    <2>4. QED BY <2>2, <2>3
  <1>4. PICK ds : ds = docs'
    OBVIOUS
  <1>5. /\ ds \in [Docs -> DocStates] /\ ds[bytes(r)] # "none"
        /\ \A d \in Docs : docs[d] # "none" => ds[d] # "none"
    BY <1>1, <1>3, <1>4, RunFacts, CaptureFacts
  <1>6. Moved(r, capRows[r], startRow[r], endRow[r], ds)
    BY <1>1, <1>4, <1>5, RunFacts DEF Moved
  <1>7. RunOk(pc[r], job[r], capRows[r], startRow[r], endRow[r], ds)
    BY <1>5, RunFacts, KnownContents
  <1>8. RunOk("filing", job[r], capRows[r], startRow[r], endRow[r], ds) /\ "filing" \in Pcs
    BY <1>1, <1>7, CaptureFacts, RunGoes DEF Early, Preparing, Taking, Pcs, MidStep
  <1>9. pc' = [pc EXCEPT ![r] = "filing"] /\ job' = [job EXCEPT ![r] = job[r]]
    BY <1>1, RunFacts DEF Scan, Goto
  <1>10. QED BY <1>6, <1>8, <1>9, RunFacts, OneRunMoves


\* A capture is filed with its row.
LEMMA RecordCaptureStep ==
    ASSUME PortalInv, NEW r \in Runs, RecordCapture(r)
    PROVE  PortalInv' /\ OutcomeStep
  <1>1. pc[r] = "filing" /\ pc[r] \in Taking /\ UNCHANGED <<docs, startRow, endRow, w, creds, version>>
    BY DEF RecordCapture, Taking, store, worker
  <1>2. CASE capRows[r][index(r)] = 0 /\ ~mayCapture(r)
    <2>1. Settled(r) /\ UNCHANGED rows
      BY <1>2 DEF RecordCapture, rows
    <2>2. QED BY <1>1, <2>1, CaptureFacts, QuietFailure
  <1>3. CASE ~(capRows[r][index(r)] = 0 /\ ~mayCapture(r))
    <2>1. PICK i, j, n : i = index(r) /\ j = [job[r] EXCEPT !.done = i]
                         /\ n = IF i < Len(job[r].captures) THEN "capture" ELSE "finish"
      OBVIOUS
    <2>2. PICK x : x = IF job[r].rowWritten THEN capRows[r][i] ELSE filed(capRows[r][i])
      OBVIOUS
    <2>3. PICK c : c = [capRows[r] EXCEPT ![i] = x]
      OBVIOUS
    <2>4. capRows' = [capRows EXCEPT ![r][i] = IF job[r].rowWritten THEN @ ELSE filed(@)]
      BY <1>3, <2>1 DEF RecordCapture
    <2>5. i \in 1..MaxCaptures /\ i \in 1..Len(job[r].captures) /\ job[r].captures[i] = bytes(r)
      BY <1>1, <2>1, CaptureFacts
    <2>6. CaptureOk(x, i, job[r], docs) /\ x \in Nat
      <3>1. job[r].captures[i] \in Refused \/ docs[job[r].captures[i]] # "none"
        BY <1>1, <2>1, RunFacts DEF RunOk, index
      <3>2. CaptureOk(capRows[r][i], i, job[r], docs) /\ capRows[r][i] \in Nat
        BY <1>1, <2>1, <2>5, CaptureFacts, RunFacts
      <3>3. x = capRows[r][i] \/ x = 1
        BY <2>2 DEF filed
      <3>4. QED BY <2>5, <3>1, <3>2, <3>3 DEF CaptureOk
    <2>7. capRows' = [capRows EXCEPT ![r] = c] /\ c \in [1..MaxCaptures -> Nat]
      BY <2>2, <2>3, <2>4, <2>5, <2>6 DEF PortalInv, PortalType, RowType
    <2>8. \A m \in 1..MaxCaptures : CaptureOk(c[m], m, job[r], docs)
      <3>1. \A m \in 1..MaxCaptures : CaptureOk(capRows[r][m], m, job[r], docs)
        BY RunFacts DEF RunOk
      <3>2. \A m \in 1..MaxCaptures : c[m] = IF m = i THEN x ELSE capRows[r][m]
        BY <2>3, RunFacts
      <3>3. QED BY <2>6, <3>1, <3>2
    <2>9. Moved(r, c, startRow[r], endRow[r], docs)
      BY <1>1, <2>7, RunFacts DEF Moved
    <2>10. RunOk("filing", job[r], c, startRow[r], endRow[r], docs)
      BY <1>1, <2>8, RunFacts DEF RunOk
    <2>11. CASE docs[bytes(r)] = "unscanned" /\ bytes(r) \notin Refused
      <3>1. Retry(r)
        BY <1>3, <2>11 DEF RecordCapture
      <3>2. QED BY <1>1, <2>9, <2>10, <3>1, CaptureFacts, StepFails
    <2>12. CASE ~(docs[bytes(r)] = "unscanned" /\ bytes(r) \notin Refused)
      <3>1. Returns(r, n, j)
        BY <1>3, <2>1, <2>12 DEF RecordCapture
      <3>2. j \in JobType /\ j.captures = job[r].captures /\ j.done = i /\ j.result = job[r].result
        <4>1. i \in Nat
          BY <2>5
        <4>2. job[r] \in JobType
          BY RunFacts
        <4>3. QED BY <2>1, <4>1, <4>2 DEF JobType
      <3>3. /\ n \in {"capture", "finish"} /\ (n = "capture" => j.done < Len(j.captures)) /\ n \in Pcs
            /\ j.done <= Len(j.captures) /\ Len(j.captures) <= MaxCaptures /\ j.result # "none" /\ startRow[r] # {}
        <4>1. n \in {"capture", "finish"} /\ (n = "capture" => i < Len(job[r].captures)) /\ n \in Pcs
          BY <2>1 DEF Pcs, Heads
        <4>2. Len(job[r].captures) <= MaxCaptures /\ i <= Len(job[r].captures)
          BY <2>5, RunFacts DEF RunOk
        <4>3. job[r].result # "none" /\ startRow[r] # {}
          BY <1>1, CaptureFacts
        <4>4. QED BY <3>2, <4>1, <4>2, <4>3
      <3>4. \A m \in 1..MaxCaptures : CaptureOk(c[m], m, j, docs)
        BY <2>8, <3>2 DEF CaptureOk
      <3>5. n \notin Early /\ n \notin {"scanning", "filing", "asking", "startEnd", "reads"}
        BY <3>3 DEF Early, Preparing
      <3>6. RunOk(n, j, c, startRow[r], endRow[r], docs)
        BY <3>3, <3>4, <3>5 DEF RunOk, Taking
      <3>7. QED BY <1>1, <2>9, <2>10, <3>1, <3>2, <3>3, <3>6, CaptureFacts, StepReturns
    <2>13. QED BY <2>11, <2>12
  <1>4. QED BY <1>2, <1>3

-----------------------------------------------------------------------------
(* The end of a run *)

\* A refused sign-in turns the connection off.
LEMMA DisableRejectedStep ==
    ASSUME PortalInv, NEW r \in Runs, DisableRejected(r)
    PROVE  PortalInv' /\ OutcomeStep
  <1>1. /\ pc[r] = "finish" /\ UNCHANGED <<rows, w, creds, version>>
        /\ pc[r] \in (Heads \cup MidStep) \ {"failure", "reads"}
    BY DEF DisableRejected, worker, Heads
  <1>2. Settled(r) \/ (Goto(r, "finishing") /\ UNCHANGED job)
    BY DEF DisableRejected
  <1>3. CASE Settled(r)
    BY <1>1, <1>3, QuietFailure
  <1>4. CASE Goto(r, "finishing") /\ UNCHANGED job
    <2>1. pc' = [pc EXCEPT ![r] = "finishing"] /\ job' = [job EXCEPT ![r] = job[r]]
      BY <1>4, RunFacts DEF Goto
    <2>2. startRow[r] # {}
      BY <1>1, RunFacts DEF RunOk, Started, Heads, Preparing
    <2>3. RunOk("finishing", job[r], capRows[r], startRow[r], endRow[r], docs) /\ "finishing" \in Pcs
      BY <1>1, <2>2, RunFacts, RunGoes DEF Early, Preparing, Taking, Pcs, MidStep
    <2>4. QED BY <1>1, <2>1, <2>3, RowsStay, RunFacts, OneRunMoves
  <1>5. QED BY <1>2, <1>3, <1>4

\* The outcome is written, at the end of the run or when a step of it was given up.
LEMMA OutcomeWritten ==
    ASSUME PortalInv, NEW r \in Runs, pc[r] \in {"finishing", "failure"}, NEW e \in EndRows \ {"none"},
           IF mayEnd(r, e)
           THEN endRow' = [endRow EXCEPT ![r] = e] /\ Returns(r, afterEnd(r), job[r])
           ELSE Settled(r) /\ UNCHANGED <<endRow, faults>>,
           UNCHANGED <<startRow, capRows, docs, requested, w, creds, version>>
    PROVE  PortalInv' /\ OutcomeStep
  <1>1. pc[r] \in Heads \cup MidStep /\ pc[r] # "reads" /\ startRow[r] # {}
    BY RunFacts DEF Heads, MidStep, RunOk, Started, Preparing
  <1>2. CASE ~mayEnd(r, e)
    <2>1. Settled(r) /\ UNCHANGED rows
      BY <1>2 DEF rows
    <2>2. endRow[r] # "none"
      BY <1>1, <1>2 DEF mayEnd
    <2>3. QED BY <1>1, <2>1, <2>2, RowsStay, RunFacts, StepFails
  <1>3. CASE mayEnd(r, e)
    <2>1. endRow' = [endRow EXCEPT ![r] = e] /\ Returns(r, afterEnd(r), job[r])
      BY <1>3
    <2>2. Moved(r, capRows[r], startRow[r], e, docs)
      BY <2>1, RunFacts DEF Moved
    <2>3. RunOk(pc[r], job[r], capRows[r], startRow[r], e, docs)
      BY <1>1, RunFacts DEF RunOk
    <2>4. PICK n : n = afterEnd(r) /\ n \in {"over", "reads"}
      BY DEF afterEnd
    <2>5. RunOk(n, job[r], capRows[r], startRow[r], e, docs) /\ n \in Pcs
      BY <1>1, <2>4, RunFacts, RunGoes DEF Early, Preparing, Taking, Started, Pcs, Heads
    <2>6. QED BY <1>1, <2>1, <2>2, <2>3, <2>4, <2>5, RunFacts, StepReturns
  <1>4. QED BY <1>2, <1>3

\* The outcome of a run the worker finished.
LEMMA FinishRunStep ==
    ASSUME PortalInv, NEW r \in Runs, FinishRun(r)
    PROVE  PortalInv' /\ OutcomeStep
  <1>1. pc[r] = "finishing" /\ UNCHANGED <<startRow, capRows, docs, requested, w, creds, version>>
    BY DEF FinishRun, store, worker
  <1>2. PICK e : e = endOf(r)
    OBVIOUS
  <1>3. e \in EndRows \ {"none"}
    BY <1>1, <1>2, RunFacts DEF endOf, EndRows, RunOk, JobType
  <1>4. IF mayEnd(r, e)
        THEN endRow' = [endRow EXCEPT ![r] = e] /\ Returns(r, afterEnd(r), job[r])
        ELSE Settled(r) /\ UNCHANGED <<endRow, faults>>
    BY <1>2 DEF FinishRun
  <1>5. QED BY <1>1, <1>3, <1>4, OutcomeWritten

\* The outcome of a run a step of which was given up.
LEMMA RecordFailureStep ==
    ASSUME PortalInv, NEW r \in Runs, RecordFailure(r)
    PROVE  PortalInv' /\ OutcomeStep
  <1>1. pc[r] = "failure" /\ UNCHANGED <<startRow, capRows, docs, requested, w, creds, version>>
    BY DEF RecordFailure, store, worker
  <1>2. PICK e : e = "failed"
    OBVIOUS
  <1>3. e \in EndRows \ {"none"}
    BY <1>2 DEF EndRows
  <1>4. IF mayEnd(r, e)
        THEN endRow' = [endRow EXCEPT ![r] = e] /\ Returns(r, afterEnd(r), job[r])
        ELSE Settled(r) /\ UNCHANGED <<endRow, faults>>
    BY <1>2 DEF RecordFailure
  <1>5. QED BY <1>1, <1>3, <1>4, OutcomeWritten

\* What was captured is sent to be read.
LEMMA RequestReadsStep ==
    ASSUME PortalInv, NEW r \in Runs, RequestReads(r)
    PROVE  PortalInv' /\ OutcomeStep
  <1>1. /\ pc[r] = "reads" /\ UNCHANGED <<startRow, endRow, capRows, docs, w, creds, version>>
        /\ pc[r] \in Heads \cup MidStep
    BY DEF RequestReads, store, worker, Heads
  <1>2. endRow[r] # "none"
    BY <1>1, RunFacts DEF RunOk
  <1>3. Moved(r, capRows[r], startRow[r], endRow[r], docs)
    BY <1>1, RunFacts DEF Moved
  <1>4. RunOk("over", job[r], capRows[r], startRow[r], endRow[r], docs) /\ "over" \in Pcs
    BY RunFacts, RunGoes DEF Early, Preparing, Taking, Started, Pcs, Heads, MidStep
  <1>5. Returns(r, "over", job[r])
    BY DEF RequestReads
  <1>6. QED BY <1>1, <1>2, <1>3, <1>4, <1>5, RunFacts, StepReturns

-----------------------------------------------------------------------------
(* The worker and the owners *)

\* Steps that touch neither a run of the job nor its rows.
LEMMA ElsewhereStep ==
    ASSUME PortalInv, UNCHANGED <<rows, pc, job>>, w' \in [Runs -> WorkerType], \A r \in Runs : WorkerOk(w'[r]),
           creds' \in Seq(Nat), version' \in Nat
    PROVE  PortalInv' /\ OutcomeStep
  <1>1. PortalInv'
    <2>1. PortalType'
      BY DEF PortalInv, PortalType, RowType, rows
    <2>2. \A r \in Runs : RunOk(pc[r], job[r], capRows[r], startRow[r], endRow[r], docs)'
      BY DEF PortalInv, rows
    <2>3. QED BY <2>1, <2>2 DEF PortalInv
  <1>2. OutcomeStep
    BY DEF OutcomeStep
  <1>3. QED BY <1>1, <1>2

\* A run that ends keeps a listing no longer than the longest.
LEMMA ListingsAreShort ==
    ASSUME NEW found \in Listings
    PROVE  found \in Seq(Docs) /\ Len(found) <= MaxCaptures
  BY PortalAssumption

\* What the worker holds stays a result or nothing.
LEMMA WorkerStep ==
    ASSUME PortalInv,
           Restart \/ (\E r \in Runs : RunEnds(r) \/ Overran(r) \/ Release(r) \/ Sweep(r))
    PROVE  PortalInv' /\ OutcomeStep
  <1>1. UNCHANGED <<rows, pc, job>> /\ creds' \in Seq(Nat) /\ version' \in Nat
    BY DEF Restart, RunEnds, Overran, Release, Sweep, steps, store, PortalInv, PortalType
  <1>2. w \in [Runs -> WorkerType] /\ (\A r \in Runs : WorkerOk(w[r]))
    BY DEF PortalInv, PortalType
  <1>3. WorkerOk(Unheld)
    <2>1. Len(<<>>) = 0 /\ << >> \in Seq(Docs) /\ MaxCaptures \in Nat
      BY PortalAssumption
    <2>2. QED BY <2>1 DEF WorkerOk, WorkerType, Unheld, Results
  <1>4. w' \in [Runs -> WorkerType] /\ (\A r \in Runs : WorkerOk(w'[r]))
    <2>1. CASE w' \in {w, [q \in Runs |-> Unheld]}
      BY <1>2, <1>3, <2>1 DEF WorkerOk
    <2>2. ASSUME NEW r \in Runs, NEW v, w' = [w EXCEPT ![r] = v], WorkerOk(v)
          PROVE  w' \in [Runs -> WorkerType] /\ (\A q \in Runs : WorkerOk(w'[q]))
      BY <1>2, <2>2 DEF WorkerOk
    <2>3. ASSUME NEW r \in Runs, RunEnds(r) \/ Overran(r)
          PROVE  \E v : w' = [w EXCEPT ![r] = v] /\ WorkerOk(v)
      <3>1. PICK x, f : /\ x \in Results \ {"none"} /\ f \in Seq(Docs) /\ Len(f) <= MaxCaptures
                        /\ w' = [w EXCEPT ![r].state = "done", ![r].result = x, ![r].captures = f]
        <4>1. CASE RunEnds(r)
          <5>1. <<>> \in Seq(Docs) /\ Len(<<>>) <= MaxCaptures
            BY PortalAssumption
          <5>2. QED BY <4>1, <5>1, ListingsAreShort DEF RunEnds, SignedIn, Results
        <4>2. CASE Overran(r)
          <5>1. w' = [w EXCEPT ![r].state = "done", ![r].result = "run_failed"]
            BY <4>2 DEF Overran
          <5>2. w' = [w EXCEPT ![r].state = "done", ![r].result = "run_failed", ![r].captures = w[r].captures]
            BY <1>2, <5>1 DEF WorkerType
          <5>3. w[r].captures \in Seq(Docs) /\ Len(w[r].captures) <= MaxCaptures
            BY <1>2 DEF WorkerOk, WorkerType
          <5>4. "run_failed" \in Results \ {"none"}
            BY DEF Results
          <5>5. QED BY <5>2, <5>3, <5>4
        <4>3. QED BY <2>3, <4>1, <4>2
      <3>2. PICK v : v = [w[r] EXCEPT !.state = "done", !.result = x, !.captures = f]
        OBVIOUS
      <3>3. w' = [w EXCEPT ![r] = v]
        BY <1>2, <3>1, <3>2
      <3>4. v \in WorkerType /\ v.captures = f /\ v.result = x
        BY <1>2, <3>1, <3>2 DEF WorkerType
      <3>5. QED BY <3>1, <3>3, <3>4 DEF WorkerOk
    <2>4. ASSUME NEW r \in Runs, Sweep(r)
          PROVE  \E v : w' = [w EXCEPT ![r] = v] /\ WorkerOk(v)
      <3>1. PICK v : /\ v \in {[w[r] EXCEPT !.state = "forgotten"], [w[r] EXCEPT !.held = FALSE]}
                     /\ w' = [w EXCEPT ![r] = v]
        <4>1. CASE w' = [w EXCEPT ![r].state = "forgotten"]
          BY <1>2, <4>1
        <4>2. CASE w' = [w EXCEPT ![r].held = FALSE]
          BY <1>2, <4>2
        <4>3. QED BY <2>4, <4>1, <4>2 DEF Sweep
      <3>2. WorkerOk(v)
        <4>1. WorkerOk(w[r]) /\ w[r] \in WorkerType
          BY <1>2
        <4>2. CASE v = [w[r] EXCEPT !.state = "forgotten"]
          BY <4>1, <4>2 DEF WorkerOk, WorkerType
        <4>3. CASE v = [w[r] EXCEPT !.held = FALSE]
          BY <4>1, <4>3 DEF WorkerOk, WorkerType
        <4>4. QED BY <3>1, <4>2, <4>3
      <3>3. QED BY <3>1, <3>2
    <2>5. CASE Restart
      BY <2>1, <2>5 DEF Restart
    <2>6. ASSUME NEW r \in Runs, Release(r)
          PROVE  w' \in {w, [q \in Runs |-> Unheld]}
      BY <2>6 DEF Release
    <2>7. QED BY <2>1, <2>2, <2>3, <2>4, <2>5, <2>6
  <1>5. QED BY <1>1, <1>4, ElsewhereStep

\* What owners do meanwhile touches no run.
LEMMA PeopleStep ==
    ASSUME PortalInv, People
    PROVE  PortalInv' /\ OutcomeStep
  <1>1. UNCHANGED <<rows, pc, job, w>>
    BY DEF People, steps, worker
  <1>2. creds' \in Seq(Nat) /\ version' \in Nat
    <2>1. creds \in Seq(Nat) /\ version \in Nat
      BY DEF PortalInv, PortalType
    <2>2. CASE SealAndStoreCredential
      BY <2>1, <2>2 DEF SealAndStoreCredential
    <2>3. CASE ReviewRecipeVersion
      BY <2>1, <2>3 DEF ReviewRecipeVersion
    <2>4. CASE TurnOff \/ RemoveCredential \/ TurnOn \/ ChangeRole
      BY <2>1, <2>4 DEF TurnOff, RemoveCredential, TurnOn, ChangeRole
    <2>5. QED BY <2>2, <2>3, <2>4 DEF People
  <1>3. QED BY <1>1, <1>2, ElsewhereStep DEF PortalInv, PortalType

-----------------------------------------------------------------------------
\* Every step keeps the invariant, and records an outcome where it must.
LEMMA PortalStep ==
    ASSUME PortalInv, [Next]_vars
    PROVE  PortalInv' /\ OutcomeStep
  <1>1. CASE UNCHANGED vars
    <2>1. UNCHANGED <<rows, pc, job, w, creds, version>>
      BY <1>1 DEF vars, steps, worker, store
    <2>2. QED BY <2>1, ElsewhereStep DEF PortalInv, PortalType
  <1>2. ASSUME NEW r \in Runs, FanOut(r) \/ QueueDryRun(r) \/ Step(r)
        PROVE  PortalInv' /\ OutcomeStep
    <2>1. CASE FanOut(r) \/ QueueDryRun(r)
      BY <2>1, QueuedStep DEF FanOut, QueueDryRun
    <2>2. CASE PrepareRun(r) \/ RecordRunStart(r) \/ EndBeforeWorker(r) \/ StartRun(r) \/ SendStart(r)
               \/ OnWorkerAlready(r)
      BY <2>2, PrepareRunStep, RecordRunStartStep, EndBeforeWorkerStep, StartRunStep, SendStartStep, OnWorkerAlreadyStep
    <2>3. CASE PollRun(r) \/ TimedOut(r) \/ FetchResult(r) \/ IngestCapture(r) \/ Scan(r) \/ RecordCapture(r)
      BY <2>3, PollStep, FetchResultStep, IngestCaptureStep, ScanStep, RecordCaptureStep
    <2>4. CASE DisableRejected(r) \/ FinishRun(r) \/ RecordFailure(r) \/ RequestReads(r) \/ Dies(r)
      BY <2>4, DisableRejectedStep, FinishRunStep, RecordFailureStep, RequestReadsStep, DiesStep
    <2>5. QED BY <1>2, <2>1, <2>2, <2>3, <2>4 DEF Step
  <1>3. CASE Restart \/ (\E r \in Runs : RunEnds(r) \/ Overran(r) \/ Release(r) \/ Sweep(r))
    BY <1>3, WorkerStep
  <1>4. CASE People
    BY <1>4, PeopleStep
  <1>5. QED BY <1>1, <1>2, <1>3, <1>4 DEF Next

\* The invariant holds at the start.
LEMMA PortalInit ==
    ASSUME Init
    PROVE  PortalInv
  <1>1. Len(<<>>) = 0 /\ << >> \in Seq(Docs) /\ MaxCaptures \in Nat
    BY PortalAssumption
  <1>2. NoProgress \in JobType
    BY <1>1 DEF NoProgress, JobType, Ends, Results
  <1>3. Unheld \in WorkerType /\ WorkerOk(Unheld)
    BY <1>1 DEF WorkerOk, WorkerType, Unheld, Results
  <1>4. creds \in Seq(Nat) /\ version \in Nat
    BY DEF Init
  <1>5. RowType
    BY <1>1 DEF Init, RowType, EndRows, Ends, DocStates
  <1>6. pc \in [Runs -> Pcs] /\ job \in [Runs -> JobType] /\ w \in [Runs -> WorkerType]
    BY <1>2, <1>3 DEF Init, Pcs
  <1>7. ASSUME NEW r \in Runs PROVE RunOk(pc[r], job[r], capRows[r], startRow[r], endRow[r], docs)
    <2>1. pc[r] = "unasked" /\ job[r] = NoProgress /\ (\A i \in 1..MaxCaptures : capRows[r][i] = 0)
      BY DEF Init
    <2>2. \A i \in 1..MaxCaptures : CaptureOk(capRows[r][i], i, job[r], docs)
      BY <2>1 DEF CaptureOk
    <2>3. /\ pc[r] \notin Taking /\ pc[r] \notin Started
          /\ pc[r] \notin {"finish", "finishing", "scanning", "filing", "asking", "startEnd", "reads"}
      BY <2>1 DEF Taking, Started, Heads, MidStep
    <2>4. job[r].result = "none" /\ job[r].captures = << >> /\ job[r].done = 0
      BY <2>1 DEF NoProgress
    <2>5. QED BY <1>1, <2>2, <2>3, <2>4 DEF RunOk
  <1>8. QED BY <1>3, <1>4, <1>5, <1>6, <1>7 DEF PortalInv, PortalType, Init

\* In every state, what each run of the job relies on holds, and its rows say what it took in.
THEOREM PortalInvariance == Spec => []PortalInv
  <1>1. Init => PortalInv
    BY PortalInit
  <1>2. PortalInv /\ [Next]_vars => PortalInv'
    BY PortalStep
  <1>3. QED BY <1>1, <1>2, PTL DEF Spec

\* A capture fetched again, after any number of deaths and failed scans, keeps its one row: `recordCapture`
\* looks for the row an earlier attempt wrote, and new bytes come with theirs.
THEOREM CapturedOnce == Spec => []OneRowPerCapture
  <1>1. PortalInv => OneRowPerCapture
    <2>1. SUFFICES ASSUME PortalInv, NEW r \in Runs, NEW i \in 1..MaxCaptures PROVE capRows[r][i] <= 1
      BY DEF OneRowPerCapture
    <2>2. \A m \in 1..MaxCaptures : CaptureOk(capRows[r][m], m, job[r], docs)
      BY <2>1, RunFacts DEF RunOk
    <2>3. CaptureOk(capRows[r][i], i, job[r], docs)
      BY <2>2
    <2>4. QED BY <2>3 DEF CaptureOk
  <1>2. QED BY <1>1, PortalInvariance, PTL

\* The queue is done with a run past `prepare` only once its outcome is written, whatever step gave up.
THEOREM EveryRunHasAnOutcome == Spec => OutcomeIsRecorded
  <1>1. PortalInv /\ [Next]_vars => [OutcomeStep]_vars
    BY PortalStep
  <1>2. QED BY <1>1, PortalInvariance, PTL DEF Spec, OutcomeIsRecorded, OutcomeStep


-----------------------------------------------------------------------------
(* A refused credential is not typed again *)

\* The credentials the portal refused run q have been replaced, or a disable names them.
Burnt(q) == \A c \in Nat : <<q, c>> \in rejected => c < latest \/ c \in holds

\* What the refusals of one run are known to be by.
SignOk(q) ==
    /\ job[q].cred <= latest
    /\ w[q].state = "running" => w[q].cred <= job[q].cred /\ job[q].result = "none"
    /\ \A c \in Nat : <<q, c>> \in rejected => c <= job[q].cred
    /\ endRow[q] = "credential_rejected" => job[q].result = "credential_rejected" /\ Burnt(q)
    /\ pc[q] = "finishing" /\ job[q].result = "credential_rejected" => Burnt(q)

\* A run about to sign in holds no credential a recorded refusal names.
StartSafe(r) ==
    pc[r] = "starting" => \A q \in Runs : endRow[q] = "credential_rejected" => <<q, job[r].cred>> \notin rejected

SignInv ==
    /\ holds \subseteq 0..latest /\ rejected \subseteq Runs \X Nat
    /\ latest \in holds => ~enabled
    /\ \A q, r \in Runs : pc[q] \in MidStep /\ pc[r] \in MidStep => q = r
    /\ \A q \in Runs : SignOk(q)
    /\ \A r \in Runs : StartSafe(r)

\* What NotTypedOnceRecorded says of one step.
TypedStep ==
    \A r, q \in Runs :
        signsIn(r) /\ endRow[q] = "credential_rejected" => <<q, w'[r].cred>> \notin rejected


\* The step of one run, as the refusals see it: it goes to p, knows j, its outcome is e and the worker holds v for it.
SignMove(r, p, j, e, v) ==
    /\ pc' = [pc EXCEPT ![r] = p] /\ job' = [job EXCEPT ![r] = j]
    /\ endRow' = [endRow EXCEPT ![r] = e] /\ w' = [w EXCEPT ![r] = v]
    /\ p \in MidStep => pc[r] \in MidStep \/ slotFree(r)
    /\ j.cred \in {job[r].cred, latest}
    /\ j.result = job[r].result \/ (w[r].state # "running" /\ v.state # "running" /\ job[r].result = "none")
    /\ e = "credential_rejected" => endRow[r] = e \/ (pc[r] = "finishing" /\ job[r].result = e)
    /\ p # "finishing"
    /\ p = "starting" => enabled /\ j.cred = latest
    /\ v.state = "running" => v = w[r] \/ (v.cred = job[r].cred /\ job[r].result = "none")

\* Such a step keeps the invariant.
LEMMA SignMoves ==
    ASSUME PortalInv, SignInv, NEW r \in Runs, NEW p, NEW j, NEW e, NEW v, SignMove(r, p, j, e, v),
           UNCHANGED <<creds, holds, enabled, rejected>>
    PROVE  SignInv'
  <1>1. latest' = latest /\ latest \in Nat
    BY RunFacts DEF latest
  <1>2. /\ pc \in [Runs -> Pcs] /\ job \in [Runs -> JobType] /\ endRow \in [Runs -> EndRows] /\ w \in [Runs -> WorkerType]
    BY DEF PortalInv, PortalType, RowType
  <1>3. /\ pc'[r] = p /\ job'[r] = j /\ endRow'[r] = e /\ w'[r] = v
        /\ \A q \in Runs \ {r} : pc'[q] = pc[q] /\ job'[q] = job[q] /\ endRow'[q] = endRow[q] /\ w'[q] = w[q]
    BY <1>2 DEF SignMove
  <1>4. job[r].cred \in Nat /\ w[r].cred \in Nat /\ SignOk(r)
    BY <1>2 DEF JobType, WorkerType, SignInv
  <1>5. j.cred >= job[r].cred /\ j.cred <= latest /\ j.cred \in Nat
    BY <1>1, <1>4 DEF SignMove, SignOk
  <1>6. \A q \in Runs : Burnt(q)' <=> Burnt(q)
    BY <1>1 DEF Burnt
  <1>7. ASSUME NEW q \in Runs PROVE SignOk(q)'
    <2>1. CASE q # r
      <3>1. SignOk(q)
        BY DEF SignInv
      <3>2. QED BY <1>1, <1>3, <1>6, <2>1, <3>1 DEF SignOk
    <2>2. CASE q = r
      <3>1. j.cred <= latest
        BY <1>5
      <3>2. v.state = "running" => v.cred <= j.cred /\ j.result = "none"
        <4>1. SUFFICES ASSUME v.state = "running" PROVE v.cred <= j.cred /\ j.result = "none"
          OBVIOUS
        <4>2. j.result = job[r].result
          BY <4>1 DEF SignMove
        <4>3. CASE v = w[r]
          BY <1>4, <1>5, <4>1, <4>2, <4>3 DEF SignOk
        <4>4. CASE v.cred = job[r].cred /\ job[r].result = "none"
          BY <1>4, <1>5, <4>2, <4>4
        <4>5. QED BY <4>1, <4>3, <4>4 DEF SignMove
      <3>3. \A c \in Nat : <<r, c>> \in rejected => c <= j.cred
        BY <1>4, <1>5 DEF SignOk
      <3>4. e = "credential_rejected" => j.result = "credential_rejected" /\ Burnt(r)
        <4>1. SUFFICES ASSUME e = "credential_rejected" PROVE j.result = "credential_rejected" /\ Burnt(r)
          OBVIOUS
        <4>2. job[r].result = "credential_rejected" /\ Burnt(r)
          BY <1>4, <4>1 DEF SignMove, SignOk
        <4>3. QED BY <4>2 DEF SignMove
      <3>5. p # "finishing"
        BY DEF SignMove
      <3>6. QED BY <1>1, <1>3, <1>6, <2>2, <3>1, <3>2, <3>3, <3>4, <3>5 DEF SignOk
    <2>3. QED BY <2>1, <2>2
  <1>8. ASSUME NEW q \in Runs PROVE StartSafe(q)'
    <2>1. SUFFICES ASSUME pc'[q] = "starting", NEW x \in Runs, endRow'[x] = "credential_rejected"
                   PROVE  <<x, job'[q].cred>> \notin rejected
      BY DEF StartSafe
    <2>2. CASE q = r
      <3>1. enabled /\ job'[q].cred = latest
        BY <1>3, <2>1, <2>2 DEF SignMove
      <3>2. latest \notin holds
        BY <3>1 DEF SignInv
      <3>3. Burnt(x)
        BY <1>6, <1>7, <2>1 DEF SignOk
      <3>4. QED BY <1>1, <3>1, <3>2, <3>3 DEF Burnt
    <2>3. CASE q # r
      <3>1. pc[q] = "starting" /\ job'[q] = job[q] /\ pc[q] \in MidStep
        BY <1>3, <2>1, <2>3 DEF MidStep
      <3>2. pc[r] # "finishing"
        BY <2>3, <3>1 DEF SignInv, MidStep
      <3>3. endRow[x] = "credential_rejected"
        BY <1>3, <2>1, <3>2 DEF SignMove
      <3>4. StartSafe(q)
        BY DEF SignInv
      <3>5. QED BY <3>1, <3>3, <3>4 DEF StartSafe
    <2>4. QED BY <2>2, <2>3
  <1>9. \A q, s \in Runs : pc'[q] \in MidStep /\ pc'[s] \in MidStep => q = s
    BY <1>3 DEF SignInv, SignMove, slotFree
  <1>10. /\ holds' \subseteq 0..latest' /\ rejected' \subseteq Runs \X Nat /\ (latest' \in holds' => ~enabled')
    BY <1>1 DEF SignInv
  <1>11. QED BY <1>7, <1>8, <1>9, <1>10 DEF SignInv

\* Where the steps of a run end.
Landing == Heads \cup {"over"}

\* A step that fails goes back to a head, or is given up.
LEMMA FailsTo ==
    ASSUME PortalInv, NEW r \in Runs, pc[r] \in Heads \cup MidStep, Retry(r) \/ Settled(r)
    PROVE  \E p \in Landing : pc' = [pc EXCEPT ![r] = p] /\ job' = [job EXCEPT ![r] = job[r]]
  <1>1. PICK t : t = pc[r]
    OBVIOUS
  <1>2. headOf(t) \in Heads /\ givenUp(t) \in {"over", "failure"} /\ "failure" \in Heads
    BY <1>1, HeadsAre DEF Heads, Landing
  <1>3. job' = [job EXCEPT ![r] = job[r]]
    BY RunFacts DEF Retry, Settled
  <1>4. CASE Settled(r)
    <2>1. pc' = [pc EXCEPT ![r] = givenUp(t)]
      BY <1>1, <1>4 DEF Settled
    <2>2. QED BY <1>2, <1>3, <2>1 DEF Landing
  <1>5. CASE Retry(r)
    <2>1. pc' = [pc EXCEPT ![r] = headOf(t)] \/ pc' = [pc EXCEPT ![r] = givenUp(t)]
      BY <1>1, <1>5 DEF Retry
    <2>2. QED BY <1>2, <1>3, <2>1 DEF Landing
  <1>6. QED BY <1>4, <1>5

\* No head is a place between two calls.
LEMMA HeadsAreNotMid ==
    ASSUME NEW p \in Landing
    PROVE  p \notin MidStep /\ p \notin {"starting", "finishing"}
  BY DEF Heads, MidStep, Landing

\* A step of a run that leaves the store, the worker and the run's knowledge of credentials alone.
LEMMA QuietSigns ==
    ASSUME PortalInv, SignInv, NEW r \in Runs, UNCHANGED <<creds, holds, enabled, rejected, w>>,
           NEW p, pc' = [pc EXCEPT ![r] = p], p \notin {"starting", "finishing"},
           p \in MidStep => pc[r] \in MidStep \/ slotFree(r),
           NEW j, job' = [job EXCEPT ![r] = j], j.cred \in {job[r].cred, latest},
           j.result = job[r].result \/ (w[r].state # "running" /\ job[r].result = "none"),
           NEW e, endRow' = [endRow EXCEPT ![r] = e],
           e = "credential_rejected" => endRow[r] = e \/ (pc[r] = "finishing" /\ job[r].result = e)
    PROVE  SignInv'
  <1>1. w' = [w EXCEPT ![r] = w[r]]
    BY DEF PortalInv, PortalType
  <1>2. PICK v : v = w[r]
    OBVIOUS
  <1>3. SignMove(r, p, j, e, v)
    BY <1>1, <1>2 DEF SignMove
  <1>4. QED BY <1>3, SignMoves

\* A step of a run that fails, and may have written its outcome first.
LEMMA FailSigns ==
    ASSUME PortalInv, SignInv, NEW r \in Runs, pc[r] \in Heads \cup MidStep,
           UNCHANGED <<creds, holds, enabled, rejected, w>>,
           Retry(r) \/ Settled(r),
           NEW e, endRow' = [endRow EXCEPT ![r] = e],
           e = "credential_rejected" => endRow[r] = e \/ (pc[r] = "finishing" /\ job[r].result = e)
    PROVE  SignInv'
  <1>1. PICK p \in Landing : pc' = [pc EXCEPT ![r] = p] /\ job' = [job EXCEPT ![r] = job[r]]
    BY FailsTo
  <1>2. PICK k : k = job[r]
    OBVIOUS
  <1>3. QED BY <1>1, <1>2, HeadsAreNotMid, QuietSigns

\* A step of a run that returns what it may return, and may have written its outcome first.
SignReturn(r, n, j, e) ==
    /\ pc[r] \in Heads \cup MidStep /\ UNCHANGED <<creds, holds, enabled, rejected, w>>
    /\ n \in Landing /\ Returns(r, n, j)
    /\ j.cred \in {job[r].cred, latest}
    /\ j.result = job[r].result \/ (w[r].state # "running" /\ job[r].result = "none")
    /\ endRow' = [endRow EXCEPT ![r] = e]
    /\ e = "credential_rejected" => endRow[r] = e \/ (pc[r] = "finishing" /\ job[r].result = e)

\* Such a step keeps the invariant, whether or not its answer is lost.
LEMMA ReturnSigns ==
    ASSUME PortalInv, SignInv, NEW r \in Runs, NEW n, NEW j, NEW e, SignReturn(r, n, j, e)
    PROVE  SignInv'
  <1>1. CASE Retry(r)
    BY <1>1, FailSigns DEF SignReturn
  <1>2. CASE pc' = [pc EXCEPT ![r] = n] /\ job' = [job EXCEPT ![r] = j]
    BY <1>2, HeadsAreNotMid, QuietSigns DEF SignReturn
  <1>3. QED BY <1>1, <1>2 DEF Returns, SignReturn

\* The steps that only fail or return, and write no outcome.
LEMMA PlainSigns ==
    ASSUME PortalInv, SignInv, NEW r \in Runs, PollRun(r) \/ TimedOut(r) \/ Dies(r) \/ RequestReads(r)
    PROVE  SignInv'
  <1>1. /\ pc[r] \in Heads \cup MidStep
        /\ UNCHANGED <<creds, holds, enabled, rejected, w>> /\ endRow' = [endRow EXCEPT ![r] = endRow[r]]
    BY RunFacts DEF PollRun, TimedOut, Dies, RequestReads, Heads, store, worker, rows
  <1>2. PICK n \in {"result", "over"} : Returns(r, n, job[r]) \/ Retry(r) \/ Settled(r)
    BY DEF PollRun, TimedOut, Dies, RequestReads
  <1>3. n \in Landing
    BY DEF Heads, Landing
  <1>4. PICK j, e : j = job[r] /\ e = endRow[r]
    OBVIOUS
  <1>5. CASE Returns(r, n, job[r])
    <2>1. SignReturn(r, n, j, e)
      BY <1>1, <1>3, <1>4, <1>5 DEF SignReturn
    <2>2. QED BY <2>1, ReturnSigns
  <1>6. CASE Retry(r) \/ Settled(r)
    BY <1>1, <1>4, <1>6, FailSigns
  <1>7. QED BY <1>2, <1>5, <1>6

\* The steps that write an outcome.
LEMMA OutcomeSigns ==
    ASSUME PortalInv, SignInv, NEW r \in Runs, EndBeforeWorker(r) \/ FinishRun(r) \/ RecordFailure(r)
    PROVE  SignInv'
  <1>1. pc[r] \in Heads \cup MidStep /\ UNCHANGED <<creds, holds, enabled, rejected, w>>
    BY DEF EndBeforeWorker, FinishRun, RecordFailure, Heads, MidStep, store, worker
  <1>2. PICK j : j = job[r]
    OBVIOUS
  <1>3. afterEnd(r) \in Landing /\ "over" \in Landing
    BY DEF afterEnd, Heads, Landing
  <1>4. CASE Settled(r) /\ UNCHANGED endRow
    <2>1. endRow' = [endRow EXCEPT ![r] = endRow[r]]
      BY <1>4, RunFacts
    <2>2. PICK e : e = endRow[r]
      OBVIOUS
    <2>3. QED BY <1>1, <1>4, <2>1, <2>2, FailSigns
  <1>5. CASE EndBeforeWorker(r) /\ mayEnd(r, job[r].end)
    <2>1. PICK e : e = job[r].end
      OBVIOUS
    <2>2. e # "credential_rejected"
      BY <2>1, RunFacts DEF JobType, Ends
    <2>3. endRow' = [endRow EXCEPT ![r] = e] /\ Returns(r, "over", j)
      BY <1>2, <1>5, <2>1 DEF EndBeforeWorker
    <2>4. SignReturn(r, "over", j, e)
      BY <1>1, <1>2, <1>3, <2>2, <2>3 DEF SignReturn
    <2>5. QED BY <2>4, ReturnSigns
  <1>6. CASE FinishRun(r) /\ mayEnd(r, endOf(r))
    <2>1. PICK e, n : e = endOf(r) /\ n = afterEnd(r)
      OBVIOUS
    <2>2. e = "credential_rejected" => pc[r] = "finishing" /\ job[r].result = e
      BY <1>6, <2>1 DEF endOf, FinishRun
    <2>3. endRow' = [endRow EXCEPT ![r] = e] /\ Returns(r, n, j)
      BY <1>2, <1>6, <2>1 DEF FinishRun
    <2>4. SignReturn(r, n, j, e)
      BY <1>1, <1>2, <1>3, <2>1, <2>2, <2>3 DEF SignReturn
    <2>5. QED BY <2>4, ReturnSigns
  <1>7. CASE RecordFailure(r) /\ mayEnd(r, "failed")
    <2>1. PICK e, n : e = "failed" /\ n = afterEnd(r)
      OBVIOUS
    <2>2. endRow' = [endRow EXCEPT ![r] = e] /\ Returns(r, n, j)
      BY <1>2, <1>7, <2>1 DEF RecordFailure
    <2>3. SignReturn(r, n, j, e)
      BY <1>1, <1>2, <1>3, <2>1, <2>2 DEF SignReturn
    <2>4. QED BY <2>3, ReturnSigns
  <1>8. QED BY <1>4, <1>5, <1>6, <1>7 DEF EndBeforeWorker, FinishRun, RecordFailure

\* The steps that take a run on within a step, or into one.
LEMMA GoingSigns ==
    ASSUME PortalInv, SignInv, NEW r \in Runs,
           Queued(r, TRUE) \/ Queued(r, FALSE) \/ PrepareRun(r) \/ Scan(r)
    PROVE  SignInv'
  <1>1. UNCHANGED <<creds, holds, enabled, rejected, w>> /\ endRow' = [endRow EXCEPT ![r] = endRow[r]]
    BY RunFacts DEF Queued, PrepareRun, Scan, store, worker, rows
  <1>2. PICK p \in {"prepare", "preparing", "filing"} : pc' = [pc EXCEPT ![r] = p]
    BY DEF Queued, PrepareRun, Scan, Goto
  <1>3. (p = "prepare" \/ slotFree(r) \/ pc[r] \in MidStep) /\ p \notin {"starting", "finishing"}
    <2>1. CASE Queued(r, TRUE) \/ Queued(r, FALSE)
      <3>1. pc'[r] = "prepare"
        BY <2>1, RunFacts DEF Queued, Goto, PortalInv, PortalType
      <3>2. QED BY <1>2, <3>1 DEF PortalInv, PortalType
    <2>2. CASE PrepareRun(r) \/ Scan(r)
      BY <2>2 DEF PrepareRun, Scan, MidStep
    <2>3. QED BY <2>1, <2>2
  <1>4. PICK j : job' = [job EXCEPT ![r] = j] /\ j.cred = job[r].cred /\ j.result = job[r].result
    <2>1. job \in [Runs -> JobType]
      BY DEF PortalInv, PortalType
    <2>2. CASE Queued(r, TRUE) \/ Queued(r, FALSE)
      <3>1. PICK dry : job' = [job EXCEPT ![r].dry = dry]
        BY <2>2 DEF Queued
      <3>2. PICK j : j = [job[r] EXCEPT !.dry = dry]
        OBVIOUS
      <3>3. job' = [job EXCEPT ![r] = j] /\ j.cred = job[r].cred /\ j.result = job[r].result
        BY <2>1, <3>1, <3>2 DEF JobType
      <3>4. QED BY <3>3
    <2>3. CASE PrepareRun(r)
      <3>1. PICK v, d : job' = [job EXCEPT ![r].version = v, ![r].end = d]
        BY <2>3 DEF PrepareRun
      <3>2. PICK j : j = [job[r] EXCEPT !.version = v, !.end = d]
        OBVIOUS
      <3>3. job' = [job EXCEPT ![r] = j] /\ j.cred = job[r].cred /\ j.result = job[r].result
        BY <2>1, <3>1, <3>2 DEF JobType
      <3>4. QED BY <3>3
    <2>4. CASE Scan(r)
      BY <2>1, <2>4 DEF Scan
    <2>5. QED BY <2>2, <2>3, <2>4
  <1>5. PICK e : e = endRow[r]
    OBVIOUS
  <1>6. p = "prepare" => p \notin MidStep
    BY DEF MidStep
  <1>7. QED BY <1>1, <1>2, <1>3, <1>4, <1>5, <1>6, QuietSigns

\* The start row: the run goes on, records an end, or stops.
LEMMA RecordRunStartSigns ==
    ASSUME PortalInv, SignInv, NEW r \in Runs, RecordRunStart(r)
    PROVE  SignInv'
  <1>1. /\ pc[r] \in MidStep /\ UNCHANGED <<creds, holds, enabled, rejected, w>>
        /\ endRow' = [endRow EXCEPT ![r] = endRow[r]]
    BY RunFacts DEF RecordRunStart, MidStep, store, worker
  <1>2. PICK j, e : j = job[r] /\ e = endRow[r]
    OBVIOUS
  <1>3. CASE Returns(r, "start", job[r])
    <2>1. "start" \in Landing
      BY DEF Heads, Landing
    <2>2. SignReturn(r, "start", j, e)
      BY <1>1, <1>2, <1>3, <2>1 DEF SignReturn
    <2>3. QED BY <2>2, ReturnSigns
  <1>6. CASE Settled(r)
    BY <1>1, <1>2, <1>6, FailSigns
  <1>4. CASE Goto(r, "prepareEnd") /\ UNCHANGED job
    <2>1. pc' = [pc EXCEPT ![r] = "prepareEnd"] /\ job' = [job EXCEPT ![r] = j]
      BY <1>2, <1>4, RunFacts DEF Goto
    <2>2. QED BY <1>1, <1>2, <2>1, QuietSigns
  <1>7. QED BY <1>3, <1>4, <1>6 DEF RecordRunStart

\* The worker holds the run already, with the latest credential as the one sent.
LEMMA OnWorkerAlreadySigns ==
    ASSUME PortalInv, SignInv, NEW r \in Runs, OnWorkerAlready(r)
    PROVE  SignInv'
  <1>1. /\ pc[r] \in MidStep /\ UNCHANGED <<creds, holds, enabled, rejected, w>>
        /\ endRow' = [endRow EXCEPT ![r] = endRow[r]]
    BY RunFacts DEF OnWorkerAlready, MidStep, store, worker, rows
  <1>2. PICK e : e = endRow[r]
    OBVIOUS
  <1>3. CASE Goto(r, "startEnd") /\ UNCHANGED job
    <2>1. PICK j : j = job[r]
      OBVIOUS
    <2>2. pc' = [pc EXCEPT ![r] = "startEnd"] /\ job' = [job EXCEPT ![r] = j]
      BY <1>3, <2>1, RunFacts DEF Goto
    <2>3. QED BY <1>1, <1>2, <2>1, <2>2, QuietSigns
  <1>4. CASE Returns(r, followed(w[r].state), [job[r] EXCEPT !.cred = latest])
    <2>1. PICK j, n : j = [job[r] EXCEPT !.cred = latest] /\ n = followed(w[r].state)
      OBVIOUS
    <2>2. j.cred = latest /\ j.result = job[r].result
      BY <2>1, RunFacts DEF JobType
    <2>3. n \in Landing /\ Returns(r, n, j)
      BY <1>4, <2>1 DEF followed, Heads, Landing
    <2>4. SignReturn(r, n, j, e)
      BY <1>1, <1>2, <2>2, <2>3 DEF SignReturn
    <2>5. QED BY <2>4, ReturnSigns
  <1>5. QED BY <1>3, <1>4 DEF OnWorkerAlready

\* The result is fetched from a worker that is done with the run.
LEMMA FetchResultSigns ==
    ASSUME PortalInv, SignInv, NEW r \in Runs, FetchResult(r)
    PROVE  SignInv'
  <1>1. /\ pc[r] \in Heads \cup MidStep /\ pc[r] = "result" /\ UNCHANGED <<creds, holds, enabled, rejected, w>>
        /\ endRow' = [endRow EXCEPT ![r] = endRow[r]]
    BY RunFacts DEF FetchResult, Heads, store, worker, rows
  <1>2. PICK e : e = endRow[r]
    OBVIOUS
  <1>3. PICK j, n : /\ j = [job[r] EXCEPT !.result = w[r].result, !.captures = w[r].captures]
                    /\ n = IF w[r].captures = <<>> THEN "finish" ELSE "capture"
    OBVIOUS
  <1>4. j.cred = job[r].cred /\ n \in Landing
    BY <1>3, RunFacts DEF JobType, Heads, Landing
  <1>5. job[r].result = "none"
    BY <1>1, RunFacts DEF RunOk, Early
  <1>6. CASE w[r].state = "done"
    <2>1. Returns(r, n, j)
      BY <1>3, <1>6 DEF FetchResult
    <2>2. w[r].state # "running"
      BY <1>6
    <2>3. SignReturn(r, n, j, e)
      BY <1>1, <1>2, <1>4, <1>5, <2>1, <2>2 DEF SignReturn
    <2>4. QED BY <2>3, ReturnSigns
  <1>7. CASE Settled(r)
    BY <1>1, <1>2, <1>7, FailSigns
  <1>8. QED BY <1>6, <1>7 DEF FetchResult

\* Captures carry no credential.
LEMMA CaptureSigns ==
    ASSUME PortalInv, SignInv, NEW r \in Runs, IngestCapture(r) \/ RecordCapture(r)
    PROVE  SignInv'
  <1>1. /\ pc[r] \in Heads \cup MidStep /\ UNCHANGED <<creds, holds, enabled, rejected, w>>
        /\ endRow' = [endRow EXCEPT ![r] = endRow[r]]
    BY RunFacts DEF IngestCapture, RecordCapture, Heads, MidStep, store, worker
  <1>2. PICK e, k : e = endRow[r] /\ k = job[r]
    OBVIOUS
  <1>3. CASE Settled(r) \/ Retry(r)
    BY <1>1, <1>2, <1>3, FailSigns
  <1>4. CASE IngestCapture(r) /\ ~Settled(r)
    <2>1. PICK p \in {"scanning", "filing"}, b \in BOOLEAN :
             pc' = [pc EXCEPT ![r] = p] /\ job' = [job EXCEPT ![r].rowWritten = b]
      BY <1>4 DEF IngestCapture, Goto
    <2>2. slotFree(r)
      BY <1>4 DEF IngestCapture
    <2>3. PICK j : j = [job[r] EXCEPT !.rowWritten = b]
      OBVIOUS
    <2>4. job' = [job EXCEPT ![r] = j] /\ j.cred = job[r].cred /\ j.result = job[r].result
      BY <2>1, <2>3 DEF JobType, PortalInv, PortalType
    <2>5. QED BY <1>1, <1>2, <2>1, <2>2, <2>4, QuietSigns
  <1>5. CASE RecordCapture(r) /\ ~Settled(r) /\ ~Retry(r)
    <2>1. PICK j, n : j = [job[r] EXCEPT !.done = index(r)]
                      /\ n = IF index(r) < Len(job[r].captures) THEN "capture" ELSE "finish"
      OBVIOUS
    <2>2. Returns(r, n, j)
      BY <1>5, <2>1 DEF RecordCapture
    <2>3. n \in Landing /\ j.cred = job[r].cred /\ j.result = job[r].result
      BY <2>1, RunFacts DEF Heads, JobType, Landing
    <2>4. SignReturn(r, n, j, e)
      BY <1>1, <1>2, <2>2, <2>3 DEF SignReturn
    <2>5. QED BY <2>4, ReturnSigns
  <1>6. QED BY <1>3, <1>4, <1>5

\* The questions of `start`: only a connection that is on goes on to the worker, with the latest credential.
LEMMA StartRunSigns ==
    ASSUME PortalInv, SignInv, NEW r \in Runs, StartRun(r)
    PROVE  SignInv'
  <1>1. /\ slotFree(r) /\ UNCHANGED <<creds, holds, enabled, rejected, w>>
        /\ endRow' = [endRow EXCEPT ![r] = endRow[r]] /\ w' = [w EXCEPT ![r] = w[r]]
    BY RunFacts DEF StartRun, store, worker, rows, PortalInv, PortalType
  <1>2. PICK d : d = IF permissionRefusal THEN "refused" ELSE decideRun(job[r].version)
    OBVIOUS
  <1>3. PICK p : p = IF d = "go" THEN "starting" ELSE "asking"
    OBVIOUS
  <1>4. job' = [job EXCEPT ![r].end = d, ![r].cred = latest] /\ pc' = [pc EXCEPT ![r] = p]
    BY <1>2, <1>3 DEF StartRun, Goto
  <1>5. PICK j : j = [job[r] EXCEPT !.end = d, !.cred = latest]
    OBVIOUS
  <1>6. job' = [job EXCEPT ![r] = j]
    BY <1>4, <1>5 DEF PortalInv, PortalType
  <1>7. j.cred = latest /\ j.result = job[r].result
    BY <1>5, RunFacts DEF JobType
  <1>8. p \in {"starting", "asking"} /\ (p = "starting" => enabled)
    BY <1>2, <1>3 DEF permissionRefusal
  <1>9. PICK e, v : e = endRow[r] /\ v = w[r]
    OBVIOUS
  <1>10. SignMove(r, p, j, e, v)
    BY <1>1, <1>4, <1>6, <1>7, <1>8, <1>9 DEF SignMove
  <1>11. QED BY <1>1, <1>10, SignMoves


\* The worker is asked to start: what it types is the run's own credential.
LEMMA SendStartSigns ==
    ASSUME PortalInv, SignInv, NEW r \in Runs, SendStart(r)
    PROVE  SignInv'
  <1>1. /\ pc[r] = "starting" /\ pc[r] \in Heads \cup MidStep /\ UNCHANGED <<creds, holds, enabled>>
        /\ endRow' = [endRow EXCEPT ![r] = endRow[r]] /\ UNCHANGED rejected
    BY RunFacts DEF SendStart, MidStep, store, rows, worker
  <1>2. PICK j, e : j = job[r] /\ e = endRow[r]
    OBVIOUS
  <1>3. job[r].result = "none"
    BY <1>1, RunFacts DEF RunOk, Early
  <1>4. PICK v : /\ w' = [w EXCEPT ![r] = v]
                 /\ v.state = "running" => v = w[r] \/ (v.cred = job[r].cred /\ job[r].result = "none")
    <2>1. w = [w EXCEPT ![r] = w[r]]
      BY DEF PortalInv, PortalType
    <2>2. CASE UNCHANGED w
      BY <2>1, <2>2
    <2>3. CASE w' = [w EXCEPT ![r] = [Unheld EXCEPT !.state = "running", !.cred = job[r].cred]]
      <3>1. PICK v : v = [Unheld EXCEPT !.state = "running", !.cred = job[r].cred]
        OBVIOUS
      <3>2. v.cred = job[r].cred
        BY <3>1 DEF Unheld
      <3>3. QED BY <1>3, <2>3, <3>1, <3>2
    <2>4. CASE w' = [w EXCEPT ![r] = [Unheld EXCEPT !.state = "done", !.result = "run_failed"]]
      <3>1. PICK v : v = [Unheld EXCEPT !.state = "done", !.result = "run_failed"]
        OBVIOUS
      <3>2. v.state = "done"
        BY <3>1 DEF Unheld
      <3>3. QED BY <2>4, <3>1, <3>2
    <2>5. QED BY <2>2, <2>3, <2>4 DEF SendStart, worker
  <1>5. PICK p \in Landing : pc' = [pc EXCEPT ![r] = p] /\ job' = [job EXCEPT ![r] = j]
    <2>1. CASE Retry(r)
      BY <1>1, <1>2, <2>1, FailsTo
    <2>2. CASE ~Retry(r)
      <3>1. PICK n : n \in {followed(w[r].state), "poll", "result"} /\ Returns(r, n, job[r])
        BY <2>2 DEF SendStart
      <3>2. n \in Landing
        BY <3>1 DEF followed, Landing, Heads
      <3>3. pc' = [pc EXCEPT ![r] = n] /\ job' = [job EXCEPT ![r] = job[r]]
        BY <2>2, <3>1 DEF Returns
      <3>4. QED BY <1>2, <3>2, <3>3
    <2>3. QED BY <2>1, <2>2
  <1>6. SignMove(r, p, j, e, v)
    BY <1>1, <1>2, <1>4, <1>5, HeadsAreNotMid DEF SignMove
  <1>7. QED BY <1>1, <1>6, SignMoves

\* The end of a run: before its outcome is written, what it was refused is replaced or named by a disable.
LEMMA DisableRejectedSigns ==
    ASSUME PortalInv, SignInv, NEW r \in Runs, DisableRejected(r)
    PROVE  SignInv'
  <1>1. /\ pc[r] = "finish" /\ pc[r] \in Heads \cup MidStep /\ slotFree(r)
        /\ UNCHANGED <<creds, endRow, rejected, w>>
        /\ endRow' = [endRow EXCEPT ![r] = endRow[r]]
    BY RunFacts DEF DisableRejected, Heads, rows, worker
  <1>2. CASE Settled(r) /\ UNCHANGED <<enabled, holds>>
    <2>1. PICK e : e = endRow[r]
      OBVIOUS
    <2>2. QED BY <1>1, <1>2, <2>1, FailSigns
  <1>3. CASE /\ Goto(r, "finishing") /\ UNCHANGED job
             /\ \/ (endOf(r) # "credential_rejected" \/ job[r].cred # latest) /\ UNCHANGED <<enabled, holds>>
                \/ enabled' = FALSE /\ holds' = holds \union {job[r].cred}
    <2>1. latest' = latest /\ latest \in Nat
      BY <1>1, RunFacts DEF latest
    <2>2. /\ pc'[r] = "finishing" /\ (\A q \in Runs \ {r} : pc'[q] = pc[q])
      BY <1>3 DEF Goto, PortalInv, PortalType
    <2>3. holds \subseteq holds' /\ holds' \subseteq 0..latest /\ (latest \in holds' => ~enabled')
      <3>1. SignOk(r) /\ job[r].cred \in Nat /\ holds \subseteq 0..latest /\ (latest \in holds => ~enabled)
        BY RunFacts DEF SignInv, JobType
      <3>2. CASE UNCHANGED <<enabled, holds>>
        BY <3>1, <3>2
      <3>3. CASE enabled' = FALSE /\ holds' = holds \union {job[r].cred}
        <4>1. holds \subseteq holds' /\ holds' \subseteq 0..latest
          <5>1. job[r].cred <= latest
            BY <3>1 DEF SignOk
          <5>2. job[r].cred \in 0..latest
            BY <2>1, <3>1, <5>1
          <5>3. QED BY <3>1, <3>3, <5>2
        <4>2. QED BY <3>3, <4>1
      <3>4. QED BY <1>3, <3>2, <3>3
    <2>4. job[r].result = "credential_rejected" => job[r].cred # latest \/ job[r].cred \in holds'
      BY <1>3 DEF endOf
    <2>5. \A q \in Runs : Burnt(q) => Burnt(q)'
      BY <1>1, <2>1, <2>3 DEF Burnt
    <2>6. job[r].result = "credential_rejected" => Burnt(r)'
      <3>1. SUFFICES ASSUME job[r].result = "credential_rejected", NEW c \in Nat, <<r, c>> \in rejected
                     PROVE  c < latest \/ c \in holds'
        BY <1>1, <2>1 DEF Burnt
      <3>2. SignOk(r) /\ job[r].cred \in Nat
        BY RunFacts DEF SignInv, JobType
      <3>3. c <= job[r].cred /\ job[r].cred <= latest
        BY <3>1, <3>2 DEF SignOk
      <3>4. QED BY <2>1, <2>4, <3>1, <3>2, <3>3
    <2>7. ASSUME NEW q \in Runs PROVE SignOk(q)'
      <3>1. SignOk(q)
        BY DEF SignInv
      <3>2. QED BY <1>1, <1>3, <2>1, <2>2, <2>5, <2>6, <3>1 DEF SignOk
    <2>8. ASSUME NEW q \in Runs PROVE StartSafe(q)'
      <3>1. StartSafe(q)
        BY DEF SignInv
      <3>2. pc'[q] = "starting" => pc[q] = "starting"
        BY <2>2
      <3>3. QED BY <1>1, <1>3, <3>1, <3>2 DEF StartSafe
    <2>9. \A q, s \in Runs : pc'[q] \in MidStep /\ pc'[s] \in MidStep => q = s
      BY <1>1, <2>2 DEF SignInv, slotFree
    <2>10. rejected' \subseteq Runs \X Nat
      BY <1>1 DEF SignInv
    <2>11. QED BY <2>1, <2>3, <2>7, <2>8, <2>9, <2>10 DEF SignInv
  <1>4. QED BY <1>2, <1>3 DEF DisableRejected

\* The worker refuses only what it was typing, and types nothing new.
LEMMA WorkerSigns ==
    ASSUME PortalInv, SignInv,
           Restart \/ (\E r \in Runs : RunEnds(r) \/ Overran(r) \/ Release(r) \/ Sweep(r))
    PROVE  SignInv'
  <1>1. UNCHANGED <<creds, holds, enabled, endRow, pc, job>>
    BY DEF Restart, RunEnds, Overran, Release, Sweep, steps, store, rows
  <1>2. w \in [Runs -> WorkerType]
    BY DEF PortalInv, PortalType
  <1>3. ASSUME NEW q \in Runs PROVE w'[q].state = "running" => w'[q] = w[q]
    <2>1. CASE w' \in {w, [x \in Runs |-> Unheld]}
      BY <2>1 DEF Unheld
    <2>2. ASSUME NEW r \in Runs, NEW v, w' = [w EXCEPT ![r] = v], v.state = "running" => v = w[r]
          PROVE  w'[q].state = "running" => w'[q] = w[q]
      BY <1>2, <2>2
    <2>3. ASSUME NEW r \in Runs, RunEnds(r) \/ Overran(r) \/ Sweep(r)
          PROVE  \E v : w' = [w EXCEPT ![r] = v] /\ (v.state = "running" => v = w[r])
      <3>1. CASE RunEnds(r)
        <4>1. PICK x, f : w' = [w EXCEPT ![r].state = "done", ![r].result = x, ![r].captures = f]
          BY <3>1 DEF RunEnds, SignedIn
        <4>2. PICK v : v = [w[r] EXCEPT !.state = "done", !.result = x, !.captures = f]
          OBVIOUS
        <4>3. w' = [w EXCEPT ![r] = v] /\ v.state = "done"
          BY <1>2, <4>1, <4>2 DEF WorkerType
        <4>4. QED BY <4>3
      <3>2. CASE Overran(r)
        <4>1. w' = [w EXCEPT ![r].state = "done", ![r].result = "run_failed"]
          BY <3>2 DEF Overran
        <4>2. PICK v : v = [w[r] EXCEPT !.state = "done", !.result = "run_failed"]
          OBVIOUS
        <4>3. w' = [w EXCEPT ![r] = v] /\ v.state = "done"
          BY <1>2, <4>1, <4>2 DEF WorkerType
        <4>4. QED BY <4>3
      <3>3. CASE Sweep(r) /\ w' = [w EXCEPT ![r].state = "forgotten"]
        <4>1. PICK v : v = [w[r] EXCEPT !.state = "forgotten"]
          OBVIOUS
        <4>2. w' = [w EXCEPT ![r] = v] /\ v.state = "forgotten"
          BY <1>2, <3>3, <4>1 DEF WorkerType
        <4>3. QED BY <4>2
      <3>4. CASE Sweep(r) /\ w' = [w EXCEPT ![r].held = FALSE]
        <4>1. PICK v : v = [w[r] EXCEPT !.held = FALSE]
          OBVIOUS
        <4>2. w' = [w EXCEPT ![r] = v] /\ v.state = "done"
          BY <1>2, <3>4, <4>1 DEF WorkerType, Sweep
        <4>3. QED BY <4>2
      <3>5. QED BY <2>3, <3>1, <3>2, <3>3, <3>4 DEF Sweep
    <2>4. CASE Restart
      BY <2>1, <2>4 DEF Restart
    <2>5. ASSUME NEW r \in Runs, Release(r)
          PROVE  w' \in {w, [x \in Runs |-> Unheld]}
      BY <2>5 DEF Release
    <2>6. QED BY <2>1, <2>2, <2>3, <2>4, <2>5
  <1>4. /\ rejected' \subseteq Runs \X Nat
        /\ \A q \in Runs, c \in Nat :
             <<q, c>> \in rejected' => <<q, c>> \in rejected \/ (w[q].state = "running" /\ c = w[q].cred)
    <2>1. rejected \subseteq Runs \X Nat /\ (\A q \in Runs : w[q].cred \in Nat)
      BY <1>2 DEF SignInv, WorkerType
    <2>2. CASE rejected' = rejected
      BY <2>1, <2>2
    <2>3. CASE \E r \in Runs : w[r].state = "running" /\ rejected' = rejected \union {<<r, w[r].cred>>}
      BY <2>1, <2>3
    <2>4. CASE rejected' = rejected \union {<<r, w[r].cred>> : r \in {q \in Runs : w[q].state = "running"}}
      BY <2>1, <2>4
    <2>5. \/ rejected' = rejected
          \/ \E r \in Runs : w[r].state = "running" /\ rejected' = rejected \union {<<r, w[r].cred>>}
          \/ rejected' = rejected \union {<<r, w[r].cred>> : r \in {q \in Runs : w[q].state = "running"}}
      <3>1. CASE Restart
        BY <3>1 DEF Restart
      <3>2. ASSUME NEW r \in Runs, RunEnds(r) \/ Overran(r) \/ Release(r) \/ Sweep(r)
            PROVE  rejected' = rejected \/ (w[r].state = "running" /\ rejected' = rejected \union {<<r, w[r].cred>>})
        BY <3>2 DEF RunEnds, SignedIn, Overran, Release, Sweep
      <3>3. QED BY <3>1, <3>2
    <2>6. QED BY <2>2, <2>3, <2>4, <2>5
  <1>5. latest' = latest
    BY <1>1 DEF latest
  <1>6. ASSUME NEW q \in Runs, job[q].result # "none", NEW c \in Nat, <<q, c>> \in rejected'
        PROVE  <<q, c>> \in rejected
    BY <1>4, <1>6 DEF SignInv, SignOk
  <1>7. ASSUME NEW q \in Runs, job[q].result = "credential_rejected", Burnt(q) PROVE Burnt(q)'
    BY <1>1, <1>5, <1>6, <1>7 DEF Burnt
  <1>8. ASSUME NEW q \in Runs PROVE SignOk(q)'
    <2>1. SignOk(q)
      BY DEF SignInv
    <2>2. \A c \in Nat : <<q, c>> \in rejected' => c <= job[q].cred
      BY <1>4, <2>1 DEF SignOk
    <2>3. QED BY <1>1, <1>3, <1>5, <1>7, <2>1, <2>2 DEF SignOk
  <1>9. ASSUME NEW r \in Runs PROVE StartSafe(r)'
    <2>1. SUFFICES ASSUME pc[r] = "starting", NEW q \in Runs, endRow[q] = "credential_rejected"
                   PROVE  <<q, job[r].cred>> \notin rejected'
      BY <1>1 DEF StartSafe
    <2>2. <<q, job[r].cred>> \notin rejected /\ job[q].result = "credential_rejected" /\ job[r].cred \in Nat
      BY <2>1, RunFacts DEF SignInv, StartSafe, SignOk, JobType
    <2>3. QED BY <1>6, <2>2
  <1>10. QED BY <1>1, <1>4, <1>5, <1>8, <1>9 DEF SignInv

\* What owners do: a hold on the latest credential keeps the connection off until another is stored.
LEMMA PeopleSigns ==
    ASSUME PortalInv, SignInv, People
    PROVE  SignInv'
  <1>1. UNCHANGED <<endRow, pc, job, w, rejected>>
    BY DEF People, steps, worker, rows
  <1>2. latest \in Nat /\ latest' \in Nat /\ latest <= latest' /\ holds \subseteq holds'
        /\ holds' \subseteq 0..latest' /\ (latest' \in holds' => ~enabled')
    <2>1. latest \in Nat /\ creds \in Seq(Nat) /\ holds \subseteq 0..latest /\ (latest \in holds => ~enabled)
      BY RunFacts DEF PortalInv, PortalType, latest, SignInv
    <2>2. CASE SealAndStoreCredential
      <3>1. latest' = latest + 1 /\ holds' = holds
        BY <2>1, <2>2 DEF SealAndStoreCredential, latest
      <3>2. QED BY <2>1, <3>1
    <2>3. CASE ~SealAndStoreCredential
      <3>1. latest' = latest
        BY <2>3 DEF People, TurnOff, RemoveCredential, TurnOn, ReviewRecipeVersion, ChangeRole, latest
      <3>2. \/ UNCHANGED <<enabled, holds>>
            \/ enabled' = FALSE /\ holds' \in {holds, holds \union {latest}}
            \/ latest \notin holds /\ holds' = holds
        BY <2>3 DEF People, TurnOff, RemoveCredential, TurnOn, ReviewRecipeVersion, ChangeRole
      <3>3. CASE UNCHANGED <<enabled, holds>>
        BY <2>1, <3>1, <3>3
      <3>4. CASE enabled' = FALSE /\ holds' \in {holds, holds \union {latest}}
        <4>1. holds \subseteq holds' /\ holds' \subseteq 0..latest
          BY <2>1, <3>4
        <4>2. QED BY <2>1, <3>1, <3>4, <4>1
      <3>5. CASE latest \notin holds /\ holds' = holds
        BY <2>1, <3>1, <3>5
      <3>6. QED BY <3>2, <3>3, <3>4, <3>5
    <2>4. QED BY <2>2, <2>3
  <1>3. ASSUME NEW q \in Runs, Burnt(q) PROVE Burnt(q)'
    BY <1>1, <1>2, <1>3 DEF Burnt
  <1>4. ASSUME NEW q \in Runs PROVE SignOk(q)'
    <2>1. SignOk(q) /\ job[q].cred \in Nat
      BY RunFacts DEF SignInv, JobType
    <2>2. QED BY <1>1, <1>2, <1>3, <2>1 DEF SignOk
  <1>5. \A r \in Runs : StartSafe(r)'
    BY <1>1 DEF SignInv, StartSafe
  <1>6. QED BY <1>1, <1>2, <1>4, <1>5 DEF SignInv


\* Only asking the worker to start makes it type anything, and what it types then no recorded refusal names.
LEMMA TypedOnce ==
    ASSUME PortalInv, SignInv, [Next]_vars
    PROVE  TypedStep
  <1>1. SUFFICES ASSUME NEW r \in Runs, NEW q \in Runs, inFlight # r, inFlight' = r, endRow[q] = "credential_rejected"
                 PROVE  <<q, w'[r].cred>> \notin rejected
    BY DEF TypedStep, signsIn
  <1>2. r # NoRun
    BY PortalAssumption
  <1>3. SendStart(r) /\ pc[r] = "starting"
    <2>1. CASE UNCHANGED inFlight
      BY <1>1, <2>1
    <2>2. CASE inFlight' = NoRun
      BY <1>1, <1>2, <2>2
    <2>3. ASSUME NEW x \in Runs, SendStart(x), inFlight' # inFlight
          PROVE  x = r
      BY <1>1, <2>3 DEF SendStart, worker
    <2>4. ASSUME NEW x \in Runs, Step(x), ~SendStart(x)
          PROVE  UNCHANGED inFlight
      BY <2>4 DEF Step, PrepareRun, RecordRunStart, EndBeforeWorker, StartRun, OnWorkerAlready, PollRun, TimedOut,
                  FetchResult, IngestCapture, Scan, RecordCapture, DisableRejected, FinishRun, RecordFailure,
                  RequestReads, Dies, worker
    <2>5. ASSUME NEW x \in Runs, FanOut(x) \/ QueueDryRun(x)
          PROVE  UNCHANGED inFlight
      BY <2>5 DEF FanOut, QueueDryRun, Queued, worker
    <2>6. ASSUME NEW x \in Runs, RunEnds(x) \/ Overran(x) \/ Release(x) \/ Sweep(x)
          PROVE  inFlight' \in {inFlight, NoRun}
      BY <2>6 DEF RunEnds, Overran, Release, Sweep
    <2>7. CASE Restart \/ People \/ UNCHANGED vars
      BY <2>1, <2>2, <2>7 DEF Restart, People, vars, worker
    <2>8. QED BY <1>1, <2>1, <2>2, <2>3, <2>4, <2>5, <2>6, <2>7 DEF Next, SendStart
  <1>4. w' = [w EXCEPT ![r] = [Unheld EXCEPT !.state = "running", !.cred = job[r].cred]]
    BY <1>1, <1>3 DEF SendStart, worker
  <1>5. PICK v : v = [Unheld EXCEPT !.state = "running", !.cred = job[r].cred]
    OBVIOUS
  <1>6. v.cred = job[r].cred
    BY <1>5 DEF Unheld
  <1>7. w'[r].cred = job[r].cred
    BY <1>4, <1>5, <1>6 DEF PortalInv, PortalType
  <1>8. QED BY <1>1, <1>3, <1>7 DEF SignInv, StartSafe

\* Every step keeps what is known of refusals.
LEMMA SignStep ==
    ASSUME PortalInv, SignInv, [Next]_vars
    PROVE  SignInv'
  <1>1. CASE UNCHANGED vars
    <2>1. UNCHANGED <<creds, holds, enabled, endRow, pc, job, w, rejected>>
      BY <1>1 DEF vars, steps, worker, store, rows
    <2>2. latest' = latest
      BY <2>1 DEF latest
    <2>3. \A q \in Runs : SignOk(q)' /\ StartSafe(q)'
      BY <2>1, <2>2 DEF SignInv, SignOk, StartSafe, Burnt
    <2>4. QED BY <2>1, <2>2, <2>3 DEF SignInv
  <1>2. ASSUME NEW r \in Runs, FanOut(r) \/ QueueDryRun(r) \/ Step(r)
        PROVE  SignInv'
    <2>1. CASE FanOut(r) \/ QueueDryRun(r) \/ PrepareRun(r) \/ Scan(r)
      BY <2>1, GoingSigns DEF FanOut, QueueDryRun
    <2>2. CASE EndBeforeWorker(r) \/ FinishRun(r) \/ RecordFailure(r)
      BY <2>2, OutcomeSigns
    <2>3. CASE PollRun(r) \/ TimedOut(r) \/ Dies(r) \/ RequestReads(r)
      BY <2>3, PlainSigns
    <2>4. CASE RecordRunStart(r) \/ OnWorkerAlready(r) \/ FetchResult(r) \/ StartRun(r) \/ SendStart(r) \/ DisableRejected(r)
      BY <2>4, RecordRunStartSigns, OnWorkerAlreadySigns, FetchResultSigns, StartRunSigns, SendStartSigns,
         DisableRejectedSigns
    <2>5. CASE IngestCapture(r) \/ RecordCapture(r)
      BY <2>5, CaptureSigns
    <2>6. QED BY <1>2, <2>1, <2>2, <2>3, <2>4, <2>5 DEF Step
  <1>3. CASE Restart \/ (\E r \in Runs : RunEnds(r) \/ Overran(r) \/ Release(r) \/ Sweep(r))
    BY <1>3, WorkerSigns
  <1>4. CASE People
    BY <1>4, PeopleSigns
  <1>5. QED BY <1>1, <1>2, <1>3, <1>4 DEF Next

\* Nothing has been refused at the start.
LEMMA SignInit ==
    ASSUME Init
    PROVE  SignInv
  <1>1. latest \in Nat
    BY DEF Init, latest
  <1>2. holds = {} /\ rejected = {}
    BY DEF Init
  <1>3. ASSUME NEW q \in Runs
        PROVE  /\ pc[q] = "unasked" /\ job[q].cred = 0 /\ w[q].state = "unknown" /\ endRow[q] = "none"
    BY DEF Init, NoProgress, Unheld
  <1>4. \A q \in Runs : SignOk(q)
    BY <1>1, <1>2, <1>3 DEF SignOk
  <1>5. \A q \in Runs : StartSafe(q)
    BY <1>3 DEF StartSafe
  <1>6. \A q \in Runs : pc[q] \notin MidStep
    BY <1>3 DEF MidStep
  <1>7. QED BY <1>2, <1>4, <1>5, <1>6 DEF SignInv

\* In every state a recorded refusal names only credentials that were replaced or that a disable holds, and a
\* held latest credential keeps the connection off.
THEOREM SignInvariance == Spec => []SignInv
  <1>1. Init => SignInv
    BY SignInit
  <1>2. PortalInv /\ SignInv /\ [Next]_vars => SignInv'
    BY SignStep
  <1>3. QED BY <1>1, <1>2, PortalInvariance, PTL DEF Spec

\* Once a run's refused sign-in is recorded, no run the worker starts later types that credential, whatever
\* owners, retries, restarts and the other runs do: finishRun turns the connection off before it writes the outcome,
\* and one step of a connection is taken at a time.
THEOREM RefusedIsNotTypedAgain == Spec => NotTypedOnceRecorded
  <1>1. PortalInv /\ SignInv /\ [Next]_vars => [TypedStep]_vars
    BY TypedOnce
  <1>2. QED BY <1>1, PortalInvariance, SignInvariance, PTL DEF Spec, NotTypedOnceRecorded, TypedStep


-----------------------------------------------------------------------------
(* What was captured is sent to be read, if no more than one thing goes wrong *)

\* The steps of a run after the worker's result was fetched.
Late == Taking \cup {"finish", "finishing", "failure", "reads"}

\* No run the watchdog ended still holds the browser.
NoOverrun == \A q \in Runs : inFlight = q => w[q].state = "running"

\* The captures of the run are held, and the one thing that could lose them is not under way.
Safe(r) == CaptureHeld(r) /\ NoOverrun

\* The capture the run is at has its row already.
RowAhead(r) == \E i \in 1..MaxCaptures : i = job[r].done + 1 /\ capRows[r][i] # 0

NoRows(r) == \A i \in 1..MaxCaptures : capRows[r][i] = 0
Asked(r) == {r} \X clean(r) \subseteq requested

\* What is known of a content: refused ones are never kept, infected ones never found clean.
DocsOk == \A d \in Docs : /\ docs[d] # "none" => d \notin Refused
                          /\ docs[d] = "clean" => d \notin Infected

\* Only a completed run has captures, and a browser is held past the end of its run only after a fault.
FoundOk(q) ==
    /\ w[q].state = "running" \/ w[q].result # "completed" => w[q].captures = << >>
    /\ job[q].result # "completed" => job[q].captures = << >>
    /\ inFlight = q /\ w[q].state # "running" => faults >= 1

\* A row is there for a capture the run is done with, or for the one it is at; one it went back to is not lost;
\* and whatever the run was done with is asked for at its end.
RowsAskedFor(r) ==
    /\ pc[r] \in Late /\ attempt[r] > 1 => faults >= 1
    /\ \A i \in 1..MaxCaptures : capRows[r][i] # 0 => i <= job[r].done \/ (pc[r] \in Taking /\ i = job[r].done + 1)
    /\ pc[r] \in Taking => NoRows(r) \/ endRow[r] = "none"
    /\ pc[r] \in {"finish", "finishing"} => NoRows(r) \/ endRow[r] \in {"none", endOf(r)}
    /\ pc[r] = "failure" => NoRows(r) \/ endRow[r] \in {"none", "failed"}
    /\ pc[r] = "over" => NoRows(r) \/ Asked(r)
    /\ pc[r] = "capture" /\ RowAhead(r) => Safe(r) /\ faults >= 1
    /\ pc[r] \in {"scanning", "filing"} /\ faults = 0 => CaptureHeld(r)
    /\ pc[r] = "filing" /\ docs[bytes(r)] = "unscanned" => Safe(r) /\ faults >= 1 /\ attempt[r] = 1

ReqInv ==
    /\ attempt \in [Runs -> Nat \ {0}] /\ faults \in Nat
    /\ DocsOk
    /\ \A r \in Runs : FoundOk(r)
    /\ \A r \in Runs : RowsAskedFor(r)


\* What a step of run r leaves alone.
ReqFrame(r) ==
    /\ \A q \in Runs \ {r} : /\ pc'[q] = pc[q] /\ attempt'[q] = attempt[q] /\ job'[q] = job[q]
                             /\ capRows'[q] = capRows[q] /\ endRow'[q] = endRow[q]
                             /\ w'[q] = w[q] /\ (inFlight' = q => inFlight = q)
    /\ requested \subseteq requested'
    /\ faults' \in Nat /\ faults' >= faults
    /\ \A d \in Docs : docs[d] # "none" /\ docs'[d] = "unscanned" => docs[d] = "unscanned"
    /\ NoOverrun => NoOverrun'

\* A run whose own state stays as it was, while its captures stay held as long as they must.
LEMMA RunStays ==
    ASSUME PortalInv, ReqInv, DocsOk', NEW q \in Runs,
           pc'[q] = pc[q], attempt'[q] = attempt[q], job'[q] = job[q], capRows'[q] = capRows[q],
           endRow'[q] = endRow[q], requested \subseteq requested', faults' \in Nat, faults' >= faults,
           \A d \in Docs : docs[d] # "none" /\ docs'[d] = "unscanned" => docs[d] = "unscanned",
           faults' = 0 /\ CaptureHeld(q) => CaptureHeld(q)',
           faults >= 1 /\ Safe(q) => Safe(q)'
    PROVE  RowsAskedFor(q)'
  <1>1. RowsAskedFor(q) /\ faults \in Nat /\ attempt[q] \in Nat
    BY DEF ReqInv
  <1>2. NoRows(q)' <=> NoRows(q)
    BY DEF NoRows
  <1>3. endOf(q)' = endOf(q) /\ clean(q)' = clean(q)
    BY DEF endOf, clean, taken
  <1>4. Asked(q) => Asked(q)'
    BY <1>3 DEF Asked
  <1>5. RowAhead(q)' <=> RowAhead(q)
    BY DEF RowAhead
  <1>6. pc[q] = "filing" /\ docs'[bytes(q)] = "unscanned" => docs[bytes(q)] = "unscanned"
    <2>1. SUFFICES ASSUME pc[q] = "filing", docs'[bytes(q)] = "unscanned" PROVE docs[bytes(q)] = "unscanned"
      OBVIOUS
    <2>2. bytes(q) \in Docs /\ (bytes(q) \in Refused \/ docs[bytes(q)] # "none")
      BY <2>1, CaptureFacts, RunFacts DEF Taking, RunOk
    <2>3. bytes(q) \notin Refused
      BY <2>1, <2>2 DEF DocsOk
    <2>4. QED BY <2>1, <2>2, <2>3
  <1>7. bytes(q)' = bytes(q)
    BY DEF bytes, index
  <1>8. /\ pc[q] \in Late /\ attempt[q] > 1 => faults' >= 1
        /\ \A i \in 1..MaxCaptures : capRows'[q][i] # 0 => i <= job[q].done \/ (pc[q] \in Taking /\ i = job[q].done + 1)
    BY <1>1 DEF RowsAskedFor
  <1>9. /\ pc[q] \in Taking => NoRows(q)' \/ endRow[q] = "none"
        /\ pc[q] \in {"finish", "finishing"} => NoRows(q)' \/ endRow[q] \in {"none", endOf(q)}
        /\ pc[q] = "failure" => NoRows(q)' \/ endRow[q] \in {"none", "failed"}
        /\ pc[q] = "over" => NoRows(q)' \/ Asked(q)'
    BY <1>1, <1>2, <1>4 DEF RowsAskedFor
  <1>10. /\ pc[q] = "capture" /\ RowAhead(q)' => Safe(q)' /\ faults' >= 1
         /\ pc[q] \in {"scanning", "filing"} /\ faults' = 0 => CaptureHeld(q)'
         /\ pc[q] = "filing" /\ docs'[bytes(q)] = "unscanned" => Safe(q)' /\ faults' >= 1 /\ attempt[q] = 1
    BY <1>1, <1>5, <1>6 DEF RowsAskedFor
  <1>11. QED BY <1>3, <1>7, <1>8, <1>9, <1>10 DEF RowsAskedFor

\* A step of one run keeps what is known of the others.
LEMMA ReqMoves ==
    ASSUME PortalInv, ReqInv, NEW r \in Runs, ReqFrame(r), attempt' \in [Runs -> Nat \ {0}],
           DocsOk', FoundOk(r)', RowsAskedFor(r)'
    PROVE  ReqInv'
  <1>1. ASSUME NEW q \in Runs PROVE FoundOk(q)' /\ RowsAskedFor(q)'
    <2>1. CASE q = r
      BY <2>1
    <2>2. CASE q # r
      <3>1. /\ pc'[q] = pc[q] /\ attempt'[q] = attempt[q] /\ job'[q] = job[q]
            /\ capRows'[q] = capRows[q] /\ endRow'[q] = endRow[q]
            /\ w'[q] = w[q] /\ (inFlight' = q => inFlight = q)
        BY <2>2 DEF ReqFrame
      <3>2. FoundOk(q)'
        BY <3>1 DEF ReqInv, FoundOk, ReqFrame
      <3>3. CaptureHeld(q)' <=> CaptureHeld(q)
        BY <3>1 DEF CaptureHeld
      <3>4. Safe(q) => Safe(q)'
        BY <3>3 DEF Safe, ReqFrame
      <3>5. /\ requested \subseteq requested' /\ faults' \in Nat /\ faults' >= faults
            /\ \A d \in Docs : docs[d] # "none" /\ docs'[d] = "unscanned" => docs[d] = "unscanned"
        BY DEF ReqFrame
      <3>6. RowsAskedFor(q)'
        BY <3>1, <3>3, <3>4, <3>5, RunStays
      <3>7. QED BY <3>2, <3>6
    <2>3. QED BY <2>1, <2>2
  <1>2. QED BY <1>1 DEF ReqInv, ReqFrame

\* The worker is left alone, and the run keeps what it found.
LEMMA FoundStays ==
    ASSUME ReqInv, NEW r \in Runs, UNCHANGED <<w, inFlight>>, faults' \in Nat, faults' >= faults,
           job'[r].result = job[r].result, job'[r].captures = job[r].captures
    PROVE  FoundOk(r)'
  BY DEF ReqInv, FoundOk

\* A run without rows, between its steps.
LEMMA NothingToAsk ==
    ASSUME NEW r \in Runs, NoRows(r)', pc'[r] \notin {"scanning", "filing"},
           pc'[r] \in Late /\ attempt'[r] > 1 => faults' >= 1
    PROVE  RowsAskedFor(r)'
  BY DEF RowsAskedFor, NoRows, RowAhead

\* Before the worker's result is fetched there is no row.
LEMMA EarlyNoRows ==
    ASSUME PortalInv, NEW r \in Runs, job[r].captures = << >>
    PROVE  NoRows(r)
  <1>1. \A i \in 1..MaxCaptures : CaptureOk(capRows[r][i], i, job[r], docs)
    BY RunFacts DEF RunOk
  <1>2. Len(job[r].captures) = 0 /\ MaxCaptures \in Nat
    BY PortalAssumption
  <1>3. QED BY <1>1, <1>2 DEF CaptureOk, NoRows

\* A step that fails early is taken again or given up, at its first attempt then.
LEMMA FailsEarly ==
    ASSUME PortalInv, ReqInv, NEW r \in Runs, pc[r] \in Early \ {"unasked"}, Retry(r) \/ Settled(r)
    PROVE  /\ attempt' \in [Runs -> Nat \ {0}] /\ (\A q \in Runs \ {r} : attempt'[q] = attempt[q] /\ pc'[q] = pc[q])
           /\ pc'[r] \in Heads \cup {"over"} /\ (pc'[r] \in Late => attempt'[r] = 1)
           /\ job' = job
  <1>1. /\ attempt \in [Runs -> Nat \ {0}] /\ pc \in [Runs -> Pcs] /\ MaxAttempts \in Nat
    BY PortalAssumption DEF ReqInv, PortalInv, PortalType
  <1>2. PICK t : t = pc[r] /\ t \in Heads \cup MidStep /\ t \in Early
    BY DEF Early, Preparing, Heads, MidStep
  <1>3. headOf(t) \in Heads /\ headOf(t) \notin Late /\ givenUp(t) \in {"over", "failure"}
    BY <1>2, HeadsAre DEF Late, Taking, Heads, Early, Preparing
  <1>4. CASE Settled(r)
    <2>1. pc'[r] = givenUp(t) /\ attempt' = [attempt EXCEPT ![r] = 1] /\ (\A q \in Runs \ {r} : pc'[q] = pc[q])
      BY <1>1, <1>2, <1>4 DEF Settled
    <2>2. QED BY <1>1, <1>3, <1>4, <2>1 DEF Settled, Heads
  <1>5. CASE Retry(r)
    <2>1. /\ pc'[r] = IF attempt[r] < MaxAttempts THEN headOf(t) ELSE givenUp(t)
          /\ attempt'[r] = IF attempt[r] < MaxAttempts THEN attempt[r] + 1 ELSE 1
          /\ \A q \in Runs \ {r} : pc'[q] = pc[q] /\ attempt'[q] = attempt[q]
          /\ attempt' \in [Runs -> Nat \ {0}] /\ job' = job
      BY <1>1, <1>2, <1>5 DEF Retry
    <2>2. QED BY <1>3, <2>1 DEF Heads
  <1>6. QED BY <1>4, <1>5

\* A late step that fails for the first fault is taken again from its head.
LEMMA FailsLate ==
    ASSUME PortalInv, ReqInv, MaxAttempts >= 2, NEW r \in Runs, pc[r] \in Late, attempt[r] = 1, Retry(r)
    PROVE  /\ pc'[r] = headOf(pc[r]) /\ attempt'[r] = 2
           /\ attempt' \in [Runs -> Nat \ {0}] /\ (\A q \in Runs \ {r} : attempt'[q] = attempt[q] /\ pc'[q] = pc[q])
           /\ job' = job
  <1>1. attempt \in [Runs -> Nat \ {0}] /\ pc \in [Runs -> Pcs] /\ MaxAttempts \in Nat
    BY PortalAssumption DEF ReqInv, PortalInv, PortalType
  <1>2. attempt[r] < MaxAttempts
    BY <1>1
  <1>3. pc' = [pc EXCEPT ![r] = headOf(pc[r])] /\ attempt' = [attempt EXCEPT ![r] = 2] /\ job' = job
    BY <1>1, <1>2 DEF Retry
  <1>4. QED BY <1>1, <1>3

\* A settled error.
LEMMA SettledTo ==
    ASSUME PortalInv, ReqInv, NEW r \in Runs, Settled(r)
    PROVE  /\ pc'[r] = givenUp(pc[r]) /\ attempt'[r] = 1
           /\ attempt' \in [Runs -> Nat \ {0}] /\ (\A q \in Runs \ {r} : attempt'[q] = attempt[q] /\ pc'[q] = pc[q])
           /\ job' = job
  BY DEF Settled, ReqInv, PortalInv, PortalType


\* How a step of one run moves it before it has anything to ask for.
EarlyMoved(r) ==
    /\ attempt' \in [Runs -> Nat \ {0}]
    /\ \A q \in Runs \ {r} : attempt'[q] = attempt[q] /\ pc'[q] = pc[q] /\ job'[q] = job[q]
    /\ pc'[r] \notin {"scanning", "filing"} /\ (pc'[r] \in Late => attempt'[r] = 1)
    /\ faults' \in Nat /\ faults' >= faults

\* A step that fails early.
LEMMA EarlyFailure ==
    ASSUME PortalInv, ReqInv, NEW r \in Runs, pc[r] \in Early \ {"unasked"}, Retry(r) \/ Settled(r),
           faults' \in {faults, faults + 1}
    PROVE  EarlyMoved(r) /\ job' = job
  BY FailsEarly DEF EarlyMoved, Heads, ReqInv

\* A step that returns early.
LEMMA EarlyReturn ==
    ASSUME PortalInv, ReqInv, NEW r \in Runs, pc[r] \in Early \ {"unasked"}, NEW n \in Landing, NEW j, Returns(r, n, j)
    PROVE  EarlyMoved(r) /\ job'[r] \in {j, job[r]}
  <1>1. CASE faults' = faults + 1 /\ Retry(r)
    BY <1>1, EarlyFailure
  <1>2. CASE /\ pc' = [pc EXCEPT ![r] = n] /\ attempt' = [attempt EXCEPT ![r] = 1]
             /\ job' = [job EXCEPT ![r] = j] /\ UNCHANGED faults
    <2>1. /\ attempt \in [Runs -> Nat \ {0}] /\ pc \in [Runs -> Pcs] /\ job \in [Runs -> JobType] /\ faults \in Nat
      BY DEF ReqInv, PortalInv, PortalType
    <2>2. n \notin {"scanning", "filing"}
      BY DEF Landing, Heads
    <2>3. QED BY <1>2, <2>1, <2>2 DEF EarlyMoved
  <1>3. QED BY <1>1, <1>2 DEF Returns

\* A step within a step.
LEMMA EarlyGoing ==
    ASSUME PortalInv, ReqInv, NEW r \in Runs, NEW n \in Early, NEW j, Goto(r, n), job' = [job EXCEPT ![r] = j],
           UNCHANGED faults
    PROVE  EarlyMoved(r) /\ job'[r] = j
  <1>1. /\ attempt \in [Runs -> Nat \ {0}] /\ pc \in [Runs -> Pcs] /\ job \in [Runs -> JobType] /\ faults \in Nat
    BY DEF ReqInv, PortalInv, PortalType
  <1>2. n \notin {"scanning", "filing"} /\ n \notin Late
    BY DEF Early, Preparing, Late, Taking
  <1>3. QED BY <1>1, <1>2 DEF EarlyMoved, Goto

\* A run without rows moves on.
LEMMA EmptyMoves ==
    ASSUME PortalInv, ReqInv, NEW r \in Runs, NoRows(r), EarlyMoved(r), UNCHANGED <<capRows, docs, requested>>,
           \A q \in Runs \ {r} : endRow'[q] = endRow[q] /\ w'[q] = w[q] /\ (inFlight' = q => inFlight = q),
           NoOverrun => NoOverrun', FoundOk(r)'
    PROVE  ReqInv'
  <1>1. ReqFrame(r)
    BY DEF ReqFrame, EarlyMoved
  <1>2. DocsOk'
    BY DEF ReqInv, DocsOk
  <1>3. RowsAskedFor(r)'
    <2>1. NoRows(r)'
      BY DEF NoRows
    <2>2. pc'[r] \in Late /\ attempt'[r] > 1 => faults' >= 1
      BY DEF EarlyMoved
    <2>3. QED BY <2>1, <2>2, NothingToAsk DEF EarlyMoved
  <1>4. QED BY <1>1, <1>2, <1>3, ReqMoves DEF EarlyMoved

\* An early step of a run that leaves the worker alone and fetches nothing.
LEMMA EarlyStep ==
    ASSUME PortalInv, ReqInv, NEW r \in Runs, pc[r] \in Early, EarlyMoved(r),
           UNCHANGED <<capRows, docs, requested, w, inFlight>>, \A q \in Runs \ {r} : endRow'[q] = endRow[q],
           job'[r].result = job[r].result, job'[r].captures = job[r].captures
    PROVE  ReqInv'
  <1>1. NoRows(r)
    BY RunFacts, EarlyNoRows DEF RunOk
  <1>2. FoundOk(r)'
    BY FoundStays DEF EarlyMoved
  <1>3. NoOverrun => NoOverrun'
    BY DEF NoOverrun
  <1>4. QED BY <1>1, <1>2, <1>3, EmptyMoves

\* Asking for a read, and the questions asked before the worker.
LEMMA AskingReq ==
    ASSUME PortalInv, ReqInv, NEW r \in Runs,
           Queued(r, TRUE) \/ Queued(r, FALSE) \/ PrepareRun(r) \/ StartRun(r)
    PROVE  ReqInv'
  <1>1. /\ UNCHANGED <<capRows, docs, requested, w, inFlight, endRow, faults>> /\ pc[r] \in Early
    BY DEF Queued, PrepareRun, StartRun, rows, worker, Early, Preparing
  <1>2. job \in [Runs -> JobType]
    BY DEF PortalInv, PortalType
  <1>3. PICK n \in Early : Goto(r, n)
    BY DEF Queued, PrepareRun, StartRun, Early, Preparing
  <1>4. PICK j : job' = [job EXCEPT ![r] = j] /\ j.result = job[r].result /\ j.captures = job[r].captures
    <2>1. CASE Queued(r, TRUE) \/ Queued(r, FALSE)
      <3>1. PICK dry : job' = [job EXCEPT ![r].dry = dry]
        BY <2>1 DEF Queued
      <3>2. PICK j : j = [job[r] EXCEPT !.dry = dry]
        OBVIOUS
      <3>3. job' = [job EXCEPT ![r] = j] /\ j.result = job[r].result /\ j.captures = job[r].captures
        BY <1>2, <3>1, <3>2 DEF JobType
      <3>4. QED BY <3>3
    <2>2. CASE PrepareRun(r)
      <3>1. PICK v, d : job' = [job EXCEPT ![r].version = v, ![r].end = d]
        BY <2>2 DEF PrepareRun
      <3>2. PICK j : j = [job[r] EXCEPT !.version = v, !.end = d]
        OBVIOUS
      <3>3. job' = [job EXCEPT ![r] = j] /\ j.result = job[r].result /\ j.captures = job[r].captures
        BY <1>2, <3>1, <3>2 DEF JobType
      <3>4. QED BY <3>3
    <2>3. CASE StartRun(r)
      <3>1. PICK d : job' = [job EXCEPT ![r].end = d, ![r].cred = latest]
        BY <2>3 DEF StartRun
      <3>2. PICK j : j = [job[r] EXCEPT !.end = d, !.cred = latest]
        OBVIOUS
      <3>3. job' = [job EXCEPT ![r] = j] /\ j.result = job[r].result /\ j.captures = job[r].captures
        BY <1>2, <3>1, <3>2 DEF JobType
      <3>4. QED BY <3>3
    <2>4. QED BY <2>1, <2>2, <2>3
  <1>5. EarlyMoved(r) /\ job'[r] = j
    BY <1>1, <1>3, <1>4, EarlyGoing
  <1>6. QED BY <1>1, <1>4, <1>5, EarlyStep

\* The rows written before the worker is asked, and following it.
LEMMA FollowingReq ==
    ASSUME PortalInv, ReqInv, NEW r \in Runs,
           RecordRunStart(r) \/ EndBeforeWorker(r) \/ OnWorkerAlready(r) \/ PollRun(r) \/ TimedOut(r)
    PROVE  ReqInv'
  <1>1. /\ UNCHANGED <<capRows, docs, requested, w, inFlight>> /\ pc[r] \in Early \ {"unasked"}
        /\ \A q \in Runs \ {r} : endRow'[q] = endRow[q]
    BY DEF RecordRunStart, EndBeforeWorker, OnWorkerAlready, PollRun, TimedOut, rows, worker, Early, Preparing,
           PortalInv, PortalType, RowType
  <1>2. faults \in Nat /\ job \in [Runs -> JobType]
    BY DEF ReqInv, PortalInv, PortalType
  <1>3. CASE Settled(r) /\ faults' \in {faults, faults + 1}
    BY <1>1, <1>3, EarlyFailure, EarlyStep
  <1>4. CASE (Goto(r, "prepareEnd") \/ Goto(r, "startEnd")) /\ UNCHANGED <<job, faults>>
    <2>1. "prepareEnd" \in Early /\ "startEnd" \in Early
      BY DEF Early, Preparing
    <2>2. job' = [job EXCEPT ![r] = job[r]]
      BY <1>2, <1>4
    <2>3. PICK j : j = job[r]
      OBVIOUS
    <2>4. EarlyMoved(r) /\ job'[r] = j
      BY <1>4, <2>1, <2>2, <2>3, EarlyGoing
    <2>5. QED BY <1>1, <2>3, <2>4, EarlyStep
  <1>5. CASE \E n \in Landing : Returns(r, n, job[r])
    <2>1. PICK n \in Landing : Returns(r, n, job[r])
      BY <1>5
    <2>2. PICK j : j = job[r]
      OBVIOUS
    <2>3. EarlyMoved(r) /\ job'[r] = j
      BY <1>1, <2>1, <2>2, EarlyReturn
    <2>4. QED BY <1>1, <2>2, <2>3, EarlyStep
  <1>6. CASE \E n \in Landing : Returns(r, n, [job[r] EXCEPT !.cred = latest])
    <2>1. PICK n, j : n \in Landing /\ j = [job[r] EXCEPT !.cred = latest] /\ Returns(r, n, j)
      BY <1>6
    <2>2. j.result = job[r].result /\ j.captures = job[r].captures
      BY <1>2, <2>1 DEF JobType
    <2>3. EarlyMoved(r) /\ job'[r] \in {j, job[r]}
      BY <1>1, <2>1, EarlyReturn
    <2>4. QED BY <1>1, <2>2, <2>3, EarlyStep
  <1>7. {"start", "over", "result", followed(w[r].state)} \subseteq Landing
    BY DEF Landing, Heads, followed
  <1>8. CASE RecordRunStart(r)
    BY <1>3, <1>4, <1>5, <1>7, <1>8 DEF RecordRunStart
  <1>9. CASE EndBeforeWorker(r)
    BY <1>3, <1>5, <1>7, <1>9 DEF EndBeforeWorker
  <1>10. CASE OnWorkerAlready(r)
    BY <1>4, <1>6, <1>7, <1>10 DEF OnWorkerAlready
  <1>11. CASE PollRun(r) \/ TimedOut(r)
    BY <1>3, <1>5, <1>7, <1>11 DEF PollRun, TimedOut
  <1>12. QED BY <1>8, <1>9, <1>10, <1>11


\* The worker is asked to start: it has nothing of the run yet.
LEMMA SendStartReq ==
    ASSUME PortalInv, ReqInv, NEW r \in Runs, SendStart(r)
    PROVE  ReqInv'
  <1>1. /\ UNCHANGED <<capRows, docs, requested, endRow>> /\ pc[r] \in Early \ {"unasked"} /\ pc[r] \in Early
    BY DEF SendStart, rows, Early, Preparing
  <1>2. /\ faults \in Nat /\ job \in [Runs -> JobType] /\ w \in [Runs -> WorkerType]
        /\ job[r].captures = << >> /\ NoRows(r)
    BY <1>1, RunFacts, EarlyNoRows DEF ReqInv, PortalInv, PortalType, RunOk
  <1>3. EarlyMoved(r) /\ job'[r] = job[r]
    <2>1. CASE Retry(r) /\ UNCHANGED faults
      BY <1>1, <2>1, EarlyFailure
    <2>2. CASE ~(Retry(r) /\ UNCHANGED faults)
      <3>1. PICK n : n \in {followed(w[r].state), "poll", "result"} /\ Returns(r, n, job[r])
        BY <2>2 DEF SendStart
      <3>2. n \in Landing
        BY <3>1 DEF followed, Landing, Heads
      <3>3. PICK j : j = job[r]
        OBVIOUS
      <3>4. EarlyMoved(r) /\ job'[r] = j
        BY <1>1, <3>1, <3>2, <3>3, EarlyReturn
      <3>5. QED BY <3>3, <3>4
    <2>3. QED BY <2>1, <2>2
  <1>4. CASE UNCHANGED <<w, inFlight>>
    BY <1>1, <1>3, <1>4, EarlyStep
  <1>5. CASE ~UNCHANGED <<w, inFlight>>
    <2>1. PICK v : /\ w' = [w EXCEPT ![r] = v] /\ inFlight = NoRun
                   /\ v \in {[Unheld EXCEPT !.state = "running", !.cred = job[r].cred],
                             [Unheld EXCEPT !.state = "done", !.result = "run_failed"]}
                   /\ \/ inFlight' = r /\ v = [Unheld EXCEPT !.state = "running", !.cred = job[r].cred]
                      \/ inFlight' = NoRun
      BY <1>5 DEF SendStart, worker
    <2>2. v.captures = << >> /\ (v = [Unheld EXCEPT !.state = "running", !.cred = job[r].cred] => v.state = "running")
      BY <2>1 DEF Unheld
    <2>3. \A q \in Runs \ {r} : endRow'[q] = endRow[q] /\ w'[q] = w[q] /\ (inFlight' = q => inFlight = q)
      BY <1>1, <1>2, <2>1, PortalAssumption
    <2>4. w'[r] = v /\ (inFlight' = r => v.state = "running")
      BY <1>2, <2>1, <2>2, PortalAssumption
    <2>5. NoOverrun'
      BY <2>1, <2>4, PortalAssumption DEF NoOverrun
    <2>6. FoundOk(r)'
      BY <1>2, <1>3, <2>2, <2>4 DEF FoundOk
    <2>7. QED BY <1>1, <1>2, <1>3, <2>3, <2>5, <2>6, EmptyMoves
  <1>6. QED BY <1>4, <1>5

\* The result is fetched: only a completed run has captures, and none has a row yet.
LEMMA FetchResultReq ==
    ASSUME PortalInv, ReqInv, NEW r \in Runs, FetchResult(r)
    PROVE  ReqInv'
  <1>1. /\ UNCHANGED <<capRows, docs, requested, endRow, w, inFlight>> /\ pc[r] \in Early \ {"unasked"} /\ pc[r] \in Early
    BY DEF FetchResult, rows, worker, Early, Preparing
  <1>2. /\ faults \in Nat /\ job \in [Runs -> JobType] /\ w \in [Runs -> WorkerType]
        /\ job[r].captures = << >> /\ NoRows(r)
    BY <1>1, RunFacts, EarlyNoRows DEF ReqInv, PortalInv, PortalType, RunOk
  <1>3. CASE w[r].state # "done"
    <2>1. Settled(r) /\ UNCHANGED faults
      BY <1>3 DEF FetchResult
    <2>2. QED BY <1>1, <2>1, EarlyFailure, EarlyStep
  <1>4. CASE w[r].state = "done"
    <2>1. PICK j, n : /\ j = [job[r] EXCEPT !.result = w[r].result, !.captures = w[r].captures]
                      /\ n = IF w[r].captures = <<>> THEN "finish" ELSE "capture"
      OBVIOUS
    <2>2. Returns(r, n, j) /\ n \in Landing
      BY <1>4, <2>1 DEF FetchResult, Landing, Heads
    <2>3. EarlyMoved(r) /\ job'[r] \in {j, job[r]}
      BY <1>1, <2>2, EarlyReturn
    <2>4. j.result = w[r].result /\ j.captures = w[r].captures
      BY <1>2, <2>1 DEF JobType
    <2>5. FoundOk(r)'
      <3>1. FoundOk(r)
        BY DEF ReqInv
      <3>2. QED BY <1>1, <1>2, <2>3, <2>4, <3>1 DEF FoundOk, EarlyMoved
    <2>6. NoOverrun => NoOverrun'
      BY <1>1 DEF NoOverrun
    <2>7. QED BY <1>1, <1>2, <2>3, <2>5, <2>6, EmptyMoves
  <1>5. QED BY <1>3, <1>4

-----------------------------------------------------------------------------
(* Late steps *)

\* A late step of a run that leaves the worker alone and keeps what it found.
LEMMA LateStep ==
    ASSUME PortalInv, ReqInv, NEW r \in Runs, attempt' \in [Runs -> Nat \ {0}],
           \A q \in Runs \ {r} : /\ pc'[q] = pc[q] /\ attempt'[q] = attempt[q] /\ job'[q] = job[q]
                                 /\ capRows'[q] = capRows[q] /\ endRow'[q] = endRow[q],
           UNCHANGED <<w, inFlight>>, requested \subseteq requested', faults' \in Nat, faults' >= faults,
           \A d \in Docs : docs[d] # "none" /\ docs'[d] = "unscanned" => docs[d] = "unscanned",
           job'[r].result = job[r].result, job'[r].captures = job[r].captures,
           DocsOk', RowsAskedFor(r)'
    PROVE  ReqInv'
  <1>1. ReqFrame(r)
    BY DEF ReqFrame, NoOverrun
  <1>2. QED BY <1>1, FoundStays, ReqMoves

\* Without a fault so far no browser is held past the end of its run.
LEMMA NoFaultNoOverrun ==
    ASSUME ReqInv, faults = 0
    PROVE  NoOverrun
  BY DEF ReqInv, FoundOk, NoOverrun

\* The row of the capture a run is at.
LEMMA AtCapture ==
    ASSUME PortalInv, NEW r \in Runs, pc[r] \in Taking
    PROVE  /\ RowAhead(r) <=> capRows[r][index(r)] # 0
           /\ capRows[r][index(r)] # 0 => bytes(r) \in Refused \/ docs[bytes(r)] # "none"
  <1>1. index(r) \in 1..MaxCaptures /\ index(r) = job[r].done + 1 /\ bytes(r) = job[r].captures[index(r)]
    BY CaptureFacts
  <1>2. CaptureOk(capRows[r][index(r)], index(r), job[r], docs)
    BY CaptureFacts
  <1>3. QED BY <1>1, <1>2 DEF RowAhead, CaptureOk

\* A capture is fetched and taken in: one whose row is there is still held.
LEMMA IngestCaptureReq ==
    ASSUME PortalInv, ReqInv, NEW r \in Runs, IngestCapture(r)
    PROVE  ReqInv'
  <1>1. /\ pc[r] = "capture" /\ pc[r] \in Taking /\ pc[r] \in Late
        /\ UNCHANGED <<startRow, endRow, requested, w, inFlight, faults>>
    BY DEF IngestCapture, Taking, Late, worker
  <1>2. /\ attempt \in [Runs -> Nat \ {0}] /\ faults \in Nat /\ DocsOk /\ RowsAskedFor(r)
        /\ job \in [Runs -> JobType] /\ pc \in [Runs -> Pcs]
    BY DEF ReqInv, PortalInv, PortalType
  <1>3. CASE /\ \/ ~CaptureHeld(r)
                \/ bytes(r) \notin Refused /\ docs[bytes(r)] = "none" /\ ~mayCapture(r)
             /\ Settled(r) /\ UNCHANGED <<capRows, docs>>
    <2>1. ~RowAhead(r)
      BY <1>1, <1>2, <1>3, AtCapture DEF RowsAskedFor, Safe
    <2>2. givenUp(pc[r]) = "failure"
      <3>1. "capture" \in Heads \cup MidStep /\ "capture" \notin Preparing \cup {"failure", "reads"}
        BY DEF Heads, Preparing
      <3>2. QED BY <1>1, <3>1, HeadsAre
    <2>3. /\ pc'[r] = "failure" /\ attempt'[r] = 1 /\ attempt' \in [Runs -> Nat \ {0}] /\ job' = job
          /\ \A q \in Runs \ {r} : attempt'[q] = attempt[q] /\ pc'[q] = pc[q]
      BY <1>3, <2>2, SettledTo
    <2>4. RowsAskedFor(r)'
      <3>1. \A i \in 1..MaxCaptures : capRows[r][i] # 0 => i <= job[r].done
        BY <1>2, <2>1 DEF RowsAskedFor, RowAhead
      <3>2. NoRows(r)' \/ endRow[r] = "none"
        BY <1>1, <1>2, <1>3 DEF RowsAskedFor, NoRows
      <3>3. QED BY <1>1, <1>3, <2>3, <3>1, <3>2 DEF RowsAskedFor
    <2>5. DocsOk'
      BY <1>2, <1>3 DEF DocsOk
    <2>6. QED BY <1>1, <1>2, <1>3, <2>3, <2>4, <2>5, LateStep
  <1>4. CASE /\ CaptureHeld(r)
             /\ bytes(r) \in Refused \/ docs[bytes(r)] # "none"
             /\ job' = [job EXCEPT ![r].rowWritten = FALSE]
             /\ Goto(r, IF bytes(r) \in Refused THEN "filing" ELSE "scanning")
             /\ UNCHANGED <<capRows, docs>>
    <2>1. PICK j, p : /\ j = [job[r] EXCEPT !.rowWritten = FALSE]
                      /\ p = IF bytes(r) \in Refused THEN "filing" ELSE "scanning"
      OBVIOUS
    <2>2. j.captures = job[r].captures /\ j.done = job[r].done /\ j.result = job[r].result
      BY <1>2, <2>1 DEF JobType
    <2>3. job' = [job EXCEPT ![r] = j]
      BY <1>2, <1>4, <2>1
    <2>4. /\ pc'[r] = p /\ attempt' = attempt /\ job'[r] = j
          /\ \A q \in Runs \ {r} : pc'[q] = pc[q] /\ job'[q] = job[q]
      BY <1>2, <1>4, <2>1, <2>3 DEF Goto
    <2>5. bytes(r) \in Docs /\ bytes(r)' = bytes(r)
      BY <1>1, <2>2, <2>4, CaptureFacts DEF bytes, index
    <2>6. p \in {"scanning", "filing"} /\ (p = "filing" => docs[bytes(r)] # "unscanned")
      BY <1>2, <2>1, <2>5 DEF DocsOk
    <2>7. CaptureHeld(r)'
      BY <1>1, <1>4 DEF CaptureHeld
    <2>8. RowsAskedFor(r)'
      <3>1. NoRows(r)' <=> NoRows(r)
        BY <1>4 DEF NoRows
      <3>2. pc'[r] \in Taking /\ pc'[r] \notin {"finish", "finishing", "failure", "over", "capture"}
        BY <2>4, <2>6 DEF Taking
      <3>3. /\ attempt[r] > 1 => faults >= 1
            /\ \A i \in 1..MaxCaptures : capRows[r][i] # 0 => i <= job[r].done \/ i = job[r].done + 1
            /\ NoRows(r) \/ endRow[r] = "none"
        BY <1>1, <1>2 DEF RowsAskedFor
      <3>4. QED BY <1>1, <1>4, <2>2, <2>4, <2>5, <2>6, <2>7, <3>1, <3>2, <3>3 DEF RowsAskedFor
    <2>9. DocsOk'
      BY <1>2, <1>4 DEF DocsOk
    <2>10. QED BY <1>1, <1>2, <1>4, <2>2, <2>4, <2>8, <2>9, LateStep
  <1>5. CASE /\ CaptureHeld(r) /\ mayCapture(r)
             /\ bytes(r) \notin Refused /\ docs[bytes(r)] = "none"
             /\ docs' = [docs EXCEPT ![bytes(r)] = "unscanned"]
             /\ capRows' = [capRows EXCEPT ![r][index(r)] = @ + 1]
             /\ job' = [job EXCEPT ![r].rowWritten = TRUE]
             /\ Goto(r, "scanning")
    <2>1. PICK j : j = [job[r] EXCEPT !.rowWritten = TRUE]
      OBVIOUS
    <2>2. j.captures = job[r].captures /\ j.done = job[r].done /\ j.result = job[r].result
      BY <1>2, <2>1 DEF JobType
    <2>3. job' = [job EXCEPT ![r] = j]
      BY <1>2, <1>5, <2>1
    <2>4. /\ pc'[r] = "scanning" /\ attempt' = attempt /\ job'[r] = j
          /\ \A q \in Runs \ {r} : pc'[q] = pc[q] /\ job'[q] = job[q]
      BY <1>2, <1>5, <2>1, <2>3 DEF Goto
    <2>5. /\ bytes(r) \in Docs /\ index(r) = job[r].done + 1 /\ index(r) \in 1..MaxCaptures /\ job[r].done \in Nat
      BY <1>1, CaptureFacts
    <2>6. /\ \A q \in Runs \ {r} : capRows'[q] = capRows[q]
          /\ \A i \in 1..MaxCaptures : i # index(r) => capRows'[r][i] = capRows[r][i]
      BY <1>5 DEF PortalInv, PortalType, RowType
    <2>7. CaptureHeld(r)' /\ endRow[r] = "none"
      BY <1>1, <1>5 DEF CaptureHeld, mayCapture
    <2>8. RowsAskedFor(r)'
      <3>1. pc'[r] \in Taking /\ pc'[r] \notin {"finish", "finishing", "failure", "over", "capture", "filing"}
        BY <2>4 DEF Taking
      <3>2. /\ attempt[r] > 1 => faults >= 1
            /\ \A i \in 1..MaxCaptures : capRows[r][i] # 0 => i <= job[r].done \/ i = job[r].done + 1
        BY <1>1, <1>2 DEF RowsAskedFor
      <3>3. \A i \in 1..MaxCaptures : capRows'[r][i] # 0 => i <= job[r].done \/ i = job[r].done + 1
        BY <2>5, <2>6, <3>2
      <3>4. QED BY <1>1, <2>2, <2>4, <2>7, <3>1, <3>2, <3>3 DEF RowsAskedFor
    <2>9. /\ \A d \in Docs : docs'[d] = IF d = bytes(r) THEN "unscanned" ELSE docs[d]
      BY <1>5, <2>5, RunFacts
    <2>10. DocsOk' /\ (\A d \in Docs : docs[d] # "none" /\ docs'[d] = "unscanned" => docs[d] = "unscanned")
      BY <1>2, <1>5, <2>9 DEF DocsOk
    <2>11. QED BY <1>1, <1>2, <2>2, <2>4, <2>6, <2>8, <2>10, LateStep
  <1>6. QED BY <1>3, <1>4, <1>5 DEF IngestCapture


\* A content is scanned: the one scan that may fail leaves the capture to be fetched again.
LEMMA ScanReq ==
    ASSUME PortalInv, ReqInv, MaxFaults <= 1, NEW r \in Runs, Scan(r)
    PROVE  ReqInv'
  <1>1. /\ pc[r] = "scanning" /\ pc[r] \in Taking /\ pc[r] \in Late
        /\ UNCHANGED <<endRow, capRows, requested, job, w, inFlight>>
    BY DEF Scan, Taking, Late, worker
  <1>2. /\ attempt \in [Runs -> Nat \ {0}] /\ faults \in Nat /\ DocsOk /\ RowsAskedFor(r) /\ MaxFaults \in Nat
        /\ job \in [Runs -> JobType] /\ pc \in [Runs -> Pcs] /\ docs \in [Docs -> DocStates]
    BY RunFacts, PortalAssumption DEF ReqInv, PortalInv, PortalType
  <1>3. bytes(r) \in Docs /\ docs[bytes(r)] # "none" /\ bytes(r)' = bytes(r)
    BY <1>1, RunFacts, CaptureFacts DEF RunOk, bytes, index
  <1>4. /\ pc'[r] = "filing" /\ attempt' = attempt /\ (\A q \in Runs \ {r} : pc'[q] = pc[q])
    BY <1>2 DEF Scan, Goto
  <1>5. PICK judged \in BOOLEAN :
           /\ docs' = [docs EXCEPT ![bytes(r)] = IF judged THEN scanOf(bytes(r)) ELSE docs[bytes(r)]]
           /\ judged \/ faults < MaxFaults
           /\ faults' = IF judged THEN faults ELSE faults + 1
    BY DEF Scan
  <1>6. /\ \A d \in Docs : docs'[d] = IF d = bytes(r) /\ judged THEN scanOf(d) ELSE docs[d]
    BY <1>2, <1>3, <1>5
  <1>7. DocsOk' /\ (\A d \in Docs : docs[d] # "none" /\ docs'[d] = "unscanned" => docs[d] = "unscanned")
    BY <1>2, <1>3, <1>6 DEF DocsOk, scanOf
  <1>8. faults' \in Nat /\ faults' >= faults
    BY <1>2, <1>5
  <1>9. CaptureHeld(r)' <=> CaptureHeld(r)
    BY <1>1 DEF CaptureHeld
  <1>10. docs'[bytes(r)] = "unscanned" => Safe(r)' /\ faults' >= 1 /\ attempt[r] = 1
    <2>1. CASE judged
      <3>1. docs'[bytes(r)] = scanOf(bytes(r))
        BY <1>3, <1>6, <2>1
      <3>2. QED BY <3>1 DEF scanOf
    <2>2. CASE ~judged
      <3>1. faults = 0 /\ faults' = 1
        BY <1>2, <1>5, <2>2
      <3>2. CaptureHeld(r) /\ NoOverrun /\ ~(attempt[r] > 1)
        BY <1>1, <1>2, <3>1, NoFaultNoOverrun DEF RowsAskedFor
      <3>3. attempt[r] = 1
        BY <1>2, <3>2
      <3>4. Safe(r)'
        BY <1>1, <3>2 DEF Safe, NoOverrun, CaptureHeld
      <3>5. QED BY <3>1, <3>3, <3>4
    <2>3. QED BY <2>1, <2>2
  <1>11. RowsAskedFor(r)'
    <2>1. pc'[r] \in Taking /\ pc'[r] \notin {"finish", "finishing", "failure", "over", "capture"}
      BY <1>4 DEF Taking
    <2>2. NoRows(r)' <=> NoRows(r)
      BY <1>1 DEF NoRows
    <2>3. /\ attempt[r] > 1 => faults >= 1
          /\ \A i \in 1..MaxCaptures : capRows[r][i] # 0 => i <= job[r].done \/ i = job[r].done + 1
          /\ NoRows(r) \/ endRow[r] = "none"
          /\ faults = 0 => CaptureHeld(r)
      BY <1>1, <1>2 DEF RowsAskedFor
    <2>4. faults' = 0 => faults = 0
      BY <1>2, <1>8
    <2>5. faults >= 1 => faults' >= 1
      BY <1>2, <1>8
    <2>6. QED BY <1>1, <1>3, <1>4, <1>9, <1>10, <2>1, <2>2, <2>3, <2>4, <2>5 DEF RowsAskedFor
  <1>12. QED BY <1>1, <1>2, <1>4, <1>7, <1>8, <1>11, LateStep

\* A capture is filed: the run goes on to the next, or fetches it again while it is held.
LEMMA RecordCaptureReq ==
    ASSUME PortalInv, ReqInv, MaxFaults <= 1, MaxAttempts >= 2, NEW r \in Runs, RecordCapture(r)
    PROVE  ReqInv'
  <1>1. /\ pc[r] = "filing" /\ pc[r] \in Taking /\ pc[r] \in Late /\ headOf(pc[r]) = "capture"
        /\ UNCHANGED <<endRow, docs, requested, w, inFlight>>
    <2>1. "filing" \in Heads \cup MidStep /\ "filing" \in Taking
      BY DEF MidStep, Taking
    <2>2. QED BY <2>1, HeadsAre DEF RecordCapture, Late, worker
  <1>2. /\ attempt \in [Runs -> Nat \ {0}] /\ faults \in Nat /\ DocsOk /\ RowsAskedFor(r) /\ MaxFaults \in Nat
        /\ job \in [Runs -> JobType] /\ pc \in [Runs -> Pcs] /\ capRows \in [Runs -> [1..MaxCaptures -> Nat]]
    BY PortalAssumption DEF ReqInv, PortalInv, PortalType, RowType
  <1>3. /\ bytes(r) \in Docs /\ index(r) = job[r].done + 1 /\ index(r) \in 1..MaxCaptures /\ job[r].done \in Nat
    BY <1>1, CaptureFacts
  <1>4. /\ attempt[r] > 1 => faults >= 1
        /\ \A i \in 1..MaxCaptures : capRows[r][i] # 0 => i <= job[r].done \/ i = job[r].done + 1
        /\ NoRows(r) \/ endRow[r] = "none"
        /\ faults = 0 => CaptureHeld(r)
        /\ docs[bytes(r)] = "unscanned" => Safe(r) /\ faults >= 1 /\ attempt[r] = 1
    BY <1>1, <1>2 DEF RowsAskedFor
  <1>5. DocsOk' /\ (Safe(r)' <=> Safe(r))
    BY <1>1, <1>2 DEF DocsOk, Safe, CaptureHeld, NoOverrun
  <1>6. CASE capRows[r][index(r)] = 0 /\ ~mayCapture(r)
    <2>1. Settled(r) /\ UNCHANGED <<capRows, faults>>
      BY <1>6 DEF RecordCapture
    <2>2. givenUp(pc[r]) = "failure"
      <3>1. "filing" \in Heads \cup MidStep /\ "filing" \notin Preparing \cup {"failure", "reads"}
        BY DEF MidStep, Preparing
      <3>2. QED BY <1>1, <3>1, HeadsAre
    <2>3. /\ pc'[r] = "failure" /\ attempt'[r] = 1 /\ attempt' \in [Runs -> Nat \ {0}] /\ job' = job
          /\ \A q \in Runs \ {r} : attempt'[q] = attempt[q] /\ pc'[q] = pc[q]
      BY <2>1, <2>2, SettledTo
    <2>4. \A i \in 1..MaxCaptures : capRows[r][i] # 0 => i <= job[r].done
      BY <1>3, <1>4, <1>6
    <2>5. NoRows(r)' \/ endRow[r] = "none"
      BY <1>4, <2>1 DEF NoRows
    <2>6. RowsAskedFor(r)'
      BY <1>1, <2>1, <2>3, <2>4, <2>5 DEF RowsAskedFor
    <2>7. /\ \A q \in Runs \ {r} : /\ pc'[q] = pc[q] /\ attempt'[q] = attempt[q] /\ job'[q] = job[q]
                                    /\ capRows'[q] = capRows[q] /\ endRow'[q] = endRow[q]
          /\ faults' \in Nat /\ faults' >= faults /\ requested \subseteq requested'
          /\ job'[r].result = job[r].result /\ job'[r].captures = job[r].captures
      BY <1>1, <1>2, <2>1, <2>3
    <2>8. \A d \in Docs : docs[d] # "none" /\ docs'[d] = "unscanned" => docs[d] = "unscanned"
      BY <1>1
    <2>9. QED BY <1>1, <1>5, <2>3, <2>6, <2>7, <2>8, LateStep
  <1>7. CASE ~(capRows[r][index(r)] = 0 /\ ~mayCapture(r))
    <2>1. capRows' = [capRows EXCEPT ![r][index(r)] = IF job[r].rowWritten THEN @ ELSE filed(@)]
      BY <1>7 DEF RecordCapture
    <2>2. /\ \A q \in Runs \ {r} : capRows'[q] = capRows[q]
          /\ \A i \in 1..MaxCaptures : i # index(r) => capRows'[r][i] = capRows[r][i]
      BY <1>2, <2>1
    <2>3. endRow[r] = "none"
      <3>1. CASE capRows[r][index(r)] = 0
        BY <1>7, <3>1 DEF mayCapture
      <3>2. CASE capRows[r][index(r)] # 0
        BY <1>3, <1>4, <3>2 DEF NoRows
      <3>3. QED BY <3>1, <3>2
    <2>4. \A i \in 1..MaxCaptures : capRows'[r][i] # 0 => i <= job[r].done \/ i = job[r].done + 1
      BY <1>3, <1>4, <2>2
    <2>5. ASSUME Retry(r), attempt[r] = 1, Safe(r), faults' \in Nat, faults' >= faults, faults' >= 1
          PROVE  ReqInv'
      <3>1. /\ pc'[r] = "capture" /\ attempt'[r] = 2 /\ attempt' \in [Runs -> Nat \ {0}] /\ job' = job
            /\ \A q \in Runs \ {r} : attempt'[q] = attempt[q] /\ pc'[q] = pc[q]
        BY <1>1, <2>5, FailsLate
      <3>2. "capture" \in Taking
        BY DEF Taking
      <3>3. RowsAskedFor(r)'
        BY <1>1, <1>5, <2>3, <2>4, <2>5, <3>1, <3>2 DEF RowsAskedFor
      <3>4. QED BY <1>1, <1>2, <1>5, <2>2, <2>5, <3>1, <3>3, LateStep
    <2>6. CASE docs[bytes(r)] = "unscanned" /\ bytes(r) \notin Refused
      <3>1. Retry(r) /\ UNCHANGED faults
        BY <1>7, <2>6 DEF RecordCapture
      <3>2. QED BY <1>2, <1>4, <2>5, <2>6, <3>1
    <2>7. CASE ~(docs[bytes(r)] = "unscanned" /\ bytes(r) \notin Refused)
      <3>1. PICK j, n : /\ j = [job[r] EXCEPT !.done = index(r)]
                        /\ n = IF index(r) < Len(job[r].captures) THEN "capture" ELSE "finish"
        OBVIOUS
      <3>2. Returns(r, n, j)
        BY <1>7, <2>7, <3>1 DEF RecordCapture
      <3>3. j.captures = job[r].captures /\ j.done = index(r) /\ j.result = job[r].result
        BY <1>2, <3>1 DEF JobType
      <3>4. CASE faults < MaxFaults /\ faults' = faults + 1 /\ Retry(r)
        <4>1. faults = 0 /\ faults' = 1
          BY <1>2, <3>4
        <4>2. attempt[r] = 1
          BY <1>2, <1>4, <4>1
        <4>3. Safe(r)
          BY <1>4, <4>1, NoFaultNoOverrun DEF Safe
        <4>4. QED BY <1>2, <2>5, <3>4, <4>1, <4>2, <4>3
      <3>5. CASE /\ pc' = [pc EXCEPT ![r] = n] /\ attempt' = [attempt EXCEPT ![r] = 1]
                 /\ job' = [job EXCEPT ![r] = j] /\ UNCHANGED faults
        <4>1. /\ pc'[r] = n /\ attempt'[r] = 1 /\ attempt' \in [Runs -> Nat \ {0}] /\ job'[r] = j
              /\ \A q \in Runs \ {r} : attempt'[q] = attempt[q] /\ pc'[q] = pc[q] /\ job'[q] = job[q]
          BY <1>2, <3>5
        <4>2. \A i \in 1..MaxCaptures : capRows'[r][i] # 0 => i <= j.done
          BY <1>3, <2>4, <3>3
        <4>3. ~RowAhead(r)'
          BY <1>3, <3>3, <4>1, <4>2 DEF RowAhead
        <4>4. n \in {"capture", "finish"}
          BY <3>1
        <4>5. RowsAskedFor(r)'
          BY <1>1, <2>3, <4>1, <4>2, <4>3, <4>4 DEF RowsAskedFor
        <4>6. QED BY <1>1, <1>2, <1>5, <2>2, <3>3, <3>5, <4>1, <4>5, LateStep
      <3>6. QED BY <3>2, <3>4, <3>5 DEF Returns
    <2>8. QED BY <2>6, <2>7
  <1>8. QED BY <1>6, <1>7


\* A refused sign-in turns the connection off: a run whose sign-in was refused has captured nothing.
LEMMA DisableRejectedReq ==
    ASSUME PortalInv, ReqInv, NEW r \in Runs, DisableRejected(r)
    PROVE  ReqInv'
  <1>1. pc[r] = "finish" /\ pc[r] \in Late /\ UNCHANGED <<endRow, docs, capRows, requested, w, inFlight, faults>>
    BY DEF DisableRejected, rows, worker, Late
  <1>2. /\ attempt \in [Runs -> Nat \ {0}] /\ faults \in Nat /\ DocsOk /\ RowsAskedFor(r) /\ FoundOk(r)
        /\ pc \in [Runs -> Pcs]
    BY DEF ReqInv, PortalInv, PortalType
  <1>3. DocsOk' /\ (NoRows(r)' <=> NoRows(r))
    BY <1>1, <1>2 DEF DocsOk, NoRows
  <1>4. CASE Goto(r, "finishing") /\ UNCHANGED job
    <2>1. pc'[r] = "finishing" /\ attempt' = attempt /\ (\A q \in Runs \ {r} : pc'[q] = pc[q])
      BY <1>2, <1>4 DEF Goto
    <2>2. endOf(r)' = endOf(r)
      BY <1>4 DEF endOf, taken
    <2>3. /\ attempt[r] > 1 => faults >= 1
          /\ \A i \in 1..MaxCaptures : capRows[r][i] # 0 => i <= job[r].done
          /\ NoRows(r) \/ endRow[r] \in {"none", endOf(r)}
      BY <1>1, <1>2 DEF RowsAskedFor, Taking
    <2>4. "finishing" \notin Taking
      BY DEF Taking
    <2>5. RowsAskedFor(r)'
      BY <1>1, <1>3, <1>4, <2>1, <2>2, <2>3, <2>4 DEF RowsAskedFor
    <2>6. QED BY <1>1, <1>2, <1>3, <1>4, <2>1, <2>5, LateStep
  <1>5. CASE Settled(r) /\ endOf(r) = "credential_rejected"
    <2>1. job[r].captures = << >>
      BY <1>2, <1>5 DEF endOf, FoundOk
    <2>2. NoRows(r)
      BY <2>1, EarlyNoRows
    <2>3. givenUp(pc[r]) = "failure"
      <3>1. "finish" \in Heads \cup MidStep /\ "finish" \notin Preparing \cup {"failure", "reads"}
        BY DEF Heads, Preparing
      <3>2. QED BY <1>1, <3>1, HeadsAre
    <2>4. /\ pc'[r] = "failure" /\ attempt'[r] = 1 /\ attempt' \in [Runs -> Nat \ {0}] /\ job' = job
          /\ \A q \in Runs \ {r} : attempt'[q] = attempt[q] /\ pc'[q] = pc[q]
      BY <1>5, <2>3, SettledTo
    <2>5. RowsAskedFor(r)'
      BY <1>3, <2>2, <2>4, NothingToAsk
    <2>6. QED BY <1>1, <1>2, <1>3, <2>4, <2>5, LateStep
  <1>6. QED BY <1>4, <1>5 DEF DisableRejected

\* The outcome is written, and the run goes on to ask for what it captured.
LEMMA OutcomeReq ==
    ASSUME PortalInv, ReqInv, MaxFaults <= 1, MaxAttempts >= 2, NEW r \in Runs, NEW e,
           \/ pc[r] = "finishing" /\ e = endOf(r)
           \/ pc[r] = "failure" /\ e = "failed",
           IF mayEnd(r, e)
           THEN endRow' = [endRow EXCEPT ![r] = e] /\ Returns(r, afterEnd(r), job[r])
           ELSE Settled(r) /\ UNCHANGED <<endRow, faults>>,
           UNCHANGED <<capRows, docs, requested, w, inFlight>>
    PROVE  ReqInv'
  <1>1. /\ pc[r] \in Late /\ pc[r] \in Heads \cup MidStep /\ pc[r] \in Started
        /\ headOf(pc[r]) = IF pc[r] = "failure" THEN "failure" ELSE "finish"
    <2>1. pc[r] \in {"finishing", "failure"}
      OBVIOUS
    <2>2. pc[r] \in Late /\ pc[r] \in Heads \cup MidStep /\ pc[r] \in Started
      BY <2>1 DEF Late, Heads, MidStep, Started, Preparing
    <2>3. QED BY <2>1, <2>2, HeadsAre
  <1>2. /\ attempt \in [Runs -> Nat \ {0}] /\ faults \in Nat /\ DocsOk /\ RowsAskedFor(r) /\ MaxFaults \in Nat
        /\ pc \in [Runs -> Pcs] /\ endRow \in [Runs -> EndRows] /\ job \in [Runs -> JobType]
    BY PortalAssumption DEF ReqInv, PortalInv, PortalType, RowType
  <1>3. /\ attempt[r] > 1 => faults >= 1
        /\ \A i \in 1..MaxCaptures : capRows[r][i] # 0 => i <= job[r].done
        /\ NoRows(r) \/ endRow[r] \in {"none", e}
    BY <1>1, <1>2 DEF RowsAskedFor, Taking
  <1>4. DocsOk' /\ (NoRows(r)' <=> NoRows(r))
    BY <1>2 DEF DocsOk, NoRows
  <1>5. CASE ~mayEnd(r, e)
    <2>1. Settled(r) /\ UNCHANGED <<endRow, faults>>
      BY <1>5
    <2>2. startRow[r] # {}
      BY <1>1, RunFacts DEF RunOk
    <2>3. NoRows(r)
      BY <1>3, <1>5, <2>2 DEF mayEnd
    <2>4. PICK t : t = pc[r]
      OBVIOUS
    <2>5. givenUp(t) \in {"over", "failure"}
      BY <1>1, <2>4, HeadsAre
    <2>6. /\ pc'[r] = givenUp(t) /\ attempt'[r] = 1 /\ attempt' \in [Runs -> Nat \ {0}] /\ job' = job
          /\ \A q \in Runs \ {r} : attempt'[q] = attempt[q] /\ pc'[q] = pc[q]
      BY <2>1, <2>4, SettledTo
    <2>7. RowsAskedFor(r)'
      BY <1>4, <2>3, <2>5, <2>6, NothingToAsk
    <2>8. QED BY <1>2, <1>4, <2>1, <2>6, <2>7, LateStep
  <1>6. CASE mayEnd(r, e)
    <2>1. endRow' = [endRow EXCEPT ![r] = e] /\ Returns(r, afterEnd(r), job[r])
      BY <1>6
    <2>2. endRow'[r] = e /\ (\A q \in Runs \ {r} : endRow'[q] = endRow[q])
      BY <1>2, <2>1
    <2>3. CASE faults < MaxFaults /\ faults' = faults + 1 /\ Retry(r)
      <3>1. faults = 0 /\ faults' = 1
        BY <1>2, <2>3
      <3>2. attempt[r] = 1
        BY <1>2, <1>3, <3>1
      <3>3. /\ pc'[r] = headOf(pc[r]) /\ attempt'[r] = 2 /\ attempt' \in [Runs -> Nat \ {0}] /\ job' = job
            /\ \A q \in Runs \ {r} : attempt'[q] = attempt[q] /\ pc'[q] = pc[q]
        BY <1>1, <2>3, <3>2, FailsLate
      <3>4. endOf(r)' = endOf(r)
        BY <3>3 DEF endOf, taken
      <3>5. pc'[r] \in {"finish", "failure"} /\ (pc'[r] = "finish" => e = endOf(r)) /\ (pc'[r] = "failure" => e = "failed")
        BY <1>1, <3>3
      <3>6. pc'[r] \notin Taking
        BY <3>5 DEF Taking
      <3>7. RowsAskedFor(r)'
        BY <1>3, <2>2, <3>1, <3>3, <3>4, <3>5, <3>6 DEF RowsAskedFor
      <3>8. QED BY <1>2, <1>4, <2>2, <3>1, <3>3, <3>7, LateStep
    <2>4. CASE /\ pc' = [pc EXCEPT ![r] = afterEnd(r)] /\ attempt' = [attempt EXCEPT ![r] = 1]
               /\ job' = [job EXCEPT ![r] = job[r]] /\ UNCHANGED faults
      <3>1. /\ pc'[r] = afterEnd(r) /\ attempt'[r] = 1 /\ attempt' \in [Runs -> Nat \ {0}] /\ job' = job
            /\ \A q \in Runs \ {r} : attempt'[q] = attempt[q] /\ pc'[q] = pc[q]
        BY <1>2, <2>4
      <3>2. afterEnd(r) \in {"over", "reads"} /\ (afterEnd(r) = "over" => clean(r) = {})
        BY DEF afterEnd
      <3>3. clean(r)' = clean(r)
        BY <3>1 DEF clean, taken
      <3>4. pc'[r] = "over" => Asked(r)'
        BY <3>1, <3>2, <3>3 DEF Asked
      <3>5. pc'[r] \in {"over", "reads"} /\ pc'[r] \notin Taking
        BY <3>1, <3>2 DEF Taking
      <3>6. RowsAskedFor(r)'
        BY <1>3, <3>1, <3>4, <3>5 DEF RowsAskedFor
      <3>7. QED BY <1>2, <1>4, <2>2, <2>4, <3>1, <3>6, LateStep
    <2>5. QED BY <2>1, <2>3, <2>4 DEF Returns
  <1>7. QED BY <1>5, <1>6

\* The outcome of a finished run, and of one that was given up.
LEMMA EndingReq ==
    ASSUME PortalInv, ReqInv, MaxFaults <= 1, MaxAttempts >= 2, NEW r \in Runs, FinishRun(r) \/ RecordFailure(r)
    PROVE  ReqInv'
  <1>1. UNCHANGED <<capRows, docs, requested, w, inFlight>>
    BY DEF FinishRun, RecordFailure, worker
  <1>2. CASE FinishRun(r)
    <2>1. PICK e : e = endOf(r)
      OBVIOUS
    <2>2. /\ pc[r] = "finishing" /\ e = endOf(r)
          /\ IF mayEnd(r, e)
             THEN endRow' = [endRow EXCEPT ![r] = e] /\ Returns(r, afterEnd(r), job[r])
             ELSE Settled(r) /\ UNCHANGED <<endRow, faults>>
      BY <1>2, <2>1 DEF FinishRun
    <2>3. QED BY <1>1, <2>2, OutcomeReq
  <1>3. CASE RecordFailure(r)
    <2>1. PICK e : e = "failed"
      OBVIOUS
    <2>2. /\ pc[r] = "failure" /\ e = "failed"
          /\ IF mayEnd(r, e)
             THEN endRow' = [endRow EXCEPT ![r] = e] /\ Returns(r, afterEnd(r), job[r])
             ELSE Settled(r) /\ UNCHANGED <<endRow, faults>>
      BY <1>3, <2>1 DEF RecordFailure
    <2>3. QED BY <1>1, <2>2, OutcomeReq
  <1>4. QED BY <1>2, <1>3


\* What was captured is asked for, also when the answer is lost.
LEMMA RequestReadsReq ==
    ASSUME PortalInv, ReqInv, NEW r \in Runs, RequestReads(r)
    PROVE  ReqInv'
  <1>1. /\ pc[r] = "reads" /\ pc[r] \in Late /\ pc[r] \in Heads \cup MidStep
        /\ UNCHANGED <<endRow, capRows, docs, w, inFlight>>
    BY DEF RequestReads, worker, Late, Heads
  <1>2. /\ attempt \in [Runs -> Nat \ {0}] /\ faults \in Nat /\ DocsOk /\ RowsAskedFor(r) /\ MaxAttempts \in Nat
        /\ pc \in [Runs -> Pcs] /\ job \in [Runs -> JobType]
    BY PortalAssumption DEF ReqInv, PortalInv, PortalType
  <1>3. headOf("reads") = "reads" /\ givenUp("reads") = "over"
    <2>1. "reads" \in Heads \cup MidStep /\ "reads" \in Preparing \cup {"failure", "reads"}
      BY DEF Heads
    <2>2. QED BY <2>1, HeadsAre
  <1>4. /\ job' = job /\ pc'[r] \in {"reads", "over"} /\ (\A q \in Runs \ {r} : attempt'[q] = attempt[q] /\ pc'[q] = pc[q])
        /\ attempt' \in [Runs -> Nat \ {0}] /\ faults' \in {faults, faults + 1}
        /\ attempt'[r] > 1 => faults' >= 1
    <2>1. Returns(r, "over", job[r])
      BY DEF RequestReads
    <2>2. CASE faults' = faults + 1 /\ Retry(r)
      <3>1. /\ pc'[r] = IF attempt[r] < MaxAttempts THEN "reads" ELSE "over"
            /\ attempt' \in [Runs -> Nat \ {0}] /\ job' = job
            /\ \A q \in Runs \ {r} : attempt'[q] = attempt[q] /\ pc'[q] = pc[q]
        BY <1>1, <1>2, <1>3, <2>2 DEF Retry
      <3>2. QED BY <1>2, <2>2, <3>1
    <2>3. CASE /\ pc' = [pc EXCEPT ![r] = "over"] /\ attempt' = [attempt EXCEPT ![r] = 1]
               /\ job' = [job EXCEPT ![r] = job[r]] /\ UNCHANGED faults
      BY <1>2, <2>3
    <2>4. QED BY <2>1, <2>2, <2>3 DEF Returns
  <1>5. clean(r)' = clean(r) /\ requested' = requested \union ({r} \X clean(r))
    BY <1>4 DEF clean, taken, RequestReads
  <1>6. Asked(r)'
    BY <1>5 DEF Asked
  <1>7. \A i \in 1..MaxCaptures : capRows[r][i] # 0 => i <= job[r].done
    BY <1>1, <1>2 DEF RowsAskedFor, Taking
  <1>8. RowsAskedFor(r)'
    BY <1>1, <1>4, <1>6, <1>7 DEF RowsAskedFor, Taking
  <1>9. DocsOk' /\ faults' \in Nat /\ faults' >= faults /\ requested \subseteq requested'
    BY <1>1, <1>2, <1>4, <1>5 DEF DocsOk
  <1>10. QED BY <1>1, <1>4, <1>8, <1>9, LateStep

\* The process dies between two calls: a capture is fetched again, and is held.
LEMMA DiesReq ==
    ASSUME PortalInv, ReqInv, MaxFaults <= 1, MaxAttempts >= 2, NEW r \in Runs, Dies(r)
    PROVE  ReqInv'
  <1>1. /\ pc[r] \in MidStep /\ pc[r] \in Heads \cup MidStep /\ Retry(r) /\ faults < MaxFaults /\ faults' = faults + 1
        /\ UNCHANGED <<endRow, capRows, docs, requested, w, inFlight>>
    BY DEF Dies, rows, worker
  <1>2. /\ attempt \in [Runs -> Nat \ {0}] /\ faults \in Nat /\ DocsOk /\ RowsAskedFor(r) /\ MaxFaults \in Nat
    BY PortalAssumption DEF ReqInv
  <1>3. faults = 0 /\ faults' = 1
    BY <1>1, <1>2
  <1>4. CASE pc[r] \in Early
    <2>1. pc[r] # "unasked"
      BY <1>1 DEF MidStep
    <2>2. QED BY <1>1, <1>4, <2>1, EarlyFailure, EarlyStep
  <1>5. CASE pc[r] \in {"scanning", "filing", "finishing"}
    <2>1. pc[r] \in Late /\ attempt[r] = 1
      <3>1. pc[r] \in Late
        BY <1>5 DEF Late, Taking
      <3>2. QED BY <1>2, <1>3, <3>1 DEF RowsAskedFor
    <2>2. headOf(pc[r]) = IF pc[r] = "finishing" THEN "finish" ELSE "capture"
      <3>1. pc[r] \in Taking <=> pc[r] # "finishing"
        BY <1>5 DEF Taking
      <3>2. QED BY <1>1, <1>5, <3>1, HeadsAre
    <2>3. /\ pc'[r] = headOf(pc[r]) /\ attempt'[r] = 2 /\ attempt' \in [Runs -> Nat \ {0}] /\ job' = job
          /\ \A q \in Runs \ {r} : attempt'[q] = attempt[q] /\ pc'[q] = pc[q]
      BY <1>1, <2>1, FailsLate
    <2>4. DocsOk' /\ (NoRows(r)' <=> NoRows(r)) /\ endOf(r)' = endOf(r)
      BY <1>1, <1>2, <2>3 DEF DocsOk, NoRows, endOf, taken
    <2>5. RowsAskedFor(r)'
      <3>1. CASE pc[r] = "finishing"
        <4>1. pc'[r] = "finish" /\ pc'[r] \notin Taking /\ pc[r] \notin Taking
          BY <2>2, <2>3, <3>1 DEF Taking
        <4>2. /\ \A i \in 1..MaxCaptures : capRows[r][i] # 0 => i <= job[r].done
              /\ NoRows(r) \/ endRow[r] \in {"none", endOf(r)}
          BY <1>2, <3>1, <4>1 DEF RowsAskedFor
        <4>3. QED BY <1>1, <1>3, <2>3, <2>4, <4>1, <4>2 DEF RowsAskedFor
      <3>2. CASE pc[r] # "finishing"
        <4>1. pc'[r] = "capture" /\ pc'[r] \in Taking /\ pc[r] \in Taking
          BY <1>5, <2>2, <2>3, <3>2 DEF Taking
        <4>2. Safe(r)'
          BY <1>1, <1>2, <1>3, <1>5, <3>2, NoFaultNoOverrun DEF RowsAskedFor, Safe, CaptureHeld, NoOverrun
        <4>3. /\ \A i \in 1..MaxCaptures : capRows[r][i] # 0 => i <= job[r].done \/ i = job[r].done + 1
              /\ NoRows(r) \/ endRow[r] = "none"
          BY <1>2, <4>1 DEF RowsAskedFor
        <4>4. QED BY <1>1, <1>3, <2>3, <2>4, <4>1, <4>2, <4>3 DEF RowsAskedFor
      <3>3. QED BY <3>1, <3>2
    <2>6. QED BY <1>1, <1>2, <1>3, <2>3, <2>4, <2>5, LateStep
  <1>6. MidStep \subseteq Early \cup {"scanning", "filing", "finishing"}
    BY DEF MidStep, Early, Preparing
  <1>7. QED BY <1>1, <1>4, <1>5, <1>6

-----------------------------------------------------------------------------
\* The worker: what it found stays so, and captures are let go only by a fault.
LEMMA WorkerReq ==
    ASSUME PortalInv, ReqInv, MaxFaults <= 1,
           Restart \/ (\E r \in Runs : RunEnds(r) \/ Overran(r) \/ Release(r) \/ Sweep(r))
    PROVE  ReqInv'
  <1>1. UNCHANGED <<pc, attempt, job, capRows, endRow, requested, docs>>
    BY DEF Restart, RunEnds, Overran, Release, Sweep, steps, rows
  <1>2. w \in [Runs -> WorkerType] /\ faults \in Nat /\ MaxFaults \in Nat
    BY PortalAssumption DEF PortalInv, PortalType, ReqInv
  <1>3. faults' \in Nat /\ faults' >= faults
    <2>1. faults' \in {faults, faults + 1}
      BY DEF Restart, RunEnds, Overran, Release, Sweep
    <2>2. QED BY <1>2, <2>1
  <1>4. DocsOk'
    BY <1>1 DEF ReqInv, DocsOk
  <1>5. ASSUME NEW q \in Runs
        PROVE  /\ FoundOk(q)'
               /\ faults' = 0 /\ CaptureHeld(q) => CaptureHeld(q)'
               /\ faults >= 1 /\ Safe(q) => Safe(q)'
    <2>1. FoundOk(q)
      BY DEF ReqInv
    <2>2. ASSUME w'[q].captures = << >> \/ w'[q] = w[q], inFlight' = NoRun
          PROVE  FoundOk(q)'
      BY <1>1, <2>1, <2>2, PortalAssumption DEF FoundOk
    <2>3. CASE Restart
      <3>1. w'[q] = Unheld /\ inFlight' = NoRun /\ faults = 0 /\ faults' = 1
        BY <1>2, <2>3 DEF Restart
      <3>2. QED BY <2>2, <3>1 DEF Unheld
    <2>4. ASSUME NEW x \in Runs, Release(x) PROVE faults >= 1 /\ ~NoOverrun /\ FoundOk(q)' /\ faults' >= 1
      <3>1. inFlight = x /\ w[x].state = "done" /\ FoundOk(x)
        BY <2>4 DEF Release, ReqInv
      <3>2. faults >= 1 /\ ~NoOverrun /\ faults' = faults
        BY <2>4, <3>1 DEF FoundOk, NoOverrun, Release
      <3>3. (w'[q] = Unheld \/ w'[q] = w[q]) /\ inFlight' = NoRun
        BY <2>4 DEF Release
      <3>4. QED BY <2>2, <3>2, <3>3 DEF Unheld
    <2>5. ASSUME NEW x \in Runs, RunEnds(x)
          PROVE  FoundOk(q)' /\ (CaptureHeld(q) => CaptureHeld(q)') /\ NoOverrun'
      <3>1. inFlight' = NoRun /\ w[x].state = "running"
        BY <2>5 DEF RunEnds
      <3>2. PICK y, f : /\ w' = [w EXCEPT ![x].state = "done", ![x].result = y, ![x].captures = f]
                        /\ y # "completed" => f = << >>
        BY <2>5 DEF RunEnds, SignedIn
      <3>3. PICK v : v = [w[x] EXCEPT !.state = "done", !.result = y, !.captures = f]
        OBVIOUS
      <3>4. v.state = "done" /\ v.result = y /\ v.captures = f
        BY <1>2, <3>3 DEF WorkerType
      <3>5. w'[q] = IF q = x THEN v ELSE w[q]
        BY <1>2, <3>2, <3>3
      <3>6. NoOverrun'
        BY <3>1, PortalAssumption DEF NoOverrun
      <3>7. CaptureHeld(q) => CaptureHeld(q)'
        BY <3>1, <3>5 DEF CaptureHeld
      <3>8. CASE q # x
        BY <2>2, <3>1, <3>5, <3>6, <3>7, <3>8
      <3>9. CASE q = x
        <4>1. FoundOk(q)'
          BY <1>1, <2>1, <3>1, <3>2, <3>4, <3>5, <3>9, PortalAssumption DEF FoundOk
        <4>2. QED BY <3>6, <3>7, <4>1
      <3>10. QED BY <3>8, <3>9
    <2>6. ASSUME NEW x \in Runs, Overran(x) \/ Sweep(x) PROVE faults = 0 /\ faults' = 1 /\ FoundOk(q)'
      <3>1. faults = 0 /\ faults' = 1 /\ inFlight' = inFlight
        BY <1>2, <2>6 DEF Overran, Sweep
      <3>2. PICK v : /\ w'[q] = v /\ v.captures = w[q].captures
                     /\ v.result # "completed" => w[q].result # "completed" \/ w[q].state = "running"
                     /\ v.state = "running" => w[q].state = "running"
        <4>1. CASE w'[q] = w[q]
          BY <4>1
        <4>2. CASE Overran(x) /\ q = x
          <5>1. w' = [w EXCEPT ![x].state = "done", ![x].result = "run_failed"] /\ w[x].state = "running"
            BY <4>2 DEF Overran
          <5>2. PICK v : v = [w[q] EXCEPT !.state = "done", !.result = "run_failed"]
            OBVIOUS
          <5>3. w'[q] = v /\ v.captures = w[q].captures /\ v.state = "done"
            BY <1>2, <4>2, <5>1, <5>2 DEF WorkerType
          <5>4. QED BY <4>2, <5>1, <5>3
        <4>3. CASE Sweep(x) /\ q = x /\ w' = [w EXCEPT ![x].state = "forgotten"]
          <5>1. PICK v : v = [w[q] EXCEPT !.state = "forgotten"]
            OBVIOUS
          <5>2. w'[q] = v /\ v.captures = w[q].captures /\ v.state = "forgotten" /\ v.result = w[q].result
            BY <1>2, <4>3, <5>1 DEF WorkerType
          <5>3. QED BY <5>2
        <4>4. CASE Sweep(x) /\ q = x /\ w' = [w EXCEPT ![x].held = FALSE]
          <5>1. PICK v : v = [w[q] EXCEPT !.held = FALSE]
            OBVIOUS
          <5>2. w'[q] = v /\ v.captures = w[q].captures /\ v.state = w[q].state /\ v.result = w[q].result
            BY <1>2, <4>4, <5>1 DEF WorkerType
          <5>3. QED BY <5>2
        <4>5. CASE q # x
          <5>1. w'[q] = w[q]
            BY <1>2, <2>6, <4>5 DEF Overran, Sweep
          <5>2. QED BY <4>1, <5>1
        <4>6. QED BY <2>6, <4>2, <4>3, <4>4, <4>5 DEF Sweep
      <3>3. QED BY <1>1, <2>1, <3>1, <3>2 DEF FoundOk
    <2>7. QED BY <1>2, <2>3, <2>4, <2>5, <2>6 DEF Safe
  <1>6. \A q \in Runs : RowsAskedFor(q)'
    BY <1>1, <1>3, <1>4, <1>5, RunStays
  <1>7. QED BY <1>1, <1>3, <1>4, <1>5, <1>6 DEF ReqInv

\* What leaves the runs, their rows and the worker alone.
LEMMA ElsewhereReq ==
    ASSUME PortalInv, ReqInv, UNCHANGED <<pc, attempt, job, capRows, endRow, requested, docs, w, inFlight, faults>>
    PROVE  ReqInv'
  <1>1. DocsOk' /\ faults' \in Nat /\ faults' >= faults
    BY DEF ReqInv, DocsOk
  <1>2. \A q \in Runs : (CaptureHeld(q)' <=> CaptureHeld(q)) /\ (Safe(q)' <=> Safe(q)) /\ FoundOk(q)'
    BY DEF CaptureHeld, Safe, NoOverrun, ReqInv, FoundOk
  <1>3. \A q \in Runs : RowsAskedFor(q)'
    BY <1>1, <1>2, RunStays
  <1>4. QED BY <1>1, <1>2, <1>3 DEF ReqInv

\* Every step keeps what is known of captures.
LEMMA ReqStep ==
    ASSUME PortalInv, ReqInv, MaxFaults <= 1, MaxAttempts >= 2, [Next]_vars
    PROVE  ReqInv'
  <1>1. CASE People \/ UNCHANGED vars
    BY <1>1, ElsewhereReq DEF People, vars, steps, worker, rows
  <1>2. ASSUME NEW r \in Runs, FanOut(r) \/ QueueDryRun(r) \/ Step(r)
        PROVE  ReqInv'
    <2>1. CASE FanOut(r) \/ QueueDryRun(r) \/ PrepareRun(r) \/ StartRun(r)
      BY <2>1, AskingReq DEF FanOut, QueueDryRun
    <2>2. CASE RecordRunStart(r) \/ EndBeforeWorker(r) \/ OnWorkerAlready(r) \/ PollRun(r) \/ TimedOut(r)
      BY <2>2, FollowingReq
    <2>3. CASE SendStart(r) \/ FetchResult(r) \/ IngestCapture(r) \/ Scan(r) \/ RecordCapture(r)
      BY <2>3, SendStartReq, FetchResultReq, IngestCaptureReq, ScanReq, RecordCaptureReq
    <2>4. CASE DisableRejected(r) \/ FinishRun(r) \/ RecordFailure(r) \/ RequestReads(r) \/ Dies(r)
      BY <2>4, DisableRejectedReq, EndingReq, RequestReadsReq, DiesReq
    <2>5. QED BY <1>2, <2>1, <2>2, <2>3, <2>4 DEF Step
  <1>3. CASE Restart \/ (\E r \in Runs : RunEnds(r) \/ Overran(r) \/ Release(r) \/ Sweep(r))
    BY <1>3, WorkerReq
  <1>4. QED BY <1>1, <1>2, <1>3 DEF Next

\* Nothing has been captured at the start.
LEMMA ReqInit ==
    ASSUME Init
    PROVE  ReqInv
  <1>1. attempt \in [Runs -> Nat \ {0}] /\ faults \in Nat /\ DocsOk /\ inFlight = NoRun
    BY DEF Init, DocsOk
  <1>2. ASSUME NEW r \in Runs
        PROVE  /\ pc[r] = "unasked" /\ job[r].captures = << >> /\ w[r].captures = << >> /\ NoRows(r)
    BY DEF Init, NoProgress, Unheld, NoRows
  <1>3. \A r \in Runs : FoundOk(r)
    BY <1>1, <1>2, PortalAssumption DEF FoundOk
  <1>4. \A r \in Runs : RowsAskedFor(r)
    BY <1>2 DEF RowsAskedFor, NoRows, Late, Taking
  <1>5. QED BY <1>1, <1>3, <1>4 DEF ReqInv

\* If no more than one thing goes wrong, and a step has two attempts, every capture has been asked for at the end
\* of its run or is still to be filed by it.
THEOREM ReqInvariance ==
    ASSUME MaxFaults <= 1, MaxAttempts >= 2
    PROVE  Spec => []ReqInv
  <1>1. Init => ReqInv
    BY ReqInit
  <1>2. PortalInv /\ ReqInv /\ [Next]_vars => ReqInv'
    BY ReqStep
  <1>3. QED BY <1>1, <1>2, PortalInvariance, PTL DEF Spec

\* What a run captured and the scanner found clean has been sent to be read once the run is over, also when the run
\* ended in failure, for any number of runs, captures and moves of the owners, if no more than one death, lost
\* answer, restart or failed scan happens and a step is tried twice (the queue tries four times).
THEOREM NothingCapturedIsLost ==
    ASSUME MaxFaults <= 1, MaxAttempts >= 2
    PROVE  Spec => []CapturedIsRequested
  <1>1. PortalInv /\ ReqInv => CapturedIsRequested
    <2>1. SUFFICES ASSUME PortalInv, ReqInv, NEW r \in Runs, NEW d \in Docs, pc[r] = "over", captured(r, d)
                   PROVE  <<r, d>> \in requested
      BY DEF CapturedIsRequested
    <2>2. PICK i \in 1..Len(job[r].captures) : job[r].captures[i] = d /\ capRows[r][i] = 1
      BY <2>1 DEF captured
    <2>3. job[r].done \in Nat /\ Len(job[r].captures) \in Nat /\ Len(job[r].captures) <= MaxCaptures /\ MaxCaptures \in Nat
      BY <2>1, RunFacts, PortalAssumption DEF RunOk, JobType
    <2>4. i \in 1..MaxCaptures
      BY <2>2, <2>3
    <2>5. pc[r] \notin Taking
      BY <2>1 DEF Taking
    <2>6. i <= job[r].done /\ Asked(r)
      BY <2>1, <2>2, <2>4, <2>5 DEF ReqInv, RowsAskedFor, NoRows
    <2>7. d \in taken(r)
      BY <2>2, <2>3, <2>4, <2>6 DEF taken
    <2>8. d \notin Refused /\ d \notin Infected
      BY <2>1 DEF ReqInv, DocsOk, captured
    <2>9. d \in clean(r)
      BY <2>7, <2>8 DEF clean
    <2>10. QED BY <2>6, <2>9 DEF Asked
  <1>2. QED BY <1>1, PortalInvariance, ReqInvariance, PTL

=============================================================================
