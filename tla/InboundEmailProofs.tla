------------------------- MODULE InboundEmailProofs -------------------------
(***************************************************************************)
(* Inbound email, for any emails, contents, members, deliveries, faults    *)
(* and moves of the members.                                               *)
(*                                                                         *)
(* InboundInv is the inductive invariant.  A delivery at work on an email  *)
(* is alone with it and the email is not recorded; a document is brought   *)
(* by one email, from the moment its bytes are stored; a part that left a  *)
(* document left one the scanner has answered for; and what Postmark was   *)
(* told is on the record.                                                  *)
(***************************************************************************)
EXTENDS InboundEmail, FiniteSetTheorems, TLAPS

Filed == {"stored", "already_held", "over_daily_budget"}
PartRow == [kind : {"attachment", "body"}, doc : Docs, outcome : Filed \cup {"refused", "not_clean"}]
Scans == {"none", "stored", "clean", "infected", "error"}
Statuses == {"scheduled", "done", "stopped", "unnoted", "failed", "swept"}
Pcs == {"unsent", "answered", "refuse", "receive", "send"} \cup Claiming

\* What a delivery knows; the count of reads is whatever the fold gives.
Knows(k) ==
    /\ k = [act |-> k.act, reads |-> k.reads, held |-> k.held, out |-> k.out]
    /\ k.held \in BOOLEAN /\ k.out \in Seq(PartRow)

InboundType ==
    /\ rows \subseteq Messages \X {"received", "refused_retired", "not_received"}
    /\ parts \in [Messages -> Seq(PartRow)]
    /\ scan \in [Docs -> Scans]
    /\ status \in [Messages -> Statuses] /\ tries \in [Messages -> Nat]
    /\ pc \in [Deliveries -> Pcs]
    /\ d = [e \in Deliveries |-> d[e]] /\ \A e \in Deliveries : Knows(d[e])
    /\ job = [m \in Messages |-> job[m]]
    /\ \A m \in Messages : job[m] = [st |-> job[m].st, user |-> job[m].user,
                                     asked |-> job[m].asked, notice |-> job[m].notice]

\* A delivery that looks at a part has one before it; one that has not begun found nothing yet; and
\* one Postmark has still to make is not under way.
Walking ==
    \A e \in Deliveries :
        /\ e[2] > tries[e[1]] => pc[e] = "unsent"
        /\ pc[e] \in {"part", "put", "scan"} => Len(d[e].out) < Len(Emails[e[1]])
        /\ pc[e] \in {"unsent", "answered", "refuse", "receive"} => d[e].out = <<>>

\* withMessageClaim: who is at work on an email is alone with it, and it is not recorded.
AloneWithIt ==
    /\ \A e, f \in Deliveries : pc[e] \in Claiming /\ pc[f] \in Claiming /\ e[1] = f[1] => e = f
    /\ \A e \in Deliveries : pc[e] \in Claiming => ~received(e[1])

storedAs(s, x) == \E p \in ToSet(s) : p.doc = x /\ p.outcome = "stored"

\* The email m brought x: it is recorded so, or a delivery of m is about to.
brings(e, p, k, x) ==
    \/ storedAs(k.out, x)
    \/ p = "scan" /\ ~k.held /\ Emails[e[1]][Len(k.out) + 1].doc = x
Brings(e, x) == brings(e, pc[e], d[e], x)
BroughtBy(m, x) == storedAs(parts[m], x) \/ \E e \in Deliveries : e[1] = m /\ Brings(e, x)

BroughtOnce ==
    \A x \in Docs, m \in Messages : BroughtBy(m, x) =>
        scan[x] # "none" /\ \A n \in Messages : BroughtBy(n, x) => n = m

\* The scanner has answered for what a part left, and found no infection.
Sound(s) == \A p \in ToSet(s) : p.outcome \in Filed =>
    p.doc \notin Infected /\ scan[p.doc] \in {"clean", "error"}

AnsweredFor ==
    /\ \A x \in Docs : scan[x] = "clean" => x \notin Infected
    /\ \A m \in Messages : Sound(parts[m])
    /\ \A e \in Deliveries : Sound(d[e].out)

\* What Postmark was told, and what the sweep and the webhook are about to tell, is on record.
ToldIsRecorded ==
    /\ \A e \in Deliveries : pc[e] = "send" => received(e[1])
    /\ \A m \in Messages :
          /\ status[m] = "done" => received(m) /\ job[m].st # "none"
          /\ status[m] = "stopped" => <<m, "refused_retired">> \in rows
          /\ status[m] = "swept" => <<m, "not_received">> \in rows

InboundInv ==
    InboundType /\ Walking /\ AloneWithIt /\ BroughtOnce /\ AnsweredFor /\ ToldIsRecorded

-----------------------------------------------------------------------------
(* Sequences of parts *)

\* The parts of a list with one more.
LEMMA OneMore ==
  ASSUME NEW s \in Seq(PartRow), NEW p \in PartRow
  PROVE  /\ Append(s, p) \in Seq(PartRow) /\ Len(Append(s, p)) = Len(s) + 1
         /\ ToSet(Append(s, p)) = ToSet(s) \cup {p}
<1>1. Append(s, p) \in Seq(PartRow) /\ Len(Append(s, p)) = Len(s) + 1
  OBVIOUS
<1>2. DOMAIN Append(s, p) = DOMAIN s \cup {Len(s) + 1}
  OBVIOUS
<1>3. \A i \in DOMAIN s : Append(s, p)[i] = s[i]
  OBVIOUS
<1>4. Append(s, p)[Len(s) + 1] = p
  OBVIOUS
<1> QED
  BY <1>1, <1>2, <1>3, <1>4 DEF ToSet

\* No parts; and parts are rows.
LEMMA PartsOf ==
  /\ ToSet(<<>>) = {} /\ <<>> \in Seq(PartRow)
  /\ \A s \in Seq(PartRow) : ToSet(s) \subseteq PartRow
BY DEF ToSet

\* A recorded part names a content.
LEMMA RecordedDoc ==
  ASSUME InboundType, NEW m \in Messages, NEW p \in ToSet(parts[m])
  PROVE  p.doc \in Docs
<1>1. parts[m] \in Seq(PartRow)
  BY DEF InboundType
<1>2. p \in PartRow
  BY <1>1, PartsOf
<1> QED
  BY <1>2 DEF PartRow

\* The part a delivery looks at is one of its email's.
LEMMA PartAhead ==
  ASSUME InboundType, Walking, NEW e \in Deliveries, pc[e] \in {"part", "put", "scan"}
  PROVE  doc(e) \in Docs /\ part(e).kind \in {"attachment", "body"} /\ Len(d[e].out) + 1 \in Nat
<1>1. Emails[e[1]] \in Seq([kind : {"attachment", "body"}, doc : Docs])
  BY InboundAssumption DEF Deliveries
<1>2. d[e].out \in Seq(PartRow) /\ Len(d[e].out) < Len(Emails[e[1]])
  BY DEF InboundType, Knows, Walking
<1>3. Len(d[e].out) + 1 \in 1..Len(Emails[e[1]])
  BY <1>1, <1>2
<1>4. ASSUME NEW S, NEW s \in Seq(S), NEW i \in 1..Len(s)
      PROVE  s[i] \in S
  OBVIOUS
<1>5. part(e) \in [kind : {"attachment", "body"}, doc : Docs]
  BY <1>1, <1>3, <1>4, Zenon DEF part
<1> QED
  BY <1>3, <1>5 DEF doc

-----------------------------------------------------------------------------
(* The step of one delivery: it goes to p and knows k *)

Moves(e, p, k) ==
    /\ p \in Pcs /\ Knows(k)
    /\ pc' = [pc EXCEPT ![e] = p] /\ d' = [d EXCEPT ![e] = k]

\* What it does to the emails' rows, and when it may be at work.
RowsGrow(e, p) ==
    /\ rows \subseteq rows'
    /\ rows' \subseteq rows \cup {<<e[1], "received">>, <<e[1], "refused_retired">>}
    /\ received(e[1])' => received(e[1]) \/ (pc[e] \in Claiming /\ p \notin Claiming)
    /\ p = "send" => received(e[1])'
    /\ p \in Claiming =>
          /\ ~received(e[1])
          /\ pc[e] \in Claiming \/ \A o \in Deliveries \ {e} : o[1] = e[1] => pc[o] \notin Claiming
    /\ parts' = parts \/ parts' = [parts EXCEPT ![e[1]] = d[e].out]

\* A verdict is never taken back, and the scanner's word on a content does not change.
ScanGoes ==
    /\ scan' \in [Docs -> Scans]
    /\ \A x \in Docs :
          /\ scan[x] # "none" => scan'[x] # "none"
          /\ scan'[x] = "clean" => x \notin Infected
          /\ x \notin Infected /\ scan[x] \in {"clean", "error"} => scan'[x] \in {"clean", "error"}

\* What it says it left, it left; what it brings, it brought before or nobody had.
Carries(e, p, k) ==
    /\ \A q \in ToSet(k.out) : q.outcome \in Filed =>
          q \in ToSet(d[e].out) \/ (q.doc \notin Infected /\ scan'[q.doc] \in {"clean", "error"})
    /\ \A x \in Docs : brings(e, p, k, x) => Brings(e, x) \/ (scan[x] = "none" /\ scan'[x] # "none")

Walks(e, p, k) ==
    /\ p \in {"part", "put", "scan"} => Len(k.out) < Len(Emails[e[1]])
    /\ p \in {"unsent", "answered", "refuse", "receive"} => k.out = <<>>
    /\ tries' \in [Messages -> Nat] /\ \A m \in Messages : tries'[m] >= tries[m]
    /\ e[2] <= tries'[e[1]]

\* A queued read is not unqueued.
JobsStay ==
    /\ job' = [m \in Messages |-> job'[m]]
    /\ \A m \in Messages :
          /\ job'[m] = [st |-> job'[m].st, user |-> job'[m].user,
                        asked |-> job'[m].asked, notice |-> job'[m].notice]
          /\ job[m].st # "none" => job'[m].st # "none"

Tells(e) ==
    /\ status' \in [Messages -> Statuses]
    /\ \A m \in Messages :
          \/ status'[m] = status[m]
          \/ status'[m] \in {"failed", "unnoted"}
          \/ status'[m] = "done" /\ received(m)' /\ job'[m].st # "none"
          \/ status'[m] = "stopped" /\ <<m, "refused_retired">> \in rows'

\* Who moved and who did not.
LEMMA MovedOne ==
  ASSUME InboundType, NEW e \in Deliveries, NEW p, NEW k, Moves(e, p, k)
  PROVE  /\ pc' \in [Deliveries -> Pcs] /\ d' = [o \in Deliveries |-> d'[o]]
         /\ \A o \in Deliveries : Knows(d'[o])
         /\ pc'[e] = p /\ d'[e] = k
         /\ \A o \in Deliveries \ {e} : pc'[o] = pc[o] /\ d'[o] = d[o]
BY DEF InboundType, Moves

-----------------------------------------------------------------------------
(* Such a step keeps each part of the invariant *)

\* A delivery's place in its email.
LEMMA StepWalks ==
  ASSUME InboundInv, NEW e \in Deliveries, NEW p, NEW k, Moves(e, p, k), Walks(e, p, k)
  PROVE  Walking'
<1> SUFFICES ASSUME NEW o \in Deliveries
             PROVE  /\ o[2] > tries'[o[1]] => pc'[o] = "unsent"
                    /\ pc'[o] \in {"part", "put", "scan"} => Len(d'[o].out) < Len(Emails[o[1]])
                    /\ pc'[o] \in {"unsent", "answered", "refuse", "receive"} => d'[o].out = <<>>
  BY DEF Walking
<1>0. InboundType /\ Walking
  BY DEF InboundInv
<1>1. o[1] \in Messages /\ o[2] \in Nat /\ tries[o[1]] \in Nat
  BY <1>0 DEF Deliveries, InboundType
<1>2. CASE o = e
  BY <1>0, <1>1, <1>2, MovedOne DEF Walks
<1>3. CASE o # e
  <2>1. pc'[o] = pc[o] /\ d'[o] = d[o]
    BY <1>0, <1>3, MovedOne
  <2>2. tries'[o[1]] \in Nat /\ tries'[o[1]] >= tries[o[1]]
    BY <1>1 DEF Walks
  <2> QED
    BY <1>0, <1>1, <2>1, <2>2 DEF Walking
<1> QED
  BY <1>2, <1>3

\* Who is at work on an email is alone with it.
LEMMA StepAlone ==
  ASSUME InboundInv, NEW e \in Deliveries, NEW p, NEW k, Moves(e, p, k), RowsGrow(e, p)
  PROVE  AloneWithIt'
<1>0. InboundType /\ AloneWithIt
  BY DEF InboundInv
<1>1. /\ pc'[e] = p
      /\ \A o \in Deliveries \ {e} : pc'[o] = pc[o]
  BY <1>0, MovedOne
<1>2. ASSUME NEW m \in Messages, received(m)', ~received(m)
      PROVE  m = e[1] /\ pc[e] \in Claiming /\ p \notin Claiming
  <2>1. m = e[1]
    BY <1>2 DEF RowsGrow, received
  <2> QED
    BY <1>2, <2>1 DEF RowsGrow
<1>3. ASSUME NEW o \in Deliveries, pc'[o] \in Claiming
      PROVE  ~received(o[1])'
  <2>0. o[1] \in Messages
    BY DEF Deliveries
  <2>1. CASE o = e
    <3>1. p \in Claiming /\ ~received(e[1])
      BY <1>1, <1>3, <2>1 DEF RowsGrow
    <3> QED
      BY <1>2, <2>0, <2>1, <3>1
  <2>2. CASE o # e
    <3>1. pc[o] \in Claiming /\ ~received(o[1])
      BY <1>0, <1>1, <1>3, <2>2 DEF AloneWithIt
    <3>2. SUFFICES ASSUME received(o[1])' PROVE FALSE
      OBVIOUS
    <3>3. o[1] = e[1] /\ pc[e] \in Claiming
      BY <1>2, <2>0, <3>1, <3>2
    <3> QED
      BY <1>0, <2>2, <3>1, <3>3 DEF AloneWithIt
  <2> QED
    BY <2>1, <2>2
<1>4. ASSUME NEW o \in Deliveries, NEW f \in Deliveries,
             pc'[o] \in Claiming, pc'[f] \in Claiming, o[1] = f[1], o # f
      PROVE  FALSE
  BY <1>0, <1>1, <1>4 DEF AloneWithIt, RowsGrow
<1> QED
  BY <1>3, <1>4 DEF AloneWithIt

\* One email brought a document.
LEMMA StepBrings ==
  ASSUME InboundInv, NEW e \in Deliveries, NEW p, NEW k, Moves(e, p, k), RowsGrow(e, p),
         ScanGoes, Carries(e, p, k)
  PROVE  BroughtOnce'
<1>0. InboundType /\ BroughtOnce /\ e[1] \in Messages
  BY DEF InboundInv, Deliveries
<1>1. ASSUME NEW x \in Docs, NEW m \in Messages, BroughtBy(m, x)'
      PROVE  BroughtBy(m, x) \/ (m = e[1] /\ scan[x] = "none" /\ scan'[x] # "none")
  <2>1. CASE storedAs(parts'[m], x)
    <3>1. CASE parts'[m] = parts[m]
      BY <2>1, <3>1 DEF BroughtBy
    <3>2. CASE m = e[1] /\ parts'[m] = d[e].out
      BY <2>1, <3>2 DEF BroughtBy, Brings, brings
    <3> QED
      BY <1>0, <3>1, <3>2 DEF RowsGrow, InboundType
  <2>2. ASSUME NEW o \in Deliveries, o[1] = m, brings(o, pc'[o], d'[o], x)
        PROVE  BroughtBy(m, x) \/ (m = e[1] /\ scan[x] = "none" /\ scan'[x] # "none")
    <3>1. CASE o = e
      BY <1>0, <2>2, <3>1, MovedOne DEF Carries, BroughtBy
    <3>2. CASE o # e
      BY <1>0, <2>2, <3>2, MovedOne DEF BroughtBy, Brings
    <3> QED
      BY <3>1, <3>2
  <2>3. storedAs(parts'[m], x) \/ \E o \in Deliveries : o[1] = m /\ brings(o, pc'[o], d'[o], x)
    BY <1>1 DEF BroughtBy, Brings, brings, storedAs
  <2> QED
    BY <2>1, <2>2, <2>3
<1>2. ASSUME NEW x \in Docs, NEW m \in Messages, BroughtBy(m, x)'
      PROVE  scan'[x] # "none" /\ \A n \in Messages : BroughtBy(n, x)' => n = m
  BY <1>0, <1>1, <1>2 DEF BroughtOnce, ScanGoes
<1> QED
  BY <1>2 DEF BroughtOnce

\* The scanner has answered for what was left.
LEMMA StepAnswered ==
  ASSUME InboundInv, NEW e \in Deliveries, NEW p, NEW k, Moves(e, p, k), RowsGrow(e, p),
         ScanGoes, Carries(e, p, k)
  PROVE  AnsweredFor'
<1>0. InboundType /\ AnsweredFor /\ e[1] \in Messages
  BY DEF InboundInv, Deliveries
<1>1. ASSUME NEW o \in Deliveries
      PROVE  \A q \in ToSet(d[o].out) : q.outcome \in Filed =>
                 q.doc \notin Infected /\ scan'[q.doc] \in {"clean", "error"}
  <2>1. d[o].out \in Seq(PartRow) /\ Sound(d[o].out)
    BY <1>0 DEF AnsweredFor, InboundType, Knows
  <2> SUFFICES ASSUME NEW q \in ToSet(d[o].out), q.outcome \in Filed
               PROVE  q.doc \notin Infected /\ scan'[q.doc] \in {"clean", "error"}
    OBVIOUS
  <2>2. q.doc \in Docs
    BY <2>1, PartsOf DEF PartRow
  <2> QED
    BY <2>1, <2>2 DEF Sound, ScanGoes
<1>2. ASSUME NEW m \in Messages
      PROVE  \A q \in ToSet(parts[m]) : q.outcome \in Filed =>
                 q.doc \notin Infected /\ scan'[q.doc] \in {"clean", "error"}
  <2>1. parts[m] \in Seq(PartRow) /\ Sound(parts[m])
    BY <1>0 DEF AnsweredFor, InboundType
  <2> SUFFICES ASSUME NEW q \in ToSet(parts[m]), q.outcome \in Filed
               PROVE  q.doc \notin Infected /\ scan'[q.doc] \in {"clean", "error"}
    OBVIOUS
  <2>2. q.doc \in Docs
    BY <2>1, PartsOf DEF PartRow
  <2> QED
    BY <2>1, <2>2 DEF Sound, ScanGoes
<1>3. ASSUME NEW m \in Messages
      PROVE  Sound(parts[m])'
  <2>1. parts'[m] = parts[m] \/ parts'[m] = d[e].out
    BY <1>0 DEF RowsGrow, InboundType
  <2> QED
    BY <1>1, <1>2, <2>1 DEF Sound
<1>4. ASSUME NEW o \in Deliveries
      PROVE  Sound(d[o].out)'
  <2>1. CASE o = e
    <3>1. d'[o] = k
      BY <1>0, <2>1, MovedOne
    <3> QED
      BY <1>1, <3>1 DEF Sound, Carries
  <2>2. CASE o # e
    <3>1. d'[o] = d[o]
      BY <1>0, <2>2, MovedOne
    <3> QED
      BY <1>1, <3>1 DEF Sound
  <2> QED
    BY <2>1, <2>2
<1>5. \A x \in Docs : scan'[x] = "clean" => x \notin Infected
  BY DEF ScanGoes
<1> QED
  BY <1>3, <1>4, <1>5 DEF AnsweredFor

\* What Postmark was told is on record.
LEMMA StepTold ==
  ASSUME InboundInv, NEW e \in Deliveries, NEW p, NEW k, Moves(e, p, k), RowsGrow(e, p),
         JobsStay, Tells(e)
  PROVE  ToldIsRecorded'
<1>0. InboundType /\ ToldIsRecorded /\ rows \subseteq rows'
  BY DEF InboundInv, RowsGrow
<1>1. ASSUME NEW o \in Deliveries, pc'[o] = "send"
      PROVE  received(o[1])'
  <2>1. CASE o = e
    BY <1>0, <1>1, <2>1, MovedOne DEF RowsGrow
  <2>2. CASE o # e
    <3>1. pc[o] = "send"
      BY <1>0, <1>1, <2>2, MovedOne
    <3> QED
      BY <1>0, <3>1 DEF ToldIsRecorded, received
  <2> QED
    BY <2>1, <2>2
<1>2. ASSUME NEW m \in Messages
      PROVE  /\ status'[m] = "done" => received(m)' /\ job'[m].st # "none"
             /\ status'[m] = "stopped" => <<m, "refused_retired">> \in rows'
             /\ status'[m] = "swept" => <<m, "not_received">> \in rows'
  <2>1. CASE status'[m] = status[m]
    <3>1. /\ status[m] = "done" => received(m)' /\ job'[m].st # "none"
      BY <1>0 DEF ToldIsRecorded, received, JobsStay
    <3> QED
      BY <1>0, <2>1, <3>1 DEF ToldIsRecorded
  <2>2. CASE status'[m] # status[m]
    BY <2>2 DEF Tells
  <2> QED
    BY <2>1, <2>2
<1> QED
  BY <1>1, <1>2 DEF ToldIsRecorded

\* Types.
LEMMA StepTypes ==
  ASSUME InboundType, NEW e \in Deliveries, NEW p, NEW k, Moves(e, p, k), RowsGrow(e, p),
         ScanGoes, Walks(e, p, k), JobsStay, Tells(e)
  PROVE  InboundType'
<1>1. /\ e[1] \in Messages /\ d[e].out \in Seq(PartRow)
  BY DEF InboundType, Deliveries, Knows
<1>2. rows' \subseteq Messages \X {"received", "refused_retired", "not_received"}
  BY <1>1 DEF RowsGrow, InboundType
<1>3. parts' \in [Messages -> Seq(PartRow)]
  BY <1>1 DEF RowsGrow, InboundType
<1>4. /\ pc' \in [Deliveries -> Pcs] /\ d' = [o \in Deliveries |-> d'[o]]
      /\ \A o \in Deliveries : Knows(d'[o])
  BY MovedOne
<1>5. scan' \in [Docs -> Scans] /\ status' \in [Messages -> Statuses] /\ tries' \in [Messages -> Nat]
  BY DEF ScanGoes, Tells, Walks
<1>6. /\ job' = [m \in Messages |-> job'[m]]
      /\ \A m \in Messages : job'[m] = [st |-> job'[m].st, user |-> job'[m].user,
                                        asked |-> job'[m].asked, notice |-> job'[m].notice]
  BY DEF JobsStay
<1>7. \A o \in Deliveries : Knows(d[o])'
  BY <1>4 DEF Knows
<1> QED
  BY <1>2, <1>3, <1>4, <1>5, <1>6, <1>7 DEF InboundType

DeliveryStep(e, p, k) ==
    /\ Moves(e, p, k) /\ RowsGrow(e, p) /\ ScanGoes /\ Carries(e, p, k)
    /\ Walks(e, p, k) /\ JobsStay /\ Tells(e)

\* The step of a delivery keeps the invariant.
LEMMA DeliveryKeeps ==
  ASSUME InboundInv, NEW e \in Deliveries, NEW p, NEW k, DeliveryStep(e, p, k)
  PROVE  InboundInv'
<1>0. /\ Moves(e, p, k) /\ RowsGrow(e, p) /\ ScanGoes /\ Carries(e, p, k)
      /\ Walks(e, p, k) /\ JobsStay /\ Tells(e)
  BY DEF DeliveryStep
<1>1. InboundType'
  BY <1>0, StepTypes DEF InboundInv
<1>2. Walking' /\ AloneWithIt'
  BY <1>0, StepWalks, StepAlone
<1>3. BroughtOnce' /\ AnsweredFor' /\ ToldIsRecorded'
  BY <1>0, StepBrings, StepAnswered, StepTold
<1> QED
  BY <1>1, <1>2, <1>3 DEF InboundInv

-----------------------------------------------------------------------------
(* What the steps of a delivery share *)

\* The walk goes on, or reaches the send, with the email's rows as they are.
LEMMA RowsStay ==
  ASSUME InboundInv, NEW e \in Deliveries, NEW p, UNCHANGED <<rows, parts>>,
         p \in Claiming => pc[e] \in Claiming, p = "send" => received(e[1])
  PROVE  RowsGrow(e, p)
BY DEF InboundInv, AloneWithIt, RowsGrow, received

\* No scan.
LEMMA ScanStays ==
  ASSUME InboundInv, UNCHANGED scan
  PROVE  ScanGoes
BY DEF InboundInv, InboundType, AnsweredFor, ScanGoes

\* No job.
LEMMA JobStays ==
  ASSUME InboundInv, UNCHANGED job
  PROVE  JobsStay
BY DEF InboundInv, InboundType, JobsStay

\* A delivery under way is one Postmark has made.
LEMMA Made ==
  ASSUME InboundInv, NEW e \in Deliveries, pc[e] # "unsent"
  PROVE  e[1] \in Messages /\ e[2] \in Nat /\ tries[e[1]] \in Nat /\ e[2] <= tries[e[1]]
<1>1. e[1] \in Messages /\ e[2] \in Nat /\ tries[e[1]] \in Nat
  BY DEF InboundInv, InboundType, Deliveries
<1>2. ~(e[2] > tries[e[1]])
  BY DEF InboundInv, Walking
<1> QED
  BY <1>1, <1>2

\* A step under the claim tells Postmark nothing.
LEMMA GoesOn ==
  ASSUME InboundInv, NEW e \in Deliveries, NEW p, NEW k, Goes(e, p), pc[e] # "unsent",
         p \in {"part", "put", "scan"} => Len(k.out) < Len(Emails[e[1]]),
         p \in Claiming \cup {"send"}
  PROVE  Walks(e, p, k) /\ Tells(e) /\ p \in Pcs /\ pc' = [pc EXCEPT ![e] = p]
<1>1. UNCHANGED <<status, tries>> /\ pc' = [pc EXCEPT ![e] = p] /\ p \in Pcs
  BY DEF Goes, postmark, Pcs
<1>2. Tells(e)
  <2>1. status' \in [Messages -> Statuses] /\ \A m \in Messages : status'[m] = status[m]
    BY <1>1 DEF InboundInv, InboundType
  <2> QED
    BY <2>1, Zenon DEF Tells
<1>3. \A m \in Messages : tries'[m] \in Nat /\ tries'[m] >= tries[m]
  BY <1>1 DEF InboundInv, InboundType
<1>4. e[2] <= tries'[e[1]] /\ tries' \in [Messages -> Nat]
  BY <1>1, Made DEF InboundInv, InboundType
<1> QED
  BY <1>1, <1>2, <1>3, <1>4 DEF Walks, Claiming

\* An answer: what it says is on the record.
LEMMA Answers ==
  ASSUME InboundInv, NEW e \in Deliveries, NEW code \in {"503", "done", "stopped", "unnoted"},
         Answer(e, code), pc[e] # "unsent",
         code = "done" => received(e[1])' /\ job'[e[1]].st # "none",
         code = "stopped" => <<e[1], "refused_retired">> \in rows'
  PROVE  /\ Moves(e, "answered", Unknowing) /\ Walks(e, "answered", Unknowing)
         /\ Tells(e) /\ Carries(e, "answered", Unknowing)
<1>0. e[1] \in Messages /\ status \in [Messages -> Statuses]
  BY Made DEF InboundInv, InboundType
<1>1. Knows(Unknowing) /\ Unknowing.out = <<>>
  BY PartsOf DEF Unknowing, Knows
<1>2. Moves(e, "answered", Unknowing)
  BY <1>1 DEF Answer, Moves, Pcs
<1>3. Carries(e, "answered", Unknowing)
  BY <1>1, PartsOf DEF Carries, brings, storedAs
<1>4. Walks(e, "answered", Unknowing)
  <2>1. tries' = tries /\ tries \in [Messages -> Nat]
    BY DEF Answer, InboundInv, InboundType
  <2>2. \A m \in Messages : tries'[m] >= tries[m]
    BY <2>1
  <2> QED
    BY <1>1, <2>1, <2>2, Made DEF Walks
<1>5. \A m \in Messages \ {e[1]} : status'[m] = status[m]
  BY <1>0 DEF Answer
<1>6. status'[e[1]] = status[e[1]] \/ status'[e[1]] = "failed" \/ (code # "503" /\ status'[e[1]] = code)
  BY <1>0 DEF Answer
<1>7. \E v \in Statuses : status' = [status EXCEPT ![e[1]] = v]
  <2>1. status' = [status EXCEPT ![e[1]] = status'[e[1]]]
    BY <1>0 DEF Answer
  <2>2. status'[e[1]] \in Statuses
    BY <1>0, <1>6 DEF Statuses
  <2> QED
    BY <2>1, <2>2
<1>8. Tells(e)
  <2>1. status' \in [Messages -> Statuses]
    BY <1>0, <1>7
  <2>2. ASSUME NEW m \in Messages
        PROVE  \/ status'[m] = status[m]
               \/ status'[m] \in {"failed", "unnoted"}
               \/ status'[m] = "done" /\ received(m)' /\ job'[m].st # "none"
               \/ status'[m] = "stopped" /\ <<m, "refused_retired">> \in rows'
    <3>1. CASE m = e[1]
      BY <1>6, <3>1
    <3>2. CASE m # e[1]
      BY <1>5, <3>2
    <3> QED
      BY <3>1, <3>2
  <2> QED
    BY <2>1, <2>2, Zenon DEF Tells
<1> QED
  BY <1>2, <1>3, <1>4, <1>8

\* A 503 that leaves everything else alone, but for a scan.
LEMMA NotNow ==
  ASSUME InboundInv, NEW e \in Deliveries, Answer(e, "503"), pc[e] # "unsent",
         UNCHANGED <<rows, parts, job>>, ScanGoes
  PROVE  InboundInv'
<1>1. /\ Moves(e, "answered", Unknowing) /\ Walks(e, "answered", Unknowing)
      /\ Tells(e) /\ Carries(e, "answered", Unknowing)
  BY Answers
<1>2. RowsGrow(e, "answered") /\ JobsStay
  BY RowsStay, JobStays DEF Claiming
<1> QED
  BY <1>1, <1>2, DeliveryKeeps DEF DeliveryStep

\* What an outcome means.
LEMMA Outcomes ==
  ASSUME NEW k, NEW v \in {"clean", "infected"}
  PROVE  /\ outcomeOf(k, v).outcome \in Filed \cup {"not_clean"}
         /\ outcomeOf(k, v).outcome \in Filed => v = "clean"
         /\ outcomeOf(k, v).outcome = "stored" => ~k.held
BY DEF outcomeOf, Filed

\* A part's outcome is noted.
LEMMA NotedKeeps ==
  ASSUME InboundInv, NEW e \in Deliveries, pc[e] \in {"part", "scan"}, NEW o, Noted(e, o),
         o.outcome \in Filed \cup {"refused", "not_clean"},
         o.outcome \in Filed => doc(e) \notin Infected /\ scan'[doc(e)] \in {"clean", "error"},
         o.outcome = "stored" => pc[e] = "scan" /\ ~d[e].held,
         UNCHANGED <<rows, parts, job>>, ScanGoes
  PROVE  InboundInv'
<1> DEFINE row == [kind |-> part(e).kind, doc |-> doc(e), outcome |-> o.outcome]
           p == after(e, Len(d[e].out) + 1)
<1>0. InboundType /\ Walking
  BY DEF InboundInv
<1>1. doc(e) \in Docs /\ part(e).kind \in {"attachment", "body"}
  BY <1>0, PartAhead
<1>2. row \in PartRow
  BY <1>1 DEF PartRow
<1>3. Knows(d[e])
  BY <1>0 DEF InboundType
<1>4. PICK k : k = [d[e] EXCEPT !.out = Append(@, row), !.reads = o.reads, !.held = FALSE]
  OBVIOUS
<1>5. /\ k = [act |-> d[e].act, reads |-> o.reads, held |-> FALSE, out |-> Append(d[e].out, row)]
  BY <1>3, <1>4 DEF Knows
<1>6. /\ d[e].out \in Seq(PartRow) /\ k.out = Append(d[e].out, row)
      /\ k.out \in Seq(PartRow) /\ Len(k.out) = Len(d[e].out) + 1
      /\ ToSet(k.out) = ToSet(d[e].out) \cup {row}
  BY <1>2, <1>3, <1>5, OneMore DEF Knows
<1>7. Knows(k)
  BY <1>5, <1>6 DEF Knows
<1>8. d' = [d EXCEPT ![e] = k]
  BY <1>0, <1>3, <1>4 DEF Noted, InboundType
<1>9. Goes(e, p) /\ p \in {"part", "record"}
  BY DEF Noted, after
<1>10. p = "part" => Len(k.out) < Len(Emails[e[1]])
  <2>1. Len(d[e].out) < Len(Emails[e[1]]) /\ Len(d[e].out) \in Nat
    BY <1>0, <1>6 DEF Walking
  <2>2. Len(Emails[e[1]]) \in Nat
    BY InboundAssumption DEF Deliveries
  <2> QED
    BY <1>6, <2>1, <2>2 DEF after
<1>11. Walks(e, p, k) /\ Tells(e) /\ Moves(e, p, k)
  <2> HIDE DEF p
  <2> QED
    BY <1>7, <1>8, <1>9, <1>10, GoesOn DEF Moves, Claiming
<1>12. RowsGrow(e, p) /\ JobsStay
  <2> HIDE DEF p
  <2> QED
    BY <1>9, RowsStay, JobStays DEF Claiming
<1>13. Carries(e, p, k)
  <2>1. ASSUME NEW q \in ToSet(k.out), q.outcome \in Filed
        PROVE  q \in ToSet(d[e].out) \/ (q.doc \notin Infected /\ scan'[q.doc] \in {"clean", "error"})
    BY <1>6, <2>1
  <2>2. ASSUME NEW x \in Docs, brings(e, p, k, x)
        PROVE  Brings(e, x)
    <3>1. storedAs(k.out, x)
      BY <1>9, <2>2 DEF brings
    <3>2. PICK q \in ToSet(k.out) : q.doc = x /\ q.outcome = "stored"
      BY <3>1 DEF storedAs
    <3>3. CASE q \in ToSet(d[e].out)
      BY <3>2, <3>3 DEF Brings, brings, storedAs
    <3>4. CASE q = row
      BY <3>2, <3>4 DEF Brings, brings, doc, part
    <3> QED
      BY <1>6, <3>3, <3>4
  <2> QED
    BY <2>1, <2>2 DEF Carries
<1>14. DeliveryStep(e, p, k)
  BY <1>11, <1>12, <1>13 DEF DeliveryStep
<1> QED
  BY <1>14, DeliveryKeeps

-----------------------------------------------------------------------------
(* One lemma per action *)

\* Deliver begins a delivery that was not under way.
LEMMA DeliverKeeps ==
  ASSUME InboundInv, NEW m \in Messages, Deliver(m)
  PROVE  InboundInv'
<1> DEFINE e == <<m, tries[m] + 1>>
           p == IF retirer = NoOne THEN "receive" ELSE "refuse"
<1>0. InboundType /\ Walking
  BY DEF InboundInv
<1>1. tries[m] \in Nat /\ tries[m] < MaxDeliveries /\ MaxDeliveries \in Nat
  BY <1>0, InboundAssumption DEF Deliver, InboundType
<1>2. e \in Deliveries /\ e[1] = m /\ e[2] = tries[m] + 1
  BY <1>1 DEF Deliveries
<1>3. pc[e] = "unsent" /\ d[e].out = <<>> /\ Knows(d[e])
  <2>1. e[2] > tries[e[1]]
    BY <1>1, <1>2
  <2>2. pc[e] = "unsent"
    BY <1>0, <1>2, <2>1 DEF Walking
  <2> QED
    BY <1>0, <1>2, <2>2 DEF Walking, InboundType
<1>4. PICK k : k = [d[e] EXCEPT !.act = IF retirer = NoOne THEN acting ELSE retirer]
  OBVIOUS
<1>5. Knows(k) /\ k.out = <<>>
  BY <1>3, <1>4 DEF Knows
<1>6. UNCHANGED <<rows, parts, scan, status, job>>
  BY DEF Deliver, records, documents
<1>7. p \in {"receive", "refuse"}
  OBVIOUS
<1>8. Moves(e, p, k)
  BY <1>0, <1>2, <1>4, <1>5 DEF Moves, Pcs, Deliver
<1>9. Walks(e, p, k)
  <2>1. tries' = [tries EXCEPT ![m] = tries[m] + 1] /\ tries \in [Messages -> Nat]
    BY <1>0 DEF Deliver, InboundType
  <2>2. tries' \in [Messages -> Nat] /\ \A n \in Messages : tries'[n] >= tries[n]
    BY <2>1
  <2>3. e[2] <= tries'[e[1]]
    BY <1>1, <1>2, <2>1
  <2> QED
    BY <1>5, <1>7, <2>2, <2>3 DEF Walks
<1>10. Carries(e, p, k)
  BY <1>5, <1>7, PartsOf DEF Carries, brings, storedAs
<1> HIDE DEF e, p
<1>11. RowsGrow(e, p)
  BY <1>2, <1>6, <1>7, RowsStay DEF Claiming
<1>12. ScanGoes /\ JobsStay
  BY <1>6, ScanStays, JobStays
<1>13. Tells(e)
  <2>1. status' \in [Messages -> Statuses] /\ \A n \in Messages : status'[n] = status[n]
    BY <1>0, <1>6 DEF InboundType
  <2> QED
    BY <2>1, Zenon DEF Tells
<1> QED
  BY <1>2, <1>8, <1>9, <1>10, <1>11, <1>12, <1>13, DeliveryKeeps DEF DeliveryStep

\* Refuse says "stopped" only of an email it noted.
LEMMA RefuseKeeps ==
  ASSUME InboundInv, NEW e \in Deliveries, Refuse(e)
  PROVE  InboundInv'
<1> DEFINE code == IF mayWrite(d[e].act) THEN "stopped" ELSE "unnoted"
<1>1. pc[e] = "refuse" /\ Answer(e, code) /\ UNCHANGED <<parts, scan, job>>
  BY DEF Refuse, documents
<1>2. rows' = rows \/ rows' = rows \cup {<<e[1], "refused_retired">>}
  BY DEF Refuse
<1>3. code = "stopped" => <<e[1], "refused_retired">> \in rows'
  BY DEF Refuse
<1>4. code \in {"stopped", "unnoted"}
  OBVIOUS
<1> HIDE DEF code
<1>5. /\ Moves(e, "answered", Unknowing) /\ Walks(e, "answered", Unknowing)
      /\ Tells(e) /\ Carries(e, "answered", Unknowing)
  BY <1>1, <1>3, <1>4, Answers
<1>6. RowsGrow(e, "answered")
  BY <1>1, <1>2 DEF RowsGrow, received, Claiming
<1> QED
  BY <1>1, <1>5, <1>6, ScanStays, JobStays, DeliveryKeeps DEF DeliveryStep

\* Receive takes the claim of an email that is not recorded and that nobody works on.
LEMMA ReceiveKeeps ==
  ASSUME InboundInv, NEW e \in Deliveries, Receive(e)
  PROVE  InboundInv'
<1>0. InboundType /\ Walking
  BY DEF InboundInv
<1>1. pc[e] = "receive" /\ UNCHANGED <<rows, parts, scan, job>>
  BY DEF Receive, records, documents
<1>2. ScanGoes /\ JobsStay
  BY <1>1, ScanStays, JobStays
<1>3. Knows(d[e]) /\ d[e].out = <<>> /\ e[1] \in Messages
  BY <1>0, <1>1 DEF InboundType, Walking, Deliveries
<1>4. CASE Answer(e, "503")
  BY <1>1, <1>2, <1>4, NotNow
<1>5. CASE received(e[1]) /\ Goes(e, "send") /\ UNCHANGED d
  <2>1. d' = [d EXCEPT ![e] = d[e]]
    BY <1>0, <1>5 DEF InboundType
  <2>2. Walks(e, "send", d[e]) /\ Tells(e) /\ Moves(e, "send", d[e])
    BY <1>1, <1>3, <1>5, <2>1, GoesOn DEF Moves
  <2>3. RowsGrow(e, "send")
    BY <1>1, <1>5, RowsStay DEF Claiming
  <2>4. Carries(e, "send", d[e])
    BY DEF Carries, Brings, brings
  <2> QED
    BY <1>2, <2>2, <2>3, <2>4, DeliveryKeeps DEF DeliveryStep
<1>6. CASE /\ claimFree(e) /\ ~received(e[1])
           /\ Goes(e, after(e, 0)) /\ d' = [d EXCEPT ![e].reads = inboundReadsLastDay]
  <2>1. PICK p : p = after(e, 0)
    OBVIOUS
  <2>2. PICK k : k = [d[e] EXCEPT !.reads = inboundReadsLastDay]
    OBVIOUS
  <2>3. Knows(k) /\ k.out = <<>>
    BY <1>3, <2>2 DEF Knows
  <2>4. d' = [d EXCEPT ![e] = k]
    BY <1>6, <2>2
  <2>5. p \in {"part", "record"} /\ (p = "part" => Len(k.out) < Len(Emails[e[1]]))
    <3>1. Len(Emails[e[1]]) \in Nat /\ Len(k.out) = 0
      BY <1>3, <2>3, InboundAssumption
    <3> QED
      BY <2>1, <3>1 DEF after
  <2>6. Walks(e, p, k) /\ Tells(e) /\ Moves(e, p, k)
    BY <1>1, <1>6, <2>1, <2>3, <2>4, <2>5, GoesOn DEF Moves, Claiming
  <2>7. RowsGrow(e, p)
    BY <1>1, <1>6, <2>5 DEF RowsGrow, received, claimFree
  <2>8. Carries(e, p, k)
    BY <2>3, <2>5, PartsOf DEF Carries, brings, storedAs
  <2> QED
    BY <1>2, <2>6, <2>7, <2>8, DeliveryKeeps DEF DeliveryStep
<1> QED
  BY <1>4, <1>5, <1>6 DEF Receive, busy

\* AcceptPart: a document the tenant already held was not brought by this email.
LEMMA AcceptPartKeeps ==
  ASSUME InboundInv, NEW e \in Deliveries, AcceptPart(e)
  PROVE  InboundInv'
<1>0. InboundType /\ Walking /\ AnsweredFor
  BY DEF InboundInv
<1>1. pc[e] = "part" /\ UNCHANGED <<rows, parts, scan, job>>
  BY DEF AcceptPart, records, documents
<1>2. ScanGoes /\ JobsStay
  BY <1>1, ScanStays, JobStays
<1>3. Knows(d[e]) /\ Len(d[e].out) < Len(Emails[e[1]]) /\ doc(e) \in Docs
  BY <1>0, <1>1, PartAhead DEF InboundType, Walking
<1>4. CASE Noted(e, [outcome |-> "refused", reads |-> d[e].reads])
  BY <1>1, <1>2, <1>4, NotedKeeps DEF Filed
<1>5. CASE Goes(e, "put") /\ UNCHANGED d
  <2>1. d' = [d EXCEPT ![e] = d[e]]
    BY <1>0, <1>5 DEF InboundType
  <2>2. Walks(e, "put", d[e]) /\ Tells(e) /\ Moves(e, "put", d[e])
    BY <1>1, <1>3, <1>5, <2>1, GoesOn DEF Moves, Claiming
  <2>3. RowsGrow(e, "put")
    BY <1>1, RowsStay DEF Claiming
  <2>4. Carries(e, "put", d[e])
    BY DEF Carries, Brings, brings
  <2> QED
    BY <1>2, <2>2, <2>3, <2>4, DeliveryKeeps DEF DeliveryStep
<1>6. CASE /\ scan[doc(e)] \in {"clean", "infected"}
           /\ Noted(e, outcomeOf([d[e] EXCEPT !.held = TRUE], scan[doc(e)]))
  <2>1. PICK o : o = outcomeOf([d[e] EXCEPT !.held = TRUE], scan[doc(e)])
    OBVIOUS
  <2>2. [d[e] EXCEPT !.held = TRUE].held
    BY <1>3 DEF Knows
  <2>3. /\ o.outcome \in Filed \cup {"not_clean"} /\ o.outcome # "stored"
        /\ o.outcome \in Filed => scan[doc(e)] = "clean"
    BY <1>6, <2>1, <2>2, Outcomes
  <2>4. o.outcome \in Filed => doc(e) \notin Infected /\ scan'[doc(e)] \in {"clean", "error"}
    BY <1>0, <1>1, <1>3, <2>3 DEF AnsweredFor
  <2> QED
    BY <1>1, <1>2, <1>6, <2>1, <2>3, <2>4, NotedKeeps
<1>7. CASE Goes(e, "scan") /\ d' = [d EXCEPT ![e].held = TRUE]
  <2>1. PICK k : k = [d[e] EXCEPT !.held = TRUE]
    OBVIOUS
  <2>2. Knows(k) /\ k.out = d[e].out /\ k.held
    BY <1>3, <2>1 DEF Knows
  <2>3. d' = [d EXCEPT ![e] = k]
    BY <1>7, <2>1
  <2>4. Walks(e, "scan", k) /\ Tells(e) /\ Moves(e, "scan", k)
    BY <1>1, <1>3, <1>7, <2>2, <2>3, GoesOn DEF Moves, Claiming
  <2>5. RowsGrow(e, "scan")
    BY <1>1, RowsStay DEF Claiming
  <2>6. Carries(e, "scan", k)
    BY <2>2 DEF Carries, Brings, brings
  <2> QED
    BY <1>2, <2>4, <2>5, <2>6, DeliveryKeeps DEF DeliveryStep
<1> QED
  BY <1>4, <1>5, <1>6, <1>7 DEF AcceptPart

\* PutDocument: nobody had brought the bytes it stores.
LEMMA PutDocumentKeeps ==
  ASSUME InboundInv, NEW e \in Deliveries, PutDocument(e)
  PROVE  InboundInv'
<1>0. InboundType /\ Walking /\ AnsweredFor
  BY DEF InboundInv
<1>1. pc[e] = "put" /\ UNCHANGED <<rows, parts, job>>
  BY DEF PutDocument, records
<1>2. Knows(d[e]) /\ Len(d[e].out) < Len(Emails[e[1]]) /\ doc(e) \in Docs
  BY <1>0, <1>1, PartAhead DEF InboundType, Walking
<1>3. CASE Answer(e, "503") /\ UNCHANGED scan
  BY <1>1, <1>3, ScanStays, NotNow
<1>4. CASE /\ mayPut(e) /\ scan' = [scan EXCEPT ![doc(e)] = "stored"]
           /\ Goes(e, "scan") /\ UNCHANGED d
  <2>1. scan[doc(e)] = "none"
    BY <1>4 DEF mayPut
  <2>2. ScanGoes
    BY <1>0, <1>2, <1>4, <2>1 DEF ScanGoes, InboundType, Scans, AnsweredFor
  <2>3. d' = [d EXCEPT ![e] = d[e]]
    BY <1>0, <1>4 DEF InboundType
  <2>4. Walks(e, "scan", d[e]) /\ Tells(e) /\ Moves(e, "scan", d[e])
    BY <1>1, <1>2, <1>4, <2>3, GoesOn DEF Moves, Claiming
  <2>5. RowsGrow(e, "scan") /\ JobsStay
    BY <1>1, RowsStay, JobStays DEF Claiming
  <2>6. scan'[doc(e)] # "none"
    BY <1>0, <1>2, <1>4 DEF InboundType
  <2>7. ASSUME NEW x \in Docs, brings(e, "scan", d[e], x)
        PROVE  Brings(e, x) \/ (scan[x] = "none" /\ scan'[x] # "none")
    <3>1. CASE storedAs(d[e].out, x)
      BY <3>1 DEF Brings, brings
    <3>2. CASE x = doc(e)
      BY <2>1, <2>6, <3>2
    <3> QED
      BY <2>7, <3>1, <3>2 DEF brings, doc, part
  <2>8. Carries(e, "scan", d[e])
    BY <2>7 DEF Carries
  <2> QED
    BY <2>2, <2>4, <2>5, <2>8, DeliveryKeeps DEF DeliveryStep
<1> QED
  BY <1>3, <1>4 DEF PutDocument

\* ScanPart: the verdict is the scanner's on the bytes; one it did not give leaves them scanned.
LEMMA ScanPartKeeps ==
  ASSUME InboundInv, NEW e \in Deliveries, ScanPart(e)
  PROVE  InboundInv'
<1>0. InboundType /\ Walking /\ AnsweredFor
  BY DEF InboundInv
<1>1. pc[e] = "scan" /\ UNCHANGED <<rows, parts, job>>
  BY DEF ScanPart, records
<1>2. doc(e) \in Docs
  BY <1>0, <1>1, PartAhead
<1>3. CASE Answer(e, "503") /\ UNCHANGED scan
  BY <1>1, <1>3, ScanStays, NotNow
<1>4. CASE Answer(e, "503") /\ scan' = [scan EXCEPT ![doc(e)] = "error"]
  <2>1. ScanGoes
    BY <1>0, <1>2, <1>4 DEF ScanGoes, InboundType, Scans, AnsweredFor
  <2> QED
    BY <1>1, <1>4, <2>1, NotNow
<1>5. CASE /\ scan' = [scan EXCEPT ![doc(e)] = verdictOf(doc(e))]
           /\ Noted(e, outcomeOf(d[e], verdictOf(doc(e))))
  <2>1. PICK o : o = outcomeOf(d[e], verdictOf(doc(e)))
    OBVIOUS
  <2>2. /\ verdictOf(doc(e)) \in {"clean", "infected"}
        /\ verdictOf(doc(e)) = "clean" <=> doc(e) \notin Infected
        /\ scan'[doc(e)] = verdictOf(doc(e))
    BY <1>0, <1>2, <1>5 DEF verdictOf, InboundType
  <2>3. ScanGoes
    BY <1>0, <1>2, <1>5, <2>2 DEF ScanGoes, InboundType, Scans, AnsweredFor
  <2>4. /\ o.outcome \in Filed \cup {"not_clean"}
        /\ o.outcome = "stored" => ~d[e].held
        /\ o.outcome \in Filed => verdictOf(doc(e)) = "clean"
    BY <2>1, <2>2, Outcomes
  <2> QED
    BY <1>1, <1>5, <2>1, <2>2, <2>3, <2>4, NotedKeeps
<1> QED
  BY <1>3, <1>4, <1>5 DEF ScanPart

\* RecordMessage: the email's row and its parts, and the claim is given back.
LEMMA RecordMessageKeeps ==
  ASSUME InboundInv, NEW e \in Deliveries, RecordMessage(e)
  PROVE  InboundInv'
<1>0. InboundType /\ AloneWithIt
  BY DEF InboundInv
<1>1. pc[e] = "record" /\ UNCHANGED <<scan, job>>
  BY DEF RecordMessage, documents
<1>2. ScanGoes /\ JobsStay
  BY <1>1, ScanStays, JobStays
<1>3. Knows(d[e]) /\ ~received(e[1])
  BY <1>0, <1>1 DEF InboundType, AloneWithIt, Claiming
<1>4. CASE Answer(e, "503") /\ UNCHANGED <<rows, parts>>
  BY <1>1, <1>2, <1>4, NotNow
<1>5. CASE /\ rows' = rows \union {<<e[1], "received">>}
           /\ parts' = [parts EXCEPT ![e[1]] = IF received(e[1]) THEN @ ELSE d[e].out]
           /\ Goes(e, "send") /\ UNCHANGED d
  <2>1. d' = [d EXCEPT ![e] = d[e]]
    BY <1>0, <1>5 DEF InboundType
  <2>2. Walks(e, "send", d[e]) /\ Tells(e) /\ Moves(e, "send", d[e])
    BY <1>1, <1>3, <1>5, <2>1, GoesOn DEF Moves
  <2>3. parts' = [parts EXCEPT ![e[1]] = d[e].out]
    BY <1>3, <1>5
  <2>4. RowsGrow(e, "send")
    BY <1>1, <1>5, <2>3 DEF RowsGrow, received, Claiming
  <2>5. Carries(e, "send", d[e])
    BY DEF Carries, Brings, brings
  <2> QED
    BY <1>2, <2>2, <2>4, <2>5, DeliveryKeeps DEF DeliveryStep
<1> QED
  BY <1>4, <1>5 DEF RecordMessage, records

\* SendRead: 200 is said of an email on the record whose read is queued.
LEMMA SendReadKeeps ==
  ASSUME InboundInv, NEW e \in Deliveries, SendRead(e)
  PROVE  InboundInv'
<1>0. InboundType /\ ToldIsRecorded /\ e[1] \in Messages
  BY DEF InboundInv, Deliveries
<1>1. pc[e] = "send" /\ Answer(e, "done") /\ UNCHANGED <<rows, parts, scan>>
  BY DEF SendRead, records, documents
<1>2. received(e[1])'
  BY <1>0, <1>1 DEF ToldIsRecorded, received
<1>3. PICK j : j = IF job[e[1]].st = "none"
                   THEN [NoJob EXCEPT !.st = "queued", !.user = d[e].act] ELSE job[e[1]]
  OBVIOUS
<1>4. job' = [job EXCEPT ![e[1]] = j]
  BY <1>3 DEF SendRead
<1>5. /\ j = [st |-> j.st, user |-> j.user, asked |-> j.asked, notice |-> j.notice]
      /\ j.st # "none"
  BY <1>0, <1>3 DEF NoJob, InboundType
<1>6. JobsStay /\ job'[e[1]].st # "none"
  BY <1>0, <1>4, <1>5 DEF JobsStay, InboundType
<1>7. /\ Moves(e, "answered", Unknowing) /\ Walks(e, "answered", Unknowing)
      /\ Tells(e) /\ Carries(e, "answered", Unknowing)
  BY <1>1, <1>2, <1>6, Answers
<1>8. RowsGrow(e, "answered") /\ ScanGoes
  BY <1>1, RowsStay, ScanStays DEF Claiming
<1> QED
  BY <1>6, <1>7, <1>8, DeliveryKeeps DEF DeliveryStep

\* NotServed: a delivery dies, and its claim with it.
LEMMA NotServedKeeps ==
  ASSUME InboundInv, NEW e \in Deliveries, NotServed(e)
  PROVE  InboundInv'
<1>1. pc[e] # "unsent" /\ Answer(e, "503") /\ UNCHANGED <<rows, parts, scan, job>>
  BY DEF NotServed, records, documents
<1> QED
  BY <1>1, ScanStays, NotNow

-----------------------------------------------------------------------------
(* The steps of the queue, the sweep and the members *)

\* No delivery moves; the sweep adds a row, and tells nothing else.
LEMMA BesideKeeps ==
  ASSUME InboundInv, UNCHANGED <<parts, scan, tries, pc, d>>, JobsStay,
         NEW S \in SUBSET (Messages \X {"not_received"}), rows' = rows \cup S,
         status' \in [Messages -> Statuses],
         \A m \in Messages : status'[m] = status[m] \/ (status'[m] = "swept" /\ <<m, "not_received">> \in rows')
  PROVE  InboundInv'
<1>0. InboundType /\ Walking /\ AloneWithIt /\ BroughtOnce /\ AnsweredFor /\ ToldIsRecorded
  BY DEF InboundInv
<1>1. rows \subseteq rows' /\ \A m \in Messages : received(m)' <=> received(m)
  BY DEF received
<1>2. InboundType'
  BY <1>0 DEF InboundType, Knows, JobsStay
<1>3. Walking'
  BY <1>0 DEF Walking
<1>4. AloneWithIt'
  <2>1. \A e \in Deliveries : e[1] \in Messages
    BY DEF Deliveries
  <2> QED
    BY <1>0, <1>1, <2>1 DEF AloneWithIt
<1>5. BroughtOnce'
  BY <1>0 DEF BroughtOnce, BroughtBy, Brings, brings, storedAs
<1>6. AnsweredFor'
  BY <1>0 DEF AnsweredFor, Sound
<1>7. ToldIsRecorded'
  <2>1. ASSUME NEW e \in Deliveries, pc'[e] = "send"
        PROVE  received(e[1])'
    BY <1>0, <1>1, <2>1 DEF ToldIsRecorded, received
  <2>2. ASSUME NEW m \in Messages
        PROVE  /\ status'[m] = "done" => received(m)' /\ job'[m].st # "none"
               /\ status'[m] = "stopped" => <<m, "refused_retired">> \in rows'
               /\ status'[m] = "swept" => <<m, "not_received">> \in rows'
    <3>1. CASE status'[m] = status[m]
      <4>1. status[m] = "done" => received(m)' /\ job'[m].st # "none"
        BY <1>0, <1>1 DEF ToldIsRecorded, JobsStay
      <4> QED
        BY <1>0, <1>1, <3>1, <4>1 DEF ToldIsRecorded
    <3>2. CASE status'[m] = "swept" /\ <<m, "not_received">> \in rows'
      BY <3>2
    <3> QED
      BY <3>1, <3>2
  <2> QED
    BY <2>1, <2>2 DEF ToldIsRecorded
<1> QED
  BY <1>2, <1>3, <1>4, <1>5, <1>6, <1>7 DEF InboundInv

\* Nothing of the record, the documents' scans or the deliveries changes.
LEMMA QuietKeeps ==
  ASSUME InboundInv, UNCHANGED <<rows, parts, scan, status, tries, pc, d>>, JobsStay
  PROVE  InboundInv'
<1>1. rows' = rows \cup {} /\ {} \in SUBSET (Messages \X {"not_received"})
  OBVIOUS
<1>2. status' \in [Messages -> Statuses] /\ \A m \in Messages : status'[m] = status[m]
  BY DEF InboundInv, InboundType
<1> QED
  BY <1>1, <1>2, BesideKeeps

\* The queued read asks and ends, and is never unqueued.
LEMMA JobMoves ==
  ASSUME InboundInv, NEW m \in Messages, job[m].st = "queued",
         NEW j, j = [st |-> j.st, user |-> j.user, asked |-> j.asked, notice |-> j.notice],
         j.st # "none", job' = [job EXCEPT ![m] = j]
  PROVE  JobsStay
BY DEF InboundInv, InboundType, JobsStay

\* The read of one email, and its giving up.
LEMMA ReadsKeep ==
  ASSUME InboundInv, NEW m \in Messages, ReadInboundEmail(m) \/ JobGivesUp(m)
  PROVE  InboundInv'
<1>0. /\ job[m].st = "queued" /\ UNCHANGED <<rows, parts, scan, status, tries, pc, d>>
  BY DEF ReadInboundEmail, JobGivesUp, records, documents, postmark, delivery
<1>1. job = [n \in Messages |-> job[n]]
      /\ job[m] = [st |-> job[m].st, user |-> job[m].user, asked |-> job[m].asked, notice |-> job[m].notice]
  BY DEF InboundInv, InboundType
<1>2. ASSUME NEW x, ReadOne(m, x)
      PROVE  JobsStay
  <2>1. PICK j : j = [job[m] EXCEPT !.asked = @ \union {x},
                                    !.notice = @ \/ answered(x) = "deduction_notice"]
    OBVIOUS
  <2>2. job' = [job EXCEPT ![m] = j]
    BY <1>1, <1>2, <2>1 DEF ReadOne
  <2>3. j = [st |-> j.st, user |-> j.user, asked |-> j.asked, notice |-> j.notice] /\ j.st = job[m].st
    BY <1>1, <2>1
  <2> QED
    BY <1>0, <2>2, <2>3, JobMoves
<1>3. ASSUME job' = [job EXCEPT ![m].st = "over"]
      PROVE  JobsStay
  <2>1. PICK j : j = [job[m] EXCEPT !.st = "over"]
    OBVIOUS
  <2>2. job' = [job EXCEPT ![m] = j]
    BY <1>1, <1>3, <2>1
  <2>3. j = [st |-> j.st, user |-> j.user, asked |-> j.asked, notice |-> j.notice] /\ j.st = "over"
    BY <1>1, <2>1
  <2> QED
    BY <1>0, <2>2, <2>3, JobMoves
<1>4. (\E x : ReadOne(m, x)) \/ job' = [job EXCEPT ![m].st = "over"]
  BY DEF ReadInboundEmail, JobGivesUp
<1> QED
  BY <1>0, <1>2, <1>3, <1>4, QuietKeeps

\* The sweep notes what was never received.
LEMMA SweepOneKeeps ==
  ASSUME InboundInv, NEW m \in Messages, SweepOne(m)
  PROVE  InboundInv'
<1>1. /\ UNCHANGED <<parts, scan, tries, pc, d, job>>
      /\ rows' = rows \cup {<<m, "not_received">>}
      /\ status' = [status EXCEPT ![m] = "swept"]
  BY DEF SweepOne, documents, delivery
<1>2. /\ status' \in [Messages -> Statuses]
      /\ \A n \in Messages : status'[n] = status[n] \/ (status'[n] = "swept" /\ <<n, "not_received">> \in rows')
  BY <1>1 DEF InboundInv, InboundType, Statuses
<1>3. {<<m, "not_received">>} \in SUBSET (Messages \X {"not_received"})
  OBVIOUS
<1>4. JobsStay
  BY <1>1, JobStays
<1> QED
  BY <1>1, <1>2, <1>3, <1>4, BesideKeeps

\* What the members do meanwhile.
LEMMA MembersKeep ==
  ASSUME InboundInv,
         \/ \E u \in Members : AdoptAddress(u) \/ RetireAddress(u)
         \/ \E u \in Members, to \in {"owner", "analyst", "viewer"} : ChangeRole(u, to)
         \/ \E x \in Docs : RereadBegins(x) \/ RereadEnds(x)
         \/ UNCHANGED vars
  PROVE  InboundInv'
<1>1. UNCHANGED <<rows, parts, scan, status, tries, pc, d, job>>
  BY DEF AdoptAddress, RetireAddress, ChangeRole, RereadBegins, RereadEnds, Beside,
         vars, records, documents, postmark, delivery
<1> QED
  BY <1>1, JobStays, QuietKeeps

-----------------------------------------------------------------------------
(* The theorems *)

\* No email has been delivered.
LEMMA InboundStarts ==
  Init => InboundInv
<1> SUFFICES ASSUME Init PROVE InboundInv
  OBVIOUS
<1>1. Knows(Unknowing) /\ Unknowing.out = <<>>
  BY PartsOf DEF Unknowing, Knows
<1>2. \A e \in Deliveries : pc[e] = "unsent" /\ d[e] = Unknowing /\ tries[e[1]] = 0
  BY DEF Init, Deliveries
<1>3. InboundType
  BY <1>1, PartsOf DEF Init, InboundType, Scans, Statuses, Pcs, NoJob
<1>4. Walking /\ AloneWithIt
  BY <1>1, <1>2 DEF Walking, AloneWithIt, Claiming
<1>5. \A m \in Messages : parts[m] = <<>> /\ status[m] = "scheduled"
  BY DEF Init
<1>6. BroughtOnce
  BY <1>1, <1>2, <1>5, PartsOf DEF BroughtOnce, BroughtBy, Brings, brings, storedAs
<1>7. AnsweredFor /\ ToldIsRecorded
  BY <1>1, <1>2, <1>5, PartsOf DEF Init, AnsweredFor, Sound, ToldIsRecorded
<1> QED
  BY <1>3, <1>4, <1>6, <1>7 DEF InboundInv

\* Every step keeps the invariant.
LEMMA InboundSteps ==
  InboundInv /\ [Next]_vars => InboundInv'
<1> SUFFICES ASSUME InboundInv, [Next]_vars PROVE InboundInv'
  OBVIOUS
<1>1. CASE \E m \in Messages : Deliver(m) \/ ReadInboundEmail(m) \/ JobGivesUp(m) \/ SweepOne(m)
  BY <1>1, DeliverKeeps, ReadsKeep, SweepOneKeeps
<1>2. CASE \E e \in Deliveries : Webhook(e)
  <2>1. PICK e \in Deliveries : Webhook(e)
    BY <1>2
  <2> QED
    BY <2>1, RefuseKeeps, ReceiveKeeps, AcceptPartKeeps, PutDocumentKeeps, ScanPartKeeps,
       RecordMessageKeeps, SendReadKeeps, NotServedKeeps DEF Webhook
<1>3. CASE \/ \E u \in Members : AdoptAddress(u) \/ RetireAddress(u)
           \/ \E u \in Members, to \in {"owner", "analyst", "viewer"} : ChangeRole(u, to)
           \/ \E x \in Docs : RereadBegins(x) \/ RereadEnds(x)
           \/ UNCHANGED vars
  BY <1>3, MembersKeep
<1> QED
  BY <1>1, <1>2, <1>3 DEF Next

\* The inductive invariant holds, whatever deliveries overlap, die or are repeated.
THEOREM InboundInvariance ==
  Spec => []InboundInv
BY InboundStarts, InboundSteps, PTL DEF Spec

\* An email Postmark will not send again is listed as having filed nothing, or each document it
\* left is read, waits in the list of unread ones, is the cover note of a notice, or lost its
\* verdict to a later scan (inbound-route.ts:41-46, inbound-sweep.ts:12-17).
THEOREM NoEmailFallsSilent ==
  Spec => []NothingFallsSilent
<1>1. ASSUME InboundInv
      PROVE  NothingFallsSilent
  <2> SUFFICES ASSUME NEW m \in Messages, status[m] \in {"done", "stopped", "swept"},
                      m \notin emailsThatFiledNothing
               PROVE  /\ received(m)
                      /\ \A p \in ToSet(parts[m]) : p.outcome \in Filed =>
                           \/ readAs[p.doc] # "none" \/ p.doc \in unreadDocuments
                           \/ scan[p.doc] = "error" \/ coverNote(p.doc)
    BY DEF NothingFallsSilent, Filed
  <2>0. InboundType /\ AnsweredFor /\ ToldIsRecorded
    BY <1>1 DEF InboundInv
  <2>1. received(m)
    BY <2>0 DEF ToldIsRecorded, emailsThatFiledNothing
  <2>2. ASSUME NEW p \in ToSet(parts[m]), p.outcome \in Filed
        PROVE  \/ readAs[p.doc] # "none" \/ p.doc \in unreadDocuments
               \/ scan[p.doc] = "error" \/ coverNote(p.doc)
    <3>1. p.doc \in Docs
      BY <2>0, RecordedDoc
    <3>2. scan[p.doc] \in {"clean", "error"}
      BY <2>0, <2>2 DEF AnsweredFor, Sound
    <3> QED
      BY <3>1, <3>2 DEF unreadDocuments
  <2> QED
    BY <2>1, <2>2
<1> QED
  BY <1>1, InboundInvariance, PTL

\* A document is recorded as stored by at most one email (inbound.ts:161, migration 0034).
THEOREM OneEmailStoresIt ==
  Spec => []StoredByOne
<1>1. ASSUME InboundInv
      PROVE  StoredByOne
  <2> SUFFICES ASSUME NEW x \in Docs
               PROVE  Cardinality({m \in Messages : storedAs(parts[m], x)}) <= 1
    BY DEF StoredByOne, storedAs
  <2> DEFINE By == {m \in Messages : storedAs(parts[m], x)}
  <2>1. \A m, n \in By : m = n
    BY <1>1 DEF InboundInv, BroughtOnce, BroughtBy
  <2>2. CASE By = {}
    BY <2>2, FS_EmptySet
  <2>3. ASSUME NEW m \in By
        PROVE  Cardinality(By) <= 1
    <3>1. By = {m}
      BY <2>1
    <3> HIDE DEF By
    <3> QED
      BY <3>1, FS_Singleton
  <2> QED
    BY <2>2, <2>3
<1> QED
  BY <1>1, InboundInvariance, PTL

\* An email is 200 to Postmark only once it is on the record and its read is queued: whatever dies
\* before that is delivered again (inbound-route.ts:173, inbound.ts's send after the record).
DoneIsKept ==
    \A m \in Messages : status[m] = "done" => received(m) /\ job[m].st # "none"

\* Stated of every behaviour.
THEOREM DoneMeansKept ==
  Spec => []DoneIsKept
<1>1. InboundInv => DoneIsKept
  BY DEF InboundInv, ToldIsRecorded, DoneIsKept
<1> QED
  BY <1>1, InboundInvariance, PTL

\* Two deliveries of one email are never at work on it at once, and none is once it is recorded:
\* the claim and the look under it (withMessageClaim) serialise what Postmark overlaps.
THEOREM OneDeliveryAtWork ==
  Spec => []AloneWithIt
<1>1. InboundInv => AloneWithIt
  BY DEF InboundInv
<1> QED
  BY <1>1, InboundInvariance, PTL

-----------------------------------------------------------------------------
(* What is read *)

\* Infected contents are never read, and no email lists them as filed: not by the queued read, not
\* by "Read again", and not by way of a document held since an earlier email.
InfectedIsNotRead ==
    /\ \A x \in Docs : readAs[x] # "none" => x \notin Infected
    /\ \A m \in Messages : \A p \in ToSet(parts[m]) : p.outcome \in Filed => p.doc \notin Infected

\* Who is read was clean when it was read.
LEMMA ReadsAreClean ==
  ASSUME InboundInv, InfectedIsNotRead, readAs = [x \in Docs |-> readAs[x]], [Next]_vars
  PROVE  readAs' = [x \in Docs |-> readAs'[x]] /\ \A x \in Docs : readAs'[x] # "none" => x \notin Infected
<1>0. \A x \in Docs : scan[x] = "clean" => x \notin Infected
  BY DEF InboundInv, AnsweredFor
<1>1. CASE UNCHANGED readAs
  BY <1>1 DEF InfectedIsNotRead
<1>2. ASSUME NEW m, NEW x \in Docs, ReadOne(m, x)
      PROVE  readAs' = [y \in Docs |-> readAs'[y]] /\ \A y \in Docs : readAs'[y] # "none" => y \notin Infected
  BY <1>0, <1>2 DEF ReadOne, answered, InfectedIsNotRead
<1>3. ASSUME NEW x \in Docs, RereadEnds(x)
      PROVE  readAs' = [y \in Docs |-> readAs'[y]] /\ \A y \in Docs : readAs'[y] # "none" => y \notin Infected
  BY <1>0, <1>3 DEF RereadEnds, InfectedIsNotRead
<1>4. ASSUME NEW m \in Messages, ReadInboundEmail(m)
      PROVE  UNCHANGED readAs \/ \E x \in Docs : ReadOne(m, x)
  <2>1. \A kinds : docsOf(m, kinds) \subseteq Docs
    BY RecordedDoc DEF docsOf, InboundInv
  <2> QED
    BY <1>4, <2>1 DEF ReadInboundEmail
<1>5. CASE \E m \in Messages : Deliver(m) \/ ReadInboundEmail(m) \/ JobGivesUp(m) \/ SweepOne(m)
  BY <1>1, <1>2, <1>4, <1>5 DEF Deliver, JobGivesUp, SweepOne, documents
<1>6. CASE \E e \in Deliveries : Webhook(e)
  <2>1. UNCHANGED readAs
    BY <1>6 DEF Webhook, Refuse, Receive, AcceptPart, PutDocument, ScanPart, RecordMessage,
                SendRead, NotServed, documents
  <2> QED
    BY <1>1, <2>1
<1>7. CASE \/ \E u \in Members : AdoptAddress(u) \/ RetireAddress(u)
           \/ \E u \in Members, to \in {"owner", "analyst", "viewer"} : ChangeRole(u, to)
  BY <1>1, <1>7 DEF AdoptAddress, RetireAddress, ChangeRole
<1>8. CASE \E x \in Docs : RereadBegins(x) \/ RereadEnds(x)
  BY <1>1, <1>3, <1>8 DEF RereadBegins
<1>9. CASE UNCHANGED vars
  BY <1>1, <1>9 DEF vars, documents
<1> QED
  BY <1>5, <1>6, <1>7, <1>8, <1>9 DEF Next

\* The scanner's word stands between an email and the model, on every path.
THEOREM NothingInfectedIsRead ==
  Spec => []InfectedIsNotRead
<1> DEFINE Reads == readAs = [x \in Docs |-> readAs[x]] /\ InfectedIsNotRead
<1>1. ASSUME InboundInv
      PROVE  \A m \in Messages : \A p \in ToSet(parts[m]) : p.outcome \in Filed => p.doc \notin Infected
  BY <1>1 DEF InboundInv, AnsweredFor, Sound
<1>2. Init => Reads
  BY <1>1, InboundStarts DEF Init, InfectedIsNotRead
<1>3. InboundInv /\ InboundInv' /\ Reads /\ [Next]_vars => Reads'
  <2> SUFFICES ASSUME InboundInv, InboundInv', Reads, [Next]_vars PROVE Reads'
    OBVIOUS
  <2>1. readAs' = [x \in Docs |-> readAs'[x]] /\ \A x \in Docs : readAs'[x] # "none" => x \notin Infected
    BY ReadsAreClean
  <2>2. \A m \in Messages : \A p \in ToSet(parts'[m]) : p.outcome \in Filed => p.doc \notin Infected
    BY DEF InboundInv, AnsweredFor, Sound
  <2> QED
    BY <2>1, <2>2 DEF InfectedIsNotRead
<1>4. Spec => []Reads
  BY <1>2, <1>3, InboundInvariance, PTL DEF Spec
<1>5. Reads => InfectedIsNotRead
  OBVIOUS
<1> QED
  BY <1>4, <1>5, PTL

=============================================================================
