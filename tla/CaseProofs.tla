------------------------------ MODULE CaseProofs ------------------------------
(***************************************************************************)
(* Proofs about the life of a case, for any cases, members, roles,         *)
(* documents, bounds and undos in flight: first of CaseWorkflow, then of   *)
(* DuplicateCases, which runs the merges beside the whole workflow.        *)
(***************************************************************************)
EXTENDS DuplicateCases, TLAPS

(***************************************************************************)
(* The workflow: the types, "fought or declined, never both", "nothing is  *)
(* filed but what a second person approved", "an approval names the latest *)
(* packet", "the state of a case and its rows agree", "a closed case takes *)
(* no work", and that every case moves along the table (CaseLifecycle).    *)
(*                                                                         *)
(* None of the safety properties is inductive.  What they rest on is where *)
(* a case may be when it has a decision, an approval, a submission or an   *)
(* opening job: those are the conjuncts added below.                       *)
(***************************************************************************)

(* A case with a decision has left the states from which it is decided or   *)
(* declined, and a case in the states after the decision has one.           *)
DecidedState ==
    \A c \in Cases :
        /\ preparer[c] # NoUser => state[c] \notin {Unopened, "discovered", "classified"}
        /\ state[c] \in {"analyst_review", "awaiting_approval"} => preparer[c] # NoUser

(* While a job is opening a case nothing moves it but a removal or (in      *)
(* DuplicateCases) a merge, which updateAdmitted refuses to overwrite, so   *)
(* the unconditional update of transitionCase replaces 'discovered'.        *)
OpeningState ==
    \A c \in Cases :
        job[c] \in {"opened", "linked"} => state[c] \in {"discovered", "removed", "merged"}

(* An approval is by an approver, of a decision somebody else prepared, and *)
(* its case is past analyst_review, where a packet could still be added.    *)
ApprovalState ==
    \A a \in approvals :
        /\ mayApprove(a.by)
        /\ preparer[a.case] \in Users \ {a.by}
        /\ state[a.case] # "analyst_review"

(* What the invariant is about. *)
control == <<state, job, preparer, declined, packets, approvals, submissions, recovered>>

(* The inductive invariant. *)
IInv ==
    /\ TypeOK
    /\ DecidedState
    /\ OpeningState
    /\ ApprovalState
    /\ FoughtOrDeclined
    /\ FiledAsApproved
    /\ ApprovedIsLatest
    /\ StateMatchesRows

-----------------------------------------------------------------------------
(* A row of packets, found by its index, is a packet; its index a number.   *)
LEMMA PacketType ==
    ASSUME TypeOK, NEW c \in Cases
    PROVE  /\ packets[c] \in Seq(Packets)
           /\ \A i \in DOMAIN packets[c] :
                 i \in Nat /\ packets[c][i].content \in Contents /\ packets[c][i].at \in Nat
<1>1. packets[c] \in Seq(Packets)
  BY DEF TypeOK
<1>2. ASSUME NEW i \in DOMAIN packets[c]
      PROVE  i \in Nat /\ packets[c][i] \in Packets
  BY <1>1
<1>3. QED
  BY <1>1, <1>2 DEF Packets

(* A packet appended to a sequence of packets gives one.                    *)
LEMMA AppendType ==
    ASSUME NEW s \in Seq(Packets), NEW p \in Packets
    PROVE  Append(s, p) \in Seq(Packets) /\ Append(s, p) # << >> /\ Len(s) + 1 \in Nat
OBVIOUS

USE DEF CASE_STATES, MERGEABLE_STATES, TERMINAL_STATES, OUTCOMES, INITIAL_STATE,
        JobSteps, Unopened, NoUser

(* packetDocuments returns attached documents and the notice.               *)
LEMMA PacketDocumentsType ==
    ASSUME TypeOK, NEW c \in Cases
    PROVE  packetDocuments(c) \in SUBSET (Evidence \cup {Notice})
BY DEF TypeOK, packetDocuments

(* What a request under the lock would hash is a packet's contents.         *)
LEMMA ContentType ==
    ASSUME TypeOK, NEW q \in assembling
    PROVE  contentOf(q) \in Contents /\ q.case \in Cases /\ q.at \in Nat
<1>1. q.case \in Cases /\ q.at \in Nat /\ q.terms \in SUBSET (Evidence \cup {Notice})
  BY DEF TypeOK, AssemblyRequests
<1>2. packetDocuments(q.case) \in SUBSET (Evidence \cup {Notice})
  BY <1>1, PacketDocumentsType
<1>3. deadline[q.case] \in BOOLEAN
  BY <1>1 DEF TypeOK
<1>4. QED
  BY <1>1, <1>2, <1>3 DEF contentOf, Contents

(* Every step keeps the types. *)
LEMMA TypeStep ==
    ASSUME TypeOK, [Next]_vars
    PROVE  TypeOK'
<1>1. ASSUME NEW c \in Cases,
             openCase(c)
      PROVE  TypeOK'
  BY CaseAssumption, <1>1 DEF openCase, caseVars, workVars, requestVars, TypeOK
<1>2. ASSUME NEW c \in Cases,
             linkNotice(c)
      PROVE  TypeOK'
  BY <1>2 DEF linkNotice, caseVars, workVars, requestVars, TypeOK
<1>3. ASSUME NEW c \in Cases,
             transitionCase(c)
      PROVE  TypeOK'
  BY <1>3 DEF transitionCase, updateAdmitted, caseVars, workVars, requestVars,
      TypeOK
<1>4. ASSUME NEW c \in Cases,
             jobDies(c)
      PROVE  TypeOK'
  BY <1>4 DEF jobDies, caseVars, workVars, requestVars, TypeOK
<1>5. ASSUME NEW u \in Users, NEW c \in Cases,
             openManualCase(u, c)
      PROVE  TypeOK'
  BY CaseAssumption, <1>5 DEF openManualCase, caseVars, workVars, requestVars,
      TypeOK
<1>6. ASSUME NEW u \in Users, NEW c \in Cases, NEW d \in Evidence,
             attachEvidence(u, c, d)
      PROVE  TypeOK'
  BY <1>6 DEF attachEvidence, caseVars, workVars, requestVars, TypeOK
<1>7. ASSUME NEW u \in Users, NEW c \in Cases,
             setDisputeDeadline(u, c)
      PROVE  TypeOK'
  BY <1>7 DEF setDisputeDeadline, caseVars, workVars, requestVars, TypeOK
<1>8. ASSUME NEW u \in Users, NEW c \in Cases,
             recordHumanDecision(u, c)
      PROVE  TypeOK'
  BY <1>8 DEF recordHumanDecision, mayDecide, caseVars, workVars, requestVars,
      TypeOK
<1>9. ASSUME NEW u \in Users, NEW c \in Cases,
             beginDecline(u, c)
      PROVE  TypeOK'
  <2>1. [case |-> c, decided |-> preparer[c] # NoUser,
         noticed |-> notice[c] # "none"] \in DeclineRequests
    BY DEF DeclineRequests
  <2>2. declining' \in SUBSET DeclineRequests
    BY <1>9, <2>1 DEF beginDecline, TypeOK
  <2>3. QED
    BY <1>9, <2>2 DEF beginDecline, caseVars, workVars, TypeOK
<1>10. ASSUME NEW q \in declining,
             declineCase(q)
      PROVE  TypeOK'
  BY <1>10 DEF declineCase, caseVars, workVars, requestVars, TypeOK
<1>11. ASSUME NEW q \in declining,
             declineRefused(q)
      PROVE  TypeOK'
  BY <1>11 DEF declineRefused, caseVars, workVars, requestVars, TypeOK
<1>12. ASSUME NEW u \in Users, NEW c \in Cases,
             readTerms(u, c)
      PROVE  TypeOK'
  <2>1. [case |-> c, terms |-> packetDocuments(c), at |-> 0] \in AssemblyRequests
    BY PacketDocumentsType DEF AssemblyRequests
  <2>2. assembling' \in SUBSET AssemblyRequests
    BY <1>12, <2>1 DEF readTerms, TypeOK
  <2>3. QED
    BY <1>12, <2>2 DEF readTerms, caseVars, workVars, TypeOK
<1>13. ASSUME NEW q \in assembling,
             beginAssembly(q)
      PROVE  TypeOK'
  <2>a. q \in AssemblyRequests
    BY DEF TypeOK
  <2>b. clock \in Nat
    BY DEF TypeOK
  <2>1. clock + 1 \in Nat
    BY <2>b
  <2>2. [q EXCEPT !.at = clock + 1] \in AssemblyRequests
    BY <2>a, <2>1 DEF AssemblyRequests
  <2>3. assembling' \in SUBSET AssemblyRequests
    BY <1>13, <2>2 DEF beginAssembly, TypeOK
  <2>4. QED
    BY <1>13, <2>1, <2>3 DEF beginAssembly, caseVars, workVars, TypeOK
<1>14. ASSUME NEW q \in assembling,
             assemblePacket(q)
      PROVE  TypeOK'
  <2>1. contentOf(q) \in Contents /\ q.case \in Cases /\ q.at \in Nat
    BY ContentType
  <2>2. [content |-> contentOf(q), at |-> q.at] \in Packets
    BY <2>1 DEF Packets
  <2>3. /\ Append(packets[q.case], [content |-> contentOf(q), at |-> q.at]) \in Seq(Packets)
        /\ Len(packets[q.case]) + 1 \in Nat
    BY <2>1, <2>2, PacketType, AppendType
  <2>4. packets' \in [Cases -> Seq(Packets)] /\ handed' \in [Cases -> Nat]
    BY <1>14, <2>1, <2>3 DEF assemblePacket, TypeOK
  <2>5. QED
    BY <1>14, <2>1, <2>4 DEF assemblePacket, TypeOK
<1>15. ASSUME NEW q \in assembling,
             handBackPacket(q)
      PROVE  TypeOK'
  <2>1. contentOf(q) \in Contents /\ q.case \in Cases
    BY ContentType
  <2>2. PICK i \in packetWith(q.case, contentOf(q)) :
          handed' = [handed EXCEPT ![q.case] = i]
    BY <1>15 DEF handBackPacket
  <2>3. i \in Nat
    BY <2>1, <2>2, PacketType DEF packetWith
  <2>4. handed' \in [Cases -> Nat]
    BY <2>1, <2>2, <2>3 DEF TypeOK
  <2>5. QED
    BY <1>15, <2>4 DEF handBackPacket, caseVars, TypeOK
<1>16. ASSUME NEW q \in assembling,
             assemblyEnds(q)
      PROVE  TypeOK'
  BY <1>16 DEF assemblyEnds, caseVars, workVars, requestVars, TypeOK
<1>17. ASSUME NEW u \in Users, NEW c \in Cases,
             NEW i \in DOMAIN packets[c], NEW w \in BOOLEAN,
             approve(u, c, i, w)
      PROVE  TypeOK'
  <2>1. packets[c][i].content \in Contents
    BY PacketType
  <2>a. [case |-> c, by |-> u, packet_hash |-> packets[c][i].content] \in ApprovalRows
    BY <2>1 DEF ApprovalRows
  <2>2. approvals' \in SUBSET ApprovalRows
    BY <1>17, <2>a DEF approve, TypeOK
  <2>3. writeback' \in [Cases -> Users \cup {NoUser}]
    BY <1>17 DEF approve, TypeOK
  <2>4. QED
    BY <1>17, <2>2, <2>3 DEF approve, caseVars, requestVars, TypeOK
<1>18. ASSUME NEW u \in Users, NEW c \in Cases, NEW i \in DOMAIN packets[c],
             NEW a \in approvals, NEW ch \in Channels,
             recordSubmission(u, c, i, a, ch)
      PROVE  TypeOK'
  <2>1. packets[c][i].content \in Contents
    BY PacketType
  <2>a. [case |-> c, channel |-> ch, packet_hash |-> packets[c][i].content] \in SubmissionRows
    BY <2>1 DEF SubmissionRows
  <2>2. submissions' \in SUBSET SubmissionRows
    BY <1>18, <2>a DEF recordSubmission, mayFile, approvalNames, TypeOK
  <2>3. QED
    BY <1>18, <2>2 DEF recordSubmission, mayFile, approvalNames, requestVars, TypeOK
<1>19. ASSUME NEW u \in Users, NEW c \in Cases,
             NEW outcome \in OUTCOMES, NEW cents \in 0 .. Amount[c],
             recordOutcome(u, c, outcome, cents)
      PROVE  TypeOK'
  <2>1. cents \in Nat
    BY AmountAssumption
  <2>2. QED
    BY <1>19, <2>1 DEF recordOutcome, requestVars, TypeOK
<1>20. ASSUME NEW u \in Users, NEW batch \in SUBSET Cases,
             removeCases(u, batch)
      PROVE  TypeOK'
  BY <1>20 DEF removeCases, allRemovable, caseVars, workVars, requestVars, TypeOK
<1>21. CASE UNCHANGED vars
  BY <1>21 DEF vars, caseVars, workVars, requestVars, TypeOK
<1>22. QED
  BY <1>1, <1>2, <1>3, <1>4, <1>5, <1>6, <1>7, <1>8, <1>9, <1>10, <1>11,
     <1>12, <1>13, <1>14, <1>15, <1>16, <1>17, <1>18, <1>19, <1>20, <1>21
  DEF Next, Opening, Documents, Deciding, Assembling, Filing, Removing

(* Init is of the right types. *)
LEMMA TypeInit == Init => TypeOK
<1> SUFFICES ASSUME Init PROVE TypeOK
  OBVIOUS
<1>1. << >> \in Seq(Packets) /\ 0 \in Nat
  OBVIOUS
<1>2. deadline \in [Cases -> BOOLEAN] /\ declined \in [Cases -> BOOLEAN]
  BY ZenonT(20) DEF Init
<1>3. /\ packets \in [Cases -> Seq(Packets)]
      /\ handed \in [Cases -> Nat]
      /\ recovered \in [Cases -> Nat]
      /\ clock \in Nat
  BY <1>1, Zenon DEF Init
<1>4. /\ state \in [Cases -> CASE_STATES \cup {Unopened}]
      /\ job \in [Cases -> JobSteps]
      /\ notice \in [Cases -> {"none", "paper", "typed"}]
  BY Zenon DEF Init
<1>5. /\ evidence \in [Cases -> SUBSET Evidence]
      /\ preparer \in [Cases -> Users \cup {NoUser}]
      /\ writeback \in [Cases -> Users \cup {NoUser}]
  BY Zenon DEF Init
<1>6. QED
  BY <1>2, <1>3, <1>4, <1>5 DEF Init, TypeOK

(* Type correctness of every reachable state. *)
THEOREM TypeCorrect == Spec => []TypeOK
BY TypeInit, TypeStep, PTL DEF Spec

(* The steps that matter to the invariant; the others leave what it is about   *)
(* alone.                                                                     *)
LEMMA QuietOrNot ==
    ASSUME [Next]_vars
    PROVE  \/ UNCHANGED control
           \/ \E c \in Cases : \/ openCase(c) \/ linkNotice(c)
                               \/ transitionCase(c) \/ jobDies(c)
           \/ \E q \in declining : declineCase(q)
           \/ \E q \in assembling : assemblePacket(q)
           \/ \E u \in Users, c \in Cases :
                 \/ openManualCase(u, c)
                 \/ recordHumanDecision(u, c)
                 \/ \E i \in DOMAIN packets[c], w \in BOOLEAN : approve(u, c, i, w)
                 \/ \E i \in DOMAIN packets[c], a \in approvals, ch \in Channels :
                       recordSubmission(u, c, i, a, ch)
                 \/ \E outcome \in OUTCOMES, cents \in 0 .. Amount[c] :
                       recordOutcome(u, c, outcome, cents)
           \/ \E u \in Users, batch \in SUBSET Cases : removeCases(u, batch)
<1> USE DEF control
<1>1. ASSUME NEW u \in Users, NEW c \in Cases, NEW d \in Evidence, attachEvidence(u, c, d)
      PROVE  UNCHANGED control
  BY <1>1 DEF attachEvidence, caseVars, workVars, requestVars
<1>2. ASSUME NEW u \in Users, NEW c \in Cases, setDisputeDeadline(u, c)
      PROVE  UNCHANGED control
  BY <1>2 DEF setDisputeDeadline, caseVars, workVars, requestVars
<1>3. ASSUME NEW u \in Users, NEW c \in Cases, beginDecline(u, c)
      PROVE  UNCHANGED control
  BY <1>3 DEF beginDecline, caseVars, workVars, requestVars
<1>4. ASSUME NEW q \in declining, declineRefused(q)
      PROVE  UNCHANGED control
  BY <1>4 DEF declineRefused, caseVars, workVars, requestVars
<1>5. ASSUME NEW u \in Users, NEW c \in Cases, readTerms(u, c)
      PROVE  UNCHANGED control
  BY <1>5 DEF readTerms, caseVars, workVars, requestVars
<1>6. ASSUME NEW q \in assembling, beginAssembly(q)
      PROVE  UNCHANGED control
  BY <1>6 DEF beginAssembly, caseVars, workVars, requestVars
<1>7. ASSUME NEW q \in assembling, handBackPacket(q)
      PROVE  UNCHANGED control
  BY <1>7 DEF handBackPacket, caseVars, workVars, requestVars
<1>8. ASSUME NEW q \in assembling, assemblyEnds(q)
      PROVE  UNCHANGED control
  BY <1>8 DEF assemblyEnds, caseVars, workVars, requestVars
<1>9. CASE UNCHANGED vars
  BY <1>9 DEF vars, caseVars, workVars, requestVars
<1>10. QED
  BY <1>1, <1>2, <1>3, <1>4, <1>5, <1>6, <1>7, <1>8, <1>9
  DEF Next, Opening, Documents, Deciding, Assembling, Filing, Removing

(* A decision is recorded on a classified case only, and nothing returns a    *)
(* decided case to the states before the decision.                            *)
LEMMA DecidedStep ==
    ASSUME TypeOK, DecidedState, OpeningState, [Next]_vars
    PROVE  DecidedState' /\ OpeningState'
<1>1. ASSUME NEW c \in Cases,
             openCase(c)
      PROVE  DecidedState' /\ OpeningState'
  BY <1>1 DEF openCase, caseVars, workVars, requestVars, TypeOK, DecidedState,
      OpeningState
<1>2. ASSUME NEW c \in Cases,
             linkNotice(c)
      PROVE  DecidedState' /\ OpeningState'
  BY <1>2 DEF linkNotice, caseVars, workVars, requestVars, TypeOK, DecidedState,
      OpeningState
<1>3. ASSUME NEW c \in Cases,
             transitionCase(c)
      PROVE  DecidedState' /\ OpeningState'
  BY <1>3 DEF transitionCase, updateAdmitted, caseVars, workVars, requestVars,
      TypeOK, DecidedState, OpeningState
<1>4. ASSUME NEW c \in Cases,
             jobDies(c)
      PROVE  DecidedState' /\ OpeningState'
  BY <1>4 DEF jobDies, caseVars, workVars, requestVars, TypeOK, DecidedState,
      OpeningState
<1>5. ASSUME NEW u \in Users, NEW c \in Cases,
             openManualCase(u, c)
      PROVE  DecidedState' /\ OpeningState'
  BY <1>5 DEF openManualCase, caseVars, workVars, requestVars, TypeOK,
      DecidedState, OpeningState
<1>6. ASSUME NEW u \in Users, NEW c \in Cases,
             recordHumanDecision(u, c)
      PROVE  DecidedState' /\ OpeningState'
  BY <1>6, NoClash DEF recordHumanDecision, mayDecide, caseVars, workVars,
      requestVars, TypeOK, DecidedState, OpeningState
<1>7. ASSUME NEW q \in declining,
             declineCase(q)
      PROVE  DecidedState' /\ OpeningState'
  BY <1>7 DEF declineCase, caseVars, workVars, requestVars, TypeOK, DecidedState,
      OpeningState
<1>8. ASSUME NEW q \in assembling,
             assemblePacket(q)
      PROVE  DecidedState' /\ OpeningState'
  BY <1>8, ContentType DEF assemblePacket, caseVars, workVars, requestVars,
      mayAssemble, TypeOK, DecidedState, OpeningState
<1>9. ASSUME NEW u \in Users, NEW c \in Cases,
             NEW i \in DOMAIN packets[c], NEW w \in BOOLEAN,
             approve(u, c, i, w)
      PROVE  DecidedState' /\ OpeningState'
  BY <1>9 DEF approve, caseVars, workVars, requestVars, TypeOK, DecidedState,
      OpeningState
<1>10. ASSUME NEW u \in Users, NEW c \in Cases, NEW i \in DOMAIN packets[c],
             NEW a \in approvals, NEW ch \in Channels,
             recordSubmission(u, c, i, a, ch)
      PROVE  DecidedState' /\ OpeningState'
  BY <1>10 DEF recordSubmission, mayFile, approvalNames, caseVars, workVars,
      requestVars, TypeOK, DecidedState, OpeningState
<1>11. ASSUME NEW u \in Users, NEW c \in Cases,
             NEW outcome \in OUTCOMES, NEW cents \in 0 .. Amount[c],
             recordOutcome(u, c, outcome, cents)
      PROVE  DecidedState' /\ OpeningState'
  BY <1>11 DEF recordOutcome, caseVars, workVars, requestVars, TypeOK,
      DecidedState, OpeningState
<1>12. ASSUME NEW u \in Users, NEW batch \in SUBSET Cases,
             removeCases(u, batch)
      PROVE  DecidedState' /\ OpeningState'
  BY <1>12 DEF removeCases, allRemovable, caseVars, workVars, requestVars, TypeOK, DecidedState,
      OpeningState
<1>13. CASE UNCHANGED control
  BY <1>13 DEF control, TypeOK, DecidedState, OpeningState
<1>14. QED
  BY QuietOrNot, <1>1, <1>2, <1>3, <1>4, <1>5, <1>6, <1>7, <1>8, <1>9, <1>10,
      <1>11, <1>12, <1>13

(* The row's committed state keeps a decline out once a decision stands,      *)
(* whatever the statement's snapshot showed.                                  *)
LEMMA FoughtStep ==
    ASSUME TypeOK, DecidedState, FoughtOrDeclined, [Next]_vars
    PROVE  FoughtOrDeclined'
<1>1. ASSUME NEW c \in Cases,
             openCase(c)
      PROVE  FoughtOrDeclined'
  BY <1>1 DEF openCase, caseVars, workVars, requestVars, TypeOK, DecidedState,
      FoughtOrDeclined
<1>2. ASSUME NEW c \in Cases,
             linkNotice(c)
      PROVE  FoughtOrDeclined'
  BY <1>2 DEF linkNotice, caseVars, workVars, requestVars, TypeOK, DecidedState,
      FoughtOrDeclined
<1>3. ASSUME NEW c \in Cases,
             transitionCase(c)
      PROVE  FoughtOrDeclined'
  BY <1>3 DEF transitionCase, updateAdmitted, caseVars, workVars, requestVars,
      TypeOK, DecidedState, FoughtOrDeclined
<1>4. ASSUME NEW c \in Cases,
             jobDies(c)
      PROVE  FoughtOrDeclined'
  BY <1>4 DEF jobDies, caseVars, workVars, requestVars, TypeOK, DecidedState,
      FoughtOrDeclined
<1>5. ASSUME NEW u \in Users, NEW c \in Cases,
             openManualCase(u, c)
      PROVE  FoughtOrDeclined'
  BY <1>5 DEF openManualCase, caseVars, workVars, requestVars, TypeOK,
      DecidedState, FoughtOrDeclined
<1>6. ASSUME NEW u \in Users, NEW c \in Cases,
             recordHumanDecision(u, c)
      PROVE  FoughtOrDeclined'
  BY <1>6, NoClash DEF recordHumanDecision, mayDecide, caseVars, workVars,
      requestVars, TypeOK, DecidedState, FoughtOrDeclined
<1>7. ASSUME NEW q \in declining,
             declineCase(q)
      PROVE  FoughtOrDeclined'
  BY <1>7 DEF declineCase, caseVars, mayDecline, DECLINABLE_STATES, DeclineRequests,
            TypeOK, DecidedState, FoughtOrDeclined
<1>8. ASSUME NEW q \in assembling,
             assemblePacket(q)
      PROVE  FoughtOrDeclined'
  BY <1>8 DEF assemblePacket, caseVars, workVars, requestVars, TypeOK,
      DecidedState, FoughtOrDeclined
<1>9. ASSUME NEW u \in Users, NEW c \in Cases,
             NEW i \in DOMAIN packets[c], NEW w \in BOOLEAN,
             approve(u, c, i, w)
      PROVE  FoughtOrDeclined'
  BY <1>9 DEF approve, caseVars, workVars, requestVars, TypeOK, DecidedState,
      FoughtOrDeclined
<1>10. ASSUME NEW u \in Users, NEW c \in Cases, NEW i \in DOMAIN packets[c],
             NEW a \in approvals, NEW ch \in Channels,
             recordSubmission(u, c, i, a, ch)
      PROVE  FoughtOrDeclined'
  BY <1>10 DEF recordSubmission, mayFile, approvalNames, caseVars, workVars,
      requestVars, TypeOK, DecidedState, FoughtOrDeclined
<1>11. ASSUME NEW u \in Users, NEW c \in Cases,
             NEW outcome \in OUTCOMES, NEW cents \in 0 .. Amount[c],
             recordOutcome(u, c, outcome, cents)
      PROVE  FoughtOrDeclined'
  BY <1>11 DEF recordOutcome, caseVars, workVars, requestVars, TypeOK,
      DecidedState, FoughtOrDeclined
<1>12. ASSUME NEW u \in Users, NEW batch \in SUBSET Cases,
             removeCases(u, batch)
      PROVE  FoughtOrDeclined'
  BY <1>12 DEF removeCases, allRemovable, caseVars, workVars, requestVars, TypeOK, DecidedState,
      FoughtOrDeclined
<1>13. CASE UNCHANGED control
  BY <1>13 DEF control, TypeOK, DecidedState, FoughtOrDeclined
<1>14. QED
  BY QuietOrNot, <1>1, <1>2, <1>3, <1>4, <1>5, <1>6, <1>7, <1>8, <1>9, <1>10,
      <1>11, <1>12, <1>13

(* An approval stays sound: its decision keeps its preparer, and its case     *)
(* does not return to analyst_review.                                         *)
LEMMA ApprovalStep ==
    ASSUME TypeOK, DecidedState, OpeningState, ApprovalState, [Next]_vars
    PROVE  ApprovalState'
<1>1. ASSUME NEW c \in Cases,
             openCase(c)
      PROVE  ApprovalState'
  BY <1>1 DEF openCase, caseVars, workVars, requestVars, mayApprove, TypeOK,
      ApprovalRows, DecidedState, OpeningState, ApprovalState
<1>2. ASSUME NEW c \in Cases,
             linkNotice(c)
      PROVE  ApprovalState'
  BY <1>2 DEF linkNotice, caseVars, workVars, requestVars, mayApprove, TypeOK,
      ApprovalRows, DecidedState, OpeningState, ApprovalState
<1>3. ASSUME NEW c \in Cases,
             transitionCase(c)
      PROVE  ApprovalState'
  BY <1>3 DEF transitionCase, updateAdmitted, caseVars, workVars, requestVars,
      mayApprove, TypeOK, ApprovalRows, DecidedState, OpeningState, ApprovalState
<1>4. ASSUME NEW c \in Cases,
             jobDies(c)
      PROVE  ApprovalState'
  BY <1>4 DEF jobDies, caseVars, workVars, requestVars, mayApprove, TypeOK,
      ApprovalRows, DecidedState, OpeningState, ApprovalState
<1>5. ASSUME NEW u \in Users, NEW c \in Cases,
             openManualCase(u, c)
      PROVE  ApprovalState'
  BY <1>5 DEF openManualCase, caseVars, workVars, requestVars, mayApprove, TypeOK,
      ApprovalRows, DecidedState, OpeningState, ApprovalState
<1>6. ASSUME NEW u \in Users, NEW c \in Cases,
             recordHumanDecision(u, c)
      PROVE  ApprovalState'
  <2>1. ASSUME NEW b \in approvals
        PROVE  b.case \in Cases /\ b.case # c
    BY <1>6, NoClash DEF recordHumanDecision, mayDecide, TypeOK, ApprovalRows,
        DecidedState, ApprovalState
  <2>2. ASSUME NEW b \in approvals
        PROVE  preparer'[b.case] = preparer[b.case] /\ state'[b.case] = state[b.case]
    BY <1>6, <2>1 DEF recordHumanDecision, mayDecide, TypeOK
  <2>3. QED
    BY <1>6, <2>2 DEF recordHumanDecision, mayDecide, mayApprove, ApprovalState
<1>7. ASSUME NEW q \in declining,
             declineCase(q)
      PROVE  ApprovalState'
  BY <1>7 DEF declineCase, caseVars, workVars, requestVars, mayApprove, TypeOK,
      ApprovalRows, DecidedState, OpeningState, ApprovalState
<1>8. ASSUME NEW q \in assembling,
             assemblePacket(q)
      PROVE  ApprovalState'
  BY <1>8 DEF assemblePacket, caseVars, workVars, requestVars, mayApprove, TypeOK,
      ApprovalRows, DecidedState, OpeningState, ApprovalState
<1>9. ASSUME NEW u \in Users, NEW c \in Cases,
             NEW i \in DOMAIN packets[c], NEW w \in BOOLEAN,
             approve(u, c, i, w)
      PROVE  ApprovalState'
  <2>1. preparer[c] \in Users \ {u} /\ mayApprove(u) /\ state[c] # "analyst_review"
    BY <1>9 DEF approve, TypeOK, DecidedState
  <2>2. ASSUME NEW b \in approvals'
        PROVE  /\ mayApprove(b.by)
               /\ preparer[b.case] \in Users \ {b.by}
               /\ state[b.case] # "analyst_review"
    <3>1. CASE b \in approvals
      BY <3>1 DEF ApprovalState
    <3>2. CASE b = [case |-> c, by |-> u, packet_hash |-> packets[c][i].content]
      BY <3>2, <2>1
    <3>3. QED
      BY <1>9, <3>1, <3>2 DEF approve
  <2>3. QED
    BY <1>9, <2>2 DEF approve, caseVars, mayApprove, ApprovalState
<1>10. ASSUME NEW u \in Users, NEW c \in Cases, NEW i \in DOMAIN packets[c],
             NEW a \in approvals, NEW ch \in Channels,
             recordSubmission(u, c, i, a, ch)
      PROVE  ApprovalState'
  BY <1>10 DEF recordSubmission, mayFile, approvalNames, caseVars, workVars,
      requestVars, mayApprove, TypeOK, ApprovalRows, DecidedState, OpeningState,
      ApprovalState
<1>11. ASSUME NEW u \in Users, NEW c \in Cases,
             NEW outcome \in OUTCOMES, NEW cents \in 0 .. Amount[c],
             recordOutcome(u, c, outcome, cents)
      PROVE  ApprovalState'
  BY <1>11 DEF recordOutcome, caseVars, workVars, requestVars, mayApprove, TypeOK,
      ApprovalRows, DecidedState, OpeningState, ApprovalState
<1>12. ASSUME NEW u \in Users, NEW batch \in SUBSET Cases,
             removeCases(u, batch)
      PROVE  ApprovalState'
  BY <1>12 DEF removeCases, allRemovable, caseVars, workVars, requestVars, mayApprove, TypeOK,
      ApprovalRows, DecidedState, OpeningState, ApprovalState
<1>13. CASE UNCHANGED control
  BY <1>13 DEF control, mayApprove, TypeOK, ApprovalRows, DecidedState, OpeningState,
      ApprovalState
<1>14. QED
  BY QuietOrNot, <1>1, <1>2, <1>3, <1>4, <1>5, <1>6, <1>7, <1>8, <1>9, <1>10,
      <1>11, <1>12, <1>13

(* A filing copies the hash of a packet equal to the approved one.            *)
LEMMA FiledStep ==
    ASSUME TypeOK, DecidedState, ApprovalState, FiledAsApproved, [Next]_vars
    PROVE  FiledAsApproved'
<1>1. ASSUME NEW c \in Cases,
             openCase(c)
      PROVE  FiledAsApproved'
  BY <1>1 DEF openCase, caseVars, workVars, requestVars, mayApprove, TypeOK,
      SubmissionRows, DecidedState, FiledAsApproved
<1>2. ASSUME NEW c \in Cases,
             linkNotice(c)
      PROVE  FiledAsApproved'
  BY <1>2 DEF linkNotice, caseVars, workVars, requestVars, mayApprove, TypeOK,
      SubmissionRows, DecidedState, FiledAsApproved
<1>3. ASSUME NEW c \in Cases,
             transitionCase(c)
      PROVE  FiledAsApproved'
  BY <1>3 DEF transitionCase, updateAdmitted, caseVars, workVars, requestVars,
      mayApprove, TypeOK, SubmissionRows, DecidedState, FiledAsApproved
<1>4. ASSUME NEW c \in Cases,
             jobDies(c)
      PROVE  FiledAsApproved'
  BY <1>4 DEF jobDies, caseVars, workVars, requestVars, mayApprove, TypeOK,
      SubmissionRows, DecidedState, FiledAsApproved
<1>5. ASSUME NEW u \in Users, NEW c \in Cases,
             openManualCase(u, c)
      PROVE  FiledAsApproved'
  BY <1>5 DEF openManualCase, caseVars, workVars, requestVars, mayApprove, TypeOK,
      SubmissionRows, DecidedState, FiledAsApproved
<1>6. ASSUME NEW u \in Users, NEW c \in Cases,
             recordHumanDecision(u, c)
      PROVE  FiledAsApproved'
  <2>1. ASSUME NEW s \in submissions
        PROVE  s.case \in Cases /\ s.case # c
    BY <1>6, NoClash DEF recordHumanDecision, mayDecide, TypeOK, SubmissionRows,
        DecidedState, FiledAsApproved
  <2>2. ASSUME NEW s \in submissions
        PROVE  preparer'[s.case] = preparer[s.case]
    BY <1>6, <2>1 DEF recordHumanDecision, mayDecide, TypeOK
  <2>3. QED
    BY <1>6, <2>2 DEF recordHumanDecision, mayDecide, mayApprove, FiledAsApproved
<1>7. ASSUME NEW q \in declining,
             declineCase(q)
      PROVE  FiledAsApproved'
  BY <1>7 DEF declineCase, caseVars, workVars, requestVars, mayApprove, TypeOK,
      SubmissionRows, DecidedState, FiledAsApproved
<1>8. ASSUME NEW q \in assembling,
             assemblePacket(q)
      PROVE  FiledAsApproved'
  BY <1>8 DEF assemblePacket, caseVars, workVars, requestVars, mayApprove, TypeOK,
      SubmissionRows, DecidedState, FiledAsApproved
<1>9. ASSUME NEW u \in Users, NEW c \in Cases,
             NEW i \in DOMAIN packets[c], NEW w \in BOOLEAN,
             approve(u, c, i, w)
      PROVE  FiledAsApproved'
  BY <1>9 DEF approve, caseVars, workVars, requestVars, mayApprove, TypeOK,
      SubmissionRows, DecidedState, FiledAsApproved
<1>10. ASSUME NEW u \in Users, NEW c \in Cases, NEW i \in DOMAIN packets[c],
             NEW a \in approvals, NEW ch \in Channels,
             recordSubmission(u, c, i, a, ch)
      PROVE  FiledAsApproved'
  BY <1>10 DEF recordSubmission, mayFile, approvalNames, requestVars, mayApprove,
      ApprovalState, FiledAsApproved
<1>11. ASSUME NEW u \in Users, NEW c \in Cases,
             NEW outcome \in OUTCOMES, NEW cents \in 0 .. Amount[c],
             recordOutcome(u, c, outcome, cents)
      PROVE  FiledAsApproved'
  BY <1>11 DEF recordOutcome, caseVars, workVars, requestVars, mayApprove, TypeOK,
      SubmissionRows, DecidedState, FiledAsApproved
<1>12. ASSUME NEW u \in Users, NEW batch \in SUBSET Cases,
             removeCases(u, batch)
      PROVE  FiledAsApproved'
  BY <1>12 DEF removeCases, allRemovable, caseVars, workVars, requestVars, mayApprove, TypeOK,
      SubmissionRows, DecidedState, FiledAsApproved
<1>13. CASE UNCHANGED control
  BY <1>13 DEF control, mayApprove, TypeOK, SubmissionRows, DecidedState, FiledAsApproved
<1>14. QED
  BY QuietOrNot, <1>1, <1>2, <1>3, <1>4, <1>5, <1>6, <1>7, <1>8, <1>9, <1>10,
      <1>11, <1>12, <1>13

(* No packet is added to a case once it is approved.                          *)
LEMMA LatestStep ==
    ASSUME TypeOK, ApprovalState, ApprovedIsLatest, [Next]_vars
    PROVE  ApprovedIsLatest'
<1>1. ASSUME NEW c \in Cases,
             openCase(c)
      PROVE  ApprovedIsLatest'
  BY <1>1 DEF openCase, caseVars, workVars, requestVars, latestPacket, TypeOK,
      ApprovedIsLatest
<1>2. ASSUME NEW c \in Cases,
             linkNotice(c)
      PROVE  ApprovedIsLatest'
  BY <1>2 DEF linkNotice, caseVars, workVars, requestVars, latestPacket, TypeOK,
      ApprovedIsLatest
<1>3. ASSUME NEW c \in Cases,
             transitionCase(c)
      PROVE  ApprovedIsLatest'
  BY <1>3 DEF transitionCase, updateAdmitted, caseVars, workVars, requestVars,
      latestPacket, TypeOK, ApprovedIsLatest
<1>4. ASSUME NEW c \in Cases,
             jobDies(c)
      PROVE  ApprovedIsLatest'
  BY <1>4 DEF jobDies, caseVars, workVars, requestVars, latestPacket, TypeOK,
      ApprovedIsLatest
<1>5. ASSUME NEW u \in Users, NEW c \in Cases,
             openManualCase(u, c)
      PROVE  ApprovedIsLatest'
  BY <1>5 DEF openManualCase, caseVars, workVars, requestVars, latestPacket,
      TypeOK, ApprovedIsLatest
<1>6. ASSUME NEW u \in Users, NEW c \in Cases,
             recordHumanDecision(u, c)
      PROVE  ApprovedIsLatest'
  BY <1>6, NoClash DEF recordHumanDecision, mayDecide, caseVars, workVars,
      requestVars, latestPacket, TypeOK, ApprovedIsLatest
<1>7. ASSUME NEW q \in declining,
             declineCase(q)
      PROVE  ApprovedIsLatest'
  BY <1>7 DEF declineCase, caseVars, workVars, requestVars, latestPacket, TypeOK,
      ApprovedIsLatest
<1>8. ASSUME NEW q \in assembling,
             assemblePacket(q)
      PROVE  ApprovedIsLatest'
  BY <1>8, ContentType DEF assemblePacket, mayAssemble, approvalsOf, latestPacket,
      TypeOK, ApprovalRows, ApprovalState, ApprovedIsLatest
<1>9. ASSUME NEW u \in Users, NEW c \in Cases,
             NEW i \in DOMAIN packets[c], NEW w \in BOOLEAN,
             approve(u, c, i, w)
      PROVE  ApprovedIsLatest'
  <2>1. ASSUME NEW b \in approvals'
        PROVE  \E j \in latestPacket(b.case) : packets[b.case][j].content = b.packet_hash
    <3>1. CASE b \in approvals
      BY <3>1 DEF ApprovedIsLatest
    <3>2. CASE b = [case |-> c, by |-> u, packet_hash |-> packets[c][i].content]
      <4>1. i \in latestPacket(b.case) /\ packets[b.case][i].content = b.packet_hash
        BY <1>9, <3>2 DEF approve
      <4>2. QED
        BY <4>1
    <3>3. QED
      BY <1>9, <3>1, <3>2 DEF approve
  <2>2. QED
    BY <1>9, <2>1 DEF approve, caseVars, latestPacket, ApprovedIsLatest
<1>10. ASSUME NEW u \in Users, NEW c \in Cases, NEW i \in DOMAIN packets[c],
             NEW a \in approvals, NEW ch \in Channels,
             recordSubmission(u, c, i, a, ch)
      PROVE  ApprovedIsLatest'
  BY <1>10 DEF recordSubmission, mayFile, approvalNames, caseVars, workVars,
      requestVars, latestPacket, TypeOK, ApprovedIsLatest
<1>11. ASSUME NEW u \in Users, NEW c \in Cases,
             NEW outcome \in OUTCOMES, NEW cents \in 0 .. Amount[c],
             recordOutcome(u, c, outcome, cents)
      PROVE  ApprovedIsLatest'
  BY <1>11 DEF recordOutcome, caseVars, workVars, requestVars, latestPacket,
      TypeOK, ApprovedIsLatest
<1>12. ASSUME NEW u \in Users, NEW batch \in SUBSET Cases,
             removeCases(u, batch)
      PROVE  ApprovedIsLatest'
  BY <1>12 DEF removeCases, allRemovable, caseVars, workVars, requestVars, latestPacket, TypeOK,
      ApprovedIsLatest
<1>13. CASE UNCHANGED control
  BY <1>13 DEF control, latestPacket, TypeOK, ApprovedIsLatest
<1>14. QED
  BY QuietOrNot, <1>1, <1>2, <1>3, <1>4, <1>5, <1>6, <1>7, <1>8, <1>9, <1>10,
      <1>11, <1>12, <1>13

(* The rows of one case, of which StateMatchesRows speaks for every case.     *)
RowsOf(c) ==
    /\ preparer[c] # NoUser => state[c] \notin {Unopened, "discovered", "classified"}
    /\ state[c] \in {"analyst_review", "awaiting_approval"} => preparer[c] # NoUser
    /\ state[c] \in {"awaiting_approval", "submitted"} => packets[c] # << >>
    /\ state[c] \in {"submitted"} \cup OUTCOMES <=> submissionsOf(c) # {}
    /\ \A s, t \in submissionsOf(c) : s = t
    /\ \A a, b \in approvalsOf(c) : a = b
    /\ recovered[c] = Amount[c] <=> state[c] = "won"
    /\ recovered[c] \in 1 .. Amount[c] - 1 <=> state[c] = "partial"

(* What a step does not touch goes on agreeing.                               *)
LEMMA RowsUntouched ==
    ASSUME NEW d \in Cases, RowsOf(d),
           state'[d] = state[d], preparer'[d] = preparer[d], packets'[d] = packets[d],
           recovered'[d] = recovered[d],
           approvalsOf(d)' = approvalsOf(d), submissionsOf(d)' = submissionsOf(d)
    PROVE  RowsOf(d)'
BY DEF RowsOf

(* Every handler writes the state and its rows together.                      *)
LEMMA RowsStep ==
    ASSUME TypeOK, OpeningState, StateMatchesRows, [Next]_vars
    PROVE  StateMatchesRows'
<1> SUFFICES ASSUME NEW d \in Cases PROVE RowsOf(d)'
  BY DEF StateMatchesRows, RowsOf
<1>a. RowsOf(d)
  BY DEF StateMatchesRows, RowsOf
<1>1. ASSUME NEW c \in Cases, openCase(c)
      PROVE  RowsOf(d)'
  BY <1>a, <1>1 DEF openCase, workVars, approvalsOf, submissionsOf, TypeOK, RowsOf
<1>2. ASSUME NEW c \in Cases, linkNotice(c) \/ jobDies(c)
      PROVE  RowsOf(d)'
  <2>1. approvalsOf(d)' = approvalsOf(d) /\ submissionsOf(d)' = submissionsOf(d)
    BY <1>2 DEF linkNotice, jobDies, workVars, approvalsOf, submissionsOf
  <2>2. QED
    BY <1>a, <1>2, <2>1, RowsUntouched DEF linkNotice, jobDies, workVars
<1>3. ASSUME NEW c \in Cases, transitionCase(c)
      PROVE  RowsOf(d)'
  BY <1>a, <1>3 DEF transitionCase, updateAdmitted, OpeningState, workVars, approvalsOf,
     submissionsOf, TypeOK, RowsOf
<1>4. ASSUME NEW u \in Users, NEW c \in Cases, openManualCase(u, c)
      PROVE  RowsOf(d)'
  BY <1>a, <1>4 DEF openManualCase, workVars, approvalsOf, submissionsOf, TypeOK, RowsOf
<1>5. ASSUME NEW u \in Users, NEW c \in Cases, recordHumanDecision(u, c)
      PROVE  RowsOf(d)'
  BY <1>a, <1>5, NoClash DEF recordHumanDecision, mayDecide, approvalsOf, submissionsOf,
     TypeOK, RowsOf
<1>6. ASSUME NEW q \in declining, declineCase(q)
      PROVE  RowsOf(d)'
  BY <1>a, <1>6 DEF declineCase, caseVars, approvalsOf, submissionsOf, RowsOf
<1>7. ASSUME NEW q \in assembling, assemblePacket(q)
      PROVE  RowsOf(d)'
  <2>1. approvalsOf(d)' = approvalsOf(d) /\ submissionsOf(d)' = submissionsOf(d)
    BY <1>7 DEF assemblePacket, approvalsOf, submissionsOf
  <2>2. CASE d # q.case
    BY <1>a, <1>7, <2>1, <2>2, RowsUntouched DEF assemblePacket, TypeOK
  <2>3. CASE d = q.case
    <3>1. state[d] \in {"analyst_review", "awaiting_approval"} /\ state'[d] = "awaiting_approval"
      BY <1>7, <2>3 DEF assemblePacket, mayAssemble, TypeOK
    <3>2. packets[d] \in Seq(Packets)
      BY PacketType
    <3>a. [content |-> contentOf(q), at |-> q.at] \in Packets
      BY ContentType DEF Packets
    <3>b. packets'[d] = Append(packets[d], [content |-> contentOf(q), at |-> q.at])
      BY <1>7, <2>3 DEF assemblePacket, TypeOK
    <3>3. packets'[d] # << >>
      BY <3>2, <3>a, <3>b, AppendType
    <3>4. preparer' = preparer /\ recovered' = recovered
      BY <1>7 DEF assemblePacket
    <3>5. QED
      BY <1>a, <2>1, <3>1, <3>3, <3>4 DEF RowsOf
  <2>4. QED
    BY <2>2, <2>3
<1>8. ASSUME NEW u \in Users, NEW c \in Cases,
             NEW i \in DOMAIN packets[c], NEW w \in BOOLEAN, approve(u, c, i, w)
      PROVE  RowsOf(d)'
  <2>1. submissionsOf(d)' = submissionsOf(d) /\ UNCHANGED <<state, preparer, packets, recovered>>
    BY <1>8 DEF approve, caseVars, submissionsOf
  <2>2. \A a, b \in approvalsOf(d)' : a = b
    <3>1. approvals' = approvals \cup
             {[case |-> c, by |-> u, packet_hash |-> packets[c][i].content]}
      BY <1>8 DEF approve
    <3>2. CASE d # c
      <4>1. approvalsOf(d)' = approvalsOf(d)
        BY <3>1, <3>2 DEF approvalsOf
      <4>2. QED
        BY <1>a, <4>1 DEF RowsOf
    <3>3. CASE d = c
      <4>1. approvalsOf(d) = {}
        BY <1>8, <3>3 DEF approve
      <4>2. approvalsOf(d)' \subseteq
               {[case |-> c, by |-> u, packet_hash |-> packets[c][i].content]}
        BY <3>1, <4>1 DEF approvalsOf
      <4>3. QED
        BY <4>2
    <3>4. QED
      BY <3>2, <3>3
  <2>3. QED
    BY <1>a, <2>1, <2>2 DEF RowsOf
<1>9. ASSUME NEW u \in Users, NEW c \in Cases, NEW i \in DOMAIN packets[c],
             NEW a \in approvals, NEW ch \in Channels, recordSubmission(u, c, i, a, ch)
      PROVE  RowsOf(d)'
  <2>1. approvalsOf(d)' = approvalsOf(d) /\ UNCHANGED <<preparer, packets, recovered>>
    BY <1>9 DEF recordSubmission, approvalsOf
  <2>2. CASE d # c
    <3>1. submissionsOf(d)' = submissionsOf(d)
      BY <1>9, <2>2 DEF recordSubmission, submissionsOf
    <3>2. QED
      BY <1>a, <1>9, <2>1, <2>2, <3>1, RowsUntouched DEF recordSubmission, TypeOK
  <2>3. CASE d = c
    <3>1. state[d] = "awaiting_approval" /\ state'[d] = "submitted"
      BY <1>9, <2>3 DEF recordSubmission, mayFile, TypeOK
    <3>2. submissionsOf(d) = {}
      BY <1>a, <3>1 DEF RowsOf
    <3>3. submissionsOf(d)' =
            {[case |-> c, channel |-> ch, packet_hash |-> packets[c][i].content]}
      BY <1>9, <2>3, <3>2 DEF recordSubmission, submissionsOf
    <3>4. QED
      BY <1>a, <2>1, <3>1, <3>3 DEF RowsOf
  <2>4. QED
    BY <2>2, <2>3
<1>10. ASSUME NEW u \in Users, NEW c \in Cases,
             NEW outcome \in OUTCOMES, NEW cents \in 0 .. Amount[c],
             recordOutcome(u, c, outcome, cents)
      PROVE  RowsOf(d)'
  <2>1. /\ approvalsOf(d)' = approvalsOf(d) /\ submissionsOf(d)' = submissionsOf(d)
        /\ UNCHANGED <<preparer, packets>>
    BY <1>10 DEF recordOutcome, approvalsOf, submissionsOf
  <2>2. CASE d # c
    BY <1>a, <1>10, <2>1, <2>2, RowsUntouched DEF recordOutcome, TypeOK
  <2>3. CASE d = c
    <3>1. state[d] = "submitted" /\ state'[d] = outcome /\ recovered'[d] = cents
      BY <1>10, <2>3 DEF recordOutcome, TypeOK
    <3>2. Amount[d] \in Nat \ {0}
      BY AmountAssumption
    <3>3. /\ cents = Amount[d] <=> outcome = "won"
          /\ cents \in 1 .. Amount[d] - 1 <=> outcome = "partial"
      BY <1>10, <2>3, <3>2 DEF recordOutcome, checkRecoveredCents
    <3>4. QED
      BY <1>a, <2>1, <3>1, <3>3 DEF RowsOf
  <2>4. QED
    BY <2>2, <2>3
<1>11. ASSUME NEW u \in Users, NEW batch \in SUBSET Cases, removeCases(u, batch)
      PROVE  RowsOf(d)'
  BY <1>a, <1>11 DEF removeCases, allRemovable, REMOVABLE_STATES, workVars, approvalsOf,
     submissionsOf, TypeOK, RowsOf
<1>12. CASE UNCHANGED control
  BY <1>a, <1>12 DEF control, approvalsOf, submissionsOf, RowsOf
<1>13. QED
  BY QuietOrNot, <1>1, <1>2, <1>3, <1>4, <1>5, <1>6, <1>7, <1>8, <1>9, <1>10, <1>11, <1>12

(* The invariant holds initially. *)
LEMMA InvInit == Init => IInv
<1> SUFFICES ASSUME Init PROVE IInv
  OBVIOUS
<1>1. /\ DecidedState /\ OpeningState /\ ApprovalState
      /\ FoughtOrDeclined /\ FiledAsApproved /\ ApprovedIsLatest
  BY DEF Init, DecidedState, OpeningState, ApprovalState, FoughtOrDeclined,
     FiledAsApproved, ApprovedIsLatest
<1>2. StateMatchesRows
  <2> SUFFICES ASSUME NEW c \in Cases PROVE RowsOf(c)
    BY DEF StateMatchesRows, RowsOf
  <2>1. Amount[c] \in Nat \ {0} /\ recovered[c] = 0
    BY AmountAssumption DEF Init
  <2>2. approvalsOf(c) = {} /\ submissionsOf(c) = {}
    BY DEF Init, approvalsOf, submissionsOf
  <2>3. state[c] = Unopened /\ preparer[c] = NoUser
    BY DEF Init
  <2>4. recovered[c] # Amount[c] /\ recovered[c] \notin 1 .. Amount[c] - 1
    BY <2>1
  <2>5. QED
    BY <2>2, <2>3, <2>4 DEF RowsOf
<1>3. QED
  BY <1>1, <1>2, TypeInit DEF IInv

(* Every step preserves the invariant. *)
LEMMA InvStep == IInv /\ [Next]_vars => IInv'
BY TypeStep, DecidedStep, FoughtStep, ApprovalStep, FiledStep, LatestStep, RowsStep DEF IInv

(* The inductive invariant holds in every reachable state. *)
THEOREM Invariance == Spec => []IInv
BY InvInit, InvStep, PTL DEF Spec

(* No case is both decided and declined: recordHumanDecision and declineCase, *)
(* which reads a possibly stale snapshot, exclude each other.                 *)
THEOREM NeverBoth == Spec => []FoughtOrDeclined
BY Invariance, PTL DEF IInv

(* Every submission carries the hash a second person, an approver, approved. *)
THEOREM FiledOnlyAsApproved == Spec => []FiledAsApproved
BY Invariance, PTL DEF IInv

(* The packet an approval names is the one latestPacket returns, for good.   *)
THEOREM ApprovalNamesLatest == Spec => []ApprovedIsLatest
BY Invariance, PTL DEF IInv

(* The state setState writes and the rows each handler writes agree, money     *)
(* included, although no constraint of the database relates them.             *)
THEOREM StateAndRowsAgree == Spec => []StateMatchesRows
BY Invariance, PTL DEF IInv

-----------------------------------------------------------------------------
(* What ClosedTakesNoWork says of one step. *)
NoWorkOnClosed ==
    \A c \in Cases : isClosed(state[c]) =>
        /\ preparer'[c] = preparer[c]
        /\ declined'[c] = declined[c]
        /\ packets'[c] = packets[c]
        /\ deadline'[c] = deadline[c]
        /\ {a \in approvals' : a.case = c} = approvalsOf(c)
        /\ {s \in submissions' : s.case = c} = submissionsOf(c)

(* A deadline is given when a case opens, or to one that is not closed.       *)
LEMMA DeadlineStep ==
    ASSUME TypeOK, [Next]_vars, NEW d \in Cases, isClosed(state[d])
    PROVE  deadline'[d] = deadline[d]
<1>1. ASSUME NEW c \in Cases, openCase(c)
      PROVE  deadline'[d] = deadline[d]
  BY <1>1 DEF openCase, isClosed, CLOSED_STATES, TypeOK
<1>2. ASSUME NEW u \in Users, NEW c \in Cases, openManualCase(u, c)
      PROVE  deadline'[d] = deadline[d]
  BY <1>2 DEF openManualCase, isClosed, CLOSED_STATES, TypeOK
<1>3. ASSUME NEW u \in Users, NEW c \in Cases, setDisputeDeadline(u, c)
      PROVE  deadline'[d] = deadline[d]
  BY <1>3 DEF setDisputeDeadline, mayTakeDeadline, TypeOK
<1>4. ASSUME Opening
      PROVE  deadline'[d] = deadline[d]
  BY <1>1, <1>2, <1>4 DEF Opening, linkNotice, transitionCase, jobDies
<1>5. ASSUME Documents
      PROVE  deadline'[d] = deadline[d]
  BY <1>3, <1>5 DEF Documents, attachEvidence
<1>6. ASSUME Deciding
      PROVE  UNCHANGED deadline
  BY <1>6 DEF Deciding, recordHumanDecision, beginDecline, declineCase, declineRefused, caseVars
<1>7. ASSUME Assembling
      PROVE  UNCHANGED deadline
  BY <1>7 DEF Assembling, readTerms, beginAssembly, assemblePacket, handBackPacket,
     assemblyEnds, caseVars
<1>8. ASSUME Filing \/ Removing
      PROVE  UNCHANGED deadline
  BY <1>8 DEF Filing, Removing, approve, recordSubmission, recordOutcome, removeCases, caseVars
<1>9. CASE UNCHANGED vars
  BY <1>9 DEF vars, caseVars
<1>10. QED
  BY <1>4, <1>5, <1>6, <1>7, <1>8, <1>9 DEF Next

(* Every handler that writes a row asks, with the case locked, for a state    *)
(* that is not closed.                                                        *)
LEMMA ClosedStep ==
    ASSUME TypeOK, [Next]_vars
    PROVE  NoWorkOnClosed
<1> SUFFICES ASSUME NEW d \in Cases, isClosed(state[d])
             PROVE  /\ preparer'[d] = preparer[d]
                    /\ declined'[d] = declined[d]
                    /\ packets'[d] = packets[d]
                    /\ {a \in approvals' : a.case = d} = approvalsOf(d)
                    /\ {s \in submissions' : s.case = d} = submissionsOf(d)
  BY DeadlineStep DEF NoWorkOnClosed
<1> DEFINE Kept == /\ preparer'[d] = preparer[d]
                   /\ declined'[d] = declined[d]
                   /\ packets'[d] = packets[d]
                   /\ {a \in approvals' : a.case = d} = approvalsOf(d)
                   /\ {s \in submissions' : s.case = d} = submissionsOf(d)
<1> USE DEF isClosed, CLOSED_STATES, approvalsOf, submissionsOf
<1>1. ASSUME UNCHANGED <<preparer, declined, packets, approvals, submissions>>
      PROVE  Kept
  BY <1>1
<1>2. ASSUME NEW c \in Cases, openCase(c) \/ linkNotice(c) \/ transitionCase(c) \/ jobDies(c)
      PROVE  Kept
  BY <1>1, <1>2 DEF openCase, linkNotice, transitionCase, jobDies, workVars
<1>3. ASSUME NEW q \in declining, declineCase(q)
      PROVE  Kept
  BY <1>3 DEF declineCase, mayDecline, DECLINABLE_STATES, TypeOK
<1>4. ASSUME NEW q \in assembling, assemblePacket(q)
      PROVE  Kept
  BY <1>4 DEF assemblePacket, mayAssemble, TypeOK
<1>5. ASSUME NEW u \in Users, NEW c \in Cases, openManualCase(u, c)
      PROVE  Kept
  BY <1>1, <1>5 DEF openManualCase, workVars
<1>6. ASSUME NEW u \in Users, NEW c \in Cases, recordHumanDecision(u, c)
      PROVE  Kept
  BY <1>6 DEF recordHumanDecision, mayDecide, TypeOK
<1>7. ASSUME NEW u \in Users, NEW c \in Cases,
             NEW i \in DOMAIN packets[c], NEW w \in BOOLEAN, approve(u, c, i, w)
      PROVE  Kept
  <2>1. d # c
    BY <1>7 DEF approve
  <2>a. approvals' = approvals \cup
           {[case |-> c, by |-> u, packet_hash |-> packets[c][i].content]}
    BY <1>7 DEF approve
  <2>2. {a \in approvals' : a.case = d} = approvalsOf(d)
    BY <2>1, <2>a
  <2>3. QED
    BY <1>7, <2>2 DEF approve
<1>8. ASSUME NEW u \in Users, NEW c \in Cases, NEW i \in DOMAIN packets[c],
             NEW a \in approvals, NEW ch \in Channels, recordSubmission(u, c, i, a, ch)
      PROVE  Kept
  <2>1. d # c
    BY <1>8 DEF recordSubmission, mayFile
  <2>2. {s \in submissions' : s.case = d} = submissionsOf(d)
    BY <1>8, <2>1 DEF recordSubmission
  <2>3. QED
    BY <1>8, <2>2 DEF recordSubmission
<1>9. ASSUME NEW u \in Users, NEW c \in Cases,
             NEW outcome \in OUTCOMES, NEW cents \in 0 .. Amount[c],
             recordOutcome(u, c, outcome, cents)
      PROVE  Kept
  BY <1>1, <1>9 DEF recordOutcome
<1>10. ASSUME NEW u \in Users, NEW batch \in SUBSET Cases, removeCases(u, batch)
      PROVE  Kept
  BY <1>1, <1>10 DEF removeCases, workVars
<1>11. CASE UNCHANGED control
  BY <1>1, <1>11 DEF control
<1>12. QED
  BY QuietOrNot, <1>2, <1>3, <1>4, <1>5, <1>6, <1>7, <1>8, <1>9, <1>10, <1>11

(* No decision, decline, packet, approval, filing or deadline is written on a *)
(* closed case, not even by a request that began while it was open.           *)
THEOREM ClosedIsClosed == Spec => ClosedTakesNoWork
<1>1. TypeOK /\ [Next]_vars => [NoWorkOnClosed]_vars
  BY ClosedStep
<1>2. QED
  BY <1>1, TypeCorrect, PTL DEF Spec, ClosedTakesNoWork, NoWorkOnClosed

-----------------------------------------------------------------------------
(* An edge of the table is a legal move.                                      *)
LEMMA EdgeTaken ==
    ASSUME NEW from, NEW to, NEW trigger, Edge(from, to, trigger) \in TRANSITIONS
    PROVE  canTransition(from, to)
<1>1. Edge(from, to, trigger).from = from /\ Edge(from, to, trigger).to = to
  BY DEF Edge
<1>2. Edge(from, to, trigger) \in transitionsFrom(from)
  BY <1>1 DEF transitionsFrom
<1>3. QED
  BY <1>1, <1>2 DEF canTransition

(* The edges of the table that the handlers take.                             *)
LEMMA EdgesTaken ==
    /\ canTransition("discovered", "classified")
    /\ canTransition("classified", "analyst_review")
    /\ canTransition("analyst_review", "awaiting_approval")
    /\ canTransition("awaiting_approval", "submitted")
    /\ \A s \in OUTCOMES : canTransition("submitted", s)
    /\ \A s \in MERGEABLE_STATES : /\ canTransition(s, "removed")
                                   /\ canTransition(s, "merged")
                                   /\ canTransition("merged", s)
<1>1. canTransition("discovered", "classified")
  <2>1. Edge("discovered", "classified", "document.classified") \in TRANSITIONS
    BY DEF TRANSITIONS
  <2>2. QED
    BY <2>1, EdgeTaken
<1>2. canTransition("classified", "analyst_review")
  <2>1. Edge("classified", "analyst_review", "decision.recorded") \in TRANSITIONS
    BY DEF TRANSITIONS
  <2>2. QED
    BY <2>1, EdgeTaken
<1>3. canTransition("analyst_review", "awaiting_approval")
  <2>1. Edge("analyst_review", "awaiting_approval", "packet.assembled") \in TRANSITIONS
    BY DEF TRANSITIONS
  <2>2. QED
    BY <2>1, EdgeTaken
<1>4. canTransition("awaiting_approval", "submitted")
  <2>1. Edge("awaiting_approval", "submitted", "submission.recorded") \in TRANSITIONS
    BY DEF TRANSITIONS
  <2>2. QED
    BY <2>1, EdgeTaken
<1>5. ASSUME NEW s \in OUTCOMES PROVE canTransition("submitted", s)
  <2>1. Edge("submitted", s, "outcome.recorded") \in TRANSITIONS
    BY DEF TRANSITIONS
  <2>2. QED
    BY <2>1, EdgeTaken
<1>6. ASSUME NEW s \in MERGEABLE_STATES PROVE canTransition(s, "removed")
  <2>1. Edge(s, "removed", "case.removed") \in TRANSITIONS
    BY DEF TRANSITIONS
  <2>2. QED
    BY <2>1, EdgeTaken
<1>7. ASSUME NEW s \in MERGEABLE_STATES PROVE canTransition(s, "merged")
  <2>1. Edge(s, "merged", "case.merged_into") \in TRANSITIONS
    BY DEF TRANSITIONS
  <2>2. QED
    BY <2>1, EdgeTaken
<1>8. ASSUME NEW s \in MERGEABLE_STATES PROVE canTransition("merged", s)
  <2>1. Edge("merged", s, "case.merge_undone") \in TRANSITIONS
    BY DEF TRANSITIONS
  <2>2. QED
    BY <2>1, EdgeTaken
<1>9. QED
  BY <1>1, <1>2, <1>3, <1>4, <1>5, <1>6, <1>7, <1>8

(* CaseLifecycle's table is the one the workflow is written against.          *)
LEMMA SameTable ==
    /\ Lifecycle!TRANSITIONS = TRANSITIONS
    /\ \A f, t : canTransition(f, t) => Lifecycle!canTransition(f, t)
<1>1. Lifecycle!TRANSITIONS = TRANSITIONS
  BY DEF TRANSITIONS, Edge, Lifecycle!TRANSITIONS, Lifecycle!Edge, Lifecycle!OUTCOMES,
     Lifecycle!MERGEABLE_STATES
<1>2. QED
  BY <1>1 DEF canTransition, transitionsFrom, Lifecycle!canTransition, Lifecycle!transitionsFrom

(* What CaseLifecycle's Next asks of one case. *)
Moves(c) == state'[c] # state[c] => Lifecycle!MayMove(state[c], state'[c])

(* Every step of the workflow moves every case along an edge, or not at all.  *)
LEMMA MoveStep ==
    ASSUME TypeOK, OpeningState, [Next]_vars, NEW d \in Cases
    PROVE  Moves(d)
<1>0. /\ state \in [Cases -> CASE_STATES \cup {Unopened}]
      /\ \A f, t : canTransition(f, t) => Lifecycle!MayMove(f, t)
      /\ \A t \in {"discovered", "classified"} : Lifecycle!MayMove(Unopened, t)
  BY SameTable DEF TypeOK, Lifecycle!MayMove, Lifecycle!Unopened, Lifecycle!INITIAL_STATE
<1>1. ASSUME NEW c \in Cases, openCase(c)
      PROVE  Moves(d)
  BY <1>0, <1>1 DEF openCase, Moves
<1>2. ASSUME NEW c \in Cases, linkNotice(c) \/ jobDies(c)
      PROVE  Moves(d)
  BY <1>2 DEF linkNotice, jobDies, Moves
<1>3. ASSUME NEW c \in Cases, transitionCase(c)
      PROVE  Moves(d)
  BY <1>0, <1>3, EdgesTaken DEF transitionCase, updateAdmitted, OpeningState, Moves
<1>4. ASSUME NEW u \in Users, NEW c \in Cases, openManualCase(u, c)
      PROVE  Moves(d)
  BY <1>0, <1>4 DEF openManualCase, Moves
<1>5. ASSUME NEW u \in Users, NEW c \in Cases, recordHumanDecision(u, c)
      PROVE  Moves(d)
  BY <1>0, <1>5, EdgesTaken DEF recordHumanDecision, mayDecide, Moves
<1>6. ASSUME NEW q \in declining, declineCase(q)
      PROVE  Moves(d)
  BY <1>6 DEF declineCase, caseVars, Moves
<1>7. ASSUME NEW q \in assembling, assemblePacket(q)
      PROVE  Moves(d)
  BY <1>0, <1>7, EdgesTaken DEF assemblePacket, mayAssemble, Moves
<1>8. ASSUME NEW u \in Users, NEW c \in Cases,
             NEW i \in DOMAIN packets[c], NEW w \in BOOLEAN, approve(u, c, i, w)
      PROVE  Moves(d)
  BY <1>8 DEF approve, caseVars, Moves
<1>9. ASSUME NEW u \in Users, NEW c \in Cases, NEW i \in DOMAIN packets[c],
             NEW a \in approvals, NEW ch \in Channels, recordSubmission(u, c, i, a, ch)
      PROVE  Moves(d)
  BY <1>0, <1>9, EdgesTaken DEF recordSubmission, mayFile, Moves
<1>10. ASSUME NEW u \in Users, NEW c \in Cases,
             NEW outcome \in OUTCOMES, NEW cents \in 0 .. Amount[c],
             recordOutcome(u, c, outcome, cents)
      PROVE  Moves(d)
  BY <1>0, <1>10, EdgesTaken DEF recordOutcome, Moves
<1>11. ASSUME NEW u \in Users, NEW batch \in SUBSET Cases, removeCases(u, batch)
      PROVE  Moves(d)
  BY <1>0, <1>11, EdgesTaken DEF removeCases, allRemovable, REMOVABLE_STATES, Moves
<1>12. CASE UNCHANGED control
  BY <1>12 DEF control, Moves
<1>13. QED
  BY QuietOrNot, <1>1, <1>2, <1>3, <1>4, <1>5, <1>6, <1>7, <1>8, <1>9, <1>10, <1>11, <1>12

(* A state of the right type whose cases all moved along edges is a step of   *)
(* CaseLifecycle.                                                             *)
LEMMA MovesAreLifecycle ==
    ASSUME TypeOK', \A c \in Cases : Moves(c)
    PROVE  [Lifecycle!Next]_state
<1>1. state' = [c \in Cases |-> state'[c]]
  BY DEF TypeOK
<1>2. QED
  BY <1>1 DEF Moves, Lifecycle!Next

(* CaseWorkflow implements CaseLifecycle: it opens cases where the table      *)
(* starts and moves them along its edges only.                                *)
THEOREM WorkflowFollowsTheTable == Spec => FollowsTheTable
<1>1. Init => Lifecycle!Init
  BY DEF Init, Lifecycle!Init, Lifecycle!Unopened
<1>2. IInv /\ [Next]_vars => [Lifecycle!Next]_state
  BY InvStep, MoveStep, MovesAreLifecycle DEF IInv
<1>3. QED
  BY <1>1, <1>2, Invariance, PTL DEF Spec, FollowsTheTable, Lifecycle!Spec

(***************************************************************************)
(* The merges: deductions.state is a projection of deduction_merges,       *)
(* merges do not chain, and a filed case is never the one that disappears. *)
(*                                                                         *)
(* The projection is not inductive by itself: a merge row counts only      *)
(* while no unmerge row names its pair, so a new row must not find an old  *)
(* unmerge row of its pair waiting for it (UnmergesFollow), and an undo    *)
(* withdraws the verdict of its pair, which no other standing merge may    *)
(* still need (no chains).                                                 *)
(*                                                                         *)
(* DupInv then carries the workflow's own invariants through the merges:   *)
(* a merged case keeps its rows, and the state an undo restores is one     *)
(* those rows still fit.                                                   *)
(***************************************************************************)

(* An unmerge row takes back a merge row that is there.                     *)
UnmergesFollow ==
    \A v \in unmerges : \E m \in merges : m.merged = v.merged /\ m.surviving = v.surviving

(* The inductive invariant. *)
MergeInv ==
    /\ DupTypeOK
    /\ UnmergesFollow
    /\ MergedIsAProjection
    /\ MergesDoNotChain
    /\ FiledIsNeverMergedAway

-----------------------------------------------------------------------------
(* What the workflow does beside the merges is a step of CaseWorkflow.      *)
LEMMA WorkingIsNext ==
    ASSUME Working
    PROVE  Next /\ UNCHANGED dupVars
BY DEF Working, OpeningInOrder, removeUnmergedCases, Next, Removing

(* No step of the workflow moves a case into or out of 'merged', and none   *)
(* files a merged case.                                                     *)
LEMMA WorkflowLeavesMerged ==
    ASSUME TypeOK, [Next]_vars
    PROVE  /\ \A c \in Cases : state'[c] = "merged" <=> state[c] = "merged"
           /\ \A s \in submissions' \ submissions : state'[s.case] # "merged"
<1> DEFINE Kept == /\ \A c \in Cases : state'[c] = "merged" <=> state[c] = "merged"
                   /\ \A s \in submissions' \ submissions : state'[s.case] # "merged"
<1>0. state \in [Cases -> CASE_STATES \cup {Unopened}]
  BY DEF TypeOK
<1>1. CASE UNCHANGED control
  BY <1>1 DEF control
<1>2. ASSUME NEW c \in Cases, openCase(c) \/ linkNotice(c) \/ transitionCase(c) \/ jobDies(c)
      PROVE  Kept
  BY <1>0, <1>2 DEF openCase, linkNotice, transitionCase, updateAdmitted, jobDies, workVars
<1>3. ASSUME NEW q \in declining, declineCase(q)
      PROVE  Kept
  BY <1>3 DEF declineCase, caseVars
<1>4. ASSUME NEW q \in assembling, assemblePacket(q)
      PROVE  Kept
  <2>1. q.case \in Cases
    BY DEF TypeOK, AssemblyRequests
  <2>2. QED
    BY <1>0, <1>4, <2>1 DEF assemblePacket, mayAssemble
<1>5. ASSUME NEW u \in Users, NEW c \in Cases, openManualCase(u, c) \/ recordHumanDecision(u, c)
      PROVE  Kept
  BY <1>0, <1>5 DEF openManualCase, recordHumanDecision, mayDecide, workVars
<1>6. ASSUME NEW u \in Users, NEW c \in Cases, NEW i \in DOMAIN packets[c], NEW w \in BOOLEAN,
             approve(u, c, i, w)
      PROVE  Kept
  BY <1>6 DEF approve, caseVars
<1>7. ASSUME NEW u \in Users, NEW c \in Cases, NEW i \in DOMAIN packets[c], NEW a \in approvals,
             NEW ch \in Channels, recordSubmission(u, c, i, a, ch)
      PROVE  Kept
  BY <1>0, <1>7 DEF recordSubmission, mayFile
<1>8. ASSUME NEW u \in Users, NEW c \in Cases, NEW outcome \in OUTCOMES, NEW cents \in 0 .. Amount[c],
             recordOutcome(u, c, outcome, cents)
      PROVE  Kept
  BY <1>0, <1>8 DEF recordOutcome
<1>9. ASSUME NEW u \in Users, NEW batch \in SUBSET Cases, removeCases(u, batch)
      PROVE  Kept
  BY <1>0, <1>9 DEF removeCases, allRemovable, REMOVABLE_STATES, workVars
<1>10. QED
  BY <1>1, <1>2, <1>3, <1>4, <1>5, <1>6, <1>7, <1>8, <1>9, QuietOrNot

(* A step of the workflow keeps the invariant.                              *)
LEMMA WorkingKeeps ==
    ASSUME MergeInv, Working \/ UNCHANGED allVars
    PROVE  MergeInv'
<1>1. [Next]_vars /\ UNCHANGED dupVars
  BY WorkingIsNext DEF allVars
<1>2. TypeOK'
  BY <1>1, TypeStep DEF MergeInv, DupTypeOK
<1>3. /\ \A c \in Cases : state'[c] = "merged" <=> state[c] = "merged"
      /\ \A s \in submissions' \ submissions : state'[s.case] # "merged"
  BY <1>1, WorkflowLeavesMerged DEF MergeInv, DupTypeOK
<1>4. mergesCurrent' = mergesCurrent
  BY <1>1 DEF dupVars, mergesCurrent
<1>5. \A s \in submissions : s.case \in Cases
  BY DEF MergeInv, DupTypeOK, TypeOK, SubmissionRows
<1>6. DupTypeOK' /\ UnmergesFollow'
  BY <1>1, <1>2 DEF MergeInv, DupTypeOK, UnmergesFollow, dupVars
<1>7. MergedIsAProjection' /\ MergesDoNotChain'
  BY <1>1, <1>3, <1>4 DEF MergeInv, MergedIsAProjection, MergesDoNotChain, dupVars
<1>8. FiledIsNeverMergedAway'
  BY <1>1, <1>3, <1>5 DEF MergeInv, FiledIsNeverMergedAway, dupVars
<1>9. QED
  BY <1>6, <1>7, <1>8 DEF MergeInv

(* The standing merges once a case is merged: the old ones and the new one. *)
LEMMA CurrentAfterMerge ==
    ASSUME MergeInv, NEW a \in Cases, NEW b \in Cases, mergeInto(a, b), unmerges' = unmerges
    PROVE  /\ mergesCurrent' = mergesCurrent \cup
                {[merged |-> b, surviving |-> a, state_before |-> state[b]]}
           /\ a # b
           /\ [merged |-> b, surviving |-> a, state_before |-> state[b]] \in MergeRows
<1> DEFINE row == [merged |-> b, surviving |-> a, state_before |-> state[b]]
<1>1. merges' = merges \cup {row}
  BY DEF mergeInto
<1>2. [merged |-> b, surviving |-> a] \notin unmerges
  BY DEF mergeInto, mergeable, MergeInv, UnmergesFollow
<1>3. mergesCurrent' = mergesCurrent \cup {row}
  BY <1>1, <1>2 DEF mergesCurrent
<1>4. a # b
  <2>1. Age[a] \in Nat
    BY AgeAssumption
  <2>2. merge_work_rank(a) \in {0, 1, 2}
    BY DEF merge_work_rank
  <2>3. QED
    BY <2>1, <2>2 DEF mergeInto, mergeable, survives
<1>5. row \in MergeRows
  BY DEF mergeInto, mergeable, MergeRows
<1>6. QED
  BY <1>3, <1>4, <1>5

(* A pair of different cases is a pair.                                     *)
LEMMA PairOf ==
    ASSUME NEW a \in Cases, NEW b \in Cases, a # b
    PROVE  {a, b} \in Pairs
BY DEF Pairs

(* A merge keeps the invariant when the verdict of its pair is "same".      *)
LEMMA MergeKeeps ==
    ASSUME MergeInv, NEW a \in Cases, NEW b \in Cases, mergeInto(a, b),
           verdict' = [verdict EXCEPT ![{a, b}] = "same"],
           UNCHANGED <<job, notice, evidence, deadline, workVars, requestVars,
                       named, unmerges, undoing, books>>
    PROVE  MergeInv'
<1> DEFINE row == [merged |-> b, surviving |-> a, state_before |-> state[b]]
<1>1. /\ mergesCurrent' = mergesCurrent \cup {row}
      /\ a # b
      /\ row \in MergeRows
      /\ row.merged = b /\ row.surviving = a
  BY CurrentAfterMerge
<1> HIDE DEF row
<1>2. {a, b} \in Pairs
  BY <1>1, PairOf
<1>3. \A m \in mergesCurrent :
        /\ m.merged \in Cases /\ m.surviving \in Cases /\ m.merged # m.surviving
        /\ m.merged \notin {a, b} /\ m.surviving # b /\ {m.merged, m.surviving} # {a, b}
        /\ {m.merged, m.surviving} \in Pairs
  <2>1. \A m \in mergesCurrent : m \in merges /\ m.merged \in Cases /\ m.surviving \in Cases
    BY DEF mergesCurrent, MergeInv, DupTypeOK, MergeRows
  <2>2. \A m \in mergesCurrent : m.merged # m.surviving
    BY DEF MergeInv, MergesDoNotChain
  <2>3. QED
    BY <2>1, <2>2, PairOf DEF mergeInto, mergeable
<1>4. state' = [state EXCEPT ![b] = "merged"] /\ state \in [Cases -> CASE_STATES \cup {Unopened}]
  BY DEF mergeInto, MergeInv, DupTypeOK, TypeOK
<1>5. verdict \in [Pairs -> {"none", "same", "different"}]
  BY DEF MergeInv, DupTypeOK
<1>6. DupTypeOK'
  <2>1. TypeOK'
    BY <1>4 DEF MergeInv, DupTypeOK, TypeOK, workVars, requestVars
  <2>2. merges' \in SUBSET MergeRows
    BY <1>1 DEF row, mergeInto, MergeInv, DupTypeOK
  <2>3. verdict' \in [Pairs -> {"none", "same", "different"}]
    BY <1>5
  <2>4. QED
    BY <2>1, <2>2, <2>3 DEF MergeInv, DupTypeOK
<1>7. UnmergesFollow'
  BY DEF mergeInto, MergeInv, UnmergesFollow
<1>8. MergedIsAProjection'
  <2>1. \A c \in Cases : state'[c] = "merged" <=> \E m \in mergesCurrent' : m.merged = c
    BY <1>1, <1>4 DEF MergeInv, MergedIsAProjection
  <2>2. \A m, n \in mergesCurrent' : m.merged = n.merged => m = n
    BY <1>1, <1>3 DEF MergeInv, MergedIsAProjection
  <2>3. \A m \in mergesCurrent' : verdict'[{m.merged, m.surviving}] = "same"
    <3>1. verdict'[{row.merged, row.surviving}] = "same"
      <4>1. {b, a} = {a, b}
        OBVIOUS
      <4>2. QED
        BY <1>1, <1>2, <1>5, <4>1
    <3>2. ASSUME NEW m \in mergesCurrent PROVE verdict'[{m.merged, m.surviving}] = "same"
      BY <1>2, <1>3, <1>5 DEF MergeInv, MergedIsAProjection
    <3>3. QED
      BY <1>1, <3>1, <3>2
  <2>4. QED
    BY <2>1, <2>2, <2>3 DEF MergedIsAProjection
<1>9. MergesDoNotChain'
  BY <1>1, <1>3 DEF MergeInv, MergesDoNotChain
<1>10. FiledIsNeverMergedAway'
  <2>1. /\ \A s \in submissions : s.case # b
        /\ books[b] # "posted"
    BY DEF mergeInto, mergeable, merge_work_rank, submissionsOf
  <2>2. submissions' = submissions /\ \A s \in submissions : s.case \in Cases
    BY DEF workVars, MergeInv, DupTypeOK, TypeOK, SubmissionRows
  <2>3. QED
    BY <1>4, <2>1, <2>2 DEF MergeInv, FiledIsNeverMergedAway
<1>11. QED
  BY <1>6, <1>7, <1>8, <1>9, <1>10 DEF MergeInv

(* Naming a pair, answering it and acting on the answer keep the invariant. *)
LEMMA AnsweringKeeps ==
    ASSUME MergeInv, Answering
    PROVE  MergeInv'
<1>0. verdict \in [Pairs -> {"none", "same", "different"}]
  BY DEF MergeInv, DupTypeOK
<1>1. PICK u \in Users, a \in Cases, b \in Cases :
        \/ namePossibleDuplicate(a, b)
        \/ \E answer \in {"same", "different"}, merge \in BOOLEAN :
              recordDuplicateVerdict(u, a, b, answer, merge)
        \/ mergeConfirmedDuplicate(u, a, b)
  BY DEF Answering
<1>2. CASE namePossibleDuplicate(a, b)
  <2>1. {a, b} \in Pairs
    BY <1>2, PairOf DEF namePossibleDuplicate
  <2>2. named' \in SUBSET Pairs /\ UNCHANGED <<vars, verdict, merges, unmerges, undoing, books>>
    BY <1>2, <2>1 DEF namePossibleDuplicate, MergeInv, DupTypeOK
  <2>3. TypeOK'
    BY <2>2, TypeStep DEF MergeInv, DupTypeOK
  <2>4. mergesCurrent' = mergesCurrent /\ state' = state /\ submissions' = submissions
    BY <2>2 DEF mergesCurrent, vars, caseVars, workVars
  <2>5. QED
    BY <2>2, <2>3, <2>4 DEF MergeInv, DupTypeOK, UnmergesFollow, MergedIsAProjection,
       MergesDoNotChain, FiledIsNeverMergedAway
<1>3. ASSUME NEW answer \in {"same", "different"}, NEW merge \in BOOLEAN,
             recordDuplicateVerdict(u, a, b, answer, merge)
      PROVE  MergeInv'
  <2>1. {a, b} \in Pairs /\ {b, a} = {a, b}
    BY <1>3 DEF recordDuplicateVerdict, MergeInv, DupTypeOK
  <2>2. CASE answer = "same" /\ merge /\ mergeLockedPair(a, b)
    <3>1. CASE mergeInto(a, b)
      BY <1>3, <2>2, <3>1, MergeKeeps DEF recordDuplicateVerdict
    <3>2. CASE mergeInto(b, a)
      BY <1>3, <2>1, <2>2, <3>2, MergeKeeps DEF recordDuplicateVerdict
    <3>3. QED
      BY <2>2, <3>1, <3>2 DEF mergeLockedPair
  <2>3. CASE UNCHANGED <<state, merges>>
    <3>1. UNCHANGED vars /\ UNCHANGED <<named, merges, unmerges, undoing, books>>
      BY <1>3, <2>3 DEF recordDuplicateVerdict, vars, caseVars
    <3>2. TypeOK'
      BY <3>1, TypeStep DEF MergeInv, DupTypeOK
    <3>3. mergesCurrent' = mergesCurrent /\ state' = state /\ submissions' = submissions
      BY <3>1 DEF mergesCurrent, vars, caseVars, workVars
    <3>4. verdict' = [verdict EXCEPT ![{a, b}] = answer] /\ verdict[{a, b}] = "none"
      BY <1>3 DEF recordDuplicateVerdict
    <3>5. verdict' \in [Pairs -> {"none", "same", "different"}]
      BY <1>0, <3>4
    <3>6. \A m \in mergesCurrent : verdict'[{m.merged, m.surviving}] = "same"
      <4>1. SUFFICES ASSUME NEW m \in mergesCurrent
                     PROVE  verdict'[{m.merged, m.surviving}] = "same"
        OBVIOUS
      <4>2. m.merged \in Cases /\ m.surviving \in Cases /\ m.merged # m.surviving
        BY DEF mergesCurrent, MergeInv, DupTypeOK, MergeRows, MergesDoNotChain
      <4>3. {m.merged, m.surviving} \in Pairs /\ verdict[{m.merged, m.surviving}] = "same"
        BY <4>2, PairOf DEF MergeInv, MergedIsAProjection
      <4>4. QED
        BY <1>0, <3>4, <4>3
    <3>7. QED
      BY <3>1, <3>2, <3>3, <3>5, <3>6 DEF MergeInv, DupTypeOK, UnmergesFollow,
         MergedIsAProjection, MergesDoNotChain, FiledIsNeverMergedAway
  <2>4. QED
    BY <1>3, <2>2, <2>3 DEF recordDuplicateVerdict
<1>4. CASE mergeConfirmedDuplicate(u, a, b)
  <2>1. {a, b} \in Pairs /\ {b, a} = {a, b} /\ verdict' = [verdict EXCEPT ![{a, b}] = "same"]
    BY <1>0, <1>4 DEF mergeConfirmedDuplicate
  <2>2. CASE mergeInto(a, b)
    BY <1>4, <2>1, <2>2, MergeKeeps DEF mergeConfirmedDuplicate
  <2>3. CASE mergeInto(b, a)
    BY <1>4, <2>1, <2>3, MergeKeeps DEF mergeConfirmedDuplicate
  <2>4. QED
    BY <1>4, <2>2, <2>3 DEF mergeConfirmedDuplicate, mergeLockedPair
<1>5. QED
  BY <1>1, <1>2, <1>3, <1>4

(* Asking for an undo, undoing and being refused keep the invariant.        *)
LEMMA UndoingKeeps ==
    ASSUME MergeInv, Undoing
    PROVE  MergeInv'
<1>0. \A m \in mergesCurrent :
        /\ m \in MergeRows /\ m.merged \in Cases /\ m.surviving \in Cases
        /\ m.merged # m.surviving /\ {m.merged, m.surviving} \in Pairs
  <2>1. \A m \in mergesCurrent :
          m \in MergeRows /\ m.merged \in Cases /\ m.surviving \in Cases /\ m.merged # m.surviving
    BY DEF mergesCurrent, MergeInv, DupTypeOK, MergeRows, MergesDoNotChain
  <2>2. QED
    BY <2>1, PairOf
<1>1. ASSUME NEW u \in Users, NEW m \in mergesCurrent, beginUndo(u, m)
      PROVE  MergeInv'
  <2>1. undoing' \in SUBSET UndoRequests
    <3>1. [merged |-> m.merged, surviving |-> m.surviving, by |-> u] \in UndoRequests
      BY <1>0 DEF UndoRequests
    <3>2. undoing \in SUBSET UndoRequests
      BY DEF MergeInv, DupTypeOK
    <3>3. QED
      BY <1>1, <3>1, <3>2 DEF beginUndo
  <2>2. UNCHANGED <<vars, named, verdict, merges, unmerges, books>>
    BY <1>1 DEF beginUndo
  <2>3. TypeOK'
    BY <2>2, TypeStep DEF MergeInv, DupTypeOK
  <2>4. mergesCurrent' = mergesCurrent /\ state' = state /\ submissions' = submissions
    BY <2>2 DEF mergesCurrent, vars, caseVars, workVars
  <2>5. QED
    BY <2>1, <2>2, <2>3, <2>4 DEF MergeInv, DupTypeOK, UnmergesFollow, MergedIsAProjection,
       MergesDoNotChain, FiledIsNeverMergedAway
<1>2. ASSUME NEW q \in undoing, undoRefused(q)
      PROVE  MergeInv'
  <2>1. undoing' \in SUBSET UndoRequests
    BY <1>2 DEF undoRefused, MergeInv, DupTypeOK
  <2>2. UNCHANGED <<vars, named, verdict, merges, unmerges, books>>
    BY <1>2 DEF undoRefused
  <2>3. TypeOK'
    BY <2>2, TypeStep DEF MergeInv, DupTypeOK
  <2>4. mergesCurrent' = mergesCurrent /\ state' = state /\ submissions' = submissions
    BY <2>2 DEF mergesCurrent, vars, caseVars, workVars
  <2>5. QED
    BY <2>1, <2>2, <2>3, <2>4 DEF MergeInv, DupTypeOK, UnmergesFollow, MergedIsAProjection,
       MergesDoNotChain, FiledIsNeverMergedAway
<1>3. ASSUME NEW q \in undoing, undoMerge(q)
      PROVE  MergeInv'
  <2>1. PICK m \in standing(q) : state' = [state EXCEPT ![q.merged] = m.state_before]
    BY <1>3 DEF undoMerge, stateRestored
  <2>2. m \in mergesCurrent /\ m.merged = q.merged /\ m.surviving = q.surviving
    BY DEF standing
  <2>3. /\ unmerges' = unmerges \cup {[merged |-> m.merged, surviving |-> m.surviving]}
        /\ verdict' = [verdict EXCEPT ![{m.merged, m.surviving}] = "none"]
        /\ undoing' = undoing \ {q}
        /\ UNCHANGED <<job, notice, evidence, deadline, workVars, requestVars, named,
                       merges, books>>
    BY <1>3, <2>2 DEF undoMerge
  <2>4. m.merged \in Cases /\ m.surviving \in Cases /\ m.state_before \in MERGEABLE_STATES
    BY <1>0, <2>2 DEF MergeRows
  <2>5. mergesCurrent' = mergesCurrent \ {m}
    <3>1. mergesCurrent' = {n \in mergesCurrent :
                              ~(n.merged = m.merged /\ n.surviving = m.surviving)}
      BY <2>3 DEF mergesCurrent
    <3>2. \A n \in mergesCurrent : n.merged = m.merged => n = m
      BY <2>2 DEF MergeInv, MergedIsAProjection
    <3>3. QED
      BY <2>2, <3>1, <3>2
  <2>6. /\ state \in [Cases -> CASE_STATES \cup {Unopened}]
        /\ state' = [state EXCEPT ![m.merged] = m.state_before]
    BY <2>1, <2>2 DEF MergeInv, DupTypeOK, TypeOK
  <2>7. verdict \in [Pairs -> {"none", "same", "different"}]
    BY DEF MergeInv, DupTypeOK
  <2>8. DupTypeOK'
    <3>1. TypeOK'
      BY <2>3, <2>4, <2>6 DEF MergeInv, DupTypeOK, TypeOK, workVars, requestVars
    <3>2. unmerges' \in SUBSET UnmergeRows
      BY <2>3, <2>4 DEF MergeInv, DupTypeOK, UnmergeRows
    <3>3. verdict' \in [Pairs -> {"none", "same", "different"}]
      BY <2>3, <2>7
    <3>4. QED
      BY <2>3, <3>1, <3>2, <3>3 DEF MergeInv, DupTypeOK
  <2>9. UnmergesFollow'
    BY <2>2, <2>3 DEF mergesCurrent, MergeInv, UnmergesFollow
  <2>10. MergesDoNotChain'
    BY <2>5 DEF MergeInv, MergesDoNotChain
  <2>11. MergedIsAProjection'
    <3>1. \A c \in Cases : state'[c] = "merged" <=> \E n \in mergesCurrent' : n.merged = c
      BY <2>2, <2>4, <2>5, <2>6 DEF MergeInv, MergedIsAProjection
    <3>2. \A n, o \in mergesCurrent' : n.merged = o.merged => n = o
      BY <2>5 DEF MergeInv, MergedIsAProjection
    <3>3. \A n \in mergesCurrent' : verdict'[{n.merged, n.surviving}] = "same"
      <4>1. SUFFICES ASSUME NEW n \in mergesCurrent, n # m
                     PROVE  verdict'[{n.merged, n.surviving}] = "same"
        BY <2>5
      <4>2. n.merged # m.merged /\ n.merged # m.surviving
        BY <2>2, <4>1 DEF MergeInv, MergedIsAProjection, MergesDoNotChain
      <4>3. {n.merged, n.surviving} # {m.merged, m.surviving}
        BY <4>2
      <4>4. {n.merged, n.surviving} \in Pairs /\ verdict[{n.merged, n.surviving}] = "same"
        BY <1>0 DEF MergeInv, MergedIsAProjection
      <4>5. QED
        BY <2>3, <2>7, <4>3, <4>4
    <3>4. QED
      BY <3>1, <3>2, <3>3 DEF MergedIsAProjection
  <2>12. FiledIsNeverMergedAway'
    <3>1. submissions' = submissions /\ \A s \in submissions : s.case \in Cases
      BY <2>3 DEF workVars, MergeInv, DupTypeOK, TypeOK, SubmissionRows
    <3>2. QED
      BY <2>3, <2>4, <2>6, <3>1 DEF MergeInv, FiledIsNeverMergedAway
  <2>13. QED
    BY <2>8, <2>9, <2>10, <2>11, <2>12 DEF MergeInv
<1>4. QED
  BY <1>1, <1>2, <1>3 DEF Undoing

(* Preparing a settlement and queueing a posting move no case, and are      *)
(* refused on one that is merged away.                                      *)
LEMMA BookingKeeps ==
    ASSUME MergeInv, Booking
    PROVE  MergeInv'
<1>1. UNCHANGED <<vars, named, verdict, merges, unmerges, undoing>>
  BY DEF Booking, prepareSettlementDecision, queueDecisionPostings
<1>2. PICK c \in Cases : /\ notMergedAway(c)
                         /\ \/ books' = [books EXCEPT ![c] = "settled"]
                            \/ books' = [books EXCEPT ![c] = "posted"]
  BY DEF Booking, prepareSettlementDecision, queueDecisionPostings
<1>3. mergesCurrent' = mergesCurrent /\ state' = state /\ submissions' = submissions
  BY <1>1 DEF mergesCurrent, vars, caseVars, workVars
<1>4. books \in [Cases -> {"none", "settled", "posted"}]
  BY DEF MergeInv, DupTypeOK
<1>5. DupTypeOK'
  <2>1. TypeOK'
    BY <1>1, TypeStep DEF MergeInv, DupTypeOK
  <2>2. books' \in [Cases -> {"none", "settled", "posted"}]
    BY <1>2, <1>4
  <2>3. QED
    BY <1>1, <2>1, <2>2 DEF MergeInv, DupTypeOK
<1>6. state[c] # "merged"
  BY <1>2 DEF notMergedAway, MergeInv, MergedIsAProjection
<1>7. FiledIsNeverMergedAway'
  BY <1>2, <1>3, <1>4, <1>6 DEF MergeInv, FiledIsNeverMergedAway
<1>8. QED
  BY <1>1, <1>3, <1>5, <1>7 DEF MergeInv, UnmergesFollow, MergedIsAProjection, MergesDoNotChain

-----------------------------------------------------------------------------
(* Before anything is named no case is merged.                              *)
LEMMA MergeInit == DupInit => MergeInv
<1> SUFFICES ASSUME DupInit PROVE MergeInv
  OBVIOUS
<1>2. DupTypeOK
  BY TypeInit DEF DupInit, DupTypeOK
<1>3. /\ mergesCurrent = {} /\ submissions = {} /\ unmerges = {}
      /\ \A c \in Cases : state[c] = "unopened"
  <2>1. mergesCurrent = {}
    BY DEF DupInit, mergesCurrent
  <2>2. QED
    BY <2>1 DEF DupInit, Init
<1>4. QED
  BY <1>2, <1>3 DEF MergeInv, UnmergesFollow, MergedIsAProjection, MergesDoNotChain,
     FiledIsNeverMergedAway

(* The conjuncts together are an invariant of naming, answering, merging,   *)
(* undoing, settling and the whole workflow beside them (migration 0032).   *)
THEOREM MergeInvariance == DupSpec => []MergeInv
<1>1. MergeInv /\ [DupNext]_allVars => MergeInv'
  BY WorkingKeeps, AnsweringKeeps, UndoingKeeps, BookingKeeps DEF DupNext
<1>2. QED
  BY <1>1, MergeInit, PTL DEF DupSpec

(* deductions.state says 'merged' exactly while a merge of the case stands  *)
(* (merged_state_is_a_projection, project_deduction_merge).                 *)
THEOREM StateProjectsMerges == DupSpec => []MergedIsAProjection
BY MergeInvariance, PTL DEF MergeInv

(* The case a duplicate was merged into is never merged away in turn        *)
(* (merge_refusal).                                                         *)
THEOREM NoChains == DupSpec => []MergesDoNotChain
BY MergeInvariance, PTL DEF MergeInv

(* A case that was filed, or has a row to be posted, is never the one that  *)
(* disappears (merge_work_rank, refuse_work_on_merged_case).                *)
THEOREM FiledSurvives == DupSpec => []FiledIsNeverMergedAway
BY MergeInvariance, PTL DEF MergeInv

-----------------------------------------------------------------------------
(* The promises of the workflow under merges and undos.  An undo puts a      *)
(* case back in the state its merge row kept, perhaps long after, so that    *)
(* state must still agree with the rows of the case: nothing may have been   *)
(* written on it while it was merged (ClosedStep).                           *)

(* The state a standing merge kept is one its case could be in now.          *)
KeptState(m) ==
    /\ preparer[m.merged] # NoUser => m.state_before \notin {"discovered", "classified"}
    /\ m.state_before \in {"analyst_review", "awaiting_approval"} => preparer[m.merged] # NoUser
    /\ m.state_before = "awaiting_approval" => packets[m.merged] # << >>
    /\ job[m.merged] \in {"opened", "linked"} => m.state_before = "discovered"
    /\ m.state_before = "analyst_review" => approvalsOf(m.merged) = {}

KeptStates == \A m \in mergesCurrent : KeptState(m)

(* The inductive invariant of the two modules together. *)
DupInv == MergeInv /\ IInv /\ KeptStates

(* What a merge and an undo leave alone. *)
elsewhere == <<job, notice, evidence, deadline, workVars, requestVars>>

(* A step is one of the workflow beside standing merges it leaves alone, or   *)
(* a merge, or an undo.                                                       *)
LEMMA StepKinds ==
    ASSUME MergeInv, [DupNext]_allVars
    PROVE  \/ [Next]_vars /\ mergesCurrent' = mergesCurrent
           \/ \E a, b \in Cases :
                 /\ mergeInto(a, b)
                 /\ mergesCurrent' = mergesCurrent \cup
                       {[merged |-> b, surviving |-> a, state_before |-> state[b]]}
                 /\ UNCHANGED elsewhere
           \/ \E m \in mergesCurrent :
                 /\ state' = [state EXCEPT ![m.merged] = m.state_before]
                 /\ mergesCurrent' = mergesCurrent \ {m}
                 /\ UNCHANGED elsewhere
<1>1. CASE Working \/ UNCHANGED allVars
  BY <1>1, WorkingIsNext DEF allVars, dupVars, mergesCurrent
<1>2. ASSUME NEW a \in Cases, NEW b \in Cases, mergeInto(a, b) \/ mergeInto(b, a),
             UNCHANGED elsewhere, unmerges' = unmerges
      PROVE  \E x, y \in Cases :
                 /\ mergeInto(x, y)
                 /\ mergesCurrent' = mergesCurrent \cup
                       {[merged |-> y, surviving |-> x, state_before |-> state[y]]}
                 /\ UNCHANGED elsewhere
  BY <1>2, CurrentAfterMerge
<1>3. ASSUME NEW u \in Users, NEW a \in Cases, NEW b \in Cases, namePossibleDuplicate(a, b)
      PROVE  [Next]_vars /\ mergesCurrent' = mergesCurrent
  BY <1>3 DEF namePossibleDuplicate, mergesCurrent
<1>4. ASSUME NEW u \in Users, NEW a \in Cases, NEW b \in Cases,
             NEW answer \in {"same", "different"}, NEW merge \in BOOLEAN,
             recordDuplicateVerdict(u, a, b, answer, merge), UNCHANGED <<state, merges>>
      PROVE  [Next]_vars /\ mergesCurrent' = mergesCurrent
  BY <1>4 DEF recordDuplicateVerdict, mergesCurrent, vars, caseVars
<1>5. CASE Answering
  BY <1>2, <1>3, <1>4, <1>5 DEF Answering, recordDuplicateVerdict, mergeConfirmedDuplicate,
     mergeLockedPair, elsewhere
<1>6. ASSUME NEW u \in Users, NEW m \in mergesCurrent, beginUndo(u, m)
      PROVE  [Next]_vars /\ mergesCurrent' = mergesCurrent
  BY <1>6 DEF beginUndo, mergesCurrent
<1>7. ASSUME NEW q \in undoing, undoRefused(q)
      PROVE  [Next]_vars /\ mergesCurrent' = mergesCurrent
  BY <1>7 DEF undoRefused, mergesCurrent
<1>8. ASSUME NEW q \in undoing, undoMerge(q)
      PROVE  \E m \in mergesCurrent :
                 /\ state' = [state EXCEPT ![m.merged] = m.state_before]
                 /\ mergesCurrent' = mergesCurrent \ {m}
                 /\ UNCHANGED elsewhere
  <2>1. PICK m \in standing(q) : state' = [state EXCEPT ![q.merged] = m.state_before]
    BY <1>8 DEF undoMerge, stateRestored
  <2>2. m \in mergesCurrent /\ m.merged = q.merged /\ m.surviving = q.surviving
    BY DEF standing
  <2>3. /\ unmerges' = unmerges \cup {[merged |-> m.merged, surviving |-> m.surviving]}
        /\ merges' = merges /\ UNCHANGED elsewhere
    BY <1>8, <2>2 DEF undoMerge, elsewhere
  <2>4. mergesCurrent' = {n \in mergesCurrent :
                            ~(n.merged = m.merged /\ n.surviving = m.surviving)}
    BY <2>3 DEF mergesCurrent
  <2>5. \A n \in mergesCurrent : n.merged = m.merged => n = m
    BY <2>2 DEF MergeInv, MergedIsAProjection
  <2>6. mergesCurrent' = mergesCurrent \ {m}
    BY <2>2, <2>4, <2>5
  <2>7. QED
    BY <2>1, <2>2, <2>3, <2>6
<1>9. CASE Undoing
  BY <1>6, <1>7, <1>8, <1>9 DEF Undoing
<1>10. CASE Booking
  BY <1>10 DEF Booking, prepareSettlementDecision, queueDecisionPostings, mergesCurrent
<1>11. QED
  BY <1>1, <1>5, <1>9, <1>10 DEF DupNext

(* No job starts opening a case that is there already.                        *)
LEMMA JobStep ==
    ASSUME TypeOK, [Next]_vars, NEW d \in Cases, state[d] # Unopened,
           job'[d] \in {"opened", "linked"}
    PROVE  job[d] \in {"opened", "linked"}
<1>1. ASSUME NEW c \in Cases, openCase(c) \/ linkNotice(c) \/ transitionCase(c) \/ jobDies(c)
      PROVE  job[d] \in {"opened", "linked"}
  BY <1>1 DEF openCase, linkNotice, transitionCase, jobDies, TypeOK
<1>2. ASSUME NEW q \in declining, declineCase(q)
      PROVE  job' = job
  BY <1>2 DEF declineCase, caseVars
<1>3. ASSUME NEW q \in assembling, assemblePacket(q)
      PROVE  job' = job
  BY <1>3 DEF assemblePacket
<1>4. ASSUME NEW u \in Users, NEW c \in Cases, openManualCase(u, c) \/ recordHumanDecision(u, c)
      PROVE  job' = job
  BY <1>4 DEF openManualCase, recordHumanDecision
<1>5. ASSUME NEW u \in Users, NEW c \in Cases,
             NEW i \in DOMAIN packets[c], NEW w \in BOOLEAN, approve(u, c, i, w)
      PROVE  job' = job
  BY <1>5 DEF approve, caseVars
<1>6. ASSUME NEW u \in Users, NEW c \in Cases, NEW i \in DOMAIN packets[c],
             NEW a \in approvals, NEW ch \in Channels, recordSubmission(u, c, i, a, ch)
      PROVE  job' = job
  BY <1>6 DEF recordSubmission
<1>7. ASSUME NEW u \in Users, NEW c \in Cases,
             NEW outcome \in OUTCOMES, NEW cents \in 0 .. Amount[c],
             recordOutcome(u, c, outcome, cents)
      PROVE  job' = job
  BY <1>7 DEF recordOutcome
<1>8. ASSUME NEW u \in Users, NEW batch \in SUBSET Cases, removeCases(u, batch)
      PROVE  job' = job
  BY <1>8 DEF removeCases
<1>9. CASE UNCHANGED control
  BY <1>9 DEF control
<1>10. QED
  BY <1>1, <1>2, <1>3, <1>4, <1>5, <1>6, <1>7, <1>8, <1>9, QuietOrNot

(* Standing merges have rows of the right type.                               *)
LEMMA CurrentType ==
    ASSUME MergeInv, NEW m \in mergesCurrent
    PROVE  /\ m.merged \in Cases /\ m.state_before \in MERGEABLE_STATES
           /\ state[m.merged] = "merged"
<1>1. m \in MergeRows
  BY DEF MergeInv, DupTypeOK, mergesCurrent
<1>2. QED
  BY <1>1 DEF MergeRows, MergeInv, MergedIsAProjection

(* A step of the workflow keeps what standing merges keep.                    *)
LEMMA WorkflowKeepsStates ==
    ASSUME MergeInv, KeptStates, [Next]_vars, mergesCurrent' = mergesCurrent
    PROVE  KeptStates'
<1> SUFFICES ASSUME NEW m \in mergesCurrent PROVE KeptState(m)'
  BY DEF KeptStates
<1>1. m.merged \in Cases /\ state[m.merged] = "merged"
  BY CurrentType
<1>2. TypeOK
  BY DEF MergeInv, DupTypeOK
<1>3. /\ preparer'[m.merged] = preparer[m.merged]
      /\ packets'[m.merged] = packets[m.merged]
      /\ approvalsOf(m.merged)' = approvalsOf(m.merged)
  BY <1>1, <1>2, ClosedStep DEF NoWorkOnClosed, isClosed, CLOSED_STATES, approvalsOf
<1>4. job'[m.merged] \in {"opened", "linked"} => job[m.merged] \in {"opened", "linked"}
  BY <1>1, <1>2, JobStep
<1>5. QED
  BY <1>3, <1>4 DEF KeptStates, KeptState

(* Moving one case between 'merged' and a state before filing keeps the       *)
(* workflow's invariant when that state agrees with its rows.                 *)
LEMMA MoveKeeps ==
    ASSUME IInv, TypeOK', UNCHANGED elsewhere, NEW b \in Cases, NEW s,
           state' = [state EXCEPT ![b] = s],
           state[b] \in MERGEABLE_STATES \cup {"merged"},
           s \in MERGEABLE_STATES \cup {"merged"},
           preparer[b] # NoUser => s \notin {"discovered", "classified"},
           s \in {"analyst_review", "awaiting_approval"} => preparer[b] # NoUser,
           s = "awaiting_approval" => packets[b] # << >>,
           job[b] \in {"opened", "linked"} => s \in {"discovered", "merged"},
           s = "analyst_review" => approvalsOf(b) = {}
    PROVE  IInv'
<1>1. state \in [Cases -> CASE_STATES \cup {Unopened}]
  BY DEF IInv, TypeOK
<1>2. UNCHANGED <<job, preparer, declined, packets, approvals, submissions, recovered>>
  BY DEF elsewhere, workVars
<1>3. DecidedState' /\ OpeningState' /\ FoughtOrDeclined'
  BY <1>1, <1>2 DEF IInv, DecidedState, OpeningState, FoughtOrDeclined
<1>4. ApprovalState'
  <2>1. \A a \in approvals : a.case \in Cases
    <3>1. approvals \in SUBSET ApprovalRows
      BY DEF IInv, TypeOK
    <3>2. QED
      BY <3>1 DEF ApprovalRows
  <2>2. ASSUME NEW a \in approvals PROVE state'[a.case] # "analyst_review"
    BY <1>1, <2>1 DEF approvalsOf, IInv, ApprovalState
  <2>3. QED
    BY <1>2, <2>2 DEF IInv, ApprovalState, mayApprove
<1>5. FiledAsApproved' /\ ApprovedIsLatest'
  BY <1>2 DEF IInv, FiledAsApproved, ApprovedIsLatest, mayApprove, latestPacket
<1>6. StateMatchesRows'
  <2> SUFFICES ASSUME NEW d \in Cases PROVE RowsOf(d)'
    BY DEF StateMatchesRows, RowsOf
  <2>1. RowsOf(d)
    BY DEF IInv, StateMatchesRows, RowsOf
  <2>2. approvalsOf(d)' = approvalsOf(d) /\ submissionsOf(d)' = submissionsOf(d)
    BY <1>2 DEF approvalsOf, submissionsOf
  <2>3. CASE d # b
    BY <1>1, <1>2, <2>1, <2>2, <2>3, RowsUntouched
  <2>4. CASE d = b
    BY <1>1, <1>2, <2>1, <2>2, <2>4 DEF RowsOf
  <2>5. QED
    BY <2>3, <2>4
<1>7. QED
  BY <1>3, <1>4, <1>5, <1>6 DEF IInv

(* Every step preserves the invariant of the two modules together.            *)
LEMMA DupInvStep == DupInv /\ [DupNext]_allVars => DupInv'
<1> SUFFICES ASSUME DupInv, [DupNext]_allVars PROVE DupInv'
  OBVIOUS
<1>0. MergeInv /\ IInv /\ KeptStates
  BY DEF DupInv
<1>1. MergeInv' /\ TypeOK'
  BY <1>0, WorkingKeeps, AnsweringKeeps, UndoingKeeps, BookingKeeps DEF DupNext, MergeInv, DupTypeOK
<1>2. CASE [Next]_vars /\ mergesCurrent' = mergesCurrent
  BY <1>0, <1>1, <1>2, InvStep, WorkflowKeepsStates DEF DupInv
<1>3. ASSUME NEW a \in Cases, NEW b \in Cases, mergeInto(a, b), UNCHANGED elsewhere,
             mergesCurrent' = mergesCurrent \cup
                {[merged |-> b, surviving |-> a, state_before |-> state[b]]}
      PROVE  DupInv'
  <2>1. state[b] \in MERGEABLE_STATES /\ state' = [state EXCEPT ![b] = "merged"]
    BY <1>3 DEF mergeInto, mergeable
  <2>2. IInv'
    BY <1>0, <1>1, <1>3, <2>1, MoveKeeps
  <2>3. UNCHANGED <<job, preparer, packets, approvals>>
    BY <1>3 DEF elsewhere, workVars
  <2>4. KeptState([merged |-> b, surviving |-> a, state_before |-> state[b]])
    <3>1. approvalsOf(b) # {} => state[b] # "analyst_review"
      BY <1>0 DEF IInv, ApprovalState, approvalsOf
    <3>2. QED
      BY <1>0, <2>1, <3>1 DEF KeptState, IInv, DecidedState, OpeningState, StateMatchesRows
  <2>5. \A m : KeptState(m) => KeptState(m)'
    BY <2>3 DEF KeptState, approvalsOf
  <2>6. KeptStates'
    BY <1>0, <1>3, <2>4, <2>5 DEF KeptStates
  <2>7. QED
    BY <1>1, <2>2, <2>6 DEF DupInv
<1>4. ASSUME NEW m \in mergesCurrent, state' = [state EXCEPT ![m.merged] = m.state_before],
             mergesCurrent' = mergesCurrent \ {m}, UNCHANGED elsewhere
      PROVE  DupInv'
  <2>1. /\ m.merged \in Cases /\ m.state_before \in MERGEABLE_STATES
        /\ state[m.merged] = "merged" /\ KeptState(m)
    BY <1>0, CurrentType DEF KeptStates
  <2>2. IInv'
    BY <1>0, <1>1, <1>4, <2>1, MoveKeeps DEF KeptState
  <2>3. UNCHANGED <<job, preparer, packets, approvals>>
    BY <1>4 DEF elsewhere, workVars
  <2>4. \A n : KeptState(n) => KeptState(n)'
    BY <2>3 DEF KeptState, approvalsOf
  <2>5. KeptStates'
    BY <1>0, <1>4, <2>4 DEF KeptStates
  <2>6. QED
    BY <1>1, <2>2, <2>5 DEF DupInv
<1>5. QED
  BY <1>0, <1>2, <1>3, <1>4, StepKinds

(* Merges and undos leave the whole invariant of the workflow standing.      *)
THEOREM DupInvariance == DupSpec => []DupInv
<1>1. DupInit => DupInv
  <2>1. DupInit => mergesCurrent = {}
    BY DEF DupInit, mergesCurrent
  <2>2. DupInit => MergeInv /\ IInv
    BY MergeInit, InvInit DEF DupInit
  <2>3. QED
    BY <2>1, <2>2 DEF DupInv, KeptStates
<1>2. QED
  BY <1>1, DupInvStep, PTL DEF DupSpec

(* Under merges and undos too the state of a case agrees with its rows: an    *)
(* undo restores a state nothing has moved past in the meantime.              *)
THEOREM StateAndRowsAgreeUnderMerges == DupSpec => []StateMatchesRows
BY DupInvariance, PTL DEF DupInv, IInv

(* Under merges and undos too nothing is filed but what a second person       *)
(* approved, an approval names the latest packet, and no case is both fought  *)
(* and declined.                                                              *)
THEOREM ApprovalsHoldUnderMerges ==
    DupSpec => [](FiledAsApproved /\ ApprovedIsLatest /\ FoughtOrDeclined)
BY DupInvariance, PTL DEF DupInv, IInv

(* DuplicateCases implements CaseLifecycle: a merge takes the loser along the *)
(* edge into 'merged', an undo takes it back along one, and a batch is        *)
(* removed along one edge per case.                                           *)
THEOREM MergesFollowTheTable == DupSpec => FollowsTheTable
<1>1. DupInit => Lifecycle!Init
  BY DEF DupInit, Init, Lifecycle!Init, Lifecycle!Unopened
<1>2. DupInv /\ [DupNext]_allVars => [Lifecycle!Next]_state
  <2> SUFFICES ASSUME DupInv, [DupNext]_allVars PROVE [Lifecycle!Next]_state
    OBVIOUS
  <2>0. /\ MergeInv /\ TypeOK /\ OpeningState /\ TypeOK'
        /\ state \in [Cases -> CASE_STATES \cup {Unopened}]
    BY DupInvStep DEF DupInv, IInv, TypeOK
  <2>1. \A f, t : canTransition(f, t) => Lifecycle!MayMove(f, t)
    BY SameTable DEF Lifecycle!MayMove
  <2>2. CASE [Next]_vars
    BY <2>0, <2>2, MoveStep, MovesAreLifecycle
  <2>3. ASSUME NEW a \in Cases, NEW b \in Cases, mergeInto(a, b)
        PROVE  \A c \in Cases : Moves(c)
    BY <2>0, <2>1, <2>3, EdgesTaken DEF mergeInto, mergeable, Moves
  <2>4. ASSUME NEW m \in mergesCurrent, state' = [state EXCEPT ![m.merged] = m.state_before]
        PROVE  \A c \in Cases : Moves(c)
    BY <2>0, <2>1, <2>4, CurrentType, EdgesTaken DEF Moves
  <2>5. QED
    BY <2>0, <2>2, <2>3, <2>4, StepKinds, MovesAreLifecycle
<1>3. QED
  BY <1>1, <1>2, DupInvariance, PTL DEF DupSpec, FollowsTheTable, Lifecycle!Spec

=============================================================================
