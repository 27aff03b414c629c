---------------------------- MODULE DocumentFate ----------------------------
(***************************************************************************)
(* What the document pipeline promises of each document, and nothing of    *)
(* how: it arrives, is read, and then waits for nothing, is held for a     *)
(* person, or is on a case for good; and a document that was held reaches  *)
(* a case only after a person acted on it.                                 *)
(***************************************************************************)
CONSTANT Documents

VARIABLES
    fate,    \* where each document stands
    byHand   \* documents a person has opened or filed on a case by hand

Fates == {"absent", "unread", "read", "held", "on_case"}

FateInit ==
    /\ fate = [d \in Documents |-> "absent"]
    /\ byHand = {}

Arrives(d) ==
    /\ fate[d] = "absent"
    /\ fate' = [fate EXCEPT ![d] = "unread"]
    /\ UNCHANGED byHand

IsRead(d) ==
    /\ fate[d] = "unread"
    /\ fate' = [fate EXCEPT ![d] = "read"]
    /\ UNCHANGED byHand

IsHeld(d) ==
    /\ fate[d] \in {"unread", "read"}
    /\ fate' = [fate EXCEPT ![d] = "held"]
    /\ UNCHANGED byHand

PersonActs(d) ==
    /\ fate[d] # "absent"
    /\ byHand' = byHand \cup {d}
    /\ UNCHANGED fate

\* A document nobody doubted goes on a case by itself; a held one only by hand.
GoesOnCase(d) ==
    /\ \/ fate[d] \in {"unread", "read"}
       \/ fate[d] = "held" /\ d \in byHand
    /\ fate' = [fate EXCEPT ![d] = "on_case"]
    /\ UNCHANGED byHand

\* A person files a reading on a case in one request.
FiledByHand(d) ==
    /\ fate[d] # "absent"
    /\ fate' = [fate EXCEPT ![d] = "on_case"]
    /\ byHand' = byHand \cup {d}

\* A held remittance of which no line was worth a case is released onto none.
IsReleased(d) ==
    /\ fate[d] = "held" /\ d \in byHand
    /\ fate' = [fate EXCEPT ![d] = "read"]
    /\ UNCHANGED byHand

FateNext ==
    \E d \in Documents :
        \/ Arrives(d) \/ IsRead(d) \/ IsHeld(d)
        \/ PersonActs(d) \/ GoesOnCase(d) \/ FiledByHand(d) \/ IsReleased(d)

FateSpec == FateInit /\ [][FateNext]_<<fate, byHand>>
=============================================================================
