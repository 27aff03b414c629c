--------------------------- MODULE MCInboundEmail ---------------------------
(* An instance of InboundEmail for TLC: a notice with a few words, and the   *)
(* same words beside a file the front door rejects and an infected one.      *)
EXTENDS InboundEmail, TLC

CONSTANTS e1, e2, notice, virus, note, bad

attach(x) == [kind |-> "attachment", doc |-> x]
body(x) == [kind |-> "body", doc |-> x]
MCEmails == e1 :> <<attach(notice), body(note)>>
         @@ e2 :> <<attach(bad), attach(virus), body(note)>>

=============================================================================
