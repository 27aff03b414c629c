--------------------------- MODULE MCDocumentRead ---------------------------
(* Small instances of DocumentRead: two documents, in the pairs that meet. *)
EXTENDS DocumentRead, TLC

CONSTANTS d1, d2, w1, w2

line(c, i) == [claim |-> c, invoice |-> i, small |-> FALSE]
small(c, i) == [claim |-> c, invoice |-> i, small |-> TRUE]
paper(k, s, p, ls) == [kind |-> k, source |-> s, payer |-> p, lines |-> ls]
pair(a, b) == (d1 :> a) @@ (d2 :> b)

\* A notice without a claim id, and one with; a claim printed on two remittances of an unknown
\* payer; one invoice on two remittances; what arrives by mail; a report with a notice of its row.
MCPages ==
    {pair(paper("deduction_notice", "web_upload", FALSE, <<line(NoClaim, "i1")>>),
          paper("other", "web_upload", FALSE, << >>)),
     pair(paper("deduction_notice", "web_upload", FALSE, <<line("c1", "i1")>>),
          paper("report", "web_upload", FALSE, <<line("c1", "i1"), line("c2", "i2")>>)),
     pair(paper("remittance_advice", "web_upload", FALSE, <<line("c1", "i1")>>),
          paper("remittance_advice", "web_upload", FALSE, <<line("c1", "i1"), small("c2", "i2")>>)),
     pair(paper("remittance_advice", "web_upload", TRUE, <<line("c1", "i1")>>),
          paper("remittance_advice", "portal_fetch", TRUE, <<line("c2", "i1")>>)),
     pair(paper("deduction_notice", "email_in", FALSE, <<line("c1", "i1")>>),
          paper("remittance_advice", "email_in", FALSE, <<small("c2", "i1")>>))}
=============================================================================
