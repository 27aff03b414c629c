------------------------- MODULE MCLedgerDiscovery -------------------------
(* Small instances of LedgerDiscovery for TLC. *)
EXTENDS LedgerDiscovery

CONSTANTS i1, i2

\* Two invoices with a number each, or with one number.
MCNumbers == {[i \in {i1, i2} |-> IF i = i1 THEN "n1" ELSE "n2"], [i \in {i1, i2} |-> "n1"]}
=============================================================================
