------------------------ MODULE MCLedgerConnection ------------------------
(* Small instances of LedgerConnection for TLC. *)
EXTENDS LedgerConnection

CONSTANTS ann, bob, w1, w2, page, r1

\* Two owners of one workspace, or one owner in each of two.
Together == [m \in {ann, bob} |-> w1]
Apart == [m \in {ann, bob} |-> IF m = ann THEN w1 ELSE w2]
MCLayouts == {Together, Apart}
=============================================================================
