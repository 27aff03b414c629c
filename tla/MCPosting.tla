----------------------------- MODULE MCPosting -----------------------------
(* Small instances of Posting for TLC. *)
EXTENDS Posting

CONSTANTS c1, ann, abe
=============================================================================
