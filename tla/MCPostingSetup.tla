--------------------------- MODULE MCPostingSetup ---------------------------
(* A small instance of PostingSetup for TLC. *)
EXTENDS PostingSetup, TLC

CONSTANTS ann, olga, omar

\* Two owners, who are alike, and an analyst.
MCFirstRole == [m \in {ann, olga, omar} |-> IF m = ann THEN "analyst" ELSE "owner"]
OwnersAlike == Permutations({olga, omar})

\* A press has both accounts to make.
MCChoices == {Rows}
=============================================================================
