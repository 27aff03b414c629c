---------------------------- MODULE MCPortalRead ----------------------------
(* Instances of PortalRead for TLC: a run finds nothing, a clean capture and *)
(* one refused at the door, or an infected capture before the clean one.     *)
EXTENDS PortalRead, TLC

CONSTANTS clean1, virus1, bad1

MCListings == {<<>>, <<clean1, bad1>>, <<virus1, clean1>>}

SameRuns == Permutations(Runs)

=============================================================================
