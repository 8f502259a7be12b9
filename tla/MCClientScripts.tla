-------------------------- MODULE MCClientScripts --------------------------
(* The portal alone, for TLC. *)
EXTENDS ClientScripts, TLC

CONSTANTS ann, bob, Bob

Killed == {"kill"}
Lowered == [n \in Name |-> IF n = ann THEN "ann" ELSE "bob"]
Symmetric == Permutations({bob, Bob}) \cup Permutations(Mac)
=============================================================================
