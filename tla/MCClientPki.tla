---------------------------- MODULE MCClientPki ----------------------------
(* Instances of ClientPki for TLC. *)
EXTENDS ClientPki, TLC

Killed == {"kill"}
Lowered == [n \in Name |-> n]
Symmetric == Permutations(Name) \cup Permutations(Mac)
=============================================================================
