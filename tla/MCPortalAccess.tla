-------------------------- MODULE MCPortalAccess --------------------------
(* Instances of PortalAccess for TLC. *)
EXTENDS PortalAccess, TLC

CONSTANTS root, ann, bob

\* A group with the roles admin and viewer, as a previous release could hold it, and
\* one of the editors; ann was in both, bob, who comes before ann, in the first.
PlainGroups == <<{Admin, Viewer}, {Editor}>>
PlainMembers == (root :> {}) @@ (ann :> {1, 2}) @@ (bob :> {1})
PlainNumbers == (root :> 1) @@ (bob :> 2) @@ (ann :> 3)

ThreadSymmetry == Permutations(Threads)
=============================================================================
