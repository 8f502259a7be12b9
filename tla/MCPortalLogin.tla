-------------------------- MODULE MCPortalLogin --------------------------
(* Instances of PortalLogin for TLC. *)
EXTENDS PortalLogin, TLC

NoRolePolicy == [u \in Users |-> None]
ThreadSymmetry == Permutations(Threads)
=============================================================================
