--------------------------- MODULE MCSystemAudit ---------------------------
(* SystemAudit for TLC: the faults of the run and how much of each operation  *)
(* a behaviour has.                                                            *)
EXTENDS SystemAudit, TLC

AllFaults == FaultKinds

Work(r, f, e) == [runs |-> r, fixes |-> f, edits |-> e]
SmallBudgets == {Work(3, 0, 0), Work(2, 1, 0), Work(1, 2, 1)}

FixerSymmetry == Permutations(Fixer)
=============================================================================
