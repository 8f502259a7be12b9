---------------------------- MODULE MCVpnQuota ----------------------------
(***************************************************************************)
(* VpnQuota for TLC: the faults of each run.                               *)
(***************************************************************************)
EXTENDS VpnQuota

\* Faults of the writers and of OpenVPN, with every read reliable: the runs in
\* which a hard quota must cut a session in the end.
WriteFaults == {"usageWrite", "management", "crash"}

AllFaults == FaultKinds
=============================================================================
