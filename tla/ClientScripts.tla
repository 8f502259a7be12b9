---------------------------- MODULE ClientScripts ----------------------------
(***************************************************************************)
(* The scripts of ClientPki as the portal's handlers see them: what they   *)
(* have made of each client's files by the time no script is running.      *)
(***************************************************************************)
EXTENDS ClientPki

VARIABLE seen  \* the views of the clients when no script was running last

\* Certificates that are still good but whose files are gone.
Strays(n) == {s \in Serial : cert[s] = [status |-> "V", name |-> n] /\ crt[n] # s}

\* What check_consistency, list_revoked and list_macs tell of a client.
View(n) ==
  [issued |-> crt[n] # 0, stray |-> Strays(n) # {}, past |-> HasRevokedRow(n),
   mac |-> RowsOf(n) # {}]
Views == [n \in Name |-> View(n)]

AllIdle == \A r \in Runner : Idle(r)

WatchInit == Init /\ seen = Views
WatchNext == Next /\ seen' = IF AllIdle' THEN Views' ELSE seen
WatchSpec == WatchInit /\ [][WatchNext]_<<vars, seen>>

-----------------------------------------------------------------------------
(* The contract, of the files as they were seen *)

CutShort == {op \in {"add", "revoke", "restore", "purge", "clean", "addmac"} :
               "kill" \in Faults}
Portal == INSTANCE ClientCommands WITH Client <- Name, Faults <- CutShort, pki <- seen

-----------------------------------------------------------------------------
(* Properties *)

\* Of a script that runs alone, to its end or cut short, nothing is left but what
\* the handlers of the portal reckon with, of its own client and of no other, but for
\* the address that --remove-mac takes off names alike (VpnIdentity).
ScriptsAreCommands == Portal!CommandSpec
=============================================================================
