--------------------------- MODULE ClientCommands ---------------------------
(***************************************************************************)
(* What the commands of openvpn-install.sh do to the files of a client,    *)
(* each in one step and cut short anywhere.  The handlers of the portal    *)
(* rely on this (VpnIdentity), the scripts promise it (ClientScripts).     *)
(***************************************************************************)
CONSTANTS Client,  \* VPN client names
          Lower,   \* the names in lower case, [Client -> ...]
          Faults   \* the commands that can be cut short

VARIABLE pki       \* what openvpn-install.sh keeps of each client, see Pki

\* issued: its issued files are there; stray: a certificate that was not revoked
\* has lost its files; past: a revoked row; mac: a line in openvpn_db.txt.
Pki == [issued : BOOLEAN, stray : BOOLEAN, past : BOOLEAN, mac : BOOLEAN]
Blank == [issued |-> FALSE, stray |-> FALSE, past |-> FALSE, mac |-> FALSE]

-----------------------------------------------------------------------------
(* What a command does on its way *)

Issued(p) == [p EXCEPT !.issued = TRUE]
Registered(p) == [p EXCEPT !.mac = TRUE]
Unregistered(p) == [p EXCEPT !.mac = FALSE]
Cut(p) == [p EXCEPT !.issued = FALSE, !.past = TRUE]

\* The files of a certificate that is not the revoked one go too.
Cleared(p) == [p EXCEPT !.issued = FALSE, !.stray = p.stray \/ p.issued]

-----------------------------------------------------------------------------
(* Commands *)

\* --remove-mac is not one of these, since it is not about one client alone.
Command == {"add", "revoke", "restore", "purge", "clean", "addmac"}

\* The checks on the client itself, before anything is done.
Accepts(op, p) ==
  CASE op = "add" -> ~p.issued
    [] op \in {"revoke", "addmac"} -> p.issued
    [] op \in {"restore", "purge"} -> p.past
    [] op = "clean" -> ~p.issued /\ p.mac

\* What a command leaves that ends by itself: a restore may find the address taken
\* after it has cleared the files.
Results(op, p) ==
  CASE op = "add" -> {Registered(Issued(p))}
    [] op = "revoke" -> {Unregistered(Cut(p))}
    [] op = "restore" -> {Cleared(p), Registered(Issued(Cleared(p)))}
    [] op = "purge" -> {Unregistered(Cleared(p))}
    [] op = "clean" -> {Unregistered(p)}
    [] op = "addmac" -> {Registered(p)}

\* What is left of one that is cut short.
Halfway(op, p) ==
  CASE op = "add" -> {p, Issued(p)}
    [] op = "revoke" -> {p, Cut(p)}
    [] op = "restore" -> {p, Cleared(p), Issued(Cleared(p))}
    [] op = "purge" -> {p, Cleared(p)}
    [] op \in {"clean", "addmac"} -> {p}

Leaves(op, p) == Results(op, p) \cup (IF op \in Faults THEN Halfway(op, p) ELSE {})

\* An address is taken off every client whose name differs in nothing but case; it
\* may be one of several, and the command may be cut short.
RemovesMac(c) ==
  LET like == {d \in Client : Lower[d] = Lower[c] /\ pki[d].mac} IN
    \E bare \in SUBSET like :
      pki' = [d \in Client |-> IF d \in bare THEN Unregistered(pki[d]) ELSE pki[d]]

CommandInit == pki \in [Client -> {Blank, Registered(Issued(Blank))}]

CommandNext ==
  \/ \E c \in Client, op \in Command :
       /\ Accepts(op, pki[c])
       /\ \E q \in Leaves(op, pki[c]) : pki' = [pki EXCEPT ![c] = q]
  \/ \E c \in Client : RemovesMac(c)

CommandSpec == CommandInit /\ [][CommandNext]_pki
=============================================================================
