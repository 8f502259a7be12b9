----------------------------- MODULE ClientPki -----------------------------
(***************************************************************************)
(* The life of VPN clients: openvpn-install.sh's --add-user, --revoke-user,*)
(* --restore, --purge-revoked, --clean-stale-db, --add-mac, --remove-mac,  *)
(* command by command, on the files they share: EasyRSA's pki directory,   *)
(* the installed CRL, the delivered .ovpn files, openvpn_db.txt.           *)
(*                                                                         *)
(* The portal runs one script at a time (cli_wrapper._script_lock) and     *)
(* kills it when it takes too long; an administrator runs the same script  *)
(* in a shell, under no lock.                                              *)
(***************************************************************************)
EXTENDS Naturals

CONSTANTS Name,      \* client names
          Lower,     \* the names in lower case, [Name -> ...]
          Mac,       \* MAC addresses
          NoMac,     \* none
          Runner,    \* who runs the script: the portal, shells
          AllowDup,  \* the runners that pass --allow-duplicate
          Faults,    \* a subset of {"kill"}
          MaxCerts   \* bound: certificates ever issued

ASSUME PkiAssumption ==
  /\ NoMac \notin Mac
  /\ AllowDup \subseteq Runner
  /\ MaxCerts \in Nat

VARIABLES
  cert,      \* pki/index.txt: a row per serial, see Row; "-" is not issued
  crt,       \* issued/<name>.crt (with its key and request): a serial, 0 none
  ovpn,      \* <name>.ovpn in OVPN_OUTPUT_DIR: a serial, 0 none
  pkiCrl,    \* pki/crl.pem
  crl,       \* the installed crl.pem; NoCrl while it does not exist
  db,        \* openvpn_db.txt
  job,       \* the script each runner is in, see Job
  reported   \* history: serials whose revocation was reported successful

vars == <<cert, crt, ovpn, pkiCrl, crl, db, job, reported>>

Serial == 1..MaxCerts
Row == [status : {"-"}] \cup [status : {"V", "R"}, name : Name]
NoCrl == {0}

\* serial is the certificate issued or revoked, listed the revoked rows that gen-crl
\* has read, snap the lines that a rewrite of the database has read and keeps.
JobOf(ops, steps, macs) ==
  [op : ops, step : steps, name : Name, mac : macs, serial : 0..MaxCerts,
   listed : SUBSET Serial, snap : SUBSET (Name \X Mac)]
AddJob == JobOf({"add", "restore", "addmac", "rmmac"},
                {"clear", "check", "issue", "append", "deliver", "dbread",
                 "dbwrite"}, Mac)
RevokeJob == JobOf({"revoke"}, {"revoke", "gencrl", "putcrl", "rmcrl", "copycrl",
                                "dbread", "dbwrite"}, {NoMac})
CutJob == JobOf({"purge", "clean"}, {"clear", "dbread", "dbwrite"}, {NoMac})
Job == AddJob \cup RevokeJob \cup CutJob
NoJob == [op |-> "none"]

TypeOK ==
  /\ cert \in [Serial -> Row]
  /\ crt \in [Name -> 0..MaxCerts]
  /\ ovpn \in [Name -> 0..MaxCerts]
  /\ pkiCrl \subseteq Serial
  /\ crl = NoCrl \/ crl \subseteq Serial
  /\ db \subseteq Name \X Mac
  /\ job \in [Runner -> Job \cup {NoJob}]
  /\ reported \subseteq Serial

Init ==
  /\ cert = [s \in Serial |-> [status |-> "-"]]
  /\ crt = [n \in Name |-> 0]
  /\ ovpn = [n \in Name |-> 0]
  /\ pkiCrl = {}
  /\ crl = {}
  /\ db = {}
  /\ job = [r \in Runner |-> NoJob]
  /\ reported = {}

Revoked == {s \in Serial : cert[s].status = "R"}

\* The guard of --purge-revoked and --restore: any R row of that name.
HasRevokedRow(n) == \E s \in Revoked : cert[s].name = n

RowsOf(n) == {x \in db : x[1] = n}

\* Names are compared letter by letter, but for --add-mac's and --remove-mac's own
\* look at the file, grep -i and tr over the whole line.
Alike(n) == {x \in Name : Lower[x] = Lower[n]}
LinesLike(n, m) == {x \in db : x[1] \in Alike(n) /\ x[2] = m}

-----------------------------------------------------------------------------
(* Starting a command: its checks *)

Idle(r) == job[r] = NoJob

Start(r, op, step, n, m) ==
  /\ Idle(r)
  /\ job' = [job EXCEPT ![r] = [op |-> op, step |-> step, name |-> n, mac |-> m,
                                serial |-> 0, listed |-> {}, snap |-> {}]]
  /\ UNCHANGED <<cert, crt, ovpn, pkiCrl, crl, db, reported>>

\* Wrong on purpose: an address of the client itself counts, others do not.
MayAddOwn(n, m, dup) == crt[n] = 0 /\ (dup \/ <<n, m>> \notin db)

\* do_add_client's checks; a name that was revoked may be added again.
MayAdd(n, m, dup) == crt[n] = 0 /\ (dup \/ \A x \in db : x[2] # m)

StartAdd(r, n, m) == MayAdd(n, m, r \in AllowDup) /\ Start(r, "add", "issue", n, m)

StartRestore(r, n, m) == HasRevokedRow(n) /\ Start(r, "restore", "clear", n, m)

StartPurge(r, n) == HasRevokedRow(n) /\ Start(r, "purge", "clear", n, NoMac)

StartRevoke(r, n) == crt[n] # 0 /\ Start(r, "revoke", "revoke", n, NoMac)

StartClean(r, n) ==
  /\ crt[n] = 0 /\ RowsOf(n) # {}
  /\ Start(r, "clean", "dbread", n, NoMac)

StartAddMac(r, n, m) ==
  /\ crt[n] # 0 /\ LinesLike(n, m) = {}
  /\ r \in AllowDup \/ \A x \in db : x[2] = m => x[1] = n
  /\ Start(r, "addmac", "append", n, m)

StartRemoveMac(r, n, m) == LinesLike(n, m) # {} /\ Start(r, "rmmac", "dbread", n, m)

-----------------------------------------------------------------------------
(* The commands of a script *)

At(r, step) == job[r] # NoJob /\ job[r].step = step

GoTo(r, step) == job' = [job EXCEPT ![r].step = step]
End(r) == job' = [job EXCEPT ![r] = NoJob]

\* rm -f of the issued files and the profile, for --restore and --purge-revoked.
Clear(r) ==
  /\ At(r, "clear")
  /\ crt' = [crt EXCEPT ![job[r].name] = 0]
  /\ ovpn' = [ovpn EXCEPT ![job[r].name] = 0]
  /\ GoTo(r, IF job[r].op = "restore" THEN "check" ELSE "dbread")
  /\ UNCHANGED <<cert, pkiCrl, crl, db, reported>>

\* --restore goes on as --add-user, without --allow-duplicate.
CheckRestored(r) ==
  /\ At(r, "check")
  /\ IF MayAdd(job[r].name, job[r].mac, FALSE) THEN GoTo(r, "issue") ELSE End(r)
  /\ UNCHANGED <<cert, crt, ovpn, pkiCrl, crl, db, reported>>

\* easyrsa build-client-full dies when files of the name exist.
Issue(r) ==
  /\ At(r, "issue")
  /\ LET n == job[r].name IN
     IF crt[n] # 0
     THEN End(r) /\ UNCHANGED <<cert, crt>>
     ELSE \E s \in Serial :
            /\ cert[s].status = "-" /\ \A t \in 1..(s - 1) : cert[t].status # "-"
            /\ cert' = [cert EXCEPT ![s] = [status |-> "V", name |-> n]]
            /\ crt' = [crt EXCEPT ![n] = s]
            /\ job' = [job EXCEPT ![r].step = "append", ![r].serial = s]
  /\ UNCHANGED <<ovpn, pkiCrl, crl, db, reported>>

\* echo "name=mac" >> openvpn_db.txt
Append(r) ==
  /\ At(r, "append")
  /\ db' = db \cup {<<job[r].name, job[r].mac>>}
  /\ IF job[r].op = "addmac" THEN End(r) ELSE GoTo(r, "deliver")
  /\ UNCHANGED <<cert, crt, ovpn, pkiCrl, crl, reported>>

Deliver(r) ==
  /\ At(r, "deliver")
  /\ ovpn' = [ovpn EXCEPT ![job[r].name] = job[r].serial]
  /\ End(r)
  /\ UNCHANGED <<cert, crt, pkiCrl, crl, db, reported>>

\* Wrong on purpose: the files of the revoked certificate stay.
RevokeRowOnly(r) ==
  /\ At(r, "revoke")
  /\ LET n == job[r].name
         s == crt[n] IN
     IF s = 0
     THEN End(r) /\ UNCHANGED <<cert, crt>>
     ELSE /\ cert' = [cert EXCEPT ![s] = [status |-> "R", name |-> n]]
          /\ crt' = crt
          /\ job' = [job EXCEPT ![r].step = "gencrl", ![r].serial = s]
  /\ UNCHANGED <<ovpn, pkiCrl, crl, db, reported>>

\* easyrsa revoke: the row of the issued certificate becomes R and the files
\* move away; it fails when they are gone.
RevokeRow(r) ==
  /\ At(r, "revoke")
  /\ LET n == job[r].name
         s == crt[n] IN
     IF s = 0
     THEN End(r) /\ UNCHANGED <<cert, crt>>
     ELSE /\ cert' = [cert EXCEPT ![s] = [status |-> "R", name |-> n]]
          /\ crt' = [crt EXCEPT ![n] = 0]
          /\ job' = [job EXCEPT ![r].step = "gencrl", ![r].serial = s]
  /\ UNCHANGED <<ovpn, pkiCrl, crl, db, reported>>

\* easyrsa gen-crl reads the index...
ListRevoked(r) ==
  /\ At(r, "gencrl")
  /\ job' = [job EXCEPT ![r].step = "putcrl", ![r].listed = Revoked]
  /\ UNCHANGED <<cert, crt, ovpn, pkiCrl, crl, db, reported>>

\* Wrong on purpose: the CRL is installed before it is generated.
GenCrlLate(r) ==
  /\ At(r, "putcrl")
  /\ pkiCrl' = pkiCrl
  /\ GoTo(r, "rmcrl")
  /\ UNCHANGED <<cert, crt, ovpn, crl, db, reported>>

\* ... and its list takes the place of pki/crl.pem, whatever that is by then.
GenCrl(r) ==
  /\ At(r, "putcrl")
  /\ pkiCrl' = job[r].listed
  /\ GoTo(r, "rmcrl")
  /\ UNCHANGED <<cert, crt, ovpn, crl, db, reported>>

RemoveCrl(r) ==
  /\ At(r, "rmcrl")
  /\ crl' = NoCrl
  /\ GoTo(r, "copycrl")
  /\ UNCHANGED <<cert, crt, ovpn, pkiCrl, db, reported>>

CopyCrl(r) ==
  /\ At(r, "copycrl")
  /\ crl' = pkiCrl
  /\ GoTo(r, "dbread")
  /\ UNCHANGED <<cert, crt, ovpn, pkiCrl, db, reported>>

\* Wrong on purpose: --remove-mac removes the client's other devices too.
KeptNone(r) == db \ RowsOf(job[r].name)

\* What sed -i, or do_remove_mac's loop, keeps of the lines it reads.
Kept(r) ==
  IF job[r].op = "rmmac" THEN db \ LinesLike(job[r].name, job[r].mac)
                         ELSE db \ RowsOf(job[r].name)

DbRead(r) ==
  /\ At(r, "dbread")
  /\ job' = [job EXCEPT ![r].step = "dbwrite", ![r].snap = Kept(r)]
  /\ UNCHANGED <<cert, crt, ovpn, pkiCrl, crl, db, reported>>

\* The temporary file takes the place of openvpn_db.txt, the command succeeds.
DbWrite(r) ==
  /\ At(r, "dbwrite")
  /\ db' = job[r].snap
  /\ reported' = IF job[r].op = "revoke" THEN reported \cup {job[r].serial}
                                         ELSE reported
  /\ End(r)
  /\ UNCHANGED <<cert, crt, ovpn, pkiCrl, crl>>

\* The portal's timeout, an interrupted shell, a command that fails.
Kill(r) ==
  /\ "kill" \in Faults /\ ~Idle(r)
  /\ End(r)
  /\ UNCHANGED <<cert, crt, ovpn, pkiCrl, crl, db, reported>>

Next ==
  \E r \in Runner :
    \/ \E n \in Name : StartPurge(r, n) \/ StartRevoke(r, n) \/ StartClean(r, n)
    \/ \E n \in Name, m \in Mac :
         \/ StartAdd(r, n, m) \/ StartRestore(r, n, m)
         \/ StartAddMac(r, n, m) \/ StartRemoveMac(r, n, m)
    \/ Clear(r) \/ CheckRestored(r) \/ Issue(r) \/ Append(r) \/ Deliver(r)
    \/ RevokeRow(r) \/ ListRevoked(r) \/ GenCrl(r) \/ RemoveCrl(r) \/ CopyCrl(r)
    \/ DbRead(r) \/ DbWrite(r) \/ Kill(r)

Spec == Init /\ [][Next]_vars

-----------------------------------------------------------------------------
(* Properties *)

\* A revocation that was reported successful is on the CRL that is installed
\* (do_revoke_client; "a revoked cert must stay revoked forever"): through any
\* sequence of the portal's scripts, killed ones included.  With a shell beside the
\* portal it is not: the older of two lists may be put last.
ReportedRevoked == crl = NoCrl \/ reported \subseteq crl

\* issued/<name>.crt is never a revoked certificate or another name's:
\* "no such client (no valid certificate)" is what its absence means.
IssuedIsValid ==
  \A n \in Name : crt[n] # 0 => cert[crt[n]] = [status |-> "V", name |-> n]

\* The inductive form of ReportedRevoked: how far each --revoke-user has come.
Revoking(r) == job[r] # NoJob /\ job[r].op = "revoke"

RowsRevoked ==
  \A r \in Runner : Revoking(r) /\ job[r].step # "revoke" => job[r].serial \in Revoked

CrlsGrow ==
  /\ reported \subseteq pkiCrl /\ pkiCrl \subseteq Revoked
  /\ ReportedRevoked

RevokeProgress ==
  \A r \in Runner : Revoking(r) =>
    /\ job[r].step = "putcrl" =>
         /\ pkiCrl \cup {job[r].serial} \subseteq job[r].listed
         /\ job[r].listed \subseteq Revoked
    /\ job[r].step \in {"rmcrl", "copycrl", "dbread", "dbwrite"} =>
         job[r].serial \in pkiCrl
    /\ job[r].step \in {"dbread", "dbwrite"} =>
         crl = NoCrl \/ job[r].serial \in crl

IInv == TypeOK /\ IssuedIsValid /\ RowsRevoked

\* One MAC, one client (find_mac_owner), over any sequence of the portal's
\* commands, killed ones included.
OneOwner == \A x, y \in db : x[2] = y[2] => x[1] = y[1]

\* A registration disappears only in a command on its own client, and with
\* --remove-mac only one of the address that was named: of its own client, or of
\* one whose name differs in nothing but case, which do_remove_mac takes for the same
\* though names are case-sensitive everywhere else.
RegistrationsKept ==
  [][\A x \in db \ db' :
       \E r \in Runner :
         /\ At(r, "dbwrite")
         /\ IF job[r].op = "rmmac" THEN x[1] \in Alike(job[r].name) /\ x[2] = job[r].mac
                                   ELSE x[1] = job[r].name]_vars
=============================================================================
