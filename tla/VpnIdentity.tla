---------------------------- MODULE VpnIdentity ----------------------------
(***************************************************************************)
(* Portal accounts and the VPN clients they are linked to: the handlers of *)
(* routes/users.py and of the Clients page (routes/clients.py), with the   *)
(* hooks of vpn_identity_sync.py they call.                                *)
(*                                                                         *)
(* A handler commits its change of the database first and runs the scripts *)
(* after it, or the other way round; handlers run in threads, a step of    *)
(* one between any two of another.  One script runs at a time, and does    *)
(* what ClientCommands has; an account of a client has its name.           *)
(***************************************************************************)
EXTENDS ClientCommands

CONSTANTS User,       \* usernames
          Manager,    \* those whose group may manage users and VPN clients
          Bootstrap,  \* the bootstrap admin
          Migrated,   \* clients linked by the migration
          None,       \* no user, no client
          NoAccount,  \* no row in the table of users
          Patches     \* the changes of an account that a PATCH may ask for

Write == {"active", "inactive", "deleted", "restored"}

ASSUME IdentityAssumption ==
  /\ Bootstrap \in Manager /\ Manager \subseteq User
  /\ Client \subseteq User /\ Migrated \subseteq Client
  /\ None \notin User /\ NoAccount \notin [active : BOOLEAN, deleted : BOOLEAN]
  /\ Patches \subseteq SUBSET Write
  /\ Faults \subseteq Command

VARIABLES
  user,  \* the table of users
  link,  \* the rows of vpn_profile_links
  job    \* the handler each manager has running, see Job

vars == <<user, link, pki, job>>

Account == [active : BOOLEAN, deleted : BOOLEAN]
Link == [user : User, client : Client, protected : BOOLEAN]

ClientsPage == {"revoke", "restore", "purge", "add"}

\* rows: the links read at the start; calm: history, no other handler has run
\* and no script has failed to run or been killed since the start.
Job == [op : {"patch", "delete", "erase", "link", "create"} \cup ClientsPage,
        step : {"commit", "sync", "macs", "revoke", "restore", "purge", "add",
                "mirror", "relink", "insert", "erase"},
        user : User \cup {None}, client : Client \cup {None},
        writes : SUBSET Write, rows : SUBSET Link, calm : BOOLEAN]
NoJob == [op |-> "none"]

TypeOK ==
  /\ user \in [User -> Account \cup {NoAccount}]
  /\ link \subseteq Link
  /\ pki \in [Client -> Pki]
  /\ job \in [Manager -> Job \cup {NoJob}]

NewAccount == [active |-> TRUE, deleted |-> FALSE]
NewLink(u, c) == [user |-> u, client |-> c, protected |-> FALSE]

\* The state apply_migration leaves.
Init ==
  /\ user = [u \in User |-> IF u \in Manager \cup Migrated THEN NewAccount
                                                          ELSE NoAccount]
  /\ link = {[user |-> c, client |-> c, protected |-> TRUE] : c \in Migrated}
  /\ pki = [c \in Client |-> IF c \in Migrated THEN Registered(Issued(Blank)) ELSE Blank]
  /\ job = [a \in Manager |-> NoJob]

-----------------------------------------------------------------------------
(* Requests *)

Exists(u) == user[u] # NoAccount
Active(u) == Exists(u) /\ user[u].active /\ ~user[u].deleted

LinksOf(u) == {x \in link : x.user = u}
LinksTo(c) == {x \in link : x.client = c}
Unprotected(u) == {x \in LinksOf(u) : ~x.protected}

Request(op, step, u, c) ==
  [op |-> op, step |-> step, user |-> u, client |-> c, writes |-> {},
   rows |-> {}, calm |-> FALSE]

Disturbed(a) == IF job[a] = NoJob THEN NoJob ELSE [job[a] EXCEPT !.calm = FALSE]

Start(a, j) ==
  /\ job[a] = NoJob /\ Active(a)
  /\ job' = [b \in Manager |->
               IF b = a THEN [j EXCEPT !.calm = \A d \in Manager : job[d] = NoJob]
                        ELSE Disturbed(b)]
  /\ UNCHANGED <<user, link, pki>>

\* _guard_against_self_lockout
MayRemove(a, u) ==
  u \in Manager /\ Active(u) =>
    u # a /\ \E m \in Manager \ {u} : Active(m)

\* What of a request changes the account it has read.
Effective(u, w) ==
  w \ ((IF user[u].active THEN {"active"} ELSE {"inactive"}) \cup
       (IF user[u].deleted THEN {"deleted"} ELSE {"restored"}))

\* PATCH /api/users/{id}, is_active and deleted.
StartPatch(a, u, w) ==
  /\ Exists(u)
  /\ ~({"active", "inactive"} \subseteq w) /\ ~({"deleted", "restored"} \subseteq w)
  /\ w \cap {"inactive", "deleted"} # {} => u # Bootstrap /\ MayRemove(a, u)
  /\ Effective(u, w) # {}
  /\ Start(a, [Request("patch", "commit", u, None) EXCEPT
                 !.writes = Effective(u, w)])

\* DELETE /api/users/{id}
StartDelete(a, u) ==
  /\ Exists(u) /\ ~user[u].deleted /\ u # Bootstrap /\ MayRemove(a, u)
  /\ Start(a, [Request("delete", "commit", u, None) EXCEPT
                 !.writes = {"inactive", "deleted"}])

\* Wrong on purpose: the revocation of the soft delete is trusted.
StartEraseTrusting(a, u) ==
  /\ Exists(u) /\ user[u].deleted /\ u # Bootstrap
  /\ \/ /\ Unprotected(u) = {}
        /\ Start(a, Request("erase", "erase", u, None))
     \/ \E x \in Unprotected(u) : Start(a, Request("erase", "erase", u, x.client))

\* DELETE /api/users/{id}/permanent
StartErase(a, u) ==
  /\ Exists(u) /\ user[u].deleted /\ u # Bootstrap
  /\ \/ /\ Unprotected(u) = {}
        /\ Start(a, Request("erase", "erase", u, None))
     \/ \E x \in Unprotected(u) : Start(a, Request("erase", "revoke", u, x.client))

\* POST /api/users/{id}/vpn-link; that the client exists is not asked.
StartLink(a, u, c) ==
  /\ Exists(u) /\ ~user[u].deleted /\ LinksTo(c) = {}
  /\ Start(a, [Request("link", "relink", u, c) EXCEPT !.rows = LinksOf(u)])

\* DELETE /api/users/{id}/vpn-link
Unlink(a, u) ==
  /\ job[a] = NoJob /\ Active(a)
  /\ Exists(u) /\ ~user[u].deleted /\ LinksOf(u) # {}
  /\ link' = link \ LinksOf(u)
  /\ job' = [b \in Manager |-> Disturbed(b)]
  /\ UNCHANGED <<user, pki>>

\* POST /api/users, with a profile of its own or with one that is listed.
StartCreate(a, u, c) ==
  /\ ~Exists(u)
  /\ \/ c = u /\ Start(a, Request("create", "add", u, c))
     \/ /\ LinksTo(c) = {} /\ (pki[c].issued \/ pki[c].stray)
        /\ Start(a, Request("create", "insert", u, c))

\* The buttons of the Clients page; each asks the script at once.
StartClient(a, op, c) == Start(a, Request(op, op, None, c))

-----------------------------------------------------------------------------
(* The steps of a handler *)

At(a, step) == job[a] # NoJob /\ job[a].step = step

GoTo(a, step) == job' = [job EXCEPT ![a].step = step]
End(a) == job' = [job EXCEPT ![a] = NoJob]

Written(x, w) ==
  [active |-> "active" \in w \/ (x.active /\ "inactive" \notin w),
   deleted |-> "deleted" \in w \/ (x.deleted /\ "restored" \notin w)]

\* The commit, and which hook is called after it.
CommitUser(a) ==
  /\ At(a, "commit")
  /\ LET u == job[a].user
         w == job[a].writes IN
     IF Exists(u)
     THEN /\ user' = [user EXCEPT ![u] = Written(@, w)]
          /\ IF job[a].op = "delete" \/ w \cap {"active", "inactive"} # {}
             THEN GoTo(a, "sync") ELSE End(a)
     ELSE End(a) /\ UNCHANGED user
  /\ UNCHANGED <<link, pki>>

\* Wrong on purpose: protected_from_auto_revoke is not looked at.
SyncAll(a) ==
  /\ At(a, "sync")
  /\ \/ LinksOf(job[a].user) = {} /\ End(a)
     \/ \E x \in LinksOf(job[a].user) :
          job' = [job EXCEPT ![a].client = x.client,
                    ![a].step = IF "active" \in job[a].writes THEN "macs"
                                                              ELSE "revoke"]
  /\ UNCHANGED <<user, link, pki>>

\* sync_after_portal_suspend, _reactivate and _delete read the link.
Sync(a) ==
  /\ At(a, "sync")
  /\ \/ Unprotected(job[a].user) = {} /\ End(a)
     \/ \E x \in Unprotected(job[a].user) :
          job' = [job EXCEPT ![a].client = x.client,
                    ![a].step = IF "active" \in job[a].writes THEN "macs"
                                                              ELSE "revoke"]
  /\ UNCHANGED <<user, link, pki>>

\* A reactivation wants a registered address to restore with.
ListMacs(a) ==
  /\ At(a, "macs")
  /\ IF pki[job[a].client].mac THEN GoTo(a, "restore") ELSE End(a)
  /\ UNCHANGED <<user, link, pki>>

\* What follows a script: the hook of the Clients page, or what is left of a
\* permanent delete, which goes on after a failure.
Done(a) ==
  CASE job[a].op \in ClientsPage -> GoTo(a, "mirror")
    [] job[a].op = "create" -> GoTo(a, "insert")
    [] job[a].op = "erase" ->
         GoTo(a, IF job[a].step = "revoke" THEN "purge" ELSE "erase")
    [] OTHER -> End(a)

Failed(a) == IF job[a].op = "erase" THEN Done(a) ELSE End(a)

\* The script does not run, or is killed half-way at the time limit.
ScriptFails(a) ==
  /\ \E op \in Faults :
       /\ At(a, op)
       /\ LET c == job[a].client IN
          \/ ~Accepts(op, pki[c]) /\ UNCHANGED pki
          \/ /\ Accepts(op, pki[c])
             /\ \E p \in Leaves(op, pki[c]) : pki' = [pki EXCEPT ![c] = p]
  /\ IF job[a].op = "erase"
     THEN job' = [job EXCEPT ![a].calm = FALSE,
                    ![a].step = IF @ = "revoke" THEN "purge" ELSE "erase"]
     ELSE End(a)
  /\ UNCHANGED <<user, link>>

Revoke(a) ==
  /\ At(a, "revoke")
  /\ LET c == job[a].client IN
     IF pki[c].issued
     THEN /\ pki' = [pki EXCEPT ![c] = Unregistered(Cut(@))]
          /\ Done(a)
     ELSE Failed(a) /\ UNCHANGED pki
  /\ UNCHANGED <<user, link>>

Purge(a) ==
  /\ At(a, "purge")
  /\ LET c == job[a].client IN
     IF pki[c].past
     THEN /\ pki' = [pki EXCEPT ![c] = Unregistered(Cleared(@))]
          /\ Done(a)
     ELSE Failed(a) /\ UNCHANGED pki
  /\ UNCHANGED <<user, link>>

\* do_restore_client clears the files, then issues if the address is nobody's;
\* a reactivation passes an address that was the client's own.
Restore(a) ==
  /\ At(a, "restore")
  /\ LET c == job[a].client IN
     \/ ~pki[c].past /\ Failed(a) /\ UNCHANGED pki
     \/ /\ pki[c].past
        /\ pki' = [pki EXCEPT ![c] = Cleared(@)]
        /\ Failed(a)
     \/ /\ pki[c].past /\ (job[a].op = "restore" \/ ~pki[c].mac)
        /\ pki' = [pki EXCEPT ![c] = Registered(Issued(Cleared(@)))]
        /\ Done(a)
  /\ UNCHANGED <<user, link>>

\* do_add_client; it refuses a name in use and an address in use.
Add(a) ==
  /\ At(a, "add")
  /\ LET c == job[a].client IN
     \/ Failed(a) /\ UNCHANGED pki
     \/ /\ ~pki[c].issued
        /\ pki' = [pki EXCEPT ![c] = Registered(Issued(@))]
        /\ Done(a)
  /\ UNCHANGED <<user, link>>

\* auto_link_new_client
AutoLink(c) ==
  IF LinksTo(c) # {} \/ LinksOf(c) # {}
  THEN UNCHANGED <<user, link>>
  ELSE /\ user' = [user EXCEPT ![c] = IF Exists(c) THEN @ ELSE NewAccount]
       /\ link' = link \cup {NewLink(c, c)}

\* sync_after_client_revoke, _restore, _purge
MirrorWrites(op, x) ==
  CASE op = "revoke" -> {"inactive"}
    [] op = "restore" -> {"active"}
    [] op = "purge" -> IF x.deleted THEN {} ELSE {"inactive", "deleted"}

Mirror(a) ==
  /\ At(a, "mirror")
  /\ LET c == job[a].client IN
     IF job[a].op = "add"
     THEN AutoLink(c)
     ELSE /\ user' = [u \in User |->
                        IF \E x \in LinksTo(c) : x.user = u
                        THEN Written(user[u], MirrorWrites(job[a].op, user[u]))
                        ELSE user[u]]
          /\ UNCHANGED link
  /\ End(a)
  /\ UNCHANGED pki

\* Wrong on purpose: the columns of vpn_profile_links are not unique.
RelinkFreely(a) ==
  /\ At(a, "relink")
  /\ LET u == job[a].user
         rest == link \ job[a].rows IN
     IF ~Exists(u)
     THEN UNCHANGED link
     ELSE link' = rest \cup {NewLink(u, job[a].client)}
  /\ End(a)
  /\ UNCHANGED <<user, pki>>

\* The old row out and the new one in; a 409 when a column is not unique.
Relink(a) ==
  /\ At(a, "relink")
  /\ LET u == job[a].user
         rest == link \ job[a].rows IN
     IF ~Exists(u) \/ \E x \in rest : x.client = job[a].client \/ x.user = u
     THEN UNCHANGED link
     ELSE link' = rest \cup {NewLink(u, job[a].client)}
  /\ End(a)
  /\ UNCHANGED <<user, pki>>

\* create_user's transaction; when it fails the certificate stays.
Insert(a) ==
  /\ At(a, "insert")
  /\ LET u == job[a].user IN
     IF Exists(u) \/ LinksTo(job[a].client) # {}
     THEN UNCHANGED <<user, link>>
     ELSE /\ user' = [user EXCEPT ![u] = NewAccount]
          /\ link' = link \cup {NewLink(u, job[a].client)}
  /\ End(a)
  /\ UNCHANGED pki

EraseUser(a) ==
  /\ At(a, "erase")
  /\ user' = [user EXCEPT ![job[a].user] = NoAccount]
  /\ link' = link \ LinksOf(job[a].user)
  /\ End(a)
  /\ UNCHANGED pki

Next ==
  \E a \in Manager :
    \/ \E u \in User :
         \/ \E w \in Patches : StartPatch(a, u, w)
         \/ StartDelete(a, u) \/ StartErase(a, u) \/ Unlink(a, u)
         \/ \E c \in Client : StartLink(a, u, c) \/ StartCreate(a, u, c)
    \/ \E c \in Client, op \in ClientsPage : StartClient(a, op, c)
    \/ CommitUser(a) \/ Sync(a) \/ ListMacs(a)
    \/ Revoke(a) \/ Purge(a) \/ Restore(a) \/ Add(a) \/ ScriptFails(a)
    \/ Mirror(a) \/ Relink(a) \/ Insert(a) \/ EraseUser(a)

Spec == Init /\ [][Next]_vars

-----------------------------------------------------------------------------
(* Properties *)

\* One portal user, one VPN profile, and the user exists: no race of two
\* handlers that both found a client unlinked or a username free makes a second
\* link, and none outlives its user (link_vpn_profile, create_user,
\* auto_link_new_client, permanently_delete_user).
OneToOne ==
  /\ \A x, y \in link : x.user = y.user \/ x.client = y.client => x = y
  /\ \A x \in link : Exists(x.user)

\* The step in which a client loses its issued certificate is the Clients
\* page's, for that client.
CutByClientsPage(c) ==
  pki[c].issued /\ ~pki'[c].issued =>
    \E a \in Manager : /\ job'[a] # job[a]
                       /\ job[a].op \in ClientsPage /\ job[a].client = c

\* As long as a link is protected no handler of routes/users.py takes its
\* client's certificate, not even one that read the link long before
\* (VpnProfileLink.protected_from_auto_revoke).
ProtectedUntouched ==
  [][\A c \in Client :
       (\E x \in LinksTo(c) : x.protected) => CutByClientsPage(c)]_vars

\* What a certificate and an address let through.
Connectable(c) == pki[c].mac /\ (pki[c].issued \/ pki[c].stray)

\* A permanent delete leaves no "live cert with no owning portal user": whatever
\* failed before it, and whatever was restored or purged by hand, the client
\* cannot connect once the account is gone, unless another handler or a failing
\* script came in between (sync_before_portal_permanent_delete).
NoOrphanAccess ==
  [][\A a \in Manager :
       At(a, "erase") /\ job[a].calm /\ job[a].client # None
         /\ job'[a] # job[a] => ~Connectable(job[a].client)]_vars

-----------------------------------------------------------------------------
(* The inductive form of the four properties that hold. *)

\* Which steps a handler has, and what it knows at each.
Shape(j) ==
  \/ /\ j.op \in {"patch", "delete"} /\ j.user \in User
     /\ \/ j.step \in {"commit", "sync"}
        \/ j.step \in {"macs", "revoke", "restore"} /\ j.client \in Client
  \/ /\ j.op = "erase" /\ j.user \in User
     /\ \/ j.step \in {"revoke", "purge"} /\ j.client \in Client
        \/ j.step = "erase"
  \/ /\ \/ j.op = "link" /\ j.step = "relink"
        \/ j.op = "create" /\ j.step \in {"add", "insert"}
     /\ j.user \in User /\ j.client \in Client
  \/ j.op \in ClientsPage /\ j.step \in {j.op, "mirror"} /\ j.client \in Client

Shapes == \A a \in Manager : job[a] # NoJob => Shape(job[a])

\* An undisturbed request is the only one.
CalmAlone ==
  \A a \in Manager : job[a] # NoJob /\ job[a].calm =>
    \A b \in Manager \ {a} : job[b] = NoJob

\* Files are only lost under a name that has been revoked.
StrayPast == \A c \in Client : pki[c].stray => pki[c].past

\* How far a permanent delete has come.
EraseProgress ==
  \A a \in Manager :
    job[a] # NoJob /\ job[a].op = "erase" /\ job[a].calm /\ job[a].client # None =>
      /\ job[a].step = "purge" => ~pki[job[a].client].issued
      /\ job[a].step = "erase" => ~Connectable(job[a].client)

\* A handler of routes/users.py that is about to run a script on a client has
\* seen a link without protection, and no link gains protection.
Spared ==
  \A a \in Manager :
    /\ job[a] # NoJob /\ job[a].op \in {"patch", "delete", "erase"}
    /\ job[a].step \in {"macs", "revoke", "restore", "purge"}
    => \A x \in LinksTo(job[a].client) : ~x.protected

IInv ==
  TypeOK /\ Shapes /\ OneToOne /\ CalmAlone /\ StrayPast /\ EraseProgress /\ Spared
=============================================================================
