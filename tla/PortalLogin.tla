---------------------------- MODULE PortalLogin ----------------------------
(***************************************************************************)
(* Logging in to the portal: passwords and their lockout, the second       *)
(* factor, reset links, sessions (routes/auth.py, routes/mfa.py, auth.py,  *)
(* mfa.py), what managers do to an account's credentials (routes/users.py) *)
(* and the recovery of the bootstrap admin (cli_recover_admin.py).         *)
(*                                                                         *)
(* The whole session is a cookie: a request works on the copy it came with *)
(* and its response replaces the browser's.  `async' handlers run one at a *)
(* time on the event loop, the others in threads; each reads the account,  *)
(* works (a hash takes its time) and commits the columns it has changed.   *)
(***************************************************************************)
EXTENDS Naturals

CONSTANTS Users,       \* accounts; they share nothing but browsers
          Browsers,
          Threads,     \* requests that may be in progress
          None,        \* NULL, an absent key of a cookie, no request
          Mode,        \* Settings: mfa_mode
          RolePolicy,  \* mfa_role_requirements at each user's role, or None
          Threshold,   \* account_lockout_threshold, 0 for never
          LockTime,    \* account_lockout_minutes
          IdleTime,    \* session_timeout_minutes
          LinkTime,    \* PASSWORD_RESET_TOKEN_TTL_MINUTES
          TrustTime,   \* mfa_remember_device_days, 0 for never
          Ephemeral,   \* MFA_ENCRYPTION_KEY is unset: each start makes its own
          MaxNow,      \* bound: the clock
          MaxIds,      \* bound: secrets, codes, links and device tokens
          MaxRequests, \* bound: requests of browsers
          MaxEdits     \* bound: acts of managers, recoveries and restarts

Policies == {"required", "optional", "exempt"}
Time == 0..MaxNow
Id == 1..MaxIds
Later == Nat  \* times that are computed

ASSUME LoginAssumption ==
  /\ Mode \in {"required", "optional", "disabled"}
  /\ RolePolicy \in [Users -> Policies \cup {None}]
  /\ Threshold \in Nat /\ LockTime \in Nat \ {0} /\ IdleTime \in Nat
  /\ LinkTime \in Nat /\ TrustTime \in Nat /\ Ephemeral \in BOOLEAN
  /\ MaxNow \in Nat /\ MaxIds \in Nat \ {0, 1} /\ MaxRequests \in Nat /\ MaxEdits \in Nat
  /\ None \notin Users /\ None \notin Nat /\ None \notin Policies
  /\ None \notin Browsers

VARIABLES
  now,
  ids,      \* how many random values have been drawn
  acct,     \* table of users with the codes and devices of each
  cookie,   \* each browser's session
  device,   \* each browser's mfa_trusted_device cookie
  lost,     \* secrets that the key in use cannot decrypt
  job,      \* what each thread works on, see Job
  story,    \* history: wrong guesses at each account since its counter was 0,
            \* requests that had read what they change before another did, and
            \* whether one of them left an enrolment without its codes
  opened,   \* history: sessions that each account's recovery code has opened
  shown,    \* history: <<browser, user>> that ever showed a second factor
  requests, edits  \* spent bounds

vars == <<now, ids, acct, cookie, device, lost, job, story, opened, shown,
          requests, edits>>

\* active: is_active and not deleted.  A batch of recovery codes stands for its
\* codes, which are alike: `codes' has the rows, `used' those with a used_at.
Account ==
  [active : BOOLEAN, must : BOOLEAN, failed : Nat, locked : Later \cup {None},
   link : [id : Id, until : Later] \cup {None},
   enabled : BOOLEAN, secret : Id \cup {None}, force : BOOLEAN,
   misses : Nat, barred : Later \cup {None}, policy : Policies \cup {None},
   codes : SUBSET Id, used : SUBSET Id, devices : SUBSET [id : Id, until : Later]]

\* pending: mfa_pending_user_id; setup: mfa_setup_required_user_id; secret:
\* mfa_setup_secret; seen: last_activity.
Session == [user : Users \cup {None}, seen : Time \cup {None},
            pending : Users \cup {None}, setup : Users \cup {None},
            secret : Id \cup {None}]

\* Requests that end an enrolment: one's own (disable), a manager's who asks for a
\* new one (reset) or does not (strip).
Unenrolment == {"disable", "reset", "strip"}
Managed == {"assign", "reset", "strip"}  \* a manager's

\* view: the account as it was read; good: the password or the code was right;
\* code: the recovery code used.
Job == [kind : {"login", "verify", "enrol", "renew", "link", "change", "page"}
               \cup Unenrolment \cup Managed,
        b : Browsers \cup {None}, u : Users, cookie : Session, view : Account,
        good : BOOLEAN, code : Id \cup {None}]

Story == [tries : Nat, since : Time, codes : Nat, from : Time, late : Nat,
          bared : BOOLEAN]

TypeOK ==
  /\ now \in Time /\ ids \in 0..MaxIds
  /\ acct \in [Users -> Account]
  /\ cookie \in [Browsers -> Session]
  /\ device \in [Browsers -> Id \cup {None}]
  /\ lost \subseteq Id
  /\ job \in [Threads -> Job \cup {None}]
  /\ story \in [Users -> Story]
  /\ opened \in [Users \X Id -> Nat]
  /\ shown \subseteq Browsers \X Users
  /\ requests \in 0..MaxRequests /\ edits \in 0..MaxEdits

NewAccount ==
  [active |-> TRUE, must |-> TRUE, failed |-> 0, locked |-> None, link |-> None,
   enabled |-> FALSE, secret |-> None, force |-> FALSE, misses |-> 0,
   barred |-> None, policy |-> None, codes |-> {}, used |-> {}, devices |-> {}]

Empty == [user |-> None, seen |-> None, pending |-> None, setup |-> None,
          secret |-> None]

\* An account that has enrolled and chosen its password.
EnrolledAccount ==
  [NewAccount EXCEPT !.must = FALSE, !.enabled = TRUE, !.secret = 1, !.codes = {2}]

Init ==
  /\ now = 0 /\ ids = 2
  /\ acct \in [Users -> {NewAccount, EnrolledAccount,
                        [EnrolledAccount EXCEPT !.active = FALSE]}]
  /\ cookie = [b \in Browsers |-> Empty]
  /\ device = [b \in Browsers |-> None]
  /\ lost = {}
  /\ job = [t \in Threads |-> None]
  /\ story = [u \in Users |-> [tries |-> 0, since |-> 0, codes |-> 0, from |-> 0,
                             late |-> 0, bared |-> FALSE]]
  /\ opened = [x \in Users \X Id |-> 0]
  /\ shown = {}
  /\ requests = 0 /\ edits = 0

-----------------------------------------------------------------------------
(* Database and cookies *)

\* An UPDATE names the columns that differ from what was read.
Merge(view, new, cur) ==
  [f \in DOMAIN cur |-> IF new[f] # view[f] THEN new[f] ELSE cur[f]]

\* The account's row becomes a; which guess, if any, was judged wrong, or that the
\* request was late.
Save(u, a, event) ==
  /\ acct' = [acct EXCEPT ![u] = a]
  /\ story' = [story EXCEPT ![u] =
       [tries |-> IF a.failed = 0 THEN 0
                  ELSE @.tries + (IF event = "password" THEN 1 ELSE 0),
        since |-> IF a.failed = 0 \/ @.tries = 0 THEN now ELSE @.since,
        codes |-> IF a.misses = 0 THEN 0
                  ELSE @.codes + (IF event = "code" THEN 1 ELSE 0),
        from |-> IF a.misses = 0 \/ @.codes = 0 THEN now ELSE @.from,
        late |-> @.late + (IF event \in {"late", "bared"} THEN 1 ELSE 0),
        bared |-> a.codes = {} /\ (event = "bared" \/ @.bared)]]

\* Another request has changed one of these columns since j read them.
Event(j, columns) ==
  IF \E f \in columns : j.view[f] # acct[j.u][f] THEN "late" ELSE "none"
Counter == {"failed", "locked"}
Enrolment == {"enabled", "secret"}

\* A DELETE takes the codes it finds, at some moment from the read of the account
\* to the commit: those that were there and those drawn up to then (autoflush is
\* off: the UPDATE of the account waits for the commit).
Deleted(j, last) == {i \in Id : i \in j.view.codes \/ i =< last}
Without(a, dead) == [a EXCEPT !.codes = @ \ dead, !.used = @ \ dead]

\* SessionMiddleware: a session that is not empty is always sent, an empty one
\* only if the request had one.
Respond(b, old, new) ==
  cookie' = IF old = Empty /\ new = Empty THEN cookie
            ELSE [cookie EXCEPT ![b] = new]

Fresh == ids + 1
Draw == Fresh \in Id /\ ids' = Fresh

Async == {"login", "verify"}
LoopFree == \A t \in Threads : job[t] # None => job[t].kind \notin Async

Task(kind, b, u, c) ==
  [kind |-> kind, b |-> b, u |-> u, cookie |-> c, view |-> acct[u],
   good |-> TRUE, code |-> None]

Take(t, j) ==
  /\ job[t] = None /\ requests < MaxRequests
  /\ requests' = requests + 1
  /\ job' = [job EXCEPT ![t] = j]

Doing(t, kind) == job[t] # None /\ job[t].kind = kind
End(t) == job' = [job EXCEPT ![t] = None]

\* get_current_user
Expired(c) == c.seen # None /\ now > c.seen + IdleTime
Current(c) ==
  IF c.user # None /\ acct[c.user].active /\ ~Expired(c) THEN c.user ELSE None
Touched(c) == [c EXCEPT !.seen = now]

\* _pending_user
Waiting(u) == IF u # None /\ acct[u].active THEN u ELSE None

Locked(until) == until # None /\ until > now

\* effective_policy
Policy(u, a) ==
  IF Mode = "disabled" THEN "exempt"
  ELSE IF a.policy # None THEN a.policy
  ELSE IF RolePolicy[u] # None THEN RolePolicy[u] ELSE Mode

\* The login goes on to a second factor (trusted devices apart).
Challenged(u, a) ==
  Policy(u, a) = "required" \/ (Policy(u, a) = "optional" /\ a.enabled)

\* is_device_trusted
Trusted(b, u) == \E d \in acct[u].devices : d.id = device[b] /\ d.until >= now

\* A counter of wrong guesses and the lock it sets.
LocksLate(n) == Threshold > 0 /\ n > Threshold  \* wrong on purpose
Locks(n) == Threshold > 0 /\ n >= Threshold

-----------------------------------------------------------------------------
(* Logging in *)

\* POST /login up to the comparison of the hashes.  A request that is refused
\* before (captcha, unknown or suspended account, maintenance, place) changes
\* nothing.
StartLogin(t, b, u, good) ==
  /\ LoopFree
  /\ acct[u].active /\ ~Locked(acct[u].locked)
  /\ Take(t, [Task("login", b, u, cookie[b]) EXCEPT !.good = good])
  /\ UNCHANGED <<now, ids, acct, cookie, device, lost, story, opened, shown, edits>>

WrongPassword(t) ==
  /\ Doing(t, "login") /\ ~job[t].good
  /\ LET j == job[t]
         new == [j.view EXCEPT !.failed = @ + 1,
                   !.locked = IF Locks(j.view.failed + 1) THEN now + LockTime ELSE @] IN
     /\ Save(j.u, Merge(j.view, new, acct[j.u]), "password")
     /\ Respond(j.b, j.cookie, j.cookie)
  /\ End(t)
  /\ UNCHANGED <<now, ids, device, lost, opened, shown, requests, edits>>

AdmitFirst(b, u, seen, c) ==  \* wrong on purpose: the session before the second factor
  IF Policy(u, seen) = "required" /\ ~seen.enabled THEN [c EXCEPT !.setup = u]
  ELSE [c EXCEPT !.user = u, !.pending = IF Challenged(u, seen) THEN u ELSE @]

\* Where a right password leads: enrolment, the second factor or a session.
Admit(b, u, seen, c) ==
  IF Policy(u, seen) = "required" /\ ~seen.enabled THEN [c EXCEPT !.setup = u]
  ELSE IF Challenged(u, seen) /\ ~Trusted(b, u) THEN [c EXCEPT !.pending = u]
  ELSE [c EXCEPT !.user = u]

\* The counter is cleared, which refreshes what was read, or there was nothing to
\* clear; then the second factor is decided upon.
Cleared(view) == [view EXCEPT !.failed = 0, !.locked = None]
RightPassword(t) ==
  /\ Doing(t, "login") /\ job[t].good
  /\ LET j == job[t]
         u == j.u
         row == Merge(j.view, Cleared(j.view), acct[u])
         seen == IF Cleared(j.view) = j.view THEN j.view ELSE row IN
     /\ IF seen = j.view THEN UNCHANGED <<acct, story>> ELSE Save(u, row, "none")
     /\ Respond(j.b, j.cookie, Admit(j.b, u, seen, j.cookie))
  /\ End(t)
  /\ UNCHANGED <<now, ids, device, lost, opened, shown, requests, edits>>

UnspentOrNot(u, code) == code \in acct[u].codes  \* wrong on purpose: used_at is not asked for
Unspent(u, code) == code \in acct[u].codes \ acct[u].used

\* POST /mfa/verify up to the comparison: a code of the authenticator, of the
\* recovery list (`code') or neither.
StartVerify(t, b, good, code) ==
  /\ LoopFree
  /\ LET u == Waiting(cookie[b].pending) IN
     /\ u # None /\ ~Locked(acct[u].barred)
     /\ IF code # None THEN good = Unspent(u, code)
        ELSE good => acct[u].secret # None /\ acct[u].secret \notin lost
     /\ Take(t, [Task("verify", b, u, cookie[b]) EXCEPT !.good = good, !.code = code])
  /\ UNCHANGED <<now, ids, acct, cookie, device, lost, story, opened, shown, edits>>

WrongCode(t) ==
  /\ Doing(t, "verify") /\ ~job[t].good
  /\ LET j == job[t]
         new == [j.view EXCEPT !.misses = @ + 1,
                   !.barred = IF Locks(j.view.misses + 1) THEN now + LockTime ELSE @] IN
     /\ Save(j.u, Merge(j.view, new, acct[j.u]), "code")
     /\ Respond(j.b, j.cookie, j.cookie)
  /\ End(t)
  /\ UNCHANGED <<now, ids, device, lost, opened, shown, requests, edits>>

\* A recovery code is marked in a commit of its own, which fails when its row was
\* deleted meanwhile; after it the account is read again.
RightCode(t, remember) ==
  /\ Doing(t, "verify") /\ job[t].good
  /\ LET j == job[t]
         u == j.u
         view == IF j.code = None THEN j.view ELSE acct[u]
         row == Merge(view, [view EXCEPT !.misses = 0, !.barred = None], acct[u]) IN
     IF j.code # None /\ j.code \notin acct[u].codes
     THEN UNCHANGED <<ids, acct, cookie, device, story, opened, shown>>
     ELSE /\ IF remember
             THEN /\ TrustTime > 0 /\ Draw
                  /\ device' = [device EXCEPT ![j.b] = Fresh]
             ELSE UNCHANGED <<ids, device>>
          /\ Save(u, [row EXCEPT
                        !.used = IF j.code = None THEN @ ELSE @ \cup {j.code},
                        !.devices = IF remember
                          THEN @ \cup {[id |-> Fresh, until |-> now + TrustTime]}
                          ELSE @], "none")
          /\ Respond(j.b, j.cookie, [j.cookie EXCEPT !.pending = None, !.user = u])
          /\ opened' = IF j.code = None THEN opened ELSE [opened EXCEPT ![<<u, j.code>>] = @ + 1]
          /\ shown' = shown \cup {<<j.b, u>>}
  /\ End(t)
  /\ UNCHANGED <<now, lost, requests, edits>>

-----------------------------------------------------------------------------
(* Enrolment and recovery codes *)

\* A login that was told to enrol goes before a session.
Enrolling(b) ==
  IF Waiting(cookie[b].setup) # None THEN Waiting(cookie[b].setup) ELSE Current(cookie[b])

\* GET /mfa/setup
OpenSetup(b) ==
  /\ LET u == Enrolling(b) IN
     /\ u # None /\ (acct[u].enabled => Waiting(cookie[b].setup) # None)
     /\ Draw /\ requests < MaxRequests /\ requests' = requests + 1
     /\ cookie' = [cookie EXCEPT ![b].secret = Fresh]
  /\ UNCHANGED <<now, acct, device, lost, job, story, opened, shown, edits>>

\* POST /mfa/setup with the right code.
StartEnrol(t, b) ==
  /\ LET u == Enrolling(b)
         c == IF Waiting(cookie[b].setup) # None THEN cookie[b] ELSE Touched(cookie[b]) IN
     /\ u # None /\ c.secret # None
     /\ Take(t, Task("enrol", b, u, c))
  /\ UNCHANGED <<now, ids, acct, cookie, device, lost, story, opened, shown, edits>>

EndEnrol(t) ==
  /\ Doing(t, "enrol") /\ Draw
  /\ LET j == job[t]
         u == j.u
         new == [j.view EXCEPT !.secret = j.cookie.secret, !.enabled = TRUE,
                               !.force = FALSE]
         done == [j.cookie EXCEPT !.secret = None] IN
     /\ \E last \in 0..ids :
          Save(u, [Without(Merge(j.view, new, acct[u]), Deleted(j, last)) EXCEPT
                     !.codes = @ \cup {Fresh}], Event(j, Enrolment))
     /\ Respond(j.b, j.cookie,
          IF j.cookie.setup = u THEN [done EXCEPT !.setup = None, !.user = u] ELSE done)
     /\ shown' = shown \cup {<<j.b, u>>}
  /\ End(t)
  /\ UNCHANGED <<now, device, lost, opened, requests, edits>>

\* POST /api/me/mfa/recovery-codes/regenerate
StartRenew(t, b) ==
  /\ LET u == Current(cookie[b]) IN
     /\ u # None /\ acct[u].enabled
     /\ Take(t, Task("renew", b, u, Touched(cookie[b])))
  /\ UNCHANGED <<now, ids, acct, cookie, device, lost, story, opened, shown, edits>>

EndRenew(t) ==
  /\ Doing(t, "renew") /\ Draw
  /\ LET j == job[t] IN
     /\ \E last \in 0..ids :
          Save(j.u, [Without(acct[j.u], Deleted(j, last)) EXCEPT !.codes = @ \cup {Fresh}],
               "none")
     /\ Respond(j.b, j.cookie, j.cookie)
  /\ End(t)
  /\ UNCHANGED <<now, device, lost, opened, shown, requests, edits>>

DisabledHalf(a) == [a EXCEPT !.secret = None]  \* wrong on purpose
Disabled(a) == [a EXCEPT !.enabled = FALSE, !.secret = None]

\* POST /api/me/mfa/disable, up to the question whether there is an enrolment
StartDisable(t, b) ==
  /\ LET u == Current(cookie[b]) IN
     /\ u # None /\ acct[u].enabled
     /\ Take(t, Task("disable", b, u, Touched(cookie[b])))
  /\ UNCHANGED <<now, ids, acct, cookie, device, lost, story, opened, shown, edits>>

\* POST /api/users/{id}/mfa/reset and /mfa/disable, up to the read of the account
StartReset(t, u) ==
  /\ edits < MaxEdits /\ edits' = edits + 1
  /\ job[t] = None
  /\ \E kind \in {"reset", "strip"} : job' = [job EXCEPT ![t] = Task(kind, None, u, Empty)]
  /\ UNCHANGED <<now, ids, acct, cookie, device, lost, story, opened, shown, requests>>

\* Whoever read the account before it enrolled deletes the codes of the enrolment
\* and leaves the rest, whose columns it has not changed.
EndUnenrol(t) ==
  /\ job[t] # None /\ job[t].kind \in Unenrolment
  /\ LET j == job[t]
         new == [Disabled(j.view) EXCEPT !.force = (j.kind = "reset") \/ @]
         event == IF acct[j.u].enabled /\ ~j.view.enabled THEN "bared"
                  ELSE Event(j, Enrolment) IN
     /\ \E last \in 0..ids :
          Save(j.u, Without(Merge(j.view, new, acct[j.u]), Deleted(j, last)), event)
     /\ IF j.b = None THEN UNCHANGED cookie ELSE Respond(j.b, j.cookie, j.cookie)
  /\ End(t)
  /\ UNCHANGED <<now, ids, device, lost, opened, shown, requests, edits>>

\* A pending key of an account that was suspended is dropped by the next visit.
DropPending(b) ==
  /\ \E k \in {"pending", "setup"} :
       /\ cookie[b][k] # None /\ Waiting(cookie[b][k]) = None
       /\ cookie' = [cookie EXCEPT ![b][k] = None]
  /\ UNCHANGED <<now, ids, acct, device, lost, job, story, opened, shown, requests, edits>>

-----------------------------------------------------------------------------
(* Passwords *)

\* POST /forgot-password: issue_password_reset_token
Forgot(u) ==
  /\ LoopFree /\ acct[u].active /\ Draw
  /\ Save(u, [acct[u] EXCEPT !.link = [id |-> Fresh, until |-> now + LinkTime]], "none")
  /\ requests < MaxRequests /\ requests' = requests + 1
  /\ UNCHANGED <<now, cookie, device, lost, job, opened, shown, edits>>

\* POST /reset-password, get_user_by_reset_token; suspended accounts too.
StartLink(t, u) ==
  /\ acct[u].link # None /\ acct[u].link.until >= now
  /\ Take(t, Task("link", None, u, Empty))
  /\ UNCHANGED <<now, ids, acct, cookie, device, lost, story, opened, shown, edits>>

\* The password is set and the link is spent, whichever is in the row by now.
EndLink(t) ==
  /\ Doing(t, "link")
  /\ LET j == job[t]
         new == [Cleared(j.view) EXCEPT !.must = FALSE, !.link = None] IN
     Save(j.u, Merge(j.view, new, acct[j.u]), Event(j, Counter))
  /\ End(t)
  /\ UNCHANGED <<now, ids, cookie, device, lost, opened, shown, requests, edits>>

\* PATCH /api/users/me with the current password and a new one.
StartChange(t, b) ==
  /\ LET u == Current(cookie[b]) IN
     u # None /\ Take(t, Task("change", b, u, Touched(cookie[b])))
  /\ UNCHANGED <<now, ids, acct, cookie, device, lost, story, opened, shown, edits>>

EndChange(t) ==
  /\ Doing(t, "change")
  /\ LET j == job[t] IN
     /\ Save(j.u, Merge(j.view, [j.view EXCEPT !.must = FALSE], acct[j.u]), "none")
     /\ Respond(j.b, j.cookie, j.cookie)
  /\ End(t)
  /\ UNCHANGED <<now, ids, device, lost, opened, shown, requests, edits>>

\* PATCH /api/users/{id} with a password, by a manager.
StartAssign(t, u) ==
  /\ edits < MaxEdits /\ edits' = edits + 1
  /\ job[t] = None /\ job' = [job EXCEPT ![t] = Task("assign", None, u, Empty)]
  /\ UNCHANGED <<now, ids, acct, cookie, device, lost, story, opened, shown, requests>>

EndAssign(t) ==
  /\ Doing(t, "assign")
  /\ LET j == job[t] IN
     Save(j.u, Merge(j.view, [Cleared(j.view) EXCEPT !.must = TRUE], acct[j.u]),
          Event(j, Counter))
  /\ End(t)
  /\ UNCHANGED <<now, ids, cookie, device, lost, opened, shown, requests, edits>>

-----------------------------------------------------------------------------
(* Managers, the recovery tool, pages, restarts *)

Edit(u, a) ==
  /\ edits < MaxEdits /\ edits' = edits + 1
  /\ Save(u, a, "none")
  /\ UNCHANGED <<now, ids, cookie, device, lost, job, opened, shown, requests>>

\* PATCH /api/users/{id}: is_active, force_password_reset, mfa_policy_override
Suspend(u) == acct[u].active /\ Edit(u, [acct[u] EXCEPT !.active = FALSE])
Reactivate(u) == ~acct[u].active /\ Edit(u, [acct[u] EXCEPT !.active = TRUE])
FlagReset(u) == Edit(u, [acct[u] EXCEPT !.must = ~@])
SetPolicy(u, p) == acct[u].policy # p /\ Edit(u, [acct[u] EXCEPT !.policy = p])

\* POST /api/users/{id}/mfa/force-enroll
ForceEnrol(u) == Edit(u, [acct[u] EXCEPT !.force = TRUE])

\* recover-admin.sh, for the bootstrap admin: --unlock, --clear-mfa,
\* --regenerate-recovery-codes, --reset-password
Unbarred(a) == [a EXCEPT !.misses = 0, !.barred = None]
Unlock(u) == Edit(u, Unbarred(Cleared(acct[u])))
ClearMfa(u) ==
  Edit(u, Unbarred([Disabled(acct[u]) EXCEPT !.force = TRUE, !.codes = {}, !.used = {}]))
RecoverPassword(u) == Edit(u, [Cleared(acct[u]) EXCEPT !.must = TRUE])
RecoverCodes(u) ==
  /\ acct[u].enabled /\ Draw
  /\ edits < MaxEdits /\ edits' = edits + 1
  /\ Save(u, [acct[u] EXCEPT !.codes = {Fresh}, !.used = {}], "none")
  /\ UNCHANGED <<now, cookie, device, lost, job, opened, shown, requests>>

Manage(u) ==
  \/ Suspend(u) \/ Reactivate(u) \/ FlagReset(u)
  \/ \E p \in Policies \cup {None} : SetPolicy(u, p)
  \/ ForceEnrol(u) \/ Unlock(u) \/ ClearMfa(u) \/ RecoverPassword(u) \/ RecoverCodes(u)

\* Any page or call of a browser that is logged in; a session that has expired is
\* cleared.
StartPage(t, b) ==
  /\ LET c == cookie[b] IN
     /\ c.user # None /\ acct[c.user].active
     /\ Take(t, Task("page", b, c.user, IF Expired(c) THEN Empty ELSE Touched(c)))
  /\ UNCHANGED <<now, ids, acct, cookie, device, lost, story, opened, shown, edits>>

EndPage(t) ==
  /\ Doing(t, "page")
  /\ cookie' = [cookie EXCEPT ![job[t].b] = job[t].cookie]
  /\ End(t)
  /\ UNCHANGED <<now, ids, acct, device, lost, story, opened, shown, requests, edits>>

Logout(b) ==
  /\ cookie[b] # Empty
  /\ cookie' = [cookie EXCEPT ![b] = Empty]
  /\ UNCHANGED <<now, ids, acct, device, lost, job, story, opened, shown, requests, edits>>

\* Without a key of its own the portal forgets how to read the secrets.
Restart ==
  /\ edits < MaxEdits /\ edits' = edits + 1
  /\ job' = [t \in Threads |-> None]
  /\ lost' = IF Ephemeral THEN 1..ids ELSE lost
  /\ UNCHANGED <<now, ids, acct, cookie, device, story, opened, shown, requests>>

Tick ==
  /\ now < MaxNow /\ now' = now + 1
  /\ UNCHANGED <<ids, acct, cookie, device, lost, job, story, opened, shown, requests, edits>>

Serve(t) ==
  \/ WrongPassword(t) \/ RightPassword(t)
  \/ WrongCode(t) \/ \E r \in BOOLEAN : RightCode(t, r)
  \/ EndEnrol(t) \/ EndRenew(t) \/ EndUnenrol(t) \/ EndLink(t) \/ EndChange(t) \/ EndAssign(t)
  \/ EndPage(t)

Ask(t) ==
  \/ \E b \in Browsers :
       \/ \E u \in Users, good \in BOOLEAN : StartLogin(t, b, u, good)
       \/ \E good \in BOOLEAN, code \in Id \cup {None} : StartVerify(t, b, good, code)
       \/ StartEnrol(t, b) \/ StartRenew(t, b) \/ StartDisable(t, b)
       \/ StartChange(t, b) \/ StartPage(t, b)
  \/ \E u \in Users : StartLink(t, u) \/ StartAssign(t, u) \/ StartReset(t, u)

Next ==
  \/ \E t \in Threads : Ask(t) \/ Serve(t)
  \/ \E b \in Browsers : OpenSetup(b) \/ DropPending(b) \/ Logout(b)
  \/ \E u \in Users : Forgot(u) \/ Manage(u)
  \/ Restart \/ Tick

Spec == Init /\ [][Next]_vars

-----------------------------------------------------------------------------
(* Properties *)

\* Guessing is slow: after as many wrong guesses as the threshold allows, each
\* further one has waited for a lock to run out, for passwords and for codes,
\* however logins, resets, managers and restarts interleave (auth.py:191-217,
\* mfa.py:70-81).  One reset of the password may be late: it leaves a lock
\* without a count; a second one may take a lock and leave the count.
GuessRate ==
  Threshold > 0 => \A u \in Users :
    /\ story[u].late =< 1 /\ story[u].tries > Threshold =>
         (story[u].tries - Threshold) * LockTime <= now - story[u].since
    /\ story[u].codes > Threshold =>
         (story[u].codes - Threshold) * LockTime <= now - story[u].from

\* A recovery code opens one session at most (mfa.py:130-146).
CodeOnce == \A u \in Users, i \in Id : opened[<<u, i>>] <= 1

\* An enrolled account has a secret to be asked for and codes to fall back on,
\* whatever renewals, managers, the recovery and one late enrolment do at the same
\* time.  The exception: a reset that read the account before it enrolled clears
\* the codes of the enrolment and not the enrolment (routes/users.py:1490-1495);
\* it lasts until codes are drawn again.
EnrolmentWhole ==
  \A u \in Users : acct[u].enabled =>
    /\ acct[u].codes # {} \/ story[u].bared
    /\ story[u].late =< 1 => acct[u].secret # None

\* A password alone opens no session of an account that is challenged, from the
\* start of the request to its end: the browser has shown a second factor before.
SecondFactor ==
  [][\A t \in Threads :
       Doing(t, "login") /\ job[t].good /\ job'[t] = None /\ cookie' # cookie =>
         LET u == job[t].u IN
         Challenged(u, job[t].view) /\ Challenged(u, acct[u])
         /\ job[t].cookie.user # u /\ cookie'[job[t].b].user = u =>
           <<job[t].b, u>> \in shown]_vars
=============================================================================
