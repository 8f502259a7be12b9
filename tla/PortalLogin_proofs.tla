------------------------- MODULE PortalLogin_proofs -------------------------
(***************************************************************************)
(* Proofs about PortalLogin, for any accounts, browsers, threads, policies,*)
(* thresholds and bounds.                                                  *)
(***************************************************************************)
EXTENDS PortalLogin, TLAPS

-----------------------------------------------------------------------------
(* Rows.                                                                   *)

LEMMA Merged ==
  ASSUME NEW view \in Account, NEW new \in Account, NEW cur \in Account
  PROVE  Merge(view, new, cur) =
           [active |-> IF new.active # view.active THEN new.active ELSE cur.active,
            must |-> IF new.must # view.must THEN new.must ELSE cur.must,
            failed |-> IF new.failed # view.failed THEN new.failed ELSE cur.failed,
            locked |-> IF new.locked # view.locked THEN new.locked ELSE cur.locked,
            link |-> IF new.link # view.link THEN new.link ELSE cur.link,
            enabled |-> IF new.enabled # view.enabled THEN new.enabled ELSE cur.enabled,
            secret |-> IF new.secret # view.secret THEN new.secret ELSE cur.secret,
            force |-> IF new.force # view.force THEN new.force ELSE cur.force,
            misses |-> IF new.misses # view.misses THEN new.misses ELSE cur.misses,
            barred |-> IF new.barred # view.barred THEN new.barred ELSE cur.barred,
            policy |-> IF new.policy # view.policy THEN new.policy ELSE cur.policy,
            codes |-> IF new.codes # view.codes THEN new.codes ELSE cur.codes,
            used |-> IF new.used # view.used THEN new.used ELSE cur.used,
            devices |-> IF new.devices # view.devices THEN new.devices ELSE cur.devices]
BY DEF Merge, Account

LEMMA MergedIsRow ==
  ASSUME NEW view \in Account, NEW new \in Account, NEW cur \in Account
  PROVE  Merge(view, new, cur) \in Account
BY Merged, SMTT(30) DEF Account

\* The same, column by column.
LEMMA MergedColumns ==
  ASSUME NEW view \in Account, NEW new \in Account, NEW cur \in Account,
         NEW row, row = Merge(view, new, cur)
  PROVE  /\ row \in Account
         /\ row.active = IF new.active # view.active THEN new.active ELSE cur.active
         /\ row.must = IF new.must # view.must THEN new.must ELSE cur.must
         /\ row.failed = IF new.failed # view.failed THEN new.failed ELSE cur.failed
         /\ row.locked = IF new.locked # view.locked THEN new.locked ELSE cur.locked
         /\ row.link = IF new.link # view.link THEN new.link ELSE cur.link
         /\ row.enabled = IF new.enabled # view.enabled THEN new.enabled ELSE cur.enabled
         /\ row.secret = IF new.secret # view.secret THEN new.secret ELSE cur.secret
         /\ row.force = IF new.force # view.force THEN new.force ELSE cur.force
         /\ row.misses = IF new.misses # view.misses THEN new.misses ELSE cur.misses
         /\ row.barred = IF new.barred # view.barred THEN new.barred ELSE cur.barred
         /\ row.policy = IF new.policy # view.policy THEN new.policy ELSE cur.policy
         /\ row.codes = IF new.codes # view.codes THEN new.codes ELSE cur.codes
         /\ row.used = IF new.used # view.used THEN new.used ELSE cur.used
         /\ row.devices = IF new.devices # view.devices THEN new.devices ELSE cur.devices
<1>1. row = [f \in DOMAIN cur |-> IF new[f] # view[f] THEN new[f] ELSE cur[f]]
  BY DEF Merge
<1>2. row \in Account
  BY MergedIsRow
<1>3. QED
  BY <1>1, <1>2 DEF Account

LEMMA Rows ==
  /\ None \notin Nat /\ LockTime \in Nat \ {0} /\ Threshold \in Nat /\ LinkTime \in Nat
  /\ TrustTime \in Nat /\ MaxIds \in Nat /\ MaxNow \in Nat
  /\ NewAccount \in Account /\ EnrolledAccount \in Account
  /\ Empty \in Session
<1>1. 1 \in Id /\ 2 \in Id
  BY LoginAssumption DEF Id
<1>2. NewAccount \in Account
  BY DEF NewAccount, Account
<1>3. EnrolledAccount \in Account
  BY <1>1, <1>2 DEF EnrolledAccount, NewAccount, Account
<1>4. Empty \in Session
  BY DEF Empty, Session
<1>5. QED
  BY <1>2, <1>3, <1>4, LoginAssumption

\* The other accounts are as they were, and so are their histories.
LEMMA Saved ==
  ASSUME TypeOK, NEW u \in Users, NEW a \in Account, NEW event, Save(u, a, event)
  PROVE  /\ acct' \in [Users -> Account] /\ story' \in [Users -> Story]
         /\ acct'[u] = a
         /\ \A v \in Users : v # u => acct'[v] = acct[v] /\ story'[v] = story[v]
         /\ story'[u].tries = IF a.failed = 0 THEN 0
                              ELSE story[u].tries + (IF event = "password" THEN 1 ELSE 0)
         /\ story'[u].since = IF a.failed = 0 \/ story[u].tries = 0 THEN now ELSE story[u].since
         /\ story'[u].codes = IF a.misses = 0 THEN 0
                              ELSE story[u].codes + (IF event = "code" THEN 1 ELSE 0)
         /\ story'[u].from = IF a.misses = 0 \/ story[u].codes = 0 THEN now ELSE story[u].from
         /\ story'[u].late = story[u].late + (IF event \in {"late", "bared"} THEN 1 ELSE 0)
         /\ story'[u].bared = (a.codes = {} /\ (event = "bared" \/ story[u].bared))
<1>1. /\ acct \in [Users -> Account] /\ story \in [Users -> Story] /\ now \in Time
      /\ story[u] \in Story
  BY DEF TypeOK
<1>2. acct' = [acct EXCEPT ![u] = a]
  BY DEF Save
<1> DEFINE s == [tries |-> IF a.failed = 0 THEN 0
                           ELSE story[u].tries + (IF event = "password" THEN 1 ELSE 0),
                 since |-> IF a.failed = 0 \/ story[u].tries = 0 THEN now ELSE story[u].since,
                 codes |-> IF a.misses = 0 THEN 0
                           ELSE story[u].codes + (IF event = "code" THEN 1 ELSE 0),
                 from |-> IF a.misses = 0 \/ story[u].codes = 0 THEN now ELSE story[u].from,
                 late |-> story[u].late + (IF event \in {"late", "bared"} THEN 1 ELSE 0),
                 bared |-> a.codes = {} /\ (event = "bared" \/ story[u].bared)]
<1>3. story' = [story EXCEPT ![u] = s]
  BY <1>1 DEF Save
<1>4. s \in Story
  BY <1>1 DEF Story
<1>5. /\ s.tries = IF a.failed = 0 THEN 0
                   ELSE story[u].tries + (IF event = "password" THEN 1 ELSE 0)
      /\ s.since = IF a.failed = 0 \/ story[u].tries = 0 THEN now ELSE story[u].since
      /\ s.codes = IF a.misses = 0 THEN 0
                   ELSE story[u].codes + (IF event = "code" THEN 1 ELSE 0)
      /\ s.from = IF a.misses = 0 \/ story[u].codes = 0 THEN now ELSE story[u].from
      /\ s.late = story[u].late + (IF event \in {"late", "bared"} THEN 1 ELSE 0)
      /\ s.bared = (a.codes = {} /\ (event = "bared" \/ story[u].bared))
  OBVIOUS
<1> HIDE DEF s
<1>6. story' \in [Users -> Story] /\ story'[u] = s
      /\ \A v \in Users : v # u => story'[v] = story[v]
  BY <1>1, <1>3, <1>4
<1>7. acct' \in [Users -> Account] /\ acct'[u] = a
      /\ \A v \in Users : v # u => acct'[v] = acct[v]
  BY <1>1, <1>2
<1>8. QED
  BY <1>5, <1>6, <1>7

\* A request that starts.
LEMMA Started ==
  ASSUME TypeOK, NEW t \in Threads, NEW j \in Job, Take(t, j)
  PROVE  job' \in [Threads -> Job \cup {None}] /\ requests' \in 0..MaxRequests
BY LoginAssumption DEF Take, TypeOK

LEMMA TaskIsJob ==
  ASSUME TypeOK, NEW b \in Browsers \cup {None}, NEW u \in Users, NEW c \in Session,
         NEW kind \in {"login", "verify", "enrol", "renew", "link", "change", "assign",
                       "page", "disable", "reset", "strip"}
  PROVE  Task(kind, b, u, c) \in Job
BY DEF Task, Job, TypeOK, Unenrolment, Managed

LEMMA Answered ==
  ASSUME TypeOK, NEW b \in Browsers, NEW old \in Session, NEW new \in Session,
         Respond(b, old, new)
  PROVE  cookie' \in [Browsers -> Session]
BY DEF Respond, TypeOK

LEMMA Copies ==
  ASSUME TypeOK, NEW b \in Browsers
  PROVE  /\ cookie[b] \in Session /\ Touched(cookie[b]) \in Session
         /\ Current(cookie[b]) # None => Current(cookie[b]) \in Users
         /\ Waiting(cookie[b].pending) # None => Waiting(cookie[b].pending) \in Users
         /\ Waiting(cookie[b].setup) # None => Waiting(cookie[b].setup) \in Users
         /\ Enrolling(b) # None => Enrolling(b) \in Users
BY DEF TypeOK, Session, Touched, Current, Waiting, Enrolling

LEMMA TypeSaved ==
  ASSUME TypeOK, NEW u \in Users, NEW a \in Account, NEW event, Save(u, a, event),
         now' = now, ids' \in 0..MaxIds, cookie' \in [Browsers -> Session],
         device' \in [Browsers -> Id \cup {None}], lost' = lost,
         job' \in [Threads -> Job \cup {None}], opened' \in [Users \X Id -> Nat],
         shown' \subseteq Browsers \X Users,
         requests' \in 0..MaxRequests, edits' \in 0..MaxEdits
  PROVE  TypeOK'
BY Saved DEF TypeOK

\* The rows of the requests that end.
LEMMA JobOf ==
  ASSUME TypeOK, NEW t \in Threads, job[t] # None
  PROVE  /\ job[t] \in Job /\ job[t].u \in Users /\ job[t].view \in Account
         /\ acct[job[t].u] \in Account /\ job[t].cookie \in Session
         /\ job[t].code \in Id \cup {None}
         /\ job[t].b \in Browsers \cup {None}
BY DEF TypeOK, Job

LEMMA Cleaned ==
  ASSUME NEW a \in Account
  PROVE  /\ Cleared(a) \in Account /\ Unbarred(a) \in Account /\ Disabled(a) \in Account
         /\ Cleared(a) = [a EXCEPT !.failed = 0, !.locked = None]
BY ZenonT(60) DEF Cleared, Unbarred, Disabled, Account

LEMMA Deletes ==
  ASSUME NEW a \in Account, NEW dead
  PROVE  /\ Without(a, dead) \in Account
         /\ Without(a, dead) = [a EXCEPT !.codes = a.codes \ dead, !.used = a.used \ dead]
BY DEF Without, Account
-----------------------------------------------------------------------------
(* What each request writes.                                               *)

SamePassword(a, c) == a.failed = c.failed /\ a.locked = c.locked
SameCode(a, c) == a.misses = c.misses /\ a.barred = c.barred
SameFactor(a, c) == a.enabled = c.enabled /\ a.secret = c.secret
SameCodes(a, c) == a.codes = c.codes /\ a.used = c.used

LEMMA PasswordRow ==
  ASSUME TypeOK, NEW t \in Threads, WrongPassword(t)
  PROVE  \E a \in Account :
           LET v == job[t].view  c == acct[job[t].u] IN
           /\ Save(job[t].u, a, "password")
           /\ a.failed = v.failed + 1
           /\ a.locked = IF Locks(v.failed + 1) /\ now + LockTime # v.locked
                         THEN now + LockTime ELSE c.locked
           /\ SameCode(a, c) /\ SameFactor(a, c) /\ SameCodes(a, c) /\ a.devices = c.devices
<1>0. PICK v, c, n, until : /\ v = job[t].view /\ c = acct[job[t].u] /\ n = v.failed + 1
                            /\ until = IF Locks(n) THEN now + LockTime ELSE v.locked
  OBVIOUS
<1>1. v \in Account /\ c \in Account /\ n \in Nat /\ until \in Later \cup {None}
  BY <1>0, JobOf, Rows DEF WrongPassword, Doing, TypeOK, Time, Later, Account
<1>2. PICK new : new = [v EXCEPT !.failed = n, !.locked = until]
  OBVIOUS
<1>3. /\ new \in Account /\ new.failed = n /\ new.locked = until
      /\ SameCode(new, v) /\ SameFactor(new, v) /\ SameCodes(new, v) /\ new.devices = v.devices
  BY <1>1, <1>2 DEF Account, SameCode, SameFactor, SameCodes
<1>4. PICK a : a = Merge(v, new, c)
  OBVIOUS
<1>5. Save(job[t].u, a, "password")
  BY <1>0, <1>1, <1>2, <1>4 DEF WrongPassword, Account
<1>6. /\ a \in Account /\ a.failed = v.failed + 1
      /\ a.locked = IF Locks(v.failed + 1) /\ now + LockTime # v.locked
                    THEN now + LockTime ELSE c.locked
      /\ SameCode(a, c) /\ SameFactor(a, c) /\ SameCodes(a, c) /\ a.devices = c.devices
  BY <1>0, <1>1, <1>3, <1>4, MergedColumns DEF Account, SameCode, SameFactor, SameCodes
<1>7. QED
  BY <1>0, <1>5, <1>6

LEMMA LoginRow ==
  ASSUME TypeOK, NEW t \in Threads, RightPassword(t), ~UNCHANGED <<acct, story>>
  PROVE  \E a \in Account :
           LET v == job[t].view  c == acct[job[t].u] IN
           /\ Save(job[t].u, a, "none")
           /\ a.failed = IF v.failed # 0 THEN 0 ELSE c.failed
           /\ a.locked = IF v.locked # None THEN None ELSE c.locked
           /\ SameCode(a, c) /\ SameFactor(a, c) /\ SameCodes(a, c) /\ a.devices = c.devices
<1>0. PICK v, c, new : v = job[t].view /\ c = acct[job[t].u] /\ new = Cleared(v)
  OBVIOUS
<1>1. v \in Account /\ c \in Account
  BY <1>0, JobOf DEF RightPassword, Doing
<1>2. /\ new \in Account /\ new.failed = 0 /\ new.locked = None
      /\ SameCode(new, v) /\ SameFactor(new, v) /\ SameCodes(new, v) /\ new.devices = v.devices
  BY <1>0, <1>1, ZenonT(60) DEF Cleared, Account, SameCode, SameFactor, SameCodes
<1>3. PICK a : a = Merge(v, new, c)
  OBVIOUS
<1>4. Save(job[t].u, a, "none")
  BY <1>0, <1>3 DEF RightPassword
<1>5. /\ a \in Account
      /\ a.failed = IF v.failed # 0 THEN 0 ELSE c.failed
      /\ a.locked = IF v.locked # None THEN None ELSE c.locked
      /\ SameCode(a, c) /\ SameFactor(a, c) /\ SameCodes(a, c) /\ a.devices = c.devices
  BY <1>1, <1>2, <1>3, MergedColumns DEF SameCode, SameFactor, SameCodes
<1>6. QED
  BY <1>0, <1>4, <1>5

LEMMA CodeRow ==
  ASSUME TypeOK, NEW t \in Threads, WrongCode(t)
  PROVE  \E a \in Account :
           LET v == job[t].view  c == acct[job[t].u] IN
           /\ Save(job[t].u, a, "code")
           /\ a.misses = v.misses + 1
           /\ a.barred = IF Locks(v.misses + 1) /\ now + LockTime # v.barred
                         THEN now + LockTime ELSE c.barred
           /\ SamePassword(a, c) /\ SameFactor(a, c) /\ SameCodes(a, c) /\ a.devices = c.devices
<1>0. PICK v, c, n, until : /\ v = job[t].view /\ c = acct[job[t].u] /\ n = v.misses + 1
                            /\ until = IF Locks(n) THEN now + LockTime ELSE v.barred
  OBVIOUS
<1>1. v \in Account /\ c \in Account /\ n \in Nat /\ until \in Later \cup {None}
  BY <1>0, JobOf, Rows DEF WrongCode, Doing, TypeOK, Time, Later, Account
<1>2. PICK new : new = [v EXCEPT !.misses = n, !.barred = until]
  OBVIOUS
<1>3. /\ new \in Account /\ new.misses = n /\ new.barred = until
      /\ SamePassword(new, v) /\ SameFactor(new, v) /\ SameCodes(new, v)
      /\ new.devices = v.devices
  BY <1>1, <1>2 DEF Account, SamePassword, SameFactor, SameCodes
<1>4. PICK a : a = Merge(v, new, c)
  OBVIOUS
<1>5. Save(job[t].u, a, "code")
  BY <1>0, <1>1, <1>2, <1>4 DEF WrongCode, Account
<1>6. /\ a \in Account /\ a.misses = v.misses + 1
      /\ a.barred = IF Locks(v.misses + 1) /\ now + LockTime # v.barred
                    THEN now + LockTime ELSE c.barred
      /\ SamePassword(a, c) /\ SameFactor(a, c) /\ SameCodes(a, c) /\ a.devices = c.devices
  BY <1>0, <1>1, <1>3, <1>4, MergedColumns, SMTT(30) DEF Account, SamePassword, SameFactor, SameCodes
<1>7. QED
  BY <1>0, <1>5, <1>6

\* The session is opened: the code is spent, the device is remembered.
LEMMA FactorRow ==
  ASSUME TypeOK, NEW t \in Threads, NEW remember \in BOOLEAN, RightCode(t, remember),
         job[t].code # None => job[t].code \in acct[job[t].u].codes
  PROVE  \E a \in Account :
           LET v == job[t].view  c == acct[job[t].u] IN
           /\ Save(job[t].u, a, "none")
           /\ a.misses = IF job[t].code # None \/ v.misses # 0 THEN 0 ELSE c.misses
           /\ a.barred \in {None, c.barred}
           /\ a.codes = c.codes
           /\ a.used = IF job[t].code = None THEN c.used ELSE c.used \cup {job[t].code}
           /\ a.devices = IF remember
                          THEN c.devices \cup {[id |-> Fresh, until |-> now + TrustTime]}
                          ELSE c.devices
           /\ SamePassword(a, c) /\ SameFactor(a, c)
<1>0. PICK v, c, code, trusted :
        /\ code = job[t].code /\ c = acct[job[t].u]
        /\ v = IF code = None THEN job[t].view ELSE c
        /\ trusted = [id |-> Fresh, until |-> now + TrustTime]
  OBVIOUS
<1>1. v \in Account /\ c \in Account /\ code \in Id \cup {None}
  BY <1>0, JobOf DEF RightCode, Doing
<1>2. PICK new : new = [v EXCEPT !.misses = 0, !.barred = None]
  OBVIOUS
<1>3. /\ new \in Account /\ new.misses = 0 /\ new.barred = None
      /\ SamePassword(new, v) /\ SameFactor(new, v) /\ SameCodes(new, v)
      /\ new.devices = v.devices
  BY <1>1, <1>2 DEF Account, SamePassword, SameFactor, SameCodes
<1>4. PICK row : row = Merge(v, new, c)
  OBVIOUS
<1>5. /\ row \in Account
      /\ row.misses = IF v.misses # 0 THEN 0 ELSE c.misses
      /\ row.barred \in {None, c.barred}
      /\ SamePassword(row, c) /\ SameFactor(row, c) /\ SameCodes(row, c)
      /\ row.devices = c.devices
  BY <1>1, <1>3, <1>4, MergedColumns DEF SamePassword, SameFactor, SameCodes
<1>6. PICK used, devices :
        /\ used = IF code = None THEN row.used ELSE row.used \cup {code}
        /\ devices = IF remember THEN row.devices \cup {trusted} ELSE row.devices
  OBVIOUS
<1>7. remember => trusted \in [id : Id, until : Later]
  <2>1. HAVE remember
  <2>2. Draw /\ now \in Nat /\ TrustTime \in Nat
    BY <1>0, <2>1, Rows DEF RightCode, TypeOK, Time
  <2>3. QED
    BY <1>0, <2>2 DEF Draw, Later
<1>8. used \in SUBSET Id /\ devices \in SUBSET [id : Id, until : Later]
  BY <1>1, <1>5, <1>6, <1>7 DEF Account
<1>9. PICK a : a = [row EXCEPT !.used = used, !.devices = devices]
  OBVIOUS
<1>10. Save(job[t].u, a, "none")
  BY <1>0, <1>2, <1>4, <1>6, <1>9 DEF RightCode
<1>11. /\ a \in Account /\ a.misses = row.misses /\ a.barred = row.barred /\ a.codes = row.codes
       /\ a.used = used /\ a.devices = devices
       /\ SamePassword(a, row) /\ SameFactor(a, row)
  BY <1>5, <1>8, <1>9 DEF Account, SamePassword, SameFactor
<1>12. a.misses = IF code # None \/ job[t].view.misses # 0 THEN 0 ELSE c.misses
  BY <1>0, <1>1, <1>5, <1>11, SMTT(30) DEF Account
<1>13. QED
  BY <1>0, <1>5, <1>6, <1>10, <1>11, <1>12 DEF SamePassword, SameFactor, SameCodes

\* The secret of the cookie is stored, codes are replaced.
LEMMA EnrolRow ==
  ASSUME TypeOK, NEW t \in Threads, EndEnrol(t), job[t].cookie.secret # None
  PROVE  \E a \in Account, dead \in SUBSET Id :
           LET v == job[t].view  c == acct[job[t].u]  s == job[t].cookie.secret IN
           /\ Save(job[t].u, a, Event(job[t], Enrolment))
           /\ ~v.enabled => a.enabled
           /\ v.enabled => a.enabled = c.enabled
           /\ a.secret = IF s # v.secret THEN s ELSE c.secret
           /\ a.codes = (c.codes \ dead) \cup {Fresh}
           /\ a.used = c.used \ dead
           /\ SamePassword(a, c) /\ SameCode(a, c) /\ a.devices = c.devices
<1>0. PICK v, c, s :
        v = job[t].view /\ c = acct[job[t].u] /\ s = job[t].cookie.secret
  OBVIOUS
<1>1. /\ v \in Account /\ c \in Account /\ s \in Id /\ Fresh \in Id
  BY <1>0, JobOf DEF EndEnrol, Doing, Session, Draw
<1>2. PICK new : new = [v EXCEPT !.secret = s, !.enabled = TRUE, !.force = FALSE]
  OBVIOUS
<1>3. /\ new \in Account /\ new.secret = s /\ new.enabled = TRUE
      /\ SamePassword(new, v) /\ SameCode(new, v) /\ SameCodes(new, v)
      /\ new.devices = v.devices
  BY <1>1, <1>2 DEF Account, SamePassword, SameCode, SameCodes
<1>4. PICK row : row = Merge(v, new, c)
  OBVIOUS
<1>5. /\ row \in Account
      /\ row.secret = IF s # v.secret THEN s ELSE c.secret
      /\ row.enabled = IF TRUE # v.enabled THEN TRUE ELSE c.enabled
      /\ SamePassword(row, c) /\ SameCode(row, c) /\ SameCodes(row, c)
      /\ row.devices = c.devices
  <2>1. /\ row \in Account
        /\ row.secret = IF new.secret # v.secret THEN new.secret ELSE c.secret
        /\ row.enabled = IF new.enabled # v.enabled THEN new.enabled ELSE c.enabled
    BY <1>1, <1>3, <1>4, MergedColumns
  <2>2. /\ SamePassword(row, c) /\ SameCode(row, c) /\ SameCodes(row, c)
        /\ row.devices = c.devices
    BY <1>1, <1>3, <1>4, MergedColumns DEF SamePassword, SameCode, SameCodes
  <2>3. QED
    BY <1>3, <2>1, <2>2
<1>6. PICK last \in 0..ids :
         Save(job[t].u, [Without(row, Deleted(job[t], last)) EXCEPT !.codes = @ \cup {Fresh}],
              Event(job[t], Enrolment))
  BY <1>0, <1>2, <1>4 DEF EndEnrol
<1>7. PICK dead : dead = Deleted(job[t], last)
  OBVIOUS
<1>8. dead \in SUBSET Id
  BY <1>7 DEF Deleted
<1>9. PICK codes, used :
        codes = (c.codes \ dead) \cup {Fresh} /\ used = c.used \ dead
  OBVIOUS
<1>10. codes \in SUBSET Id /\ used \in SUBSET Id
  BY <1>1, <1>9 DEF Account
<1>11. PICK a : a = [row EXCEPT !.codes = codes, !.used = used]
  OBVIOUS
<1>12. Save(job[t].u, a, Event(job[t], Enrolment))
  <2>1. PICK d : d = Without(row, dead)
    OBVIOUS
  <2>2. d = [row EXCEPT !.codes = row.codes \ dead, !.used = row.used \ dead] /\ d \in Account
    BY <1>5, <2>1, Deletes
  <2>3. [d EXCEPT !.codes = d.codes \cup {Fresh}] = a
    BY <1>5, <1>9, <1>11, <2>2 DEF SameCodes, Account
  <2>4. QED
    BY <1>6, <1>7, <2>1, <2>3
<1>13. /\ a \in Account /\ a.codes = codes /\ a.used = used /\ a.devices = row.devices
       /\ SamePassword(a, row) /\ SameCode(a, row) /\ SameFactor(a, row)
  BY <1>5, <1>10, <1>11 DEF Account, SamePassword, SameCode, SameFactor
<1>14. /\ ~v.enabled => a.enabled
       /\ v.enabled => a.enabled = c.enabled
  <2>1. v.enabled \in BOOLEAN /\ c.enabled \in BOOLEAN
    BY <1>1 DEF Account
  <2>2. a.enabled = IF TRUE # v.enabled THEN TRUE ELSE c.enabled
    BY <1>5, <1>13 DEF SameFactor
  <2>3. CASE v.enabled = TRUE
    BY <2>2, <2>3
  <2>4. CASE v.enabled = FALSE
    BY <2>2, <2>4
  <2>5. QED
    BY <2>1, <2>3, <2>4
<1>15. QED
  BY <1>0, <1>5, <1>9, <1>12, <1>13, <1>14, <1>8, ZenonT(60) DEF SamePassword, SameCode, SameFactor

LEMMA RenewRow ==
  ASSUME TypeOK, NEW t \in Threads, EndRenew(t)
  PROVE  \E a \in Account, dead \in SUBSET Id :
           LET c == acct[job[t].u] IN
           /\ Save(job[t].u, a, "none")
           /\ a.codes = (c.codes \ dead) \cup {Fresh}
           /\ a.used = c.used \ dead
           /\ SamePassword(a, c) /\ SameCode(a, c) /\ SameFactor(a, c) /\ a.devices = c.devices
<1>0. PICK c, last, dead, codes, used :
        /\ c = acct[job[t].u] /\ dead = Deleted(job[t], last)
        /\ codes = (c.codes \ dead) \cup {Fresh} /\ used = c.used \ dead
        /\ Save(job[t].u, [Without(c, dead) EXCEPT !.codes = @ \cup {Fresh}], "none")
  BY DEF EndRenew
<1>1. c \in Account /\ Fresh \in Id /\ dead \in SUBSET Id
  BY <1>0, JobOf DEF EndRenew, Doing, Draw, Deleted
<1>2. codes \in SUBSET Id /\ used \in SUBSET Id
  BY <1>0, <1>1 DEF Account
<1>3. PICK a : a = [c EXCEPT !.codes = codes, !.used = used]
  OBVIOUS
<1>4. Save(job[t].u, a, "none")
  <2>1. PICK d : d = Without(c, dead)
    OBVIOUS
  <2>2. d = [c EXCEPT !.codes = c.codes \ dead, !.used = c.used \ dead] /\ d \in Account
    BY <1>1, <2>1, Deletes
  <2>3. [d EXCEPT !.codes = d.codes \cup {Fresh}] = a
    BY <1>0, <1>1, <1>3, <2>2 DEF Account
  <2>4. QED
    BY <1>0, <2>1, <2>3
<1>5. /\ a \in Account /\ a.codes = codes /\ a.used = used /\ a.devices = c.devices
      /\ SamePassword(a, c) /\ SameCode(a, c) /\ SameFactor(a, c)
  BY <1>1, <1>2, <1>3 DEF Account, SamePassword, SameCode, SameFactor
<1>6. QED
  BY <1>0, <1>1, <1>4, <1>5

\* The enrolment ends, as far as it was read.
LEMMA UnenrolRow ==
  ASSUME TypeOK, NEW t \in Threads, EndUnenrol(t)
  PROVE  \E a \in Account, dead \in SUBSET Id,
             event \in {"bared", Event(job[t], Enrolment)} :
           LET v == job[t].view  c == acct[job[t].u] IN
           /\ Save(job[t].u, a, event)
           /\ c.enabled /\ ~v.enabled => event = "bared"
           /\ ~(c.enabled /\ ~v.enabled) => event = Event(job[t], Enrolment)
           /\ v.enabled => ~a.enabled
           /\ ~v.enabled => a.enabled = c.enabled
           /\ v.secret # None => a.secret = None
           /\ v.secret = None => a.secret = c.secret
           /\ a.codes = c.codes \ dead
           /\ a.used = c.used \ dead
           /\ SamePassword(a, c) /\ SameCode(a, c) /\ a.devices = c.devices
<1>0. PICK v, c, k, event :
        /\ v = job[t].view /\ c = acct[job[t].u] /\ k = (job[t].kind = "reset")
        /\ event = IF c.enabled /\ ~v.enabled THEN "bared" ELSE Event(job[t], Enrolment)
  OBVIOUS
<1>1. v \in Account /\ c \in Account /\ k \in BOOLEAN
  BY <1>0, JobOf DEF EndUnenrol
<1>2. PICK d, f, new : /\ d = Disabled(v) /\ f = (k \/ d.force)
                       /\ new = [d EXCEPT !.force = f]
  OBVIOUS
<1>3. /\ d \in Account /\ d.enabled = FALSE /\ d.secret = None
      /\ SamePassword(d, v) /\ SameCode(d, v) /\ SameCodes(d, v) /\ d.devices = v.devices
  BY <1>1, <1>2 DEF Disabled, Account, SamePassword, SameCode, SameCodes
<1>4. /\ new \in Account /\ new.enabled = FALSE /\ new.secret = None
      /\ SamePassword(new, v) /\ SameCode(new, v) /\ SameCodes(new, v)
      /\ new.devices = v.devices
  <2>1. f \in BOOLEAN
    BY <1>1, <1>2, <1>3, Zenon DEF Account
  <2>2. new \in Account
    <3>1. ASSUME NEW e \in Account, NEW g \in BOOLEAN PROVE [e EXCEPT !.force = g] \in Account
      BY <3>1 DEF Account
    <3>2. QED
      BY <1>2, <1>3, <2>1, <3>1
  <2>3. new \in Account /\ new.enabled = d.enabled
    BY <1>2, <1>3, <2>1, <2>2, ZenonT(30) DEF Account
  <2>4. new.secret = d.secret /\ new.devices = d.devices
        /\ SamePassword(new, d) /\ SameCode(new, d) /\ SameCodes(new, d)
    BY <1>2, <1>3, <2>1, ZenonT(30) DEF Account, SamePassword, SameCode, SameCodes
  <2>5. QED
    BY <1>3, <2>3, <2>4 DEF SamePassword, SameCode, SameCodes
<1>5. PICK row : row = Merge(v, new, c)
  OBVIOUS
<1>6. /\ row \in Account
      /\ row.secret = IF new.secret # v.secret THEN new.secret ELSE c.secret
      /\ row.enabled = IF new.enabled # v.enabled THEN new.enabled ELSE c.enabled
  BY <1>1, <1>4, <1>5, MergedColumns
<1>7. /\ SamePassword(row, c) /\ SameCode(row, c) /\ SameCodes(row, c)
      /\ row.devices = c.devices
  BY <1>1, <1>4, <1>5, MergedColumns DEF SamePassword, SameCode, SameCodes
<1>8. PICK last, dead : /\ dead = Deleted(job[t], last)
                        /\ Save(job[t].u, Without(row, dead), event)
  BY <1>0, <1>2, <1>5 DEF EndUnenrol
<1>9. PICK a : a = Without(row, dead)
  OBVIOUS
<1>10. dead \in SUBSET Id
  BY <1>8 DEF Deleted
<1>11. a \in Account /\ a = [row EXCEPT !.codes = row.codes \ dead, !.used = row.used \ dead]
  BY <1>6, <1>9, Deletes
<1>12. /\ a.codes = c.codes \ dead /\ a.used = c.used \ dead /\ a.devices = c.devices
       /\ SamePassword(a, c) /\ SameCode(a, c) /\ SameFactor(a, row)
  BY <1>6, <1>7, <1>11 DEF Account, SamePassword, SameCode, SameFactor, SameCodes
<1>13. /\ v.enabled => ~a.enabled
       /\ ~v.enabled => a.enabled = c.enabled
  <2>1. v.enabled \in BOOLEAN /\ c.enabled \in BOOLEAN
    BY <1>1 DEF Account
  <2>2. a.enabled = IF FALSE # v.enabled THEN FALSE ELSE c.enabled
    BY <1>4, <1>6, <1>12 DEF SameFactor
  <2>3. CASE v.enabled = TRUE
    BY <2>2, <2>3
  <2>4. CASE v.enabled = FALSE
    BY <2>2, <2>4
  <2>5. QED
    BY <2>1, <2>3, <2>4
<1>14. /\ v.secret # None => a.secret = None
       /\ v.secret = None => a.secret = c.secret
  BY <1>4, <1>6, <1>12 DEF SameFactor
<1>15. /\ c.enabled /\ ~v.enabled => event = "bared"
       /\ ~(c.enabled /\ ~v.enabled) => event = Event(job[t], Enrolment)
  BY <1>0, Zenon
<1>16. Save(job[t].u, a, event)
  BY <1>8, <1>9
<1>17. QED
  BY <1>0, <1>10, <1>11, <1>12, <1>13, <1>14, <1>15, <1>16

\* A new password, by a link or by a manager.
LEMMA LinkRow ==
  ASSUME TypeOK, NEW t \in Threads, EndLink(t) \/ EndAssign(t)
  PROVE  \E a \in Account :
           LET v == job[t].view  c == acct[job[t].u] IN
           /\ Save(job[t].u, a, Event(job[t], Counter))
           /\ a.failed = IF v.failed # 0 THEN 0 ELSE c.failed
           /\ a.locked = IF v.locked # None THEN None ELSE c.locked
           /\ SameCode(a, c) /\ SameFactor(a, c) /\ SameCodes(a, c) /\ a.devices = c.devices
<1>0. PICK v, c : v = job[t].view /\ c = acct[job[t].u]
  OBVIOUS
<1>1. v \in Account /\ c \in Account
  BY <1>0, JobOf DEF EndLink, EndAssign, Doing
<1>2. PICK new \in Account :
        /\ Save(job[t].u, Merge(v, new, c), Event(job[t], Counter))
        /\ new.failed = 0 /\ new.locked = None
        /\ SameCode(new, v) /\ SameFactor(new, v) /\ SameCodes(new, v) /\ new.devices = v.devices
  <2>1. CASE EndLink(t)
    <3>1. PICK new : new = [Cleared(v) EXCEPT !.must = FALSE, !.link = None]
      OBVIOUS
    <3>2. /\ new \in Account /\ new.failed = 0 /\ new.locked = None
          /\ SameCode(new, v) /\ SameFactor(new, v) /\ SameCodes(new, v)
          /\ new.devices = v.devices
      BY <1>1, <3>1 DEF Cleared, Account, SameCode, SameFactor, SameCodes
    <3>3. Save(job[t].u, Merge(v, new, c), Event(job[t], Counter))
      BY <1>0, <2>1, <3>1 DEF EndLink
    <3>4. QED
      BY <3>2, <3>3
  <2>2. CASE EndAssign(t)
    <3>1. PICK new : new = [Cleared(v) EXCEPT !.must = TRUE]
      OBVIOUS
    <3>2. /\ new \in Account /\ new.failed = 0 /\ new.locked = None
          /\ SameCode(new, v) /\ SameFactor(new, v) /\ SameCodes(new, v)
          /\ new.devices = v.devices
      BY <1>1, <3>1 DEF Cleared, Account, SameCode, SameFactor, SameCodes
    <3>3. Save(job[t].u, Merge(v, new, c), Event(job[t], Counter))
      BY <1>0, <2>2, <3>1 DEF EndAssign
    <3>4. QED
      BY <3>2, <3>3
  <2>3. QED
    BY <2>1, <2>2
<1>3. PICK a : a = Merge(v, new, c)
  OBVIOUS
<1>4. /\ a \in Account
      /\ a.failed = IF v.failed # 0 THEN 0 ELSE c.failed
      /\ a.locked = IF v.locked # None THEN None ELSE c.locked
      /\ SameCode(a, c) /\ SameFactor(a, c) /\ SameCodes(a, c) /\ a.devices = c.devices
  BY <1>1, <1>2, <1>3, MergedColumns DEF SameCode, SameFactor, SameCodes
<1>5. QED
  BY <1>0, <1>2, <1>3, <1>4

LEMMA ChangeRow ==
  ASSUME TypeOK, NEW t \in Threads, EndChange(t)
  PROVE  \E a \in Account :
           LET c == acct[job[t].u] IN
           /\ Save(job[t].u, a, "none")
           /\ SamePassword(a, c) /\ SameCode(a, c) /\ SameFactor(a, c) /\ SameCodes(a, c)
           /\ a.devices = c.devices
<1>0. PICK v, c, new : v = job[t].view /\ c = acct[job[t].u] /\ new = [v EXCEPT !.must = FALSE]
  OBVIOUS
<1>1. v \in Account /\ c \in Account
  BY <1>0, JobOf DEF EndChange, Doing
<1>2. /\ new \in Account /\ new.devices = v.devices
      /\ SamePassword(new, v) /\ SameCode(new, v) /\ SameFactor(new, v) /\ SameCodes(new, v)
  BY <1>0, <1>1, ZenonT(60) DEF Account, SamePassword, SameCode, SameFactor, SameCodes
<1>3. PICK a : a = Merge(v, new, c)
  OBVIOUS
<1>4. Save(job[t].u, a, "none")
  BY <1>0, <1>3 DEF EndChange
<1>5. /\ a \in Account /\ a.devices = c.devices
      /\ SamePassword(a, c) /\ SameCode(a, c) /\ SameFactor(a, c) /\ SameCodes(a, c)
  BY <1>1, <1>2, <1>3, MergedColumns DEF SamePassword, SameCode, SameFactor, SameCodes
<1>6. QED
  BY <1>0, <1>4, <1>5

\* What a manager or the recovery tool writes in one piece.
Whole(u) ==
  \E a \in Account :
    LET c == acct[u] IN
    /\ Save(u, a, "none")
    /\ SamePassword(a, c) \/ (a.failed = 0 /\ a.locked = None)
    /\ SameCode(a, c) \/ (a.misses = 0 /\ a.barred = None)
    /\ a.devices = c.devices
    /\ \/ SameFactor(a, c) /\ SameCodes(a, c) /\ ids' \in {ids, Fresh}
       \/ ~a.enabled /\ a.secret = None /\ a.codes = {} /\ a.used = {} /\ ids' = ids
       \/ SameFactor(a, c) /\ a.codes = {Fresh} /\ a.used = {} /\ Draw

LEMMA WholeRow ==
  ASSUME TypeOK, NEW u \in Users,
         Manage(u) \/ Forgot(u)
  PROVE  Whole(u)
<1>0. PICK c : c = acct[u]
  OBVIOUS
<1>1. c \in Account
  BY <1>0 DEF TypeOK
<1> USE DEF SamePassword, SameCode, SameFactor, SameCodes
<1>2. ASSUME NEW a \in Account, SamePassword(a, c), SameCode(a, c), SameFactor(a, c),
             SameCodes(a, c), a.devices = c.devices, Save(u, a, "none"), ids' \in {ids, Fresh}
      PROVE  Whole(u)
  BY <1>0, <1>2 DEF Whole
<1>4. ASSUME NEW a \in Account, a = Unbarred(Cleared(c)) \/ a = [Cleared(c) EXCEPT !.must = TRUE],
             Save(u, a, "none"), ids' = ids
      PROVE  Whole(u)
  <2>1. /\ a.failed = 0 /\ a.locked = None
        /\ (SameCode(a, c) \/ (a.misses = 0 /\ a.barred = None))
        /\ SameFactor(a, c) /\ SameCodes(a, c) /\ a.devices = c.devices
    BY <1>1, <1>4, ZenonT(60) DEF Account, Cleared, Unbarred
  <2>2. QED
    BY <1>0, <1>4, <2>1 DEF Whole
<1>5. CASE Forgot(u)
  <2>1. PICK l, a : l = [id |-> Fresh, until |-> now + LinkTime] /\ a = [c EXCEPT !.link = l]
    OBVIOUS
  <2>2. now \in Nat /\ LinkTime \in Nat /\ Fresh \in Id /\ ids' = Fresh
    BY <1>5, Rows DEF TypeOK, Time, Forgot, Draw
  <2>3. l \in [id : Id, until : Later]
    BY <2>1, <2>2 DEF Later
  <2>4. /\ a \in Account /\ SamePassword(a, c) /\ SameCode(a, c)
        /\ SameFactor(a, c) /\ SameCodes(a, c) /\ a.devices = c.devices
    BY <1>1, <2>1, <2>3 DEF Account
  <2>5. Save(u, a, "none")
    BY <1>0, <1>5, <2>1 DEF Forgot
  <2>6. QED
    BY <1>2, <2>2, <2>4, <2>5
<1>7. CASE RecoverCodes(u)
  <2>1. PICK a : a = [c EXCEPT !.codes = {Fresh}, !.used = {}]
    OBVIOUS
  <2>2. Save(u, a, "none") /\ Draw
    BY <1>0, <1>7, <2>1 DEF RecoverCodes
  <2>3. /\ a \in Account /\ a.codes = {Fresh} /\ a.used = {} /\ a.devices = c.devices
        /\ SamePassword(a, c) /\ SameCode(a, c) /\ SameFactor(a, c)
    BY <1>1, <2>1, <2>2 DEF Account, Draw
  <2>4. QED
    BY <1>0, <2>2, <2>3 DEF Whole
<1>8. ASSUME NEW a, Edit(u, a) PROVE Save(u, a, "none") /\ ids' = ids
  BY <1>8 DEF Edit
<1>9. CASE Suspend(u) \/ Reactivate(u) \/ FlagReset(u) \/ ForceEnrol(u)
           \/ \E p \in Policies \cup {None} : SetPolicy(u, p)
  <2>1. PICK a : Edit(u, a) /\ \/ a = [c EXCEPT !.active = FALSE] \/ a = [c EXCEPT !.active = TRUE]
                               \/ a = [c EXCEPT !.must = ~c.must] \/ a = [c EXCEPT !.force = TRUE]
                               \/ \E p \in Policies \cup {None} : a = [c EXCEPT !.policy = p]
    BY <1>0, <1>1, <1>9 DEF Suspend, Reactivate, FlagReset, ForceEnrol, SetPolicy, Account
  <2>2. /\ a \in Account /\ SamePassword(a, c) /\ SameCode(a, c)
        /\ SameFactor(a, c) /\ SameCodes(a, c) /\ a.devices = c.devices
    BY <1>1, <2>1, ZenonT(60) DEF Account
  <2>3. QED
    BY <1>2, <1>8, <2>1, <2>2
<1>10. CASE ClearMfa(u)
  <2>1. PICK d : d = Disabled(c)
    OBVIOUS
  <2>2. /\ d \in Account /\ d.enabled = FALSE /\ d.secret = None
        /\ SamePassword(d, c) /\ d.devices = c.devices
    BY <1>1, <2>1 DEF Disabled, Account
  <2>3. PICK f : f = [d EXCEPT !.force = TRUE, !.codes = {}, !.used = {}]
    OBVIOUS
  <2>4. /\ f \in Account /\ f.enabled = FALSE /\ f.secret = None
        /\ f.codes = {} /\ f.used = {} /\ SamePassword(f, c) /\ f.devices = c.devices
    BY <2>2, <2>3 DEF Account
  <2>5. PICK a : a = Unbarred(f)
    OBVIOUS
  <2>6. /\ a \in Account /\ a.enabled = FALSE /\ a.secret = None
        /\ a.codes = {} /\ a.used = {} /\ SamePassword(a, c) /\ a.devices = c.devices
        /\ a.misses = 0 /\ a.barred = None
    BY <2>4, <2>5 DEF Account, Unbarred
  <2>7. Edit(u, a)
    BY <1>0, <1>10, <2>1, <2>3, <2>5 DEF ClearMfa
  <2>8. QED
    BY <1>0, <1>8, <2>6, <2>7 DEF Whole
<1>11. CASE Unlock(u) \/ RecoverPassword(u)
  <2>1. PICK a : Edit(u, a) /\ (a = Unbarred(Cleared(c)) \/ a = [Cleared(c) EXCEPT !.must = TRUE])
    BY <1>0, <1>11 DEF Unlock, RecoverPassword
  <2>2. a \in Account
    <3>1. PICK d : d = Cleared(c)
      OBVIOUS
    <3>2. d \in Account /\ [d EXCEPT !.must = TRUE] \in Account
      BY <1>1, <3>1, Cleaned, ZenonT(60) DEF Account
    <3>3. Unbarred(d) \in Account
      BY <3>2, Cleaned
    <3>4. QED
      BY <2>1, <3>1, <3>2, <3>3
  <2>3. QED
    BY <1>4, <1>8, <2>1, <2>2
<1>12. QED
  BY <1>5, <1>7, <1>9, <1>10, <1>11 DEF Manage
-----------------------------------------------------------------------------
(* Types, and the kinds of steps there are.                                *)

\* A request of a browser has one, and an enrolment has a secret to store.
Asked ==
  \A t \in Threads : job[t] # None =>
    /\ job[t].kind \notin {"link", "assign", "reset", "strip"} => job[t].b \in Browsers
    /\ job[t].kind = "enrol" => job[t].cookie.secret # None

TypeInv == TypeOK /\ Asked

\* A request that starts on what it reads.
Begins(t, j) ==
  /\ job[t] = None /\ job' = [job EXCEPT ![t] = j]
  /\ j.view = acct[j.u]
  /\ j.kind \notin {"link", "assign", "reset", "strip"} => j.b \in Browsers
  /\ j.kind \in Async => LoopFree
  /\ j.kind = "login" => ~Locked(acct[j.u].locked)
  /\ j.kind = "verify" => /\ ~Locked(acct[j.u].barred)
                          /\ j.code # None => j.good = Unspent(j.u, j.code)
  /\ j.kind = "enrol" => j.cookie.secret # None
  /\ UNCHANGED <<now, ids, acct, cookie, device, lost, story, opened, shown>>

\* A step that touches no account.
Aside ==
  /\ UNCHANGED <<acct, story, opened, shown, device>>
  /\ now' \in {now, now + 1} /\ ids' \in {ids, Fresh}
  /\ \A t \in Threads : job'[t] \in {job[t], None}

LEMMA TypeInit == ASSUME Init PROVE TypeInv
<1>1. /\ acct \in [Users -> Account] /\ 0 \in Time /\ 2 \in 0..MaxIds
  <2>1. [EnrolledAccount EXCEPT !.active = FALSE] \in Account
    BY Rows, ZenonT(60) DEF Account
  <2>2. PICK A : A = {NewAccount, EnrolledAccount, [EnrolledAccount EXCEPT !.active = FALSE]}
    OBVIOUS
  <2>3. acct \in [Users -> A]
    BY <2>2 DEF Init
  <2>4. A \subseteq Account
    BY <2>1, <2>2, Rows
  <2>5. 0 \in Time /\ 2 \in 0..MaxIds
    BY LoginAssumption DEF Time
  <2>6. QED
    BY <2>3, <2>4, <2>5
<1>2. /\ cookie \in [Browsers -> Session] /\ device \in [Browsers -> Id \cup {None}]
      /\ job \in [Threads -> Job \cup {None}] /\ opened \in [Users \X Id -> Nat]
  BY Rows DEF Init
<1>3. story \in [Users -> Story]
  BY <1>1 DEF Init, Story
<1>4. TypeOK
  BY <1>1, <1>2, <1>3, LoginAssumption DEF Init, TypeOK
<1>5. QED
  BY <1>4 DEF Init, TypeInv, Asked

LEMMA Ended ==
  ASSUME TypeOK, NEW t \in Threads, End(t)
  PROVE  /\ job' \in [Threads -> Job \cup {None}] /\ job'[t] = None
         /\ \A x \in Threads : x # t => job'[x] = job[x]
BY DEF End, TypeOK

LEMMA Drawn ==
  ASSUME TypeOK, Draw
  PROVE  Fresh \in Id /\ ids' = Fresh /\ ids' \in 0..MaxIds
BY Rows DEF TypeOK, Draw, Fresh, Id

LEMMA Begun ==
  ASSUME TypeOK, NEW t \in Threads, Ask(t)
  PROVE  /\ \E j \in Job : Begins(t, j)
         /\ requests' \in 0..MaxRequests /\ edits' \in 0..MaxEdits
<1>0. ASSUME NEW j \in Job, Take(t, j), UNCHANGED <<now, ids, acct, cookie, device, lost, story, opened, shown, edits>>
      PROVE  /\ job[t] = None /\ job' = [job EXCEPT ![t] = j]
             /\ UNCHANGED <<now, ids, acct, cookie, device, lost, story, opened, shown>>
             /\ requests' \in 0..MaxRequests /\ edits' \in 0..MaxEdits
  BY <1>0, Started DEF Take, TypeOK
<1>1. ASSUME NEW b \in Browsers, NEW u \in Users, NEW good \in BOOLEAN, StartLogin(t, b, u, good)
      PROVE  (\E j \in Job : Begins(t, j)) /\ requests' \in 0..MaxRequests /\ edits' \in 0..MaxEdits
  <2>1. PICK k : k = Task("login", b, u, cookie[b])
    OBVIOUS
  <2>2. PICK j : j = [k EXCEPT !.good = good]
    OBVIOUS
  <2>3. k \in Job
    BY <2>1, TaskIsJob, Copies
  <2>4. k.kind = "login" /\ k.b = b /\ k.u = u /\ k.view = acct[u]
    BY <2>1 DEF Task
  <2>5. j \in Job /\ j.kind = "login" /\ j.b = b /\ j.u = u /\ j.view = acct[u]
    BY <2>2, <2>3, <2>4 DEF Job
  <2>6. Take(t, j) /\ LoopFree /\ ~Locked(acct[u].locked)
    BY <1>1, <2>1, <2>2 DEF StartLogin
  <2>7. QED
    BY <1>0, <1>1, <2>5, <2>6 DEF Begins, StartLogin
<1>2. ASSUME NEW b \in Browsers, NEW good \in BOOLEAN, NEW code \in Id \cup {None},
             StartVerify(t, b, good, code)
      PROVE  (\E j \in Job : Begins(t, j)) /\ requests' \in 0..MaxRequests /\ edits' \in 0..MaxEdits
  <2>0. PICK u : u = Waiting(cookie[b].pending)
    OBVIOUS
  <2>1. PICK k : k = Task("verify", b, u, cookie[b])
    OBVIOUS
  <2>2. PICK j : j = [k EXCEPT !.good = good, !.code = code]
    OBVIOUS
  <2>3. u \in Users /\ k \in Job
    <3>1. u # None
      BY <1>2, <2>0 DEF StartVerify
    <3>2. u \in Users /\ cookie[b] \in Session
      BY <2>0, <3>1, Copies
    <3>3. QED
      BY <2>1, <3>2, TaskIsJob
  <2>4. k.kind = "verify" /\ k.b = b /\ k.u = u /\ k.view = acct[u]
    BY <2>1 DEF Task
  <2>5. /\ j \in Job /\ j.kind = "verify" /\ j.b = b /\ j.u = u /\ j.view = acct[u]
        /\ j.good = good /\ j.code = code
    BY <2>2, <2>3, <2>4 DEF Job
  <2>6. Take(t, j) /\ LoopFree /\ ~Locked(acct[u].barred)
        /\ (code # None => good = Unspent(u, code))
    BY <1>2, <2>0, <2>1, <2>2 DEF StartVerify
  <2>7. QED
    BY <1>0, <1>2, <2>5, <2>6 DEF Begins, StartVerify
<1>3. ASSUME NEW b \in Browsers, StartEnrol(t, b)
      PROVE  (\E j \in Job : Begins(t, j)) /\ requests' \in 0..MaxRequests /\ edits' \in 0..MaxEdits
  <2>0. PICK u, c : /\ u = Enrolling(b)
                    /\ c = IF Waiting(cookie[b].setup) # None THEN cookie[b] ELSE Touched(cookie[b])
    OBVIOUS
  <2>1. PICK j : j = Task("enrol", b, u, c)
    OBVIOUS
  <2>2. u \in Users /\ c \in Session /\ c.secret # None
    BY <1>3, <2>0, Copies DEF StartEnrol
  <2>3. j \in Job /\ j.kind = "enrol" /\ j.b = b /\ j.u = u /\ j.view = acct[u] /\ j.cookie = c
    BY <2>1, <2>2, TaskIsJob DEF Task
  <2>4. Take(t, j)
    BY <1>3, <2>0, <2>1 DEF StartEnrol
  <2>5. QED
    BY <1>0, <1>3, <2>2, <2>3, <2>4 DEF Begins, StartEnrol, Async
<1>5. ASSUME NEW b \in Browsers \cup {None}, NEW u \in Users, NEW c \in Session,
             NEW kind \in {"change", "page", "link", "renew", "disable"}, kind # "link" => b \in Browsers,
             Take(t, Task(kind, b, u, c)),
             UNCHANGED <<now, ids, acct, cookie, device, lost, story, opened, shown, edits>>
      PROVE  (\E j \in Job : Begins(t, j)) /\ requests' \in 0..MaxRequests /\ edits' \in 0..MaxEdits
  <2>1. PICK j : j = Task(kind, b, u, c)
    OBVIOUS
  <2>2. j \in Job /\ j.kind = kind /\ j.b = b /\ j.u = u /\ j.view = acct[u]
    BY <1>5, <2>1, TaskIsJob DEF Task
  <2>3. QED
    BY <1>0, <1>5, <2>1, <2>2 DEF Begins, Async
<1>4. ASSUME NEW b \in Browsers, StartRenew(t, b) \/ StartDisable(t, b)
      PROVE  (\E j \in Job : Begins(t, j)) /\ requests' \in 0..MaxRequests /\ edits' \in 0..MaxEdits
  <2>0. PICK u, c : u = Current(cookie[b]) /\ c = Touched(cookie[b])
    OBVIOUS
  <2>1. u # None /\ \E kind \in {"renew", "disable"} : Take(t, Task(kind, b, u, c))
    BY <1>4, <2>0 DEF StartRenew, StartDisable
  <2>2. u \in Users /\ c \in Session
    BY <2>0, <2>1, Copies
  <2>3. UNCHANGED <<now, ids, acct, cookie, device, lost, story, opened, shown, edits>>
    BY <1>4 DEF StartRenew, StartDisable
  <2>4. QED
    BY <1>5, <2>1, <2>2, <2>3
<1>6. ASSUME NEW b \in Browsers, StartChange(t, b)
      PROVE  (\E j \in Job : Begins(t, j)) /\ requests' \in 0..MaxRequests /\ edits' \in 0..MaxEdits
  BY <1>5, <1>6, Copies DEF StartChange
<1>7. ASSUME NEW b \in Browsers, StartPage(t, b)
      PROVE  (\E j \in Job : Begins(t, j)) /\ requests' \in 0..MaxRequests /\ edits' \in 0..MaxEdits
  <2>1. PICK c, u : u = cookie[b].user /\ c = IF Expired(cookie[b]) THEN Empty ELSE Touched(cookie[b])
    OBVIOUS
  <2>2. u \in Users /\ c \in Session
    BY <1>7, <2>1, Rows, Copies DEF StartPage, Session
  <2>3. Take(t, Task("page", b, u, c))
    BY <1>7, <2>1 DEF StartPage
  <2>4. QED
    BY <1>5, <1>7, <2>2, <2>3 DEF StartPage
<1>8. ASSUME NEW u \in Users, StartLink(t, u)
      PROVE  (\E j \in Job : Begins(t, j)) /\ requests' \in 0..MaxRequests /\ edits' \in 0..MaxEdits
  BY <1>5, <1>8, Rows DEF StartLink
<1>9. ASSUME NEW u \in Users, StartAssign(t, u) \/ StartReset(t, u)
      PROVE  (\E j \in Job : Begins(t, j)) /\ requests' \in 0..MaxRequests /\ edits' \in 0..MaxEdits
  <2>1. PICK kind \in Managed : job' = [job EXCEPT ![t] = Task(kind, None, u, Empty)]
    BY <1>9 DEF StartAssign, StartReset, Managed
  <2>2. PICK j : j = Task(kind, None, u, Empty)
    OBVIOUS
  <2>3. j \in Job /\ j.kind \in Managed /\ j.u = u /\ j.view = acct[u]
    BY <2>1, <2>2, TaskIsJob, Rows DEF Task, Managed
  <2>4. requests' \in 0..MaxRequests /\ edits' \in 0..MaxEdits
    BY <1>9, LoginAssumption DEF StartAssign, StartReset, TypeOK
  <2>5. QED
    BY <1>9, <2>1, <2>2, <2>3, <2>4 DEF StartAssign, StartReset, Begins, Async, Managed
<1>10. QED
  BY <1>1, <1>2, <1>3, <1>4, <1>6, <1>7, <1>8, <1>9 DEF Ask

\* What a request that ends leaves of the types.
LEMMA TypeServe ==
  ASSUME TypeInv, NEW t \in Threads, Serve(t)
  PROVE  TypeOK'
<1>0. TypeOK /\ Asked
  BY DEF TypeInv
<1>1. CASE WrongPassword(t)
  <2>1. PICK a \in Account : Save(job[t].u, a, "password")
    BY <1>0, <1>1, PasswordRow
  <2>2. job[t].u \in Users /\ job[t].b \in Browsers /\ cookie' \in [Browsers -> Session]
    BY <1>0, <1>1, JobOf, Answered DEF WrongPassword, Doing, Asked
  <2>3. QED
    BY <1>0, <1>1, <2>1, <2>2, Ended, TypeSaved DEF WrongPassword, TypeOK
<1>2. CASE RightPassword(t)
  <2>1. PICK u, b, seen, c : /\ u = job[t].u /\ b = job[t].b /\ c = job[t].cookie
                             /\ Respond(b, c, Admit(b, u, seen, c))
    BY <1>2 DEF RightPassword
  <2>2. u \in Users /\ b \in Browsers /\ c \in Session
    BY <1>0, <1>2, <2>1, JobOf DEF RightPassword, Doing, Asked
  <2>3. Admit(b, u, seen, c) \in Session
    BY <2>2 DEF Admit, Session
  <2>4. cookie' \in [Browsers -> Session] /\ job' \in [Threads -> Job \cup {None}]
    BY <1>0, <1>2, <2>1, <2>2, <2>3, Answered, Ended DEF RightPassword
  <2>5. CASE UNCHANGED <<acct, story>>
    BY <1>0, <1>2, <2>4, <2>5 DEF TypeOK, RightPassword
  <2>6. CASE ~UNCHANGED <<acct, story>>
    <3>1. PICK a \in Account : Save(job[t].u, a, "none")
      BY <1>0, <1>2, <2>6, LoginRow
    <3>2. QED
      BY <1>0, <1>2, <2>1, <2>2, <2>4, <3>1, TypeSaved DEF RightPassword, TypeOK
  <2>7. QED
    BY <2>5, <2>6
<1>3. CASE WrongCode(t)
  <2>1. PICK a \in Account : Save(job[t].u, a, "code")
    BY <1>0, <1>3, CodeRow
  <2>2. job[t].u \in Users /\ job[t].b \in Browsers /\ cookie' \in [Browsers -> Session]
    BY <1>0, <1>3, JobOf, Answered DEF WrongCode, Doing, Asked
  <2>3. QED
    BY <1>0, <1>3, <2>1, <2>2, Ended, TypeSaved DEF WrongCode, TypeOK
<1>4. ASSUME NEW r \in BOOLEAN, RightCode(t, r) PROVE TypeOK'
  <2>1. PICK u, b, c : u = job[t].u /\ b = job[t].b /\ c = job[t].cookie
    OBVIOUS
  <2>2. u \in Users /\ b \in Browsers /\ c \in Session /\ job[t].code \in Id \cup {None}
        /\ job' \in [Threads -> Job \cup {None}]
    BY <1>0, <1>4, <2>1, JobOf, Ended DEF RightCode, Doing, Asked
  <2>3. CASE job[t].code # None /\ job[t].code \notin acct[u].codes
    BY <1>0, <1>4, <2>1, <2>2, <2>3 DEF TypeOK, RightCode
  <2>4. CASE job[t].code # None => job[t].code \in acct[u].codes
    <3>1. PICK a \in Account : Save(u, a, "none")
      BY <1>0, <1>4, <2>1, <2>4, FactorRow
    <3>2. ids' \in 0..MaxIds /\ device' \in [Browsers -> Id \cup {None}]
      <4>1. CASE r
        <5>1. Draw /\ device' = [device EXCEPT ![b] = Fresh]
          BY <1>4, <2>1, <2>4, <4>1 DEF RightCode
        <5>2. QED
          BY <1>0, <5>1, Drawn DEF TypeOK
      <4>2. CASE ~r
        BY <1>0, <1>4, <2>1, <2>4, <4>2 DEF RightCode, TypeOK
      <4>3. QED
        BY <4>1, <4>2
    <3>3. PICK d : d = [c EXCEPT !.pending = None, !.user = u]
      OBVIOUS
    <3>4. d \in Session
      BY <2>2, <3>3 DEF Session
    <3>5. Respond(b, c, d)
      BY <1>4, <2>1, <2>4, <3>3 DEF RightCode
    <3>6. cookie' \in [Browsers -> Session]
      BY <1>0, <2>2, <3>4, <3>5, Answered
    <3>7. /\ opened' = IF job[t].code = None THEN opened
                       ELSE [opened EXCEPT ![<<u, job[t].code>>] = opened[<<u, job[t].code>>] + 1]
          /\ shown' = shown \cup {<<b, u>>}
      BY <1>4, <2>1, <2>4 DEF RightCode
    <3>8. opened' \in [Users \X Id -> Nat] /\ shown' \subseteq Browsers \X Users
      BY <1>0, <2>2, <3>7 DEF TypeOK
    <3>9. now' = now /\ lost' = lost /\ requests' = requests /\ edits' = edits
      BY <1>4 DEF RightCode
    <3>10. QED
      BY <1>0, <2>2, <3>1, <3>2, <3>6, <3>8, <3>9, TypeSaved DEF TypeOK
  <2>5. QED
    BY <2>3, <2>4
<1>5. CASE EndEnrol(t)
  <2>1. PICK u, b, c, d : /\ u = job[t].u /\ b = job[t].b /\ c = job[t].cookie
                          /\ d = [c EXCEPT !.secret = None]
    OBVIOUS
  <2>2. u \in Users /\ b \in Browsers /\ c \in Session /\ c.secret # None
    BY <1>0, <1>5, <2>1, JobOf DEF EndEnrol, Doing, Asked
  <2>3. d \in Session
    BY <2>1, <2>2 DEF Session
  <2>4. PICK e : e = IF c.setup = u THEN [d EXCEPT !.setup = None, !.user = u] ELSE d
    OBVIOUS
  <2>5. e \in Session
    BY <2>2, <2>3, <2>4 DEF Session
  <2>6. Respond(b, c, e)
    BY <1>5, <2>1, <2>4 DEF EndEnrol
  <2>7. cookie' \in [Browsers -> Session]
    BY <1>0, <2>2, <2>5, <2>6, Answered
  <2>8. PICK a \in Account : Save(u, a, Event(job[t], Enrolment))
    BY <1>0, <1>5, <2>1, <2>2, EnrolRow
  <2>9. ids' \in 0..MaxIds /\ job' \in [Threads -> Job \cup {None}]
        /\ shown' \subseteq Browsers \X Users
    BY <1>0, <1>5, <2>1, <2>2, Drawn, Ended DEF EndEnrol, TypeOK
  <2>10. QED
    BY <1>0, <1>5, <2>2, <2>7, <2>8, <2>9, TypeSaved DEF EndEnrol, TypeOK
<1>6. CASE EndRenew(t)
  <2>1. PICK a \in Account : Save(job[t].u, a, "none")
    BY <1>0, <1>6, RenewRow
  <2>2. job[t].u \in Users /\ job[t].b \in Browsers /\ cookie' \in [Browsers -> Session]
    BY <1>0, <1>6, JobOf, Answered DEF EndRenew, Doing, Asked
  <2>3. ids' \in 0..MaxIds
    BY <1>0, <1>6, Drawn DEF EndRenew
  <2>4. QED
    BY <1>0, <1>6, <2>1, <2>2, <2>3, Ended, TypeSaved DEF EndRenew, TypeOK
<1>7. CASE EndLink(t)
  <2>1. PICK a \in Account : Save(job[t].u, a, Event(job[t], Counter))
    BY <1>0, <1>7, LinkRow
  <2>2. job[t].u \in Users
    BY <1>0, <1>7, JobOf DEF EndLink, Doing
  <2>3. QED
    BY <1>0, <1>7, <2>1, <2>2, Ended, TypeSaved DEF EndLink, TypeOK
<1>8. CASE EndChange(t)
  <2>1. PICK a \in Account : Save(job[t].u, a, "none")
    BY <1>0, <1>8, ChangeRow
  <2>2. job[t].u \in Users /\ job[t].b \in Browsers /\ cookie' \in [Browsers -> Session]
    BY <1>0, <1>8, JobOf, Answered DEF EndChange, Doing, Asked
  <2>3. QED
    BY <1>0, <1>8, <2>1, <2>2, Ended, TypeSaved DEF EndChange, TypeOK
<1>9. CASE EndAssign(t)
  <2>1. PICK a \in Account : Save(job[t].u, a, Event(job[t], Counter))
    BY <1>0, <1>9, LinkRow
  <2>2. job[t].u \in Users
    BY <1>0, <1>9, JobOf DEF EndAssign, Doing
  <2>3. QED
    BY <1>0, <1>9, <2>1, <2>2, Ended, TypeSaved DEF EndAssign, TypeOK
<1>10. CASE EndPage(t)
  <2>1. cookie' \in [Browsers -> Session] /\ job' \in [Threads -> Job \cup {None}]
    BY <1>0, <1>10, JobOf, Ended DEF EndPage, Doing, TypeOK
  <2>2. QED
    BY <1>0, <1>10, <2>1 DEF EndPage, TypeOK
<1>11. CASE EndUnenrol(t)
  <2>1. PICK a \in Account, event \in {"bared", Event(job[t], Enrolment)} :
          Save(job[t].u, a, event)
    BY <1>0, <1>11, UnenrolRow
  <2>2. job[t].u \in Users /\ job[t].b \in Browsers \cup {None} /\ job[t].cookie \in Session
    BY <1>0, <1>11, JobOf DEF EndUnenrol
  <2>3. cookie' \in [Browsers -> Session]
    <3>1. CASE job[t].b = None
      BY <1>0, <1>11, <3>1 DEF EndUnenrol, TypeOK
    <3>2. CASE job[t].b # None
      <4>1. Respond(job[t].b, job[t].cookie, job[t].cookie)
        BY <1>11, <3>2 DEF EndUnenrol
      <4>2. QED
        BY <1>0, <2>2, <3>2, <4>1, Answered
    <3>3. QED
      BY <3>1, <3>2
  <2>4. QED
    BY <1>0, <1>11, <2>1, <2>2, <2>3, Ended, TypeSaved DEF EndUnenrol, TypeOK
<1>12. QED
  BY <1>1, <1>2, <1>3, <1>4, <1>5, <1>6, <1>7, <1>8, <1>9, <1>10, <1>11 DEF Serve

\* Every step is the start of a request, the end of one, a row written in one
\* piece or a step aside.
LEMMA Steps ==
  ASSUME TypeInv, [Next]_vars
  PROVE  /\ TypeOK'
         /\ \/ \E t \in Threads, j \in Job : Begins(t, j)
            \/ \E t \in Threads : Serve(t)
            \/ \E u \in Users : Whole(u) /\ UNCHANGED <<now, job, device, opened, shown>>
            \/ Aside
<1>0. TypeOK /\ Asked
  BY DEF TypeInv
<1>1. ASSUME NEW t \in Threads, Ask(t)
      PROVE  TypeOK' /\ \E j \in Job : Begins(t, j)
  <2>1. PICK j \in Job : Begins(t, j)
    BY <1>0, <1>1, Begun
  <2>2. job' \in [Threads -> Job \cup {None}]
    BY <1>0, <2>1 DEF Begins, TypeOK
  <2>3. requests' \in 0..MaxRequests /\ edits' \in 0..MaxEdits
    BY <1>0, <1>1, Begun
  <2>4. QED
    BY <1>0, <2>1, <2>2, <2>3 DEF Begins, TypeOK
<1>2. ASSUME NEW b \in Browsers, NEW c \in Session, cookie' = [cookie EXCEPT ![b] = c]
      PROVE  cookie' \in [Browsers -> Session]
  BY <1>0, <1>2 DEF TypeOK
<1>3. ASSUME NEW b \in Browsers, OpenSetup(b) PROVE TypeOK' /\ Aside
  <2>1. Draw /\ cookie' = [cookie EXCEPT ![b].secret = Fresh]
    BY <1>3 DEF OpenSetup
  <2>2. PICK c : c = [cookie[b] EXCEPT !.secret = Fresh]
    OBVIOUS
  <2>3. c \in Session
    BY <1>0, <2>1, <2>2, Copies, Drawn DEF Session
  <2>4. cookie' = [cookie EXCEPT ![b] = c]
    BY <2>1, <2>2
  <2>5. cookie' \in [Browsers -> Session]
    BY <1>2, <2>3, <2>4
  <2>6. ids' \in 0..MaxIds /\ ids' = Fresh /\ requests' \in 0..MaxRequests
    BY <1>0, <1>3, <2>1, Drawn, LoginAssumption DEF OpenSetup, TypeOK
  <2>7. QED
    BY <1>0, <1>3, <2>5, <2>6 DEF OpenSetup, TypeOK, Aside
<1>4. ASSUME NEW b \in Browsers, DropPending(b) PROVE TypeOK' /\ Aside
  <2>1. PICK k \in {"pending", "setup"} : cookie' = [cookie EXCEPT ![b][k] = None]
    BY <1>4 DEF DropPending
  <2>2. PICK c : c = [cookie[b] EXCEPT ![k] = None]
    OBVIOUS
  <2>3. c \in Session
    <3>1. cookie[b] \in Session
      BY <1>0, Copies
    <3>2. CASE k = "pending"
      BY <2>2, <3>1, <3>2 DEF Session
    <3>3. CASE k = "setup"
      BY <2>2, <3>1, <3>3 DEF Session
    <3>4. QED
      BY <3>2, <3>3
  <2>4. cookie' = [cookie EXCEPT ![b] = c]
    BY <2>1, <2>2
  <2>5. cookie' \in [Browsers -> Session]
    BY <1>2, <2>3, <2>4
  <2>6. QED
    BY <1>0, <1>4, <2>5 DEF DropPending, TypeOK, Aside
<1>5. ASSUME NEW b \in Browsers, Logout(b) PROVE TypeOK' /\ Aside
  <2>1. cookie' \in [Browsers -> Session]
    BY <1>2, <1>5, Rows DEF Logout
  <2>2. QED
    BY <1>0, <1>5, <2>1 DEF Logout, TypeOK, Aside
<1>6. CASE Restart
  <2>1. edits' \in 0..MaxEdits
    BY <1>0, <1>6, LoginAssumption DEF Restart, TypeOK
  <2>2. lost' \subseteq Id /\ job' \in [Threads -> Job \cup {None}]
    BY <1>0, <1>6, LoginAssumption DEF Restart, TypeOK, Id
  <2>3. QED
    BY <1>0, <1>6, <2>1, <2>2 DEF Restart, TypeOK, Aside
<1>7. CASE Tick
  BY <1>0, <1>7, LoginAssumption DEF Tick, TypeOK, Aside, Time
<1>8. CASE UNCHANGED vars
  BY <1>0, <1>8 DEF vars, TypeOK, Aside
<1>9. ASSUME NEW u \in Users, Forgot(u) \/ Manage(u)
      PROVE  TypeOK' /\ Whole(u) /\ UNCHANGED <<now, job, device, opened, shown>>
  <2>1. PICK a \in Account : Save(u, a, "none")
    BY <1>0, <1>9, WholeRow DEF Whole
  <2>2. /\ UNCHANGED <<now, cookie, device, lost, job, opened, shown>>
        /\ requests' \in 0..MaxRequests /\ edits' \in 0..MaxEdits /\ ids' \in 0..MaxIds
    <3>1. CASE Forgot(u)
      BY <1>0, <3>1, Drawn, LoginAssumption DEF Forgot, TypeOK
    <3>2. CASE RecoverCodes(u)
      BY <1>0, <3>2, Drawn, LoginAssumption DEF RecoverCodes, TypeOK
    <3>3. ASSUME NEW x, Edit(u, x)
          PROVE  /\ UNCHANGED <<now, cookie, device, lost, job, opened, shown>>
                 /\ requests' \in 0..MaxRequests /\ edits' \in 0..MaxEdits /\ ids' \in 0..MaxIds
      BY <1>0, <3>3, LoginAssumption DEF Edit, TypeOK
    <3>4. QED
      BY <1>9, <3>1, <3>2, <3>3
      DEF Manage, Suspend, Reactivate, FlagReset, SetPolicy, ForceEnrol, Unlock, ClearMfa,
          RecoverPassword
  <2>3. QED
    BY <1>0, <1>9, <2>1, <2>2, WholeRow, TypeSaved DEF TypeOK
<1>11. ASSUME NEW t \in Threads, Serve(t) PROVE TypeOK'
  BY <1>11, TypeServe
<1>12. QED
  BY <1>1, <1>3, <1>4, <1>5, <1>6, <1>7, <1>8, <1>9, <1>11 DEF Next

LEMMA TypeStep ==
  ASSUME TypeInv, [Next]_vars
  PROVE  TypeInv'
<1>0. TypeOK /\ Asked /\ TypeOK'
  BY Steps DEF TypeInv
<1>1. CASE \E t \in Threads, j \in Job : Begins(t, j)
  BY <1>0, <1>1 DEF Begins, TypeInv, Asked, TypeOK
<1>2. ASSUME NEW t \in Threads, End(t) PROVE Asked'
  BY <1>0, <1>2, Ended DEF Asked
<1>3. CASE \E t \in Threads : Serve(t)
  <2>1. ASSUME NEW t \in Threads, Serve(t) PROVE End(t)
    BY <2>1 DEF Serve, WrongPassword, RightPassword, WrongCode, RightCode, EndEnrol, EndRenew, EndUnenrol,
       EndLink, EndChange, EndAssign, EndPage
  <2>2. QED
    BY <1>0, <1>2, <1>3, <2>1, SMTT(30) DEF TypeInv
<1>4. CASE \E u \in Users : Whole(u) /\ UNCHANGED <<now, job, device, opened, shown>>
  BY <1>0, <1>4 DEF TypeInv, Asked
<1>5. CASE Aside
  BY <1>0, <1>5 DEF TypeInv, Asked, Aside
<1>6. QED
  BY <1>1, <1>3, <1>4, <1>5, Steps

LEMMA TypeInvariance == Spec => []TypeInv
<1>1. TypeInv /\ [Next]_vars => TypeInv'
  BY TypeStep
<1>2. QED
  BY <1>1, TypeInit, PTL DEF Spec

\* Every variable keeps its type.
THEOREM TypeCorrect == Spec => []TypeOK
<1>1. TypeInv => TypeOK
  BY DEF TypeInv
<1>2. QED
  BY <1>1, TypeInvariance, PTL

-----------------------------------------------------------------------------
(* Guessing.                                                               *)

\* Guesses since a time, and the lock: from the threshold on, each guess has moved
\* the lock by the time it lasts.
Paced(n, since, lock, time) ==
  /\ since =< time
  /\ lock # None => lock =< time + LockTime
  /\ Threshold > 0 /\ n >= Threshold =>
       lock # None /\ (n - Threshold + 1) * LockTime =< lock - since

Open(lock) == lock # None => lock =< now

\* The event loop serves one login or one verification at a time.
OneLoop ==
  \A x, y \in Threads :
    job[x] # None /\ job[y] # None /\ job[x].kind \in Async /\ job[y].kind \in Async => x = y

Passwords ==
  \A u \in Users :
    /\ story[u].tries =< acct[u].failed
    /\ story[u].late = 0 /\ acct[u].failed = 0 => acct[u].locked = None
    /\ story[u].late =< 1 => Paced(story[u].tries, story[u].since, acct[u].locked, now)

\* What a login has read is not behind; what a late reset has read is a lock with its
\* count.
Read(j) ==
  LET a == acct[j.u] IN
  /\ j.kind = "login" =>
       /\ a.failed =< j.view.failed /\ Open(a.locked) /\ Open(j.view.locked)
       /\ story[j.u].late = 0 =>
            SamePassword(j.view, a) \/ (a.failed = 0 /\ a.locked = None)
  /\ j.kind \in {"link", "assign"} =>
       (story[j.u].late = 0 /\ j.view.failed = 0 => j.view.locked = None)

LockInv == OneLoop /\ Passwords /\ \A t \in Threads : job[t] # None => Read(job[t])

LEMMA PacedStarts ==
  ASSUME NEW time \in Nat, NEW lock \in Nat \cup {None}, lock # None => lock =< time + LockTime
  PROVE  Paced(0, time, lock, time)
BY Rows DEF Paced

LEMMA PacedLater ==
  ASSUME NEW n \in Nat, NEW since \in Nat, NEW lock \in Nat \cup {None}, NEW time \in Nat,
         Paced(n, since, lock, time)
  PROVE  Paced(n, since, lock, time + 1)
BY Rows DEF Paced

LEMMA PacedGuess ==
  ASSUME NEW n \in Nat, NEW since \in Nat, NEW old \in Nat \cup {None}, NEW time \in Nat,
         Paced(n, since, old, time), old # None => old =< time,
         NEW m \in Nat, n < m,
         NEW lock, lock = IF Locks(m) THEN time + LockTime ELSE old,
         NEW first, first = IF n = 0 THEN time ELSE since
  PROVE  Paced(n + 1, first, lock, time)
<1>1. LockTime \in Nat /\ Threshold \in Nat /\ None \notin Nat
  BY Rows
<1>2. first =< time /\ first \in Nat
  BY DEF Paced
<1>3. lock # None => lock =< time + LockTime
  BY <1>1
<1>4. ASSUME Threshold > 0, n + 1 >= Threshold
      PROVE  lock # None /\ ((n + 1) - Threshold + 1) * LockTime =< lock - first
  <2>1. lock = time + LockTime
    BY <1>1, <1>4 DEF Locks
  <2>2. CASE n >= Threshold
    <3>1. old # None /\ (n - Threshold + 1) * LockTime =< old - since /\ first = since
      BY <1>1, <1>4, <2>2 DEF Paced
    <3>2. PICK k : k = n - Threshold + 1
      OBVIOUS
    <3>3. k \in Nat /\ (n + 1) - Threshold + 1 = k + 1
      BY <1>1, <2>2, <3>2
    <3>4. (k + 1) * LockTime = k * LockTime + LockTime /\ k * LockTime \in Nat
      BY <1>1, <3>3
    <3>5. PICK p : p = k * LockTime
      OBVIOUS
    <3>6. p \in Nat /\ p =< old - since /\ old =< time /\ old \in Nat
      BY <3>1, <3>2, <3>4, <3>5
    <3>7. p + LockTime =< lock - first /\ lock # None
      BY <1>1, <2>1, <3>1, <3>6
    <3>8. QED
      BY <3>3, <3>4, <3>5, <3>7
  <2>3. CASE ~(n >= Threshold)
    <3>1. (n + 1) - Threshold + 1 = 1
      BY <1>1, <1>4, <2>3
    <3>2. 1 * LockTime = LockTime
      BY <1>1
    <3>3. LockTime =< lock - first /\ lock # None
      BY <1>1, <1>2, <2>1
    <3>4. QED
      BY <3>1, <3>2, <3>3
  <2>4. QED
    BY <2>2, <2>3
<1>5. QED
  BY <1>2, <1>3, <1>4 DEF Paced

LEMMA PacedRate ==
  ASSUME NEW n \in Nat, NEW since \in Nat, NEW lock \in Nat \cup {None}, NEW time \in Nat,
         Paced(n, since, lock, time), Threshold > 0, n > Threshold
  PROVE  (n - Threshold) * LockTime <= time - since
<1>1. LockTime \in Nat /\ Threshold \in Nat /\ None \notin Nat
  BY Rows
<1>2. PICK k : k = n - Threshold
  OBVIOUS
<1>3. k \in Nat
  BY <1>1, <1>2
<1>4. (k + 1) * LockTime = k * LockTime + LockTime /\ k * LockTime \in Nat
  BY <1>1, <1>3
<1>5. lock # None /\ (k + 1) * LockTime =< lock - since /\ lock =< time + LockTime
  BY <1>1, <1>2 DEF Paced
<1>6. PICK p : p = k * LockTime
  OBVIOUS
<1>7. p + LockTime =< lock - since /\ p \in Nat
  BY <1>4, <1>5, <1>6
<1>8. p <= time - since
  BY <1>1, <1>5, <1>7
<1>9. QED
  BY <1>2, <1>6, <1>8

\* Types of what the pacing is about.
LEMMA Numbers ==
  ASSUME TypeOK, NEW u \in Users
  PROVE  /\ now \in Nat /\ story[u].tries \in Nat /\ story[u].since \in Nat
         /\ story[u].codes \in Nat /\ story[u].from \in Nat /\ story[u].late \in Nat
         /\ acct[u].failed \in Nat /\ acct[u].locked \in Nat \cup {None}
         /\ acct[u].misses \in Nat /\ acct[u].barred \in Nat \cup {None}
         /\ acct[u] \in Account
<1>1. now \in Nat
  BY LoginAssumption DEF TypeOK, Time
<1>2. QED
  BY <1>1 DEF TypeOK, Story, Account, Time, Later

\* The threads that go on.
LEMMA Going ==
  ASSUME NEW t \in Threads, End(t), TypeOK
  PROVE  \A x \in Threads : job'[x] # None => x # t /\ job'[x] = job[x] /\ job[x] # None
BY Ended

LEMMA OneLoopStep ==
  ASSUME TypeInv, OneLoop, [Next]_vars
  PROVE  OneLoop'
<1>0. TypeOK
  BY DEF TypeInv
<1>1. CASE \E t \in Threads, j \in Job : Begins(t, j)
  <2>1. PICK t \in Threads, j \in Job : Begins(t, j)
    BY <1>1
  <2>2. job'[t] = j /\ \A x \in Threads : x # t => job'[x] = job[x]
    BY <1>0, <2>1 DEF Begins, TypeOK
  <2>3. j.kind \in Async => \A x \in Threads : job[x] # None => job[x].kind \notin Async
    BY <2>1 DEF Begins, LoopFree
  <2>4. QED
    BY <2>2, <2>3 DEF OneLoop
<1>2. CASE \A x \in Threads : job'[x] \in {job[x], None}
  BY <1>2 DEF OneLoop
<1>3. ASSUME NEW t \in Threads, Serve(t) PROVE \A x \in Threads : job'[x] \in {job[x], None}
  <2>1. End(t)
    BY <1>3 DEF Serve, WrongPassword, RightPassword, WrongCode, RightCode, EndEnrol, EndRenew, EndUnenrol,
       EndLink, EndChange, EndAssign, EndPage
  <2>2. QED
    BY <1>0, <2>1, Ended, SMTT(30)
<1>4. QED
  BY <1>1, <1>2, <1>3, Steps DEF Aside

\* A row whose count and lock are as they were, or cleared: together, unless late.
Eased(u, a, late) ==
  LET c == acct[u] IN
  /\ a.failed \in {0, c.failed} /\ a.locked \in {None, c.locked}
  /\ late = 0 => SamePassword(a, c) \/ (a.failed = 0 /\ a.locked = None)
  /\ late =< 1 => a.failed = 0 \/ SamePassword(a, c)

LEMMA EasedKeeps ==
  ASSUME TypeOK, Passwords, NEW u \in Users, NEW a \in Account, NEW event,
         Save(u, a, event), event # "password", Eased(u, a, story'[u].late), now' = now
  PROVE  /\ Passwords'
         /\ \A x \in Job : Read(x) => Read(x)'
<1>0. /\ acct'[u] = a /\ \A v \in Users : v # u => acct'[v] = acct[v] /\ story'[v] = story[v]
      /\ story'[u].tries = IF a.failed = 0 THEN 0 ELSE story[u].tries
      /\ story'[u].since = IF a.failed = 0 \/ story[u].tries = 0 THEN now ELSE story[u].since
      /\ story'[u].late \in {story[u].late, story[u].late + 1}
  <2>1. story[u].tries \in Nat /\ story[u].late \in Nat
    BY Numbers
  <2>2. QED
    BY <2>1, Saved
<1>1. PICK c, s, r : c = acct[u] /\ s = story[u] /\ r = story'[u]
  OBVIOUS
<1>2. /\ now \in Nat /\ s.tries \in Nat /\ s.since \in Nat /\ s.late \in Nat
      /\ c.failed \in Nat /\ c.locked \in Nat \cup {None} /\ a.failed \in Nat
      /\ a.locked \in Nat \cup {None} /\ None \notin Nat
  BY <1>1, Numbers, Rows DEF Account, Later
<1>3. /\ r.tries = IF a.failed = 0 THEN 0 ELSE s.tries
      /\ r.since = IF a.failed = 0 \/ s.tries = 0 THEN now ELSE s.since
      /\ r.late \in {s.late, s.late + 1} /\ r.late \in Nat
  BY <1>0, <1>1, <1>2
<1>4. /\ s.tries =< c.failed
      /\ s.late = 0 /\ c.failed = 0 => c.locked = None
      /\ s.late =< 1 => Paced(s.tries, s.since, c.locked, now)
  BY <1>1 DEF Passwords
<1>5. /\ a.failed \in {0, c.failed} /\ a.locked \in {None, c.locked}
      /\ r.late = 0 => SamePassword(a, c) \/ (a.failed = 0 /\ a.locked = None)
      /\ r.late =< 1 => a.failed = 0 \/ SamePassword(a, c)
  BY <1>1 DEF Eased
<1>6. r.tries =< a.failed
  BY <1>2, <1>3, <1>4, <1>5
<1>7. r.late = 0 /\ a.failed = 0 => a.locked = None
  BY <1>2, <1>3, <1>4, <1>5 DEF SamePassword
<1>8. ASSUME r.late =< 1
      PROVE  Paced(r.tries, r.since, a.locked, now)
  <2>1. s.late =< 1 /\ Paced(s.tries, s.since, c.locked, now)
    BY <1>2, <1>3, <1>4, <1>8
  <2>2. c.locked # None => c.locked =< now + LockTime
    BY <2>1 DEF Paced
  <2>3. CASE a.failed = 0
    <3>1. r.tries = 0 /\ r.since = now
      BY <1>3, <2>3
    <3>2. a.locked # None => a.locked =< now + LockTime
      BY <1>5, <2>2
    <3>3. QED
      BY <1>2, <3>1, <3>2, PacedStarts
  <2>4. CASE a.failed # 0
    <3>1. a.locked = c.locked /\ r.tries = s.tries
      BY <1>3, <1>5, <1>8, <2>4 DEF SamePassword
    <3>2. CASE s.tries = 0
      <4>1. r.since = now
        BY <1>3, <3>2
      <4>2. QED
        BY <1>2, <2>2, <3>1, <3>2, <4>1, PacedStarts
    <3>3. CASE s.tries # 0
      BY <1>3, <2>1, <2>4, <3>1, <3>3
    <3>4. QED
      BY <3>2, <3>3
  <2>5. QED
    BY <2>3, <2>4
<1>9. Passwords'
  <2>1. ASSUME NEW v \in Users
        PROVE  /\ story'[v].tries =< acct'[v].failed
               /\ story'[v].late = 0 /\ acct'[v].failed = 0 => acct'[v].locked = None
               /\ story'[v].late =< 1 => Paced(story'[v].tries, story'[v].since, acct'[v].locked, now')
    <3>1. CASE v = u
      BY <1>0, <1>1, <1>6, <1>7, <1>8, <3>1
    <3>2. CASE v # u
      BY <1>0, <3>2 DEF Passwords
    <3>3. QED
      BY <3>1, <3>2
  <2>2. QED
    BY <2>1 DEF Passwords, Paced
<1>10. ASSUME NEW x \in Job, Read(x) PROVE Read(x)'
  <2>0. x.u \in Users /\ x.view.failed \in Nat
    BY DEF Job, Account
  <2>1. CASE x.u # u
    BY <1>0, <1>10, <2>0, <2>1 DEF Read, Open
  <2>2. CASE x.u = u
    <3>1. r.late = 0 => s.late = 0
      BY <1>2, <1>3
    <3>2. x.kind \in {"link", "assign"} =>
            (r.late = 0 /\ x.view.failed = 0 => x.view.locked = None)
      BY <1>1, <1>10, <2>2, <3>1 DEF Read
    <3>3. ASSUME x.kind = "login"
          PROVE  /\ a.failed =< x.view.failed /\ Open(a.locked) /\ Open(x.view.locked)
                 /\ r.late = 0 => SamePassword(x.view, a) \/ (a.failed = 0 /\ a.locked = None)
      <4>1. /\ c.failed =< x.view.failed /\ Open(c.locked) /\ Open(x.view.locked)
            /\ s.late = 0 => SamePassword(x.view, c) \/ (c.failed = 0 /\ c.locked = None)
        BY <1>1, <1>10, <2>2, <3>3 DEF Read
      <4>2. a.failed =< x.view.failed
        BY <1>2, <1>5, <2>0, <4>1
      <4>3. Open(a.locked)
        BY <1>5, <4>1 DEF Open
      <4>4. r.late = 0 => SamePassword(x.view, a) \/ (a.failed = 0 /\ a.locked = None)
        BY <1>5, <3>1, <4>1 DEF SamePassword
      <4>5. QED
        BY <4>1, <4>2, <4>3, <4>4
    <3>4. QED
      BY <1>0, <1>1, <2>2, <3>2, <3>3 DEF Read, Open
  <2>3. QED
    BY <2>1, <2>2
<1>11. QED
  BY <1>9, <1>10

\* A wrong guess, by the login that alone is being served.
LEMMA GuessKeeps ==
  ASSUME TypeInv, LockInv, NEW t \in Threads, WrongPassword(t)
  PROVE  /\ Passwords'
         /\ \A x \in Threads : x # t /\ job[x] # None => Read(job[x])'
<1>0. TypeOK /\ Passwords /\ now' = now /\ job[t] # None /\ job[t].kind = "login"
  BY DEF TypeInv, LockInv, WrongPassword, Doing
<1>1. PICK u, v, c, s : u = job[t].u /\ v = job[t].view /\ c = acct[u] /\ s = story[u]
  OBVIOUS
<1>2. u \in Users /\ v \in Account
  BY <1>0, <1>1, JobOf
<1>3. PICK a \in Account :
           /\ Save(u, a, "password")
           /\ a.failed = v.failed + 1
           /\ a.locked = IF Locks(v.failed + 1) /\ now + LockTime # v.locked
                         THEN now + LockTime ELSE c.locked
  BY <1>0, <1>1, PasswordRow
<1>4. /\ now \in Nat /\ s.tries \in Nat /\ s.since \in Nat /\ s.late \in Nat
      /\ c.failed \in Nat /\ c.locked \in Nat \cup {None} /\ v.failed \in Nat
      /\ v.locked \in Nat \cup {None} /\ None \notin Nat /\ LockTime \in Nat \ {0}
  BY <1>0, <1>1, <1>2, Numbers, Rows DEF Account, Later
<1>5. c.failed =< v.failed /\ Open(c.locked) /\ Open(v.locked)
  BY <1>0, <1>1 DEF LockInv, Read
<1>6. now + LockTime # v.locked
  BY <1>4, <1>5 DEF Open
<1>7. /\ acct'[u] = a /\ \A w \in Users : w # u => acct'[w] = acct[w] /\ story'[w] = story[w]
      /\ story'[u].tries = s.tries + 1
      /\ story'[u].since = IF s.tries = 0 THEN now ELSE s.since
      /\ story'[u].late = s.late
  <2>1. a.failed # 0
    BY <1>3, <1>4
  <2>2. QED
    BY <1>0, <1>1, <1>2, <1>3, <1>4, <2>1, Saved
<1>8. s.tries + 1 =< a.failed /\ a.failed # 0
  BY <1>0, <1>1, <1>2, <1>3, <1>4, <1>5 DEF Passwords
<1>9. ASSUME s.late =< 1
      PROVE  Paced(s.tries + 1, story'[u].since, a.locked, now)
  <2>1. Paced(s.tries, s.since, c.locked, now) /\ s.tries =< c.failed
    BY <1>0, <1>1, <1>2, <1>9 DEF Passwords
  <2>2. PICK m, lock, first :
          /\ m = v.failed + 1 /\ lock = IF Locks(m) THEN now + LockTime ELSE c.locked
          /\ first = IF s.tries = 0 THEN now ELSE s.since
    OBVIOUS
  <2>3. m \in Nat /\ s.tries < m /\ (c.locked # None => c.locked =< now)
    BY <1>4, <1>5, <2>1, <2>2 DEF Open
  <2>4. Paced(s.tries + 1, first, lock, now)
    <3>1. PICK n, since, old, time :
            n = s.tries /\ since = s.since /\ old = c.locked /\ time = now
      OBVIOUS
    <3>2. /\ n \in Nat /\ since \in Nat /\ old \in Nat \cup {None} /\ time \in Nat
          /\ Paced(n, since, old, time) /\ (old # None => old =< time)
          /\ m \in Nat /\ n < m
      BY <1>4, <2>1, <2>3, <3>1
    <3>3. lock = IF Locks(m) THEN time + LockTime ELSE old
      BY <2>2, <3>1
    <3>4. first = IF n = 0 THEN time ELSE since
      BY <2>2, <3>1
    <3>5. Paced(n + 1, first, lock, time)
      BY <3>2, <3>3, <3>4, PacedGuess
    <3>6. QED
      BY <3>1, <3>5
  <2>5. QED
    BY <1>3, <1>6, <1>7, <2>2, <2>4
<1>10. Passwords'
  <2>1. ASSUME NEW w \in Users
        PROVE  /\ story'[w].tries =< acct'[w].failed
               /\ story'[w].late = 0 /\ acct'[w].failed = 0 => acct'[w].locked = None
               /\ story'[w].late =< 1 => Paced(story'[w].tries, story'[w].since, acct'[w].locked, now')
    <3>1. CASE w = u
      BY <1>0, <1>7, <1>8, <1>9, <3>1
    <3>2. CASE w # u
      BY <1>0, <1>7, <3>2 DEF Passwords
    <3>3. QED
      BY <3>1, <3>2
  <2>2. QED
    BY <2>1 DEF Passwords, Paced
<1>11. ASSUME NEW x \in Threads, x # t, job[x] # None
       PROVE  Read(job[x])'
  <2>1. job[x].kind # "login"
    BY <1>0, <1>11 DEF LockInv, OneLoop, Async
  <2>2. job'[x] = job[x]
    BY <1>0, <1>11, Ended DEF WrongPassword
  <2>3. Read(job[x]) /\ job[x].u \in Users
    BY <1>0, <1>11, JobOf DEF LockInv
  <2>4. story'[job[x].u].late = story[job[x].u].late
    BY <1>1, <1>7, <2>3
  <2>5. QED
    BY <2>1, <2>2, <2>3, <2>4 DEF Read
<1>12. QED
  BY <1>10, <1>11

LEMMA LockServe ==
  ASSUME TypeInv, LockInv, NEW t \in Threads, Serve(t)
  PROVE  /\ Passwords'
         /\ \A x \in Threads : x # t /\ job[x] # None => Read(job[x])'
<1>0. TypeOK /\ Passwords /\ \A x \in Threads : job[x] # None => job[x] \in Job /\ Read(job[x])
  BY JobOf, SMTT(30) DEF TypeInv, LockInv
<1>1. End(t) /\ now' = now /\ job[t] # None
  BY DEF Serve, WrongPassword, RightPassword, WrongCode, RightCode, EndEnrol, EndRenew, EndUnenrol,
       EndLink, EndChange, EndAssign, EndPage, Doing
<1>2. PICK u, v, c : u = job[t].u /\ v = job[t].view /\ c = acct[u]
  OBVIOUS
<1>3. /\ u \in Users /\ v \in Account /\ c \in Account /\ v.failed \in Nat /\ c.failed \in Nat
      /\ story[u].late \in Nat
  BY <1>0, <1>1, <1>2, JobOf, Numbers DEF Account
<1>4. ASSUME NEW a \in Account, NEW event, Save(u, a, event), event # "password",
             Eased(u, a, story'[u].late)
      PROVE  /\ Passwords'
             /\ \A x \in Threads : x # t /\ job[x] # None => Read(job[x])'
  <2>1. Passwords' /\ \A x \in Job : Read(x) => Read(x)'
    BY <1>0, <1>1, <1>3, <1>4, EasedKeeps
  <2>2. \A x \in Threads : x # t => job'[x] = job[x]
    BY <1>0, <1>1, Ended
  <2>3. ASSUME NEW x \in Threads, x # t, job[x] # None PROVE Read(job[x])'
    <3>1. PICK y : y = job[x]
      OBVIOUS
    <3>2. y \in Job /\ Read(y)'
      BY <1>0, <2>1, <2>3, <3>1
    <3>3. job'[x] = y
      BY <2>2, <2>3, <3>1
    <3>4. QED
      BY <3>2, <3>3 DEF Read
  <2>4. QED
    BY <2>1, <2>3
<1>5. ASSUME UNCHANGED <<acct, story>>
      PROVE  /\ Passwords'
             /\ \A x \in Threads : x # t /\ job[x] # None => Read(job[x])'
  <2>1. \A x \in Threads : x # t => job'[x] = job[x]
    BY <1>0, <1>1, Ended
  <2>2. Passwords'
    BY <1>0, <1>1, <1>5 DEF Passwords, Paced
  <2>3. QED
    BY <1>0, <1>1, <1>5, <2>1, <2>2 DEF Read, Open
<1>6. ASSUME NEW a \in Account, NEW event, Save(u, a, event), event # "password",
             SamePassword(a, c)
      PROVE  /\ Passwords'
             /\ \A x \in Threads : x # t /\ job[x] # None => Read(job[x])'
  BY <1>2, <1>4, <1>6 DEF Eased, SamePassword
<1>7. CASE WrongPassword(t)
  BY <1>7, GuessKeeps
<1>8. CASE RightPassword(t)
  <2>1. CASE UNCHANGED <<acct, story>>
    BY <1>5, <2>1
  <2>2. CASE ~UNCHANGED <<acct, story>>
    <3>1. PICK a \in Account :
           /\ Save(u, a, "none")
           /\ a.failed = IF v.failed # 0 THEN 0 ELSE c.failed
           /\ a.locked = IF v.locked # None THEN None ELSE c.locked
      BY <1>0, <1>2, <1>8, <2>2, LoginRow
    <3>2. /\ c.failed =< v.failed
          /\ story[u].late = 0 => SamePassword(v, c) \/ (c.failed = 0 /\ c.locked = None)
      BY <1>0, <1>1, <1>2, <1>8 DEF Read, RightPassword, Doing
    <3>3. a.failed = 0
      BY <1>3, <3>1, <3>2
    <3>4. story'[u].late = story[u].late
      BY <1>0, <1>3, <3>1, Saved
    <3>5. story'[u].late = 0 => a.locked = None
      BY <3>1, <3>2, <3>4 DEF SamePassword
    <3>6. Eased(u, a, story'[u].late)
      BY <1>2, <3>1, <3>3, <3>5 DEF Eased
    <3>7. QED
      BY <1>4, <3>1, <3>6
  <2>3. QED
    BY <2>1, <2>2
<1>9. CASE WrongCode(t)
  <2>1. PICK a \in Account : Save(u, a, "code") /\ SamePassword(a, c)
    BY <1>0, <1>2, <1>9, CodeRow
  <2>2. QED
    BY <1>6, <2>1
<1>10. ASSUME NEW r \in BOOLEAN, RightCode(t, r)
       PROVE  /\ Passwords'
              /\ \A x \in Threads : x # t /\ job[x] # None => Read(job[x])'
  <2>1. CASE job[t].code # None /\ job[t].code \notin c.codes
    BY <1>2, <1>5, <1>10, <2>1 DEF RightCode
  <2>2. CASE job[t].code # None => job[t].code \in c.codes
    <3>1. PICK a \in Account : Save(u, a, "none") /\ SamePassword(a, c)
      BY <1>0, <1>2, <1>10, <2>2, FactorRow
    <3>2. QED
      BY <1>6, <3>1
  <2>3. QED
    BY <2>1, <2>2
<1>11. CASE EndEnrol(t)
  <2>1. job[t].cookie.secret # None
    BY <1>1, <1>11 DEF TypeInv, Asked, EndEnrol, Doing
  <2>2. PICK a \in Account : Save(u, a, Event(job[t], Enrolment)) /\ SamePassword(a, c)
    BY <1>0, <1>2, <1>11, <2>1, EnrolRow
  <2>3. Event(job[t], Enrolment) # "password"
    BY DEF Event
  <2>4. QED
    BY <1>6, <2>2, <2>3
<1>12. CASE EndRenew(t)
  <2>1. PICK a \in Account : Save(u, a, "none") /\ SamePassword(a, c)
    BY <1>0, <1>2, <1>12, RenewRow
  <2>2. QED
    BY <1>6, <2>1
<1>13. CASE EndLink(t) \/ EndAssign(t)
  <2>1. PICK a \in Account :
           /\ Save(u, a, Event(job[t], Counter))
           /\ a.failed = IF v.failed # 0 THEN 0 ELSE c.failed
           /\ a.locked = IF v.locked # None THEN None ELSE c.locked
    BY <1>0, <1>2, <1>13, LinkRow
  <2>2. story[u].late = 0 /\ v.failed = 0 => v.locked = None
    BY <1>0, <1>1, <1>2, <1>13 DEF Read, EndLink, EndAssign, Doing
  <2>3. Event(job[t], Counter) # "password"
    BY DEF Event
  <2>4. CASE Event(job[t], Counter) = "late"
    <3>1. story'[u].late = story[u].late + 1
      BY <1>0, <1>3, <2>1, <2>4, Saved
    <3>2. story'[u].late =< 1 => a.failed = 0 \/ SamePassword(a, c)
      BY <1>3, <2>1, <2>2, <3>1 DEF SamePassword
    <3>3. Eased(u, a, story'[u].late)
      BY <1>2, <1>3, <2>1, <3>1, <3>2 DEF Eased
    <3>4. QED
      BY <1>4, <2>1, <2>3, <3>3
  <2>5. CASE Event(job[t], Counter) # "late"
    <3>1. v.failed = c.failed /\ v.locked = c.locked
      BY <1>2, <2>5 DEF Event, Counter
    <3>2. a.failed = 0 /\ a.locked = None
      BY <2>1, <3>1
    <3>3. Eased(u, a, story'[u].late)
      BY <3>2 DEF Eased
    <3>4. QED
      BY <1>4, <2>1, <2>3, <3>3
  <2>6. QED
    BY <2>4, <2>5
<1>14. CASE EndChange(t)
  <2>1. PICK a \in Account : Save(u, a, "none") /\ SamePassword(a, c)
    BY <1>0, <1>2, <1>14, ChangeRow
  <2>2. QED
    BY <1>6, <2>1
<1>15. CASE EndPage(t)
  BY <1>5, <1>15 DEF EndPage
<1>16. CASE EndUnenrol(t)
  <2>1. PICK a \in Account, event \in {"bared", Event(job[t], Enrolment)} :
          /\ Save(u, a, event) /\ SamePassword(a, c)
          /\ event = "bared" \/ event = Event(job[t], Enrolment)
    BY <1>0, <1>2, <1>16, UnenrolRow
  <2>2. event # "password"
    BY <2>1 DEF Event
  <2>3. QED
    BY <1>6, <2>1, <2>2
<1>17. QED
  BY <1>7, <1>8, <1>9, <1>10, <1>11, <1>12, <1>13, <1>14, <1>15, <1>16 DEF Serve

LEMMA LockStep ==
  ASSUME TypeInv, LockInv, [Next]_vars
  PROVE  LockInv'
<1>0. TypeOK /\ Passwords /\ \A x \in Threads : job[x] # None => job[x] \in Job /\ Read(job[x])
  BY JobOf DEF TypeInv, LockInv
<1>1. OneLoop'
  BY OneLoopStep DEF LockInv
<1>2. CASE \E t \in Threads, j \in Job : Begins(t, j)
  <2>1. PICK t \in Threads, j \in Job : Begins(t, j)
    BY <1>2
  <2>2. job'[t] = j /\ \A x \in Threads : x # t => job'[x] = job[x]
    BY <1>0, <2>1 DEF Begins, TypeOK
  <2>3. UNCHANGED <<acct, story, now>> /\ j.u \in Users
    BY <2>1 DEF Begins, Job
  <2>4. Passwords'
    BY <1>0, <2>3 DEF Passwords, Paced
  <2>5. Read(j)
    <3>1. /\ acct[j.u].failed \in Nat /\ acct[j.u].locked \in Nat \cup {None} /\ now \in Nat
      BY <1>0, <2>3, Numbers
    <3>2. j.kind = "login" => Open(acct[j.u].locked)
      BY <2>1, <3>1, Rows DEF Begins, Locked, Open
    <3>3. QED
      BY <1>0, <2>1, <2>3, <3>1, <3>2 DEF Begins, Read, Passwords, SamePassword
  <2>6. ASSUME NEW x \in Threads, job'[x] # None PROVE Read(job[x])'
    <3>1. PICK y : y = IF x = t THEN j ELSE job[x]
      OBVIOUS
    <3>2. Read(y) /\ job'[x] = y
      BY <1>0, <2>2, <2>5, <2>6, <3>1
    <3>3. QED
      BY <2>3, <3>2 DEF Read, Open
  <2>7. QED
    BY <1>1, <2>4, <2>6 DEF LockInv
<1>3. CASE \E t \in Threads : Serve(t)
  <2>1. PICK t \in Threads : Serve(t)
    BY <1>3
  <2>2. /\ Passwords'
        /\ \A x \in Threads : x # t /\ job[x] # None => Read(job[x])'
    BY <2>1, LockServe
  <2>3. End(t)
    BY <2>1 DEF Serve, WrongPassword, RightPassword, WrongCode, RightCode, EndEnrol, EndRenew, EndUnenrol,
       EndLink, EndChange, EndAssign, EndPage
  <2>4. \A x \in Threads : job'[x] # None => x # t /\ job[x] # None
    BY <1>0, <2>3, Ended
  <2>5. QED
    BY <1>1, <2>2, <2>4 DEF LockInv
<1>4. ASSUME NEW u \in Users, Whole(u), UNCHANGED <<now, job>>
      PROVE  LockInv'
  <2>1. PICK a \in Account :
          /\ Save(u, a, "none")
          /\ SamePassword(a, acct[u]) \/ (a.failed = 0 /\ a.locked = None)
    BY <1>4 DEF Whole
  <2>2. Eased(u, a, story'[u].late)
    BY <2>1 DEF Eased, SamePassword
  <2>3. Passwords' /\ \A x \in Job : Read(x) => Read(x)'
    BY <1>0, <1>4, <2>1, <2>2, EasedKeeps
  <2>4. ASSUME NEW x \in Threads, job[x] # None PROVE Read(job[x])'
    <3>1. PICK y : y = job[x]
      OBVIOUS
    <3>2. y \in Job /\ Read(y)'
      BY <1>0, <2>3, <2>4, <3>1
    <3>3. job'[x] = y
      BY <1>4, <3>1
    <3>4. QED
      BY <3>2, <3>3 DEF Read
  <2>5. QED
    BY <1>1, <1>4, <2>3, <2>4 DEF LockInv
<1>5. CASE Aside
  <2>1. UNCHANGED <<acct, story>> /\ now' \in {now, now + 1} /\ now \in Nat
    BY <1>0, <1>5, LoginAssumption DEF Aside, TypeOK, Time
  <2>2. Passwords'
    <3>1. ASSUME NEW u \in Users, Paced(story[u].tries, story[u].since, acct[u].locked, now)
          PROVE  Paced(story[u].tries, story[u].since, acct[u].locked, now')
      <4>1. PICK n, since, lock, time :
              n = story[u].tries /\ since = story[u].since /\ lock = acct[u].locked /\ time = now
        OBVIOUS
      <4>2. n \in Nat /\ since \in Nat /\ lock \in Nat \cup {None} /\ time \in Nat
        BY <1>0, <4>1, Numbers
      <4>3. Paced(n, since, lock, time) /\ Paced(n, since, lock, time + 1)
        BY <3>1, <4>1, <4>2, PacedLater
      <4>4. QED
        BY <2>1, <4>1, <4>3
    <3>2. QED
      BY <1>0, <2>1, <3>1 DEF Passwords, Paced
  <2>3. ASSUME NEW x \in Job, Read(x) PROVE Read(x)'
    <3>1. ASSUME NEW lock \in Nat \cup {None}, Open(lock) PROVE Open(lock)'
      BY <2>1, <3>1, Rows DEF Open
    <3>2. acct[x.u].locked \in Nat \cup {None} /\ x.view.locked \in Nat \cup {None}
      BY <1>0, Numbers DEF Job, Account, Later
    <3>3. PICK lock : lock = acct[x.u].locked
      OBVIOUS
    <3>4. x.kind = "login" => Open(lock)' /\ Open(x.view.locked)'
      BY <2>3, <3>1, <3>2, <3>3 DEF Read
    <3>5. QED
      BY <2>1, <2>3, <3>3, <3>4 DEF Read, Open
  <2>4. ASSUME NEW x \in Threads, job'[x] # None PROVE Read(job[x])'
    <3>1. job'[x] = job[x]
      BY <1>5, <2>4 DEF Aside
    <3>2. PICK y : y = job[x]
      OBVIOUS
    <3>3. y \in Job /\ Read(y)'
      BY <1>0, <2>3, <2>4, <3>1, <3>2
    <3>4. QED
      BY <3>1, <3>2, <3>3 DEF Read
  <2>5. QED
    BY <1>1, <2>2, <2>4 DEF LockInv
<1>6. QED
  BY <1>2, <1>3, <1>4, <1>5, Steps

LEMMA Starting ==
  ASSUME Init, NEW u \in Users
  PROVE  LET a == acct[u] IN
         /\ a.failed = 0 /\ a.locked = None /\ a.misses = 0 /\ a.barred = None
         /\ a.used = {} /\ a.devices = {}
         /\ \/ a.enabled = FALSE /\ a.secret = None /\ a.codes = {}
            \/ a.enabled = TRUE /\ a.secret = 1 /\ a.codes = {2}
<1> DEFINE Like(a) ==
      /\ a.failed = 0 /\ a.locked = None /\ a.misses = 0 /\ a.barred = None
      /\ a.used = {} /\ a.devices = {}
      /\ \/ a.enabled = FALSE /\ a.secret = None /\ a.codes = {}
         \/ a.enabled = TRUE /\ a.secret = 1 /\ a.codes = {2}
<1>1. PICK n, e, x : /\ n = NewAccount
                     /\ e = [n EXCEPT !.must = FALSE, !.enabled = TRUE, !.secret = 1, !.codes = {2}]
                     /\ x = [e EXCEPT !.active = FALSE]
  OBVIOUS
<1>2. /\ n \in Account /\ Like(n) /\ n.enabled = FALSE
  BY <1>1, Rows DEF NewAccount
<1>3. e = EnrolledAccount
  BY <1>1 DEF EnrolledAccount
<1>4. /\ e \in Account /\ e.failed = 0 /\ e.locked = None /\ e.misses = 0 /\ e.barred = None
      /\ e.used = {} /\ e.devices = {} /\ e.secret = 1 /\ e.codes = {2} /\ e.enabled = TRUE
  BY <1>1, <1>2, <1>3, Rows DEF Account
<1>5. /\ x.failed = 0 /\ x.locked = None /\ x.misses = 0 /\ x.barred = None
      /\ x.used = {} /\ x.devices = {} /\ x.secret = 1 /\ x.codes = {2} /\ x.enabled = TRUE
  BY <1>1, <1>4 DEF Account
<1>6. acct[u] = n \/ acct[u] = e \/ acct[u] = x
  BY <1>1, <1>3 DEF Init
<1>7. Like(acct[u])
  BY <1>2, <1>4, <1>5, <1>6
<1>8. QED
  BY <1>7

LEMMA LockInit == ASSUME Init PROVE LockInv
<1>1. \A t \in Threads : job[t] = None
  BY DEF Init
<1>2. ASSUME NEW u \in Users
      PROVE  /\ story[u].tries = 0 /\ story[u].since = 0 /\ story[u].late = 0
             /\ acct[u].failed = 0 /\ acct[u].locked = None
  BY Starting DEF Init
<1>3. now = 0 /\ Paced(0, 0, None, 0)
  BY PacedStarts DEF Init
<1>4. QED
  BY <1>1, <1>2, <1>3 DEF LockInv, OneLoop, Passwords

LEMMA LockInvariance == Spec => []LockInv
<1>1. TypeInv /\ LockInv /\ [Next]_vars => LockInv'
  BY LockStep
<1>2. QED
  BY <1>1, LockInit, TypeInvariance, PTL DEF Spec

-----------------------------------------------------------------------------
(* Guessing codes: the same, and no reset of a password is in the way.     *)

CodeGuesses ==
  \A u \in Users :
    /\ story[u].codes =< acct[u].misses
    /\ Paced(story[u].codes, story[u].from, acct[u].barred, now)

ReadCode(j) ==
  LET a == acct[j.u] IN
  j.kind = "verify" => a.misses =< j.view.misses /\ Open(a.barred) /\ Open(j.view.barred)

BarInv == CodeGuesses /\ \A t \in Threads : job[t] # None => ReadCode(job[t])

EasedCode(u, a) ==
  SameCode(a, acct[u]) \/ (a.misses = 0 /\ a.barred \in {None, acct[u].barred})

LEMMA EasedCodeKeeps ==
  ASSUME TypeOK, CodeGuesses, NEW u \in Users, NEW a \in Account, NEW event,
         Save(u, a, event), event # "code", EasedCode(u, a), now' = now
  PROVE  /\ CodeGuesses'
         /\ \A x \in Job : ReadCode(x) => ReadCode(x)'
<1>1. PICK c, s, r : c = acct[u] /\ s = story[u] /\ r = story'[u]
  OBVIOUS
<1>2. /\ now \in Nat /\ s.codes \in Nat /\ s.from \in Nat
      /\ c.misses \in Nat /\ c.barred \in Nat \cup {None} /\ a.misses \in Nat
      /\ a.barred \in Nat \cup {None} /\ None \notin Nat
  BY <1>1, Numbers, Rows DEF Account, Later
<1>3. /\ acct'[u] = a /\ \A v \in Users : v # u => acct'[v] = acct[v] /\ story'[v] = story[v]
      /\ r.codes = IF a.misses = 0 THEN 0 ELSE s.codes
      /\ r.from = IF a.misses = 0 \/ s.codes = 0 THEN now ELSE s.from
  BY <1>1, <1>2, Saved
<1>4. s.codes =< c.misses /\ Paced(s.codes, s.from, c.barred, now)
  BY <1>1 DEF CodeGuesses
<1>5. (a.misses = c.misses /\ a.barred = c.barred) \/ (a.misses = 0 /\ a.barred \in {None, c.barred})
  BY <1>1 DEF EasedCode, SameCode
<1>6. r.codes =< a.misses
  BY <1>2, <1>3, <1>4, <1>5
<1>7. Paced(r.codes, r.from, a.barred, now)
  <2>1. a.barred # None => a.barred =< now + LockTime
    BY <1>4, <1>5 DEF Paced
  <2>2. CASE r.codes = 0 /\ r.from = now
    BY <1>2, <2>1, <2>2, PacedStarts
  <2>3. CASE ~(r.codes = 0 /\ r.from = now)
    <3>1. r.codes = s.codes /\ r.from = s.from /\ a.barred = c.barred
      BY <1>3, <1>5, <2>3
    <3>2. QED
      BY <1>4, <3>1
  <2>4. QED
    BY <2>2, <2>3
<1>8. CodeGuesses'
  <2>1. ASSUME NEW v \in Users
        PROVE  /\ story'[v].codes =< acct'[v].misses
               /\ Paced(story'[v].codes, story'[v].from, acct'[v].barred, now')
    <3>1. CASE v = u
      BY <1>1, <1>3, <1>6, <1>7, <3>1
    <3>2. CASE v # u
      BY <1>3, <3>2 DEF CodeGuesses
    <3>3. QED
      BY <3>1, <3>2
  <2>2. QED
    BY <2>1 DEF CodeGuesses, Paced
<1>9. ASSUME NEW x \in Job, ReadCode(x) PROVE ReadCode(x)'
  <2>0. x.u \in Users /\ x.view.misses \in Nat
    BY DEF Job, Account
  <2>1. CASE x.u # u
    BY <1>3, <1>9, <2>0, <2>1 DEF ReadCode, Open
  <2>2. CASE x.u = u
    BY <1>1, <1>2, <1>3, <1>5, <1>9, <2>0, <2>2 DEF ReadCode, Open
  <2>3. QED
    BY <2>1, <2>2
<1>10. QED
  BY <1>8, <1>9

LEMMA CodeGuessKeeps ==
  ASSUME TypeInv, OneLoop, BarInv, NEW t \in Threads, WrongCode(t)
  PROVE  /\ CodeGuesses'
         /\ \A x \in Threads : x # t /\ job[x] # None => ReadCode(job[x])'
<1>0. TypeOK /\ CodeGuesses /\ now' = now /\ job[t] # None /\ job[t].kind = "verify"
  BY DEF TypeInv, BarInv, WrongCode, Doing
<1>1. PICK u, v, c, s : u = job[t].u /\ v = job[t].view /\ c = acct[u] /\ s = story[u]
  OBVIOUS
<1>2. u \in Users /\ v \in Account
  BY <1>0, <1>1, JobOf
<1>3. PICK a \in Account :
           /\ Save(u, a, "code")
           /\ a.misses = v.misses + 1
           /\ a.barred = IF Locks(v.misses + 1) /\ now + LockTime # v.barred
                         THEN now + LockTime ELSE c.barred
  BY <1>0, <1>1, CodeRow
<1>4. /\ now \in Nat /\ s.codes \in Nat /\ s.from \in Nat
      /\ c.misses \in Nat /\ c.barred \in Nat \cup {None} /\ v.misses \in Nat
      /\ v.barred \in Nat \cup {None} /\ None \notin Nat /\ LockTime \in Nat \ {0}
  BY <1>0, <1>1, <1>2, Numbers, Rows DEF Account, Later
<1>5. c.misses =< v.misses /\ Open(c.barred) /\ Open(v.barred)
  BY <1>0, <1>1 DEF BarInv, ReadCode
<1>6. now + LockTime # v.barred
  BY <1>4, <1>5 DEF Open
<1>7. /\ acct'[u] = a /\ \A w \in Users : w # u => acct'[w] = acct[w] /\ story'[w] = story[w]
      /\ story'[u].codes = s.codes + 1
      /\ story'[u].from = IF s.codes = 0 THEN now ELSE s.from
  <2>1. a.misses # 0
    BY <1>3, <1>4
  <2>2. QED
    BY <1>0, <1>1, <1>2, <1>3, <1>4, <2>1, Saved
<1>8. Paced(s.codes, s.from, c.barred, now) /\ s.codes =< c.misses
  BY <1>0, <1>1, <1>2 DEF CodeGuesses
<1>9. Paced(s.codes + 1, story'[u].from, a.barred, now)
  <2>1. PICK m, lock, first, n, since, old, time :
          /\ m = v.misses + 1 /\ lock = IF Locks(m) THEN time + LockTime ELSE old
          /\ first = IF n = 0 THEN time ELSE since
          /\ n = s.codes /\ since = s.from /\ old = c.barred /\ time = now
    OBVIOUS
  <2>2. /\ n \in Nat /\ since \in Nat /\ old \in Nat \cup {None} /\ time \in Nat
        /\ Paced(n, since, old, time) /\ (old # None => old =< time)
        /\ m \in Nat /\ n < m
    BY <1>4, <1>5, <1>8, <2>1 DEF Open
  <2>3. Paced(n + 1, first, lock, time)
    BY <2>1, <2>2, PacedGuess
  <2>4. QED
    BY <1>3, <1>6, <1>7, <2>1, <2>3
<1>10. s.codes + 1 =< a.misses
  BY <1>3, <1>4, <1>5, <1>8
<1>11. CodeGuesses'
  <2>1. ASSUME NEW w \in Users
        PROVE  /\ story'[w].codes =< acct'[w].misses
               /\ Paced(story'[w].codes, story'[w].from, acct'[w].barred, now')
    <3>1. CASE w = u
      BY <1>0, <1>7, <1>9, <1>10, <3>1
    <3>2. CASE w # u
      BY <1>0, <1>7, <3>2 DEF CodeGuesses
    <3>3. QED
      BY <3>1, <3>2
  <2>2. QED
    BY <2>1 DEF CodeGuesses, Paced
<1>12. ASSUME NEW x \in Threads, x # t, job[x] # None PROVE ReadCode(job[x])'
  <2>1. job[x].kind # "verify"
    BY <1>0, <1>12 DEF OneLoop, Async
  <2>2. job'[x] = job[x]
    BY <1>0, <1>12, Ended DEF WrongCode
  <2>3. QED
    BY <2>1, <2>2 DEF ReadCode
<1>13. QED
  BY <1>11, <1>12

LEMMA BarServe ==
  ASSUME TypeInv, OneLoop, BarInv, NEW t \in Threads, Serve(t)
  PROVE  /\ CodeGuesses'
         /\ \A x \in Threads : x # t /\ job[x] # None => ReadCode(job[x])'
<1>0. TypeOK /\ CodeGuesses /\ \A x \in Threads : job[x] # None => job[x] \in Job /\ ReadCode(job[x])
  BY JobOf, SMTT(30) DEF TypeInv, BarInv
<1>1. End(t) /\ now' = now /\ job[t] # None
  BY DEF Serve, WrongPassword, RightPassword, WrongCode, RightCode, EndEnrol, EndRenew, EndUnenrol,
       EndLink, EndChange, EndAssign, EndPage, Doing
<1>2. PICK u, v, c : u = job[t].u /\ v = job[t].view /\ c = acct[u]
  OBVIOUS
<1>3. u \in Users /\ v \in Account /\ c \in Account /\ v.misses \in Nat /\ c.misses \in Nat
  BY <1>0, <1>1, <1>2, JobOf, Numbers DEF Account
<1>4. ASSUME NEW a \in Account, NEW event, Save(u, a, event), event # "code", EasedCode(u, a)
      PROVE  /\ CodeGuesses'
             /\ \A x \in Threads : x # t /\ job[x] # None => ReadCode(job[x])'
  <2>1. CodeGuesses' /\ \A x \in Job : ReadCode(x) => ReadCode(x)'
    BY <1>0, <1>1, <1>3, <1>4, EasedCodeKeeps
  <2>2. ASSUME NEW x \in Threads, x # t, job[x] # None PROVE ReadCode(job[x])'
    <3>1. PICK y : y = job[x]
      OBVIOUS
    <3>2. y \in Job /\ ReadCode(y)'
      BY <1>0, <2>1, <2>2, <3>1
    <3>3. job'[x] = y
      BY <1>0, <1>1, <2>2, <3>1, Ended
    <3>4. QED
      BY <3>2, <3>3 DEF ReadCode
  <2>3. QED
    BY <2>1, <2>2
<1>5. ASSUME UNCHANGED <<acct, story>>
      PROVE  /\ CodeGuesses'
             /\ \A x \in Threads : x # t /\ job[x] # None => ReadCode(job[x])'
  <2>1. \A x \in Threads : x # t => job'[x] = job[x]
    BY <1>0, <1>1, Ended
  <2>2. CodeGuesses'
    BY <1>0, <1>1, <1>5 DEF CodeGuesses, Paced
  <2>3. QED
    BY <1>0, <1>1, <1>5, <2>1, <2>2 DEF ReadCode, Open
<1>6. ASSUME NEW a \in Account, NEW event, Save(u, a, event), event # "code", SameCode(a, c)
      PROVE  /\ CodeGuesses'
             /\ \A x \in Threads : x # t /\ job[x] # None => ReadCode(job[x])'
  BY <1>2, <1>4, <1>6 DEF EasedCode
<1>7. CASE WrongCode(t)
  BY <1>7, CodeGuessKeeps
<1>8. ASSUME NEW r \in BOOLEAN, RightCode(t, r)
       PROVE  /\ CodeGuesses'
              /\ \A x \in Threads : x # t /\ job[x] # None => ReadCode(job[x])'
  <2>1. CASE job[t].code # None /\ job[t].code \notin c.codes
    BY <1>2, <1>5, <1>8, <2>1 DEF RightCode
  <2>2. CASE job[t].code # None => job[t].code \in c.codes
    <3>1. PICK a \in Account :
            /\ Save(u, a, "none")
            /\ a.misses = IF job[t].code # None \/ v.misses # 0 THEN 0 ELSE c.misses
            /\ a.barred \in {None, c.barred}
      BY <1>0, <1>2, <1>8, <2>2, FactorRow
    <3>2. c.misses =< v.misses
      BY <1>0, <1>1, <1>2, <1>8 DEF ReadCode, RightCode, Doing
    <3>3. a.misses = 0
      BY <1>3, <3>1, <3>2
    <3>4. EasedCode(u, a)
      BY <1>2, <3>1, <3>3 DEF EasedCode
    <3>5. QED
      BY <1>4, <3>1, <3>4
  <2>3. QED
    BY <2>1, <2>2
<1>9. CASE WrongPassword(t)
  <2>1. PICK a \in Account : Save(u, a, "password") /\ SameCode(a, c)
    BY <1>0, <1>2, <1>9, PasswordRow
  <2>2. QED
    BY <1>6, <2>1
<1>10. CASE RightPassword(t)
  <2>1. CASE UNCHANGED <<acct, story>>
    BY <1>5, <2>1
  <2>2. CASE ~UNCHANGED <<acct, story>>
    <3>1. PICK a \in Account : Save(u, a, "none") /\ SameCode(a, c)
      BY <1>0, <1>2, <1>10, <2>2, LoginRow
    <3>2. QED
      BY <1>6, <3>1
  <2>3. QED
    BY <2>1, <2>2
<1>11. CASE EndEnrol(t)
  <2>1. job[t].cookie.secret # None
    BY <1>1, <1>11 DEF TypeInv, Asked, EndEnrol, Doing
  <2>2. PICK a \in Account : Save(u, a, Event(job[t], Enrolment)) /\ SameCode(a, c)
    BY <1>0, <1>2, <1>11, <2>1, EnrolRow
  <2>3. Event(job[t], Enrolment) # "code"
    BY DEF Event
  <2>4. QED
    BY <1>6, <2>2, <2>3
<1>12. CASE EndRenew(t)
  <2>1. PICK a \in Account : Save(u, a, "none") /\ SameCode(a, c)
    BY <1>0, <1>2, <1>12, RenewRow
  <2>2. QED
    BY <1>6, <2>1
<1>13. CASE EndLink(t) \/ EndAssign(t)
  <2>1. PICK a \in Account : Save(u, a, Event(job[t], Counter)) /\ SameCode(a, c)
    BY <1>0, <1>2, <1>13, LinkRow
  <2>2. Event(job[t], Counter) # "code"
    BY DEF Event
  <2>3. QED
    BY <1>6, <2>1, <2>2
<1>14. CASE EndChange(t)
  <2>1. PICK a \in Account : Save(u, a, "none") /\ SameCode(a, c)
    BY <1>0, <1>2, <1>14, ChangeRow
  <2>2. QED
    BY <1>6, <2>1
<1>15. CASE EndPage(t)
  BY <1>5, <1>15 DEF EndPage
<1>16. CASE EndUnenrol(t)
  <2>1. PICK a \in Account, event \in {"bared", Event(job[t], Enrolment)} :
          /\ Save(u, a, event) /\ SameCode(a, c)
          /\ event = "bared" \/ event = Event(job[t], Enrolment)
    BY <1>0, <1>2, <1>16, UnenrolRow
  <2>2. event # "code"
    BY <2>1 DEF Event
  <2>3. QED
    BY <1>6, <2>1, <2>2
<1>17. QED
  BY <1>7, <1>8, <1>9, <1>10, <1>11, <1>12, <1>13, <1>14, <1>15, <1>16 DEF Serve

LEMMA BarStep ==
  ASSUME TypeInv, OneLoop, BarInv, [Next]_vars
  PROVE  BarInv'
<1>0. TypeOK /\ CodeGuesses /\ \A x \in Threads : job[x] # None => job[x] \in Job /\ ReadCode(job[x])
  BY JobOf DEF TypeInv, BarInv
<1>2. CASE \E t \in Threads, j \in Job : Begins(t, j)
  <2>1. PICK t \in Threads, j \in Job : Begins(t, j)
    BY <1>2
  <2>2. job'[t] = j /\ \A x \in Threads : x # t => job'[x] = job[x]
    BY <1>0, <2>1 DEF Begins, TypeOK
  <2>3. UNCHANGED <<acct, story, now>> /\ j.u \in Users
    BY <2>1 DEF Begins, Job
  <2>4. CodeGuesses'
    BY <1>0, <2>3 DEF CodeGuesses, Paced
  <2>5. ReadCode(j)
    <3>1. /\ acct[j.u].misses \in Nat /\ acct[j.u].barred \in Nat \cup {None} /\ now \in Nat
      BY <1>0, <2>3, Numbers
    <3>2. j.kind = "verify" => Open(acct[j.u].barred)
      BY <2>1, <3>1, Rows DEF Begins, Locked, Open
    <3>3. QED
      BY <2>1, <3>1, <3>2 DEF Begins, ReadCode
  <2>6. ASSUME NEW x \in Threads, job'[x] # None PROVE ReadCode(job[x])'
    <3>1. PICK y : y = IF x = t THEN j ELSE job[x]
      OBVIOUS
    <3>2. ReadCode(y) /\ job'[x] = y
      BY <1>0, <2>2, <2>5, <2>6, <3>1
    <3>3. QED
      BY <2>3, <3>2 DEF ReadCode, Open
  <2>7. QED
    BY <2>4, <2>6 DEF BarInv
<1>3. CASE \E t \in Threads : Serve(t)
  <2>1. PICK t \in Threads : Serve(t)
    BY <1>3
  <2>2. /\ CodeGuesses'
        /\ \A x \in Threads : x # t /\ job[x] # None => ReadCode(job[x])'
    BY <2>1, BarServe, SMTT(30)
  <2>3. End(t)
    BY <2>1 DEF Serve, WrongPassword, RightPassword, WrongCode, RightCode, EndEnrol, EndRenew, EndUnenrol,
       EndLink, EndChange, EndAssign, EndPage
  <2>4. \A x \in Threads : job'[x] # None => x # t /\ job[x] # None
    BY <1>0, <2>3, Ended
  <2>5. QED
    BY <2>2, <2>4 DEF BarInv
<1>4. ASSUME NEW u \in Users, Whole(u), UNCHANGED <<now, job>>
      PROVE  BarInv'
  <2>1. PICK a \in Account :
          /\ Save(u, a, "none")
          /\ SameCode(a, acct[u]) \/ (a.misses = 0 /\ a.barred = None)
    BY <1>4 DEF Whole
  <2>2. EasedCode(u, a)
    BY <2>1 DEF EasedCode
  <2>3. CodeGuesses' /\ \A x \in Job : ReadCode(x) => ReadCode(x)'
    BY <1>0, <1>4, <2>1, <2>2, EasedCodeKeeps
  <2>4. ASSUME NEW x \in Threads, job[x] # None PROVE ReadCode(job[x])'
    <3>1. PICK y : y = job[x]
      OBVIOUS
    <3>2. y \in Job /\ ReadCode(y)'
      BY <1>0, <2>3, <2>4, <3>1
    <3>3. job'[x] = y
      BY <1>4, <3>1
    <3>4. QED
      BY <3>2, <3>3 DEF ReadCode
  <2>5. QED
    BY <1>4, <2>3, <2>4 DEF BarInv
<1>5. CASE Aside
  <2>1. UNCHANGED <<acct, story>> /\ now' \in {now, now + 1} /\ now \in Nat
    BY <1>0, <1>5, LoginAssumption DEF Aside, TypeOK, Time
  <2>2. CodeGuesses'
    <3>1. ASSUME NEW u \in Users, Paced(story[u].codes, story[u].from, acct[u].barred, now)
          PROVE  Paced(story[u].codes, story[u].from, acct[u].barred, now')
      <4>1. PICK n, since, lock, time :
              n = story[u].codes /\ since = story[u].from /\ lock = acct[u].barred /\ time = now
        OBVIOUS
      <4>2. n \in Nat /\ since \in Nat /\ lock \in Nat \cup {None} /\ time \in Nat
        BY <1>0, <4>1, Numbers
      <4>3. Paced(n, since, lock, time) /\ Paced(n, since, lock, time + 1)
        BY <3>1, <4>1, <4>2, PacedLater
      <4>4. QED
        BY <2>1, <4>1, <4>3
    <3>2. QED
      BY <1>0, <2>1, <3>1 DEF CodeGuesses, Paced
  <2>3. ASSUME NEW x \in Job, ReadCode(x) PROVE ReadCode(x)'
    <3>1. ASSUME NEW lock \in Nat \cup {None}, Open(lock) PROVE Open(lock)'
      BY <2>1, <3>1, Rows DEF Open
    <3>2. acct[x.u].barred \in Nat \cup {None} /\ x.view.barred \in Nat \cup {None}
      BY <1>0, Numbers DEF Job, Account, Later
    <3>3. PICK lock : lock = acct[x.u].barred
      OBVIOUS
    <3>4. x.kind = "verify" => Open(lock)' /\ Open(x.view.barred)'
      BY <2>3, <3>1, <3>2, <3>3 DEF ReadCode
    <3>5. QED
      BY <2>1, <2>3, <3>3, <3>4 DEF ReadCode, Open
  <2>4. ASSUME NEW x \in Threads, job'[x] # None PROVE ReadCode(job[x])'
    <3>1. job'[x] = job[x]
      BY <1>5, <2>4 DEF Aside
    <3>2. PICK y : y = job[x]
      OBVIOUS
    <3>3. y \in Job /\ ReadCode(y)'
      BY <1>0, <2>3, <2>4, <3>1, <3>2
    <3>4. QED
      BY <3>1, <3>2, <3>3 DEF ReadCode
  <2>5. QED
    BY <2>2, <2>4 DEF BarInv
<1>6. QED
  BY <1>2, <1>3, <1>4, <1>5, Steps

LEMMA BarInit == ASSUME Init PROVE BarInv
<1>1. \A t \in Threads : job[t] = None
  BY DEF Init
<1>2. ASSUME NEW u \in Users
      PROVE  /\ story[u].codes = 0 /\ story[u].from = 0
             /\ acct[u].misses = 0 /\ acct[u].barred = None
  BY Starting DEF Init
<1>3. now = 0 /\ Paced(0, 0, None, 0)
  BY PacedStarts DEF Init
<1>4. QED
  BY <1>1, <1>2, <1>3 DEF BarInv, CodeGuesses

LEMMA BarInvariance == Spec => []BarInv
<1>1. TypeInv /\ LockInv /\ BarInv /\ [Next]_vars => BarInv'
  BY BarStep DEF LockInv
<1>2. QED
  BY <1>1, BarInit, TypeInvariance, LockInvariance, PTL DEF Spec

\* Guessing is slow: beyond the threshold, each wrong guess has waited for a lock to
\* run out, for passwords as long as one reset at most was late, and for codes.
THEOREM GuessingIsSlow == Spec => []GuessRate
<1>1. TypeInv /\ LockInv /\ BarInv => GuessRate
  <2>1. SUFFICES ASSUME TypeInv, LockInv, BarInv, Threshold > 0, NEW u \in Users
                 PROVE  /\ story[u].late =< 1 /\ story[u].tries > Threshold =>
                             (story[u].tries - Threshold) * LockTime <= now - story[u].since
                        /\ story[u].codes > Threshold =>
                             (story[u].codes - Threshold) * LockTime <= now - story[u].from
    BY DEF GuessRate
  <2>2. /\ story[u].late =< 1 => Paced(story[u].tries, story[u].since, acct[u].locked, now)
        /\ Paced(story[u].codes, story[u].from, acct[u].barred, now)
    BY <2>1 DEF LockInv, Passwords, BarInv, CodeGuesses
  <2>3. QED
    BY <2>1, <2>2, Numbers, PacedRate DEF TypeInv
<1>2. QED
  BY <1>1, TypeInvariance, LockInvariance, BarInvariance, PTL

-----------------------------------------------------------------------------
(* Recovery codes.                                                         *)

\* A code that opened a session is gone or marked.
Marked(u) ==
  /\ \A i \in acct[u].codes : i =< ids
  /\ \A i \in Id : opened[<<u, i>>] # 0 =>
       opened[<<u, i>>] = 1 /\ i =< ids /\ (i \in acct[u].codes => i \in acct[u].used)

\* The code that is being verified has opened none.
Unopened(j) ==
  j.kind = "verify" /\ j.good /\ j.code # None => opened[<<j.u, j.code>>] = 0 /\ j.code =< ids

SpentInv ==
  (\A u \in Users : Marked(u)) /\ \A t \in Threads : job[t] # None => Unopened(job[t])

LEMMA IdsGrow ==
  ASSUME TypeOK
  PROVE  /\ ids \in Nat /\ Fresh \in Nat /\ Fresh > ids /\ Fresh = ids + 1
         /\ \A i \in Id : i \in Nat
BY LoginAssumption DEF TypeOK, Fresh, Id

\* Codes replaced by a new batch, or left.
LEMMA MarkedKeeps ==
  ASSUME TypeOK, SpentInv, NEW u \in Users, NEW a \in Account, NEW event, Save(u, a, event),
         opened' = opened, ids' \in {ids, Fresh},
         \/ SameCodes(a, acct[u])
         \/ ids' = Fresh /\ \E dead \in SUBSET Id :
              a.codes = (acct[u].codes \ dead) \cup {Fresh} /\ a.used = acct[u].used \ dead
         \/ \E dead \in SUBSET Id : a.codes = acct[u].codes \ dead /\ a.used = acct[u].used \ dead
         \/ ids' = Fresh /\ a.codes = {Fresh} /\ a.used = {}
         \/ a.codes = {} /\ a.used = {}
  PROVE  /\ \A w \in Users : Marked(w)'
         /\ \A x \in Job : Unopened(x) => Unopened(x)'
<1>1. /\ ids \in Nat /\ Fresh \in Nat /\ Fresh > ids /\ ids =< ids' /\ ids' \in Nat
      /\ \A i \in Id : i \in Nat
  BY IdsGrow
<1>2. acct'[u] = a /\ \A w \in Users : w # u => acct'[w] = acct[w]
  BY Saved
<1>3. acct[u].codes \subseteq Id /\ \A w \in Users : acct[w].codes \subseteq Id
  BY DEF TypeOK, Account
<1>4. ASSUME NEW w \in Users PROVE Marked(w)'
  <2>1. /\ \A i \in acct[w].codes : i =< ids
        /\ \A i \in Id : opened[<<w, i>>] # 0 =>
             opened[<<w, i>>] = 1 /\ i =< ids /\ (i \in acct[w].codes => i \in acct[w].used)
    BY DEF SpentInv, Marked
  <2>2. CASE w # u
    BY <1>1, <1>2, <1>3, <2>1, <2>2 DEF Marked
  <2>3. CASE w = u
    <3>1. \A i \in a.codes : i =< ids'
      BY <1>1, <1>3, <2>1, <2>3 DEF SameCodes
    <3>2. \A i \in Id : opened[<<u, i>>] # 0 =>
             opened[<<u, i>>] = 1 /\ i =< ids' /\ (i \in a.codes => i \in a.used)
      BY <1>1, <1>3, <2>1, <2>3 DEF SameCodes
    <3>3. QED
      BY <1>2, <2>3, <3>1, <3>2 DEF Marked
  <2>4. QED
    BY <2>2, <2>3
<1>5. ASSUME NEW x \in Job, Unopened(x) PROVE Unopened(x)'
  <2>1. x.code \in Id \cup {None}
    BY DEF Job
  <2>2. QED
    BY <1>1, <1>5, <2>1 DEF Unopened
<1>6. QED
  BY <1>4, <1>5

LEMMA SpentServe ==
  ASSUME TypeInv, OneLoop, SpentInv, NEW t \in Threads, Serve(t)
  PROVE  /\ \A w \in Users : Marked(w)'
         /\ \A x \in Threads : x # t /\ job[x] # None => Unopened(job[x])'
<1>0. TypeOK /\ \A x \in Threads : job[x] # None => job[x] \in Job /\ Unopened(job[x])
  BY JobOf, SMTT(30) DEF TypeInv, SpentInv
<1>1. End(t) /\ job[t] # None
  BY DEF Serve, WrongPassword, RightPassword, WrongCode, RightCode, EndEnrol, EndRenew, EndUnenrol,
       EndLink, EndChange, EndAssign, EndPage, Doing
<1>2. PICK u, v, c : u = job[t].u /\ v = job[t].view /\ c = acct[u]
  OBVIOUS
<1>3. u \in Users /\ v \in Account /\ c \in Account
  BY <1>0, <1>1, <1>2, JobOf
<1>4. ASSUME NEW a \in Account, NEW event, Save(u, a, event),
             opened' = opened, ids' \in {ids, Fresh},
             \/ SameCodes(a, c)
             \/ ids' = Fresh /\ \E dead \in SUBSET Id :
                  a.codes = (c.codes \ dead) \cup {Fresh} /\ a.used = c.used \ dead
             \/ \E dead \in SUBSET Id : a.codes = c.codes \ dead /\ a.used = c.used \ dead
      PROVE  /\ \A w \in Users : Marked(w)'
             /\ \A x \in Threads : x # t /\ job[x] # None => Unopened(job[x])'
  <2>1. (\A w \in Users : Marked(w)') /\ \A x \in Job : Unopened(x) => Unopened(x)'
    BY <1>0, <1>2, <1>3, <1>4, MarkedKeeps
  <2>2. ASSUME NEW x \in Threads, x # t, job[x] # None PROVE Unopened(job[x])'
    <3>1. PICK y : y = job[x]
      OBVIOUS
    <3>2. y \in Job /\ Unopened(y)'
      BY <1>0, <2>1, <2>2, <3>1
    <3>3. job'[x] = y
      BY <1>0, <1>1, <2>2, <3>1, Ended
    <3>4. QED
      BY <3>2, <3>3 DEF Unopened
  <2>3. QED
    BY <2>1, <2>2
<1>5. ASSUME UNCHANGED <<acct, opened, ids>>
      PROVE  /\ \A w \in Users : Marked(w)'
             /\ \A x \in Threads : x # t /\ job[x] # None => Unopened(job[x])'
  <2>1. \A x \in Threads : x # t => job'[x] = job[x]
    BY <1>0, <1>1, Ended
  <2>2. QED
    BY <1>0, <1>5, <2>1 DEF Unopened, Marked, SpentInv
<1>7. CASE WrongCode(t)
  <2>1. PICK a \in Account : Save(u, a, "code") /\ SameCodes(a, c)
    BY <1>0, <1>2, <1>7, CodeRow
  <2>2. QED
    BY <1>4, <1>7, <2>1 DEF WrongCode
<1>8. ASSUME NEW r \in BOOLEAN, RightCode(t, r)
       PROVE  /\ \A w \in Users : Marked(w)'
              /\ \A x \in Threads : x # t /\ job[x] # None => Unopened(job[x])'
  <2>1. CASE job[t].code # None /\ job[t].code \notin c.codes
    BY <1>2, <1>5, <1>8, <2>1 DEF RightCode
  <2>2. CASE job[t].code # None => job[t].code \in c.codes
    <3>1. PICK a \in Account :
            /\ Save(u, a, "none")
            /\ a.codes = c.codes
            /\ a.used = IF job[t].code = None THEN c.used ELSE c.used \cup {job[t].code}
      BY <1>0, <1>2, <1>8, <2>2, FactorRow
    <3>2. /\ ids' \in {ids, Fresh} /\ job[t].kind = "verify" /\ job[t].good
          /\ opened' = IF job[t].code = None THEN opened
                       ELSE [opened EXCEPT ![<<u, job[t].code>>] = opened[<<u, job[t].code>>] + 1]
      BY <1>2, <1>8, <2>2 DEF RightCode, Draw, Doing
    <3>3. CASE job[t].code = None
      BY <1>4, <3>1, <3>2, <3>3 DEF SameCodes
    <3>4. CASE job[t].code # None
      <4>1. PICK i : i = job[t].code
        OBVIOUS
      <4>2. i \in Id /\ opened[<<u, i>>] = 0 /\ i =< ids /\ i # None
        BY <1>0, <1>1, <1>2, <3>2, <3>4, <4>1, JobOf DEF Unopened
      <4>3. /\ opened'[<<u, i>>] = 1
            /\ \A w \in Users, k \in Id : <<w, k>> # <<u, i>> => opened'[<<w, k>>] = opened[<<w, k>>]
        BY <1>0, <1>3, <3>2, <3>4, <4>1, <4>2 DEF TypeOK
      <4>4. ids \in Nat /\ ids =< ids' /\ ids' \in Nat /\ \A k \in Id : k \in Nat
        BY <1>0, <3>2, IdsGrow
      <4>5. acct'[u] = a /\ \A w \in Users : w # u => acct'[w] = acct[w]
        BY <1>0, <1>3, <3>1, Saved
      <4>6. ASSUME NEW w \in Users PROVE Marked(w)'
        <5>1. /\ \A k \in acct[w].codes : k =< ids /\ k \in Id
              /\ \A k \in Id : opened[<<w, k>>] # 0 =>
                   opened[<<w, k>>] = 1 /\ k =< ids /\ (k \in acct[w].codes => k \in acct[w].used)
          BY <1>0 DEF SpentInv, Marked, TypeOK, Account
        <5>2. CASE w # u
          BY <4>3, <4>4, <4>5, <5>1, <5>2 DEF Marked
        <5>3. CASE w = u
          <6>1. \A k \in a.codes : k =< ids'
            BY <1>2, <3>1, <4>4, <5>1, <5>3
          <6>2. ASSUME NEW k \in Id, opened'[<<u, k>>] # 0
                PROVE  opened'[<<u, k>>] = 1 /\ k =< ids' /\ (k \in a.codes => k \in a.used)
            <7>1. CASE k = i
              BY <3>1, <4>1, <4>2, <4>3, <4>4, <7>1
            <7>2. CASE k # i
              <8>1. opened'[<<u, k>>] = opened[<<u, k>>]
                BY <1>3, <4>3, <7>2
              <8>2. QED
                BY <1>2, <3>1, <4>4, <5>1, <5>3, <6>2, <8>1
            <7>3. QED
              BY <7>1, <7>2
          <6>3. QED
            BY <4>5, <5>3, <6>1, <6>2 DEF Marked
        <5>4. QED
          BY <5>2, <5>3
      <4>7. ASSUME NEW x \in Threads, x # t, job[x] # None PROVE Unopened(job[x])'
        <5>1. job[x].kind # "verify"
          BY <1>1, <3>2, <4>7 DEF OneLoop, Async
        <5>2. job'[x] = job[x]
          BY <1>0, <1>1, <4>7, Ended
        <5>3. QED
          BY <5>1, <5>2 DEF Unopened
      <4>8. QED
        BY <4>6, <4>7
    <3>5. QED
      BY <3>3, <3>4
  <2>3. QED
    BY <2>1, <2>2
<1>9. CASE WrongPassword(t)
  <2>1. PICK a \in Account : Save(u, a, "password") /\ SameCodes(a, c)
    BY <1>0, <1>2, <1>9, PasswordRow
  <2>2. QED
    BY <1>4, <1>9, <2>1 DEF WrongPassword
<1>10. CASE RightPassword(t)
  <2>1. CASE UNCHANGED <<acct, story>>
    BY <1>5, <1>10, <2>1 DEF RightPassword
  <2>2. CASE ~UNCHANGED <<acct, story>>
    <3>1. PICK a \in Account : Save(u, a, "none") /\ SameCodes(a, c)
      BY <1>0, <1>2, <1>10, <2>2, LoginRow
    <3>2. QED
      BY <1>4, <1>10, <3>1 DEF RightPassword
  <2>3. QED
    BY <2>1, <2>2
<1>11. CASE EndEnrol(t)
  <2>1. job[t].cookie.secret # None
    BY <1>1, <1>11 DEF TypeInv, Asked, EndEnrol, Doing
  <2>2. PICK a \in Account, dead \in SUBSET Id :
          /\ Save(u, a, Event(job[t], Enrolment))
          /\ a.codes = (c.codes \ dead) \cup {Fresh} /\ a.used = c.used \ dead
    BY <1>0, <1>2, <1>11, <2>1, EnrolRow
  <2>3. opened' = opened /\ ids' = Fresh
    BY <1>11 DEF EndEnrol, Draw
  <2>4. QED
    BY <1>3, <1>4, <2>2, <2>3
<1>12. CASE EndRenew(t)
  <2>1. PICK a \in Account, dead \in SUBSET Id :
          /\ Save(u, a, "none")
          /\ a.codes = (c.codes \ dead) \cup {Fresh} /\ a.used = c.used \ dead
    BY <1>0, <1>2, <1>12, RenewRow
  <2>2. opened' = opened /\ ids' = Fresh
    BY <1>12 DEF EndRenew, Draw
  <2>3. QED
    BY <1>3, <1>4, <2>1, <2>2
<1>13. CASE EndLink(t) \/ EndAssign(t)
  <2>1. PICK a \in Account : Save(u, a, Event(job[t], Counter)) /\ SameCodes(a, c)
    BY <1>0, <1>2, <1>13, LinkRow
  <2>2. QED
    BY <1>4, <1>13, <2>1 DEF EndLink, EndAssign
<1>14. CASE EndChange(t)
  <2>1. PICK a \in Account : Save(u, a, "none") /\ SameCodes(a, c)
    BY <1>0, <1>2, <1>14, ChangeRow
  <2>2. QED
    BY <1>4, <1>14, <2>1 DEF EndChange
<1>15. CASE EndPage(t)
  BY <1>5, <1>15 DEF EndPage
<1>16. CASE EndUnenrol(t)
  <2>1. PICK a \in Account, dead \in SUBSET Id, event \in {"bared", Event(job[t], Enrolment)} :
          Save(u, a, event) /\ a.codes = c.codes \ dead /\ a.used = c.used \ dead
    BY <1>0, <1>2, <1>16, UnenrolRow
  <2>2. opened' = opened /\ ids' = ids
    BY <1>16 DEF EndUnenrol
  <2>3. QED
    BY <1>4, <2>1, <2>2
<1>17. QED
  BY <1>7, <1>8, <1>9, <1>10, <1>11, <1>12, <1>13, <1>14, <1>15, <1>16 DEF Serve

LEMMA SpentStep ==
  ASSUME TypeInv, OneLoop, SpentInv, [Next]_vars
  PROVE  SpentInv'
<1>0. TypeOK /\ (\A u \in Users : Marked(u))
      /\ \A x \in Threads : job[x] # None => job[x] \in Job /\ Unopened(job[x])
  BY JobOf DEF TypeInv, SpentInv
<1>2. CASE \E t \in Threads, j \in Job : Begins(t, j)
  <2>1. PICK t \in Threads, j \in Job : Begins(t, j)
    BY <1>2
  <2>2. job'[t] = j /\ \A x \in Threads : x # t => job'[x] = job[x]
    BY <1>0, <2>1 DEF Begins, TypeOK
  <2>3. UNCHANGED <<acct, opened, ids>> /\ j.u \in Users /\ j.code \in Id \cup {None}
    BY <2>1 DEF Begins, Job
  <2>4. Unopened(j)
    <3>1. SUFFICES ASSUME j.kind = "verify", j.good, j.code # None
                   PROVE  opened[<<j.u, j.code>>] = 0 /\ j.code =< ids
      BY DEF Unopened
    <3>2. j.code \in acct[j.u].codes \ acct[j.u].used
      BY <2>1, <3>1 DEF Begins, Unspent
    <3>3. QED
      BY <1>0, <2>3, <3>1, <3>2 DEF Marked
  <2>5. ASSUME NEW x \in Threads, job'[x] # None PROVE Unopened(job[x])'
    <3>1. PICK y : y = IF x = t THEN j ELSE job[x]
      OBVIOUS
    <3>2. Unopened(y) /\ job'[x] = y
      BY <1>0, <2>2, <2>4, <2>5, <3>1
    <3>3. QED
      BY <2>3, <3>2 DEF Unopened
  <2>6. QED
    BY <1>0, <2>3, <2>5 DEF SpentInv, Marked
<1>3. CASE \E t \in Threads : Serve(t)
  <2>1. PICK t \in Threads : Serve(t)
    BY <1>3
  <2>2. /\ \A w \in Users : Marked(w)'
        /\ \A x \in Threads : x # t /\ job[x] # None => Unopened(job[x])'
    BY <2>1, SpentServe
  <2>3. End(t)
    BY <2>1 DEF Serve, WrongPassword, RightPassword, WrongCode, RightCode, EndEnrol, EndRenew, EndUnenrol,
       EndLink, EndChange, EndAssign, EndPage
  <2>4. \A x \in Threads : job'[x] # None => x # t /\ job[x] # None
    BY <1>0, <2>3, Ended
  <2>5. QED
    BY <2>2, <2>4 DEF SpentInv
<1>4. ASSUME NEW u \in Users, Whole(u), UNCHANGED <<job, opened>>
      PROVE  SpentInv'
  <2>1. PICK a \in Account :
          /\ Save(u, a, "none")
          /\ \/ SameCodes(a, acct[u]) /\ ids' \in {ids, Fresh}
             \/ a.codes = {} /\ a.used = {} /\ ids' = ids
             \/ a.codes = {Fresh} /\ a.used = {} /\ Draw
    BY <1>4 DEF Whole
  <2>2. (\A w \in Users : Marked(w)') /\ \A x \in Job : Unopened(x) => Unopened(x)'
    BY <1>0, <1>4, <2>1, MarkedKeeps DEF Draw
  <2>3. ASSUME NEW x \in Threads, job[x] # None PROVE Unopened(job[x])'
    <3>1. PICK y : y = job[x]
      OBVIOUS
    <3>2. y \in Job /\ Unopened(y)'
      BY <1>0, <2>2, <2>3, <3>1
    <3>3. job'[x] = y
      BY <1>4, <3>1
    <3>4. QED
      BY <3>2, <3>3 DEF Unopened
  <2>4. QED
    BY <1>4, <2>2, <2>3 DEF SpentInv
<1>5. CASE Aside
  <2>1. /\ UNCHANGED <<acct, opened>> /\ ids \in Nat /\ ids' \in Nat /\ ids =< ids'
        /\ \A i \in Id : i \in Nat
    BY <1>0, <1>5, IdsGrow DEF Aside
  <2>2. ASSUME NEW w \in Users PROVE Marked(w)'
    <3>1. acct[w].codes \subseteq Id
      BY <1>0 DEF TypeOK, Account
    <3>2. QED
      BY <1>0, <2>1, <3>1 DEF Marked
  <2>3. ASSUME NEW x \in Threads, job'[x] # None PROVE Unopened(job[x])'
    <3>1. job'[x] = job[x] /\ job[x] # None
      BY <1>5, <2>3 DEF Aside
    <3>2. job[x].code \in Id \cup {None} /\ Unopened(job[x])
      BY <1>0, <2>3, <3>1, JobOf
    <3>3. QED
      BY <2>1, <3>1, <3>2 DEF Unopened
  <2>4. QED
    BY <2>2, <2>3 DEF SpentInv
<1>6. QED
  BY <1>2, <1>3, <1>4, <1>5, Steps

LEMMA SpentInit == ASSUME Init PROVE SpentInv
<1>1. ids = 2 /\ (\A t \in Threads : job[t] = None) /\ \A u \in Users, i \in Id : opened[<<u, i>>] = 0
  BY DEF Init
<1>2. ASSUME NEW u \in Users PROVE \A i \in acct[u].codes : i =< ids
  <2>1. acct[u].codes = {} \/ acct[u].codes = {2}
    BY Starting
  <2>2. QED
    BY <1>1, <2>1
<1>3. QED
  BY <1>1, <1>2 DEF SpentInv, Marked

LEMMA SpentInvariance == Spec => []SpentInv
<1>1. TypeInv /\ LockInv /\ SpentInv /\ [Next]_vars => SpentInv'
  BY SpentStep DEF LockInv
<1>2. QED
  BY <1>1, SpentInit, TypeInvariance, LockInvariance, PTL DEF Spec

\* No recovery code opens two sessions, in whatever order verifications, renewals,
\* enrolments and resets read and write the codes.
THEOREM CodesAreSpentOnce == Spec => []CodeOnce
<1>1. TypeInv /\ SpentInv => CodeOnce
  <2>1. SUFFICES ASSUME TypeInv, SpentInv, NEW u \in Users, NEW i \in Id
                 PROVE  opened[<<u, i>>] <= 1
    BY DEF CodeOnce
  <2>2. opened[<<u, i>>] \in Nat
    BY <2>1 DEF TypeInv, TypeOK
  <2>3. QED
    BY <2>1, <2>2 DEF SpentInv, Marked
<1>2. QED
  BY <1>1, TypeInvariance, SpentInvariance, PTL

-----------------------------------------------------------------------------
(* Enrolment.                                                              *)

\* An account has a secret if it is enrolled; only if, unless a request was late.
Enrolled(a, s) ==
  /\ a.enabled => a.codes # {} \/ s.bared
  /\ s.late = 0 => (a.enabled <=> a.secret # None)
  /\ s.late =< 1 => (a.enabled => a.secret # None)

ReadFactor(j) ==
  story[j.u].late = 0 => (j.view.enabled <=> j.view.secret # None)

EnrolInv ==
  /\ \A u \in Users : Enrolled(acct[u], story[u])
  /\ \A t \in Threads : job[t] # None => ReadFactor(job[t])

LEMMA EnrolKeeps ==
  ASSUME TypeOK, EnrolInv, NEW u \in Users, NEW a \in Account, NEW event, Save(u, a, event),
         Enrolled(a, story'[u])
  PROVE  /\ \A w \in Users : Enrolled(acct[w], story[w])'
         /\ \A x \in Job : ReadFactor(x) => ReadFactor(x)'
<1>1. /\ acct'[u] = a /\ \A w \in Users : w # u => acct'[w] = acct[w] /\ story'[w] = story[w]
      /\ \A w \in Users : story'[w].late \in Nat /\ story'[w].late >= story[w].late
                          /\ story[w].late \in Nat
  BY Saved, Numbers DEF Story
<1>2. ASSUME NEW w \in Users PROVE Enrolled(acct[w], story[w])'
  <2>1. CASE w = u
    BY <1>1, <2>1 DEF Enrolled
  <2>2. CASE w # u
    BY <1>1, <2>2 DEF EnrolInv, Enrolled
  <2>3. QED
    BY <2>1, <2>2
<1>3. ASSUME NEW x \in Job, ReadFactor(x) PROVE ReadFactor(x)'
  <2>1. x.u \in Users
    BY DEF Job
  <2>2. story'[x.u].late = 0 => story[x.u].late = 0
    BY <1>1, <2>1
  <2>3. QED
    BY <1>3, <2>2 DEF ReadFactor
<1>4. QED
  BY <1>2, <1>3

LEMMA EnrolServe ==
  ASSUME TypeInv, EnrolInv, NEW t \in Threads, Serve(t)
  PROVE  /\ \A w \in Users : Enrolled(acct[w], story[w])'
         /\ \A x \in Threads : x # t /\ job[x] # None => ReadFactor(job[x])'
<1>0. TypeOK /\ \A x \in Threads : job[x] # None => job[x] \in Job /\ ReadFactor(job[x])
  BY JobOf, SMTT(30) DEF TypeInv, EnrolInv
<1>1. End(t) /\ job[t] # None
  BY DEF Serve, WrongPassword, RightPassword, WrongCode, RightCode, EndEnrol, EndRenew, EndUnenrol,
       EndLink, EndChange, EndAssign, EndPage, Doing
<1>2. PICK u, v, c : u = job[t].u /\ v = job[t].view /\ c = acct[u]
  OBVIOUS
<1>3. u \in Users /\ v \in Account /\ c \in Account /\ story[u].late \in Nat
  BY <1>0, <1>1, <1>2, JobOf, Numbers
<1>4. ASSUME NEW a \in Account, NEW event, Save(u, a, event), Enrolled(a, story'[u])
      PROVE  /\ \A w \in Users : Enrolled(acct[w], story[w])'
             /\ \A x \in Threads : x # t /\ job[x] # None => ReadFactor(job[x])'
  <2>1. /\ \A w \in Users : Enrolled(acct[w], story[w])'
        /\ \A x \in Job : ReadFactor(x) => ReadFactor(x)'
    BY <1>0, <1>3, <1>4, EnrolKeeps
  <2>2. ASSUME NEW x \in Threads, x # t, job[x] # None PROVE ReadFactor(job[x])'
    <3>1. PICK y : y = job[x]
      OBVIOUS
    <3>2. y \in Job /\ ReadFactor(y)'
      BY <1>0, <2>1, <2>2, <3>1
    <3>3. job'[x] = y
      BY <1>0, <1>1, <2>2, <3>1, Ended
    <3>4. QED
      BY <3>2, <3>3 DEF ReadFactor
  <2>3. QED
    BY <2>1, <2>2
<1>5. ASSUME UNCHANGED <<acct, story>>
      PROVE  /\ \A w \in Users : Enrolled(acct[w], story[w])'
             /\ \A x \in Threads : x # t /\ job[x] # None => ReadFactor(job[x])'
  <2>1. \A x \in Threads : x # t => job'[x] = job[x]
    BY <1>0, <1>1, Ended
  <2>2. QED
    BY <1>0, <1>5, <2>1 DEF ReadFactor, EnrolInv, Enrolled
<1>6. ASSUME NEW a \in Account, NEW event, Save(u, a, event), SameFactor(a, c),
             a.codes = c.codes \/ a.codes # {}
      PROVE  /\ \A w \in Users : Enrolled(acct[w], story[w])'
             /\ \A x \in Threads : x # t /\ job[x] # None => ReadFactor(job[x])'
  <2>1. story'[u].late \in {story[u].late, story[u].late + 1}
    BY <1>0, <1>3, <1>6, Saved
  <2>2. PICK m, n : m = story[u].late /\ n = story'[u].late
    OBVIOUS
  <2>3. Enrolled(c, story[u]) /\ m \in Nat /\ (n = 0 => m = 0) /\ (n =< 1 => m =< 1)
    BY <1>2, <1>3, <2>1, <2>2 DEF EnrolInv
  <2>4. a.codes = {} /\ story[u].bared => story'[u].bared
    BY <1>0, <1>3, <1>6, Saved
  <2>5. a.enabled => a.codes # {} \/ story'[u].bared
    BY <1>6, <2>3, <2>4 DEF Enrolled, SameFactor
  <2>6. Enrolled(a, story'[u])
    BY <1>6, <2>2, <2>3, <2>5 DEF Enrolled, SameFactor
  <2>7. QED
    BY <1>4, <1>6, <2>6
<1>7. CASE WrongCode(t)
  <2>1. PICK a \in Account : Save(u, a, "code") /\ SameFactor(a, c) /\ SameCodes(a, c)
    BY <1>0, <1>2, <1>7, CodeRow
  <2>2. QED
    BY <1>6, <2>1 DEF SameCodes
<1>8. ASSUME NEW r \in BOOLEAN, RightCode(t, r)
       PROVE  /\ \A w \in Users : Enrolled(acct[w], story[w])'
              /\ \A x \in Threads : x # t /\ job[x] # None => ReadFactor(job[x])'
  <2>1. CASE job[t].code # None /\ job[t].code \notin c.codes
    BY <1>2, <1>5, <1>8, <2>1 DEF RightCode
  <2>2. CASE job[t].code # None => job[t].code \in c.codes
    <3>1. PICK a \in Account : Save(u, a, "none") /\ a.codes = c.codes /\ SameFactor(a, c)
      BY <1>0, <1>2, <1>8, <2>2, FactorRow
    <3>2. QED
      BY <1>6, <3>1
  <2>3. QED
    BY <2>1, <2>2
<1>9. CASE WrongPassword(t)
  <2>1. PICK a \in Account : Save(u, a, "password") /\ SameFactor(a, c) /\ SameCodes(a, c)
    BY <1>0, <1>2, <1>9, PasswordRow
  <2>2. QED
    BY <1>6, <2>1 DEF SameCodes
<1>10. CASE RightPassword(t)
  <2>1. CASE UNCHANGED <<acct, story>>
    BY <1>5, <2>1
  <2>2. CASE ~UNCHANGED <<acct, story>>
    <3>1. PICK a \in Account : Save(u, a, "none") /\ SameFactor(a, c) /\ SameCodes(a, c)
      BY <1>0, <1>2, <1>10, <2>2, LoginRow
    <3>2. QED
      BY <1>6, <3>1 DEF SameCodes
  <2>3. QED
    BY <2>1, <2>2
<1>11. CASE EndEnrol(t)
  <2>0. PICK s : s = job[t].cookie.secret
    OBVIOUS
  <2>1. s # None
    BY <1>1, <1>11, <2>0 DEF TypeInv, Asked, EndEnrol, Doing
  <2>2. PICK a \in Account, dead \in SUBSET Id :
          /\ Save(u, a, Event(job[t], Enrolment))
          /\ ~v.enabled => a.enabled
          /\ v.enabled => a.enabled = c.enabled
          /\ a.secret = IF s # v.secret THEN s ELSE c.secret
          /\ a.codes = (c.codes \ dead) \cup {Fresh}
    BY <1>0, <1>2, <1>11, <2>0, <2>1, EnrolRow, SMTT(60)
  <2>3. story[u].late = 0 => (v.enabled <=> v.secret # None)
    BY <1>0, <1>1, <1>2 DEF ReadFactor
  <2>4. a.codes # {}
    BY <2>2
  <2>5. Enrolled(c, story[u]) /\ v.enabled \in BOOLEAN /\ c.enabled \in BOOLEAN
        /\ a.enabled \in BOOLEAN
    BY <1>2, <1>3, <2>2 DEF EnrolInv, Account
  <2>6. CASE Event(job[t], Enrolment) = "late"
    <3>1. story'[u].late = story[u].late + 1
      BY <1>0, <1>3, <2>2, <2>6, Saved
    <3>2. ASSUME story[u].late = 0, a.enabled PROVE a.secret # None
      <4>1. CASE s # v.secret
        BY <2>1, <2>2, <4>1
      <4>2. CASE s = v.secret
        <5>1. v.enabled
          BY <2>1, <2>3, <3>2, <4>2
        <5>2. c.enabled
          BY <2>2, <3>2, <5>1
        <5>3. c.secret # None
          BY <2>5, <3>2, <5>2 DEF Enrolled
        <5>4. QED
          BY <2>2, <4>2, <5>3
      <4>3. QED
        BY <4>1, <4>2
    <3>3. (story'[u].late # 0) /\ (story'[u].late =< 1 => story[u].late = 0)
      BY <1>3, <3>1
    <3>4. Enrolled(a, story'[u])
      BY <2>4, <3>2, <3>3 DEF Enrolled
    <3>5. QED
      BY <1>4, <2>2, <3>4
  <2>7. CASE Event(job[t], Enrolment) # "late"
    <3>1. v.enabled = c.enabled /\ v.secret = c.secret
      BY <1>2, <2>7 DEF Event, Enrolment
    <3>2. a.secret # None
      BY <2>1, <2>2, <3>1
    <3>3. a.enabled
      <4>1. CASE v.enabled
        BY <2>2, <3>1, <4>1
      <4>2. CASE ~v.enabled
        BY <2>2, <4>2
      <4>3. QED
        BY <4>1, <4>2
    <3>4. Enrolled(a, story'[u])
      BY <2>4, <3>2, <3>3 DEF Enrolled
    <3>5. QED
      BY <1>4, <2>2, <3>4
  <2>8. QED
    BY <2>6, <2>7
<1>12. CASE EndRenew(t)
  <2>1. PICK a \in Account, dead \in SUBSET Id :
          /\ Save(u, a, "none") /\ SameFactor(a, c)
          /\ a.codes = (c.codes \ dead) \cup {Fresh}
    BY <1>0, <1>2, <1>12, RenewRow
  <2>2. a.codes # {}
    BY <2>1
  <2>3. QED
    BY <1>6, <2>1, <2>2
<1>13. CASE EndLink(t) \/ EndAssign(t)
  <2>1. PICK a \in Account :
          Save(u, a, Event(job[t], Counter)) /\ SameFactor(a, c) /\ SameCodes(a, c)
    BY <1>0, <1>2, <1>13, LinkRow
  <2>2. QED
    BY <1>6, <2>1 DEF SameCodes
<1>14. CASE EndChange(t)
  <2>1. PICK a \in Account : Save(u, a, "none") /\ SameFactor(a, c) /\ SameCodes(a, c)
    BY <1>0, <1>2, <1>14, ChangeRow
  <2>2. QED
    BY <1>6, <2>1 DEF SameCodes
<1>15. CASE EndPage(t)
  BY <1>5, <1>15 DEF EndPage
<1>16. CASE EndUnenrol(t)
  <2>1. PICK a \in Account, event \in {"bared", Event(job[t], Enrolment)} :
          /\ Save(u, a, event)
          /\ c.enabled /\ ~v.enabled => event = "bared"
          /\ ~(c.enabled /\ ~v.enabled) => event = Event(job[t], Enrolment)
          /\ v.enabled => ~a.enabled
          /\ ~v.enabled => a.enabled = c.enabled
          /\ v.secret # None => a.secret = None
          /\ v.secret = None => a.secret = c.secret
    BY <1>0, <1>2, <1>16, UnenrolRow
  <2>2. /\ story[u].late = 0 => (v.enabled <=> v.secret # None)
        /\ Enrolled(c, story[u]) /\ v.enabled \in BOOLEAN /\ c.enabled \in BOOLEAN
    BY <1>0, <1>1, <1>2, <1>3 DEF ReadFactor, EnrolInv, Account
  <2>3. CASE c.enabled /\ ~v.enabled
    <3>1. /\ story'[u].late = story[u].late + 1
          /\ story'[u].bared = (a.codes = {})
      BY <1>0, <1>3, <2>1, <2>3, Saved
    <3>2. (story'[u].late # 0) /\ (story'[u].late =< 1 => story[u].late = 0)
      BY <1>3, <3>1
    <3>3. story[u].late = 0 => a.secret # None
      BY <2>1, <2>2, <2>3 DEF Enrolled
    <3>4. a.codes # {} \/ story'[u].bared
      BY <3>1
    <3>5. Enrolled(a, story'[u])
      BY <3>2, <3>3, <3>4 DEF Enrolled
    <3>6. QED
      BY <1>4, <2>1, <3>5
  <2>4. CASE ~(c.enabled /\ ~v.enabled)
    <3>1. ~a.enabled
      BY <2>1, <2>2, <2>4
    <3>2. ASSUME story'[u].late = 0 PROVE a.secret = None
      <4>1. story[u].late = 0 /\ event # "late"
        BY <1>0, <1>3, <2>1, <3>2, Saved
      <4>2. v.secret = c.secret /\ v.enabled = c.enabled
        BY <1>2, <2>1, <2>4, <4>1 DEF Event, Enrolment
      <4>3. CASE v.secret # None
        BY <2>1, <4>3
      <4>4. CASE v.secret = None
        BY <2>1, <4>2, <4>4
      <4>5. QED
        BY <4>3, <4>4
    <3>3. Enrolled(a, story'[u])
      BY <3>1, <3>2 DEF Enrolled
    <3>4. QED
      BY <1>4, <2>1, <3>3
  <2>5. QED
    BY <2>3, <2>4
<1>17. QED
  BY <1>7, <1>8, <1>9, <1>10, <1>11, <1>12, <1>13, <1>14, <1>15, <1>16 DEF Serve

LEMMA EnrolStep ==
  ASSUME TypeInv, EnrolInv, [Next]_vars
  PROVE  EnrolInv'
<1>0. TypeOK /\ (\A u \in Users : Enrolled(acct[u], story[u]))
      /\ \A x \in Threads : job[x] # None => job[x] \in Job /\ ReadFactor(job[x])
  BY JobOf DEF TypeInv, EnrolInv
<1>2. CASE \E t \in Threads, j \in Job : Begins(t, j)
  <2>1. PICK t \in Threads, j \in Job : Begins(t, j)
    BY <1>2
  <2>2. job'[t] = j /\ \A x \in Threads : x # t => job'[x] = job[x]
    BY <1>0, <2>1 DEF Begins, TypeOK
  <2>3. UNCHANGED <<acct, story>> /\ j.u \in Users /\ j.view = acct[j.u]
    BY <2>1 DEF Begins, Job
  <2>4. ReadFactor(j)
    BY <1>0, <2>3 DEF ReadFactor, Enrolled
  <2>5. ASSUME NEW x \in Threads, job'[x] # None PROVE ReadFactor(job[x])'
    <3>1. PICK y : y = IF x = t THEN j ELSE job[x]
      OBVIOUS
    <3>2. ReadFactor(y) /\ job'[x] = y
      BY <1>0, <2>2, <2>4, <2>5, <3>1
    <3>3. QED
      BY <2>3, <3>2 DEF ReadFactor
  <2>6. QED
    BY <1>0, <2>3, <2>5 DEF EnrolInv, Enrolled
<1>3. CASE \E t \in Threads : Serve(t)
  <2>1. PICK t \in Threads : Serve(t)
    BY <1>3
  <2>2. /\ \A w \in Users : Enrolled(acct[w], story[w])'
        /\ \A x \in Threads : x # t /\ job[x] # None => ReadFactor(job[x])'
    BY <2>1, EnrolServe
  <2>3. End(t)
    BY <2>1 DEF Serve, WrongPassword, RightPassword, WrongCode, RightCode, EndEnrol, EndRenew, EndUnenrol,
       EndLink, EndChange, EndAssign, EndPage
  <2>4. \A x \in Threads : job'[x] # None => x # t /\ job[x] # None
    BY <1>0, <2>3, Ended
  <2>5. QED
    BY <2>2, <2>4 DEF EnrolInv
<1>4. ASSUME NEW u \in Users, Whole(u), job' = job
      PROVE  EnrolInv'
  <2>1. PICK a \in Account :
          /\ Save(u, a, "none")
          /\ \/ SameFactor(a, acct[u]) /\ SameCodes(a, acct[u])
             \/ ~a.enabled /\ a.secret = None
             \/ SameFactor(a, acct[u]) /\ a.codes = {Fresh}
    BY <1>4 DEF Whole
  <2>2. story'[u].late = story[u].late
    BY <1>0, <2>1, Saved, Numbers
  <2>3. a.codes = {} /\ story[u].bared => story'[u].bared
    BY <1>0, <2>1, Saved
  <2>4. Enrolled(a, story'[u])
    BY <1>0, <2>1, <2>2, <2>3 DEF Enrolled, SameFactor, SameCodes
  <2>5. /\ \A w \in Users : Enrolled(acct[w], story[w])'
        /\ \A x \in Job : ReadFactor(x) => ReadFactor(x)'
    BY <1>0, <2>1, <2>4, EnrolKeeps
  <2>6. ASSUME NEW x \in Threads, job[x] # None PROVE ReadFactor(job[x])'
    <3>1. PICK y : y = job[x]
      OBVIOUS
    <3>2. y \in Job /\ ReadFactor(y)'
      BY <1>0, <2>5, <2>6, <3>1
    <3>3. job'[x] = y
      BY <1>4, <3>1
    <3>4. QED
      BY <3>2, <3>3 DEF ReadFactor
  <2>7. QED
    BY <1>4, <2>5, <2>6 DEF EnrolInv
<1>5. CASE Aside
  <2>1. UNCHANGED <<acct, story>>
    BY <1>5 DEF Aside
  <2>2. ASSUME NEW x \in Threads, job'[x] # None PROVE ReadFactor(job[x])'
    <3>1. job'[x] = job[x] /\ job[x] # None
      BY <1>5, <2>2 DEF Aside
    <3>2. QED
      BY <1>0, <2>1, <3>1 DEF ReadFactor
  <2>3. QED
    BY <1>0, <2>1, <2>2 DEF EnrolInv, Enrolled
<1>6. QED
  BY <1>2, <1>3, <1>4, <1>5, Steps

LEMMA EnrolInit == ASSUME Init PROVE EnrolInv
<1>1. \A t \in Threads : job[t] = None
  BY DEF Init
<1>2. ASSUME NEW u \in Users PROVE Enrolled(acct[u], story[u])
  <2>1. None # 1
    BY Rows
  <2>2. PICK a : a = acct[u]
    OBVIOUS
  <2>3. \/ a.enabled = FALSE /\ a.secret = None /\ a.codes = {}
        \/ a.enabled = TRUE /\ a.secret = 1 /\ a.codes = {2}
    BY <2>2, Starting
  <2>4. QED
    BY <2>1, <2>2, <2>3 DEF Enrolled
<1>3. QED
  BY <1>1, <1>2 DEF EnrolInv

\* An enrolled account keeps codes to fall back on, unless a reset that had read it
\* before it enrolled took them and none were drawn since, and a secret as long as
\* one late request at most has mixed its row.
THEOREM EnrolmentsAreWhole == Spec => []EnrolmentWhole
<1>1. TypeInv /\ EnrolInv /\ [Next]_vars => EnrolInv'
  BY EnrolStep
<1>2. EnrolInv => EnrolmentWhole
  BY DEF EnrolInv, EnrolmentWhole, Enrolled
<1>3. QED
  BY <1>1, <1>2, EnrolInit, TypeInvariance, PTL DEF Spec

-----------------------------------------------------------------------------
(* The second factor.                                                      *)

\* A device that an account trusts has shown it the second factor.
TrustInv ==
  /\ \A u \in Users : \A d \in acct[u].devices : d.id =< ids
  /\ \A b \in Browsers : device[b] # None => device[b] =< ids
  /\ \A u \in Users, b \in Browsers :
       (\E d \in acct[u].devices : d.id = device[b]) => <<b, u>> \in shown

LEMMA TrustKeeps ==
  ASSUME TypeInv, TrustInv, device' = device, shown \subseteq shown', ids' \in {ids, Fresh},
         \A u \in Users : acct'[u].devices = acct[u].devices
  PROVE  TrustInv'
<1>1. /\ ids \in Nat /\ ids' \in Nat /\ ids =< ids' /\ \A i \in Id : i \in Nat
  BY IdsGrow DEF TypeInv
<1>2. /\ \A u \in Users : \A d \in acct[u].devices : d.id \in Nat /\ d.id =< ids
      /\ \A b \in Browsers : device[b] # None => device[b] \in Nat /\ device[b] =< ids
  BY <1>1 DEF TypeInv, TypeOK, Account, TrustInv
<1>3. /\ \A u \in Users : \A d \in acct'[u].devices : d.id =< ids'
      /\ \A b \in Browsers : device'[b] # None => device'[b] =< ids'
  BY <1>1, <1>2
<1>4. \A u \in Users, b \in Browsers :
        (\E d \in acct'[u].devices : d.id = device'[b]) => <<b, u>> \in shown'
  BY DEF TrustInv
<1>5. QED
  BY <1>3, <1>4 DEF TrustInv

LEMMA DevicesKept ==
  ASSUME TypeOK, NEW u \in Users, NEW a \in Account, NEW event, Save(u, a, event),
         a.devices = acct[u].devices
  PROVE  \A w \in Users : acct'[w].devices = acct[w].devices
BY Saved

\* The device is given a token nobody has had.
LEMMA TrustGiven ==
  ASSUME TypeInv, TrustInv, NEW b \in Browsers, NEW u \in Users, NEW a \in Account,
         Save(u, a, "none"), Draw, NEW until,
         a.devices = acct[u].devices \cup {[id |-> Fresh, until |-> until]},
         device' = [device EXCEPT ![b] = Fresh], shown' = shown \cup {<<b, u>>}
  PROVE  TrustInv'
<1>1. /\ ids \in Nat /\ Fresh \in Nat /\ ids < Fresh /\ ids' = Fresh /\ \A i \in Id : i \in Nat
      /\ None \notin Nat
  BY IdsGrow, Rows DEF TypeInv, Draw
<1>2. /\ acct'[u] = a /\ \A w \in Users : w # u => acct'[w] = acct[w]
      /\ device'[b] = Fresh /\ \A e \in Browsers : e # b => device'[e] = device[e]
  BY Saved DEF TypeInv, TypeOK
<1>3. /\ \A w \in Users : \A d \in acct[w].devices : d.id \in Nat /\ d.id =< ids
      /\ \A e \in Browsers : device[e] # None => device[e] \in Nat /\ device[e] =< ids
  BY <1>1 DEF TypeInv, TypeOK, Account, TrustInv
<1>4. PICK n : n = [id |-> Fresh, until |-> until]
  OBVIOUS
<1>5. n.id = Fresh /\ a.devices = acct[u].devices \cup {n}
  BY <1>4
<1>6. ASSUME NEW w \in Users, NEW d \in acct'[w].devices
      PROVE  d \in acct[w].devices \/ (w = u /\ d.id = Fresh)
  BY <1>2, <1>5, <1>6
<1>7. ASSUME NEW w \in Users, NEW d \in acct'[w].devices PROVE d.id =< ids'
  <2>1. CASE d \in acct[w].devices
    <3>1. d.id \in Nat /\ d.id =< ids
      BY <1>3, <2>1
    <3>2. QED
      BY <1>1, <3>1
  <2>2. CASE d.id = Fresh
    BY <1>1, <2>2
  <2>3. QED
    BY <1>6, <1>7, <2>1, <2>2
<1>8. ASSUME NEW e \in Browsers, device'[e] # None PROVE device'[e] =< ids'
  BY <1>1, <1>2, <1>3, <1>8
<1>9. ASSUME NEW w \in Users, NEW e \in Browsers, NEW d \in acct'[w].devices, d.id = device'[e]
      PROVE  <<e, w>> \in shown'
  <2>1. CASE d \in acct[w].devices
    <3>1. d.id \in Nat /\ d.id =< ids
      BY <1>3, <2>1
    <3>2. e # b
      BY <1>1, <1>2, <1>9, <3>1
    <3>3. d.id = device[e]
      BY <1>2, <1>9, <3>2
    <3>4. <<e, w>> \in shown
      BY <1>9, <2>1, <3>3 DEF TrustInv
    <3>5. QED
      BY <3>4
  <2>2. CASE w = u /\ d.id = Fresh
    <3>1. CASE e = b
      BY <2>2, <3>1
    <3>2. CASE e # b
      <4>1. device[e] = Fresh
        BY <1>2, <1>9, <2>2, <3>2
      <4>2. QED
        BY <1>1, <1>3, <4>1
    <3>3. QED
      BY <3>1, <3>2
  <2>3. QED
    BY <1>6, <1>9, <2>1, <2>2
<1>10. QED
  BY <1>7, <1>8, <1>9 DEF TrustInv

LEMMA TrustServe ==
  ASSUME TypeInv, TrustInv, NEW t \in Threads, Serve(t)
  PROVE  TrustInv'
<1>0. TypeOK
  BY SMTT(30) DEF TypeInv
<1>1. job[t] # None
  BY DEF Serve, WrongPassword, RightPassword, WrongCode, RightCode, EndEnrol, EndRenew, EndUnenrol,
       EndLink, EndChange, EndAssign, EndPage, Doing
<1>2. PICK u, c : u = job[t].u /\ c = acct[u]
  OBVIOUS
<1>3. u \in Users
  BY <1>0, <1>1, <1>2, JobOf
<1>4. ASSUME NEW a \in Account, NEW event, Save(u, a, event), a.devices = c.devices,
             device' = device, shown \subseteq shown', ids' \in {ids, Fresh}
      PROVE  TrustInv'
  BY <1>0, <1>2, <1>3, <1>4, DevicesKept, TrustKeeps
<1>5. ASSUME acct' = acct, device' = device, shown' = shown, ids' = ids
      PROVE  TrustInv'
  BY <1>5, TrustKeeps
<1>6. CASE WrongCode(t)
  <2>1. PICK a \in Account : Save(u, a, "code") /\ a.devices = c.devices
    BY <1>0, <1>2, <1>6, CodeRow
  <2>2. QED
    BY <1>4, <1>6, <2>1 DEF WrongCode
<1>7. ASSUME NEW r \in BOOLEAN, RightCode(t, r) PROVE TrustInv'
  <2>1. CASE job[t].code # None /\ job[t].code \notin c.codes
    BY <1>2, <1>5, <1>7, <2>1 DEF RightCode
  <2>2. CASE job[t].code # None => job[t].code \in c.codes
    <3>1. PICK a \in Account :
            /\ Save(u, a, "none")
            /\ a.devices = IF r THEN c.devices \cup {[id |-> Fresh, until |-> now + TrustTime]}
                           ELSE c.devices
      BY <1>0, <1>2, <1>7, <2>2, FactorRow
    <3>2. job[t].b \in Browsers /\ shown' = shown \cup {<<job[t].b, u>>}
      BY <1>1, <1>2, <1>7, <2>2 DEF RightCode, Doing, TypeInv, Asked
    <3>3. CASE r
      <4>1. Draw /\ device' = [device EXCEPT ![job[t].b] = Fresh]
        BY <1>2, <1>7, <2>2, <3>3 DEF RightCode
      <4>2. a.devices = c.devices \cup {[id |-> Fresh, until |-> now + TrustTime]}
        BY <3>1, <3>3
      <4>3. QED
        BY <1>2, <1>3, <3>1, <3>2, <4>1, <4>2, TrustGiven, ZenonT(60)
    <3>4. CASE ~r
      <4>1. device' = device /\ ids' = ids
        BY <1>2, <1>7, <2>2, <3>4 DEF RightCode
      <4>2. QED
        BY <1>4, <3>1, <3>2, <3>4, <4>1
    <3>5. QED
      BY <3>3, <3>4
  <2>3. QED
    BY <2>1, <2>2
<1>8. CASE WrongPassword(t)
  <2>1. PICK a \in Account : Save(u, a, "password") /\ a.devices = c.devices
    BY <1>0, <1>2, <1>8, PasswordRow
  <2>2. QED
    BY <1>4, <1>8, <2>1 DEF WrongPassword
<1>9. CASE RightPassword(t)
  <2>1. CASE UNCHANGED <<acct, story>>
    BY <1>5, <1>9, <2>1 DEF RightPassword
  <2>2. CASE ~UNCHANGED <<acct, story>>
    <3>1. PICK a \in Account : Save(u, a, "none") /\ a.devices = c.devices
      BY <1>0, <1>2, <1>9, <2>2, LoginRow
    <3>2. QED
      BY <1>4, <1>9, <3>1 DEF RightPassword
  <2>3. QED
    BY <2>1, <2>2
<1>10. CASE EndEnrol(t)
  <2>1. job[t].cookie.secret # None
    BY <1>1, <1>10 DEF TypeInv, Asked, EndEnrol, Doing
  <2>2. PICK a \in Account : Save(u, a, Event(job[t], Enrolment)) /\ a.devices = c.devices
    BY <1>0, <1>2, <1>10, <2>1, EnrolRow
  <2>3. device' = device /\ shown \subseteq shown' /\ ids' = Fresh
    BY <1>10 DEF EndEnrol, Draw
  <2>4. QED
    BY <1>4, <2>2, <2>3
<1>11. CASE EndRenew(t)
  <2>1. PICK a \in Account : Save(u, a, "none") /\ a.devices = c.devices
    BY <1>0, <1>2, <1>11, RenewRow
  <2>2. QED
    BY <1>4, <1>11, <2>1 DEF EndRenew, Draw
<1>12. CASE EndLink(t) \/ EndAssign(t)
  <2>1. PICK a \in Account : Save(u, a, Event(job[t], Counter)) /\ a.devices = c.devices
    BY <1>0, <1>2, <1>12, LinkRow
  <2>2. QED
    BY <1>4, <1>12, <2>1 DEF EndLink, EndAssign
<1>13. CASE EndChange(t)
  <2>1. PICK a \in Account : Save(u, a, "none") /\ a.devices = c.devices
    BY <1>0, <1>2, <1>13, ChangeRow
  <2>2. QED
    BY <1>4, <1>13, <2>1 DEF EndChange
<1>14. CASE EndPage(t)
  BY <1>5, <1>14 DEF EndPage
<1>15. CASE EndUnenrol(t)
  <2>1. PICK a \in Account, event \in {"bared", Event(job[t], Enrolment)} :
          Save(u, a, event) /\ a.devices = c.devices
    BY <1>0, <1>2, <1>15, UnenrolRow
  <2>2. QED
    BY <1>4, <1>15, <2>1 DEF EndUnenrol
<1>16. QED
  BY <1>6, <1>7, <1>8, <1>9, <1>10, <1>11, <1>12, <1>13, <1>14, <1>15 DEF Serve

LEMMA TrustStep ==
  ASSUME TypeInv, TrustInv, [Next]_vars
  PROVE  TrustInv'
<1>0. TypeOK
  BY DEF TypeInv
<1>1. CASE \E t \in Threads, j \in Job : Begins(t, j)
  BY <1>1, TrustKeeps DEF Begins
<1>2. CASE \E t \in Threads : Serve(t)
  BY <1>2, TrustServe
<1>3. ASSUME NEW u \in Users, Whole(u), UNCHANGED <<device, shown>>
      PROVE  TrustInv'
  <2>1. PICK a \in Account : Save(u, a, "none") /\ a.devices = acct[u].devices
    BY <1>3 DEF Whole
  <2>2. ids' \in {ids, Fresh}
    BY <1>3 DEF Whole, Draw
  <2>3. QED
    BY <1>0, <1>3, <2>1, <2>2, DevicesKept, TrustKeeps
<1>4. CASE Aside
  BY <1>4, TrustKeeps DEF Aside
<1>5. QED
  BY <1>1, <1>2, <1>3, <1>4, Steps

LEMMA TrustInit == ASSUME Init PROVE TrustInv
<1>1. ASSUME NEW u \in Users PROVE acct[u].devices = {}
  BY Starting
<1>2. \A b \in Browsers : device[b] = None
  BY DEF Init
<1>3. QED
  BY <1>1, <1>2 DEF TrustInv

LEMMA TrustInvariance == Spec => []TrustInv
<1>1. TypeInv /\ TrustInv /\ [Next]_vars => TrustInv'
  BY TrustStep
<1>2. QED
  BY <1>1, TrustInit, TypeInvariance, PTL DEF Spec

\* Only a right password, or a restart, ends the request of a right password.
LEMMA LoginEnds ==
  ASSUME TypeInv, Next, NEW t \in Threads, Doing(t, "login"), job[t].good, job'[t] = None,
         cookie' # cookie
  PROVE  RightPassword(t)
<1>1. TypeOK /\ job[t] # None
  BY DEF TypeInv, Doing
<1>2. ASSUME NEW x \in Threads, Ask(x) PROVE FALSE
  <2>1. PICK j \in Job : job[x] = None /\ job' = [job EXCEPT ![x] = j]
    BY <1>1, <1>2, Begun DEF Begins
  <2>2. x # t
    BY <1>1, <2>1, SMTT(30)
  <2>3. QED
    BY <1>1, <2>1, <2>2 DEF TypeOK
<1>3. ASSUME NEW x \in Threads, Serve(x) PROVE RightPassword(t)
  <2>1. End(x)
    BY <1>3 DEF Serve, WrongPassword, RightPassword, WrongCode, RightCode, EndEnrol, EndRenew, EndUnenrol,
       EndLink, EndChange, EndAssign, EndPage
  <2>2. x = t
    BY <1>1, <2>1, Ended
  <2>3. QED
    BY <1>3, <2>2, ZenonT(60) DEF Serve, WrongPassword, WrongCode, RightCode, EndEnrol, EndRenew, EndUnenrol,
       EndLink, EndChange, EndAssign, EndPage, Doing, Unenrolment
<1>4. ASSUME NEW b \in Browsers, OpenSetup(b) \/ DropPending(b) \/ Logout(b)
      PROVE  FALSE
  BY <1>1, <1>4 DEF OpenSetup, DropPending, Logout
<1>5. ASSUME NEW u \in Users, Forgot(u) \/ Manage(u) PROVE FALSE
  <2>1. cookie' = cookie
    BY <1>5 DEF Forgot, Manage, Suspend, Reactivate, FlagReset, SetPolicy, ForceEnrol,
       Unlock, ClearMfa, RecoverPassword, RecoverCodes, Edit
  <2>2. QED
    BY <2>1
<1>6. ~Restart /\ ~Tick
  BY <1>1 DEF Restart, Tick
<1>7. QED
  BY <1>2, <1>3, <1>4, <1>5, <1>6 DEF Next

\* A password alone opens no session of a challenged account: the browser has shown
\* that account's second factor before.
THEOREM PasswordIsNotEnough == Spec => SecondFactor
<1>1. ASSUME TypeInv, TrustInv, [Next]_vars, NEW t \in Threads,
             Doing(t, "login"), job[t].good, job'[t] = None, cookie' # cookie,
             Challenged(job[t].u, job[t].view), Challenged(job[t].u, acct[job[t].u]),
             job[t].cookie.user # job[t].u, cookie'[job[t].b].user = job[t].u
      PROVE  <<job[t].b, job[t].u>> \in shown
  <2>1. Next /\ RightPassword(t)
    <3>1. Next
      BY <1>1 DEF vars
    <3>2. QED
      BY <1>1, <3>1, LoginEnds
  <2>2. PICK u, b, c, v, cur, new, row, seen :
          /\ u = job[t].u /\ b = job[t].b /\ c = job[t].cookie /\ v = job[t].view
          /\ cur = acct[u] /\ new = Cleared(v) /\ row = Merge(v, new, cur)
          /\ seen = IF new = v THEN v ELSE row
    OBVIOUS
  <2>3. /\ u \in Users /\ b \in Browsers /\ c \in Session /\ v \in Account /\ cur \in Account
    BY <1>1, <2>2, JobOf DEF TypeInv, Asked, Doing
  <2>4. Respond(b, c, Admit(b, u, seen, c))
    BY <2>1, <2>2 DEF RightPassword
  <2>5. cookie'[b] = Admit(b, u, seen, c)
    BY <1>1, <2>3, <2>4 DEF Respond, TypeInv, TypeOK
  <2>6. Challenged(u, seen)
    <3>1. CASE new = v
      BY <1>1, <2>2, <3>1
    <3>2. CASE new # v
      <4>1. new \in Account /\ new.policy = v.policy /\ new.enabled = v.enabled
        BY <2>2, <2>3, ZenonT(60) DEF Cleared, Account
      <4>2. row.policy = cur.policy /\ row.enabled = cur.enabled
        BY <2>2, <2>3, <4>1, MergedColumns
      <4>3. Challenged(u, cur) /\ seen = row
        BY <1>1, <2>2, <3>2
      <4>4. QED
        BY <4>2, <4>3 DEF Challenged, Policy
    <3>3. QED
      BY <3>1, <3>2
  <2>7. Trusted(b, u)
    <3>1. SUFFICES ASSUME ~Trusted(b, u) PROVE FALSE
      OBVIOUS
    <3>2. Admit(b, u, seen, c) \in {[c EXCEPT !.setup = u], [c EXCEPT !.pending = u]}
      BY <2>6, <3>1 DEF Admit
    <3>3. [c EXCEPT !.setup = u].user = c.user /\ [c EXCEPT !.pending = u].user = c.user
      BY <2>3 DEF Session
    <3>4. cookie'[b].user = c.user
      BY <2>5, <3>2, <3>3
    <3>5. QED
      BY <1>1, <2>2, <3>4
  <2>8. QED
    BY <1>1, <2>2, <2>3, <2>7 DEF Trusted, TrustInv
<1>2. TypeInv /\ TrustInv /\ [Next]_vars =>
        [\A t \in Threads :
           Doing(t, "login") /\ job[t].good /\ job'[t] = None /\ cookie' # cookie =>
             LET u == job[t].u IN
             Challenged(u, job[t].view) /\ Challenged(u, acct[u])
             /\ job[t].cookie.user # u /\ cookie'[job[t].b].user = u =>
               <<job[t].b, u>> \in shown]_vars
  BY <1>1
<1>3. QED
  BY <1>2, TypeInvariance, TrustInvariance, PTL DEF Spec, SecondFactor
=============================================================================
