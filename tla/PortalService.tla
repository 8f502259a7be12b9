--------------------------- MODULE PortalService ---------------------------
(***************************************************************************)
(* The portal's process: what a start does in order before the first       *)
(* request, and what restarts, wherever they fall, leave of the settings,  *)
(* the mail profiles, the restrictions, the notices, the answers of the    *)
(* scripts that are kept and the lists of places.                          *)
(*                                                                         *)
(* Source: app/main.py (lifespan), app/vpnadmin/app_settings.py            *)
(* (migrate_legacy_smtp_provider, migrate_decouple_portal_and_vpn_...).    *)
(***************************************************************************)
EXTENDS QuotaNotices, EmailProviders, PolicyFile, ScriptAnswers, GeoLists

CONSTANTS
  Restricted,   \* clients whose user may sign in from some countries only
  Home,         \* the countries these users may sign in from
  Works,        \* how much of each kind of work a behaviour has
  MaxStarts     \* bound: restarts

Work == [saves : Nat, requests : Nat, writes : Nat, use : BOOLEAN, months : Nat, faults : Nat,
         changes : Nat, refusals : Nat, pages : BOOLEAN, releases : Nat, old : Nat,
         breaks : Nat, starts : Nat]

ASSUME ServiceAssumption ==
  /\ Restricted \subseteq Client
  /\ Home \subseteq Country
  /\ MaxStarts \in Nat
  /\ Works \subseteq Work
  /\ \A w \in Works :
       /\ w.saves =< MaxSaves /\ w.requests =< MaxRequests /\ w.writes =< MaxWrites
       /\ w.months =< MaxMonths /\ w.faults =< MaxFaults
       /\ w.changes =< MaxChanges /\ w.refusals =< MaxRefusals
       /\ w.releases < MaxReleases /\ w.old =< MaxReleases - w.releases /\ w.breaks =< MaxBreaks
       /\ w.starts =< MaxStarts

VARIABLES
  boot,      \* how far the start is
  left,      \* clients whose restriction the start has still to copy
  marker,    \* restrictions_decoupled_at is set
  starts,    \* restarts so far
  work       \* bound: the work of this behaviour

bootVars == <<boot, left, marker, starts, work>>
listVars == <<answerVars, geoVars>>
dataVars == <<settingsVars, noticeVars, provVars, policyVars>>
vars == <<dataVars, listVars, bootVars>>

Up == boot = "up"

\* wrong on purpose: what has no restriction is copied again at every start
ToCopyAgain == {c \in Restricted : policies[c].list = {}}

\* Once only: the marker tells a restriction that was lifted on purpose from
\* one that was not copied yet.
ToCopy == IF marker THEN {} ELSE Restricted

\* The process dies and is started again: its threads are gone.
Restart ==
  /\ starts < MaxStarts
  /\ starts' = starts + 1
  /\ boot' = "adopt"
  /\ left' = {}
  /\ Refreshed
  /\ clerk' = [k \in Clerk |-> Free]
  /\ tick' = Asleep
  /\ writer' = Silenced(Editor \cup {Booter})
  /\ holder' = Freed(Editor \cup {Booter})
  /\ UNCHANGED <<pct, notice, posted, slack, months, faults, prov, asked, clash,
                 policies, writes, due, gone, marker, work>>
  /\ Forgotten
  /\ Emptied

\* The mail settings of an older version may be there or not.
Adopt ==
  /\ boot = "adopt"
  /\ prov' = prov \/ \E p \in Provider : prov' = Adopted(p)
  /\ boot' = "copy"
  /\ left' = ToCopy
  /\ UNCHANGED <<marker, starts, work, settingsVars, noticeVars, clerk, asked, clash, policyVars, listVars>>

Copy(c) ==
  /\ boot = "copy"
  /\ c \in left
  /\ Ask(Booter, c, [f \in {"list"} |-> Home], ~marker)
  /\ left' = left \ {c}
  /\ UNCHANGED <<boot, marker, starts, work, writes, settingsVars, noticeVars, provVars, listVars>>

\* Restrictions that do not pass the checks of a policy are passed over.
PassOver(c) ==
  /\ boot = "copy"
  /\ c \in left
  /\ writer[Booter].pc = "quiet"
  /\ left' = left \ {c}
  /\ UNCHANGED <<boot, marker, starts, work, dataVars, listVars>>

Serve ==
  /\ boot = "copy"
  /\ left = {} /\ writer[Booter].pc = "quiet"
  /\ marker' = TRUE
  /\ boot' = "up"
  /\ UNCHANGED <<left, starts, work, dataVars, listVars>>

BootStep == Adopt \/ Serve \/ \E c \in Client : Copy(c) \/ PassOver(c)

Settle(s) ==
  /\ Up /\ SettingsStep(s)
  /\ UNCHANGED <<noticeVars, provVars, policyVars, listVars, bootVars>>

SettleSlack ==
  /\ Up /\ SaveSlack
  /\ UNCHANGED <<provVars, policyVars, listVars, bootVars>>

Manage(k) ==
  /\ Up /\ ProviderStep(k)
  /\ UNCHANGED <<settingsVars, noticeVars, policyVars, listVars, bootVars>>

Watch ==
  /\ Up /\ work.use
  /\ Tick
  /\ UNCHANGED <<settingsVars, provVars, policyVars, listVars, bootVars>>

World ==
  /\ (\E u \in User : Use(u)) \/ NewMonth
  /\ UNCHANGED <<settingsVars, provVars, policyVars, listVars, bootVars>>

Confine(w) ==
  /\ \/ Up /\ \E c \in Client : Edit(w, c)
     \/ \E c \in Client : ShellEdit(w, c)
     \/ WriterStep(w)
  /\ UNCHANGED <<settingsVars, noticeVars, provVars, listVars, bootVars>>

\* Requests about clients, the loop that makes the snapshot.
Report ==
  /\ Up /\ work.changes > 0
  /\ \/ \E t \in Caller :
          CallStep(t) \/ Refresh(t) \/ (\E k \in Key : AskFor(t, k)) \/ (\E n \in Name : Alter(t, n))
     \/ Refresh(Loop)
  /\ UNCHANGED <<dataVars, geoVars, bootVars>>

Looping ==
  /\ Up
  /\ CallStep(Loop)
  /\ UNCHANGED <<dataVars, geoVars, bootVars>>

Elapse == Second /\ UNCHANGED <<dataVars, geoVars, bootVars>>

\* What changes without the portal: in a shell, or as clients connect.
Outside ==
  /\ \/ \E n \in Name : Elsewhere(Touches(n))
     \/ \E i \in DOMAIN Shown : Elsewhere({Shown[i]})
  /\ UNCHANGED <<dataVars, geoVars, bootVars>>

Browse ==
  /\ Up /\ work.pages
  /\ \E k \in Kind : OpenPage(k)
  /\ UNCHANGED <<dataVars, answerVars, bootVars>>

Browsing ==
  /\ Up
  /\ PageStep
  /\ UNCHANGED <<dataVars, answerVars, bootVars>>

Building ==
  /\ Up
  /\ BuilderStep
  /\ UNCHANGED <<dataVars, answerVars, bootVars>>

Renew ==
  /\ work.pages
  /\ \E k \in Kind : Release(k)
  /\ UNCHANGED <<dataVars, answerVars, bootVars>>

\* A start, the first after an upgrade or a later one.  Where a behaviour has
\* no work for the profiles or the restrictions, theirs is over.
Init ==
  /\ work \in Works
  /\ SettingsInit(MaxSaves - work.saves)
  /\ ProvidersInit(MaxRequests - work.requests)
  /\ work.requests = 0 => Known # {}
  /\ PolicyInit(MaxWrites - work.writes)
  /\ marker = (work.writes = 0)
  /\ NoticesInit(work)
  /\ AnswersInit(work)
  /\ GeoInit(work)
  /\ boot = "adopt"
  /\ left = {}
  /\ starts = MaxStarts - work.starts

Next ==
  \/ Restart
  \/ BootStep
  \/ \E s \in Saver : Settle(s)
  \/ SettleSlack
  \/ \E k \in Clerk : Manage(k)
  \/ Watch
  \/ World
  \/ \E w \in Writer : Confine(w)
  \/ Report \/ Looping \/ Outside \/ Elapse
  \/ Browse \/ Browsing \/ Building \/ Renew

\* The process goes on: its start, its loops, its threads and who waits for the
\* lock; time passes.
Spec ==
  /\ Init /\ [][Next]_vars
  /\ WF_vars(BootStep)
  /\ WF_vars(Watch)
  /\ \A w \in Writer :
       WF_vars(WriterStep(w) /\ UNCHANGED <<settingsVars, noticeVars, provVars, listVars, bootVars>>)
  /\ WF_vars(Elapse)
  /\ WF_vars(Looping)
  /\ WF_vars(Browsing)
  /\ WF_vars(Building)
-----------------------------------------------------------------------------
\* "Re-running on every startup would silently re-impose a VPN restriction
\* someone intentionally removed": once the portal serves, the entry of every
\* client is what the writes asked for make one after the other, whoever wrote,
\* failed to write or died in between, and the copy of the upgrade once.  The
\* exception: a writer that cannot read the file makes it anew, and the entries
\* that stood then are gone.
PoliciesKept == Up => \A c \in Client : policies[c] = due[c] \/ c \in gone

\* "for critical only, an optional admin email": a tick goes on after the
\* mail of a critical crossing.
CriticalMailed == [][TickMail /\ boot' = boot => tick'.pc = "slack"]_vars
=============================================================================
