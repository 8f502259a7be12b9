--------------------------- MODULE QuotaNotices ---------------------------
(***************************************************************************)
(* The loop that tells users and administrators about a quota that is      *)
(* nearly used up.                                                         *)
(*                                                                         *)
(* Source: app/main.py (_check_quota_notifications and its loop),          *)
(* models.QuotaNotification, slack_notifications.notify.                   *)
(*                                                                         *)
(* A tick reads the thresholds and the use of every client once, then      *)
(* takes the crossings one by one: a row for the bell is committed, a mail *)
(* and a Slack message may follow.  The rows are those of the month;       *)
(* whatever a tick still does for the month before is left out.            *)
(***************************************************************************)
EXTENDS PortalSettings

CONSTANTS
  User,        \* users with a client and a quota
  Top,         \* bound: the highest share of a quota in use
  MaxMonths,   \* bound: months that begin
  MaxFaults    \* bound: failures of the database

ASSUME NoticesAssumption == Top \in Nat /\ MaxMonths \in Nat /\ MaxFaults \in Nat

VARIABLES
  pct,       \* per user: the share of the quota in use
  notice,    \* the rows of quota_notifications for this month
  posted,    \* history: Slack messages of this month, per crossing
  slack,     \* is a workspace enabled that wants these messages
  tick,      \* the tick: how far it is, what it has still to look at
  months,    \* months begun
  faults     \* failures so far

noticeVars == <<pct, notice, posted, slack, tick, months, faults>>

Crossing == User \X {"warning", "critical"}
Asleep == [pc |-> "asleep", todo |-> {}, at |-> <<>>]

Crossed(n) == pct[n[1]] >= (IF n[2] = "warning" THEN cache.warn ELSE cache.crit)

\* wrong on purpose: the critical level takes the place of the warning
DueHighest ==
  {n \in Crossing : Crossed(n) /\ (n[2] = "warning" => ~Crossed(<<n[1], "critical">>))}

\* Both levels are looked at, whichever of them a user has jumped to.
Due == {n \in Crossing : Crossed(n)}

TickStart ==
  /\ tick.pc = "asleep"
  /\ tick' = [pc |-> "row", todo |-> Due, at |-> <<>>]
  /\ UNCHANGED <<pct, notice, posted, slack, months, faults>>

\* Users in any order, the warning of each before its critical level.
Looks(n) ==
  /\ tick.pc = "row"
  /\ n \in tick.todo
  /\ n[2] = "critical" => <<n[1], "warning">> \notin tick.todo

TickSkip(n) ==
  /\ Looks(n)
  /\ n \in notice
  /\ tick' = [tick EXCEPT !.todo = @ \ {n}]
  /\ UNCHANGED <<pct, notice, posted, slack, months, faults>>

\* wrong on purpose: a muted bell leaves no row
TickNoteMuted(n) ==
  /\ Looks(n)
  /\ n \notin notice
  /\ notice' = IF cache.bell THEN notice \cup {n} ELSE notice
  /\ tick' = [pc |-> "mail", todo |-> tick.todo \ {n}, at |-> n]
  /\ UNCHANGED <<pct, posted, slack, months, faults>>

\* The row is committed before anything is sent; the bell is muted only when
\* the rows are listed.
TickNote(n) ==
  /\ Looks(n)
  /\ n \notin notice
  /\ notice' = notice \cup {n}
  /\ tick' = [pc |-> "mail", todo |-> tick.todo \ {n}, at |-> n]
  /\ UNCHANGED <<pct, posted, slack, months, faults>>

\* send_admin_notification is called without the session it requires: the
\* TypeError ends the tick before the mail and the Slack message.
TickMail ==
  /\ tick.pc = "mail"
  /\ tick' = IF tick.at[2] = "critical" /\ cache.alert /\ cache.address THEN Asleep
             ELSE [tick EXCEPT !.pc = "slack"]
  /\ UNCHANGED <<pct, notice, posted, slack, months, faults>>

\* A message that cannot be delivered is written off.
TickSlack ==
  /\ tick.pc = "slack"
  /\ posted' = IF slack THEN [posted EXCEPT ![tick.at] = @ + 1] ELSE posted
  /\ tick' = [tick EXCEPT !.pc = "row", !.at = <<>>]
  /\ UNCHANGED <<pct, notice, slack, months, faults>>

TickEnd ==
  /\ tick.pc = "row" /\ tick.todo = {}
  /\ tick' = Asleep
  /\ UNCHANGED <<pct, notice, posted, slack, months, faults>>

\* The loop survives any failure and tries again at the next tick.
TickFails ==
  /\ tick.pc = "row" /\ tick.todo # {}
  /\ faults < MaxFaults
  /\ faults' = faults + 1
  /\ tick' = Asleep
  /\ UNCHANGED <<pct, notice, posted, slack, months>>

Tick ==
  \/ TickStart \/ TickMail \/ TickSlack \/ TickEnd \/ TickFails
  \/ \E n \in Crossing : TickSkip(n) \/ TickNote(n)

Use(u) ==
  /\ pct[u] < Top
  /\ pct' = [pct EXCEPT ![u] = @ + 1]
  /\ UNCHANGED <<notice, posted, slack, tick, months, faults>>

NewMonth ==
  /\ months < MaxMonths
  /\ months' = months + 1
  /\ pct' = [u \in User |-> 0]
  /\ notice' = {}
  /\ posted' = [n \in Crossing |-> 0]
  /\ tick' = Asleep
  /\ UNCHANGED <<slack, faults>>

\* The Slack section of the page has a save of its own, read from the
\* database at every message.
SaveSlack ==
  /\ saves < MaxSaves
  /\ saves' = saves + 1
  /\ slack' = ~slack
  /\ UNCHANGED <<row, cache, file, saver, behind, mixed>>
  /\ UNCHANGED <<pct, notice, posted, tick, months, faults>>

NoticesInit(w) ==
  /\ pct = [u \in User |-> IF w.use THEN 0 ELSE Top]
  /\ notice = (IF w.use THEN {} ELSE Crossing)
  /\ posted = [n \in Crossing |-> 0]
  /\ slack = TRUE
  /\ tick = Asleep
  /\ months = MaxMonths - w.months
  /\ faults = MaxFaults - w.faults
-----------------------------------------------------------------------------
\* No crossing is told to Slack twice in a month, whatever ticks fail, abort
\* or are cut by a restart: the row stands before the message.
NoticedOnce == \A n \in Crossing : posted[n] =< 1

\* Each level a user stays above gets its row in the end, the one a tick that
\* aborted had not come to as well.
EveryCrossingNoticed == \A n \in Crossing : <>[]Crossed(n) => []<>(n \in notice)
=============================================================================
