--------------------------- MODULE DeviceMonitor ---------------------------
(***************************************************************************)
(* Device availability monitoring (device_monitoring.py): the tick that    *)
(* main.py's loop runs for ever, and the managers who edit what it watches *)
(* (routes/clients.py).                                                    *)
(*                                                                         *)
(* A tick has one database session and commits it at its end, but every    *)
(* audit record and every Slack delivery commits it too.  `db' is what is  *)
(* committed, `sess' what the session would commit now; a tick that is cut *)
(* short (an exception, or the process dies) loses the difference.  After  *)
(* a commit the session forgets what it read of the links and reads them   *)
(* again when it needs them.                                               *)
(***************************************************************************)
EXTENDS Naturals, Sequences

CONSTANTS Devices,   \* VPN client names with a link
          Settings,  \* what a manager may save, a subset of Setting
          None,      \* NULL; also: nothing read
          MaxNow,    \* bound: the clock
          MaxEdits,  \* bound: writes of the managers
          MaxFlips,  \* bound: changes of the status snapshot
          MaxCuts    \* bound: ticks cut short

\* mode: alert_cooldown_mode, with its interval in `repeat'.
Setting == [enabled : BOOLEAN, threshold : Nat \ {0}, mode : {"once", "repeat"},
            repeat : Nat \ {0}, recovery : BOOLEAN]

Time == 0..MaxNow

ASSUME MonitorAssumption ==
  /\ Settings \subseteq Setting
  /\ MaxNow \in Nat /\ MaxEdits \in Nat /\ MaxFlips \in Nat /\ MaxCuts \in Nat
  /\ None \notin Nat
  /\ None \notin Devices
  /\ None \notin [set : Setting, maint : BOOLEAN, until : Time \cup {None}]

VARIABLES
  now,       \* the clock
  snapshot,  \* devices that the status snapshot calls online
  conf,      \* VpnProfileLink: the settings and the maintenance mode
  db,        \* VpnDeviceStatus and VpnDeviceOutage, committed
  sess,      \* the same as the tick's session has them
  view,      \* links as the session has read them
  tick,      \* where the tick is, see Tick
  edits, flips, cuts,  \* spent bounds
  story      \* history of each device's episode, see Story

vars == <<now, snapshot, conf, db, sess, view, tick, edits, flips, cuts, story>>

TimeOrNone == Time \cup {None}
Link == [set : Settings, maint : BOOLEAN, until : TimeOrNone]
Outage == [start : Time, end : TimeOrNone, alerted : BOOLEAN]
Row == [status : {"unknown", "online", "offline"}, since : TimeOrNone,
        last : TimeOrNone, count : Nat, outs : Seq(Outage)]

\* "look": the device's maintenance mode is dealt with, its status is next;
\* "judge": it is offline, is that worth an alert?; "restored": it is back, the
\* outage closed and the notice sent, the audit record comes next.
Tick == [pc : {"idle", "next", "look", "judge", "restored"},
         todo : SUBSET Devices, cur : Devices \cup {None}, at : Time,
         seen : SUBSET Devices]

\* Since the device was last recorded as gone offline: offline notices, those
\* of them sent in mode "once", recovery notices, ticks cut short; and the time
\* of the first tick that saw it offline after the last that saw it online.
Story == [alerts : Nat, once : Nat, back : Nat, cuts : Nat, dark : TimeOrNone]

NoRow == [status |-> "unknown", since |-> None, last |-> None, count |-> 0,
          outs |-> <<>>]
NoStory == [alerts |-> 0, once |-> 0, back |-> 0, cuts |-> 0, dark |-> None]
Rest == [pc |-> "idle", todo |-> {}, cur |-> None, at |-> 0, seen |-> {}]

Init ==
  /\ now = 0
  /\ snapshot \in SUBSET Devices
  /\ conf \in [Devices -> [set : Settings, maint : {FALSE}, until : {None}]]
  /\ db = [d \in Devices |-> NoRow] /\ sess = db
  /\ view = [d \in Devices |-> None]
  /\ tick = Rest
  /\ edits = 0 /\ flips = 0 /\ cuts = 0
  /\ story = [d \in Devices |-> NoStory]
-----------------------------------------------------------------------------
(* The rows.                                                               *)

Open(r) == {i \in DOMAIN r.outs : r.outs[i].end = None}

\* The open outage that started last.
Latest(r) ==
  CHOOSE i \in Open(r) : \A j \in Open(r) : r.outs[j].start <= r.outs[i].start

\* Wrong on purpose: a blip that never became an alert is left open.
CloseAlerted(r, t) ==
  IF Open(r) = {} \/ ~r.outs[Latest(r)].alerted
    THEN r.outs ELSE [r.outs EXCEPT ![Latest(r)].end = t]

CloseOutage(r, t) ==
  IF Open(r) = {} THEN r.outs ELSE [r.outs EXCEPT ![Latest(r)].end = t]

MarkAlerted(r) ==
  IF Open(r) = {} THEN r.outs ELSE [r.outs EXCEPT ![Latest(r)].alerted = TRUE]

Closed(r, t) == [r EXCEPT !.outs = CloseOutage(r, t)]

Down(r, t) ==
  [status |-> "offline", since |-> t, last |-> None, count |-> 0,
   outs |-> Append(r.outs, [start |-> t, end |-> None, alerted |-> FALSE])]

Up(r) ==
  [r EXCEPT !.status = "online", !.since = None, !.last = None, !.count = 0]

Alerted(r, t) ==
  [status |-> r.status, since |-> r.since, last |-> t, count |-> r.count + 1,
   outs |-> MarkAlerted(r)]
-----------------------------------------------------------------------------
(* The session.                                                            *)

Forget == [d \in Devices |-> None]
Read(d) == IF view[d] = None THEN conf[d] ELSE view[d]

\* Wrong on purpose: maintenance_mode_until is not looked at.
ExpiryNever(l, t) == l.maint /\ l.until = t /\ FALSE

ExpiryDue(l, t) == l.maint /\ l.until # None /\ t >= l.until

\* Wrong on purpose: off by one.
PastGraceEarly(r, l, t) == t - r.since + 1 >= l.set.threshold

PastGrace(r, l, t) == t - r.since >= l.set.threshold

\* Wrong on purpose: the mode is not looked at.
ShouldAlertAgain(r, l, t) ==
  r.last = None \/ (r.last # None /\ t - r.last >= l.set.repeat)

ShouldAlert(r, l, t) ==
  \/ r.last = None
  \/ r.last # None /\ l.set.mode = "repeat" /\ t - r.last >= l.set.repeat

WantsAlert(r, l, t) == PastGrace(r, l, t) /\ ~l.maint /\ ShouldAlert(r, l, t)

\* Wrong on purpose: whether the outage was announced is not asked.
WantsRecoveryAlways(r, l) == l.set.recovery /\ ~l.maint

WantsRecovery(r, l) == l.set.recovery /\ r.count > 0 /\ ~l.maint

\* The device is dealt with.
Done(d) == tick' = [tick EXCEPT !.pc = "next", !.todo = @ \ {d}, !.cur = None]

\* A delivery may have committed what was pending before it.
MayCommit(s) ==
  \/ db' = s /\ view' = Forget
  \/ UNCHANGED <<db, view>>

\* History: a device that is seen back, an alert that is sent.
Returned(s, told) ==
  [s EXCEPT !.dark = None, !.back = IF told THEN s.back + 1 ELSE s.back]
Told(s, mode) ==
  [s EXCEPT !.alerts = s.alerts + 1,
            !.once = IF mode = "once" THEN s.once + 1 ELSE s.once]

Outside == UNCHANGED <<now, snapshot, edits, flips, cuts>>
-----------------------------------------------------------------------------
(* The tick.                                                               *)

StartTick ==
  LET watched == {d \in Devices : conf[d].set.enabled} IN
  /\ tick.pc = "idle" /\ watched # {}
  /\ tick' = [tick EXCEPT !.pc = "next", !.todo = watched, !.seen = snapshot]
  /\ view' = [d \in Devices |-> IF d \in watched THEN conf[d] ELSE None]
  /\ Outside /\ UNCHANGED <<conf, db, sess, story>>

\* A maintenance window that is over is closed on what the session has read,
\* and the audit record commits.
Take(d) ==
  /\ tick.pc = "next" /\ d \in tick.todo
  /\ tick' = [tick EXCEPT !.pc = "look", !.cur = d, !.at = now]
  /\ IF ExpiryDue(Read(d), now)
       THEN /\ conf' = [conf EXCEPT ![d] = [@ EXCEPT !.maint = FALSE,
                                                   !.until = None]]
            /\ db' = sess
            /\ view' = Forget
       ELSE /\ view' = [view EXCEPT ![d] = Read(d)]
            /\ UNCHANGED <<conf, db>>
  /\ Outside /\ UNCHANGED <<sess, story>>

StillOnline(d) ==
  /\ tick.pc = "look" /\ tick.cur = d /\ d \in tick.seen
  /\ sess[d].status # "offline"
  /\ sess' = [sess EXCEPT ![d] = Up(@)]
  /\ Done(d)
  /\ Outside /\ UNCHANGED <<conf, db, view, story>>

ComeBack(d) ==
  LET told == WantsRecovery(sess[d], Read(d)) IN
  /\ tick.pc = "look" /\ tick.cur = d /\ d \in tick.seen
  /\ sess[d].status = "offline"
  /\ sess' = [sess EXCEPT ![d] = Closed(@, tick.at)]
  /\ story' = [story EXCEPT ![d] = Returned(@, told)]
  /\ IF told THEN MayCommit(sess') ELSE UNCHANGED <<db, view>>
  /\ tick' = [tick EXCEPT !.pc = "restored"]
  /\ Outside /\ UNCHANGED conf

\* The audit record commits the closed outage; the status follows later.
Restored(d) ==
  /\ tick.pc = "restored" /\ tick.cur = d
  /\ db' = sess
  /\ view' = Forget
  /\ sess' = [sess EXCEPT ![d] = Up(@)]
  /\ Done(d)
  /\ Outside /\ UNCHANGED <<conf, story>>

\* The audit record commits.
GoOffline(d) ==
  /\ tick.pc = "look" /\ tick.cur = d /\ d \notin tick.seen
  /\ sess[d].status # "offline"
  /\ sess' = [sess EXCEPT ![d] = Down(@, tick.at)]
  /\ db' = sess'
  /\ view' = Forget
  /\ story' = [story EXCEPT ![d] = [NoStory EXCEPT !.dark = tick.at]]
  /\ tick' = [tick EXCEPT !.pc = "judge"]
  /\ Outside /\ UNCHANGED conf

StillOffline(d) ==
  /\ tick.pc = "look" /\ tick.cur = d /\ d \notin tick.seen
  /\ sess[d].status = "offline"
  /\ tick' = [tick EXCEPT !.pc = "judge"]
  /\ story' = [story EXCEPT ![d].dark = IF @ = None THEN tick.at ELSE @]
  /\ Outside /\ UNCHANGED <<conf, db, sess, view>>

Quiet(d) ==
  /\ tick.pc = "judge" /\ tick.cur = d
  /\ ~WantsAlert(sess[d], Read(d), tick.at)
  /\ Done(d)
  /\ Outside /\ UNCHANGED <<conf, db, sess, view, story>>

\* The alert is noted after it was sent, and committed later still.
Alert(d) ==
  /\ tick.pc = "judge" /\ tick.cur = d
  /\ WantsAlert(sess[d], Read(d), tick.at)
  /\ MayCommit(sess)
  /\ sess' = [sess EXCEPT ![d] = Alerted(@, tick.at)]
  /\ story' = [story EXCEPT ![d] = Told(@, Read(d).set.mode)]
  /\ Done(d)
  /\ Outside /\ UNCHANGED conf

FinishTick ==
  /\ tick.pc = "next" /\ tick.todo = {}
  /\ db' = sess
  /\ view' = Forget
  /\ tick' = Rest
  /\ Outside /\ UNCHANGED <<conf, sess, story>>

CutTick ==
  /\ tick.pc # "idle" /\ cuts < MaxCuts
  /\ sess' = db
  /\ view' = Forget
  /\ tick' = Rest
  /\ cuts' = cuts + 1
  /\ story' = [d \in Devices |-> [story[d] EXCEPT !.cuts = @ + 1]]
  /\ UNCHANGED <<now, snapshot, conf, db, edits, flips>>
-----------------------------------------------------------------------------
(* Everybody else.                                                         *)

Configure(d) ==
  /\ edits < MaxEdits
  /\ \E s \in Settings : conf' = [conf EXCEPT ![d].set = s]
  /\ edits' = edits + 1
  /\ UNCHANGED <<now, snapshot, db, sess, view, tick, flips, cuts, story>>

SetMaintenance(d) ==
  /\ edits < MaxEdits
  /\ \/ \E u \in TimeOrNone :
          conf' = [conf EXCEPT ![d] = [@ EXCEPT !.maint = TRUE, !.until = u]]
     \/ conf' = [conf EXCEPT ![d] = [@ EXCEPT !.maint = FALSE, !.until = None]]
  /\ edits' = edits + 1
  /\ UNCHANGED <<now, snapshot, db, sess, view, tick, flips, cuts, story>>

\* The snapshot is refreshed and shows another status of d.
Refresh(d) ==
  /\ flips < MaxFlips
  /\ snapshot' = IF d \in snapshot THEN snapshot \ {d} ELSE snapshot \cup {d}
  /\ flips' = flips + 1
  /\ UNCHANGED <<now, conf, db, sess, view, tick, edits, cuts, story>>

Advance ==
  /\ now < MaxNow
  /\ now' = now + 1
  /\ UNCHANGED <<snapshot, conf, db, sess, view, tick, edits, flips, cuts, story>>

Device(d) ==
  \/ Take(d) \/ StillOnline(d) \/ ComeBack(d) \/ Restored(d)
  \/ GoOffline(d) \/ StillOffline(d) \/ Quiet(d) \/ Alert(d)

Work == StartTick \/ FinishTick \/ \E d \in Devices : Device(d)

Next ==
  \/ Work
  \/ CutTick
  \/ Advance
  \/ \E d \in Devices : Configure(d) \/ SetMaintenance(d) \/ Refresh(d)

Spec == Init /\ [][Next]_vars

\* The loop runs for ever and survives the exceptions of a tick; time passes.
FairSpec == Spec /\ WF_vars(Work) /\ WF_vars(Advance)
-----------------------------------------------------------------------------
TypeOK ==
  /\ now \in Time
  /\ snapshot \subseteq Devices
  /\ conf \in [Devices -> Link]
  /\ db \in [Devices -> Row]
  /\ sess \in [Devices -> Row]
  /\ view \in [Devices -> Link \cup {None}]
  /\ tick \in Tick
  /\ edits \in 0..MaxEdits /\ flips \in 0..MaxFlips /\ cuts \in 0..MaxCuts
  /\ story \in [Devices -> Story]

\* The tick has closed d's outage and not yet written its status.
Halfway(d) == tick.pc = "restored" /\ tick.cur = d

\* What the availability report adds up agrees with the status the dashboard
\* shows: a device has at most one open outage, only while it is offline and
\* from the same moment; and it is never offline without one, unless a tick was
\* cut short in this episode.  Holds of the committed rows and the session's.
RowAgrees(r) ==
  /\ \A i, j \in Open(r) : i = j
  /\ \A i \in Open(r) : r.status = "offline" /\ r.outs[i].start = r.since

HistoryAgrees ==
  \A d \in Devices :
    /\ RowAgrees(db[d]) /\ RowAgrees(sess[d])
    /\ sess[d].status = "offline" /\ story[d].cuts = 0 /\ ~Halfway(d) =>
         Open(sess[d]) # {}

\* ALERT_COOLDOWN_MODES: "Send one alert, then stay silent until reconnect".
\* An alert is sent again at most once for each tick that was cut short.
OncePerOutage == \A d \in Devices : story[d].once <= 1 + story[d].cuts

\* A reconnection is announced only if the loss was, whatever ticks were cut
\* short between the two.
RecoveryAnswersAlert ==
  \A d \in Devices : story[d].back > 0 => story[d].alerts > 0

\* An alert goes out only after the ticks have seen the device offline, and
\* never online, for its threshold, unless a tick was cut short.
AlertsAfterThreshold ==
  [][\A d \in Devices :
       story'[d].alerts > story[d].alerts /\ story[d].cuts = 0 =>
         /\ story[d].dark # None
         /\ tick.at - story[d].dark >= Read(d).set.threshold]_vars

\* A watched device that stays offline is reported in the end, also when its
\* maintenance window had an end that nobody waited for and when ticks were cut
\* short; unless the clock's bound ends its grace period first.
Muted(d) ==
  conf[d].maint /\ (conf[d].until = None \/ conf[d].until > MaxNow)

OutlastsClock(d) ==
  sess[d].since # None /\ sess[d].since + conf[d].set.threshold > MaxNow

EventuallyReported ==
  \A d \in Devices :
    <>[](d \notin snapshot /\ conf[d].set.enabled /\ ~Muted(d)) =>
      <>[](sess[d].count > 0 \/ OutlastsClock(d))
-----------------------------------------------------------------------------
(* The inductive invariant.                                                *)

\* A row is dated while its device is offline, and agrees with its outages.
RowGood(r) == RowAgrees(r) /\ (r.status = "offline" <=> r.since # None)

\* What the committed row, the session's and the history have to do with each
\* other: going offline is committed at once, so that only an episode's end can
\* be lost; an alert is known to the session if it was sent in this episode and
\* no tick was cut short; the first sight of the outage is its date.
Episode(d) ==
  /\ RowGood(db[d]) /\ RowGood(sess[d])
  /\ sess[d].status = "offline" => db[d].status = "offline"
  /\ sess[d].status # "offline" \/ Halfway(d) => story[d].dark = None
  /\ sess[d].status = "offline" /\ story[d].cuts = 0 /\ ~Halfway(d) =>
       Open(sess[d]) # {} /\ story[d].dark = sess[d].since
  /\ story[d].once <= 1 + story[d].cuts
  /\ sess[d].status = "offline" /\ sess[d].last = None =>
       story[d].once <= story[d].cuts
  /\ db[d].count > 0 \/ sess[d].count > 0 \/ story[d].back > 0 =>
       story[d].alerts > 0

\* What the tick knows of the device it works on.
AtWork ==
  /\ tick.pc = "idle" => sess = db
  /\ tick.pc \in {"look", "judge", "restored"} => tick.cur \in Devices
  /\ \A d \in Devices : tick.cur = d =>
       /\ tick.pc \in {"judge", "restored"} => sess[d].status = "offline"
       /\ tick.pc = "restored" => Open(sess[d]) = {}

IInv == TypeOK /\ AtWork /\ \A d \in Devices : Episode(d)
=============================================================================
