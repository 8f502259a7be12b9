----------------------- MODULE DeviceMonitor_proofs -----------------------
(***************************************************************************)
(* Proofs about DeviceMonitor, for any number of devices, any settings and *)
(* bounds.                                                                 *)
(***************************************************************************)
EXTENDS DeviceMonitor, TLAPS

-----------------------------------------------------------------------------
(* The operators on rows.                                                  *)

\* Two rows that differ at most in last, count and the flags of the outages.
SameEpisode(r, s) == r.status = s.status /\ r.since = s.since

LEMMA OpenInDomain ==
  ASSUME NEW r
  PROVE  /\ Open(r) \subseteq DOMAIN r.outs
         /\ \A i \in DOMAIN r.outs : i \in Open(r) <=> r.outs[i].end = None
  BY DEF Open

\* With at most one open outage, that one is the latest.
LEMMA LatestIsIt ==
  ASSUME NEW r \in Row, RowAgrees(r), NEW i \in Open(r)
  PROVE  Latest(r) = i
<1>1. r.outs[i].start \in Nat
  <2>1. i \in DOMAIN r.outs /\ r.outs \in Seq(Outage)
    BY OpenInDomain DEF Row
  <2>2. r.outs[i] \in Outage
    BY <2>1
  <2>3. QED
    BY <2>2, MonitorAssumption DEF Outage, Time
<1>2. \A j \in Open(r) : r.outs[j].start <= r.outs[i].start
  BY <1>1 DEF RowAgrees
<1>3. Latest(r) \in Open(r)
  BY <1>2 DEF Latest
<1>4. QED
  BY <1>3 DEF RowAgrees

\* Closing closes every open outage and leaves a good row.
LEMMA ClosedRow ==
  ASSUME NEW r \in Row, RowAgrees(r), NEW t \in Time
  PROVE  /\ Closed(r, t) \in Row
         /\ Open(Closed(r, t)) = {}
         /\ SameEpisode(Closed(r, t), r)
         /\ Closed(r, t).last = r.last /\ Closed(r, t).count = r.count
<1> DEFINE s == Closed(r, t)
<1>0. /\ s.outs = CloseOutage(r, t) /\ SameEpisode(s, r)
      /\ s.last = r.last /\ s.count = r.count
  BY DEF Closed, SameEpisode, Row
<1>1. CASE Open(r) = {}
  <2>1. s.outs = r.outs
    BY <1>0, <1>1 DEF CloseOutage
  <2>2. s \in Row
    BY <2>1 DEF Closed, CloseOutage, Row
  <2>3. Open(s) = {}
    BY <2>1, <1>1 DEF Open
  <2>4. QED
    BY <1>0, <2>2, <2>3
<1>2. CASE Open(r) # {}
  <2>1. PICK i \in Open(r) : TRUE
    BY <1>2
  <2>2. Latest(r) = i /\ i \in DOMAIN r.outs
    BY <2>1, LatestIsIt, OpenInDomain
  <2>3. s.outs = [r.outs EXCEPT ![i] = [r.outs[i] EXCEPT !.end = t]]
    BY <1>0, <1>2, <2>2 DEF CloseOutage
  <2>4. r.outs \in Seq(Outage) /\ r.outs[i] \in Outage
    BY <2>2 DEF Row
  <2>5. [r.outs[i] EXCEPT !.end = t] \in Outage
    BY <2>4 DEF Outage, TimeOrNone
  <2>6. s.outs \in Seq(Outage)
    BY <2>2, <2>3, <2>4, <2>5
  <2>7. s \in Row
    BY <2>6, <1>0 DEF Closed, Row
  <2>8. Open(s) = {}
    <3>1. ASSUME NEW j \in Open(s) PROVE FALSE
      <4>1. j \in DOMAIN r.outs /\ s.outs[j].end = None
        BY <3>1, <2>3, OpenInDomain
      <4>2. CASE j = i
        BY <4>1, <4>2, <2>3, <2>4, MonitorAssumption DEF Outage, Time
      <4>3. CASE j # i
        <5>1. r.outs[j].end = None
          BY <4>1, <4>3, <2>3
        <5>2. j \in Open(r)
          BY <4>1, <5>1 DEF Open
        <5>3. QED
          BY <5>2, <2>1, <4>3 DEF RowAgrees
      <4>4. QED
        BY <4>2, <4>3
    <3>2. QED
      BY <3>1
  <2>9. QED
    BY <1>0, <2>7, <2>8
<1>3. QED
  BY <1>1, <1>2

\* A device that goes offline without an open outage has one afterwards.
LEMMA DownRow ==
  ASSUME NEW r \in Row, Open(r) = {}, NEW t \in Time
  PROVE  /\ Down(r, t) \in Row
         /\ RowGood(Down(r, t))
         /\ Open(Down(r, t)) # {}
         /\ Down(r, t).status = "offline" /\ Down(r, t).since = t
         /\ Down(r, t).last = None /\ Down(r, t).count = 0
<1> DEFINE o == [start |-> t, end |-> None, alerted |-> FALSE]
           s == Down(r, t)
           n == Len(r.outs) + 1
<1>1. /\ s.outs = Append(r.outs, o) /\ s.status = "offline" /\ s.since = t
      /\ s.last = None /\ s.count = 0
  BY DEF Down
<1>2. o \in Outage /\ r.outs \in Seq(Outage)
  BY DEF Outage, TimeOrNone, Row
<1>3. s \in Row
  BY <1>1, <1>2 DEF Down, Row, TimeOrNone
<1>4. /\ DOMAIN s.outs = 1..n /\ s.outs[n] = o
      /\ \A i \in 1..n : i # n => i \in DOMAIN r.outs /\ s.outs[i] = r.outs[i]
  BY <1>1, <1>2
<1>5. Open(s) = {n}
  <2>1. n \in Open(s)
    BY <1>2, <1>4 DEF Open
  <2>2. ASSUME NEW i \in Open(s), i # n PROVE FALSE
    <3>1. i \in DOMAIN r.outs /\ r.outs[i].end = None
      BY <2>2, <1>4, OpenInDomain
    <3>2. QED
      BY <3>1, OpenInDomain
  <2>3. QED
    BY <2>1, <2>2
<1>6. RowAgrees(s)
  BY <1>1, <1>4, <1>5 DEF RowAgrees
<1>7. t # None
  BY MonitorAssumption DEF Time
<1>8. QED
  BY <1>1, <1>3, <1>5, <1>6, <1>7 DEF RowGood

LEMMA UpRow ==
  ASSUME NEW r \in Row, Open(r) = {}
  PROVE  /\ Up(r) \in Row
         /\ RowGood(Up(r))
         /\ Up(r).status = "online"
         /\ Up(r).count = 0
<1>1. /\ Up(r).outs = r.outs /\ Up(r).status = "online" /\ Up(r).since = None
      /\ Up(r).count = 0
  BY DEF Up, Row
<1>2. Up(r) \in Row
  BY DEF Up, Row, TimeOrNone
<1>3. Open(Up(r)) = {}
  BY <1>1 DEF Open
<1>4. QED
  BY <1>1, <1>2, <1>3 DEF RowGood, RowAgrees

\* Noting an alert changes neither which outage is open nor since when.
LEMMA AlertedRow ==
  ASSUME NEW r \in Row, RowGood(r), NEW t \in Time
  PROVE  /\ Alerted(r, t) \in Row
         /\ RowGood(Alerted(r, t))
         /\ Open(Alerted(r, t)) = Open(r)
         /\ SameEpisode(Alerted(r, t), r)
         /\ Alerted(r, t).last = t
<1> DEFINE s == Alerted(r, t)
<1>0. /\ s.outs = MarkAlerted(r) /\ SameEpisode(s, r) /\ s.last = t
      /\ s.count = r.count + 1
  BY DEF Alerted, SameEpisode
<1>1. /\ s.outs \in Seq(Outage)
      /\ DOMAIN s.outs = DOMAIN r.outs
      /\ \A i \in DOMAIN r.outs : /\ s.outs[i].end = r.outs[i].end
                                  /\ s.outs[i].start = r.outs[i].start
  <2>1. CASE Open(r) = {}
    BY <1>0, <2>1 DEF MarkAlerted, Row
  <2>2. CASE Open(r) # {}
    <3>1. PICK i \in Open(r) : TRUE
      BY <2>2
    <3>2. Latest(r) = i /\ i \in DOMAIN r.outs
      BY <3>1, LatestIsIt, OpenInDomain DEF RowGood
    <3>3. s.outs = [r.outs EXCEPT ![i] = [r.outs[i] EXCEPT !.alerted = TRUE]]
      BY <1>0, <2>2, <3>2 DEF MarkAlerted
    <3>4. r.outs \in Seq(Outage) /\ r.outs[i] \in Outage
      BY <3>2 DEF Row
    <3>5. /\ [r.outs[i] EXCEPT !.alerted = TRUE] \in Outage
          /\ [r.outs[i] EXCEPT !.alerted = TRUE].end = r.outs[i].end
          /\ [r.outs[i] EXCEPT !.alerted = TRUE].start = r.outs[i].start
      BY <3>4 DEF Outage
    <3>6. QED
      BY <3>2, <3>3, <3>4, <3>5
  <2>3. QED
    BY <2>1, <2>2
<1>2. Open(s) = Open(r)
  BY <1>1 DEF Open
<1>3. s \in Row
  <2>1. MarkAlerted(r) \in Seq(Outage)
    BY <1>0, <1>1
  <2>2. /\ r.status \in {"unknown", "online", "offline"} /\ r.since \in TimeOrNone
        /\ t \in TimeOrNone /\ r.count + 1 \in Nat
    BY DEF Row, TimeOrNone
  <2>3. QED
    BY <2>1, <2>2 DEF Alerted, Row
<1>4. RowGood(s)
  BY <1>0, <1>1, <1>2, OpenInDomain DEF RowGood, RowAgrees, SameEpisode
<1>5. QED
  BY <1>0, <1>2, <1>3, <1>4
-----------------------------------------------------------------------------
(* The type invariant.                                                     *)

LEMMA InitType == Init => TypeOK
<1> SUFFICES ASSUME Init PROVE TypeOK
  OBVIOUS
<1>1. NoRow \in Row
  BY DEF NoRow, Row, TimeOrNone
<1>2. Rest \in Tick
  BY MonitorAssumption DEF Rest, Tick, Time
<1>3. NoStory \in Story
  BY DEF NoStory, Story, TimeOrNone
<1>4. conf \in [Devices -> Link]
  BY DEF Init, Link, TimeOrNone
<1>5. now \in Time /\ edits \in 0..MaxEdits /\ flips \in 0..MaxFlips
      /\ cuts \in 0..MaxCuts
  BY MonitorAssumption DEF Init, Time
<1>6. QED
  BY <1>1, <1>2, <1>3, <1>4, <1>5 DEF Init, TypeOK

\* What the session has read, or would read, of a link.
LEMMA ReadType ==
  ASSUME TypeOK, NEW d \in Devices
  PROVE  Read(d) \in Link
  BY DEF TypeOK, Read

LEMMA ForgetType == Forget \in [Devices -> Link \cup {None}]
  BY DEF Forget

LEMMA DoneType ==
  ASSUME TypeOK, NEW d \in Devices, Done(d)
  PROVE  tick' \in Tick
  BY DEF TypeOK, Done, Tick

\* What the two notes of the history do.
LEMMA StoryType ==
  ASSUME NEW s \in Story, NEW told, NEW mode
  PROVE  /\ Returned(s, told) \in Story /\ Told(s, mode) \in Story
         /\ Returned(s, told).dark = None /\ Told(s, mode).dark = s.dark
         /\ Returned(s, told).alerts = s.alerts
         /\ Told(s, mode).alerts = s.alerts + 1
         /\ Returned(s, told).once = s.once
         /\ Told(s, mode).once = IF mode = "once" THEN s.once + 1 ELSE s.once
         /\ Returned(s, told).back = IF told THEN s.back + 1 ELSE s.back
         /\ Told(s, mode).back = s.back
         /\ Returned(s, told).cuts = s.cuts /\ Told(s, mode).cuts = s.cuts
<1>1. /\ s.alerts \in Nat /\ s.once \in Nat /\ s.back \in Nat
      /\ s.alerts + 1 \in Nat /\ s.once + 1 \in Nat /\ s.back + 1 \in Nat
  BY DEF Story
<1>2. (IF told THEN s.back + 1 ELSE s.back) \in Nat
  BY <1>1
<1>3. (IF mode = "once" THEN s.once + 1 ELSE s.once) \in Nat
  BY <1>1
<1>4. Returned(s, told) \in Story
  BY <1>2 DEF Returned, Story, TimeOrNone
<1>5. Told(s, mode) \in Story
  BY <1>1, <1>3 DEF Told, Story
<1>6. QED
  BY <1>4, <1>5 DEF Returned, Told, Story

\* The rows of a step of the tick: what a commit can leave in db.
LEMMA CommitType ==
  ASSUME TypeOK, NEW s \in [Devices -> Row], MayCommit(s)
  PROVE  /\ db' \in [Devices -> Row] /\ db' \in {db, s}
         /\ view' \in [Devices -> Link \cup {None}]
  BY ForgetType DEF TypeOK, MayCommit

LEMMA TypeStep ==
  ASSUME IInv, [Next]_vars
  PROVE  TypeOK'
<1>0. TypeOK /\ AtWork /\ \A d \in Devices : RowGood(sess[d])
  BY DEF IInv, Episode
<1>1. CASE UNCHANGED vars
  BY <1>0, <1>1 DEF vars, TypeOK
<1>2. CASE StartTick
  <2>1. tick' \in Tick
    BY <1>0, <1>2 DEF StartTick, TypeOK, Tick
  <2>2. view' \in [Devices -> Link \cup {None}]
    BY <1>0, <1>2 DEF StartTick, TypeOK
  <2>3. QED
    BY <1>0, <1>2, <2>1, <2>2 DEF StartTick, Outside, TypeOK
<1>3. CASE FinishTick
  <2>1. tick' \in Tick
    BY <1>0, <1>3, MonitorAssumption DEF FinishTick, Rest, Tick, Time
  <2>2. QED
    BY <1>0, <1>3, <2>1, ForgetType DEF FinishTick, Outside, TypeOK
<1>4. CASE CutTick
  <2>1. tick' \in Tick
    BY <1>0, <1>4, MonitorAssumption DEF CutTick, Rest, Tick, Time
  <2>2. story' \in [Devices -> Story]
    BY <1>0, <1>4, SMTT(30) DEF CutTick, TypeOK, Story
  <2>3. cuts' \in 0..MaxCuts
    BY <1>0, <1>4, MonitorAssumption DEF CutTick, TypeOK
  <2>4. QED
    BY <1>0, <1>4, <2>1, <2>2, <2>3, ForgetType DEF CutTick, TypeOK
<1>5. CASE Advance
  <2>1. now' \in Time
    BY <1>0, <1>5, MonitorAssumption DEF Advance, TypeOK, Time
  <2>2. QED
    BY <1>0, <1>5, <2>1 DEF Advance, TypeOK
<1>6. ASSUME NEW d \in Devices, Configure(d)
      PROVE  TypeOK'
  <2>1. conf' \in [Devices -> Link] /\ edits' \in 0..MaxEdits
    BY <1>0, <1>6, MonitorAssumption DEF Configure, TypeOK, Link
  <2>2. QED
    BY <1>0, <1>6, <2>1 DEF Configure, TypeOK
<1>7. ASSUME NEW d \in Devices, SetMaintenance(d)
      PROVE  TypeOK'
  <2>1. conf' \in [Devices -> Link]
    <3>1. ASSUME NEW m \in BOOLEAN, NEW u \in TimeOrNone
          PROVE  [conf[d] EXCEPT !.maint = m, !.until = u] \in Link
      BY <1>0 DEF TypeOK, Link
    <3>2. None \in TimeOrNone
      BY DEF TimeOrNone
    <3>3. QED
      BY <1>0, <1>7, <3>1, <3>2 DEF SetMaintenance, TypeOK
  <2>2. edits' \in 0..MaxEdits
    <3>1. edits < MaxEdits /\ edits' = edits + 1
      BY <1>0, <1>7 DEF SetMaintenance
    <3>2. QED
      BY <1>0, <3>1, MonitorAssumption DEF TypeOK
  <2>3. QED
    BY <1>0, <1>7, <2>1, <2>2 DEF SetMaintenance, TypeOK
<1>8. ASSUME NEW d \in Devices, Refresh(d)
      PROVE  TypeOK'
  <2>1. snapshot' \subseteq Devices /\ flips' \in 0..MaxFlips
    BY <1>0, <1>8, MonitorAssumption DEF Refresh, TypeOK
  <2>2. QED
    BY <1>0, <1>8, <2>1 DEF Refresh, TypeOK
<1>9. ASSUME NEW d \in Devices, Device(d)
      PROVE  TypeOK'
  <2>0. sess[d] \in Row /\ tick.at \in Time /\ now \in Time /\ story[d] \in Story
        /\ RowGood(sess[d]) /\ RowAgrees(sess[d])
    BY <1>0, <1>9 DEF TypeOK, Tick, RowGood
  <2>1. CASE Take(d)
    <3>1. tick' \in Tick
      BY <1>0, <2>0, <2>1 DEF Take, TypeOK, Tick
    <3>2. /\ conf' \in [Devices -> Link]
          /\ db' \in [Devices -> Row]
          /\ view' \in [Devices -> Link \cup {None}]
      <4>1. [conf[d] EXCEPT !.maint = FALSE, !.until = None] \in Link
        BY <1>0, <2>1 DEF TypeOK, Link, TimeOrNone
      <4>2. QED
        BY <1>0, <2>1, <4>1, ReadType, ForgetType DEF Take, TypeOK
    <3>3. QED
      BY <1>0, <2>1, <3>1, <3>2 DEF Take, Outside, TypeOK
  <2>2. CASE StillOnline(d)
    <3>1. Open(sess[d]) = {}
      BY <1>0, <2>0, <2>2 DEF StillOnline, RowAgrees
    <3>2. sess' \in [Devices -> Row]
      BY <1>0, <2>0, <2>2, <3>1, UpRow DEF StillOnline, TypeOK
    <3>3. QED
      BY <1>0, <2>2, <3>2, DoneType DEF StillOnline, Outside, TypeOK
  <2>3. CASE ComeBack(d)
    <3>1. sess' \in [Devices -> Row]
      BY <1>0, <2>0, <2>3, ClosedRow DEF ComeBack, TypeOK
    <3>2. story' \in [Devices -> Story]
      BY <1>0, <2>0, <2>3, StoryType DEF ComeBack, TypeOK
    <3>3. tick' \in Tick
      BY <1>0, <2>3 DEF ComeBack, TypeOK, Tick
    <3>4. db' \in [Devices -> Row] /\ view' \in [Devices -> Link \cup {None}]
      BY <1>0, <2>3, <3>1, CommitType DEF ComeBack, TypeOK
    <3>5. QED
      BY <1>0, <2>3, <3>1, <3>2, <3>3, <3>4 DEF ComeBack, Outside, TypeOK
  <2>4. CASE Restored(d)
    <3>1. sess' \in [Devices -> Row]
      BY <1>0, <2>0, <2>4, UpRow DEF Restored, AtWork, TypeOK
    <3>2. QED
      BY <1>0, <2>4, <3>1, DoneType, ForgetType DEF Restored, Outside, TypeOK
  <2>5. CASE GoOffline(d)
    <3>1. Open(sess[d]) = {}
      BY <1>0, <2>0, <2>5 DEF GoOffline, RowAgrees
    <3>2. sess' \in [Devices -> Row]
      BY <1>0, <2>0, <2>5, <3>1, DownRow DEF GoOffline, TypeOK
    <3>3. story' \in [Devices -> Story]
      BY <1>0, <2>0, <2>5 DEF GoOffline, TypeOK, Story, NoStory, TimeOrNone
    <3>4. tick' \in Tick
      BY <1>0, <2>5 DEF GoOffline, TypeOK, Tick
    <3>5. QED
      BY <1>0, <2>5, <3>2, <3>3, <3>4, ForgetType DEF GoOffline, Outside, TypeOK
  <2>6. CASE StillOffline(d)
    <3>1. story' \in [Devices -> Story]
      BY <1>0, <2>0, <2>6 DEF StillOffline, TypeOK, Story, TimeOrNone
    <3>2. tick' \in Tick
      BY <1>0, <2>6 DEF StillOffline, TypeOK, Tick
    <3>3. QED
      BY <1>0, <2>6, <3>1, <3>2 DEF StillOffline, Outside, TypeOK
  <2>7. CASE Quiet(d)
    BY <1>0, <2>7, DoneType DEF Quiet, Outside, TypeOK
  <2>8. CASE Alert(d)
    <3>1. sess' \in [Devices -> Row]
      BY <1>0, <2>0, <2>8, AlertedRow DEF Alert, TypeOK
    <3>2. story' \in [Devices -> Story]
      BY <1>0, <2>0, <2>8, StoryType DEF Alert, TypeOK
    <3>3. db' \in [Devices -> Row] /\ view' \in [Devices -> Link \cup {None}]
      BY <1>0, <2>8, CommitType DEF Alert, TypeOK
    <3>4. QED
      BY <1>0, <2>8, <3>1, <3>2, <3>3, DoneType DEF Alert, Outside, TypeOK
  <2>9. QED
    BY <1>0, <1>9, <2>1, <2>2, <2>3, <2>4, <2>5, <2>6, <2>7, <2>8 DEF Device
<1>10. QED
  BY <1>0, <1>1, <1>2, <1>3, <1>4, <1>5, <1>6, <1>7, <1>8, <1>9 DEF Next, Work
-----------------------------------------------------------------------------
(* The tick's own facts, and each device's episode.                        *)

LEMMA InitInv == Init => IInv
<1> SUFFICES ASSUME Init PROVE IInv
  OBVIOUS
<1>1. TypeOK
  BY InitType
<1>2. AtWork
  BY MonitorAssumption DEF Init, AtWork, Rest
<1>3. ASSUME NEW d \in Devices PROVE Episode(d)
  <2>1. Open(NoRow) = {} /\ db[d] = NoRow /\ sess[d] = NoRow
    BY <1>3 DEF Init, Open, NoRow
  <2>2. RowGood(NoRow)
    BY <2>1 DEF RowGood, RowAgrees, NoRow
  <2>3. /\ NoRow.status = "unknown" /\ NoRow.count = 0 /\ ~Halfway(d)
        /\ story[d] = NoStory
    BY <1>3 DEF Init, NoRow, Halfway, Rest
  <2>4. QED
    BY <2>1, <2>2, <2>3 DEF Episode, NoStory
<1>4. QED
  BY <1>1, <1>2, <1>3 DEF IInv

\* The devices a step does not work on: their rows may be committed, no more.
LEMMA OthersKeep ==
  ASSUME NEW e \in Devices, Episode(e), sess'[e] = sess[e], story'[e] = story[e],
         db'[e] \in {db[e], sess[e]}, ~Halfway(e), ~Halfway(e)'
  PROVE  Episode(e)'
  BY DEF Episode

LEMMA AtWorkStep ==
  ASSUME IInv, [Next]_vars
  PROVE  AtWork'
<1>0. TypeOK /\ AtWork /\ \A d \in Devices : RowGood(sess[d])
  BY DEF IInv, Episode
<1>1. CASE UNCHANGED vars
  BY <1>0, <1>1 DEF vars, AtWork
<1>2. CASE StartTick
  BY <1>0, <1>2 DEF StartTick, AtWork, TypeOK, Tick
<1>3. CASE FinishTick
  BY <1>3, MonitorAssumption DEF FinishTick, AtWork, Rest
<1>4. CASE CutTick
  BY <1>4, MonitorAssumption DEF CutTick, AtWork, Rest
<1>5. CASE Advance
  BY <1>0, <1>5 DEF Advance, AtWork
<1>6. ASSUME NEW d \in Devices, Configure(d) \/ SetMaintenance(d) \/ Refresh(d)
      PROVE  AtWork'
  BY <1>0, <1>6 DEF Configure, SetMaintenance, Refresh, AtWork
<1>7. ASSUME NEW d \in Devices, Device(d)
      PROVE  AtWork'
  <2>0. /\ sess[d] \in Row /\ tick.at \in Time /\ RowGood(sess[d])
        /\ RowAgrees(sess[d]) /\ tick \in Tick
        /\ sess \in [Devices -> Row]
    BY <1>0, <1>7 DEF TypeOK, Tick, RowGood
  <2>1. CASE Take(d)
    BY <2>0, <2>1 DEF Take, AtWork, Tick
  <2>2. ASSUME Done(d) PROVE AtWork'
    BY <2>0, <2>2, MonitorAssumption DEF Done, AtWork, Tick
  <2>3. CASE ComeBack(d)
    <3>1. tick'.pc = "restored" /\ tick'.cur = d
      BY <2>0, <2>3 DEF ComeBack, Tick
    <3>2. sess'[d] = Closed(sess[d], tick.at) /\ sess[d].status = "offline"
      BY <2>0, <2>3 DEF ComeBack
    <3>3. Open(sess'[d]) = {} /\ sess'[d].status = "offline"
      BY <2>0, <3>2, ClosedRow DEF SameEpisode
    <3>4. QED
      BY <3>1, <3>3 DEF AtWork
  <2>4. CASE GoOffline(d)
    <3>1. Open(sess[d]) = {}
      BY <2>0, <2>4 DEF GoOffline, RowAgrees
    <3>2. tick'.pc = "judge" /\ tick'.cur = d
      BY <2>0, <2>4 DEF GoOffline, Tick
    <3>3. sess'[d].status = "offline"
      BY <2>0, <2>4, <3>1, DownRow DEF GoOffline
    <3>4. QED
      BY <3>2, <3>3 DEF AtWork
  <2>5. CASE StillOffline(d)
    BY <2>0, <2>5 DEF StillOffline, AtWork, Tick
  <2>6. QED
    BY <1>7, <2>1, <2>2, <2>3, <2>4, <2>5
       DEF Device, StillOnline, Restored, Quiet, Alert
<1>8. QED
  BY <1>1, <1>2, <1>3, <1>4, <1>5, <1>6, <1>7 DEF Next, Work
-----------------------------------------------------------------------------
LEMMA EpisodeStep ==
  ASSUME IInv, [Next]_vars, NEW e \in Devices
  PROVE  Episode(e)'
<1>0. TypeOK /\ AtWork /\ Episode(e)
  BY DEF IInv
<1>t. /\ sess[e] \in Row /\ db[e] \in Row /\ story[e] \in Story /\ tick \in Tick
      /\ tick.at \in Time
      /\ sess \in [Devices -> Row] /\ db \in [Devices -> Row]
      /\ story \in [Devices -> Story]
  BY <1>0 DEF TypeOK, Tick
<1>n. /\ story[e].once \in Nat /\ story[e].cuts \in Nat /\ story[e].alerts \in Nat
      /\ story[e].back \in Nat
  BY <1>t DEF Story
<1>1. CASE UNCHANGED vars
  BY <1>0, <1>1 DEF vars, Episode, Halfway
<1>2. CASE StartTick \/ FinishTick
  <2>1. /\ sess' = sess /\ story' = story /\ db' \in {db, sess}
        /\ ~Halfway(e) /\ ~Halfway(e)'
    <3>1. CASE StartTick
      BY <3>1, <1>t DEF StartTick, Halfway, Tick
    <3>2. CASE FinishTick
      BY <3>2 DEF FinishTick, Halfway, Rest
    <3>3. QED
      BY <1>2, <3>1, <3>2
  <2>2. QED
    BY <1>0, <2>1, OthersKeep
<1>3. CASE CutTick
  <2>1. /\ sess'[e] = db[e] /\ db'[e] = db[e] /\ ~Halfway(e)'
        /\ story'[e] = [story[e] EXCEPT !.cuts = @ + 1]
    BY <1>3 DEF CutTick, Halfway, Rest
  <2>2. /\ story'[e].cuts = story[e].cuts + 1 /\ story'[e].once = story[e].once
        /\ story'[e].alerts = story[e].alerts /\ story'[e].back = story[e].back
        /\ story'[e].dark = story[e].dark
    BY <2>1, <1>t DEF Story
  <2>3. QED
    BY <1>0, <1>n, <2>1, <2>2 DEF Episode
<1>4. CASE Advance \/ \E d \in Devices : Configure(d) \/ SetMaintenance(d) \/ Refresh(d)
  <2>1. sess' = sess /\ db' = db /\ story' = story /\ tick' = tick
    BY <1>4 DEF Advance, Configure, SetMaintenance, Refresh
  <2>2. QED
    BY <1>0, <2>1, SMTT(30) DEF Episode, Halfway
<1>5. ASSUME NEW d \in Devices, Device(d)
      PROVE  Episode(e)'
  <2>1. CASE Take(d)
    <3>1. /\ sess' = sess /\ story' = story /\ db' \in {db, sess}
          /\ ~Halfway(e) /\ ~Halfway(e)'
      BY <2>1, <1>t DEF Take, Halfway, Outside, Tick
    <3>2. QED
      BY <1>0, <3>1, OthersKeep
  <2>2. CASE d # e
    <3>1. /\ sess'[e] = sess[e] /\ story'[e] = story[e]
          /\ db'[e] \in {db[e], sess[e]}
      BY <1>5, <1>t, <2>2 DEF Device, Take, StillOnline, ComeBack, Restored,
        GoOffline, StillOffline, Quiet, Alert, MayCommit, Outside
    <3>2. CASE ~Take(d)
      <4>1. tick.cur = d /\ tick.pc # "idle" /\ tick'.cur \in {d, None}
        BY <1>5, <1>t, <3>2 DEF Device, StillOnline, ComeBack, Restored,
          GoOffline, StillOffline, Quiet, Alert, Done, Tick
      <4>2. ~Halfway(e) /\ ~Halfway(e)'
        BY <2>2, <4>1, MonitorAssumption DEF Halfway
      <4>3. QED
        BY <1>0, <3>1, <4>2, OthersKeep
    <3>3. QED
      BY <2>1, <3>2
  <2>3. CASE StillOnline(e)
    <3>1. /\ ~Halfway(e) /\ ~Halfway(e)' /\ sess[e].status # "offline"
          /\ sess'[e] = Up(sess[e]) /\ db' = db /\ story' = story
      BY <2>3, <1>t DEF StillOnline, Halfway, Done, Tick
    <3>2. Open(sess[e]) = {}
      BY <1>0, <3>1 DEF Episode, RowGood, RowAgrees
    <3>3. /\ RowGood(sess'[e]) /\ sess'[e].status = "online" /\ sess'[e].count = 0
      BY <1>t, <3>1, <3>2, UpRow
    <3>4. QED
      BY <1>0, <3>1, <3>3 DEF Episode
  <2>4. CASE ComeBack(e)
    <3>1. /\ tick.pc = "look" /\ ~Halfway(e) /\ Halfway(e)'
          /\ sess[e].status = "offline" /\ sess'[e] = Closed(sess[e], tick.at)
          /\ db'[e] \in {db[e], sess'[e]}
      BY <2>4, <1>t DEF ComeBack, Halfway, MayCommit, Tick
    <3>2. PICK told : /\ story'[e] = Returned(story[e], told)
                      /\ told => sess[e].count > 0
      BY <2>4, <1>t DEF ComeBack, WantsRecovery
    <3>3. /\ story'[e].cuts = story[e].cuts /\ story'[e].once = story[e].once
          /\ story'[e].alerts = story[e].alerts /\ story'[e].dark = None
          /\ story'[e].back = IF told THEN story[e].back + 1 ELSE story[e].back
      BY <1>t, <3>2, StoryType
    <3>4. /\ Open(sess'[e]) = {} /\ SameEpisode(sess'[e], sess[e])
          /\ sess'[e].last = sess[e].last /\ sess'[e].count = sess[e].count
      BY <1>0, <1>t, <3>1, ClosedRow DEF Episode, RowGood
    <3>5. RowGood(sess'[e])
      BY <1>0, <3>4 DEF Episode, RowGood, RowAgrees, SameEpisode
    <3>6. story'[e].back > 0 => story[e].alerts > 0
      BY <1>0, <1>n, <3>2, <3>3 DEF Episode
    <3>7. QED
      BY <1>0, <1>n, <3>1, <3>3, <3>4, <3>5, <3>6 DEF Episode, SameEpisode
  <2>5. CASE Restored(e)
    <3>1. /\ Halfway(e) /\ ~Halfway(e)' /\ sess'[e] = Up(sess[e])
          /\ db'[e] = sess[e] /\ story' = story
      BY <2>5, <1>t DEF Restored, Halfway, Done, Tick
    <3>2. Open(sess[e]) = {}
      BY <1>0, <2>5 DEF Restored, AtWork
    <3>3. RowGood(sess'[e]) /\ sess'[e].status = "online" /\ sess'[e].count = 0
      BY <1>t, <3>1, <3>2, UpRow
    <3>4. QED
      BY <1>0, <3>1, <3>3 DEF Episode
  <2>6. CASE GoOffline(e)
    <3>1. /\ ~Halfway(e)' /\ sess[e].status # "offline"
          /\ sess'[e] = Down(sess[e], tick.at) /\ db'[e] = sess'[e]
          /\ story'[e] = [NoStory EXCEPT !.dark = tick.at]
      BY <2>6, <1>t DEF GoOffline, Halfway, Tick
    <3>2. Open(sess[e]) = {}
      BY <1>0, <3>1 DEF Episode, RowGood, RowAgrees
    <3>3. /\ RowGood(sess'[e]) /\ Open(sess'[e]) # {}
          /\ sess'[e].status = "offline" /\ sess'[e].since = tick.at
          /\ sess'[e].last = None /\ sess'[e].count = 0
      BY <1>t, <3>1, <3>2, DownRow
    <3>4. /\ story'[e].cuts = 0 /\ story'[e].once = 0 /\ story'[e].back = 0
          /\ story'[e].alerts = 0 /\ story'[e].dark = tick.at
      BY <3>1 DEF NoStory
    <3>5. QED
      BY <3>1, <3>3, <3>4 DEF Episode
  <2>7. CASE StillOffline(e)
    <3>1. /\ ~Halfway(e) /\ ~Halfway(e)' /\ sess[e].status = "offline"
          /\ sess' = sess /\ db' = db
          /\ story'[e] = [story[e] EXCEPT !.dark = IF @ = None THEN tick.at ELSE @]
      BY <2>7, <1>t DEF StillOffline, Halfway, Tick
    <3>2. /\ story'[e].cuts = story[e].cuts /\ story'[e].once = story[e].once
          /\ story'[e].alerts = story[e].alerts /\ story'[e].back = story[e].back
          /\ story[e].dark # None => story'[e].dark = story[e].dark
      BY <1>t, <3>1 DEF Story
    <3>3. QED
      BY <1>0, <3>1, <3>2 DEF Episode, RowGood
  <2>8. CASE Quiet(e)
    <3>1. /\ ~Halfway(e) /\ ~Halfway(e)'
          /\ sess' = sess /\ db' = db /\ story' = story
      BY <2>8, <1>t DEF Quiet, Halfway, Done, Tick
    <3>2. QED
      BY <1>0, <3>1 DEF Episode
  <2>9. CASE Alert(e)
    <3>1. /\ ~Halfway(e) /\ ~Halfway(e)' /\ sess[e].status = "offline"
          /\ sess'[e] = Alerted(sess[e], tick.at) /\ db'[e] \in {db[e], sess[e]}
          /\ story'[e] = Told(story[e], Read(e).set.mode)
      BY <1>0, <2>9, <1>t DEF Alert, AtWork, Halfway, Done, MayCommit, Tick
    <3>2. Read(e).set.mode = "once" => sess[e].last = None
      BY <2>9 DEF Alert, WantsAlert, ShouldAlert
    <3>3. /\ story'[e].cuts = story[e].cuts /\ story'[e].back = story[e].back
          /\ story'[e].alerts = story[e].alerts + 1
          /\ story'[e].dark = story[e].dark
          /\ story'[e].once = IF Read(e).set.mode = "once" THEN story[e].once + 1
                                                          ELSE story[e].once
      BY <1>t, <3>1, StoryType
    <3>4. /\ RowGood(sess'[e]) /\ Open(sess'[e]) = Open(sess[e])
          /\ SameEpisode(sess'[e], sess[e]) /\ sess'[e].last = tick.at
      BY <1>0, <1>t, <3>1, AlertedRow DEF Episode
    <3>5. tick.at # None
      BY <1>t, MonitorAssumption DEF Time
    <3>6. story'[e].once <= 1 + story'[e].cuts
      BY <1>0, <1>n, <3>1, <3>2, <3>3 DEF Episode
    <3>7. story'[e].alerts > 0
      BY <1>n, <3>3
    <3>8. QED
      BY <1>0, <3>1, <3>3, <3>4, <3>5, <3>6, <3>7 DEF Episode, SameEpisode
  <2>10. QED
    BY <1>5, <2>1, <2>2, <2>3, <2>4, <2>5, <2>6, <2>7, <2>8, <2>9 DEF Device
<1>6. QED
  BY <1>1, <1>2, <1>3, <1>4, <1>5 DEF Next, Work
-----------------------------------------------------------------------------
LEMMA Invariant == Spec => []IInv
<1>1. Init => IInv
  BY InitInv
<1>2. IInv /\ [Next]_vars => IInv'
  <2> SUFFICES ASSUME IInv, [Next]_vars PROVE IInv'
    OBVIOUS
  <2>1. TypeOK' /\ AtWork'
    BY TypeStep, AtWorkStep
  <2>2. \A d \in Devices : Episode(d)'
    BY EpisodeStep
  <2>3. QED
    BY <2>1, <2>2 DEF IInv
<1>3. QED
  BY <1>1, <1>2, PTL DEF Spec

\* Every reachable state of the monitoring is well typed, for any devices,
\* settings and bounds.
THEOREM TypeCorrect == Spec => []TypeOK
<1>1. IInv => TypeOK
  BY DEF IInv
<1>2. QED
  BY <1>1, Invariant, PTL

\* What the availability report adds up agrees with the status: at most one
\* outage of a device is open, only while it is offline and from that moment, and
\* one is open while it is offline unless a tick was cut short.
THEOREM HistorySound == Spec => []HistoryAgrees
<1>1. IInv => HistoryAgrees
  BY DEF IInv, Episode, RowGood, HistoryAgrees
<1>2. QED
  BY <1>1, Invariant, PTL

\* In the mode "once" an outage is reported once, and again at most once for
\* each tick that was cut short in it.
THEOREM AlertedOnce == Spec => []OncePerOutage
<1>1. IInv => OncePerOutage
  BY DEF IInv, Episode, OncePerOutage
<1>2. QED
  BY <1>1, Invariant, PTL

\* Nobody is told that a device is back who was not told that it was gone.
THEOREM RecoveryJustified == Spec => []RecoveryAnswersAlert
<1>1. IInv => RecoveryAnswersAlert
  BY SMTT(30) DEF IInv, Episode, RecoveryAnswersAlert
<1>2. QED
  BY <1>1, Invariant, PTL

\* The step that sends an alert for e.
LEMMA OnlyAlertCounts ==
  ASSUME IInv, [Next]_vars, NEW e \in Devices,
         story'[e].alerts > story[e].alerts
  PROVE  Alert(e)
<1>0. /\ TypeOK /\ story \in [Devices -> Story] /\ story[e] \in Story
      /\ story[e].alerts \in Nat
  BY DEF IInv, TypeOK, Story
<1>1. CASE UNCHANGED <<story>>
  BY <1>0, <1>1
<1>2. CASE CutTick
  <2>1. story'[e].alerts = story[e].alerts
    BY <1>0, <1>2 DEF CutTick, Story
  <2>2. QED
    BY <1>0, <2>1
<1>3. ASSUME NEW d \in Devices,
             ComeBack(d) \/ GoOffline(d) \/ StillOffline(d) \/ Alert(d)
      PROVE  Alert(e)
  <2>1. CASE d # e
    <3>1. story'[e] = story[e]
      BY <1>0, <1>3, <2>1 DEF ComeBack, GoOffline, StillOffline, Alert
    <3>2. QED
      BY <1>0, <3>1
  <2>2. CASE ComeBack(e)
    <3>1. PICK told : story'[e] = Returned(story[e], told)
      BY <1>0, <2>2 DEF ComeBack
    <3>2. story'[e].alerts = story[e].alerts
      BY <1>0, <3>1, StoryType
    <3>3. QED
      BY <1>0, <3>2
  <2>3. CASE GoOffline(e)
    <3>1. story'[e].alerts = 0
      BY <1>0, <2>3 DEF GoOffline, NoStory
    <3>2. QED
      BY <1>0, <3>1
  <2>4. CASE StillOffline(e)
    <3>1. story'[e].alerts = story[e].alerts
      BY <1>0, <2>4 DEF StillOffline, Story
    <3>2. QED
      BY <1>0, <3>1
  <2>5. QED
    BY <1>3, <2>1, <2>2, <2>3, <2>4
<1>4. QED
  BY <1>1, <1>2, <1>3 DEF Next, Work, Device, vars, StartTick, FinishTick, Advance,
     Configure, SetMaintenance, Refresh, Take, StillOnline, Restored, Quiet

\* An alert is sent only when the ticks have seen the device offline for its
\* threshold and never online in it, unless a tick was cut short.
THEOREM AlertsDeserved == Spec => AlertsAfterThreshold
<1>1. ASSUME IInv, [Next]_vars, NEW e \in Devices,
             story'[e].alerts > story[e].alerts, story[e].cuts = 0
      PROVE  /\ story[e].dark # None
             /\ tick.at - story[e].dark >= Read(e).set.threshold
  <2>1. Alert(e)
    BY <1>1, OnlyAlertCounts
  <2>2. tick.pc = "judge" /\ tick.cur = e
        /\ PastGrace(sess[e], Read(e), tick.at)
    BY <2>1 DEF Alert, WantsAlert
  <2>3. sess[e].status = "offline" /\ ~Halfway(e)
    BY <1>1, <2>2 DEF IInv, AtWork, Halfway
  <2>4. story[e].dark = sess[e].since /\ sess[e].since # None
    BY <1>1, <2>3 DEF IInv, Episode, RowGood
  <2>5. QED
    BY <2>2, <2>4 DEF PastGrace
<1>2. IInv /\ [Next]_vars =>
        [\A d \in Devices :
           story'[d].alerts > story[d].alerts /\ story[d].cuts = 0 =>
             /\ story[d].dark # None
             /\ tick.at - story[d].dark >= Read(d).set.threshold]_vars
  BY <1>1
<1>3. QED
  BY <1>2, Invariant, PTL DEF Spec, AlertsAfterThreshold
=============================================================================
