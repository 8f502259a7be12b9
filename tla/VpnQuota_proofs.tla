-------------------------- MODULE VpnQuota_proofs --------------------------
(***************************************************************************)
(* Proofs about VpnQuota, for any set of clients, quotas and faults.       *)
(***************************************************************************)
EXTENDS VpnQuota, TLAPS

\* The poller's move to the next session keeps its record well formed.
LEMMA PollGoesOnType ==
  ASSUME TypeOK, NEW p \in Poll, PollGoesOn(p)
  PROVE  poll' \in Poll /\ soft' \subseteq Client
  BY QuotaAssumption DEF TypeOK, PollGoesOn, NoPoll, Poll

\* Charging onto a row gives a row.
LEMMA AddUsageType ==
  ASSUME TypeOK, NEW c \in Client, NEW p \in Nat, NEW n \in Nat,
         AddUsage(c, p, n)
  PROVE  usage' \in [Client -> Row]
  BY DEF TypeOK, AddUsage, Charged, Row

\* Closing a session keeps the types of what it changes.
LEMMA EndSessionType ==
  ASSUME TypeOK, NEW c \in Client, NEW again \in BOOLEAN, EndSession(c, again)
  PROVE  /\ live' \subseteq Client /\ clean' \subseteq Client
         /\ script' \in Script
  BY QuotaAssumption DEF TypeOK, EndSession, NoScript, Script

\* TypeOK together with WhoIsKnown is inductive.
LEMMA TypeStep == TypeOK /\ WhoIsKnown /\ [Next]_vars => TypeOK' /\ WhoIsKnown'
<1> SUFFICES ASSUME TypeOK, WhoIsKnown, [Next]_vars PROVE TypeOK' /\ WhoIsKnown'
  OBVIOUS
<1> USE QuotaAssumption
<1>1. ASSUME NEW c \in Client, Traffic(c) PROVE TypeOK' /\ WhoIsKnown'
  BY <1>1 DEF TypeOK, WhoIsKnown, Traffic
<1>2. ASSUME NEW c \in Client, Disconnect(c) PROVE TypeOK' /\ WhoIsKnown'
  BY <1>2, EndSessionType DEF TypeOK, WhoIsKnown, Disconnect, EndSession, NoScript
<1>3. ASSUME NEW c \in Client, Connect(c) PROVE TypeOK' /\ WhoIsKnown'
  <2>1. CASE EndSession(c, TRUE)
    BY <1>3, <2>1, EndSessionType DEF TypeOK, WhoIsKnown, Connect, EndSession, NoScript
  <2>2. CASE ~EndSession(c, TRUE)
    BY <1>3, <2>2 DEF TypeOK, WhoIsKnown, Connect, NoScript, Script
  <2>3. QED
    BY <2>1, <2>2
<1>4. ASSUME NEW c \in Client, PollPolicy(c) PROVE TypeOK' /\ WhoIsKnown'
  <2> DEFINE rest == [poll EXCEPT !.todo = @ \ {c}]
  <2>1. rest \in Poll
    BY DEF TypeOK, Poll
  <2>2. CASE /\ poll' = [rest EXCEPT !.phase = "usage", !.who = c,
                                     !.quota = policy[c].quota]
             /\ UNCHANGED soft
    <3>1. poll' \in Poll /\ poll'.who = c
      BY <2>1, <2>2 DEF TypeOK, Poll, Policy
    <3>2. QED
      BY <1>4, <2>2, <3>1 DEF TypeOK, WhoIsKnown, PollPolicy
  <2>3. CASE PollGoesOn(rest)
    <3>1. poll' \in Poll /\ soft' \subseteq Client
      BY <2>1, <2>3, PollGoesOnType
    <3>2. poll'.phase \in {"idle", "policy"}
      BY <2>1, <2>3 DEF PollGoesOn, NoPoll, Poll
    <3>3. QED
      BY <1>4, <3>1, <3>2 DEF TypeOK, WhoIsKnown, PollPolicy
  <2>4. QED
    BY <1>4, <2>2, <2>3 DEF PollPolicy
<1>5. ASSUME NEW c \in Client, SetPolicy(c) PROVE TypeOK' /\ WhoIsKnown'
  <2>1. PICK p \in Policy :
          /\ policy' = [policy EXCEPT ![c] = p]
          /\ script' = IF script.who = c /\ p.quota # policy[c].quota
                       THEN [script EXCEPT !.read = FALSE] ELSE script
          /\ clean' \subseteq clean /\ soft' \subseteq soft
    BY <1>5 DEF SetPolicy
  <2>2. /\ script' \in Script
        /\ script'.kind = script.kind /\ script'.who = script.who
    BY <2>1 DEF TypeOK, Script
  <2>3. policy' \in [Client -> Policy]
    BY <2>1 DEF TypeOK
  <2>4. edits' \in Nat /\ UNCHANGED <<live, bytes, usage, default, month, poll>>
    BY <1>5 DEF TypeOK, SetPolicy, Edit
  <2>5. QED
    BY <2>1, <2>2, <2>3, <2>4 DEF TypeOK, WhoIsKnown
<1>6. ASSUME NEW c \in Client, ResetUsage(c) PROVE TypeOK' /\ WhoIsKnown'
  BY <1>6 DEF TypeOK, WhoIsKnown, ResetUsage, Edit, Row
<1>7. CASE DisconnectPeriod
  BY <1>7 DEF TypeOK, WhoIsKnown, DisconnectPeriod, AfterDisconnect, NoScript, Script
<1>8. CASE DisconnectCharge
  <2>1. usage' \in [Client -> Row]
    BY <1>8, AddUsageType DEF TypeOK, WhoIsKnown, DisconnectCharge, Script
  <2>2. QED
    BY <1>8, <2>1 DEF TypeOK, WhoIsKnown, DisconnectCharge, AfterDisconnect, NoScript, Script
<1>9. CASE GatePolicy
  <2>1. PICK ok \in BOOLEAN :
          script' = [script EXCEPT !.kind = "admit", !.read = ok,
                       !.quota = IF ok THEN policy[script.who].quota ELSE 0]
    BY <1>9 DEF GatePolicy
  <2>2. policy[script.who].quota \in Quota
    BY <1>9 DEF TypeOK, WhoIsKnown, GatePolicy, Policy
  <2>3. script' \in Script /\ script'.who = script.who
    BY <2>1, <2>2 DEF TypeOK, Script
  <2>4. QED
    BY <1>9, <2>3 DEF TypeOK, WhoIsKnown, GatePolicy
<1>10. CASE GateUsage
  BY <1>10 DEF TypeOK, WhoIsKnown, GateUsage, NoScript, Script
<1>11. CASE ServerCrash
  BY <1>11 DEF TypeOK, WhoIsKnown, ServerCrash, NoScript, Script
<1>12. CASE PollStatus
  <2>1. poll' \in Poll /\ poll'.phase = "defaults"
    BY <1>12 DEF TypeOK, PollStatus, NoPoll, Poll
  <2>2. QED
    BY <1>12, <2>1 DEF TypeOK, WhoIsKnown, PollStatus
<1>13. CASE PollDefaults
  <2>1. PICK d \in {"soft", "hard"} :
          poll' = [poll EXCEPT !.phase = "policy", !.default = d]
    BY <1>13 DEF TypeOK, PollDefaults
  <2>2. poll' \in Poll /\ poll'.phase = "policy"
    BY <2>1 DEF TypeOK, Poll
  <2>3. QED
    BY <1>13, <2>2 DEF TypeOK, WhoIsKnown, PollDefaults
<1>14. CASE PollUsage
  <2>1. CASE PollGoesOn(poll)
    <3>1. poll' \in Poll /\ soft' \subseteq Client
      BY <2>1, PollGoesOnType DEF TypeOK
    <3>2. poll'.phase \in {"idle", "policy"}
      BY <2>1 DEF TypeOK, PollGoesOn, NoPoll, Poll
    <3>3. QED
      BY <1>14, <3>1, <3>2 DEF TypeOK, WhoIsKnown, PollUsage
  <2>2. CASE poll' = [poll EXCEPT !.phase = "kill"] /\ UNCHANGED soft
    BY <1>14, <2>2 DEF TypeOK, WhoIsKnown, PollUsage, Poll
  <2>3. QED
    BY <1>14, <2>1, <2>2 DEF PollUsage
<1>15. CASE PollKill
  <2>1. poll' \in Poll /\ soft' \subseteq Client
    BY <1>15, PollGoesOnType DEF TypeOK, PollKill
  <2>2. poll'.phase \in {"idle", "policy"}
    BY <1>15 DEF TypeOK, PollKill, PollGoesOn, NoPoll, Poll
  <2>3. CASE EndSession(poll.who, FALSE)
    BY <1>15, <2>1, <2>2, <2>3, EndSessionType
    DEF TypeOK, WhoIsKnown, PollKill, EndSession, NoScript
  <2>4. CASE ~EndSession(poll.who, FALSE)
    BY <1>15, <2>1, <2>2, <2>4 DEF TypeOK, WhoIsKnown, PollKill
  <2>5. QED
    BY <2>3, <2>4
<1>16. CASE PollKillFails
  <2>1. poll' \in Poll /\ soft' \subseteq Client
    BY <1>16, PollGoesOnType DEF TypeOK, PollKillFails
  <2>2. poll'.phase \in {"idle", "policy"}
    BY <1>16 DEF TypeOK, PollKillFails, PollGoesOn, NoPoll, Poll
  <2>3. QED
    BY <1>16, <2>1, <2>2 DEF TypeOK, WhoIsKnown, PollKillFails
<1>17. CASE SetDefault
  BY <1>17 DEF TypeOK, WhoIsKnown, SetDefault, Edit
<1>18. CASE NewMonth
  BY <1>18 DEF TypeOK, WhoIsKnown, NewMonth
<1>19. CASE UNCHANGED vars
  BY <1>19 DEF TypeOK, WhoIsKnown, vars
<1>20. QED
  BY <1>1, <1>2, <1>3, <1>4, <1>5, <1>6, <1>7, <1>8, <1>9, <1>10, <1>11,
     <1>12, <1>13, <1>14, <1>15, <1>16, <1>17, <1>18, <1>19 DEF Next

-----------------------------------------------------------------------------
\* add_usage never meets a row later than the month it took.
LEMMA PeriodsStep ==
  TypeOK /\ WhoIsKnown /\ PeriodsOrdered /\ [Next]_vars => PeriodsOrdered'
<1> SUFFICES ASSUME TypeOK, WhoIsKnown, PeriodsOrdered, [Next]_vars
             PROVE  PeriodsOrdered'
  OBVIOUS
<1> USE QuotaAssumption DEF PeriodsOrdered
<1>1. ASSUME NEW c \in Client, Disconnect(c) \/ Connect(c) PROVE PeriodsOrdered'
  <2>1. script'.kind \in {"period", "gate"} /\ UNCHANGED <<usage, month>>
    BY <1>1 DEF Disconnect, Connect, EndSession, NoScript
  <2>2. QED
    BY <2>1
<1>2. ASSUME NEW c \in Client, SetPolicy(c) PROVE PeriodsOrdered'
  <2>1. UNCHANGED <<usage, month>>
    BY <1>2 DEF SetPolicy
  <2>2. /\ script'.kind = script.kind /\ script'.who = script.who
        /\ script'.period = script.period
    BY <1>2 DEF TypeOK, Script, SetPolicy
  <2>3. QED
    BY <2>1, <2>2
<1>3. ASSUME NEW c \in Client, ResetUsage(c) PROVE PeriodsOrdered'
  BY <1>3 DEF TypeOK, Row, Script, ResetUsage, WhoIsKnown
<1>4. CASE DisconnectPeriod
  BY <1>4 DEF TypeOK, Script, Row, WhoIsKnown, DisconnectPeriod, AfterDisconnect, NoScript
<1>5. CASE DisconnectCharge
  <2>1. /\ script.who \in Client /\ script.period \in Nat /\ script.period <= month
        /\ month' = month /\ month \in Nat /\ script'.kind # "charge"
    BY <1>5 DEF TypeOK, Script, WhoIsKnown, DisconnectCharge, AfterDisconnect, NoScript
  <2>2. \A d \in Client : usage'[d].period \in {usage[d].period, script.period, 0}
    BY <1>5, <2>1 DEF TypeOK, Row, DisconnectCharge, AddUsage, Charged
  <2>3. QED
    BY <2>1, <2>2 DEF TypeOK, Row
<1>6. CASE GatePolicy \/ GateUsage \/ ServerCrash
  <2>1. UNCHANGED <<usage, month>>
    BY <1>6 DEF GatePolicy, GateUsage, ServerCrash
  <2>2. ASSUME GatePolicy PROVE script'.kind = "admit"
    BY <2>2 DEF TypeOK, Script, GatePolicy
  <2>3. ASSUME GateUsage \/ ServerCrash PROVE script'.kind = "idle"
    BY <2>3 DEF GateUsage, ServerCrash, NoScript
  <2>4. QED
    BY <1>6, <2>1, <2>2, <2>3
<1>7. CASE NewMonth
  BY <1>7 DEF TypeOK, Row, Script, WhoIsKnown, NewMonth
<1>8. CASE PollKill
  BY <1>8 DEF PollKill, EndSession, NoScript
<1>9. CASE UNCHANGED <<usage, month, script>>
  BY <1>9
<1>10. ASSUME NEW c \in Client, Traffic(c) \/ PollPolicy(c)
       PROVE  UNCHANGED <<usage, month, script>>
  BY <1>10 DEF Traffic, PollPolicy
<1>11. ASSUME PollStatus \/ PollDefaults \/ PollUsage \/ PollKillFails \/ SetDefault
       PROVE  UNCHANGED <<usage, month, script>>
  BY <1>11 DEF PollStatus, PollDefaults, PollUsage, PollKillFails, SetDefault
<1>12. QED
  BY <1>1, <1>2, <1>3, <1>4, <1>5, <1>6, <1>7, <1>8, <1>9, <1>10, <1>11
  DEF Next, vars

\* What the run knows of c's policy is no harder than what c had all along.
LEMMA SoftStep ==
  TypeOK /\ WhoIsKnown /\ SoftHistory /\ [Next]_vars => SoftHistory'
<1> SUFFICES ASSUME TypeOK, WhoIsKnown, SoftHistory, [Next]_vars
             PROVE  SoftHistory'
  OBVIOUS
<1> USE QuotaAssumption DEF SoftHistory
<1>1. ASSUME NEW p \in Poll, PollGoesOn(p), UNCHANGED policy PROVE SoftHistory'
  BY <1>1 DEF PollGoesOn, NoPoll, Poll
<1>2. ASSUME NEW c \in Client, PollPolicy(c) PROVE SoftHistory'
  <2> DEFINE rest == [poll EXCEPT !.todo = @ \ {c}]
  <2>1. rest \in Poll
    BY DEF TypeOK, Poll
  <2>2. CASE /\ policy[c].quota # 0 /\ Effective(policy[c]) = "hard"
             /\ poll' = [rest EXCEPT !.phase = "usage", !.who = c,
                                     !.quota = policy[c].quota]
             /\ UNCHANGED soft
    <3>1. c \notin soft
      BY <2>2 DEF SoftNow, Effective
    <3>2. poll'.who = c
      BY <2>1, <2>2 DEF Poll
    <3>3. QED
      BY <1>2, <2>2, <3>1, <3>2 DEF PollPolicy
  <2>3. CASE PollGoesOn(rest)
    BY <1>1, <1>2, <2>1, <2>3 DEF PollPolicy
  <2>4. QED
    BY <1>2, <2>2, <2>3 DEF PollPolicy
<1>3. ASSUME NEW c \in Client, SetPolicy(c) PROVE SoftHistory'
  <2>1. PICK p \in Policy :
          /\ policy' = [policy EXCEPT ![c] = p]
          /\ soft' = IF SoftNow(p) THEN soft ELSE soft \ {c}
    BY <1>3 DEF SetPolicy
  <2>2. \A d \in soft' : SoftNow(policy'[d])
    BY <2>1 DEF TypeOK
  <2>3. UNCHANGED poll /\ soft' \subseteq soft
    BY <1>3, <2>1 DEF SetPolicy
  <2>4. QED
    BY <2>2, <2>3
<1>4. CASE PollStatus
  BY <1>4 DEF TypeOK, PollStatus, NoPoll
<1>5. CASE PollDefaults
  BY <1>5 DEF TypeOK, Poll, PollDefaults
<1>6. CASE PollUsage
  <2>1. PollGoesOn(poll) \/ (poll' = [poll EXCEPT !.phase = "kill"] /\ UNCHANGED soft)
    BY <1>6 DEF PollUsage
  <2>2. QED
    BY <1>1, <1>6, <2>1 DEF TypeOK, Poll, PollUsage
<1>7. CASE PollKill \/ PollKillFails
  BY <1>1, <1>7 DEF TypeOK, PollKill, PollKillFails, EndSession
<1>8. CASE UNCHANGED <<policy, poll, soft>>
  BY <1>8
<1>9. ASSUME NEW c \in Client,
             Traffic(c) \/ Disconnect(c) \/ Connect(c) \/ ResetUsage(c)
      PROVE  UNCHANGED <<policy, poll, soft>>
  BY <1>9 DEF Traffic, Disconnect, Connect, EndSession, ResetUsage
<1>10. ASSUME \/ DisconnectPeriod \/ DisconnectCharge \/ GatePolicy \/ GateUsage
              \/ ServerCrash \/ SetDefault \/ NewMonth
       PROVE  UNCHANGED <<policy, poll, soft>>
  BY <1>10 DEF DisconnectPeriod, DisconnectCharge, GatePolicy, GateUsage,
               ServerCrash, SetDefault, NewMonth
<1>11. QED
  BY <1>2, <1>3, <1>4, <1>5, <1>6, <1>7, <1>8, <1>9, <1>10 DEF Next, vars

\* What admission rests on: clean sessions are live, the connect script's quota
\* is the current one, and clean sessions are below their quota.
Admission == clean \subseteq live /\ GateCurrent /\ ConnectedUnderQuota

\* A quota is a natural number.
LEMMA QuotaType ==
  ASSUME TypeOK, NEW c \in Client
  PROVE  policy[c].quota \in Nat
<1>1. policy[c] \in Policy
  BY DEF TypeOK
<1>2. policy[c].quota \in Quota
  BY <1>1 DEF Policy
<1>3. QED
  BY <1>2, QuotaAssumption

\* Nothing is charged to a client with a session, and only an edit of its quota
\* that takes it out of `clean' can put it over.
LEMMA AdmissionStep ==
  TypeOK /\ WhoIsKnown /\ PeriodsOrdered /\ Admission /\ [Next]_vars => Admission'
<1> SUFFICES ASSUME TypeOK, WhoIsKnown, PeriodsOrdered, Admission, [Next]_vars
             PROVE  Admission'
  OBVIOUS
<1> USE QuotaAssumption DEF Admission
<1>1. ASSUME NEW c \in Client, NEW again \in BOOLEAN, EndSession(c, again),
             UNCHANGED <<usage, policy, month>>
      PROVE  Admission'
  <2>1. script'.kind = "period"
    BY <1>1 DEF EndSession, NoScript
  <2>2. live' = live \ {c} /\ clean' = clean \ {c}
    BY <1>1 DEF EndSession
  <2>3. QED
    BY <1>1, <2>1, <2>2 DEF TypeOK, GateCurrent, ConnectedUnderQuota, Used, MonthUsage
<1>2. ASSUME NEW c \in Client, Disconnect(c) PROVE Admission'
  BY <1>1, <1>2 DEF Disconnect, EndSession
<1>3. ASSUME NEW c \in Client, Connect(c) PROVE Admission'
  <2>1. CASE EndSession(c, TRUE)
    BY <1>1, <2>1 DEF EndSession
  <2>2. CASE ~EndSession(c, TRUE)
    <3>1. script'.kind = "gate"
      BY <1>3, <2>2 DEF Connect, NoScript
    <3>2. UNCHANGED <<live, clean, policy, usage, month>>
      BY <1>3, <2>2 DEF Connect
    <3>3. QED
      BY <3>1, <3>2 DEF TypeOK, GateCurrent, ConnectedUnderQuota, Used, MonthUsage
  <2>3. QED
    BY <2>1, <2>2
<1>4. CASE PollKill
  BY <1>1, <1>4 DEF PollKill, EndSession, TypeOK, GateCurrent, ConnectedUnderQuota,
                    Used, MonthUsage, WhoIsKnown
<1>5. ASSUME NEW c \in Client, SetPolicy(c) PROVE Admission'
  <2>1. PICK p \in Policy :
          /\ policy' = [policy EXCEPT ![c] = p]
          /\ clean' = IF p.quota = policy[c].quota THEN clean ELSE clean \ {c}
          /\ script' = IF script.who = c /\ p.quota # policy[c].quota
                       THEN [script EXCEPT !.read = FALSE] ELSE script
          /\ UNCHANGED <<live, usage, month>>
    BY <1>5 DEF SetPolicy
  <2>2. \A d \in clean' : policy'[d].quota = policy[d].quota
    BY <2>1 DEF TypeOK
  <2>3. ConnectedUnderQuota' /\ clean' \subseteq live'
    BY <2>1, <2>2 DEF TypeOK, ConnectedUnderQuota, Used, MonthUsage
  <2>4. GateCurrent'
    BY <2>1 DEF TypeOK, Script, GateCurrent, WhoIsKnown
  <2>5. QED
    BY <2>3, <2>4
<1>6. ASSUME NEW c \in Client, ResetUsage(c) PROVE Admission'
  <2>1. \A d \in Client : Used(d)' \in {Used(d), 0}
    BY <1>6 DEF TypeOK, Row, ResetUsage, Used, MonthUsage
  <2>2. QED
    BY <1>6, <2>1, QuotaType DEF TypeOK, ResetUsage, GateCurrent, ConnectedUnderQuota
<1>7. CASE DisconnectPeriod
  <2>1. script'.kind \in {"charge", "gate", "idle"}
    BY <1>7 DEF TypeOK, Script, DisconnectPeriod, AfterDisconnect, NoScript
  <2>2. QED
    BY <1>7, <2>1 DEF DisconnectPeriod, GateCurrent, ConnectedUnderQuota, Used, MonthUsage
<1>8. CASE DisconnectCharge
  <2>1. script'.kind \in {"gate", "idle"} /\ script.who \in Client \ live
    BY <1>8 DEF TypeOK, Script, WhoIsKnown, DisconnectCharge, AfterDisconnect, NoScript
  <2>2. UNCHANGED <<live, clean, policy, month>>
    BY <1>8 DEF DisconnectCharge
  <2>3. \A d \in live : usage'[d] = usage[d] \/ usage'[d].period = 0
    BY <1>8, <2>1 DEF TypeOK, DisconnectCharge, AddUsage
  <2>4. \A d \in live : Used(d)' \in {Used(d), 0}
    BY <2>2, <2>3 DEF TypeOK, Used, MonthUsage
  <2>5. \A d \in live \cap clean : policy[d].quota = 0 \/ Used(d)' < policy[d].quota
    BY <2>4, QuotaType DEF TypeOK, ConnectedUnderQuota
  <2>6. QED
    BY <2>1, <2>2, <2>5 DEF GateCurrent, ConnectedUnderQuota
<1>9. CASE GatePolicy
  <2>1. PICK ok \in BOOLEAN :
          script' = [script EXCEPT !.kind = "admit", !.read = ok,
                       !.quota = IF ok THEN policy[script.who].quota ELSE 0]
    BY <1>9 DEF GatePolicy
  <2>2. GateCurrent'
    BY <1>9, <2>1 DEF GatePolicy, GateCurrent, TypeOK, Script
  <2>3. QED
    BY <1>9, <2>2 DEF GatePolicy, ConnectedUnderQuota, Used, MonthUsage
<1>10. CASE GateUsage
  <2> DEFINE c == script.who
  <2>1. c \in Client /\ script'.kind = "idle" /\ UNCHANGED <<usage, policy, month>>
    BY <1>10 DEF TypeOK, Script, WhoIsKnown, GateUsage, NoScript
  <2>2. CASE UNCHANGED <<live, clean>>
    BY <2>1, <2>2 DEF GateCurrent, ConnectedUnderQuota, Used, MonthUsage
  <2>3. CASE ~UNCHANGED <<live, clean>>
    <3>1. PICK used \in UsageRead(c) :
            /\ script.quota = 0 \/ used < script.quota
            /\ live' = live \cup {c}
            /\ clean' = IF script.read /\ used = Used(c)
                        THEN clean \cup {c} ELSE clean
      BY <1>10, <2>3 DEF GateUsage
    <3>2. c \notin live /\ c \notin clean
      BY <1>10 DEF WhoIsKnown, GateUsage
    <3>3. c \in clean' => policy[c].quota = 0 \/ Used(c) < policy[c].quota
      BY <1>10, <3>1, <3>2 DEF GateCurrent, GateUsage
    <3>4. QED
      BY <2>1, <3>1, <3>2, <3>3 DEF GateCurrent, ConnectedUnderQuota, Used, MonthUsage
  <2>4. QED
    BY <2>2, <2>3
<1>11. CASE ServerCrash
  BY <1>11 DEF ServerCrash, NoScript, GateCurrent, ConnectedUnderQuota
<1>12. CASE NewMonth
  <2>1. \A d \in Client : Used(d)' = 0
    BY <1>12 DEF TypeOK, Row, PeriodsOrdered, NewMonth, Used, MonthUsage
  <2>2. \A d \in Client : policy[d].quota = 0 \/ 0 < policy[d].quota
    BY QuotaType
  <2>3. QED
    BY <1>12, <2>1, <2>2 DEF TypeOK, NewMonth, GateCurrent, ConnectedUnderQuota
<1>13. CASE UNCHANGED <<live, clean, policy, usage, month, script>>
  BY <1>13 DEF GateCurrent, ConnectedUnderQuota, Used, MonthUsage
<1>14. ASSUME NEW c \in Client, Traffic(c) \/ PollPolicy(c)
       PROVE  UNCHANGED <<live, clean, policy, usage, month, script>>
  BY <1>14 DEF Traffic, PollPolicy
<1>15. ASSUME PollStatus \/ PollDefaults \/ PollUsage \/ PollKillFails \/ SetDefault
       PROVE  UNCHANGED <<live, clean, policy, usage, month, script>>
  BY <1>15 DEF PollStatus, PollDefaults, PollUsage, PollKillFails, SetDefault
<1>16. QED
  BY <1>2, <1>3, <1>4, <1>5, <1>6, <1>7, <1>8, <1>9, <1>10, <1>11, <1>12,
     <1>13, <1>14, <1>15 DEF Next, vars

LEMMA InitInv == Init => IInv
  BY QuotaAssumption
  DEF Init, IInv, TypeOK, WhoIsKnown, PeriodsOrdered, GateCurrent, SoftHistory,
      ConnectedUnderQuota, NoScript, NoPoll, Script, Poll, Row, Policy, Mode

LEMMA StepInv == IInv /\ [Next]_vars => IInv'
  BY TypeStep, PeriodsStep, SoftStep, AdmissionStep DEF IInv, Admission

\* Every variable of the model keeps its type.
THEOREM TypeCorrect == Spec => []TypeOK
<1>1. IInv => TypeOK
  BY DEF IInv
<1>2. QED
  BY InitInv, StepInv, <1>1, PTL DEF Spec

\* A session admitted on what the files said stays below its quota's bar: no
\* order of charges, evictions, resets and months lets an exhausted client in.
THEOREM AdmissionSound == Spec => []ConnectedUnderQuota
<1>1. IInv => ConnectedUnderQuota
  BY DEF IInv
<1>2. QED
  BY InitInv, StepInv, <1>1, PTL DEF Spec

\* The poller never kills a client that was soft during the whole run.
THEOREM SoftSpared == Spec => []SoftClientSpared
<1>1. IInv => SoftClientSpared
  BY DEF IInv, SoftHistory, SoftClientSpared
<1>2. QED
  BY InitInv, StepInv, <1>1, PTL DEF Spec

-----------------------------------------------------------------------------
(* The rows of client_usage.json implement the eager ledger. *)

Owed == [c \in Client |-> Used(c)]

\* A charge adds the session to the month it is charged to; a charge taken
\* before the month turned, and only that one, disappears from the ledger.
LEMMA ChargeRefines ==
  ASSUME TypeOK, WhoIsKnown, PeriodsOrdered, DisconnectCharge
  PROVE  Ledger!Next
<1> SUFFICES ASSUME NEW c \in Client, c = script.who,
                    NEW p \in Nat, p = script.period
             PROVE  Ledger!Next
  BY DEF TypeOK, WhoIsKnown, DisconnectCharge, Script
<1>1. /\ p <= month /\ usage[c].period <= p
      /\ usage[c] \in Row /\ bytes[c] \in Nat /\ month \in Nat \ {0}
  BY DEF TypeOK, PeriodsOrdered, DisconnectCharge
<1>2. month' = month /\ bytes' = [bytes EXCEPT ![c] = 0]
  BY DEF DisconnectCharge
<1>3. CASE UNCHANGED usage
  <2>1. bytes' = [d \in Client |-> IF d \in {c} THEN 0 ELSE bytes[d]]
    BY <1>2 DEF TypeOK
  <2>2. Owed' = Owed
    BY <1>2, <1>3 DEF Owed, Used, MonthUsage
  <2>3. Ledger!Lose({c})
    BY <1>2, <2>1, <2>2 DEF Ledger!Lose, Owed
  <2>4. QED
    BY <1>1, <2>3 DEF Ledger!Next
<1>4. CASE usage' = [usage EXCEPT ![c] = Charged(@, p, bytes[c])]
  <2>1. usage'[c] = [period |-> p,
                     bytes |-> (IF usage[c].period = p THEN usage[c].bytes ELSE 0)
                               + bytes[c]]
    BY <1>1, <1>4 DEF TypeOK, Charged
  <2>2. \A d \in Client \ {c} : Used(d)' = Used(d)
    BY <1>1, <1>2, <1>4 DEF TypeOK, Used, MonthUsage
  <2>3. CASE p = month
    <3>1. Used(c)' = Used(c) + bytes[c]
      BY <1>1, <1>2, <2>1, <2>3 DEF Used, MonthUsage, Row
    <3>2. Owed' = [Owed EXCEPT ![c] = @ + bytes[c]]
      BY <1>1, <2>2, <3>1 DEF Owed
    <3>3. Ledger!Bill(c)
      BY <1>2, <3>2 DEF Ledger!Bill, Owed
    <3>4. QED
      BY <1>1, <3>3 DEF Ledger!Next
  <2>4. CASE p # month
    <3>1. Used(c)' = 0 /\ Used(c) = 0
      BY <1>1, <1>2, <2>1, <2>4 DEF Used, MonthUsage, Row
    <3>2. Owed' = Owed
      BY <1>1, <2>2, <3>1 DEF Owed
    <3>3. bytes' = [d \in Client |-> IF d \in {c} THEN 0 ELSE bytes[d]]
      BY <1>2 DEF TypeOK
    <3>4. Ledger!Lose({c})
      BY <1>2, <3>2, <3>3 DEF Ledger!Lose, Owed
    <3>5. QED
      BY <1>1, <3>4 DEF Ledger!Next
  <2>5. QED
    BY <2>3, <2>4
<1>5. CASE usage' = [d \in Client |->
                       IF d = c THEN [period |-> p, bytes |-> bytes[c]]
                                ELSE [period |-> 0, bytes |-> 0]]
  <2>1. \A d \in Client \ {c} : Used(d)' = 0
    BY <1>1, <1>2, <1>5 DEF Used, MonthUsage
  <2>2. Used(c)' = IF p = month THEN bytes[c] ELSE 0
    BY <1>1, <1>2, <1>5 DEF Used, MonthUsage
  <2>3. CASE p = month
    <3>1. Owed' = [d \in Client |-> IF d = c THEN bytes[c] ELSE 0]
      BY <2>1, <2>2, <2>3 DEF Owed
    <3>2. Ledger!BillOnLostFile(c)
      BY <1>2, <3>1 DEF Ledger!BillOnLostFile, Owed
    <3>3. QED
      BY <1>1, <3>2 DEF Ledger!Next
  <2>4. CASE p # month
    <3>1. Owed' = [d \in Client |-> 0]
      BY <2>1, <2>2, <2>4 DEF Owed
    <3>2. Ledger!LoseFile(c)
      BY <1>2, <3>1 DEF Ledger!LoseFile, Owed
    <3>3. QED
      BY <1>1, <3>2 DEF Ledger!Next
  <2>5. QED
    BY <2>3, <2>4
<1>6. UNCHANGED usage \/ AddUsage(c, p, bytes[c])
  BY DEF DisconnectCharge
<1>7. QED
  BY <1>3, <1>4, <1>5, <1>6 DEF AddUsage

LEMMA LedgerStep ==
  TypeOK /\ WhoIsKnown /\ PeriodsOrdered /\ [Next]_vars
    => [Ledger!Next]_(Ledger!vars)
<1> SUFFICES ASSUME TypeOK, WhoIsKnown, PeriodsOrdered, [Next]_vars
             PROVE  Ledger!Next \/ UNCHANGED Ledger!vars
  OBVIOUS
<1>1. ASSUME NEW c \in Client, Traffic(c) PROVE Ledger!Next
  <2>1. Owed' = Owed
    BY <1>1 DEF Traffic, Owed, Used, MonthUsage
  <2>2. Ledger!Carry(c)
    BY <1>1, <2>1 DEF Traffic, Ledger!Carry, Owed
  <2>3. QED
    BY <2>2 DEF Ledger!Next
<1>2. ASSUME NEW c \in Client, ResetUsage(c) PROVE Ledger!Next
  <2>1. Used(c)' = 0 /\ \A d \in Client \ {c} : Used(d)' = Used(d)
    BY <1>2 DEF TypeOK, Row, ResetUsage, Used, MonthUsage
  <2>2. Owed' = [Owed EXCEPT ![c] = 0]
    BY <2>1 DEF Owed
  <2>3. Ledger!Forgive(c)
    BY <1>2, <2>2 DEF ResetUsage, Ledger!Forgive, Owed
  <2>4. QED
    BY <2>3 DEF Ledger!Next
<1>3. CASE DisconnectCharge
  BY <1>3, ChargeRefines
<1>4. CASE ServerCrash
  <2>1. Owed' = Owed
    BY <1>4 DEF ServerCrash, Owed, Used, MonthUsage
  <2>2. bytes' = [d \in Client |-> IF d \in Client THEN 0 ELSE bytes[d]]
    BY <1>4 DEF ServerCrash
  <2>3. Ledger!Lose(Client)
    BY <1>4, <2>1, <2>2 DEF ServerCrash, Ledger!Lose, Owed
  <2>4. QED
    BY <2>3 DEF Ledger!Next
<1>5. CASE NewMonth
  <2>1. \A d \in Client : Used(d)' = 0
    BY <1>5 DEF TypeOK, Row, PeriodsOrdered, NewMonth, Used, MonthUsage
  <2>2. Owed' = [d \in Client |-> 0]
    BY <2>1 DEF Owed
  <2>3. Ledger!Rollover
    BY <1>5, <2>2 DEF NewMonth, Ledger!Rollover, Owed
  <2>4. QED
    BY <2>3 DEF Ledger!Next
<1>6. CASE UNCHANGED <<usage, month, bytes>>
  BY <1>6 DEF Ledger!vars, Used, MonthUsage
<1>7. ASSUME NEW c \in Client,
             Disconnect(c) \/ Connect(c) \/ PollPolicy(c) \/ SetPolicy(c)
      PROVE  UNCHANGED <<usage, month, bytes>>
  BY <1>7 DEF Disconnect, Connect, EndSession, PollPolicy, SetPolicy
<1>8. ASSUME \/ DisconnectPeriod \/ GatePolicy \/ GateUsage \/ PollStatus
             \/ PollDefaults \/ PollUsage \/ PollKill \/ PollKillFails \/ SetDefault
      PROVE  UNCHANGED <<usage, month, bytes>>
  BY <1>8 DEF DisconnectPeriod, GatePolicy, GateUsage, PollStatus, PollDefaults,
              PollUsage, PollKill, EndSession, PollKillFails, SetDefault
<1>9. QED
  BY <1>1, <1>2, <1>3, <1>4, <1>5, <1>6, <1>7, <1>8 DEF Next, vars

\* The lazy rows that the connect script, the poller and the portal read are
\* the running totals of QuotaLedger, for any clients, faults and bounds.
THEOREM LedgerRefined == Spec => LedgerSpec
<1>1. Init => Ledger!Init
  BY DEF Init, Ledger!Init, Used, MonthUsage
<1>2. IInv /\ [Next]_vars => [Ledger!Next]_(Ledger!vars)
  BY LedgerStep DEF IInv
<1>3. QED
  BY InitInv, StepInv, <1>1, <1>2, PTL DEF Spec, LedgerSpec, Ledger!Spec
=============================================================================
