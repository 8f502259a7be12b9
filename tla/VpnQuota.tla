------------------------------ MODULE VpnQuota ------------------------------
(***************************************************************************)
(* The monthly bandwidth quota: the OpenVPN server with the scripts it     *)
(* runs when a client connects (openvpn-mac-addr-check.py) and when a      *)
(* session ends (openvpn-client-disconnect.py), the poller that kills      *)
(* sessions over a hard quota (quota_enforcer.py), the files they share    *)
(* (policy_lib.py) and the portal's writes to these (policy_store.py).     *)
(*                                                                         *)
(* OpenVPN runs its scripts on its only thread: while `script' is not idle *)
(* it carries no traffic, admits nobody and answers no management command. *)
(* The poller, the portal and the calendar go on meanwhile.                *)
(***************************************************************************)
EXTENDS Naturals

CONSTANTS Client,      \* certificate common names
          None,        \* no client
          Quota,       \* quotas an administrator sets; 0 is "no quota"
          Faults,      \* the faults that may happen, a subset of FaultKinds
          MaxBytes,    \* bound: bytes carried per client between two months
          MaxMonth,    \* bound: the last month
          MaxEdits     \* bound: writes of the administrator

FaultKinds == {"policyRead", "usageRead", "usageRewrite", "usageWrite",
               "management", "crash"}

ASSUME QuotaAssumption ==
  /\ None \notin Client
  /\ Quota \subseteq Nat
  /\ 0 \in Quota
  /\ Faults \subseteq FaultKinds
  /\ MaxBytes \in Nat /\ MaxMonth \in Nat /\ MaxEdits \in Nat

VARIABLES
  live,      \* clients with a session
  bytes,     \* bytes of c's session, kept until its end is accounted for
  script,    \* the script OpenVPN is running, see Script
  usage,     \* client_usage.json
  policy,    \* client_policy.json, the two fields of the quota
  default,   \* quota_enforcement_policy of global_defaults.json
  month,     \* the calendar; months count from 1
  poll,      \* quota_enforcer.py, see Poll
  edits,     \* writes of the administrator so far
  clean,     \* history: live clients whose admission read both files and whose
             \* quota has not changed since
  soft       \* history: clients never under a hard quota of their own since
             \* the poller's run began

vars == <<live, bytes, script, usage, policy, default, month, poll, edits,
          clean, soft>>

Mode == {"soft", "hard", "inherit"}

\* period 0 is the absent row.
Row == [period : Nat, bytes : Nat]
Policy == [quota : Quota, mode : Mode]

\* kind "gate": before the connect script reads the policy; "admit": before it
\* reads the usage; "period": before the disconnect script's add_usage takes
\* today's month; "charge": before add_usage takes the lock.
Script == [kind : {"idle", "gate", "admit", "period", "charge"},
           who : Client \cup {None}, quota : Quota, period : Nat,
           read : BOOLEAN,  \* history: the quota read is the one still in force
           reconnect : BOOLEAN]

Poll == [phase : {"idle", "defaults", "policy", "usage", "kill"},
         snap : [Client -> Nat], todo : SUBSET Client, default : {"soft", "hard"},
         who : Client \cup {None}, quota : Quota]

TypeOK ==
  /\ live \subseteq Client
  /\ bytes \in [Client -> Nat]
  /\ script \in Script
  /\ usage \in [Client -> Row]
  /\ policy \in [Client -> Policy]
  /\ default \in {"soft", "hard"}
  /\ month \in Nat \ {0}
  /\ poll \in Poll
  /\ edits \in Nat
  /\ clean \subseteq Client
  /\ soft \subseteq Client

NoScript == [kind |-> "idle", who |-> None, quota |-> 0, period |-> 0,
             read |-> FALSE, reconnect |-> FALSE]
NoPoll == [phase |-> "idle", snap |-> [c \in Client |-> 0], todo |-> {},
           default |-> "soft", who |-> None, quota |-> 0]

Init ==
  /\ live = {}
  /\ bytes = [c \in Client |-> 0]
  /\ script = NoScript
  /\ usage = [c \in Client |-> [period |-> 0, bytes |-> 0]]
  /\ policy = [c \in Client |-> [quota |-> 0, mode |-> "inherit"]]
  /\ default = "soft"
  /\ month = 1
  /\ poll = NoPoll
  /\ edits = 0
  /\ clean = {}
  /\ soft = {}

-----------------------------------------------------------------------------
(* policy_lib.py *)

\* get_usage: a row of another month reads as zero and is not rewritten.
MonthUsage(row, m) == IF row.period = m THEN row.bytes ELSE 0

Used(c) == MonthUsage(usage[c], month)

\* What a script gets for get_usage: on a failure both callers go on with 0.
UsageRead(c) == {Used(c)} \cup (IF "usageRead" \in Faults THEN {0} ELSE {})

\* Wrong on purpose: add_usage without the comparison of the periods.
ChargedNoRollover(row, p, n) == [period |-> p, bytes |-> row.bytes + n]

\* add_usage under its lock, `p' the month it took before: the row restarts
\* when its period is another one.
Charged(row, p, n) ==
  [period |-> p, bytes |-> (IF row.period = p THEN row.bytes ELSE 0) + n]

\* An unreadable file reads as {}: the rewrite keeps the charged row alone.
AddUsage(c, p, n) ==
  \/ usage' = [usage EXCEPT ![c] = Charged(@, p, n)]
  \/ /\ "usageRewrite" \in Faults
     /\ usage' = [d \in Client |->
                    IF d = c THEN [period |-> p, bytes |-> n]
                             ELSE [period |-> 0, bytes |-> 0]]

-----------------------------------------------------------------------------
(* OpenVPN *)

Idle == script.kind = "idle"

Traffic(c) ==
  /\ Idle /\ c \in live
  /\ Used(c) + bytes[c] < MaxBytes
  /\ bytes' = [bytes EXCEPT ![c] = @ + 1]
  /\ UNCHANGED <<live, script, usage, policy, default, month, poll, edits,
                 clean, soft>>

\* OpenVPN closes c's session and runs the disconnect script on its counters.
EndSession(c, again) ==
  /\ Idle /\ c \in live
  /\ live' = live \ {c}
  /\ script' = [NoScript EXCEPT !.kind = "period", !.who = c,
                                !.reconnect = again]
  /\ clean' = clean \ {c}
  /\ UNCHANGED <<bytes, usage, policy, default, month, edits>>

\* c leaves, or an administrator disconnects it.
Disconnect(c) == EndSession(c, FALSE) /\ UNCHANGED <<poll, soft>>

\* The script ended: it was run for an eviction by a new connection, which now
\* goes through the connect script, or OpenVPN is idle again.
AfterDisconnect ==
  IF script.reconnect
  THEN [NoScript EXCEPT !.kind = "gate", !.who = script.who]
  ELSE NoScript

\* add_usage is called for a session that carried something, and takes today's
\* month before it waits for the lock.
DisconnectPeriod ==
  /\ script.kind = "period"
  /\ script' = IF bytes[script.who] > 0
               THEN [script EXCEPT !.kind = "charge", !.period = month]
               ELSE AfterDisconnect
  /\ UNCHANGED <<live, bytes, usage, policy, default, month, poll, edits,
                 clean, soft>>

\* A failed write loses the session's bytes; the script ends all the same.
DisconnectCharge ==
  /\ script.kind = "charge"
  /\ \/ AddUsage(script.who, script.period, bytes[script.who])
     \/ "usageWrite" \in Faults /\ UNCHANGED usage
  /\ bytes' = [bytes EXCEPT ![script.who] = 0]
  /\ script' = AfterDisconnect
  /\ UNCHANGED <<live, policy, default, month, poll, edits, clean, soft>>

\* A client connects.  server.conf has no duplicate-cn, so that a session of
\* the same name is closed first.
Connect(c) ==
  /\ Idle
  /\ \/ EndSession(c, TRUE)
     \/ /\ c \notin live
        /\ script' = [NoScript EXCEPT !.kind = "gate", !.who = c]
        /\ UNCHANGED <<live, bytes, usage, policy, default, month, edits, clean>>
  /\ UNCHANGED <<poll, soft>>

\* The connect script reads the policy; a failure means "unrestricted".
GatePolicy ==
  /\ script.kind = "gate"
  /\ \E ok \in {TRUE} \cup (IF "policyRead" \in Faults THEN {FALSE} ELSE {}) :
       script' = [script EXCEPT !.kind = "admit", !.read = ok,
                    !.quota = IF ok THEN policy[script.who].quota ELSE 0]
  /\ UNCHANGED <<live, bytes, usage, policy, default, month, poll, edits,
                 clean, soft>>

\* Wrong on purpose: Gate 7 with > for >=.
GateUsageOffByOne ==
  /\ script.kind = "admit"
  /\ LET c == script.who IN
     \/ \E used \in UsageRead(c) :
          /\ script.quota = 0 \/ used <= script.quota
          /\ live' = live \cup {c}
          /\ clean' = IF script.read /\ used = Used(c)
                      THEN clean \cup {c} ELSE clean
     \/ UNCHANGED <<live, clean>>
  /\ script' = NoScript
  /\ UNCHANGED <<bytes, usage, policy, default, month, poll, edits, soft>>

\* Gate 7 and the end of the script: exit 1 at the quota, exit 0 below it.
\* Another gate may refuse the client too.
GateUsage ==
  /\ script.kind = "admit"
  /\ LET c == script.who IN
     \/ \E used \in UsageRead(c) :
          /\ script.quota = 0 \/ used < script.quota
          /\ live' = live \cup {c}
          /\ clean' = IF script.read /\ used = Used(c)
                      THEN clean \cup {c} ELSE clean
     \/ UNCHANGED <<live, clean>>
  /\ script' = NoScript
  /\ UNCHANGED <<bytes, usage, policy, default, month, poll, edits, soft>>

\* The server dies: no disconnect script runs, the counters are gone.
ServerCrash ==
  /\ "crash" \in Faults
  /\ live # {} \/ ~Idle
  /\ live' = {}
  /\ script' = NoScript
  /\ bytes' = [c \in Client |-> 0]
  /\ clean' = {}
  /\ UNCHANGED <<usage, policy, default, month, poll, edits, soft>>

-----------------------------------------------------------------------------
(* quota_enforcer.py, one run per timer tick *)

\* The run goes on with p, or ends when no listed session is left.
PollGoesOn(p) ==
  /\ poll' = IF p.todo = {} THEN NoPoll
             ELSE [p EXCEPT !.phase = "policy", !.who = None, !.quota = 0]
  /\ soft' = IF p.todo = {} THEN {} ELSE soft

SoftNow(p) == p.quota = 0 \/ p.mode = "soft"

\* list_sessions: OpenVPN answers when it runs no script.
PollStatus ==
  /\ poll.phase = "idle" /\ Idle /\ live # {}
  /\ poll' = [NoPoll EXCEPT !.phase = "defaults", !.todo = live,
                            !.snap = [c \in Client |->
                                        IF c \in live THEN bytes[c] ELSE 0]]
  /\ soft' = {c \in Client : SoftNow(policy[c])}
  /\ UNCHANGED <<live, bytes, script, usage, policy, default, month, edits,
                 clean>>

\* get_global_defaults: "soft" when the file cannot be read.
PollDefaults ==
  /\ poll.phase = "defaults"
  /\ \E d \in {default} \cup (IF "policyRead" \in Faults THEN {"soft"} ELSE {}) :
       poll' = [poll EXCEPT !.phase = "policy", !.default = d]
  /\ UNCHANGED <<live, bytes, script, usage, policy, default, month, edits,
                 clean, soft>>

\* Wrong on purpose: The global default wins over the client's own setting.
EffectiveDefaultFirst(p) == IF poll.default = "hard" THEN "hard" ELSE p.mode

Effective(p) == IF p.mode = "inherit" THEN poll.default ELSE p.mode

\* The next session: its policy, and whether it is under a hard quota.
PollPolicy(c) ==
  /\ poll.phase = "policy" /\ c \in poll.todo
  /\ LET rest == [poll EXCEPT !.todo = @ \ {c}] IN
     \/ /\ policy[c].quota # 0 /\ Effective(policy[c]) = "hard"
        /\ poll' = [rest EXCEPT !.phase = "usage", !.who = c,
                                !.quota = policy[c].quota]
        /\ UNCHANGED soft
     \/ /\ \/ policy[c].quota = 0 \/ Effective(policy[c]) # "hard"
           \/ "policyRead" \in Faults
        /\ PollGoesOn(rest)
  /\ UNCHANGED <<live, bytes, script, usage, policy, default, month, edits,
                 clean>>

\* Wrong on purpose: The poller compares the live bytes alone with the quota.
PollUsageLiveOnly ==
  /\ poll.phase = "usage"
  /\ IF poll.snap[poll.who] < poll.quota
     THEN PollGoesOn(poll)
     ELSE poll' = [poll EXCEPT !.phase = "kill"] /\ UNCHANGED soft
  /\ UNCHANGED <<live, bytes, script, usage, policy, default, month, edits,
                 clean>>

\* The file's total plus the bytes the status listed.
PollUsage ==
  /\ poll.phase = "usage"
  /\ \E used \in UsageRead(poll.who) :
       IF used + poll.snap[poll.who] < poll.quota
       THEN PollGoesOn(poll)
       ELSE poll' = [poll EXCEPT !.phase = "kill"] /\ UNCHANGED soft
  /\ UNCHANGED <<live, bytes, script, usage, policy, default, month, edits,
                 clean>>

\* kill <common name>: whatever session has that name now.
PollKill ==
  /\ poll.phase = "kill"
  /\ \/ EndSession(poll.who, FALSE)
     \/ /\ Idle /\ poll.who \notin live
        /\ UNCHANGED <<live, bytes, script, usage, policy, default, month,
                       edits, clean>>
  /\ PollGoesOn(poll)

\* The management socket fails: nothing is killed, the run goes on.
PollKillFails ==
  /\ poll.phase = "kill" /\ "management" \in Faults
  /\ PollGoesOn(poll)
  /\ UNCHANGED <<live, bytes, script, usage, policy, default, month, edits,
                 clean>>

-----------------------------------------------------------------------------
(* The portal, and the calendar *)

Edit == edits < MaxEdits /\ edits' = edits + 1

\* set_policy, the quota and its enforcement.
SetPolicy(c) ==
  /\ Edit
  /\ \E p \in Policy :
       /\ p # policy[c]
       /\ policy' = [policy EXCEPT ![c] = p]
       /\ clean' = IF p.quota = policy[c].quota THEN clean ELSE clean \ {c}
       /\ script' = IF script.who = c /\ p.quota # policy[c].quota
                    THEN [script EXCEPT !.read = FALSE] ELSE script
       /\ soft' = IF SoftNow(p) THEN soft ELSE soft \ {c}
  /\ UNCHANGED <<live, bytes, usage, default, month, poll>>

\* write_global_defaults, at every save of the settings.
SetDefault ==
  /\ Edit
  /\ default' \in {"soft", "hard"} \ {default}
  /\ UNCHANGED <<live, bytes, script, usage, policy, month, poll, clean, soft>>

\* reset_usage zeroes the row whatever its month; no row, nothing to do.
ResetUsage(c) ==
  /\ Edit
  /\ usage[c].period # 0
  /\ usage' = [usage EXCEPT ![c].bytes = 0]
  /\ UNCHANGED <<live, bytes, script, policy, default, month, poll, clean, soft>>

NewMonth ==
  /\ month < MaxMonth
  /\ month' = month + 1
  /\ UNCHANGED <<live, bytes, script, usage, policy, default, poll, edits,
                 clean, soft>>

Next ==
  \/ \E c \in Client :
       \/ Traffic(c) \/ Disconnect(c) \/ Connect(c)
       \/ PollPolicy(c)
       \/ SetPolicy(c) \/ ResetUsage(c)
  \/ DisconnectPeriod \/ DisconnectCharge \/ GatePolicy \/ GateUsage
  \/ ServerCrash
  \/ PollStatus \/ PollDefaults \/ PollUsage \/ PollKill \/ PollKillFails
  \/ SetDefault \/ NewMonth

Spec == Init /\ [][Next]_vars

\* OpenVPN runs its scripts to the end.  The timer starts a run every 45 s, so
\* that some run finds OpenVPN between two scripts and a socket that answers;
\* nothing obliges clients, administrators or faults to do anything.
FairSpec ==
  /\ Spec
  /\ WF_vars(DisconnectPeriod \/ DisconnectCharge \/ GatePolicy \/ GateUsage)
  /\ SF_vars(PollStatus)
  /\ WF_vars(PollDefaults \/ PollUsage \/ \E c \in Client : PollPolicy(c))
  /\ SF_vars(PollKill)

-----------------------------------------------------------------------------
(* Properties *)

Ledger == INSTANCE QuotaLedger WITH
  owed <- [c \in Client |-> Used(c)], meter <- bytes

\* The lazily rolled-over rows of client_usage.json, read by get_usage, are an
\* exact ledger: each ended session is charged once, to its client, with all
\* its bytes and in the month it ended in, or is lost as a whole; no row is ever
\* too high (policy_lib.add_usage, get_usage; policy_store.reset_usage).
LedgerSpec == Ledger!Spec

\* A session that was admitted on what the two files really said, and whose
\* quota was not edited since, belongs to a client whose recorded usage is
\* below its quota: nothing that is charged between the two reads of the
\* connect script, at an eviction, at the turn of the month or by another
\* client's session lets an exhausted client in.
\* (openvpn-mac-addr-check.py gate 7, policy_lib.get_usage / add_usage.)
ConnectedUnderQuota ==
  \A c \in live \cap clean : policy[c].quota = 0 \/ Used(c) < policy[c].quota

\* The poller is never about to kill a client that has had no quota, or "soft"
\* set on itself, at every instant since the run began, although the run works
\* with a global default and a policy it read earlier (quota_enforcer.py).
SoftClientSpared == poll.phase = "kill" => poll.who \notin soft

\* The inductive form of the two invariants above.
WhoIsKnown ==
  /\ script.kind # "idle" => script.who \in Client \ live
  /\ poll.phase \in {"usage", "kill"} => poll.who \in Client

\* The period add_usage took is no later than today and no earlier than the
\* row's: scripts run one at a time.
PeriodsOrdered ==
  /\ \A c \in Client : usage[c].period <= month
  /\ script.kind = "charge" =>
       /\ script.period <= month
       /\ usage[script.who].period <= script.period

GateCurrent ==
  script.kind = "admit" /\ script.read =>
    script.quota = policy[script.who].quota

SoftHistory ==
  /\ \A c \in soft : SoftNow(policy[c])
  /\ poll.phase \in {"usage", "kill"} => poll.who \notin soft

IInv ==
  /\ TypeOK
  /\ WhoIsKnown
  /\ PeriodsOrdered
  /\ clean \subseteq live
  /\ GateCurrent
  /\ SoftHistory
  /\ ConnectedUnderQuota

OverHardQuota(c) ==
  /\ c \in live
  /\ policy[c].quota # 0
  /\ (IF policy[c].mode = "inherit" THEN default ELSE policy[c].mode) = "hard"
  /\ Used(c) + bytes[c] >= policy[c].quota

\* A session over a hard quota does not go on for ever: it is cut, or it stops
\* being over (quota_enforcer.py main and its timer).
HardCutoff == \A c \in Client : OverHardQuota(c) ~> ~OverHardQuota(c)
=============================================================================
