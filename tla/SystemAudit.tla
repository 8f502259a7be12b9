---------------------------- MODULE SystemAudit ----------------------------
(***************************************************************************)
(* The System Audit of the portal: runs of the checks over the files and   *)
(* the firewall of the host, the comparison of a run with the previous     *)
(* one, the alerts, and the automatic fixes the portal applies to the host *)
(* over SSH.                                                               *)
(*                                                                         *)
(* Source: app/vpnadmin/system_audit/, app/vpnadmin/routes/system_audit.py,*)
(* app/services/system/audit_remediate.py and host_executor.py.            *)
(*                                                                         *)
(* A check is a directive of sshd, the permissions of a file, a firewall   *)
(* manager, or "policy", a finding only the live probe of the firewall can *)
(* make: the base policy accepts, here always.                             *)
(*                                                                         *)
(* A run is one thread of the portal and several may be in flight: the     *)
(* button and the scheduled loop do not know of each other.  A fix is a    *)
(* process of the host, and the portal waits for it only so long.  The     *)
(* administrator of the host edits its files by hand.                      *)
(***************************************************************************)
EXTENDS Naturals, FiniteSets

CONSTANTS
  Directive,   \* directives of sshd the audit looks at
  Manager,     \* firewall managers of the host: a subset of Managers
  Port,        \* ports sshd may listen on; StdPort is the one "ssh" names
  StdPort,
  Fixer,       \* processes that apply a fix on the host
  None,
  Faults,      \* what may go wrong: a subset of FaultKinds
  AtOnce,      \* bound: runs in flight at the same time
  Budgets      \* bounds: how many runs, fixes asked for and edits by hand a
               \* behaviour has; it starts with one of these

Managers == {"ufw", "firewalld"}

\* "probe": the live probe does not answer; "module": a module of checks
\* raises; "db": the database refuses a statement of a run; "crash": the portal
\* dies; "reload": sshd does not reload; "tool": sshd or the firewall's command
\* cannot be run, or takes too long; "timeout": the portal stops waiting.
FaultKinds == {"probe", "module", "db", "crash", "reload", "tool", "timeout"}

ASSUME AuditAssumption ==
  /\ Manager \subseteq Managers
  /\ Directive \cap (Managers \cup {"mode", "policy", "port"}) = {}
  /\ StdPort \in Port
  /\ None \notin {"main", "dropin"}
  /\ Faults \subseteq FaultKinds
  /\ AtOnce \in Nat
  /\ Budgets \subseteq [runs : Nat, fixes : Nat, edits : Nat]

Check == Directive \cup Manager \cup {"mode", "policy"}

\* The main file, then the drop-ins in the order of their names.
File == {"main", "dropin"}
Value == {"unset", "bad", "good"}

VARIABLES
  conf,      \* sshd's files: the value each gives a directive, the Port, which
             \* here the main file alone gives, and whether sshd accepts the file
  mode,      \* "loose" or "tight": the permissions of a watched file
  live,      \* the port sshd listens on
  wall,      \* per manager: is it on, and which ports it lets in
  runs,      \* the table audit_runs with its findings, by id
  fix,       \* per fixer: the request it serves and how far it is
  left,      \* what is left of the budget
  held,      \* history: fixed checks nobody has touched since
  touched,   \* history: checks, and "port", edited since the fixes that run began
  overlap,   \* history: have two fixes ever run at the same time
  lost       \* history: has a baseline ever gone without its alerts

hostVars == <<conf, mode, live, wall>>
history == <<held, touched, overlap, lost>>
vars == <<hostVars, runs, fix, left, history>>

Ids == DOMAIN runs
-----------------------------------------------------------------------------
(* The checks.                                                             *)

\* The value the audit reads: the last file that sets the directive.  An
\* absent directive has sshd's default, taken as bad.
Occurrence(d) ==
  IF conf["dropin"].line[d] # "unset" THEN "dropin"
  ELSE IF conf["main"].line[d] # "unset" THEN "main" ELSE None

DirectiveBad(d) ==
  Occurrence(d) = None \/ conf[Occurrence(d)].line[d] = "bad"

ModeBad == mode = "loose"

\* A manager that is off: its unit is not enabled, or the probe says so.
WallOff(m) == ~wall[m].on

Flagged(c) ==
  \/ c \in Directive /\ DirectiveBad(c)
  \/ c \in Manager /\ WallOff(c)
  \/ c = "mode" /\ ModeBad
  \/ c = "policy"

FileChecks == Directive \cup {"mode"}
WallChecks == Manager \cup {"policy"}

Critical == Directive
High == Manager \cup {"mode"}
Severe == Critical \cup High

-----------------------------------------------------------------------------
(* A run: the row, the baseline, the checks, the commit, the alerts.       *)

NewRun == [st |-> "running", pc |-> "prev", prev |-> 0, seen |-> {},
           found |-> {}, resolved |-> {}, alerted |-> {}]

Completed == {r \in Ids : runs[r].st = "completed"}

\* Runs whose findings are in the database.
Recorded == {r \in Ids : runs[r].st \in {"completed", "failed"} /\ runs[r].found # {}}

InFlight == {r \in Ids : runs[r].pc # "done"}

\* Runs that have committed their findings or will never do so.
Ended == {r \in Ids : runs[r].pc \in {"critical", "high", "done"}}

LatestOf(S) == IF S = {} THEN 0 ELSE CHOOSE r \in S : \A s \in S : s <= r

NonPassed(r) == IF r = 0 THEN {} ELSE runs[r].found

StartRun ==
  /\ left.runs > 0
  /\ Cardinality(InFlight) < AtOnce
  /\ left' = [left EXCEPT !.runs = @ - 1]
  /\ runs' = [r \in Ids \cup {Cardinality(Ids) + 1} |->
                IF r \in Ids THEN runs[r] ELSE NewRun]
  /\ UNCHANGED <<hostVars, fix, history>>

\* wrong on purpose: a failed run serves as a baseline as well
BaselineOfAny(r) == LatestOf(Recorded \ {r})

\* wrong on purpose: the first completed run, for a sort the other way round
BaselineOldest(r) ==
  IF Completed \ {r} = {} THEN 0
  ELSE CHOOSE t \in Completed \ {r} : \A s \in Completed \ {r} : t <= s

\* The completed run that started last, whatever it still has to do.
Baseline(r) == LatestOf(Completed \ {r})

ReadPrev(r) ==
  /\ runs[r].pc = "prev"
  /\ runs' = [runs EXCEPT ![r].pc = "files", ![r].prev = Baseline(r),
                          ![r].seen = Ended]
  /\ UNCHANGED <<hostVars, fix, left, history>>

\* The modules of the checks are read one after the other.  A module that
\* raises is skipped, its checks with it.
CheckFiles(r) ==
  /\ runs[r].pc = "files"
  /\ \E seen \in {FileChecks} \cup (IF "module" \in Faults THEN {{}} ELSE {}) :
       runs' = [runs EXCEPT ![r].pc = "wall",
                            ![r].found = {c \in seen : Flagged(c)}]
  /\ UNCHANGED <<hostVars, fix, left, history>>

\* The live probe first; without it the files of the managers alone.
CheckWall(r) ==
  /\ runs[r].pc = "wall"
  /\ \E seen \in {WallChecks} \cup (IF "probe" \in Faults THEN {Manager} ELSE {})
                              \cup (IF "module" \in Faults THEN {{}} ELSE {}) :
       runs' = [runs EXCEPT ![r].pc = "commit",
                            ![r].found = @ \cup {c \in seen : Flagged(c)}]
  /\ UNCHANGED <<hostVars, fix, left, history>>

\* One transaction: the findings, their status, the counts and the score.
Commit(r) ==
  LET was == NonPassed(runs[r].prev) IN
  /\ runs[r].pc = "commit"
  /\ runs' = [runs EXCEPT ![r].pc = "critical", ![r].st = "completed",
                           ![r].resolved = was \ runs[r].found]
  /\ UNCHANGED <<hostVars, fix, left, history>>

\* Unlike the counts, the alerts of a first run name every severe finding.
Rise(r, kind) == (runs[r].found \cap kind) \ NonPassed(runs[r].prev)

\* The log entry, then one commit per alert: critical, high, lower score.
AlertCritical(r) ==
  /\ runs[r].pc = "critical"
  /\ runs' = [runs EXCEPT ![r].pc = "high", ![r].alerted = @ \cup Rise(r, Critical)]
  /\ UNCHANGED <<hostVars, fix, left, history>>

AlertHigh(r) ==
  /\ runs[r].pc = "high"
  /\ runs' = [runs EXCEPT ![r].pc = "done", ![r].alerted = @ \cup Rise(r, High)]
  /\ UNCHANGED <<hostVars, fix, left, history>>

AfterCommit == {"critical", "high"}

\* The handler of every exception: what is not committed is rolled back, and
\* the run is "failed" even when its findings are already in the database.
Fail(r) ==
  /\ "db" \in Faults
  /\ runs[r].pc # "done"
  /\ runs' = [runs EXCEPT ![r].pc = "done", ![r].st = "failed",
                ![r].found = IF runs[r].pc \in AfterCommit THEN @ ELSE {}]
  /\ lost' = (lost \/ \E s \in Ids : runs[s].prev = r)
  /\ UNCHANGED <<hostVars, fix, left, held, touched, overlap>>

\* A run in flight ends where it is: "running" for ever, or completed with
\* its alerts never sent.  The fixes go on without anyone waiting.
Crash ==
  /\ "crash" \in Faults
  /\ InFlight # {}
  /\ runs' = [r \in Ids |->
                IF runs[r].pc = "done" THEN runs[r]
                ELSE [runs[r] EXCEPT !.pc = "done",
                        !.found = IF runs[r].pc \in AfterCommit THEN @ ELSE {}]]
  /\ lost' = (lost \/ \E r \in Ids : runs[r].pc \in AfterCommit)
  /\ fix' = [f \in Fixer |-> [fix[f] EXCEPT !.waits = FALSE]]
  /\ UNCHANGED <<hostVars, left, held, touched, overlap>>
-----------------------------------------------------------------------------
(* A fix: POST /findings/{id}/remediate, and the process on the host.      *)

Idle == [pc |-> "idle", check |-> None, file |-> None, lines |-> None,
         backup |-> None, waits |-> FALSE,
         applied |-> FALSE]

\* A finding that was not passed and names an action can be fixed, from any
\* run that has it and as often as the button is pressed.
StartFix(f, c) ==
  /\ fix[f].pc = "idle"
  /\ left.fixes > 0
  /\ c # "policy"
  /\ \E r \in Recorded : c \in runs[r].found
  /\ fix' = [fix EXCEPT ![f] = [Idle EXCEPT !.pc = "begin", !.check = c, !.waits = TRUE]]
  /\ left' = [left EXCEPT !.fixes = @ - 1]
  /\ overlap' = (overlap \/ \E g \in Fixer : fix[g].pc # "idle")
  /\ touched' = IF \E g \in Fixer : fix[g].pc # "idle" THEN touched ELSE {}
  /\ UNCHANGED <<hostVars, runs, held, lost>>

Fixing(f, pc, kind) == fix[f].pc = pc /\ fix[f].check \in kind

\* wrong on purpose: the first file that sets the directive, as sshd reads it
TargetFirst(d) == IF conf["main"].line[d] # "unset" \/ Occurrence(d) = None
                  THEN "main" ELSE Occurrence(d)

\* The file a fix edits: where the audit found the value, else the main file.
Target(d) == IF Occurrence(d) = None THEN "main" ELSE Occurrence(d)

\* Find the line the audit would read, read the file, copy it to the backup.
OpenConfig(f) ==
  LET d == fix[f].check  file == Target(d) IN
  /\ Fixing(f, "begin", Directive)
  /\ fix' = [fix EXCEPT ![f].pc = "write", ![f].file = file, ![f].lines = conf[file],
                        ![f].backup = conf[file]]
  /\ UNCHANGED <<hostVars, runs, left, history>>

Corrected(lines, d, broken) == [lines EXCEPT !.line[d] = "good", !.broken = broken]

\* The lines read before, with the one directive changed.  A line appended to
\* the main file may land in a Match block, where sshd can refuse it.
WriteConfig(f) ==
  LET d == fix[f].check  old == fix[f].lines IN
  /\ Fixing(f, "write", Directive)
  /\ \E broken \in BOOLEAN :
       /\ broken # old.broken => broken /\ old.line[d] = "unset"
       /\ conf' = [conf EXCEPT ![fix[f].file] = Corrected(old, d, broken)]
  /\ fix' = [fix EXCEPT ![f].pc = "validate"]
  /\ UNCHANGED <<mode, live, wall, runs, left, history>>

PortRead == conf["main"].port

Accepted == \A file \in File : ~conf[file].broken

\* sshd -t reads every file.
Validate(f) ==
  /\ Fixing(f, "validate", Directive)
  /\ fix' = [fix EXCEPT ![f].pc = IF Accepted THEN "reload" ELSE "restore"]
  /\ UNCHANGED <<hostVars, runs, left, history>>

Reload(f) ==
  /\ Fixing(f, "reload", Directive)
  /\ \E ok \in {TRUE} \cup (IF "reload" \in Faults THEN {FALSE} ELSE {}) :
       /\ fix' = [fix EXCEPT ![f].pc = IF ok THEN "report" ELSE "restore",
                             ![f].applied = ok]
       /\ live' = IF ok THEN PortRead ELSE live
  /\ UNCHANGED <<conf, mode, wall, runs, left, history>>

\* wrong on purpose: the failure is reported and the edited file stays
RestoreSkipped(f) ==
  /\ Fixing(f, "restore", Directive)
  /\ fix' = [fix EXCEPT ![f].pc = "report"]
  /\ UNCHANGED <<hostVars, runs, left, history>>

\* The backup is copied over the file, whatever it holds by now.
Restore(f) ==
  /\ Fixing(f, "restore", Directive)
  /\ conf' = [conf EXCEPT ![fix[f].file] = fix[f].backup]
  /\ fix' = [fix EXCEPT ![f].pc = "report"]
  /\ UNCHANGED <<mode, live, wall, runs, left, history>>

FixMode(f) ==
  /\ Fixing(f, "begin", {"mode"})
  /\ mode' = "tight"
  /\ fix' = [fix EXCEPT ![f].pc = "report", ![f].applied = TRUE]
  /\ UNCHANGED <<conf, live, wall, runs, left, history>>

\* wrong on purpose: the service "ssh" for every manager
RuleAlwaysSsh(m) == StdPort

\* The port let in: ufw is given the one of the main file, firewalld the
\* service "ssh".
RuleFor(m) == IF m = "ufw" THEN PortRead ELSE StdPort

AllowSsh(f) ==
  LET m == fix[f].check IN
  /\ Fixing(f, "begin", Manager)
  /\ wall' = [wall EXCEPT ![m].allow = @ \cup {RuleFor(m)}]
  /\ fix' = [fix EXCEPT ![f].pc = "enable"]
  /\ UNCHANGED <<conf, mode, live, runs, left, history>>

EnableWall(f) ==
  /\ Fixing(f, "enable", Manager)
  /\ wall' = [wall EXCEPT ![fix[f].check].on = TRUE]
  /\ fix' = [fix EXCEPT ![f].pc = "report", ![f].applied = TRUE]
  /\ UNCHANGED <<conf, mode, live, runs, left, history>>

\* A command that cannot be run or takes too long ends the fix where it is: an
\* edited file is not restored, a firewall that is on is not told of.
ToolFails(f) ==
  /\ "tool" \in Faults
  /\ \/ Fixing(f, "validate", Directive)
     \/ Fixing(f, "reload", Directive)
     \/ fix[f].pc # "idle" /\ fix[f].check \in Manager
  /\ fix' = [fix EXCEPT ![f] = Idle]
  /\ UNCHANGED <<hostVars, runs, left, history>>

\* The answer reaches the portal, if it still waits: the finding is marked
\* when the host applied the change.
Report(f) ==
  LET c == fix[f].check  marked == fix[f].waits /\ fix[f].applied IN
  /\ fix[f].pc = "report"
  /\ held' = IF marked /\ c \notin touched THEN held \cup {c} ELSE held
  /\ fix' = [fix EXCEPT ![f] = Idle]
  /\ UNCHANGED <<hostVars, runs, left, touched, overlap, lost>>

TimeOut(f) ==
  /\ "timeout" \in Faults
  /\ fix[f].waits
  /\ fix' = [fix EXCEPT ![f].waits = FALSE]
  /\ UNCHANGED <<hostVars, runs, left, history>>
-----------------------------------------------------------------------------
(* The administrator of the host.                                          *)

Edited(cs) ==
  /\ left.edits > 0
  /\ left' = [left EXCEPT !.edits = @ - 1]
  /\ held' = held \ cs
  /\ touched' = touched \cup cs
  /\ UNCHANGED <<runs, fix, overlap, lost>>

EditConfig(file, d, v) ==
  /\ conf[file].line[d] # v
  /\ conf' = [conf EXCEPT ![file].line[d] = v]
  /\ Edited(Directive)
  /\ UNCHANGED <<mode, live, wall>>

\* The Port is edited, and sshd started again with it, or not yet.
EditPort(p) ==
  /\ PortRead # p
  /\ conf' = [conf EXCEPT !["main"].port = p]
  /\ live' \in {live, p}
  /\ Edited({"port"})
  /\ UNCHANGED <<mode, wall>>

LoosenMode ==
  /\ mode = "tight"
  /\ mode' = "loose"
  /\ Edited({"mode"})
  /\ UNCHANGED <<conf, live, wall>>

StopWall(m) ==
  /\ wall[m].on
  /\ wall' = [wall EXCEPT ![m].on = FALSE]
  /\ Edited({m})
  /\ UNCHANGED <<conf, mode, live>>

-----------------------------------------------------------------------------
Init ==
  /\ live \in Port
  /\ conf = [file \in File |->
               [line |-> [d \in Directive |-> IF file = "main" THEN "bad" ELSE "unset"],
                port |-> IF file = "main" THEN live ELSE None,
                broken |-> FALSE]]
  /\ mode = "loose"
  /\ wall = [m \in Manager |-> [on |-> FALSE, allow |-> {}]]
  /\ runs = [r \in {} |-> NewRun]
  /\ fix = [f \in Fixer |-> Idle]
  /\ left \in Budgets
  /\ held = {}
  /\ touched = {}
  /\ overlap = FALSE
  /\ lost = FALSE

RunStep(r) ==
  \/ ReadPrev(r) \/ CheckFiles(r) \/ CheckWall(r) \/ Commit(r)
  \/ AlertCritical(r) \/ AlertHigh(r) \/ Fail(r)

FixStep(f) ==
  \/ \E c \in Check : StartFix(f, c)
  \/ OpenConfig(f) \/ WriteConfig(f) \/ Validate(f) \/ Reload(f) \/ Restore(f)
  \/ FixMode(f) \/ AllowSsh(f) \/ EnableWall(f) \/ ToolFails(f)
  \/ Report(f) \/ TimeOut(f)

Hand ==
  \/ \E file \in File, d \in Directive, v \in Value : EditConfig(file, d, v)
  \/ \E p \in Port : EditPort(p)
  \/ LoosenMode
  \/ \E m \in Manager : StopWall(m)

Next ==
  \/ StartRun
  \/ \E r \in Ids : RunStep(r)
  \/ Crash
  \/ \E f \in Fixer : FixStep(f)
  \/ Hand

Spec == Init /\ [][Next]_vars
-----------------------------------------------------------------------------
(* What the audit promises.                                                *)

\* The alert chain of a severe finding: it was reported by this run or was
\* already known to the run this one is compared with, which in turn...
Reported(c, r) ==
  \E s \in Ids : s <= r /\ c \in runs[s].alerted

\* No rise goes unreported: a critical or high finding of the last completed
\* run has been sent to the administrators by that run or an earlier one,
\* once no run has alerts left to send.  The exception is a baseline that
\* ended between its commit and its alerts (a crash, or an error after
\* another run had read it).
NoSilentRise ==
  (/\ ~lost
   /\ \A r \in Ids : runs[r].pc \notin AfterCommit)
  => \A c \in NonPassed(LatestOf(Completed)) \cap Severe :
       Reported(c, LatestOf(Completed))

\* "the resolution shows up exactly once, on the run where it happened": of
\* two completed runs both say that a finding is resolved only if a run in
\* between has recorded it again, as long as no run began before an earlier
\* one had completed.
InTurn == \A t, r \in Ids : t < r /\ runs[r].pc # "prev" => t \in runs[r].seen

ResolvedOnce ==
  InTurn => \A r, s \in Completed : r < s =>
    \A c \in runs[r].resolved \cap runs[s].resolved :
      \E t \in Recorded : r < t /\ t < s /\ c \in runs[t].found

\* A fix holds: unless someone edits the host or two fixes overlap, what the
\* portal shows as fixed is no longer found by the checks.  The audit and the
\* fix must agree on which line of which file counts.
FixHolds == overlap \/ \A c \in held : ~Flagged(c)

\* "the previous, known-working config stays": a fix of sshd that ends in any
\* way without having been applied leaves the file as it found it, unless
\* someone edited it meanwhile or two fixes overlapped.  The exception is the
\* end of a fix whose sshd -t or reload could not be run or took too long: it
\* leaves the file edited, in the one directive and in nothing else.
RollbackWhole ==
  [][\A f \in Fixer :
       LET x == fix[f]  stands == conf[x.file] IN
       /\ x.pc # "idle" /\ fix'[f].pc = "idle"
       /\ x.check \in Directive /\ ~x.applied
       /\ touched \cap (Directive \cup {"port"}) = {} /\ ~overlap
       => \/ stands = x.lines
          \/ /\ x.pc \in {"validate", "reload"}
             /\ \E broken \in BOOLEAN : stands = Corrected(x.lines, x.check, broken)]_vars

\* "never enables a firewall that would immediately cut off the very
\* connection running it": the step that switches a manager on finds a rule
\* for the port sshd listens on, where that is the one its main file gives and
\* nobody has moved it since the fix began.  firewalld, which is given the
\* service "ssh" whatever the file says, keeps this for the standard port only.
SshLetIn ==
  [][\A m \in Manager :
       /\ ~wall[m].on /\ wall'[m].on
       /\ live = PortRead /\ "port" \notin touched
       /\ m = "ufw" \/ live = StdPort
       => live \in wall[m].allow]_vars
=============================================================================
