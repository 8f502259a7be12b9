------------------------ MODULE AuditTickets_proofs ------------------------
(***************************************************************************)
(* Proofs about two components that share nothing: SystemAudit, for any    *)
(* directives, firewall managers, ports, fixers, faults and numbers of     *)
(* runs, fixes and edits; and SupportTickets, for any users, agents,       *)
(* threads, rejections, releases and tickets, any limit and any window.    *)
(***************************************************************************)
EXTENDS SystemAudit, SupportTickets, FiniteSetTheorems, SequenceTheorems, WellFoundedInduction, TLAPS

-----------------------------------------------------------------------------
(* The invariant of the runs.                                              *)

RunRow == [st : {"running", "completed", "failed"},
           pc : {"prev", "files", "wall", "commit", "critical", "high", "done"},
           prev : Nat, seen : SUBSET Nat,
           found : SUBSET Check, resolved : SUBSET Check, alerted : SUBSET Check]

\* Ids are given in order.
RunType == \E n \in Nat : Ids = 1..n /\ runs \in [1..n -> RunRow]

Early == {"prev", "files", "wall", "commit"}
Over(r) == runs[r].pc \in {"critical", "high", "done"}

\* How far a run is.
Stage(r) ==
  /\ runs[r].pc \in Early => runs[r].st = "running" /\ runs[r].resolved = {}
  /\ runs[r].pc = "prev" => runs[r].prev = 0 /\ runs[r].seen = {}
  /\ runs[r].pc \in AfterCommit => runs[r].st = "completed"

\* The baseline of a run had committed, and had begun before this run was over.
Link(r) ==
  LET p == runs[r].prev IN
  p # 0 => /\ p \in Ids /\ p # r /\ Over(p)
           /\ runs[p].st \in {"completed", "failed"}
           /\ r \notin runs[p].seen

\* Of the runs that were over when this one began, the baseline is the latest.
Sight(r) ==
  \A q \in runs[r].seen :
    q \in Ids /\ Over(q) /\ (q \in Completed => runs[r].prev >= q)

\* What a run tells to be resolved is a finding of its baseline.
Told(r) ==
  /\ runs[r].resolved \subseteq NonPassed(runs[r].prev)
  /\ runs[r].resolved \cap runs[r].found = {}

\* An alert that a run has still to send.
Pending(c, s) ==
  \/ runs[s].pc = "critical" /\ c \in Rise(s, Critical) \cup Rise(s, High)
  \/ runs[s].pc = "high" /\ c \in Rise(s, High)

\* The chain of baselines: a severe finding was sent, or will be, by the run that
\* has it or by one that serves as a baseline.
Serves(s, q) == s = q \/ \E t \in Ids : runs[t].prev = s
Chained(q) ==
  \A c \in runs[q].found \cap Severe :
    \E s \in Completed : (c \in runs[s].alerted \/ Pending(c, s)) /\ Serves(s, q)

RunsInv ==
  /\ RunType
  /\ \A r \in Ids : Stage(r) /\ Link(r) /\ Sight(r) /\ Told(r)
  /\ lost \in BOOLEAN
  /\ ~lost => /\ \A r \in Ids : runs[r].prev # 0 => runs[r].prev \in Completed
              /\ \A q \in Completed : Chained(q)

-----------------------------------------------------------------------------
(* Finite sets of ids.                                                     *)

LEMMA Bottom ==
  ASSUME NEW S, S \subseteq Nat, S # {}
  PROVE  \E x \in S : \A y \in S : x <= y
<1> DEFINE R == OpToRel(<, Nat)
<1>1. IsWellFoundedOn(R, Nat)
  BY NatLessThanWellFounded
<1>2. \A x, y \in Nat : y < x => <<y, x>> \in R
  BY DEF OpToRel
<1> HIDE DEF R
<1>3. PICK x \in S : \A y \in S : ~ (<<y, x>> \in R)
  BY <1>1, WFMin
<1>4. \A y \in S : x <= y
  <2>1. TAKE y \in S
  <2>2. x \in Nat /\ y \in Nat
    OBVIOUS
  <2>3. ~ (y < x)
    BY <1>2, <1>3, <2>2
  <2>4. QED
    BY <2>2, <2>3
<1>5. QED
  BY <1>4

LEMMA LatestIsIn ==
  ASSUME NEW n \in Nat, NEW S, S \subseteq 1..n, S # {}
  PROVE  LatestOf(S) \in S /\ \A s \in S : s <= LatestOf(S)
<1> DEFINE T == {n - s : s \in S}
<1>1. T \subseteq Nat /\ T # {}
  OBVIOUS
<1>2. PICK x \in T : \A y \in T : x <= y
  BY <1>1, Bottom
<1>3. PICK r \in S : x = n - r
  OBVIOUS
<1>4. \A s \in S : s <= r
  <2>1. TAKE s \in S
  <2>2. n - s \in T /\ s \in 1..n /\ r \in 1..n
    BY <1>3
  <2>3. n - r <= n - s
    BY <1>2, <1>3, <2>2
  <2>4. QED
    BY <2>2, <2>3
<1>5. \E z \in S : \A s \in S : s <= z
  BY <1>4
<1>6. QED
  BY <1>5 DEF LatestOf

LEMMA BaselineIsIn ==
  ASSUME RunType, NEW r \in Ids
  PROVE  /\ Baseline(r) # 0 => Baseline(r) \in Completed /\ Baseline(r) # r
         /\ Baseline(r) \in Nat
         /\ \A q \in Completed : q # r => q <= Baseline(r)
<1>1. PICK n \in Nat : Ids = 1..n
  BY DEF RunType
<1>2. Completed \ {r} \subseteq 1..n
  BY <1>1 DEF Completed
<1>3. CASE Completed \ {r} = {}
  BY <1>3 DEF Baseline, LatestOf
<1>4. CASE Completed \ {r} # {}
  BY <1>2, <1>4, LatestIsIn DEF Baseline
<1>5. QED
  BY <1>3, <1>4
-----------------------------------------------------------------------------
(* Steps of a run.                                                         *)

LEMMA RowChange ==
  ASSUME RunType, NEW r \in Ids, NEW v \in RunRow, runs' = [runs EXCEPT ![r] = v]
  PROVE  /\ RunType' /\ Ids' = Ids /\ runs'[r] = v
         /\ \A q \in Ids : q # r => runs'[q] = runs[q]
         /\ runs[r] \in RunRow
<1>1. PICK n \in Nat : Ids = 1..n /\ runs \in [1..n -> RunRow]
  BY DEF RunType
<1>2. runs' \in [1..n -> RunRow]
  BY <1>1
<1>3. Ids' = 1..n
  BY <1>2 DEF Ids
<1>4. RunType'
  BY <1>2, <1>3 DEF RunType
<1>5. QED
  BY <1>1, <1>2, <1>3, <1>4

\* A step that does not choose a baseline.
LEMMA AdvanceInv ==
  ASSUME RunsInv, NEW r \in Ids, NEW v \in RunRow, runs' = [runs EXCEPT ![r] = v],
         v.prev = runs[r].prev, v.seen = runs[r].seen, v.pc # "prev",
         v.pc \in Early => v.st = "running" /\ v.resolved = {},
         v.pc \in AfterCommit => v.st = "completed",
         Over(r) => v.pc \in {"critical", "high", "done"} /\ v.found = runs[r].found,
         runs[r].st \in {"completed", "failed"} => v.st \in {"completed", "failed"},
         Over(r) /\ v.st = "completed" => runs[r].st = "completed",
         v.resolved \subseteq NonPassed(v.prev), v.resolved \cap v.found = {}
  PROVE  /\ RunType' /\ Ids' = Ids
         /\ runs'[r] = v /\ \A q \in Ids : q # r => runs'[q] = runs[q]
         /\ \A q \in Ids : Over(q) => Over(q)' /\ NonPassed(runs[q].prev)' = NonPassed(runs[q].prev)
         /\ \A q \in Ids : Stage(q)' /\ Link(q)' /\ Sight(q)' /\ Told(q)'
<1>1. /\ RunType' /\ Ids' = Ids /\ runs'[r] = v /\ runs[r] \in RunRow
      /\ \A q \in Ids : q # r => runs'[q] = runs[q]
  BY RowChange DEF RunsInv
<1>2. \A q \in Ids : runs'[q].prev = runs[q].prev /\ runs'[q].seen = runs[q].seen
  BY <1>1
<1>3. \A q \in Ids : Over(q) => Over(q)' /\ runs'[q].found = runs[q].found
                                /\ (q \in Completed' => q \in Completed)
  BY <1>1 DEF Over, Completed
<1>4. \A q \in Ids : NonPassed(runs[q].prev)' = NonPassed(runs[q].prev)
  BY <1>1, <1>2, <1>3 DEF RunsInv, Link, NonPassed
<1>5. ASSUME NEW q \in Ids PROVE Stage(q)'
  BY <1>1 DEF RunsInv, Stage, Early, AfterCommit
<1>6. ASSUME NEW q \in Ids PROVE Link(q)'
  <2>1. SUFFICES ASSUME runs[q].prev # 0
                 PROVE  /\ runs[q].prev \in Ids /\ runs[q].prev # q /\ Over(runs[q].prev)'
                        /\ runs'[runs[q].prev].st \in {"completed", "failed"}
                        /\ q \notin runs'[runs[q].prev].seen
    BY <1>1, <1>2 DEF Link
  <2>2. Link(q)
    BY DEF RunsInv
  <2>3. QED
    BY <1>1, <1>2, <1>3, <2>1, <2>2 DEF Link
<1>7. ASSUME NEW q \in Ids PROVE Sight(q)'
  <2>1. Sight(q)
    BY DEF RunsInv
  <2>2. QED
    BY <1>1, <1>2, <1>3, <2>1 DEF Sight
<1>8. ASSUME NEW q \in Ids PROVE Told(q)'
  <2>1. Told(q) /\ Told(r)
    BY DEF RunsInv
  <2>2. CASE q = r
    BY <1>1, <1>2, <1>4, <2>2 DEF Told
  <2>3. CASE q # r
    BY <1>1, <1>2, <1>4, <2>1, <2>3 DEF Told
  <2>4. QED
    BY <2>2, <2>3
<1>9. QED
  BY <1>1, <1>3, <1>4, <1>5, <1>6, <1>7, <1>8

\* The alerts of the runs that are completed stay sent or pending.
LEMMA ChainInv ==
  ASSUME RunsInv, ~lost, Ids \subseteq Ids',
         \A q \in Ids : runs[q].prev # 0 => runs'[q].prev = runs[q].prev,
         \A q \in Completed :
           /\ q \in Completed' /\ runs'[q].found = runs[q].found
           /\ \A c \in Severe : c \in runs[q].alerted \/ Pending(c, q)
                                => c \in runs'[q].alerted \/ Pending(c, q)'
  PROVE  \A q \in Completed : Chained(q)'
<1> SUFFICES ASSUME NEW q \in Completed, NEW c \in runs'[q].found \cap Severe
             PROVE  \E s \in Completed' : (c \in runs'[s].alerted \/ Pending(c, s)') /\ Serves(s, q)'
  BY DEF Chained
<1>1. PICK s \in Completed : (c \in runs[s].alerted \/ Pending(c, s)) /\ Serves(s, q)
  BY DEF RunsInv, Chained
<1>2. s \in Ids /\ s # 0
  BY DEF RunsInv, RunType, Completed
<1>3. Serves(s, q)'
  BY <1>1, <1>2 DEF Serves
<1>4. QED
  BY <1>1, <1>3

LEMMA CheckStep ==
  ASSUME RunsInv, NEW r \in Ids, CheckFiles(r) \/ CheckWall(r)
  PROVE  RunsInv'
<1>1. RunType /\ runs[r] \in RunRow
  BY SMTT(30) DEF RunsInv, RunType
<1>2. PICK pc \in {"wall", "commit"}, found \in SUBSET Check :
        /\ runs[r].pc \in {"files", "wall"}
        /\ runs' = [runs EXCEPT ![r] = [runs[r] EXCEPT !.pc = pc, !.found = found]]
        /\ lost' = lost
  <2>1. CASE CheckFiles(r)
    <3>1. PICK seen \in {FileChecks} \cup (IF "module" \in Faults THEN {{}} ELSE {}) :
            runs' = [runs EXCEPT ![r].pc = "wall", ![r].found = {c \in seen : Flagged(c)}]
      BY <2>1 DEF CheckFiles
    <3>2. {c \in seen : Flagged(c)} \in SUBSET Check
      BY DEF FileChecks, Check
    <3>3. runs' = [runs EXCEPT ![r] = [runs[r] EXCEPT !.pc = "wall",
                                          !.found = {c \in seen : Flagged(c)}]]
      BY <1>1, <3>1
    <3>4. QED
      BY <2>1, <3>2, <3>3 DEF CheckFiles, history
  <2>2. CASE CheckWall(r)
    <3>1. PICK seen \in {WallChecks} \cup (IF "probe" \in Faults THEN {Manager} ELSE {})
                                     \cup (IF "module" \in Faults THEN {{}} ELSE {}) :
            runs' = [runs EXCEPT ![r].pc = "commit", ![r].found = @ \cup {c \in seen : Flagged(c)}]
      BY <2>2 DEF CheckWall
    <3>2. runs[r].found \cup {c \in seen : Flagged(c)} \in SUBSET Check
      BY <1>1 DEF WallChecks, Check, RunRow
    <3>3. runs' = [runs EXCEPT ![r] = [runs[r] EXCEPT !.pc = "commit",
                                 !.found = runs[r].found \cup {c \in seen : Flagged(c)}]]
      BY <1>1, <3>1
    <3>4. QED
      BY <2>2, <3>2, <3>3 DEF CheckWall, history
  <2>3. QED
    BY <2>1, <2>2
<1> DEFINE v == [runs[r] EXCEPT !.pc = pc, !.found = found]
<1>3. /\ v \in RunRow /\ v.pc = pc /\ v.found = found
      /\ v.prev = runs[r].prev /\ v.seen = runs[r].seen /\ v.st = runs[r].st
      /\ v.resolved = runs[r].resolved
  BY <1>1 DEF RunRow
<1>4. runs[r].st = "running" /\ runs[r].resolved = {} /\ ~Over(r)
  BY <1>2 DEF RunsInv, Stage, Early, Over
<1> HIDE DEF v
<1>5. runs' = [runs EXCEPT ![r] = v]
  BY <1>2 DEF v
<1>6. /\ RunType' /\ Ids' = Ids
      /\ runs'[r] = v /\ \A q \in Ids : q # r => runs'[q] = runs[q]
      /\ \A q \in Ids : Over(q) => NonPassed(runs[q].prev)' = NonPassed(runs[q].prev)
      /\ \A q \in Ids : Stage(q)' /\ Link(q)' /\ Sight(q)' /\ Told(q)'
  BY <1>3, <1>4, <1>5, AdvanceInv DEF Early, AfterCommit
<1>7. Completed' = Completed /\ r \notin Completed
  BY <1>3, <1>4, <1>6 DEF Completed
<1>8. ASSUME ~lost PROVE \A q \in Completed : Chained(q)'
  <2>1. \A q \in Completed : runs'[q] = runs[q]
    BY <1>6, <1>7 DEF Completed
  <2>2. ASSUME NEW q \in Completed, NEW c \in Severe, Pending(c, q) PROVE Pending(c, q)'
    <3>1. Over(q) /\ q \in Ids
      BY <2>2 DEF Pending, Over, Completed
    <3>2. NonPassed(runs[q].prev)' = NonPassed(runs[q].prev)
      BY <1>6, <3>1
    <3>3. QED
      BY <2>1, <2>2, <3>2 DEF Pending, Rise
  <2>3. \A q \in Ids : runs'[q].prev = runs[q].prev
    BY <1>3, <1>6
  <2>4. QED
    BY <1>6, <1>7, <1>8, <2>1, <2>2, <2>3, ChainInv
<1>9. ~lost' => \A q \in Ids : runs'[q].prev # 0 => runs'[q].prev \in Completed'
  BY <1>2, <1>3, <1>6, <1>7 DEF RunsInv
<1>10. QED
  BY <1>2, <1>6, <1>7, <1>8, <1>9 DEF RunsInv

LEMMA CommitStep ==
  ASSUME RunsInv, NEW r \in Ids, Commit(r)
  PROVE  RunsInv'
<1>0. PICK p : p = runs[r].prev
  OBVIOUS
<1> DEFINE v == [runs[r] EXCEPT !.pc = "critical", !.st = "completed",
                   !.resolved = NonPassed(p) \ runs[r].found]
<1>1. RunType /\ runs[r] \in RunRow
  BY DEF RunsInv, RunType
<1>2. runs[r].pc = "commit" /\ runs[r].st = "running" /\ ~Over(r) /\ r \notin Completed
  BY DEF Commit, RunsInv, Stage, Early, Over, Completed
<1>3. NonPassed(p) \in SUBSET Check
  <2>1. CASE p = 0
    BY <2>1 DEF NonPassed
  <2>2. CASE p # 0
    BY <1>0, <2>2 DEF NonPassed, RunsInv, Link, RunType, RunRow
  <2>3. QED
    BY <2>1, <2>2
<1>4. /\ v \in RunRow /\ v.pc = "critical" /\ v.st = "completed" /\ v.found = runs[r].found
      /\ v.prev = p /\ v.seen = runs[r].seen /\ v.resolved = NonPassed(p) \ runs[r].found
  BY <1>0, <1>1, <1>3 DEF RunRow
<1>5. runs' = [runs EXCEPT ![r] = v] /\ lost' = lost
  BY <1>0, <1>1 DEF Commit, history
<1> HIDE DEF v
<1>6. /\ RunType' /\ Ids' = Ids
      /\ runs'[r] = v /\ \A q \in Ids : q # r => runs'[q] = runs[q]
      /\ \A q \in Ids : Over(q) => NonPassed(runs[q].prev)' = NonPassed(runs[q].prev)
      /\ \A q \in Ids : Stage(q)' /\ Link(q)' /\ Sight(q)' /\ Told(q)'
  BY <1>0, <1>2, <1>4, <1>5, AdvanceInv DEF Early, AfterCommit
<1>7. Completed' = Completed \cup {r}
  BY <1>4, <1>6 DEF Completed
<1>8. \A q \in Ids : runs'[q].prev = runs[q].prev
  BY <1>0, <1>4, <1>6
<1>9. ASSUME ~lost PROVE \A q \in Completed' : Chained(q)'
  <2>1. \A q \in Completed : runs'[q] = runs[q]
    BY <1>2, <1>6 DEF Completed
  <2>2. ASSUME NEW q \in Completed, NEW c \in Severe, Pending(c, q) PROVE Pending(c, q)'
    <3>1. Over(q) /\ q \in Ids
      BY <2>2 DEF Pending, Over, Completed
    <3>2. NonPassed(runs[q].prev)' = NonPassed(runs[q].prev)
      BY <1>6, <3>1
    <3>3. QED
      BY <2>1, <2>2, <3>2 DEF Pending, Rise
  <2>3. \A q \in Completed : Chained(q)'
    BY <1>6, <1>7, <1>8, <1>9, <2>1, <2>2, ChainInv
  <2>4. Chained(r)'
    <3> SUFFICES ASSUME NEW c \in runs'[r].found \cap Severe
                 PROVE  \E s \in Completed' :
                          (c \in runs'[s].alerted \/ Pending(c, s)') /\ Serves(s, r)'
      BY DEF Chained
    <3>1. CASE c \in NonPassed(p)
      <4>1. p # 0 /\ p \in Completed
        BY <1>0, <1>9, <3>1 DEF NonPassed, RunsInv
      <4>2. p \in Ids /\ runs'[p] = runs[p] /\ p # r
        BY <1>2, <1>6, <4>1 DEF Completed
      <4>3. c \in runs'[p].found \cap Severe
        BY <3>1, <4>1, <4>2 DEF NonPassed
      <4>4. PICK s \in Completed' : (c \in runs'[s].alerted \/ Pending(c, s)') /\ Serves(s, p)'
        BY <2>3, <4>1, <4>3 DEF Chained
      <4>5. Serves(s, r)'
        <5>1. CASE s = p
          BY <1>4, <1>6, <5>1 DEF Serves
        <5>2. CASE \E t \in Ids' : runs'[t].prev = s
          BY <5>2 DEF Serves
        <5>3. QED
          BY <4>4, <5>1, <5>2 DEF Serves
      <4>6. QED
        BY <4>4, <4>5
    <3>2. CASE c \notin NonPassed(p)
      <4>1. NonPassed(p)' = NonPassed(p)
        <5>1. CASE p = 0
          BY <5>1 DEF NonPassed
        <5>2. CASE p # 0
          BY <1>0, <1>6, <5>2 DEF NonPassed, RunsInv, Link
        <5>3. QED
          BY <5>1, <5>2
      <4>2. NonPassed(runs[r].prev)' = NonPassed(p)
        BY <1>4, <1>6, <4>1
      <4>3. c \in Rise(r, Critical)' \cup Rise(r, High)'
        BY <3>2, <4>2 DEF Rise, Severe
      <4>4. Pending(c, r)' /\ r \in Completed'
        BY <1>4, <1>6, <1>7, <4>3 DEF Pending
      <4>5. QED
        BY <4>4 DEF Serves
    <3>3. QED
      BY <3>1, <3>2
  <2>5. QED
    BY <1>7, <2>3, <2>4
<1>10. ~lost' => \A q \in Ids : runs'[q].prev # 0 => runs'[q].prev \in Completed'
  BY <1>5, <1>7, <1>8 DEF RunsInv
<1>11. QED
  BY <1>5, <1>6, <1>9, <1>10 DEF RunsInv

LEMMA AlertStep ==
  ASSUME RunsInv, NEW r \in Ids, AlertCritical(r) \/ AlertHigh(r)
  PROVE  RunsInv'
<1>1. RunType /\ runs[r] \in RunRow
  BY DEF RunsInv, RunType
<1>2. PICK pc \in {"high", "done"}, kind \in {Critical, High} :
        /\ \/ runs[r].pc = "critical" /\ pc = "high" /\ kind = Critical
           \/ runs[r].pc = "high" /\ pc = "done" /\ kind = High
        /\ runs' = [runs EXCEPT ![r] = [runs[r] EXCEPT !.pc = pc,
                                          !.alerted = runs[r].alerted \cup Rise(r, kind)]]
        /\ lost' = lost
  BY <1>1 DEF AlertCritical, AlertHigh, history
<1> DEFINE v == [runs[r] EXCEPT !.pc = pc, !.alerted = runs[r].alerted \cup Rise(r, kind)]
<1>3. /\ v \in RunRow /\ v.pc = pc /\ v.found = runs[r].found
      /\ v.prev = runs[r].prev /\ v.seen = runs[r].seen /\ v.st = runs[r].st
      /\ v.resolved = runs[r].resolved /\ v.alerted = runs[r].alerted \cup Rise(r, kind)
  BY <1>1 DEF RunRow, Rise
<1>4. runs[r].st = "completed" /\ Over(r) /\ r \in Completed
      /\ runs[r].resolved \subseteq NonPassed(runs[r].prev)
      /\ runs[r].resolved \cap runs[r].found = {}
  BY <1>2 DEF RunsInv, Stage, AfterCommit, Over, Told, Completed
<1> HIDE DEF v
<1>5. runs' = [runs EXCEPT ![r] = v]
  BY <1>2 DEF v
<1>6. /\ RunType' /\ Ids' = Ids
      /\ runs'[r] = v /\ \A q \in Ids : q # r => runs'[q] = runs[q]
      /\ \A q \in Ids : Over(q) => NonPassed(runs[q].prev)' = NonPassed(runs[q].prev)
      /\ \A q \in Ids : Stage(q)' /\ Link(q)' /\ Sight(q)' /\ Told(q)'
  BY <1>3, <1>4, <1>5, AdvanceInv DEF Early, AfterCommit
<1>7. Completed' = Completed
  BY <1>3, <1>4, <1>6 DEF Completed
<1>8. /\ \A q \in Ids : runs'[q].prev = runs[q].prev
      /\ \A q \in Completed : runs'[q].found = runs[q].found
  BY <1>3, <1>6 DEF Completed
<1>9. ASSUME ~lost PROVE \A q \in Completed : Chained(q)'
  <2>1. ASSUME NEW q \in Completed, NEW c \in Severe, c \in runs[q].alerted \/ Pending(c, q)
        PROVE  c \in runs'[q].alerted \/ Pending(c, q)'
    <3>1. Over(q) /\ q \in Ids
      BY DEF RunsInv, Stage, Completed, Over, Early, RunType, RunRow
    <3>2. NonPassed(runs[q].prev)' = NonPassed(runs[q].prev)
      BY <1>6, <3>1
    <3>3. Rise(q, Critical)' = Rise(q, Critical) /\ Rise(q, High)' = Rise(q, High)
      BY <1>8, <3>1, <3>2 DEF Rise
    <3>4. CASE q # r
      BY <1>6, <2>1, <3>1, <3>3, <3>4 DEF Pending
    <3>5. CASE q = r
      BY <1>2, <1>3, <1>6, <2>1, <3>3, <3>5 DEF Pending
    <3>6. QED
      BY <3>4, <3>5
  <2>2. QED
    BY <1>6, <1>7, <1>8, <1>9, <2>1, ChainInv
<1>10. ~lost' => \A q \in Ids : runs'[q].prev # 0 => runs'[q].prev \in Completed'
  BY <1>2, <1>7, <1>8 DEF RunsInv
<1>11. QED
  BY <1>2, <1>6, <1>7, <1>9, <1>10 DEF RunsInv

\* A run that fails takes its alerts with it: either no other relies on them, or
\* the baseline is lost.
LEMMA FailStep ==
  ASSUME RunsInv, NEW r \in Ids, Fail(r)
  PROVE  RunsInv'
<1> DEFINE f == IF runs[r].pc \in AfterCommit THEN runs[r].found ELSE {}
           v == [runs[r] EXCEPT !.pc = "done", !.st = "failed", !.found = f]
<1>1. RunType /\ runs[r] \in RunRow
  BY DEF RunsInv, RunType
<1>2. /\ v \in RunRow /\ v.pc = "done" /\ v.st = "failed" /\ v.found = f
      /\ v.prev = runs[r].prev /\ v.seen = runs[r].seen
      /\ v.resolved = runs[r].resolved
  BY <1>1 DEF RunRow
<1>3. /\ runs' = [runs EXCEPT ![r] = v]
      /\ lost' = (lost \/ \E s \in Ids : runs[s].prev = r)
      /\ runs[r].pc # "done"
  BY <1>1 DEF Fail
<1>4. /\ Over(r) => f = runs[r].found
      /\ runs[r].resolved \subseteq NonPassed(runs[r].prev)
      /\ runs[r].resolved \cap f = {}
  BY <1>3 DEF RunsInv, Told, Over, AfterCommit
<1> HIDE DEF v, f
<1>5. /\ RunType' /\ Ids' = Ids
      /\ runs'[r] = v /\ \A q \in Ids : q # r => runs'[q] = runs[q]
      /\ \A q \in Ids : Over(q) => NonPassed(runs[q].prev)' = NonPassed(runs[q].prev)
      /\ \A q \in Ids : Stage(q)' /\ Link(q)' /\ Sight(q)' /\ Told(q)'
  BY <1>2, <1>3, <1>4, AdvanceInv DEF Early, AfterCommit
<1>6. Completed' = Completed \ {r}
  BY <1>2, <1>5 DEF Completed
<1>7. \A q \in Ids : runs'[q].prev = runs[q].prev
  BY <1>2, <1>5
<1>8. ASSUME ~lost' PROVE /\ \A q \in Ids : runs'[q].prev # 0 => runs'[q].prev \in Completed'
                          /\ \A q \in Completed' : Chained(q)'
  <2>1. ~lost /\ \A s \in Ids : runs[s].prev # r
    BY <1>3, <1>8
  <2>2. \A q \in Ids : runs'[q].prev # 0 => runs'[q].prev \in Completed'
    BY <1>6, <1>7, <2>1 DEF RunsInv
  <2>3. ASSUME NEW q \in Completed', NEW c \in runs'[q].found \cap Severe
        PROVE  \E s \in Completed' : (c \in runs'[s].alerted \/ Pending(c, s)') /\ Serves(s, q)'
    <3>1. q \in Completed /\ q # r /\ q \in Ids
      BY <1>6 DEF Completed
    <3>2. c \in runs[q].found \cap Severe
      BY <1>5, <2>3, <3>1
    <3>3. PICK s \in Completed : (c \in runs[s].alerted \/ Pending(c, s)) /\ Serves(s, q)
      BY <2>1, <3>1, <3>2 DEF RunsInv, Chained
    <3>4. s # r /\ s \in Ids
      BY <2>1, <3>1, <3>3 DEF Serves, Completed
    <3>5. s \in Completed' /\ runs'[s] = runs[s] /\ Serves(s, q)'
      BY <1>5, <1>6, <1>7, <3>3, <3>4 DEF Serves
    <3>6. Pending(c, s) => Pending(c, s)'
      <4>1. HAVE Pending(c, s)
      <4>2. NonPassed(runs[s].prev)' = NonPassed(runs[s].prev)
        BY <1>5, <3>4, <4>1 DEF Pending, Over
      <4>3. QED
        BY <3>5, <4>1, <4>2 DEF Pending, Rise
    <3>7. QED
      BY <3>3, <3>5, <3>6
  <2>4. QED
    BY <2>2, <2>3 DEF Chained
<1>9. lost' \in BOOLEAN
  BY <1>3 DEF RunsInv
<1>10. QED
  BY <1>5, <1>8, <1>9 DEF RunsInv

LEMMA CompletedIsOver ==
  ASSUME RunsInv, NEW q \in Completed
  PROVE  q \in Ids /\ q # 0 /\ Over(q)
BY DEF RunsInv, RunType, RunRow, Stage, Completed, Over, Early

LEMMA ReadStep ==
  ASSUME RunsInv, NEW r \in Ids, ReadPrev(r)
  PROVE  RunsInv'
<1>0. PICK b : b = Baseline(r)
  OBVIOUS
<1> DEFINE v == [runs[r] EXCEPT !.pc = "files", !.prev = b, !.seen = Ended]
<1>1. RunType /\ runs[r] \in RunRow
  BY DEF RunsInv, RunType
<1>2. /\ b # 0 => b \in Completed /\ b # r
      /\ b \in Nat
      /\ \A q \in Completed : q # r => q <= b
  BY <1>0, <1>1, BaselineIsIn
<1>3. Ended \in SUBSET Nat
  BY <1>1 DEF Ended, RunType
<1>4. /\ v \in RunRow /\ v.pc = "files" /\ v.st = runs[r].st /\ v.found = runs[r].found
      /\ v.prev = b /\ v.seen = Ended /\ v.resolved = runs[r].resolved
  BY <1>1, <1>2, <1>3 DEF RunRow
<1>5. /\ runs[r].pc = "prev" /\ runs[r].st = "running" /\ runs[r].resolved = {}
      /\ runs[r].prev = 0 /\ ~Over(r) /\ r \notin Completed
  BY DEF ReadPrev, RunsInv, Stage, Early, Over, Completed
<1>6. runs' = [runs EXCEPT ![r] = v] /\ lost' = lost
  BY <1>0, <1>1 DEF ReadPrev, history
<1> HIDE DEF v
<1>7. /\ RunType' /\ Ids' = Ids /\ runs'[r] = v
      /\ \A q \in Ids : q # r => runs'[q] = runs[q]
  BY <1>1, <1>4, <1>6, RowChange
<1>8. Completed' = Completed
  BY <1>4, <1>5, <1>7 DEF Completed
<1>9. \A q \in Ids : Over(q) => q # r /\ runs'[q] = runs[q] /\ Over(q)'
  BY <1>5, <1>7 DEF Over
<1>10. ASSUME NEW q \in Ids PROVE Stage(q)'
  BY <1>4, <1>5, <1>7 DEF RunsInv, Stage, Early, AfterCommit
<1>11. ASSUME NEW q \in Ids PROVE Link(q)'
  <2>1. CASE q = r
    <3>1. SUFFICES ASSUME b # 0
                   PROVE  /\ b \in Ids /\ b # r /\ Over(b)' /\ runs'[b].st = "completed"
                          /\ r \notin runs'[b].seen
      BY <1>4, <1>7, <2>1 DEF Link
    <3>2. b \in Completed /\ b \in Ids /\ Over(b)
      BY <1>2, <3>1, CompletedIsOver
    <3>3. r \notin runs[b].seen
      BY <1>5, <3>2 DEF RunsInv, Sight
    <3>4. QED
      BY <1>2, <1>9, <3>1, <3>2, <3>3 DEF Completed
  <2>2. CASE q # r
    <3>1. Link(q) /\ runs'[q] = runs[q]
      BY <1>7, <2>2 DEF RunsInv
    <3>2. QED
      BY <1>7, <1>9, <3>1 DEF Link
  <2>3. QED
    BY <2>1, <2>2
<1>12. ASSUME NEW q \in Ids PROVE Sight(q)'
  <2>1. CASE q = r
    <3>1. ASSUME NEW t \in Ended
          PROVE  t \in Ids' /\ Over(t)' /\ (t \in Completed' => b >= t)
      <4>1. t \in Ids /\ Over(t)
        BY DEF Ended, Over
      <4>2. t \in Nat
        BY <1>3
      <4>3. QED
        BY <1>2, <1>7, <1>8, <1>9, <4>1, <4>2
    <3>2. QED
      BY <1>4, <1>7, <2>1, <3>1 DEF Sight
  <2>2. CASE q # r
    <3>1. Sight(q) /\ runs'[q] = runs[q]
      BY <1>7, <2>2 DEF RunsInv
    <3>2. QED
      BY <1>7, <1>8, <1>9, <3>1 DEF Sight
  <2>3. QED
    BY <2>1, <2>2
<1>13. ASSUME NEW q \in Ids, q # r
       PROVE  runs'[q] = runs[q] /\ NonPassed(runs[q].prev)' = NonPassed(runs[q].prev)
  <2>1. Link(q) /\ runs'[q] = runs[q]
    BY <1>7, <1>13 DEF RunsInv
  <2>2. CASE runs[q].prev = 0
    BY <2>1, <2>2 DEF NonPassed
  <2>3. CASE runs[q].prev # 0
    BY <1>9, <2>1, <2>3 DEF NonPassed, Link
  <2>4. QED
    BY <2>1, <2>2, <2>3
<1>14. ASSUME NEW q \in Ids PROVE Told(q)'
  <2>1. CASE q = r
    BY <1>4, <1>5, <1>7, <2>1 DEF Told
  <2>2. CASE q # r
    BY <1>13, <2>2 DEF RunsInv, Told
  <2>3. QED
    BY <2>1, <2>2
<1>15. ASSUME ~lost PROVE \A q \in Completed : Chained(q)'
  <2>1. ASSUME NEW q \in Completed, NEW c \in Severe, c \in runs[q].alerted \/ Pending(c, q)
        PROVE  c \in runs'[q].alerted \/ Pending(c, q)'
    <3>1. q \in Ids /\ q # r
      BY <1>5, CompletedIsOver
    <3>2. QED
      BY <1>13, <2>1, <3>1 DEF Pending, Rise
  <2>2. \A q \in Completed : runs'[q].found = runs[q].found
    BY <1>5, <1>13, CompletedIsOver
  <2>3. \A q \in Ids : runs[q].prev # 0 => runs'[q].prev = runs[q].prev
    BY <1>5, <1>7
  <2>4. QED
    BY <1>7, <1>8, <1>15, <2>1, <2>2, <2>3, ChainInv
<1>16. ASSUME ~lost PROVE \A q \in Ids : runs'[q].prev # 0 => runs'[q].prev \in Completed'
  BY <1>2, <1>4, <1>7, <1>8, <1>16 DEF RunsInv
<1>17. QED
  BY <1>6, <1>7, <1>8, <1>10, <1>11, <1>12, <1>14, <1>15, <1>16 DEF RunsInv

LEMMA StartStep ==
  ASSUME RunsInv, StartRun
  PROVE  RunsInv'
<1>1. PICK n \in Nat : Ids = 1..n /\ runs \in [1..n -> RunRow]
  BY DEF RunsInv, RunType
<1>2. Cardinality(Ids) = n
  <2>1. Cardinality(1..n) = n
    BY FS_Interval
  <2>2. QED
    BY <1>1, <2>1
<1>3. /\ runs' = [r \in 1..(n + 1) |-> IF r \in Ids THEN runs[r] ELSE NewRun]
      /\ lost' = lost
  <2>1. Ids \cup {Cardinality(Ids) + 1} = 1..(n + 1)
    BY <1>1, <1>2
  <2>2. QED
    BY <2>1 DEF StartRun, history
<1>4. NewRun \in RunRow
  BY DEF NewRun, RunRow
<1>5. runs' \in [1..(n + 1) -> RunRow] /\ Ids' = 1..(n + 1)
  BY <1>1, <1>3, <1>4 DEF Ids
<1>6. RunType' /\ Ids \subseteq Ids'
  BY <1>1, <1>5 DEF RunType
<1>7. \A q \in Ids : runs'[q] = runs[q]
  BY <1>1, <1>3
<1>8. \A q \in Ids' : q \notin Ids => runs'[q] = NewRun
  BY <1>3, <1>5
<1>9. Completed' = Completed
  BY <1>6, <1>7, <1>8 DEF Completed, NewRun
<1>10. ASSUME NEW q \in Ids
       PROVE  NonPassed(runs[q].prev)' = NonPassed(runs[q].prev)
  BY <1>7 DEF NonPassed, RunsInv, Link
<1>11. ASSUME NEW q \in Ids PROVE Stage(q)' /\ Link(q)' /\ Sight(q)' /\ Told(q)'
  <2>1. Stage(q) /\ Link(q) /\ Sight(q) /\ Told(q) /\ runs'[q] = runs[q]
    BY <1>7 DEF RunsInv
  <2>2. Stage(q)'
    BY <2>1 DEF Stage
  <2>3. Link(q)'
    BY <1>6, <1>7, <2>1 DEF Link, Over
  <2>4. Sight(q)'
    BY <1>6, <1>7, <1>9, <2>1 DEF Sight, Over
  <2>5. Told(q)'
    BY <1>10, <2>1 DEF Told
  <2>6. QED
    BY <2>2, <2>3, <2>4, <2>5
<1>12. ASSUME NEW q \in Ids', q \notin Ids PROVE Stage(q)' /\ Link(q)' /\ Sight(q)' /\ Told(q)'
  BY <1>8, <1>12 DEF NewRun, Stage, Link, Sight, Told, Early, AfterCommit
<1>13. ASSUME ~lost PROVE \A q \in Completed : Chained(q)'
  <2>1. \A q \in Completed : q \in Ids
    BY DEF Completed
  <2>2. QED
    BY <1>6, <1>7, <1>9, <1>10, <1>13, <2>1, ChainInv DEF Pending, Rise
<1>14. ASSUME ~lost PROVE \A q \in Ids' : runs'[q].prev # 0 => runs'[q].prev \in Completed'
  BY <1>7, <1>8, <1>9, <1>14 DEF RunsInv, NewRun
<1>15. QED
  BY <1>3, <1>6, <1>9, <1>11, <1>12, <1>13, <1>14 DEF RunsInv

LEMMA CrashStep ==
  ASSUME RunsInv, Crash
  PROVE  RunsInv'
<1>1. PICK n \in Nat : Ids = 1..n /\ runs \in [1..n -> RunRow]
  BY DEF RunsInv, RunType
<1>2. /\ runs' = [r \in Ids |->
                    IF runs[r].pc = "done" THEN runs[r]
                    ELSE [runs[r] EXCEPT !.pc = "done",
                            !.found = IF runs[r].pc \in AfterCommit THEN @ ELSE {}]]
      /\ lost' = (lost \/ \E r \in Ids : runs[r].pc \in AfterCommit)
  BY DEF Crash
<1>3. Ids' = Ids
  BY <1>2 DEF Ids
<1>4. ASSUME NEW q \in Ids
      PROVE  /\ runs'[q] \in RunRow /\ runs'[q].pc = "done" /\ runs'[q].st = runs[q].st
             /\ runs'[q].prev = runs[q].prev /\ runs'[q].seen = runs[q].seen
             /\ runs'[q].resolved = runs[q].resolved /\ runs'[q].alerted = runs[q].alerted
             /\ runs'[q].found \subseteq runs[q].found
             /\ Over(q) => runs'[q].found = runs[q].found
             /\ Over(q)'
  BY <1>1, <1>2 DEF RunRow, Over, AfterCommit
<1>5. RunType'
  <2>1. runs' \in [1..n -> RunRow]
    BY <1>1, <1>2, <1>4
  <2>2. QED
    BY <1>1, <1>3, <2>1 DEF RunType
<1>6. Completed' = Completed
  BY <1>3, <1>4 DEF Completed
<1>7. ASSUME NEW q \in Ids
      PROVE  NonPassed(runs[q].prev)' = NonPassed(runs[q].prev)
  BY <1>4 DEF NonPassed, RunsInv, Link
<1>8. ASSUME NEW q \in Ids PROVE Stage(q)' /\ Link(q)' /\ Sight(q)' /\ Told(q)'
  <2>1. Stage(q) /\ Link(q) /\ Sight(q) /\ Told(q)
    BY DEF RunsInv
  <2>2. Stage(q)'
    BY <1>4 DEF Stage, Early, AfterCommit
  <2>3. Link(q)'
    BY <1>3, <1>4, <2>1 DEF Link
  <2>4. Sight(q)'
    BY <1>3, <1>4, <1>6, <2>1 DEF Sight
  <2>5. Told(q)'
    BY <1>4, <1>7, <2>1 DEF Told
  <2>6. QED
    BY <2>2, <2>3, <2>4, <2>5
<1>9. ASSUME ~lost' PROVE /\ \A q \in Ids : runs'[q].prev # 0 => runs'[q].prev \in Completed'
                          /\ \A q \in Completed' : Chained(q)'
  <2>1. ~lost /\ \A q \in Ids : runs[q].pc \notin AfterCommit
    BY <1>2, <1>9
  <2>2. ASSUME NEW q \in Completed
        PROVE  q \in Ids /\ runs'[q].found = runs[q].found
    BY <1>4, CompletedIsOver
  <2>3. \A q \in Completed : \A c : ~Pending(c, q)
    BY <2>1, <2>2 DEF Pending, AfterCommit
  <2>4. \A q \in Completed : Chained(q)'
    BY <1>3, <1>4, <1>6, <2>1, <2>2, <2>3, ChainInv
  <2>5. QED
    BY <1>4, <1>6, <2>1, <2>4 DEF RunsInv
<1>10. lost' \in BOOLEAN
  BY <1>2 DEF RunsInv
<1>11. QED
  BY <1>3, <1>5, <1>8, <1>9, <1>10 DEF RunsInv
-----------------------------------------------------------------------------
(* The theorems about the runs.                                            *)

THEOREM RunsInvariance == Spec => []RunsInv
<1>1. Init => RunsInv
  <2> SUFFICES ASSUME Init PROVE RunsInv
    OBVIOUS
  <2>1. Ids = 1..0 /\ runs \in [1..0 -> RunRow] /\ Ids = {}
    BY DEF Init, Ids
  <2>2. RunType
    BY <2>1 DEF RunType
  <2>3. QED
    BY <2>1, <2>2 DEF Init, RunsInv, Completed
<1>2. RunsInv /\ [Next]_vars => RunsInv'
  <2> SUFFICES ASSUME RunsInv, [Next]_vars PROVE RunsInv'
    OBVIOUS
  <2> USE DEF Ids
  <2>1. CASE StartRun
    BY <2>1, StartStep
  <2>2. ASSUME NEW r \in Ids, RunStep(r) PROVE RunsInv'
    BY <2>2, ReadStep, CheckStep, CommitStep, AlertStep, FailStep DEF RunStep
  <2>3. CASE Crash
    BY <2>3, CrashStep
  <2>4. ASSUME runs' = runs, lost' = lost PROVE RunsInv'
    BY <2>4, SMTT(30) DEF RunsInv, RunType, Stage, Link, Sight, Told, Over, Completed, NonPassed,
                Chained, Serves, Pending, Rise
  <2>5. ASSUME NEW f \in Fixer, FixStep(f) PROVE RunsInv'
    <3>1. runs' = runs /\ lost' = lost
      BY <2>5 DEF FixStep, StartFix, OpenConfig, WriteConfig, Validate, Reload, Restore, FixMode,
                  AllowSsh, EnableWall, ToolFails, Report, TimeOut, history
    <3>2. QED
      BY <2>4, <3>1
  <2>6. CASE Hand
    BY <2>4, <2>6 DEF Hand, EditConfig, EditPort, LoosenMode, StopWall, Edited
  <2>7. CASE UNCHANGED vars
    BY <2>4, <2>7 DEF vars, history
  <2>8. QED
    BY <2>1, <2>2, <2>3, <2>5, <2>6, <2>7 DEF Next
<1>3. QED
  BY <1>1, <1>2, PTL DEF Spec

LEMMA RunsSayAll == RunsInv => NoSilentRise
<1> SUFFICES ASSUME RunsInv, ~lost, \A r \in Ids : runs[r].pc \notin AfterCommit,
                    NEW c \in NonPassed(LatestOf(Completed)) \cap Severe
             PROVE  Reported(c, LatestOf(Completed))
  BY DEF NoSilentRise
<1>0. PICK l : l = LatestOf(Completed)
  OBVIOUS
<1>1. PICK n \in Nat : Ids = 1..n
  BY DEF RunsInv, RunType
<1>2. Completed # {} /\ Completed \subseteq 1..n
  BY <1>1 DEF NonPassed, LatestOf, Completed
<1>3. l \in Completed /\ \A s \in Completed : s <= l
  BY <1>0, <1>2, LatestIsIn
<1>4. l # 0 /\ c \in runs[l].found \cap Severe
  BY <1>0, <1>3, CompletedIsOver DEF NonPassed
<1>5. PICK s \in Completed : c \in runs[s].alerted \/ Pending(c, s)
  BY <1>3, <1>4 DEF RunsInv, Chained
<1>6. s \in Ids /\ s <= l /\ c \in runs[s].alerted
  BY <1>3, <1>5, CompletedIsOver DEF Pending, AfterCommit
<1>7. QED
  BY <1>0, <1>6 DEF Reported

\* No rise goes unreported, whatever the runs, the faults and their order.
THEOREM NoRiseIsSilent == Spec => []NoSilentRise
BY RunsInvariance, RunsSayAll, PTL

LEMMA RunsResolveOnce == RunsInv => ResolvedOnce
<1> SUFFICES ASSUME RunsInv, InTurn, NEW r \in Completed, NEW s \in Completed, r < s,
                    NEW c \in runs[r].resolved \cap runs[s].resolved
             PROVE  \E t \in Recorded : r < t /\ t < s /\ c \in runs[t].found
  BY DEF ResolvedOnce
<1>0. PICK p : p = runs[s].prev
  OBVIOUS
<1>1. /\ r \in Ids /\ Over(r) /\ s \in Ids /\ Over(s)
      /\ r \in Nat /\ s \in Nat
  BY CompletedIsOver DEF RunsInv, RunType
<1>2. c \in NonPassed(p) /\ c \notin runs[r].found
  BY <1>0, <1>1 DEF RunsInv, Told
<1>3. p # 0 /\ c \in runs[p].found
  BY <1>2 DEF NonPassed
<1>4. /\ p \in Ids /\ p # s /\ Over(p) /\ s \notin runs[p].seen
      /\ runs[p].st \in {"completed", "failed"}
  BY <1>0, <1>1, <1>3 DEF RunsInv, Link
<1>5. p \in Recorded /\ p \in Nat
  BY <1>3, <1>4 DEF Recorded, RunsInv, RunType
<1>6. r \in runs[s].seen
  BY <1>1 DEF InTurn, Over
<1>7. p >= r
  BY <1>0, <1>1, <1>6 DEF RunsInv, Sight
<1>8. p # r
  BY <1>2, <1>3
<1>9. ~ (s < p)
  BY <1>1, <1>4 DEF InTurn, Over
<1>10. r < p /\ p < s
  BY <1>1, <1>4, <1>5, <1>7, <1>8, <1>9
<1>11. QED
  BY <1>3, <1>5, <1>10

\* A finding is resolved once, on the run where it went away.
THEOREM ResolutionIsOnce == Spec => []ResolvedOnce
BY RunsInvariance, RunsResolveOnce, PTL
-----------------------------------------------------------------------------
(* The invariant of the fixes.                                             *)

PortOrNone == Port \cup {None}
ConfRow == [line : [Directive -> Value], port : PortOrNone, broken : BOOLEAN]
Editing == {"write", "validate", "reload", "restore"}

FixRow == [pc : {"idle", "begin", "enable", "report"} \cup Editing,
           check : Check \cup {None}, file : File \cup {None},
           lines : ConfRow \cup {None}, backup : ConfRow \cup {None},
           waits : BOOLEAN, applied : BOOLEAN]

HostType ==
  /\ conf \in [File -> ConfRow]
  /\ mode \in {"loose", "tight"}
  /\ wall \in [Manager -> [on : BOOLEAN, allow : SUBSET PortOrNone]]
  /\ held \subseteq Check \ {"policy"}
  /\ touched \cap Directive \in {{}, Directive}
  /\ overlap \in BOOLEAN

\* What is true of a fix whatever the others and the administrator do: until the
\* port is moved, what a fix has read of it, or let in, is the file's.
WorkRow(x) ==
  /\ x.pc \in Editing => /\ x.check \in Directive /\ x.file \in File
                         /\ x.lines \in ConfRow /\ x.backup = x.lines
  /\ x.pc \in {"begin", "report"} => x.check \in Check \ {"policy"}
  /\ x.pc = "report" /\ x.check \in Directive => x.file \in File
  /\ x.pc # "report" => ~x.applied
  /\ x.pc = "enable" => x.check \in Manager
  /\ "port" \notin touched =>
       /\ x.pc = "enable" => RuleFor(x.check) \in wall[x.check].allow
       /\ x.pc \in Editing /\ x.file = "main" => x.lines.port = PortRead

\* The directive d has a good value in the files cf.
GoodIn(cf, d) ==
  IF cf["dropin"].line[d] # "unset" THEN cf["dropin"].line[d] = "good"
  ELSE cf["main"].line[d] = "good"

FileTouched == touched \cap (Directive \cup {"port"}) # {}

\* What is true of a fix that runs alone.
CleanRow(x) ==
  /\ x.check \in Directive \ touched =>
       /\ x.pc = "write" => /\ conf[x.file].line = x.lines.line
                            /\ x.file = "dropin" \/ conf["dropin"].line[x.check] = "unset"
       /\ x.pc \in {"validate", "reload"} => GoodIn(conf, x.check)
       /\ x.pc = "report" /\ x.applied => GoodIn(conf, x.check)
  /\ x.check \in Directive /\ ~FileTouched =>
       /\ x.pc = "write" => conf[x.file] = x.lines
       /\ x.pc \in {"validate", "reload"} =>
            \E broken \in BOOLEAN : conf[x.file] = Corrected(x.lines, x.check, broken)
       /\ x.pc = "report" /\ ~x.applied => conf[x.file] = x.lines
  /\ x.pc \in Editing =>
       \A d \in held \cap Directive : GoodIn([conf EXCEPT ![x.file] = x.lines], d)
  /\ x.pc = "report" /\ x.applied /\ x.check \notin touched =>
       /\ x.check = "mode" => mode = "tight"
       /\ x.check \in Manager => wall[x.check].on

HeldInv ==
  /\ touched \cap Directive = {} \/ held \cap Directive = {}
  /\ \A d \in held \cap Directive : GoodIn(conf, d)
  /\ "mode" \in held => mode = "tight"
  /\ \A m \in held \cap Manager : wall[m].on

FixInv ==
  /\ HostType
  /\ fix \in [Fixer -> FixRow]
  /\ \A f \in Fixer : WorkRow(fix[f])
  /\ ~overlap => /\ \A f, g \in Fixer : fix[f].pc # "idle" /\ fix[g].pc # "idle" => f = g
                 /\ \A f \in Fixer : CleanRow(fix[f])
                 /\ HeldInv

Kinds == /\ Directive \cap Manager = {} /\ Manager \subseteq Check /\ Directive \subseteq Check
         /\ "mode" \notin Directive /\ "mode" \notin Manager
         /\ "policy" \notin Directive /\ "policy" \notin Manager

LEMMA KindsDiffer == Kinds
BY AuditAssumption DEF Kinds, Managers, Check

\* A step of one fix on its way.
LEMMA FixMoves ==
  ASSUME FixInv, NEW f \in Fixer, NEW v \in FixRow, fix[f].pc # "idle",
         fix' = [fix EXCEPT ![f] = v], overlap' = overlap, touched' = touched, HostType',
         "port" \notin touched => PortRead' = PortRead,
         \A m \in Manager : wall[m].allow \subseteq wall'[m].allow,
         WorkRow(v)', ~overlap => CleanRow(v)' /\ HeldInv'
  PROVE  FixInv'
<1>1. fix' \in [Fixer -> FixRow] /\ fix'[f] = v /\ \A g \in Fixer : g # f => fix'[g] = fix[g]
  BY DEF FixInv
<1>2. ASSUME NEW g \in Fixer PROVE WorkRow(fix[g])'
  <2>1. CASE g = f
    BY <1>1, <2>1
  <2>2. CASE g # f
    <3>1. WorkRow(fix[g]) /\ fix'[g] = fix[g]
      BY <1>1, <2>2 DEF FixInv
    <3>2. QED
      BY <3>1 DEF WorkRow, RuleFor, PortRead
  <2>3. QED
    BY <2>1, <2>2
<1>3. ASSUME ~overlap
      PROVE  /\ \A g, h \in Fixer : fix'[g].pc # "idle" /\ fix'[h].pc # "idle" => g = h
             /\ \A g \in Fixer : CleanRow(fix[g])'
             /\ HeldInv'
  <2>1. \A g \in Fixer : g # f => fix'[g].pc = "idle"
    BY <1>1, <1>3 DEF FixInv
  <2>2. ASSUME NEW g \in Fixer PROVE CleanRow(fix[g])'
    <3>1. CASE g = f
      BY <1>1, <1>3, <3>1
    <3>2. CASE g # f
      BY <2>1, <3>2 DEF CleanRow, Editing
    <3>3. QED
      BY <3>1, <3>2
  <2>3. QED
    BY <1>3, <2>1, <2>2
<1>4. QED
  BY <1>1, <1>2, <1>3 DEF FixInv

\* A step that leaves the host and the history alone.
LEMMA FixGoesOn ==
  ASSUME FixInv, NEW f \in Fixer, NEW v \in FixRow, fix[f].pc # "idle",
         fix' = [fix EXCEPT ![f] = v], UNCHANGED <<conf, mode, wall, held, touched, overlap>>,
         WorkRow(v), ~overlap => CleanRow(v)
  PROVE  FixInv'
<1>1. HostType' /\ WorkRow(v)' /\ (~overlap => CleanRow(v)' /\ HeldInv')
  BY DEF FixInv, HostType, WorkRow, CleanRow, FileTouched, HeldInv, GoodIn, RuleFor, PortRead
<1>2. QED
  BY <1>1, FixMoves DEF PortRead

LEMMA IdleRow == Idle \in FixRow /\ WorkRow(Idle) /\ CleanRow(Idle)
  BY DEF Idle, FixRow, WorkRow, CleanRow, Editing

LEMMA OpenStep ==
  ASSUME FixInv, NEW f \in Fixer, OpenConfig(f)
  PROVE  FixInv'
<1>0. PICK d, v :
        /\ d = fix[f].check
        /\ v = [fix[f] EXCEPT !.pc = "write", !.file = Target(d), !.lines = conf[Target(d)],
                              !.backup = conf[Target(d)]]
  OBVIOUS
<1>1. /\ fix[f] \in FixRow /\ fix[f].pc = "begin" /\ d \in Directive /\ ~fix[f].applied
      /\ conf \in [File -> ConfRow] /\ Target(d) \in File
  BY <1>0, AuditAssumption DEF OpenConfig, Fixing, FixInv, HostType, Target, Occurrence, File, WorkRow
<1>2. /\ v \in FixRow /\ v.pc = "write" /\ v.check = d /\ v.file = Target(d)
      /\ v.lines = conf[Target(d)] /\ v.backup = v.lines /\ ~v.applied
  BY <1>0, <1>1 DEF FixRow, Editing
<1>3. fix' = [fix EXCEPT ![f] = v]
  BY <1>0, <1>1 DEF OpenConfig, FixInv
<1>4. v.file = "dropin" \/ conf["dropin"].line[d] = "unset"
  BY <1>2, AuditAssumption DEF Target, Occurrence, File
<1>5. [conf EXCEPT ![v.file] = v.lines] = conf
  BY <1>1, <1>2
<1>6. WorkRow(v)
  BY <1>1, <1>2, KindsDiffer DEF WorkRow, Editing, PortRead, Kinds
<1>7. ~overlap => CleanRow(v)
  BY <1>2, <1>4, <1>5, KindsDiffer DEF CleanRow, Editing, FixInv, HeldInv, Kinds
<1>8. QED
  BY <1>1, <1>2, <1>3, <1>6, <1>7, FixGoesOn DEF OpenConfig, hostVars, history

LEMMA WriteStep ==
  ASSUME FixInv, NEW f \in Fixer, WriteConfig(f)
  PROVE  FixInv'
<1>0. PICK d, file, old, v :
        /\ d = fix[f].check /\ file = fix[f].file /\ old = fix[f].lines
        /\ v = [fix[f] EXCEPT !.pc = "validate"]
  OBVIOUS
<1>1. /\ fix[f] \in FixRow /\ fix[f].pc = "write" /\ d \in Directive /\ file \in File
      /\ old \in ConfRow /\ fix[f].backup = old /\ ~fix[f].applied
      /\ conf \in [File -> ConfRow]
  BY <1>0 DEF WriteConfig, Fixing, FixInv, HostType, WorkRow, Editing
<1>2. PICK broken \in BOOLEAN :
        conf' = [conf EXCEPT ![file] = Corrected(old, d, broken)]
  BY <1>0 DEF WriteConfig
<1>3. /\ v \in FixRow /\ v.pc = "validate" /\ v.check = d /\ v.file = file
      /\ v.lines = old /\ v.backup = old /\ ~v.applied
  BY <1>0, <1>1 DEF FixRow, Editing
<1>4. fix' = [fix EXCEPT ![f] = v]
  BY <1>0, <1>1 DEF WriteConfig, FixInv
<1>5. UNCHANGED <<mode, wall, held, touched, overlap>>
  BY DEF WriteConfig, history
<1>12. /\ Corrected(old, d, broken) \in ConfRow
       /\ Corrected(old, d, broken).line = [old.line EXCEPT ![d] = "good"]
       /\ Corrected(old, d, broken).port = old.port
  BY <1>1 DEF ConfRow, Value, Corrected
<1>6. /\ conf' \in [File -> ConfRow]
      /\ conf'[file] = Corrected(old, d, broken)
      /\ conf'[file].line = [old.line EXCEPT ![d] = "good"]
      /\ \A other \in File : other # file => conf'[other] = conf[other]
  BY <1>1, <1>2, <1>12
<1>13. "port" \notin touched => PortRead' = PortRead
  BY <1>0, <1>1, <1>6, <1>12 DEF PortRead, FixInv, WorkRow, Editing, File
<1>7. HostType'
  BY <1>5, <1>6 DEF FixInv, HostType
<1>8. [conf' EXCEPT ![file] = old] = [conf EXCEPT ![file] = old]
  BY <1>1, <1>2
<1>9. WorkRow(v)'
  BY <1>0, <1>1, <1>3, <1>5, <1>13 DEF FixInv, WorkRow, Editing
<1>10. ASSUME ~overlap PROVE CleanRow(v)' /\ HeldInv'
  <2>1. CleanRow(fix[f]) /\ HeldInv
    BY <1>10 DEF FixInv
  <2>2. \A e \in held \cap Directive : GoodIn([conf EXCEPT ![file] = old], e)
    BY <1>0, <1>1, <2>1 DEF CleanRow, Editing
  <2>3. d \notin touched => /\ conf[file].line = old.line
                            /\ file = "dropin" \/ conf["dropin"].line[d] = "unset"
    BY <1>0, <1>1, <2>1 DEF CleanRow
  <2>4. ASSUME d \notin touched PROVE GoodIn(conf, d)'
    BY <1>1, <1>6, <2>3, <2>4 DEF GoodIn, File, ConfRow
  <2>5. ASSUME NEW e \in held \cap Directive PROVE GoodIn(conf, e)'
    <3>1. d \notin touched /\ GoodIn(conf, e)
      BY <1>1, <2>1 DEF HeldInv
    <3>2. CASE e = d
      BY <2>4, <3>1, <3>2
    <3>3. CASE e # d
      <4>1. \A any \in File : conf'[any].line[e] = conf[any].line[e]
        BY <1>1, <1>6, <2>3, <3>1, <3>3 DEF ConfRow
      <4>2. QED
        BY <3>1, <4>1 DEF GoodIn, File
    <3>4. QED
      BY <3>2, <3>3
  <2>6. HeldInv'
    BY <1>5, <2>1, <2>5 DEF HeldInv
  <2>7. CleanRow(v)'
    BY <1>3, <1>5, <1>6, <1>8, <2>2, <2>4 DEF CleanRow, Editing, FileTouched
  <2>8. QED
    BY <2>6, <2>7
<1>11. QED
  BY <1>0, <1>1, <1>3, <1>4, <1>5, <1>7, <1>9, <1>10, <1>13, FixMoves

LEMMA ValidateStep ==
  ASSUME FixInv, NEW f \in Fixer, Validate(f) \/ Reload(f)
  PROVE  FixInv'
<1>1. /\ fix[f] \in FixRow /\ fix[f].pc \in {"validate", "reload"} /\ fix[f].check \in Directive
      /\ WorkRow(fix[f]) /\ (~overlap => CleanRow(fix[f])) /\ ~fix[f].applied
  BY DEF Validate, Reload, Fixing, FixInv, WorkRow
<1>2. PICK pc \in {"reload", "restore", "report"}, ok \in BOOLEAN :
        /\ ok <=> pc = "report"
        /\ fix' = [fix EXCEPT ![f] = [fix[f] EXCEPT !.pc = pc, !.applied = ok]]
  <2>1. CASE Validate(f)
    <3>1. PICK pc \in {"reload", "restore"} : fix' = [fix EXCEPT ![f].pc = pc]
      BY <2>1 DEF Validate
    <3>2. fix' = [fix EXCEPT ![f] = [fix[f] EXCEPT !.pc = pc, !.applied = FALSE]]
      BY <1>1, <3>1 DEF FixInv, FixRow
    <3>3. QED
      BY <3>1, <3>2
  <2>2. CASE Reload(f)
    <3>1. PICK ok \in BOOLEAN : fix' = [fix EXCEPT ![f].pc = IF ok THEN "report" ELSE "restore",
                                                  ![f].applied = ok]
      BY <2>2 DEF Reload
    <3>2. fix' = [fix EXCEPT ![f] = [fix[f] EXCEPT !.pc = IF ok THEN "report" ELSE "restore",
                                                   !.applied = ok]]
      BY <1>1, <3>1 DEF FixInv
    <3>3. QED
      BY <3>1, <3>2
  <2>3. QED
    BY <2>1, <2>2
<1> DEFINE v == [fix[f] EXCEPT !.pc = pc, !.applied = ok]
<1>3. /\ v \in FixRow /\ v.pc = pc /\ v.applied = ok /\ v.check = fix[f].check
      /\ v.file = fix[f].file /\ v.lines = fix[f].lines /\ v.backup = fix[f].backup
  BY <1>1 DEF FixRow, Editing
<1>4. fix' = [fix EXCEPT ![f] = v]
  BY <1>2
<1> HIDE DEF v
<1>5. WorkRow(v)
  BY <1>1, <1>2, <1>3, KindsDiffer DEF WorkRow, Editing, Kinds
<1>6. ~overlap => CleanRow(v)
  BY <1>1, <1>2, <1>3, KindsDiffer DEF CleanRow, Editing, Kinds
<1>7. UNCHANGED <<conf, mode, wall, held, touched, overlap>>
  BY DEF Validate, Reload, hostVars, history
<1>8. QED
  BY <1>1, <1>3, <1>4, <1>5, <1>6, <1>7, FixGoesOn

LEMMA RestoreStep ==
  ASSUME FixInv, NEW f \in Fixer, Restore(f)
  PROVE  FixInv'
<1>0. PICK d, file, old, v :
        /\ d = fix[f].check /\ file = fix[f].file /\ old = fix[f].lines
        /\ v = [fix[f] EXCEPT !.pc = "report"]
  OBVIOUS
<1>1. /\ fix[f] \in FixRow /\ fix[f].pc = "restore" /\ d \in Directive /\ file \in File
      /\ old \in ConfRow /\ fix[f].backup = old /\ ~fix[f].applied
      /\ conf \in [File -> ConfRow]
  BY <1>0 DEF Restore, Fixing, FixInv, HostType, WorkRow, Editing
<1>2. conf' = [conf EXCEPT ![file] = old]
  BY <1>0, <1>1 DEF Restore
<1>3. /\ v \in FixRow /\ v.pc = "report" /\ v.check = d /\ v.file = file
      /\ v.lines = old /\ v.backup = old /\ ~v.applied
  BY <1>0, <1>1 DEF FixRow, Editing
<1>4. fix' = [fix EXCEPT ![f] = v] /\ UNCHANGED <<mode, wall, held, touched, overlap>>
  BY <1>0, <1>1 DEF Restore, FixInv, history
<1>5. conf' \in [File -> ConfRow] /\ conf'[file] = old
  BY <1>1, <1>2
<1>6. HostType'
  BY <1>4, <1>5 DEF FixInv, HostType
<1>10. "port" \notin touched => PortRead' = PortRead
  BY <1>0, <1>1, <1>2 DEF PortRead, FixInv, WorkRow, Editing, File
<1>7. WorkRow(v)'
  BY <1>1, <1>3, KindsDiffer DEF WorkRow, Editing, Kinds
<1>8. ASSUME ~overlap PROVE CleanRow(v)' /\ HeldInv'
  <2>1. \A e \in held \cap Directive : GoodIn(conf', e)
    BY <1>0, <1>1, <1>2, <1>8 DEF FixInv, CleanRow, Editing
  <2>2. HeldInv'
    BY <1>4, <1>8, <2>1 DEF FixInv, HeldInv, GoodIn
  <2>3. CleanRow(v)'
    BY <1>3, <1>5 DEF CleanRow, Editing
  <2>4. QED
    BY <2>2, <2>3
<1>9. QED
  BY <1>1, <1>3, <1>4, <1>6, <1>7, <1>8, <1>10, FixMoves

LEMMA ModeStep ==
  ASSUME FixInv, NEW f \in Fixer, FixMode(f)
  PROVE  FixInv'
<1>0. PICK v : v = [fix[f] EXCEPT !.pc = "report", !.applied = TRUE]
  OBVIOUS
<1>1. fix[f] \in FixRow /\ fix[f].pc = "begin" /\ fix[f].check = "mode"
  BY DEF FixMode, Fixing, FixInv
<1>2. v \in FixRow /\ v.pc = "report" /\ v.applied /\ v.check = "mode"
  BY <1>0, <1>1 DEF FixRow
<1>3. /\ fix' = [fix EXCEPT ![f] = v] /\ mode' = "tight"
      /\ UNCHANGED <<conf, wall, held, touched, overlap>>
  BY <1>0, <1>1 DEF FixMode, FixInv, history
<1>4. HostType' /\ (~overlap => HeldInv')
  BY <1>3 DEF FixInv, HostType, HeldInv, GoodIn
<1>5. WorkRow(v)' /\ CleanRow(v)'
  BY <1>2, <1>3, KindsDiffer DEF WorkRow, CleanRow, Editing, Kinds, Check
<1>6. QED
  BY <1>1, <1>2, <1>3, <1>4, <1>5, FixMoves DEF PortRead

LEMMA AllowStep ==
  ASSUME FixInv, NEW f \in Fixer, AllowSsh(f)
  PROVE  FixInv'
<1>0. PICK m, v : m = fix[f].check /\ v = [fix[f] EXCEPT !.pc = "enable"]
  OBVIOUS
<1>1. fix[f] \in FixRow /\ fix[f].pc = "begin" /\ m \in Manager /\ ~fix[f].applied
  BY <1>0 DEF AllowSsh, Fixing, FixInv, WorkRow
<1>2. v \in FixRow /\ v.pc = "enable" /\ ~v.applied /\ v.check = m
  BY <1>0, <1>1 DEF FixRow
<1>3. /\ fix' = [fix EXCEPT ![f] = v]
      /\ wall' = [wall EXCEPT ![m].allow = @ \cup {RuleFor(m)}]
      /\ UNCHANGED <<conf, mode, held, touched, overlap>>
  BY <1>0, <1>1 DEF AllowSsh, FixInv, history
<1>4. RuleFor(m) \in PortOrNone /\ wall \in [Manager -> [on : BOOLEAN, allow : SUBSET PortOrNone]]
  BY AuditAssumption DEF RuleFor, PortRead, PortOrNone, FixInv, HostType, ConfRow, File
<1>5. /\ wall' \in [Manager -> [on : BOOLEAN, allow : SUBSET PortOrNone]]
      /\ \A w \in Manager : wall'[w].on = wall[w].on /\ wall[w].allow \subseteq wall'[w].allow
      /\ RuleFor(m) \in wall'[m].allow
  BY <1>1, <1>3, <1>4
<1>6. HostType' /\ (~overlap => HeldInv')
  BY <1>3, <1>5 DEF FixInv, HostType, HeldInv, GoodIn
<1>7. WorkRow(v)' /\ CleanRow(v)'
  BY <1>1, <1>2, <1>3, <1>5, KindsDiffer DEF WorkRow, CleanRow, Editing, Kinds, RuleFor, PortRead
<1>8. QED
  BY <1>1, <1>2, <1>3, <1>5, <1>6, <1>7, FixMoves DEF PortRead

LEMMA EnableStep ==
  ASSUME FixInv, NEW f \in Fixer, EnableWall(f)
  PROVE  FixInv'
<1>0. PICK m, v : m = fix[f].check /\ v = [fix[f] EXCEPT !.pc = "report", !.applied = TRUE]
  OBVIOUS
<1>1. fix[f] \in FixRow /\ fix[f].pc = "enable" /\ m \in Manager
  BY <1>0 DEF EnableWall, Fixing, FixInv
<1>2. v \in FixRow /\ v.pc = "report" /\ v.applied /\ v.check = m
  BY <1>0, <1>1 DEF FixRow
<1>3. /\ fix' = [fix EXCEPT ![f] = v]
      /\ wall' = [wall EXCEPT ![m].on = TRUE]
      /\ UNCHANGED <<conf, mode, held, touched, overlap>>
  BY <1>0, <1>1 DEF EnableWall, FixInv, history
<1>4. /\ wall' \in [Manager -> [on : BOOLEAN, allow : SUBSET PortOrNone]]
      /\ \A w \in Manager : wall[w].allow = wall'[w].allow /\ (wall[w].on => wall'[w].on)
      /\ wall'[m].on
  BY <1>1, <1>3 DEF FixInv, HostType
<1>5. HostType' /\ (~overlap => HeldInv')
  BY <1>3, <1>4 DEF FixInv, HostType, HeldInv, GoodIn
<1>6. WorkRow(v)' /\ CleanRow(v)'
  BY <1>1, <1>2, <1>4, KindsDiffer DEF WorkRow, CleanRow, Editing, Kinds
<1>7. QED
  BY <1>1, <1>2, <1>3, <1>4, <1>5, <1>6, FixMoves DEF PortRead

LEMMA EndStep ==
  ASSUME FixInv, NEW f \in Fixer, ToolFails(f) \/ TimeOut(f)
  PROVE  FixInv'
<1>1. fix[f] \in FixRow
  BY DEF FixInv
<1>2. CASE ToolFails(f)
  BY <1>2, IdleRow, FixGoesOn DEF ToolFails, Fixing, hostVars, history
<1>3. CASE TimeOut(f)
  <2> DEFINE v == [fix[f] EXCEPT !.waits = FALSE]
  <2>1. /\ v \in FixRow /\ v.pc = fix[f].pc /\ v.check = fix[f].check /\ v.file = fix[f].file
        /\ v.lines = fix[f].lines /\ v.backup = fix[f].backup /\ v.applied = fix[f].applied
    BY <1>1 DEF FixRow
  <2>2. WorkRow(fix[f]) /\ (~overlap => CleanRow(fix[f]))
    BY DEF FixInv
  <2>3. fix' = [fix EXCEPT ![f] = v]
    BY <1>1, <1>3 DEF TimeOut, FixInv
  <2> HIDE DEF v
  <2>4. WorkRow(v) /\ (~overlap => CleanRow(v))
    BY <2>1, <2>2 DEF WorkRow, CleanRow
  <2>5. CASE fix[f].pc # "idle"
    BY <1>3, <2>1, <2>3, <2>4, <2>5, FixGoesOn DEF TimeOut, hostVars, history
  <2>6. CASE fix[f].pc = "idle"
    <3>1. /\ fix' \in [Fixer -> FixRow] /\ fix'[f] = v
          /\ \A g \in Fixer : g # f => fix'[g] = fix[g]
      BY <2>1, <2>3 DEF FixInv
    <3>2. HostType' /\ (HeldInv => HeldInv') /\ overlap' = overlap
      BY <1>3 DEF FixInv, HostType, HeldInv, TimeOut, hostVars, history
    <3>3. ASSUME NEW g \in Fixer
          PROVE  WorkRow(fix[g])' /\ (~overlap => CleanRow(fix[g])') /\ fix'[g].pc = fix[g].pc
      <4>1. WorkRow(fix'[g]) /\ (~overlap => CleanRow(fix'[g])) /\ fix'[g].pc = fix[g].pc
        BY <2>1, <2>4, <3>1 DEF FixInv
      <4>2. UNCHANGED <<conf, mode, wall, held, touched>>
        BY <1>3 DEF TimeOut, hostVars, history
      <4>3. QED
        BY <4>1, <4>2 DEF WorkRow, CleanRow, FileTouched, GoodIn, RuleFor, PortRead
    <3>4. QED
      BY <3>1, <3>2, <3>3 DEF FixInv
  <2>7. QED
    BY <2>5, <2>6
<1>4. QED
  BY <1>2, <1>3

LEMMA ReportStep ==
  ASSUME FixInv, NEW f \in Fixer, Report(f)
  PROVE  FixInv'
<1>0. PICK c : c = fix[f].check
  OBVIOUS
<1>1. /\ fix[f].pc = "report" /\ fix' = [fix EXCEPT ![f] = Idle]
      /\ UNCHANGED <<conf, mode, wall, touched, overlap>>
      /\ \/ held' = held
         \/ held' = held \cup {c} /\ c \notin touched /\ fix[f].applied
      /\ c \in Check \ {"policy"}
  BY <1>0 DEF Report, hostVars, FixInv, WorkRow
<1>2. HostType'
  BY <1>1 DEF FixInv, HostType
<1>3. WorkRow(Idle)' /\ CleanRow(Idle)'
  BY DEF Idle, WorkRow, CleanRow, Editing
<1>4. ASSUME ~overlap PROVE HeldInv'
  <2>1. CleanRow(fix[f]) /\ HeldInv /\ touched \cap Directive \in {{}, Directive}
    BY <1>4 DEF FixInv, HostType
  <2>2. CASE held' = held
    BY <1>1, <2>1, <2>2 DEF HeldInv, GoodIn
  <2>3. CASE held' = held \cup {c} /\ c \notin touched /\ fix[f].applied
    BY <1>0, <1>1, <2>1, <2>3, KindsDiffer DEF HeldInv, CleanRow, GoodIn, Kinds
  <2>4. QED
    BY <1>1, <2>2, <2>3
<1>5. QED
  BY <1>1, <1>2, <1>3, <1>4, IdleRow, FixMoves DEF PortRead

LEMMA BeginStep ==
  ASSUME FixInv, NEW f \in Fixer, NEW c \in Check, StartFix(f, c)
  PROVE  FixInv'
<1> DEFINE v == [Idle EXCEPT !.pc = "begin", !.check = c, !.waits = TRUE]
<1>1. /\ v \in FixRow /\ v.pc = "begin" /\ v.check = c /\ ~v.applied
  BY DEF Idle, FixRow
<1>2. /\ fix' = [fix EXCEPT ![f] = v] /\ fix[f].pc = "idle" /\ c # "policy"
      /\ UNCHANGED <<conf, mode, wall, held>>
      /\ touched' = IF \E g \in Fixer : fix[g].pc # "idle" THEN touched ELSE {}
      /\ overlap' = (overlap \/ \E g \in Fixer : fix[g].pc # "idle")
  BY DEF StartFix, hostVars
<1> HIDE DEF v
<1>3. /\ fix' \in [Fixer -> FixRow] /\ fix'[f] = v
      /\ \A g \in Fixer : g # f => fix'[g] = fix[g]
  BY <1>1, <1>2 DEF FixInv
<1>4. HostType'
  BY <1>2 DEF FixInv, HostType
<1>5. ASSUME NEW g \in Fixer PROVE WorkRow(fix[g])'
  <2>1. CASE g = f \/ fix[g].pc = "idle"
    <3>1. fix'[g].pc \in {"idle", "begin"} /\ ~fix'[g].applied
          /\ (fix'[g].pc = "begin" => fix'[g].check \in Check \ {"policy"})
      BY <1>1, <1>2, <1>3, <2>1 DEF FixInv, WorkRow
    <3> QED BY <3>1 DEF WorkRow, Editing
  <2>2. CASE g # f /\ fix[g].pc # "idle"
    <3>1. touched' = touched /\ fix'[g] = fix[g] /\ WorkRow(fix[g])
      BY <1>2, <1>3, <2>2 DEF FixInv
    <3> QED BY <1>2, <3>1 DEF WorkRow, RuleFor, PortRead
  <2> QED BY <2>1, <2>2
<1>6. ASSUME ~overlap'
      PROVE  /\ \A g, h \in Fixer : fix'[g].pc # "idle" /\ fix'[h].pc # "idle" => g = h
             /\ \A g \in Fixer : CleanRow(fix[g])'
             /\ HeldInv'
  <2>1. ~overlap /\ \A g \in Fixer : fix[g].pc = "idle"
    BY <1>2, <1>6
  <2>2. \A g \in Fixer : fix'[g].pc \in {"idle", "begin"} /\ (g # f => fix'[g].pc = "idle")
    BY <1>1, <1>3, <2>1
  <2>3. \A g \in Fixer : CleanRow(fix[g])'
    BY <2>2 DEF CleanRow, Editing
  <2>4. HeldInv'
    BY <1>2, <2>1 DEF FixInv, HeldInv, GoodIn
  <2>5. QED
    BY <2>2, <2>3, <2>4
<1>7. QED
  BY <1>3, <1>4, <1>5, <1>6 DEF FixInv

LEMMA HandStep ==
  ASSUME FixInv, Hand
  PROVE  FixInv'
<1>1. fix' = fix /\ overlap' = overlap
  BY DEF Hand, EditConfig, EditPort, LoosenMode, StopWall, Edited
<1>2. ASSUME HostType', \A m \in Manager : wall'[m].allow = wall[m].allow,
             touched \subseteq touched', "port" \notin touched' => PortRead' = PortRead,
             ~overlap => HeldInv' /\ \A f \in Fixer : CleanRow(fix[f])'
      PROVE  FixInv'
  <2>1. ASSUME NEW f \in Fixer PROVE WorkRow(fix[f])'
    <3>1. WorkRow(fix[f]) /\ fix'[f] = fix[f]
      BY <1>1 DEF FixInv
    <3>2. fix[f].pc = "enable" => fix[f].check \in Manager
      BY <3>1 DEF WorkRow
    <3> QED BY <1>2, <3>1, <3>2 DEF WorkRow, RuleFor
  <2> QED BY <1>1, <1>2, <2>1 DEF FixInv
<1>3. CASE \E file \in File, d \in Directive, v \in Value : EditConfig(file, d, v)
  <2>1. PICK file \in File, d \in Directive, v \in Value : EditConfig(file, d, v)
    BY <1>3
  <2>2. /\ conf' = [conf EXCEPT ![file].line[d] = v] /\ UNCHANGED <<mode, wall>>
        /\ held' = held \ Directive /\ touched' = touched \cup Directive
    BY <2>1 DEF EditConfig, Edited
  <2>3. conf' \in [File -> ConfRow] /\ conf'["main"].port = conf["main"].port
    BY <2>2 DEF FixInv, HostType, ConfRow, File
  <2>4. HostType'
    BY <1>1, <2>2, <2>3 DEF FixInv, HostType
  <2>5. ~overlap => HeldInv'
    BY <2>2, KindsDiffer DEF FixInv, HeldInv, Kinds
  <2>6. ASSUME ~overlap, NEW f \in Fixer PROVE CleanRow(fix[f])'
    BY <1>1, <2>2, <2>6 DEF FixInv, CleanRow, FileTouched
  <2>7. QED
    BY <1>2, <2>2, <2>3, <2>4, <2>5, <2>6 DEF PortRead
<1>7. CASE \E p \in Port : EditPort(p)
  <2>1. PICK p \in Port : EditPort(p)
    BY <1>7
  <2>2. /\ conf' = [conf EXCEPT !["main"].port = p] /\ UNCHANGED <<mode, wall>>
        /\ held' = held \ {"port"} /\ touched' = touched \cup {"port"}
    BY <2>1 DEF EditPort, Edited
  <2>3. /\ conf' \in [File -> ConfRow] /\ conf \in [File -> ConfRow]
        /\ \A file \in File : conf'[file].line = conf[file].line
    BY <2>2 DEF FixInv, HostType, ConfRow, PortOrNone, File
  <2>4. "port" \notin Directive
    BY AuditAssumption
  <2>5. HostType'
    BY <2>2, <2>3, <2>4, <1>1 DEF FixInv, HostType
  <2>6. ~overlap => HeldInv'
    BY <2>2, <2>3, <2>4, KindsDiffer DEF FixInv, HeldInv, GoodIn, Kinds, File
  <2>7. ASSUME ~overlap, NEW f \in Fixer PROVE CleanRow(fix[f])'
    <3>1. CleanRow(fix[f]) /\ WorkRow(fix[f]) /\ fix'[f] = fix[f]
      BY <1>1, <2>7 DEF FixInv
    <3>2. FileTouched'
      BY <2>2 DEF FileTouched
    <3>3. \A d \in Directive : GoodIn(conf, d) => GoodIn(conf', d)
      BY <2>3 DEF GoodIn, File
    <3>4. ASSUME fix[f].pc \in Editing, NEW d \in held \cap Directive
          PROVE  GoodIn([conf' EXCEPT ![fix[f].file] = fix[f].lines], d)
      <4>1. GoodIn([conf EXCEPT ![fix[f].file] = fix[f].lines], d)
        BY <3>1, <3>4 DEF CleanRow
      <4>2. \A file \in File :
              [conf' EXCEPT ![fix[f].file] = fix[f].lines][file].line
                = [conf EXCEPT ![fix[f].file] = fix[f].lines][file].line
        BY <2>3
      <4> QED BY <4>1, <4>2 DEF GoodIn, File
    <3>5. held' \subseteq held /\ touched \subseteq touched' /\ UNCHANGED <<mode, wall>>
      BY <2>2
    <3>6. fix[f].pc = "write" /\ fix[f].check \in Directive => fix[f].file \in File
      BY <3>1 DEF WorkRow, Editing
    <3>7. /\ conf'["dropin"].line = conf["dropin"].line
          /\ fix[f].pc = "write" /\ fix[f].check \in Directive =>
               conf'[fix[f].file].line = conf[fix[f].file].line
      BY <2>3, <3>6 DEF File
    <3> QED BY <3>1, <3>2, <3>3, <3>4, <3>5, <3>7 DEF CleanRow
  <2> QED BY <1>2, <2>2, <2>5, <2>6, <2>7
<1>4. CASE LoosenMode
  <2>1. /\ mode' = "loose" /\ UNCHANGED <<conf, wall>>
        /\ held' = held \ {"mode"} /\ touched' = touched \cup {"mode"}
    BY <1>4 DEF LoosenMode, Edited
  <2>2. HostType'
    BY <1>1, <2>1, KindsDiffer DEF FixInv, HostType, Kinds
  <2>3. ~overlap => HeldInv'
    BY <2>1, KindsDiffer DEF FixInv, HeldInv, Kinds, GoodIn
  <2>4. ASSUME ~overlap, NEW f \in Fixer PROVE CleanRow(fix[f])'
    BY <1>1, <2>1, <2>4 DEF FixInv, CleanRow, FileTouched, GoodIn
  <2>5. QED
    BY <1>2, <2>1, <2>2, <2>3, <2>4 DEF PortRead
<1>5. CASE \E m \in Manager : StopWall(m)
  <2>1. PICK m \in Manager : StopWall(m)
    BY <1>5
  <2>2. /\ wall' = [wall EXCEPT ![m].on = FALSE] /\ UNCHANGED <<conf, mode>>
        /\ held' = held \ {m} /\ touched' = touched \cup {m}
    BY <2>1 DEF StopWall, Edited
  <2>3. /\ wall' \in [Manager -> [on : BOOLEAN, allow : SUBSET PortOrNone]]
        /\ \A w \in Manager : wall'[w].allow = wall[w].allow /\ (w # m => wall'[w] = wall[w])
    BY <2>2 DEF FixInv, HostType
  <2>4. HostType'
    BY <1>1, <2>2, <2>3, KindsDiffer DEF FixInv, HostType, Kinds
  <2>5. ~overlap => HeldInv'
    BY <2>2, <2>3, KindsDiffer DEF FixInv, HeldInv, Kinds, GoodIn
  <2>6. ASSUME ~overlap, NEW f \in Fixer PROVE CleanRow(fix[f])'
    BY <1>1, <2>2, <2>3, <2>6 DEF FixInv, CleanRow, FileTouched, GoodIn
  <2>7. QED
    BY <1>2, <2>2, <2>3, <2>4, <2>5, <2>6 DEF PortRead
<1>6. QED
  BY <1>3, <1>4, <1>5, <1>7 DEF Hand

\* The portal dies: nobody waits for the fixes any more.
LEMMA DeathStep ==
  ASSUME FixInv, Crash
  PROVE  FixInv'
<1>1. /\ fix' = [f \in Fixer |-> [fix[f] EXCEPT !.waits = FALSE]]
      /\ UNCHANGED <<conf, mode, wall, held, touched, overlap>>
  BY DEF Crash, hostVars
<1>2. ASSUME NEW f \in Fixer
      PROVE  /\ fix'[f] \in FixRow /\ fix'[f].pc = fix[f].pc /\ fix'[f].check = fix[f].check
             /\ fix'[f].file = fix[f].file /\ fix'[f].lines = fix[f].lines
             /\ fix'[f].backup = fix[f].backup /\ fix'[f].applied = fix[f].applied
  <2>1. fix[f] \in FixRow
    BY DEF FixInv
  <2>2. QED
    BY <1>1, <2>1 DEF FixRow
<1>3. fix' \in [Fixer -> FixRow]
  BY <1>1, <1>2
<1>4. HostType' /\ (HeldInv => HeldInv')
  BY <1>1 DEF FixInv, HostType, HeldInv, GoodIn
<1>5. ASSUME NEW f \in Fixer PROVE WorkRow(fix[f])'
  <2>1. WorkRow(fix[f])
    BY DEF FixInv
  <2>2. QED
    BY <1>1, <1>2, <2>1 DEF WorkRow, RuleFor, PortRead
<1>6. ASSUME NEW f \in Fixer, ~overlap PROVE CleanRow(fix[f])'
  <2>1. CleanRow(fix[f])
    BY <1>6 DEF FixInv
  <2>2. QED
    BY <1>1, <1>2, <2>1 DEF CleanRow, FileTouched, GoodIn
<1>7. QED
  BY <1>1, <1>2, <1>3, <1>4, <1>5, <1>6 DEF FixInv
-----------------------------------------------------------------------------
(* The theorems about the fixes.                                           *)

THEOREM FixInvariance == Spec => []FixInv
<1>1. Init => FixInv
  <2> SUFFICES ASSUME Init PROVE FixInv
    OBVIOUS
  <2>1. HostType
    BY DEF Init, HostType, ConfRow, Value, PortOrNone
  <2>2. fix \in [Fixer -> FixRow] /\ \A f \in Fixer : WorkRow(fix[f]) /\ CleanRow(fix[f])
                                                   /\ fix[f].pc = "idle"
    BY IdleRow DEF Init, Idle
  <2>3. HeldInv
    BY DEF Init, HeldInv
  <2>4. QED
    BY <2>1, <2>2, <2>3 DEF FixInv
<1>2. FixInv /\ [Next]_vars => FixInv'
  <2> SUFFICES ASSUME FixInv, [Next]_vars PROVE FixInv'
    OBVIOUS
  <2>1. ASSUME UNCHANGED <<hostVars, fix, held, touched, overlap>> PROVE FixInv'
    BY <2>1 DEF FixInv, HostType, WorkRow, CleanRow, FileTouched, HeldInv, GoodIn, RuleFor, PortRead,
                hostVars
  <2>2. CASE StartRun
    BY <2>1, <2>2 DEF StartRun, history
  <2>3. ASSUME NEW r \in Ids, RunStep(r) PROVE FixInv'
    BY <2>1, <2>3 DEF RunStep, ReadPrev, CheckFiles, CheckWall, Commit, AlertCritical, AlertHigh,
                      Fail, history
  <2>4. CASE Crash
    BY <2>4, DeathStep
  <2>5. ASSUME NEW f \in Fixer, FixStep(f) PROVE FixInv'
    BY <2>5, BeginStep, OpenStep, WriteStep, ValidateStep, RestoreStep, ModeStep, AllowStep,
       EnableStep, EndStep, ReportStep DEF FixStep
  <2>6. CASE Hand
    BY <2>6, HandStep
  <2>7. CASE UNCHANGED vars
    BY <2>1, <2>7 DEF vars, history
  <2>8. QED
    BY <2>2, <2>3, <2>4, <2>5, <2>6, <2>7 DEF Next
<1>3. QED
  BY <1>1, <1>2, PTL DEF Spec

\* What the portal shows as fixed stays fixed: the audit and the fix agree on the
\* line that counts, and no fix undoes another's.
THEOREM FixesHold == Spec => []FixHolds
<1>1. FixInv => FixHolds
  <2> SUFFICES ASSUME FixInv, ~overlap, NEW c \in held PROVE ~Flagged(c)
    BY DEF FixHolds
  <2>1. HeldInv /\ c \in Check \ {"policy"} /\ conf \in [File -> ConfRow]
    BY DEF FixInv, HostType
  <2>2. CASE c \in Directive
    <3>1. GoodIn(conf, c)
      BY <2>1, <2>2 DEF HeldInv
    <3>2. ~DirectiveBad(c)
      BY <2>1, <2>2, <3>1, AuditAssumption DEF GoodIn, DirectiveBad, Occurrence, File
    <3>3. QED
      BY <2>2, <3>2, KindsDiffer DEF Flagged, Kinds
  <2>3. CASE c = "mode"
    BY <2>1, <2>3, KindsDiffer DEF HeldInv, Flagged, ModeBad, Kinds
  <2>4. CASE c \in Manager
    BY <2>1, <2>4, KindsDiffer DEF HeldInv, Flagged, WallOff, Kinds
  <2>5. QED
    BY <2>1, <2>2, <2>3, <2>4 DEF Check
<1>2. QED
  BY <1>1, FixInvariance, PTL

\* The ways a fix of sshd ends.
LEMMA FixEnds ==
  ASSUME FixInv, [Next]_vars, NEW f \in Fixer, fix[f].pc # "idle", fix'[f].pc = "idle",
         fix[f].check \in Directive
  PROVE  fix[f].pc \in {"report", "validate", "reload"}
<1>1. fix' # fix
  OBVIOUS
<1>2. DOMAIN fix = Fixer /\ fix[f] \in FixRow
  BY DEF FixInv
<1>3. ~Hand /\ ~StartRun /\ ~UNCHANGED vars /\ \A r \in Ids : ~RunStep(r)
  BY <1>1 DEF Hand, EditConfig, EditPort, LoosenMode, StopWall, Edited, StartRun, vars, RunStep,
              ReadPrev, CheckFiles, CheckWall, Commit, AlertCritical, AlertHigh, Fail
<1>4. ~Crash
  BY <1>2 DEF Crash, FixRow
<1>5. PICK g \in Fixer : FixStep(g)
  BY <1>3, <1>4, SMTT(30) DEF Next
<1>6. ASSUME Report(g) \/ ToolFails(g) PROVE fix[f].pc \in {"report", "validate", "reload"}
  <2>1. fix' = [fix EXCEPT ![g] = Idle]
    BY <1>6 DEF Report, ToolFails
  <2>2. g = f
    BY <1>2, <2>1
  <2> QED BY <1>6, <2>2, KindsDiffer DEF Report, ToolFails, Fixing, Kinds
<1>7. ASSUME NEW c \in Check, StartFix(g, c) PROVE FALSE
  <2>1. fix' = [fix EXCEPT ![g] = [Idle EXCEPT !.pc = "begin", !.check = c, !.waits = TRUE]]
        /\ fix[g].pc = "idle"
    BY <1>7 DEF StartFix
  <2> QED BY <1>2, <2>1
<1>8. ASSUME NEW pc, pc # "idle", fix'[g].pc = pc, \A h \in Fixer : h # g => fix'[h] = fix[h]
      PROVE  FALSE
  BY <1>8
<1>9. fix[g] \in FixRow /\ DOMAIN fix = Fixer
  BY DEF FixInv
<1>10. ~OpenConfig(g) /\ ~WriteConfig(g) /\ ~Validate(g) /\ ~Restore(g) /\ ~FixMode(g)
       /\ ~AllowSsh(g) /\ ~EnableWall(g)
  BY <1>8, <1>9, SMTT(30) DEF OpenConfig, WriteConfig, Validate, Restore, FixMode, AllowSsh, EnableWall,
     FixRow
<1>11. ~Reload(g)
  <2> SUFFICES ASSUME Reload(g) PROVE FALSE
    OBVIOUS
  <2>1. PICK ok \in BOOLEAN :
          fix' = [fix EXCEPT ![g].pc = IF ok THEN "report" ELSE "restore", ![g].applied = ok]
    BY DEF Reload
  <2>2. fix'[g].pc \in {"report", "restore"} /\ \A h \in Fixer : h # g => fix'[h] = fix[h]
    BY <1>9, <2>1 DEF FixRow
  <2> QED BY <1>8, <2>2
<1>12. ~TimeOut(g)
  BY <1>9 DEF TimeOut, FixRow
<1> QED BY <1>5, <1>6, <1>7, <1>10, <1>11, <1>12 DEF FixStep

\* A fix of sshd that ends without being applied, in any way, has put the file
\* back, or it ended because sshd -t or the reload could not be run or took too
\* long, and has changed the one directive only (audit_remediate.py:195-260).
THEOREM RollbackIsWhole == Spec => RollbackWhole
<1>1. ASSUME FixInv, [Next]_vars, NEW f \in Fixer, fix[f].pc # "idle", fix'[f].pc = "idle",
             fix[f].check \in Directive, ~fix[f].applied, ~FileTouched, ~overlap
      PROVE  \/ conf[fix[f].file] = fix[f].lines
             \/ /\ fix[f].pc \in {"validate", "reload"}
                /\ \E broken \in BOOLEAN :
                     conf[fix[f].file] = Corrected(fix[f].lines, fix[f].check, broken)
  <2>1. CleanRow(fix[f])
    BY <1>1 DEF FixInv
  <2>2. fix[f].pc \in {"report", "validate", "reload"}
    BY <1>1, FixEnds
  <2> QED BY <1>1, <2>1, <2>2 DEF CleanRow
<1>2. FixInv /\ [Next]_vars =>
        [\A f \in Fixer :
           LET x == fix[f]  stands == conf[x.file] IN
           /\ x.pc # "idle" /\ fix'[f].pc = "idle"
           /\ x.check \in Directive /\ ~x.applied
           /\ touched \cap (Directive \cup {"port"}) = {} /\ ~overlap
           => \/ stands = x.lines
              \/ /\ x.pc \in {"validate", "reload"}
                 /\ \E broken \in BOOLEAN : stands = Corrected(x.lines, x.check, broken)]_vars
  BY <1>1 DEF FileTouched
<1>3. QED
  BY <1>2, FixInvariance, PTL DEF Spec, RollbackWhole

\* The step that switches a manager on.
LEMMA SwitchOn ==
  ASSUME FixInv, [Next]_vars, NEW m \in Manager, ~wall[m].on, wall'[m].on,
         "port" \notin touched
  PROVE  RuleFor(m) \in wall[m].allow
<1>1. wall # wall'
  OBVIOUS
<1>2. wall \in [Manager -> [on : BOOLEAN, allow : SUBSET PortOrNone]]
  BY DEF FixInv, HostType
<1>3. ASSUME NEW w \in Manager, StopWall(w) PROVE FALSE
  BY <1>2, <1>3 DEF StopWall
<1>4. ASSUME NEW f \in Fixer, AllowSsh(f) PROVE FALSE
  BY <1>2, <1>4 DEF AllowSsh, Fixing
<1>5. ~Hand
  BY <1>1, <1>3 DEF Hand, EditConfig, EditPort, LoosenMode
<1>6. PICK f \in Fixer : EnableWall(f)
  <2>1. ASSUME NEW r \in Ids, RunStep(r) PROVE FALSE
    BY <1>1, <2>1 DEF RunStep, ReadPrev, CheckFiles, CheckWall, Commit, AlertCritical, AlertHigh,
                      Fail, hostVars
  <2>2. ~StartRun /\ ~Crash /\ ~UNCHANGED vars
    BY <1>1 DEF StartRun, Crash, vars, hostVars
  <2>3. PICK f \in Fixer : FixStep(f)
    BY <1>5, <2>1, <2>2, SMTT(30) DEF Next
  <2>4. EnableWall(f)
    BY <1>1, <1>4, <2>3 DEF FixStep, StartFix, OpenConfig, WriteConfig, Validate, Reload, Restore,
                            FixMode, ToolFails, Report, TimeOut, hostVars
  <2>5. QED
    BY <2>4
<1>7. fix[f].check = m
  BY <1>2, <1>6 DEF EnableWall, Fixing
<1>8. QED
  BY <1>6, <1>7 DEF EnableWall, Fixing, FixInv, WorkRow

\* The step that switches a manager on finds a rule for the port sshd listens on,
\* for any managers, ports, fixes at once and edits by hand; where sshd listens
\* on the port of its main file, nobody moves it meanwhile, and for firewalld on
\* the standard port (audit_remediate.py:294-350).
THEOREM SshIsLetIn == Spec => SshLetIn
<1>1. FixInv /\ [Next]_vars =>
        [\A m \in Manager :
           /\ ~wall[m].on /\ wall'[m].on
           /\ live = PortRead /\ "port" \notin touched
           /\ m = "ufw" \/ live = StdPort
           => live \in wall[m].allow]_vars
  <2> SUFFICES ASSUME FixInv, [Next]_vars, NEW m \in Manager, ~wall[m].on, wall'[m].on,
                      live = PortRead, "port" \notin touched, m = "ufw" \/ live = StdPort
               PROVE  live \in wall[m].allow
    OBVIOUS
  <2>1. live = RuleFor(m)
    BY DEF RuleFor
  <2>2. QED
    BY <2>1, SwitchOn
<1>2. QED
  BY <1>1, FixInvariance, PTL DEF Spec, SshLetIn

-----------------------------------------------------------------------------
(* SupportTickets.                                                         *)

\* What a thread of a running portal may have in hand.
Handlers == UNION {Handler(K) : K \in SUBSET Tickets}

\* The same as TypeOK, as one set of functions.
Types == TablesOK /\ job \in [Threads -> Handlers \cup {Null}]

\* What a handler may have in hand.  Of the columns that have to agree, a draft
\* writes those that belong together.
Sound(v, w) ==
  /\ w.status # v.status => w.status \in Statuses
  /\ w.status # v.status /\ w.status = "resolved" => w.resolved = "now"
  /\ w.status # v.status /\ w.status = "closed" => w.closed = "now"
  /\ w.resolved # v.resolved /\ w.resolved = "none" =>
       w.status # v.status /\ w.status \notin {"resolved", "closed"}
  /\ w.closed # v.closed /\ w.closed = "none" =>
       w.status # v.status /\ w.status \notin {"resolved", "closed"}
  /\ Unmarked(v) => Unmarked(w)

\* Of the references, it writes one to a ticket that it has read and found to be no
\* duplicate.
Marks(v, f) ==
  \A k \in DOMAIN f :
    \/ f[k].dup \in {v[k].dup, Null}
    \/ \E p \in DOMAIN f : f[k].dup = p /\ f[p] = v[p] /\ v[p].dup = Null

HandlerInv(j) ==
  /\ \A k \in DOMAIN j.change : ticket[k] # Null /\ Sound(j.view[k], j.change[k])
  /\ Marks(j.view, j.change)
  /\ j.new # Null => /\ j.new.status = "open" /\ j.new.dup = Null
                     /\ j.new.resolved = "none" /\ j.new.closed = "none"
  /\ j.step = "log" => j.user # Null

\* The invariant of the tickets: the types, what every handler has in hand, and the
\* two properties it leads to.
TicketInv ==
  /\ Types
  /\ \A t \in Threads : job[t] # Null => HandlerInv(job[t])
  /\ StampsAgree
  /\ NoDuplicateLoop

\* The parts of a handler.
LEMMA HandlerForm ==
  ASSUME NEW j \in Handlers
  PROVE  /\ j.step \in {"commit", "log"} /\ j.user \in Users \cup {Null}
         /\ j.new \in Row \cup {Null} /\ DOMAIN j.change \subseteq Tickets
         /\ j.view \in [DOMAIN j.change -> Row] /\ j.change \in [DOMAIN j.change -> Draft]
<1>1. PICK K \in SUBSET Tickets :
        j \in [step : {"commit", "log"}, view : [K -> Row], change : [K -> Draft],
               new : Row \cup {Null}, user : Users \cup {Null}]
  BY DEF Handlers, Handler
<1>2. DOMAIN j.change = K
  BY <1>1
<1>3. QED
  BY <1>1, <1>2

\* A record with these parts is a handler.
LEMMA HandlerType ==
  ASSUME NEW K \in SUBSET Tickets, NEW v \in [K -> Row], NEW f \in [K -> Draft],
         NEW s \in {"commit", "log"}, NEW r \in Row \cup {Null},
         NEW u \in Users \cup {Null}
  PROVE  [step |-> s, view |-> v, change |-> f, new |-> r, user |-> u] \in Handlers
<1>1. [step |-> s, view |-> v, change |-> f, new |-> r, user |-> u] \in
        [step : {"commit", "log"}, view : [K -> Row], change : [K -> Draft],
         new : Row \cup {Null}, user : Users \cup {Null}]
  OBVIOUS
<1>2. QED
  BY <1>1 DEF Handlers, Handler

\* What the ORM writes (only the columns that were changed) is a row again; the status
\* and the reference are the handler's if it changed them, and those of the table if
\* not.
LEMMA UpdatedRow ==
  ASSUME NEW r \in Row, NEW v \in Row, NEW w \in Draft
  PROVE  /\ Updated(r, v, w) \in Row
         /\ w.status = v.status => Updated(r, v, w).status = r.status
         /\ w.status # v.status => Updated(r, v, w).status = w.status
         /\ w.dup = v.dup => Updated(r, v, w).dup = r.dup
         /\ w.dup # v.dup => Updated(r, v, w).dup = w.dup
  BY DEF Updated, Row, Draft, RowOf

\* A sound draft, written over whatever others have made of the row since it was read,
\* leaves a resolved ticket its resolved_at and a closed one its closed_at; over the row
\* that was read, it leaves no time of a state that is over.
LEMMA UpdatedStamps ==
  ASSUME NEW r \in Row, NEW v \in Row, NEW w \in Draft, Sound(v, w), Stamped(r)
  PROVE  /\ Stamped(Updated(r, v, w))
         /\ r = v /\ Unmarked(r) => Unmarked(Updated(r, v, w))
<1> DEFINE n == Updated(r, v, w)
<1>1. /\ n.status = IF w.status = v.status THEN r.status ELSE w.status
      /\ n.resolved = IF w.resolved = v.resolved THEN r.resolved
                      ELSE IF w.resolved = "now" THEN "set" ELSE w.resolved
      /\ n.closed = IF w.closed = v.closed THEN r.closed
                    ELSE IF w.closed = "now" THEN "set" ELSE w.closed
  BY DEF Updated, Row, Draft, RowOf
<1> HIDE DEF n
<1>2. Stamped(n) /\ (r = v /\ Unmarked(r) => Unmarked(n))
  BY <1>1 DEF Sound, Stamped, Unmarked, Row, Draft, RowOf
<1>3. QED
  BY <1>2 DEF n

-----------------------------------------------------------------------------
(* Requests *)

\* A request that has passed its checks keeps the invariant if what it drafts is in order.
LEMMA AskStep ==
  ASSUME TicketInv, NEW t \in Threads, NEW j \in Handlers, HandlerInv(j), Ask(t, j)
  PROVE  TicketInv'
<1>1. Types'
  BY TicketAssumption DEF TicketInv, Types, TablesOK, Ask
<1>2. ASSUME NEW s \in Threads, job'[s] # Null PROVE HandlerInv(job[s])'
  <2>1. HandlerInv(job'[s])
    BY <1>2 DEF TicketInv, Types, TablesOK, Ask
  <2>2. ticket' = ticket
    BY DEF Ask
  <2>3. QED
    BY <2>1, <2>2 DEF HandlerInv
<1>3. StampsAgree' /\ NoDuplicateLoop'
  BY DEF TicketInv, Ask, StampsAgree, NoDuplicateLoop, LoopFree, Exists
<1>4. QED
  BY <1>1, <1>2, <1>3 DEF TicketInv

\* What a request does to one row.
Draftable(v, w) == w \in Draft /\ Sound(v, w) /\ w.dup \in {v.dup, Null}

\* Sound drafts of tickets that exist are a handler in order, if references are written
\* to at most one ticket, and this was read and no duplicate.
LEMMA ChangeForm ==
  ASSUME TicketInv, NEW K \in SUBSET Tickets, NEW f, DOMAIN f = K, f = [k \in K |-> f[k]],
         NEW u \in Users \cup {Null},
         \A k \in K : ticket[k] # Null /\ f[k] \in Draft /\ Sound(ticket[k], f[k]),
         \/ \A k \in K : f[k].dup \in {ticket[k].dup, Null}
         \/ \E p \in K : /\ f[p] = ticket[p] /\ ticket[p].dup = Null
                         /\ \A k \in K : f[k].dup \in {ticket[k].dup, p}
  PROVE  Change(f, u) \in Handlers /\ HandlerInv(Change(f, u))
<1> DEFINE v == [k \in K |-> ticket[k]]
<1>1. v \in [K -> Row] /\ f \in [K -> Draft]
  BY DEF TicketInv, Types, TablesOK
<1>2. Change(f, u) = [step |-> "commit", view |-> v, change |-> f, new |-> Null, user |-> u]
  BY DEF Change
<1>4. Marks(v, f)
  BY DEF Marks
<1> HIDE DEF v
<1>3. Change(f, u) \in Handlers
  <2>1. [step |-> "commit", view |-> v, change |-> f, new |-> Null, user |-> u] \in Handlers
    BY ONLY <1>1, HandlerType, K \in SUBSET Tickets, u \in Users \cup {Null}
  <2>2. QED
    BY <1>2, <2>1
<1>5. \A k \in K : v[k] = ticket[k]
  BY DEF v
<1>6. HandlerInv(Change(f, u))
  BY <1>2, <1>4, <1>5 DEF HandlerInv
<1>7. QED
  BY <1>3, <1>6

\* The same for the requests that change one ticket.
LEMMA OneForm ==
  ASSUME TicketInv, NEW k \in Tickets, NEW w, NEW u \in Users \cup {Null},
         ticket[k] # Null, Draftable(ticket[k], w)
  PROVE  Change(One(k, w), u) \in Handlers /\ HandlerInv(Change(One(k, w), u))
<1> DEFINE f == One(k, w)
<1>1. DOMAIN f = {k} /\ f = [x \in {k} |-> f[x]] /\ f[k] = w
  BY DEF One
<1> HIDE DEF f
<1>2. Change(f, u) \in Handlers /\ HandlerInv(Change(f, u))
  BY <1>1, ChangeForm DEF Draftable
<1>3. QED
  BY <1>2 DEF f

\* The same for the requests that file a ticket.
LEMMA InsertForm ==
  ASSUME NEW u \in Users, NEW sys \in BOOLEAN, NEW a \in Agents \cup {Null},
         NEW about \in Rejections \cup Tags \cup {Null}, NEW x \in Users \cup {Null}
  PROVE  LET j == Insert(NewRow(u, sys, a, about), x) IN j \in Handlers /\ HandlerInv(j)
<1> DEFINE r == NewRow(u, sys, a, about)
<1>1. /\ r \in Row /\ r.status = "open" /\ r.dup = Null
      /\ r.resolved = "none" /\ r.closed = "none"
  BY DEF NewRow, Row, RowOf, Statuses, Regular
<1> HIDE DEF r
<1>2. Insert(r, x) = [step |-> "commit", view |-> Nothing, change |-> Nothing, new |-> r,
                      user |-> x]
  BY DEF Insert
<1>3. Nothing \in [{} -> Row] /\ Nothing \in [{} -> Draft] /\ DOMAIN Nothing = {}
  BY DEF Nothing
<1>4. Insert(r, x) \in Handlers
  <2>1. {} \in SUBSET Tickets
    OBVIOUS
  <2>2. [step |-> "commit", view |-> Nothing, change |-> Nothing, new |-> r, user |-> x]
          \in Handlers
    BY ONLY <1>1, <1>3, <2>1, HandlerType, x \in Users \cup {Null}
  <2>3. QED
    BY <1>2, <2>2
<1>5. HandlerInv(Insert(r, x))
  BY <1>1, <1>2, <1>3 DEF HandlerInv, Marks
<1>6. QED
  BY <1>4, <1>5 DEF r

\* A row that a running portal shows.
LEMMA SeenRow ==
  ASSUME TicketInv, up, NEW k \in Tickets, ticket[k] # Null
  PROVE  ticket[k] \in Row /\ ticket[k].status \in Statuses
  BY DEF TicketInv, Types, TablesOK

\* The drafts that leave the status alone are sound.
LEMMA PlainDrafts ==
  ASSUME NEW r \in Row
  PROVE  /\ Draftable(r, r)
         /\ \A b \in BOOLEAN : /\ Draftable(r, [r EXCEPT !.deleted = b])
                               /\ Draftable(r, [r EXCEPT !.locked = b])
                               /\ Draftable(r, [r EXCEPT !.critical = b])
         /\ \A a \in Agents \cup {Null} : Draftable(r, [r EXCEPT !.agent = a])
         /\ Draftable(r, [r EXCEPT !.dup = Null])
         /\ \A p \in Tickets : LET w == [r EXCEPT !.dup = p] IN
              w \in Draft /\ Sound(r, w) /\ w.dup = p
  BY DEF Draftable, Sound, Unmarked, Row, Draft, RowOf

\* The drafts that change the status are sound: what they do to it, they do to its times.
LEMMA StatusDrafts ==
  ASSUME NEW r \in Row
  PROVE  /\ \A s \in {"in_progress", "waiting_for_user", "assigned"} :
              r.status \notin {"resolved", "closed"} => Draftable(r, [r EXCEPT !.status = s])
         /\ r.status \in Terminal => Draftable(r, Reopened(r))
         /\ \A s \in Statuses : s # r.status => Draftable(r, Moved(r, s))
         /\ \A s \in {"resolved", "closed"} :
              s # r.status => Draftable(r, Stamp([r EXCEPT !.status = s], s))
<1> USE DEF Row, Draft, RowOf
<1>1. ASSUME NEW s \in {"in_progress", "waiting_for_user", "assigned"},
             r.status \notin {"resolved", "closed"}
      PROVE  Draftable(r, [r EXCEPT !.status = s])
  BY <1>1 DEF Draftable, Sound, Unmarked, Statuses, Regular
<1>2. ASSUME r.status \in Terminal PROVE Draftable(r, Reopened(r))
  BY <1>2 DEF Draftable, Sound, Unmarked, Statuses, Regular, Terminal, Reopened, Unstamped
<1>3. ASSUME NEW s \in Statuses, s # r.status PROVE Draftable(r, Moved(r, s))
  <2>1. CASE s = "resolved"
    BY <1>3, <2>1 DEF Draftable, Sound, Unmarked, Moved
  <2>2. CASE s = "closed"
    BY <1>3, <2>2 DEF Draftable, Sound, Unmarked, Moved
  <2>3. CASE s \notin {"resolved", "closed"} /\ r.status \in {"resolved", "closed"}
    BY <1>3, <2>3 DEF Draftable, Sound, Unmarked, Moved, Unstamped
  <2>4. CASE s \notin {"resolved", "closed"} /\ r.status \notin {"resolved", "closed"}
    <3>1. Moved(r, s) = [r EXCEPT !.status = s]
      BY <2>4 DEF Moved
    <3>2. QED
      BY <1>3, <2>4, <3>1 DEF Draftable, Sound, Unmarked
  <2>5. QED
    BY <2>1, <2>2, <2>3, <2>4
<1>4. ASSUME NEW s \in {"resolved", "closed"}, s # r.status
      PROVE  Draftable(r, Stamp([r EXCEPT !.status = s], s))
  BY <1>4 DEF Draftable, Sound, Unmarked, Stamp, Statuses, Regular
<1>5. QED
  BY <1>1, <1>2, <1>3, <1>4

\* What a change of one ticket, which the draft leaves a Draftable row, keeps.
LEMMA EditOne ==
  ASSUME TicketInv, NEW t \in Threads, NEW k \in Tickets, NEW w, ticket[k] # Null,
         Draftable(ticket[k], w), Edit(t, One(k, w))
  PROVE  TicketInv'
<1>1. Change(One(k, w), Null) \in Handlers /\ HandlerInv(Change(One(k, w), Null))
  BY OneForm
<1>2. QED
  BY <1>1, AskStep DEF Edit

\* The same for the requests that change many.
LEMMA EditMany ==
  ASSUME TicketInv, NEW t \in Threads, NEW K \in SUBSET Tickets, NEW f,
         f = [k \in K |-> f[k]], DOMAIN f = K,
         \A k \in K : ticket[k] # Null /\ Draftable(ticket[k], f[k]), Edit(t, f)
  PROVE  TicketInv'
<1>1. Change(f, Null) \in Handlers /\ HandlerInv(Change(f, Null))
  BY ChangeForm DEF Draftable
<1>2. QED
  BY <1>1, AskStep DEF Edit

\* The requests of an owner keep the invariant.
LEMMA OwnerStep ==
  ASSUME TicketInv, NEW t \in Threads, ByOwner(t)
  PROVE  TicketInv'
<1>0. up
  BY DEF ByOwner, Create, Review, ReplyMine, Reopen, Edit, Ask
<1>1. ASSUME NEW u \in Users, Create(t, u) PROVE TicketInv'
  <2>1. LET j == Insert(NewRow(u, FALSE, Null, Null), u) IN j \in Handlers /\ HandlerInv(j)
    BY InsertForm
  <2>2. QED
    BY <1>1, <2>1, AskStep DEF Create
<1>2. ASSUME NEW r \in Rejections, Review(t, r) PROVE TicketInv'
  <2>1. OwnerOf[r] \in Users
    BY TicketAssumption
  <2>2. LET j == Insert(NewRow(OwnerOf[r], FALSE, Null, r), OwnerOf[r])
        IN  j \in Handlers /\ HandlerInv(j)
    BY <2>1, InsertForm
  <2>3. QED
    BY <1>2, <2>2, AskStep DEF Review
<1>3. ASSUME NEW k \in Tickets, ReplyMine(t, k) PROVE TicketInv'
  <2>1. ticket[k] # Null /\ ticket[k] \in Row /\ ticket[k].status \notin Terminal
    BY <1>0, <1>3, SeenRow DEF ReplyMine, Seen
  <2>2. Draftable(ticket[k], [ticket[k] EXCEPT !.status = "in_progress"])
    BY <2>1, StatusDrafts DEF Terminal
  <2>3. ticket[k].owner \in Users \cup {Null}
    BY <2>1 DEF Row, RowOf
  <2>4. LET j == Change(One(k, [ticket[k] EXCEPT !.status = "in_progress"]), ticket[k].owner)
        IN  j \in Handlers /\ HandlerInv(j)
    BY <2>1, <2>2, <2>3, OneForm
  <2>5. QED
    BY <1>3, <2>4, AskStep DEF ReplyMine
<1>4. ASSUME NEW k \in Tickets, Reopen(t, k) PROVE TicketInv'
  BY <1>0, <1>4, SeenRow, StatusDrafts, EditOne DEF Reopen, Seen
<1>5. QED
  BY <1>1, <1>2, <1>3, <1>4 DEF ByOwner

\* The status first, the claim last: a row that was open when it is claimed.
LEMMA PatchedDraft ==
  ASSUME NEW r \in Row, r.status \in Statuses, NEW b \in Body,
         b.status \in {Null, r.status} \/ b.status \in Statuses
  PROVE  Draftable(r, Patched(r, b))
<1> DEFINE moved == IF b.status \in {Null, r.status} THEN r ELSE Moved(r, b.status)
           critical(m) == IF b.critical = Null THEN m.critical ELSE b.critical
           agent(m) == IF b.clear THEN Null ELSE IF b.agent = Null THEN m.agent ELSE b.agent
           w(m) == [m EXCEPT !.critical = critical(m), !.agent = agent(m)]
<1>1. Draftable(r, moved)
  BY PlainDrafts, StatusDrafts
<1>2. ASSUME NEW m, Draftable(r, m) PROVE Draftable(r, w(m)) /\ w(m).status = m.status
  <2>1. w(m) \in Draft /\ \A c \in {"status", "resolved", "closed", "dup"} : w(m)[c] = m[c]
    <3>1. m \in Draft
      BY <1>2 DEF Draftable
    <3>2. critical(m) \in BOOLEAN /\ agent(m) \in Agents \cup {Null}
      BY <3>1 DEF Draft, RowOf, Body
    <3> HIDE DEF critical, agent
    <3>3. QED
      BY <3>1, <3>2 DEF Draft, RowOf
  <2>2. QED
    BY <1>2, <2>1 DEF Draftable, Sound, Unmarked
<1>3. CASE ClaimAdvances(r, b)
  <2>1. Patched(r, b) = [w(r) EXCEPT !.status = "assigned"]
    BY <1>3 DEF ClaimAdvances, Patched, Row, RowOf
  <2>2. w(r) \in Row /\ \A c \in {"status", "resolved", "closed", "dup"} : w(r)[c] = r[c]
    BY DEF Row, RowOf, Body
  <2>3. w(r).status \notin {"resolved", "closed"}
    BY <1>3, <2>2 DEF ClaimAdvances
  <2> HIDE DEF w
  <2>4. Draftable(w(r), [w(r) EXCEPT !.status = "assigned"])
    BY <2>2, <2>3, StatusDrafts
  <2>5. QED
    BY <1>3, <2>1, <2>2, <2>4 DEF Draftable, Sound, Unmarked, ClaimAdvances
<1>4. CASE ~ClaimAdvances(r, b)
  <2>1. Patched(r, b) = w(moved)
    BY <1>4, <1>1 DEF Patched, Draftable, Draft, RowOf
  <2> HIDE DEF w, moved
  <2>2. QED
    BY <1>1, <1>2, <2>1
<1>5. QED
  BY <1>3, <1>4

\* The requests of a ticket manager, and a poll of the releases, keep the invariant.
LEMMA ManagerStep ==
  ASSUME TicketInv, NEW t \in Threads, ByManager(t)
  PROVE  TicketInv'
<1>0. up
  BY DEF ByManager, Reply, RestoreTicket, Lock, Unlock, Escalate, UnmarkDuplicate, Patch, Delete,
         Finish, Assign, MarkDuplicate, PollRelease, Edit, Ask
<1>1. ASSUME NEW k \in Tickets, Reply(t, k) PROVE TicketInv'
  BY <1>0, <1>1, SeenRow, StatusDrafts, EditOne DEF Reply, Seen
<1>2. ASSUME NEW k \in Tickets,
             \/ RestoreTicket(t, k) \/ Lock(t, k) \/ Unlock(t, k)
             \/ Escalate(t, k) \/ UnmarkDuplicate(t, k)
      PROVE  TicketInv'
  <2>1. ticket[k] # Null /\ ticket[k] \in Row
    BY <1>0, <1>2, SeenRow DEF RestoreTicket, Lock, Unlock, Escalate, UnmarkDuplicate, Seen
  <2>2. \E w : Draftable(ticket[k], w) /\ Edit(t, One(k, w))
    BY <1>2, <2>1, PlainDrafts DEF RestoreTicket, Lock, Unlock, Escalate, UnmarkDuplicate
  <2>3. QED
    BY <2>1, <2>2, EditOne
<1>3. ASSUME NEW k \in Tickets, NEW b \in Bodies, Patch(t, k, b) PROVE TicketInv'
  <2>1. ticket[k] # Null /\ ticket[k] \in Row /\ ticket[k].status \in Statuses /\ b \in Body
    BY <1>0, <1>3, SeenRow, TicketAssumption DEF Patch, Seen
  <2>2. NextStatuses(ticket[k]) \subseteq Statuses
    BY DEF NextStatuses, Transitions, Statuses, Regular
  <2>3. b.status \in {Null, ticket[k].status} \/ b.status \in Statuses
    BY <1>3, <2>2 DEF Patch
  <2>4. Draftable(ticket[k], Patched(ticket[k], b))
    BY <2>1, <2>3, PatchedDraft
  <2>5. QED
    BY <1>3, <2>1, <2>4, EditOne DEF Patch
<1>4. ASSUME NEW K \in Batches, Delete(t, K) \/ \E a \in Agents : Assign(t, K, a)
      PROVE  TicketInv'
  <2>1. K \in SUBSET Tickets
    BY TicketAssumption
  <2>2. \A k \in K : ticket[k] # Null /\ ticket[k] \in Row
    BY <1>0, <1>4, <2>1, SeenRow DEF Delete, Assign, Seen
  <2>3. CASE Delete(t, K)
    <3> DEFINE f == [k \in K |-> [ticket[k] EXCEPT !.deleted = TRUE]]
    <3>1. /\ f = [k \in K |-> f[k]] /\ DOMAIN f = K
          /\ \A k \in K : Draftable(ticket[k], f[k])
      BY <2>2, PlainDrafts
    <3>2. Edit(t, f)
      BY <2>3 DEF Delete
    <3> HIDE DEF f
    <3>3. QED
      BY <2>1, <2>2, <3>1, <3>2, EditMany
  <2>4. ASSUME NEW a \in Agents, Assign(t, K, a) PROVE TicketInv'
    <3> DEFINE f == [k \in K |-> [ticket[k] EXCEPT !.agent = a]]
    <3>1. /\ f = [k \in K |-> f[k]] /\ DOMAIN f = K
          /\ \A k \in K : Draftable(ticket[k], f[k])
      BY <2>2, PlainDrafts
    <3>2. Edit(t, f)
      BY <2>4 DEF Assign
    <3> HIDE DEF f
    <3>3. QED
      BY <2>1, <2>2, <3>1, <3>2, EditMany
  <2>5. QED
    BY <1>4, <2>3, <2>4
<1>5. ASSUME NEW K \in Batches, NEW s \in {"closed", "resolved"}, Finish(t, K, s)
      PROVE  TicketInv'
  <2>1. K \in SUBSET Tickets
    BY TicketAssumption
  <2>2. \A k \in K : ticket[k] # Null /\ ticket[k] \in Row
    BY <1>0, <1>5, <2>1, SeenRow DEF Finish, Seen
  <2> DEFINE f == [k \in K |-> IF Skips(k, s) THEN ticket[k]
                               ELSE Stamp([ticket[k] EXCEPT !.status = s], s)]
  <2>3. /\ f = [k \in K |-> f[k]] /\ DOMAIN f = K
        /\ \A k \in K : Draftable(ticket[k], f[k])
    BY <2>2, PlainDrafts, StatusDrafts DEF Skips
  <2>4. Edit(t, f)
    BY <1>5 DEF Finish
  <2> HIDE DEF f
  <2>5. QED
    BY <2>1, <2>2, <2>3, <2>4, EditMany
<1>6. ASSUME NEW K \in Batches, NEW p \in Tickets, MarkDuplicate(t, K, p)
      PROVE  TicketInv'
  <2> DEFINE L == K \cup {p}
             f == [k \in L |-> IF k = p THEN ticket[k] ELSE [ticket[k] EXCEPT !.dup = p]]
  <2>1. L \in SUBSET Tickets /\ p \in L
    BY TicketAssumption
  <2>2. \A k \in L : ticket[k] # Null /\ ticket[k] \in Row
    BY <1>0, <1>6, <2>1, SeenRow DEF MarkDuplicate, FitParent, Seen
  <2>3. /\ f = [k \in L |-> f[k]] /\ DOMAIN f = L /\ f[p] = ticket[p]
        /\ \A k \in L : /\ f[k] \in Draft /\ Sound(ticket[k], f[k])
                        /\ f[k].dup \in {ticket[k].dup, p}
    BY <2>2, PlainDrafts DEF Draftable
  <2>4. Edit(t, f) /\ ticket[p].dup = Null
    BY <1>6 DEF MarkDuplicate, FitParent, IsDuplicate
  <2> HIDE DEF f, L
  <2>5. Change(f, Null) \in Handlers /\ HandlerInv(Change(f, Null))
    BY <2>1, <2>2, <2>3, <2>4, ChangeForm
  <2>6. QED
    BY <2>4, <2>5, AskStep DEF Edit
<1>7. ASSUME NEW g \in Tags, PollRelease(t, g) PROVE TicketInv'
  <2>1. PICK u \in Users, a \in Agents : Ask(t, Insert(NewRow(u, TRUE, a, g), Null))
    BY <1>7 DEF PollRelease
  <2>2. LET j == Insert(NewRow(u, TRUE, a, g), Null) IN j \in Handlers /\ HandlerInv(j)
    BY InsertForm
  <2>3. QED
    BY <2>1, <2>2, AskStep
<1>8. QED
  BY <1>1, <1>2, <1>3, <1>4, <1>5, <1>6, <1>7 DEF ByManager
-----------------------------------------------------------------------------
(* Ends of requests *)

\* What a handler has in hand while others change the table.
LEMMA InHand ==
  ASSUME TicketInv, Types',
         \A k \in Tickets : ticket[k] # Null => ticket'[k] # Null,
         \A t \in Threads : job'[t] = Null \/ job'[t] = job[t]
                            \/ \E u \in Users : job'[t] = [Change(Nothing, u) EXCEPT !.step = "log"]
  PROVE  \A t \in Threads : job'[t] # Null => HandlerInv(job[t])'
<1> SUFFICES ASSUME NEW t \in Threads, job'[t] # Null PROVE HandlerInv(job[t])'
  OBVIOUS
<1>1. CASE job'[t] = job[t]
  <2>1. HandlerInv(job[t]) /\ job[t] \in Handlers
    BY <1>1 DEF TicketInv, Types, TablesOK
  <2>2. DOMAIN job[t].change \subseteq Tickets
    BY <2>1, HandlerForm
  <2>3. QED
    BY <1>1, <2>1, <2>2 DEF HandlerInv
<1>2. ASSUME NEW u \in Users, job'[t] = [Change(Nothing, u) EXCEPT !.step = "log"]
      PROVE  HandlerInv(job[t])'
  <2>1. DOMAIN Nothing = {}
    BY DEF Nothing
  <2>2. /\ job'[t].change = Nothing /\ job'[t].new = Null /\ job'[t].user = u
    BY <1>2 DEF Change
  <2>3. QED
    BY <2>1, <2>2, TicketAssumption DEF HandlerInv, Marks
<1>3. QED
  BY <1>1, <1>2

\* The job of a committed request.
LEMMA Answered ==
  ASSUME TicketInv, NEW t \in Threads, job[t] # Null,
         job' = [job EXCEPT ![t] = IF job[t].user = Null THEN Null
                   ELSE [Change(Nothing, job[t].user) EXCEPT !.step = "log"]]
  PROVE  /\ job' \in [Threads -> Handlers \cup {Null}]
         /\ \A s \in Threads : job'[s] = Null \/ job'[s] = job[s]
              \/ \E u \in Users : job'[s] = [Change(Nothing, u) EXCEPT !.step = "log"]
<1>1. job[t].user \in Users \cup {Null}
  BY HandlerForm DEF TicketInv, Types, TablesOK
<1>2. ASSUME NEW u \in Users PROVE [Change(Nothing, u) EXCEPT !.step = "log"] \in Handlers
  <2>1. [Change(Nothing, u) EXCEPT !.step = "log"] =
          [step |-> "log", view |-> Nothing, change |-> Nothing, new |-> Null, user |-> u]
    BY DEF Change, Nothing
  <2>2. Nothing \in [{} -> Row] /\ Nothing \in [{} -> Draft] /\ {} \in SUBSET Tickets
    BY DEF Nothing
  <2>3. [step |-> "log", view |-> Nothing, change |-> Nothing, new |-> Null, user |-> u]
          \in Handlers
    BY ONLY <2>2, HandlerType, u \in Users
  <2>4. QED
    BY <2>1, <2>3
<1>3. QED
  BY <1>1, <1>2 DEF TicketInv, Types, TablesOK

\* The references that a handler writes to an unchanged table close no loop.
LEMMA NoLoopMade ==
  ASSUME NEW T, NEW U, LoopFree(T), NEW D \in SUBSET Tickets, NEW v, NEW f, DOMAIN f = D,
         Marks(v, f),
         \A k \in D : v[k] = T[k] /\ U[k].dup = f[k].dup /\ T[k] # Null,
         \A k \in Tickets \ D : U[k] = T[k]
  PROVE  LoopFree(U)
<1> SUFFICES ASSUME NEW K \in SUBSET Tickets \ {{}}, \A k \in K : U[k] # Null,
                    \A k \in K : U[k].dup \in K
             PROVE  FALSE
  BY DEF LoopFree
<1>1. \A k \in K : T[k] # Null
  OBVIOUS
<1>2. PICK k \in K : T[k].dup \notin K
  BY <1>1 DEF LoopFree
<1>3. k \in D /\ U[k].dup = f[k].dup /\ f[k].dup # v[k].dup
  BY <1>2
<1>4. f[k].dup # Null
  BY <1>3, TicketAssumption
<1>5. PICK p \in D : f[k].dup = p /\ f[p] = v[p] /\ v[p].dup = Null
  BY <1>3, <1>4 DEF Marks
<1>6. p \in K /\ U[p].dup = Null
  BY <1>3, <1>5
<1>7. QED
  BY <1>6, TicketAssumption

\* A commit keeps the invariant, whatever other threads have in hand.
LEMMA TicketCommitStep ==
  ASSUME TicketInv, NEW t \in Threads, CommitSession(t)
  PROVE  TicketInv'
<1> DEFINE j == job[t]
           D == DOMAIN j.change
           K == {k \in D : j.change[k] # j.view[k]}
<1>0. PICK v, f : v = j.view /\ f = j.change
  OBVIOUS
<1>1. /\ j # Null /\ j \in Handlers /\ HandlerInv(j) /\ D \in SUBSET Tickets
      /\ v \in [D -> Row] /\ f \in [D -> Draft] /\ j.new \in Row \cup {Null}
  BY <1>0, HandlerForm DEF CommitSession, TicketInv, Types, TablesOK
<1>2. /\ job' \in [Threads -> Handlers \cup {Null}]
      /\ \A s \in Threads : job'[s] = Null \/ job'[s] = job[s]
           \/ \E u \in Users : job'[s] = [Change(Nothing, u) EXCEPT !.step = "log"]
  BY <1>1, Answered DEF CommitSession
<1>3. UNCHANGED <<up, log, now, requests>>
  BY DEF CommitSession
<1>4. CASE /\ j.new = Null
           /\ ticket' = [k \in Tickets |->
                IF k \in K THEN Updated(ticket[k], j.view[k], j.change[k]) ELSE ticket[k]]
           /\ raced' = IF \A k \in D : j.view[k] = ticket[k] THEN raced ELSE raced \cup K
           /\ UNCHANGED <<review, notified>>
  <2>1. \A k \in D : /\ ticket[k] \in Row /\ ticket[k] # Null /\ Sound(v[k], f[k])
                     /\ v[k] \in Row /\ f[k] \in Draft
    BY <1>0, <1>1 DEF HandlerInv, TicketInv, Types, TablesOK
  <2>2. /\ \A k \in K : ticket'[k] = Updated(ticket[k], v[k], f[k])
        /\ \A k \in Tickets \ K : ticket'[k] = ticket[k]
    BY <1>0, <1>1, <1>4
  <2>0. /\ K \subseteq D /\ \A k \in D \ K : f[k] = v[k]
        /\ raced' = IF \A k \in D : v[k] = ticket[k] THEN raced ELSE raced \cup K
        /\ ticket' = [k \in Tickets |-> IF k \in K THEN Updated(ticket[k], v[k], f[k])
                                       ELSE ticket[k]]
    BY <1>0, <1>4
  <2>12. Marks(v, f) /\ DOMAIN f = D
    BY <1>0, <1>1 DEF HandlerInv
  <2> HIDE DEF D, K, j
  <2>3. ticket' \in [Tickets -> Row \cup {Null}]
    <3>1. ASSUME NEW k \in K PROVE Updated(ticket[k], v[k], f[k]) \in Row
      BY <2>0, <2>1, UpdatedRow
    <3>2. QED
      BY <2>0, <3>1 DEF TicketInv, Types, TablesOK
  <2>4. up => \A k \in Tickets : ticket'[k] # Null => ticket'[k].status \in Statuses
    <3> SUFFICES ASSUME up, NEW k \in K PROVE ticket'[k].status \in Statuses
      BY <2>2 DEF TicketInv, Types, TablesOK
    <3> DEFINE n == Updated(ticket[k], v[k], f[k])
    <3>1. /\ k \in Tickets /\ ticket'[k] = n /\ Sound(v[k], f[k])
          /\ ticket[k] \in Row /\ ticket[k] # Null /\ v[k] \in Row /\ f[k] \in Draft
      BY <1>1, <2>0, <2>1, <2>2
    <3>2. /\ f[k].status = v[k].status => n.status = ticket[k].status
          /\ f[k].status # v[k].status => n.status = f[k].status
      BY <3>1, UpdatedRow
    <3> HIDE DEF n
    <3>3. ticket[k].status \in Statuses
      BY <3>1 DEF TicketInv, Types, TablesOK
    <3>4. QED
      BY <3>1, <3>2, <3>3 DEF Sound
  <2>5. Types'
    <3>1. raced' \subseteq Tickets
      BY <1>1, <2>0 DEF TicketInv, Types, TablesOK
    <3>2. QED
      BY <1>2, <1>3, <1>4, <2>3, <2>4, <3>1 DEF TicketInv, Types, TablesOK
  <2>6. \A k \in Tickets : ticket[k] # Null => ticket'[k] # Null
    <3> SUFFICES ASSUME NEW k \in K PROVE ticket'[k] # Null
      BY <2>2
    <3>1. ticket'[k] \in Row
      BY <2>0, <2>1, <2>2, UpdatedRow
    <3>2. QED
      BY <3>1, TicketAssumption
  <2>7. \A s \in Threads : job'[s] # Null => HandlerInv(job[s])'
    BY <1>2, <2>5, <2>6, InHand
  <2>8. StampsAgree'
    <3> SUFFICES ASSUME NEW k \in Tickets, ticket'[k] # Null
                 PROVE  Stamped(ticket'[k]) /\ (k \notin raced' => Unmarked(ticket'[k]))
      BY DEF StampsAgree, Exists, Stamped, Unmarked
    <3>1. CASE k \in K
      <4>1. Stamped(ticket[k]) /\ (k \notin raced => Unmarked(ticket[k]))
        BY <2>0, <2>1, <3>1 DEF TicketInv, StampsAgree, Exists
      <4>2. k \notin raced' => ticket[k] = v[k] /\ k \notin raced
        BY <2>0, <3>1
      <4>3. QED
        BY <2>0, <2>1, <2>2, <3>1, <4>1, <4>2, UpdatedStamps
    <3>2. CASE k \notin K
      BY <2>0, <2>2, <3>2 DEF TicketInv, StampsAgree, Exists
    <3>3. QED
      BY <3>1, <3>2
  <2>9. NoDuplicateLoop'
    <3> SUFFICES ASSUME raced' = {} PROVE LoopFree(ticket')
      BY DEF NoDuplicateLoop, LoopFree
    <3>1. LoopFree(ticket)
      BY <2>0 DEF TicketInv, NoDuplicateLoop
    <3>2. CASE \A k \in D : v[k] = ticket[k]
      <4>1. \A k \in D : ticket'[k].dup = f[k].dup
        <5> SUFFICES ASSUME NEW k \in D PROVE ticket'[k].dup = f[k].dup
          OBVIOUS
        <5>1. CASE k \in K
          <6> DEFINE n == Updated(ticket[k], v[k], f[k])
          <6>1. /\ ticket[k] \in Row /\ v[k] \in Row /\ f[k] \in Draft /\ v[k] = ticket[k]
                /\ ticket'[k] = n
            BY <2>0, <2>1, <2>2, <3>2, <5>1
          <6>2. /\ f[k].dup = v[k].dup => n.dup = ticket[k].dup
                /\ f[k].dup # v[k].dup => n.dup = f[k].dup
            BY <6>1, UpdatedRow
          <6> HIDE DEF n
          <6>3. QED
            BY <6>1, <6>2
        <5>2. CASE k \notin K
          BY <1>1, <2>0, <2>2, <3>2, <5>2
        <5>3. QED
          BY <5>1, <5>2
      <4>2. \A k \in Tickets \ D : ticket'[k] = ticket[k]
        BY <2>0, <2>2
      <4>3. QED
        BY <1>1, <2>1, <2>12, <3>1, <3>2, <4>1, <4>2, NoLoopMade
    <3>3. CASE ~(\A k \in D : v[k] = ticket[k])
      <4>1. K = {}
        BY <2>0, <3>3
      <4>2. \A k \in Tickets : ticket'[k] = ticket[k]
        BY <2>2, <4>1
      <4>3. QED
        BY <3>1, <4>2 DEF LoopFree
    <3>4. QED
      BY <3>2, <3>3
  <2>10. QED
    BY <2>5, <2>7, <2>8, <2>9 DEF TicketInv
<1>5. ASSUME j.new # Null, NEW k \in Tickets, Fresh(k),
             ticket' = [ticket EXCEPT ![k] = j.new],
             review' = [r \in Rejections |-> IF r = j.new.about THEN k ELSE review[r]],
             notified' = IF j.new.about \in Tags THEN j.new.about ELSE notified,
             UNCHANGED raced
      PROVE  TicketInv'
  <2>1. /\ j.new \in Row /\ j.new.status = "open" /\ j.new.dup = Null
        /\ j.new.resolved = "none" /\ j.new.closed = "none"
    BY <1>1, <1>5 DEF HandlerInv
  <2>2. /\ ticket'[k] = j.new /\ ticket[k] = Null
        /\ \A i \in Tickets : i # k => ticket'[i] = ticket[i]
    BY <1>5 DEF TicketInv, Types, TablesOK, Fresh
  <2>3. ticket' \in [Tickets -> Row \cup {Null}]
    BY <1>5, <2>1 DEF TicketInv, Types, TablesOK
  <2>4. Types'
    <3>1. review' \in [Rejections -> Tickets \cup {Null}] /\ notified' \in Tags \cup {Null}
      BY <1>5 DEF TicketInv, Types, TablesOK
    <3>2. up => \A i \in Tickets : ticket'[i] # Null => ticket'[i].status \in Statuses
      BY <2>1, <2>2 DEF TicketInv, Types, TablesOK, Statuses, Regular
    <3>3. QED
      BY <1>2, <1>3, <1>5, <2>3, <3>1, <3>2 DEF TicketInv, Types, TablesOK
  <2>5. \A s \in Threads : job'[s] # Null => HandlerInv(job[s])'
    BY <1>2, <1>5, <2>2, <2>4, InHand
  <2>6. StampsAgree'
    <3> SUFFICES ASSUME NEW i \in Tickets, ticket'[i] # Null
                 PROVE  Stamped(ticket'[i]) /\ (i \notin raced' => Unmarked(ticket'[i]))
      BY DEF StampsAgree, Exists, Stamped, Unmarked
    <3>1. QED
      BY <1>5, <2>1, <2>2 DEF TicketInv, StampsAgree, Exists, Stamped, Unmarked
  <2>7. NoDuplicateLoop'
    <3> SUFFICES ASSUME raced = {}, NEW L \in SUBSET Tickets \ {{}},
                        \A i \in L : ticket'[i] # Null, \A i \in L : ticket'[i].dup \in L
                 PROVE  FALSE
      BY <1>5 DEF NoDuplicateLoop, LoopFree
    <3>1. k \notin L
      BY <2>1, <2>2, TicketAssumption
    <3>2. QED
      BY <2>2, <3>1 DEF TicketInv, NoDuplicateLoop, LoopFree
  <2>8. QED
    BY <2>4, <2>5, <2>6, <2>7 DEF TicketInv
<1>6. QED
  BY <1>4, <1>5 DEF CommitSession

\* What the migration of the statuses does to a row.
LEMMA MigratedForm ==
  ASSUME NEW r \in Row
  PROVE  /\ Migrated(r) \in Row /\ Migrated(r).status \in Statuses /\ Migrated(r).dup = r.dup
         /\ Stamped(r) => Stamped(Migrated(r))
         /\ Unmarked(r) => Unmarked(Migrated(r))
  BY DEF Migrated, Stamped, Unmarked, Row, RowOf, Statuses, Regular, Retired

\* The migration at start-up keeps the invariant.
LEMMA StartupStep ==
  ASSUME TicketInv, Startup
  PROVE  TicketInv'
<1>1. \A k \in Tickets :
        /\ ticket[k] = Null => ticket'[k] = Null
        /\ ticket[k] # Null => ticket[k] \in Row /\ ticket'[k] = Migrated(ticket[k])
  BY DEF Startup, TicketInv, Types, TablesOK
<1>2. \A k \in Tickets : ticket[k] # Null =>
        ticket'[k] \in Row /\ ticket'[k] # Null /\ ticket'[k].status \in Statuses
  BY <1>1, MigratedForm, TicketAssumption
<1>3. Types'
  <2>1. ticket' \in [Tickets -> Row \cup {Null}]
    BY <1>1, <1>2 DEF Startup
  <2>2. QED
    BY <1>1, <1>2, <2>1 DEF Startup, TicketInv, Types, TablesOK
<1>4. \A t \in Threads : job'[t] # Null => HandlerInv(job[t])'
  <2>1. job' = job
    BY DEF Startup
  <2>2. QED
    BY <1>2, <1>3, <2>1, InHand
<1>5. StampsAgree'
  <2> SUFFICES ASSUME NEW k \in Tickets, ticket'[k] # Null
               PROVE  Stamped(ticket'[k]) /\ (k \notin raced' => Unmarked(ticket'[k]))
    BY DEF StampsAgree, Exists, Stamped, Unmarked
  <2>1. ticket[k] # Null /\ ticket[k] \in Row /\ ticket'[k] = Migrated(ticket[k])
    BY <1>1
  <2>2. Stamped(ticket[k]) /\ (k \notin raced' => Unmarked(ticket[k]))
    BY <2>1 DEF Startup, TicketInv, StampsAgree, Exists
  <2>3. QED
    BY <2>1, <2>2, MigratedForm
<1>6. NoDuplicateLoop'
  <2> SUFFICES ASSUME raced = {}, NEW K \in SUBSET Tickets \ {{}},
                      \A k \in K : ticket'[k] # Null, \A k \in K : ticket'[k].dup \in K
               PROVE  FALSE
    BY DEF Startup, NoDuplicateLoop, LoopFree
  <2>1. \A k \in K : ticket[k] # Null /\ ticket'[k].dup = ticket[k].dup
    BY <1>1, MigratedForm
  <2>2. QED
    BY <2>1 DEF TicketInv, NoDuplicateLoop, LoopFree
<1>7. QED
  BY <1>3, <1>4, <1>5, <1>6 DEF TicketInv

\* Steps that leave the table alone.
LEMMA QuietStep ==
  ASSUME TicketInv, Types', UNCHANGED <<ticket, raced>>,
         \A t \in Threads : job'[t] \in {Null, job[t]}
  PROVE  TicketInv'
<1>1. \A t \in Threads : job'[t] # Null => HandlerInv(job[t])'
  BY InHand
<1>2. StampsAgree' /\ NoDuplicateLoop'
  BY DEF TicketInv, StampsAgree, NoDuplicateLoop, LoopFree, Exists
<1>3. QED
  BY <1>1, <1>2 DEF TicketInv

\* An audit row is one of a user, at the time.
LEMMA LogForm ==
  ASSUME TicketInv, NEW t \in Threads, Log(t)
  PROVE  /\ job[t].user \in Users /\ log \in Seq([user : Users, at : Time])
         /\ log' = Append(log, [user |-> job[t].user, at |-> now])
         /\ [user |-> job[t].user, at |-> now] \in [user : Users, at : Time]
<1>1. job[t] \in Handlers /\ HandlerInv(job[t]) /\ job[t].step = "log"
  BY DEF Log, TicketInv, Types, TablesOK
<1>2. job[t].user \in Users
  BY <1>1, HandlerForm DEF HandlerInv
<1>3. QED
  BY <1>2 DEF Log, TicketInv, Types, TablesOK

\* Handlers in any number of threads, which read tickets, check them and commit later
\* what they have changed, keep the tickets in order, over any restarts, if what an
\* older version has left is (routes/tickets.py, routes/me_tickets.py).
THEOREM TicketInvariance == TicketSpec => []TicketInv
<1>1. TicketInit => TicketInv
  <2> SUFFICES ASSUME TicketInit PROVE TicketInv
    OBVIOUS
  <2>1. ticket \in [Tickets -> Row \cup {Null}]
    BY TicketAssumption DEF TicketInit
  <2>2. job \in [Threads -> Handlers \cup {Null}] /\ log \in Seq([user : Users, at : Time])
    BY DEF TicketInit
  <2>3. now \in Time /\ requests \in 0..MaxRequests
    BY TicketAssumption DEF TicketInit, Time
  <2>4. Types
    BY <2>1, <2>2, <2>3 DEF TicketInit, Types, TablesOK
  <2>5. QED
    BY <2>4, LegacyAssumption DEF TicketInit, TicketInv, StampsAgree, NoDuplicateLoop, Exists
<1>2. TicketInv /\ [TicketNext]_ticketVars => TicketInv'
  <2> SUFFICES ASSUME TicketInv, [TicketNext]_ticketVars PROVE TicketInv'
    OBVIOUS
  <2>1. ASSUME NEW t \in Threads, Log(t) PROVE TicketInv'
    <3>1. log' \in Seq([user : Users, at : Time])
      <4> DEFINE e == [user |-> job[t].user, at |-> now]
      <4>1. /\ log' = Append(log, e) /\ e \in [user : Users, at : Time]
            /\ log \in Seq([user : Users, at : Time])
        BY <2>1, LogForm
      <4> HIDE DEF e
      <4>2. QED
        BY <4>1
    <3>2. Types'
      BY <2>1, <3>1 DEF TicketInv, Types, TablesOK, Log
    <3>3. QED
      BY <2>1, <3>2, QuietStep DEF TicketInv, Types, TablesOK, Log
  <2>2. CASE Stop
    <3>1. job' \in [Threads -> Handlers \cup {Null}] /\ requests' \in 0..MaxRequests
      BY <2>2, TicketAssumption DEF TicketInv, Types, TablesOK, Stop
    <3>3. Types'
      BY <2>2, <3>1 DEF TicketInv, Types, TablesOK, Stop
    <3>4. QED
      BY <2>2, <3>3, QuietStep DEF Stop
  <2>3. CASE Tick
    <3>1. Types'
      BY <2>3, TicketAssumption DEF TicketInv, Types, TablesOK, Tick, Time
    <3>2. QED
      BY <2>3, <3>1, QuietStep DEF Tick
  <2>4. CASE UNCHANGED ticketVars
    <3>1. Types'
      BY <2>4 DEF TicketInv, Types, TablesOK, ticketVars
    <3>2. QED
      BY <2>4, <3>1, QuietStep DEF ticketVars
  <2>5. QED
    BY <2>1, <2>2, <2>3, <2>4, OwnerStep, ManagerStep, TicketCommitStep, StartupStep DEF TicketNext
<1>3. QED
  BY <1>1, <1>2, PTL DEF TicketSpec

\* A running portal has only tickets whose status is one of the nine, and a request has
\* in hand only rows of those columns (support_tickets.py:migrate_legacy_ticket_statuses).
THEOREM TicketTypes == TicketSpec => []TypeOK
<1>1. ASSUME Types PROVE TypeOK
  <2>1. ASSUME NEW t \in Threads, job[t] # Null PROVE \E K \in SUBSET Tickets : job[t] \in Handler(K)
    <3>1. job[t] \in Handlers
      BY <1>1, <2>1 DEF Types
    <3>2. QED
      BY <3>1 DEF Handlers
  <2>2. TablesOK /\ DOMAIN job = Threads
    BY <1>1 DEF Types
  <2>3. QED
    BY <2>1, <2>2 DEF TypeOK
<1>2. TicketInv => TypeOK
  BY <1>1 DEF TicketInv
<1>3. QED
  BY <1>2, TicketInvariance, PTL

\* A resolved ticket always has its resolved_at and a closed one its closed_at, however
\* handlers overtake each other; and a ticket that no two have changed at once keeps
\* no time of a state it has left (_stamp_status and its callers in routes/tickets.py).
THEOREM StampsHold == TicketSpec => []StampsAgree
  BY TicketInvariance, PTL DEF TicketInv

\* If no two handlers have changed a ticket at once, who follows the references of
\* duplicates arrives at a ticket that is none (tickets.py:mark_duplicate).
THEOREM DuplicatesEnd == TicketSpec => []NoDuplicateLoop
  BY TicketInvariance, PTL DEF TicketInv

-----------------------------------------------------------------------------
(* The rate limit *)

\* Requests in progress that will be counted for a user.
Counted(u) == {t \in Threads : job[t] # Null /\ job[t].user = u}

\* What is counted and what will be.
LimitInv == \A u \in Users :
  Cardinality(RecentRows(u)) + Cardinality(Counted(u)) =< Limit + Cardinality(Threads) - 1

\* What is counted is finite, and requests in progress are no more than threads.
LEMMA CountsFinite ==
  ASSUME TicketInv, NEW u \in Users
  PROVE  /\ IsFiniteSet(RecentRows(u)) /\ Cardinality(RecentRows(u)) \in Nat
         /\ IsFiniteSet(Counted(u)) /\ Cardinality(Counted(u)) \in Nat
         /\ Cardinality(Threads) \in Nat /\ Cardinality(Counted(u)) =< Cardinality(Threads)
         /\ Cardinality(Threads) > 0
<1>1. log \in Seq([user : Users, at : Time])
  BY DEF TicketInv, Types, TablesOK
<1>2. IsFiniteSet(DOMAIN log) /\ RecentRows(u) \subseteq DOMAIN log
  <2>1. DOMAIN log = 1..Len(log) /\ Len(log) \in Nat
    BY <1>1
  <2>2. QED
    BY <2>1, FS_Interval DEF RecentRows
<1>3. Counted(u) \subseteq Threads
  BY DEF Counted
<1>4. QED
  BY <1>2, <1>3, FS_Subset, FS_CardinalityType, FS_EmptySet, TicketAssumption

\* A request that is counted has been let through by the limit.
LEMMA LimitAsk ==
  ASSUME TicketInv, LimitInv, NEW t \in Threads, NEW j, Ask(t, j),
         \/ j.user = Null
         \/ j.user \in Users /\ ~RateLimited(j.user)
  PROVE  LimitInv'
<1> SUFFICES ASSUME NEW u \in Users
             PROVE  Cardinality(RecentRows(u)') + Cardinality(Counted(u)')
                      =< Limit + Cardinality(Threads) - 1
  BY DEF LimitInv
<1>1. RecentRows(u)' = RecentRows(u) /\ job' = [job EXCEPT ![t] = j] /\ job[t] = Null
  BY DEF Ask, RecentRows
<1>2. CASE j.user # u
  <2>1. Counted(u)' = Counted(u)
    BY <1>1, <1>2 DEF Counted, TicketInv, Types, TablesOK
  <2>2. QED
    BY <1>1, <2>1 DEF LimitInv
<1>3. CASE j.user = u
  <2>1. ~(Cardinality(RecentRows(u)) >= Limit)
    BY <1>3, TicketAssumption DEF RateLimited, Recent
  <2>2. Counted(u)' \subseteq Threads
    BY DEF Counted
  <2>3. IsFiniteSet(Counted(u)') /\ Cardinality(Counted(u)') =< Cardinality(Threads)
        /\ Cardinality(Counted(u)') \in Nat
    BY <2>2, FS_Subset, FS_CardinalityType, TicketAssumption
  <2>4. Cardinality(RecentRows(u)) \in Nat /\ Cardinality(Threads) \in Nat /\ Limit \in Nat
    BY CountsFinite, TicketAssumption
  <2>5. QED
    BY <1>1, <2>1, <2>3, <2>4
<1>4. QED
  BY <1>2, <1>3

\* The three doors of an owner that are counted ask for the limit.
LEMMA LimitOwner ==
  ASSUME TicketInv, LimitInv, NEW t \in Threads, ByOwner(t)
  PROVE  LimitInv'
<1>1. ASSUME NEW u \in Users, Create(t, u) PROVE LimitInv'
  BY <1>1, LimitAsk DEF Create, Insert
<1>2. ASSUME NEW r \in Rejections, Review(t, r) PROVE LimitInv'
  <2>1. OwnerOf[r] \in Users
    BY TicketAssumption
  <2>2. QED
    BY <1>2, <2>1, LimitAsk DEF Review, MayReview, Insert
<1>3. ASSUME NEW k \in Tickets, ReplyMine(t, k) PROVE LimitInv'
  <2>1. ticket[k].owner \in Users
    <3>1. ticket[k] \in Row
      BY <1>3 DEF ReplyMine, Seen, TicketInv, Types, TablesOK
    <3>2. QED
      BY <3>1 DEF Row, RowOf
  <2>2. QED
    BY <1>3, <2>1, LimitAsk DEF ReplyMine, Change
<1>4. ASSUME NEW k \in Tickets, Reopen(t, k) PROVE LimitInv'
  BY <1>4, LimitAsk DEF Reopen, Edit, Change
<1>5. QED
  BY <1>1, <1>2, <1>3, <1>4 DEF ByOwner

\* The requests of a manager are not counted.
LEMMA LimitManager ==
  ASSUME TicketInv, LimitInv, NEW t \in Threads, ByManager(t)
  PROVE  LimitInv'
<1>1. ASSUME NEW f, Edit(t, f) PROVE LimitInv'
  BY <1>1, LimitAsk DEF Edit, Change
<1>2. ASSUME NEW g \in Tags, PollRelease(t, g) PROVE LimitInv'
  BY <1>2, LimitAsk DEF PollRelease, Insert
<1>3. QED
  BY <1>1, <1>2 DEF ByManager, Reply, RestoreTicket, Lock, Unlock, Escalate, UnmarkDuplicate,
                    Patch, Delete, Finish, Assign, MarkDuplicate

\* A row more in the log is a request less in progress.
LEMMA LimitLog ==
  ASSUME TicketInv, LimitInv, NEW t \in Threads, Log(t)
  PROVE  LimitInv'
<1> SUFFICES ASSUME NEW u \in Users
             PROVE  Cardinality(RecentRows(u)') + Cardinality(Counted(u)')
                      =< Limit + Cardinality(Threads) - 1
  BY DEF LimitInv
<1> DEFINE e == [user |-> job[t].user, at |-> now]
           n == Len(log) + 1
<1>1. /\ job[t] # Null /\ job' = [job EXCEPT ![t] = Null] /\ now' = now
      /\ log \in Seq([user : Users, at : Time]) /\ log' = Append(log, e)
      /\ e.user = job[t].user /\ e.at = now
  BY LogForm DEF Log
<1>2. /\ n \notin DOMAIN log /\ DOMAIN log' = DOMAIN log \cup {n}
      /\ \A i \in DOMAIN log : log'[i] = log[i]
      /\ log'[n] = e
  <2> HIDE DEF e
  <2>1. QED
    BY <1>1
<1> HIDE DEF e, n
<1>3. RecentRows(u)' \subseteq RecentRows(u) \cup {n} /\ n \notin RecentRows(u)
  BY <1>1, <1>2 DEF RecentRows
<1>4. CASE job[t].user = u
  <2>1. Counted(u)' = Counted(u) \ {t} /\ t \in Counted(u)
    BY <1>1, <1>4 DEF Counted, TicketInv, Types, TablesOK
  <2>2. Cardinality(Counted(u)') = Cardinality(Counted(u)) - 1
    BY <2>1, CountsFinite, FS_RemoveElement
  <2>3. Cardinality(RecentRows(u)') =< Cardinality(RecentRows(u)) + 1
        /\ Cardinality(RecentRows(u)') \in Nat
    <3>1. /\ IsFiniteSet(RecentRows(u) \cup {n})
          /\ Cardinality(RecentRows(u) \cup {n}) = Cardinality(RecentRows(u)) + 1
      BY <1>3, CountsFinite, FS_AddElement
    <3>2. QED
      BY <1>3, <3>1, FS_Subset, FS_CardinalityType
  <2>4. QED
    BY <2>2, <2>3, CountsFinite, TicketAssumption DEF LimitInv
<1>5. CASE job[t].user # u
  <2>1. Counted(u)' = Counted(u)
    BY <1>1, <1>5 DEF Counted, TicketInv, Types, TablesOK
  <2>2. RecentRows(u)' = RecentRows(u)
    BY <1>1, <1>2, <1>5 DEF RecentRows
  <2>3. QED
    BY <2>1, <2>2 DEF LimitInv
<1>6. QED
  BY <1>4, <1>5

\* Steps after which no more is counted, and no more will be.
LEMMA LimitKept ==
  ASSUME TicketInv, LimitInv,
         \A u \in Users : RecentRows(u)' \subseteq RecentRows(u) /\ Counted(u)' \subseteq Counted(u)
  PROVE  LimitInv'
<1> SUFFICES ASSUME NEW u \in Users
             PROVE  Cardinality(RecentRows(u)') + Cardinality(Counted(u)')
                      =< Limit + Cardinality(Threads) - 1
  BY DEF LimitInv
<1>1. /\ Cardinality(RecentRows(u)') =< Cardinality(RecentRows(u))
      /\ Cardinality(Counted(u)') =< Cardinality(Counted(u))
      /\ Cardinality(RecentRows(u)') \in Nat /\ Cardinality(Counted(u)') \in Nat
  BY CountsFinite, FS_Subset, FS_CardinalityType
<1>2. QED
  BY <1>1, CountsFinite, TicketAssumption DEF LimitInv

\* A commit leaves what will be counted to the audit row that follows it.
LEMMA LimitCommit ==
  ASSUME TicketInv, LimitInv, NEW t \in Threads, CommitSession(t)
  PROVE  LimitInv'
<1>1. /\ job[t] # Null /\ log' = log /\ now' = now
      /\ job' = [job EXCEPT ![t] = IF job[t].user = Null THEN Null
                   ELSE [Change(Nothing, job[t].user) EXCEPT !.step = "log"]]
  BY DEF CommitSession
<1>2. ASSUME NEW u \in Users PROVE Counted(u)' \subseteq Counted(u)
  <2> SUFFICES ASSUME NEW s \in Threads, job'[s] # Null, job'[s].user = u
               PROVE  job[s] # Null /\ job[s].user = u
    BY DEF Counted
  <2>1. CASE s = t
    <3>1. job[t].user # Null /\ job'[t] = [Change(Nothing, job[t].user) EXCEPT !.step = "log"]
      BY <1>1, <2>1 DEF TicketInv, Types, TablesOK
    <3>2. job'[t].user = job[t].user
      BY <3>1 DEF Change
    <3>3. QED
      BY <1>1, <2>1, <3>2
  <2>2. CASE s # t
    BY <1>1, <2>2 DEF TicketInv, Types, TablesOK
  <2>3. QED
    BY <2>1, <2>2
<1>3. QED
  BY <1>1, <1>2, LimitKept DEF RecentRows

\* However requests overlap, a user's counted actions in a window are at most the limit
\* and one less than the threads more, by whichever door (me_tickets.py:_rate_limited).
THEOREM RateHolds == TicketSpec => []RateBounded
<1>1. TicketInit /\ TicketInv => LimitInv
  <2> SUFFICES ASSUME TicketInit, TicketInv, NEW u \in Users
               PROVE  Cardinality(RecentRows(u)) + Cardinality(Counted(u))
                        =< Limit + Cardinality(Threads) - 1
    BY DEF LimitInv
  <2>1. RecentRows(u) = {} /\ Counted(u) = {}
    BY DEF TicketInit, RecentRows, Counted
  <2>2. QED
    BY <2>1, CountsFinite, FS_EmptySet, TicketAssumption
<1>2. TicketInv /\ LimitInv /\ [TicketNext]_ticketVars => LimitInv'
  <2> SUFFICES ASSUME TicketInv, LimitInv, [TicketNext]_ticketVars PROVE LimitInv'
    OBVIOUS
  <2>1. CASE Startup \/ UNCHANGED ticketVars
    BY <2>1, LimitKept DEF Startup, ticketVars, RecentRows, Counted
  <2>2. CASE Stop
    BY <2>2, LimitKept DEF Stop, RecentRows, Counted
  <2>3. CASE Tick
    <3>1. ASSUME NEW u \in Users PROVE RecentRows(u)' \subseteq RecentRows(u)
      <4>1. ASSUME NEW i \in DOMAIN log PROVE log[i].at \in Nat
        <5>1. log[i] \in [user : Users, at : Time]
          <6>1. log \in Seq([user : Users, at : Time]) /\ i \in 1..Len(log)
            BY DEF TicketInv, Types, TablesOK
          <6>2. QED
            BY ONLY <6>1, ElementOfSeq
        <5>2. QED
          BY <5>1, TicketAssumption DEF Time
      <4>2. now' = now + 1 /\ now \in Nat /\ log' = log
        BY <2>3, TicketAssumption DEF Tick, TicketInv, Types, TablesOK, Time
      <4>3. QED
        BY <4>1, <4>2, TicketAssumption DEF RecentRows
    <3>2. QED
      BY <2>3, <3>1, LimitKept DEF Tick, Counted
  <2>4. QED
    BY <2>1, <2>2, <2>3, LimitOwner, LimitManager, LimitLog, LimitCommit DEF TicketNext
<1>3. TicketInv /\ LimitInv => RateBounded
  <2> SUFFICES ASSUME TicketInv, LimitInv, NEW u \in Users
               PROVE  Cardinality(RecentRows(u)) =< Limit + Cardinality(Threads) - 1
    BY DEF RateBounded, Recent
  <2>1. QED
    BY CountsFinite, TicketAssumption DEF LimitInv
<1>4. QED
  BY <1>1, <1>2, <1>3, TicketInvariance, PTL DEF TicketSpec
=============================================================================
