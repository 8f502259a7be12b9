-------------------------- MODULE ClientPki_proofs --------------------------
(***************************************************************************)
(* Proofs about ClientPki and ClientScripts, for any number of runners,    *)
(* clients and addresses.                                                  *)
(***************************************************************************)
EXTENDS ClientScripts, TLAPS

\* A runner at a step is in a job.
LEMMA JobType ==
  ASSUME TypeOK, NEW r \in Runner, NEW step, At(r, step)
  PROVE  job[r] \in Job /\ job[r].step = step /\ job[r].name \in Name
  BY DEF TypeOK, At, Job, AddJob, RevokeJob, CutJob, JobOf

LEMMA EndType ==
  ASSUME TypeOK, NEW r \in Runner, End(r)
  PROVE  job' \in [Runner -> Job \cup {NoJob}]
  BY DEF TypeOK, End

LEMMA AddGoToType ==
  ASSUME TypeOK, NEW r \in Runner, job[r] \in AddJob,
         NEW step \in {"issue", "deliver", "check", "dbread"}, GoTo(r, step)
  PROVE  job' \in [Runner -> Job \cup {NoJob}]
  BY DEF TypeOK, GoTo, Job, AddJob, JobOf

LEMMA RevokeGoToType ==
  ASSUME TypeOK, NEW r \in Runner, job[r] \in RevokeJob,
         NEW step \in {"rmcrl", "copycrl", "dbread"}, GoTo(r, step)
  PROVE  job' \in [Runner -> Job \cup {NoJob}]
  BY DEF TypeOK, GoTo, Job, RevokeJob, JobOf

\* A command that starts, of whatever kind.
Starts(r) ==
  \E op, step, n, m :
    /\ Start(r, op, step, n, m)
    /\ n \in Name
    /\ \/ m \in Mac /\ op \in {"add", "restore", "addmac", "rmmac"}
                    /\ step \in {"issue", "clear", "append", "dbread"}
       \/ m = NoMac /\ op = "revoke" /\ step = "revoke"
       \/ m = NoMac /\ op \in {"purge", "clean"} /\ step \in {"clear", "dbread"}

LEMMA StartForm ==
  ASSUME NEW r \in Runner, NEW n \in Name,
         \/ StartPurge(r, n) \/ StartRevoke(r, n) \/ StartClean(r, n)
         \/ \E m \in Mac : \/ StartAdd(r, n, m) \/ StartRestore(r, n, m)
                           \/ StartAddMac(r, n, m) \/ StartRemoveMac(r, n, m)
  PROVE  Starts(r)
<1>1. ASSUME StartPurge(r, n) \/ StartRevoke(r, n) \/ StartClean(r, n)
      PROVE  Starts(r)
  BY <1>1 DEF Starts, StartPurge, StartRevoke, StartClean
<1>2. ASSUME NEW m \in Mac, \/ StartAdd(r, n, m) \/ StartRestore(r, n, m)
                            \/ StartAddMac(r, n, m) \/ StartRemoveMac(r, n, m)
      PROVE  Starts(r)
  BY <1>2 DEF Starts, StartAdd, StartRestore, StartAddMac, StartRemoveMac
<1>3. QED
  BY <1>1, <1>2

-----------------------------------------------------------------------------
\* The type invariant; a serial is reported only when its row is there.
LEMMA TypeStep == TypeOK /\ RowsRevoked /\ [Next]_vars => TypeOK'
<1> SUFFICES ASSUME TypeOK, RowsRevoked, [Next]_vars PROVE TypeOK'
  OBVIOUS
<1> USE PkiAssumption
<1>1. ASSUME NEW r \in Runner, Starts(r) PROVE TypeOK'
  <2>1. PICK op, step, n, m :
          /\ Start(r, op, step, n, m)
          /\ n \in Name
          /\ \/ m \in Mac /\ op \in {"add", "restore", "addmac", "rmmac"}
                          /\ step \in {"issue", "clear", "append", "dbread"}
             \/ m = NoMac /\ op = "revoke" /\ step = "revoke"
             \/ m = NoMac /\ op \in {"purge", "clean"} /\ step \in {"clear", "dbread"}
    BY <1>1 DEF Starts
  <2> DEFINE j == [op |-> op, step |-> step, name |-> n, mac |-> m,
                   serial |-> 0, listed |-> {}, snap |-> {}]
  <2>2. j \in Job
    BY <2>1 DEF Job, AddJob, RevokeJob, CutJob, JobOf
  <2>3. QED
    BY <2>1, <2>2 DEF TypeOK, Start
<1>2. ASSUME NEW r \in Runner, Clear(r) PROVE TypeOK'
  <2>1. job[r] \in Job /\ job[r].name \in Name
    BY <1>2, JobType DEF Clear
  <2>2. job' \in [Runner -> Job \cup {NoJob}]
    <3>1. CASE job[r] \in AddJob
      BY <1>2, <3>1, AddGoToType DEF Clear
    <3>2. CASE job[r] \in CutJob
      BY <1>2, <3>2 DEF TypeOK, Clear, GoTo, Job, CutJob, JobOf
    <3>3. job[r] \notin RevokeJob
      BY <1>2 DEF Clear, At, RevokeJob, JobOf
    <3>4. QED
      BY <2>1, <3>1, <3>2, <3>3 DEF Job
  <2>3. QED
    BY <1>2, <2>1, <2>2 DEF TypeOK, Clear
<1>3. ASSUME NEW r \in Runner, CheckRestored(r) PROVE TypeOK'
  <2>1. job[r] \in AddJob
    BY <1>3, JobType DEF CheckRestored, Job, RevokeJob, CutJob, JobOf
  <2>2. job' \in [Runner -> Job \cup {NoJob}]
    BY <1>3, <2>1, AddGoToType, EndType DEF CheckRestored
  <2>3. QED
    BY <1>3, <2>2 DEF TypeOK, CheckRestored
<1>4. ASSUME NEW r \in Runner, Issue(r) PROVE TypeOK'
  <2>1. job[r] \in AddJob /\ job[r].name \in Name
    BY <1>4, JobType DEF Issue, Job, RevokeJob, CutJob, JobOf
  <2>2. CASE End(r) /\ UNCHANGED <<cert, crt>>
    BY <1>4, <2>2, EndType DEF TypeOK, Issue
  <2>3. ASSUME NEW s \in Serial,
               cert' = [cert EXCEPT ![s] = [status |-> "V", name |-> job[r].name]],
               crt' = [crt EXCEPT ![job[r].name] = s],
               job' = [job EXCEPT ![r].step = "append", ![r].serial = s]
        PROVE  TypeOK'
    <3>1. s \in 0..MaxCerts
      BY DEF Serial
    <3>2. [status |-> "V", name |-> job[r].name] \in Row
      BY <2>1 DEF Row
    <3>3. job' \in [Runner -> Job \cup {NoJob}]
      BY <2>1, <2>3, <3>1 DEF TypeOK, Job, AddJob, JobOf
    <3>4. QED
      BY <1>4, <2>1, <2>3, <3>1, <3>2, <3>3 DEF TypeOK, Issue
  <2>4. QED
    BY <1>4, <2>2, <2>3 DEF Issue
<1>5. ASSUME NEW r \in Runner, Append(r) PROVE TypeOK'
  <2>1. job[r] \in AddJob /\ job[r].name \in Name
    BY <1>5, JobType DEF Append, Job, RevokeJob, CutJob, JobOf
  <2>2. job' \in [Runner -> Job \cup {NoJob}]
    BY <1>5, <2>1, AddGoToType, EndType DEF Append
  <2>3. <<job[r].name, job[r].mac>> \in Name \X Mac
    BY <2>1 DEF AddJob, JobOf
  <2>4. QED
    BY <1>5, <2>2, <2>3 DEF TypeOK, Append
<1>6. ASSUME NEW r \in Runner, Deliver(r) PROVE TypeOK'
  <2>1. job[r].name \in Name /\ job[r].serial \in 0..MaxCerts
    BY <1>6, JobType DEF Deliver, Job, AddJob, RevokeJob, CutJob, JobOf
  <2>2. QED
    BY <1>6, <2>1, EndType DEF TypeOK, Deliver
<1>7. ASSUME NEW r \in Runner, RevokeRow(r) PROVE TypeOK'
  <2> DEFINE n == job[r].name
             s == crt[n]
  <2>1. job[r] \in RevokeJob /\ n \in Name /\ s \in 0..MaxCerts
    BY <1>7, JobType DEF RevokeRow, Job, AddJob, CutJob, JobOf, TypeOK
  <2>2. CASE s = 0
    BY <1>7, <2>2, EndType DEF TypeOK, RevokeRow
  <2>3. CASE s # 0
    <3>1. /\ cert' = [cert EXCEPT ![s] = [status |-> "R", name |-> n]]
          /\ crt' = [crt EXCEPT ![n] = 0]
          /\ job' = [job EXCEPT ![r].step = "gencrl", ![r].serial = s]
      BY <1>7, <2>3 DEF RevokeRow
    <3>2. [status |-> "R", name |-> n] \in Row
      BY <2>1 DEF Row
    <3>3. job' \in [Runner -> Job \cup {NoJob}]
      BY <2>1, <3>1 DEF TypeOK, Job, RevokeJob, JobOf
    <3>4. cert' \in [Serial -> Row]
      BY <3>1, <3>2 DEF TypeOK
    <3>. 0 \in 0..MaxCerts
      OBVIOUS
    <3>6. crt' \in [Name -> 0..MaxCerts]
      BY <3>1 DEF TypeOK
    <3>5. QED
      BY <1>7, <3>3, <3>4, <3>6 DEF TypeOK, RevokeRow
  <2>4. QED
    BY <2>2, <2>3
<1>8. ASSUME NEW r \in Runner, GenCrl(r) \/ RemoveCrl(r) \/ CopyCrl(r) PROVE TypeOK'
  <2>1. job[r] \in RevokeJob
    BY <1>8, JobType DEF GenCrl, RemoveCrl, CopyCrl, Job, AddJob, CutJob, JobOf
  <2>2. job' \in [Runner -> Job \cup {NoJob}]
    BY <1>8, <2>1, RevokeGoToType DEF GenCrl, RemoveCrl, CopyCrl
  <2>3. job[r].listed \subseteq Serial
    BY <2>1 DEF RevokeJob, JobOf
  <2>4. QED
    BY <1>8, <2>2, <2>3 DEF TypeOK, GenCrl, RemoveCrl, CopyCrl
<1>14. ASSUME NEW r \in Runner, ListRevoked(r) PROVE TypeOK'
  <2>1. job[r] \in RevokeJob
    BY <1>14, JobType DEF ListRevoked, Job, AddJob, CutJob, JobOf
  <2>2. [job[r] EXCEPT !.step = "putcrl", !.listed = Revoked] \in Job
    BY <2>1 DEF Job, RevokeJob, JobOf, Revoked
  <2>3. QED
    BY <1>14, <2>2 DEF TypeOK, ListRevoked
<1>9. ASSUME NEW r \in Runner, DbRead(r) PROVE TypeOK'
  <2>1. job[r] \in Job
    BY <1>9, JobType DEF DbRead
  <2>2. Kept(r) \in SUBSET (Name \X Mac)
    BY DEF TypeOK, Kept
  <2>3. [job[r] EXCEPT !.step = "dbwrite", !.snap = Kept(r)] \in Job
    BY <2>1, <2>2 DEF Job, AddJob, RevokeJob, CutJob, JobOf
  <2>4. QED
    BY <1>9, <2>3 DEF TypeOK, DbRead
<1>10. ASSUME NEW r \in Runner, DbWrite(r) PROVE TypeOK'
  <2>1. /\ job[r] \in Job /\ job[r].snap \subseteq Name \X Mac
        /\ job[r].serial \in 0..MaxCerts
    BY <1>10, JobType DEF DbWrite, Job, AddJob, RevokeJob, CutJob, JobOf
  <2>2. job[r].op = "revoke" => job[r].serial \in Serial
    BY <1>10 DEF DbWrite, At, RowsRevoked, Revoking, Revoked
  <2>3. QED
    BY <1>10, <2>1, <2>2, EndType DEF TypeOK, DbWrite
<1>11. ASSUME NEW r \in Runner, Kill(r) PROVE TypeOK'
  BY <1>11, EndType DEF TypeOK, Kill
<1>12. CASE UNCHANGED vars
  BY <1>12 DEF TypeOK, vars
<1>13. QED
  BY <1>1, <1>2, <1>3, <1>4, <1>5, <1>6, <1>7, <1>8, <1>9, <1>10, <1>11, <1>12, <1>14,
     StartForm DEF Next

-----------------------------------------------------------------------------
\* Only --add-user issues, only --revoke-user revokes, and each moves the file.
LEMMA IssuedStep ==
  TypeOK /\ IssuedIsValid /\ [Next]_vars => IssuedIsValid'
<1> SUFFICES ASSUME TypeOK, IssuedIsValid, [Next]_vars PROVE IssuedIsValid'
  OBVIOUS
<1> USE PkiAssumption
<1>1. CASE UNCHANGED <<cert, crt>>
  BY <1>1 DEF IssuedIsValid
<1>2. ASSUME NEW r \in Runner, Clear(r) PROVE IssuedIsValid'
  BY <1>2 DEF TypeOK, IssuedIsValid, Clear
<1>3. ASSUME NEW r \in Runner, Issue(r) PROVE IssuedIsValid'
  <2> DEFINE n == job[r].name
  <2>1. CASE ~UNCHANGED <<cert, crt>>
    <3>1. PICK s \in Serial :
            /\ cert[s].status = "-"
            /\ cert' = [cert EXCEPT ![s] = [status |-> "V", name |-> n]]
            /\ crt' = [crt EXCEPT ![n] = s]
      BY <1>3, <2>1 DEF Issue
    <3>2. n \in Name
      BY <1>3, JobType DEF Issue
    <3>3. ASSUME NEW d \in Name, crt'[d] # 0
          PROVE  cert'[crt'[d]] = [status |-> "V", name |-> d]
      <4>1. CASE d = n
        BY <3>1, <3>2, <4>1 DEF TypeOK
      <4>2. CASE d # n
        BY <3>1, <3>3, <4>2 DEF TypeOK, IssuedIsValid
      <4>3. QED
        BY <4>1, <4>2
    <3>4. QED
      BY <3>3 DEF IssuedIsValid
  <2>2. QED
    BY <1>1, <2>1
<1>4. ASSUME NEW r \in Runner, RevokeRow(r) PROVE IssuedIsValid'
  <2> DEFINE n == job[r].name
             s == crt[n]
  <2>1. CASE s # 0
    <3>1. /\ cert' = [cert EXCEPT ![s] = [status |-> "R", name |-> n]]
          /\ crt' = [crt EXCEPT ![n] = 0]
      BY <1>4, <2>1 DEF RevokeRow
    <3>2. n \in Name
      BY <1>4, JobType DEF RevokeRow
    <3>3. ASSUME NEW d \in Name, crt'[d] # 0
          PROVE  cert'[crt'[d]] = [status |-> "V", name |-> d]
      <4>1. d # n /\ crt'[d] = crt[d]
        BY <3>1, <3>2, <3>3 DEF TypeOK
      <4>2. cert[s] = [status |-> "V", name |-> n]
        BY <2>1, <3>2 DEF IssuedIsValid
      <4>3. cert[crt[d]] = [status |-> "V", name |-> d]
        BY <3>3, <4>1 DEF IssuedIsValid
      <4>4. crt[d] # s
        BY <4>1, <4>2, <4>3
      <4>5. QED
        BY <3>1, <4>1, <4>3, <4>4 DEF TypeOK
    <3>4. QED
      BY <3>3 DEF IssuedIsValid
  <2>2. CASE s = 0
    BY <1>1, <1>4, <2>2 DEF RevokeRow
  <2>3. QED
    BY <2>1, <2>2
<1>5. ASSUME NEW r \in Runner,
             \/ Starts(r) \/ CheckRestored(r) \/ Append(r) \/ Deliver(r)
             \/ ListRevoked(r) \/ GenCrl(r) \/ RemoveCrl(r) \/ CopyCrl(r)
             \/ DbRead(r) \/ DbWrite(r) \/ Kill(r)
      PROVE  UNCHANGED <<cert, crt>>
  BY <1>5 DEF Starts, Start, CheckRestored, Append, Deliver, ListRevoked, GenCrl,
              RemoveCrl, CopyCrl, DbRead, DbWrite, Kill
<1>6. QED
  BY <1>1, <1>2, <1>3, <1>4, <1>5, StartForm DEF Next, vars

\* A row that is R stays R.
LEMMA RevokedGrows ==
  ASSUME TypeOK, IssuedIsValid, [Next]_vars
  PROVE  Revoked \subseteq Revoked'
<1> USE PkiAssumption
<1>1. CASE UNCHANGED cert
  BY <1>1 DEF Revoked
<1>2. ASSUME NEW r \in Runner, Issue(r), ~UNCHANGED cert PROVE Revoked \subseteq Revoked'
  <2>1. PICK s \in Serial :
          /\ cert[s].status = "-"
          /\ cert' = [cert EXCEPT ![s] = [status |-> "V", name |-> job[r].name]]
    BY <1>2 DEF Issue
  <2>2. QED
    BY <2>1 DEF TypeOK, Revoked
<1>3. ASSUME NEW r \in Runner, RevokeRow(r), ~UNCHANGED cert
      PROVE  Revoked \subseteq Revoked'
  BY <1>3 DEF TypeOK, Revoked, RevokeRow
<1>4. ASSUME NEW r \in Runner,
             \/ Starts(r) \/ CheckRestored(r) \/ Append(r) \/ Deliver(r)
             \/ ListRevoked(r) \/ GenCrl(r) \/ RemoveCrl(r) \/ CopyCrl(r) \/ Clear(r)
             \/ DbRead(r) \/ DbWrite(r) \/ Kill(r)
      PROVE  UNCHANGED cert
  BY <1>4 DEF Starts, Start, CheckRestored, Append, Deliver, ListRevoked, GenCrl,
              RemoveCrl, CopyCrl, Clear, DbRead, DbWrite, Kill
<1>5. QED
  BY <1>1, <1>2, <1>3, <1>4, StartForm DEF Next, vars

-----------------------------------------------------------------------------
\* The steps of a --revoke-user are a --revoke-user's.
LEMMA RevokeSteps ==
  ASSUME TypeOK, NEW r \in Runner,
         NEW step \in {"revoke", "gencrl", "putcrl", "rmcrl", "copycrl"}, At(r, step)
  PROVE  /\ job[r] \in RevokeJob /\ job[r] \in Job /\ job[r].op = "revoke"
         /\ job[r].step = step /\ Revoking(r)
  BY JobType DEF Job, AddJob, RevokeJob, CutJob, JobOf, At, Revoking

\* The steps only another command has.
LEMMA OtherSteps ==
  ASSUME TypeOK, NEW r \in Runner,
         NEW step \in {"clear", "check", "issue", "append", "deliver"}, At(r, step)
  PROVE  job[r] \in AddJob \cup CutJob /\ job[r] \in Job /\ job[r].op # "revoke"
  BY JobType DEF Job, AddJob, RevokeJob, CutJob, JobOf

LEMMA GoToForm ==
  ASSUME TypeOK, NEW r \in Runner, NEW step, job[r] \in Job, GoTo(r, step)
  PROVE  /\ \A q \in Runner : q # r => job'[q] = job[q]
         /\ job'[r] = [job[r] EXCEPT !.step = step]
         /\ job'[r].step = step /\ job'[r].op = job[r].op
         /\ job'[r].serial = job[r].serial
  BY DEF TypeOK, GoTo, Job, AddJob, RevokeJob, CutJob, JobOf

LEMMA EndForm ==
  ASSUME TypeOK, NEW r \in Runner, End(r)
  PROVE  job'[r] = NoJob /\ \A q \in Runner : q # r => job'[q] = job[q]
  BY DEF TypeOK, End

\* What a step makes of the job of its runner, as far as a revocation is concerned:
\* it has none, one that has revoked nothing yet, or the one it had, further on.
LEMMA JobStep ==
  ASSUME TypeOK, NEW r \in Runner,
         \/ Starts(r) \/ Clear(r) \/ CheckRestored(r) \/ Issue(r) \/ Append(r)
         \/ Deliver(r) \/ ListRevoked(r) \/ GenCrl(r) \/ RemoveCrl(r) \/ CopyCrl(r)
         \/ DbRead(r) \/ DbWrite(r) \/ Kill(r)
  PROVE  /\ \A q \in Runner : q # r => job'[q] = job[q]
         /\ \/ ~Revoking(r)' \/ job'[r].step = "revoke"
            \/ /\ Revoking(r) /\ job[r].step # "revoke"
               /\ job'[r].serial = job[r].serial
<1>1. ASSUME Starts(r)
      PROVE  /\ \A q \in Runner : q # r => job'[q] = job[q]
             /\ ~Revoking(r)' \/ job'[r].step = "revoke"
  <2>1. PICK op, step, n, m :
          Start(r, op, step, n, m) /\ (op = "revoke" => step = "revoke")
    BY <1>1 DEF Starts
  <2>2. job'[r].op = op /\ job'[r].step = step
    BY <2>1 DEF TypeOK, Start
  <2>3. QED
    BY <2>1, <2>2 DEF TypeOK, Start, Revoking
<1>2. ASSUME End(r)
      PROVE  (\A q \in Runner : q # r => job'[q] = job[q]) /\ ~Revoking(r)'
  BY <1>2, EndForm DEF Revoking
<1>3. ASSUME NEW step, job[r] \in Job, GoTo(r, step)
      PROVE  /\ \A q \in Runner : q # r => job'[q] = job[q]
             /\ job'[r].op = job[r].op /\ job'[r].serial = job[r].serial
             /\ job[r] # NoJob
  <2>1. job[r] # NoJob
    BY <1>3 DEF NoJob, Job, AddJob, RevokeJob, CutJob, JobOf
  <2>2. QED
    BY <1>3, <2>1, GoToForm
<1>4. ASSUME Clear(r) \/ CheckRestored(r) \/ Append(r) \/ Deliver(r)
      PROVE  /\ \A q \in Runner : q # r => job'[q] = job[q]
             /\ ~Revoking(r)'
  <2>1. job[r] \in Job /\ job[r].op # "revoke"
    BY <1>4, OtherSteps DEF Clear, CheckRestored, Append, Deliver
  <2>2. End(r) \/ \E step : GoTo(r, step)
    BY <1>4 DEF Clear, CheckRestored, Append, Deliver
  <2>3. QED
    BY <1>2, <1>3, <2>1, <2>2 DEF Revoking
<1>5. ASSUME Issue(r)
      PROVE  /\ \A q \in Runner : q # r => job'[q] = job[q]
             /\ ~Revoking(r)'
  <2>1. job[r] \in Job /\ job[r].op # "revoke"
    BY <1>5, OtherSteps DEF Issue
  <2>2. ASSUME NEW s \in Serial,
               job' = [job EXCEPT ![r].step = "append", ![r].serial = s]
        PROVE  (\A q \in Runner : q # r => job'[q] = job[q]) /\ job'[r].op = job[r].op
    BY <2>1, <2>2 DEF TypeOK, Job, AddJob, RevokeJob, CutJob, JobOf
  <2>3. QED
    BY <1>2, <1>5, <2>1, <2>2 DEF Issue, Revoking
<1>6. ASSUME GenCrl(r) \/ RemoveCrl(r) \/ CopyCrl(r)
      PROVE  /\ \A q \in Runner : q # r => job'[q] = job[q]
             /\ Revoking(r) /\ job[r].step # "revoke" /\ job'[r].serial = job[r].serial
  <2>1. job[r] \in Job /\ Revoking(r) /\ job[r].step # "revoke"
    BY <1>6, RevokeSteps DEF GenCrl, RemoveCrl, CopyCrl
  <2>2. \E step : GoTo(r, step)
    BY <1>6 DEF GenCrl, RemoveCrl, CopyCrl
  <2>3. QED
    BY <1>3, <2>1, <2>2
<1>7. ASSUME ListRevoked(r)
      PROVE  /\ \A q \in Runner : q # r => job'[q] = job[q]
             /\ Revoking(r) /\ job[r].step # "revoke" /\ job'[r].serial = job[r].serial
  <2>1. job[r] \in RevokeJob /\ Revoking(r) /\ job[r].step # "revoke"
    BY <1>7, RevokeSteps DEF ListRevoked
  <2>2. QED
    BY <1>7, <2>1 DEF ListRevoked, TypeOK, RevokeJob, JobOf
<1>8. ASSUME DbRead(r)
      PROVE  /\ \A q \in Runner : q # r => job'[q] = job[q]
             /\ job'[r].op = job[r].op /\ job'[r].serial = job[r].serial
             /\ job[r] # NoJob /\ job[r].step # "revoke"
  <2>1. job[r] \in Job /\ job[r].step = "dbread" /\ job[r] # NoJob
    BY <1>8, JobType DEF DbRead, At
  <2>2. QED
    BY <1>8, <2>1 DEF TypeOK, DbRead, Job, AddJob, RevokeJob, CutJob, JobOf
<1>9. CASE DbWrite(r) \/ Kill(r)
  BY <1>2, <1>9 DEF DbWrite, Kill
<1>10. CASE DbRead(r)
  BY <1>8, <1>10 DEF Revoking
<1>11. QED
  BY <1>1, <1>4, <1>5, <1>6, <1>7, <1>9, <1>10

\* easyrsa revoke marks the row before the revocation goes on.
LEMMA RevokeStep ==
  ASSUME TypeOK, NEW r \in Runner, RevokeRow(r)
  PROVE  /\ \A q \in Runner : q # r => job'[q] = job[q]
         /\ \/ ~Revoking(r)'
            \/ job'[r].step = "gencrl" /\ job'[r].serial \in Revoked'
<1> DEFINE s == crt[job[r].name]
<1>1. job[r] \in RevokeJob /\ job[r].name \in Name
  BY RevokeSteps DEF RevokeRow, RevokeJob, JobOf
<1>2. CASE s = 0
  BY <1>2, EndForm DEF RevokeRow, Revoking
<1>3. CASE s # 0
  <2>1. s \in Serial
    BY <1>1, <1>3, PkiAssumption DEF TypeOK, Serial
  <2>2. s \in Revoked'
    BY <1>3, <2>1 DEF TypeOK, RevokeRow, Revoked
  <2>3. /\ \A q \in Runner : q # r => job'[q] = job[q]
        /\ job'[r].step = "gencrl" /\ job'[r].serial = s
    BY <1>1, <1>3 DEF TypeOK, RevokeRow, RevokeJob, JobOf
  <2>4. QED
    BY <2>2, <2>3
<1>4. QED
  BY <1>2, <1>3

\* Whatever the runners do, what a revocation has marked stays marked.
LEMMA RowsStep ==
  ASSUME TypeOK, IssuedIsValid, RowsRevoked, [Next]_vars
  PROVE  RowsRevoked'
<1>1. Revoked \subseteq Revoked'
  BY RevokedGrows
<1>2. ASSUME NEW r \in Runner, \A q \in Runner : q # r => job'[q] = job[q],
             \/ ~Revoking(r)' \/ job'[r].step = "revoke"
             \/ job'[r].serial \in Revoked'
             \/ /\ Revoking(r) /\ job[r].step # "revoke"
                /\ job'[r].serial = job[r].serial
      PROVE  RowsRevoked'
  BY <1>1, <1>2 DEF RowsRevoked, Revoking
<1>3. CASE UNCHANGED vars
  BY <1>1, <1>3 DEF RowsRevoked, Revoking, vars
<1>4. QED
  BY <1>2, <1>3, JobStep, RevokeStep, StartForm DEF Next

LEMMA InitInv == Init => IInv
<1> SUFFICES ASSUME Init PROVE IInv
  OBVIOUS
<1> USE PkiAssumption
<1>1. TypeOK
  BY DEF Init, TypeOK, Row
<1>2. IssuedIsValid /\ RowsRevoked
  BY DEF Init, IssuedIsValid, RowsRevoked, Revoking
<1>3. QED
  BY <1>1, <1>2 DEF IInv

LEMMA StepInv == IInv /\ [Next]_vars => IInv'
  BY TypeStep, IssuedStep, RowsStep DEF IInv

\* Whoever runs the script at the same time, an issued file is a valid certificate of
\* its name, and a revocation goes on only with a row that it has marked.
THEOREM Invariance == Spec => []IInv
  BY InitInv, StepInv, PTL DEF Spec

\* The files of the PKI keep their form whatever runs at the same time: in
\* particular a line of openvpn_db.txt is a name and an address (Append after
\* ensure_trailing_newline) and a serial reported revoked is a real one.
THEOREM TypeCorrect == Spec => []TypeOK
  BY Invariance, PTL DEF IInv

\* The issued files of a client are never a revoked or another certificate's.
THEOREM IssuedValid == Spec => []IssuedIsValid
<1>1. IInv => IssuedIsValid
  BY DEF IInv
<1>2. QED
  BY <1>1, Invariance, PTL

-----------------------------------------------------------------------------
(* One script at a time, as the portal's lock has it: first the CRLs.      *)

Alone == \A r, s \in Runner : r = s

CrlInv == CrlsGrow /\ RevokeProgress

\* A step that is no part of making or copying a CRL keeps what the revocation that
\* is running has done.
LEMMA CrlsKept ==
  ASSUME Alone, CrlInv, Revoked \subseteq Revoked', UNCHANGED <<pkiCrl, crl, reported>>,
         NEW r \in Runner,
         \/ ~Revoking(r)' \/ job'[r].step \in {"revoke", "gencrl"}
  PROVE  CrlInv'
<1>1. CrlsGrow'
  BY DEF CrlInv, CrlsGrow, ReportedRevoked
<1>2. RevokeProgress'
  BY DEF Alone, RevokeProgress
<1>3. QED
  BY <1>1, <1>2 DEF CrlInv

\* Every step brings a revocation forward, or leaves it where it is.
LEMMA CrlStep ==
  ASSUME Alone, IInv, CrlInv, [Next]_vars
  PROVE  CrlInv'
<1> USE PkiAssumption
<1>0. TypeOK /\ CrlsGrow /\ Revoked \subseteq Revoked'
  BY RevokedGrows DEF IInv, CrlInv
<1>1. ASSUME NEW r \in Runner,
             \/ Starts(r) \/ Clear(r) \/ CheckRestored(r) \/ Issue(r) \/ Append(r)
             \/ Deliver(r) \/ Kill(r)
      PROVE  CrlInv'
  <2>1. UNCHANGED <<pkiCrl, crl, reported>>
    BY <1>1 DEF Starts, Start, Clear, CheckRestored, Issue, Append, Deliver, Kill
  <2>2. ~Revoking(r)' \/ job'[r].step = "revoke" \/ Revoking(r)
    BY <1>0, <1>1, JobStep
  <2>3. Starts(r) \/ Kill(r) \/ ~Revoking(r)
    BY <1>0, <1>1, OtherSteps
       DEF Clear, CheckRestored, Issue, Append, Deliver, Revoking
  <2>4. Starts(r) => ~Revoking(r)
    BY DEF Starts, Start, Idle, Revoking
  <2>5. Kill(r) => ~Revoking(r)'
    BY <1>0, EndForm DEF Kill, Revoking
  <2>6. QED
    BY <1>0, <2>1, <2>2, <2>3, <2>4, <2>5, CrlsKept
<1>2. ASSUME NEW r \in Runner, RevokeRow(r) PROVE CrlInv'
  <2>1. UNCHANGED <<pkiCrl, crl, reported>>
    BY <1>2 DEF RevokeRow
  <2>2. QED
    BY <1>0, <1>2, <2>1, RevokeStep, CrlsKept
<1>3. ASSUME NEW r \in Runner, ListRevoked(r) PROVE CrlInv'
  <2>1. job[r] \in RevokeJob /\ Revoking(r) /\ job[r].step = "gencrl"
    BY <1>0, <1>3, RevokeSteps DEF ListRevoked
  <2>2. job[r].serial \in Revoked
    BY <2>1 DEF IInv, RowsRevoked
  <2>3. /\ job'[r].step = "putcrl" /\ job'[r].listed = Revoked
        /\ job'[r].serial = job[r].serial
    BY <1>0, <1>3, <2>1 DEF ListRevoked, TypeOK, RevokeJob, JobOf
  <2>4. UNCHANGED <<pkiCrl, crl, reported>> /\ Revoked' = Revoked
    BY <1>3 DEF ListRevoked, Revoked
  <2>5. CrlsGrow'
    BY <1>0, <2>4 DEF CrlsGrow, ReportedRevoked
  <2>6. RevokeProgress'
    BY <1>0, <2>2, <2>3, <2>4 DEF Alone, RevokeProgress, CrlsGrow
  <2>7. QED
    BY <2>5, <2>6 DEF CrlInv
<1>4. ASSUME NEW r \in Runner, GenCrl(r) PROVE CrlInv'
  <2>1. job[r] \in Job /\ Revoking(r) /\ job[r].step = "putcrl"
    BY <1>0, <1>4, RevokeSteps DEF GenCrl
  <2>2. /\ pkiCrl \cup {job[r].serial} \subseteq job[r].listed
        /\ job[r].listed \subseteq Revoked
    BY <2>1 DEF CrlInv, RevokeProgress
  <2>3. pkiCrl' = job[r].listed /\ Revoked' = Revoked /\ UNCHANGED <<crl, reported>>
    BY <1>4 DEF GenCrl, Revoked
  <2>4. job'[r].step = "rmcrl" /\ job'[r].serial = job[r].serial
    BY <1>0, <1>4, <2>1, GoToForm DEF GenCrl
  <2>5. CrlsGrow'
    BY <1>0, <2>2, <2>3 DEF CrlsGrow, ReportedRevoked
  <2>6. RevokeProgress'
    BY <2>2, <2>3, <2>4 DEF Alone, RevokeProgress
  <2>7. QED
    BY <2>5, <2>6 DEF CrlInv
<1>5. ASSUME NEW r \in Runner, RemoveCrl(r) PROVE CrlInv'
  <2>1. job[r] \in Job /\ Revoking(r) /\ job[r].step = "rmcrl"
    BY <1>0, <1>5, RevokeSteps DEF RemoveCrl
  <2>2. job[r].serial \in pkiCrl
    BY <2>1 DEF CrlInv, RevokeProgress
  <2>3. crl' = NoCrl /\ Revoked' = Revoked /\ UNCHANGED <<pkiCrl, reported>>
    BY <1>5 DEF RemoveCrl, Revoked
  <2>4. job'[r].step = "copycrl" /\ job'[r].serial = job[r].serial
    BY <1>0, <1>5, <2>1, GoToForm DEF RemoveCrl
  <2>5. CrlsGrow'
    BY <1>0, <2>3 DEF CrlsGrow, ReportedRevoked
  <2>6. RevokeProgress'
    BY <2>2, <2>3, <2>4 DEF Alone, RevokeProgress
  <2>7. QED
    BY <2>5, <2>6 DEF CrlInv
<1>6. ASSUME NEW r \in Runner, CopyCrl(r) PROVE CrlInv'
  <2>1. job[r] \in Job /\ Revoking(r) /\ job[r].step = "copycrl"
    BY <1>0, <1>6, RevokeSteps DEF CopyCrl
  <2>2. job[r].serial \in pkiCrl
    BY <2>1 DEF CrlInv, RevokeProgress
  <2>3. crl' = pkiCrl /\ Revoked' = Revoked /\ UNCHANGED <<pkiCrl, reported>>
    BY <1>6 DEF CopyCrl, Revoked
  <2>4. job'[r].step = "dbread" /\ job'[r].serial = job[r].serial
    BY <1>0, <1>6, <2>1, GoToForm DEF CopyCrl
  <2>5. CrlsGrow'
    BY <1>0, <2>3 DEF CrlsGrow, ReportedRevoked
  <2>6. RevokeProgress'
    BY <2>2, <2>3, <2>4 DEF Alone, RevokeProgress
  <2>7. QED
    BY <2>5, <2>6 DEF CrlInv
<1>7. ASSUME NEW r \in Runner, DbRead(r) PROVE CrlInv'
  <2>1. job[r] \in Job /\ job[r].step = "dbread" /\ job[r] # NoJob
    BY <1>0, <1>7, JobType DEF DbRead, At
  <2>2. /\ job'[r].op = job[r].op /\ job'[r].step = "dbwrite"
        /\ job'[r].serial = job[r].serial
    BY <1>0, <1>7, <2>1 DEF TypeOK, DbRead, Job, AddJob, RevokeJob, CutJob, JobOf
  <2>3. UNCHANGED <<pkiCrl, crl, reported>> /\ Revoked' = Revoked
    BY <1>7 DEF DbRead, Revoked
  <2>4. CrlsGrow'
    BY <1>0, <2>3 DEF CrlsGrow, ReportedRevoked
  <2>5. RevokeProgress'
    BY <2>1, <2>2, <2>3 DEF Alone, CrlInv, RevokeProgress, Revoking
  <2>6. QED
    BY <2>4, <2>5 DEF CrlInv
<1>8. ASSUME NEW r \in Runner, DbWrite(r) PROVE CrlInv'
  <2>1. job[r] \in Job /\ job[r].step = "dbwrite" /\ job[r] # NoJob
    BY <1>0, <1>8, JobType DEF DbWrite, At
  <2>2. ~Revoking(r)'
    BY <1>0, <1>8, EndForm DEF DbWrite, Revoking
  <2>3. /\ UNCHANGED <<pkiCrl, crl>> /\ Revoked' = Revoked
        /\ reported' = IF job[r].op = "revoke" THEN reported \cup {job[r].serial}
                                               ELSE reported
    BY <1>8 DEF DbWrite, Revoked
  <2>4. job[r].op = "revoke" =>
          job[r].serial \in pkiCrl /\ (crl = NoCrl \/ job[r].serial \in crl)
    BY <2>1 DEF CrlInv, RevokeProgress, Revoking
  <2>5. CrlsGrow'
    BY <1>0, <2>3, <2>4 DEF CrlsGrow, ReportedRevoked
  <2>6. RevokeProgress'
    BY <2>2 DEF Alone, RevokeProgress
  <2>7. QED
    BY <2>5, <2>6 DEF CrlInv
<1>9. CASE UNCHANGED vars
  BY <1>9 DEF CrlInv, vars, CrlsGrow, ReportedRevoked, RevokeProgress, Revoking, Revoked
<1>10. QED
  BY <1>1, <1>2, <1>3, <1>4, <1>5, <1>6, <1>7, <1>8, <1>9, StartForm DEF Next

\* No sequence of the portal's scripts, killed anywhere or not, takes a certificate
\* reported revoked off the installed CRL.  Of two runners that do not know of each
\* other this is false (run pki_shell).
THEOREM RevocationHolds ==
  ASSUME Alone
  PROVE  Spec => []ReportedRevoked
<1>1. Init => CrlInv
  BY DEF Init, CrlInv, CrlsGrow, ReportedRevoked, RevokeProgress, Revoking
<1>2. IInv /\ CrlInv /\ [Next]_vars => CrlInv'
  BY CrlStep
<1>3. CrlInv => ReportedRevoked
  BY DEF CrlInv, CrlsGrow
<1>4. QED
  BY <1>1, <1>2, <1>3, Invariance, PTL DEF Spec

-----------------------------------------------------------------------------
(* One script at a time: what happens to the registrations in              *)
(* openvpn_db.txt.                                                         *)

\* The file a rewrite has read is still the one it is about to replace.
SnapInv == \A r \in Runner : At(r, "dbwrite") => job[r].snap = Kept(r)

\* An address that is about to be registered has no other owner.
ClaimInv ==
  \A r \in Runner : At(r, "issue") \/ At(r, "append") =>
    \A x \in db : x[2] = job[r].mac => x[1] = job[r].name

OwnInv == TypeOK /\ SnapInv /\ ClaimInv /\ OneOwner

\* The rows a rewrite drops are those of its command's own client, or of one address
\* and of names alike.
LEMMA KeptRows ==
  ASSUME NEW r \in Runner
  PROVE  /\ Kept(r) \subseteq db
         /\ \A x \in db \ Kept(r) :
              /\ job[r].op = "rmmac" => x[1] \in Alike(job[r].name) /\ x[2] = job[r].mac
              /\ job[r].op # "rmmac" => x[1] = job[r].name
  BY DEF Kept, RowsOf, LinesLike

\* Only an append and a rewrite change the file.
LEMMA DbChange ==
  ASSUME [Next]_vars
  PROVE  db' = db \/ \E r \in Runner : Append(r) \/ DbWrite(r)
<1>1. ASSUME NEW r \in Runner,
             \/ Starts(r) \/ Clear(r) \/ CheckRestored(r) \/ Issue(r) \/ Deliver(r)
             \/ RevokeRow(r) \/ ListRevoked(r) \/ GenCrl(r) \/ RemoveCrl(r) \/ CopyCrl(r)
             \/ DbRead(r) \/ Kill(r)
      PROVE  db' = db
  BY <1>1 DEF Starts, Start, Clear, CheckRestored, Issue, Deliver, RevokeRow, ListRevoked,
              GenCrl, RemoveCrl, CopyCrl, DbRead, Kill
<1>2. QED
  BY <1>1, StartForm DEF Next, vars

\* Only DbRead leads to a rewrite.
LEMMA SnapStep ==
  ASSUME Alone, TypeOK, SnapInv, [Next]_vars
  PROVE  SnapInv'
<1>1. ASSUME NEW r \in Runner, DbRead(r) PROVE SnapInv'
  <2>1. job[r] \in Job
    BY <1>1, JobType DEF DbRead
  <2>2. /\ job'[r].snap = Kept(r) /\ job'[r].op = job[r].op /\ job'[r].name = job[r].name
        /\ job'[r].mac = job[r].mac /\ db' = db
    BY <1>1, <2>1 DEF DbRead, TypeOK, Job, AddJob, RevokeJob, CutJob, JobOf
  <2>3. Kept(r)' = Kept(r)
    BY <2>2 DEF Kept, RowsOf, LinesLike, Alike
  <2>4. QED
    BY <2>2, <2>3 DEF Alone, SnapInv
<1>2. ASSUME NEW r \in Runner, ~At(r, "dbwrite")' PROVE SnapInv'
  BY <1>2 DEF Alone, SnapInv
<1>3. ASSUME NEW r \in Runner, End(r) PROVE SnapInv'
  BY <1>2, <1>3, EndForm DEF At
<1>4. ASSUME NEW r \in Runner, NEW step, job[r] \in Job, GoTo(r, step), step # "dbwrite"
      PROVE  SnapInv'
  <2>1. job'[r].step = step
    BY <1>4, GoToForm
  <2>2. QED
    BY <1>2, <1>4, <2>1 DEF At
<1>5. ASSUME NEW r \in Runner, Starts(r) PROVE SnapInv'
  <2>1. ~At(r, "dbwrite")'
    BY <1>5 DEF Starts, Start, TypeOK, At
  <2>2. QED
    BY <1>2, <2>1
<1>6. ASSUME NEW r \in Runner, Issue(r) \/ RevokeRow(r) \/ ListRevoked(r) PROVE SnapInv'
  <2>1. job[r] \in Job
    BY <1>6, JobType DEF Issue, RevokeRow, ListRevoked
  <2>2. End(r) \/ ~At(r, "dbwrite")'
    BY <1>6, <2>1 DEF Issue, RevokeRow, ListRevoked, TypeOK, At, Job, AddJob, RevokeJob, CutJob, JobOf
  <2>3. QED
    BY <1>2, <1>3, <2>2
<1>7. ASSUME NEW r \in Runner,
             \/ Clear(r) \/ CheckRestored(r) \/ Append(r) \/ Deliver(r)
             \/ GenCrl(r) \/ RemoveCrl(r) \/ CopyCrl(r) \/ DbWrite(r) \/ Kill(r)
      PROVE  SnapInv'
  <2>1. End(r) \/ \E step : job[r] \in Job /\ GoTo(r, step) /\ step # "dbwrite"
    BY <1>7, JobType DEF Clear, CheckRestored, Append, Deliver, GenCrl, RemoveCrl, CopyCrl,
                         DbWrite, Kill
  <2>2. QED
    BY <1>3, <1>4, <2>1
<1>8. CASE UNCHANGED vars
  BY <1>8 DEF vars, SnapInv, At, Kept, RowsOf, LinesLike, Alike
<1>9. QED
  BY <1>1, <1>5, <1>6, <1>7, <1>8, StartForm DEF Next

\* The duplicate check stands until the address is appended.
LEMMA ClaimStep ==
  ASSUME Alone, AllowDup = {}, TypeOK, SnapInv, ClaimInv, [Next]_vars
  PROVE  ClaimInv'
<1>1. ASSUME NEW r \in Runner, ~At(r, "issue")', ~At(r, "append")' PROVE ClaimInv'
  BY <1>1 DEF Alone, ClaimInv
<1>2. ASSUME NEW r \in Runner, End(r) PROVE ClaimInv'
  BY <1>1, <1>2, EndForm DEF At
<1>3. ASSUME NEW r \in Runner, NEW step, step \notin {"issue", "append"}, job[r] \in Job,
             GoTo(r, step)
      PROVE  ClaimInv'
  <2>1. job'[r].step = step
    BY <1>3, GoToForm
  <2>2. QED
    BY <1>1, <1>3, <2>1 DEF At
<1>4. ASSUME NEW r \in Runner, db' = db,
             \A x \in db : x[2] = job'[r].mac => x[1] = job'[r].name
      PROVE  ClaimInv'
  BY <1>4 DEF Alone, ClaimInv
<1>5. ASSUME NEW r \in Runner, NEW n \in Name, NEW m \in Mac,
             StartAdd(r, n, m) \/ StartAddMac(r, n, m)
      PROVE  ClaimInv'
  <2>1. job'[r].name = n /\ job'[r].mac = m /\ db' = db
    BY <1>5 DEF StartAdd, StartAddMac, Start, TypeOK
  <2>2. \A x \in db : x[2] = m => x[1] = n
    BY <1>5 DEF StartAdd, StartAddMac, MayAdd
  <2>3. QED
    BY <1>4, <2>1, <2>2
<1>6. ASSUME NEW r \in Runner, NEW n \in Name,
             \/ StartPurge(r, n) \/ StartRevoke(r, n) \/ StartClean(r, n)
             \/ \E m \in Mac : StartRestore(r, n, m) \/ StartRemoveMac(r, n, m)
      PROVE  ClaimInv'
  <2>1. ASSUME NEW op, NEW step \in {"clear", "revoke", "dbread"}, NEW m,
               Start(r, op, step, n, m)
        PROVE  ClaimInv'
    <3>1. job'[r].step = step
      BY <2>1 DEF Start, TypeOK
    <3>2. QED
      BY <1>1, <3>1 DEF At
  <2>2. CASE StartPurge(r, n) \/ StartRevoke(r, n) \/ StartClean(r, n)
    BY <2>1, <2>2 DEF StartPurge, StartRevoke, StartClean
  <2>3. ASSUME NEW m \in Mac, StartRestore(r, n, m) \/ StartRemoveMac(r, n, m)
        PROVE  ClaimInv'
    BY <2>1, <2>3 DEF StartRestore, StartRemoveMac
  <2>4. QED
    BY <1>6, <2>2, <2>3
<1>7. ASSUME NEW r \in Runner, CheckRestored(r) PROVE ClaimInv'
  <2>1. job[r] \in Job
    BY <1>7, JobType DEF CheckRestored
  <2>2. CASE MayAdd(job[r].name, job[r].mac, FALSE) /\ GoTo(r, "issue")
    <3>1. job'[r].mac = job[r].mac /\ job'[r].name = job[r].name /\ db' = db
      BY <1>7, <2>1, <2>2 DEF CheckRestored, GoTo, TypeOK, Job, AddJob, RevokeJob, CutJob, JobOf
    <3>2. QED
      BY <1>4, <2>2, <3>1 DEF MayAdd
  <2>3. QED
    BY <1>2, <1>7, <2>2 DEF CheckRestored
<1>8. ASSUME NEW r \in Runner, Issue(r) PROVE ClaimInv'
  <2>1. job[r] \in Job /\ At(r, "issue") /\ db' = db
    BY <1>8, JobType DEF Issue
  <2>2. End(r) \/ (job'[r].mac = job[r].mac /\ job'[r].name = job[r].name)
    BY <1>8, <2>1 DEF Issue, TypeOK, Job, AddJob, RevokeJob, CutJob, JobOf
  <2>3. QED
    BY <1>2, <1>4, <2>1, <2>2 DEF ClaimInv
<1>9. ASSUME NEW r \in Runner, RevokeRow(r) \/ ListRevoked(r) \/ DbRead(r) PROVE ClaimInv'
  <2>1. job[r] \in Job
    BY <1>9, JobType DEF RevokeRow, ListRevoked, DbRead
  <2>2. End(r) \/ (~At(r, "issue")' /\ ~At(r, "append")')
    BY <1>9, <2>1 DEF RevokeRow, ListRevoked, DbRead, TypeOK, At, Job, AddJob, RevokeJob, CutJob, JobOf
  <2>3. QED
    BY <1>1, <1>2, <2>2
<1>10. ASSUME NEW r \in Runner,
              \/ Clear(r) \/ Append(r) \/ Deliver(r)
              \/ GenCrl(r) \/ RemoveCrl(r) \/ CopyCrl(r) \/ DbWrite(r) \/ Kill(r)
       PROVE  ClaimInv'
  <2>1. End(r) \/ \E step : job[r] \in Job /\ GoTo(r, step) /\ step \notin {"issue", "append"}
    BY <1>10, JobType DEF Clear, Append, Deliver, GenCrl, RemoveCrl, CopyCrl, DbWrite, Kill
  <2>2. QED
    BY <1>2, <1>3, <2>1
<1>11. CASE UNCHANGED vars
  BY <1>11 DEF vars, ClaimInv, At
<1>12. QED
  BY <1>5, <1>6, <1>7, <1>8, <1>9, <1>10, <1>11 DEF Next

LEMMA OwnerStep ==
  ASSUME OwnInv, [Next]_vars
  PROVE  OneOwner'
<1>1. ASSUME NEW r \in Runner, Append(r) PROVE OneOwner'
  <2>1. /\ db' = db \cup {<<job[r].name, job[r].mac>>}
        /\ \A x \in db : x[2] = job[r].mac => x[1] = job[r].name
    BY <1>1 DEF Append, OwnInv, ClaimInv
  <2>2. QED
    BY <2>1 DEF OwnInv, OneOwner
<1>2. ASSUME NEW r \in Runner, DbWrite(r) PROVE OneOwner'
  BY <1>2, KeptRows DEF DbWrite, OwnInv, SnapInv, OneOwner
<1>3. CASE db' = db
  BY <1>3 DEF OwnInv, OneOwner
<1>4. QED
  BY <1>1, <1>2, <1>3, DbChange

\* The portal's scripts, one at a time and any of them killed, never give one
\* address to two clients.
THEOREM OwnersDiffer ==
  ASSUME Alone, AllowDup = {}
  PROVE  Spec => []OneOwner
<1>1. Init => SnapInv /\ ClaimInv /\ OneOwner
  BY DEF Init, SnapInv, ClaimInv, OneOwner, At
<1>2. IInv /\ SnapInv /\ ClaimInv /\ OneOwner /\ [Next]_vars
        => SnapInv' /\ ClaimInv' /\ OneOwner'
  BY SnapStep, ClaimStep, OwnerStep DEF IInv, OwnInv
<1>3. QED
  BY <1>1, <1>2, Invariance, PTL DEF Spec

\* No script of the portal drops a registration of a client it is not about, and
\* --remove-mac drops the address it names, of names alike.
THEOREM OwnRegistrations ==
  ASSUME Alone
  PROVE  Spec => RegistrationsKept
<1>1. Init => SnapInv
  BY DEF Init, SnapInv, At
<1>2. IInv /\ SnapInv /\ [Next]_vars => SnapInv'
  BY SnapStep DEF IInv
<1>3. SnapInv /\ [Next]_vars =>
        [\A x \in db \ db' :
           \E r \in Runner :
             /\ At(r, "dbwrite")
             /\ IF job[r].op = "rmmac" THEN x[1] \in Alike(job[r].name) /\ x[2] = job[r].mac
                                       ELSE x[1] = job[r].name]_vars
  <2> SUFFICES ASSUME SnapInv, [Next]_vars, NEW x \in db \ db'
               PROVE  \E r \in Runner :
                        /\ At(r, "dbwrite")
                        /\ job[r].op = "rmmac"
                             => x[1] \in Alike(job[r].name) /\ x[2] = job[r].mac
                        /\ job[r].op # "rmmac" => x[1] = job[r].name
    OBVIOUS
  <2>1. PICK r \in Runner : Append(r) \/ DbWrite(r)
    BY DbChange
  <2>2. ~Append(r)
    BY DEF Append
  <2>3. At(r, "dbwrite") /\ db' = Kept(r)
    BY <2>1, <2>2 DEF DbWrite, SnapInv
  <2>4. QED
    BY <2>3, KeptRows
<1>4. QED
  BY <1>1, <1>2, <1>3, Invariance, PTL DEF Spec, RegistrationsKept

-----------------------------------------------------------------------------
(* One script at a time: what is left of each, for the portal's handlers.  *)

\* How far the script of a runner has come with its client's files, from the view p
\* at its start to v.
Way(op, step, p, v) ==
  \/ /\ <<op, step>> \in {<<"add", "issue">>, <<"restore", "clear">>, <<"addmac", "append">>,
                          <<"rmmac", "dbread">>, <<"rmmac", "dbwrite">>,
                          <<"clean", "dbread">>, <<"clean", "dbwrite">>,
                          <<"revoke", "revoke">>, <<"purge", "clear">>}
     /\ v = p
  \/ op = "add" /\ step = "append" /\ v = Portal!Issued(p)
  \/ op = "add" /\ step = "deliver" /\ v = Portal!Registered(Portal!Issued(p))
  \/ op = "restore" /\ step \in {"check", "issue"} /\ v = Portal!Cleared(p)
  \/ op = "restore" /\ step = "append" /\ v = Portal!Issued(Portal!Cleared(p))
  \/ /\ op = "restore" /\ step = "deliver"
     /\ v = Portal!Registered(Portal!Issued(Portal!Cleared(p)))
  \/ /\ op = "revoke" /\ step \in {"gencrl", "putcrl", "rmcrl", "copycrl", "dbread", "dbwrite"}
     /\ v = Portal!Cut(p)
  \/ op = "purge" /\ step \in {"dbread", "dbwrite"} /\ v = Portal!Cleared(p)

\* A script has changed the view of its own client alone, and goes its way.
WayInv ==
  /\ seen \in [Name -> Portal!Pki]
  /\ AllIdle => \A n \in Name : View(n) = seen[n]
  /\ \A r \in Runner : ~Idle(r) =>
       LET c == job[r].name IN
       /\ \A n \in Name \ {c} : View(n) = seen[n]
       /\ job[r].op # "rmmac" => Portal!Accepts(job[r].op, seen[c])
       /\ Way(job[r].op, job[r].step, seen[c], View(c))

-----------------------------------------------------------------------------
\* The view of a client is one of the contract's.
LEMMA ViewForm ==
  ASSUME NEW n \in Name
  PROVE  View(n) \in Portal!Pki
  BY DEF View, Portal!Pki, HasRevokedRow

\* The view of a client is made of its rows in three files.
LEMMA ViewSame ==
  ASSUME NEW n, crt'[n] = crt[n], Strays(n)' = Strays(n), RowsOf(n)' = RowsOf(n),
         HasRevokedRow(n)' <=> HasRevokedRow(n)
  PROVE  View(n)' = View(n)
  BY DEF View, HasRevokedRow

\* A view is known by its four parts.
LEMMA ViewIs ==
  ASSUME NEW n \in Name, NEW p \in Portal!Pki, crt'[n] # 0 <=> p.issued,
         Strays(n)' # {} <=> p.stray, HasRevokedRow(n)' <=> p.past, RowsOf(n)' # {} <=> p.mac
  PROVE  View(n)' = p
<1>1. View(n)' \in Portal!Pki
  BY DEF View, Portal!Pki, HasRevokedRow
<1>2. /\ View(n)'.issued = p.issued /\ View(n)'.stray = p.stray
      /\ View(n)'.past = p.past /\ View(n)'.mac = p.mac
  BY DEF View, Portal!Pki, HasRevokedRow
<1>3. QED
  BY <1>1, <1>2 DEF Portal!Pki

\* A step that writes none of the three files changes no view.
LEMMA FilesSame ==
  ASSUME NEW n, UNCHANGED <<cert, crt, db>>
  PROVE  View(n)' = View(n)
  BY DEF View, Strays, HasRevokedRow, Revoked, RowsOf

\* rm -f of the issued files: a certificate that is still good becomes a stray.
LEMMA ClearView ==
  ASSUME TypeOK, IssuedIsValid, NEW r \in Runner, Clear(r), NEW n \in Name
  PROVE  /\ n # job[r].name => View(n)' = View(n)
         /\ n = job[r].name => View(n)' = Portal!Cleared(View(n))
<1>1. /\ crt' = [crt EXCEPT ![job[r].name] = 0] /\ cert' = cert /\ db' = db
      /\ crt \in [Name -> 0..MaxCerts] /\ job[r].name \in Name
  BY JobType DEF Clear, TypeOK
<1>2. RowsOf(n)' = RowsOf(n) /\ (HasRevokedRow(n)' <=> HasRevokedRow(n))
  BY <1>1 DEF RowsOf, HasRevokedRow, Revoked
<1>3. CASE n # job[r].name
  <2>1. crt'[n] = crt[n]
    BY <1>1, <1>3
  <2>2. Strays(n)' = Strays(n)
    BY <1>1, <2>1 DEF Strays
  <2>3. QED
    BY <1>2, <1>3, <2>1, <2>2, ViewSame
<1>4. CASE n = job[r].name
  <2>1. crt'[n] = 0
    BY <1>1, <1>4
  <2>2. Strays(n)' = Strays(n) \cup (IF crt[n] = 0 THEN {} ELSE {crt[n]})
    BY <1>1, <2>1, PkiAssumption DEF Strays, IssuedIsValid, Serial
  <2>3. Strays(n)' # {} <=> Strays(n) # {} \/ crt[n] # 0
    BY <2>2
  <2>4. QED
    <3> DEFINE p == Portal!Cleared(View(n))
    <3>1. p \in Portal!Pki /\ p.issued = FALSE /\ p.stray = (View(n).stray \/ View(n).issued)
          /\ p.past = View(n).past /\ p.mac = View(n).mac
      BY ViewForm DEF Portal!Cleared, Portal!Pki
    <3>2. /\ View(n).issued <=> crt[n] # 0
          /\ View(n).stray <=> Strays(n) # {}
          /\ View(n).past <=> HasRevokedRow(n)
          /\ View(n).mac <=> RowsOf(n) # {}
      BY DEF View, HasRevokedRow
    <3> HIDE DEF p
    <3>3. View(n)' = p
      BY <1>2, <1>4, <2>1, <2>3, <3>1, <3>2, ViewIs
    <3>4. QED
      BY <1>4, <3>3 DEF p
<1>5. QED
  BY <1>3, <1>4

\* A new certificate has its files, and is no stray.
LEMMA IssueView ==
  ASSUME TypeOK, NEW r \in Runner, Issue(r), ~End(r), NEW n \in Name
  PROVE  /\ n # job[r].name => View(n)' = View(n)
         /\ n = job[r].name => View(n)' = Portal!Issued(View(n))
<1>1. PICK s \in Serial :
        /\ cert[s].status = "-"
        /\ cert' = [cert EXCEPT ![s] = [status |-> "V", name |-> job[r].name]]
        /\ crt' = [crt EXCEPT ![job[r].name] = s]
  BY DEF Issue
<1>2. /\ db' = db /\ cert \in [Serial -> Row] /\ crt \in [Name -> 0..MaxCerts]
      /\ job[r].name \in Name /\ crt[job[r].name] = 0
  BY JobType DEF Issue, TypeOK
<1>3. cert[s] # [status |-> "V", name |-> n]
  BY <1>1
<1>4. RowsOf(n)' = RowsOf(n)
  BY <1>2 DEF RowsOf
<1>5. HasRevokedRow(n)' <=> HasRevokedRow(n)
  <2>1. Revoked' = Revoked /\ \A t \in Revoked : cert'[t] = cert[t]
    BY <1>1, <1>2 DEF Revoked
  <2>2. QED
    BY <2>1 DEF HasRevokedRow
<1>6. s # 0
  BY PkiAssumption DEF Serial
<1>7. Strays(n)' = Strays(n)
  <2>1. ASSUME NEW t \in Serial PROVE t \in Strays(n)' <=> t \in Strays(n)
    <3>1. CASE t = s
      <4>1. t \notin Strays(n)
        BY <1>3, <3>1 DEF Strays
      <4>2. CASE n = job[r].name
        BY <1>1, <1>2, <3>1, <4>1, <4>2 DEF Strays
      <4>3. CASE n # job[r].name
        <5>1. cert'[s] = [status |-> "V", name |-> job[r].name]
          BY <1>1, <1>2
        <5>2. [status |-> "V", name |-> job[r].name].name # [status |-> "V", name |-> n].name
          BY <4>3
        <5>3. cert'[s] # [status |-> "V", name |-> n]
          BY <5>1, <5>2
        <5>4. QED
          BY <3>1, <4>1, <5>3 DEF Strays
      <4>4. QED
        BY <4>2, <4>3
    <3>2. CASE t # s
      <4>1. cert'[t] = cert[t]
        BY <1>1, <1>2, <3>2
      <4>2. crt'[n] # t <=> crt[n] # t
        BY <1>1, <1>2, <3>2, PkiAssumption DEF Serial
      <4>3. QED
        BY <4>1, <4>2 DEF Strays
    <3>3. QED
      BY <3>1, <3>2
  <2>2. Strays(n)' \subseteq Serial /\ Strays(n) \subseteq Serial
    BY DEF Strays
  <2>3. QED
    BY <2>1, <2>2
<1>8. CASE n = job[r].name
  <2> DEFINE p == Portal!Issued(View(n))
  <2>1. p \in Portal!Pki /\ p.issued = TRUE /\ p.stray = View(n).stray
        /\ p.past = View(n).past /\ p.mac = View(n).mac
    BY ViewForm DEF Portal!Issued, Portal!Pki
  <2>2. /\ View(n).issued <=> crt[n] # 0
        /\ View(n).stray <=> Strays(n) # {}
        /\ View(n).past <=> HasRevokedRow(n)
        /\ View(n).mac <=> RowsOf(n) # {}
    BY DEF View, HasRevokedRow
  <2> HIDE DEF p
  <2>3. crt'[n] # 0
    BY <1>1, <1>2, <1>6, <1>8
  <2>4. View(n)' = p
    BY <1>4, <1>5, <1>7, <2>3, <2>1, <2>2, ViewIs
  <2>5. QED
    BY <1>8, <2>4 DEF p
<1>9. CASE n # job[r].name
  BY <1>1, <1>2, <1>4, <1>5, <1>7, <1>9, ViewSame
<1>10. QED
  BY <1>8, <1>9

\* The files of a revoked certificate go and its row stays; its client has no other
\* certificate with files.
LEMMA RevokeView ==
  ASSUME TypeOK, IssuedIsValid, NEW r \in Runner, RevokeRow(r), ~End(r), NEW n \in Name
  PROVE  /\ n # job[r].name => View(n)' = View(n)
         /\ n = job[r].name => View(n)' = Portal!Cut(View(n))
<1> DEFINE m == job[r].name
           s == crt[m]
<1>1. /\ s # 0 /\ cert' = [cert EXCEPT ![s] = [status |-> "R", name |-> m]]
      /\ crt' = [crt EXCEPT ![m] = 0] /\ db' = db
  BY DEF RevokeRow
<1>2. /\ cert \in [Serial -> Row] /\ crt \in [Name -> 0..MaxCerts] /\ m \in Name
  BY JobType DEF RevokeRow, TypeOK
<1>3. cert[s] = [status |-> "V", name |-> m] /\ s \in Serial
  BY <1>1, <1>2, PkiAssumption DEF IssuedIsValid, Serial
<1> HIDE DEF s, m
<1>4. RowsOf(n)' = RowsOf(n)
  BY <1>1 DEF RowsOf
<1>5. cert'[s] = [status |-> "R", name |-> m] /\ \A t \in Serial \ {s} : cert'[t] = cert[t]
  BY <1>1, <1>2, <1>3
<1>6. s \notin Revoked /\ Revoked' = Revoked \cup {s}
  BY <1>3, <1>5 DEF Revoked
<1>7. HasRevokedRow(n)' <=> HasRevokedRow(n) \/ n = m
  <2>1. \A t \in Revoked : cert'[t] = cert[t]
    BY <1>5, <1>6 DEF Revoked
  <2>2. QED
    BY <1>5, <1>6, <2>1 DEF HasRevokedRow
<1>8. Strays(n)' = Strays(n)
  <2>1. ASSUME NEW t \in Serial PROVE t \in Strays(n)' <=> t \in Strays(n)
    <3>1. CASE t = s
      <4>1. t \notin Strays(n)'
        BY <1>5, <3>1 DEF Strays
      <4>2. t \notin Strays(n)
        <5>1. CASE n = m
          BY <3>1, <5>1 DEF Strays, s
        <5>2. CASE n # m
          <6>1. [status |-> "V", name |-> m].name # [status |-> "V", name |-> n].name
            BY <5>2
          <6>2. cert[s] # [status |-> "V", name |-> n]
            BY <1>3, <6>1
          <6>3. QED
            BY <3>1, <6>2 DEF Strays
        <5>3. QED
          BY <5>1, <5>2
      <4>3. QED
        BY <4>1, <4>2
    <3>2. CASE t # s
      <4>1. cert'[t] = cert[t]
        BY <1>5, <3>2
      <4>2. CASE n = m
        <5>1. crt'[n] # t /\ crt[n] # t
          BY <1>1, <1>2, <3>2, <4>2, PkiAssumption DEF Serial, s
        <5>2. QED
          BY <4>1, <5>1 DEF Strays
      <4>3. CASE n # m
        BY <1>1, <1>2, <4>1, <4>3 DEF Strays
      <4>4. QED
        BY <4>2, <4>3
    <3>3. QED
      BY <3>1, <3>2
  <2>2. Strays(n)' \subseteq Serial /\ Strays(n) \subseteq Serial
    BY DEF Strays
  <2>3. QED
    BY <2>1, <2>2
<1>9. CASE n = m
  <2>1. crt'[n] = 0
    BY <1>1, <1>2, <1>9
  <2>2. View(n)' = Portal!Cut(View(n))
    <3> DEFINE p == Portal!Cut(View(n))
    <3>1. /\ p \in Portal!Pki /\ p.issued = FALSE /\ p.stray = View(n).stray
          /\ p.past = TRUE /\ p.mac = View(n).mac
      BY ViewForm DEF Portal!Cut, Portal!Pki
    <3>2. (p.stray <=> Strays(n) # {}) /\ (p.mac <=> RowsOf(n) # {})
      BY <3>1 DEF View
    <3> HIDE DEF p
    <3>3. View(n)' = p
      BY <1>4, <1>7, <1>8, <1>9, <2>1, <3>1, <3>2, ViewIs
    <3>4. QED
      BY <3>3 DEF p
  <2>3. QED
    BY <1>9, <2>2 DEF m
<1>10. CASE n # m
  <2>1. View(n)' = View(n)
    BY <1>1, <1>2, <1>4, <1>7, <1>8, <1>10, ViewSame
  <2>2. QED
    BY <1>10, <2>1 DEF m
<1>11. QED
  BY <1>9, <1>10

\* An address that is appended registers its client.
LEMMA AppendView ==
  ASSUME TypeOK, NEW r \in Runner, Append(r), NEW n \in Name
  PROVE  /\ n # job[r].name => View(n)' = View(n)
         /\ n = job[r].name => View(n)' = Portal!Registered(View(n))
<1>1. /\ db' = db \cup {<<job[r].name, job[r].mac>>} /\ UNCHANGED <<cert, crt>>
      /\ job[r].name \in Name
  BY JobType DEF Append
<1>2. Strays(n)' = Strays(n) /\ (HasRevokedRow(n)' <=> HasRevokedRow(n)) /\ crt'[n] = crt[n]
  BY <1>1 DEF Strays, HasRevokedRow, Revoked
<1>3. CASE n = job[r].name
  <2>1. RowsOf(n)' # {}
    <3>1. <<job[r].name, job[r].mac>> \in RowsOf(n)'
      BY <1>1, <1>3 DEF RowsOf
    <3>2. QED
      BY <3>1
  <2>2. QED
    <3> DEFINE p == Portal!Registered(View(n))
    <3>1. p \in Portal!Pki /\ p.issued = View(n).issued /\ p.stray = View(n).stray
          /\ p.past = View(n).past /\ p.mac = TRUE
      BY ViewForm DEF Portal!Registered, Portal!Pki
    <3>2. /\ View(n).issued <=> crt[n] # 0
          /\ View(n).stray <=> Strays(n) # {}
          /\ View(n).past <=> HasRevokedRow(n)
          /\ View(n).mac <=> RowsOf(n) # {}
      BY DEF View, HasRevokedRow
    <3> HIDE DEF p
    <3>3. View(n)' = p
      BY <1>2, <1>3, <2>1, <3>1, <3>2, ViewIs
    <3>4. QED
      BY <1>3, <3>3 DEF p
<1>4. CASE n # job[r].name
  <2>1. RowsOf(n)' = RowsOf(n)
    BY <1>1, <1>4 DEF RowsOf
  <2>2. QED
    BY <1>2, <1>4, <2>1, ViewSame
<1>5. QED
  BY <1>3, <1>4

\* A rewrite of openvpn_db.txt unregisters its own client; --remove-mac takes one
\* address off the clients of names alike, which may have others.
LEMMA RewriteView ==
  ASSUME TypeOK, SnapInv, NEW r \in Runner, DbWrite(r), NEW n \in Name
  PROVE  /\ job[r].op # "rmmac" /\ n # job[r].name => View(n)' = View(n)
         /\ job[r].op # "rmmac" /\ n = job[r].name =>
              View(n)' = Portal!Unregistered(View(n))
         /\ job[r].op = "rmmac" =>
              \/ View(n)' = View(n)
              \/ /\ Lower[n] = Lower[job[r].name] /\ View(n).mac
                 /\ View(n)' = Portal!Unregistered(View(n))
<1>1. /\ db' = Kept(r) /\ UNCHANGED <<cert, crt>> /\ job[r].name \in Name
  BY JobType DEF DbWrite, SnapInv
<1>2. Strays(n)' = Strays(n) /\ (HasRevokedRow(n)' <=> HasRevokedRow(n)) /\ crt'[n] = crt[n]
  BY <1>1 DEF Strays, HasRevokedRow, Revoked
<1>3. ASSUME RowsOf(n)' # {} <=> RowsOf(n) # {} PROVE View(n)' = View(n)
  BY <1>2, <1>3 DEF View, HasRevokedRow
<1>4. ASSUME RowsOf(n)' = {} PROVE View(n)' = Portal!Unregistered(View(n))
  <2> DEFINE p == Portal!Unregistered(View(n))
  <2>1. /\ p \in Portal!Pki /\ p.issued = View(n).issued /\ p.stray = View(n).stray
        /\ p.past = View(n).past /\ p.mac = FALSE
    BY ViewForm DEF Portal!Unregistered, Portal!Pki
  <2> HIDE DEF p
  <2>2. View(n)' = p
    <3>1. /\ p.issued <=> crt[n] # 0
          /\ p.stray <=> Strays(n) # {}
          /\ p.past <=> HasRevokedRow(n)
      BY <2>1 DEF View, HasRevokedRow
    <3>2. QED
      BY <1>2, <1>4, <2>1, <3>1, ViewIs
  <2>3. QED
    BY <2>2 DEF p
<1>5. CASE job[r].op # "rmmac" /\ n # job[r].name
  <2>1. RowsOf(n)' = RowsOf(n)
    BY <1>1, <1>5, KeptRows DEF RowsOf
  <2>2. QED
    BY <1>3, <1>5, <2>1
<1>6. CASE job[r].op # "rmmac" /\ n = job[r].name
  <2>1. RowsOf(n)' = {}
    BY <1>1, <1>6 DEF Kept, RowsOf
  <2>2. QED
    BY <1>4, <1>6, <2>1
<1>7. CASE job[r].op = "rmmac"
  <2>1. db' = db \ LinesLike(job[r].name, job[r].mac)
    BY <1>1, <1>7 DEF Kept
  <2>2. RowsOf(n)' \subseteq RowsOf(n)
    BY <2>1 DEF RowsOf
  <2>3. CASE RowsOf(n)' # {} \/ RowsOf(n) = {}
    BY <1>3, <1>7, <2>2, <2>3
  <2>4. CASE RowsOf(n)' = {} /\ RowsOf(n) # {}
    <3>1. PICK x \in RowsOf(n) : x \notin RowsOf(n)'
      BY <2>4
    <3>2. x \in LinesLike(job[r].name, job[r].mac) /\ x[1] = n
      BY <2>1, <3>1 DEF RowsOf
    <3>3. Lower[n] = Lower[job[r].name]
      BY <3>2 DEF LinesLike, Alike
    <3>4. View(n).mac
      BY <2>4 DEF View
    <3>5. QED
      BY <1>4, <1>7, <2>4, <3>3, <3>4
  <2>5. QED
    BY <2>3, <2>4
<1>8. QED
  BY <1>5, <1>6, <1>7

-----------------------------------------------------------------------------
\* What a step of the only runner makes of the views, by what is left of its script.
LEMMA Goes ==
  ASSUME Alone, WayInv, AllIdle' => seen' = Views', ~AllIdle' => seen' = seen,
         NEW r \in Runner, job[r] \in Job, ~Idle(r), job'[r] \in Job,
         job'[r].op = job[r].op, job'[r].name = job[r].name,
         NEW c \in Name, c = job[r].name,
         \A n \in Name \ {c} : View(n)' = View(n),
         Way(job[r].op, job'[r].step, seen[c], View(c)')
  PROVE  WayInv' /\ seen' = seen
<1>1. ~AllIdle' /\ seen' = seen
  BY DEF AllIdle, Idle, NoJob, Job, AddJob, RevokeJob, CutJob, JobOf
<1>2. QED
  BY <1>1 DEF WayInv, Alone

\* When the only script ends, the views are seen.
LEMMA Ended ==
  ASSUME Alone, TypeOK, AllIdle' => seen' = Views', NEW r \in Runner, End(r)
  PROVE  WayInv' /\ seen' = [n \in Name |-> View(n)']
<1>1. AllIdle'
  BY DEF Alone, End, TypeOK, AllIdle, Idle
<1>2. seen' = [n \in Name |-> View(n)']
  BY <1>1 DEF Views
<1>3. \A n \in Name : View(n)' \in Portal!Pki
  BY DEF View, Portal!Pki, HasRevokedRow
<1>4. QED
  BY <1>1, <1>2, <1>3 DEF WayInv, AllIdle

\* A script that ends has done one command of the contract.
LEMMA Ends ==
  ASSUME Alone, WayInv, AllIdle' => seen' = Views', NEW r \in Runner, TypeOK, End(r),
         job[r] \in Job, job[r].op # "rmmac", ~Idle(r), NEW c \in Name, c = job[r].name,
         \A n \in Name \ {c} : View(n)' = View(n),
         View(c)' \in Portal!Leaves(job[r].op, seen[c])
  PROVE  WayInv' /\ Portal!CommandNext
<1> DEFINE op == job[r].op
<1>1. WayInv' /\ seen' = [n \in Name |-> View(n)']
  BY Ended
<1>2. /\ op \in Portal!Command
      /\ Portal!Accepts(op, seen[c])
      /\ \A n \in Name \ {c} : View(n) = seen[n]
  BY DEF WayInv, Job, AddJob, RevokeJob, CutJob, JobOf, Portal!Command
<1>3. seen' = [seen EXCEPT ![c] = View(c)']
  <2>1. \A n \in Name : n # c => View(n)' = seen[n]
    BY <1>2
  <2>2. seen \in [Name -> Portal!Pki]
    BY DEF WayInv
  <2> DEFINE w == View(c)'
  <2>4. seen'[c] = w
    BY <1>1
  <2>5. \A n \in Name : n # c => seen'[n] = seen[n]
    BY <1>1, <2>1
  <2>6. seen' = [n \in Name |-> seen'[n]]
    BY <1>1
  <2> HIDE DEF w
  <2>7. seen' = [seen EXCEPT ![c] = w]
    BY <2>2, <2>4, <2>5, <2>6
  <2>8. QED
    BY <2>7 DEF w
<1> HIDE DEF op
<1>4. Portal!CommandNext
  BY <1>2, <1>3 DEF Portal!CommandNext, op
<1>5. QED
  BY <1>1, <1>4

\* A script that starts finds the views as they were seen, and changes none.
LEMMA Starting ==
  ASSUME Alone, TypeOK, WayInv, AllIdle' => seen' = Views', ~AllIdle' => seen' = seen,
         NEW r \in Runner, NEW n \in Name, NEW op \in Portal!Command \cup {"rmmac"},
         NEW step, NEW m, Start(r, op, step, n, m),
         op # "rmmac" => Portal!Accepts(op, View(n)),
         Way(op, step, View(n), View(n))
  PROVE  WayInv' /\ seen' = seen
<1>1. AllIdle /\ \A k \in Name : View(k) = seen[k]
  BY DEF Alone, AllIdle, Start, WayInv
<1>2. \A k \in Name : View(k)' = View(k)
  BY FilesSame DEF Start
<1>3. job'[r].op = op /\ job'[r].step = step /\ job'[r].name = n
  BY DEF Start, TypeOK
<1>4. ~Idle(r)'
  BY <1>3 DEF Idle, NoJob, Portal!Command
<1>5. ~AllIdle' /\ seen' = seen
  BY <1>4 DEF AllIdle
<1>6. /\ op # "rmmac" => Portal!Accepts(op, seen[n])
      /\ Way(op, step, seen[n], View(n)')
  BY <1>1, <1>2
<1>7. QED
  BY <1>1, <1>2, <1>3, <1>5, <1>6 DEF WayInv, Alone

\* What a script checks before it starts is what the contract has it check.
LEMMA StartsWay ==
  ASSUME Alone, TypeOK, WayInv, AllIdle' => seen' = Views', ~AllIdle' => seen' = seen,
         NEW r \in Runner, NEW n \in Name,
         \/ StartPurge(r, n) \/ StartRevoke(r, n) \/ StartClean(r, n)
         \/ \E m \in Mac : \/ StartAdd(r, n, m) \/ StartRestore(r, n, m)
                           \/ StartAddMac(r, n, m) \/ StartRemoveMac(r, n, m)
  PROVE  WayInv' /\ seen' = seen
<1> DEFINE v == View(n)
<1>1. /\ v.issued <=> crt[n] # 0
      /\ v.past <=> HasRevokedRow(n)
      /\ v.mac <=> RowsOf(n) # {}
  BY DEF View, HasRevokedRow
<1> HIDE DEF v
<1>2. /\ Way("purge", "clear", v, v) /\ Way("revoke", "revoke", v, v)
      /\ Way("clean", "dbread", v, v) /\ Way("add", "issue", v, v)
      /\ Way("restore", "clear", v, v) /\ Way("addmac", "append", v, v)
      /\ Way("rmmac", "dbread", v, v)
  BY DEF Way
<1>3. {"add", "revoke", "restore", "purge", "clean", "addmac"} = Portal!Command
  BY DEF Portal!Command
<1>4. CASE StartPurge(r, n)
  BY <1>1, <1>2, <1>3, <1>4, Starting DEF StartPurge, Portal!Accepts, v
<1>5. CASE StartRevoke(r, n)
  BY <1>1, <1>2, <1>3, <1>5, Starting DEF StartRevoke, Portal!Accepts, v
<1>6. CASE StartClean(r, n)
  BY <1>1, <1>2, <1>3, <1>6, Starting DEF StartClean, Portal!Accepts, v
<1>7. ASSUME NEW m \in Mac, StartAdd(r, n, m) PROVE WayInv' /\ seen' = seen
  BY <1>1, <1>2, <1>3, <1>7, Starting DEF StartAdd, MayAdd, Portal!Accepts, v
<1>8. ASSUME NEW m \in Mac, StartRestore(r, n, m) PROVE WayInv' /\ seen' = seen
  BY <1>1, <1>2, <1>3, <1>8, Starting DEF StartRestore, Portal!Accepts, v
<1>9. ASSUME NEW m \in Mac, StartAddMac(r, n, m) PROVE WayInv' /\ seen' = seen
  BY <1>1, <1>2, <1>3, <1>9, Starting DEF StartAddMac, Portal!Accepts, v
<1>10. ASSUME NEW m \in Mac, StartRemoveMac(r, n, m) PROVE WayInv' /\ seen' = seen
  BY <1>2, <1>10, Starting DEF StartRemoveMac, v
<1>11. QED
  BY <1>4, <1>5, <1>6, <1>7, <1>8, <1>9, <1>10

-----------------------------------------------------------------------------
\* Where a script stands, before one of its steps.
LEMMA AtForm ==
  ASSUME TypeOK, WayInv, NEW r \in Runner, ~Idle(r)
  PROVE  /\ job[r] \in Job /\ job[r].name \in Name
         /\ View(job[r].name) \in Portal!Pki /\ seen[job[r].name] \in Portal!Pki
         /\ job[r].op # "rmmac" => Portal!Accepts(job[r].op, seen[job[r].name])
         /\ Way(job[r].op, job[r].step, seen[job[r].name], View(job[r].name))
<1>1. job[r] \in Job
  BY DEF TypeOK, Idle
<1>2. job[r].name \in Name
  BY <1>1 DEF Job, AddJob, RevokeJob, CutJob, JobOf
<1>3. QED
  BY <1>1, <1>2, ViewForm DEF WayInv

\* A script that goes on stays the same command, for the same client.
LEMMA GoToName ==
  ASSUME TypeOK, TypeOK', NEW r \in Runner, NEW step, job[r] \in Job, GoTo(r, step)
  PROVE  /\ job'[r] \in Job /\ job'[r].step = step /\ job'[r].op = job[r].op
         /\ job'[r].name = job[r].name
<1>1. job'[r] # NoJob
  BY DEF GoTo, TypeOK, NoJob, Job, AddJob, RevokeJob, CutJob, JobOf
<1>2. QED
  BY <1>1, GoToForm DEF TypeOK, GoTo, Job, AddJob, RevokeJob, CutJob, JobOf

\* Each step of a script takes it on its way; only one that ends it is seen, as a
\* command of the contract.
LEMMA ClearWay ==
  ASSUME Alone, TypeOK, TypeOK', IssuedIsValid, WayInv, AllIdle' => seen' = Views',
         ~AllIdle' => seen' = seen, NEW r \in Runner, Clear(r)
  PROVE  WayInv' /\ seen' = seen
<1>1. ~Idle(r) /\ job[r].step = "clear"
  BY DEF Clear, At, Idle
<1>2. PICK c \in Name : c = job[r].name
  BY <1>1, AtForm
<1>3. /\ job[r].op \in {"restore", "purge"} /\ View(c) = seen[c]
  BY <1>1, <1>2, AtForm DEF Way
<1>4. View(c)' = Portal!Cleared(seen[c]) /\ \A n \in Name \ {c} : View(n)' = View(n)
  BY <1>2, <1>3, ClearView
<1>5. PICK step : GoTo(r, step) /\ step = IF job[r].op = "restore" THEN "check" ELSE "dbread"
  BY DEF Clear
<1>6. Way(job[r].op, step, seen[c], View(c)')
  BY <1>3, <1>4, <1>5 DEF Way
<1>7. QED
  BY <1>1, <1>2, <1>4, <1>5, <1>6, AtForm, GoToName, Goes

\* The address of the client to restore may be taken: the restore ends, and has
\* cleared its files.
LEMMA CheckWay ==
  ASSUME Alone, TypeOK, TypeOK', WayInv, AllIdle' => seen' = Views',
         ~AllIdle' => seen' = seen, NEW r \in Runner, CheckRestored(r)
  PROVE  WayInv' /\ (seen' = seen \/ Portal!CommandNext)
<1>1. ~Idle(r) /\ job[r].step = "check"
  BY DEF CheckRestored, At, Idle
<1>2. PICK c \in Name : c = job[r].name
  BY <1>1, AtForm
<1>3. /\ job[r].op = "restore" /\ View(c) = Portal!Cleared(seen[c])
  BY <1>1, <1>2, AtForm DEF Way
<1>4. \A n \in Name : View(n)' = View(n)
  BY FilesSame DEF CheckRestored
<1>5. CASE GoTo(r, "issue")
  <2>1. Way(job[r].op, "issue", seen[c], View(c)')
    BY <1>3, <1>4 DEF Way
  <2>2. QED
    BY <1>1, <1>2, <1>4, <1>5, <2>1, AtForm, GoToName, Goes
<1>6. CASE End(r)
  <2>1. View(c)' \in Portal!Leaves(job[r].op, seen[c])
    BY <1>3, <1>4 DEF Portal!Leaves, Portal!Results
  <2>2. QED
    BY <1>1, <1>2, <1>3, <1>4, <1>6, <2>1, AtForm, Ends
<1>7. QED
  BY <1>5, <1>6 DEF CheckRestored

\* Of the portal's scripts, none that issues finds files of its client.
LEMMA IssueWay ==
  ASSUME Alone, TypeOK, TypeOK', WayInv, AllIdle' => seen' = Views',
         ~AllIdle' => seen' = seen, NEW r \in Runner, Issue(r)
  PROVE  WayInv' /\ seen' = seen
<1>1. ~Idle(r) /\ job[r].step = "issue"
  BY DEF Issue, At, Idle
<1>2. PICK c \in Name : c = job[r].name
  BY <1>1, AtForm
<1>3. \/ job[r].op = "add" /\ View(c) = seen[c] /\ ~seen[c].issued
      \/ job[r].op = "restore" /\ View(c) = Portal!Cleared(seen[c])
  BY <1>1, <1>2, AtForm DEF Way, Portal!Accepts
<1>4. ~View(c).issued
  BY <1>1, <1>2, <1>3, AtForm DEF Portal!Cleared, Portal!Pki
<1>5. crt[job[r].name] = 0
  BY <1>2, <1>4 DEF View
<1>6. PICK s \in Serial : job' = [job EXCEPT ![r].step = "append", ![r].serial = s]
  BY <1>5 DEF Issue
<1>7. /\ job[r] \in Job /\ job'[r] \in Job /\ job'[r].step = "append"
      /\ job'[r].op = job[r].op /\ job'[r].name = job[r].name
  <2>1. job[r] \in Job
    BY <1>1, AtForm
  <2>2. job'[r] # NoJob
    BY <1>6, <2>1 DEF TypeOK, NoJob, Job, AddJob, RevokeJob, CutJob, JobOf
  <2>3. /\ job'[r].step = "append" /\ job'[r].op = job[r].op /\ job'[r].name = job[r].name
    BY <1>6, <2>1 DEF TypeOK, Job, AddJob, RevokeJob, CutJob, JobOf
  <2>4. QED
    BY <2>1, <2>2, <2>3 DEF TypeOK
<1>8. ~End(r)
  BY <1>7 DEF End, TypeOK, NoJob, Job, AddJob, RevokeJob, CutJob, JobOf
<1>9. View(c)' = Portal!Issued(View(c)) /\ \A n \in Name \ {c} : View(n)' = View(n)
  BY <1>2, <1>8, IssueView
<1>10. Way(job[r].op, "append", seen[c], View(c)')
  BY <1>3, <1>9 DEF Way
<1>11. QED
  BY <1>1, <1>2, <1>7, <1>9, <1>10, Goes

LEMMA AppendWay ==
  ASSUME Alone, TypeOK, TypeOK', WayInv, AllIdle' => seen' = Views',
         ~AllIdle' => seen' = seen, NEW r \in Runner, Append(r)
  PROVE  WayInv' /\ (seen' = seen \/ Portal!CommandNext)
<1>1. ~Idle(r) /\ job[r].step = "append"
  BY DEF Append, At, Idle
<1>2. PICK c \in Name : c = job[r].name
  BY <1>1, AtForm
<1>3. View(c)' = Portal!Registered(View(c)) /\ \A n \in Name \ {c} : View(n)' = View(n)
  BY <1>2, AppendView
<1>4. CASE job[r].op = "addmac"
  <2>1. View(c) = seen[c]
    BY <1>1, <1>2, <1>4, AtForm DEF Way
  <2>2. View(c)' \in Portal!Leaves(job[r].op, seen[c])
    BY <1>3, <1>4, <2>1 DEF Portal!Leaves, Portal!Results
  <2>3. End(r)
    BY <1>4 DEF Append
  <2>4. QED
    BY <1>1, <1>2, <1>3, <1>4, <2>2, <2>3, AtForm, Ends
<1>5. CASE job[r].op # "addmac"
  <2>1. \/ job[r].op = "add" /\ View(c) = Portal!Issued(seen[c])
        \/ job[r].op = "restore" /\ View(c) = Portal!Issued(Portal!Cleared(seen[c]))
    BY <1>1, <1>2, <1>5, AtForm DEF Way
  <2>2. Way(job[r].op, "deliver", seen[c], View(c)')
    BY <1>3, <2>1 DEF Way
  <2>3. GoTo(r, "deliver")
    BY <1>5 DEF Append
  <2>4. QED
    BY <1>1, <1>2, <1>3, <2>2, <2>3, AtForm, GoToName, Goes
<1>6. QED
  BY <1>4, <1>5

LEMMA DeliverWay ==
  ASSUME Alone, TypeOK, WayInv, AllIdle' => seen' = Views', NEW r \in Runner, Deliver(r)
  PROVE  WayInv' /\ Portal!CommandNext
<1>1. ~Idle(r) /\ job[r].step = "deliver" /\ End(r)
  BY DEF Deliver, At, Idle
<1>2. PICK c \in Name : c = job[r].name
  BY <1>1, AtForm
<1>3. \A n \in Name : View(n)' = View(n)
  BY FilesSame DEF Deliver
<1>4. \/ job[r].op = "add" /\ View(c) = Portal!Registered(Portal!Issued(seen[c]))
      \/ /\ job[r].op = "restore"
         /\ View(c) = Portal!Registered(Portal!Issued(Portal!Cleared(seen[c])))
  BY <1>1, <1>2, AtForm DEF Way
<1>5. View(c)' \in Portal!Leaves(job[r].op, seen[c])
  BY <1>3, <1>4 DEF Portal!Leaves, Portal!Results
<1>6. QED
  BY <1>1, <1>2, <1>3, <1>4, <1>5, AtForm, Ends

LEMMA RevokeWay ==
  ASSUME Alone, TypeOK, TypeOK', IssuedIsValid, WayInv, AllIdle' => seen' = Views',
         ~AllIdle' => seen' = seen, NEW r \in Runner, RevokeRow(r)
  PROVE  WayInv' /\ seen' = seen
<1>1. ~Idle(r) /\ job[r].step = "revoke"
  BY DEF RevokeRow, At, Idle
<1>2. PICK c \in Name : c = job[r].name
  BY <1>1, AtForm
<1>3. job[r].op = "revoke" /\ View(c) = seen[c] /\ seen[c].issued
  BY <1>1, <1>2, AtForm DEF Way, Portal!Accepts
<1>4. crt[job[r].name] # 0
  <2>1. View(c).issued
    BY <1>3
  <2>2. QED
    BY <1>2, <2>1 DEF View
<1>5. job' = [job EXCEPT ![r].step = "gencrl", ![r].serial = crt[job[r].name]]
  BY <1>4 DEF RevokeRow
<1>6. /\ job[r] \in Job /\ job'[r] \in Job /\ job'[r].step = "gencrl"
      /\ job'[r].op = job[r].op /\ job'[r].name = job[r].name
  <2>1. job[r] \in Job
    BY <1>1, AtForm
  <2>2. job'[r] # NoJob
    BY <1>5, <2>1 DEF TypeOK, NoJob, Job, AddJob, RevokeJob, CutJob, JobOf
  <2>3. /\ job'[r].step = "gencrl" /\ job'[r].op = job[r].op /\ job'[r].name = job[r].name
    BY <1>5, <2>1 DEF TypeOK, Job, AddJob, RevokeJob, CutJob, JobOf
  <2>4. QED
    BY <2>1, <2>2, <2>3 DEF TypeOK
<1>7. ~End(r)
  BY <1>6 DEF End, TypeOK, NoJob, Job, AddJob, RevokeJob, CutJob, JobOf
<1>8. View(c)' = Portal!Cut(View(c)) /\ \A n \in Name \ {c} : View(n)' = View(n)
  BY <1>2, <1>7, RevokeView
<1>9. Way(job[r].op, "gencrl", seen[c], View(c)')
  BY <1>3, <1>8 DEF Way
<1>10. QED
  BY <1>1, <1>2, <1>6, <1>8, <1>9, Goes

LEMMA CrlWay ==
  ASSUME Alone, TypeOK, TypeOK', WayInv, AllIdle' => seen' = Views',
         ~AllIdle' => seen' = seen, NEW r \in Runner,
         GenCrl(r) \/ RemoveCrl(r) \/ CopyCrl(r)
  PROVE  WayInv' /\ seen' = seen
<1>1. ~Idle(r) /\ job[r].step \in {"putcrl", "rmcrl", "copycrl"}
  BY DEF GenCrl, RemoveCrl, CopyCrl, At, Idle
<1>2. PICK c \in Name : c = job[r].name
  BY <1>1, AtForm
<1>3. job[r].op = "revoke" /\ View(c) = Portal!Cut(seen[c])
  BY <1>1, <1>2, AtForm DEF Way
<1>4. \A n \in Name : View(n)' = View(n)
  BY FilesSame DEF GenCrl, RemoveCrl, CopyCrl
<1>5. PICK step \in {"rmcrl", "copycrl", "dbread"} : GoTo(r, step)
  BY DEF GenCrl, RemoveCrl, CopyCrl
<1>6. Way(job[r].op, step, seen[c], View(c)')
  BY <1>3, <1>4 DEF Way
<1>7. QED
  BY <1>1, <1>2, <1>4, <1>5, <1>6, AtForm, GoToName, Goes

LEMMA ListWay ==
  ASSUME Alone, TypeOK, TypeOK', WayInv, AllIdle' => seen' = Views',
         ~AllIdle' => seen' = seen, NEW r \in Runner, ListRevoked(r)
  PROVE  WayInv' /\ seen' = seen
<1>1. ~Idle(r) /\ job[r].step = "gencrl"
  BY DEF ListRevoked, At, Idle
<1>2. PICK c \in Name : c = job[r].name
  BY <1>1, AtForm
<1>3. job[r].op = "revoke" /\ View(c) = Portal!Cut(seen[c])
  BY <1>1, <1>2, AtForm DEF Way
<1>4. \A n \in Name : View(n)' = View(n)
  BY FilesSame DEF ListRevoked
<1>5. Way(job[r].op, "putcrl", seen[c], View(c)')
  BY <1>3, <1>4 DEF Way
<1>6. job[r] \in Job
  BY <1>1, AtForm
<1>7. /\ job'[r].step = "putcrl" /\ job'[r].op = job[r].op /\ job'[r].name = job[r].name
      /\ job'[r] # NoJob
  BY <1>6 DEF ListRevoked, TypeOK, NoJob, Job, AddJob, RevokeJob, CutJob, JobOf
<1>8. job'[r] \in Job
  BY <1>7 DEF TypeOK
<1>9. QED
  BY <1>1, <1>2, <1>4, <1>5, <1>6, <1>7, <1>8, Goes

LEMMA ReadWay ==
  ASSUME Alone, TypeOK, TypeOK', WayInv, AllIdle' => seen' = Views',
         ~AllIdle' => seen' = seen, NEW r \in Runner, DbRead(r)
  PROVE  WayInv' /\ seen' = seen
<1>1. ~Idle(r) /\ job[r].step = "dbread"
  BY DEF DbRead, At, Idle
<1>2. PICK c \in Name : c = job[r].name
  BY <1>1, AtForm
<1>3. Way(job[r].op, "dbread", seen[c], View(c))
  BY <1>1, <1>2, AtForm
<1>4. \A n \in Name : View(n)' = View(n)
  BY FilesSame DEF DbRead
<1>5. Way(job[r].op, "dbwrite", seen[c], View(c)')
  BY <1>3, <1>4 DEF Way
<1>6. job[r] \in Job
  BY <1>1, AtForm
<1>7. /\ job'[r].step = "dbwrite" /\ job'[r].op = job[r].op /\ job'[r].name = job[r].name
      /\ job'[r] # NoJob
  BY <1>6 DEF DbRead, TypeOK, NoJob, Job, AddJob, RevokeJob, CutJob, JobOf
<1>8. job'[r] \in Job
  BY <1>7 DEF TypeOK
<1>9. QED
  BY <1>1, <1>2, <1>4, <1>5, <1>6, <1>7, <1>8, Goes

LEMMA WriteWay ==
  ASSUME Alone, TypeOK, SnapInv, WayInv, AllIdle' => seen' = Views', NEW r \in Runner,
         DbWrite(r)
  PROVE  WayInv' /\ Portal!CommandNext
<1>1. ~Idle(r) /\ job[r].step = "dbwrite" /\ End(r)
  BY DEF DbWrite, At, Idle
<1>2. PICK c \in Name : c = job[r].name
  BY <1>1, AtForm
<1>3. CASE job[r].op # "rmmac"
  <2>1. /\ \A n \in Name \ {c} : View(n)' = View(n)
        /\ View(c)' = Portal!Unregistered(View(c))
    BY <1>2, <1>3, RewriteView
  <2>2. \/ job[r].op = "clean" /\ View(c) = seen[c]
        \/ job[r].op = "revoke" /\ View(c) = Portal!Cut(seen[c])
        \/ job[r].op = "purge" /\ View(c) = Portal!Cleared(seen[c])
    BY <1>1, <1>2, <1>3, AtForm DEF Way
  <2>3. View(c)' \in Portal!Leaves(job[r].op, seen[c])
    BY <2>1, <2>2 DEF Portal!Leaves, Portal!Results
  <2>4. QED
    BY <1>1, <1>2, <1>3, <2>1, <2>3, AtForm, Ends
<1>4. CASE job[r].op = "rmmac"
  <2>1. WayInv' /\ seen' = [n \in Name |-> View(n)']
    BY <1>1, Ended
  <2>2. \A n \in Name : View(n) = seen[n]
    BY <1>1, <1>2, <1>4, AtForm DEF WayInv, Way
  <2> DEFINE bare == {d \in Name : View(d)' # View(d)}
             like == {d \in Name : Lower[d] = Lower[c] /\ seen[d].mac}
             next == [d \in Name |-> IF d \in bare THEN Portal!Unregistered(seen[d])
                                                   ELSE seen[d]]
  <2>3. \A d \in Name : View(d)' = View(d)
          \/ (Lower[d] = Lower[c] /\ View(d).mac /\ View(d)' = Portal!Unregistered(View(d)))
    BY <1>2, <1>4, RewriteView
  <2>4. bare \in SUBSET like
    BY <2>2, <2>3
  <2>5. seen' = next
    <3>1. ASSUME NEW d \in Name PROVE seen'[d] = next[d]
      <4>1. CASE d \in bare
        BY <2>1, <2>2, <2>3, <4>1
      <4>2. CASE d \notin bare
        BY <2>1, <2>2, <4>2
      <4>3. QED
        BY <4>1, <4>2
    <3> HIDE DEF bare
    <3>2. QED
      BY <2>1, <3>1
  <2>6. Portal!RemovesMac(c)
    BY <2>4, <2>5 DEF Portal!RemovesMac
  <2>7. QED
    BY <2>1, <2>6 DEF Portal!CommandNext
<1>5. QED
  BY <1>3, <1>4

\* Wherever a script is killed, the contract has it that it may stop there.
LEMMA KillWay ==
  ASSUME Alone, TypeOK, WayInv, AllIdle' => seen' = Views', NEW r \in Runner, Kill(r)
  PROVE  WayInv' /\ (seen' = seen \/ Portal!CommandNext)
<1>1. ~Idle(r) /\ End(r) /\ "kill" \in Faults
  BY DEF Kill
<1>2. PICK c \in Name : c = job[r].name
  BY <1>1, AtForm
<1>3. \A n \in Name : View(n)' = View(n)
  BY FilesSame DEF Kill
<1>4. Way(job[r].op, job[r].step, seen[c], View(c))
  BY <1>1, <1>2, AtForm
<1>5. CASE job[r].op # "rmmac"
  <2>1. \/ View(c) \in Portal!Halfway(job[r].op, seen[c])
        \/ View(c) \in Portal!Results(job[r].op, seen[c])
    BY <1>4, <1>5 DEF Way, Portal!Halfway, Portal!Results
  <2>2. job[r].op \in CutShort
    BY <1>1, <1>5, AtForm DEF CutShort, Job, AddJob, RevokeJob, CutJob, JobOf
  <2>3. View(c)' \in Portal!Leaves(job[r].op, seen[c])
    BY <1>3, <2>1, <2>2 DEF Portal!Leaves
  <2>4. QED
    BY <1>1, <1>2, <1>3, <1>5, <2>3, AtForm, Ends
<1>6. CASE job[r].op = "rmmac"
  <2>1. WayInv' /\ seen' = [n \in Name |-> View(n)']
    BY <1>1, Ended
  <2>2. \A n \in Name : View(n) = seen[n]
    BY <1>1, <1>2, <1>4, <1>6 DEF WayInv, Way
  <2>3. seen \in [Name -> Portal!Pki]
    BY DEF WayInv
  <2>4. seen' = seen
    BY <1>3, <2>1, <2>2, <2>3
  <2>5. QED
    BY <2>1, <2>4
<1>7. QED
  BY <1>5, <1>6

LEMMA WayStep ==
  ASSUME Alone, IInv, TypeOK', SnapInv, WayInv, [WatchNext]_<<vars, seen>>
  PROVE  WayInv' /\ (seen' = seen \/ Portal!CommandNext)
<1>1. TypeOK /\ IssuedIsValid
  BY DEF IInv
<1>2. CASE WatchNext
  <2>1. (AllIdle' => seen' = Views') /\ (~AllIdle' => seen' = seen)
    BY <1>2 DEF WatchNext
  <2>2. PICK r \in Runner :
          \/ \E n \in Name : StartPurge(r, n) \/ StartRevoke(r, n) \/ StartClean(r, n)
          \/ \E n \in Name, m \in Mac :
               \/ StartAdd(r, n, m) \/ StartRestore(r, n, m)
               \/ StartAddMac(r, n, m) \/ StartRemoveMac(r, n, m)
          \/ Clear(r) \/ CheckRestored(r) \/ Issue(r) \/ Append(r) \/ Deliver(r)
          \/ RevokeRow(r) \/ ListRevoked(r) \/ GenCrl(r) \/ RemoveCrl(r) \/ CopyCrl(r)
          \/ DbRead(r) \/ DbWrite(r) \/ Kill(r)
    BY <1>2 DEF WatchNext, Next
  <2>3. ASSUME NEW n \in Name,
               \/ StartPurge(r, n) \/ StartRevoke(r, n) \/ StartClean(r, n)
               \/ \E m \in Mac : \/ StartAdd(r, n, m) \/ StartRestore(r, n, m)
                                 \/ StartAddMac(r, n, m) \/ StartRemoveMac(r, n, m)
        PROVE  WayInv' /\ seen' = seen
    BY <1>1, <2>1, <2>3, StartsWay
  <2>4. ASSUME Clear(r) \/ Issue(r) \/ RevokeRow(r) \/ DbRead(r)
        PROVE  WayInv' /\ seen' = seen
    BY <1>1, <2>1, <2>4, ClearWay, IssueWay, RevokeWay, ReadWay
  <2>5. ASSUME ListRevoked(r) \/ GenCrl(r) \/ RemoveCrl(r) \/ CopyCrl(r)
        PROVE  WayInv' /\ seen' = seen
    BY <1>1, <2>1, <2>5, ListWay, CrlWay
  <2>6. ASSUME CheckRestored(r) \/ Append(r) \/ Kill(r)
        PROVE  WayInv' /\ (seen' = seen \/ Portal!CommandNext)
    BY <1>1, <2>1, <2>6, CheckWay, AppendWay, KillWay
  <2>7. ASSUME Deliver(r) \/ DbWrite(r) PROVE WayInv' /\ Portal!CommandNext
    BY <1>1, <2>1, <2>7, DeliverWay, WriteWay
  <2>8. QED
    BY <2>2, <2>3, <2>4, <2>5, <2>6, <2>7
<1>3. CASE UNCHANGED <<vars, seen>>
  <2>1. \A n \in Name : View(n)' = View(n)
    BY <1>3, FilesSame DEF vars
  <2>2. job' = job /\ seen' = seen /\ (AllIdle' <=> AllIdle)
    BY <1>3 DEF vars, AllIdle, Idle
  <2>3. \A r \in Runner : ~Idle(r) => job[r].name \in Name
    BY <1>1, AtForm
  <2>4. WayInv'
    BY <2>1, <2>2, <2>3 DEF WayInv, Idle
  <2>5. QED
    BY <2>2, <2>4
<1>4. QED
  BY <1>2, <1>3

\* No client has any files at first.
LEMMA WayInit ==
  ASSUME WatchInit
  PROVE  WayInv /\ Portal!CommandInit
<1>1. ASSUME NEW n \in Name PROVE View(n) = Portal!Blank
  <2>1. crt[n] = 0 /\ RowsOf(n) = {}
    BY DEF WatchInit, Init, RowsOf
  <2>2. Strays(n) = {}
    BY DEF WatchInit, Init, Strays
  <2>3. ~HasRevokedRow(n)
    BY DEF WatchInit, Init, HasRevokedRow, Revoked
  <2>4. QED
    BY <2>1, <2>2, <2>3 DEF View, Portal!Blank, HasRevokedRow
<1>2. seen = [n \in Name |-> Portal!Blank]
  BY <1>1 DEF WatchInit, Views
<1>3. Portal!Blank \in Portal!Pki
  BY DEF Portal!Blank, Portal!Pki
<1>4. Portal!CommandInit
  BY <1>2 DEF Portal!CommandInit
<1>5. \A r \in Runner : Idle(r)
  BY DEF WatchInit, Init, Idle
<1>6. QED
  BY <1>1, <1>2, <1>3, <1>4, <1>5 DEF WayInv

\* One at a time, every script of openvpn-install.sh does to the files of its own
\* client, by the time it has ended or was killed, what one command of the contract
\* does, and nothing to another client's, but for the address that --remove-mac takes
\* off the clients of names alike: VpnIdentity, whose handlers run commands of the
\* contract, may take each for a single step.
THEOREM ScriptsRefineCommands ==
  ASSUME Alone
  PROVE  WatchSpec => ScriptsAreCommands
<1>1. WatchInit => Init /\ SnapInv /\ WayInv /\ Portal!CommandInit
  BY WayInit DEF WatchInit, Init, SnapInv, At
<1>2. [WatchNext]_<<vars, seen>> => [Next]_vars
  BY DEF WatchNext, vars
<1>3. IInv /\ SnapInv /\ WayInv /\ [WatchNext]_<<vars, seen>>
        => IInv' /\ SnapInv' /\ WayInv' /\ [Portal!CommandNext]_seen
  <2> SUFFICES ASSUME IInv, SnapInv, WayInv, [WatchNext]_<<vars, seen>>
               PROVE  IInv' /\ SnapInv' /\ WayInv' /\ [Portal!CommandNext]_seen
    OBVIOUS
  <2>1. IInv'
    BY <1>2, StepInv
  <2>2. TypeOK /\ TypeOK'
    BY <2>1 DEF IInv
  <2>3. SnapInv'
    BY <1>2, <2>2, SnapStep
  <2>4. WayInv' /\ (seen' = seen \/ Portal!CommandNext)
    BY <2>2, WayStep
  <2>5. QED
    BY <2>1, <2>3, <2>4
<1>4. QED
  BY <1>1, <1>3, InitInv, PTL DEF WatchSpec, ScriptsAreCommands, Portal!CommandSpec
=============================================================================
