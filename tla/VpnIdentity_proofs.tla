------------------------- MODULE VpnIdentity_proofs -------------------------
(***************************************************************************)
(* Proofs about VpnIdentity, for any users, managers and clients.          *)
(***************************************************************************)
EXTENDS VpnIdentity, TLAPS

USE IdentityAssumption

\* A step of a request that is running.
HandlerStep(a) ==
  \/ CommitUser(a) \/ Sync(a) \/ ListMacs(a)
  \/ Revoke(a) \/ Purge(a) \/ Restore(a) \/ Add(a) \/ ScriptFails(a)
  \/ Mirror(a) \/ Relink(a) \/ Insert(a) \/ EraseUser(a)

\* What such a step makes of its request k: it ends or goes on as another step
\* of the same request.
Continues(k, j) ==
  /\ k \in Job /\ Shape(k) /\ k.op = j.op /\ k.step # j.step
  /\ k.calm => j.calm
  /\ j.step = "commit" => k.step = "sync"
  /\ j.step # "sync" => k.client = j.client
  /\ j.step = "sync" => \E x \in link : ~x.protected /\ x.client = k.client
  /\ j.op = "erase" => <<j.step, k.step>> \in {<<"revoke", "purge">>, <<"purge", "erase">>}

Goes(a) ==
  /\ job[a] \in Job /\ Shape(job[a])
  /\ \/ job' = [job EXCEPT ![a] = NoJob]
     \/ \E k : job' = [job EXCEPT ![a] = k] /\ Continues(k, job[a])

\* A request that is running is well formed.
LEMMA Running ==
  ASSUME TypeOK, Shapes, NEW a \in Manager, job[a] # NoJob
  PROVE  job[a] \in Job /\ Shape(job[a])
  BY DEF TypeOK, Shapes

\* GoTo as a request that continues.
LEMMA GoToContinues ==
  ASSUME TypeOK, Shapes, NEW a \in Manager, job[a] # NoJob,
         NEW s \in {"commit", "sync", "macs", "revoke", "restore", "purge", "add",
                    "mirror", "relink", "insert", "erase"},
         GoTo(a, s), s # job[a].step,
         Shape([job[a] EXCEPT !.step = s]), job[a].step # "sync",
         job[a].step = "commit" => s = "sync",
         job[a].op = "erase" =>
           <<job[a].step, s>> \in {<<"revoke", "purge">>, <<"purge", "erase">>}
  PROVE  Goes(a)
<1> DEFINE k == [job[a] EXCEPT !.step = s]
<1>1. job[a] \in Job /\ Shape(job[a])
  BY Running
<1>2. job' = [job EXCEPT ![a] = k]
  BY <1>1 DEF GoTo, TypeOK
<1>3. /\ k \in Job /\ k.op = job[a].op /\ k.step = s
      /\ k.calm = job[a].calm /\ k.client = job[a].client
  BY <1>1 DEF Job
<1>4. Continues(k, job[a])
  BY <1>1, <1>3 DEF Continues
<1>5. QED
  BY <1>1, <1>2, <1>4 DEF Goes

LEMMA EndGoes ==
  ASSUME TypeOK, Shapes, NEW a \in Manager, job[a] # NoJob, End(a)
  PROVE  Goes(a)
  BY Running DEF Goes, End

\* After a script.
LEMMA DoneGoes ==
  ASSUME TypeOK, Shapes, NEW a \in Manager, job[a] # NoJob,
         job[a].step \in {"revoke", "purge", "restore", "add"},
         Done(a) \/ Failed(a)
  PROVE  Goes(a)
<1>1. job[a] \in Job /\ Shape(job[a])
  BY Running
<1>2. CASE End(a)
  BY <1>2, EndGoes
<1>3. CASE job[a].op \in ClientsPage /\ GoTo(a, "mirror")
  <2>1. Shape([job[a] EXCEPT !.step = "mirror"])
    BY <1>1, <1>3 DEF Shape, Job, ClientsPage
  <2>2. QED
    BY <1>1, <1>3, <2>1, GoToContinues DEF ClientsPage
<1>4. CASE job[a].op = "create" /\ GoTo(a, "insert")
  <2>1. Shape([job[a] EXCEPT !.step = "insert"])
    BY <1>1, <1>4 DEF Shape, Job, ClientsPage
  <2>2. QED
    BY <1>1, <1>4, <2>1, GoToContinues
<1>5. CASE job[a].op = "erase" /\ job[a].step = "revoke" /\ GoTo(a, "purge")
  <2>1. Shape([job[a] EXCEPT !.step = "purge"])
    BY <1>1, <1>5 DEF Shape, Job, ClientsPage
  <2>2. QED
    BY <1>1, <1>5, <2>1, GoToContinues
<1>6. CASE job[a].op = "erase" /\ job[a].step # "revoke" /\ GoTo(a, "erase")
  <2>1. Shape([job[a] EXCEPT !.step = "erase"]) /\ job[a].step = "purge"
    BY <1>1, <1>6 DEF Shape, Job, ClientsPage
  <2>2. QED
    BY <1>1, <1>6, <2>1, GoToContinues
<1>7. QED
  BY <1>2, <1>3, <1>4, <1>5, <1>6 DEF Done, Failed, ClientsPage

\* Every step of a request ends it or continues it.
LEMMA StepGoes ==
  ASSUME TypeOK, Shapes, NEW a \in Manager, HandlerStep(a)
  PROVE  Goes(a)
<1>1. job[a] # NoJob
  BY DEF HandlerStep, CommitUser, Sync, ListMacs, Revoke, Purge, Restore, Add,
         ScriptFails, Mirror, Relink, Insert, EraseUser, At
<1>2. job[a] \in Job /\ Shape(job[a])
  BY <1>1, Running
<1>3. CASE CommitUser(a)
  <2>1. CASE GoTo(a, "sync")
    <3>1. job[a].step = "commit"
      BY <1>3 DEF CommitUser, At
    <3>2. Shape([job[a] EXCEPT !.step = "sync"]) /\ job[a].op # "erase"
      BY <1>2, <3>1 DEF Shape, Job, ClientsPage
    <3>3. QED
      BY <1>1, <2>1, <3>1, <3>2, GoToContinues
  <2>2. QED
    BY <1>1, <1>3, <2>1, EndGoes DEF CommitUser
<1>4. CASE Sync(a)
  <2>1. ASSUME NEW x \in Unprotected(job[a].user),
               job' = [job EXCEPT ![a].client = x.client,
                         ![a].step = IF "active" \in job[a].writes THEN "macs"
                                                                   ELSE "revoke"]
        PROVE  Goes(a)
    <3> DEFINE s == IF "active" \in job[a].writes THEN "macs" ELSE "revoke"
               k == [job[a] EXCEPT !.client = x.client, !.step = s]
    <3>1. x.client \in Client /\ x \in link /\ ~x.protected
      BY DEF Unprotected, LinksOf, TypeOK, Link
    <3>2. job[a].step = "sync"
      BY <1>4 DEF Sync, At
    <3>3. job' = [job EXCEPT ![a] = k]
      BY <2>1, <1>2 DEF TypeOK, Job
    <3>4. /\ k \in Job /\ k.op = job[a].op /\ k.user = job[a].user
          /\ k.step = s /\ k.client = x.client /\ k.calm = job[a].calm
      BY <1>2, <3>1 DEF Job
    <3>5. job[a].op \in {"patch", "delete"} /\ job[a].user \in User
      BY <1>2, <3>2 DEF Shape, ClientsPage
    <3>6. Shape(k)
      BY <3>1, <3>4, <3>5 DEF Shape
    <3>7. Continues(k, job[a])
      BY <3>1, <3>2, <3>4, <3>5, <3>6 DEF Continues
    <3>8. QED
      BY <1>2, <3>3, <3>7 DEF Goes
  <2>2. QED
    BY <1>1, <1>4, <2>1, EndGoes DEF Sync
<1>5. CASE ListMacs(a)
  <2>1. CASE GoTo(a, "restore")
    <3>1. job[a].step = "macs"
      BY <1>5 DEF ListMacs, At
    <3>2. Shape([job[a] EXCEPT !.step = "restore"]) /\ job[a].op # "erase"
      BY <1>2, <3>1 DEF Shape, Job, ClientsPage
    <3>3. QED
      BY <1>1, <2>1, <3>1, <3>2, GoToContinues
  <2>2. QED
    BY <1>1, <1>5, <2>1, EndGoes DEF ListMacs
<1>6. CASE Revoke(a) \/ Purge(a) \/ Restore(a) \/ Add(a)
  <2>1. job[a].step \in {"revoke", "purge", "restore", "add"}
    BY <1>6 DEF Revoke, Purge, Restore, Add, At
  <2>2. Done(a) \/ Failed(a)
    BY <1>6 DEF Revoke, Purge, Restore, Add
  <2>3. QED
    BY <1>1, <2>1, <2>2, DoneGoes
<1>7. CASE ScriptFails(a)
  <2>1. job[a].op = "erase" => job[a].step \in {"revoke", "purge"}
    BY <1>2, <1>7, IdentityAssumption DEF ScriptFails, At, Shape, ClientsPage, Command
  <2>2. CASE End(a)
    BY <1>1, <2>2, EndGoes
  <2>3. ASSUME job[a].op = "erase",
               job' = [job EXCEPT ![a].calm = FALSE,
                         ![a].step = IF @ = "revoke" THEN "purge" ELSE "erase"]
        PROVE  Goes(a)
    <3> DEFINE s == IF job[a].step = "revoke" THEN "purge" ELSE "erase"
               k == [job[a] EXCEPT !.calm = FALSE, !.step = s]
    <3>1. job' = [job EXCEPT ![a] = k]
      BY <2>3, <1>2 DEF TypeOK, Job
    <3>2. /\ k \in Job /\ k.op = "erase" /\ k.user = job[a].user
          /\ k.step = s /\ k.client = job[a].client /\ k.calm = FALSE
      BY <1>2, <2>3 DEF Job
    <3>3. job[a].user \in User /\ job[a].client \in Client
      BY <1>2, <2>1, <2>3 DEF Shape, ClientsPage
    <3>4. Shape(k)
      BY <3>2, <3>3 DEF Shape
    <3>5. Continues(k, job[a])
      BY <2>1, <2>3, <3>2, <3>4 DEF Continues
    <3>6. QED
      BY <1>2, <3>1, <3>5 DEF Goes
  <2>4. QED
    BY <1>7, <2>2, <2>3 DEF ScriptFails
<1>8. CASE Mirror(a) \/ Relink(a) \/ Insert(a) \/ EraseUser(a)
  BY <1>1, <1>8, EndGoes DEF Mirror, Relink, Insert, EraseUser
<1>9. QED
  BY <1>3, <1>4, <1>5, <1>6, <1>7, <1>8 DEF HandlerStep

\* What the start of a request sets up.
Opens(a) ==
  \E j \in Job :
    /\ Shape(j) /\ job[a] = NoJob
    /\ job' = [b \in Manager |-> IF b = a THEN j ELSE Disturbed(b)]
    /\ j.calm => \A b \in Manager : job[b] = NoJob
    /\ j.op \in {"patch", "delete"} => j.step = "commit"
    /\ j.op = "erase" =>
         \/ j.step = "revoke" /\ \A x \in LinksTo(j.client) : ~x.protected
         \/ j.step = "erase" /\ j.client = None
    /\ UNCHANGED <<user, link, pki>>

\* The router fills in calm.
LEMMA StartOpens ==
  ASSUME NEW a \in Manager, NEW j \in Job, Shape(j), Start(a, j),
         j.op \in {"patch", "delete"} => j.step = "commit",
         j.op = "erase" =>
           \/ j.step = "revoke" /\ \A x \in LinksTo(j.client) : ~x.protected
           \/ j.step = "erase" /\ j.client = None
  PROVE  Opens(a)
<1>1. PICK m \in BOOLEAN : m = (\A d \in Manager : job[d] = NoJob)
  OBVIOUS
<1> DEFINE k == [j EXCEPT !.calm = m]
<1>2. job' = [b \in Manager |-> IF b = a THEN k ELSE Disturbed(b)]
  BY <1>1 DEF Start
<1>3. /\ k \in Job /\ k.calm = m
      /\ k.op = j.op /\ k.step = j.step /\ k.user = j.user /\ k.client = j.client
  BY DEF Job
<1>4. Shape(k)
  BY <1>3 DEF Shape
<1>5. job[a] = NoJob /\ UNCHANGED <<user, link, pki>>
  BY DEF Start
<1> HIDE DEF k
<1>6. k.calm => \A b \in Manager : job[b] = NoJob
  BY <1>1, <1>3
<1>7. QED
  BY <1>2, <1>3, <1>4, <1>5, <1>6 DEF Opens

\* A step that starts a request.
OpeningStep(a) ==
  \/ \E u \in User :
       \/ \E w \in Patches : StartPatch(a, u, w)
       \/ StartDelete(a, u) \/ StartErase(a, u)
       \/ \E c \in Client : StartLink(a, u, c) \/ StartCreate(a, u, c)
  \/ \E c \in Client, op \in ClientsPage : StartClient(a, op, c)

LEMMA StepOpens ==
  ASSUME TypeOK, OneToOne, NEW a \in Manager, OpeningStep(a)
  PROVE  Opens(a)
<1>1. CASE \E u \in User : \E w \in Patches : StartPatch(a, u, w)
  <2>1. PICK u \in User, w \in Patches : StartPatch(a, u, w)
    BY <1>1
  <2>2. Effective(u, w) \in SUBSET Write
    BY DEF Effective
  <2> DEFINE j == [Request("patch", "commit", u, None) EXCEPT
                     !.writes = Effective(u, w)]
  <2>3. j \in Job /\ Shape(j) /\ j.op = "patch" /\ j.step = "commit"
    BY <2>2 DEF Job, Shape, Request
  <2>4. Start(a, j)
    BY <2>1 DEF StartPatch
  <2> HIDE DEF j
  <2>5. QED
    BY <2>3, <2>4, StartOpens
<1>2. CASE \E u \in User : StartDelete(a, u)
  <2>1. PICK u \in User : StartDelete(a, u)
    BY <1>2
  <2> DEFINE j == [Request("delete", "commit", u, None) EXCEPT
                     !.writes = {"inactive", "deleted"}]
  <2>2. j \in Job /\ Shape(j) /\ j.op = "delete" /\ j.step = "commit"
    BY DEF Job, Shape, Request, Write
  <2>3. Start(a, j)
    BY <2>1 DEF StartDelete
  <2> HIDE DEF j
  <2>4. QED
    BY <2>2, <2>3, StartOpens
<1>3. CASE \E u \in User : StartErase(a, u)
  <2>1. PICK u \in User : StartErase(a, u)
    BY <1>3
  <2>2. CASE Start(a, Request("erase", "erase", u, None))
    <3> DEFINE j == Request("erase", "erase", u, None)
    <3>1. /\ j \in Job /\ Shape(j)
          /\ j.op = "erase" /\ j.step = "erase" /\ j.client = None
      BY DEF Job, Shape, Request
    <3>2. Start(a, j)
      BY <2>2
    <3> HIDE DEF j
    <3>3. QED
      BY <3>1, <3>2, StartOpens
  <2>3. ASSUME NEW x \in Unprotected(u),
               Start(a, Request("erase", "revoke", u, x.client))
        PROVE  Opens(a)
    <3>1. x \in link /\ ~x.protected /\ x.client \in Client
      BY DEF Unprotected, LinksOf, TypeOK, Link
    <3>2. \A y \in LinksTo(x.client) : ~y.protected
      BY <3>1 DEF LinksTo, OneToOne
    <3> DEFINE j == Request("erase", "revoke", u, x.client)
    <3>3. /\ j \in Job /\ Shape(j)
          /\ j.op = "erase" /\ j.step = "revoke" /\ j.client = x.client
      BY <3>1 DEF Job, Shape, Request
    <3>4. Start(a, j)
      BY <2>3
    <3> HIDE DEF j
    <3>5. QED
      BY <3>2, <3>3, <3>4, StartOpens
  <2>4. QED
    BY <2>1, <2>2, <2>3 DEF StartErase
<1>4. CASE \E u \in User, c \in Client : StartLink(a, u, c)
  <2>1. PICK u \in User, c \in Client : StartLink(a, u, c)
    BY <1>4
  <2>2. LinksOf(u) \in SUBSET Link
    BY DEF LinksOf, TypeOK
  <2> DEFINE j == [Request("link", "relink", u, c) EXCEPT !.rows = LinksOf(u)]
  <2>3. j \in Job /\ Shape(j) /\ j.op = "link"
    BY <2>2 DEF Job, Shape, Request
  <2>4. Start(a, j)
    BY <2>1 DEF StartLink
  <2> HIDE DEF j
  <2>5. QED
    BY <2>3, <2>4, StartOpens
<1>5. CASE \E u \in User, c \in Client : StartCreate(a, u, c)
  <2>1. PICK u \in User, c \in Client : StartCreate(a, u, c)
    BY <1>5
  <2>2. PICK s \in {"add", "insert"} : Start(a, Request("create", s, u, c))
    BY <2>1 DEF StartCreate
  <2> DEFINE j == Request("create", s, u, c)
  <2>3. j \in Job /\ Shape(j) /\ j.op = "create"
    BY DEF Job, Shape, Request
  <2>4. Start(a, j)
    BY <2>2
  <2> HIDE DEF j
  <2>5. QED
    BY <2>3, <2>4, StartOpens
<1>6. CASE \E c \in Client, op \in ClientsPage : StartClient(a, op, c)
  <2>1. PICK c \in Client, op \in ClientsPage : StartClient(a, op, c)
    BY <1>6
  <2> DEFINE j == Request(op, op, None, c)
  <2>2. j \in Job /\ Shape(j) /\ j.op \in ClientsPage
    BY DEF Job, Shape, Request, ClientsPage
  <2>3. Start(a, j)
    BY <2>1 DEF StartClient
  <2> HIDE DEF j
  <2>4. QED
    BY <2>2, <2>3, StartOpens DEF ClientsPage
<1>7. QED
  BY <1>1, <1>2, <1>3, <1>4, <1>5, <1>6 DEF OpeningStep

\* The steps there are.
LEMMA NextSteps ==
  ASSUME Next
  PROVE  \E a \in Manager :
           \/ OpeningStep(a) \/ HandlerStep(a) \/ \E u \in User : Unlink(a, u)
  BY DEF Next, OpeningStep, HandlerStep

-----------------------------------------------------------------------------
(* What a step leaves of the requests. *)

\* Others' requests, when another one starts.
LEMMA DisturbedJob ==
  ASSUME TypeOK, Shapes, NEW b \in Manager
  PROVE  \/ Disturbed(b) = NoJob
         \/ /\ job[b] # NoJob /\ Disturbed(b) \in Job /\ Shape(Disturbed(b))
            /\ Disturbed(b).calm = FALSE
            /\ Disturbed(b).op = job[b].op /\ Disturbed(b).step = job[b].step
            /\ Disturbed(b).client = job[b].client
<1>1. CASE job[b] = NoJob
  BY <1>1 DEF Disturbed
<1>2. CASE job[b] # NoJob
  <2> DEFINE k == [job[b] EXCEPT !.calm = FALSE]
  <2>1. job[b] \in Job /\ Shape(job[b])
    BY <1>2, Running
  <2>2. /\ k \in Job /\ k.calm = FALSE /\ k.user = job[b].user
        /\ k.op = job[b].op /\ k.step = job[b].step /\ k.client = job[b].client
    BY <2>1 DEF Job
  <2>3. Shape(k)
    BY <2>1, <2>2 DEF Shape
  <2>4. Disturbed(b) = k
    BY <1>2 DEF Disturbed
  <2> HIDE DEF k
  <2>5. QED
    BY <1>2, <2>2, <2>3, <2>4
<1>3. QED
  BY <1>1, <1>2

\* The three kinds of steps, as the requests see them.
Moves(a) ==
  \/ HandlerStep(a) /\ Goes(a)
  \/ Opens(a)
  \/ /\ job' = [b \in Manager |-> Disturbed(b)]
     /\ link' \subseteq link /\ UNCHANGED <<user, pki>>

LEMMA StepMoves ==
  ASSUME TypeOK, Shapes, OneToOne, Next
  PROVE  \E a \in Manager : Moves(a)
<1>1. PICK a \in Manager :
        OpeningStep(a) \/ HandlerStep(a) \/ \E u \in User : Unlink(a, u)
  BY NextSteps
<1>2. CASE OpeningStep(a)
  BY <1>2, StepOpens DEF Moves
<1>3. CASE HandlerStep(a)
  BY <1>3, StepGoes DEF Moves
<1>4. CASE \E u \in User : Unlink(a, u)
  BY <1>4 DEF Unlink, Moves
<1>5. QED
  BY <1>1, <1>2, <1>3, <1>4

LEMMA JobsKept ==
  ASSUME TypeOK, Shapes, NEW a \in Manager, Moves(a)
  PROVE  job' \in [Manager -> Job \cup {NoJob}] /\ Shapes'
<1>1. CASE Goes(a)
  <2>1. CASE job' = [job EXCEPT ![a] = NoJob]
    BY <2>1 DEF TypeOK, Shapes
  <2>2. ASSUME NEW k, job' = [job EXCEPT ![a] = k], Continues(k, job[a])
        PROVE  job' \in [Manager -> Job \cup {NoJob}] /\ Shapes'
    <3>1. k \in Job /\ Shape(k)
      BY <2>2 DEF Continues
    <3>2. QED
      BY <2>2, <3>1 DEF TypeOK, Shapes
  <2>3. QED
    BY <1>1, <2>1, <2>2 DEF Goes
<1>2. CASE Opens(a)
  <2>1. PICK j \in Job :
          Shape(j) /\ job' = [b \in Manager |-> IF b = a THEN j ELSE Disturbed(b)]
    BY <1>2 DEF Opens
  <2>2. \A b \in Manager :
          Disturbed(b) \in Job \cup {NoJob} /\ (Disturbed(b) # NoJob => Shape(Disturbed(b)))
    BY DisturbedJob
  <2>3. QED
    BY <2>1, <2>2 DEF Shapes
<1>3. CASE job' = [b \in Manager |-> Disturbed(b)]
  <2>1. \A b \in Manager :
          Disturbed(b) \in Job \cup {NoJob} /\ (Disturbed(b) # NoJob => Shape(Disturbed(b)))
    BY DisturbedJob
  <2>2. QED
    BY <1>3, <2>1 DEF Shapes
<1>4. QED
  BY <1>1, <1>2, <1>3 DEF Moves

\* No request is calm that another one accompanies.
LEMMA CalmKept ==
  ASSUME TypeOK, Shapes, CalmAlone, NEW a \in Manager, Moves(a)
  PROVE  CalmAlone'
<1>1. CASE Goes(a)
  <2>1. PICK k : /\ job' = [job EXCEPT ![a] = k]
                 /\ k = NoJob \/ Continues(k, job[a])
    BY <1>1 DEF Goes
  <2>2. job[a] # NoJob
    BY <1>1 DEF Goes, Job, NoJob
  <2>3. /\ job'[a] = k
        /\ \A b \in Manager \ {a} : job'[b] = job[b]
    BY <2>1 DEF TypeOK
  <2>4. k # NoJob /\ k.calm => job[a].calm
    BY <2>1 DEF Continues
  <2>5. QED
    BY <2>2, <2>3, <2>4 DEF CalmAlone
<1>2. CASE Opens(a)
  <2>1. PICK j \in Job :
          /\ job' = [b \in Manager |-> IF b = a THEN j ELSE Disturbed(b)]
          /\ j.calm => \A b \in Manager : job[b] = NoJob
    BY <1>2 DEF Opens
  <2>2. \A b \in Manager : Disturbed(b) = NoJob \/ Disturbed(b).calm = FALSE
    BY DisturbedJob
  <2>3. \A b \in Manager : job[b] = NoJob => Disturbed(b) = NoJob
    BY DEF Disturbed
  <2>4. QED
    BY <2>1, <2>2, <2>3 DEF CalmAlone
<1>3. CASE job' = [b \in Manager |-> Disturbed(b)]
  <2>1. \A b \in Manager : Disturbed(b) = NoJob \/ Disturbed(b).calm = FALSE
    BY DisturbedJob
  <2>2. QED
    BY <1>3, <2>1 DEF CalmAlone
<1>4. QED
  BY <1>1, <1>2, <1>3 DEF Moves

-----------------------------------------------------------------------------
(* What a step of a request makes of accounts, links and certificates. *)

LEMMA WrittenTyped ==
  ASSUME NEW x \in Account, NEW w
  PROVE  Written(x, w) \in Account
  BY DEF Account, Written

\* The links of a table that has got one more.
LEMMA OneMoreLink ==
  ASSUME TypeOK, OneToOne, NEW u \in User, NEW c \in Client,
         NEW rest \in SUBSET link, \A x \in rest : x.client # c /\ x.user # u,
         link' = rest \cup {NewLink(u, c)},
         \A x \in link' : user'[x.user] # NoAccount
  PROVE  /\ link' \subseteq Link /\ OneToOne'
         /\ \A x \in link' : x.protected => x \in link
<1> DEFINE n == NewLink(u, c)
<1>1. n \in Link /\ n.user = u /\ n.client = c /\ ~n.protected
  BY DEF NewLink, Link
<1> HIDE DEF n
<1>2. link' = rest \cup {n}
  BY DEF n
<1>3. link' \subseteq Link
  BY <1>1, <1>2 DEF TypeOK
<1>4. \A x, y \in link' : x.user = y.user \/ x.client = y.client => x = y
  BY <1>1, <1>2 DEF OneToOne
<1>5. \A x \in link' : x.protected => x \in link
  BY <1>1, <1>2
<1>6. QED
  BY <1>3, <1>4, <1>5 DEF OneToOne, Exists

\* Links that are only taken away, from accounts that stay.
LEMMA FewerLinks ==
  ASSUME TypeOK, OneToOne, link' \subseteq link,
         \A x \in link' : user'[x.user] # NoAccount
  PROVE  /\ link' \subseteq Link /\ OneToOne'
         /\ \A x \in link' : x.protected => x \in link
  BY SMTT(30) DEF TypeOK, OneToOne, Exists

LEMMA LinksKept ==
  ASSUME TypeOK, Shapes, OneToOne, NEW a \in Manager, HandlerStep(a)
  PROVE  /\ user' \in [User -> Account \cup {NoAccount}]
         /\ link' \subseteq Link /\ OneToOne'
         /\ \A x \in link' : x.protected => x \in link
<1>1. job[a] # NoJob
  BY DEF HandlerStep, CommitUser, Sync, ListMacs, Revoke, Purge, Restore, Add,
         ScriptFails, Mirror, Relink, Insert, EraseUser, At
<1>2. job[a] \in Job /\ Shape(job[a])
  BY <1>1, Running
<1>3. user \in [User -> Account \cup {NoAccount}] /\ link \subseteq Link
  BY DEF TypeOK
<1>4. \A x \in link : x.user \in User /\ user[x.user] # NoAccount /\ user[x.user] \in Account
  BY <1>3 DEF OneToOne, Exists, Link
<1>5. NoAccount \notin Account
  BY DEF Account
<1>6. NewAccount \in Account
  BY DEF Account, NewAccount
<1>7. CASE UNCHANGED <<user, link>>
  BY <1>3, <1>4, <1>7, FewerLinks
<1>8. CASE CommitUser(a) /\ Exists(job[a].user)
  <2>1. job[a].step = "commit"
    BY <1>8 DEF CommitUser, At
  <2>2. job[a].user \in User
    BY <1>2, <2>1 DEF Shape, ClientsPage
  <2>3. user[job[a].user] \in Account
    BY <1>3, <1>8, <2>2 DEF Exists
  <2>4. PICK y \in Account : user' = [user EXCEPT ![job[a].user] = y]
    BY <1>8, <2>3, WrittenTyped DEF CommitUser
  <2>5. user' \in [User -> Account \cup {NoAccount}]
    BY <1>3, <2>4
  <2>6. \A x \in link : user'[x.user] # NoAccount
    BY <1>3, <1>4, <1>5, <2>4
  <2>7. link' = link
    BY <1>8 DEF CommitUser
  <2>8. QED
    BY <2>5, <2>6, <2>7, FewerLinks
<1>9. CASE Mirror(a)
  <2>1. job[a].step = "mirror" /\ job[a].op \in ClientsPage /\ job[a].client \in Client
    BY <1>2, <1>9 DEF Mirror, At, Shape, ClientsPage
  <2> DEFINE c == job[a].client
  <2>2. CASE AutoLink(c) /\ ~UNCHANGED <<user, link>>
    <3>1. c \in User
      BY <2>1
    <3>2. \A x \in link : x.client # c /\ x.user # c
      BY <2>2 DEF AutoLink, LinksTo, LinksOf
    <3>3. PICK y \in Account : user' = [user EXCEPT ![c] = y]
      BY <1>3, <1>6, <2>2, <3>1 DEF AutoLink, Exists
    <3>4. link' = link \cup {NewLink(c, c)}
      BY <2>2 DEF AutoLink
    <3>5. user' \in [User -> Account \cup {NoAccount}]
      BY <1>3, <3>3
    <3>6. \A x \in link' : user'[x.user] # NoAccount
      <4>1. NewLink(c, c).user = c
        BY DEF NewLink
      <4>2. QED
        BY <1>3, <1>4, <1>5, <3>1, <3>3, <3>4, <4>1
    <3> HIDE DEF c
    <3>7. c \in Client
      BY <2>1 DEF c
    <3>8. /\ link' \subseteq Link /\ OneToOne'
          /\ \A x \in link' : x.protected => x \in link
      BY <3>1, <3>2, <3>4, <3>6, <3>7, OneMoreLink
    <3>9. QED
      BY <3>5, <3>8
  <2>3. CASE /\ user' = [u \in User |->
                           IF \E x \in LinksTo(c) : x.user = u
                           THEN Written(user[u], MirrorWrites(job[a].op, user[u]))
                           ELSE user[u]]
             /\ UNCHANGED link
    <3>1. \A u \in User : (\E x \in LinksTo(c) : x.user = u) => user[u] \in Account
      BY <1>4 DEF LinksTo
    <3>2. \A u \in User : /\ user'[u] \in Account \cup {NoAccount}
                          /\ user[u] # NoAccount => user'[u] # NoAccount
      BY <1>3, <1>5, <2>3, <3>1, WrittenTyped
    <3>3. user' \in [User -> Account \cup {NoAccount}]
      BY <2>3, <3>2
    <3>4. \A x \in link' : user'[x.user] # NoAccount
      BY <1>4, <2>3, <3>2
    <3>5. QED
      BY <2>3, <3>3, <3>4, FewerLinks
  <2>4. QED
    BY <1>7, <1>9, <2>2, <2>3 DEF Mirror
<1>10. CASE Relink(a) /\ ~UNCHANGED <<user, link>>
  <2> DEFINE u == job[a].user
             c == job[a].client
             rest == link \ job[a].rows
  <2>1. u \in User /\ c \in Client
    BY <1>2, <1>10 DEF Relink, At, Shape, ClientsPage
  <2>2. /\ user' = user /\ user[u] # NoAccount
        /\ link' = rest \cup {NewLink(u, c)}
        /\ \A x \in rest : x.client # c /\ x.user # u
    BY <1>10 DEF Relink, Exists
  <2>0. rest \in SUBSET link
    OBVIOUS
  <2> HIDE DEF u, c, rest
  <2>3. \A x \in link' : user'[x.user] # NoAccount
    <3>1. NewLink(u, c).user = u
      BY DEF NewLink
    <3>2. QED
      BY <1>4, <2>0, <2>2, <3>1
  <2>4. /\ link' \subseteq Link /\ OneToOne'
        /\ \A x \in link' : x.protected => x \in link
    BY <2>0, <2>1, <2>2, <2>3, OneMoreLink
  <2>5. QED
    BY <1>3, <2>2, <2>4
<1>11. CASE Insert(a) /\ ~UNCHANGED <<user, link>>
  <2> DEFINE u == job[a].user
             c == job[a].client
  <2>1. u \in User /\ c \in Client
    BY <1>2, <1>11 DEF Insert, At, Shape, ClientsPage
  <2>2. /\ user' = [user EXCEPT ![u] = NewAccount] /\ user[u] = NoAccount
        /\ link' = link \cup {NewLink(u, c)}
        /\ \A x \in link : x.client # c
    BY <1>11 DEF Insert, Exists, LinksTo
  <2> HIDE DEF u, c
  <2>3. \A x \in link : x.user # u
    BY <1>4, <2>2
  <2>4. user' \in [User -> Account \cup {NoAccount}]
    BY <1>3, <1>6, <2>2
  <2>5. \A x \in link' : user'[x.user] # NoAccount
    <3>1. NewLink(u, c).user = u
      BY DEF NewLink
    <3>2. QED
      BY <1>3, <1>4, <1>5, <1>6, <2>1, <2>2, <3>1
  <2>6. QED
    BY <2>1, <2>2, <2>3, <2>4, <2>5, OneMoreLink
<1>12. CASE EraseUser(a)
  <2> DEFINE u == job[a].user
  <2>1. /\ user' = [user EXCEPT ![u] = NoAccount]
        /\ link' = {x \in link : x.user # u}
    BY <1>12 DEF EraseUser, LinksOf
  <2>2. user' \in [User -> Account \cup {NoAccount}]
    BY <1>3, <2>1
  <2>3. \A x \in link' : user'[x.user] # NoAccount
    BY <1>3, <1>4, <2>1
  <2>4. QED
    BY <2>1, <2>2, <2>3, FewerLinks
<1>13. QED
  BY <1>7, <1>8, <1>9, <1>10, <1>11, <1>12, SMTT(30)
  DEF HandlerStep, CommitUser, Sync, ListMacs, Revoke, Purge, Restore, Add,
      ScriptFails, Relink, Insert

\* What the four commands that handlers run may leave of a client's files.
LEMMA CommandForm ==
  ASSUME NEW p \in Pki, NEW op \in {"revoke", "purge", "restore", "add"},
         Accepts(op, p), NEW q \in Leaves(op, p)
  PROVE  /\ q \in Pki
         /\ (p.stray => p.past) => (q.stray => q.past)
         /\ p.issued /\ ~q.issued => op \in {"revoke", "purge", "restore"}
<1>1. q \in Results(op, p) \cup Halfway(op, p)
  BY DEF Leaves
<1>2. CASE op = "revoke"
  BY <1>1, <1>2 DEF Results, Halfway, Unregistered, Cut, Pki
<1>3. CASE op = "purge"
  BY <1>1, <1>3 DEF Accepts, Results, Halfway, Unregistered, Cleared, Pki
<1>4. CASE op = "restore"
  BY <1>1, <1>4 DEF Accepts, Results, Halfway, Registered, Issued, Cleared, Pki
<1>5. CASE op = "add"
  BY <1>1, <1>5 DEF Accepts, Results, Halfway, Registered, Issued, Pki
<1>6. QED
  BY <1>2, <1>3, <1>4, <1>5

\* A step of a handler leaves the files alone or runs one command on its client.
RunsCommand(a) ==
  LET c == job[a].client
      op == job[a].step
  IN  /\ c \in Client /\ op \in {"revoke", "purge", "restore", "add"}
      /\ Accepts(op, pki[c])
      /\ \E q \in Leaves(op, pki[c]) : pki' = [pki EXCEPT ![c] = q]

LEMMA HandlerCommand ==
  ASSUME TypeOK, Shapes, NEW a \in Manager, HandlerStep(a)
  PROVE  UNCHANGED pki \/ RunsCommand(a)
<1>1. job[a] # NoJob
  BY DEF HandlerStep, CommitUser, Sync, ListMacs, Revoke, Purge, Restore, Add,
         ScriptFails, Mirror, Relink, Insert, EraseUser, At
<1>2. job[a] \in Job /\ Shape(job[a])
  BY <1>1, Running
<1> DEFINE c == job[a].client
<1>3. ASSUME NEW op \in {"revoke", "purge", "restore", "add"}, At(a, op)
      PROVE  c \in Client /\ job[a].step = op
  BY <1>2, <1>3 DEF At, Shape, ClientsPage
<1>4. ASSUME NEW op \in {"revoke", "purge", "restore", "add"}, At(a, op),
             Accepts(op, pki[c]), NEW q \in Leaves(op, pki[c]), pki' = [pki EXCEPT ![c] = q]
      PROVE  RunsCommand(a)
  BY <1>3, <1>4 DEF RunsCommand
<1>5. CASE Revoke(a) /\ pki' # pki
  <2>1. /\ At(a, "revoke") /\ pki[c].issued
        /\ pki' = [pki EXCEPT ![c] = Unregistered(Cut(pki[c]))]
    BY <1>5 DEF Revoke
  <2>2. Unregistered(Cut(pki[c])) \in Leaves("revoke", pki[c]) /\ Accepts("revoke", pki[c])
    BY <2>1 DEF Leaves, Results, Accepts
  <2>3. QED
    BY <1>4, <2>1, <2>2
<1>6. CASE Purge(a) /\ pki' # pki
  <2>1. /\ At(a, "purge") /\ pki[c].past
        /\ pki' = [pki EXCEPT ![c] = Unregistered(Cleared(pki[c]))]
    BY <1>6 DEF Purge
  <2>2. Unregistered(Cleared(pki[c])) \in Leaves("purge", pki[c]) /\ Accepts("purge", pki[c])
    BY <2>1 DEF Leaves, Results, Accepts
  <2>3. QED
    BY <1>4, <2>1, <2>2
<1>7. CASE Restore(a) /\ pki' # pki
  <2>1. /\ At(a, "restore") /\ pki[c].past
        /\ \/ pki' = [pki EXCEPT ![c] = Cleared(pki[c])]
           \/ pki' = [pki EXCEPT ![c] = Registered(Issued(Cleared(pki[c])))]
    BY <1>7 DEF Restore
  <2>2. /\ Cleared(pki[c]) \in Leaves("restore", pki[c])
        /\ Registered(Issued(Cleared(pki[c]))) \in Leaves("restore", pki[c])
        /\ Accepts("restore", pki[c])
    BY <2>1 DEF Leaves, Results, Accepts
  <2>3. QED
    BY <1>4, <2>1, <2>2
<1>8. CASE Add(a) /\ pki' # pki
  <2>1. /\ At(a, "add") /\ ~pki[c].issued
        /\ pki' = [pki EXCEPT ![c] = Registered(Issued(pki[c]))]
    BY <1>8 DEF Add
  <2>2. Registered(Issued(pki[c])) \in Leaves("add", pki[c]) /\ Accepts("add", pki[c])
    BY <2>1 DEF Leaves, Results, Accepts
  <2>3. QED
    BY <1>4, <2>1, <2>2
<1>9. CASE ScriptFails(a) /\ pki' # pki
  <2>1. PICK op \in Faults :
          /\ At(a, op) /\ Accepts(op, pki[c])
          /\ \E q \in Leaves(op, pki[c]) : pki' = [pki EXCEPT ![c] = q]
    BY <1>9 DEF ScriptFails
  <2>2. op \in {"revoke", "purge", "restore", "add"}
    BY <1>2, <2>1, IdentityAssumption DEF At, Shape, ClientsPage, Command
  <2>3. QED
    BY <1>4, <2>1, <2>2
<1>10. QED
  BY <1>5, <1>6, <1>7, <1>8, <1>9
  DEF HandlerStep, CommitUser, Sync, ListMacs, Mirror, Relink, Insert, EraseUser

\* The scripts, on one client.
LEMMA ScriptsKept ==
  ASSUME TypeOK, Shapes, StrayPast, NEW a \in Manager, HandlerStep(a)
  PROVE  /\ pki' \in [Client -> Pki] /\ StrayPast'
         /\ \A c \in Client : pki[c].issued /\ ~pki'[c].issued =>
              c = job[a].client /\ job[a].step \in {"revoke", "purge", "restore"}
<1>1. pki \in [Client -> Pki]
  BY DEF TypeOK
<1>2. CASE UNCHANGED pki
  BY <1>1, <1>2 DEF StrayPast
<1>3. CASE RunsCommand(a)
  <2> DEFINE c == job[a].client
             op == job[a].step
  <2>1. PICK q \in Leaves(op, pki[c]) : pki' = [pki EXCEPT ![c] = q]
    BY <1>3 DEF RunsCommand
  <2>2. c \in Client /\ op \in {"revoke", "purge", "restore", "add"} /\ Accepts(op, pki[c])
    BY <1>3 DEF RunsCommand
  <2>3. pki[c] \in Pki
    BY <1>1, <2>2
  <2> HIDE DEF c, op
  <2>4. /\ q \in Pki
        /\ (pki[c].stray => pki[c].past) => (q.stray => q.past)
        /\ pki[c].issued /\ ~q.issued => op \in {"revoke", "purge", "restore"}
    BY <2>1, <2>2, <2>3, CommandForm
  <2>5. /\ pki' \in [Client -> Pki] /\ StrayPast'
        /\ \A d \in Client : pki[d].issued /\ ~pki'[d].issued =>
             d = c /\ op \in {"revoke", "purge", "restore"}
    BY <1>1, <2>1, <2>2, <2>4 DEF StrayPast
  <2>6. QED
    BY <2>5 DEF c, op
<1>4. QED
  BY <1>2, <1>3, HandlerCommand

-----------------------------------------------------------------------------
(* The two parts that follow a request through its steps. *)

\* The step of a permanent delete leaves its client as the next one needs it.
LEMMA EraseStep ==
  ASSUME TypeOK, Shapes, StrayPast, EraseProgress, NEW a \in Manager,
         HandlerStep(a), Goes(a),
         job'[a] # NoJob, job'[a].op = "erase", job'[a].calm, job'[a].client # None
  PROVE  /\ job'[a].step = "purge" => ~pki'[job'[a].client].issued
         /\ job'[a].step = "erase" =>
              ~(pki'[job'[a].client].mac /\
                (pki'[job'[a].client].issued \/ pki'[job'[a].client].stray))
<1> DEFINE k == job'[a]
           c == job[a].client
<1>1. job[a] \in Job /\ Shape(job[a]) /\ job[a] # NoJob
  BY DEF Goes, Job, NoJob
<1>2. Continues(k, job[a])
  BY DEF Goes, TypeOK
<1>3. job[a].op = "erase"
  BY <1>2 DEF Continues
<1>4. /\ job[a].calm /\ k.client = c
      /\ <<job[a].step, k.step>> \in {<<"revoke", "purge">>, <<"purge", "erase">>}
  BY <1>1, <1>2, <1>3 DEF Continues, Shape, ClientsPage
<1>5. c \in Client /\ pki \in [Client -> Pki] /\ c # None
  BY <1>1, <1>3, <1>4 DEF Shape, TypeOK, ClientsPage
<1>6. ~ScriptFails(a)
  <2>1. SUFFICES ASSUME ScriptFails(a) PROVE FALSE
    OBVIOUS
  <2>2. PICK s : job' = [job EXCEPT ![a].calm = FALSE, ![a].step = s]
    BY <1>3, <2>1 DEF ScriptFails
  <2>3. job'[a] = [[job[a] EXCEPT !.calm = FALSE] EXCEPT !.step = s]
    BY <1>1, <2>2 DEF TypeOK
  <2>4. job'[a].calm = FALSE
    BY <1>1, <2>3 DEF Job
  <2>5. QED
    BY <2>4
<1>7. Revoke(a) \/ Purge(a)
  BY <1>1, <1>4, <1>6
  DEF HandlerStep, CommitUser, Sync, ListMacs, Restore, Add, Mirror, Relink, Insert,
      EraseUser, At
<1>8. CASE Revoke(a)
  <2>1. job[a].step = "revoke"
    BY <1>8 DEF Revoke, At
  <2>2. ~pki'[c].issued
    <3>1. CASE pki[c].issued
      <4> DEFINE q == Unregistered(Cut(pki[c]))
      <4>1. pki' = [pki EXCEPT ![c] = q]
        BY <1>8, <3>1 DEF Revoke
      <4>2. ~q.issued
        BY <1>5 DEF Pki, Unregistered, Cut
      <4> HIDE DEF q
      <4>3. QED
        BY <1>5, <4>1, <4>2
    <3>2. CASE ~pki[c].issued
      BY <1>8, <3>2 DEF Revoke
    <3>3. QED
      BY <3>1, <3>2
  <2>3. QED
    BY <1>4, <2>1, <2>2
<1>9. CASE Purge(a)
  <2>1. job[a].step = "purge"
    BY <1>9 DEF Purge, At
  <2>2. ~(pki'[c].mac /\ (pki'[c].issued \/ pki'[c].stray))
    <3>1. CASE pki[c].past
      <4> DEFINE q == Unregistered(Cleared(pki[c]))
      <4>1. pki' = [pki EXCEPT ![c] = q]
        BY <1>9, <3>1 DEF Purge
      <4>2. ~q.mac
        BY <1>5 DEF Pki, Unregistered, Cleared
      <4> HIDE DEF q
      <4>3. QED
        BY <1>5, <4>1, <4>2
    <3>2. CASE ~pki[c].past
      <4>1. pki' = pki
        BY <1>9, <3>2 DEF Purge
      <4>2. ~pki[c].issued
        BY <1>1, <1>3, <1>4, <1>5, <2>1 DEF EraseProgress
      <4>3. QED
        BY <1>5, <3>2, <4>1, <4>2 DEF StrayPast
    <3>3. QED
      BY <3>1, <3>2
  <2>3. QED
    BY <1>4, <2>1, <2>2
<1>10. QED
  BY <1>7, <1>8, <1>9

LEMMA EraseKept ==
  ASSUME TypeOK, Shapes, OneToOne, CalmAlone, StrayPast, EraseProgress,
         NEW a \in Manager, Moves(a)
  PROVE  EraseProgress'
<1> SUFFICES ASSUME NEW b \in Manager, job'[b] # NoJob, job'[b].op = "erase",
                    job'[b].calm, job'[b].client # None
             PROVE  /\ job'[b].step = "purge" => ~pki'[job'[b].client].issued
                    /\ job'[b].step = "erase" =>
                         ~(pki'[job'[b].client].mac /\
                           (pki'[job'[b].client].issued \/ pki'[job'[b].client].stray))
  BY DEF EraseProgress, Connectable
<1>1. CASE HandlerStep(a) /\ Goes(a)
  <2>1. job[a] # NoJob
    BY <1>1 DEF Goes, Job, NoJob
  <2>2. CASE b # a
    <3>1. job'[b] = job[b]
      BY <1>1, <2>2 DEF Goes, TypeOK
    <3>2. QED
      BY <2>1, <2>2, <3>1 DEF CalmAlone
  <2>3. CASE b = a
    BY <1>1, <2>3, EraseStep
  <2>4. QED
    BY <2>2, <2>3
<1>2. CASE Opens(a)
  <2>1. PICK j \in Job :
          /\ job' = [d \in Manager |-> IF d = a THEN j ELSE Disturbed(d)]
          /\ j.op = "erase" => j.step = "revoke" \/ j.client = None
    BY <1>2 DEF Opens
  <2>2. \A d \in Manager : Disturbed(d) = NoJob \/ Disturbed(d).calm = FALSE
    BY DisturbedJob
  <2>3. QED
    BY <2>1, <2>2
<1>3. CASE job' = [d \in Manager |-> Disturbed(d)]
  <2>1. \A d \in Manager : Disturbed(d) = NoJob \/ Disturbed(d).calm = FALSE
    BY DisturbedJob
  <2>2. QED
    BY <1>3, <2>1
<1>4. QED
  BY <1>1, <1>2, <1>3 DEF Moves

LEMMA SparedKept ==
  ASSUME TypeOK, Shapes, OneToOne, Spared, NEW a \in Manager, Moves(a),
         \A x \in link' : x.protected => x \in link
  PROVE  Spared'
<1> DEFINE Scripts == {"macs", "revoke", "restore", "purge"}
           Portal == {"patch", "delete", "erase"}
<1> SUFFICES ASSUME NEW b \in Manager, job'[b] # NoJob, job'[b].op \in Portal,
                    job'[b].step \in Scripts,
                    NEW x \in link', x.client = job'[b].client, x.protected
             PROVE  FALSE
  BY DEF Spared, LinksTo
<1>1. x \in link
  OBVIOUS
<1>2. SUFFICES \A y \in link : y.client = job'[b].client => ~y.protected
  BY <1>1
<1>3. ASSUME job[b] # NoJob, job[b].op \in Portal, job[b].step \in Scripts,
             job'[b].client = job[b].client
      PROVE  \A y \in link : y.client = job'[b].client => ~y.protected
  BY <1>3 DEF Spared, LinksTo
<1>4. ASSUME job'[b] = Disturbed(b)
      PROVE  \A y \in link : y.client = job'[b].client => ~y.protected
  BY <1>3, <1>4, DisturbedJob
<1>5. CASE Goes(a) /\ b = a
  <2>1. job[a] \in Job /\ Shape(job[a]) /\ Continues(job'[a], job[a])
    BY <1>5 DEF Goes, TypeOK
  <2>2. CASE job[a].step = "sync"
    <3>1. PICK z \in link : ~z.protected /\ z.client = job'[a].client
      BY <2>1, <2>2 DEF Continues
    <3>2. QED
      BY <1>5, <3>1 DEF OneToOne
  <2>3. CASE job[a].step # "sync"
    <3>1. job[a].op \in Portal /\ job'[a].client = job[a].client
      BY <1>5, <2>1, <2>3 DEF Continues
    <3>2. job[a].step # "commit"
      BY <1>5, <2>1 DEF Continues
    <3>3. job[a].step # "erase" \/ job[a].op # "erase"
      BY <2>1 DEF Continues
    <3>4. job[a].step \in Scripts
      BY <2>1, <2>3, <3>1, <3>2, <3>3 DEF Shape, ClientsPage
    <3>5. job[a] # NoJob
      BY <2>1 DEF Job, NoJob
    <3>6. QED
      BY <1>3, <1>5, <3>1, <3>4, <3>5
  <2>4. QED
    BY <2>2, <2>3
<1>6. CASE Goes(a) /\ b # a
  <2>1. job'[b] = job[b]
    BY <1>6 DEF Goes, TypeOK
  <2>2. QED
    BY <1>3, <2>1
<1>7. CASE Opens(a)
  <2>1. PICK j \in Job :
          /\ job' = [d \in Manager |-> IF d = a THEN j ELSE Disturbed(d)]
          /\ j.op \in {"patch", "delete"} => j.step = "commit"
          /\ j.op = "erase" =>
               j.step = "erase" \/ \A y \in LinksTo(j.client) : ~y.protected
    BY <1>7 DEF Opens
  <2>2. CASE b = a
    BY <2>1, <2>2 DEF LinksTo
  <2>3. CASE b # a
    BY <1>4, <2>1, <2>3
  <2>4. QED
    BY <2>2, <2>3
<1>8. CASE job' = [d \in Manager |-> Disturbed(d)]
  BY <1>4, <1>8
<1>9. QED
  BY <1>5, <1>6, <1>7, <1>8 DEF Moves

-----------------------------------------------------------------------------
(* The inductive invariant, and what follows from it. *)

LEMMA InitInvariant == Init => IInv
<1> SUFFICES ASSUME Init PROVE IInv
  OBVIOUS
<1>1. job = [a \in Manager |-> NoJob]
  BY DEF Init
<1>2. TypeOK
  <2>1. user \in [User -> Account \cup {NoAccount}]
    BY DEF Init, NewAccount, Account
  <2>2. link \subseteq Link
    <3>1. SUFFICES ASSUME NEW x \in link PROVE x \in Link
      OBVIOUS
    <3>2. PICK c \in Migrated : x = [user |-> c, client |-> c, protected |-> TRUE]
      BY DEF Init
    <3>3. c \in User /\ c \in Client
      OBVIOUS
    <3>4. QED
      BY <3>2, <3>3 DEF Link
  <2>3. pki \in [Client -> Pki]
    BY DEF Init, Pki, Blank, Issued, Registered
  <2>4. QED
    BY <1>1, <2>1, <2>2, <2>3 DEF TypeOK
<1>3. OneToOne
  <2>1. \A x \in link : x.user \in Migrated /\ x.client = x.user /\ x.protected = TRUE
                       /\ x \in Link
    BY <1>2 DEF Init, TypeOK
  <2>2. \A x, y \in link : x.user = y.user \/ x.client = y.client => x = y
    BY <2>1 DEF Link
  <2>3. \A x \in link : user[x.user] = NewAccount
    BY <2>1 DEF Init
  <2>4. NewAccount # NoAccount
    <3>1. NewAccount \in [active : BOOLEAN, deleted : BOOLEAN]
      BY DEF NewAccount
    <3>2. QED
      BY <3>1
  <2>5. QED
    BY <2>2, <2>3, <2>4 DEF OneToOne, Exists
<1>4. StrayPast
  BY DEF Init, StrayPast, Blank, Issued, Registered
<1>5. Shapes /\ CalmAlone /\ EraseProgress /\ Spared
  BY <1>1 DEF Shapes, CalmAlone, EraseProgress, Spared
<1>6. QED
  BY <1>2, <1>3, <1>4, <1>5 DEF IInv

LEMMA StepInvariant == IInv /\ [Next]_vars => IInv'
<1>1. ASSUME IInv, Next PROVE IInv'
  <2>1. TypeOK /\ Shapes /\ OneToOne /\ CalmAlone /\ StrayPast /\ EraseProgress /\ Spared
    BY <1>1 DEF IInv
  <2>2. PICK a \in Manager : Moves(a)
    BY <1>1, <2>1, StepMoves
  <2>3. job' \in [Manager -> Job \cup {NoJob}] /\ Shapes' /\ CalmAlone'
    BY <2>1, <2>2, JobsKept, CalmKept
  <2>4. /\ user' \in [User -> Account \cup {NoAccount}]
        /\ link' \subseteq Link /\ OneToOne'
        /\ \A x \in link' : x.protected => x \in link
    <3>1. CASE HandlerStep(a)
      BY <2>1, <3>1, LinksKept
    <3>2. CASE user' = user /\ link' \subseteq link
      <4>1. \A x \in link' : user'[x.user] # NoAccount
        BY <2>1, <3>2 DEF OneToOne, Exists
      <4>2. QED
        BY <2>1, <3>2, <4>1, FewerLinks DEF TypeOK
    <3>3. QED
      BY <2>2, <3>1, <3>2 DEF Moves, Opens
  <2>5. pki' \in [Client -> Pki] /\ StrayPast'
    <3>1. CASE HandlerStep(a)
      BY <2>1, <3>1, ScriptsKept
    <3>2. CASE pki' = pki
      BY <2>1, <3>2 DEF TypeOK, StrayPast
    <3>3. QED
      BY <2>2, <3>1, <3>2 DEF Moves, Opens
  <2>6. TypeOK'
    BY <2>3, <2>4, <2>5 DEF TypeOK
  <2>7. EraseProgress'
    BY <2>1, <2>2, EraseKept
  <2>8. Spared'
    BY <2>1, <2>2, <2>4, SparedKept
  <2>9. QED
    BY <2>3, <2>4, <2>5, <2>6, <2>7, <2>8 DEF IInv
<1>2. ASSUME IInv, UNCHANGED vars PROVE IInv'
  BY <1>2
  DEF IInv, vars, TypeOK, Shapes, OneToOne, CalmAlone, StrayPast, EraseProgress, Spared,
      Connectable, Exists, LinksTo
<1>3. QED
  BY <1>1, <1>2

\* Accounts, links, certificates and requests keep their types in every
\* interleaving of the handlers (routes/users.py, routes/clients.py).
THEOREM TypeCorrect == Spec => []TypeOK
<1>1. IInv => TypeOK
  BY DEF IInv
<1>2. QED
  BY InitInvariant, StepInvariant, <1>1, PTL DEF Spec

\* However many managers link, create and erase at once, a user has one VPN
\* profile, a profile one user, and no link outlives its user.
THEOREM LinksOneToOne == Spec => []OneToOne
<1>1. IInv => OneToOne
  BY DEF IInv
<1>2. QED
  BY InitInvariant, StepInvariant, <1>1, PTL DEF Spec

\* A handler of routes/users.py never takes the certificate of a client that a
\* protected link names (sync_after_portal_suspend and its siblings).
THEOREM ProtectedSafe == Spec => ProtectedUntouched
<1>1. IInv /\ [Next]_vars =>
        [\A c \in Client :
           (\E x \in LinksTo(c) : x.protected) => CutByClientsPage(c)]_vars
  <2> SUFFICES ASSUME IInv, Next, NEW c \in Client,
                      NEW y \in LinksTo(c), y.protected,
                      pki[c].issued, ~pki'[c].issued
               PROVE  \E a \in Manager : /\ job'[a] # job[a]
                                         /\ job[a].op \in ClientsPage
                                         /\ job[a].client = c
    BY DEF CutByClientsPage
  <2>1. TypeOK /\ Shapes /\ OneToOne /\ StrayPast /\ Spared
    BY DEF IInv
  <2>2. PICK a \in Manager : Moves(a)
    BY <2>1, StepMoves
  <2>3. HandlerStep(a) /\ Goes(a)
    BY <2>2 DEF Moves, Opens
  <2>4. c = job[a].client /\ job[a].step \in {"revoke", "purge", "restore"}
    BY <2>1, <2>3, ScriptsKept
  <2>5. job[a] \in Job /\ Shape(job[a]) /\ job[a] # NoJob
    BY <2>3 DEF Goes, Job, NoJob
  <2>6. job[a].op \in ClientsPage
    <3>1. job[a].op \notin {"patch", "delete", "erase"}
      BY <2>1, <2>4, <2>5 DEF Spared
    <3>2. QED
      BY <2>4, <2>5, <3>1 DEF Shape
  <2>7. job'[a] # job[a]
    BY <2>1, <2>3, <2>5 DEF Goes, Continues, TypeOK
  <2>8. QED
    BY <2>4, <2>6, <2>7
<1>2. QED
  BY InitInvariant, StepInvariant, <1>1, PTL DEF Spec, ProtectedUntouched

\* When an undisturbed permanent delete removes the account, the client it
\* revoked cannot connect (sync_before_portal_permanent_delete).
THEOREM NoOrphan == Spec => NoOrphanAccess
<1>1. IInv =>
        \A a \in Manager :
          At(a, "erase") /\ job[a].calm /\ job[a].client # None =>
            ~Connectable(job[a].client)
  <2> SUFFICES ASSUME IInv, NEW a \in Manager, At(a, "erase"), job[a].calm,
                      job[a].client # None
               PROVE  ~Connectable(job[a].client)
    OBVIOUS
  <2>1. TypeOK /\ Shapes /\ EraseProgress
    BY DEF IInv
  <2>2. job[a] # NoJob /\ job[a].step = "erase"
    BY DEF At
  <2>3. job[a].op = "erase"
    BY <2>1, <2>2, Running DEF Shape, ClientsPage
  <2>4. QED
    BY <2>1, <2>2, <2>3 DEF EraseProgress
<1>2. IInv /\ [Next]_vars =>
        [\A a \in Manager :
           At(a, "erase") /\ job[a].calm /\ job[a].client # None
             /\ job'[a] # job[a] => ~Connectable(job[a].client)]_vars
  BY <1>1
<1>3. QED
  BY InitInvariant, StepInvariant, <1>2, PTL DEF Spec, NoOrphanAccess

\* The handlers change a client's files by the commands of the script alone, one at a
\* time and on one client, and only where the script lets them: what the scripts
\* promise (ClientScripts) is all they rely on (cli_wrapper.py).
THEOREM HandlersRunCommands == Spec => CommandSpec
<1>1. Init => CommandInit
  BY DEF Init, CommandInit
<1>2. IInv /\ [Next]_vars => [CommandNext]_pki
  <2> SUFFICES ASSUME IInv, Next, pki' # pki PROVE CommandNext
    BY DEF vars
  <2>1. TypeOK /\ Shapes /\ OneToOne
    BY DEF IInv
  <2>2. PICK a \in Manager : Moves(a)
    BY <2>1, StepMoves
  <2>3. HandlerStep(a)
    BY <2>2 DEF Moves, Opens
  <2>4. RunsCommand(a)
    BY <2>1, <2>3, HandlerCommand
  <2> DEFINE c == job[a].client
             op == job[a].step
  <2>5. /\ c \in Client /\ op \in Command /\ Accepts(op, pki[c])
        /\ \E q \in Leaves(op, pki[c]) : pki' = [pki EXCEPT ![c] = q]
    BY <2>4 DEF RunsCommand, Command
  <2> HIDE DEF c, op
  <2>6. QED
    BY <2>5 DEF CommandNext
<1>3. QED
  BY <1>1, <1>2, InitInvariant, StepInvariant, PTL DEF Spec, CommandSpec
=============================================================================
