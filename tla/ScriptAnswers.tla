--------------------------- MODULE ScriptAnswers ---------------------------
(***************************************************************************)
(* What the portal knows of the scripts' files: answers that are kept for  *)
(* a short time, and the snapshot that a loop makes of them for the pages. *)
(*                                                                         *)
(* Source: app/vpnadmin/cli_wrapper.py, app/main.py                        *)
(* (_dashboard_refresh_loop), routes/status.py, routes/clients.py.         *)
(*                                                                         *)
(* A script answers with the files as they are when it has the lock; its   *)
(* caller asked earlier and stores the answer later.  The contents of the  *)
(* files are the number of changes they have seen.                         *)
(***************************************************************************)
EXTENDS Naturals, Sequences

CONSTANTS
  Name,        \* VPN clients
  Shown,       \* the answers that make a snapshot, one after the other
  Caller,      \* threads that serve requests
  Loop,        \* the thread of the refresh loop
  Ttl,         \* _CACHE_TTL_SECONDS
  MaxChanges,  \* bound: changes of the files
  MaxRefusals  \* bound: scripts that fail

ASSUME AnswersAssumption ==
  /\ Loop \notin Caller
  /\ Shown # <<>> /\ Shown \in Seq({Shown[i] : i \in DOMAIN Shown})
  /\ Ttl \in Nat \ {0} /\ MaxChanges \in Nat /\ MaxRefusals \in Nat

VARIABLES
  content,   \* per key: the number of the files' contents
  over,      \* history: per key and contents, how long ago they were replaced
  kept,      \* _cache
  call,      \* per thread: the call in progress
  snapshot,  \* _dashboard_snapshot
  seen,      \* history: the contents after the portal's last finished change
  crossed,   \* history: keys whose old answer was on its way at that change
  changes, refusals

answerVars == <<content, over, kept, call, snapshot, seen, crossed, changes, refusals>>

\* "lists" stands for the answers about all clients, a client for its addresses;
\* those of vpn-status.py are never dropped.
Key == {Shown[i] : i \in DOMAIN Shown} \cup {"lists"} \cup Name
Thread == Caller \cup {Loop}

Nothing == [age |-> Ttl, is |-> 0]
NoSnapshot == [k \in {} |-> 0]
Idle == [pc |-> "idle", keys |-> <<>>, name |-> "none", age |-> 0, is |-> 0,
         got |-> NoSnapshot, stores |-> FALSE]

Older(age) == IF age < Ttl THEN age + 1 ELSE Ttl
Usable(k) == kept[k].age < Ttl
Doing(t, pc) == call[t].pc = pc

\* The files behind the keys K change.
Changed(K) ==
  /\ changes < MaxChanges
  /\ changes' = changes + 1
  /\ content' = [k \in Key |-> IF k \in K THEN content[k] + 1 ELSE content[k]]
Touches(n) == {"lists", n}

-----------------------------------------------------------------------------
(* Answers *)

Call(t, keys, stores) ==
  /\ Doing(t, "idle")
  /\ call' = [call EXCEPT ![t] = [Idle EXCEPT !.pc = "look", !.keys = keys, !.stores = stores]]
  /\ UNCHANGED <<content, over, kept, snapshot, seen, crossed, changes, refusals>>

\* Pages ask for one answer, where they do not take it from the snapshot.
AskFor(t, k) == (snapshot = NoSnapshot \/ k \in Name) /\ Call(t, <<k>>, FALSE)

\* The loop, and the first request of a dashboard that has no snapshot yet.
Refresh(t) == (t = Loop \/ snapshot = NoSnapshot) /\ Call(t, Shown, TRUE)

Answered(j, v) ==
  [j EXCEPT !.pc = IF Len(j.keys) > 1 THEN "look" ELSE IF j.stores THEN "store" ELSE "idle",
            !.keys = Tail(@), !.age = 0, !.is = 0,
            !.got = [k \in DOMAIN @ \cup {Head(j.keys)} |->
                       IF k = Head(j.keys) THEN v ELSE @[k]]]
Settled(j) == IF j.pc = "idle" THEN Idle ELSE j

Look(t) ==
  LET k == Head(call[t].keys) IN
  /\ Doing(t, "look")
  /\ call' = [call EXCEPT ![t] =
       IF Usable(k) THEN Settled(Answered(@, kept[k].is)) ELSE [@ EXCEPT !.pc = "run", !.age = 0]]
  /\ UNCHANGED <<content, over, kept, snapshot, seen, crossed, changes, refusals>>

Run(t) ==
  /\ Doing(t, "run")
  /\ call' = [call EXCEPT ![t].pc = "put", ![t].is = content[Head(call[t].keys)]]
  /\ UNCHANGED <<content, over, kept, snapshot, seen, crossed, changes, refusals>>

\* The script fails or takes too long: no answer is kept and no snapshot made.
Refused(t) ==
  /\ Doing(t, "run")
  /\ refusals < MaxRefusals
  /\ refusals' = refusals + 1
  /\ call' = [call EXCEPT ![t] = Idle]
  /\ UNCHANGED <<content, over, kept, snapshot, seen, crossed, changes>>

StampLate(j) == [age |-> 0, is |-> j.is]  \* wrong on purpose: the time after the script
\* The time that is kept was taken before the script was started.
Stamp(j) == [age |-> j.age, is |-> j.is]

Put(t) ==
  LET j == call[t] IN
  /\ Doing(t, "put")
  /\ kept' = [kept EXCEPT ![Head(j.keys)] = Stamp(j)]
  /\ call' = [call EXCEPT ![t] = Settled(Answered(j, j.is))]
  /\ UNCHANGED <<content, over, snapshot, seen, crossed, changes, refusals>>

PublishOnce(t) ==  \* wrong on purpose: a snapshot is never replaced
  /\ Doing(t, "store")
  /\ snapshot' = IF snapshot = NoSnapshot THEN call[t].got ELSE snapshot
  /\ call' = [call EXCEPT ![t] = Idle]
  /\ UNCHANGED <<content, over, kept, seen, crossed, changes, refusals>>
Publish(t) ==
  /\ Doing(t, "store")
  /\ snapshot' = call[t].got
  /\ call' = [call EXCEPT ![t] = Idle]
  /\ UNCHANGED <<content, over, kept, seen, crossed, changes, refusals>>

-----------------------------------------------------------------------------
(* Changes *)

\* A request that changes client n or its addresses.
Alter(t, n) ==
  /\ t \in Caller /\ Doing(t, "idle")
  /\ call' = [call EXCEPT ![t] = [Idle EXCEPT !.pc = "alter", !.name = n]]
  /\ UNCHANGED <<content, over, kept, snapshot, seen, crossed, changes, refusals>>

Altered(t) ==
  /\ Doing(t, "alter")
  /\ Changed(Touches(call[t].name))
  /\ call' = [call EXCEPT ![t].pc = "drop", ![t].is = content'["lists"]]
  /\ UNCHANGED <<over, kept, snapshot, seen, crossed, refusals>>

\* A script that failed, or ran out of time half-way: the answers are kept.
AlterFails(t) ==
  /\ Doing(t, "alter")
  /\ call' = [call EXCEPT ![t] = Idle]
  /\ Changed(Touches(call[t].name)) \/ UNCHANGED <<content, changes>>
  /\ UNCHANGED <<over, kept, snapshot, seen, crossed, refusals>>

\* _invalidate_client_caches.  An answer read before the change that is still on
\* its way will be kept after all.
OnItsWay(k) ==
  \E t \in Thread : Doing(t, "put") /\ Head(call[t].keys) = k /\ call[t].is < content[k]
Drop(t) ==
  LET K == Touches(call[t].name) IN
  /\ Doing(t, "drop")
  /\ kept' = [k \in Key |-> IF k \in K THEN Nothing ELSE kept[k]]
  /\ seen' = [k \in Key |-> IF k \in K THEN content[k] ELSE seen[k]]
  /\ crossed' = (crossed \ K) \cup {k \in K : OnItsWay(k)}
  /\ call' = [call EXCEPT ![t] = Idle]
  /\ UNCHANGED <<content, over, snapshot, changes, refusals>>

\* A shell changes client n; a client connects or leaves.
Elsewhere(K) ==
  /\ Changed(K)
  /\ UNCHANGED <<over, kept, call, snapshot, seen, crossed, refusals>>

Second ==
  /\ kept' = [k \in Key |-> [kept[k] EXCEPT !.age = Older(@)]]
  /\ over' = [k \in Key |-> [v \in 0..MaxChanges |->
                IF v < content[k] THEN Older(over[k][v]) ELSE 0]]
  /\ call' = [t \in Thread |->
                IF call[t].pc \in {"run", "put"} THEN [call[t] EXCEPT !.age = Older(@)] ELSE call[t]]
  /\ UNCHANGED <<content, snapshot, seen, crossed, changes, refusals>>

AnswersInit(w) ==
  /\ content = [k \in Key |-> 0]
  /\ over = [k \in Key |-> [v \in 0..MaxChanges |-> 0]]
  /\ kept = [k \in Key |-> Nothing]
  /\ call = [t \in Thread |-> Idle]
  /\ snapshot = NoSnapshot
  /\ seen = content
  /\ crossed = {}
  /\ changes = MaxChanges - w.changes
  /\ refusals = MaxRefusals - w.refusals

\* A restart: what was kept is gone with the process.
Forgotten ==
  /\ kept' = [k \in Key |-> Nothing]
  /\ call' = [t \in Thread |-> Idle]
  /\ snapshot' = NoSnapshot
  /\ crossed' = {}
  /\ UNCHANGED <<content, over, seen, changes, refusals>>

CallStep(t) ==
  \/ Look(t) \/ Run(t) \/ Refused(t) \/ Put(t) \/ Publish(t)
  \/ Altered(t) \/ AlterFails(t) \/ Drop(t)

-----------------------------------------------------------------------------
\* "otherwise a change could appear not to have taken effect": an answer that is
\* given again was still true within the time to live, and it shows what the
\* portal itself has changed, unless it was read before that change and stored
\* after it.
AnswersFresh ==
  \A k \in Key : Usable(k) =>
    LET v == kept[k].is IN
    /\ v = content[k] \/ over[k][v] < Ttl
    /\ k \in crossed \/ v >= seen[k]

\* As long as the loop goes on, the pages show the last contents in the end,
\* whichever of the loop and the requests stores its snapshot last.
SnapshotCatchesUp ==
  []<>Doing(Loop, "look") =>
    <>[](\A i \in DOMAIN Shown : snapshot # NoSnapshot /\ snapshot[Shown[i]] = content[Shown[i]])
=============================================================================
