--------------------------- MODULE SupportTickets ---------------------------
(***************************************************************************)
(* Support tickets: the owner's side (routes/me_tickets.py, the review     *)
(* requests of routes/me_connection_issues.py), the Support Center         *)
(* (routes/tickets.py), the upgrade tickets that a poll of the release     *)
(* status files (release_check.py), the status rules (support_tickets.py). *)
(*                                                                         *)
(* Handlers run in threads: one reads the tickets it is about and checks   *)
(* them, then commits the columns it has changed; a user's action is       *)
(* counted against the rate limit by an audit row written after that.      *)
(***************************************************************************)
EXTENDS Naturals, Sequences, FiniteSets

CONSTANTS Users,       \* owners of tickets
          Agents,      \* accounts a ticket can be assigned to
          Threads,     \* requests in progress
          Rejections,  \* rows of connection_rejection_log
          OwnerOf,     \* the user whose VPN client was rejected
          Tags,        \* releases that are newer than the installed one
          Bodies,      \* bodies of PATCH /api/tickets/{id}
          Legacy,      \* tables of tickets that an older version may have left
          Batches,     \* sets of tickets that one request names
          Null,        \* an empty column, an omitted field, a free row, an idle thread
          MaxTickets,  \* bound: rows of support_tickets
          Limit,       \* support_ticket_rate_limit_count
          Window,      \* support_ticket_rate_limit_window_minutes
          MaxNow,      \* bound: the clock
          MaxRequests  \* bound: requests that pass their checks, and restarts

Regular == {"open", "in_progress", "waiting_for_user", "resolved", "closed"}
Statuses == Regular \cup {"assigned", "completed", "failed", "cancelled"}
Terminal == {"resolved", "closed", "completed", "failed", "cancelled"}
Retired == {"new", "waiting_for_admin", "reopened"}

Tickets == 1..MaxTickets
Time == 0..MaxNow

\* sys: the category starts with sysmaint_; agent: assigned_admin_id; resolved and
\* closed: resolved_at and closed_at; dup: duplicate_of_ticket_id; about: the
\* rejection or the release that the ticket was filed for.
RowOf(statuses, stamps) ==
  [owner : Users, sys : BOOLEAN, status : statuses, critical : BOOLEAN,
   agent : Agents \cup {Null}, resolved : stamps, closed : stamps,
   deleted : BOOLEAN, locked : BOOLEAN, dup : Tickets \cup {Null},
   about : Rejections \cup Tags \cup {Null}]
Row == RowOf(Statuses \cup Retired, {"none", "set"})

\* A row as a handler is about to leave it: "now" is different from any time stamp
\* that was read.
Draft == RowOf(Statuses \cup Retired, {"none", "set", "now"})

Body == [status : Statuses \cup {Null}, critical : BOOLEAN \cup {Null},
         agent : Agents \cup {Null}, clear : BOOLEAN]

\* The columns agree: of one row, and the references of a table.
Stamped(r) ==
  /\ r.status = "resolved" => r.resolved = "set"
  /\ r.status = "closed" => r.closed = "set"
Unmarked(r) ==
  r.status \notin {"resolved", "closed"} => r.resolved = "none" /\ r.closed = "none"
LoopFree(table) ==
  \A K \in SUBSET Tickets \ {{}} :
    (\A k \in K : table[k] # Null) => \E k \in K : table[k].dup \notin K

ASSUME TicketAssumption ==
  /\ MaxTickets \in Nat \ {0} /\ Limit \in Nat /\ Window \in Nat
  /\ MaxNow \in Nat /\ MaxRequests \in Nat
  /\ IsFiniteSet(Threads) /\ Threads # {}
  /\ Null \notin Tickets /\ Null \notin Users /\ Null \notin Row
  /\ OwnerOf \in [Rejections -> Users]
  /\ Bodies \subseteq Body /\ Batches \subseteq SUBSET Tickets
  /\ Legacy \subseteq [Tickets -> Row \cup {Null}]

\* What an older version has left is in order.
ASSUME LegacyAssumption ==
  \A table \in Legacy :
    /\ \A k \in Tickets : table[k] # Null => Stamped(table[k]) /\ Unmarked(table[k])
    /\ LoopFree(table)

VARIABLES
  up,        \* the portal runs
  ticket,    \* table support_tickets
  review,    \* ConnectionRejectionLog.review_ticket_id
  notified,  \* AppSettings.last_release_notified_tag
  log,       \* the audit rows of counted actions, oldest first
  now,
  job,       \* what each thread is about to commit or to log
  raced,     \* history: tickets changed by a handler that had read an older row
  requests   \* spent bound

ticketVars == <<up, ticket, review, notified, log, now, job, raced, requests>>

\* view: the tickets as they were read; change: as they shall be; new: the row to
\* insert, if any; user: whose action is counted.
Handler(K) ==
  [step : {"commit", "log"}, view : [K -> Row], change : [K -> Draft],
   new : Row \cup {Null}, user : Users \cup {Null}]

TablesOK ==
  /\ up \in BOOLEAN
  /\ ticket \in [Tickets -> Row \cup {Null}]
  /\ up => \A k \in Tickets : ticket[k] # Null => ticket[k].status \in Statuses
  /\ review \in [Rejections -> Tickets \cup {Null}]
  /\ notified \in Tags \cup {Null}
  /\ log \in Seq([user : Users, at : Time])
  /\ now \in Time
  /\ raced \subseteq Tickets /\ requests \in 0..MaxRequests

TypeOK ==
  /\ TablesOK
  /\ DOMAIN job = Threads
  /\ \A t \in Threads : job[t] = Null \/ \E K \in SUBSET Tickets : job[t] \in Handler(K)

TicketInit ==
  /\ up = FALSE
  /\ ticket \in Legacy
  /\ review = [r \in Rejections |-> Null]
  /\ notified = Null
  /\ log = <<>>
  /\ now = 0
  /\ job = [t \in Threads |-> Null]
  /\ raced = {} /\ requests = 0

-----------------------------------------------------------------------------
(* The rules of the statuses *)

\* TRANSITIONS
Transitions(s) ==
  IF s = "resolved" THEN {"open", "closed"}
  ELSE IF s \in Terminal THEN {"open"} ELSE Statuses \ {s}

\* allowed_next_statuses
NextStatuses(r) ==
  IF r.sys THEN Transitions(r.status) ELSE Transitions(r.status) \cap Regular

\* migrate_legacy_ticket_statuses
Migrated(r) ==
  IF r.status \in {"new", "reopened"} THEN [r EXCEPT !.status = "open"]
  ELSE IF r.status = "waiting_for_admin" \/ (r.status = "assigned" /\ ~r.sys)
  THEN [r EXCEPT !.status = "in_progress"] ELSE r

\* A row with some columns changed.
UnstampedHalf(r) == [r EXCEPT !.closed = "none"]  \* wrong on purpose
Unstamped(r) == [r EXCEPT !.resolved = "none", !.closed = "none"]
Reopened(r) == [Unstamped(r) EXCEPT !.status = "open"]
Moved(r, s) ==
  LET moved == [r EXCEPT !.status = s] IN
  CASE s = "resolved" -> [moved EXCEPT !.resolved = "now"]
    [] s = "closed" -> [moved EXCEPT !.closed = "now"]
    [] s \notin {"resolved", "closed"} /\ r.status \in {"resolved", "closed"} -> Unstamped(moved)
    [] OTHER -> moved

-----------------------------------------------------------------------------
(* Requests *)

Seen(k) == ticket[k] # Null /\ ~ticket[k].deleted
IsDuplicate(k) == ticket[k].dup # Null

Ask(t, j) ==
  /\ up /\ job[t] = Null /\ requests < MaxRequests
  /\ requests' = requests + 1
  /\ job' = [job EXCEPT ![t] = j]
  /\ UNCHANGED <<up, ticket, review, notified, log, now, raced>>

One(k, r) == [x \in {k} |-> r]
Nothing == [x \in {} |-> Null]
Change(f, user) ==
  [step |-> "commit", view |-> [k \in DOMAIN f |-> ticket[k]], change |-> f,
   new |-> Null, user |-> user]
Insert(r, user) ==
  [step |-> "commit", view |-> Nothing, change |-> Nothing, new |-> r, user |-> user]

\* Requests that nobody counts; without a difference there is nothing to commit.
Edit(t, f) == (\E k \in DOMAIN f : f[k] # ticket[k]) /\ Ask(t, Change(f, Null))

NewRow(u, sys, agent, about) ==
  [owner |-> u, sys |-> sys, status |-> "open", critical |-> FALSE, agent |-> agent,
   resolved |-> "none", closed |-> "none", deleted |-> FALSE, locked |-> FALSE,
   dup |-> Null, about |-> about]

\* _rate_limited
RecentRows(u) == {i \in DOMAIN log : log[i].user = u /\ log[i].at + Window >= now}
Recent(u) == Cardinality(RecentRows(u))
RateLimited(u) == Recent(u) >= Limit

\* POST /api/me/tickets
Create(t, u) ==
  /\ ~RateLimited(u)
  /\ Ask(t, Insert(NewRow(u, FALSE, Null, Null), u))

\* POST /api/me/connection-issues/request-review
ReviewDoor(r) == review[r] = Null  \* wrong on purpose: the rate limit is not asked for
MayReview(r) == review[r] = Null /\ ~RateLimited(OwnerOf[r])
Review(t, r) ==
  /\ MayReview(r)
  /\ Ask(t, Insert(NewRow(OwnerOf[r], FALSE, Null, r), OwnerOf[r]))

\* POST /api/me/tickets/{id}/replies
ReplyMine(t, k) ==
  /\ Seen(k) /\ ticket[k].status \notin Terminal /\ ~ticket[k].locked /\ ~IsDuplicate(k)
  /\ ~RateLimited(ticket[k].owner)
  /\ Ask(t, Change(One(k, [ticket[k] EXCEPT !.status = "in_progress"]), ticket[k].owner))

\* POST /api/me/tickets/{id}/reopen
Reopen(t, k) ==
  /\ Seen(k) /\ ticket[k].status \in Terminal /\ ~IsDuplicate(k)
  /\ Edit(t, One(k, Reopened(ticket[k])))

\* POST /api/tickets/{id}/replies; an internal note changes no column of these.
Reply(t, k) ==
  /\ Seen(k) /\ ~IsDuplicate(k) /\ ~ticket[k].locked
  /\ ticket[k].status \notin {"resolved", "closed"}
  /\ Edit(t, One(k, [ticket[k] EXCEPT !.status = "waiting_for_user"]))

\* PATCH /api/tickets/{id}
ClaimAdvances(r, b) ==
  /\ ~b.clear /\ b.agent \notin {Null, r.agent}
  /\ r.sys /\ r.status = "open" /\ b.status = Null
Patched(r, b) ==
  LET moved == IF b.status \in {Null, r.status} THEN r ELSE Moved(r, b.status) IN
  [moved EXCEPT !.critical = IF b.critical = Null THEN @ ELSE b.critical,
                !.agent = IF b.clear THEN Null ELSE IF b.agent = Null THEN @ ELSE b.agent,
                !.status = IF ClaimAdvances(r, b) THEN "assigned" ELSE @]
Patch(t, k, b) ==
  /\ Seen(k)
  /\ b.status # Null \/ b.critical # Null => ~IsDuplicate(k) /\ ~ticket[k].locked
  /\ b.status \in {Null, ticket[k].status} \cup NextStatuses(ticket[k])
  /\ Edit(t, One(k, Patched(ticket[k], b)))

\* DELETE /api/tickets/{id}, POST /api/tickets/bulk/delete, /restore
Delete(t, K) ==
  /\ \A k \in K : Seen(k)
  /\ Edit(t, [k \in K |-> [ticket[k] EXCEPT !.deleted = TRUE]])
RestoreTicket(t, k) ==
  /\ ticket[k] # Null /\ ticket[k].deleted
  /\ Edit(t, One(k, [ticket[k] EXCEPT !.deleted = FALSE]))

\* POST /api/tickets/{id}/lock, /unlock, /escalate
Lock(t, k) == Seen(k) /\ Edit(t, One(k, [ticket[k] EXCEPT !.locked = TRUE]))
Unlock(t, k) == Seen(k) /\ Edit(t, One(k, [ticket[k] EXCEPT !.locked = FALSE]))
Escalate(t, k) ==
  /\ Seen(k) /\ ~IsDuplicate(k)
  /\ Edit(t, One(k, [ticket[k] EXCEPT !.critical = TRUE]))

\* POST /api/tickets/bulk/close, /bulk/resolve: tickets that may not go there are
\* skipped.
Skips(k, s) ==
  \/ IsDuplicate(k) \/ ticket[k].locked \/ ticket[k].status = s
  \/ s \notin NextStatuses(ticket[k])
Stamp(r, s) == IF s = "closed" THEN [r EXCEPT !.closed = "now"] ELSE [r EXCEPT !.resolved = "now"]
Finish(t, K, s) ==
  /\ \A k \in K : Seen(k)
  /\ Edit(t, [k \in K |-> IF Skips(k, s) THEN ticket[k]
                         ELSE Stamp([ticket[k] EXCEPT !.status = s], s)])

\* POST /api/tickets/bulk/assign
Assign(t, K, a) ==
  /\ \A k \in K : Seen(k)
  /\ Edit(t, [k \in K |-> [ticket[k] EXCEPT !.agent = a]])

\* POST /api/tickets/{id}/mark-duplicate, /bulk/mark-duplicate, /unmark-duplicate
FitAny(p) == Seen(p)  \* wrong on purpose: a duplicate may be a parent
FitParent(p) == Seen(p) /\ ~IsDuplicate(p)
MarkDuplicate(t, K, p) ==
  /\ FitParent(p) /\ p \notin K /\ \A k \in K : Seen(k)
  /\ Edit(t, [k \in K \cup {p} |-> IF k = p THEN ticket[k] ELSE [ticket[k] EXCEPT !.dup = p]])
UnmarkDuplicate(t, k) ==
  /\ Seen(k) /\ IsDuplicate(k)
  /\ Edit(t, One(k, [ticket[k] EXCEPT !.dup = Null]))

\* GET /api/release/status when the newest release is g: file_upgrade_ticket, in the
\* name of the first account and for the first agent.
PollRelease(t, g) ==
  /\ notified # g
  /\ \E u \in Users, a \in Agents : Ask(t, Insert(NewRow(u, TRUE, a, g), Null))

-----------------------------------------------------------------------------
(* Ends of requests *)

\* The ORM writes the columns that are not as they were read.
Updated(r, view, draft) ==
  [c \in DOMAIN r |->
     IF draft[c] = view[c] THEN r[c]
     ELSE IF c \in {"resolved", "closed"} /\ draft[c] = "now" THEN "set" ELSE draft[c]]
Fresh(k) == ticket[k] = Null /\ \A i \in Tickets : i < k => ticket[i] # Null

CommitSession(t) ==
  /\ job[t] # Null /\ job[t].step = "commit"
  /\ LET j == job[t]
         K == {k \in DOMAIN j.change : j.change[k] # j.view[k]} IN
     /\ \/ /\ j.new = Null
           /\ ticket' = [k \in Tickets |->
                IF k \in K THEN Updated(ticket[k], j.view[k], j.change[k]) ELSE ticket[k]]
           /\ raced' = IF \A k \in DOMAIN j.change : j.view[k] = ticket[k] THEN raced
                       ELSE raced \cup K
           /\ UNCHANGED <<review, notified>>
        \/ /\ j.new # Null
           /\ \E k \in Tickets :
                /\ Fresh(k)
                /\ ticket' = [ticket EXCEPT ![k] = j.new]
                /\ review' = [r \in Rejections |-> IF r = j.new.about THEN k ELSE review[r]]
           /\ notified' = IF j.new.about \in Tags THEN j.new.about ELSE notified
           /\ UNCHANGED raced
     /\ job' = [job EXCEPT ![t] =
          IF j.user = Null THEN Null ELSE [Change(Nothing, j.user) EXCEPT !.step = "log"]]
  /\ UNCHANGED <<up, log, now, requests>>

\* log_action with self_ticket_created or self_ticket_reply
Log(t) ==
  /\ job[t] # Null /\ job[t].step = "log"
  /\ log' = Append(log, [user |-> job[t].user, at |-> now])
  /\ job' = [job EXCEPT ![t] = Null]
  /\ UNCHANGED <<up, ticket, review, notified, now, raced, requests>>

Startup ==
  /\ ~up /\ up' = TRUE
  /\ ticket' = [k \in Tickets |-> IF ticket[k] = Null THEN Null ELSE Migrated(ticket[k])]
  /\ UNCHANGED <<review, notified, log, now, job, raced, requests>>

Stop ==
  /\ up /\ up' = FALSE
  /\ requests < MaxRequests /\ requests' = requests + 1
  /\ job' = [t \in Threads |-> Null]
  /\ UNCHANGED <<ticket, review, notified, log, now, raced>>

Tick ==
  /\ now < MaxNow /\ now' = now + 1
  /\ UNCHANGED <<up, ticket, review, notified, log, job, raced, requests>>

ByOwner(t) ==
  \/ \E u \in Users : Create(t, u)
  \/ \E r \in Rejections : Review(t, r)
  \/ \E k \in Tickets : ReplyMine(t, k) \/ Reopen(t, k)

ByManager(t) ==
  \/ \E k \in Tickets :
       \/ Reply(t, k) \/ RestoreTicket(t, k) \/ Lock(t, k) \/ Unlock(t, k)
       \/ Escalate(t, k) \/ UnmarkDuplicate(t, k)
       \/ \E b \in Bodies : Patch(t, k, b)
  \/ \E K \in Batches :
       \/ Delete(t, K)
       \/ \E s \in {"closed", "resolved"} : Finish(t, K, s)
       \/ \E a \in Agents : Assign(t, K, a)
       \/ \E p \in Tickets : MarkDuplicate(t, K, p)
  \/ \E g \in Tags : PollRelease(t, g)

TicketNext ==
  \/ \E t \in Threads : ByOwner(t) \/ ByManager(t) \/ CommitSession(t) \/ Log(t)
  \/ Startup \/ Stop \/ Tick

TicketSpec == TicketInit /\ [][TicketNext]_ticketVars

-----------------------------------------------------------------------------
(* Properties *)

Exists(k) == ticket[k] # Null

\* However handlers overtake each other a resolved ticket has its resolved_at and a
\* closed one its closed_at; and none keeps a time of a state it has left, unless
\* two handlers changed it at the same time.
StampsAgree ==
  \A k \in Tickets : Exists(k) =>
    Stamped(ticket[k]) /\ (k \notin raced => Unmarked(ticket[k]))

\* Who follows the references to the original of a duplicate arrives somewhere
\* (tickets.py:686-700), unless two handlers mark at the same time.
NoDuplicateLoop == raced = {} => LoopFree(ticket)

\* A user's counted actions stay within the limit of a window but for those that
\* are checked while another is in progress, by whichever of the three doors.
RateBounded ==
  \A u \in Users : Recent(u) =< Limit + Cardinality(Threads) - 1
=============================================================================
