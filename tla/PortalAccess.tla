---------------------------- MODULE PortalAccess ----------------------------
(***************************************************************************)
(* Roles, groups and who may do what in the portal (permissions.py,        *)
(* routes/roles.py, routes/groups.py, the account part of routes/users.py) *)
(* and the migrations that every start runs (db.py, main.py).              *)
(*                                                                         *)
(* A user has the role of the one group it is in; the bootstrap admin has  *)
(* the role super_admin whatever its group.  A handler checks, works and   *)
(* commits; two handlers may interleave, and the portal may stop between,  *)
(* also between two commits of a start.                                    *)
(* A foreign key that no longer holds makes a commit fail: nothing changes.*)
(***************************************************************************)
EXTENDS Integers

CONSTANTS Users, Root,     \* Root: the account with is_bootstrap_admin
          Threads,
          None, Gone,      \* NULL, no row
          MaxRole,         \* bound: ids of roles, the first five are the system's
          MaxGroup,        \* bound: ids of groups
          Objects,         \* keys of OBJECTS; those that guard handlers are below
          Added,           \* objects that the previous release did not have
          OldCount,        \* how many groups it had
          OldGroups,       \* group_role_defs: their roles
          OldMembers,      \* user_groups: groups of its users
          Number,          \* the primary keys of users
          Owners,          \* users whose VPN client a manager may revoke
          MaxEdits         \* bound: requests and restarts

\* Primary keys in the order of seed_system_roles; SuperGroup's is of no account.
Super == 1
Admin == 2
Editor == 3
Viewer == 4
UserRole == 5
Roles == 1..MaxRole
System == 1..5
SuperGroup == 0
Groups == 0..MaxGroup
Guards == {"users", "groups", "roles", "settings"}

ASSUME AccessAssumption ==
  /\ Root \in Users /\ None # Gone /\ Gone \notin Int /\ None \notin Users /\ None \notin Int
  /\ None \notin BOOLEAN
  /\ MaxRole \in Nat /\ MaxRole >= 5 /\ MaxGroup \in Nat \ {0} /\ MaxEdits \in Nat
  /\ Guards \subseteq Objects /\ Added \subseteq Objects
  /\ OldCount \in 0..MaxGroup /\ OldGroups \in [1..OldCount -> SUBSET (System \ {Super})]
  /\ OldMembers \in [Users -> SUBSET (1..OldCount)]
  /\ Number \in [Users -> Nat]
  /\ Owners \subseteq Users

VARIABLES
  stage,    \* how far the portal has started
  role,     \* roles: which exist
  manage,   \* role_object_permissions: can_manage, None without a row
  group,    \* groups: their role_id, Gone if there is no such group
  drawn,    \* how many ids of groups were given
  user,     \* users
  super,    \* the bootstrap admin's role_id is super_admin
  default,  \* app_settings.default_group_id
  cached,   \* runtime.default_group_id
  job,      \* requests in progress
  edits,    \* spent bound
  loose     \* the bootstrap admin is out, and since then a step that no guard watches
            \* may have taken a manager's access

vars == <<stage, role, manage, group, drawn, user, super, default, cached, job, edits, loose>>
accessVars == <<role, manage, group, drawn, user, super, default>>

\* What has been committed since the last stop, in the order of init_db and lifespan.
Stages == {"down", "seeded", "promoted", "pinned", "placed", "up"}
up == stage = "up"

Account == [active : BOOLEAN, deleted : BOOLEAN, group : Groups \cup {None}]

ASSUME RowAssumption == None \notin Account

\* A request that has been let through: what it will commit.  seen: the members of
\* the group that DELETE has read.
Removals == {"suspend", "hide", "delete"}
Job == [op : {"dropRole", "setRole", "dropGroup", "move", "default"} \cup Removals,
        user : Users \cup {None}, role : Roles \cup {None},
        group : Groups \cup {None}, seen : SUBSET Users]

TypeOK ==
  /\ stage \in Stages /\ super \in BOOLEAN /\ loose \in BOOLEAN
  /\ role \subseteq Roles
  /\ manage \in [Roles -> [Objects -> BOOLEAN \cup {None}]]
  /\ group \in [Groups -> Roles \cup {None, Gone}]
  /\ drawn \in 0..MaxGroup
  /\ user \in [Users -> Account \cup {None}]
  /\ default \in Groups \cup {None} /\ cached \in Groups \cup {None}
  /\ job \in [Threads -> Job \cup {None}]
  /\ edits \in 0..MaxEdits

NoRow == [o \in Objects |-> None]

\* _SYSTEM_ROLES: can_manage of the seeded row, None where none is seeded.
Seeded(r, o) ==
  IF r \in {Super, Admin} THEN TRUE
  ELSE IF r = Viewer /\ o \notin {"roles", "settings"} THEN FALSE
  ELSE IF r = UserRole /\ o = "users" THEN FALSE
  ELSE None

\* What the previous release leaves: several roles to a group, several groups to
\* a user, both in tables that are still there; its own objects are seeded.
Init ==
  /\ stage = "down" /\ super = FALSE /\ loose = FALSE
  /\ role = System
  /\ manage = [r \in Roles |-> [o \in Objects |->
                 IF r \in System /\ o \notin Added THEN Seeded(r, o) ELSE None]]
  /\ drawn = OldCount
  /\ group = [g \in Groups |-> IF g \in 1..OldCount THEN None ELSE Gone]
  /\ user = [u \in Users |-> [active |-> TRUE, deleted |-> FALSE, group |-> None]]
  /\ default = None /\ cached = None
  /\ job = [t \in Threads |-> None]
  /\ edits = 0

-----------------------------------------------------------------------------
(* Permission resolution *)

Exists(g) == group[g] # Gone
Live(u) == user[u] # None /\ user[u].active /\ ~user[u].deleted

\* effective_role_ids
RoleOf(u) ==
  IF u = Root /\ super THEN Super
  ELSE IF user[u].group = None THEN None ELSE group[user[u].group]

\* has_permission(user, object, "manage"): no role or no row, no access
Can(u, o) == RoleOf(u) \in Roles /\ manage[RoleOf(u)][o] = TRUE

\* require_permission, after require_user
Allowed(u, o) == up /\ Live(u) /\ Can(u, o)

\* _guard_against_self_lockout
Manages(u) == Live(u) /\ Can(u, "users")
OthersManage(target) == \E u \in Users \ {target} : Manages(u)
MayRemoveAny(by, target) ==  \* wrong on purpose: the guard left out
  TRUE
MayRemove(by, target) ==
  Can(target, "users") => by # target /\ OthersManage(target)

\* The guard looks at one kind of request only (users.py:1255-1275).  `unseen' says
\* that a step of another kind may take a manager's access.
Watch(unseen) == loose' = (~Live(Root)' /\ (loose \/ unseen))
Removing(t) == job[t] # None /\ job[t].op \in Removals

-----------------------------------------------------------------------------
(* Starting: each step ends in a commit, and the portal may stop after it. *)

Passes(from, to) == stage = from /\ stage' = to /\ UNCHANGED <<role, default, job, edits>>

\* seed_system_roles: rows that are missing.
Seed ==
  /\ Passes("down", "seeded")
  /\ manage' = [r \in Roles |-> [o \in Objects |->
        IF r \in System /\ manage[r][o] = None THEN Seeded(r, o) ELSE manage[r][o]]]
  /\ UNCHANGED <<group, drawn, user, super, cached>> /\ Watch(FALSE)

\* promote_bootstrap_admin_to_super_admin
Promote ==
  /\ Passes("seeded", "promoted")
  /\ super' = TRUE
  /\ UNCHANGED <<manage, group, drawn, user, cached>> /\ Watch(FALSE)

\* ensure_super_admin_group
Pin ==
  /\ Passes("promoted", "pinned")
  /\ group' = [group EXCEPT ![SuperGroup] = Super]
  /\ user' = [user EXCEPT ![Root].group = SuperGroup]
  /\ UNCHANGED <<manage, drawn, super, cached>> /\ Watch(FALSE)

\* migrate_groups_and_users_to_single_assignment, step 1: the lowest role.
Least(S) == CHOOSE x \in S : \A y \in S : x <= y
CollapsedAgain(g) ==  \* wrong on purpose: also when the group has a role
  IF g \in 1..OldCount /\ OldGroups[g] # {} THEN Least(OldGroups[g]) ELSE group[g]
Collapsed(g) ==
  IF g \in 1..OldCount /\ group[g] = None /\ OldGroups[g] # {}
  THEN Least(OldGroups[g]) ELSE group[g]

\* _role_rank; a group without a role ranks with the editors.
RankBySlug(r) ==
  IF r = None THEN 2 ELSE IF r = Admin THEN 0 ELSE IF r = Editor THEN 2
  ELSE IF r = UserRole THEN 3 ELSE IF r = Viewer THEN 4 ELSE 1

\* Step 2: the group with the widest role, the lowest id among equals.
Candidates(u) == {g \in OldMembers[u] : Exists(g)}
Chosen(u) ==
  CHOOSE g \in Candidates(u) : \A h \in Candidates(u) :
    LET a == RankBySlug(Collapsed(g))
        b == RankBySlug(Collapsed(h)) IN a < b \/ (a = b /\ g <= h)

\* Who has no group, as the table shows it: what the session has not flushed does
\* not count (autoflush is off).
Homeless == {u \in Users \ {Root} : user[u] # None /\ ~user[u].deleted /\ user[u].group = None}
Eligible(u) == u \in Homeless /\ Candidates(u) # {}
Several(u) == Eligible(u) /\ \E g, h \in Candidates(u) : g # h

\* The row of the audit log for a user who had several groups commits all that is
\* pending: the groups' roles, and the users up to this one in the order of ids.
Reduce(u) ==
  /\ Passes("pinned", "pinned")
  /\ Several(u) /\ \A v \in Users : Several(v) => Number[u] <= Number[v]
  /\ group' = [g \in Groups |-> Collapsed(g)]
  /\ user' = [v \in Users |->
       IF Eligible(v) /\ Number[v] <= Number[u]
       THEN [user[v] EXCEPT !.group = Chosen(v)] ELSE user[v]]
  /\ UNCHANGED <<manage, drawn, super, cached>> /\ Watch(FALSE)

\* Step 3: everybody who still has no group in the table gets the first group with
\* the role `user', also those for whom step 2 has chosen another.
Homes == {g \in 1..MaxGroup : group[g] = UserRole}
Fallback ==
  /\ Passes("pinned", "placed") /\ \A u \in Users : ~Several(u)
  /\ LET make == Homeless # {} /\ Homes = {}
         home == IF make THEN drawn + 1 ELSE Least(Homes) IN
     /\ make => drawn < MaxGroup
     /\ drawn' = IF make THEN drawn + 1 ELSE drawn
     /\ group' = [g \in Groups |-> IF make /\ g = home THEN UserRole ELSE Collapsed(g)]
     /\ user' = [u \in Users |->
          IF u \in Homeless THEN [user[u] EXCEPT !.group = home] ELSE user[u]]
  /\ UNCHANGED <<manage, super, cached>> /\ Watch(FALSE)

\* The settings are cached and requests are served; lifespan's second round of the
\* same functions finds nothing to do.
Ready ==
  /\ Passes("placed", "up")
  /\ cached' = default
  /\ UNCHANGED <<manage, group, drawn, user, super>> /\ Watch(FALSE)

Spend == edits < MaxEdits /\ edits' = edits + 1

\* A stop or a crash: requests in progress are lost.
Stop ==
  /\ stage # "down" /\ stage' = "down" /\ Spend
  /\ job' = [t \in Threads |-> None]
  /\ UNCHANGED accessVars /\ UNCHANGED cached /\ Watch(FALSE)

-----------------------------------------------------------------------------
(* Handlers that commit at once *)

Edited == Spend /\ UNCHANGED <<stage, super, cached, job>>

\* POST /api/roles
CreateRole(by, r) ==
  /\ Allowed(by, "roles") /\ r \notin role
  /\ role' = role \cup {r}
  /\ Edited /\ UNCHANGED <<manage, group, drawn, user, default>>
  /\ Watch(FALSE)

\* PUT /api/roles/{id}/object-permissions; super_admin cannot be edited
Editable(r) == r \in role /\ r # Super
SetPermission(by, r, o, value) ==
  /\ Allowed(by, "roles") /\ Editable(r) /\ manage[r][o] # value
  /\ manage' = [manage EXCEPT ![r][o] = value]
  /\ Edited /\ UNCHANGED <<role, group, drawn, user, default>>
  /\ Watch(~value)

\* POST /api/groups
CreateGroup(by) ==
  /\ Allowed(by, "groups") /\ drawn < MaxGroup
  /\ drawn' = drawn + 1
  /\ group' = [group EXCEPT ![drawn + 1] = None]
  /\ Edited /\ UNCHANGED <<role, manage, user, default>>
  /\ Watch(FALSE)

\* DELETE /api/groups/{id}/members/{user}
RemoveMember(by, g, u) ==
  /\ Allowed(by, "groups") /\ g # SuperGroup /\ Exists(g)
  /\ user[u] # None /\ user[u].group = g
  /\ user' = [user EXCEPT ![u].group = None]
  /\ Edited /\ UNCHANGED <<role, manage, group, drawn, default>>
  /\ Watch(TRUE)

\* PATCH /api/users/{id}: is_active true, or deleted false
Reinstate(by, u) ==
  /\ Allowed(by, "users") /\ user[u] # None
  /\ \/ ~user[u].active /\ user' = [user EXCEPT ![u].active = TRUE]
     \/ user[u].deleted /\ user' = [user EXCEPT ![u].deleted = FALSE]
  /\ Edited /\ UNCHANGED <<role, manage, group, drawn, default>>
  /\ Watch(FALSE)

\* DELETE /api/users/{id}/permanent
Erase(by, u) ==
  /\ Allowed(by, "users") /\ user[u] # None /\ user[u].deleted /\ u # Root
  /\ user' = [user EXCEPT ![u] = None]
  /\ Edited /\ UNCHANGED <<role, manage, group, drawn, default>>
  /\ Watch(FALSE)

\* DELETE /api/clients/{name}: sync_after_vpn_revoke suspends the owner
RevokeClient(u) ==
  /\ up /\ u \in Owners /\ Live(u)
  /\ user' = [user EXCEPT ![u].active = FALSE]
  /\ Edited /\ UNCHANGED <<role, manage, group, drawn, default>>
  /\ Watch(u # Root \/ ~OthersManage(Root) \/ \E t \in Threads : Removing(t))

-----------------------------------------------------------------------------
(* Handlers that check and commit later *)

Begin(t, j) ==
  /\ job[t] = None /\ Spend
  /\ job' = [job EXCEPT ![t] = j]
  /\ UNCHANGED accessVars /\ UNCHANGED <<stage, cached>> /\ Watch(FALSE)

Request(op, u, r, g) == [op |-> op, user |-> u, role |-> r, group |-> g, seen |-> {}]

\* DELETE /api/roles/{id}: no group may have the role
StartDropRole(t, by, r) ==
  /\ Allowed(by, "roles") /\ r \in role \ System
  /\ \A g \in Groups : group[g] # r
  /\ Begin(t, Request("dropRole", None, r, None))

\* PUT /api/groups/{id}/role
StartSetRole(t, by, g, r) ==
  /\ Allowed(by, "groups") /\ g # SuperGroup /\ Exists(g)
  /\ group[g] # r
  /\ r # None => r \in role /\ r # Super
  /\ Begin(t, Request("setRole", None, r, g))

\* DELETE /api/groups/{id}: no member but deleted ones; the default for new users
\* is taken back, in the cache before the commit.
Members(g) == {u \in Users : user[u] # None /\ user[u].group = g}
StartDropGroup(t, by, g) ==
  /\ Allowed(by, "groups") /\ g # SuperGroup /\ Exists(g)
  /\ \A u \in Members(g) : user[u].deleted
  /\ job[t] = None /\ Spend
  /\ job' = [job EXCEPT ![t] =
       [Request("dropGroup", None, None, g) EXCEPT !.seen = Members(g)]]
  /\ cached' = IF default = g THEN None ELSE cached
  /\ UNCHANGED accessVars /\ UNCHANGED stage /\ Watch(FALSE)

\* The bootstrap admin stays where it is.
MovableAll(u, g) == user[u] # None /\ user[u].group # g  \* wrong on purpose
Movable(u, g) == user[u] # None /\ u # Root /\ user[u].group # g

\* POST /api/groups/{id}/members, PATCH /api/users/{id} with group_id
StartMove(t, by, g, u) ==
  /\ g # SuperGroup /\ Exists(g)
  /\ Movable(u, g)
  /\ \/ Allowed(by, "groups") /\ ~user[u].deleted
     \/ Allowed(by, "users")
  /\ Begin(t, Request("move", u, None, g))

\* PATCH /api/settings: default_group_id
StartDefault(t, by, g) ==
  /\ Allowed(by, "settings") /\ g # SuperGroup /\ Exists(g)
  /\ Begin(t, Request("default", None, None, g))

\* PATCH /api/users/{id} with is_active false or deleted true, DELETE /api/users/{id}
StartRemoval(t, by, op, u) ==
  /\ Allowed(by, "users") /\ u # Root /\ user[u] # None
  /\ op = "delete" => ~user[u].deleted
  /\ MayRemove(by, u)
  /\ Begin(t, Request(op, u, None, None))

Commit(t, op) ==
  /\ job[t] # None /\ job[t].op = op
  /\ job' = [job EXCEPT ![t] = None]
  /\ UNCHANGED <<stage, super, drawn, edits>>

\* Foreign keys: groups.role_id and users.group_id.
DropRole(t) ==
  /\ Commit(t, "dropRole")
  /\ LET r == job[t].role IN
     IF \E g \in Groups : group[g] = r THEN UNCHANGED <<role, manage>>
     ELSE /\ role' = role \ {r}
          /\ manage' = [manage EXCEPT ![r] = NoRow]
  /\ UNCHANGED <<group, user, default, cached>>
  /\ Watch(FALSE)

SetRole(t) ==
  /\ Commit(t, "setRole")
  /\ LET j == job[t] IN
     IF Exists(j.group) /\ (j.role # None => j.role \in role)
     THEN group' = [group EXCEPT ![j.group] = j.role]
     ELSE UNCHANGED group
  /\ UNCHANGED <<role, manage, user, default, cached>>
  /\ Watch(TRUE)

\* The members it has seen lose their group, whichever it is by now; one who came
\* meanwhile, or a row that went, makes it fail.
DropGroup(t) ==
  /\ Commit(t, "dropGroup")
  /\ LET g == job[t].group
         seen == job[t].seen IN
     IF Exists(g) /\ Members(g) \subseteq seen /\ \A u \in seen : user[u] # None
     THEN /\ group' = [group EXCEPT ![g] = Gone]
          /\ user' = [u \in Users |->
               IF u \in seen THEN [user[u] EXCEPT !.group = None] ELSE user[u]]
          /\ default' = IF default = g THEN None ELSE default
     ELSE UNCHANGED <<group, user, default>>
  /\ UNCHANGED <<role, manage, cached>>
  /\ Watch(TRUE)

Move(t) ==
  /\ Commit(t, "move")
  /\ LET j == job[t] IN
     IF Exists(j.group) /\ user[j.user] # None
     THEN user' = [user EXCEPT ![j.user].group = j.group]
     ELSE UNCHANGED user
  /\ UNCHANGED <<role, manage, group, default, cached>>
  /\ Watch(TRUE)

SetDefault(t) ==
  /\ Commit(t, "default")
  /\ default' = job[t].group /\ cached' = job[t].group
  /\ UNCHANGED <<role, manage, group, user>>
  /\ Watch(FALSE)

Remove(t, op) ==
  /\ Commit(t, op)
  /\ LET u == job[t].user IN
     IF user[u] = None THEN UNCHANGED user
     ELSE /\ user' = [user EXCEPT ![u].active = @ /\ op = "hide",
                                  ![u].deleted = @ \/ op # "suspend"]
  /\ UNCHANGED <<role, manage, group, default, cached>>
  /\ Watch(\E s \in Threads \ {t} : Removing(s))

Begins(t, by) ==
  \/ \E r \in Roles : StartDropRole(t, by, r)
  \/ \E g \in Groups :
       \/ \E r \in Roles \cup {None} : StartSetRole(t, by, g, r)
       \/ StartDropGroup(t, by, g) \/ StartDefault(t, by, g)
       \/ \E u \in Users : StartMove(t, by, g, u)
  \/ \E op \in Removals, u \in Users : StartRemoval(t, by, op, u)

Commits(t) ==
  \/ DropRole(t) \/ SetRole(t) \/ DropGroup(t) \/ Move(t) \/ SetDefault(t)
  \/ \E op \in Removals : Remove(t, op)

AtOnce(by) ==
  \/ \E r \in Roles : CreateRole(by, r)
  \/ \E r \in Roles, o \in Objects, value \in BOOLEAN : SetPermission(by, r, o, value)
  \/ CreateGroup(by)
  \/ \E u \in Users :
       \/ \E g \in Groups : RemoveMember(by, g, u)
       \/ Reinstate(by, u) \/ Erase(by, u)

Starting ==
  Seed \/ Promote \/ Pin \/ (\E u \in Users : Reduce(u)) \/ Fallback \/ Ready

Next ==
  \/ Starting \/ Stop
  \/ /\ edits < MaxEdits
     /\ \/ \E u \in Users : RevokeClient(u)
        \/ \E by \in Users : AtOnce(by) \/ \E t \in Threads : Begins(t, by)
  \/ \E t \in Threads : Commits(t)

Spec == Init /\ [][Next]_vars

-----------------------------------------------------------------------------
(* Properties *)

\* A running portal has somebody who may manage its users, whatever managers do to
\* roles, groups and each other at the same time: what the guard of users.py:867-888
\* and the protections of super_admin are for.  The exception: the bootstrap admin's own
\* VPN client was revoked, which suspends it (vpn_identity_sync.py:117-126) although
\* users.py:1243-1249 says nobody can, and that left nobody, or happened while a removal was
\* under way; or since then a client of another manager was revoked, two removals
\* overlapped, or roles and groups were edited, which the guard does not look at.
SomeoneManages == up => loose \/ \E u \in Users : Manages(u)

\* The bootstrap admin's group and role, guarded in nine places
\* (routes/groups.py, routes/roles.py, routes/users.py), never change once set.
RootPinned ==
  up => super /\ user[Root] # None /\ user[Root].group = SuperGroup
        /\ group[SuperGroup] = Super /\ \A o \in Objects : manage[Super][o] = TRUE

\* What an administrator has set is not touched by a start, wherever an earlier start
\* was cut: permission rows, a group's role, a user's group (permissions.py:205-211,
\* 440-454).
EditsSurvive ==
  [][~up =>
       /\ \A r \in Roles, o \in Objects :
            manage[r][o] # None => manage'[r][o] = manage[r][o]
       /\ \A g \in Groups : group[g] \in Roles => group'[g] = group[g]
       /\ \A u \in Users : user[u] # None /\ user[u].group # None =>
            user'[u].group = user[u].group]_vars
=============================================================================
