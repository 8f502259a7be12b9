------------------------ MODULE PortalAccess_proofs ------------------------
(***************************************************************************)
(* Proofs about PortalAccess, for any users, roles, groups, objects and    *)
(* tables left by the previous release.                                    *)
(***************************************************************************)
EXTENDS PortalAccess, WellFoundedInduction, TLAPS

-----------------------------------------------------------------------------
(* The inductive invariant.                                                *)

\* What a request that was let through may still do: it names no row of the
\* system, and never the bootstrap admin.
Harmless(j) ==
  /\ j.op = "dropRole" => j.role \in Roles \ System
  /\ j.op = "setRole" => j.group \in Groups \ {SuperGroup}
  /\ j.op = "dropGroup" => j.group \in Groups \ {SuperGroup} /\ Root \notin j.seen
  /\ j.op = "move" => j.user \in Users \ {Root} /\ j.group \in Groups \ {SuperGroup}
  /\ j.op = "default" => j.group \in Groups
  /\ j.op \in Removals => j.user \in Users \ {Root}

\* The bootstrap admin once a start has put it into its place.
Pinned ==
  /\ user[Root] # None /\ user[Root].group \in {None, SuperGroup}
  /\ group[SuperGroup] \in {Gone, Super}
  /\ \A o \in Objects : manage[Super][o] \in {None, TRUE}
  /\ super \/ stage # "down" => \A o \in Objects : manage[Super][o] = TRUE
  /\ stage \in {"promoted", "pinned", "placed", "up"} => super
  /\ stage \in {"pinned", "placed", "up"} =>
       user[Root].group = SuperGroup /\ group[SuperGroup] = Super

\* Ids are given in order; a stopped portal has no requests.
Orderly ==
  /\ \A g \in Groups : g > drawn => group[g] = Gone
  /\ stage # "up" => \A t \in Threads : job[t] = None
  /\ \A t \in Threads : job[t] # None => Harmless(job[t])

IInv == TypeOK /\ Orderly /\ Pinned

-----------------------------------------------------------------------------
(* Lemmas about the start.                                                 *)

LEMMA Bottom ==
  ASSUME NEW S, S \subseteq Nat, S # {}
  PROVE  \E x \in S : \A y \in S : x <= y
<1> DEFINE R == OpToRel(<, Nat)
<1>1. IsWellFoundedOn(R, Nat)
  BY NatLessThanWellFounded
<1>2. \A x, y \in Nat : y < x => <<y, x>> \in R
  BY DEF OpToRel
<1> HIDE DEF R
<1>3. PICK x \in S : \A y \in S : ~ (<<y, x>> \in R)
  BY <1>1, WFMin
<1>4. \A y \in S : x <= y
  <2>1. TAKE y \in S
  <2>2. x \in Nat /\ y \in Nat
    OBVIOUS
  <2>3. ~ (y < x)
    BY <1>2, <1>3, <2>2
  <2>4. QED
    BY <2>2, <2>3
<1>5. QED
  BY <1>4

LEMMA LeastIsIn ==
  ASSUME NEW S, S \subseteq Nat, S # {}
  PROVE  Least(S) \in S
BY Bottom DEF Least

LEMMA CollapsedIsRole ==
  ASSUME TypeOK, NEW g \in Groups
  PROVE  Collapsed(g) \in Roles \cup {None, Gone}
<1>1. CASE g \in 1..OldCount /\ group[g] = None /\ OldGroups[g] # {}
  <2>1. OldGroups[g] \subseteq System \ {Super}
    BY <1>1, AccessAssumption
  <2>2. Least(OldGroups[g]) \in OldGroups[g]
    BY <1>1, <2>1, LeastIsIn DEF System
  <2>3. System \subseteq Roles
    BY AccessAssumption DEF System, Roles
  <2>4. QED
    BY <1>1, <2>1, <2>2, <2>3 DEF Collapsed
<1>2. CASE ~(g \in 1..OldCount /\ group[g] = None /\ OldGroups[g] # {})
  BY <1>2 DEF Collapsed, TypeOK
<1>3. QED
  BY <1>1, <1>2

\* Among the groups a user was in there is one with the widest role and, of
\* these, the lowest id.
LEMMA ChosenIsIn ==
  ASSUME NEW u \in Users, Candidates(u) # {}
  PROVE  Chosen(u) \in Candidates(u)
<1> DEFINE C == Candidates(u)
           rank(g) == RankBySlug(Collapsed(g))
           Ranks == {rank(g) : g \in C}
<1>1. C \subseteq Nat
  BY AccessAssumption DEF Candidates
<1>2. \A g \in C : rank(g) \in Nat
  BY DEF RankBySlug
<1>3. PICK a \in Ranks : \A b \in Ranks : a <= b
  <2>1. Ranks \subseteq Nat /\ Ranks # {}
    BY <1>2
  <2>2. QED
    BY <2>1, Bottom
<1> DEFINE W == {g \in C : rank(g) = a}
<1>4. PICK g \in W : \A h \in W : g <= h
  <2>1. W \subseteq Nat /\ W # {}
    BY <1>1
  <2>2. QED
    BY <2>1, Bottom
<1>5. \A h \in C : rank(g) < rank(h) \/ (rank(g) = rank(h) /\ g <= h)
  <2>1. TAKE h \in C
  <2>2. a <= rank(h) /\ a \in Nat /\ rank(h) \in Nat /\ rank(g) = a
    BY <1>2, <1>3
  <2>3. CASE rank(h) = a
    BY <1>4, <2>2, <2>3
  <2>4. CASE rank(h) # a
    BY <2>2, <2>4
  <2>5. QED
    BY <2>3, <2>4
<1> HIDE DEF C
<1>6. \E x \in C : \A h \in C : rank(x) < rank(h) \/ (rank(x) = rank(h) /\ x <= h)
  BY <1>5
<1>7. QED
  BY <1>6 DEF Chosen, C

LEMMA ConstantFacts ==
  /\ None # Gone /\ Root \in Users
  /\ System \subseteq Roles /\ Super \in System /\ Super \in Roles /\ UserRole \in Roles
  /\ SuperGroup \in Groups /\ Groups \subseteq Int /\ Roles \subseteq Int
  /\ None \notin Groups /\ Gone \notin Groups /\ None \notin Roles /\ Gone \notin Roles
  /\ None \notin Users
BY AccessAssumption DEF System, Roles, Super, UserRole, SuperGroup, Groups

-----------------------------------------------------------------------------
(* The invariant holds at the beginning and through a start.               *)

LEMMA InitInv == Init => IInv
<1> SUFFICES ASSUME Init PROVE IInv
  OBVIOUS
<1> USE AccessAssumption, ConstantFacts
<1>1. TypeOK
  <2>1. manage \in [Roles -> [Objects -> BOOLEAN \cup {None}]]
    BY DEF Init, Seeded
  <2>2. drawn \in 0..MaxGroup /\ group \in [Groups -> Roles \cup {None, Gone}]
    BY DEF Init
  <2>3. user \in [Users -> Account \cup {None}]
    BY DEF Init, Account
  <2>4. role \subseteq Roles /\ edits \in 0..MaxEdits
    BY DEF Init
  <2>5. QED
    BY <2>1, <2>2, <2>3, <2>4 DEF Init, TypeOK, Stages
<1>2. Orderly
  BY DEF Init, Orderly, Groups, Stages
<1>3. Pinned
  <2>1. user[Root] # None /\ user[Root].group = None
    <3>1. user[Root] = [active |-> TRUE, deleted |-> FALSE, group |-> None]
      BY DEF Init
    <3>2. user[Root] \in Account
      BY <3>1 DEF Account
    <3>3. user[Root].group = None
      BY <3>1
    <3>4. QED
      BY <3>2, <3>3, RowAssumption
  <2>2. \A o \in Objects : manage[Super][o] \in {None, TRUE}
    BY DEF Init, Seeded
  <2>3. group[SuperGroup] = Gone
    BY DEF Init, SuperGroup
  <2>4. QED
    BY <2>1, <2>2, <2>3 DEF Init, Pinned
<1>4. QED
  BY <1>1, <1>2, <1>3 DEF IInv

LEMMA WatchType ==
  ASSUME NEW c, Watch(c)
  PROVE  loose' \in BOOLEAN
BY DEF Watch

LEMMA SeedInv == IInv /\ Seed => IInv'
<1> SUFFICES ASSUME IInv, Seed PROVE IInv'
  OBVIOUS
<1> USE ConstantFacts
<1>1. /\ stage = "down" /\ stage' = "seeded" /\ loose' \in BOOLEAN
      /\ manage' = [r \in Roles |-> [o \in Objects |->
            IF r \in System /\ manage[r][o] = None THEN Seeded(r, o) ELSE manage[r][o]]]
      /\ UNCHANGED <<role, default, job, edits, group, drawn, user, super, cached>>
  BY WatchType DEF Seed, Passes
<1>2. manage' \in [Roles -> [Objects -> BOOLEAN \cup {None}]]
  BY <1>1 DEF IInv, TypeOK, Seeded
<1>3. \A o \in Objects : manage'[Super][o] = TRUE
  BY <1>1 DEF IInv, Pinned, Seeded
<1>4. TypeOK'
  BY <1>1, <1>2 DEF IInv, TypeOK, Stages
<1>5. Orderly' /\ Pinned'
  BY <1>1, <1>3 DEF IInv, Orderly, Pinned
<1>6. QED
  BY <1>4, <1>5 DEF IInv

LEMMA PromoteInv == IInv /\ Promote => IInv'
<1> SUFFICES ASSUME IInv, Promote PROVE IInv'
  OBVIOUS
<1>1. /\ stage = "seeded" /\ stage' = "promoted" /\ super' = TRUE /\ loose' \in BOOLEAN
      /\ UNCHANGED <<role, default, job, edits, manage, group, drawn, user, cached>>
  BY WatchType DEF Promote, Passes
<1>2. TypeOK'
  BY <1>1 DEF IInv, TypeOK, Stages
<1>3. Orderly' /\ Pinned'
  BY <1>1 DEF IInv, Orderly, Pinned
<1>4. QED
  BY <1>2, <1>3 DEF IInv

LEMMA PinInv == IInv /\ Pin => IInv'
<1> SUFFICES ASSUME IInv, Pin PROVE IInv'
  OBVIOUS
<1> USE ConstantFacts
<1> DEFINE a == [user[Root] EXCEPT !.group = SuperGroup]
<1>1. /\ stage = "promoted" /\ stage' = "pinned" /\ loose' \in BOOLEAN
      /\ group' = [group EXCEPT ![SuperGroup] = Super]
      /\ user' = [user EXCEPT ![Root] = a]
      /\ UNCHANGED <<role, default, job, edits, manage, drawn, super, cached>>
  BY WatchType DEF Pin, Passes
<1>2. user[Root] \in Account /\ user \in [Users -> Account \cup {None}]
  BY DEF IInv, TypeOK, Pinned
<1>3. a \in Account /\ a.group = SuperGroup
  BY <1>2 DEF Account
<1> HIDE DEF a
<1>4. user' \in [Users -> Account \cup {None}] /\ user'[Root] = a /\ a # None
  BY <1>1, <1>2, <1>3, RowAssumption
<1>5. group' \in [Groups -> Roles \cup {None, Gone}] /\ group'[SuperGroup] = Super
  BY <1>1 DEF IInv, TypeOK
<1>6. TypeOK'
  BY <1>1, <1>4, <1>5 DEF IInv, TypeOK, Stages
<1>7. Orderly'
  <2>1. drawn \in Nat
    BY DEF IInv, TypeOK
  <2>2. ASSUME NEW g \in Groups, g > drawn PROVE group'[g] = Gone
    <3>1. g # SuperGroup
      BY <2>1, <2>2 DEF SuperGroup
    <3>2. QED
      BY <1>1, <2>2, <3>1 DEF IInv, Orderly, TypeOK
  <2>3. QED
    BY <1>1, <2>2 DEF IInv, Orderly
<1>8. Pinned'
  BY <1>1, <1>3, <1>4, <1>5 DEF IInv, Pinned
<1>9. QED
  BY <1>6, <1>7, <1>8 DEF IInv

\* What is left of the invariant when a step of the migration gives roles to groups
\* and groups to users.
LEMMA MigrateInv ==
  ASSUME IInv, stage = "pinned", stage' \in {"pinned", "placed"}, loose' \in BOOLEAN,
         UNCHANGED <<role, default, job, edits, manage, super, cached>>,
         drawn' \in 0..MaxGroup, drawn <= drawn',
         group' \in [Groups -> Roles \cup {None, Gone}],
         \A g \in Groups : group[g] \in Roles => group'[g] = group[g],
         \A g \in Groups : g > drawn' => group'[g] = Gone,
         user' \in [Users -> Account \cup {None}], user'[Root] = user[Root]
  PROVE  IInv'
<1> USE ConstantFacts
<1>1. TypeOK'
  BY DEF IInv, TypeOK, Stages
<1>2. Orderly'
  BY DEF IInv, Orderly
<1>3. group'[SuperGroup] = Super
  BY DEF IInv, Pinned
<1>4. Pinned'
  BY <1>3 DEF IInv, Pinned
<1>5. QED
  BY <1>1, <1>2, <1>4 DEF IInv

LEMMA ReduceInv ==
  ASSUME IInv, NEW w \in Users, Reduce(w)
  PROVE  /\ IInv'
         /\ \A g \in Groups : group[g] \in Roles => group'[g] = group[g]
         /\ \A u \in Users : user[u] # None /\ user[u].group # None => user'[u] = user[u]
         /\ \A u \in Users : user[u] # None =>
              user'[u] # None /\ user'[u].active = user[u].active
                              /\ user'[u].deleted = user[u].deleted
<1> USE ConstantFacts
<1>1. /\ stage = "pinned" /\ stage' = "pinned" /\ loose' \in BOOLEAN
      /\ group' = [g \in Groups |-> Collapsed(g)]
      /\ user' = [v \in Users |->
           IF Eligible(v) /\ Number[v] <= Number[w]
           THEN [user[v] EXCEPT !.group = Chosen(v)] ELSE user[v]]
      /\ UNCHANGED <<role, default, job, edits, manage, drawn, super, cached>>
  BY WatchType DEF Reduce, Passes
<1>2. TypeOK /\ user \in [Users -> Account \cup {None}] /\ drawn \in 0..MaxGroup
  BY DEF IInv, TypeOK
<1>3. group' \in [Groups -> Roles \cup {None, Gone}]
  BY <1>1, <1>2, CollapsedIsRole
<1>4. \A g \in Groups : group[g] \in Roles => group'[g] = group[g]
  BY <1>1 DEF Collapsed
<1>5. \A g \in Groups : g > drawn' => group'[g] = Gone
  BY <1>1 DEF IInv, Orderly, Collapsed
<1>6. ASSUME NEW u \in Users, Eligible(u)
      PROVE  /\ user[u] \in Account /\ user[u].group = None /\ u # Root
             /\ Chosen(u) \in Groups
  <2>1. user[u] # None /\ user[u].group = None /\ u # Root /\ Candidates(u) # {}
    BY <1>6 DEF Eligible, Homeless
  <2>2. Chosen(u) \in Candidates(u)
    BY <2>1, ChosenIsIn
  <2>3. Candidates(u) \subseteq Groups
    BY AccessAssumption DEF Candidates, Groups
  <2>4. QED
    BY <1>2, <2>1, <2>2, <2>3
<1>7. ASSUME NEW u \in Users, user[u] # None
      PROVE  /\ user'[u] \in Account
             /\ user'[u].active = user[u].active /\ user'[u].deleted = user[u].deleted
  <2>1. CASE Eligible(u) /\ Number[u] <= Number[w]
    <3> DEFINE h == Chosen(u)
    <3>1. user'[u] = [user[u] EXCEPT !.group = h] /\ user[u] \in Account /\ h \in Groups
      BY <1>1, <1>6, <2>1
    <3> HIDE DEF h
    <3>2. QED
      BY <3>1 DEF Account
  <2>2. CASE ~(Eligible(u) /\ Number[u] <= Number[w])
    BY <1>1, <1>2, <1>7, <2>2
  <2>3. QED
    BY <2>1, <2>2
<1>8. user' \in [Users -> Account \cup {None}]
  <2>1. ASSUME NEW u \in Users, user[u] = None PROVE user'[u] = None
    <3>1. ~Eligible(u)
      BY <2>1 DEF Eligible, Homeless
    <3>2. QED
      BY <1>1, <2>1, <3>1
  <2>2. \A u \in Users : user'[u] \in Account \cup {None}
    BY <1>7, <2>1
  <2>3. user' = [v \in Users |-> user'[v]]
    BY <1>1
  <2>4. QED
    BY <2>2, <2>3
<1>9. \A u \in Users : user[u] # None /\ user[u].group # None => user'[u] = user[u]
  BY <1>1, <1>6
<1>10. user'[Root] = user[Root]
  BY <1>1, <1>6
<1>11. IInv'
  <2>1. drawn' = drawn
    BY <1>1
  <2>2. drawn' \in 0..MaxGroup /\ drawn <= drawn'
    BY <1>2, <2>1
  <2>3. QED
    BY <1>1, <1>3, <1>4, <1>5, <1>8, <1>10, <2>2, MigrateInv
<1>12. QED
  BY <1>4, <1>7, <1>9, <1>11, RowAssumption

LEMMA FallbackInv ==
  ASSUME IInv, Fallback
  PROVE  /\ IInv'
         /\ \A g \in Groups : group[g] \in Roles => group'[g] = group[g]
         /\ \A u \in Users : user[u] # None /\ user[u].group # None => user'[u] = user[u]
         /\ \A u \in Users : user[u] # None =>
              user'[u] # None /\ user'[u].active = user[u].active
                              /\ user'[u].deleted = user[u].deleted
<1> USE ConstantFacts
<1> DEFINE make == Homeless # {} /\ Homes = {}
           home == IF make THEN drawn + 1 ELSE Least(Homes)
<1>1. /\ stage = "pinned" /\ stage' = "placed" /\ loose' \in BOOLEAN
      /\ make => drawn < MaxGroup
      /\ drawn' = IF make THEN drawn + 1 ELSE drawn
      /\ group' = [g \in Groups |-> IF make /\ g = home THEN UserRole ELSE Collapsed(g)]
      /\ user' = [u \in Users |->
           IF u \in Homeless THEN [user[u] EXCEPT !.group = home] ELSE user[u]]
      /\ UNCHANGED <<role, default, job, edits, manage, super, cached>>
  BY WatchType DEF Fallback, Passes
<1>2. TypeOK /\ user \in [Users -> Account \cup {None}] /\ drawn \in 0..MaxGroup
      /\ drawn \in Nat
  BY DEF IInv, TypeOK
<1>3. drawn' \in 0..MaxGroup /\ drawn <= drawn'
  BY <1>1, <1>2, AccessAssumption
<1>4. Homeless # {} => home \in Groups \ {SuperGroup}
  <2>1. CASE make
    BY <1>1, <1>2, <2>1, AccessAssumption DEF Groups, SuperGroup
  <2>2. CASE Homeless # {} /\ Homes # {}
    <3>1. Homes \subseteq 1..MaxGroup
      BY DEF Homes
    <3>2. Homes \subseteq Nat
      BY <3>1
    <3>3. Least(Homes) \in Homes
      BY <2>2, <3>2, LeastIsIn
    <3>4. Least(Homes) \in 1..MaxGroup
      BY <3>1, <3>3
    <3>5. home = Least(Homes)
      BY <2>2
    <3>6. QED
      BY <3>4, <3>5, AccessAssumption DEF Groups, SuperGroup
  <2>3. QED
    BY <2>1, <2>2
<1>5. make => home = drawn + 1 /\ group[home] = Gone
  <2>1. SUFFICES ASSUME make PROVE home = drawn + 1 /\ group[home] = Gone
    OBVIOUS
  <2>2. home = drawn + 1 /\ home \in Groups
    BY <1>4, <2>1
  <2>3. home > drawn
    BY <1>2, <2>2
  <2>4. QED
    BY <2>2, <2>3 DEF IInv, Orderly
<1>6. make => drawn' = drawn + 1
  BY <1>1
<1> HIDE DEF make, home
<1>7. group' \in [Groups -> Roles \cup {None, Gone}]
  BY <1>1, <1>2, CollapsedIsRole
<1>8. ASSUME NEW g \in Groups, group[g] \in Roles PROVE group'[g] = group[g]
  BY <1>1, <1>5, <1>8 DEF Collapsed
<1>9. ASSUME NEW g \in Groups, g > drawn' PROVE group'[g] = Gone
  <2>1. g > drawn /\ (make => g # home)
    BY <1>2, <1>3, <1>5, <1>6, <1>9 DEF Groups
  <2>2. Collapsed(g) = Gone
    BY <2>1 DEF IInv, Orderly, Collapsed
  <2>3. QED
    BY <1>1, <2>1, <2>2
<1>10. ASSUME NEW u \in Users, u \in Homeless
       PROVE  user[u] \in Account /\ user[u].group = None /\ u # Root
  BY <1>2, <1>10 DEF Homeless
<1>11. ASSUME NEW u \in Users, user[u] # None
       PROVE  /\ user'[u] \in Account
              /\ user'[u].active = user[u].active /\ user'[u].deleted = user[u].deleted
  <2>1. CASE u \in Homeless
    <3>1. user'[u] = [user[u] EXCEPT !.group = home] /\ user[u] \in Account /\ home \in Groups
      BY <1>1, <1>4, <1>10, <2>1
    <3>2. QED
      BY <3>1 DEF Account
  <2>2. CASE u \notin Homeless
    BY <1>1, <1>2, <1>11, <2>2
  <2>3. QED
    BY <2>1, <2>2
<1>12. user' \in [Users -> Account \cup {None}]
  <2>1. ASSUME NEW u \in Users, user[u] = None PROVE user'[u] = None
    <3>1. u \notin Homeless
      BY <2>1 DEF Homeless
    <3>2. QED
      BY <1>1, <2>1, <3>1
  <2>2. \A u \in Users : user'[u] \in Account \cup {None}
    BY <1>11, <2>1
  <2>3. user' = [v \in Users |-> user'[v]]
    BY <1>1
  <2>4. QED
    BY <2>2, <2>3
<1>13. \A u \in Users : user[u] # None /\ user[u].group # None => user'[u] = user[u]
  BY <1>1, <1>10
<1>14. user'[Root] = user[Root]
  BY <1>1, <1>10
<1>15. IInv'
  BY <1>1, <1>3, <1>7, <1>8, <1>9, <1>12, <1>14, MigrateInv
<1>16. QED
  BY <1>8, <1>11, <1>13, <1>15, RowAssumption

LEMMA ReadyInv == IInv /\ Ready => IInv'
<1> SUFFICES ASSUME IInv, Ready PROVE IInv'
  OBVIOUS
<1>1. /\ stage = "placed" /\ stage' = "up" /\ cached' = default /\ loose' \in BOOLEAN
      /\ UNCHANGED <<role, default, job, edits, manage, group, drawn, user, super>>
  BY WatchType DEF Ready, Passes
<1>2. TypeOK'
  BY <1>1 DEF IInv, TypeOK, Stages
<1>3. Orderly' /\ Pinned'
  BY <1>1 DEF IInv, Orderly, Pinned
<1>4. QED
  BY <1>2, <1>3 DEF IInv

LEMMA StartInv == IInv /\ Starting => IInv'
BY SeedInv, PromoteInv, PinInv, ReduceInv, FallbackInv, ReadyInv DEF Starting

-----------------------------------------------------------------------------
(* The invariant holds through every other step.                           *)

LEMMA SpendType ==
  ASSUME TypeOK, Spend
  PROVE  edits' \in 0..MaxEdits
BY AccessAssumption DEF TypeOK, Spend

LEMMA StopInv == IInv /\ Stop => IInv'
<1> SUFFICES ASSUME IInv, Stop PROVE IInv'
  OBVIOUS
<1>1. edits' \in 0..MaxEdits
  BY SpendType DEF IInv, Stop
<1>2. job' = [t \in Threads |-> None] /\ stage' = "down" /\ loose' \in BOOLEAN
      /\ UNCHANGED <<role, manage, group, drawn, user, super, default, cached>>
  BY WatchType DEF Stop, accessVars
<1>3. TypeOK'
  BY <1>1, <1>2 DEF IInv, TypeOK, Stages
<1>4. Orderly' /\ Pinned'
  BY <1>2 DEF IInv, Orderly, Pinned
<1>5. QED
  BY <1>3, <1>4 DEF IInv

LEMMA CreateRoleInv ==
  ASSUME IInv, NEW by \in Users, NEW r \in Roles, CreateRole(by, r)
  PROVE  IInv'
<1>1. edits' \in 0..MaxEdits
  BY SpendType DEF IInv, CreateRole, Edited
<1>2. role' = role \cup {r} /\ loose' \in BOOLEAN
      /\ UNCHANGED <<stage, super, cached, job, manage, group, drawn, user, default>>
  BY WatchType DEF CreateRole, Edited
<1>3. TypeOK'
  BY <1>1, <1>2 DEF IInv, TypeOK
<1>4. Orderly' /\ Pinned'
  BY <1>2 DEF IInv, Orderly, Pinned
<1>5. QED
  BY <1>3, <1>4 DEF IInv

LEMMA SetPermissionInv ==
  ASSUME IInv, NEW by \in Users, NEW r \in Roles, NEW o \in Objects, NEW value \in BOOLEAN,
         SetPermission(by, r, o, value)
  PROVE  IInv'
<1> USE AccessAssumption, ConstantFacts
<1>1. r # Super /\ manage' = [manage EXCEPT ![r][o] = value]
  BY DEF SetPermission, Editable
<1>2. manage' \in [Roles -> [Objects -> BOOLEAN \cup {None}]]
  BY <1>1 DEF IInv, TypeOK
<1>3. manage'[Super] = manage[Super]
  BY <1>1 DEF IInv, TypeOK
<1>4. UNCHANGED <<stage, super, cached, job, role, group, drawn, user, default>> /\ edits' \in 0..MaxEdits
      /\ loose' \in BOOLEAN
  BY SpendType, WatchType DEF SetPermission, Edited, IInv
<1>5. QED
  BY <1>2, <1>3, <1>4 DEF IInv, TypeOK, Orderly, Pinned

LEMMA CreateGroupInv ==
  ASSUME IInv, NEW by \in Users, CreateGroup(by)
  PROVE  IInv'
<1> USE AccessAssumption, ConstantFacts
<1>1. /\ drawn < MaxGroup /\ drawn' = drawn + 1
      /\ group' = [group EXCEPT ![drawn + 1] = None]
      /\ UNCHANGED <<stage, super, cached, job, role, manage, user, default>>
      /\ edits' \in 0..MaxEdits /\ loose' \in BOOLEAN
  <2>1. edits' \in 0..MaxEdits
    BY SpendType DEF CreateGroup, Edited, IInv
  <2>2. QED
    BY <2>1, WatchType DEF CreateGroup, Edited
<1>2. drawn \in Nat /\ drawn' \in 0..MaxGroup /\ drawn + 1 \in Groups /\ drawn + 1 # SuperGroup
  BY <1>1 DEF IInv, TypeOK, Groups, SuperGroup
<1>3. TypeOK'
  BY <1>1, <1>2 DEF IInv, TypeOK
<1>4. group'[SuperGroup] = group[SuperGroup]
  BY <1>1, <1>2 DEF IInv, TypeOK
<1>5. \A g \in Groups : g > drawn' => group'[g] = Gone
  <2>1. TAKE g \in Groups
  <2>2. HAVE g > drawn'
  <2>3. g # drawn + 1 /\ g > drawn
    BY <1>1, <1>2, <2>2 DEF Groups
  <2>4. group'[g] = group[g]
    BY <1>1, <2>3 DEF IInv, TypeOK
  <2>5. QED
    BY <2>3, <2>4 DEF IInv, Orderly
<1>6. QED
  BY <1>1, <1>3, <1>4, <1>5 DEF IInv, Orderly, Pinned

\* What is left of the invariant when one account's row changes.
LEMMA AccountInv ==
  ASSUME IInv, NEW u \in Users, NEW a \in Account \cup {None},
         u = Root => a # None /\ a.group = user[Root].group,
         user' = [user EXCEPT ![u] = a], loose' \in BOOLEAN,
         UNCHANGED <<stage, super, role, manage, group, drawn>>,
         default' \in Groups \cup {None}, cached' \in Groups \cup {None},
         edits' \in 0..MaxEdits,
         job' \in [Threads -> Job \cup {None}],
         \A t \in Threads : job'[t] \in {None, job[t]}
  PROVE  IInv'
<1> USE AccessAssumption, ConstantFacts
<1>1. TypeOK'
  BY DEF IInv, TypeOK
<1>2. Orderly'
  BY DEF IInv, Orderly
<1>3. user'[Root] = IF u = Root THEN a ELSE user[Root]
  BY DEF IInv, TypeOK
<1>4. Pinned'
  BY <1>3 DEF IInv, Pinned
<1>5. QED
  BY <1>1, <1>2, <1>4 DEF IInv

LEMMA RemoveMemberInv ==
  ASSUME IInv, NEW by \in Users, NEW g \in Groups, NEW u \in Users, RemoveMember(by, g, u)
  PROVE  IInv'
<1> USE ConstantFacts
<1> DEFINE a == [user[u] EXCEPT !.group = None]
<1>1. user[u] \in Account /\ a \in Account
  BY DEF IInv, TypeOK, RemoveMember, Account
<1>2. u # Root
  BY DEF RemoveMember, Exists, IInv, Pinned
<1>3. edits' \in 0..MaxEdits
  BY SpendType DEF IInv, RemoveMember, Edited
<1>4. user' = [user EXCEPT ![u] = a]
  BY <1>1 DEF RemoveMember, IInv, TypeOK
<1>5. QED
  BY <1>1, <1>2, <1>3, <1>4, AccountInv, WatchType, RowAssumption DEF RemoveMember, Edited, IInv, TypeOK

LEMMA ReinstateInv ==
  ASSUME IInv, NEW by \in Users, NEW u \in Users, Reinstate(by, u)
  PROVE  IInv'
<1> USE ConstantFacts
<1>1. user[u] \in Account
  BY DEF IInv, TypeOK, Reinstate
<1>2. edits' \in 0..MaxEdits
  BY SpendType DEF IInv, Reinstate, Edited
<1>3. PICK a \in Account : a.group = user[u].group /\ user' = [user EXCEPT ![u] = a]
  <2>1. CASE user' = [user EXCEPT ![u].active = TRUE]
    <3>1. [user[u] EXCEPT !.active = TRUE] \in Account
      BY <1>1 DEF Account
    <3>2. QED
      BY <1>1, <2>1, <3>1 DEF Account, IInv, TypeOK
  <2>2. CASE user' = [user EXCEPT ![u].deleted = FALSE]
    <3>1. [user[u] EXCEPT !.deleted = FALSE] \in Account
      BY <1>1 DEF Account
    <3>2. QED
      BY <1>1, <2>2, <3>1 DEF Account, IInv, TypeOK
  <2>3. QED
    BY <2>1, <2>2 DEF Reinstate
<1>4. QED
  BY <1>2, <1>3, AccountInv, WatchType, RowAssumption DEF Reinstate, Edited, IInv, TypeOK, Pinned

LEMMA EraseInv ==
  ASSUME IInv, NEW by \in Users, NEW u \in Users, Erase(by, u)
  PROVE  IInv'
<1>1. edits' \in 0..MaxEdits
  BY SpendType DEF IInv, Erase, Edited
<1>2. QED
  BY <1>1, AccountInv, WatchType DEF Erase, Edited, IInv, TypeOK

LEMMA RevokeInv ==
  ASSUME IInv, NEW u \in Users, RevokeClient(u)
  PROVE  IInv'
<1> USE ConstantFacts
<1> DEFINE a == [user[u] EXCEPT !.active = FALSE]
<1>1. user[u] \in Account
  BY DEF IInv, TypeOK, RevokeClient, Live
<1>2. a \in Account /\ a.group = user[u].group
  BY <1>1 DEF Account
<1>3. edits' \in 0..MaxEdits
  BY SpendType DEF IInv, RevokeClient, Edited
<1>4. user' = [user EXCEPT ![u] = a]
  BY DEF RevokeClient
<1> HIDE DEF a
<1>5. a # None
  BY <1>2, RowAssumption
<1>6. QED
  BY <1>2, <1>3, <1>4, <1>5, AccountInv, WatchType DEF RevokeClient, Edited, IInv, TypeOK

LEMMA AtOnceInv ==
  ASSUME IInv, NEW by \in Users, AtOnce(by)
  PROVE  IInv'
BY CreateRoleInv, SetPermissionInv, CreateGroupInv, RemoveMemberInv, ReinstateInv, EraseInv
   DEF AtOnce

\* A request that is let through is one of the harmless ones.
LEMMA BeginInv ==
  ASSUME IInv, NEW t \in Threads, NEW j \in Job, Harmless(j), up,
         job' = [job EXCEPT ![t] = j], edits' \in 0..MaxEdits,
         cached' \in {cached, None}, loose' \in BOOLEAN,
         UNCHANGED <<stage, role, manage, group, drawn, user, super, default>>
  PROVE  IInv'
<1>1. TypeOK'
  BY DEF IInv, TypeOK
<1>2. Pinned'
  BY DEF IInv, Pinned
<1>3. Orderly'
  BY DEF IInv, TypeOK, Orderly, up
<1>4. QED
  BY <1>1, <1>2, <1>3 DEF IInv

LEMMA RequestIsJob ==
  ASSUME NEW op \in {"dropRole", "setRole", "dropGroup", "move", "default"} \cup Removals,
         NEW u \in Users \cup {None}, NEW r \in Roles \cup {None}, NEW g \in Groups \cup {None}
  PROVE  /\ Request(op, u, r, g) \in Job
         /\ Request(op, u, r, g).op = op /\ Request(op, u, r, g).user = u
         /\ Request(op, u, r, g).role = r /\ Request(op, u, r, g).group = g
BY DEF Request, Job

LEMMA BeginsInv ==
  ASSUME IInv, NEW t \in Threads, NEW by \in Users, Begins(t, by)
  PROVE  IInv'
<1> USE ConstantFacts
<1>1. ASSUME NEW j \in Job, Harmless(j), up, Begin(t, j) PROVE IInv'
  <2>1. edits' \in 0..MaxEdits
    BY <1>1, SpendType DEF Begin, IInv
  <2>2. QED
    BY <1>1, <2>1, BeginInv, WatchType DEF Begin, accessVars
<1>2. ASSUME NEW r \in Roles, StartDropRole(t, by, r) PROVE IInv'
  <2>1. Request("dropRole", None, r, None) \in Job
    BY RequestIsJob
  <2>2. Harmless(Request("dropRole", None, r, None))
    BY <1>2 DEF Harmless, Request, StartDropRole, Removals
  <2>3. QED
    BY <1>1, <1>2, <2>1, <2>2 DEF StartDropRole, Allowed
<1>3. ASSUME NEW g \in Groups, NEW r \in Roles \cup {None}, StartSetRole(t, by, g, r) PROVE IInv'
  <2>1. Request("setRole", None, r, g) \in Job
    BY RequestIsJob
  <2>2. Harmless(Request("setRole", None, r, g))
    BY <1>3 DEF Harmless, Request, StartSetRole, Removals
  <2>3. QED
    BY <1>1, <1>3, <2>1, <2>2 DEF StartSetRole, Allowed
<1>4. ASSUME NEW g \in Groups, StartDefault(t, by, g) PROVE IInv'
  <2>1. Request("default", None, None, g) \in Job
    BY RequestIsJob
  <2>2. Harmless(Request("default", None, None, g))
    BY DEF Harmless, Request, Removals
  <2>3. QED
    BY <1>1, <1>4, <2>1, <2>2 DEF StartDefault, Allowed
<1>5. ASSUME NEW g \in Groups, NEW u \in Users, StartMove(t, by, g, u) PROVE IInv'
  <2>1. Request("move", u, None, g) \in Job
    BY RequestIsJob
  <2>2. Harmless(Request("move", u, None, g))
    BY <1>5 DEF Harmless, Request, StartMove, Movable, Removals
  <2>3. QED
    BY <1>1, <1>5, <2>1, <2>2 DEF StartMove, Allowed
<1>6. ASSUME NEW op \in Removals, NEW u \in Users, StartRemoval(t, by, op, u) PROVE IInv'
  <2>1. Request(op, u, None, None) \in Job
    BY RequestIsJob
  <2>2. Harmless(Request(op, u, None, None))
    BY <1>6 DEF Harmless, Request, StartRemoval, Removals
  <2>3. QED
    BY <1>1, <1>6, <2>1, <2>2 DEF StartRemoval, Allowed
<1>7. ASSUME NEW g \in Groups, StartDropGroup(t, by, g) PROVE IInv'
  <2> DEFINE q == Request("dropGroup", None, None, g)
             j == [q EXCEPT !.seen = Members(g)]
  <2>1. Members(g) \subseteq Users \ {Root}
    BY <1>7 DEF Members, StartDropGroup, Allowed, IInv, Pinned
  <2>2. j \in Job /\ j.op = "dropGroup" /\ j.group = g /\ j.seen = Members(g)
    BY <2>1 DEF Request, Job
  <2>3. Harmless(j)
    BY <1>7, <2>1, <2>2 DEF Harmless, StartDropGroup, Removals
  <2>4. edits' \in 0..MaxEdits
    BY <1>7, SpendType DEF StartDropGroup, IInv
  <2> HIDE DEF j
  <2>5. job' = [job EXCEPT ![t] = j] /\ up /\ cached' \in {cached, None}
        /\ UNCHANGED <<stage, role, manage, group, drawn, user, super, default>>
        /\ loose' \in BOOLEAN
    BY <1>7, WatchType DEF StartDropGroup, Allowed, j, accessVars
  <2>6. QED
    BY <2>2, <2>3, <2>4, <2>5, BeginInv
<1>8. QED
  BY <1>2, <1>3, <1>4, <1>5, <1>6, <1>7 DEF Begins

\* A commit of a harmless request.
LEMMA CommitsInv ==
  ASSUME IInv, NEW t \in Threads, Commits(t)
  PROVE  IInv'
<1> USE ConstantFacts
<1> DEFINE j == job[t]
<1>1. PICK op \in {"dropRole", "setRole", "dropGroup", "move", "default"} \cup Removals :
        /\ Commit(t, op)
        /\ \/ op = "dropRole" /\ DropRole(t)
           \/ op = "setRole" /\ SetRole(t)
           \/ op = "dropGroup" /\ DropGroup(t)
           \/ op = "move" /\ Move(t)
           \/ op = "default" /\ SetDefault(t)
           \/ op \in Removals /\ Remove(t, op)
  BY DEF Commits, DropRole, SetRole, DropGroup, Move, SetDefault, Remove
<1>2. /\ j # None /\ j.op = op /\ Harmless(j) /\ j \in Job /\ up
      /\ job' = [job EXCEPT ![t] = None]
      /\ UNCHANGED <<stage, super, drawn, edits>>
  BY <1>1 DEF Commit, IInv, TypeOK, Orderly, up
<1>3. /\ job' \in [Threads -> Job \cup {None}]
      /\ \A s \in Threads : job'[s] \in {None, job[s]}
      /\ edits' \in 0..MaxEdits /\ loose' \in BOOLEAN
  <2>1. loose' \in BOOLEAN
    BY <1>1, WatchType DEF DropRole, SetRole, DropGroup, Move, SetDefault, Remove
  <2>2. QED
    BY <1>2, <2>1 DEF IInv, TypeOK
<1>4. super /\ user[Root] \in Account /\ user[Root].group = SuperGroup /\ group[SuperGroup] = Super
  BY <1>2 DEF IInv, Pinned, TypeOK, up
<1> HIDE DEF j
<1>5. CASE op = "dropRole" /\ DropRole(t)
  <2>1. j.role \in Roles \ System
    BY <1>2, <1>5 DEF Harmless
  <2>2. role' \subseteq Roles /\ manage' \in [Roles -> [Objects -> BOOLEAN \cup {None}]]
        /\ manage'[Super] = manage[Super]
    <3>1. \/ UNCHANGED <<role, manage>>
          \/ role' = role \ {j.role} /\ manage' = [manage EXCEPT ![j.role] = NoRow]
      BY <1>5 DEF DropRole, j
    <3>2. NoRow \in [Objects -> BOOLEAN \cup {None}]
      BY DEF NoRow
    <3>3. CASE UNCHANGED <<role, manage>>
      BY <3>3 DEF IInv, TypeOK
    <3>4. CASE role' = role \ {j.role} /\ manage' = [manage EXCEPT ![j.role] = NoRow]
      <4> DEFINE q == j.role
      <4>1. q \in Roles /\ q # Super /\ manage' = [manage EXCEPT ![q] = NoRow]
        BY <2>1, <3>4
      <4> HIDE DEF q
      <4>2. manage \in [Roles -> [Objects -> BOOLEAN \cup {None}]] /\ role \subseteq Roles
        BY DEF IInv, TypeOK
      <4>3. QED
        BY <3>2, <3>4, <4>1, <4>2
    <3>5. QED
      BY <3>1, <3>3, <3>4
  <2>3. UNCHANGED <<group, user, default, cached>>
    BY <1>5 DEF DropRole
  <2>4. QED
    BY <1>2, <1>3, <2>2, <2>3 DEF IInv, TypeOK, Orderly, Pinned
<1>6. CASE op = "setRole" /\ SetRole(t)
  <2>1. j.group \in Groups \ {SuperGroup} /\ j.role \in Roles \cup {None}
    BY <1>2, <1>6 DEF Harmless, Job
  <2>2. /\ group' \in [Groups -> Roles \cup {None, Gone}]
        /\ group'[SuperGroup] = group[SuperGroup]
        /\ \A g \in Groups : group[g] = Gone => group'[g] = Gone
    BY <1>6, <2>1 DEF SetRole, Exists, IInv, TypeOK, j
  <2>3. UNCHANGED <<role, manage, user, default, cached>>
    BY <1>6 DEF SetRole
  <2>4. QED
    BY <1>2, <1>3, <2>2, <2>3 DEF IInv, TypeOK, Orderly, Pinned
<1>7. CASE op = "dropGroup" /\ DropGroup(t)
  <2>1. j.group \in Groups \ {SuperGroup} /\ Root \notin j.seen
    BY <1>2, <1>7 DEF Harmless
  <2>2. /\ group' \in [Groups -> Roles \cup {None, Gone}]
        /\ group'[SuperGroup] = group[SuperGroup]
        /\ \A g \in Groups : group[g] = Gone => group'[g] = Gone
        /\ default' \in Groups \cup {None}
    BY <1>7, <2>1 DEF DropGroup, IInv, TypeOK, j
  <2>3. user' \in [Users -> Account \cup {None}] /\ user'[Root] = user[Root]
    <3>1. CASE user' = [u \in Users |->
                 IF u \in j.seen THEN [user[u] EXCEPT !.group = None] ELSE user[u]]
               /\ \A u \in j.seen : user[u] # None
      <4>1. ASSUME NEW u \in Users, u \in j.seen
            PROVE  [user[u] EXCEPT !.group = None] \in Account
        BY <3>1, <4>1 DEF IInv, TypeOK, Account
      <4>2. QED
        BY <2>1, <3>1, <4>1 DEF IInv, TypeOK
    <3>2. CASE UNCHANGED user
      BY <3>2 DEF IInv, TypeOK
    <3>3. QED
      BY <1>7, <3>1, <3>2 DEF DropGroup, j
  <2>4. UNCHANGED <<role, manage, cached>>
    BY <1>7 DEF DropGroup
  <2>5. QED
    BY <1>2, <1>3, <2>2, <2>3, <2>4 DEF IInv, TypeOK, Orderly, Pinned
<1>8. CASE op = "move" /\ Move(t)
  <2>1. j.user \in Users \ {Root} /\ j.group \in Groups
    BY <1>2, <1>8 DEF Harmless
  <2>2. user' \in [Users -> Account \cup {None}] /\ user'[Root] = user[Root]
    <3>1. CASE user[j.user] # None /\ user' = [user EXCEPT ![j.user].group = j.group]
      <4>1. [user[j.user] EXCEPT !.group = j.group] \in Account
        BY <2>1, <3>1 DEF IInv, TypeOK, Account
      <4>2. QED
        BY <2>1, <3>1, <4>1 DEF IInv, TypeOK
    <3>2. CASE UNCHANGED user
      BY <3>2 DEF IInv, TypeOK
    <3>3. QED
      BY <1>8, <3>1, <3>2 DEF Move, j
  <2>3. UNCHANGED <<role, manage, group, default, cached>>
    BY <1>8 DEF Move
  <2>4. QED
    BY <1>2, <1>3, <2>2, <2>3 DEF IInv, TypeOK, Orderly, Pinned
<1>9. CASE op = "default" /\ SetDefault(t)
  <2>1. j.group \in Groups
    BY <1>2, <1>9 DEF Harmless
  <2>2. default' = j.group /\ cached' = j.group /\ UNCHANGED <<role, manage, group, user>>
    BY <1>9 DEF SetDefault, j
  <2>3. QED
    BY <1>2, <1>3, <2>1, <2>2 DEF IInv, TypeOK, Orderly, Pinned
<1>10. CASE op \in Removals /\ Remove(t, op)
  <2>1. j.user \in Users \ {Root}
    BY <1>2, <1>10 DEF Harmless
  <2>2. user' \in [Users -> Account \cup {None}] /\ user'[Root] = user[Root]
    <3>1. CASE user[j.user] = None
      BY <1>10, <3>1 DEF Remove, IInv, TypeOK, j
    <3>2. CASE user[j.user] # None
      <4> DEFINE old == user[j.user]
                 new == [old EXCEPT !.active = @ /\ op = "hide", !.deleted = @ \/ op # "suspend"]
      <4>1. old \in Account
        BY <2>1, <3>2 DEF IInv, TypeOK
      <4>2. new \in Account
        BY <4>1 DEF Account
      <4>3. user' = [user EXCEPT ![j.user] = new]
        BY <1>10, <3>2 DEF Remove, j
      <4> HIDE DEF new
      <4>4. QED
        BY <2>1, <4>2, <4>3 DEF IInv, TypeOK
    <3>3. QED
      BY <3>1, <3>2
  <2>3. UNCHANGED <<role, manage, group, default, cached>>
    BY <1>10 DEF Remove
  <2>4. QED
    BY <1>2, <1>3, <2>2, <2>3 DEF IInv, TypeOK, Orderly, Pinned
<1>11. QED
  BY <1>1, <1>5, <1>6, <1>7, <1>8, <1>9, <1>10, SMTT(30)

LEMMA StepInv == IInv /\ [Next]_vars => IInv'
<1> SUFFICES ASSUME IInv, [Next]_vars PROVE IInv'
  OBVIOUS
<1>1. CASE UNCHANGED vars
  BY <1>1 DEF vars, IInv, TypeOK, Orderly, Pinned
<1>2. CASE Starting \/ Stop
  BY <1>2, StartInv, StopInv
<1>3. CASE \E u \in Users : RevokeClient(u)
  BY <1>3, RevokeInv
<1>4. CASE \E by \in Users : AtOnce(by) \/ \E t \in Threads : Begins(t, by)
  BY <1>4, AtOnceInv, BeginsInv
<1>5. CASE \E t \in Threads : Commits(t)
  BY <1>5, CommitsInv
<1>6. QED
  BY <1>1, <1>2, <1>3, <1>4, <1>5 DEF Next

-----------------------------------------------------------------------------
(* The theorems.                                                           *)

\* The inductive invariant holds in every reachable state.
THEOREM Invariance == Spec => []IInv
<1>1. QED
  BY InitInv, StepInv, PTL DEF Spec

\* Every reachable state is well typed.
THEOREM TypeCorrect == Spec => []TypeOK
<1>1. IInv => TypeOK
  BY DEF IInv
<1>2. QED
  BY <1>1, Invariance, PTL

\* The bootstrap admin keeps its group, its role and every permission, whatever
\* managers do at the same time and whenever the portal is restarted.
THEOREM RootStays == Spec => []RootPinned
<1>1. IInv => RootPinned
  BY DEF IInv, Pinned, RootPinned, up
<1>2. QED
  BY <1>1, Invariance, PTL

\* No step of a start touches a permission row, a group's role or a user's group that
\* is set.
THEOREM EditsStay == Spec => EditsSurvive
<1> DEFINE Kept ==
       /\ \A r \in Roles, o \in Objects :
            manage[r][o] # None => manage'[r][o] = manage[r][o]
       /\ \A g \in Groups : group[g] \in Roles => group'[g] = group[g]
       /\ \A u \in Users : user[u] # None /\ user[u].group # None =>
            user'[u].group = user[u].group
<1> USE ConstantFacts
<1>1. ASSUME IInv, ~up, Starting PROVE Kept
  <2>1. CASE Seed
    BY <2>1 DEF Seed
  <2>2. CASE Promote \/ Ready
    BY <2>2 DEF Promote, Ready
  <2>3. CASE Pin
    <3>1. group' = [group EXCEPT ![SuperGroup] = Super]
          /\ user' = [user EXCEPT ![Root].group = SuperGroup] /\ UNCHANGED manage
      BY <2>3 DEF Pin
    <3>2. \A g \in Groups : group[g] \in Roles => group'[g] = group[g]
      BY <1>1, <3>1 DEF IInv, TypeOK, Pinned
    <3>3. ASSUME NEW u \in Users, user[u] # None, user[u].group # None
          PROVE  user'[u].group = user[u].group
      <4>1. CASE u = Root
        <5>1. user[Root] \in Account /\ user[Root].group = SuperGroup
          BY <1>1, <3>3, <4>1 DEF IInv, TypeOK, Pinned
        <5>2. user'[Root] = [user[Root] EXCEPT !.group = SuperGroup]
          BY <1>1, <3>1 DEF IInv, TypeOK
        <5>3. QED
          BY <4>1, <5>1, <5>2 DEF Account
      <4>2. CASE u # Root
        BY <1>1, <3>1, <4>2 DEF IInv, TypeOK
      <4>3. QED
        BY <4>1, <4>2
    <3>4. QED
      BY <3>1, <3>2, <3>3
  <2>4. ASSUME NEW w \in Users, Reduce(w) PROVE Kept
    <3>1. UNCHANGED manage
      BY <2>4 DEF Reduce
    <3>2. QED
      BY <1>1, <2>4, <3>1, ReduceInv
  <2>5. CASE Fallback
    <3>1. UNCHANGED manage
      BY <2>5 DEF Fallback
    <3>2. QED
      BY <1>1, <2>5, <3>1, FallbackInv
  <2>6. QED
    BY <1>1, <2>1, <2>2, <2>3, <2>4, <2>5 DEF Starting
<1>2. ASSUME IInv, ~up, Stop PROVE Kept
  BY <1>2 DEF Stop, accessVars
<1>3. ASSUME IInv, ~up, Next PROVE Kept
  <2>1. \A t \in Threads : ~Commits(t)
    BY <1>3 DEF IInv, Orderly, up, Commits, DropRole, SetRole, DropGroup, Move, SetDefault,
                Remove, Commit
  <2>2. \A u \in Users : ~RevokeClient(u) /\ ~AtOnce(u)
    BY <1>3 DEF RevokeClient, AtOnce, CreateRole, SetPermission, CreateGroup, RemoveMember,
                Reinstate, Erase, Allowed
  <2>3. \A u \in Users, t \in Threads : ~Begins(t, u)
    <3>1. \A u \in Users : \A o : ~Allowed(u, o)
      BY <1>3 DEF Allowed
    <3>2. QED
      BY <3>1 DEF Begins, StartDropRole, StartSetRole, StartDropGroup, StartMove, StartDefault,
                  StartRemoval
  <2>4. QED
    BY <1>1, <1>2, <1>3, <2>1, <2>2, <2>3 DEF Next
<1>4. IInv /\ [Next]_vars => [~up => Kept]_vars
  BY <1>3
<1>5. QED
  BY <1>4, Invariance, PTL DEF Spec, EditsSurvive

-----------------------------------------------------------------------------
(* Somebody manages the users.                                             *)

\* As long as the guard has seen every step since the bootstrap admin was suspended,
\* there is a manager, and one besides each account that a request is about to remove.
Guarded ==
  /\ super \/ Live(Root)
  /\ ~Live(Root) /\ ~loose =>
       /\ \E w \in Users : Manages(w)
       /\ \A t \in Threads : Removing(t) => OthersManage(job[t].user)

\* Nobody but the owner of a revoked client is suspended without a guard.
LEMMA RootLivesStep ==
  ASSUME IInv, Live(Root), Next
  PROVE  Live(Root)' \/ RevokeClient(Root)
<1> USE ConstantFacts
<1>0. /\ user[Root] \in Account /\ user \in [Users -> Account \cup {None}]
      /\ user[Root] # None /\ user[Root].active /\ ~user[Root].deleted
  BY DEF IInv, TypeOK, Live
<1>1. ASSUME user'[Root] = user[Root] PROVE Live(Root)'
  BY <1>0, <1>1 DEF Live
<1>2. ASSUME Starting PROVE Live(Root)'
  <2>1. CASE Seed \/ Promote \/ Ready
    BY <1>1, <2>1 DEF Seed, Promote, Ready
  <2>2. CASE Pin
    <3>1. user'[Root] = [user[Root] EXCEPT !.group = SuperGroup]
      BY <1>0, <2>2 DEF Pin
    <3>2. user'[Root] \in Account /\ user'[Root].active /\ ~user'[Root].deleted
      BY <1>0, <3>1 DEF Account
    <3>3. QED
      BY <3>2, RowAssumption DEF Live
  <2>3. ASSUME NEW w \in Users, Reduce(w) PROVE Live(Root)'
    BY <1>0, <2>3, ReduceInv DEF Live
  <2>4. CASE Fallback
    BY <1>0, <2>4, FallbackInv DEF Live
  <2>5. QED
    BY <1>2, <2>1, <2>2, <2>3, <2>4 DEF Starting
<1>3. ASSUME NEW u \in Users \ {Root}, NEW a, user' = [user EXCEPT ![u] = a]
      PROVE  Live(Root)'
  <2>1. user'[Root] = user[Root]
    BY <1>0, <1>3
  <2>2. QED
    BY <1>1, <2>1
<1>4. ASSUME NEW u \in Users, RevokeClient(u) PROVE Live(Root)' \/ RevokeClient(Root)
  BY <1>3, <1>4 DEF RevokeClient
<1>5. ASSUME NEW by \in Users, AtOnce(by) PROVE Live(Root)'
  <2>1. ASSUME NEW u \in Users, NEW g \in Groups, RemoveMember(by, g, u) PROVE Live(Root)'
    <3>1. u # Root
      BY <2>1 DEF RemoveMember, IInv, Pinned
    <3>2. QED
      BY <1>3, <2>1, <3>1 DEF RemoveMember
  <2>2. ASSUME NEW u \in Users, Erase(by, u) PROVE Live(Root)'
    BY <1>3, <2>2 DEF Erase
  <2>3. ASSUME NEW u \in Users, Reinstate(by, u) PROVE Live(Root)'
    <3>1. CASE u # Root
      BY <1>3, <2>3, <3>1 DEF Reinstate
    <3>2. CASE u = Root
      BY <1>0, <2>3, <3>2 DEF Reinstate
    <3>3. QED
      BY <3>1, <3>2
  <2>4. QED
    BY <1>1, <1>5, <2>1, <2>2, <2>3 DEF AtOnce, CreateRole, SetPermission, CreateGroup
<1>6. ASSUME NEW by \in Users, NEW t \in Threads, Begins(t, by) PROVE Live(Root)'
  <2>1. UNCHANGED user
    BY <1>6 DEF Begins, StartDropRole, StartSetRole, StartDropGroup, StartDefault, StartMove,
                StartRemoval, Begin, accessVars
  <2>2. QED
    BY <1>1, <2>1
<1>7. ASSUME NEW t \in Threads, Commits(t) PROVE Live(Root)'
  <2> DEFINE j == job[t]
  <2>1. CASE DropGroup(t)
    <3>1. Harmless(j) /\ j.op = "dropGroup"
      BY <2>1 DEF DropGroup, Commit, IInv, Orderly
    <3>2. Root \notin j.seen
      BY <3>1 DEF Harmless
    <3>3. user'[Root] = user[Root]
      BY <2>1, <3>2 DEF DropGroup
    <3>4. QED
      BY <1>1, <3>3
  <2>2. CASE Move(t)
    <3>1. Harmless(j) /\ j.op = "move"
      BY <2>2 DEF Move, Commit, IInv, Orderly
    <3>2. j.user \in Users \ {Root}
      BY <3>1 DEF Harmless
    <3>3. QED
      BY <1>1, <1>3, <2>2, <3>2 DEF Move
  <2>3. ASSUME NEW op \in Removals, Remove(t, op) PROVE Live(Root)'
    <3>1. Harmless(j) /\ j.op = op
      BY <2>3 DEF Remove, Commit, IInv, Orderly
    <3>2. j.user \in Users \ {Root}
      BY <3>1 DEF Harmless
    <3>3. QED
      BY <1>1, <1>3, <2>3, <3>2 DEF Remove
  <2>4. QED
    BY <1>1, <1>7, <2>1, <2>2, <2>3 DEF Commits, DropRole, SetRole, SetDefault
<1>8. CASE Stop
  BY <1>1, <1>8 DEF Stop, accessVars
<1>9. QED
  BY <1>2, <1>4, <1>5, <1>6, <1>7, <1>8 DEF Next

LEMMA WatchSays ==
  ASSUME NEW c, Watch(c), ~Live(Root)', ~loose'
  PROVE  ~loose /\ ~c
BY DEF Watch

\* A manager stays one if its row, its group's role and the role's row say so.
LEMMA ManagerKept ==
  ASSUME IInv, ~Live(Root), NEW w \in Users, Manages(w),
         Live(w)', user'[w].group = user[w].group,
         \A g \in Groups : group[g] \in Roles => group'[g] = group[g],
         \A r \in Roles : manage[r]["users"] = TRUE /\ (\E g \in Groups : group[g] = r) =>
                            manage'[r]["users"] = TRUE
  PROVE  Manages(w)'
<1> USE ConstantFacts
<1>1. w # Root /\ user[w] \in Account
  BY DEF Manages, Live, IInv, TypeOK
<1> DEFINE g == user[w].group
<1>2. g \in Groups /\ RoleOf(w) = group[g] /\ group[g] \in Roles /\ manage[group[g]]["users"] = TRUE
  BY <1>1 DEF Manages, Can, RoleOf, Account
<1>3. group'[g] = group[g] /\ manage'[group[g]]["users"] = TRUE
  BY <1>2
<1> HIDE DEF g
<1>4. RoleOf(w)' = group'[g]
  <2>1. user'[w].group = g /\ g # None
    BY <1>2 DEF g
  <2>2. QED
    BY <1>1, <2>1 DEF RoleOf
<1>5. Can(w, "users")'
  BY <1>2, <1>3, <1>4 DEF Can
<1>6. QED
  BY <1>5 DEF Manages

\* What the guard promises lasts as long as no manager goes and each request that
\* removes somebody has been checked.
LEMMA GuardLasts ==
  ASSUME Guarded, ~Live(Root), ~loose,
         \A w \in Users : Manages(w) => Manages(w)',
         \A t \in Threads : Removing(t)' =>
           \E w \in Users : w # job'[t].user /\ Manages(w)
  PROVE  /\ \E w \in Users : Manages(w)'
         /\ \A t \in Threads : Removing(t)' => OthersManage(job[t].user)'
BY DEF Guarded, OthersManage

\* A step that leaves users, groups and permissions as they are, or adds to them.
LEMMA MoreAccess ==
  ASSUME IInv, Guarded, ~Live(Root), ~loose,
         \A u \in Users : Live(u) /\ user[u].group # None =>
                            Live(u)' /\ user'[u].group = user[u].group,
         \A g \in Groups : group[g] \in Roles => group'[g] = group[g],
         \A r \in Roles : manage[r]["users"] = TRUE /\ (\E g \in Groups : group[g] = r) =>
                            manage'[r]["users"] = TRUE,
         \A t \in Threads : Removing(t)' =>
           \E w \in Users : w # job'[t].user /\ Manages(w)
  PROVE  /\ \E w \in Users : Manages(w)'
         /\ \A t \in Threads : Removing(t)' => OthersManage(job[t].user)'
<1>1. ASSUME NEW w \in Users, Manages(w) PROVE Manages(w)'
  <2>1. Live(w) /\ w # Root
    BY <1>1 DEF Manages
  <2>2. user[w].group # None
    BY <1>1, <2>1, ConstantFacts DEF Manages, Can, RoleOf
  <2>3. QED
    BY <1>1, <2>1, <2>2, ManagerKept
<1>2. QED
  BY <1>1, GuardLasts

\* The managers a start finds stay managers.
LEMMA StartingGuarded ==
  ASSUME IInv, Guarded, Starting, ~Live(Root), ~loose
  PROVE  /\ \E w \in Users : Manages(w)'
         /\ \A t \in Threads : Removing(t)' => OthersManage(job[t].user)'
<1> USE ConstantFacts
<1>1. stage # "up" /\ UNCHANGED job
  BY DEF Starting, Seed, Promote, Pin, Reduce, Fallback, Ready, Passes
<1>2. \A t \in Threads : ~Removing(t)'
  BY <1>1 DEF IInv, Orderly, Removing
<1>3. CASE Seed
  <2>1. UNCHANGED <<user, group>>
        /\ manage' = [r \in Roles |-> [o \in Objects |->
             IF r \in System /\ manage[r][o] = None THEN Seeded(r, o) ELSE manage[r][o]]]
    BY <1>3 DEF Seed
  <2>2. "users" \in Objects /\ None # TRUE
    BY AccessAssumption DEF Guards
  <2>3. \A r \in Roles : manage[r]["users"] = TRUE => manage'[r]["users"] = TRUE
    BY <2>1, <2>2
  <2>4. \A u \in Users : Live(u) => Live(u)' /\ user'[u].group = user[u].group
    BY <2>1 DEF Live
  <2>5. QED
    BY <1>2, <2>1, <2>3, <2>4, MoreAccess
<1>4. CASE Promote \/ Ready
  <2>1. UNCHANGED <<user, group, manage>>
    BY <1>4 DEF Promote, Ready
  <2>2. \A u \in Users : Live(u) => Live(u)' /\ user'[u].group = user[u].group
    BY <2>1 DEF Live
  <2>3. QED
    BY <1>2, <2>1, <2>2, MoreAccess
<1>5. CASE Pin
  <2>1. group' = [group EXCEPT ![SuperGroup] = Super]
        /\ user' = [user EXCEPT ![Root].group = SuperGroup] /\ UNCHANGED manage
    BY <1>5 DEF Pin
  <2>2. \A g \in Groups : group[g] \in Roles => group'[g] = group[g]
    BY <2>1 DEF IInv, TypeOK, Pinned
  <2>3. \A u \in Users : Live(u) => Live(u)' /\ user'[u].group = user[u].group
    <3>1. TAKE u \in Users
    <3>2. HAVE Live(u)
    <3>3. u # Root
      BY <3>2
    <3>4. user'[u] = user[u]
      BY <2>1, <3>3 DEF IInv, TypeOK
    <3>5. QED
      BY <3>2, <3>4 DEF Live
  <2>4. QED
    BY <1>2, <2>1, <2>2, <2>3, MoreAccess
<1>6. ASSUME NEW v \in Users, Reduce(v)
      PROVE  /\ \E w \in Users : Manages(w)'
             /\ \A t \in Threads : Removing(t)' => OthersManage(job[t].user)'
  <2>1. UNCHANGED manage
    BY <1>6 DEF Reduce
  <2>2. /\ \A g \in Groups : group[g] \in Roles => group'[g] = group[g]
        /\ \A u \in Users : user[u] # None /\ user[u].group # None => user'[u] = user[u]
    BY <1>6, ReduceInv
  <2>3. \A u \in Users : Live(u) /\ user[u].group # None =>
                           Live(u)' /\ user'[u].group = user[u].group
    BY <2>2 DEF Live
  <2>4. QED
    BY <1>2, <2>1, <2>2, <2>3, MoreAccess
<1>7. CASE Fallback
  <2>1. UNCHANGED manage
    BY <1>7 DEF Fallback
  <2>2. /\ \A g \in Groups : group[g] \in Roles => group'[g] = group[g]
        /\ \A u \in Users : user[u] # None /\ user[u].group # None => user'[u] = user[u]
    BY <1>7, FallbackInv
  <2>3. \A u \in Users : Live(u) /\ user[u].group # None =>
                           Live(u)' /\ user'[u].group = user[u].group
    BY <2>2 DEF Live
  <2>4. QED
    BY <1>2, <2>1, <2>2, <2>3, MoreAccess
<1>8. QED
  BY <1>3, <1>4, <1>5, <1>6, <1>7 DEF Starting

\* Only the bootstrap admin's own client takes it out, and then the guard's promise
\* was looked at; afterwards every step that no guard watches ends it.
LEMMA GuardedStep ==
  ASSUME IInv, Guarded, Next
  PROVE  Guarded'
<1> USE ConstantFacts
<1> DEFINE P == /\ \E w \in Users : Manages(w)'
                /\ \A t \in Threads : Removing(t)' => OthersManage(job[t].user)'
<1>1. super => super'
  <2>1. ASSUME Starting PROVE super => super'
    BY <2>1 DEF Starting, Seed, Promote, Pin, Reduce, Fallback, Ready
  <2>2. ASSUME NEW by \in Users, AtOnce(by) PROVE super => super'
    BY <2>2 DEF AtOnce, Edited, CreateRole, SetPermission, CreateGroup, RemoveMember,
                Reinstate, Erase
  <2>3. ASSUME NEW t \in Threads, NEW by \in Users, Begins(t, by) PROVE super => super'
    BY <2>3 DEF Begins, Begin, StartDropRole, StartSetRole, StartDropGroup, StartMove,
                StartDefault, StartRemoval, accessVars
  <2>4. ASSUME NEW t \in Threads, Commits(t) PROVE super => super'
    BY <2>4 DEF Commits, Commit, DropRole, SetRole, DropGroup, Move, SetDefault, Remove
  <2>5. ASSUME NEW u \in Users, RevokeClient(u) PROVE super => super'
    BY <2>5 DEF RevokeClient, Edited
  <2>6. QED
    BY <2>1, <2>2, <2>3, <2>4, <2>5 DEF Next, Stop, accessVars
<1>2. super' \/ Live(Root)'
  <2>1. CASE super
    BY <1>1, <2>1
  <2>2. CASE ~super
    <3>1. Live(Root) /\ ~up
      BY <2>2 DEF Guarded, IInv, Pinned, up
    <3>2. ~RevokeClient(Root)
      BY <3>1 DEF RevokeClient
    <3>3. QED
      BY <3>1, <3>2, RootLivesStep
  <2>3. QED
    BY <2>1, <2>2
<1>3. ASSUME ~Live(Root)', ~loose', Live(Root) PROVE P
  <2>1. RevokeClient(Root)
    BY <1>3, RootLivesStep
  <2>2. user' = [user EXCEPT ![Root].active = FALSE]
        /\ UNCHANGED <<role, manage, group, drawn, default, job, super>>
        /\ Watch(Root # Root \/ ~OthersManage(Root) \/ \E t \in Threads : Removing(t))
    BY <2>1 DEF RevokeClient, Edited
  <2>3. OthersManage(Root) /\ \A t \in Threads : ~Removing(t)
    BY <1>3, <2>2, WatchSays
  <2>4. PICK w \in Users \ {Root} : Manages(w)
    BY <2>3 DEF OthersManage
  <2>5. user'[w] = user[w]
    BY <2>2, <2>4 DEF IInv, TypeOK
  <2>6. Manages(w)'
    BY <2>2, <2>4, <2>5 DEF Manages, Live, Can, RoleOf
  <2>7. \A t \in Threads : ~Removing(t)'
    BY <2>2, <2>3 DEF Removing
  <2>8. QED
    BY <2>6, <2>7
<1>4. ASSUME ~Live(Root)', ~loose', ~Live(Root) PROVE P
  <2>1. ASSUME NEW c, Watch(c) PROVE ~loose /\ ~c
    BY <1>4, <2>1, WatchSays
  <2>2. ASSUME ~loose, UNCHANGED <<user, group>>,
               \A r \in Roles : manage[r]["users"] = TRUE /\ (\E g \in Groups : group[g] = r) =>
                                  manage'[r]["users"] = TRUE,
               \A t \in Threads : Removing(t)' =>
                 \E w \in Users : w # job'[t].user /\ Manages(w)
        PROVE  P
    <3>1. \A u \in Users : Live(u) => Live(u)' /\ user'[u].group = user[u].group
      BY <2>2 DEF Live
    <3>2. QED
      BY <1>4, <2>2, <3>1, MoreAccess
  <2>3. ASSUME ~loose, UNCHANGED job
        PROVE  \A t \in Threads : Removing(t)' =>
                 \E w \in Users : w # job'[t].user /\ Manages(w)
    BY <1>4, <2>3 DEF Guarded, Removing, OthersManage
  <2>4. ASSUME Starting PROVE P
    <3>1. Watch(FALSE)
      BY <2>4 DEF Starting, Seed, Promote, Pin, Reduce, Fallback, Ready
    <3>2. QED
      BY <1>4, <2>1, <2>4, <3>1, StartingGuarded
  <2>5. ASSUME Stop PROVE P
    <3>1. Watch(FALSE) /\ UNCHANGED <<user, group, manage>> /\ \A t \in Threads : ~Removing(t)'
      BY <2>5 DEF Stop, accessVars, Removing
    <3>2. QED
      BY <2>1, <2>2, <3>1
  <2>6. ASSUME NEW u \in Users, RevokeClient(u) PROVE P
    <3>1. u # Root
      BY <1>4, <2>6 DEF RevokeClient
    <3>2. Watch(u # Root \/ ~OthersManage(Root) \/ \E t \in Threads : Removing(t))
      BY <2>6 DEF RevokeClient
    <3>3. QED
      BY <2>1, <3>1, <3>2
  <2>7. ASSUME NEW by \in Users, AtOnce(by) PROVE P
    <3>1. ASSUME NEW r \in Roles, CreateRole(by, r) PROVE P
      <4>1. Watch(FALSE) /\ UNCHANGED <<user, group, manage, job>>
        BY <3>1 DEF CreateRole, Edited
      <4>2. QED
        BY <2>1, <2>2, <2>3, <4>1
    <3>2. ASSUME NEW r \in Roles, NEW o \in Objects, NEW value \in BOOLEAN,
                 SetPermission(by, r, o, value)
          PROVE  P
      <4>1. Watch(~value) /\ UNCHANGED <<user, group, job>>
            /\ manage' = [manage EXCEPT ![r][o] = value]
        BY <3>2 DEF SetPermission, Edited
      <4>2. ~loose /\ value = TRUE
        BY <2>1, <4>1
      <4>3. \A q \in Roles : manage[q]["users"] = TRUE => manage'[q]["users"] = TRUE
        BY <4>1, <4>2, AccessAssumption DEF IInv, TypeOK, Guards
      <4>4. QED
        BY <2>2, <2>3, <4>1, <4>2, <4>3
    <3>3. CASE CreateGroup(by)
      <4>1. Watch(FALSE) /\ UNCHANGED <<user, manage, job>> /\ drawn < MaxGroup
            /\ group' = [group EXCEPT ![drawn + 1] = None]
        BY <3>3 DEF CreateGroup, Edited
      <4>2. drawn \in Nat /\ drawn + 1 \in Groups
        BY <4>1, AccessAssumption DEF IInv, TypeOK, Groups
      <4>3. group[drawn + 1] = Gone
        BY <4>2 DEF IInv, Orderly
      <4>4. \A g \in Groups : group[g] \in Roles => group'[g] = group[g]
        BY <4>1, <4>3 DEF IInv, TypeOK
      <4>5. \A u \in Users : Live(u) => Live(u)' /\ user'[u].group = user[u].group
        BY <4>1 DEF Live
      <4>6. ~loose
        BY <2>1, <4>1
      <4>7. QED
        BY <1>4, <2>3, <4>1, <4>4, <4>5, <4>6, MoreAccess
    <3>4. ASSUME NEW g \in Groups, NEW u \in Users, RemoveMember(by, g, u) PROVE P
      BY <2>1, <3>4 DEF RemoveMember
    <3>5. ASSUME NEW u \in Users, Reinstate(by, u) PROVE P
      <4>1. Watch(FALSE) /\ UNCHANGED <<group, manage, job>>
            /\ \/ user' = [user EXCEPT ![u].active = TRUE]
               \/ user' = [user EXCEPT ![u].deleted = FALSE]
        BY <3>5 DEF Reinstate, Edited
      <4>2. user[u] \in Account
        BY <3>5 DEF Reinstate, IInv, TypeOK
      <4>3. ASSUME NEW v \in Users, Live(v) PROVE Live(v)' /\ user'[v].group = user[v].group
        <5>1. CASE v # u
          <6>1. user'[v] = user[v]
            BY <4>1, <5>1 DEF IInv, TypeOK
          <6>2. QED
            BY <4>3, <6>1 DEF Live
        <5>2. CASE v = u
          <6>1. user'[u] \in {[user[u] EXCEPT !.active = TRUE], [user[u] EXCEPT !.deleted = FALSE]}
            BY <4>1 DEF IInv, TypeOK
          <6>2. /\ user'[u] \in Account /\ user'[u].group = user[u].group
                /\ user'[u].active /\ ~user'[u].deleted
            BY <4>2, <4>3, <5>2, <6>1 DEF Account, Live
          <6>3. QED
            BY <5>2, <6>2, RowAssumption DEF Live
        <5>3. QED
          BY <5>1, <5>2
      <4>4. ~loose
        BY <2>1, <4>1
      <4>5. QED
        BY <1>4, <2>3, <4>1, <4>3, <4>4, MoreAccess
    <3>6. ASSUME NEW u \in Users, Erase(by, u) PROVE P
      <4>1. Watch(FALSE) /\ UNCHANGED <<group, manage, job>> /\ user[u].deleted
            /\ user' = [user EXCEPT ![u] = None]
        BY <3>6 DEF Erase, Edited
      <4>2. ASSUME NEW v \in Users, Live(v) PROVE Live(v)' /\ user'[v].group = user[v].group
        <5>1. v # u
          BY <4>1, <4>2 DEF Live
        <5>2. user'[v] = user[v]
          BY <4>1, <5>1 DEF IInv, TypeOK
        <5>3. QED
          BY <4>2, <5>2 DEF Live
      <4>3. ~loose
        BY <2>1, <4>1
      <4>4. QED
        BY <1>4, <2>3, <4>1, <4>2, <4>3, MoreAccess
    <3>7. QED
      BY <2>7, <3>1, <3>2, <3>3, <3>4, <3>5, <3>6 DEF AtOnce
  <2>8. ASSUME NEW by \in Users, NEW t \in Threads, Begins(t, by) PROVE P
    <3>1. ASSUME NEW j, job' = [job EXCEPT ![t] = j], Watch(FALSE),
                 UNCHANGED <<user, group, manage>>,
                 j.op \in Removals => \E w \in Users : w # j.user /\ Manages(w)
          PROVE  P
      <4>1. ~loose
        BY <2>1, <3>1
      <4>2. ASSUME NEW s \in Threads, Removing(s)'
            PROVE  \E w \in Users : w # job'[s].user /\ Manages(w)
        <5>1. CASE s = t
          BY <3>1, <4>2, <5>1 DEF Removing, IInv, TypeOK
        <5>2. CASE s # t
          <6>1. job'[s] = job[s]
            BY <3>1, <5>2 DEF IInv, TypeOK
          <6>2. Removing(s)
            BY <4>2, <6>1 DEF Removing
          <6>3. QED
            BY <1>4, <4>1, <6>1, <6>2 DEF Guarded, OthersManage
        <5>3. QED
          BY <5>1, <5>2
      <4>3. QED
        BY <2>2, <3>1, <4>1, <4>2
    <3>2. ASSUME NEW op \in Removals, NEW u \in Users, StartRemoval(t, by, op, u) PROVE P
      <4> DEFINE j == Request(op, u, None, None)
      <4>1. job' = [job EXCEPT ![t] = j] /\ Watch(FALSE) /\ UNCHANGED <<user, group, manage>>
        BY <3>2 DEF StartRemoval, Begin, accessVars
      <4>2. Manages(by) /\ (Can(u, "users") => by # u)
        BY <3>2 DEF StartRemoval, MayRemove, Allowed, Manages
      <4>3. j.user = u /\ by # u
        BY <4>2 DEF Manages, Request
      <4> HIDE DEF j
      <4>4. QED
        BY <3>1, <4>1, <4>2, <4>3
    <3>3. ASSUME NEW j, Begin(t, j), j.op \notin Removals PROVE P
      BY <3>1, <3>3 DEF Begin, accessVars
    <3>4. ASSUME NEW r \in Roles, StartDropRole(t, by, r) PROVE P
      BY <3>3, <3>4 DEF StartDropRole, Request, Removals
    <3>5. ASSUME NEW g \in Groups, NEW r \in Roles \cup {None}, StartSetRole(t, by, g, r) PROVE P
      BY <3>3, <3>5 DEF StartSetRole, Request, Removals
    <3>6. ASSUME NEW g \in Groups, StartDefault(t, by, g) PROVE P
      BY <3>3, <3>6 DEF StartDefault, Request, Removals
    <3>7. ASSUME NEW g \in Groups, NEW u \in Users, StartMove(t, by, g, u) PROVE P
      BY <3>3, <3>7 DEF StartMove, Request, Removals
    <3>8. ASSUME NEW g \in Groups, StartDropGroup(t, by, g) PROVE P
      <4> DEFINE j == [Request("dropGroup", None, None, g) EXCEPT !.seen = Members(g)]
      <4>1. job' = [job EXCEPT ![t] = j] /\ Watch(FALSE) /\ UNCHANGED <<user, group, manage>>
        BY <3>8 DEF StartDropGroup, accessVars
      <4>2. j.op \notin Removals
        BY DEF Request, Removals
      <4> HIDE DEF j
      <4>3. QED
        BY <3>1, <4>1, <4>2
    <3>9. QED
      BY <2>8, <3>2, <3>4, <3>5, <3>6, <3>7, <3>8 DEF Begins
  <2>9. ASSUME NEW t \in Threads, Commits(t) PROVE P
    <3>1. CASE SetRole(t) \/ DropGroup(t) \/ Move(t)
      <4>1. Watch(TRUE)
        BY <3>1 DEF SetRole, DropGroup, Move
      <4>2. QED
        BY <2>1, <4>1
    <3>2. ASSUME ~loose, job' = [job EXCEPT ![t] = None]
          PROVE  \A s \in Threads : Removing(s)' =>
                   \E w \in Users : w # job'[s].user /\ Manages(w)
      <4>1. TAKE s \in Threads
      <4>2. HAVE Removing(s)'
      <4>3. job'[s] = job[s]
        BY <3>2, <4>2 DEF Removing, IInv, TypeOK
      <4>4. Removing(s)
        BY <4>2, <4>3 DEF Removing
      <4>5. QED
        BY <1>4, <3>2, <4>3, <4>4 DEF Guarded, OthersManage
    <3>3. CASE SetDefault(t)
      <4>1. Watch(FALSE) /\ UNCHANGED <<user, group, manage>> /\ job' = [job EXCEPT ![t] = None]
        BY <3>3 DEF SetDefault, Commit
      <4>2. QED
        BY <2>1, <2>2, <3>2, <4>1
    <3>4. CASE DropRole(t)
      <4> DEFINE q == job[t].role
      <4>1. /\ Watch(FALSE) /\ UNCHANGED <<user, group>> /\ job' = [job EXCEPT ![t] = None]
            /\ \/ UNCHANGED manage
               \/ /\ manage' = [manage EXCEPT ![q] = NoRow]
                  /\ ~\E g \in Groups : group[g] = q
        BY <3>4 DEF DropRole, Commit
      <4> HIDE DEF q
      <4>2. \A r \in Roles : manage[r]["users"] = TRUE /\ (\E g \in Groups : group[g] = r) =>
                               manage'[r]["users"] = TRUE
        BY <4>1 DEF IInv, TypeOK
      <4>3. QED
        BY <2>1, <2>2, <3>2, <4>1, <4>2
    <3>5. ASSUME NEW op \in Removals, Remove(t, op) PROVE P
      <4> DEFINE u == job[t].user
                 b == \E s \in Threads \ {t} : Removing(s)
      <4>1. /\ Watch(b) /\ UNCHANGED <<group, manage, super>>
            /\ job' = [job EXCEPT ![t] = None] /\ Removing(t)
        BY <3>5 DEF Remove, Commit, Removing
      <4>2. ~loose /\ ~b
        BY <2>1, <4>1
      <4>3. \A s \in Threads : ~Removing(s)'
        BY <4>1, <4>2 DEF Removing, IInv, TypeOK
      <4>4. PICK w \in Users : w # u /\ Manages(w)
        BY <1>4, <4>1, <4>2 DEF Guarded, OthersManage
      <4>5. user'[w] = user[w]
        BY <3>5, <4>4 DEF Remove, IInv, TypeOK
      <4>6. Manages(w)'
        BY <4>1, <4>4, <4>5 DEF Manages, Live, Can, RoleOf
      <4>7. QED
        BY <4>3, <4>6
    <3>6. QED
      BY <2>9, <3>1, <3>3, <3>4, <3>5 DEF Commits
  <2>10. QED
    BY <2>4, <2>5, <2>6, <2>7, <2>8, <2>9 DEF Next
<1>5. QED
  BY <1>2, <1>3, <1>4 DEF Guarded

\* Somebody can always manage users, for any users, roles and groups and whoever owns
\* a VPN client, but for the exception that SomeoneManages names.
THEOREM RootManages == Spec => []SomeoneManages
<1>1. Init => Guarded
  <2> SUFFICES ASSUME Init PROVE Guarded
    OBVIOUS
  <2>1. user[Root] = [active |-> TRUE, deleted |-> FALSE, group |-> None] /\ IInv
    BY InitInv, ConstantFacts DEF Init
  <2>2. Live(Root)
    BY <2>1 DEF Live, IInv, Pinned
  <2>3. QED
    BY <2>2 DEF Guarded
<1>2. IInv /\ Guarded /\ [Next]_vars => Guarded'
  <2> SUFFICES ASSUME IInv, Guarded, [Next]_vars PROVE Guarded'
    OBVIOUS
  <2>1. CASE Next
    BY <2>1, GuardedStep
  <2>2. CASE UNCHANGED vars
    BY <2>2 DEF vars, Guarded, Live, Manages, Can, RoleOf, Removing, OthersManage
  <2>3. QED
    BY <2>1, <2>2
<1>3. IInv /\ Guarded => SomeoneManages
  <2> SUFFICES ASSUME IInv, Guarded, up, ~loose PROVE \E u \in Users : Manages(u)
    BY DEF SomeoneManages
  <2>1. CASE Live(Root)
    <3>1. "users" \in Objects
      BY AccessAssumption DEF Guards
    <3>2. super /\ manage[Super]["users"] = TRUE
      BY <3>1 DEF IInv, Pinned, up
    <3>3. Can(Root, "users")
      BY <3>2, ConstantFacts DEF Can, RoleOf
    <3>4. QED
      BY <2>1, <3>3, ConstantFacts DEF Manages
  <2>2. CASE ~Live(Root)
    BY <2>2 DEF Guarded
  <2>3. QED
    BY <2>1, <2>2
<1>4. QED
  BY <1>1, <1>2, <1>3, Invariance, PTL DEF Spec
=============================================================================
