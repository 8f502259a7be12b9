------------------------ MODULE PortalService_proofs ------------------------
(***************************************************************************)
(* Proofs about PortalService: what holds of the settings, the mail        *)
(* profiles, the notices, the restrictions, the answers that are kept and  *)
(* the lists of places, however their work and restarts interleave.        *)
(*                                                                         *)
(* Each part has an invariant of its own and a lemma that says which of    *)
(* the portal's steps touch its state; one lemma for the steps of the part *)
(* follows, then the theorem.                                              *)
(***************************************************************************)
EXTENDS PortalService, FiniteSetTheorems, SequenceTheorems, TLAPS

-----------------------------------------------------------------------------
(* The settings *)

\* Where no two saves have overlapped: one save at most is under way, it holds
\* the row it has read, and the copies differ from the row only while it is
\* between its commit and its writing of them.
SaverShape ==
  /\ DOMAIN saver = Saver
  /\ \A s \in Saver :
       /\ DOMAIN saver[s] = {"pc", "changes", "read"}
       /\ saver[s].pc \in {"rest", "commit", "fetch", "derive", "file"}

OneSave == \A s, t \in Saver : Saving(s) /\ Saving(t) => s = t

CopiesKept ==
  /\ \A s \in Saver : saver[s].pc = "derive" => saver[s].read = row
  /\ (\A s \in Saver : saver[s].pc \notin {"fetch", "derive"}) => cache = row
  /\ (\A s \in Saver : saver[s].pc \in {"rest", "commit"}) => behind \/ file = row.enforce

SettingsInv ==
  SaverShape /\ behind \in BOOLEAN /\ mixed \in BOOLEAN /\ (mixed \/ (OneSave /\ CopiesKept))

LEMMA SettingsFrame ==
  ASSUME [Next]_vars
  PROVE  \/ Refreshed
         \/ \E s \in Saver : SettingsStep(s)
         \/ UNCHANGED <<row, cache, file, saver, behind, mixed>>
  BY SMT DEF Next, vars, dataVars, settingsVars, Restart, BootStep, Adopt, Serve, Copy, PassOver,
     Settle, SettleSlack, SaveSlack, Manage, Watch, World, Confine, Report, Looping, Outside,
     Elapse, Browse, Browsing, Building, Renew

LEMMA SettingsKept ==
  ASSUME SettingsInv, NEW s \in Saver, SettingsStep(s)
  PROVE  SettingsInv'
<1>1. ASSUME NEW body \in Bodies, Begin(s, body) PROVE SettingsInv'
  <2>1. SaverShape' /\ mixed' \in BOOLEAN /\ behind' = behind
    BY <1>1, SMT DEF SettingsInv, Begin, SaverShape
  <2>2. ASSUME ~mixed' PROVE OneSave' /\ CopiesKept'
    <3>1. ~mixed /\ \A t \in Saver : ~Saving(t)
      BY <1>1, <2>2 DEF Begin, SettingsInv
    <3>2. \A t \in Saver : t # s => saver'[t] = saver[t]
      BY <1>1, SMT DEF Begin, SettingsInv, SaverShape
    <3>3. saver'[s].pc = "commit" /\ UNCHANGED <<row, cache, file, behind>>
      BY <1>1, SMT DEF Begin, SettingsInv, SaverShape
    <3> QED BY <3>1, <3>2, <3>3, SMT DEF SettingsInv, OneSave, CopiesKept, Saving
  <2> QED BY <2>1, <2>2 DEF SettingsInv
<1>2. CASE CommitSave(s)
  BY <1>2, SMT DEF SettingsInv, SaverShape, OneSave, CopiesKept, CommitSave, Saving
<1>3. CASE Fetch(s)
  BY <1>3, SMT DEF SettingsInv, SaverShape, OneSave, CopiesKept, Fetch, Saving
<1>4. CASE Derive(s)
  BY <1>4, SMT DEF SettingsInv, SaverShape, OneSave, CopiesKept, Derive, Saving
<1>5. CASE WriteDefaults(s)
  <2>1. /\ saver[s].pc = "file" /\ saver' = [saver EXCEPT ![s] = Resting]
        /\ UNCHANGED <<row, cache, mixed>>
        /\ behind' \in BOOLEAN /\ (behind' \/ file' = cache.enforce)
    BY <1>5 DEF WriteDefaults, FileGets
  <2>2. DOMAIN Resting = {"pc", "changes", "read"} /\ Resting.pc = "rest"
    BY DEF Resting
  <2>3. SaverShape' /\ saver'[s].pc = "rest" /\ \A t \in Saver : t # s => saver'[t] = saver[t]
    BY <2>1, <2>2 DEF SettingsInv, SaverShape
  <2>4. ASSUME ~mixed PROVE OneSave' /\ CopiesKept'
    <3>1. \A t \in Saver : t # s => saver[t].pc = "rest"
      BY <2>1, <2>4 DEF SettingsInv, OneSave, Saving
    <3>2. cache = row
      BY <2>1, <2>4, <3>1 DEF SettingsInv, CopiesKept
    <3> QED BY <2>1, <2>3, <3>1, <3>2 DEF OneSave, CopiesKept, Saving
  <2> QED BY <2>1, <2>3, <2>4 DEF SettingsInv
<1> QED BY <1>1, <1>2, <1>3, <1>4, <1>5 DEF SettingsStep

LEMMA SettingsInvariant == Spec => []SettingsInv
<1>1. Init => SettingsInv
  <2> SUFFICES ASSUME Init PROVE SettingsInv
    OBVIOUS
  <2>1. saver = [s \in Saver |-> Resting] /\ behind = FALSE /\ mixed = FALSE /\ cache = row
        /\ file = row.enforce
    BY DEF Init, SettingsInit
  <2>2. DOMAIN Resting = {"pc", "changes", "read"} /\ Resting.pc = "rest"
    BY DEF Resting
  <2>3. SaverShape
    BY <2>1, <2>2 DEF SaverShape
  <2>4. OneSave /\ CopiesKept
    BY <2>1, <2>2 DEF OneSave, CopiesKept, Saving
  <2> QED BY <2>1, <2>3, <2>4 DEF SettingsInv
<1>2. SettingsInv /\ [Next]_vars => SettingsInv'
  <2> SUFFICES ASSUME SettingsInv, [Next]_vars PROVE SettingsInv'
    OBVIOUS
  <2>1. CASE Refreshed
    <3>1. saver' = [s \in Saver |-> Resting] /\ mixed' = FALSE /\ cache' = row'
          /\ behind' \in BOOLEAN /\ (behind' \/ file' = row'.enforce)
      BY <2>1 DEF Refreshed, FileGets
    <3>2. DOMAIN Resting = {"pc", "changes", "read"} /\ Resting.pc = "rest"
      BY DEF Resting
    <3>3. SaverShape'
      BY <3>1, <3>2 DEF SaverShape
    <3>4. OneSave' /\ CopiesKept'
      BY <3>1, <3>2 DEF OneSave, CopiesKept, Saving
    <3> QED BY <3>1, <3>3, <3>4 DEF SettingsInv
  <2>2. CASE \E s \in Saver : SettingsStep(s)
    BY <2>2, SettingsKept
  <2>3. CASE UNCHANGED <<row, cache, file, saver, behind, mixed>>
    BY <2>3 DEF SettingsInv, SaverShape, OneSave, CopiesKept, Saving
  <2> QED BY <2>1, <2>2, <2>3, SettingsFrame
<1> QED BY <1>1, <1>2, PTL DEF Spec

\* Whoever saves when and however often the portal starts: when no save is
\* under way and none has overlapped another since the start, the portal's
\* copy is that of the row, and so is the enforcer's file, unless the last
\* attempt to write it failed (settings.py, app_settings.refresh_from_row,
\* policy_store.write_global_defaults).
THEOREM CopiesFollow == Spec => []CacheFollows
<1>1. SettingsInv => CacheFollows
  BY SMT DEF SettingsInv, SaverShape, OneSave, CopiesKept, CacheFollows, Saving
<1> QED BY <1>1, SettingsInvariant, PTL

-----------------------------------------------------------------------------
(* The mail profiles *)

ClerkShape ==
  /\ DOMAIN clerk = Clerk
  /\ \A k \in Clerk :
       /\ DOMAIN clerk[k] = {"op", "p", "first", "active", "clears"}
       /\ clerk[k].op \in {"free", "create", "update", "clear", "promote", "delete"}
       /\ clerk[k].first \in BOOLEAN /\ clerk[k].active \in BOOLEAN
       /\ Busy(k) => clerk[k].p \in Provider

OneRequest == \A k, l \in Clerk : Busy(k) /\ Busy(l) => k = l

OneMain == Known = {} \/ \E p \in Known : Main = {p}

\* What a request that nobody overtakes has read is still so.
RequestFits(k) ==
  /\ clerk[k].op = "create" => clerk[k].p \notin Known /\ (clerk[k].first <=> Known = {})
  /\ clerk[k].op = "update" => clerk[k].p \in Known
  /\ clerk[k].op \in {"clear", "promote", "delete"} => clerk[k].p \in Known \ Main
  /\ clerk[k].op = "promote" => clerk[k].clears = Main

Profile == [known : BOOLEAN, active : BOOLEAN, main : BOOLEAN]

ProfilesInv ==
  /\ prov \in [Provider -> Profile]
  /\ ClerkShape
  /\ boot # "up" => \A k \in Clerk : ~Busy(k)
  /\ clash \in BOOLEAN
  /\ clash \/ (OneRequest /\ OneMain /\ \A k \in Clerk : RequestFits(k))

LEMMA ProfilesFrame ==
  ASSUME [Next]_vars
  PROVE  \/ Restart
         \/ Adopt
         \/ \E k \in Clerk : boot = "up" /\ boot' = boot /\ ProviderStep(k)
         \/ UNCHANGED provVars /\ (boot' = boot \/ boot' = "up")
  BY SMT DEF Next, vars, dataVars, bootVars, BootStep, Serve, Copy, PassOver, Up,
     Settle, SettleSlack, Manage, Watch, World, Confine, Report, Looping, Outside,
     Elapse, Browse, Browsing, Building, Renew

LEMMA FreeShape ==
  /\ DOMAIN Free = {"op", "p", "first", "active", "clears"}
  /\ Free.op = "free" /\ Free.first = FALSE /\ Free.active = FALSE
  BY DEF Free

LEMMA ProfilesToStore == First \in Profile /\ Absent \in Profile
  BY DEF First, Absent, Profile

\* A request that is taken has read the profiles as they are.
LEMMA TakeKept ==
  ASSUME ProfilesInv, NEW k \in Clerk, boot = "up", boot' = boot,
         NEW q, Take(k, q),
         DOMAIN q = {"op", "p", "first", "active", "clears"},
         q.op \in {"create", "update", "clear", "delete"},
         q.p \in Provider, q.first \in BOOLEAN, q.active \in BOOLEAN,
         q.op = "create" => q.p \notin Known /\ (q.first <=> Known = {}),
         q.op = "update" => q.p \in Known,
         q.op \in {"clear", "delete"} => q.p \in Known \ Main
  PROVE  ProfilesInv'
<1>2. clerk' = [clerk EXCEPT ![k] = q] /\ prov' = prov
      /\ clash' = (clash \/ \E other \in Clerk : Busy(other))
  BY DEF Take
<1>3. clerk'[k] = q /\ \A l \in Clerk : l # k => clerk'[l] = clerk[l]
  BY <1>2 DEF ProfilesInv, ClerkShape
<1>4. ClerkShape'
  <2>1. DOMAIN clerk' = Clerk
    BY <1>2 DEF ProfilesInv, ClerkShape
  <2> SUFFICES ASSUME NEW l \in Clerk
               PROVE  /\ DOMAIN clerk'[l] = {"op", "p", "first", "active", "clears"}
                      /\ clerk'[l].op \in {"free", "create", "update", "clear", "promote", "delete"}
                      /\ clerk'[l].first \in BOOLEAN /\ clerk'[l].active \in BOOLEAN
                      /\ Busy(l)' => clerk'[l].p \in Provider
    BY <2>1 DEF ClerkShape
  <2>2. CASE l = k
    BY <2>2, <1>3 DEF Busy
  <2>3. CASE l # k
    BY <2>3, <1>3 DEF Busy, ProfilesInv, ClerkShape
  <2> QED BY <2>2, <2>3
<1>5. ASSUME ~clash'
      PROVE  OneRequest' /\ OneMain' /\ \A l \in Clerk : RequestFits(l)'
  <2>1. ~clash /\ \A l \in Clerk : ~Busy(l)
    BY <1>2, <1>5
  <2>2. Known' = Known /\ Main' = Main
    BY <1>2 DEF Known, Main
  <2>3. OneRequest' /\ OneMain'
    BY <1>3, <2>1, <2>2 DEF OneRequest, OneMain, Busy, ProfilesInv
  <2>4. \A l \in Clerk : l # k => RequestFits(l)'
    BY <1>3, <2>1 DEF RequestFits, Busy
  <2>5. RequestFits(k)'
    BY <1>3, <2>2 DEF RequestFits
  <2> QED BY <2>3, <2>4, <2>5
<1>6. clash' \in BOOLEAN /\ prov' \in [Provider -> Profile] /\ boot' = "up"
  BY <1>2 DEF ProfilesInv
<1> QED BY <1>4, <1>5, <1>6 DEF ProfilesInv

LEMMA ClearKept ==
  ASSUME ProfilesInv, NEW k \in Clerk, boot = "up", boot' = boot, Clear(k)
  PROVE  ProfilesInv'
<1>1. /\ clerk[k].op = "clear" /\ prov' = prov /\ clash' = clash
      /\ clerk' = [clerk EXCEPT ![k].op = "promote", ![k].clears = Main]
  BY DEF Clear
<1>2. Known' = Known /\ Main' = Main
  BY <1>1 DEF Known, Main
<1>3. \A l \in Clerk : l # k => clerk'[l] = clerk[l]
  BY <1>1 DEF ProfilesInv, ClerkShape
<1>4. /\ clerk'[k].op = "promote" /\ clerk'[k].clears = Main /\ clerk'[k].p = clerk[k].p
      /\ clerk'[k].first = clerk[k].first /\ clerk'[k].active = clerk[k].active
      /\ DOMAIN clerk'[k] = DOMAIN clerk[k]
  BY <1>1, SMT DEF ProfilesInv, ClerkShape
<1>5. Busy(k) /\ Busy(k)' /\ \A l \in Clerk : l # k => (Busy(l)' <=> Busy(l))
  BY <1>1, <1>3, <1>4 DEF Busy
<1>6. ClerkShape'
  BY <1>1, <1>3, <1>4, <1>5, SMT DEF ProfilesInv, ClerkShape
<1>7. ASSUME ~clash PROVE OneRequest' /\ OneMain' /\ \A l \in Clerk : RequestFits(l)'
  <2>1. OneRequest' /\ OneMain'
    BY <1>2, <1>5, <1>7 DEF ProfilesInv, OneRequest, OneMain
  <2>2. RequestFits(k)'
    BY <1>1, <1>2, <1>4, <1>7 DEF ProfilesInv, RequestFits
  <2>3. \A l \in Clerk : l # k => RequestFits(l)'
    BY <1>2, <1>3, <1>7 DEF ProfilesInv, RequestFits
  <2> QED BY <2>1, <2>2, <2>3
<1> QED BY <1>1, <1>6, <1>7 DEF ProfilesInv

LEMMA StoreKept ==
  ASSUME ProfilesInv, NEW k \in Clerk, boot = "up", boot' = boot, Store(k)
  PROVE  ProfilesInv'
<1> DEFINE p == clerk[k].p
           op == clerk[k].op
<1>1. /\ op \in {"create", "update", "promote", "delete"} /\ clash' = clash
      /\ prov' = IF op = "create" \/ p \in Known THEN Stored(k) ELSE prov
      /\ clerk' = [clerk EXCEPT ![k] = Free]
  BY DEF Store
<1>2. Busy(k) /\ p \in Provider
  BY <1>1 DEF Busy, ProfilesInv, ClerkShape
<1>3. clerk'[k] = Free /\ \A l \in Clerk : l # k => clerk'[l] = clerk[l]
  BY <1>1 DEF ProfilesInv, ClerkShape
<1>4. ~Busy(k)' /\ \A l \in Clerk : l # k => (Busy(l)' <=> Busy(l))
  BY <1>3, FreeShape DEF Busy
<1>5. ClerkShape'
  <2>1. DOMAIN clerk' = Clerk
    BY <1>1 DEF ProfilesInv, ClerkShape
  <2> SUFFICES ASSUME NEW l \in Clerk
               PROVE  /\ DOMAIN clerk'[l] = {"op", "p", "first", "active", "clears"}
                      /\ clerk'[l].op \in {"free", "create", "update", "clear", "promote", "delete"}
                      /\ clerk'[l].first \in BOOLEAN /\ clerk'[l].active \in BOOLEAN
                      /\ Busy(l)' => clerk'[l].p \in Provider
    BY <2>1 DEF ClerkShape
  <2>2. CASE l = k
    BY <2>2, <1>3, <1>4, FreeShape
  <2>3. CASE l # k
    BY <2>3, <1>3, <1>4 DEF ProfilesInv, ClerkShape
  <2> QED BY <2>2, <2>3
<1>6. prov' \in [Provider -> Profile]
  <2>1. CASE op = "create"
    <3>1. [known |-> TRUE, active |-> clerk[k].active, main |-> clerk[k].first] \in Profile
      BY DEF ProfilesInv, ClerkShape, Profile
    <3> QED BY <1>1, <2>1, <3>1 DEF Stored, ProfilesInv
  <2>2. CASE op = "delete"
    BY <1>1, <2>2, ProfilesToStore DEF Stored, ProfilesInv
  <2>3. CASE op = "update"
    <3>1. \A b \in BOOLEAN : [prov[p] EXCEPT !.active = b] \in Profile
      BY <1>2 DEF ProfilesInv, Profile
    <3> QED BY <1>1, <2>3, <3>1 DEF Stored, ProfilesInv, ClerkShape
  <2>4. CASE op = "promote"
    <3>1. \A x \in Provider, b \in BOOLEAN : [prov[x] EXCEPT !.main = b] \in Profile
      BY DEF ProfilesInv, Profile
    <3> QED BY <1>1, <2>4, <3>1 DEF Stored, ProfilesInv
  <2> QED BY <1>1, <2>1, <2>2, <2>3, <2>4
<1>7. ASSUME ~clash PROVE OneRequest' /\ OneMain' /\ \A l \in Clerk : RequestFits(l)'
  <2>1. \A l \in Clerk : ~Busy(l)'
    BY <1>2, <1>4, <1>7 DEF ProfilesInv, OneRequest
  <2>2. RequestFits(k) /\ OneMain
    BY <1>7 DEF ProfilesInv
  <2>3. OneMain'
    <3>1. CASE op = "create"
      <4>1. prov' = [prov EXCEPT ![p] = [known |-> TRUE, active |-> clerk[k].active, main |-> clerk[k].first]]
        BY <1>1, <3>1 DEF Stored
      <4>2. Known' = Known \cup {p}
        BY <4>1, <1>2, SMT DEF Known, ProfilesInv, Profile
      <4>3. CASE clerk[k].first
        <5>1. Known = {}
          BY <2>2, <3>1, <4>3 DEF RequestFits
        <5>2. Main' = {p}
          BY <4>1, <4>2, <4>3, <5>1, <1>2, SMT DEF Main, ProfilesInv, Profile
        <5> QED BY <4>2, <5>2 DEF OneMain
      <4>4. CASE ~clerk[k].first
        <5>1. p \notin Known /\ Known # {}
          BY <2>2, <3>1, <4>4 DEF RequestFits
        <5>2. Main' = Main
          BY <4>1, <4>2, <4>4, <5>1, <1>2, SMT DEF Main, Known, ProfilesInv, Profile
        <5> QED BY <2>2, <4>2, <5>1, <5>2 DEF OneMain
      <4> QED BY <4>3, <4>4
    <3>2. CASE op = "update"
      <4>1. p \in Known /\ prov' = [prov EXCEPT ![p].active = clerk[k].active]
        BY <1>1, <2>2, <3>2 DEF Stored, RequestFits
      <4>2. \A x \in Provider : prov'[x].known = prov[x].known /\ prov'[x].main = prov[x].main
        BY <4>1, <1>2, SMT DEF ProfilesInv, Profile
      <4>3. Known' = Known /\ Main' = Main
        BY <4>2 DEF Known, Main
      <4> QED BY <2>2, <4>3 DEF OneMain
    <3>3. CASE op = "promote"
      <4>1. p \in Known \ Main /\ clerk[k].clears = Main
        BY <2>2, <3>3 DEF RequestFits
      <4>2. prov' = [x \in Provider |->
                       IF x = p THEN [prov[x] EXCEPT !.main = TRUE]
                       ELSE IF x \in Main THEN [prov[x] EXCEPT !.main = FALSE]
                       ELSE prov[x]]
        BY <1>1, <3>3, <4>1 DEF Stored
      <4>3. \A x \in Provider : prov'[x].known = prov[x].known
        BY <4>2, SMT DEF ProfilesInv, Profile
      <4>4. Known' = Known
        BY <4>3 DEF Known
      <4>5. \A x \in Known : prov'[x].main <=> x = p
        BY <4>1, <4>2, SMT DEF ProfilesInv, Profile, Known, Main
      <4>6. Main' = {p}
        BY <4>1, <4>4, <4>5 DEF Main
      <4> QED BY <4>1, <4>4, <4>6 DEF OneMain
    <3>4. CASE op = "delete"
      <4>1. p \in Known \ Main /\ prov' = [prov EXCEPT ![p] = Absent]
        BY <1>1, <2>2, <3>4 DEF Stored, RequestFits
      <4>2. Known' = Known \ {p}
        BY <4>1, <1>2, SMT DEF Known, Absent, ProfilesInv, Profile
      <4>3. Main' = Main
        BY <4>1, <4>2, <1>2, SMT DEF Main, Known, ProfilesInv, Profile
      <4> QED BY <2>2, <4>1, <4>2, <4>3 DEF OneMain
    <3> QED BY <1>1, <3>1, <3>2, <3>3, <3>4
  <2>4. \A l \in Clerk : RequestFits(l)'
    BY <2>1 DEF RequestFits, Busy
  <2> QED BY <2>1, <2>3, <2>4 DEF OneRequest
<1> QED BY <1>1, <1>5, <1>6, <1>7 DEF ProfilesInv

LEMMA ProfilesKept ==
  ASSUME ProfilesInv, NEW k \in Clerk, boot = "up", boot' = boot, ProviderStep(k)
  PROVE  ProfilesInv'
<1>1. ASSUME NEW p \in Provider, NEW on \in BOOLEAN, Create(k, p, on) PROVE ProfilesInv'
  <2> DEFINE q == [Free EXCEPT !.op = "create", !.p = p, !.first = (Known = {}), !.active = on]
  <2>1. p \notin Known /\ Take(k, q)
    BY <1>1 DEF Create
  <2>2. DOMAIN q = {"op", "p", "first", "active", "clears"} /\ q.op = "create" /\ q.p = p
    BY FreeShape
  <2>3. q.active \in BOOLEAN /\ q.first = (Known = {})
    BY FreeShape
  <2>4. q.first \in BOOLEAN /\ (q.first <=> Known = {})
    BY <2>3
  <2> HIDE DEF q
  <2> QED BY <2>1, <2>2, <2>3, <2>4, TakeKept
<1>2. ASSUME NEW p \in Provider, NEW on \in BOOLEAN, Update(k, p, on) PROVE ProfilesInv'
  <2> DEFINE q == [Free EXCEPT !.op = "update", !.p = p, !.active = on]
  <2>1. p \in Known /\ Take(k, q)
    BY <1>2 DEF Update
  <2>2. /\ DOMAIN q = {"op", "p", "first", "active", "clears"} /\ q.op = "update" /\ q.p = p
        /\ q.first \in BOOLEAN /\ q.active \in BOOLEAN
    BY FreeShape
  <2> HIDE DEF q
  <2> QED BY <2>1, <2>2, TakeKept
<1>3. ASSUME NEW p \in Provider, SetDefault(k, p) PROVE ProfilesInv'
  <2> DEFINE q == [Free EXCEPT !.op = "clear", !.p = p]
  <2>1. p \in Known \ Main /\ Take(k, q)
    BY <1>3 DEF SetDefault, Main
  <2>2. /\ DOMAIN q = {"op", "p", "first", "active", "clears"} /\ q.op = "clear" /\ q.p = p
        /\ q.first \in BOOLEAN /\ q.active \in BOOLEAN
    BY FreeShape
  <2> HIDE DEF q
  <2> QED BY <2>1, <2>2, TakeKept
<1>4. ASSUME NEW p \in Provider, Delete(k, p) PROVE ProfilesInv'
  <2> DEFINE q == [Free EXCEPT !.op = "delete", !.p = p]
  <2>1. p \in Known \ Main /\ Take(k, q)
    BY <1>4 DEF Delete, Main
  <2>2. /\ DOMAIN q = {"op", "p", "first", "active", "clears"} /\ q.op = "delete" /\ q.p = p
        /\ q.first \in BOOLEAN /\ q.active \in BOOLEAN
    BY FreeShape
  <2> HIDE DEF q
  <2> QED BY <2>1, <2>2, TakeKept
<1> QED BY <1>1, <1>2, <1>3, <1>4, ClearKept, StoreKept DEF ProviderStep

LEMMA ProfilesInvariant == Spec => []ProfilesInv
<1>1. Init => ProfilesInv
  <2> SUFFICES ASSUME Init PROVE ProfilesInv
    OBVIOUS
  <2>1. clerk = [k \in Clerk |-> Free] /\ clash = FALSE
    BY DEF Init, ProvidersInit
  <2>2. ClerkShape /\ \A k \in Clerk : ~Busy(k)
    BY <2>1, FreeShape DEF ClerkShape, Busy
  <2>3. prov \in [Provider -> Profile]
    BY ProfilesToStore DEF Init, ProvidersInit
  <2>4. OneMain
    <3>1. CASE prov = [p \in Provider |-> Absent]
      BY <3>1 DEF OneMain, Known, Absent
    <3>2. CASE \E q \in Provider : prov = [p \in Provider |-> IF p = q THEN First ELSE Absent]
      <4>1. PICK q \in Provider : prov = [p \in Provider |-> IF p = q THEN First ELSE Absent]
        BY <3>2
      <4>2. Known = {q}
        BY <4>1 DEF Known, First, Absent
      <4>3. Main = {q}
        BY <4>1, <4>2 DEF Main, First
      <4> QED BY <4>2, <4>3 DEF OneMain
    <3> QED BY <3>1, <3>2 DEF Init, ProvidersInit
  <2>5. OneRequest /\ \A k \in Clerk : RequestFits(k)
    BY <2>2 DEF OneRequest, RequestFits, Busy
  <2> QED BY <2>1, <2>2, <2>3, <2>4, <2>5 DEF ProfilesInv
<1>2. ProfilesInv /\ [Next]_vars => ProfilesInv'
  <2> SUFFICES ASSUME ProfilesInv, [Next]_vars PROVE ProfilesInv'
    OBVIOUS
  <2>1. CASE Restart
    <3>1. clerk' = [k \in Clerk |-> Free] /\ UNCHANGED <<prov, clash>>
      BY <2>1 DEF Restart
    <3>2. ClerkShape' /\ \A k \in Clerk : ~Busy(k)'
      BY <3>1, FreeShape DEF ClerkShape, Busy
    <3>3. Known' = Known /\ Main' = Main
      BY <3>1 DEF Known, Main
    <3>4. OneRequest' /\ \A k \in Clerk : RequestFits(k)'
      BY <3>2 DEF OneRequest, RequestFits, Busy
    <3> QED BY <3>1, <3>2, <3>3, <3>4 DEF ProfilesInv, OneMain
  <2>2. CASE Adopt
    <3>1. /\ boot = "adopt" /\ boot' = "copy" /\ UNCHANGED <<clerk, clash>>
          /\ prov' = prov \/ \E p \in Provider : prov' = Adopted(p)
      BY <2>2 DEF Adopt
    <3>2. ClerkShape' /\ \A k \in Clerk : ~Busy(k)'
      BY <3>1 DEF ProfilesInv, ClerkShape, Busy
    <3>3. OneRequest' /\ \A k \in Clerk : RequestFits(k)'
      BY <3>2 DEF OneRequest, RequestFits, Busy
    <3>4. prov' \in [Provider -> Profile]
      BY <3>1, ProfilesToStore DEF ProfilesInv, Adopted
    <3>5. OneMain => OneMain'
      <4>1. CASE prov' = prov
        BY <4>1 DEF OneMain, Known, Main
      <4>2. CASE Known # {} /\ \E p \in Provider : prov' = Adopted(p)
        BY <4>2 DEF Adopted, OneMain, Known, Main
      <4>3. CASE Known = {} /\ \E p \in Provider : prov' = Adopted(p)
        <5>1. PICK p \in Provider : prov' = [prov EXCEPT ![p] = First]
          BY <4>3 DEF Adopted
        <5>2. Known' = {p}
          BY <4>3, <5>1, SMT DEF Known, First, ProfilesInv, Profile
        <5>3. Main' = {p}
          BY <5>1, <5>2, SMT DEF Main, First, ProfilesInv, Profile
        <5> QED BY <5>2, <5>3 DEF OneMain
      <4> QED BY <3>1, <4>1, <4>2, <4>3
    <3> QED BY <3>1, <3>2, <3>3, <3>4, <3>5 DEF ProfilesInv
  <2>3. CASE \E k \in Clerk : boot = "up" /\ boot' = boot /\ ProviderStep(k)
    BY <2>3, ProfilesKept
  <2>4. CASE UNCHANGED provVars /\ (boot' = boot \/ boot' = "up")
    BY <2>4 DEF provVars, ProfilesInv, ClerkShape, Busy, OneRequest, OneMain, RequestFits, Known, Main
  <2> QED BY <2>1, <2>2, <2>3, <2>4, ProfilesFrame
<1> QED BY <1>1, <1>2, PTL DEF Spec

\* "there's never a moment where two rows are default or zero are": while no
\* two requests overlap exactly one profile is the default, through restarts
\* that adopt the settings of an older version (email_providers.py).
THEOREM DefaultIsOne == Spec => []OneDefault
<1>1. ProfilesInv => OneDefault
  <2>1. ASSUME NEW p, Main = {p} PROVE Cardinality(Main) = 1
    BY <2>1, FS_Singleton
  <2> QED BY <2>1 DEF ProfilesInv, OneMain, OneDefault
<1> QED BY <1>1, ProfilesInvariant, PTL

-----------------------------------------------------------------------------
(* The notices of the quotas *)

\* The row of a crossing stands before its message: what was posted has a row,
\* and the crossing that a tick is about to post has a row and no message yet.
NoticesInv ==
  /\ posted \in [Crossing -> Nat]
  /\ DOMAIN tick = {"pc", "todo", "at"} /\ tick.todo \subseteq Crossing
  /\ \A n \in Crossing : posted[n] = 0 \/ (posted[n] = 1 /\ n \in notice)
  /\ tick.pc \in {"mail", "slack"} =>
       tick.at \in Crossing /\ tick.at \in notice /\ posted[tick.at] = 0

LEMMA NoticesFrame ==
  ASSUME [Next]_vars
  PROVE  \/ Tick
         \/ NewMonth
         \/ UNCHANGED <<notice, posted>> /\ (tick' = tick \/ tick' = Asleep)
  BY SMT DEF Next, vars, dataVars, noticeVars, Restart, BootStep, Adopt, Serve, Copy, PassOver,
     Settle, SettleSlack, SaveSlack, Manage, Watch, World, Use, Confine, Report, Looping,
     Outside, Elapse, Browse, Browsing, Building, Renew

LEMMA AsleepShape == DOMAIN Asleep = {"pc", "todo", "at"} /\ Asleep.todo = {} /\ Asleep.pc = "asleep"
  BY DEF Asleep

LEMMA NoticesKept ==
  ASSUME NoticesInv, Tick
  PROVE  NoticesInv'
<1>1. CASE TickStart
  BY <1>1, SMT DEF TickStart, NoticesInv, Due
<1>2. CASE TickMail
  <2>1. CASE tick' = Asleep
    BY <1>2, <2>1, AsleepShape DEF TickMail, NoticesInv
  <2>2. CASE tick.pc = "mail" /\ tick' = [tick EXCEPT !.pc = "slack"]
    BY <1>2, <2>2, SMT DEF TickMail, NoticesInv
  <2> QED BY <1>2, <2>1, <2>2 DEF TickMail
<1>3. CASE TickSlack
  <2>1. /\ tick.pc = "slack" /\ notice' = notice
        /\ posted' = posted \/ posted' = [posted EXCEPT ![tick.at] = @ + 1]
        /\ DOMAIN tick' = DOMAIN tick /\ tick'.todo = tick.todo /\ tick'.pc = "row"
    BY <1>3, SMT DEF TickSlack, NoticesInv
  <2> QED BY <2>1, SMT DEF NoticesInv
<1>4. CASE TickEnd \/ TickFails
  BY <1>4, AsleepShape DEF TickEnd, TickFails, NoticesInv
<1>5. ASSUME NEW n \in Crossing, TickSkip(n) PROVE NoticesInv'
  <2>1. tick'.pc = "row" /\ DOMAIN tick' = DOMAIN tick /\ tick'.todo \subseteq tick.todo
        /\ UNCHANGED <<notice, posted>>
    BY <1>5, SMT DEF TickSkip, Looks, NoticesInv
  <2> QED BY <2>1 DEF NoticesInv
<1>6. ASSUME NEW n \in Crossing, TickNote(n) PROVE NoticesInv'
  <2>1. /\ n \notin notice /\ notice' = notice \cup {n} /\ posted' = posted
        /\ tick' = [pc |-> "mail", todo |-> tick.todo \ {n}, at |-> n]
    BY <1>6 DEF TickNote
  <2>2. DOMAIN tick' = {"pc", "todo", "at"} /\ tick'.todo \subseteq tick.todo /\ tick'.at = n
    BY <2>1
  <2>3. posted[n] = 0
    BY <2>1 DEF NoticesInv
  <2> QED BY <2>1, <2>2, <2>3 DEF NoticesInv
<1> QED BY <1>1, <1>2, <1>3, <1>4, <1>5, <1>6 DEF Tick

LEMMA NoticesInvariant == Spec => []NoticesInv
<1>1. Init => NoticesInv
  <2> SUFFICES ASSUME Init PROVE NoticesInv
    OBVIOUS
  <2>1. posted = [n \in Crossing |-> 0] /\ tick = Asleep
    BY DEF Init, NoticesInit
  <2> QED BY <2>1, AsleepShape, SMT DEF NoticesInv
<1>2. NoticesInv /\ [Next]_vars => NoticesInv'
  <2> SUFFICES ASSUME NoticesInv, [Next]_vars PROVE NoticesInv'
    OBVIOUS
  <2>1. CASE Tick
    BY <2>1, NoticesKept
  <2>2. CASE NewMonth
    <3>1. posted' = [n \in Crossing |-> 0] /\ tick' = Asleep
      BY <2>2 DEF NewMonth
    <3> QED BY <3>1, AsleepShape, SMT DEF NoticesInv
  <2>3. CASE UNCHANGED <<notice, posted>> /\ (tick' = tick \/ tick' = Asleep)
    BY <2>3, AsleepShape DEF NoticesInv
  <2> QED BY <2>1, <2>2, <2>3, NoticesFrame
<1> QED BY <1>1, <1>2, PTL DEF Spec

\* No crossing is told to Slack twice in a month, for any number of users and
\* whatever ticks fail, abort or are cut by a restart (main.py:153-190).
THEOREM ToldOnce == Spec => []NoticedOnce
<1>1. NoticesInv => NoticedOnce
  BY SMT DEF NoticesInv, NoticedOnce
<1> QED BY <1>1, NoticesInvariant, PTL

-----------------------------------------------------------------------------
(* The restrictions *)

WriterShape ==
  /\ DOMAIN writer = Writer
  /\ \A w \in Writer :
       /\ DOMAIN writer[w] = {"pc", "client", "changes", "seen", "wanted", "blind"}
       /\ writer[w].pc \in {"quiet", "lock", "replace"}

Read(q, all) ==
  /\ q.blind \in BOOLEAN
  /\ q.seen = IF q.blind THEN Empty ELSE all

\* Who has read the file holds the lock, so that the file is as it was read, if
\* it could be read: else the writer works on a file without entries.  And a
\* start copies nothing once the marker is set, so that every write
\* under way is one that was asked for.
PoliciesInv ==
  /\ WriterShape
  /\ \A w \in Writer :
       /\ writer[w].pc # "quiet" => writer[w].wanted = TRUE
       /\ writer[w].pc = "replace" => holder = w /\ Read(writer[w], policies)
  /\ DOMAIN policies = Client /\ DOMAIN due = Client
  /\ \A c \in Client : policies[c] = due[c] \/ c \in gone
  /\ marker \in BOOLEAN
  /\ marker => left = {}

LEMMA PoliciesFrame ==
  ASSUME [Next]_vars
  PROVE  \/ Restart
         \/ \E c \in Client : Copy(c)
         \/ UNCHANGED <<left, marker>> /\ \E w \in Writer :
              \/ \E c \in Client : Edit(w, c) \/ ShellEdit(w, c)
              \/ WriterStep(w)
         \/ /\ UNCHANGED <<policies, holder, writer, due, gone>>
            /\ \/ left' \subseteq left /\ marker' = marker
               \/ left' = ToCopy /\ marker' = marker
               \/ left = {} /\ left' = left /\ marker' = TRUE
  BY SMT DEF Next, vars, dataVars, policyVars, bootVars, BootStep, Adopt, Serve, PassOver,
     Settle, SettleSlack, Manage, Watch, World, Confine, Report, Looping,
     Outside, Elapse, Browse, Browsing, Building, Renew

LEMMA QuietShape ==
  DOMAIN Quiet = {"pc", "client", "changes", "seen", "wanted", "blind"} /\ Quiet.pc = "quiet"
  BY DEF Quiet

LEMMA AskKept ==
  ASSUME PoliciesInv, NEW w \in Writer, NEW c, NEW changed, Ask(w, c, changed, TRUE),
         marker' = marker, marker => left' = {}
  PROVE  PoliciesInv'
<1> DEFINE q == [pc |-> "lock", client |-> c, changes |-> changed, seen |-> NoFile, wanted |-> TRUE,
              blind |-> FALSE]
<1>1. writer' = [writer EXCEPT ![w] = q] /\ UNCHANGED <<policies, holder, due, gone>>
  BY DEF Ask
<1>2. /\ DOMAIN q = {"pc", "client", "changes", "seen", "wanted", "blind"}
      /\ q.pc = "lock" /\ q.wanted = TRUE
  OBVIOUS
<1> HIDE DEF q
<1>3. DOMAIN writer' = Writer /\ writer'[w] = q /\ \A v \in Writer : v # w => writer'[v] = writer[v]
  BY <1>1 DEF PoliciesInv, WriterShape
<1>4. WriterShape'
  BY <1>2, <1>3 DEF PoliciesInv, WriterShape
<1>5. \A v \in Writer :
        /\ writer'[v].pc # "quiet" => writer'[v].wanted = TRUE
        /\ writer'[v].pc = "replace" => holder' = v /\ Read(writer'[v], policies')
  BY <1>1, <1>2, <1>3 DEF PoliciesInv
<1> QED BY <1>1, <1>4, <1>5 DEF PoliciesInv

\* A writer, or several, give up: the others and the file stay.
LEMMA SilencedKept ==
  ASSUME PoliciesInv, NEW W, writer' = Silenced(W), holder' = Freed(W),
         UNCHANGED <<policies, due, gone, marker>>, left' = left \/ left' = {}
  PROVE  PoliciesInv'
<1>1. /\ DOMAIN writer' = Writer
      /\ \A w \in Writer : writer'[w] = IF w \in W THEN Quiet ELSE writer[w]
  BY DEF Silenced
<1>2. WriterShape'
  BY <1>1, QuietShape DEF PoliciesInv, WriterShape
<1>3. \A v \in Writer :
        /\ writer'[v].pc # "quiet" => writer'[v].wanted = TRUE
        /\ writer'[v].pc = "replace" => holder' = v /\ Read(writer'[v], policies')
  BY <1>1, QuietShape DEF PoliciesInv, Freed
<1> QED BY <1>2, <1>3 DEF PoliciesInv

\* The entry written is the one asked for, unless it was lost; the others stay
\* or, if the file could not be read, those that were there are lost.
LEMMA ReplacedKept ==
  ASSUME NEW w \in Writer, Replace(w), Read(writer[w], policies), writer[w].wanted = TRUE,
         DOMAIN policies = Client, DOMAIN due = Client,
         \A c \in Client : policies[c] = due[c] \/ c \in gone
  PROVE  /\ DOMAIN policies' = Client /\ DOMAIN due' = Client
         /\ \A c \in Client : policies'[c] = due'[c] \/ c \in gone'
<1> DEFINE q == writer[w]
           change(e) == Applied(w, e, q.changes)
<1>1. /\ policies' = [q.seen EXCEPT ![q.client] = change(@)]
      /\ due' = [due EXCEPT ![q.client] = change(@)]
      /\ gone' = IF q.blind THEN gone \cup {c \in Client : policies[c] # Blank} ELSE gone
  BY DEF Replace
<1>2. q.blind \in BOOLEAN /\ q.seen = (IF q.blind THEN Empty ELSE policies)
  BY DEF Read
<1>3. DOMAIN Empty = Client /\ \A c \in Client : Empty[c] = Blank
  BY DEF Empty
<1> HIDE DEF change, q
<1>4. DOMAIN q.seen = Client
  BY <1>2, <1>3
<1>5. /\ DOMAIN policies' = Client /\ DOMAIN due' = Client
      /\ \A c \in Client : policies'[c] = IF c = q.client THEN change(q.seen[c]) ELSE q.seen[c]
      /\ \A c \in Client : due'[c] = IF c = q.client THEN change(due[c]) ELSE due[c]
  BY <1>1, <1>4
<1>6. ASSUME NEW c \in Client, c \notin gone' PROVE q.seen[c] = due[c]
  BY <1>1, <1>2, <1>3, <1>6
<1> QED BY <1>5, <1>6

LEMMA WriterKept ==
  ASSUME PoliciesInv, NEW w \in Writer, WriterStep(w), UNCHANGED <<left, marker>>
  PROVE  PoliciesInv'
<1>1. CASE ReadLocked(w)
  <2>1. /\ writer[w].pc = "lock" /\ holder = Nobody /\ holder' = w
        /\ UNCHANGED <<policies, due, gone>>
    BY <1>1 DEF ReadLocked
  <2>2. PICK blind \in BOOLEAN :
          writer' = [writer EXCEPT ![w].pc = "replace", ![w].blind = blind,
                                   ![w].seen = IF blind THEN Empty ELSE policies]
    BY <1>1 DEF ReadLocked
  <2>3. /\ DOMAIN writer' = Writer /\ \A v \in Writer : v # w => writer'[v] = writer[v]
        /\ DOMAIN writer'[w] = DOMAIN writer[w] /\ writer'[w].pc = "replace"
        /\ writer'[w].blind = blind /\ writer'[w].seen = IF blind THEN Empty ELSE policies
        /\ writer'[w].wanted = writer[w].wanted
    BY <2>2, SMT DEF PoliciesInv, WriterShape
  <2>4. Read(writer'[w], policies')
    BY <2>1, <2>3 DEF Read
  <2>5. \A v \in Writer : writer[v].pc # "replace"
    BY <2>1, PolicyAssumption DEF PoliciesInv, Writer
  <2>6. WriterShape'
    BY <2>3 DEF PoliciesInv, WriterShape
  <2> QED BY <2>1, <2>3, <2>4, <2>5, <2>6 DEF PoliciesInv
<1>2. CASE Replace(w)
  <2>1. /\ writer[w].wanted = TRUE /\ holder = w /\ Read(writer[w], policies)
        /\ writer' = [writer EXCEPT ![w] = Quiet]
    BY <1>2 DEF Replace, PoliciesInv
  <2>2. /\ DOMAIN writer' = Writer /\ writer'[w] = Quiet
        /\ \A v \in Writer : v # w => writer'[v] = writer[v]
    BY <2>1 DEF PoliciesInv, WriterShape
  <2>3. \A v \in Writer : writer'[v].pc # "replace"
    BY <2>1, <2>2, QuietShape DEF PoliciesInv
  <2>4. WriterShape' /\ \A v \in Writer : writer'[v].pc # "quiet" => writer'[v].wanted = TRUE
    BY <2>2, QuietShape DEF PoliciesInv, WriterShape
  <2>5. /\ DOMAIN policies' = Client /\ DOMAIN due' = Client
        /\ \A c \in Client : policies'[c] = due'[c] \/ c \in gone'
    BY <1>2, <2>1, ReplacedKept DEF PoliciesInv
  <2> QED BY <1>2, <2>3, <2>4, <2>5 DEF PoliciesInv
<1>3. CASE WriteFails(w)
  BY <1>3, SilencedKept DEF WriteFails
<1> QED BY <1>1, <1>2, <1>3 DEF WriterStep

LEMMA PoliciesInvariant == Spec => []PoliciesInv
<1>1. Init => PoliciesInv
  <2> SUFFICES ASSUME Init PROVE PoliciesInv
    OBVIOUS
  <2>1. /\ writer = [w \in Writer |-> Quiet] /\ due = policies /\ left = {} /\ marker \in BOOLEAN
        /\ DOMAIN policies = Client
    BY DEF Init, PolicyInit
  <2> QED BY <2>1, QuietShape DEF PoliciesInv, WriterShape
<1>2. PoliciesInv /\ [Next]_vars => PoliciesInv'
  <2> SUFFICES ASSUME PoliciesInv, [Next]_vars PROVE PoliciesInv'
    OBVIOUS
  <2>1. CASE Restart
    BY <2>1, SilencedKept DEF Restart
  <2>2. ASSUME NEW c \in Client, Copy(c) PROVE PoliciesInv'
    <3>1. c \in left /\ left' = left \ {c} /\ marker' = marker /\ Booter \in Writer
      BY <2>2 DEF Copy, Writer
    <3>2. marker = FALSE
      BY <3>1 DEF PoliciesInv
    <3>3. Ask(Booter, c, [f \in {"list"} |-> Home], TRUE)
      BY <2>2, <3>2 DEF Copy
    <3> QED BY <3>1, <3>2, <3>3, AskKept
  <2>3. ASSUME UNCHANGED <<left, marker>>, NEW w \in Writer, NEW c \in Client,
               Edit(w, c) \/ ShellEdit(w, c)
        PROVE  PoliciesInv'
    <3>1. PICK changed : Ask(w, c, changed, TRUE)
      BY <2>3 DEF Edit, ShellEdit
    <3> QED BY <2>3, <3>1, AskKept DEF PoliciesInv
  <2>4. ASSUME UNCHANGED <<left, marker>>, NEW w \in Writer, WriterStep(w) PROVE PoliciesInv'
    BY <2>4, WriterKept
  <2>5. CASE /\ UNCHANGED <<policies, holder, writer, due, gone>>
             /\ \/ left' \subseteq left /\ marker' = marker
                \/ left' = ToCopy /\ marker' = marker
                \/ left = {} /\ left' = left /\ marker' = TRUE
    <3>1. marker' \in BOOLEAN
      BY <2>5 DEF PoliciesInv
    <3>2. marker' => left' = {}
      <4>1. CASE left' \subseteq left /\ marker' = marker
        BY <4>1 DEF PoliciesInv
      <4>2. CASE left' = ToCopy /\ marker' = marker
        BY <4>2 DEF ToCopy
      <4>3. CASE left = {} /\ left' = left
        BY <4>3
      <4> QED BY <2>5, <4>1, <4>2, <4>3
    <3> QED BY <2>5, <3>1, <3>2 DEF PoliciesInv, WriterShape
  <2> QED BY <2>1, <2>2, <2>3, <2>4, <2>5, PoliciesFrame
<1> QED BY <1>1, <1>2, PTL DEF Spec

\* Every client's restrictions are what the writes asked for make one after the
\* other, for any number of threads and shells, whoever fails to write, dies or
\* is restarted half-way, and no start imposes again what was lifted; except
\* for the entries that stood when a write replaced a file it could not read
\* (policy_store.py:83-91, app_settings.py:557-600).
THEOREM NothingIsLost == Spec => []PoliciesKept
<1>1. PoliciesInv => PoliciesKept
  BY DEF PoliciesInv, PoliciesKept
<1> QED BY <1>1, PoliciesInvariant, PTL

-----------------------------------------------------------------------------
(* The lists of places *)

List == [stamp : Nat, is : Nat]

\* A list carries the time of the database before the walk, so that what was
\* walked is as new as its stamp says, or newer.
Honest(k, list) == list \in List /\ list.stamp =< list.is /\ list.is =< source[k]

PageFits(p) ==
  /\ DOMAIN p = {"pc", "kind", "saw", "busy", "cached"}
  /\ p.kind \in Kind /\ Honest(p.kind, p.cached)

BuilderFits(b) ==
  /\ DOMAIN b = {"pc", "kind", "made"}
  /\ b.kind \in Kind /\ b.made \in List
  /\ b.pc \in {"stat", "walk", "write", "rename", "swap", "end"}
  /\ b.pc = "walk" => b.made.stamp =< source[b.kind]
  /\ b.pc \in {"write", "rename", "swap"} => Honest(b.kind, b.made)

StoresHonest ==
  \A k \in Kind :
    /\ Honest(k, index[k]) /\ Honest(k, disk[k])
    /\ \A list \in tmp[k] : Honest(k, list)

ListsInv ==
  /\ source \in [Kind -> Nat]
  /\ DOMAIN index = Kind /\ DOMAIN disk = Kind /\ DOMAIN tmp = Kind
  /\ StoresHonest
  /\ \A p \in DOMAIN pages : PageFits(p)
  /\ \A b \in DOMAIN builders : BuilderFits(b)

LEMMA ListsFrame ==
  ASSUME [Next]_vars
  PROVE  \/ Emptied
         \/ \E k \in Kind : OpenPage(k) \/ Release(k)
         \/ PageStep
         \/ BuilderStep
         \/ UNCHANGED geoVars
  BY SMT DEF Next, vars, listVars, geoVars, Restart, BootStep, Adopt, Serve, Copy, PassOver,
     Settle, SettleSlack, Manage, Watch, World, Confine, Report, Looping,
     Outside, Elapse, Browse, Browsing, Building, Renew

LEMMA NoListShape == NoList \in List /\ NoList.stamp = 0 /\ NoList.is = 0
  BY DEF NoList, List

\* Who is in a bag after a step was in it or came in.
LEMMA BagsMove ==
  ASSUME NEW bag, NEW p, NEW N
  PROVE  /\ DOMAIN Moves(bag, p, N) \subseteq DOMAIN bag \cup N
         /\ DOMAIN (bag (+) One(p)) = DOMAIN bag \cup {p}
<1>1. DOMAIN One(p) = {p} /\ DOMAIN SetToBag(N) = N
  BY DEF One, SetToBag
<1>2. DOMAIN (bag (+) One(p)) = DOMAIN bag \cup DOMAIN One(p)
  BY DEF (+)
<1> DEFINE rest == bag (-) One(p)
<1>3. DOMAIN rest \subseteq DOMAIN bag
  BY DEF (-)
<1>4. DOMAIN (rest (+) SetToBag(N)) = DOMAIN rest \cup DOMAIN SetToBag(N)
  BY DEF (+)
<1>5. DOMAIN Moves(bag, p, N) = DOMAIN (rest (+) SetToBag(N))
  BY DEF Moves
<1> QED BY <1>1, <1>2, <1>3, <1>4, <1>5

LEMMA PagesKept ==
  ASSUME ListsInv, NEW p \in DOMAIN pages,
         LookAtIndex(p) \/ LoadCache(p) \/ AdoptCache(p) \/ StartBuild(p)
  PROVE  ListsInv'
<1>1. PageFits(p) /\ p.kind \in Kind /\ Honest(p.kind, p.cached)
  BY DEF ListsInv, PageFits
<1>2. PageFits(Starting(p.kind))
  BY <1>1, NoListShape, SMT DEF Starting, Looking, PageFits, Honest, ListsInv
<1>3. \A k \in Kind : \A list : source' = source => (Honest(k, list)' <=> Honest(k, list))
  BY DEF Honest
<1>4. CASE LookAtIndex(p)
  <2>1. /\ UNCHANGED <<source, index, disk, tmp, builders>>
        /\ \E N : pages' = Moves(pages, p, N) /\ \A q \in N : PageFits(q)
    <3>1. PageFits([p EXCEPT !.pc = "load", !.busy = (p.kind \in building)])
      BY <1>1, SMT DEF PageFits
    <3> QED BY <1>2, <1>4, <3>1 DEF LookAtIndex
  <2>2. \A q \in DOMAIN pages' : PageFits(q)
    <3>1. PICK N : pages' = Moves(pages, p, N) /\ \A q \in N : PageFits(q)
      BY <2>1
    <3>2. DOMAIN pages' \subseteq DOMAIN pages \cup N
      BY <3>1, BagsMove
    <3> QED BY <3>1, <3>2 DEF ListsInv
  <2> QED BY <2>1, <2>2 DEF ListsInv, StoresHonest, PageFits, BuilderFits, Honest
<1>5. CASE LoadCache(p)
  <2> DEFINE q == [p EXCEPT !.pc = "adopt", !.cached = disk[p.kind]]
  <2>0. \A x : DOMAIN Moves(pages, p, {x}) \subseteq DOMAIN pages \cup {x}
    BY BagsMove
  <2>1. UNCHANGED <<source, index, disk, tmp, builders>> /\ pages' = Moves(pages, p, {q})
    BY <1>5 DEF LoadCache
  <2>2. PageFits(q)
    <3>1. Honest(p.kind, disk[p.kind])
      BY <1>1 DEF ListsInv, StoresHonest
    <3> QED BY <1>1, <3>1, SMT DEF PageFits
  <2>3. \A r \in DOMAIN pages' : PageFits(r)
    <3>1. DOMAIN Moves(pages, p, {q}) \subseteq DOMAIN pages \cup {q}
      BY <2>0
    <3> QED BY <2>1, <3>1, <2>2 DEF ListsInv
  <2> QED BY <2>1, <2>3 DEF ListsInv, StoresHonest, PageFits, BuilderFits, Honest
<1>6. CASE AdoptCache(p)
  <2>1. /\ UNCHANGED <<source, disk, tmp, builders>>
        /\ index' = index \/ index' = [index EXCEPT ![p.kind] = p.cached]
        /\ \E N : pages' = Moves(pages, p, N) /\ \A q \in N : PageFits(q)
    BY <1>2, <1>6 DEF AdoptCache
  <2>2. \A q \in DOMAIN pages' : PageFits(q)
    <3>1. PICK N : pages' = Moves(pages, p, N) /\ \A q \in N : PageFits(q)
      BY <2>1
    <3>2. DOMAIN pages' \subseteq DOMAIN pages \cup N
      BY <3>1, BagsMove
    <3> QED BY <3>1, <3>2 DEF ListsInv
  <2>3. DOMAIN index' = Kind /\ \A k \in Kind : Honest(k, index'[k])
    BY <1>1, <2>1 DEF ListsInv, StoresHonest
  <2> QED BY <2>1, <2>2, <2>3 DEF ListsInv, StoresHonest, PageFits, BuilderFits, Honest
<1>7. CASE StartBuild(p)
  <2>1. /\ UNCHANGED <<source, index, disk, tmp>>
        /\ pages' = Moves(pages, p, {}) /\ builders' = builders (+) One(Started(p.kind))
    BY <1>7 DEF StartBuild
  <2>2. BuilderFits(Started(p.kind))
    BY <1>1, NoListShape DEF Started, BuilderFits
  <2>3. \A b \in DOMAIN builders' : BuilderFits(b)
    <3>1. DOMAIN builders' = DOMAIN builders \cup {Started(p.kind)}
      BY <2>1, BagsMove
    <3> QED BY <3>1, <2>2 DEF ListsInv
  <2>4. \A q \in DOMAIN pages' : PageFits(q)
    <3>1. DOMAIN Moves(pages, p, {}) \subseteq DOMAIN pages \cup {}
      BY BagsMove
    <3> QED BY <2>1, <3>1 DEF ListsInv
  <2> QED BY <2>1, <2>3, <2>4 DEF ListsInv, StoresHonest, PageFits, BuilderFits, Honest
<1> QED BY <1>4, <1>5, <1>6, <1>7

\* What a builder leaves in the stores is honest, and so is the builder.
LEMMA BuilderMoves ==
  ASSUME ListsInv, NEW b \in DOMAIN builders, NEW N,
         UNCHANGED <<source, pages>>, builders' = Moves(builders, b, N),
         \A c \in N : BuilderFits(c),
         DOMAIN index' = Kind, DOMAIN disk' = Kind, DOMAIN tmp' = Kind,
         \A k \in Kind :
           /\ Honest(k, index'[k]) /\ Honest(k, disk'[k])
           /\ \A list \in tmp'[k] : Honest(k, list)
  PROVE  ListsInv'
<1>1. \A c \in DOMAIN builders' : BuilderFits(c)
  BY BagsMove DEF ListsInv
<1>2. \A k, list : Honest(k, list)' <=> (list \in List /\ list.stamp =< list.is /\ list.is =< source[k])
  BY DEF Honest
<1>3. StoresHonest'
  BY DEF StoresHonest, Honest
<1> QED BY <1>1, <1>3 DEF ListsInv, BuilderFits, PageFits, Honest

LEMMA BuildersKept ==
  ASSUME ListsInv, NEW b \in DOMAIN builders,
         \/ Stat(b) \/ Walk(b) \/ Write(b) \/ Rename(b) \/ RenameFails(b)
         \/ Swap(b) \/ BuildFails(b) \/ EndBuild(b)
  PROVE  ListsInv'
<1>1. BuilderFits(b) /\ b.kind \in Kind /\ source[b.kind] \in Nat
  BY DEF ListsInv, BuilderFits
<1>2. /\ DOMAIN index = Kind /\ DOMAIN disk = Kind /\ DOMAIN tmp = Kind
      /\ \A k \in Kind :
           /\ Honest(k, index[k]) /\ Honest(k, disk[k])
           /\ \A list \in tmp[k] : Honest(k, list)
  BY DEF ListsInv, StoresHonest
<1>3. BuilderFits(Ending(b))
  BY <1>1, NoListShape, SMT DEF Ending, BuilderFits
<1>4. CASE Stat(b)
  <2> DEFINE c == [b EXCEPT !.pc = "walk", !.made.stamp = source[b.kind]]
  <2>1. /\ UNCHANGED <<source, index, disk, tmp, pages>>
        /\ builders' = Moves(builders, b, {c})
    BY <1>4 DEF Stat
  <2>2. c.made \in List /\ c.made.stamp = source[b.kind]
    BY <1>1, SMT DEF BuilderFits, List
  <2>3. BuilderFits(c)
    BY <1>1, <2>2, SMT DEF BuilderFits
  <2> QED BY <1>2, <2>1, <2>3, BuilderMoves
<1>5. CASE Walk(b)
  <2> DEFINE c == [b EXCEPT !.pc = "write", !.made = Walked(b)]
  <2>1. /\ b.pc = "walk" /\ UNCHANGED <<source, index, disk, tmp, pages>>
        /\ builders' = Moves(builders, b, {c})
    BY <1>5 DEF Walk
  <2>2. /\ Walked(b) \in List /\ Walked(b).stamp = b.made.stamp
        /\ Walked(b).is = source[b.kind]
    BY <1>1, SMT DEF BuilderFits, List, Walked
  <2>3. Honest(b.kind, Walked(b))
    BY <1>1, <2>1, <2>2 DEF BuilderFits, Honest
  <2>4. BuilderFits(c)
    <3>1. /\ DOMAIN c = {"pc", "kind", "made"} /\ c.pc = "write" /\ c.kind = b.kind
          /\ c.made = Walked(b)
      BY <1>1 DEF BuilderFits
    <3> HIDE DEF c
    <3> QED BY <1>1, <2>2, <2>3, <3>1 DEF BuilderFits
  <2> QED BY <1>2, <2>1, <2>4, BuilderMoves
<1>6. CASE Write(b)
  <2> DEFINE c == [b EXCEPT !.pc = "rename"]
  <2>1. /\ b.pc = "write" /\ UNCHANGED <<source, index, disk, pages>>
        /\ builders' = Moves(builders, b, {c})
        /\ \E list \in {b.made} \cup Torn(b.kind) : tmp' = [tmp EXCEPT ![b.kind] = {list}]
    BY <1>6 DEF Write
  <2>2. BuilderFits(c)
    BY <1>1, <2>1, SMT DEF BuilderFits
  <2>3. \A list \in {b.made} \cup Torn(b.kind) : Honest(b.kind, list)
    BY <1>1, <2>1, NoListShape DEF BuilderFits, Torn, Honest
  <2>4. DOMAIN tmp' = Kind /\ \A k \in Kind : \A list \in tmp'[k] : Honest(k, list)
    BY <1>1, <1>2, <2>1, <2>3
  <2> QED BY <1>2, <2>1, <2>2, <2>4, BuilderMoves
<1>7. CASE Rename(b)
  <2> DEFINE c == [b EXCEPT !.pc = "swap"]
  <2>1. /\ b.pc = "rename" /\ UNCHANGED <<source, index, pages>>
        /\ builders' = Moves(builders, b, {c}) /\ tmp' = [tmp EXCEPT ![b.kind] = {}]
        /\ \E list \in tmp[b.kind] : disk' = [disk EXCEPT ![b.kind] = list]
    BY <1>7 DEF Rename
  <2>2. BuilderFits(c)
    BY <1>1, <2>1, SMT DEF BuilderFits
  <2>3. /\ DOMAIN tmp' = Kind /\ DOMAIN disk' = Kind
        /\ \A k \in Kind : Honest(k, disk'[k]) /\ \A list \in tmp'[k] : Honest(k, list)
    BY <1>1, <1>2, <2>1
  <2> QED BY <1>2, <2>1, <2>2, <2>3, BuilderMoves
<1>8. CASE RenameFails(b)
  <2> DEFINE c == [b EXCEPT !.pc = "swap"]
  <2>1. /\ b.pc = "rename" /\ UNCHANGED <<source, index, disk, tmp, pages>>
        /\ builders' = Moves(builders, b, {c})
    BY <1>8 DEF RenameFails
  <2>2. BuilderFits(c)
    BY <1>1, <2>1, SMT DEF BuilderFits
  <2> QED BY <1>2, <2>1, <2>2, BuilderMoves
<1>9. CASE Swap(b)
  <2>1. /\ b.pc = "swap" /\ UNCHANGED <<source, disk, tmp, pages>>
        /\ index' = [index EXCEPT ![b.kind] = b.made]
        /\ builders' = Moves(builders, b, {Ending(b)})
    BY <1>9 DEF Swap
  <2>2. DOMAIN index' = Kind /\ \A k \in Kind : Honest(k, index'[k])
    BY <1>1, <1>2, <2>1 DEF BuilderFits
  <2> QED BY <1>2, <1>3, <2>1, <2>2, BuilderMoves
<1>10. CASE BuildFails(b)
  <2>1. /\ UNCHANGED <<source, index, disk, tmp, pages>>
        /\ builders' = Moves(builders, b, {Ending(b)})
    BY <1>10 DEF BuildFails
  <2> QED BY <1>2, <1>3, <2>1, BuilderMoves
<1>11. CASE EndBuild(b)
  <2>1. UNCHANGED <<source, index, disk, tmp, pages>> /\ builders' = Moves(builders, b, {})
    BY <1>11 DEF EndBuild
  <2> QED BY <1>2, <2>1, BuilderMoves
<1> QED BY <1>4, <1>5, <1>6, <1>7, <1>8, <1>9, <1>10, <1>11

LEMMA ListsInvariant == Spec => []ListsInv
<1>1. Init => ListsInv
  <2> SUFFICES ASSUME Init PROVE ListsInv
    OBVIOUS
  <2>1. work \in Work /\ work.releases < MaxReleases /\ work.old =< MaxReleases - work.releases
        /\ MaxReleases \in Nat
    BY ServiceAssumption, GeoAssumption DEF Init
  <2>2. work.releases \in Nat /\ work.old \in Nat
    BY <2>1 DEF Work
  <2>3. /\ source = [k \in Kind |-> MaxReleases - work.releases]
        /\ index = [k \in Kind |-> NoList]
        /\ disk = [k \in Kind |-> [stamp |-> work.old, is |-> work.old]]
        /\ tmp = [k \in Kind |-> {}]
        /\ pages = EmptyBag /\ builders = EmptyBag
    BY DEF Init, GeoInit
  <2>4. source \in [Kind -> Nat]
    BY <2>1, <2>2, <2>3, SMT
  <2>5. DOMAIN pages = {} /\ DOMAIN builders = {}
    BY <2>3 DEF EmptyBag, SetToBag
  <2>6. StoresHonest
    BY <2>1, <2>2, <2>3, <2>4, NoListShape, SMT DEF StoresHonest, Honest, List
  <2> QED BY <2>3, <2>4, <2>5, <2>6 DEF ListsInv
<1>2. ListsInv /\ [Next]_vars => ListsInv'
  <2> SUFFICES ASSUME ListsInv, [Next]_vars PROVE ListsInv'
    OBVIOUS
  <2>1. CASE Emptied
    <3>1. /\ UNCHANGED <<source, disk>> /\ pages' = EmptyBag /\ builders' = EmptyBag
          /\ index' = [k \in Kind |-> NoList] /\ tmp' = [k \in Kind |-> {}]
      BY <2>1 DEF Emptied
    <3>2. DOMAIN pages' = {} /\ DOMAIN builders' = {}
      BY <3>1 DEF EmptyBag, SetToBag
    <3>3. StoresHonest'
      BY <3>1, NoListShape, SMT DEF ListsInv, StoresHonest, Honest
    <3> QED BY <3>1, <3>2, <3>3 DEF ListsInv
  <2>2. ASSUME NEW k \in Kind, OpenPage(k) PROVE ListsInv'
    <3>1. /\ UNCHANGED <<source, index, disk, tmp, builders>>
          /\ pages' = pages (+) One(Looking(k, source[k]))
      BY <2>2 DEF OpenPage
    <3>2. PageFits(Looking(k, source[k]))
      BY NoListShape, SMT DEF Looking, PageFits, Honest, ListsInv
    <3>3. \A p \in DOMAIN pages' : PageFits(p)
      <4>1. DOMAIN pages' = DOMAIN pages \cup {Looking(k, source[k])}
        BY <3>1, BagsMove
      <4> QED BY <3>2, <4>1 DEF ListsInv
    <3> QED BY <3>1, <3>3 DEF ListsInv, StoresHonest, PageFits, BuilderFits, Honest
  <2>3. ASSUME NEW k \in Kind, Release(k) PROVE ListsInv'
    <3>1. /\ UNCHANGED <<index, disk, tmp, pages, builders>>
          /\ source' \in [Kind -> Nat] /\ \A j \in Kind : source[j] =< source'[j]
      BY <2>3, SMT DEF Release, ListsInv
    <3>2. \A j \in Kind : \A list : Honest(j, list) => Honest(j, list)'
      BY <3>1, SMT DEF Honest, ListsInv, List
    <3>3. StoresHonest'
      BY <3>1, <3>2 DEF ListsInv, StoresHonest
    <3>4. \A p \in DOMAIN pages' : PageFits(p)'
      BY <3>1, <3>2 DEF ListsInv, PageFits
    <3>5. \A b \in DOMAIN builders' : BuilderFits(b)'
      <4> SUFFICES ASSUME NEW b \in DOMAIN builders PROVE BuilderFits(b)'
        BY <3>1
      <4>1. BuilderFits(b) /\ b.made \in List /\ b.kind \in Kind
        BY DEF ListsInv, BuilderFits
      <4>2. b.pc = "walk" => b.made.stamp =< source'[b.kind]
        BY <3>1, <4>1, SMT DEF BuilderFits, List, ListsInv
      <4> QED BY <3>2, <4>1, <4>2 DEF BuilderFits
    <3> QED BY <3>1, <3>3, <3>4, <3>5 DEF ListsInv
  <2>4. CASE PageStep
    BY <2>4, PagesKept DEF PageStep
  <2>5. CASE BuilderStep
    BY <2>5, BuildersKept DEF BuilderStep
  <2>6. CASE UNCHANGED geoVars
    BY <2>6 DEF geoVars, ListsInv, StoresHonest, PageFits, BuilderFits, Honest
  <2> QED BY <2>1, <2>2, <2>3, <2>4, <2>5, <2>6, ListsFrame
<1> QED BY <1>1, <1>2, PTL DEF Spec

\* A list, in memory or on disk, that passes for the one of the present
\* database was walked out of it, for any number of builders, pages, releases
\* and restarts (geo_lists.py:246-300).
THEOREM ListsAreHonest == Spec => []ListsHonest
<1>1. ListsInv => ListsHonest
  <2> SUFFICES ASSUME ListsInv, NEW k \in Kind, NEW list \in {index[k], disk[k]},
                      list.stamp = source[k]
               PROVE  list.is = source[k]
    BY DEF ListsHonest
  <2>1. Honest(k, list) /\ source[k] \in Nat
    BY DEF ListsInv, StoresHonest
  <2> QED BY <2>1 DEF Honest, List
<1> QED BY <1>1, ListsInvariant, PTL

-----------------------------------------------------------------------------
(* The answers that are kept *)

\* An answer of the given age: if the files have changed since, they have done
\* so after it was asked for; and it shows what the portal has changed, unless
\* it crossed that change.
AnswerFits(k, v, age) ==
  /\ v \in Nat /\ v =< content[k]
  /\ v = content[k] \/ over[k][v] =< age
  /\ k \in crossed \/ v >= seen[k]

CallFits(j) ==
  /\ DOMAIN j = {"pc", "keys", "name", "age", "is", "got", "stores"}
  /\ j.pc \in {"idle", "look", "run", "put", "store", "alter", "drop"}
  /\ j.keys \in Seq(Key) /\ j.age \in 0..Ttl
  /\ j.pc \in {"look", "run", "put"} => j.keys # <<>>
  /\ j.pc = "put" => AnswerFits(Head(j.keys), j.is, j.age)

KeptFits(k) ==
  /\ DOMAIN kept[k] = {"age", "is"} /\ kept[k].age \in 0..Ttl
  /\ Usable(k) => AnswerFits(k, kept[k].is, kept[k].age)

\* The files' contents are numbered in the order of the changes; contents that
\* are not replaced have no age.
FilesFit ==
  /\ changes \in Nat /\ changes =< MaxChanges
  /\ content \in [Key -> Nat] /\ seen \in [Key -> Nat]
  /\ over \in [Key -> [0..MaxChanges -> 0..Ttl]]
  /\ \A k \in Key :
       /\ seen[k] =< content[k] /\ content[k] =< changes
       /\ \A v \in 0..MaxChanges : v >= content[k] => over[k][v] = 0

AnswersInv ==
  /\ FilesFit
  /\ DOMAIN kept = Key /\ \A k \in Key : KeptFits(k)
  /\ DOMAIN call = Thread /\ \A t \in Thread : CallFits(call[t])

LEMMA AnswersFrame ==
  ASSUME [Next]_vars
  PROVE  \/ Forgotten
         \/ \E t \in Thread :
              CallStep(t) \/ Refresh(t) \/ (\E k \in Key : AskFor(t, k)) \/ (\E n \in Name : Alter(t, n))
         \/ \E n \in Name : Elsewhere(Touches(n))
         \/ \E i \in DOMAIN Shown : Elsewhere({Shown[i]})
         \/ Second
         \/ UNCHANGED answerVars
  BY SMT DEF Next, vars, listVars, answerVars, Restart, BootStep, Adopt, Serve, Copy, PassOver,
     Settle, SettleSlack, Manage, Watch, World, Confine, Report, Looping, Thread,
     Outside, Elapse, Browse, Browsing, Building, Renew

LEMMA IdleFits == CallFits(Idle)
  BY AnswersAssumption, SMT DEF CallFits, Idle

LEMMA NothingKept ==
  DOMAIN Nothing = {"age", "is"} /\ Nothing.age = Ttl /\ Nothing.is = 0 /\ Ttl \in Nat
  BY AnswersAssumption DEF Nothing

LEMMA ShownKeys == Shown \in Seq(Key) /\ Shown # <<>>
<1>1. {Shown[i] : i \in DOMAIN Shown} \subseteq Key
  BY DEF Key
<1> QED BY <1>1, AnswersAssumption

\* A step of one thread that leaves the files and what is kept alone.
LEMMA OneCallKept ==
  ASSUME AnswersInv, NEW t \in Thread, NEW j, CallFits(j), call' = [call EXCEPT ![t] = j],
         UNCHANGED <<content, over, kept, seen, crossed, changes>>
  PROVE  AnswersInv'
<1>1. DOMAIN call' = Thread /\ \A s \in Thread : CallFits(call'[s])
  BY DEF AnswersInv
<1> QED BY <1>1 DEF AnswersInv, FilesFit, KeptFits, CallFits, AnswerFits, Usable

LEMMA AnsweredFits ==
  ASSUME NEW j, CallFits(j), j.pc \in {"look", "put"}, NEW v
  PROVE  CallFits(Settled(Answered(j, v)))
<1> DEFINE a == Answered(j, v)
<1>1. /\ DOMAIN a = DOMAIN j /\ a.keys = Tail(j.keys) /\ a.age = 0
      /\ a.pc = IF Len(j.keys) > 1 THEN "look" ELSE IF j.stores THEN "store" ELSE "idle"
  BY DEF Answered, CallFits
<1>2. Tail(j.keys) \in Seq(Key) /\ (Len(j.keys) > 1 => Tail(j.keys) # <<>>)
  <2>1. j.keys \in Seq(Key) /\ j.keys # <<>>
    BY DEF CallFits
  <2>2. Tail(j.keys) \in Seq(Key) /\ Len(Tail(j.keys)) = Len(j.keys) - 1
    BY <2>1, HeadTailProperties
  <2>3. Len(j.keys) > 1 => Len(Tail(j.keys)) # 0
    <3>1. PICK n, m : n = Len(j.keys) /\ m = Len(Tail(j.keys))
      OBVIOUS
    <3>2. n \in Nat /\ m = n - 1
      BY <2>1, <2>2, <3>1
    <3>3. n > 1 => m # 0
      BY <3>2
    <3> QED BY <3>1, <3>3
  <2>4. Len(<<>>) = 0
    OBVIOUS
  <2> QED BY <2>2, <2>3, <2>4
<1>3. 0 \in 0..Ttl
  BY AnswersAssumption
<1> HIDE DEF a
<1>4. CallFits(a)
  BY <1>1, <1>2, <1>3 DEF CallFits
<1> QED BY <1>4, IdleFits DEF Settled, a

LEMMA CallsKept ==
  ASSUME AnswersInv, NEW t \in Thread,
         \/ Refresh(t) \/ (\E k \in Key : AskFor(t, k)) \/ (\E n \in Name : Alter(t, n))
         \/ Look(t) \/ Run(t) \/ Refused(t) \/ Publish(t)
  PROVE  AnswersInv'
<1>1. CallFits(call[t])
  BY DEF AnswersInv
<1>2. ASSUME NEW keys \in Seq(Key), keys # <<>>, NEW stores, Call(t, keys, stores) PROVE AnswersInv'
  <2> DEFINE j == [Idle EXCEPT !.pc = "look", !.keys = keys, !.stores = stores]
  <2>1. call' = [call EXCEPT ![t] = j] /\ UNCHANGED <<content, over, kept, seen, crossed, changes>>
    BY <1>2 DEF Call
  <2>2. CallFits(j)
    BY <1>2, AnswersAssumption, SMT DEF CallFits, Idle
  <2> HIDE DEF j
  <2> QED BY <2>1, <2>2, OneCallKept
<1>3. CASE Refresh(t)
  BY <1>2, <1>3, ShownKeys DEF Refresh
<1>4. ASSUME NEW k \in Key, AskFor(t, k) PROVE AnswersInv'
  <2>1. <<k>> \in Seq(Key) /\ <<k>> # <<>>
    OBVIOUS
  <2> QED BY <1>2, <1>4, <2>1 DEF AskFor
<1>5. ASSUME NEW n \in Name, Alter(t, n) PROVE AnswersInv'
  <2> DEFINE j == [Idle EXCEPT !.pc = "alter", !.name = n]
  <2>1. call' = [call EXCEPT ![t] = j] /\ UNCHANGED <<content, over, kept, seen, crossed, changes>>
    BY <1>5 DEF Alter
  <2>2. CallFits(j)
    BY AnswersAssumption, SMT DEF CallFits, Idle
  <2> HIDE DEF j
  <2> QED BY <2>1, <2>2, OneCallKept
<1>6. CASE Look(t)
  <2> DEFINE k == Head(call[t].keys)
             j == IF Usable(k) THEN Settled(Answered(call[t], kept[k].is))
                  ELSE [call[t] EXCEPT !.pc = "run", !.age = 0]
  <2>1. /\ call[t].pc = "look" /\ call' = [call EXCEPT ![t] = j]
        /\ UNCHANGED <<content, over, kept, seen, crossed, changes>>
    BY <1>6 DEF Look, Doing
  <2>2. CallFits([call[t] EXCEPT !.pc = "run", !.age = 0])
    BY <1>1, <2>1, AnswersAssumption, SMT DEF CallFits
  <2>3. CallFits(j)
    BY <1>1, <2>1, <2>2, AnsweredFits
  <2> HIDE DEF j
  <2> QED BY <2>1, <2>3, OneCallKept
<1>7. CASE Run(t)
  <2> DEFINE k == Head(call[t].keys)
             j == [call[t] EXCEPT !.pc = "put", !.is = content[k]]
  <2>1. /\ call[t].pc = "run" /\ call' = [call EXCEPT ![t] = j]
        /\ UNCHANGED <<content, over, kept, seen, crossed, changes>>
    BY <1>7 DEF Run, Doing
  <2>2. k \in Key
    BY <1>1, <2>1 DEF CallFits
  <2>3. AnswerFits(k, content[k], call[t].age)
    BY <2>2 DEF AnswersInv, FilesFit, AnswerFits
  <2>4. /\ DOMAIN j = DOMAIN call[t] /\ j.pc = "put" /\ j.is = content[k]
        /\ j.keys = call[t].keys /\ j.age = call[t].age
    BY <1>1 DEF CallFits
  <2> HIDE DEF j
  <2>5. CallFits(j)
    BY <1>1, <2>1, <2>3, <2>4 DEF CallFits
  <2> QED BY <2>1, <2>5, OneCallKept
<1>8. CASE Refused(t) \/ Publish(t)
  <2>1. call' = [call EXCEPT ![t] = Idle] /\ UNCHANGED <<content, over, kept, seen, crossed, changes>>
    BY <1>8 DEF Refused, Publish
  <2> QED BY <2>1, IdleFits, OneCallKept
<1> QED BY <1>3, <1>4, <1>5, <1>6, <1>7, <1>8

LEMMA PutKept ==
  ASSUME AnswersInv, NEW t \in Thread, Put(t)
  PROVE  AnswersInv'
<1>0. PICK j, k : j = call[t] /\ k = Head(j.keys)
  OBVIOUS
<1>1. /\ j.pc = "put" /\ kept' = [kept EXCEPT ![k] = Stamp(j)]
      /\ call' = [call EXCEPT ![t] = Settled(Answered(j, j.is))]
      /\ UNCHANGED <<content, over, seen, crossed, changes>>
  BY <1>0 DEF Put, Doing
<1>2. CallFits(j) /\ k \in Key /\ AnswerFits(k, j.is, j.age)
  BY <1>0, <1>1 DEF AnswersInv, CallFits
<1>3. CallFits(Settled(Answered(j, j.is)))
  BY <1>1, <1>2, AnsweredFits
<1>4. DOMAIN call' = Thread /\ \A s \in Thread : CallFits(call'[s])
  BY <1>1, <1>3 DEF AnswersInv
<1>5. DOMAIN Stamp(j) = {"age", "is"} /\ Stamp(j).age = j.age /\ Stamp(j).is = j.is
  BY DEF Stamp
<1>6. DOMAIN kept' = Key /\ kept'[k] = Stamp(j) /\ \A l \in Key : l # k => kept'[l] = kept[l]
  BY <1>1, <1>2 DEF AnswersInv
<1>7. \A l, v, age : AnswerFits(l, v, age)' <=> AnswerFits(l, v, age)
  BY <1>1 DEF AnswerFits
<1>8. KeptFits(k)'
  BY <1>2, <1>5, <1>6, <1>1 DEF KeptFits, CallFits, AnswerFits
<1>9. \A l \in Key : l # k => KeptFits(l)'
  BY <1>1, <1>6 DEF AnswersInv, KeptFits, Usable, AnswerFits
<1>10. \A s \in Thread : CallFits(call[s])'
  BY <1>1, <1>4 DEF CallFits, AnswerFits
<1> QED BY <1>1, <1>4, <1>6, <1>8, <1>9, <1>10 DEF AnswersInv, FilesFit

\* The contents that a change replaces were the last, so that their age is zero.
LEMMA ChangeKept ==
  ASSUME AnswersInv, NEW K, Changed(K), UNCHANGED <<over, seen, crossed>>
  PROVE  /\ FilesFit'
         /\ \A k \in Key, v, age \in Nat : AnswerFits(k, v, age) => AnswerFits(k, v, age)'
<1>1. /\ changes' = changes + 1 /\ changes < MaxChanges
      /\ content' = [k \in Key |-> IF k \in K THEN content[k] + 1 ELSE content[k]]
  BY DEF Changed
<1>2. FilesFit /\ MaxChanges \in Nat
  BY AnswersAssumption DEF AnswersInv
<1>3. \A k \in Key : content'[k] \in {content[k], content[k] + 1}
  BY <1>1
<1>4. \A k \in Key : content[k] \in Nat /\ content'[k] \in Nat /\ content'[k] =< changes'
  BY <1>1, <1>2, <1>3, SMT DEF FilesFit
<1>5. \A k \in Key : content[k] =< content'[k]
  BY <1>3, <1>4
<1>6. \A k \in Key : seen[k] =< content'[k]
  <2>1. \A k \in Key : seen[k] \in Nat /\ seen[k] =< content[k]
    BY <1>2 DEF FilesFit
  <2> QED BY <1>4, <1>5, <2>1
<1>7. \A k \in Key, v \in 0..MaxChanges : v >= content'[k] => over[k][v] = 0
  <2>1. \A k \in Key, v \in 0..MaxChanges : v >= content'[k] => v >= content[k]
    BY <1>2, <1>4, <1>5
  <2> QED BY <1>2, <2>1 DEF FilesFit
<1>8. content' \in [Key -> Nat]
  BY <1>1, <1>4
<1>9. FilesFit'
  BY <1>1, <1>2, <1>4, <1>6, <1>7, <1>8 DEF FilesFit
<1>10. ASSUME NEW k \in Key, NEW v, NEW age \in Nat, AnswerFits(k, v, age)
      PROVE  AnswerFits(k, v, age)'
  <2>1. v \in Nat /\ v =< content[k] /\ content[k] =< changes
    BY <1>2, <1>10 DEF AnswerFits, FilesFit
  <2>2. v =< content'[k]
    BY <1>4, <1>5, <2>1
  <2>3. v = content'[k] \/ over[k][v] =< age
    <3>1. CASE v = content[k]
      <4>1. v \in 0..MaxChanges
        BY <1>1, <1>2, <2>1, SMT DEF FilesFit
      <4>2. over[k][v] = 0
        BY <1>2, <3>1, <4>1, <2>1 DEF FilesFit
      <4> QED BY <4>2, <1>10
    <3>2. CASE v # content[k]
      BY <1>10, <3>2 DEF AnswerFits
    <3> QED BY <3>1, <3>2
  <2> QED BY <1>10, <2>1, <2>2, <2>3 DEF AnswerFits
<1> QED BY <1>9, <1>10

\* The threads and what is kept under a change by one of them, or by nobody.
LEMMA AlterKept ==
  ASSUME AnswersInv, NEW K, Changed(K), UNCHANGED <<over, kept, seen, crossed>>,
         DOMAIN call' = Thread,
         \A t \in Thread : call'[t] = call[t] \/ (CallFits(call'[t]) /\ call'[t].pc # "put")
  PROVE  AnswersInv'
<1>1. /\ FilesFit'
      /\ \A k \in Key, v, age \in Nat : AnswerFits(k, v, age) => AnswerFits(k, v, age)'
  BY ChangeKept
<1>2. \A k \in Key : KeptFits(k)'
  <2> SUFFICES ASSUME NEW k \in Key PROVE KeptFits(k)'
    OBVIOUS
  <2>1. KeptFits(k) /\ kept'[k] = kept[k]
    BY DEF AnswersInv
  <2>2. PICK v, age : v = kept[k].is /\ age = kept[k].age
    OBVIOUS
  <2>3. age \in Nat /\ (age < Ttl => AnswerFits(k, v, age))
    BY <2>1, <2>2, AnswersAssumption DEF KeptFits, Usable
  <2>4. age < Ttl => v \in Nat /\ AnswerFits(k, v, age)'
    BY <1>1, <2>3 DEF AnswerFits
  <2> QED BY <2>1, <2>2, <2>4 DEF KeptFits, Usable
<1>3. ASSUME NEW t \in Thread PROVE CallFits(call[t])'
  <2>1. CASE call'[t] = call[t]
    <3>1. CallFits(call[t])
      BY DEF AnswersInv
    <3>2. CASE call[t].pc = "put"
      <4>1. /\ Head(call[t].keys) \in Key /\ call[t].age \in Nat
            /\ AnswerFits(Head(call[t].keys), call[t].is, call[t].age)
        BY <3>1, <3>2, AnswersAssumption DEF CallFits
      <4>2. AnswerFits(Head(call[t].keys), call[t].is, call[t].age)'
        BY <1>1, <4>1, <2>1 DEF AnswerFits
      <4> QED BY <2>1, <3>1, <4>2 DEF CallFits
    <3>3. CASE call[t].pc # "put"
      BY <2>1, <3>1, <3>3 DEF CallFits
    <3> QED BY <3>2, <3>3
  <2>2. CASE CallFits(call'[t]) /\ call'[t].pc # "put"
    BY <2>2 DEF CallFits
  <2> QED BY <2>1, <2>2
<1> QED BY <1>1, <1>2, <1>3 DEF AnswersInv

LEMMA ChangesKept ==
  ASSUME AnswersInv, NEW t \in Thread, Altered(t) \/ AlterFails(t)
  PROVE  AnswersInv'
<1>1. CallFits(call[t])
  BY DEF AnswersInv
<1>2. CASE Altered(t)
  <2> DEFINE j == [call[t] EXCEPT !.pc = "drop", !.is = content'["lists"]]
  <2>1. /\ Changed(Touches(call[t].name)) /\ call' = [call EXCEPT ![t] = j]
        /\ UNCHANGED <<over, kept, seen, crossed>>
    BY <1>2 DEF Altered
  <2>2. CallFits(j) /\ j.pc # "put"
    BY <1>1 DEF CallFits
  <2> HIDE DEF j
  <2>3. DOMAIN call' = Thread /\ \A s \in Thread : call'[s] = call[s] \/ call'[s] = j
    BY <2>1 DEF AnswersInv
  <2> QED BY <2>1, <2>2, <2>3, AlterKept
<1>3. CASE AlterFails(t)
  <2>1. call' = [call EXCEPT ![t] = Idle] /\ UNCHANGED <<over, kept, seen, crossed>>
    BY <1>3 DEF AlterFails
  <2>2. DOMAIN call' = Thread /\ \A s \in Thread : call'[s] = call[s] \/ call'[s] = Idle
    BY <2>1 DEF AnswersInv
  <2>3. CASE Changed(Touches(call[t].name))
    <3>1. Idle.pc # "put"
      BY DEF Idle
    <3> QED BY <2>1, <2>2, <2>3, <3>1, IdleFits, AlterKept
  <2>4. CASE UNCHANGED <<content, changes>>
    BY <2>1, <2>4, IdleFits, OneCallKept
  <2> QED BY <1>3, <2>3, <2>4 DEF AlterFails
<1> QED BY <1>2, <1>3

\* The answers about the client are dropped; one that is on its way and older
\* than the change is noted.
LEMMA DropKept ==
  ASSUME AnswersInv, NEW t \in Thread, Drop(t)
  PROVE  AnswersInv'
<1> DEFINE K == Touches(call[t].name)
<1>1. /\ call[t].pc = "drop" /\ call' = [call EXCEPT ![t] = Idle]
      /\ kept' = [k \in Key |-> IF k \in K THEN Nothing ELSE kept[k]]
      /\ seen' = [k \in Key |-> IF k \in K THEN content[k] ELSE seen[k]]
      /\ crossed' = (crossed \ K) \cup {k \in K : OnItsWay(k)}
      /\ UNCHANGED <<content, over, changes>>
  BY DEF Drop, Doing
<1> HIDE DEF K
<1>2. FilesFit
  BY DEF AnswersInv
<1>3. FilesFit'
  BY <1>1, <1>2, SMT DEF FilesFit
<1>4. \A k \in Key : \A v, age : k \notin K /\ AnswerFits(k, v, age) => AnswerFits(k, v, age)'
  BY <1>1 DEF AnswerFits
<1>5. DOMAIN kept' = Key /\ \A k \in Key : KeptFits(k)'
  <2> SUFFICES ASSUME NEW k \in Key PROVE KeptFits(k)'
    BY <1>1
  <2>1. CASE k \in K
    <3>1. kept'[k] = Nothing
      BY <1>1, <2>1
    <3>2. kept'[k].age = Ttl /\ ~(Ttl < Ttl) /\ Ttl \in 0..Ttl
      BY <3>1, NothingKept
    <3> QED BY <3>1, <3>2, NothingKept DEF KeptFits, Usable
  <2>2. CASE k \notin K
    <3>1. kept'[k] = kept[k] /\ KeptFits(k)
      BY <1>1, <2>2 DEF AnswersInv
    <3> QED BY <1>4, <2>2, <3>1 DEF KeptFits, Usable
  <2> QED BY <2>1, <2>2
<1>6. ASSUME NEW s \in Thread PROVE CallFits(call[s])'
  <2>1. CASE s = t
    <3>1. call'[s] = Idle /\ Idle.pc # "put"
      BY <1>1, <2>1 DEF AnswersInv, Idle
    <3> QED BY <3>1, IdleFits DEF CallFits
  <2>2. CASE s # t
    <3>1. call'[s] = call[s] /\ CallFits(call[s])
      BY <1>1, <2>2 DEF AnswersInv
    <3>2. ASSUME call[s].pc = "put"
          PROVE  AnswerFits(Head(call[s].keys), call[s].is, call[s].age)'
      <4> DEFINE k == Head(call[s].keys)
      <4>1. k \in Key /\ AnswerFits(k, call[s].is, call[s].age)
        BY <3>1, <3>2 DEF CallFits
      <4>2. CASE k \in K
        <5>1. seen'[k] = content[k]
          BY <1>1, <4>1, <4>2
        <5>2. call[s].is < content[k] => k \in crossed'
          BY <1>1, <3>2, <4>2 DEF OnItsWay, Doing
        <5>3. call[s].is \in Nat /\ content[k] \in Nat /\ call[s].is =< content[k]
          BY <1>2, <4>1 DEF AnswerFits, FilesFit
        <5>4. k \in crossed' \/ call[s].is >= seen'[k]
          BY <5>1, <5>2, <5>3, SMT
        <5> QED BY <1>1, <3>1, <4>1, <5>4 DEF AnswerFits
      <4>3. CASE k \notin K
        BY <1>4, <3>1, <4>1, <4>3 DEF AnswerFits
      <4> QED BY <4>2, <4>3
    <3> QED BY <3>1, <3>2 DEF CallFits
  <2> QED BY <2>1, <2>2
<1>7. DOMAIN call' = Thread
  BY <1>1 DEF AnswersInv
<1> QED BY <1>3, <1>5, <1>6, <1>7 DEF AnswersInv

\* Everything grows older by the same second.
LEMMA SecondKept ==
  ASSUME AnswersInv, Second
  PROVE  AnswersInv'
<1>1. /\ kept' = [k \in Key |-> [kept[k] EXCEPT !.age = Older(@)]]
      /\ over' = [k \in Key |-> [v \in 0..MaxChanges |->
                    IF v < content[k] THEN Older(over[k][v]) ELSE 0]]
      /\ call' = [t \in Thread |->
                    IF call[t].pc \in {"run", "put"} THEN [call[t] EXCEPT !.age = Older(@)]
                    ELSE call[t]]
      /\ UNCHANGED <<content, seen, crossed, changes>>
  BY DEF Second
<1>2. FilesFit /\ Ttl \in Nat
  BY AnswersAssumption DEF AnswersInv
<1>3. \A a \in 0..Ttl : Older(a) \in 0..Ttl /\ a =< Older(a) /\ (Older(a) < Ttl => a < Ttl)
  BY <1>2, SMT DEF Older
<1>4. \A a, b \in 0..Ttl : a =< b => Older(a) =< Older(b)
  BY <1>2, SMT DEF Older
<1>5. FilesFit'
  <2>1. ASSUME NEW k \in Key, NEW v \in 0..MaxChanges PROVE over'[k][v] \in 0..Ttl
    <3>1. over'[k][v] = IF v < content[k] THEN Older(over[k][v]) ELSE 0
      BY <1>1
    <3>2. over[k][v] \in 0..Ttl
      BY <1>2 DEF FilesFit
    <3>3. Older(over[k][v]) \in 0..Ttl /\ 0 \in 0..Ttl
      BY <1>2, <1>3, <3>2
    <3> QED BY <3>1, <3>3
  <2>2. over' \in [Key -> [0..MaxChanges -> 0..Ttl]]
    BY <1>1, <2>1
  <2>3. \A k \in Key, v \in 0..MaxChanges : v >= content[k] => over'[k][v] = 0
    BY <1>1, <1>2, SMT DEF FilesFit
  <2> QED BY <1>1, <1>2, <2>2, <2>3 DEF FilesFit
<1>6. ASSUME NEW k \in Key, NEW v, NEW age \in 0..Ttl, AnswerFits(k, v, age)
      PROVE  AnswerFits(k, v, Older(age))'
  <2>1. v \in Nat /\ v =< content[k] /\ content[k] \in Nat /\ content[k] =< MaxChanges
    BY <1>2, <1>6, AnswersAssumption, SMT DEF AnswerFits, FilesFit
  <2>2. v # content[k] => over'[k][v] =< Older(age)
    <3> SUFFICES ASSUME v # content[k] PROVE over'[k][v] =< Older(age)
      OBVIOUS
    <3>1. v < content[k] /\ v \in 0..MaxChanges
      BY <2>1, AnswersAssumption, SMT
    <3>2. over'[k][v] = Older(over[k][v]) /\ over[k][v] \in 0..Ttl
      BY <1>1, <1>2, <3>1 DEF FilesFit
    <3>3. over[k][v] =< age
      BY <1>6 DEF AnswerFits
    <3> QED BY <1>4, <1>6, <3>2, <3>3
  <2>3. Older(age)' = Older(age)
    BY DEF Older
  <2> QED BY <1>1, <1>6, <2>1, <2>2, <2>3 DEF AnswerFits
<1>7. ASSUME NEW k \in Key PROVE KeptFits(k)'
  <2>1. KeptFits(k) /\ kept'[k] = [kept[k] EXCEPT !.age = Older(@)]
    BY <1>1 DEF AnswersInv
  <2>2. /\ DOMAIN kept'[k] = {"age", "is"} /\ kept'[k].age = Older(kept[k].age)
        /\ kept'[k].is = kept[k].is /\ kept[k].age \in 0..Ttl
    BY <2>1 DEF KeptFits
  <2>3. PICK v, age : v = kept[k].is /\ age = kept[k].age
    OBVIOUS
  <2>4. Older(age) < Ttl => AnswerFits(k, v, age)
    BY <1>3, <2>1, <2>2, <2>3 DEF KeptFits, Usable
  <2>5. PICK older : older = Older(age)
    OBVIOUS
  <2>6. older < Ttl => AnswerFits(k, v, older)'
    BY <1>6, <2>2, <2>3, <2>4, <2>5 DEF Older
  <2> QED BY <1>3, <2>2, <2>3, <2>5, <2>6 DEF KeptFits, Usable
<1>8. ASSUME NEW t \in Thread PROVE CallFits(call[t])'
  <2>1. CallFits(call[t])
    BY DEF AnswersInv
  <2>2. CASE call[t].pc \in {"run", "put"}
    <3>1. call'[t] = [call[t] EXCEPT !.age = Older(@)]
      BY <1>1, <2>2
    <3>2. /\ DOMAIN call'[t] = DOMAIN call[t] /\ call'[t].age = Older(call[t].age)
          /\ call'[t].pc = call[t].pc /\ call'[t].keys = call[t].keys /\ call'[t].is = call[t].is
      BY <2>1, <3>1 DEF CallFits
    <3>3. PICK k, v, age, older : /\ k = Head(call[t].keys) /\ v = call[t].is
                                  /\ age = call[t].age /\ older = Older(age)
      OBVIOUS
    <3>4. call[t].pc = "put" => k \in Key /\ AnswerFits(k, v, age)
      BY <2>1, <3>3 DEF CallFits
    <3>5. call[t].pc = "put" => AnswerFits(k, v, older)'
      BY <1>6, <2>1, <3>3, <3>4 DEF CallFits, Older
    <3> QED BY <1>3, <2>1, <3>2, <3>3, <3>5 DEF CallFits
  <2>3. CASE call[t].pc \notin {"run", "put"}
    <3>1. call'[t] = call[t]
      BY <1>1, <2>3
    <3> QED BY <2>1, <2>3, <3>1 DEF CallFits
  <2> QED BY <2>2, <2>3
<1> QED BY <1>1, <1>5, <1>7, <1>8 DEF AnswersInv

LEMMA AnswersInvariant == Spec => []AnswersInv
<1>1. Init => AnswersInv
  <2> SUFFICES ASSUME Init PROVE AnswersInv
    OBVIOUS
  <2>1. /\ content = [k \in Key |-> 0] /\ seen = content
        /\ over = [k \in Key |-> [v \in 0..MaxChanges |-> 0]]
        /\ kept = [k \in Key |-> Nothing] /\ call = [t \in Thread |-> Idle]
        /\ changes = MaxChanges - work.changes
    BY DEF Init, AnswersInit
  <2>2. work \in Work /\ work.changes =< MaxChanges
    BY ServiceAssumption DEF Init
  <2>3. changes \in Nat /\ changes =< MaxChanges
    BY <2>1, <2>2, AnswersAssumption, SMTT(30) DEF Work
  <2>4. FilesFit
    BY <2>1, <2>3, AnswersAssumption, SMT DEF FilesFit
  <2>5. ASSUME NEW k \in Key PROVE KeptFits(k)
    BY <2>1, NothingKept, SMT DEF KeptFits, Usable
  <2> QED BY <2>1, <2>4, <2>5, IdleFits DEF AnswersInv
<1>2. AnswersInv /\ [Next]_vars => AnswersInv'
  <2> SUFFICES ASSUME AnswersInv, [Next]_vars PROVE AnswersInv'
    OBVIOUS
  <2>1. CASE Forgotten
    <3>1. /\ kept' = [k \in Key |-> Nothing] /\ call' = [t \in Thread |-> Idle]
          /\ UNCHANGED <<content, over, seen, changes>>
      BY <2>1 DEF Forgotten
    <3>2. FilesFit'
      BY <3>1 DEF AnswersInv, FilesFit
    <3>3. ASSUME NEW k \in Key PROVE KeptFits(k)'
      BY <3>1, NothingKept, SMT DEF KeptFits, Usable
    <3>4. ASSUME NEW t \in Thread PROVE CallFits(call[t])'
      <4>1. call'[t] = Idle /\ Idle.pc # "put"
        BY <3>1 DEF Idle
      <4> QED BY <4>1, IdleFits DEF CallFits
    <3> QED BY <3>1, <3>2, <3>3, <3>4 DEF AnswersInv
  <2>2. ASSUME NEW t \in Thread,
               CallStep(t) \/ Refresh(t) \/ (\E k \in Key : AskFor(t, k)) \/ (\E n \in Name : Alter(t, n))
        PROVE  AnswersInv'
    BY <2>2, CallsKept, PutKept, ChangesKept, DropKept DEF CallStep
  <2>3. ASSUME NEW K, Elsewhere(K)
        PROVE  AnswersInv'
    <3>1. Changed(K) /\ UNCHANGED <<over, kept, call, seen, crossed>>
      BY <2>3 DEF Elsewhere
    <3>2. DOMAIN call' = Thread /\ \A t \in Thread : call'[t] = call[t]
      BY <3>1 DEF AnswersInv
    <3> QED BY <3>1, <3>2, AlterKept
  <2>4. CASE Second
    BY <2>4, SecondKept
  <2>5. CASE UNCHANGED answerVars
    BY <2>5 DEF answerVars, AnswersInv, FilesFit, KeptFits, CallFits, AnswerFits, Usable
  <2> QED BY <2>1, <2>2, <2>3, <2>4, <2>5, AnswersFrame
<1> QED BY <1>1, <1>2, PTL DEF Spec

\* An answer that is given again was still true within the time to live, and
\* shows what the portal itself has changed unless it crossed that change, for
\* any number of threads, clients and changes (cli_wrapper.py:52-75, 205-215).
THEOREM AnswersStayFresh == Spec => []AnswersFresh
<1>1. AnswersInv => AnswersFresh
  <2> SUFFICES ASSUME AnswersInv, NEW k \in Key, Usable(k)
               PROVE  /\ kept[k].is = content[k] \/ over[k][kept[k].is] < Ttl
                      /\ k \in crossed \/ kept[k].is >= seen[k]
    BY DEF AnswersFresh
  <2>1. AnswerFits(k, kept[k].is, kept[k].age) /\ kept[k].age \in 0..Ttl /\ kept[k].age < Ttl
    BY DEF AnswersInv, KeptFits, Usable
  <2>2. ASSUME kept[k].is # content[k] PROVE over[k][kept[k].is] < Ttl
    <3>1. /\ kept[k].is \in 0..MaxChanges /\ over[k][kept[k].is] =< kept[k].age
      BY <2>1, <2>2, AnswersAssumption, SMT DEF AnswersInv, FilesFit, AnswerFits
    <3>2. over[k][kept[k].is] \in 0..Ttl /\ Ttl \in Nat
      BY <3>1, AnswersAssumption DEF AnswersInv, FilesFit
    <3> QED BY <2>1, <3>1, <3>2, SMT
  <2> QED BY <2>1, <2>2 DEF AnswerFits
<1> QED BY <1>1, AnswersInvariant, PTL

=============================================================================
