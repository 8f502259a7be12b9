-------------------------- MODULE PortalSettings --------------------------
(***************************************************************************)
(* The row of the Settings page, the copy of it every part of the portal   *)
(* reads, and the file of defaults the enforcer of the quotas reads.       *)
(*                                                                         *)
(* Source: app/vpnadmin/routes/settings.py (update_settings),              *)
(* app/vpnadmin/app_settings.py, policy_store.write_global_defaults.       *)
(*                                                                         *)
(* Administrators save at the same time, each in a thread of its own: it   *)
(* reads the row, checks the row as it would become, commits the columns   *)
(* that differ, reads the row again, rewrites the copy and then the file.  *)
(* The copy is rewritten field by field; here that is one step, and what   *)
(* two threads writing at once leave is excused by "mixed".                *)
(***************************************************************************)
EXTENDS Naturals

CONSTANTS
  Saver,         \* threads that serve a save
  Bodies,        \* what a save may carry: functions from some of the Fields
  FirstRow,      \* the row before the first save, defaults filled in
  MaxSaves       \* bound: saves

Fields == {"warn", "crit", "alert", "address", "bell", "enforce"}

ASSUME SettingsAssumption ==
  /\ \A b \in Bodies : DOMAIN b \subseteq Fields
  /\ DOMAIN FirstRow = Fields
  /\ MaxSaves \in Nat

VARIABLES
  row,       \* the settings in the database
  cache,     \* app_settings.runtime
  file,      \* the enforcement of the defaults file
  saver,     \* per thread: how far it is and what it has read
  saves,     \* saves so far
  behind,    \* history: has the last attempt to write the file failed
  mixed      \* history: have two saves overlapped since the last start

settingsVars == <<row, cache, file, saver, saves, behind, mixed>>

None == [f \in {} |-> FALSE]
Resting == [pc |-> "rest", changes |-> None, read |-> None]

Saving(s) == saver[s].pc # "rest"

Over(r, changes) == [f \in Fields |-> IF f \in DOMAIN changes THEN changes[f] ELSE r[f]]

\* The checks over the row as the save would leave it: of the thresholds always,
\* of the address when the save is about mails.
Accepted(body) ==
  LET r == Over(row, body) IN
  /\ r.warn < r.crit
  /\ DOMAIN body \cap {"alert", "address"} # {} /\ r.alert => r.address

\* A save that fails a check or changes nothing does nothing.
Begin(s, body) ==
  LET differ == [f \in {g \in DOMAIN body : body[g] # row[g]} |-> body[f]] IN
  /\ ~Saving(s)
  /\ saves < MaxSaves
  /\ Accepted(body) /\ differ # None
  /\ saver' = [saver EXCEPT ![s] = [pc |-> "commit", changes |-> differ, read |-> None]]
  /\ saves' = saves + 1
  /\ mixed' = (mixed \/ \E t \in Saver : Saving(t))
  /\ UNCHANGED <<row, cache, file, behind>>

CommitSave(s) ==
  /\ saver[s].pc = "commit"
  /\ row' = Over(row, saver[s].changes)
  /\ saver' = [saver EXCEPT ![s].pc = "fetch"]
  /\ UNCHANGED <<cache, file, saves, behind, mixed>>

Fetch(s) ==
  /\ saver[s].pc = "fetch"
  /\ saver' = [saver EXCEPT ![s].pc = "derive", ![s].read = row]
  /\ UNCHANGED <<row, cache, file, saves, behind, mixed>>

Derive(s) ==
  /\ saver[s].pc = "derive"
  /\ cache' = saver[s].read
  /\ saver' = [saver EXCEPT ![s].pc = "file"]
  /\ UNCHANGED <<row, file, saves, behind, mixed>>

\* wrong on purpose: the file is left to the next start
DefaultsKept(s) ==
  /\ saver[s].pc = "file"
  /\ saver' = [saver EXCEPT ![s] = Resting]
  /\ UNCHANGED <<row, cache, file, saves, behind, mixed>>

\* A file that cannot be written stays as it was and nobody hears of it.
FileGets(v) ==
  \/ file' = v /\ behind' = FALSE
  \/ UNCHANGED file /\ behind' = TRUE

WriteDefaults(s) ==
  /\ saver[s].pc = "file"
  /\ FileGets(cache.enforce)
  /\ saver' = [saver EXCEPT ![s] = Resting]
  /\ UNCHANGED <<row, cache, saves, mixed>>

SettingsInit(spent) ==
  /\ row = FirstRow
  /\ cache = FirstRow
  /\ file = FirstRow.enforce
  /\ saver = [s \in Saver |-> Resting]
  /\ saves = spent
  /\ behind = FALSE
  /\ mixed = FALSE

\* A start: whatever was in flight is gone, the copy and the file are made
\* from the row.
Refreshed ==
  /\ cache' = row
  /\ FileGets(row.enforce)
  /\ saver' = [s \in Saver |-> Resting]
  /\ mixed' = FALSE
  /\ UNCHANGED <<row, saves>>

SettingsStep(s) ==
  \/ \E body \in Bodies : Begin(s, body)
  \/ CommitSave(s)
  \/ Fetch(s)
  \/ Derive(s)
  \/ WriteDefaults(s)
-----------------------------------------------------------------------------
\* When no save is under way, the copy the portal works with is that of the row
\* and so is the file the enforcer reads, unless the last attempt to write it
\* failed, which the save or the start that made it does not tell; and unless
\* two saves have overlapped since the last start: then the older copy may be
\* the last one written.
CacheFollows ==
  \/ mixed
  \/ \E s \in Saver : Saving(s)
  \/ cache = row /\ (behind \/ file = row.enforce)
=============================================================================
