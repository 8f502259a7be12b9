---------------------------- MODULE PolicyFile ----------------------------
(***************************************************************************)
(* The file of the restrictions of VPN clients and those who rewrite it:   *)
(* threads of the portal and the command line of the install script, each  *)
(* under the lock on the file next to it.                                  *)
(*                                                                         *)
(* Source: app/vpnadmin/policy_store.py, routes/clients.py                 *)
(* (update_client_policy), client_policy_cli.py.                           *)
(*                                                                         *)
(* An entry has a list of countries, the single country of older versions, *)
(* which the command line still writes, and everything else ("rest").  An  *)
(* empty list and no list are one: a write leaves neither.                 *)
(***************************************************************************)
EXTENDS Naturals

CONSTANTS
  Client,      \* clients, by name
  Country,
  NoCountry,
  Editor,      \* threads of the portal that serve such a request
  Shell,       \* processes of the command line
  Booter,      \* the thread that starts the portal
  Nobody,      \* nobody holds the lock
  OldCodes,    \* the single countries an older version may have left
  MaxWrites    \* bound: writes asked for

ASSUME PolicyAssumption ==
  /\ NoCountry \notin Country
  /\ Nobody \notin Editor \cup Shell \cup {Booter}
  /\ OldCodes \subseteq [Client -> Country \cup {NoCountry}]
  /\ MaxWrites \in Nat

VARIABLES
  policies,  \* client_policy.json
  holder,    \* who holds the lock
  writer,    \* per writer: how far it is, the write and the file it has read
  writes,    \* writes asked for so far
  due,       \* history: the file after every write asked for, one by one
  gone       \* history: clients whose entry was there when a write replaced a
             \* file that its writer could not read

policyVars == <<policies, holder, writer, writes, due, gone>>

Writer == Editor \cup Shell \cup {Booter}
Entry == [list : SUBSET Country, code : Country \cup {NoCountry}, rest : BOOLEAN]
NoFile == [c \in {} |-> {}]
Blank == [list |-> {}, code |-> NoCountry, rest |-> FALSE]
Empty == [c \in Client |-> Blank]
Quiet == [pc |-> "quiet", client |-> NoCountry, changes |-> NoFile, seen |-> NoFile,
          wanted |-> FALSE, blind |-> FALSE]

Changing(e, changes) ==
  [f \in DOMAIN e |-> IF f \in DOMAIN changes THEN changes[f] ELSE e[f]]

\* An entry of an older version reads as a list of one.
Normalised(e) ==
  IF e.list = {} /\ e.code # NoCountry THEN [e EXCEPT !.list = {e.code}, !.code = NoCountry]
  ELSE e

\* The portal lifts the entry and drops the old key; the command line changes
\* its key in the entry as it is.
Applied(w, e, changes) ==
  IF w \in Shell THEN Changing(e, changes)
  ELSE [Changing(Normalised(e), changes) EXCEPT !.code = NoCountry]

Ask(w, c, changes, wanted) ==
  /\ writer[w].pc = "quiet"
  /\ writer' = [writer EXCEPT ![w] = [pc |-> "lock", client |-> c, changes |-> changes,
                                      seen |-> NoFile, wanted |-> wanted, blind |-> FALSE]]
  /\ UNCHANGED <<policies, holder, due, gone>>

EditChanges ==
  [{"list"} -> SUBSET Country] \cup [{"rest"} -> BOOLEAN]
ShellChanges ==
  [{"code"} -> Country \cup {NoCountry}] \cup [{"rest"} -> BOOLEAN]

Edit(w, c) ==
  /\ w \in Editor
  /\ writes < MaxWrites
  /\ writes' = writes + 1
  /\ \E changes \in EditChanges : Ask(w, c, changes, TRUE)

ShellEdit(w, c) ==
  /\ w \in Shell
  /\ writes < MaxWrites
  /\ writes' = writes + 1
  /\ \E changes \in ShellChanges : Ask(w, c, changes, TRUE)

\* The file is read once the lock is held.  One that is not where it should be,
\* cannot be opened or is no JSON, after a disk's fault or an edit by hand,
\* reads as a file without entries, and the writer goes on.
ReadLocked(w) ==
  /\ writer[w].pc = "lock"
  /\ holder = Nobody
  /\ holder' = w
  /\ \E blind \in BOOLEAN :
       writer' = [writer EXCEPT ![w].pc = "replace", ![w].blind = blind,
                                ![w].seen = IF blind THEN Empty ELSE policies]
  /\ UNCHANGED <<policies, writes, due, gone>>

\* A file is written beside the other and takes its place; the lock is given
\* back.
Replace(w) ==
  LET q == writer[w] IN
  /\ q.pc = "replace"
  /\ policies' = [q.seen EXCEPT ![q.client] = Applied(w, @, q.changes)]
  /\ due' = IF q.wanted THEN [due EXCEPT ![q.client] = Applied(w, @, q.changes)] ELSE due
  /\ gone' = IF q.blind THEN gone \cup {c \in Client : policies[c] # Blank} ELSE gone
  /\ holder' = Nobody
  /\ writer' = [writer EXCEPT ![w] = Quiet]
  /\ UNCHANGED writes

Silenced(W) == [w \in Writer |-> IF w \in W THEN Quiet ELSE writer[w]]
Freed(W) == IF holder \in W THEN Nobody ELSE holder

\* No room, no right to write, a killed process: the file stays, the lock goes
\* with whoever held it.
WriteFails(w) ==
  /\ writer[w].pc # "quiet"
  /\ writer' = Silenced({w})
  /\ holder' = Freed({w})
  /\ UNCHANGED <<policies, writes, due, gone>>

PolicyInit(spent) ==
  /\ \E old \in OldCodes :
       policies = [c \in Client |-> [Blank EXCEPT !.code = old[c]]]
  /\ holder = Nobody
  /\ writer = [w \in Writer |-> Quiet]
  /\ writes = spent
  /\ due = policies
  /\ gone = {}

WriterStep(w) == ReadLocked(w) \/ Replace(w) \/ WriteFails(w)
=============================================================================
