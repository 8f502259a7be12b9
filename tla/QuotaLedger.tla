---------------------------- MODULE QuotaLedger ----------------------------
(***************************************************************************)
(* What client_usage.json promises to the quota checks: one running total  *)
(* per client.  The bytes of a session are charged when it ends, once and  *)
(* to its own client, or they are lost; the turn of the month and an       *)
(* administrator's reset bring the total to zero.  Nothing here is lazy:   *)
(* the month zeroes every total at the instant it turns.                   *)
(***************************************************************************)
EXTENDS Naturals

CONSTANT Client

VARIABLES owed,    \* owed[c]: bytes charged to c in the current month
          meter,   \* meter[c]: bytes of c's session that is not charged yet
          month    \* the current calendar month

vars == <<owed, meter, month>>

Init ==
  /\ owed = [c \in Client |-> 0]
  /\ meter = [c \in Client |-> 0]
  /\ month \in Nat

Carry(c) ==
  /\ meter' = [meter EXCEPT ![c] = @ + 1]
  /\ UNCHANGED <<owed, month>>

\* The whole session is charged to c and to nobody else.
Bill(c) ==
  /\ owed' = [owed EXCEPT ![c] = @ + meter[c]]
  /\ meter' = [meter EXCEPT ![c] = 0]
  /\ UNCHANGED month

\* The session is charged onto a file that could not be read: every other
\* row is gone.  Totals can only come out too low.
BillOnLostFile(c) ==
  /\ owed' = [d \in Client |-> IF d = c THEN meter[c] ELSE 0]
  /\ meter' = [meter EXCEPT ![c] = 0]
  /\ UNCHANGED month

\* Sessions end and are never charged in this month.
Lose(S) ==
  /\ meter' = [c \in Client |-> IF c \in S THEN 0 ELSE meter[c]]
  /\ UNCHANGED <<owed, month>>

\* The late charge of a session that ended before the month turned, onto a
\* file that could not be read.
LoseFile(c) ==
  /\ owed' = [d \in Client |-> 0]
  /\ meter' = [meter EXCEPT ![c] = 0]
  /\ UNCHANGED month

Forgive(c) ==
  /\ owed' = [owed EXCEPT ![c] = 0]
  /\ UNCHANGED <<meter, month>>

Rollover ==
  /\ month' = month + 1
  /\ owed' = [c \in Client |-> 0]
  /\ UNCHANGED meter

Next ==
  \/ \E c \in Client :
       Carry(c) \/ Bill(c) \/ BillOnLostFile(c) \/ LoseFile(c) \/ Forgive(c)
  \/ \E S \in SUBSET Client : Lose(S)
  \/ Rollover

Spec == Init /\ [][Next]_vars
=============================================================================
