-------------------------- MODULE EmailProviders --------------------------
(***************************************************************************)
(* The profiles through which the portal sends mail, and the requests that *)
(* create, change, promote and delete them.                                *)
(*                                                                         *)
(* Source: app/vpnadmin/routes/email_providers.py, models.EmailProvider,   *)
(* app_settings.migrate_legacy_smtp_provider.                              *)
(*                                                                         *)
(* A request runs in a thread of its own and is split where its session    *)
(* talks to the database: the rows it checks, the UPDATE that clears the   *)
(* flag of the others, the commit.                                         *)
(***************************************************************************)
EXTENDS Naturals, FiniteSets

CONSTANTS
  Provider,       \* profiles
  Clerk,          \* threads that serve such a request
  NoProvider,
  MaxRequests     \* bound: requests

ASSUME ProviderAssumption ==
  /\ NoProvider \notin Provider
  /\ MaxRequests \in Nat

VARIABLES
  prov,      \* the table email_providers
  clerk,     \* per thread: the request and what it has read
  asked,     \* requests so far
  clash      \* history: have two requests ever overlapped

provVars == <<prov, clerk, asked, clash>>

Absent == [known |-> FALSE, active |-> FALSE, main |-> FALSE]
First == [known |-> TRUE, active |-> TRUE, main |-> TRUE]
Known == {p \in Provider : prov[p].known}
Main == {p \in Known : prov[p].main}

Free == [op |-> "free", p |-> NoProvider, first |-> FALSE, active |-> FALSE, clears |-> {}]

Busy(k) == clerk[k].op # "free"

Take(k, request) ==
  /\ ~Busy(k)
  /\ asked < MaxRequests
  /\ clerk' = [clerk EXCEPT ![k] = request]
  /\ asked' = asked + 1
  /\ clash' = (clash \/ \E other \in Clerk : Busy(other))
  /\ UNCHANGED prov

\* The first profile becomes the default, whether it is active or not.
Create(k, p, on) ==
  /\ p \notin Known
  /\ Take(k, [Free EXCEPT !.op = "create", !.p = p, !.first = (Known = {}), !.active = on])

\* The default cannot be switched off.
Update(k, p, on) ==
  /\ p \in Known
  /\ prov[p].active # on
  /\ on \/ ~prov[p].main
  /\ Take(k, [Free EXCEPT !.op = "update", !.p = p, !.active = on])

SetDefault(k, p) ==
  /\ p \in Known
  /\ prov[p].active /\ ~prov[p].main
  /\ Take(k, [Free EXCEPT !.op = "clear", !.p = p])

Delete(k, p) ==
  /\ p \in Known
  /\ ~prov[p].main
  /\ Take(k, [Free EXCEPT !.op = "delete", !.p = p])

\* wrong on purpose: the other profiles keep their flag
ClearNone(k) ==
  /\ clerk[k].op = "clear"
  /\ clerk' = [clerk EXCEPT ![k].op = "promote"]
  /\ UNCHANGED <<prov, asked, clash>>

\* The UPDATE finds the default rows; the commit decides when others see it.
Clear(k) ==
  /\ clerk[k].op = "clear"
  /\ clerk' = [clerk EXCEPT ![k].op = "promote", ![k].clears = Main]
  /\ UNCHANGED <<prov, asked, clash>>

Stored(k) ==
  LET q == clerk[k] IN
  CASE q.op = "create" -> [prov EXCEPT ![q.p] = [known |-> TRUE, active |-> q.active, main |-> q.first]]
    [] q.op = "update" -> [prov EXCEPT ![q.p].active = q.active]
    [] q.op = "promote" -> [p \in Provider |->
                              IF p = q.p THEN [prov[p] EXCEPT !.main = TRUE]
                              ELSE IF p \in q.clears THEN [prov[p] EXCEPT !.main = FALSE]
                              ELSE prov[p]]
    [] q.op = "delete" -> [prov EXCEPT ![q.p] = Absent]

\* A row another request deleted meanwhile cannot be updated: the request
\* fails.
Store(k) ==
  /\ clerk[k].op \in {"create", "update", "promote", "delete"}
  /\ prov' = IF clerk[k].op = "create" \/ clerk[k].p \in Known THEN Stored(k) ELSE prov
  /\ clerk' = [clerk EXCEPT ![k] = Free]
  /\ UNCHANGED <<asked, clash>>

\* At every start: with no profile and the settings of an older version, one
\* profile is made of them.
Adopted(p) ==
  IF Known = {} THEN [prov EXCEPT ![p] = First]
  ELSE prov

ProvidersInit(spent) ==
  /\ \/ prov = [p \in Provider |-> Absent]
     \/ \E q \in Provider : prov = [p \in Provider |-> IF p = q THEN First ELSE Absent]
  /\ clerk = [k \in Clerk |-> Free]
  /\ asked = spent
  /\ clash = FALSE

ProviderStep(k) ==
  \/ \E p \in Provider, on \in BOOLEAN : Create(k, p, on) \/ Update(k, p, on)
  \/ \E p \in Provider : SetDefault(k, p) \/ Delete(k, p)
  \/ Clear(k)
  \/ Store(k)
-----------------------------------------------------------------------------
\* "there's never a moment where two rows are default or zero are": as long
\* as no two requests overlap, exactly one of the profiles is the default.
OneDefault == clash \/ Known = {} \/ Cardinality(Main) = 1
=============================================================================
