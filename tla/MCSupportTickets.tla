-------------------------- MODULE MCSupportTickets --------------------------
(* Instances of SupportTickets for TLC. *)
EXTENDS SupportTickets, TLC

Plain == [owner |-> "u1", sys |-> FALSE, status |-> "open", critical |-> FALSE,
          agent |-> Null, resolved |-> "none", closed |-> "none", deleted |-> FALSE,
          locked |-> FALSE, dup |-> Null, about |-> Null]
Left(regular, upgrade) ==
  (1 :> [Plain EXCEPT !.status = regular])
  @@ (2 :> [Plain EXCEPT !.status = upgrade, !.sys = TRUE])
  @@ [k \in Tickets |-> Null]
OldTables ==
  {Left("assigned", "reopened")}

OnlyStatus(s) == [status |-> s, critical |-> Null, agent |-> Null, clear |-> FALSE]
SomeBodies ==
  {OnlyStatus(s) : s \in {"assigned", "resolved", "closed"}}
  \cup {[OnlyStatus(Null) EXCEPT !.agent = a] : a \in Agents}
  \cup {[OnlyStatus(Null) EXCEPT !.clear = TRUE],
        [OnlyStatus("in_progress") EXCEPT !.critical = TRUE]}

\* One ticket, or the two that an older version has left.
SomeBatches == {{k} : k \in Tickets} \cup {{1, 2}}
MyRejections == [r \in Rejections |-> "u1"]
ThreadSymmetry == Permutations(Threads)
=============================================================================
