-------------------------- MODULE MCPortalService --------------------------
(* PortalService for TLC: the work of each behaviour, the saves tried. *)
EXTENDS PortalService

NoWork == [saves |-> 0, requests |-> 0, writes |-> 0, use |-> FALSE, months |-> 0, faults |-> 0,
           changes |-> 0, refusals |-> 0, pages |-> FALSE, releases |-> 0, old |-> 0, breaks |-> 0,
           starts |-> 1]
OneKindAtATime ==
  {[NoWork EXCEPT !.saves = 2], [NoWork EXCEPT !.requests = 3], [NoWork EXCEPT !.writes = 2],
   [NoWork EXCEPT !.use = TRUE, !.saves = 1, !.starts = 0],
   [NoWork EXCEPT !.use = TRUE, !.months = 1, !.faults = 1],
   [NoWork EXCEPT !.changes = 1, !.refusals = 1, !.starts = 0],
   [NoWork EXCEPT !.pages = TRUE, !.breaks = 1], [NoWork EXCEPT !.pages = TRUE, !.old = 1],
   [NoWork EXCEPT !.pages = TRUE, !.releases = 1, !.starts = 0]}
QuotasUsedUp == {w \in OneKindAtATime : w.use}

FirstSettings == [warn |-> 1, crit |-> 2, alert |-> FALSE, address |-> FALSE, bell |-> TRUE, enforce |-> "soft"]
Only(f, v) == [g \in {f} |-> v]
OneAnswer == <<"lists">>
CodeLeft == {[c \in Client |-> IF c \in Restricted THEN NoCountry ELSE k] : k \in Country}
Saves ==
  {Only("crit", 3), Only("bell", FALSE), Only("enforce", "hard"),
   [alert |-> TRUE, address |-> TRUE], Only("address", FALSE)}
=============================================================================
