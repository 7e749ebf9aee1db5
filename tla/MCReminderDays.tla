--------------------------- MODULE MCReminderDays ---------------------------
(* Students who are overdue from day 0.  *)
EXTENDS ReminderDays

CONSTANTS s1, p1

MCSeedRows ==
    [s \in Students |-> [total |-> 2, paid |-> 0, due |-> -1, version |-> 0]]
=============================================================================
