--------------------------- MODULE MCReminderRun ----------------------------
(* Small instances of ReminderRun.  *)
EXTENDS ReminderRun

CONSTANTS s1, s2
=============================================================================
