----------------------------- MODULE ReminderJob -----------------------------
(***************************************************************************)
(* What one reminder run promises, without queues, activities, retries or  *)
(* transactions: it selects its students once; mails nobody else; and      *)
(* completes only when the audit has, for every student of the selection   *)
(* in one atomic step, a row with that student's one verdict, which is     *)
(* Sent only for somebody it mailed.  A job that has ended may still mail  *)
(* its selection and repeat its audit, with the same verdicts.             *)
(***************************************************************************)
EXTENDS Integers

CONSTANTS Students, Status

VARIABLES
    mails,   \* whether this run sends real mail
    state,   \* the run: waiting, open, completed, failed
    batch,   \* the students it has selected
    inbox,   \* mails delivered to each student
    log      \* audit rows, by student and status

vars == <<mails, state, batch, inbox, log>>

Init ==
    /\ mails \in BOOLEAN
    /\ state = "waiting"
    /\ batch = {}
    /\ inbox = [s \in Students |-> 0]
    /\ log = [e \in Students \X Status |-> 0]

Select ==
    /\ state = "waiting"
    /\ batch' \in SUBSET Students
    /\ state' = "open"
    /\ UNCHANGED <<mails, inbox, log>>

(* Also by a run that has ended: what it had queued still runs, or runs    *)
(* again.                                                                  *)
Mail(s) ==
    /\ mails
    /\ s \in batch
    /\ state # "waiting"
    /\ inbox' = [inbox EXCEPT ![s] = @ + 1]
    /\ UNCHANGED <<mails, state, batch, log>>

Rows(s) == {status \in Status : log[<<s, status>>] > 0}

Honest(verdict) ==
    \A s \in batch :
        /\ verdict[s] = "Sent" => inbox[s] > 0 \/ ~mails
        /\ Rows(s) \subseteq {verdict[s]}

(* One row for every student, or none: what is written is the whole batch; *)
(* the same batch may be written again.                                    *)
Audit(verdict) ==
    /\ state # "waiting"
    /\ Honest(verdict)
    /\ log' = [e \in Students \X Status |->
          IF e[1] \in batch /\ verdict[e[1]] = e[2] THEN log[e] + 1 ELSE log[e]]
    /\ state' \in IF state = "open" THEN {"open", "completed", "failed"} ELSE {state}
    /\ UNCHANGED <<mails, batch, inbox>>

Fail ==
    /\ state \in {"waiting", "open"}
    /\ state' = "failed"
    /\ UNCHANGED <<mails, batch, inbox, log>>

Next ==
    \/ Select \/ Fail
    \/ \E s \in Students : Mail(s)
    \/ \E verdict \in [batch -> Status] : Audit(verdict)

Spec == Init /\ [][Next]_vars
=============================================================================
