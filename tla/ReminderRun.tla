----------------------------- MODULE ReminderRun ----------------------------
(***************************************************************************)
(* One run of ReminderOrchestration: query the overdue students, send each *)
(* a reminder in an activity of its own, wait for all of them, and write   *)
(* one ReminderLog row per student in one transaction.                     *)
(*                                                                         *)
(* Durable Functions is external and modelled as the code uses it:         *)
(* activities run at least once: a host that dies has its message          *)
(* delivered again, also if the result is in the history by then and even  *)
(* if the run has ended, and a second result of one task is ignored; an    *)
(* activity that raises, or whose worker process exits, is run again under *)
(* RetryOptions if it was called with retry; task_all fails as soon as one *)
(* task has failed for good, while sends already scheduled still run; a    *)
(* finished orchestration schedules nothing more.  Replaying the           *)
(* orchestrator repeats no activity, so it is no step here.  SendGrid is   *)
(* external: a request may be accepted, refused, or accepted without the   *)
(* caller learning of it.                                                  *)
(***************************************************************************)
EXTENDS Integers, FiniteSets, ApiErrors

CONSTANTS
    None,
    Students,
    MaxTries,      \* SendGrid requests of one activity execution
    MaxRuns,       \* executions RetryOptions allows an activity
    MaxAttempts,   \* attempts of with_db_retry
    MaxCrashes     \* bound on hosts that die

ASSUME LimitsAssumption ==
    /\ MaxTries \in Nat \ {0} /\ MaxRuns \in Nat \ {0}
    /\ MaxAttempts \in Nat \ {0} /\ MaxCrashes \in Nat

(* The table holds finitely many students.                                 *)
ASSUME StudentsAssumption == IsFiniteSet(Students)

VARIABLES
    mode,       \* SENDGRID_MODE and its settings
    stage,      \* where the orchestration is
    batch,      \* the students the query returned
    task,       \* the SendReminderEmail task of each student
    inbox,      \* mails SendGrid accepted for each student
    late,       \* tries that executions delivered again after their result was
                \* recorded may still make, by student
    log,        \* committed ReminderLog rows, by student and status
    pending,    \* students whose row the open transaction has inserted
    dbTry,      \* the attempt of insert_many, from 0
    inserted,   \* what insert_many returned
    added,      \* history: rows this call of insert_many committed
    logAgain,   \* LogReminderSummary runs again after its result was recorded
    crashes,    \* hosts that died
    fault       \* history: an activity or the database failed unexpectedly

logging == <<log, pending, dbTry, inserted, added, logAgain>>
vars == <<mode, stage, batch, task, inbox, late, logging, crashes, fault>>

Status == {"Sent", "Failed"}
Modes == {"real", "mock", "unconfigured"}
Stages == {"idle", "query", "send", "log", "completed", "failed"}
Places == {"none", "scheduled", "running", "answered", "recorded", "failed"}

TypeOK ==
    /\ mode \in Modes
    /\ stage \in Stages
    /\ batch \subseteq Students
    /\ task \in [Students -> [at : Places, run : 1 .. MaxRuns, try : Nat,
                              result : Status \cup {None}]]
    /\ inbox \in [Students -> Nat] /\ late \in [Students -> Nat]
    /\ log \in [Students \X Status -> Nat]
    /\ pending \subseteq batch
    /\ dbTry \in 0 .. MaxAttempts - 1
    /\ inserted \in Nat \cup {None} /\ added \in Nat /\ logAgain \in BOOLEAN
    /\ crashes \in 0 .. MaxCrashes
    /\ fault \in BOOLEAN

Untried == [at |-> "none", run |-> 1, try |-> 0, result |-> None]

Init ==
    /\ mode \in Modes
    /\ stage = "idle"
    /\ batch = {}
    /\ task = [s \in Students |-> Untried]
    /\ inbox = [s \in Students |-> 0]
    /\ late = [s \in Students |-> 0]
    /\ log = [e \in Students \X Status |-> 0]
    /\ pending = {}
    /\ dbTry = 0
    /\ inserted = None
    /\ added = 0
    /\ logAgain = FALSE
    /\ crashes = 0
    /\ fault = FALSE
-----------------------------------------------------------------------------
Start ==
    /\ stage = "idle"
    /\ stage' = "query"
    /\ UNCHANGED <<mode, batch, task, inbox, late, logging, crashes, fault>>

(* The query returns whoever is overdue; without any, the empty summary is *)
(* logged.  It reads only, so its own retries leave no trace.              *)
Query ==
    /\ stage = "query"
    /\ \E overdue \in SUBSET Students :
          /\ batch' = overdue
          /\ task' = [s \in Students |->
                IF s \in overdue THEN [Untried EXCEPT !.at = "scheduled"] ELSE Untried]
          /\ stage' = IF overdue = {} THEN "log" ELSE "send"
    /\ UNCHANGED <<mode, inbox, late, logging, crashes, fault>>

(* The query activity is called without retry: its failure ends the run.   *)
QueryFails ==
    /\ stage = "query"
    /\ stage' = "failed"
    /\ fault' = TRUE
    /\ UNCHANGED <<mode, batch, task, inbox, late, logging, crashes>>
-----------------------------------------------------------------------------
Deliver(s) == inbox' = [inbox EXCEPT ![s] = @ + 1]

Return(s, status) ==
    task' = [task EXCEPT ![s] = [@ EXCEPT !.at = "answered", !.result = status]]

(* Scheduled sends run whether or not the orchestration has failed since.  *)
BeginSend(s) ==
    /\ task[s].at = "scheduled"
    /\ task' = [task EXCEPT ![s] = [@ EXCEPT !.at = "running", !.try = 0]]
    /\ UNCHANGED <<mode, stage, batch, inbox, late, logging, crashes, fault>>

(* Mock mode logs the mail; real mode without key or sender gives up       *)
(* before any request.                                                     *)
SendWithoutRequest(s) ==
    /\ task[s].at = "running"
    /\ \/ mode = "mock" /\ Return(s, "Sent")
       \/ mode = "unconfigured" /\ Return(s, "Failed")
    /\ UNCHANGED <<mode, stage, batch, inbox, late, logging, crashes, fault>>

SendAccepted(s) ==
    /\ task[s].at = "running" /\ mode = "real"
    /\ Deliver(s)
    /\ Return(s, "Sent")
    /\ UNCHANGED <<mode, stage, batch, late, logging, crashes, fault>>

(* Mutant: the activity lets SendGridError out instead of returning Failed. *)
GiveUpRaises(s) ==
    task' = [task EXCEPT ![s] = [@ EXCEPT !.at = "failed", !.try = task[s].try + 1]]

(* Mutant: the failure is swallowed. *)
GiveUpSilently(s) ==
    task' = [task EXCEPT ![s] =
        [@ EXCEPT !.at = "answered", !.result = "Sent", !.try = task[s].try + 1]]

(* The last try is refused: SendGridError, which the activity returns as a *)
(* result.                                                                 *)
GiveUp(s) ==
    task' = [task EXCEPT ![s] =
        [@ EXCEPT !.at = "answered", !.result = "Failed", !.try = task[s].try + 1]]

(* Mutant: one try too many. *)
TryAgainOffByOne(s) ==
    IF task[s].try < MaxTries
    THEN task' = [task EXCEPT ![s].try = @ + 1]
    ELSE GiveUp(s)

TryAgain(s) ==
    IF task[s].try + 1 < MaxTries
    THEN task' = [task EXCEPT ![s].try = @ + 1]
    ELSE GiveUp(s)

SendRefused(s) ==
    /\ task[s].at = "running" /\ mode = "real"
    /\ TryAgain(s)
    /\ UNCHANGED <<mode, stage, batch, inbox, late, logging, crashes, fault>>

(* SendGrid takes the mail, the connection breaks before its answer: to    *)
(* the client that is a failed try like any other.                         *)
SendAnswerLost(s) ==
    /\ task[s].at = "running" /\ mode = "real"
    /\ Deliver(s)
    /\ TryAgain(s)
    /\ UNCHANGED <<mode, stage, batch, late, logging, crashes, fault>>

(* The result reaches the orchestration's history.                         *)
Record(s) ==
    /\ task[s].at = "answered"
    /\ task' = [task EXCEPT ![s].at = "recorded"]
    /\ UNCHANGED <<mode, stage, batch, inbox, late, logging, crashes, fault>>

(* Mutant: RetryOptions without a limit. *)
RunsUnlimited(s) == TRUE

RunsLeft(s) == task[s].run < MaxRuns

(* An unexpected exception, or the worker process exits: RetryOptions      *)
(* schedules the activity again, from the orchestration, while that runs.  *)
ActivityFails(s) ==
    /\ task[s].at \in {"running", "answered"}
    /\ task' = [task EXCEPT ![s] =
          IF stage = "send" /\ RunsLeft(s)
          THEN [Untried EXCEPT !.at = "scheduled", !.run = task[s].run + 1]
          ELSE [@ EXCEPT !.at = "failed", !.result = None]]
    /\ fault' = TRUE
    /\ UNCHANGED <<mode, stage, batch, inbox, late, logging, crashes>>

(* The host dies before the result is recorded: the queue delivers the     *)
(* same execution again.                                                   *)
HostDies(s) ==
    /\ task[s].at \in {"running", "answered"}
    /\ crashes < MaxCrashes
    /\ crashes' = crashes + 1
    /\ task' = [task EXCEPT ![s] = [Untried EXCEPT !.at = "scheduled", !.run = task[s].run]]
    /\ UNCHANGED <<mode, stage, batch, inbox, late, logging, fault>>

(* An execution whose result, or failure, the history has.                 *)
Ended(s) == task[s].at \in {"recorded", "failed"} \/ task[s].run > 1

(* The host dies after the result was recorded and before the message is   *)
(* deleted, or while it runs that message again.                           *)
HostDiesLate(s) ==
    /\ Ended(s)
    /\ crashes < MaxCrashes
    /\ crashes' = crashes + 1
    /\ late' = [late EXCEPT ![s] = @ + MaxTries]
    /\ UNCHANGED <<mode, stage, batch, task, inbox, logging, fault>>

(* A try of such an execution, delivered or not, last or not: whatever     *)
(* comes of it, its result is ignored.                                     *)
LateTry(s) ==
    /\ late[s] > 0
    /\ \E left \in 0 .. late[s] - 1 : late' = [late EXCEPT ![s] = left]
    /\ \/ UNCHANGED inbox
       \/ mode = "real" /\ Deliver(s)
    /\ UNCHANGED <<mode, stage, batch, task, logging, crashes, fault>>
-----------------------------------------------------------------------------
(* Mutant: the run goes on when one task has finished. *)
AnyRecorded == \E s \in batch : task[s].at = "recorded"

AllRecorded == \A s \in batch : task[s].at = "recorded"

FanIn ==
    /\ stage = "send"
    /\ AllRecorded
    /\ stage' = "log"
    /\ UNCHANGED <<mode, batch, task, inbox, late, logging, crashes, fault>>

(* task_all raises, and so does the orchestrator.                          *)
FanInFails ==
    /\ stage = "send"
    /\ \E s \in batch : task[s].at = "failed"
    /\ stage' = "failed"
    /\ UNCHANGED <<mode, batch, task, inbox, late, logging, crashes, fault>>
-----------------------------------------------------------------------------
(* insert_many, one INSERT per result in one transaction.                  *)
Logging == stage = "log" \/ logAgain

LogInsert(s) ==
    /\ Logging
    /\ s \in batch \ pending
    /\ pending' = pending \cup {s}
    /\ UNCHANGED <<mode, stage, batch, task, inbox, late, log, dbTry, inserted, added,
                   logAgain, crashes, fault>>

(* Mutant: the transaction ends before the last row is inserted. *)
SomeInserted == pending # {} \/ batch = {}

AllInserted == pending = batch

(* Mutant: a row for every student, whatever became of the send. *)
RowsAsSent ==
    [e \in Students \X Status |->
        IF e[1] \in pending /\ e[2] = "Sent" THEN log[e] + 1 ELSE log[e]]

RowsAdded ==
    [e \in Students \X Status |->
        IF e[1] \in pending /\ task[e[1]].result = e[2] THEN log[e] + 1 ELSE log[e]]

(* The history takes one result; that of a repeated execution is ignored.  *)
LogEnds(end) ==
    IF logAgain THEN logAgain' = FALSE /\ UNCHANGED stage
    ELSE stage' = end /\ UNCHANGED logAgain
Adds(rows) == added' = IF logAgain THEN added ELSE rows

CommitRows ==
    /\ log' = RowsAdded
    /\ Adds(added + Cardinality(pending))
    /\ pending' = {}

(* With no entries insert_many returns 0 and opens no transaction.         *)
LogCommit ==
    /\ Logging
    /\ AllInserted
    /\ CommitRows
    /\ inserted' = IF logAgain THEN inserted ELSE Cardinality(batch)
    /\ LogEnds("completed")
    /\ UNCHANGED <<mode, batch, task, inbox, late, dbTry, crashes, fault>>

(* with_db_retry runs the transaction again, or the activity fails: it is  *)
(* called without retry, so the run fails with it.                         *)
LogRaises(exc) ==
    /\ IF exc \in Transient /\ dbTry + 1 < MaxAttempts
       THEN dbTry' = dbTry + 1 /\ UNCHANGED <<stage, logAgain>>
       ELSE LogEnds("failed") /\ UNCHANGED dbTry
    /\ fault' = TRUE
    /\ UNCHANGED <<mode, batch, task, inbox, late, inserted, crashes>>

(* Mutant: the transaction is retried without counting attempts. *)
LogFailsForever ==
    /\ stage = "log" /\ batch # {}
    /\ pending' = {}
    /\ fault' = TRUE
    /\ UNCHANGED <<mode, stage, batch, task, inbox, late, log, dbTry, inserted, added,
                   logAgain, crashes>>

LogFails ==
    /\ Logging /\ batch # {}
    /\ pending' = {}
    /\ UNCHANGED <<log, added>>
    /\ \E exc \in ConnectFailures : LogRaises(exc)

(* The server has committed, the driver sees a lost connection.            *)
LogAckLost ==
    /\ Logging /\ batch # {}
    /\ AllInserted
    /\ CommitRows
    /\ LogRaises("OperationalError")

(* The host dies, before or just after the commit: the activity is run     *)
(* again from its start.                                                   *)
LogHostDies ==
    /\ Logging
    /\ crashes < MaxCrashes
    /\ crashes' = crashes + 1
    /\ \/ UNCHANGED log
       \/ AllInserted /\ log' = RowsAdded
    /\ pending' = {} /\ dbTry' = 0 /\ Adds(0)
    /\ UNCHANGED <<mode, stage, batch, task, inbox, late, inserted, logAgain, fault>>

(* It dies after the result, or the failure, of the activity was recorded: *)
(* every send is recorded in a failed run only if it got as far as this.   *)
LogHostDiesLate ==
    /\ stage \in {"completed", "failed"} /\ ~logAgain
    /\ batch # {} /\ AllRecorded
    /\ crashes < MaxCrashes
    /\ crashes' = crashes + 1
    /\ logAgain' = TRUE /\ dbTry' = 0
    /\ UNCHANGED <<mode, stage, batch, task, inbox, late, log, pending, inserted, added,
                   fault>>
-----------------------------------------------------------------------------
Send(s) ==
    \/ BeginSend(s) \/ SendWithoutRequest(s) \/ SendAccepted(s) \/ SendRefused(s)
    \/ SendAnswerLost(s) \/ Record(s)

Orchestrate == Query \/ QueryFails \/ FanIn \/ FanInFails
Log == LogCommit \/ \E s \in Students : LogInsert(s)

Finished ==
    /\ stage \in {"completed", "failed"}
    /\ \A s \in Students :
          task[s].at \notin {"scheduled", "running", "answered"} /\ late[s] = 0
    /\ ~logAgain
Terminated == Finished /\ UNCHANGED vars

Next ==
    \/ Start \/ Orchestrate \/ Log
    \/ \E s \in Students : Send(s) \/ ActivityFails(s) \/ HostDies(s)
    \/ \E s \in Students : HostDiesLate(s) \/ LateTry(s)
    \/ LogFails \/ LogAckLost \/ LogHostDies \/ LogHostDiesLate
    \/ Terminated

Spec == Init /\ [][Next]_vars

(* The task hub delivers every message until it is handled, and a running  *)
(* activity goes on.                                                       *)
FairSpec ==
    /\ Spec
    /\ WF_vars(Orchestrate) /\ WF_vars(Log)
    /\ \A s \in Students : WF_vars(Send(s))
-----------------------------------------------------------------------------
Rows(s) == log[<<s, "Sent">>] + log[<<s, "Failed">>]

(* A run that completes has audited every student it selected, with the    *)
(* status of that student's send and no other, and nobody else             *)
(* (orchestrators.py:64-75, activities.py:78-87).                          *)
AuditComplete ==
    stage = "completed" =>
        \A s \in Students :
            IF s \in batch
            THEN /\ task[s].result \in Status
                 /\ Rows(s) > 0
                 /\ Rows(s) = log[<<s, task[s].result>>]
            ELSE Rows(s) = 0

(* No failure, lost acknowledgement or crash leaves part of a run's rows:  *)
(* every student of the batch has as many as any other                     *)
(* (reminder_log_repository.py:51-62).                                     *)
AuditAllOrNothing == \A s, t \in batch : Rows(s) = Rows(t)

(* The client's tries and RetryOptions multiply, and deliver no more than  *)
(* that: the activity swallows SendGridError, so only unexpected failures  *)
(* and lost hosts repeat a round of tries (sendgrid_client.py:73,          *)
(* orchestrators.py:50).                                                   *)
MailBounded == \A s \in Students : inbox[s] <= MaxTries * (MaxRuns + crashes)

(* The audit never claims a mail that SendGrid did not take; in mock mode  *)
(* nobody is mailed.                                                       *)
SentMeansDelivered ==
    \A s \in Students :
        /\ mode = "real" /\ log[<<s, "Sent">>] > 0 => inbox[s] > 0
        /\ mode # "real" => inbox[s] = 0

(* Once a run has completed, a mail of it comes only from an activity that *)
(* a lost host has had delivered again, and to nobody it had not selected: *)
(* the fan-in has waited for every other send (orchestrators.py:64,        *)
(* activities.py:54).                                                      *)
LateMailNeedsLostHost ==
    [][stage = "completed" =>
          \A s \in Students : inbox'[s] # inbox[s] => s \in batch /\ crashes > 0]_vars

(* Refused or unanswered mails alone never fail a run: one bad address     *)
(* cannot fail the fan-in (orchestrators.py:48-49).                        *)
FailureIsolated == stage = "failed" => fault

(* The run with its activities, retries, crashes and transaction           *)
(* implements the job that selects once, mails only its selection and      *)
(* audits it as a whole, whatever is delivered again and however late      *)
(* (orchestrators.py:15-84, activities.py:42-107).                         *)
JobState ==
    IF stage \in {"idle", "query"} THEN "waiting"
    ELSE IF stage \in {"send", "log"} THEN "open" ELSE stage

Job == INSTANCE ReminderJob WITH mails <- mode = "real", state <- JobState
ImplementsJob == Job!Spec

(* A started run ends.                                                     *)
RunEnds == stage # "idle" ~> stage \in {"completed", "failed"}

(* reminder_log_repository.py:42: insert_many returns the number of rows   *)
(* inserted.                                                               *)
CountIsWhatWasAdded == stage = "completed" => inserted = added
=============================================================================
