------------------------- MODULE ReminderRunProofs --------------------------
(***************************************************************************)
(* Proofs about ReminderRun for every finite set of students and every     *)
(* number of tries, runs, attempts and crashes.                            *)
(*                                                                         *)
(* The inductive invariant is TypeOK /\ IInv.  A step is either of one     *)
(* student's activity, which leaves the orchestration and its log alone    *)
(* (TaskStep), or of one delivered again after its result was recorded,    *)
(* which leaves everything else alone (LateStep), or of the orchestration, *)
(* which leaves every activity alone once it has scheduled them.           *)
(***************************************************************************)
EXTENDS ReminderRun, FiniteSetTheorems, TLAPS

Task == [at : Places, run : 1 .. MaxRuns, try : Nat, result : Status \cup {None}]

(* What n executions of the activity may deliver.                          *)
Budget(n) == MaxTries * n

(* How much of it is spent: a waiting execution has sent nothing, a        *)
(* running one at most one mail per try it has behind it.  Executions      *)
(* delivered again late are paid for by the host that died.                *)
Spent(s) ==
    CASE task[s].at \in {"none", "scheduled"} -> Budget(task[s].run - 1 + crashes)
      [] task[s].at = "running" -> Budget(task[s].run - 1 + crashes) + task[s].try
      [] OTHER -> Budget(task[s].run + crashes)

(* The activity of one student.                                            *)
TaskInv(s) ==
    /\ task[s].at = "none" <=> s \notin batch
    /\ task[s].at = "running" => task[s].try < MaxTries
    /\ task[s].at \in {"answered", "recorded"} =>
          /\ task[s].result \in Status
          /\ task[s].result = "Sent" /\ mode = "real" => inbox[s] > 0
    /\ task[s].at = "failed" => fault
    /\ task[s].at = "none" => task[s].run = 1
    /\ mode # "real" => inbox[s] = 0
    /\ late[s] > 0 => s \in batch /\ crashes > 0
    /\ inbox[s] + late[s] <= Spent(s)

(* The orchestration: what each stage knows of the batch and of the log.   *)
StageInv ==
    /\ stage \in {"idle", "query"} => batch = {} /\ \A s \in Students : inbox[s] = 0
    /\ stage \in {"log", "completed"} => AllRecorded
    /\ stage = "failed" => fault
    /\ logAgain => stage \in {"completed", "failed"} /\ AllRecorded

(* The log: a row says what became of a recorded send of the batch.        *)
LogInv ==
    /\ \A s \in Students : \A x \in Status :
          log[<<s, x>>] > 0 =>
             s \in batch /\ task[s].at = "recorded" /\ task[s].result = x
    /\ AuditAllOrNothing
    /\ stage = "completed" => \A s \in batch : Rows(s) > 0

IInv == (\A s \in Students : TaskInv(s)) /\ StageInv /\ LogInv
-----------------------------------------------------------------------------
(* The budget grows by MaxTries with every execution.                      *)
LEMMA BudgetStep ==
    /\ \A n \in Nat : Budget(n) \in Nat /\ Budget(n + 1) = Budget(n) + MaxTries
    /\ \A m, n \in Nat : m <= n => Budget(m) <= Budget(n)
BY LimitsAssumption, Z3 DEF Budget

(* A count of a set of students is a number.                               *)
LEMMA CountType ==
    ASSUME NEW S \in SUBSET Students
    PROVE  Cardinality(S) \in Nat
BY StudentsAssumption, FS_Subset, FS_CardinalityType

(* What every step of an activity has in common: it was scheduled and is   *)
(* not over, and nothing but its own task and mails changes, save that     *)
(* hosts die and failures are noted.                                       *)
Touches(s) ==
    /\ task[s].at \in {"scheduled", "running", "answered"}
    /\ task'[s].at # "none"
    /\ task' \in [Students -> Task] /\ inbox' \in [Students -> Nat]
    /\ \A r \in Students \ {s} : task'[r] = task[r] /\ inbox'[r] = inbox[r]
    /\ crashes' \in 0 .. MaxCrashes /\ crashes' >= crashes
    /\ fault' \in BOOLEAN /\ (fault => fault')
    /\ UNCHANGED <<mode, stage, batch, late, log, pending, dbTry, inserted, added, logAgain>>

TaskStep(s) == Send(s) \/ ActivityFails(s) \/ HostDies(s)
LateStep(s) == HostDiesLate(s) \/ LateTry(s)

(* An answer to an activity, as a record of its own.                       *)
Answer(t, status, n) == [t EXCEPT !.at = "answered", !.result = status, !.try = n]

LEMMA AnswerType ==
    ASSUME NEW t \in Task, NEW status \in Status, NEW n \in Nat
    PROVE  /\ Answer(t, status, n) \in Task
           /\ Answer(t, status, n).at = "answered"
           /\ Answer(t, status, n).result = status
           /\ Answer(t, status, n).run = t.run
BY DEF Task, Places, Answer

(* A refused or unanswered try ends in the next one or in the answer.      *)
LEMMA TryAgainEffect ==
    ASSUME TypeOK, NEW s \in Students, task[s].at = "running", TryAgain(s)
    PROVE  /\ task' \in [Students -> Task]
           /\ \A r \in Students \ {s} : task'[r] = task[r]
           /\ task'[s].run = task[s].run
           /\ \/ /\ task'[s].at = "running"
                 /\ task'[s].try = task[s].try + 1 /\ task'[s].try < MaxTries
              \/ task'[s].at = "answered" /\ task'[s].result = "Failed"
<1>1. task \in [Students -> Task]
  BY DEF TypeOK, Task
<1>2. CASE task[s].try + 1 < MaxTries
  BY <1>1, <1>2 DEF TryAgain, Task
<1>3. CASE ~(task[s].try + 1 < MaxTries)
  <2> DEFINE last == Answer(task[s], "Failed", task[s].try + 1)
  <2>1. last \in Task /\ last.at = "answered" /\ last.result = "Failed"
        /\ last.run = task[s].run
    <3>1. task[s] \in Task /\ task[s].try + 1 \in Nat /\ "Failed" \in Status
      BY <1>1 DEF Task, Status
    <3> QED
      BY <3>1, AnswerType
  <2>2. task' = [task EXCEPT ![s] = last]
    BY <1>3 DEF TryAgain, GiveUp, Answer
  <2> HIDE DEF last
  <2> QED
    BY <1>1, <2>1, <2>2
<1> QED
  BY <1>2, <1>3

(* A task that has failed for good, and one that is scheduled again.       *)
LEMMA OverTask ==
    ASSUME NEW t \in Task
    PROVE  LET over == [t EXCEPT !.at = "failed", !.result = None]
           IN  over \in Task /\ over.at = "failed" /\ over.run = t.run
BY DEF Task, Places

LEMMA AgainTask ==
    ASSUME NEW n \in 1 .. MaxRuns
    PROVE  LET again == [Untried EXCEPT !.at = "scheduled", !.run = n]
           IN  again \in Task /\ again.at = "scheduled" /\ again.run = n
BY DEF Untried, Task, Places

LEMMA ActivityFailsEffect ==
    ASSUME TypeOK, NEW s \in Students, ActivityFails(s)
    PROVE  /\ task' \in [Students -> Task]
           /\ \A r \in Students \ {s} : task'[r] = task[r]
           /\ \/ task'[s].at = "scheduled" /\ task'[s].run = task[s].run + 1
              \/ task'[s].at = "failed" /\ task'[s].run = task[s].run
<1>1. task \in [Students -> Task] /\ task[s] \in Task
  BY DEF TypeOK, Task
<1>2. CASE stage = "send" /\ RunsLeft(s)
  <2>1. task[s].run + 1 \in 1 .. MaxRuns
    BY <1>1, <1>2, LimitsAssumption DEF Task, RunsLeft
  <2> QED
    BY <1>1, <1>2, <2>1, AgainTask DEF ActivityFails
<1>3. CASE ~(stage = "send" /\ RunsLeft(s))
  BY <1>1, <1>3, OverTask DEF ActivityFails
<1> QED
  BY <1>2, <1>3

LEMMA HostDiesEffect ==
    ASSUME TypeOK, NEW s \in Students, HostDies(s)
    PROVE  /\ task' \in [Students -> Task]
           /\ \A r \in Students \ {s} : task'[r] = task[r]
           /\ task'[s].at = "scheduled" /\ task'[s].run = task[s].run
<1>1. task \in [Students -> Task] /\ task[s].run \in 1 .. MaxRuns
  BY DEF TypeOK, Task
<1> QED
  BY <1>1, AgainTask DEF HostDies

(* A task that begins, one that has its answer and one whose answer the    *)
(* orchestration has.                                                      *)
Begun(t) == [t EXCEPT !.at = "running", !.try = 0]
Returned(t, status) == [t EXCEPT !.at = "answered", !.result = status]
Taken(t) == [t EXCEPT !.at = "recorded"]

LEMMA ProgressType ==
    ASSUME NEW t \in Task, NEW status \in Status
    PROVE  /\ Begun(t) \in Task /\ Begun(t).at = "running"
           /\ Returned(t, status) \in Task /\ Returned(t, status).at = "answered"
           /\ Taken(t) \in Task /\ Taken(t).at = "recorded"
<1>1. Begun(t) \in Task /\ Begun(t).at = "running"
  BY DEF Task, Places, Begun
<1>2. Returned(t, status) \in Task /\ Returned(t, status).at = "answered"
  BY DEF Task, Places, Returned
<1>3. Taken(t) \in Task /\ Taken(t).at = "recorded"
  BY DEF Task, Places, Taken
<1> QED
  BY <1>1, <1>2, <1>3

LEMMA TaskReplaced ==
    ASSUME NEW s \in Students, NEW t \in Task, t.at # "none",
           task \in [Students -> Task], task' = [task EXCEPT ![s] = t]
    PROVE  /\ task' \in [Students -> Task]
           /\ task'[s].at # "none"
           /\ \A r \in Students \ {s} : task'[r] = task[r]
OBVIOUS

(* Every action of an activity is such a step.                             *)
LEMMA TaskTouches ==
    ASSUME TypeOK, NEW s \in Students, TaskStep(s)
    PROVE  Touches(s)
<1> DEFINE
      Moved == /\ task' \in [Students -> Task]
               /\ task'[s].at # "none"
               /\ \A r \in Students \ {s} : task'[r] = task[r]
      Kept == /\ inbox' \in [Students -> Nat]
              /\ \A r \in Students \ {s} : inbox'[r] = inbox[r]
              /\ crashes' \in 0 .. MaxCrashes /\ crashes' >= crashes
              /\ fault' \in BOOLEAN /\ (fault => fault')
              /\ UNCHANGED <<mode, stage, batch, late, log, pending, dbTry, inserted, added,
                             logAgain>>
<1>1. task \in [Students -> Task] /\ task[s] \in Task
  BY DEF TypeOK, Task
<1>2. CASE BeginSend(s)
  <2>1. Moved
    <3>1. task' = [task EXCEPT ![s] = Begun(task[s])]
      BY <1>2 DEF BeginSend, Begun
    <3>2. Begun(task[s]) \in Task /\ Begun(task[s]).at # "none"
      BY <1>1, ProgressType DEF Status
    <3> QED
      BY <1>1, <3>1, <3>2, TaskReplaced
  <2>2. Kept
    BY <1>2, LimitsAssumption DEF BeginSend, TypeOK, logging
  <2> QED
    BY <2>1, <2>2, <1>2 DEF Touches, BeginSend
<1>3. CASE SendWithoutRequest(s)
  <2>1. Moved
    <3>1. PICK status \in Status : Return(s, status)
      BY <1>3 DEF SendWithoutRequest, Status
    <3>2. task' = [task EXCEPT ![s] = Returned(task[s], status)]
      BY <3>1 DEF Return, Returned
    <3>3. Returned(task[s], status) \in Task /\ Returned(task[s], status).at # "none"
      BY <1>1, ProgressType
    <3> QED
      BY <1>1, <3>2, <3>3, TaskReplaced
  <2>2. Kept
    BY <1>3, LimitsAssumption DEF SendWithoutRequest, TypeOK, logging
  <2> QED
    BY <2>1, <2>2, <1>3 DEF Touches, SendWithoutRequest
<1>4. CASE SendAccepted(s)
  <2>1. Moved
    <3>1. task' = [task EXCEPT ![s] = Returned(task[s], "Sent")]
      BY <1>4 DEF SendAccepted, Return, Returned
    <3>2. Returned(task[s], "Sent") \in Task /\ Returned(task[s], "Sent").at # "none"
      BY <1>1, ProgressType DEF Status
    <3> QED
      BY <1>1, <3>1, <3>2, TaskReplaced
  <2>2. Kept
    BY <1>4, LimitsAssumption DEF SendAccepted, Deliver, TypeOK, logging
  <2> QED
    BY <2>1, <2>2, <1>4 DEF Touches, SendAccepted
<1>5. CASE SendRefused(s)
  <2>1. Moved
    BY <1>5, TryAgainEffect DEF SendRefused
  <2>2. Kept
    BY <1>5, LimitsAssumption DEF SendRefused, TypeOK, logging
  <2> QED
    BY <2>1, <2>2, <1>5 DEF Touches, SendRefused
<1>6. CASE SendAnswerLost(s)
  <2>1. Moved
    BY <1>6, TryAgainEffect DEF SendAnswerLost
  <2>2. Kept
    BY <1>6, LimitsAssumption DEF SendAnswerLost, Deliver, TypeOK, logging
  <2> QED
    BY <2>1, <2>2, <1>6 DEF Touches, SendAnswerLost
<1>7. CASE Record(s)
  <2>1. Moved
    <3>1. task' = [task EXCEPT ![s] = Taken(task[s])]
      BY <1>7 DEF Record, Taken
    <3>2. Taken(task[s]) \in Task /\ Taken(task[s]).at # "none"
      BY <1>1, ProgressType DEF Status
    <3> QED
      BY <1>1, <3>1, <3>2, TaskReplaced
  <2>2. Kept
    BY <1>7, LimitsAssumption DEF Record, TypeOK, logging
  <2> QED
    BY <2>1, <2>2, <1>7 DEF Touches, Record
<1>8. CASE ActivityFails(s)
  <2>1. Moved
    BY <1>8, ActivityFailsEffect
  <2>2. Kept
    BY <1>8, LimitsAssumption DEF ActivityFails, TypeOK, logging
  <2> QED
    BY <2>1, <2>2, <1>8 DEF Touches, ActivityFails
<1>9. CASE HostDies(s)
  <2>1. Moved
    BY <1>9, HostDiesEffect
  <2>2. Kept
    BY <1>9, LimitsAssumption DEF HostDies, TypeOK, logging
  <2> QED
    BY <2>1, <2>2, <1>9 DEF Touches, HostDies
<1> QED
  BY <1>2, <1>3, <1>4, <1>5, <1>6, <1>7, <1>8, <1>9 DEF TaskStep, Send

-----------------------------------------------------------------------------
(* Type correctness.                                                       *)
LEMMA InitType == Init => TypeOK
<1> SUFFICES ASSUME Init PROVE TypeOK
  OBVIOUS
<1>1. Untried \in Task
  BY LimitsAssumption DEF Untried, Task, Places
<1>2. task \in [Students -> Task]
  BY <1>1 DEF Init
<1>3. inbox \in [Students -> Nat] /\ late \in [Students -> Nat] /\ log \in [Students \X Status -> Nat]
  BY DEF Init
<1>4. dbTry \in 0 .. MaxAttempts - 1 /\ crashes \in 0 .. MaxCrashes
  BY LimitsAssumption DEF Init
<1> QED
  BY <1>2, <1>3, <1>4 DEF Init, TypeOK, Task, Stages

(* A commit writes counts, and its rows are the batch's.                   *)
LEMMA CommitType ==
    ASSUME TypeOK, AllInserted
    PROVE  /\ RowsAdded \in [Students \X Status -> Nat]
           /\ Cardinality(pending) \in Nat /\ Cardinality(batch) \in Nat
<1>1. Cardinality(pending) \in Nat /\ Cardinality(batch) \in Nat
  BY CountType DEF TypeOK
<1>2. \A e \in Students \X Status : log[e] \in Nat
  BY DEF TypeOK
<1> QED
  BY <1>1, <1>2 DEF RowsAdded

(* An execution delivered again late mails its student or nobody and       *)
(* changes no task.                                                        *)
LEMMA LateType ==
    ASSUME TypeOK, NEW s \in Students, LateStep(s)
    PROVE  /\ inbox' \in [Students -> Nat] /\ late' \in [Students -> Nat]
           /\ crashes' \in 0 .. MaxCrashes /\ crashes' >= crashes
           /\ \A r \in Students \ {s} : inbox'[r] = inbox[r] /\ late'[r] = late[r]
           /\ UNCHANGED <<mode, stage, batch, task, logging, fault>>
<1>1. inbox \in [Students -> Nat] /\ late \in [Students -> Nat]
  BY DEF TypeOK
<1>2. CASE HostDiesLate(s)
  <2>1. late[s] + MaxTries \in Nat
    BY <1>1, LimitsAssumption
  <2>2. late' \in [Students -> Nat] /\ \A r \in Students \ {s} : late'[r] = late[r]
    BY <1>1, <1>2, <2>1 DEF HostDiesLate
  <2>3. crashes' \in 0 .. MaxCrashes /\ crashes' >= crashes
    BY <1>2, LimitsAssumption DEF HostDiesLate, TypeOK
  <2> QED
    BY <1>1, <1>2, <2>2, <2>3 DEF HostDiesLate
<1>3. CASE LateTry(s)
  <2>1. PICK left \in 0 .. late[s] - 1 : late' = [late EXCEPT ![s] = left]
    BY <1>3 DEF LateTry
  <2>2. left \in Nat
    BY <1>1, <2>1
  <2>3. late' \in [Students -> Nat] /\ \A r \in Students \ {s} : late'[r] = late[r]
    BY <1>1, <2>1, <2>2
  <2>4. inbox' \in [Students -> Nat] /\ \A r \in Students \ {s} : inbox'[r] = inbox[r]
    BY <1>1, <1>3 DEF LateTry, Deliver
  <2>5. crashes' \in 0 .. MaxCrashes /\ crashes' >= crashes
    BY <1>3, LimitsAssumption DEF LateTry, TypeOK
  <2> QED
    BY <1>3, <2>3, <2>4, <2>5 DEF LateTry
<1> QED
  BY <1>2, <1>3 DEF LateStep

(* The log activity ends the run, or, repeated, only itself.               *)
LEMMA LogEndsEffect ==
    ASSUME TypeOK, NEW end \in {"completed", "failed"}, LogEnds(end)
    PROVE  /\ stage' \in Stages /\ logAgain' \in BOOLEAN
           /\ ~logAgain'
           /\ stage' = IF logAgain THEN stage ELSE end
BY DEF LogEnds, TypeOK, Stages

(* The query replaces the batch, of which pending must stay a part: that   *)
(* nothing is pending before the query comes from StageInv.                *)
LEMMA TypeStep == TypeOK /\ StageInv /\ [Next]_vars => TypeOK'
<1> SUFFICES ASSUME TypeOK, StageInv, [Next]_vars PROVE TypeOK'
  OBVIOUS
<1>1. ASSUME NEW s \in Students, TaskStep(s) PROVE TypeOK'
  <2>1. Touches(s)
    BY <1>1, TaskTouches
  <2> QED
    BY <2>1 DEF Touches, TypeOK, Task
<1>2. CASE Start
  BY <1>2 DEF Start, TypeOK, Stages, logging
<1>3. CASE Query
  <2>1. PICK overdue \in SUBSET Students :
          /\ batch' = overdue
          /\ task' = [s \in Students |->
                IF s \in overdue THEN [Untried EXCEPT !.at = "scheduled"] ELSE Untried]
    BY <1>3 DEF Query
  <2>2. Untried \in Task /\ [Untried EXCEPT !.at = "scheduled"] \in Task
    BY LimitsAssumption DEF Untried, Task, Places
  <2>3. task' \in [Students -> Task] /\ batch' \subseteq Students
    BY <2>1, <2>2
  <2>4. pending = {}
    BY <1>3 DEF Query, StageInv, TypeOK
  <2> QED
    BY <1>3, <2>3, <2>4 DEF Query, TypeOK, Stages, Task, logging
<1>4. CASE QueryFails
  BY <1>4 DEF QueryFails, TypeOK, Stages, logging
<1>5. CASE FanIn
  BY <1>5 DEF FanIn, TypeOK, Stages, logging
<1>6. CASE FanInFails
  BY <1>6 DEF FanInFails, TypeOK, Stages, logging
<1>7. ASSUME NEW s \in Students, LogInsert(s) PROVE TypeOK'
  BY <1>7 DEF LogInsert, TypeOK
<1>8. CASE LogCommit
  <2>1. added' \in Nat /\ inserted' \in Nat \cup {None}
        /\ log' \in [Students \X Status -> Nat]
    BY <1>8, CommitType DEF LogCommit, CommitRows, Adds, TypeOK
  <2>2. stage' \in Stages /\ logAgain' \in BOOLEAN
    BY <1>8, LogEndsEffect DEF LogCommit
  <2> QED
    BY <1>8, <2>1, <2>2 DEF LogCommit, CommitRows, TypeOK
<1>9. ASSUME NEW exc, LogRaises(exc), pending' = {},
             added' \in Nat, log' \in [Students \X Status -> Nat]
      PROVE  TypeOK'
  <2>1. dbTry' \in 0 .. MaxAttempts - 1
    BY <1>9, LimitsAssumption DEF LogRaises, TypeOK
  <2>2. stage' \in Stages /\ logAgain' \in BOOLEAN
    BY <1>9, LogEndsEffect DEF LogRaises, TypeOK
  <2> QED
    BY <1>9, <2>1, <2>2 DEF LogRaises, TypeOK
<1>10. CASE LogFails
  BY <1>9, <1>10 DEF LogFails, TypeOK
<1>11. CASE LogAckLost
  <2>1. added' \in Nat /\ log' \in [Students \X Status -> Nat]
    BY <1>11, CommitType DEF LogAckLost, CommitRows, Adds, TypeOK
  <2> QED
    BY <1>9, <1>11, <2>1 DEF LogAckLost, CommitRows
<1>12. CASE LogHostDies
  <2>1. log' \in [Students \X Status -> Nat]
    BY <1>12, CommitType DEF LogHostDies, TypeOK
  <2>2. dbTry' \in 0 .. MaxAttempts - 1 /\ crashes' \in 0 .. MaxCrashes
    BY <1>12, LimitsAssumption DEF LogHostDies, TypeOK
  <2>3. added' \in Nat
    BY <1>12 DEF LogHostDies, Adds, TypeOK
  <2> QED
    BY <1>12, <2>1, <2>2, <2>3 DEF LogHostDies, TypeOK
<1>13. ASSUME NEW s \in Students, LateStep(s) PROVE TypeOK'
  BY <1>13, LateType DEF TypeOK, logging
<1>14. CASE LogHostDiesLate
  <2>1. dbTry' \in 0 .. MaxAttempts - 1 /\ crashes' \in 0 .. MaxCrashes
    BY <1>14, LimitsAssumption DEF LogHostDiesLate, TypeOK
  <2> QED
    BY <1>14, <2>1 DEF LogHostDiesLate, TypeOK
<1>15. CASE UNCHANGED vars
  BY <1>15 DEF vars, logging, TypeOK
<1> QED
  BY <1>1, <1>2, <1>3, <1>4, <1>5, <1>6, <1>7, <1>8, <1>10, <1>11, <1>12, <1>13, <1>14,
     <1>15
     DEF Next, Orchestrate, Log, TaskStep, LateStep, Terminated

-----------------------------------------------------------------------------
(* A step of an activity keeps what is known of that activity.             *)
LEMMA OwnTask ==
    ASSUME TypeOK, NEW s \in Students, TaskInv(s), TaskStep(s)
    PROVE  TaskInv(s)'
<1> DEFINE b == task[s].run - 1 + crashes
<1>1. /\ task[s] \in Task /\ task[s].run \in Nat /\ task[s].try \in Nat
      /\ crashes \in Nat /\ inbox[s] \in Nat /\ late[s] \in Nat /\ task \in [Students -> Task]
      /\ late[s] > 0 => s \in batch /\ crashes > 0
  BY LimitsAssumption DEF TypeOK, Task, TaskInv
<1>0. late' = late /\ task'[s].at # "none"
  BY TaskTouches DEF Touches
<1>2. /\ b \in Nat /\ b + 1 = task[s].run + crashes
      /\ Budget(b) \in Nat /\ Budget(b + 1) = Budget(b) + MaxTries
  <2>1. b \in Nat /\ b + 1 = task[s].run + crashes
    BY <1>0, <1>1, LimitsAssumption DEF TypeOK
  <2> QED
    BY <2>1, BudgetStep
<1>3. MaxTries \in Nat \ {0}
  BY LimitsAssumption
<1>4. ASSUME task[s].at \in {"running", "answered"}
      PROVE  inbox[s] + late[s] <= Budget(b + 1) /\ s \in batch
  BY <1>0, <1>1, <1>2, <1>3, <1>4 DEF TaskInv, Spent
<1>5. CASE BeginSend(s)
  BY <1>0, <1>1, <1>2, <1>3, <1>5 DEF BeginSend, TaskInv, Spent, Task
<1>6. CASE SendWithoutRequest(s)
  <2>1. /\ task'[s].at = "answered" /\ task'[s].result \in Status
        /\ task'[s].run = task[s].run
        /\ mode = "real" => task'[s].result # "Sent"
    <3>1. PICK status \in {"Sent", "Failed"} :
             /\ Return(s, status)
             /\ mode = IF status = "Sent" THEN "mock" ELSE "unconfigured"
      BY <1>6 DEF SendWithoutRequest
    <3> QED
      BY <1>0, <1>1, <3>1 DEF Return, Task, Status
  <2>2. inbox[s] + late[s] <= Budget(b + 1) /\ s \in batch
    BY <1>4, <1>6 DEF SendWithoutRequest
  <2>3. UNCHANGED <<mode, batch, inbox, crashes, fault>>
    BY <1>6 DEF SendWithoutRequest
  <2> QED
    BY <1>0, <1>1, <1>2, <1>4, <1>6, <2>1, <2>2, <2>3 DEF TaskInv, Spent, Status, SendWithoutRequest
<1>7. CASE SendAccepted(s)
  <2>1. /\ task'[s].at = "answered" /\ task'[s].result = "Sent" /\ task'[s].run = task[s].run
        /\ inbox'[s] = inbox[s] + 1
    BY <1>0, <1>1, <1>7 DEF SendAccepted, Return, Deliver, TypeOK
  <2>2. inbox[s] + 1 + late[s] <= Budget(b + 1) /\ s \in batch
    BY <1>0, <1>1, <1>2, <1>3, <1>7 DEF SendAccepted, TaskInv, Spent
  <2>3. UNCHANGED <<mode, batch, crashes>> /\ mode = "real"
    BY <1>7 DEF SendAccepted
  <2> QED
    BY <1>0, <1>1, <1>2, <2>1, <2>2, <2>3 DEF TaskInv, Spent, Status
<1>8. CASE SendRefused(s)
  BY <1>0, <1>1, <1>2, <1>3, <1>8, TryAgainEffect DEF SendRefused, TaskInv, Spent, Status
<1>9. CASE SendAnswerLost(s)
  BY <1>0, <1>1, <1>2, <1>3, <1>9, TryAgainEffect DEF SendAnswerLost, Deliver, TaskInv, Spent, Status
<1>10. CASE Record(s)
  BY <1>0, <1>1, <1>2, <1>3, <1>10 DEF Record, TaskInv, Spent, Task
<1>11. CASE ActivityFails(s)
  <2>1. UNCHANGED <<mode, batch, inbox, crashes>> /\ fault'
    BY <1>11 DEF ActivityFails
  <2>2. inbox[s] + late[s] <= Budget(b + 1) /\ s \in batch
    BY <1>4, <1>11 DEF ActivityFails
  <2>3. CASE task'[s].at = "scheduled" /\ task'[s].run = task[s].run + 1
    <3>1. task'[s].run - 1 + crashes = b + 1
      BY <1>0, <1>1, <2>3
    <3> QED
      BY <1>0, <1>1, <2>1, <2>2, <2>3, <3>1 DEF TaskInv, Spent
  <2>4. CASE task'[s].at = "failed" /\ task'[s].run = task[s].run
    BY <1>0, <1>1, <1>2, <2>1, <2>2, <2>4 DEF TaskInv, Spent
  <2> QED
    BY <1>11, <2>3, <2>4, ActivityFailsEffect
<1>12. CASE HostDies(s)
  <2>1. UNCHANGED <<mode, batch, inbox>> /\ crashes' = crashes + 1
    BY <1>12 DEF HostDies
  <2>2. inbox[s] + late[s] <= Budget(b + 1) /\ s \in batch
    BY <1>4, <1>12 DEF HostDies
  <2>3. task'[s].at = "scheduled" /\ task'[s].run - 1 + crashes' = b + 1
    BY <1>0, <1>1, <1>12, <2>1, HostDiesEffect
  <2> QED
    BY <1>0, <1>1, <2>1, <2>2, <2>3 DEF TaskInv, Spent
<1> QED
  BY <1>5, <1>6, <1>7, <1>8, <1>9, <1>10, <1>11, <1>12 DEF TaskStep, Send

(* Nobody else's: their tasks and mails stay, and the budgets only grow.   *)
LEMMA OtherTasks ==
    ASSUME TypeOK, NEW r \in Students, TaskInv(r),
           task'[r] = task[r], inbox'[r] = inbox[r], late'[r] = late[r],
           UNCHANGED <<mode, batch>>,
           crashes' \in 0 .. MaxCrashes, crashes' >= crashes, fault => fault'
    PROVE  TaskInv(r)'
<1> DEFINE b == task[r].run - 1 + crashes
           c == task[r].run - 1 + crashes'
<1>1. /\ task[r].run \in 1 .. MaxRuns /\ task[r].try \in Nat /\ inbox[r] \in Nat
      /\ late[r] \in Nat /\ crashes \in Nat /\ crashes' \in Nat
  BY LimitsAssumption DEF TypeOK
<1>2. /\ b \in Nat /\ c \in Nat /\ b <= c
      /\ b + 1 = task[r].run + crashes /\ c + 1 = task[r].run + crashes'
      /\ b + 1 \in Nat /\ c + 1 \in Nat /\ b + 1 <= c + 1
  BY <1>1, LimitsAssumption
<1>3. /\ Budget(b) \in Nat /\ Budget(c) \in Nat /\ Budget(b) <= Budget(c)
      /\ Budget(b + 1) \in Nat /\ Budget(c + 1) \in Nat /\ Budget(b + 1) <= Budget(c + 1)
  BY <1>2, BudgetStep
<1>4. inbox'[r] + late'[r] <= Spent(r)'
  BY <1>1, <1>2, <1>3 DEF TaskInv, Spent
<1>5. late[r] > 0 => r \in batch' /\ crashes' > 0
  BY <1>1 DEF TaskInv
<1> QED
  BY <1>4, <1>5 DEF TaskInv

LEMMA TasksStep ==
    ASSUME TypeOK, \A s \in Students : TaskInv(s), NEW s \in Students, TaskStep(s)
    PROVE  \A r \in Students : TaskInv(r)'
<1>1. Touches(s) /\ TaskInv(s)'
  BY TaskTouches, OwnTask
<1>2. ASSUME NEW r \in Students \ {s} PROVE TaskInv(r)'
  BY <1>1, OtherTasks DEF Touches
<1> QED
  BY <1>1, <1>2

(* The host that died pays for its tries.                                  *)
LEMMA LateOwn ==
    ASSUME TypeOK, NEW s \in Students, TaskInv(s), LateStep(s)
    PROVE  TaskInv(s)' /\ s \in batch
<1> DEFINE b == task[s].run - 1 + crashes
<1>1. /\ task[s].run \in 1 .. MaxRuns /\ task[s].try \in Nat
      /\ crashes \in Nat /\ inbox[s] \in Nat /\ late[s] \in Nat
      /\ inbox \in [Students -> Nat] /\ late \in [Students -> Nat]
  BY LimitsAssumption DEF TypeOK
<1>2. MaxTries \in Nat \ {0}
  BY LimitsAssumption
<1>3. CASE HostDiesLate(s)
  <2>1. s \in batch /\ crashes' = crashes + 1 /\ late'[s] = late[s] + MaxTries
        /\ UNCHANGED <<mode, batch, task, inbox, fault>>
    BY <1>1, <1>3 DEF HostDiesLate, Ended, TaskInv
  <2>2. /\ b \in Nat /\ b + 1 \in Nat /\ b + 1 = task[s].run + crashes
        /\ b + 1 = task[s].run - 1 + crashes' /\ b + 1 + 1 = task[s].run + crashes'
    BY <1>1, <2>1
  <2>3. /\ Budget(b) \in Nat /\ Budget(b + 1) = Budget(b) + MaxTries
        /\ Budget(b + 1) \in Nat /\ Budget(b + 1 + 1) = Budget(b + 1) + MaxTries
    <3> HIDE DEF b
    <3> QED
      BY <2>2, BudgetStep
  <2>4. inbox'[s] + late'[s] <= Spent(s)'
    BY <1>1, <1>2, <2>1, <2>2, <2>3 DEF TaskInv, Spent
  <2>5. crashes' > 0
    BY <1>1, <2>1
  <2> QED
    BY <2>1, <2>4, <2>5 DEF TaskInv
<1>4. CASE LateTry(s)
  <2>1. /\ late[s] > 0 /\ late'[s] + 1 <= late[s] /\ late'[s] \in Nat
        /\ UNCHANGED <<mode, batch, task, crashes, fault>>
    <3>1. PICK left \in 0 .. late[s] - 1 : late' = [late EXCEPT ![s] = left]
      BY <1>4 DEF LateTry
    <3> QED
      BY <1>1, <1>4, <3>1 DEF LateTry
  <2>2. /\ inbox'[s] = inbox[s] \/ inbox'[s] = inbox[s] + 1
        /\ mode # "real" => inbox'[s] = inbox[s]
    BY <1>1, <1>4 DEF LateTry, Deliver
  <2>3. s \in batch /\ crashes > 0
    BY <2>1 DEF TaskInv
  <2>4. Spent(s)' = Spent(s)
    BY <2>1 DEF Spent
  <2>5. Spent(s) \in Int
    <3>1. /\ task[s].run - 1 + crashes \in Nat /\ task[s].run + crashes \in Nat
      BY <1>1
    <3>2. /\ Budget(task[s].run - 1 + crashes) \in Nat /\ Budget(task[s].run + crashes) \in Nat
      BY <3>1, BudgetStep
    <3> QED
      BY <1>1, <3>2 DEF Spent
  <2>6. inbox'[s] + late'[s] <= Spent(s)'
    <3>1. inbox[s] + late[s] <= Spent(s)
      BY DEF TaskInv
    <3> QED
      BY <1>1, <2>1, <2>2, <2>4, <2>5, <3>1
  <2>7. inbox'[s] > 0 \/ ~(inbox[s] > 0)
    BY <1>1, <2>2
  <2> QED
    BY <2>1, <2>2, <2>3, <2>6, <2>7 DEF TaskInv
<1> QED
  BY <1>3, <1>4 DEF LateStep

LEMMA LateKeeps ==
    ASSUME TypeOK, IInv, NEW s \in Students, LateStep(s)
    PROVE  IInv'
<1>1. /\ crashes' \in 0 .. MaxCrashes /\ crashes' >= crashes
      /\ \A r \in Students \ {s} : inbox'[r] = inbox[r] /\ late'[r] = late[r]
      /\ UNCHANGED <<mode, stage, batch, task, log, logAgain, fault>>
  BY LateType DEF logging
<1>2. TaskInv(s)' /\ s \in batch
  BY LateOwn DEF IInv
<1>3. \A r \in Students \ {s} : TaskInv(r)'
  BY <1>1, OtherTasks DEF IInv
<1>4. stage \notin {"idle", "query"}
  BY <1>2 DEF IInv, StageInv
<1>5. StageInv' /\ LogInv'
  BY <1>1, <1>4 DEF IInv, StageInv, LogInv, AllRecorded, AuditAllOrNothing, Rows
<1> QED
  BY <1>2, <1>3, <1>5 DEF IInv

(* The orchestration and the log see nothing of it: no recorded task       *)
(* changes.                                                                *)
LEMMA TaskKeepsLog ==
    ASSUME TypeOK, IInv, NEW s \in Students, TaskStep(s)
    PROVE  StageInv' /\ LogInv'
<1>1. Touches(s)
  BY TaskTouches
<1>2. \A r \in Students : task[r].at = "recorded" => task'[r] = task[r]
  BY <1>1 DEF Touches
<1>3. stage \notin {"idle", "query"}
  BY <1>1 DEF Touches, IInv, StageInv, TaskInv
<1>4. StageInv'
  BY <1>1, <1>2, <1>3 DEF Touches, IInv, StageInv, AllRecorded, TypeOK
<1>5. LogInv'
  BY <1>1, <1>2 DEF Touches, IInv, LogInv, AuditAllOrNothing, Rows
<1> QED
  BY <1>4, <1>5
-----------------------------------------------------------------------------
(* What a commit makes of the log: one more row for each student of the    *)
(* batch, with the status of its recorded send.                            *)
LEMMA CommitEffect ==
    ASSUME TypeOK, IInv, Logging, AllInserted, log' = RowsAdded
    PROVE  /\ \A s \in Students : \A x \in Status :
                 log'[<<s, x>>] =
                    IF s \in batch /\ task[s].result = x
                    THEN log[<<s, x>>] + 1 ELSE log[<<s, x>>]
           /\ \A s \in batch :
                 /\ task[s].at = "recorded" /\ task[s].result \in Status
                 /\ log'[<<s, "Sent">>] + log'[<<s, "Failed">>] = Rows(s) + 1
                 /\ Rows(s) \in Nat
<1>1. \A s \in Students : \A x \in Status :
         /\ log'[<<s, x>>] = IF s \in batch /\ task[s].result = x
                             THEN log[<<s, x>>] + 1 ELSE log[<<s, x>>]
         /\ log[<<s, x>>] \in Nat
  BY DEF RowsAdded, AllInserted, TypeOK
<1>2. \A s \in batch : s \in Students /\ task[s].at = "recorded" /\ task[s].result \in Status
  BY DEF IInv, StageInv, Logging, AllRecorded, TaskInv, TypeOK
<1>3. ASSUME NEW s \in batch
      PROVE  /\ log'[<<s, "Sent">>] + log'[<<s, "Failed">>] = Rows(s) + 1
             /\ Rows(s) \in Nat
  <2>1. /\ log[<<s, "Sent">>] \in Nat /\ log[<<s, "Failed">>] \in Nat
        /\ \A x \in Status : log'[<<s, x>>] = IF task[s].result = x
                                            THEN log[<<s, x>>] + 1 ELSE log[<<s, x>>]
    BY <1>1, <1>2 DEF Status
  <2>2. task[s].result = "Sent" \/ task[s].result = "Failed"
    BY <1>2 DEF Status
  <2> QED
    BY <2>1, <2>2 DEF Status, Rows
<1> QED
  BY <1>1, <1>2, <1>3

LEMMA CommitKeepsLog ==
    ASSUME TypeOK, IInv, Logging, AllInserted, log' = RowsAdded,
           UNCHANGED <<task, batch>>
    PROVE  /\ LogInv'
           /\ \A s \in batch : Rows(s)' > 0
<1>1. \A s \in Students : \A x \in Status :
         log'[<<s, x>>] > 0 => s \in batch /\ task[s].at = "recorded" /\ task[s].result = x
  BY CommitEffect DEF IInv, LogInv
<1>2. \A s \in batch : Rows(s)' = Rows(s) + 1 /\ Rows(s) \in Nat
  BY CommitEffect DEF Rows
<1>3. AuditAllOrNothing'
  BY <1>2 DEF IInv, LogInv, AuditAllOrNothing
<1>4. \A s \in batch : Rows(s)' > 0
  BY <1>2
<1> QED
  BY <1>1, <1>3, <1>4 DEF LogInv
-----------------------------------------------------------------------------
(* IInv holds at the start, and every step preserves it.                   *)
LEMMA InitInv == Init => IInv
<1> SUFFICES ASSUME Init PROVE IInv
  OBVIOUS
<1>1. 0 \in Nat /\ Budget(0) = 0
  BY LimitsAssumption DEF Budget
<1>2. \A s \in Students : TaskInv(s)
  BY <1>1 DEF Init, TaskInv, Spent, Untried
<1>3. StageInv /\ LogInv
  BY DEF Init, StageInv, LogInv, AuditAllOrNothing
<1> QED
  BY <1>2, <1>3 DEF IInv

(* The query schedules a send for each student it selects.                 *)
LEMMA QueryKeeps ==
    ASSUME TypeOK, IInv, Query
    PROVE  IInv'
<1>1. PICK overdue \in SUBSET Students :
          /\ batch' = overdue
          /\ task' = [s \in Students |->
                IF s \in overdue THEN [Untried EXCEPT !.at = "scheduled"] ELSE Untried]
          /\ stage' = IF overdue = {} THEN "log" ELSE "send"
  BY DEF Query
<1>2. /\ batch = {} /\ \A s \in Students : inbox[s] = 0
      /\ UNCHANGED <<mode, inbox, late, log, logAgain, crashes, fault>>
      /\ ~logAgain
  BY DEF Query, IInv, StageInv, logging
<1>8. \A s \in Students : late[s] = 0
  <2>1. \A s \in Students : late[s] \in Nat /\ ~(late[s] > 0)
    BY <1>2 DEF IInv, TaskInv, TypeOK
  <2> QED
    BY <2>1
<1>3. Budget(crashes) \in Nat
  BY BudgetStep DEF TypeOK
<1>4. ASSUME NEW s \in Students PROVE TaskInv(s)'
  <2>1. /\ task'[s].at = IF s \in batch' THEN "scheduled" ELSE "none"
        /\ task'[s].run = 1
    BY <1>1 DEF Untried
  <2>2. task'[s].run - 1 + crashes' = crashes
    BY <1>2, <2>1 DEF TypeOK
  <2>3. inbox'[s] + late'[s] <= Spent(s)'
    BY <1>2, <1>3, <1>8, <2>1, <2>2 DEF Spent
  <2>4. ~(late'[s] > 0)
    BY <1>2, <1>8
  <2> QED
    BY <1>2, <2>1, <2>3, <2>4 DEF TaskInv
<1>5. \A s \in Students : \A x \in Status : log'[<<s, x>>] = 0
  <2>1. \A s \in Students : \A x \in Status : log[<<s, x>>] \in Nat /\ ~(log[<<s, x>>] > 0)
    BY <1>2 DEF IInv, LogInv, TypeOK
  <2>2. \A n \in Nat : ~(n > 0) => n = 0
    OBVIOUS
  <2> QED
    BY <1>2, <2>1, <2>2
<1>6. StageInv'
  BY <1>1, <1>2 DEF Query, StageInv, AllRecorded
<1>7. LogInv'
  <2>1. ASSUME NEW s \in Students PROVE Rows(s)' = 0
    <3>1. log'[<<s, "Sent">>] = 0 /\ log'[<<s, "Failed">>] = 0
      BY <1>5 DEF Status
    <3> QED
      BY <3>1 DEF Rows
  <2>2. batch' \subseteq Students /\ stage' # "completed"
    BY <1>1
  <2> QED
    BY <1>5, <2>1, <2>2 DEF LogInv, AuditAllOrNothing
<1> QED
  BY <1>4, <1>6, <1>7 DEF IInv

(* What every other step of the orchestration leaves alone.                *)
TasksUntouched ==
    /\ UNCHANGED <<mode, batch, task, inbox, late>>
    /\ crashes' \in 0 .. MaxCrashes /\ crashes' >= crashes /\ (fault => fault')

LEMMA TasksKept ==
    ASSUME TypeOK, IInv, TasksUntouched
    PROVE  \A s \in Students : TaskInv(s)'
BY OtherTasks DEF TasksUntouched, IInv

(* What a step of the log activity may do to the run.                      *)
LogMoves ==
    \/ UNCHANGED <<stage, logAgain>>
    \/ LogEnds("completed")
    \/ LogEnds("failed") /\ fault'

LEMMA LogMovesKeep ==
    ASSUME TypeOK, IInv, Logging, LogMoves, UNCHANGED <<batch, task>>, fault => fault'
    PROVE  StageInv'
<1>1. AllRecorded /\ AllRecorded'
  BY DEF Logging, IInv, StageInv, AllRecorded
<1>2. stage \notin {"idle", "query"}
  BY DEF Logging, IInv, StageInv
<1>3. stage = "failed" => fault'
  BY DEF IInv, StageInv
<1>4. CASE UNCHANGED <<stage, logAgain>>
  BY <1>1, <1>2, <1>3, <1>4 DEF IInv, StageInv
<1>5. CASE LogEnds("completed")
  BY <1>1, <1>2, <1>3, <1>5, LogEndsEffect DEF IInv, StageInv, Logging
<1>6. CASE LogEnds("failed") /\ fault'
  BY <1>1, <1>2, <1>3, <1>6, LogEndsEffect DEF IInv, StageInv, Logging
<1> QED
  BY <1>4, <1>5, <1>6 DEF LogMoves

LEMMA StepInv == TypeOK /\ IInv /\ [Next]_vars => IInv'
<1> SUFFICES ASSUME TypeOK, IInv, [Next]_vars PROVE IInv'
  OBVIOUS
<1> USE DEF logging
<1>1. ASSUME NEW s \in Students, TaskStep(s) PROVE IInv'
  BY <1>1, TasksStep, TaskKeepsLog DEF IInv
<1>2. ASSUME TasksUntouched, UNCHANGED log, StageInv', stage' # "completed" \/ stage' = stage
      PROVE  IInv'
  <2>1. LogInv'
    BY <1>2 DEF TasksUntouched, IInv, LogInv, AuditAllOrNothing, Rows
  <2> QED
    BY <1>2, <2>1, TasksKept DEF IInv
<1>3. ASSUME TasksUntouched, Logging, AllInserted, log' = RowsAdded, StageInv'
      PROVE  IInv'
  <2>1. LogInv'
    BY <1>3, CommitKeepsLog DEF TasksUntouched
  <2> QED
    BY <1>3, <2>1, TasksKept DEF IInv
<1>4. crashes \in 0 .. MaxCrashes /\ crashes >= crashes
  BY LimitsAssumption DEF TypeOK
<1>5. CASE Start
  BY <1>2, <1>4, <1>5 DEF Start, TasksUntouched, TypeOK, IInv, StageInv
<1>6. CASE Query
  BY <1>6, QueryKeeps
<1>7. CASE QueryFails
  BY <1>2, <1>4, <1>7 DEF QueryFails, TasksUntouched, TypeOK, IInv, StageInv
<1>8. CASE FanIn
  BY <1>2, <1>4, <1>8 DEF FanIn, TasksUntouched, TypeOK, IInv, StageInv, AllRecorded
<1>9. CASE FanInFails
  <2>1. fault
    BY <1>9 DEF FanInFails, IInv, TaskInv, TypeOK
  <2>2. stage = "send" /\ ~logAgain
    BY <1>9 DEF FanInFails, IInv, StageInv
  <2> QED
    BY <1>2, <1>4, <1>9, <2>1, <2>2 DEF FanInFails, TasksUntouched, StageInv
<1>10. ASSUME NEW s \in Students, LogInsert(s) PROVE IInv'
  <2>1. TasksUntouched
    BY <1>4, <1>10 DEF LogInsert, TasksUntouched
  <2>2. StageInv'
    BY <1>10, LogMovesKeep DEF LogInsert, LogMoves
  <2> QED
    BY <1>2, <1>10, <2>1, <2>2 DEF LogInsert
<1>11. CASE LogCommit
  <2>1. TasksUntouched
    BY <1>4, <1>11 DEF LogCommit, TasksUntouched
  <2>2. StageInv'
    BY <1>11, LogMovesKeep DEF LogCommit, LogMoves
  <2> QED
    BY <1>3, <1>11, <2>1, <2>2 DEF LogCommit, CommitRows
<1>12. ASSUME NEW exc, Logging, LogRaises(exc) PROVE TasksUntouched /\ StageInv'
  <2>1. TasksUntouched
    BY <1>4, <1>12 DEF LogRaises, TasksUntouched
  <2>2. LogMoves /\ fault' /\ UNCHANGED <<batch, task>>
    BY <1>12 DEF LogRaises, LogMoves
  <2> QED
    BY <1>12, <2>1, <2>2, LogMovesKeep
<1>13. CASE LogFails
  <2>1. PICK exc \in ConnectFailures : LogRaises(exc)
    BY <1>13 DEF LogFails
  <2>2. TasksUntouched /\ StageInv' /\ UNCHANGED log
    BY <1>12, <1>13, <2>1 DEF LogFails
  <2>3. stage' # "completed" \/ stage' = stage
    BY <2>1, LogEndsEffect DEF LogRaises
  <2> QED
    BY <1>2, <2>2, <2>3
<1>14. CASE LogAckLost
  <2>1. Logging /\ LogRaises("OperationalError") /\ AllInserted /\ log' = RowsAdded
    BY <1>14 DEF LogAckLost, CommitRows
  <2> QED
    BY <1>3, <1>12, <2>1
<1>15. CASE LogHostDies
  <2>1. UNCHANGED <<stage, logAgain, mode, batch, task, inbox, late, fault>>
    BY <1>15 DEF LogHostDies
  <2>2. StageInv'
    BY <2>1 DEF IInv, StageInv, AllRecorded
  <2>3. crashes' \in 0 .. MaxCrashes /\ crashes' >= crashes
    BY <1>15, LimitsAssumption DEF LogHostDies, TypeOK
  <2>4. TasksUntouched
    BY <2>1, <2>3 DEF TasksUntouched
  <2> QED
    BY <1>2, <1>3, <1>15, <2>1, <2>2, <2>4 DEF LogHostDies
<1>16. CASE LogHostDiesLate
  <2>1. UNCHANGED <<stage, log, mode, batch, task, inbox, late, fault>>
    BY <1>16 DEF LogHostDiesLate
  <2>2. StageInv'
    BY <1>16, <2>1 DEF LogHostDiesLate, IInv, StageInv, AllRecorded
  <2>3. crashes' \in 0 .. MaxCrashes /\ crashes' >= crashes
    BY <1>16, LimitsAssumption DEF LogHostDiesLate, TypeOK
  <2>4. TasksUntouched
    BY <2>1, <2>3 DEF TasksUntouched
  <2> QED
    BY <1>2, <2>1, <2>2, <2>4
<1>17. ASSUME NEW s \in Students, LateStep(s) PROVE IInv'
  BY <1>17, LateKeeps
<1>18. CASE UNCHANGED vars
  BY <1>2, <1>4, <1>18 DEF vars, TasksUntouched, IInv, StageInv, AllRecorded
<1> QED
  BY <1>1, <1>5, <1>6, <1>7, <1>8, <1>9, <1>10, <1>11, <1>13, <1>14, <1>15, <1>16,
     <1>17, <1>18
     DEF Next, Orchestrate, Log, TaskStep, LateStep, Terminated
-----------------------------------------------------------------------------
(* TypeOK /\ IInv holds in every state of a run.                           *)
LEMMA Inductive == Spec => [](TypeOK /\ IInv)
<1>1. Init => TypeOK /\ IInv
  BY InitType, InitInv
<1>2. TypeOK /\ IInv /\ [Next]_vars => (TypeOK /\ IInv)'
  BY TypeStep, StepInv DEF IInv
<1> QED
  BY <1>1, <1>2, PTL DEF Spec

(* Every state of a run has the types TypeOK gives it.                     *)
THEOREM TypeCorrect == Spec => []TypeOK
BY Inductive, PTL

(* A completed run has audited each of its students, with the status of    *)
(* that student's send and no other, and nobody else, however often the    *)
(* transaction was run (orchestrators.py:64-75, activities.py:78-87).      *)
THEOREM AuditIsComplete == Spec => []AuditComplete
<1>1. TypeOK /\ IInv => AuditComplete
  <2> SUFFICES ASSUME TypeOK, IInv, stage = "completed", NEW s \in Students
               PROVE  IF s \in batch
                      THEN /\ task[s].result \in Status
                           /\ Rows(s) > 0
                           /\ Rows(s) = log[<<s, task[s].result>>]
                      ELSE Rows(s) = 0
    BY DEF AuditComplete
  <2>1. log[<<s, "Sent">>] \in Nat /\ log[<<s, "Failed">>] \in Nat
    BY DEF TypeOK, Status
  <2>2. \A x \in Status : log[<<s, x>>] > 0 => s \in batch /\ task[s].result = x
    BY DEF IInv, LogInv
  <2>3. CASE s \in batch
    <3>1. task[s].result \in Status /\ Rows(s) > 0
      BY <2>3 DEF IInv, StageInv, AllRecorded, TaskInv, LogInv
    <3> QED
      BY <2>1, <2>2, <2>3, <3>1 DEF Rows, Status
  <2>4. CASE s \notin batch
    BY <2>1, <2>2, <2>4 DEF Rows, Status
  <2> QED
    BY <2>3, <2>4
<1> QED
  BY <1>1, Inductive, PTL

(* No failure, lost acknowledgement or crash leaves part of a run's rows   *)
(* (reminder_log_repository.py:51-62).                                     *)
THEOREM AuditIsWhole == Spec => []AuditAllOrNothing
<1>1. IInv => AuditAllOrNothing
  BY DEF IInv, LogInv
<1> QED
  BY <1>1, Inductive, PTL

(* Nobody gets more mails than the client's tries times RetryOptions' runs *)
(* and the lost hosts (sendgrid_client.py:73, orchestrators.py:50).        *)
THEOREM MailIsBounded == Spec => []MailBounded
<1>1. TypeOK /\ IInv => MailBounded
  <2> SUFFICES ASSUME TypeOK, IInv, NEW s \in Students
               PROVE  inbox[s] <= Budget(MaxRuns + crashes)
    BY DEF MailBounded, Budget
  <2> DEFINE b == task[s].run - 1 + crashes
             n == MaxRuns + crashes
  <2>1. /\ b \in Nat /\ b + 1 \in Nat /\ n \in Nat /\ b + 1 = task[s].run + crashes
        /\ b <= n /\ b + 1 <= n /\ inbox[s] \in Nat /\ task[s].try \in Nat
        /\ MaxTries \in Nat
    BY LimitsAssumption DEF TypeOK
  <2>2. /\ Budget(b) \in Nat /\ Budget(n) \in Nat /\ Budget(b + 1) = Budget(b) + MaxTries
        /\ Budget(b) <= Budget(n) /\ Budget(b + 1) <= Budget(n)
    <3> HIDE DEF b, n
    <3> QED BY <2>1, BudgetStep
  <2>3. /\ inbox[s] + late[s] <= Spent(s) /\ late[s] \in Nat
        /\ task[s].at = "running" => task[s].try < MaxTries
    BY DEF IInv, TaskInv, TypeOK
  <2> QED
    BY <2>1, <2>2, <2>3 DEF Spent
<1> QED
  BY <1>1, Inductive, PTL

(* The audit never claims a mail SendGrid did not take, and in mock mode   *)
(* nobody is mailed.                                                       *)
THEOREM SentIsDelivered == Spec => []SentMeansDelivered
<1>1. TypeOK /\ IInv => SentMeansDelivered
  BY DEF IInv, LogInv, TaskInv, SentMeansDelivered, Status
<1> QED
  BY <1>1, Inductive, PTL

(* A run fails only after an unexpected failure: refused mails never fail  *)
(* the fan-in (orchestrators.py:48-49).                                    *)
THEOREM FailureIsIsolated == Spec => []FailureIsolated
<1>1. IInv => FailureIsolated
  BY DEF IInv, StageInv, FailureIsolated
<1> QED
  BY <1>1, Inductive, PTL

(* A completed run has no activity left but those a lost host has had      *)
(* delivered again, and these mail only whom it had selected               *)
(* (orchestrators.py:64, activities.py:54).                                *)
THEOREM LateMailIsRedelivered == Spec => LateMailNeedsLostHost
<1>1. TypeOK /\ IInv /\ [Next]_vars =>
         [stage = "completed" =>
             \A s \in Students : inbox'[s] # inbox[s] => s \in batch /\ crashes > 0]_vars
  <2> SUFFICES ASSUME TypeOK, IInv, Next, stage = "completed",
                      NEW s \in Students, inbox'[s] # inbox[s]
               PROVE  s \in batch /\ crashes > 0
    BY DEF vars
  <2>1. ASSUME NEW r \in Students, TaskStep(r) PROVE FALSE
    BY <2>1, TaskTouches DEF Touches, IInv, StageInv, AllRecorded, TaskInv
  <2>2. ASSUME NEW r \in Students, LateStep(r) PROVE s \in batch /\ crashes > 0
    <3>1. r = s
      BY <2>2, LateType
    <3>2. late[s] > 0
      BY <2>2, <3>1 DEF LateStep, HostDiesLate, LateTry
    <3> QED
      BY <3>2 DEF IInv, TaskInv
  <2>3. CASE inbox' = inbox
    BY <2>3
  <2> QED
    BY <2>1, <2>2, <2>3 DEF Next, Orchestrate, Log, TaskStep, LateStep, Start, Query,
       QueryFails, FanIn, FanInFails, LogInsert, LogCommit, LogFails, LogRaises,
       LogAckLost, LogHostDies, LogHostDiesLate, Terminated, vars
<1> QED
  BY <1>1, Inductive, PTL DEF Spec, LateMailNeedsLostHost
-----------------------------------------------------------------------------
(* The refinement: a run starts as the job does, and each of its steps is  *)
(* one of the job's or none.                                               *)
LEMMA JobInit == Init => Job!Init
BY DEF Init, Job!Init, JobState

(* A step that delivers to nobody and leaves the log is none.              *)
LEMMA JobStutter ==
    ASSUME UNCHANGED <<mode, batch, inbox, log>>, JobState' = JobState
    PROVE  UNCHANGED Job!vars
BY DEF Job!vars

(* A step of an activity mails its student or nobody.                      *)
LEMMA JobMail ==
    ASSUME TypeOK, IInv, NEW s \in Students, TaskStep(s)
    PROVE  Job!Mail(s) \/ UNCHANGED Job!vars
<1>1. Touches(s)
  BY TaskTouches
<1>2. s \in batch /\ JobState \in {"open", "failed"} /\ JobState' = JobState
  BY <1>1 DEF Touches, IInv, TaskInv, StageInv, AllRecorded, JobState, TypeOK, Stages
<1>3. CASE Deliver(s) /\ mode = "real"
  BY <1>1, <1>2, <1>3 DEF Touches, Deliver, Job!Mail
<1>4. CASE UNCHANGED inbox
  BY <1>1, <1>2, <1>4, JobStutter DEF Touches
<1> QED
  BY <1>3, <1>4 DEF TaskStep, Send, BeginSend, SendWithoutRequest, SendAccepted,
     SendRefused, SendAnswerLost, Record, ActivityFails, HostDies

(* An execution delivered again late does, too.                            *)
LEMMA JobLateMail ==
    ASSUME TypeOK, IInv, NEW s \in Students, LateStep(s)
    PROVE  Job!Mail(s) \/ UNCHANGED Job!vars
<1>1. s \in batch /\ UNCHANGED <<mode, stage, batch, log>>
  BY LateOwn, LateType DEF IInv, logging
<1>2. JobState # "waiting" /\ JobState' = JobState
  <2>1. stage \notin {"idle", "query"}
    BY <1>1 DEF IInv, StageInv
  <2>2. JobState # "waiting"
    BY <2>1 DEF JobState, TypeOK, Stages
  <2> QED
    BY <1>1, <2>2 DEF JobState
<1>3. CASE Deliver(s) /\ mode = "real"
  BY <1>1, <1>2, <1>3 DEF Deliver, Job!Mail
<1>4. CASE UNCHANGED inbox
  BY <1>1, <1>2, <1>4, JobStutter
<1> QED
  BY <1>3, <1>4 DEF LateStep, HostDiesLate, LateTry

(* The log activity ends an open job or moves none.                        *)
JobMoves ==
    /\ JobState # "waiting"
    /\ JobState' \in IF JobState = "open" THEN {"open", "completed", "failed"} ELSE {JobState}

LEMMA JobLogMoves ==
    ASSUME TypeOK, IInv, Logging, LogMoves
    PROVE  JobMoves
<1>1. IF logAgain THEN stage \in {"completed", "failed"} /\ stage' = stage
      ELSE stage = "log" /\ stage' \in {"log", "completed", "failed"}
  BY LogEndsEffect DEF LogMoves, Logging, IInv, StageInv
<1> QED
  BY <1>1 DEF JobMoves, JobState

(* A commit audits the batch: the verdicts are the recorded results, which *)
(* agree with the rows an earlier commit of this run wrote.                *)
LEMMA JobAudit ==
    ASSUME TypeOK, IInv, Logging, AllInserted, log' = RowsAdded,
           UNCHANGED <<mode, batch, inbox>>, JobMoves
    PROVE  \E verdict \in [batch -> Status] : Job!Audit(verdict)
<1> DEFINE verdict == [s \in batch |-> task[s].result]
<1>1. \A s \in batch : s \in Students /\ task[s].result \in Status
  BY CommitEffect DEF TypeOK
<1>2. verdict \in [batch -> Status]
  BY <1>1
<1>3. Job!Honest(verdict)
  <2> SUFFICES ASSUME NEW s \in batch
               PROVE  /\ verdict[s] = "Sent" => inbox[s] > 0 \/ ~(mode = "real")
                      /\ Job!Rows(s) \subseteq {verdict[s]}
    BY DEF Job!Honest
  <2>1. verdict[s] = "Sent" => inbox[s] > 0 \/ ~(mode = "real")
    BY <1>1 DEF IInv, StageInv, Logging, AllRecorded, TaskInv
  <2>2. Job!Rows(s) \subseteq {verdict[s]}
    BY <1>1 DEF Job!Rows, IInv, LogInv
  <2> QED
    BY <2>1, <2>2
<1>4. log' = [e \in Students \X Status |->
                IF e[1] \in batch /\ verdict[e[1]] = e[2] THEN log[e] + 1 ELSE log[e]]
  BY DEF RowsAdded, AllInserted
<1> QED
  BY <1>2, <1>3, <1>4 DEF Job!Audit, JobMoves

LEMMA JobStep == TypeOK /\ IInv /\ [Next]_vars => [Job!Next]_(Job!vars)
<1> SUFFICES ASSUME TypeOK, IInv, [Next]_vars PROVE [Job!Next]_(Job!vars)
  OBVIOUS
<1> USE DEF logging
<1>1. ASSUME NEW s \in Students, TaskStep(s) PROVE Job!Next \/ UNCHANGED Job!vars
  BY <1>1, JobMail DEF Job!Next
<1>2. CASE Start
  BY <1>2, JobStutter DEF Start, JobState
<1>3. CASE Query
  <2>1. JobState = "waiting" /\ JobState' = "open" /\ batch' \in SUBSET Students
    BY <1>3 DEF Query, JobState
  <2> QED
    BY <1>3, <2>1 DEF Query, Job!Select, Job!Next
<1>4. CASE QueryFails
  BY <1>4 DEF QueryFails, JobState, Job!Fail, Job!Next
<1>5. CASE FanIn
  BY <1>5, JobStutter DEF FanIn, JobState
<1>6. CASE FanInFails
  BY <1>6 DEF FanInFails, JobState, Job!Fail, Job!Next
<1>7. ASSUME NEW s \in Students, LogInsert(s) PROVE UNCHANGED Job!vars
  BY <1>7, JobStutter DEF LogInsert, JobState
<1>8. CASE LogCommit
  <2>1. JobMoves
    BY <1>8, JobLogMoves DEF LogCommit, LogMoves
  <2> QED
    BY <1>8, <2>1, JobAudit DEF LogCommit, CommitRows, Job!Next
<1>9. ASSUME NEW exc, Logging, LogRaises(exc) PROVE JobMoves
  BY <1>9, JobLogMoves DEF LogRaises, LogMoves
<1>10. CASE LogFails
  <2>1. PICK exc \in ConnectFailures : LogRaises(exc)
    BY <1>10 DEF LogFails
  <2>2. UNCHANGED <<mode, batch, inbox, log>> /\ JobMoves
    BY <1>9, <1>10, <2>1 DEF LogFails, LogRaises
  <2>3. CASE JobState' = JobState
    BY <2>2, <2>3, JobStutter
  <2>4. CASE JobState' # JobState
    <3>1. JobState = "open" /\ JobState' = "failed"
      BY <2>1, <2>2, <2>4, LogEndsEffect DEF JobMoves, LogRaises, JobState
    <3> QED
      BY <2>2, <3>1 DEF Job!Fail, Job!Next
  <2> QED
    BY <2>3, <2>4
<1>11. CASE LogAckLost
  <2>1. Logging /\ LogRaises("OperationalError") /\ AllInserted /\ log' = RowsAdded
    BY <1>11 DEF LogAckLost, CommitRows
  <2>2. UNCHANGED <<mode, batch, inbox>> /\ JobMoves
    BY <1>9, <2>1 DEF LogRaises
  <2> QED
    BY <2>1, <2>2, JobAudit DEF Job!Next
<1>12. CASE LogHostDies
  <2>1. UNCHANGED <<stage, logAgain, mode, batch, inbox>>
    BY <1>12 DEF LogHostDies
  <2>2. JobState' = JobState /\ JobMoves
    BY <1>12, <2>1, JobLogMoves DEF LogHostDies, LogMoves, JobState
  <2>3. CASE UNCHANGED log
    BY <2>1, <2>2, <2>3, JobStutter
  <2>4. CASE AllInserted /\ log' = RowsAdded
    BY <1>12, <2>1, <2>2, <2>4, JobAudit DEF LogHostDies, Job!Next
  <2> QED
    BY <1>12, <2>3, <2>4 DEF LogHostDies
<1>13. CASE LogHostDiesLate
  BY <1>13, JobStutter DEF LogHostDiesLate, JobState
<1>14. ASSUME NEW s \in Students, LateStep(s) PROVE Job!Next \/ UNCHANGED Job!vars
  BY <1>14, JobLateMail DEF Job!Next
<1>15. CASE UNCHANGED vars
  BY <1>15, JobStutter DEF vars, JobState
<1> QED
  BY <1>1, <1>2, <1>3, <1>4, <1>5, <1>6, <1>7, <1>8, <1>10, <1>11, <1>12, <1>13,
     <1>14, <1>15
     DEF Next, Orchestrate, Log, TaskStep, LateStep, Terminated

(* The run with its activities, retries, crashes and transaction           *)
(* implements the job that selects once, mails only its selection and      *)
(* audits it as a whole (orchestrators.py:15-84, activities.py:42-107).    *)
THEOREM RunImplementsJob == Spec => ImplementsJob
<1>1. Init => Job!Init
  BY JobInit
<1>2. TypeOK /\ IInv /\ [Next]_vars => [Job!Next]_(Job!vars)
  BY JobStep
<1> QED
  BY <1>1, <1>2, Inductive, PTL DEF Spec, ImplementsJob, Job!Spec
=============================================================================
