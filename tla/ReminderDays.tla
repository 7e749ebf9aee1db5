---------------------------- MODULE ReminderDays -----------------------------
(***************************************************************************)
(* The reminders of several days seen from outside one run: the daily      *)
(* timer, HTTP requests to POST /api/reminders/run, the instances they     *)
(* start, the students these mail, and the fee updates that go on          *)
(* meanwhile.                                                              *)
(*                                                                         *)
(* A starter computes the date first and calls start_new later; midnight   *)
(* or another starter may come in between.  An instance is kept under its  *)
(* id: the date for a daily run, a fresh id for a forced one.  One run is  *)
(* what ReminderJob promises of it, without the audit: a query; later,      *)
(* when the answer is back in the orchestration, the fan-out; and one send *)
(* per student of the answer, in any order and at any later time.          *)
(* Repeated executions of one activity are ReminderRun's.                  *)
(*                                                                         *)
(* Durable Functions is external and modelled as the starters use it:      *)
(* start_new raises while an instance with the id is pending or running,   *)
(* replaces one that has ended, and may raise for reasons of its own,      *)
(* before or after the instance is created.  The timer does not overlap    *)
(* itself; an invocation whose host dies is made again, as past due.       *)
(***************************************************************************)
EXTENDS FeeRules, FiniteSets

CONSTANTS
    Students,
    Requests,     \* HTTP requests that may arrive
    SeedRows,     \* the students' fees on day 0
    LastDay,      \* bound on the days
    MaxCrashes    \* bound on hosts that die in the timer's invocation

ASSUME RequestsAssumption == None \notin Requests /\ \A p \in Requests : p \notin Int
ASSUME SeedAssumption == SeedRows \in [Students -> Row]
ASSUME BoundsAssumption == LastDay \in Nat /\ MaxCrashes \in Nat

Days == 0 .. LastDay
Ids == Days \cup Requests

VARIABLES
    today,     \* the UTC date
    rows,      \* dbo.Students
    timer,     \* the timer's invocation: where it is, its day, the id it computed
    fired,     \* the last day whose timer invocation has ended
    request,   \* each HTTP request: where it is, its id, its answer
    run,       \* the instances by id: stage, how often started, the day of the
               \* query and its answer
    queue,     \* sends scheduled and not yet executed
    crashes,   \* hosts that died in the timer's invocation
    lapsed,    \* history: sends already queued or about to be, by the answer of
               \* a query, when their student stopped being overdue
    broken,    \* history: ids of which a run has failed
    dropped    \* history: days whose start raised and created nothing

starters == <<timer, fired, request, crashes>>
vars == <<today, rows, starters, run, queue, lapsed, broken, dropped>>

Active == {"pending", "read", "sending"}
Stages == {"none", "completed", "failed"} \cup Active
Sends == [id : Ids, start : Nat, to : Students]

TypeOK ==
    /\ today \in Days
    /\ rows \in [Students -> Row]
    /\ timer \in [at : {"idle", "dated", "started"}, day : Days, id : Ids]
    /\ fired \in Days \cup {-1}
    /\ request \in [Requests -> [at : {"idle", "dated", "done"}, id : Ids,
                                 code : {None, 202, 409}]]
    /\ run \in [Ids -> [stage : Stages, starts : Nat, read : Days \cup {-1},
                       answer : SUBSET Students]]
    /\ \A send \in queue : send \in Sends
    /\ crashes \in 0 .. MaxCrashes
    /\ \A send \in lapsed : send \in Sends
    /\ broken \subseteq Ids
    /\ dropped \subseteq Days

NoInvocation == [at |-> "idle", day |-> 0, id |-> 0]

Init ==
    /\ today = 0
    /\ rows = SeedRows
    /\ timer = NoInvocation
    /\ fired = -1
    /\ request = [p \in Requests |-> [at |-> "idle", id |-> 0, code |-> None]]
    /\ run = [i \in Ids |-> [stage |-> "none", starts |-> 0, read |-> -1, answer |-> {}]]
    /\ queue = {}
    /\ crashes = 0
    /\ lapsed = {}
    /\ broken = {}
    /\ dropped = {}
-----------------------------------------------------------------------------
Overdue(s) == SqlStatus(rows[s], today) = "Overdue"

Midnight ==
    /\ today < LastDay
    /\ today' = today + 1
    /\ UNCHANGED <<rows, starters, run, queue, lapsed, broken, dropped>>

(* The runs whose query has answered and whose fan-out is still to come.   *)
Reading == {id \in Ids : run[id].stage = "read"}

(* The sends the fan-out over the query's answer will queue.               *)
Selected(id) == {[id |-> id, start |-> run[id].starts, to |-> s] : s \in run[id].answer}

(* PUT .../fee: the student has paid, or is given until the last day.      *)
Settle(s) ==
    /\ Overdue(s)
    /\ \E body \in {[total |-> None, paid |-> rows[s].total, due |-> None],
                    [total |-> None, paid |-> None, due |-> LastDay]} :
          rows' = [rows EXCEPT ![s] = Merge(@, body)]
    /\ lapsed' = lapsed \cup
          {send \in queue \cup UNION {Selected(id) : id \in Reading} : send.to = s}
    /\ UNCHANGED <<today, starters, run, queue, broken, dropped>>
-----------------------------------------------------------------------------
(* Mutant: one id for all unforced runs. *)
OneIdForAll(p, force, day) == IF force THEN p ELSE 0

(* Mutant: the date is a day ahead. *)
DayAhead(p, force, day) == IF force THEN p ELSE day + 1

(* The id of a run: fresh if forced, else the date.                        *)
InstanceId(p, force, day) == IF force THEN p ELSE day

(* Mutant: a second start while the first run is at work. *)
NeverRefuses(id) == FALSE

(* Only an instance that has ended can be replaced.                        *)
Refuses(id) == run[id].stage \in Active

(* Sends of the replaced instance stay queued.                             *)
Create(id) ==
    run' = [run EXCEPT ![id] =
              [stage |-> "pending", starts |-> @.starts + 1, read |-> -1, answer |-> {}]]

(* The outcomes of start_new: the instance is created, and the caller told *)
(* unless the answer is lost; or the call raises and creates nothing, for  *)
(* a duplicate or for another reason.                                      *)
StartNew(id, raises) ==
    \/ ~Refuses(id) /\ Create(id)
    \/ raises /\ UNCHANGED run
-----------------------------------------------------------------------------
(* The daily timer, or a missed one past due: one invocation per day that  *)
(* has ended, another if the host died in the first.                       *)
TimerFires ==
    /\ timer.at = "idle"
    /\ fired < today
    /\ timer' = [at |-> "dated", day |-> today, id |-> InstanceId(None, FALSE, today)]
    /\ UNCHANGED <<today, rows, fired, request, crashes, run, queue, lapsed, broken, dropped>>

(* Whatever start_new raises is logged and dropped.                        *)
TimerStarts ==
    /\ timer.at = "dated"
    /\ \E raises \in BOOLEAN : StartNew(timer.id, raises)
    /\ timer' = [timer EXCEPT !.at = "started"]
    /\ dropped' = IF run' = run /\ ~Refuses(timer.id) THEN dropped \cup {timer.day}
                  ELSE dropped
    /\ UNCHANGED <<today, rows, fired, request, crashes, queue, lapsed, broken>>

TimerEnds ==
    /\ timer.at = "started"
    /\ timer' = NoInvocation
    /\ fired' = timer.day
    /\ UNCHANGED <<today, rows, request, crashes, run, queue, lapsed, broken, dropped>>

(* The host dies before the invocation is noted as done.                   *)
TimerDies ==
    /\ timer.at \in {"dated", "started"}
    /\ crashes < MaxCrashes
    /\ crashes' = crashes + 1
    /\ timer' = NoInvocation
    /\ UNCHANGED <<today, rows, fired, request, run, queue, lapsed, broken, dropped>>
-----------------------------------------------------------------------------
Receive(p) ==
    /\ request[p].at = "idle"
    /\ \E force \in BOOLEAN :
          request' = [request EXCEPT ![p] =
              [@ EXCEPT !.at = "dated", !.id = InstanceId(p, force, today)]]
    /\ UNCHANGED <<today, rows, timer, fired, crashes, run, queue, lapsed, broken, dropped>>

(* Any exception of start_new is 409 ORCHESTRATION_START_FAILED.           *)
Answer(p, raises) ==
    request' = [request EXCEPT ![p] =
        [@ EXCEPT !.at = "done", !.code = IF raises THEN 409 ELSE 202]]

RequestStarts(p) ==
    /\ request[p].at = "dated"
    /\ \E raises \in BOOLEAN :
          /\ StartNew(request[p].id, raises)
          /\ Answer(p, raises)
    /\ UNCHANGED <<today, rows, timer, fired, crashes, queue, lapsed, broken, dropped>>
-----------------------------------------------------------------------------
(* QueryOverdueStudents reads the rows.                                    *)
Query(id) ==
    /\ run[id].stage = "pending"
    /\ run' = [run EXCEPT ![id] =
          [@ EXCEPT !.stage = "read", !.read = today,
                    !.answer = {s \in Students : OverdueSelected(rows[s], today)}]]
    /\ UNCHANGED <<today, rows, starters, queue, lapsed, broken, dropped>>

(* The orchestration resumes with the answer and queues the sends.         *)
FanOut(id) ==
    /\ run[id].stage = "read"
    /\ queue' = queue \cup Selected(id)
    /\ run' = [run EXCEPT ![id] = [@ EXCEPT !.stage = "sending", !.answer = {}]]
    /\ UNCHANGED <<today, rows, starters, lapsed, broken, dropped>>

(* SendReminderEmail mails what the query has read, or fails to; it does   *)
(* not look at the student again.                                          *)
Send(send) ==
    /\ queue' = queue \ {send}
    /\ lapsed' = lapsed \ {send}
    /\ UNCHANGED <<today, rows, starters, run, broken, dropped>>

AllSent(id) == \A send \in queue : send.id # id \/ send.start # run[id].starts

Complete(id) ==
    /\ run[id].stage = "sending"
    /\ AllSent(id)
    /\ run' = [run EXCEPT ![id].stage = "completed"]
    /\ UNCHANGED <<today, rows, starters, queue, lapsed, broken, dropped>>

(* The query or a send fails for good; queued sends still execute.         *)
RunFails(id) ==
    /\ run[id].stage \in {"pending", "sending"}
    /\ run' = [run EXCEPT ![id].stage = "failed"]
    /\ broken' = broken \cup {id}
    /\ UNCHANGED <<today, rows, starters, queue, lapsed, dropped>>
-----------------------------------------------------------------------------
Timer == TimerFires \/ TimerStarts \/ TimerEnds
Run(id) == Query(id) \/ FanOut(id) \/ Complete(id)

Finished ==
    /\ today = LastDay /\ fired = LastDay
    /\ \A p \in Requests : request[p].at = "done"
    /\ \A id \in Ids : run[id].stage \notin Active
    /\ queue = {}
Terminated == Finished /\ UNCHANGED vars

Next ==
    \/ Midnight
    \/ \E s \in Students : Settle(s)
    \/ Timer \/ TimerDies
    \/ \E p \in Requests : Receive(p) \/ RequestStarts(p)
    \/ \E id \in Ids : Run(id) \/ RunFails(id)
    \/ \E send \in queue : Send(send)
    \/ Terminated

Spec == Init /\ [][Next]_vars

(* The clock goes on, the host invokes the timer, and the task hub runs    *)
(* what is queued.                                                         *)
FairSpec ==
    /\ Spec
    /\ WF_vars(Midnight) /\ WF_vars(Timer)
    /\ \A p \in Requests : WF_vars(RequestStarts(p))
    /\ \A id \in Ids : WF_vars(Run(id))
    /\ WF_vars(\E send \in queue : Send(send))
-----------------------------------------------------------------------------
(* A student who has paid or been given more time is reminded only by runs *)
(* whose query had already answered with that student then: no later       *)
(* query, of any run, daily or forced, started before or after, selects    *)
(* that student again (activities.py:33, students_repository.py:268-274).  *)
SettledLeftAlone ==
    \A send \in queue \cup UNION {Selected(id) : id \in Reading} :
        Overdue(send.to) \/ send \in lapsed

(* Unless a run under it has failed, one daily id never has two reminders  *)
(* of the same student scheduled, however the timer, its re-invocation     *)
(* after a lost host and HTTP starts interleave, and whether the earlier   *)
(* start is still at work or done (timer.py:30-31, http_start.py:34-35,    *)
(* orchestrators.py:64).  That the hub may run one scheduled reminder      *)
(* twice is ReminderRun's.                                                 *)
NoDoubleSend ==
    \A a, b \in queue :
        a.id = b.id /\ a.to = b.to /\ a.id \notin broken => a = b

(* Each day on which the timer's invocation ends, hosts lost in it or not, *)
(* is followed by a query of that day's or later overdue students, unless  *)
(* that day's run fails or start_new failed to create it: a duplicate that *)
(* is dropped has a run to stand in for it (timer.py:29-57).               *)
EachDaySelects ==
    \A d \in Days :
        fired = d ~> \/ \E id \in Ids : run[id].read >= d
                    \/ run[d].stage = "failed" \/ d \in dropped

(* timer.py:53: a start for a day that already has its run is skipped, so  *)
(* only force re-executes a completed daily run (http_start.py:29-30).     *)
CompletedRunStays ==
    [][\A d \in Days : run[d].stage = "completed" => run'[d].starts = run[d].starts]_vars
=============================================================================
