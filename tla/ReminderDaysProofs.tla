------------------------- MODULE ReminderDaysProofs -------------------------
(***************************************************************************)
(* Proofs about ReminderDays for every set of students and of requests,    *)
(* every seed table, every number of days and of lost hosts.               *)
(*                                                                         *)
(* Both invariants need to know which start of a run the queued sends      *)
(* belong to: NoDoubleSend that it is the latest unless a run has failed   *)
(* (IInv), SettledLeftAlone that it is one that has fanned out (StartInv). *)
(***************************************************************************)
EXTENDS ReminderDays, FeeRulesProofs, TLAPS

(* Unless a run under the id has failed, what is queued for it was queued  *)
(* by its latest start, which is still sending: an instance is replaced    *)
(* only when it has ended, and ends well only with its sends.              *)
IInv ==
    /\ \A send \in queue : send.id \notin broken =>
          /\ run[send.id].stage = "sending"
          /\ send.start = run[send.id].starts
    /\ \A id \in Ids : run[id].stage = "failed" => id \in broken
-----------------------------------------------------------------------------
(* The date is an id, and so is a request's own.                           *)
LEMMA IdType ==
    /\ \A p \in Requests, force \in BOOLEAN, day \in Days : InstanceId(p, force, day) \in Ids
    /\ \A day \in Days : InstanceId(None, FALSE, day) = day /\ day \in Ids
    /\ 0 \in Days /\ 0 \in Ids /\ Days \subseteq Nat
BY BoundsAssumption DEF InstanceId, Ids, Days

(* What TypeOK says of an invocation, a request and an instance.           *)
Invocation == [at : {"idle", "dated", "started"}, day : Days, id : Ids]
Answers == {None, 202, 409}
Request == [at : {"idle", "dated", "done"}, id : Ids, code : Answers]
Instance == [stage : Stages, starts : Nat, read : Days \cup {-1},
             answer : SUBSET Students]

(* Creating an instance touches no other.                                  *)
LEMMA CreateEffect ==
    ASSUME TypeOK, NEW id \in Ids, Create(id)
    PROVE  /\ run' \in [Ids -> Instance]
           /\ run'[id].stage = "pending" /\ run'[id].starts = run[id].starts + 1
           /\ run'[id].answer = {}
           /\ \A i \in Ids \ {id} : run'[i] = run[i]
<1>1. run \in [Ids -> Instance] /\ run[id].starts \in Nat
  BY DEF TypeOK, Instance
<1>2. [stage |-> "pending", starts |-> run[id].starts + 1, read |-> -1, answer |-> {}]
         \in Instance
  BY <1>1 DEF Instance, Stages, Active
<1> QED
  BY <1>1, <1>2 DEF Create

LEMMA StartNewType ==
    ASSUME TypeOK, NEW id \in Ids, NEW raises, StartNew(id, raises)
    PROVE  run' \in [Ids -> Instance]
BY CreateEffect DEF StartNew, TypeOK, Instance

(* An answered request has the type of a request.                          *)
LEMMA DoneType ==
    ASSUME NEW f \in [Requests -> Request], NEW p \in Requests, NEW code \in Answers
    PROVE  [f EXCEPT ![p] = [@ EXCEPT !.at = "done", !.code = code]] \in [Requests -> Request]
<1>1. "done" \in {"idle", "dated", "done"}
  OBVIOUS
<1> QED
  BY <1>1 DEF Request

(* Whom the query selects is overdue.                                      *)
Answered == {s \in Students : OverdueSelected(rows[s], today)}

LEMMA AnsweredOverdue ==
    ASSUME TypeOK, NEW s \in Answered
    PROVE  s \in Students /\ Overdue(s)
<1>1. rows[s] \in Row /\ today \in Day /\ s \in Students /\ OverdueSelected(rows[s], today)
  BY IdType DEF TypeOK, Day, Answered
<1> QED
  BY <1>1, SelectionIsOverdue DEF Overdue

(* The sends of a fan-out: of this start, for each student of the answer.  *)
LEMMA SelectedType ==
    ASSUME TypeOK, NEW id \in Ids, NEW send \in Selected(id)
    PROVE  /\ send \in Sends
           /\ send.id = id /\ send.start = run[id].starts /\ send.to \in run[id].answer
<1>1. PICK s \in run[id].answer :
         send = [id |-> id, start |-> run[id].starts, to |-> s]
  BY DEF Selected
<1>2. run[id].answer \subseteq Students /\ run[id].starts \in Nat
  BY DEF TypeOK
<1> QED
  BY <1>1, <1>2 DEF Sends

(* What a query's answer and the fan-out over it make of an instance.      *)
Read(t) == [t EXCEPT !.stage = "read", !.read = today, !.answer = Answered]
Fanned(t) == [t EXCEPT !.stage = "sending", !.answer = {}]

LEMMA InstanceTypes ==
    ASSUME TypeOK, NEW t \in Instance
    PROVE  /\ Read(t) \in Instance /\ Read(t).stage = "read"
           /\ Read(t).starts = t.starts /\ Read(t).answer = Answered
           /\ Fanned(t) \in Instance /\ Fanned(t).stage = "sending"
           /\ Fanned(t).starts = t.starts
<1>1. today \in Days /\ Answered \in SUBSET Students
  BY DEF TypeOK, Answered
<1>2. /\ Read(t) \in Instance /\ Read(t).stage = "read"
      /\ Read(t).starts = t.starts /\ Read(t).answer = Answered
  BY <1>1 DEF Read, Instance, Stages, Active
<1>3. /\ Fanned(t) \in Instance /\ Fanned(t).stage = "sending"
      /\ Fanned(t).starts = t.starts
  BY DEF Fanned, Instance, Stages, Active
<1> QED
  BY <1>2, <1>3

(* What a step of an instance does to the instances.                       *)
LEMMA QueryEffect ==
    ASSUME TypeOK, NEW id \in Ids, Query(id)
    PROVE  /\ run' \in [Ids -> Instance]
           /\ run'[id].stage = "read" /\ run'[id].answer = Answered
           /\ run'[id].starts = run[id].starts
           /\ \A i \in Ids \ {id} : run'[i] = run[i]
<1>1. run \in [Ids -> Instance] /\ run[id] \in Instance
  BY DEF TypeOK, Instance
<1>2. run' = [run EXCEPT ![id] = Read(run[id])]
  BY DEF Query, Read, Answered
<1>3. run'[id] = Read(run[id]) /\ run' \in [Ids -> Instance]
      /\ \A i \in Ids \ {id} : run'[i] = run[i]
  BY <1>1, <1>2, InstanceTypes
<1> QED
  BY <1>1, <1>3, InstanceTypes

LEMMA FanOutEffect ==
    ASSUME TypeOK, NEW id \in Ids, FanOut(id)
    PROVE  /\ run' \in [Ids -> Instance]
           /\ run'[id].stage = "sending"
           /\ run'[id].starts = run[id].starts
           /\ \A i \in Ids \ {id} : run'[i] = run[i]
<1>1. run \in [Ids -> Instance] /\ run[id] \in Instance
  BY DEF TypeOK, Instance
<1>2. run' = [run EXCEPT ![id] = Fanned(run[id])]
  BY DEF FanOut, Fanned
<1>3. run'[id] = Fanned(run[id]) /\ run' \in [Ids -> Instance]
      /\ \A i \in Ids \ {id} : run'[i] = run[i]
  BY <1>1, <1>2, InstanceTypes
<1> QED
  BY <1>1, <1>3, InstanceTypes

LEMMA EndEffect ==
    ASSUME TypeOK, NEW id \in Ids, Complete(id) \/ RunFails(id)
    PROVE  /\ run' \in [Ids -> Instance]
           /\ run'[id].stage \in {"completed", "failed"}
           /\ run'[id].starts = run[id].starts
           /\ \A i \in Ids \ {id} : run'[i] = run[i]
<1>1. run \in [Ids -> Instance]
  BY DEF TypeOK, Instance
<1>2. PICK stage \in {"completed", "failed"} : run' = [run EXCEPT ![id].stage = stage]
  BY DEF Complete, RunFails
<1> QED
  BY <1>1, <1>2 DEF Instance, Stages

LEMMA InitType == Init => TypeOK
<1> SUFFICES ASSUME Init PROVE TypeOK
  OBVIOUS
<1>1. timer \in [at : {"idle", "dated", "started"}, day : Days, id : Ids]
  BY IdType DEF Init, NoInvocation
<1>2. request \in [Requests -> [at : {"idle", "dated", "done"}, id : Ids,
                                code : {None, 202, 409}]]
  BY IdType DEF Init
<1>3. run \in [Ids -> [stage : Stages, starts : Nat, read : Days \cup {-1},
               answer : SUBSET Students]]
  BY DEF Init, Stages
<1>4. crashes \in 0 .. MaxCrashes /\ today \in Days
  BY BoundsAssumption, IdType DEF Init
<1> QED
  BY <1>1, <1>2, <1>3, <1>4, SeedAssumption DEF Init, TypeOK

LEMMA TypeStep == TypeOK /\ [Next]_vars => TypeOK'
<1> SUFFICES ASSUME TypeOK, [Next]_vars PROVE TypeOK'
  OBVIOUS
<1> USE DEF starters
<1>1. CASE Midnight
  <2>1. today' \in Days
    BY <1>1, BoundsAssumption DEF Midnight, Days, TypeOK
  <2> QED
    BY <1>1, <2>1 DEF Midnight, TypeOK
<1>2. ASSUME NEW s \in Students, Settle(s) PROVE TypeOK'
  <2>1. \A body \in {[total |-> None, paid |-> rows[s].total, due |-> None],
                     [total |-> None, paid |-> None, due |-> LastDay]} : body \in Body
    BY BoundsAssumption DEF TypeOK, Row, Body, Amount, Day
  <2>2. rows' \in [Students -> Row]
    BY <1>2, <2>1, MergeType DEF Settle, TypeOK
  <2>3. \A send \in lapsed' : send \in Sends
    BY <1>2, SelectedType DEF Settle, TypeOK, Reading
  <2> QED
    BY <1>2, <2>2, <2>3 DEF Settle, TypeOK
<1>3. CASE TimerFires
  <2>1. today \in Days
    BY DEF TypeOK
  <2>2. InstanceId(None, FALSE, today) \in Ids
    BY <2>1, IdType
  <2>3. timer' \in Invocation
    BY <1>3, <2>1, <2>2 DEF TimerFires, Invocation
  <2> QED
    BY <1>3, <2>3 DEF TimerFires, Invocation, TypeOK
<1>4. CASE TimerStarts
  <2>1. timer' \in [at : {"idle", "dated", "started"}, day : Days, id : Ids]
    BY <1>4 DEF TimerStarts, TypeOK
  <2>2. run' \in [Ids -> Instance]
    BY <1>4, StartNewType DEF TimerStarts, TypeOK
  <2>3. dropped' \subseteq Days
    BY <1>4 DEF TimerStarts, TypeOK
  <2> QED
    BY <1>4, <2>1, <2>2, <2>3 DEF TimerStarts, TypeOK, Instance
<1>5. CASE TimerEnds
  BY <1>5, IdType DEF TimerEnds, NoInvocation, TypeOK
<1>6. CASE TimerDies
  <2>1. crashes' \in 0 .. MaxCrashes
    BY <1>6, BoundsAssumption DEF TimerDies, TypeOK
  <2> QED
    BY <1>6, <2>1, IdType DEF TimerDies, NoInvocation, TypeOK
<1>7. ASSUME NEW p \in Requests, Receive(p) PROVE TypeOK'
  <2>1. request \in [Requests -> Request] /\ request[p] \in Request
    BY DEF TypeOK, Request, Answers
  <2>2. today \in Days
    BY DEF TypeOK
  <2>3. PICK force \in BOOLEAN :
           request' = [request EXCEPT ![p] =
              [@ EXCEPT !.at = "dated", !.id = InstanceId(p, force, today)]]
    BY <1>7 DEF Receive
  <2>4. InstanceId(p, force, today) \in Ids
    BY <2>2, IdType
  <2>5. [request[p] EXCEPT !.at = "dated", !.id = InstanceId(p, force, today)] \in Request
    BY <2>1, <2>4 DEF Request
  <2>6. request' \in [Requests -> Request]
    BY <2>1, <2>3, <2>5
  <2> QED
    BY <1>7, <2>6 DEF Receive, Request, Answers, TypeOK
<1>8. ASSUME NEW p \in Requests, RequestStarts(p) PROVE TypeOK'
  <2>1. PICK raises \in BOOLEAN : StartNew(request[p].id, raises) /\ Answer(p, raises)
    BY <1>8 DEF RequestStarts
  <2>2. run' \in [Ids -> Instance]
    BY <2>1, StartNewType DEF TypeOK
  <2>3. request \in [Requests -> Request]
    BY DEF TypeOK, Request, Answers
  <2>4. PICK code \in Answers :
           request' = [request EXCEPT ![p] = [@ EXCEPT !.at = "done", !.code = code]]
    <3>1. CASE raises
      BY <2>1, <3>1 DEF Answer, Answers
    <3>2. CASE ~raises
      BY <2>1, <3>2 DEF Answer, Answers
    <3> QED
      BY <3>1, <3>2
  <2>5. request' \in [Requests -> Request]
    BY <1>8, <2>3, <2>4, DoneType
  <2> QED
    BY <1>8, <2>2, <2>5 DEF RequestStarts, TypeOK, Instance, Request, Answers
<1>9. ASSUME NEW id \in Ids, FanOut(id) PROVE TypeOK'
  <2>1. run' \in [Ids -> Instance]
    BY <1>9, FanOutEffect
  <2>2. \A send \in queue' : send \in Sends
    BY <1>9, SelectedType DEF FanOut, TypeOK
  <2> QED
    BY <1>9, <2>1, <2>2 DEF FanOut, TypeOK, Instance
<1>10. ASSUME NEW id \in Ids, Query(id) \/ Complete(id) \/ RunFails(id) PROVE TypeOK'
  <2>1. run' \in [Ids -> Instance]
    BY <1>10, QueryEffect, EndEffect
  <2>2. UNCHANGED <<today, rows, starters, queue, lapsed, dropped>> /\ broken' \subseteq Ids
    BY <1>10 DEF Query, Complete, RunFails, TypeOK
  <2> QED
    BY <2>1, <2>2 DEF TypeOK, Instance
<1>11. ASSUME NEW send \in queue, Send(send) PROVE TypeOK'
  BY <1>11 DEF Send, TypeOK
<1>12. CASE UNCHANGED vars
  BY <1>12 DEF vars, TypeOK
<1> QED
  BY <1>1, <1>2, <1>3, <1>4, <1>5, <1>6, <1>7, <1>8, <1>9, <1>10, <1>11, <1>12
     DEF Next, Timer, Run, Terminated

(* Every state has the types TypeOK gives it.                              *)
THEOREM TypeCorrect == Spec => []TypeOK
BY InitType, TypeStep, PTL DEF Spec
-----------------------------------------------------------------------------
(* Creating an instance keeps the invariant: an unbroken id that can be    *)
(* replaced has nothing queued.                                            *)
LEMMA StartKeeps ==
    ASSUME TypeOK, IInv, NEW id \in Ids, NEW raises, StartNew(id, raises),
           UNCHANGED <<queue, broken>>
    PROVE  IInv'
<1>1. CASE UNCHANGED run
  BY <1>1 DEF IInv
<1>2. CASE ~Refuses(id) /\ Create(id)
  <2>1. /\ run'[id].stage = "pending"
        /\ \A i \in Ids \ {id} : run'[i] = run[i]
    BY <1>2, CreateEffect
  <2>2. ASSUME NEW send \in queue, send.id \notin broken
        PROVE  send.id \in Ids \ {id}
    <3>1. send.id \in Ids /\ run[send.id].stage = "sending"
      BY <2>2 DEF TypeOK, Sends, IInv
    <3> QED
      BY <3>1, <1>2 DEF Refuses, Active
  <2> QED
    BY <2>1, <2>2 DEF IInv
<1> QED
  BY <1>1, <1>2 DEF StartNew

LEMMA InitInv == Init => IInv
BY DEF Init, IInv

LEMMA StepInv == TypeOK /\ IInv /\ [Next]_vars => IInv'
<1> SUFFICES ASSUME TypeOK, IInv, [Next]_vars PROVE IInv'
  OBVIOUS
<1>1. ASSUME UNCHANGED <<run, queue, broken>> PROVE IInv'
  BY <1>1 DEF IInv
<1>2. CASE TimerStarts
  <2>1. timer.id \in Ids
    BY DEF TypeOK
  <2> QED
    BY <1>2, <2>1, StartKeeps DEF TimerStarts
<1>3. ASSUME NEW p \in Requests, RequestStarts(p) PROVE IInv'
  <2>1. request[p].id \in Ids
    BY <1>3 DEF TypeOK
  <2> QED
    BY <1>3, <2>1, StartKeeps DEF RequestStarts
<1>8. ASSUME NEW id \in Ids, Query(id) PROVE IInv'
  <2>1. /\ run'[id].stage = "read"
        /\ \A i \in Ids \ {id} : run'[i] = run[i]
    BY <1>8, QueryEffect
  <2>2. run[id].stage = "pending" /\ UNCHANGED <<queue, broken>>
    BY <1>8 DEF Query
  <2>3. \A send \in queue : send.id \notin broken => send.id \in Ids \ {id}
    BY <2>2 DEF TypeOK, Sends, IInv
  <2> QED
    BY <2>1, <2>2, <2>3 DEF IInv
<1>4. ASSUME NEW id \in Ids, FanOut(id) PROVE IInv'
  <2>1. /\ run'[id].stage = "sending" /\ run'[id].starts = run[id].starts
        /\ \A i \in Ids \ {id} : run'[i] = run[i]
    BY <1>4, FanOutEffect
  <2>2. /\ run[id].stage = "read" /\ broken' = broken
        /\ queue' = queue \cup Selected(id)
    BY <1>4 DEF FanOut
  <2>3. \A send \in queue : send.id \notin broken => send.id \in Ids \ {id}
    BY <2>2 DEF TypeOK, Sends, IInv
  <2>4. \A send \in Selected(id) : send.id = id /\ send.start = run[id].starts
    BY SelectedType, <1>4
  <2> QED
    BY <2>1, <2>2, <2>3, <2>4 DEF IInv
<1>5. ASSUME NEW id \in Ids, Complete(id) PROVE IInv'
  <2>1. /\ run'[id].stage # "failed"
        /\ \A i \in Ids \ {id} : run'[i] = run[i]
    <3>1. run \in [Ids -> Instance] /\ run' = [run EXCEPT ![id].stage = "completed"]
      BY <1>5 DEF Complete, TypeOK, Instance
    <3> QED
      BY <3>1, <1>5, EndEffect DEF Instance
  <2>2. queue' = queue /\ broken' = broken /\ AllSent(id)
    BY <1>5 DEF Complete
  <2>3. \A send \in queue : send.id \notin broken => send.id \in Ids \ {id}
    BY <2>2 DEF AllSent, TypeOK, Sends, IInv
  <2> QED
    BY <2>1, <2>2, <2>3 DEF IInv
<1>6. ASSUME NEW id \in Ids, RunFails(id) PROVE IInv'
  <2>1. \A i \in Ids \ {id} : run'[i] = run[i]
    BY <1>6, EndEffect
  <2>2. queue' = queue /\ broken' = broken \cup {id}
    BY <1>6 DEF RunFails
  <2>3. \A send \in queue : send.id \in Ids
    BY DEF TypeOK, Sends
  <2> QED
    BY <2>1, <2>2, <2>3 DEF IInv
<1>7. ASSUME NEW send \in queue, Send(send) PROVE IInv'
  BY <1>7 DEF Send, IInv
<1> QED
  BY <1>1, <1>2, <1>3, <1>4, <1>5, <1>6, <1>7, <1>8
     DEF Next, Midnight, Settle, Timer, TimerFires, TimerEnds, TimerDies, Receive,
         Run, Terminated, vars

(* Unless a run under it has failed, one id never has two reminders of the *)
(* same student scheduled (timer.py:30-31, http_start.py:34-35,            *)
(* orchestrators.py:64).                                                   *)
THEOREM OneReminderAtATime == Spec => []NoDoubleSend
<1>1. TypeOK /\ IInv => NoDoubleSend
  <2> SUFFICES ASSUME TypeOK, IInv, NEW a \in queue, NEW b \in queue,
                      a.id = b.id, a.to = b.to, a.id \notin broken
               PROVE  a = b
    BY DEF NoDoubleSend
  <2>1. a \in Sends /\ b \in Sends
    BY DEF TypeOK
  <2>2. a.start = b.start
    BY DEF IInv
  <2> QED
    BY <2>1, <2>2 DEF Sends
<1> QED
  BY <1>1, InitType, InitInv, TypeStep, StepInv, PTL DEF Spec
-----------------------------------------------------------------------------
(* What is queued belongs to a start of its run that has fanned out.       *)
StartInv ==
    \A send \in queue :
        /\ send.start <= run[send.id].starts
        /\ run[send.id].stage \in {"pending", "read"} => send.start < run[send.id].starts

(* Of an instance that is replaced, nothing belongs to the new start.      *)
LEMMA StartKeepsStart ==
    ASSUME TypeOK, StartInv, NEW id \in Ids, NEW raises, StartNew(id, raises),
           UNCHANGED queue
    PROVE  StartInv'
<1>1. CASE UNCHANGED run
  BY <1>1 DEF StartInv
<1>2. CASE Create(id)
  <2>1. /\ run'[id].starts = run[id].starts + 1
        /\ \A i \in Ids \ {id} : run'[i] = run[i]
    BY <1>2, CreateEffect
  <2>2. ASSUME NEW send \in queue
        PROVE  /\ send.start \in Nat /\ send.id \in Ids /\ run[send.id].starts \in Nat
               /\ send.start <= run[send.id].starts
    BY DEF TypeOK, Sends, StartInv
  <2> QED
    BY <2>1, <2>2 DEF StartInv
<1> QED
  BY <1>1, <1>2 DEF StartNew

LEMMA StartStep == TypeOK /\ StartInv /\ [Next]_vars => StartInv'
<1> SUFFICES ASSUME TypeOK, StartInv, [Next]_vars PROVE StartInv'
  OBVIOUS
<1>1. ASSUME UNCHANGED <<run, queue>> PROVE StartInv'
  BY <1>1 DEF StartInv
<1>2. CASE TimerStarts
  <2>1. timer.id \in Ids
    BY DEF TypeOK
  <2> QED
    BY <1>2, <2>1, StartKeepsStart DEF TimerStarts
<1>3. ASSUME NEW p \in Requests, RequestStarts(p) PROVE StartInv'
  <2>1. request[p].id \in Ids
    BY <1>3 DEF TypeOK
  <2> QED
    BY <1>3, <2>1, StartKeepsStart DEF RequestStarts
<1>4. ASSUME UNCHANGED queue, NEW id \in Ids, run'[id].starts = run[id].starts,
             \A i \in Ids \ {id} : run'[i] = run[i],
             run'[id].stage \in {"pending", "read"} => run[id].stage \in {"pending", "read"}
      PROVE  StartInv'
  BY <1>4 DEF StartInv, TypeOK, Sends
<1>5. ASSUME NEW id \in Ids, Query(id) PROVE StartInv'
  <2>1. UNCHANGED queue /\ run[id].stage = "pending"
    BY <1>5 DEF Query
  <2> QED
    BY <1>4, <1>5, <2>1, QueryEffect
<1>6. ASSUME NEW id \in Ids, Complete(id) \/ RunFails(id) PROVE StartInv'
  <2>1. UNCHANGED queue
    BY <1>6 DEF Complete, RunFails
  <2> QED
    BY <1>4, <1>6, <2>1, EndEffect
<1>7. ASSUME NEW id \in Ids, FanOut(id) PROVE StartInv'
  <2>1. /\ run'[id].stage = "sending" /\ run'[id].starts = run[id].starts
        /\ \A i \in Ids \ {id} : run'[i] = run[i]
    BY <1>7, FanOutEffect
  <2>2. ASSUME NEW send \in queue'
        PROVE  /\ send.start <= run[send.id].starts
               /\ send.id = id \/ send \in queue
    <3>1. CASE send \in queue
      BY <3>1 DEF StartInv
    <3>2. CASE send \in Selected(id)
      BY <3>2, <1>7, SelectedType DEF TypeOK
    <3> QED
      BY <1>7, <3>1, <3>2 DEF FanOut
  <2>3. \A send \in queue : send.id \in Ids
    BY DEF TypeOK, Sends
  <2> QED
    BY <2>1, <2>2, <2>3 DEF StartInv
<1>8. ASSUME NEW send \in queue, Send(send) PROVE StartInv'
  BY <1>8 DEF Send, StartInv
<1> QED
  BY <1>1, <1>2, <1>3, <1>5, <1>6, <1>7, <1>8
     DEF Next, Midnight, Settle, Timer, TimerFires, TimerEnds, TimerDies, Receive,
         Run, Terminated, vars
-----------------------------------------------------------------------------
(* The sends queued, or about to be by the answer of a query.              *)
Promised == queue \cup UNION {Selected(id) : id \in Reading}

LEMMA PromisedType ==
    ASSUME TypeOK
    PROVE  /\ \A send \in Promised : send \in Sends
           /\ \A send : send \in Promised <=>
                 send \in queue \/ \E id \in Ids : run[id].stage = "read" /\ send \in Selected(id)
BY SelectedType DEF TypeOK, Promised, Reading

(* Nothing is promised that was not before, unless to somebody overdue.    *)
LEMMA PromisedKept ==
    ASSUME TypeOK, SettledLeftAlone, UNCHANGED <<today, rows>>,
           \A send \in Promised' : send \in Promised \/ Overdue(send.to),
           \A send \in Promised' : send \in lapsed => send \in lapsed'
    PROVE  SettledLeftAlone'
BY DEF SettledLeftAlone, Promised, Overdue

LEMMA SettledStep ==
    TypeOK /\ StartInv /\ SettledLeftAlone /\ [Next]_vars => SettledLeftAlone'
<1> SUFFICES ASSUME TypeOK, StartInv, SettledLeftAlone, [Next]_vars
             PROVE SettledLeftAlone'
  OBVIOUS
<1>0. TypeOK'
  BY TypeStep
<1>1. ASSUME UNCHANGED <<queue, run>>
      PROVE  Promised' = Promised
  BY <1>1 DEF Promised, Reading, Selected
<1>2. ASSUME UNCHANGED <<today, rows, queue, lapsed>>, NEW id \in Ids,
             \A i \in Ids \ {id} : run'[i] = run[i],
             run'[id].stage = "read" => run'[id].answer = {} \/ run'[id].answer = Answered
      PROVE  SettledLeftAlone'
  <2>1. ASSUME NEW send \in Promised' PROVE send \in Promised \/ Overdue(send.to)
    <3>1. CASE send \in queue
      BY <3>1 DEF Promised
    <3>2. ASSUME NEW i \in Ids, run'[i].stage = "read", send \in Selected(i)'
          PROVE  send \in Promised \/ Overdue(send.to)
      <4>1. CASE i = id
        <5>1. PICK s \in run'[i].answer : send = [id |-> i, start |-> run'[i].starts, to |-> s]
          BY <3>2 DEF Selected
        <5>2. s \in Answered
          BY <1>2, <3>2, <4>1, <5>1
        <5> QED
          BY <5>1, <5>2, AnsweredOverdue
      <4>2. CASE i # id
        <5>1. run'[i] = run[i]
          BY <1>2, <4>2
        <5>2. run[i].stage = "read" /\ send \in Selected(i)
          BY <3>2, <5>1 DEF Selected
        <5> QED
          BY <5>2, PromisedType
      <4> QED
        BY <4>1, <4>2
    <3> QED
      BY <1>0, <1>2, <3>1, <3>2 DEF Promised, Reading
  <2> QED
    BY <1>2, <2>1, PromisedKept
<1>3. CASE Midnight
  <2>1. ASSUME NEW s \in Students, Overdue(s) PROVE Overdue(s)'
    <3>1. /\ rows[s] \in Row /\ today \in Day /\ today + 1 \in Day
          /\ today <= today + 1
      BY IdType, <2>1 DEF TypeOK, Day
    <3>2. SqlStatus(rows[s], today + 1) = "Overdue"
      BY <2>1, <3>1, OverdueStays DEF Overdue
    <3> QED
      BY <1>3, <3>2 DEF Midnight, Overdue
  <2>2. \A send \in Promised : send.to \in Students
    BY PromisedType DEF Sends
  <2>3. Promised' = Promised /\ lapsed' = lapsed
    BY <1>1, <1>3 DEF Midnight
  <2> QED
    BY <2>1, <2>2, <2>3 DEF SettledLeftAlone, Promised
<1>4. ASSUME NEW s \in Students, Settle(s) PROVE SettledLeftAlone'
  <2>1. \A t \in Students \ {s} : Overdue(t) => Overdue(t)'
    BY <1>4 DEF Settle, Overdue, TypeOK
  <2>2. \A send \in Promised : send.to \in Students
    BY PromisedType DEF Sends
  <2>3. Promised' = Promised
    BY <1>1, <1>4 DEF Settle
  <2>4. lapsed' = lapsed \cup {send \in Promised : send.to = s}
    BY <1>4 DEF Settle, Promised
  <2> QED
    BY <2>1, <2>2, <2>3, <2>4 DEF SettledLeftAlone, Promised
<1>5. ASSUME NEW id \in Ids, NEW raises, StartNew(id, raises),
             UNCHANGED <<today, rows, queue, lapsed>>
      PROVE  SettledLeftAlone'
  <2>1. CASE UNCHANGED run
    <3>1. Promised' = Promised
      BY <1>1, <1>5, <2>1
    <3> QED
      BY <1>5, <3>1 DEF SettledLeftAlone, Promised, Overdue
  <2>2. CASE Create(id)
    BY <1>2, <1>5, <2>2, CreateEffect
  <2> QED
    BY <1>5, <2>1, <2>2 DEF StartNew
<1>6. CASE TimerStarts
  <2>1. timer.id \in Ids
    BY DEF TypeOK
  <2> QED
    BY <1>5, <1>6, <2>1 DEF TimerStarts
<1>7. ASSUME NEW p \in Requests, RequestStarts(p) PROVE SettledLeftAlone'
  <2>1. request[p].id \in Ids
    BY <1>7 DEF TypeOK
  <2> QED
    BY <1>5, <1>7, <2>1 DEF RequestStarts
<1>8. ASSUME NEW id \in Ids, Query(id) \/ Complete(id) \/ RunFails(id)
      PROVE  SettledLeftAlone'
  <2>1. UNCHANGED <<today, rows, queue, lapsed>>
    BY <1>8 DEF Query, Complete, RunFails
  <2> QED
    BY <1>2, <1>8, <2>1, QueryEffect, EndEffect
<1>9. ASSUME NEW id \in Ids, FanOut(id) PROVE SettledLeftAlone'
  <2>1. /\ UNCHANGED <<today, rows, lapsed>> /\ queue' = queue \cup Selected(id)
        /\ run[id].stage = "read"
    BY <1>9 DEF FanOut
  <2>2. run'[id].stage = "sending" /\ \A i \in Ids \ {id} : run'[i] = run[i]
    BY <1>9, FanOutEffect
  <2>3. ASSUME NEW send \in Promised' PROVE send \in Promised
    <3>1. CASE send \in queue'
      BY <2>1, <3>1, <1>9, PromisedType
    <3>2. ASSUME NEW i \in Ids, run'[i].stage = "read", send \in Selected(i)'
          PROVE  send \in Promised
      <4>1. run'[i] = run[i]
        BY <2>2, <3>2
      <4>2. run[i].stage = "read" /\ send \in Selected(i)
        BY <3>2, <4>1 DEF Selected
      <4> QED
        BY <4>2, PromisedType
    <3> QED
      BY <3>1, <3>2 DEF Promised, Reading
  <2> QED
    BY <2>1, <2>3, PromisedKept
<1>10. ASSUME NEW send \in queue, Send(send) PROVE SettledLeftAlone'
  <2>1. /\ UNCHANGED <<today, rows, run>> /\ queue' = queue \ {send}
        /\ lapsed' = lapsed \ {send}
    BY <1>10 DEF Send
  <2>2. ASSUME NEW i \in Ids, run[i].stage = "read" PROVE send \notin Selected(i)
    <3>1. send.id = i => send.start < run[i].starts
      BY <2>2 DEF StartInv
    <3>2. send.start \in Nat /\ run[i].starts \in Nat
      BY DEF TypeOK, Sends
    <3> QED
      BY <3>1, <3>2, SelectedType
  <2>3. ASSUME NEW other \in Promised' PROVE other \in Promised \ {send}
    <3>1. CASE other \in queue'
      BY <2>1, <3>1, PromisedType
    <3>2. ASSUME NEW i \in Ids, run[i].stage = "read", other \in Selected(i)
          PROVE  other \in Promised \ {send}
      BY <2>2, <3>2, PromisedType
    <3>3. other \in queue' \/ \E i \in Ids : run[i].stage = "read" /\ other \in Selected(i)
      BY <2>1 DEF Promised, Reading, Selected
    <3> QED
      BY <3>1, <3>2, <3>3
  <2> QED
    BY <2>1, <2>3, PromisedKept
<1>11. CASE UNCHANGED <<today, rows, run, queue, lapsed>>
  <2>1. Promised' = Promised
    BY <1>1, <1>11
  <2> QED
    BY <1>11, <2>1 DEF SettledLeftAlone, Promised, Overdue
<1> QED
  BY <1>3, <1>4, <1>6, <1>7, <1>8, <1>9, <1>10, <1>11
     DEF Next, Timer, TimerFires, TimerEnds, TimerDies, Receive, Run, Terminated, vars

(* A student who has paid or been given more time is reminded only by runs *)
(* whose query had already answered with that student then                 *)
(* (activities.py:33, students_repository.py:268-274).                     *)
THEOREM SettledAreLeftAlone == Spec => []SettledLeftAlone
<1>1. Init => SettledLeftAlone /\ StartInv
  BY DEF Init, SettledLeftAlone, Reading, StartInv
<1> QED
  BY <1>1, InitType, TypeStep, StartStep, SettledStep, PTL DEF Spec
=============================================================================
