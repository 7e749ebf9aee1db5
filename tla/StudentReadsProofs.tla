------------------------- MODULE StudentReadsProofs -------------------------
(***************************************************************************)
(* Proofs about StudentReads for every finite set of students, every seed, *)
(* every set of callers, queries and edits, and every clock.               *)
(*                                                                         *)
(* The inductive invariant is TypeOK /\ IInv.  A request in flight knows   *)
(* what it has read (Progressing); what it has answered stays true         *)
(* (Answered).  That an answer "Overdue" is never taken back holds for a   *)
(* process whose time zone is UTC, Offset = 0, and is proved from that     *)
(* assumption alone, with an invariant of its own (NeverBack).             *)
(***************************************************************************)
EXTENDS StudentReads, FeeRulesProofs, FiniteSetTheorems, TLAPS

InAll(p) == {s \in Students : InCourse(s, call[p].query)}

(* What the caller of a record read may see.                               *)
MaySee(p, id, version) ==
    \/ IsAdministrator(call[p].caller)
    \/ /\ id = Id(p)
       /\ call[p].caller.oid # None
       /\ <<id, version, call[p].caller.oid>> \in links

(* What a request in flight has established.                               *)
Progressing(p) ==
    /\ pc[p] # "done" => reply[p] = None
    /\ pc[p] \in {"query", "render"} => call[p].endpoint # "list"
    /\ pc[p] \in {"count", "page"} =>
          call[p].endpoint = "list" /\ IsAdministrator(call[p].caller)
    /\ pc[p] = "render" =>
          Found(p) /\ seen[p] \in Row /\ MaySee(p, Id(p), seen[p].version)
    /\ pc[p] = "page" /\ call[p].query.status = None => count[p] = Cardinality(InAll(p))

(* What it has answered: the four properties, for one request.             *)
Answered(p) ==
    /\ \A v \in Shown(p) : MaySee(p, v.id, v.row.version)
    /\ reply[p] # None /\ reply[p].code = "STUDENT_NOT_FOUND" =>
          IsAdministrator(call[p].caller)
    /\ \A v \in Shown(p) : call[p].endpoint = "details" =>
          /\ (v.status = "Paid") <=> (v.due = 0)
          /\ v.due >= 0
          /\ (v.status = "Overdue") <=> (v.days # None)
          /\ v.days # None => v.days >= 1
    /\ reply[p] # None /\ reply[p].code = "OK"
       /\ call[p].endpoint = "list" /\ call[p].query.status = None =>
          /\ reply[p].total = Cardinality(InAll(p))
          /\ {v.id : v \in Shown(p)} = Page(InAll(p), call[p].query.page)

(* Every request has an entry in each table of the model.                  *)
Shape ==
    /\ DOMAIN call = Readers /\ DOMAIN seen = Readers
    /\ DOMAIN reply = Readers /\ DOMAIN before = Readers

(* The history of links names every row as it is.                          *)
LinksCurrent == \A s \in Students : <<s, rows[s].version, owner[s]>> \in links

IInv ==
    /\ Shape
    /\ LinksCurrent
    /\ \A p \in Readers : Progressing(p) /\ Answered(p)

(* In UTC, a row that was answered as overdue is overdue, in the table and *)
(* in the memory of every request that has read it; two requests that have *)
(* read one version of a row have read the same row.                       *)
RowsKept ==
    /\ \A e \in overdue : e[1] \in Students /\ e[2] \in Nat /\ e[2] <= rows[e[1]].version
    /\ \A s \in Students : <<s, rows[s].version>> \in overdue =>
          SqlStatus(rows[s], UtcToday) = "Overdue"

SeenKept ==
    /\ \A p \in Readers : pc[p] = "render" =>
          /\ Found(p) /\ seen[p] \in Row
          /\ seen[p].version <= rows[Id(p)].version
          /\ seen[p].version = rows[Id(p)].version => seen[p] = rows[Id(p)]
          /\ <<Id(p), seen[p].version>> \in overdue => SqlStatus(seen[p], UtcToday) = "Overdue"
    /\ \A p, r \in Readers :
          /\ pc[p] = "render" /\ pc[r] = "render" /\ Id(p) = Id(r)
          /\ seen[p].version = seen[r].version
          => seen[p] = seen[r]

NeverBack ==
    /\ RowsKept /\ SeenKept
    /\ \A p \in Readers : before[p] \subseteq overdue
    /\ StatusNeverGoesBack
-----------------------------------------------------------------------------
(* Days are whole numbers, and do not go back while the clock runs.        *)
LEMMA DayType ==
    ASSUME NEW t \in Int
    PROVE  t \div TicksPerDay \in Int
BY ClockAssumption

LEMMA DaysGrow ==
    ASSUME NEW t \in Int, NEW u \in Int, t <= u
    PROVE  t \div TicksPerDay <= u \div TicksPerDay
<1> DEFINE d == TicksPerDay
           q == t \div d
           r == u \div d
<1>1. d \in Nat \ {0} /\ q \in Int /\ r \in Int
  BY ClockAssumption
<1>2. d * q <= t /\ u < d * (r + 1)
  BY <1>1, Z3
<1>3. d * q < d * (r + 1)
  <2> HIDE DEF q, r
  <2>1. d * q \in Int /\ d * (r + 1) \in Int
    BY <1>1
  <2> QED
    BY <1>2, <2>1
<1>4. q < r + 1
  <2> HIDE DEF q, r
  <2>1. SUFFICES ASSUME r + 1 <= q PROVE FALSE
    BY <1>1
  <2>2. \A m \in Nat : d * m \in Nat
    BY <1>1
  <2>3. PICK k \in Nat : q = r + 1 + k
    BY <1>1, <2>1
  <2>4. d * q = d * (r + 1) + d * k
    BY <1>1, <2>3
  <2> QED
    BY <1>1, <1>3, <2>2, <2>4
<1> QED
  BY <1>1, <1>4

LEMMA TodayType ==
    ASSUME TypeOK
    PROVE  UtcToday \in Day /\ Today \in Day
BY DayType, ClockAssumption, LimitsAssumption DEF TypeOK, UtcToday, Today, Day

(* A count of a set of students is a number.                               *)
LEMMA CountType ==
    ASSUME NEW S \in SUBSET Students
    PROVE  Cardinality(S) \in Nat
BY StudentsAssumption, FS_Subset, FS_CardinalityType

(* Every exception of a read has a code, which is not that of a missing    *)
(* student.                                                                *)
LEMMA ReadCodes ==
    /\ \A exc \in ConnectFailures : MapException(exc) \in Codes \ {"STUDENT_NOT_FOUND", "OK"}
    /\ \A code \in EarlyRefusals \cup {MapException("ValueError")} :
          code \in Codes \ {"STUDENT_NOT_FOUND", "OK"}
    /\ "FORBIDDEN" \in Codes /\ "STUDENT_NOT_FOUND" \in Codes
BY DEF ConnectFailures, StatementFailures, MapException, Codes, Exceptions, EarlyRefusals
-----------------------------------------------------------------------------
(* A step of one request leaves the others and the table alone.            *)
Own(p) ==
    /\ Shape'
    /\ \A r \in Readers \ {p} :
          /\ pc'[r] = pc[r] /\ call'[r] = call[r] /\ attempt'[r] = attempt[r]
          /\ seen'[r] = seen[r] /\ count'[r] = count[r] /\ reply'[r] = reply[r]
          /\ before'[r] = before[r]
    /\ UNCHANGED <<tick, rows, owner, changes, links>>

OverdueIn(views) == {<<v.id, v.row.version>> : v \in {w \in views : w.status = "Overdue"}}

LEMMA AnswerEffect ==
    ASSUME TypeOK, Shape, NEW p \in Readers, NEW code, NEW views, NEW total,
           Answer(p, code, views, total)
    PROVE  /\ Own(p)
           /\ pc' = [pc EXCEPT ![p] = "done"]
           /\ call'[p] = call[p] /\ before'[p] = before[p] /\ attempt' = attempt
           /\ count' = [count EXCEPT ![p] = 0]
           /\ reply'[p] = [code |-> code, views |-> views, total |-> total]
           /\ overdue' = overdue \cup OverdueIn(views)
BY DEF Answer, Own, OverdueIn, Shape, TypeOK, env

(* A request that reaches an administrator's or a student's endpoint.      *)
LEMMA ReceiveEffect ==
    ASSUME TypeOK, Shape, NEW p \in Readers, Receive(p)
    PROVE  /\ Own(p) /\ overdue' = overdue
           /\ pc[p] = "idle"
           /\ attempt' = attempt /\ count' = count
           /\ reply'[p] = reply[p] /\ before'[p] = overdue
           /\ \/ /\ pc' = [pc EXCEPT ![p] = "count"]
                 /\ call'[p].endpoint = "list" /\ IsAdministrator(call'[p].caller)
              \/ /\ pc' = [pc EXCEPT ![p] = "query"]
                 /\ call'[p].endpoint # "list"
<1>1. PICK caller \in Callers, endpoint \in Endpoints :
         /\ caller.roles \cap RolesFor(endpoint) # {}
         /\ IF endpoint = "list"
            THEN \E q \in Queries :
                    /\ call' = [call EXCEPT ![p] =
                           [caller |-> caller, endpoint |-> endpoint, id |-> None, query |-> q]]
                    /\ pc' = [pc EXCEPT ![p] = "count"]
            ELSE \E id \in Ids :
                    /\ call' = [call EXCEPT ![p] =
                           [caller |-> caller, endpoint |-> endpoint, id |-> id, query |-> None]]
                    /\ pc' = [pc EXCEPT ![p] = "query"]
  BY DEF Receive
<1>2. PICK c :
         /\ call' = [call EXCEPT ![p] = c]
         /\ \/ /\ pc' = [pc EXCEPT ![p] = "count"]
               /\ c.endpoint = "list" /\ IsAdministrator(c.caller)
            \/ pc' = [pc EXCEPT ![p] = "query"] /\ c.endpoint # "list"
  <2>1. CASE endpoint = "list"
    <3>1. IsAdministrator(caller)
      BY <1>1, <2>1 DEF RolesFor, IsAdministrator
    <3>2. PICK q \in Queries :
             /\ call' = [call EXCEPT ![p] =
                    [caller |-> caller, endpoint |-> endpoint, id |-> None, query |-> q]]
             /\ pc' = [pc EXCEPT ![p] = "count"]
      BY <1>1, <2>1
    <3> DEFINE c == [caller |-> caller, endpoint |-> endpoint, id |-> None, query |-> q]
    <3>3. c.endpoint = "list" /\ c.caller = caller
      BY <2>1
    <3> QED
      BY <3>1, <3>2, <3>3
  <2>2. CASE endpoint # "list"
    <3>1. PICK id \in Ids :
             /\ call' = [call EXCEPT ![p] =
                    [caller |-> caller, endpoint |-> endpoint, id |-> id, query |-> None]]
             /\ pc' = [pc EXCEPT ![p] = "query"]
      BY <1>1, <2>2
    <3> DEFINE c == [caller |-> caller, endpoint |-> endpoint, id |-> id, query |-> None]
    <3>2. c.endpoint # "list"
      BY <2>2
    <3> QED
      BY <3>1, <3>2
  <2> QED
    BY <2>1, <2>2
<1>3. /\ UNCHANGED <<tick, rows, owner, changes, links, attempt, seen, count, reply, overdue>>
      /\ before' = [before EXCEPT ![p] = overdue] /\ pc[p] = "idle"
  BY DEF Receive, env
<1> QED
  BY <1>2, <1>3 DEF Own, Shape, TypeOK

LEMMA FailsEffect ==
    ASSUME TypeOK, Shape, NEW p \in Readers, Fails(p)
    PROVE  \/ \E code \in Codes \ {"STUDENT_NOT_FOUND", "OK"} : Refuse(p, code)
           \/ /\ Own(p) /\ overdue' = overdue
              /\ attempt' \in [Readers -> 0 .. MaxAttempts - 1]
              /\ \/ pc[p] = "query" /\ pc' = [pc EXCEPT ![p] = "query"]
                 \/ pc[p] \in {"count", "page"} /\ pc' = [pc EXCEPT ![p] = "count"]
              /\ count' = [count EXCEPT ![p] = 0]
              /\ call' = call /\ reply' = reply /\ before' = before
<1>1. PICK exc \in ConnectFailures :
         IF exc \in Transient /\ AttemptsLeft(p)
         THEN /\ attempt' = [attempt EXCEPT ![p] = @ + 1]
              /\ pc' = [pc EXCEPT ![p] = IF @ = "query" THEN "query" ELSE "count"]
              /\ count' = [count EXCEPT ![p] = 0]
              /\ UNCHANGED <<env, call, seen, reply, overdue, before>>
         ELSE Refuse(p, MapException(exc))
  BY DEF Fails
<1>2. CASE exc \in Transient /\ AttemptsLeft(p)
  <2>1. attempt' \in [Readers -> 0 .. MaxAttempts - 1]
    BY <1>1, <1>2, LimitsAssumption DEF TypeOK, AttemptsLeft
  <2>2. \/ pc[p] = "query" /\ pc' = [pc EXCEPT ![p] = "query"]
        \/ pc[p] \in {"count", "page"} /\ pc' = [pc EXCEPT ![p] = "count"]
    BY <1>1, <1>2 DEF Fails, TypeOK
  <2>3. Own(p)
    BY <1>1, <1>2 DEF Own, Shape, TypeOK, env
  <2> QED
    BY <1>1, <1>2, <2>1, <2>2, <2>3
<1>3. CASE ~(exc \in Transient /\ AttemptsLeft(p))
  BY <1>1, <1>3, ReadCodes
<1> QED
  BY <1>2, <1>3
-----------------------------------------------------------------------------
(* What is shown has the type of a view.                                   *)
LEMMA RecordViewType ==
    ASSUME TypeOK, IInv, NEW p \in Readers, pc[p] = "render"
    PROVE  /\ RecordView(p) \in View
           /\ RecordView(p).id = Id(p) /\ RecordView(p).row = seen[p]
           /\ RecordView(p).status = SqlStatus(seen[p], Today)
<1> DEFINE row == seen[p]
           status == compute_payment_status(row.total, row.paid, row.due, Today)
<1>1. row \in Row /\ Id(p) \in Students /\ Today \in Day
  BY TodayType DEF IInv, Progressing, Found
<1>2. row.total \in Amount /\ row.paid \in Amount /\ row.due \in Day
  BY <1>1 DEF Row
<1>3. /\ status \in PaymentStatus
      /\ compute_due_amount(row.total, row.paid) \in Amount
      /\ compute_days_overdue(row.due, status, Today) \in Day \cup {None}
  <2>1. status \in PaymentStatus
    BY DEF compute_payment_status, PaymentStatus
  <2>2. compute_due_amount(row.total, row.paid) \in Amount
    BY <1>2 DEF compute_due_amount, Amount
  <2>3. compute_days_overdue(row.due, status, Today) \in Day \cup {None}
    BY <1>1, <1>2 DEF compute_days_overdue, Day
  <2> QED
    BY <2>1, <2>2, <2>3
<1>4. status = SqlStatus(row, Today)
  BY <1>1, StatusesAgree
<1> QED
  BY <1>1, <1>3, <1>4 DEF RecordView, View

LEMMA ListViewType ==
    ASSUME TypeOK, NEW s \in Students
    PROVE  ListView(s) \in View
<1>1. rows[s] \in Row /\ SqlStatus(rows[s], UtcToday) \in PaymentStatus
  BY DEF TypeOK, SqlStatus, PaymentStatus
<1> QED
  BY <1>1 DEF ListView, View

(* Type correctness of each kind of step.                                  *)
LEMMA AnswerType ==
    ASSUME TypeOK, Shape, NEW p \in Readers, NEW code \in Codes \cup {"OK"},
           NEW views \in SUBSET View, NEW total, Answer(p, code, views, total)
    PROVE  TypeOK'
<1>1. /\ Own(p)
      /\ pc' = [pc EXCEPT ![p] = "done"] /\ attempt' = attempt
      /\ count' = [count EXCEPT ![p] = 0]
      /\ reply'[p] = [code |-> code, views |-> views, total |-> total]
  BY AnswerEffect
<1>2. UNCHANGED <<tick, rows, owner, changes>>
  BY <1>1 DEF Own
<1>3. \A r \in Readers : reply'[r] # None =>
         /\ reply'[r].code \in Codes \cup {"OK"}
         /\ \A v \in reply'[r].views : v \in View
  BY <1>1 DEF Own, TypeOK
<1> QED
  BY <1>1, <1>2, <1>3 DEF TypeOK

LEMMA InitType == Init => TypeOK
BY TableAssumption, LimitsAssumption DEF Init, TypeOK

LEMMA ReaderType ==
    ASSUME TypeOK, IInv, NEW p \in Readers, Receive(p) \/ Reject(p) \/ Progress(p) \/ Fails(p)
    PROVE  TypeOK'
<1>0. Shape /\ \A r \in Readers : reply[r] # None =>
         reply[r].code \in Codes \cup {"OK"} /\ \A v \in reply[r].views : v \in View
  BY DEF IInv, TypeOK
<1>1. CASE Receive(p)
  BY <1>0, <1>1, ReceiveEffect DEF Own, TypeOK
<1>2. CASE Reject(p)
  BY <1>0, <1>2, AnswerType, ReadCodes DEF Reject, Refuse
<1>3. CASE QueryForbidden(p) \/ QueryMissing(p)
  BY <1>0, <1>3, AnswerType, ReadCodes DEF QueryForbidden, QueryMissing, Refuse
<1>4. CASE QueryFound(p)
  BY <1>4 DEF QueryFound, TypeOK, env
<1>5. CASE Render(p)
  BY <1>0, <1>5, AnswerType, RecordViewType DEF Render
<1>6. CASE ListCount(p)
  <2>1. TotalCount(call[p].query) \in Nat
    BY CountType DEF TotalCount, Matching
  <2> QED
    BY <1>6, <2>1 DEF ListCount, TypeOK, env
<1>7. CASE ListPage(p)
  <2>1. {ListView(s) : s \in Page(Matching(call[p].query), call[p].query.page)} \in SUBSET View
    BY ListViewType DEF Page, Matching
  <2> QED
    BY <1>0, <1>7, <2>1, AnswerType DEF ListPage
<1>8. CASE Fails(p)
  <2>1. CASE \E code \in Codes : Refuse(p, code)
    BY <1>0, <2>1, AnswerType DEF Refuse
  <2>2. CASE /\ Own(p)
             /\ attempt' \in [Readers -> 0 .. MaxAttempts - 1]
             /\ \/ pc' = [pc EXCEPT ![p] = "query"]
                \/ pc' = [pc EXCEPT ![p] = "count"]
             /\ count' = [count EXCEPT ![p] = 0] /\ reply' = reply
    BY <1>0, <2>2 DEF Own, TypeOK
  <2> QED
    BY <1>0, <1>8, <2>1, <2>2, FailsEffect
<1> QED
  BY <1>1, <1>2, <1>3, <1>4, <1>5, <1>6, <1>7, <1>8 DEF Progress

(* The table: an update or a relink leaves a row of a later version.       *)
Changed(s) ==
    /\ rows' \in [Students -> Row]
    /\ rows'[s].version = rows[s].version + 2
    /\ \A t \in Students \ {s} : rows'[t] = rows[t] /\ owner'[t] = owner[t]
    /\ owner' \in [Students -> Oids \cup {None}]
    /\ links' = links \cup {<<s, rows'[s].version, owner'[s]>>}
    /\ changes' \in 0 .. MaxChanges
    /\ UNCHANGED <<tick, pc, call, attempt, seen, count, reply, overdue, before>>

LEMMA ChangeEffect ==
    ASSUME TypeOK, NEW s \in Students, Edit(s) \/ Relink(s)
    PROVE  Changed(s)
<1>1. changes' \in 0 .. MaxChanges
  BY LimitsAssumption DEF Edit, Relink, TypeOK
<1>2. \A e \in Row : [e EXCEPT !.version = rows[s].version + 2] \in Row
  BY DEF TypeOK, Row
<1>3. CASE Edit(s)
  <2>1. PICK e \in Edits : rows' = [rows EXCEPT ![s] = [e EXCEPT !.version = rows[s].version + 2]]
    BY <1>3 DEF Edit
  <2>2. e \in Row
    BY TableAssumption
  <2>3. /\ rows' \in [Students -> Row] /\ rows'[s].version = rows[s].version + 2
        /\ \A t \in Students \ {s} : rows'[t] = rows[t]
    BY <1>2, <2>1, <2>2 DEF TypeOK, Row
  <2> QED
    BY <1>1, <1>3, <2>3 DEF Edit, Changed, TypeOK
<1>4. CASE Relink(s)
  <2>1. /\ rows' \in [Students -> Row] /\ rows'[s].version = rows[s].version + 2
        /\ \A t \in Students \ {s} : rows'[t] = rows[t]
    BY <1>4 DEF Relink, TypeOK, Row
  <2> QED
    BY <1>1, <1>4, <2>1 DEF Relink, Changed, TypeOK
<1> QED
  BY <1>3, <1>4

LEMMA TypeStep == TypeOK /\ IInv /\ [Next]_vars => TypeOK'
<1> SUFFICES ASSUME TypeOK, IInv, [Next]_vars PROVE TypeOK'
  OBVIOUS
<1>1. ASSUME NEW s \in Students, Edit(s) \/ Relink(s) PROVE TypeOK'
  BY <1>1, ChangeEffect DEF Changed, TypeOK
<1>2. CASE Tick
  BY <1>2, LimitsAssumption DEF Tick, TypeOK
<1>3. CASE UNCHANGED vars
  BY <1>3 DEF vars, TypeOK
<1> QED
  BY <1>1, <1>2, <1>3, ReaderType DEF Next, Terminated
-----------------------------------------------------------------------------
(* A step of one request keeps what the others know and have answered.     *)
LEMMA OtherRequests ==
    ASSUME NEW p \in Readers, NEW r \in Readers \ {p}, Own(p), Progressing(r), Answered(r)
    PROVE  Progressing(r)' /\ Answered(r)'
<1>1. /\ pc'[r] = pc[r] /\ call'[r] = call[r] /\ seen'[r] = seen[r]
      /\ count'[r] = count[r] /\ reply'[r] = reply[r] /\ links' = links
  BY DEF Own
<1>2. Progressing(r)'
  BY <1>1 DEF Progressing, MaySee, Found, Id, InAll
<1>3. Answered(r)'
  BY <1>1 DEF Answered, Shown, MaySee, Id, InAll
<1> QED
  BY <1>2, <1>3

(* A refusal shows nothing; it says a student is missing to administrators *)
(* only.                                                                   *)
LEMMA RefuseKeeps ==
    ASSUME TypeOK, IInv, NEW p \in Readers, NEW code, Refuse(p, code), code # "OK",
           code = "STUDENT_NOT_FOUND" => IsAdministrator(call[p].caller)
    PROVE  Own(p) /\ Progressing(p)' /\ Answered(p)'
<1>1. /\ Own(p) /\ pc'[p] = "done" /\ call'[p] = call[p]
      /\ reply'[p] = [code |-> code, views |-> {}, total |-> 0]
  <2>1. Shape /\ Answer(p, code, {}, 0) /\ pc \in [Readers -> {"idle", "query", "render", "count", "page", "done"}]
    BY DEF Refuse, IInv, TypeOK
  <2>2. /\ Own(p) /\ pc' = [pc EXCEPT ![p] = "done"] /\ call'[p] = call[p]
        /\ reply'[p] = [code |-> code, views |-> {}, total |-> 0]
    BY <2>1, AnswerEffect
  <2> QED
    BY <2>1, <2>2
<1>2. Shown(p)' = {} /\ reply'[p].code = code
  BY <1>1 DEF Shown
<1> QED
  BY <1>1, <1>2 DEF Progressing, Answered

(* The answer to a record read shows what was authorized when it was read. *)
LEMMA RenderKeeps ==
    ASSUME TypeOK, IInv, NEW p \in Readers, Render(p)
    PROVE  Own(p) /\ Progressing(p)' /\ Answered(p)'
<1>0. PICK v : v = RecordView(p)
  OBVIOUS
<1>1. /\ Own(p) /\ pc'[p] = "done" /\ call'[p] = call[p]
      /\ reply'[p] = [code |-> "OK", views |-> {v}, total |-> 1]
  BY <1>0, AnswerEffect DEF Render, IInv, TypeOK
<1>2. \A w \in Shown(p)' : w = v
  BY <1>1 DEF Shown
<1>3. pc[p] = "render" /\ call[p].endpoint # "list" /\ seen[p] \in Row
  BY DEF Render, IInv, Progressing
<1>4. /\ v.id = Id(p) /\ v.row = seen[p]
      /\ MaySee(p, v.id, v.row.version)
  BY <1>0, <1>3, RecordViewType DEF IInv, Progressing
<1>5. call[p].endpoint = "details" =>
         /\ (v.status = "Paid") <=> (v.due = 0)
         /\ v.due >= 0
         /\ (v.status = "Overdue") <=> (v.days # None)
         /\ v.days # None => v.days >= 1
  <2>1. /\ seen[p].total \in Amount /\ seen[p].paid \in Amount
        /\ seen[p].due \in Day /\ Today \in Day
    BY <1>3, TodayType DEF Row
  <2> QED
    BY <1>0, <2>1, DetailsAgree DEF RecordView, Amount
<1>6. MaySee(p, v.id, v.row.version)'
  <2>1. links' = links
    BY <1>1 DEF Own
  <2> QED
    BY <1>1, <1>4, <2>1 DEF MaySee, Id
<1> QED
  BY <1>1, <1>2, <1>3, <1>5, <1>6 DEF Progressing, Answered

(* A page shows the students of the list the count was taken of: without a *)
(* status filter both statements see the same students.                    *)
LEMMA PageKeeps ==
    ASSUME TypeOK, IInv, NEW p \in Readers, ListPage(p)
    PROVE  Own(p) /\ Progressing(p)' /\ Answered(p)'
<1>0. PICK q, views : q = call[p].query /\ views = {ListView(s) : s \in Page(Matching(q), q.page)}
  OBVIOUS
<1>1. /\ Own(p) /\ pc'[p] = "done" /\ call'[p] = call[p]
      /\ reply'[p] = [code |-> "OK", views |-> views, total |-> count[p]]
  BY <1>0, AnswerEffect DEF ListPage, IInv, TypeOK
<1>2. call[p].endpoint = "list" /\ IsAdministrator(call[p].caller)
  BY DEF ListPage, IInv, Progressing
<1>3. q.status = None => Matching(q) = InAll(p)
  BY <1>0 DEF Matching, InAll
<1>4. {v.id : v \in views} = Page(Matching(q), q.page)
  <2>1. \A s \in Students : ListView(s).id = s
    BY DEF ListView
  <2>2. \A s \in Page(Matching(q), q.page) : s \in Students
    BY DEF Page, Matching
  <2> HIDE DEF Page
  <2> QED
    BY <1>0, <2>1, <2>2
<1>5. q.status = None => count[p] = Cardinality(InAll(p))
  BY <1>0 DEF ListPage, IInv, Progressing
<1>6. Answered(p)'
  <2>1. InAll(p)' = InAll(p) /\ call'[p].query = q
    BY <1>0, <1>1 DEF InAll
  <2>2. \A v \in Shown(p)' : MaySee(p, v.id, v.row.version)'
    BY <1>1, <1>2 DEF MaySee
  <2>3. reply'[p] # None => Shown(p)' = views
    BY <1>1 DEF Shown
  <2> QED
    BY <1>0, <1>1, <1>2, <1>3, <1>4, <1>5, <2>1, <2>2, <2>3 DEF Answered
<1> QED
  BY <1>1, <1>6 DEF Progressing

(* The first statement of a list counts what matches.                      *)
LEMMA CountKeeps ==
    ASSUME TypeOK, IInv, NEW p \in Readers, ListCount(p)
    PROVE  Own(p) /\ Progressing(p)' /\ Answered(p)'
<1>1. /\ Own(p) /\ pc'[p] = "page" /\ call' = call /\ reply' = reply
      /\ count'[p] = TotalCount(call[p].query) /\ links' = links
  BY DEF ListCount, IInv, Own, Shape, TypeOK, env
<1>2. call[p].endpoint = "list" /\ IsAdministrator(call[p].caller) /\ reply[p] = None
  BY DEF ListCount, IInv, Progressing
<1>3. call[p].query.status = None => TotalCount(call[p].query) = Cardinality(InAll(p))
  BY DEF TotalCount, Matching, InAll
<1> QED
  BY <1>1, <1>2, <1>3 DEF Progressing, Answered, Shown, InAll

(* A record read authorizes the caller on the row it has just read.        *)
LEMMA QueryKeeps ==
    ASSUME TypeOK, IInv, NEW p \in Readers, QueryFound(p)
    PROVE  Own(p) /\ Progressing(p)' /\ Answered(p)'
<1>1. /\ Own(p) /\ pc'[p] = "render" /\ call' = call /\ reply' = reply
      /\ seen'[p] = rows[Id(p)] /\ links' = links
  BY DEF QueryFound, IInv, Own, Shape, TypeOK, env
<1>2. /\ call[p].endpoint # "list" /\ reply[p] = None
      /\ Found(p) /\ rows[Id(p)] \in Row
  BY DEF QueryFound, IInv, Progressing, Found, TypeOK
<1>3. MaySee(p, Id(p), rows[Id(p)].version)
  BY <1>2 DEF QueryFound, Authorized, Owns, MaySee, IInv, LinksCurrent, Found
<1> QED
  BY <1>1, <1>2, <1>3 DEF Progressing, Answered, Shown, MaySee, Found, Id

(* What a step of a request establishes for the request itself.            *)
LEMMA OwnRequest ==
    ASSUME TypeOK, IInv, NEW p \in Readers, Receive(p) \/ Reject(p) \/ Progress(p) \/ Fails(p)
    PROVE  Own(p) /\ Progressing(p)' /\ Answered(p)'
<1>1. CASE Receive(p)
  <2>1. Shape /\ reply[p] = None
    BY <1>1 DEF Receive, IInv, Progressing
  <2> QED
    BY <1>1, <2>1, ReceiveEffect DEF Progressing, Answered, Shown, TypeOK
<1>2. CASE Reject(p)
  BY <1>2, RefuseKeeps, ReadCodes DEF Reject
<1>3. CASE QueryForbidden(p)
  BY <1>3, RefuseKeeps DEF QueryForbidden
<1>4. CASE QueryMissing(p)
  BY <1>4, RefuseKeeps DEF QueryMissing, Authorized
<1>5. CASE Fails(p)
  <2>1. CASE \E code \in Codes \ {"STUDENT_NOT_FOUND", "OK"} : Refuse(p, code)
    BY <2>1, RefuseKeeps
  <2>2. CASE /\ Own(p)
             /\ \/ pc[p] = "query" /\ pc' = [pc EXCEPT ![p] = "query"]
                \/ pc[p] \in {"count", "page"} /\ pc' = [pc EXCEPT ![p] = "count"]
             /\ call' = call /\ reply' = reply
    BY <2>2 DEF IInv, Progressing, Answered, Shown, TypeOK
  <2>3. Shape
    BY DEF IInv
  <2> QED
    BY <1>5, <2>1, <2>2, <2>3, FailsEffect
<1> QED
  BY <1>1, <1>2, <1>3, <1>4, <1>5, QueryKeeps, RenderKeeps, CountKeeps, PageKeeps DEF Progress

LEMMA InitInv == Init => IInv
BY DEF Init, IInv, Shape, LinksCurrent, Progressing, Answered, Shown

LEMMA StepInv == TypeOK /\ IInv /\ [Next]_vars => IInv'
<1> SUFFICES ASSUME TypeOK, IInv, [Next]_vars PROVE IInv'
  OBVIOUS
<1>1. ASSUME NEW p \in Readers, Receive(p) \/ Reject(p) \/ Progress(p) \/ Fails(p)
      PROVE  IInv'
  <2>1. Own(p) /\ Progressing(p)' /\ Answered(p)'
    BY <1>1, OwnRequest
  <2>2. \A r \in Readers : Progressing(r)' /\ Answered(r)'
    BY <2>1, OtherRequests DEF IInv
  <2>3. Shape' /\ LinksCurrent'
    BY <2>1 DEF Own, IInv, LinksCurrent
  <2> QED
    BY <2>2, <2>3 DEF IInv
<1>2. ASSUME UNCHANGED <<pc, call, seen, count, reply, before>>, links \subseteq links', LinksCurrent'
      PROVE  IInv'
  <2>1. ASSUME NEW p \in Readers PROVE Progressing(p)' /\ Answered(p)'
    <3>1. Progressing(p) /\ Answered(p)
      BY DEF IInv
    <3>2. Progressing(p)'
      BY <1>2, <3>1 DEF Progressing, MaySee, Found, Id, InAll
    <3>3. Answered(p)'
      BY <1>2, <3>1 DEF Answered, Shown, MaySee, Id, InAll
    <3> QED
      BY <3>2, <3>3
  <2>2. Shape'
    BY <1>2 DEF IInv, Shape
  <2> QED
    BY <1>2, <2>1, <2>2 DEF IInv
<1>3. ASSUME NEW s \in Students, Edit(s) \/ Relink(s) PROVE IInv'
  <2>1. Changed(s)
    BY <1>3, ChangeEffect
  <2>2. LinksCurrent'
    BY <2>1 DEF Changed, IInv, LinksCurrent
  <2> QED
    BY <1>2, <2>1, <2>2 DEF Changed
<1>4. CASE Tick
  BY <1>2, <1>4 DEF Tick, IInv, LinksCurrent
<1>5. CASE UNCHANGED vars
  BY <1>2, <1>5 DEF vars, IInv, LinksCurrent
<1> QED
  BY <1>1, <1>3, <1>4, <1>5 DEF Next, Terminated

LEMMA Inductive == Spec => [](TypeOK /\ IInv)
<1>1. Init => TypeOK /\ IInv
  BY InitType, InitInv
<1>2. TypeOK /\ IInv /\ [Next]_vars => (TypeOK /\ IInv)'
  BY TypeStep, StepInv
<1> QED
  BY <1>1, <1>2, PTL DEF Spec

(* Every state has the types TypeOK gives it.                              *)
THEOREM TypeCorrect == Spec => []TypeOK
BY Inductive, PTL

(* A student is shown the record asked for at most, as it was when it was  *)
(* linked to the caller's account, whatever is relinked while the request  *)
(* runs (rbac.py:126-152).                                                 *)
THEOREM OthersStayHidden == Spec => []OnlyOwnRecord
<1>1. IInv => OnlyOwnRecord
  BY DEF IInv, Answered, OnlyOwnRecord, MaySee
<1> QED
  BY <1>1, Inductive, PTL

(* Only an administrator can tell a missing record from somebody else's    *)
(* (rbac.py:124, students.py:84).                                          *)
THEOREM MissingStaysHidden == Spec => []MissingLooksForeign
<1>1. IInv => MissingLooksForeign
  BY DEF IInv, Answered, MissingLooksForeign
<1> QED
  BY <1>1, Inductive, PTL

(* The parts of a details answer speak of one row and one day              *)
(* (students.py:92-103).                                                   *)
THEOREM DetailsAreConsistent == Spec => []DetailsConsistent
<1>1. IInv => DetailsConsistent
  BY DEF IInv, Answered, DetailsConsistent
<1> QED
  BY <1>1, Inductive, PTL

(* A list without a status filter counts exactly the students its pages    *)
(* are cut from, though both are separate statements.                      *)
THEOREM CountCovers == Spec => []CountCoversPages
<1>1. IInv => CountCoversPages
  BY DEF IInv, Answered, CountCoversPages, InAll
<1> QED
  BY <1>1, Inductive, PTL
-----------------------------------------------------------------------------
(* Answers in UTC.  An answer may add a row to those answered as overdue:  *)
(* one that is overdue today, as the table or the request itself has it.   *)
Justified(e) ==
    \E row \in Row :
       /\ e[1] \in Students /\ e[2] = row.version
       /\ SqlStatus(row, UtcToday) = "Overdue"
       /\ row.version <= rows[e[1]].version
       /\ row.version = rows[e[1]].version => row = rows[e[1]]
       /\ \A r \in Readers :
             pc[r] = "render" /\ Id(r) = e[1] /\ seen[r].version = row.version => seen[r] = row

(* The answer agrees with all that this request knew to be overdue.        *)
Consistent(p, views) ==
    \A v \in views : v.status = "PartiallyPaid" => <<v.id, v.row.version>> \notin overdue

LEMMA AnswerInUtc ==
    ASSUME TypeOK, IInv, NeverBack, NEW p \in Readers, NEW code, NEW views, NEW total,
           Answer(p, code, views, total), Consistent(p, views),
           \A e \in OverdueIn(views) : Justified(e)
    PROVE  NeverBack'
<1>1. /\ Own(p) /\ pc' = [pc EXCEPT ![p] = "done"] /\ before'[p] = before[p]
      /\ reply'[p] = [code |-> code, views |-> views, total |-> total]
      /\ overdue' = overdue \cup OverdueIn(views)
      /\ p \in DOMAIN pc
  BY AnswerEffect DEF IInv, TypeOK
<1>2. rows' = rows /\ tick' = tick /\ UtcToday' = UtcToday
  BY <1>1 DEF Own, UtcToday
<1>3. \A r \in Readers : pc'[r] = "render" =>
         r # p /\ pc[r] = "render" /\ seen'[r] = seen[r] /\ Id(r)' = Id(r)
  BY <1>1 DEF Own, Id
<1>4. \A s \in Students : rows[s] \in Row
  BY DEF TypeOK
<1>5. RowsKept'
  <2>1. \A e \in overdue' : e[1] \in Students /\ e[2] \in Nat /\ e[2] <= rows'[e[1]].version
    BY <1>1, <1>2 DEF NeverBack, RowsKept, Justified, Row
  <2>2. ASSUME NEW s \in Students, <<s, rows[s].version>> \in overdue'
        PROVE  SqlStatus(rows[s], UtcToday) = "Overdue"
    <3>1. CASE <<s, rows[s].version>> \in overdue
      BY <3>1 DEF NeverBack, RowsKept
    <3>2. CASE <<s, rows[s].version>> \in OverdueIn(views)
      BY <3>2 DEF Justified
    <3> QED
      BY <1>1, <2>2, <3>1, <3>2
  <2> QED
    BY <1>2, <2>1, <2>2 DEF RowsKept
<1>6. SeenKept'
  <2>1. ASSUME NEW r \in Readers, pc'[r] = "render"
        PROVE  /\ Found(r)' /\ seen'[r] \in Row
               /\ seen'[r].version <= rows'[Id(r)'].version
               /\ seen'[r].version = rows'[Id(r)'].version => seen'[r] = rows'[Id(r)']
               /\ <<Id(r)', seen'[r].version>> \in overdue' =>
                     SqlStatus(seen'[r], UtcToday') = "Overdue"
    <3>1. /\ Found(r) /\ seen[r] \in Row /\ seen[r].version <= rows[Id(r)].version
          /\ seen[r].version = rows[Id(r)].version => seen[r] = rows[Id(r)]
          /\ <<Id(r), seen[r].version>> \in overdue => SqlStatus(seen[r], UtcToday) = "Overdue"
      BY <1>3, <2>1 DEF NeverBack, SeenKept
    <3>2. <<Id(r), seen[r].version>> \in OverdueIn(views) =>
             SqlStatus(seen[r], UtcToday) = "Overdue"
      BY <1>3, <2>1 DEF Justified
    <3> QED
      BY <1>1, <1>2, <1>3, <2>1, <3>1, <3>2 DEF Found
  <2>2. \A q, r \in Readers :
           /\ pc'[q] = "render" /\ pc'[r] = "render" /\ Id(q)' = Id(r)'
           /\ seen'[q].version = seen'[r].version
           => seen'[q] = seen'[r]
    BY <1>3 DEF NeverBack, SeenKept
  <2> QED
    BY <2>1, <2>2 DEF SeenKept
<1>7. \A r \in Readers : before'[r] \subseteq overdue'
  BY <1>1 DEF NeverBack, Own
<1>8. StatusNeverGoesBack'
  <2>1. ASSUME NEW r \in Readers \ {p}, NEW v \in Shown(r)', v.status = "PartiallyPaid"
        PROVE  <<v.id, v.row.version>> \notin before'[r]
    <3>1. reply'[r] = reply[r] /\ before'[r] = before[r]
      BY <1>1 DEF Own
    <3>2. v \in Shown(r)
      BY <2>1, <3>1 DEF Shown
    <3> QED
      BY <2>1, <3>1, <3>2 DEF NeverBack, StatusNeverGoesBack
  <2>2. ASSUME NEW v \in Shown(p)', v.status = "PartiallyPaid"
        PROVE  <<v.id, v.row.version>> \notin before'[p]
    <3>1. v \in views
      BY <1>1, <2>2 DEF Shown
    <3> QED
      BY <1>1, <2>2, <3>1 DEF NeverBack, Consistent
  <2> QED
    BY <2>1, <2>2 DEF StatusNeverGoesBack
<1> QED
  BY <1>5, <1>6, <1>7, <1>8 DEF NeverBack

(* The two answers that show rows are such answers.                        *)
LEMMA RenderInUtc ==
    ASSUME TypeOK, IInv, NeverBack, Offset = 0, NEW p \in Readers, Render(p)
    PROVE  NeverBack'
<1>0. PICK v : v = RecordView(p)
  OBVIOUS
<1>1. /\ pc[p] = "render" /\ Found(p) /\ seen[p] \in Row
      /\ seen[p].version <= rows[Id(p)].version
      /\ seen[p].version = rows[Id(p)].version => seen[p] = rows[Id(p)]
      /\ <<Id(p), seen[p].version>> \in overdue => SqlStatus(seen[p], UtcToday) = "Overdue"
      /\ \A r \in Readers : pc[r] = "render" /\ Id(r) = Id(p)
            /\ seen[r].version = seen[p].version => seen[r] = seen[p]
  BY DEF Render, NeverBack, SeenKept
<1>2. Today = UtcToday
  BY DEF Today, UtcToday, TypeOK
<1>3. v.id = Id(p) /\ v.row = seen[p] /\ v.status = SqlStatus(seen[p], UtcToday)
  BY <1>0, <1>1, <1>2, RecordViewType
<1>4. Consistent(p, {v})
  BY <1>1, <1>3 DEF Consistent
<1>5. \A e \in OverdueIn({v}) : Justified(e)
  <2> SUFFICES ASSUME v.status = "Overdue" PROVE Justified(<<v.id, v.row.version>>)
    BY DEF OverdueIn
  <2> QED
    BY <1>1, <1>3 DEF Justified, Found
<1> QED
  BY <1>0, <1>4, <1>5, AnswerInUtc DEF Render

LEMMA PageInUtc ==
    ASSUME TypeOK, IInv, NeverBack, NEW p \in Readers, ListPage(p)
    PROVE  NeverBack'
<1>0. PICK q, views : q = call[p].query /\ views = {ListView(s) : s \in Page(Matching(q), q.page)}
  OBVIOUS
<1>1. \A v \in views : \E s \in Students :
         v.id = s /\ v.row = rows[s] /\ v.status = SqlStatus(rows[s], UtcToday)
  <2>1. \A s \in Page(Matching(q), q.page) : s \in Students
    BY DEF Page, Matching
  <2> QED
    BY <1>0, <2>1 DEF ListView
<1>2. Consistent(p, views)
  BY <1>1 DEF Consistent, NeverBack, RowsKept
<1>3. ASSUME NEW v \in views, v.status = "Overdue" PROVE Justified(<<v.id, v.row.version>>)
  <2>1. PICK s \in Students :
           v.id = s /\ v.row = rows[s] /\ SqlStatus(rows[s], UtcToday) = "Overdue"
    BY <1>1, <1>3
  <2>2. rows[s] \in Row /\ rows[s].version <= rows[s].version
    BY DEF TypeOK, Row
  <2>3. \A r \in Readers : pc[r] = "render" /\ Id(r) = s
           /\ seen[r].version = rows[s].version => seen[r] = rows[s]
    BY DEF NeverBack, SeenKept
  <2> QED
    BY <2>1, <2>2, <2>3 DEF Justified
<1>4. \A e \in OverdueIn(views) : Justified(e)
  BY <1>3 DEF OverdueIn
<1> QED
  BY <1>0, <1>2, <1>4, AnswerInUtc DEF ListPage

LEMMA RefuseInUtc ==
    ASSUME TypeOK, IInv, NeverBack, NEW p \in Readers, NEW code, Refuse(p, code)
    PROVE  NeverBack'
<1>1. Consistent(p, {}) /\ \A e \in OverdueIn({}) : Justified(e)
  BY DEF Consistent, OverdueIn
<1> QED
  BY <1>1, AnswerInUtc DEF Refuse

(* A step of a request that answers nothing; it may read its row.          *)
LEMMA QuietInUtc ==
    ASSUME TypeOK, IInv, NeverBack, NEW p \in Readers, Own(p), overdue' = overdue,
           reply'[p] = reply[p],
           before'[p] \subseteq overdue, before'[p] = before[p] \/ reply[p] = None,
           pc'[p] = "render" => Found(p)' /\ seen'[p] = rows[Id(p)']
    PROVE  NeverBack'
<1>1. rows' = rows /\ tick' = tick /\ UtcToday' = UtcToday
  BY DEF Own, UtcToday
<1>2. \A r \in Readers \ {p} :
         /\ pc'[r] = pc[r] /\ seen'[r] = seen[r] /\ Id(r)' = Id(r)
         /\ reply'[r] = reply[r] /\ before'[r] = before[r]
  BY DEF Own, Id
<1>3. \A s \in Students : rows[s] \in Row
  BY DEF TypeOK
<1>4. RowsKept'
  BY <1>1 DEF NeverBack, RowsKept
<1>5. SeenKept'
  <2>1. ASSUME NEW r \in Readers, pc'[r] = "render"
        PROVE  /\ Found(r)' /\ seen'[r] \in Row
               /\ seen'[r].version <= rows'[Id(r)'].version
               /\ seen'[r].version = rows'[Id(r)'].version => seen'[r] = rows'[Id(r)']
               /\ <<Id(r)', seen'[r].version>> \in overdue' =>
                     SqlStatus(seen'[r], UtcToday') = "Overdue"
    <3>1. CASE r = p
      <4>1. Id(p)' \in Students /\ seen'[p] = rows[Id(p)'] /\ seen'[p] \in Row
        BY <1>3, <2>1, <3>1 DEF Found
      <4>2. seen'[p].version \in Nat
        BY <4>1 DEF Row
      <4> QED
        BY <1>1, <3>1, <4>1, <4>2 DEF NeverBack, RowsKept, Found
    <3>2. CASE r # p
      BY <1>1, <1>2, <2>1, <3>2 DEF NeverBack, SeenKept, Found
    <3> QED
      BY <3>1, <3>2
  <2>2. \A q, r \in Readers :
           /\ pc'[q] = "render" /\ pc'[r] = "render" /\ Id(q)' = Id(r)'
           /\ seen'[q].version = seen'[r].version
           => seen'[q] = seen'[r]
    <3>1. \A q, r \in Readers \ {p} :
             /\ pc'[q] = "render" /\ pc'[r] = "render" /\ Id(q)' = Id(r)'
             /\ seen'[q].version = seen'[r].version
             => seen'[q] = seen'[r]
      BY <1>2 DEF NeverBack, SeenKept
    <3>2. ASSUME NEW r \in Readers \ {p}, pc'[p] = "render", pc'[r] = "render",
                 Id(p)' = Id(r)', seen'[p].version = seen'[r].version
          PROVE  seen'[p] = seen'[r]
      <4>1. seen'[p] = rows[Id(r)] /\ pc[r] = "render" /\ seen'[r] = seen[r]
        BY <1>2, <3>2
      <4>2. seen[r].version = rows[Id(r)].version => seen[r] = rows[Id(r)]
        BY <4>1 DEF NeverBack, SeenKept
      <4> QED
        BY <3>2, <4>1, <4>2
    <3> QED
      BY <3>1, <3>2
  <2> QED
    BY <2>1, <2>2 DEF SeenKept
<1>6. \A r \in Readers : before'[r] \subseteq overdue'
  BY <1>2 DEF NeverBack
<1>7. StatusNeverGoesBack'
  BY <1>2 DEF NeverBack, StatusNeverGoesBack, Shown
<1> QED
  BY <1>4, <1>5, <1>6, <1>7 DEF NeverBack

(* A row that changes gets a version nobody has read or answered.          *)
LEMMA ChangeInUtc ==
    ASSUME TypeOK, IInv, NeverBack, NEW s \in Students, Changed(s)
    PROVE  NeverBack'
<1>1. /\ UNCHANGED <<tick, pc, call, seen, reply, overdue, before>> /\ UtcToday' = UtcToday
      /\ \A t \in Students \ {s} : rows'[t] = rows[t]
      /\ \A t \in Students : rows[t] \in Row /\ rows[t].version \in Nat
      /\ rows'[s].version = rows[s].version + 2
  BY DEF Changed, UtcToday, TypeOK, Row
<1>2. RowsKept'
  <2>1. \A e \in overdue : e[1] \in Students /\ e[2] \in Nat /\ e[2] <= rows[e[1]].version
    BY DEF NeverBack, RowsKept
  <2>2. <<s, rows'[s].version>> \notin overdue
    <3>1. SUFFICES ASSUME <<s, rows'[s].version>> \in overdue PROVE FALSE
      OBVIOUS
    <3>2. rows'[s].version <= rows[s].version
      BY <2>1, <3>1
    <3> QED
      BY <1>1, <3>2
  <2>3. \A e \in overdue : e[2] <= rows'[e[1]].version
    BY <1>1, <2>1
  <2> QED
    BY <1>1, <2>1, <2>2, <2>3 DEF NeverBack, RowsKept
<1>3. SeenKept'
  <2>1. \A r \in Readers : Id(r)' = Id(r)
    BY <1>1 DEF Id
  <2>2. ASSUME NEW r \in Readers, pc[r] = "render"
        PROVE  /\ Found(r)' /\ seen[r] \in Row
               /\ seen[r].version <= rows'[Id(r)].version
               /\ seen[r].version = rows'[Id(r)].version => seen[r] = rows'[Id(r)]
               /\ <<Id(r), seen[r].version>> \in overdue => SqlStatus(seen[r], UtcToday) = "Overdue"
    <3>1. /\ Found(r) /\ seen[r] \in Row /\ seen[r].version \in Nat
          /\ seen[r].version <= rows[Id(r)].version
          /\ seen[r].version = rows[Id(r)].version => seen[r] = rows[Id(r)]
          /\ <<Id(r), seen[r].version>> \in overdue => SqlStatus(seen[r], UtcToday) = "Overdue"
      BY <2>2 DEF NeverBack, SeenKept, Row
    <3> QED
      BY <1>1, <2>1, <3>1 DEF Found
  <2> QED
    BY <1>1, <2>1, <2>2 DEF NeverBack, SeenKept
<1>4. StatusNeverGoesBack' /\ \A r \in Readers : before'[r] \subseteq overdue'
  BY <1>1 DEF NeverBack, StatusNeverGoesBack, Shown
<1> QED
  BY <1>2, <1>3, <1>4 DEF NeverBack

(* Time makes nothing less overdue.                                        *)
LEMMA TickInUtc ==
    ASSUME TypeOK, NeverBack, Tick
    PROVE  NeverBack'
<1>1. UNCHANGED <<rows, pc, call, seen, reply, overdue, before>>
  BY DEF Tick
<1>2. UtcToday \in Day /\ UtcToday' \in Day /\ UtcToday <= UtcToday'
  <2>1. tick \in Int /\ tick' \in Int /\ tick <= tick'
    BY LimitsAssumption DEF Tick, TypeOK
  <2> QED
    BY <2>1, DayType, DaysGrow DEF UtcToday, Day
<1>3. \A row \in Row : SqlStatus(row, UtcToday) = "Overdue" => SqlStatus(row, UtcToday') = "Overdue"
  BY <1>2, OverdueStays
<1>4. RowsKept'
  BY <1>1, <1>3 DEF NeverBack, RowsKept, TypeOK
<1>5. SeenKept'
  BY <1>1, <1>3 DEF NeverBack, SeenKept, Found, Id
<1>6. StatusNeverGoesBack' /\ \A r \in Readers : before'[r] \subseteq overdue'
  BY <1>1 DEF NeverBack, StatusNeverGoesBack, Shown
<1> QED
  BY <1>4, <1>5, <1>6 DEF NeverBack

LEMMA StepInUtc ==
    ASSUME Offset = 0
    PROVE  TypeOK /\ IInv /\ NeverBack /\ [Next]_vars => NeverBack'
<1> SUFFICES ASSUME TypeOK, IInv, NeverBack, [Next]_vars PROVE NeverBack'
  OBVIOUS
<1>0. Shape
  BY DEF IInv
<1>1. ASSUME NEW p \in Readers, Receive(p) PROVE NeverBack'
  <2>1. reply[p] = None
    BY <1>1 DEF Receive, IInv, Progressing
  <2>2. /\ Own(p) /\ overdue' = overdue /\ reply'[p] = reply[p]
        /\ before'[p] = overdue /\ pc'[p] # "render"
    BY <1>0, <1>1, ReceiveEffect DEF TypeOK
  <2> QED
    BY <2>1, <2>2, QuietInUtc
<1>2. ASSUME NEW p \in Readers, Reject(p) \/ QueryForbidden(p) \/ QueryMissing(p) PROVE NeverBack'
  BY <1>2, RefuseInUtc DEF Reject, QueryForbidden, QueryMissing
<1>3. ASSUME NEW p \in Readers, QueryFound(p) PROVE NeverBack'
  <2>1. /\ Own(p) /\ UNCHANGED <<overdue, reply, before, call>> /\ Found(p)
        /\ seen'[p] = rows[Id(p)]
    BY <1>0, <1>3 DEF QueryFound, Own, Shape, TypeOK, env
  <2>2. before[p] \subseteq overdue /\ Id(p)' = Id(p) /\ Found(p)'
    BY <2>1 DEF NeverBack, Id, Found
  <2> QED
    BY <2>1, <2>2, QuietInUtc
<1>4. ASSUME NEW p \in Readers, ListCount(p) PROVE NeverBack'
  <2>1. Own(p) /\ UNCHANGED <<overdue, reply, before>> /\ pc'[p] # "render"
    BY <1>0, <1>4 DEF ListCount, Own, Shape, TypeOK, env
  <2>2. before[p] \subseteq overdue
    BY DEF NeverBack
  <2> QED
    BY <2>1, <2>2, QuietInUtc
<1>5. ASSUME NEW p \in Readers, Fails(p) PROVE NeverBack'
  <2>1. CASE \E code \in Codes : Refuse(p, code)
    BY <2>1, RefuseInUtc
  <2>2. CASE /\ Own(p) /\ overdue' = overdue
             /\ \/ pc' = [pc EXCEPT ![p] = "query"] \/ pc' = [pc EXCEPT ![p] = "count"]
             /\ reply' = reply /\ before' = before
    <3>1. pc'[p] # "render" /\ before[p] \subseteq overdue
      BY <2>2 DEF NeverBack, TypeOK
    <3> QED
      BY <2>2, <3>1, QuietInUtc
  <2> QED
    BY <1>0, <1>5, <2>1, <2>2, FailsEffect
<1>6. ASSUME NEW s \in Students, Edit(s) \/ Relink(s) PROVE NeverBack'
  BY <1>6, ChangeEffect, ChangeInUtc
<1>7. CASE UNCHANGED vars
  BY <1>7 DEF vars, NeverBack, RowsKept, SeenKept, StatusNeverGoesBack, Shown, Found, Id, UtcToday
<1> QED
  BY <1>1, <1>2, <1>3, <1>4, <1>5, <1>6, <1>7, RenderInUtc, PageInUtc, TickInUtc
     DEF Next, Progress, Terminated

(* Once some endpoint has answered that a row is overdue, no request that  *)
(* arrives later finds the same row merely PartiallyPaid, if the process's *)
(* time zone is UTC: the three computations of the status agree            *)
(* (payment_status.py:44, students_repository.py:28).                      *)
THEOREM OverdueIsFinal ==
    ASSUME Offset = 0
    PROVE  Spec => []StatusNeverGoesBack
<1>1. Init => NeverBack
  BY DEF Init, NeverBack, RowsKept, SeenKept, StatusNeverGoesBack, Shown
<1>2. TypeOK /\ IInv /\ NeverBack /\ [Next]_vars => NeverBack'
  BY StepInUtc
<1>3. NeverBack => StatusNeverGoesBack
  BY DEF NeverBack
<1> QED
  BY <1>1, <1>2, <1>3, Inductive, PTL DEF Spec
=============================================================================
