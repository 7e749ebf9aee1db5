---------------------------- MODULE StudentReads ----------------------------
(***************************************************************************)
(* The read endpoints: fee details and payment status of one student, and  *)
(* the administrators' list.  They run while administrators change rows,   *)
(* operators relink rows to directory accounts, and midnight passes.       *)
(*                                                                         *)
(* A single-record request reads the row (query), decides from that row    *)
(* and the caller's claims whether it may be shown, and computes the       *)
(* status with the process's own date (render).  A list request counts,    *)
(* then selects, in two statements that see the rows and the UTC date of   *)
(* their own moment.                                                       *)
(*                                                                         *)
(* The clock counts ticks, TicksPerDay of them a day; Offset is the        *)
(* process's time zone in ticks.                                           *)
(***************************************************************************)
EXTENDS FeeRules, ApiErrors, FiniteSets

CONSTANTS
    Readers, Students, Ids, Oids,
    Callers,      \* claims of valid tokens: [roles, oid]
    Course,       \* the course of each student; no endpoint changes it
    Queries,      \* the list queries: [course, status, page]
    PageSize,
    SeedRows, SeedOwner,
    Edits,        \* the rows an update may leave, version apart
    MaxChanges,   \* bound on updates and relinks
    MaxAttempts, TicksPerDay, MaxTick, Offset

ASSUME ReadersAssumption == Students \subseteq Ids /\ Ids \subseteq Nat
ASSUME StudentsAssumption == IsFiniteSet(Students) /\ None \notin Students
ASSUME ClockAssumption == TicksPerDay \in Nat \ {0} /\ Offset \in Int
ASSUME LimitsAssumption ==
    MaxTick \in Nat /\ MaxChanges \in Nat /\ MaxAttempts \in Nat \ {0}
ASSUME TableAssumption ==
    /\ SeedRows \in [Students -> Row] /\ Edits \subseteq Row
    /\ SeedOwner \in [Students -> Oids \cup {None}]

VARIABLES
    tick,       \* the clock
    rows,       \* fee columns of dbo.Students
    owner,      \* AadObjectId, None where it is NULL
    changes,    \* updates and relinks so far
    links,      \* history: <<id, version, account>> of every row there was
    pc, call,   \* where each request is, and what it asks
    attempt,    \* the attempt of with_db_retry it is in
    seen,       \* the record it read
    count,      \* what the COUNT statement returned
    reply,
    overdue,    \* history: the <<id, version>> answered as Overdue so far
    before      \* history: overdue when the request arrived

env == <<tick, rows, owner, changes, links>>
vars == <<tick, rows, owner, changes, links, pc, call, attempt, seen, count, reply,
          overdue, before>>

Endpoints == {"details", "status", "list"}
Claims == [roles : SUBSET {"Student", "Administrator"}, oid : Oids \cup {None}]
View == [id : Students, row : Row,
         status : PaymentStatus, due : Amount \cup {None}, days : Day \cup {None}]

TypeOK ==
    /\ tick \in 0 .. MaxTick
    /\ rows \in [Students -> Row]
    /\ owner \in [Students -> Oids \cup {None}]
    /\ changes \in 0 .. MaxChanges
    /\ pc \in [Readers -> {"idle", "query", "render", "count", "page", "done"}]
    /\ attempt \in [Readers -> 0 .. MaxAttempts - 1]
    /\ count \in [Readers -> Nat]
    /\ \A p \in Readers : reply[p] # None =>
          /\ reply[p].code \in Codes \cup {"OK"}
          /\ \A v \in reply[p].views : v \in View

Init ==
    /\ tick = 0
    /\ rows = SeedRows
    /\ owner = SeedOwner
    /\ changes = 0
    /\ links = {<<s, SeedRows[s].version, SeedOwner[s]>> : s \in Students}
    /\ pc = [p \in Readers |-> "idle"]
    /\ call = [p \in Readers |-> None]
    /\ attempt = [p \in Readers |-> 0]
    /\ seen = [p \in Readers |-> None]
    /\ count = [p \in Readers |-> 0]
    /\ reply = [p \in Readers |-> None]
    /\ overdue = {}
    /\ before = [p \in Readers |-> {}]
-----------------------------------------------------------------------------
(* The SQL server's date, and date.today() of the process.                 *)
UtcToday == tick \div TicksPerDay
Today == (tick + Offset) \div TicksPerDay

Tick ==
    /\ tick < MaxTick
    /\ tick' = tick + 1
    /\ UNCHANGED <<rows, owner, changes, links, pc, call, attempt, seen, count,
                   reply, overdue, before>>

(* A committed fee update; FeeUpdate shows how it comes about.             *)
Edit(s) ==
    /\ changes < MaxChanges
    /\ changes' = changes + 1
    /\ \E e \in Edits : rows' = [rows EXCEPT ![s] = [e EXCEPT !.version = rows[s].version + 2]]
    /\ links' = links \cup {<<s, rows'[s].version, owner[s]>>}
    /\ UNCHANGED <<tick, owner, pc, call, attempt, seen, count, reply, overdue, before>>

(* An operator's script points a row at another account; the filtered      *)
(* unique index lets an account own one row.                               *)
Relink(s) ==
    /\ changes < MaxChanges
    /\ changes' = changes + 1
    /\ \E oid \in Oids :
          /\ \A t \in Students \ {s} : owner[t] # oid
          /\ owner' = [owner EXCEPT ![s] = oid]
    /\ rows' = [rows EXCEPT ![s].version = @ + 2]
    /\ links' = links \cup {<<s, rows'[s].version, owner'[s]>>}
    /\ UNCHANGED <<tick, pc, call, attempt, seen, count, reply, overdue, before>>
-----------------------------------------------------------------------------
Answer(p, code, views, total) ==
    /\ pc' = [pc EXCEPT ![p] = "done"]
    /\ reply' = [reply EXCEPT ![p] = [code |-> code, views |-> views, total |-> total]]
    /\ overdue' = overdue \cup {<<v.id, v.row.version>> : v \in {w \in views : w.status = "Overdue"}}
    /\ seen' = [seen EXCEPT ![p] = None]
    /\ count' = [count EXCEPT ![p] = 0]
    /\ UNCHANGED <<env, call, attempt, before>>

Refuse(p, code) == Answer(p, code, {}, 0)

IsAdministrator(caller) == "Administrator" \in caller.roles
IsStudent(caller) == "Student" \in caller.roles
RolesFor(endpoint) ==
    IF endpoint = "list" THEN {"Administrator"} ELSE {"Student", "Administrator"}

(* A request with a valid token, and require_role's verdict on it.         *)
Receive(p) ==
    /\ pc[p] = "idle"
    /\ \E caller \in Callers, endpoint \in Endpoints :
          /\ caller.roles \cap RolesFor(endpoint) # {}
          /\ IF endpoint = "list"
             THEN \E q \in Queries :
                     /\ call' = [call EXCEPT ![p] =
                            [caller |-> caller, endpoint |-> endpoint, id |-> None, query |-> q]]
                     /\ pc' = [pc EXCEPT ![p] = "count"]
             ELSE \E id \in Ids :
                     /\ call' = [call EXCEPT ![p] =
                            [caller |-> caller, endpoint |-> endpoint, id |-> id, query |-> None]]
                     /\ pc' = [pc EXCEPT ![p] = "query"]
    /\ before' = [before EXCEPT ![p] = overdue]
    /\ UNCHANGED <<env, attempt, seen, count, reply, overdue>>

(* No valid token, a role that is not enough, an id or a list parameter    *)
(* that is malformed.                                                      *)
Reject(p) ==
    /\ pc[p] = "idle"
    /\ \E code \in EarlyRefusals \cup {MapException("ValueError")} : Refuse(p, code)

(* Mutant: one attempt too many. *)
AttemptsLeftOffByOne(p) == attempt[p] < MaxAttempts

AttemptsLeft(p) == attempt[p] + 1 < MaxAttempts

(* A database failure in a read: with_db_retry starts it again.            *)
Fails(p) ==
    /\ pc[p] \in {"query", "count", "page"}
    /\ \E exc \in ConnectFailures :
          IF exc \in Transient /\ AttemptsLeft(p)
          THEN /\ attempt' = [attempt EXCEPT ![p] = @ + 1]
               /\ pc' = [pc EXCEPT ![p] = IF @ = "query" THEN "query" ELSE "count"]
               /\ count' = [count EXCEPT ![p] = 0]
               /\ UNCHANGED <<env, call, seen, reply, overdue, before>>
          ELSE Refuse(p, MapException(exc))
-----------------------------------------------------------------------------
Id(p) == call[p].id
Found(p) == Id(p) \in Students

(* Mutant: an account without oid passes for the owner of an unlinked row. *)
OwnsUnlinked(caller, oid) == caller.oid = oid

(* Both the claim and the row must name an account, and the same one.      *)
Owns(caller, oid) == caller.oid # None /\ oid # None /\ caller.oid = oid

(* authorize_student_record_access, on the row just read.                  *)
Authorized(p) ==
    \/ IsAdministrator(call[p].caller)
    \/ /\ IsStudent(call[p].caller)
       /\ Found(p)
       /\ Owns(call[p].caller, owner[Id(p)])

QueryForbidden(p) ==
    /\ pc[p] = "query"
    /\ ~Authorized(p)
    /\ Refuse(p, "FORBIDDEN")

(* Mutant: the missing row is reported before the caller is authorized.    *)
MissingBeforeAuthorized(p) ==
    /\ pc[p] = "query"
    /\ ~Found(p)
    /\ Refuse(p, "STUDENT_NOT_FOUND")

QueryMissing(p) ==
    /\ pc[p] = "query"
    /\ Authorized(p)
    /\ ~Found(p)
    /\ Refuse(p, "STUDENT_NOT_FOUND")

QueryFound(p) ==
    /\ pc[p] = "query"
    /\ Authorized(p)
    /\ Found(p)
    /\ seen' = [seen EXCEPT ![p] = rows[Id(p)]]
    /\ pc' = [pc EXCEPT ![p] = "render"]
    /\ UNCHANGED <<env, call, attempt, count, reply, overdue, before>>

(* The status endpoint answers the status alone.                           *)
RecordView(p) ==
    LET row    == seen[p]
        status == compute_payment_status(row.total, row.paid, row.due, Today)
        full   == call[p].endpoint = "details"
    IN  [id |-> Id(p), row |-> row, status |-> status,
         due  |-> IF full THEN compute_due_amount(row.total, row.paid) ELSE None,
         days |-> IF full THEN compute_days_overdue(row.due, status, Today) ELSE None]

Render(p) ==
    /\ pc[p] = "render"
    /\ Answer(p, "OK", {RecordView(p)}, 1)
-----------------------------------------------------------------------------
(* The WHERE clause of the list.                                           *)
InCourse(s, q) == q.course \in {None, Course[s]}
Matching(q) ==
    {s \in Students :
        InCourse(s, q) /\ q.status \in {None, SqlStatus(rows[s], UtcToday)}}

(* ORDER BY StudentID OFFSET ... FETCH NEXT.                               *)
Place(s, S) == Cardinality({t \in S : t <= s})
Page(S, n) == {s \in S : Place(s, S) \in (n - 1) * PageSize + 1 .. n * PageSize}

(* Mutant: the count leaves the course filter out. *)
CountAllCourses(q) == Cardinality({s \in Students : q.status \in {None, SqlStatus(rows[s], UtcToday)}})

TotalCount(q) == Cardinality(Matching(q))

ListCount(p) ==
    /\ pc[p] = "count"
    /\ count' = [count EXCEPT ![p] = TotalCount(call[p].query)]
    /\ pc' = [pc EXCEPT ![p] = "page"]
    /\ UNCHANGED <<env, call, attempt, seen, reply, overdue, before>>

ListView(s) ==
    [id |-> s, row |-> rows[s], status |-> SqlStatus(rows[s], UtcToday),
     due |-> None, days |-> None]

ListPage(p) ==
    /\ pc[p] = "page"
    /\ LET q == call[p].query
       IN  Answer(p, "OK", {ListView(s) : s \in Page(Matching(q), q.page)}, count[p])
-----------------------------------------------------------------------------
Progress(p) ==
    \/ QueryForbidden(p) \/ QueryMissing(p) \/ QueryFound(p) \/ Render(p)
    \/ ListCount(p) \/ ListPage(p)

Finished == \A p \in Readers : pc[p] = "done"
Terminated == Finished /\ UNCHANGED vars

Next ==
    \/ \E p \in Readers : Receive(p) \/ Reject(p) \/ Progress(p) \/ Fails(p)
    \/ \E s \in Students : Edit(s) \/ Relink(s)
    \/ Tick
    \/ Terminated

Spec == Init /\ [][Next]_vars
-----------------------------------------------------------------------------
Shown(p) == IF reply[p] = None THEN {} ELSE reply[p].views

(* A caller who is no administrator is shown the record asked for at most, *)
(* in a state in which it was linked to the caller's account: relinking    *)
(* while the request runs shows nobody the other's record                  *)
(* (rbac.py:126-152).                                                      *)
OnlyOwnRecord ==
    \A p \in Readers : \A v \in Shown(p) :
        \/ IsAdministrator(call[p].caller)
        \/ /\ v.id = Id(p)
           /\ call[p].caller.oid # None
           /\ <<v.id, v.row.version, call[p].caller.oid>> \in links

(* Only an administrator can tell a missing record from somebody else's    *)
(* (rbac.py:124, students.py:84).                                          *)
MissingLooksForeign ==
    \A p \in Readers :
        reply[p] # None /\ reply[p].code = "STUDENT_NOT_FOUND" =>
            IsAdministrator(call[p].caller)

(* The parts of a details answer speak of one row and one day, also when   *)
(* the row changes or midnight passes in between: nothing is due exactly   *)
(* when it is Paid, and days are counted exactly when it is Overdue, from  *)
(* one upwards (students.py:92-103).                                       *)
DetailsConsistent ==
    \A p \in Readers : \A v \in Shown(p) :
        call[p].endpoint = "details" =>
            /\ (v.status = "Paid") <=> (v.due = 0)
            /\ v.due >= 0
            /\ (v.status = "Overdue") <=> (v.days # None)
            /\ v.days # None => v.days >= 1

(* Once some endpoint has answered that a row is overdue, no request that  *)
(* arrives later finds the same row merely PartiallyPaid: the three        *)
(* computations of the status, one in Python and two in SQL, agree when    *)
(* the process's day is the UTC day.                                       *)
StatusNeverGoesBack ==
    \A p \in Readers : \A v \in Shown(p) :
        v.status = "PartiallyPaid" => <<v.id, v.row.version>> \notin before[p]

(* A list without a status filter counts exactly the students its pages    *)
(* are cut from, although count and page are separate statements.          *)
CountCoversPages ==
    \A p \in Readers :
        /\ reply[p] # None /\ reply[p].code = "OK"
        /\ call[p].endpoint = "list" /\ call[p].query.status = None
        => LET all == {s \in Students : InCourse(s, call[p].query)}
           IN  /\ reply[p].total = Cardinality(all)
               /\ {v.id : v \in Shown(p)} = Page(all, call[p].query.page)
-----------------------------------------------------------------------------
(* payment_status.py:33: today should be a UTC calendar date.              *)
TodayIsUtc ==
    [][\A p \in Readers : pc[p] = "render" /\ pc'[p] = "done" => Today = UtcToday]_vars
=============================================================================
