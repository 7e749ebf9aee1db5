----------------------------- MODULE FeeUpdate ------------------------------
(***************************************************************************)
(* PUT /api/mgmt/students/{id}/fee: the handler update_student_fee, the    *)
(* repository transaction update_fee it calls, and the retry around it,    *)
(* run by any number of concurrent requests against dbo.Students.          *)
(*                                                                         *)
(* One request goes                                                        *)
(*                                                                         *)
(*   idle -> lookup -> read -> write -> commit -> done                     *)
(*                                                                         *)
(* one database round trip per step: the handler's own get_by_id and the   *)
(* bound check on its result (lookup); the SELECT that opens update_fee    *)
(* with the If-Match and bound checks on it (read); the conditional UPDATE *)
(* (write); the SELECT in the same transaction and the commit (commit).    *)
(* Another request may run between any two of them.  A worker that dies    *)
(* leaves its request "lost".                                              *)
(*                                                                         *)
(* The database is external and modelled as the code uses it: a statement  *)
(* reads committed rows; an UPDATE locks its row until the transaction     *)
(* ends and waits for a lock another transaction holds; the rowversion     *)
(* counter only grows and is not rolled back; a lost connection rolls the  *)
(* open transaction back, unless the server had already committed it.      *)
(***************************************************************************)
EXTENDS FeeRules, ApiErrors

CONSTANTS
    Requests,     \* the PUT requests that may arrive
    Students,     \* the ids that have a row
    Ids,          \* the ids a request may name
    Bodies,       \* the valid request bodies
    SeedRows,     \* the table before any request
    SeedVersion,  \* the rowversion counter then
    MaxAttempts   \* attempts of with_db_retry

ASSUME IdsAssumption == Students \subseteq Ids
ASSUME RequestsAssumption == None \notin Requests
ASSUME BodiesAssumption == \A body \in Bodies : body \in Body /\ NonEmpty(body)
ASSUME SeedAssumption ==
    /\ SeedVersion \in Nat
    /\ SeedRows \in [Students -> Row]
    /\ \A s \in Students : Legal(SeedRows[s]) /\ SeedRows[s].version <= SeedVersion
ASSUME MaxAttemptsAssumption == MaxAttempts \in Nat \ {0}

VARIABLES
    rows,     \* committed rows of dbo.Students
    dbts,     \* the last rowversion the database gave out
    lock,     \* the request whose open transaction changed the row, or None
    pc,       \* where each request is
    order,    \* what it asks: id, body and If-Match; None before it arrives
    attempt,  \* the attempt of with_db_retry it is in, from 0
    snap,     \* the row update_fee read in this attempt
    draft,    \* the row its uncommitted UPDATE left
    reply,    \* the answer: an error code, or "OK" with the row
    commits,  \* history: how often its update was committed
    writer    \* history: the request that last changed the row

db == <<rows, dbts, lock>>
vars == <<rows, dbts, lock, pc, order, attempt, snap, draft, reply, commits, writer>>

Running == {"lookup", "read", "write", "commit"}
Order == [id : Ids, body : Bodies, ifMatch : Nat \cup {None}]
ASSUME OrderAssumption == None \notin Order
Reply == [code : Codes \cup {"OK"}, row : Row \cup {None}]

TypeOK ==
    /\ rows \in [Students -> Row]
    /\ dbts \in Nat
    /\ lock \in [Students -> Requests \cup {None}]
    /\ pc \in [Requests -> Running \cup {"idle", "done", "lost"}]
    /\ order \in [Requests -> Order \cup {None}]
    /\ attempt \in [Requests -> 0 .. MaxAttempts - 1]
    /\ snap \in [Requests -> Row \cup {None}]
    /\ draft \in [Requests -> Row \cup {None}]
    /\ reply \in [Requests -> Reply \cup {None}]
    /\ commits \in [Requests -> Nat]
    /\ writer \in [Students -> Requests \cup {None}]

Init ==
    /\ rows = SeedRows
    /\ dbts = SeedVersion
    /\ lock = [s \in Students |-> None]
    /\ pc = [p \in Requests |-> "idle"]
    /\ order = [p \in Requests |-> None]
    /\ attempt = [p \in Requests |-> 0]
    /\ snap = [p \in Requests |-> None]
    /\ draft = [p \in Requests |-> None]
    /\ reply = [p \in Requests |-> None]
    /\ commits = [p \in Requests |-> 0]
    /\ writer = [s \in Students |-> None]
-----------------------------------------------------------------------------
(* Mutant: the connection goes back without commit or rollback. *)
ReleaseForgotten(p) == UNCHANGED lock

(* Leaving the transaction: what the attempt knew is gone, its lock freed. *)
Release(p) == lock' = [s \in Students |-> IF lock[s] = p THEN None ELSE lock[s]]

EndTransaction(p) ==
    /\ Release(p)
    /\ snap' = [snap EXCEPT ![p] = None]
    /\ draft' = [draft EXCEPT ![p] = None]

Answer(p, code, row) ==
    /\ pc' = [pc EXCEPT ![p] = "done"]
    /\ reply' = [reply EXCEPT ![p] = [code |-> code, row |-> row]]
    /\ UNCHANGED attempt

(* with_db_retry runs the whole operation again.                           *)
Retry(p) ==
    /\ pc' = [pc EXCEPT ![p] = IF @ = "lookup" THEN "lookup" ELSE "read"]
    /\ attempt' = [attempt EXCEPT ![p] = @ + 1]
    /\ UNCHANGED reply

(* Mutant: one attempt too many. *)
AttemptsLeftOffByOne(p) == attempt[p] < MaxAttempts

AttemptsLeft(p) == attempt[p] + 1 < MaxAttempts

(* An exception leaves the operation: the connection is rolled back, and   *)
(* the operation is retried or the exception is mapped to the answer.      *)
Raise(p, exc) ==
    /\ EndTransaction(p)
    /\ IF exc \in Transient /\ AttemptsLeft(p)
       THEN Retry(p)
       ELSE Answer(p, MapException(exc), None)

Untouched == UNCHANGED <<rows, dbts, order, commits, writer>>
-----------------------------------------------------------------------------
(* The request arrives with the row's token of that moment, or with none;  *)
(* one that is overtaken before its lookup is one that came with a stale   *)
(* token.                                                                  *)
Tokens(id) ==
    {None} \cup (IF id \in Students THEN {rows[id].version} ELSE {})

Receive(p) ==
    /\ pc[p] = "idle"
    /\ \E id \in Ids, body \in Bodies : \E ifMatch \in Tokens(id) :
          order' = [order EXCEPT ![p] = [id |-> id, body |-> body, ifMatch |-> ifMatch]]
    /\ pc' = [pc EXCEPT ![p] = "lookup"]
    /\ UNCHANGED <<db, attempt, snap, draft, reply, commits, writer>>

(* Token, role, id, JSON, body or If-Match header are refused in turn,     *)
(* before the database is asked.                                           *)
Reject(p) ==
    /\ pc[p] = "idle"
    /\ \E code \in EarlyRefusals \cup {MapException("ValueError"),
                                       MapException("ValidationError")} :
          Answer(p, code, None)
    /\ UNCHANGED <<db, order, snap, draft, commits, writer>>
-----------------------------------------------------------------------------
Id(p) == order[p].id
Found(p) == Id(p) \in Students
WithinBound(row, body) ==
    Bounded(Merge(row, body).total, Merge(row, body).paid)

(* The handler's own get_by_id, before update_fee.                         *)
LookupMissing(p) ==
    /\ pc[p] = "lookup"
    /\ ~Found(p)
    /\ Raise(p, "StudentNotFoundError")
    /\ Untouched

LookupOutOfBound(p) ==
    /\ pc[p] = "lookup"
    /\ Found(p)
    /\ ~WithinBound(rows[Id(p)], order[p].body)
    /\ Raise(p, "FeeConstraintError")
    /\ Untouched

LookupPasses(p) ==
    /\ pc[p] = "lookup"
    /\ Found(p)
    /\ WithinBound(rows[Id(p)], order[p].body)
    /\ pc' = [pc EXCEPT ![p] = "read"]
    /\ attempt' = [attempt EXCEPT ![p] = 0]
    /\ UNCHANGED <<db, order, snap, draft, reply, commits, writer>>

Lookup(p) == LookupMissing(p) \/ LookupOutOfBound(p) \/ LookupPasses(p)
-----------------------------------------------------------------------------
(* update_fee: the SELECT, the If-Match comparison, the bound.             *)
(* Mutant: the token is compared on the first attempt only. *)
IfMatchComparedOnce(p) ==
    attempt[p] > 0 \/ order[p].ifMatch \in {None, rows[Id(p)].version}

IfMatchAccepted(p) == order[p].ifMatch \in {None, rows[Id(p)].version}

ReadStale(p) ==
    /\ pc[p] = "read"
    /\ ~IfMatchAccepted(p)
    /\ Raise(p, "ConcurrencyConflictError")
    /\ Untouched

(* Mutant: the bound is checked before the token. *)
ReadBoundFirst(p) ==
    /\ pc[p] = "read"
    /\ ~WithinBound(rows[Id(p)], order[p].body)
    /\ Raise(p, "FeeConstraintError")
    /\ Untouched

ReadOutOfBound(p) ==
    /\ pc[p] = "read"
    /\ IfMatchAccepted(p)
    /\ ~WithinBound(rows[Id(p)], order[p].body)
    /\ Raise(p, "FeeConstraintError")
    /\ Untouched

ReadRow(p) ==
    /\ pc[p] = "read"
    /\ IfMatchAccepted(p)
    /\ WithinBound(rows[Id(p)], order[p].body)
    /\ snap' = [snap EXCEPT ![p] = rows[Id(p)]]
    /\ pc' = [pc EXCEPT ![p] = "write"]
    /\ UNCHANGED <<db, order, attempt, draft, reply, commits, writer>>

UpdateRead(p) == ReadStale(p) \/ ReadOutOfBound(p) \/ ReadRow(p)
-----------------------------------------------------------------------------
(* UPDATE ... WHERE StudentID = :student_id AND RowVersion = :row_version, *)
(* with the new values the handler computed from the row it read.          *)
NewRow(p) == Stored(Merge(snap[p], order[p].body))

(* Mutant: the UPDATE without RowVersion in its WHERE clause. *)
RowVersionIgnored(p) == TRUE

RowFree(p) == lock[Id(p)] = None
RowMatches(p) == rows[Id(p)].version = snap[p].version

(* rowcount # 1: the row moved on after it was read.                       *)
WriteConflict(p) ==
    /\ pc[p] = "write"
    /\ RowFree(p)
    /\ ~RowMatches(p)
    /\ Raise(p, "ConcurrencyConflictError")
    /\ Untouched

WriteOverflow(p) ==
    /\ pc[p] = "write"
    /\ RowFree(p)
    /\ RowMatches(p)
    /\ ~Fits(NewRow(p))
    /\ Raise(p, "DataError")
    /\ Untouched

(* The CHECK constraint sees the rounded amounts; the IntegrityError       *)
(* becomes a FeeConstraintError.                                           *)
WriteViolatesCheck(p) ==
    /\ pc[p] = "write"
    /\ RowFree(p)
    /\ RowMatches(p)
    /\ Fits(NewRow(p))
    /\ ~Legal(NewRow(p))
    /\ Raise(p, "FeeConstraintError")
    /\ Untouched

(* The UPDATE takes one rowversion and the trigger on UpdatedAt another.   *)
VersionsTaken == 2

WriteRow(p) ==
    /\ pc[p] = "write"
    /\ RowFree(p)
    /\ RowMatches(p)
    /\ Fits(NewRow(p))
    /\ Legal(NewRow(p))
    /\ dbts' = dbts + VersionsTaken
    /\ lock' = [lock EXCEPT ![Id(p)] = p]
    /\ draft' = [draft EXCEPT ![p] = [NewRow(p) EXCEPT !.version = dbts']]
    /\ pc' = [pc EXCEPT ![p] = "commit"]
    /\ UNCHANGED <<rows, order, attempt, snap, reply, commits, writer>>

UpdateWrite(p) ==
    WriteConflict(p) \/ WriteOverflow(p) \/ WriteViolatesCheck(p) \/ WriteRow(p)
-----------------------------------------------------------------------------
(* The SELECT in the same transaction sees the transaction's own row.      *)
(* Mutants: the version before the trigger ran; the row before the UPDATE. *)
RowBeforeTrigger(p) == [draft[p] EXCEPT !.version = @ - 1]
RowBeforeUpdate(p) == snap[p]

RowReadBack(p) == draft[p]

Install(p) ==
    /\ rows' = [rows EXCEPT ![Id(p)] = draft[p]]
    /\ commits' = [commits EXCEPT ![p] = @ + 1]
    /\ writer' = [writer EXCEPT ![Id(p)] = p]
    /\ UNCHANGED <<dbts, order>>

Commit(p) ==
    /\ pc[p] = "commit"
    /\ Install(p)
    /\ Answer(p, "OK", RowReadBack(p))
    /\ EndTransaction(p)

(* The server commits and the connection is lost before the driver hears:  *)
(* commit() raises OperationalError like any other lost connection.        *)
CommitAckLost(p) ==
    /\ pc[p] = "commit"
    /\ Install(p)
    /\ Raise(p, "OperationalError")
-----------------------------------------------------------------------------
LookupFails(p) ==
    /\ pc[p] = "lookup"
    /\ \E exc \in ConnectFailures : Raise(p, exc)
    /\ Untouched

ReadFails(p) ==
    /\ pc[p] = "read"
    /\ \E exc \in ConnectFailures : Raise(p, exc)
    /\ Untouched

(* A statement of the open transaction fails, or commit() does before the  *)
(* server acted on it.                                                     *)
TransactionFails(p) ==
    /\ pc[p] \in {"write", "commit"}
    /\ \E exc \in StatementFailures : Raise(p, exc)
    /\ Untouched

(* The worker process stops; the server rolls its transaction back.        *)
Lost(p) ==
    /\ pc[p] \in Running
    /\ pc' = [pc EXCEPT ![p] = "lost"]
    /\ EndTransaction(p)
    /\ UNCHANGED <<attempt, reply>>
    /\ Untouched

Finished == \A p \in Requests : pc[p] \in {"done", "lost"}
Terminated == Finished /\ UNCHANGED vars
-----------------------------------------------------------------------------
Progress(p) == Lookup(p) \/ UpdateRead(p) \/ UpdateWrite(p) \/ Commit(p)

Step(p) ==
    \/ Receive(p) \/ Reject(p)
    \/ Progress(p)
    \/ CommitAckLost(p)
    \/ LookupFails(p) \/ ReadFails(p) \/ TransactionFails(p)
    \/ Lost(p)

Next == (\E p \in Requests : Step(p)) \/ Terminated

Spec == Init /\ [][Next]_vars

(* A thread that runs a handler is scheduled until the handler returns;    *)
(* nothing makes a client send, nor a connection break.                    *)
FairSpec == Spec /\ \A p \in Requests : WF_vars(Progress(p))
-----------------------------------------------------------------------------
(* No committed row owes its legality to the check in Python: half-cents   *)
(* the handler accepted are rounded by the column, and the bound holds of  *)
(* what was stored (admin.py:150, students_repository.py:324, and the      *)
(* CHECK constraint behind them).                                          *)
FeeBoundHolds == \A s \in Students : Bounded(rows[s].total, rows[s].paid)

(* A row changes only by a commit that keeps every field the request did   *)
(* not send exactly as it stood in the row being replaced, honours its     *)
(* If-Match against that very row, and raises the version: no interleaving *)
(* of read, UPDATE and commit drops somebody else's change.                *)
Replaces(p, old, new) ==
    /\ order[p].ifMatch \in {None, old.version}
    /\ new.total = Cents(Given(order[p].body.total, old.total))
    /\ new.paid = Cents(Given(order[p].body.paid, old.paid))
    /\ new.due = Given(order[p].body.due, old.due)
    /\ new.version > old.version

NoLostUpdate ==
    [][\A s \in Students : rows'[s] # rows[s] =>
          \E p \in Requests :
             /\ pc[p] = "commit"
             /\ Id(p) = s
             /\ Replaces(p, rows[s], rows'[s])]_vars

(* with_db_retry runs the transaction again when the connection breaks     *)
(* during commit, even if the server had committed.  A request that sent   *)
(* If-Match is nevertheless applied at most once.                          *)
Conditional(p) == order[p] # None /\ order[p].ifMatch # None
AppliedAtMostOnce == \A p \in Requests : Conditional(p) => commits[p] <= 1

(* A request without If-Match is applied again by such a retry, over what  *)
(* others have written since, but once per attempt at most; with the       *)
(* lookup's attempts not counted (db.py:111-136, admin.py:144-170).        *)
AppliedAtMostPerAttempt == \A p \in Requests : commits[p] <= MaxAttempts

(* The row and ETag of a 200 answer, re-read inside the transaction after  *)
(* the trigger ran, are those of the table until another request writes:   *)
(* the caller can go on with the ETag it was given.                        *)
Answered(p, code) == reply[p] # None /\ reply[p].code = code
EtagIsCurrent ==
    \A p \in Requests :
        Answered(p, "OK") /\ writer[Id(p)] = p => rows[Id(p)] = reply[p].row

(* A conditional request that is told its amounts are wrong, or that there *)
(* is no such student, has changed nothing, whatever attempts came before  *)
(* the answer.                                                             *)
RefusalMeansUntouched ==
    \A p \in Requests :
        /\ Conditional(p)
        /\ Answered(p, "INVALID_FEE_AMOUNTS") \/ Answered(p, "STUDENT_NOT_FOUND")
        => commits[p] = 0

(* A request in the handler is answered or its worker is lost: the wait    *)
(* for a row lock ends, and retries run out.                               *)
EveryRequestAnswered ==
    \A p \in Requests : pc[p] \in Running ~> pc[p] \in {"done", "lost"}

(* The update with its transactions, locks and retries implements the      *)
(* atomic conditional register.                                            *)
Record == INSTANCE FeeRecord WITH rows <- rows, order <- order, reply <- reply
ImplementsRecord == Record!Spec
-----------------------------------------------------------------------------
(* Statements of the repository's documents that the code does not keep.   *)

(* README.md:520 answers a stale If-Match with 409.                        *)
StaleIfMatchIs409 ==
    [][\A p \in Requests :
          pc[p] = "lookup" /\ Found(p) /\ ~IfMatchAccepted(p) =>
             ~(reply'[p] # None /\ reply'[p].code = "INVALID_FEE_AMOUNTS")]_vars

(* exception_mapping.py:71 tells a refused caller that the record was      *)
(* modified by another request.                                            *)
ConflictMeansAnotherWriter ==
    \A p \in Requests : Answered(p, "CONCURRENCY_CONFLICT") =>
        \E q \in Requests \ {p} : commits[q] > 0 /\ Id(q) = Id(p)
-----------------------------------------------------------------------------
(* The inductive invariant behind the safety properties.                   *)

(* A row is locked exactly by the request whose transaction changed it.    *)
LockInv ==
    \A s \in Students, p \in Requests :
        lock[s] = p <=> (pc[p] = "commit" /\ Id(p) = s)

(* What a request carries at each point of its way. *)
ArrivedInv ==
    \A p \in Requests :
        /\ pc[p] \in Running => order[p] # None /\ reply[p] = None
        /\ pc[p] = "idle" => order[p] = None /\ reply[p] = None
        /\ pc[p] \in {"read", "write", "commit"} => Found(p)
        /\ pc[p] \in {"write", "commit"} => snap[p] # None
        /\ pc[p] = "commit" => draft[p] # None

VersionInv == \A s \in Students : rows[s].version <= dbts

(* A snapshot is no newer than its row, and is the row itself while the    *)
(* versions agree.                                                         *)
SnapInv ==
    \A p \in Requests : pc[p] \in {"write", "commit"} =>
        /\ snap[p].version <= rows[Id(p)].version
        /\ RowMatches(p) => snap[p] = rows[Id(p)]
        /\ order[p].ifMatch \in {None, snap[p].version}

(* An uncommitted UPDATE was computed from the row it will replace.        *)
DraftInv ==
    \A p \in Requests : pc[p] = "commit" =>
        /\ snap[p] = rows[Id(p)]
        /\ draft[p] = [NewRow(p) EXCEPT !.version = draft[p].version]
        /\ rows[Id(p)].version < draft[p].version
        /\ draft[p].version <= dbts
        /\ Legal(draft[p])

(* Once a conditional request was applied, its token is behind the row.    *)
TokenInv ==
    \A p \in Requests :
        /\ order[p] = None => commits[p] = 0
        /\ Conditional(p) =>
              /\ commits[p] <= 1
              /\ commits[p] > 0 => Found(p) /\ order[p].ifMatch < rows[Id(p)].version

IInv ==
    /\ LockInv
    /\ ArrivedInv
    /\ VersionInv
    /\ SnapInv
    /\ DraftInv
    /\ TokenInv
    /\ FeeBoundHolds
=============================================================================
