-------------------------- MODULE FeeUpdateProofs ---------------------------
(***************************************************************************)
(* Proofs about FeeUpdate for every set of requests, students and bodies,  *)
(* every seed table and every number of attempts.                          *)
(*                                                                         *)
(* The inductive invariant is TypeOK /\ IInv.  Every action of the model   *)
(* that ends an attempt with an exception has the same effect on the       *)
(* state, Failing below, so the step lemmas treat those actions as one.    *)
(***************************************************************************)
EXTENDS FeeUpdate, FeeRulesProofs, TLAPS

USE DEF Amount, Day

(* A stored row has the type of a row; what DECIMAL(10,2) does to each     *)
(* field.                                                                  *)
LEMMA StoredType ==
    ASSUME NEW row \in Row
    PROVE  /\ Stored(row) \in Row
           /\ Stored(row).due = row.due
           /\ Stored(row).version = row.version
           /\ Stored(row).total = Cents(row.total)
           /\ Stored(row).paid = Cents(row.paid)
<1>1. \A a \in Nat : Cents(a) \in Nat
  BY DEF Cents
<1>2. Cents(row.total) \in Nat /\ Cents(row.paid) \in Nat
  BY <1>1 DEF Row
<1> QED
  BY <1>2 DEF Stored, Row

(* Every exception has a code; only a missing student is reported missing. *)
LEMMA CodeType ==
    \A exc \in Exceptions :
       /\ MapException(exc) \in Codes
       /\ MapException(exc) = "STUDENT_NOT_FOUND" => exc = "StudentNotFoundError"
BY DEF Codes, Exceptions, MapException

(* What an exception does: the request leaves its transaction and starts   *)
(* an attempt again or is answered; nothing committed changes.             *)
Ends(p) ==
    /\ pc[p] \in Running
    /\ EndTransaction(p)
    /\ pc' = [pc EXCEPT ![p] = pc'[p]]
    /\ pc'[p] \in {"lookup", "read", "done", "lost"}
    /\ pc'[p] = "lookup" => pc[p] = "lookup"
    /\ pc'[p] = "read" => pc[p] \in {"read", "write", "commit"}
    /\ attempt' \in [Requests -> 0 .. MaxAttempts - 1]
    /\ \/ reply' = reply /\ pc'[p] # "done"
       \/ /\ pc'[p] = "done"
          /\ \E exc \in Exceptions :
                /\ reply' = [reply EXCEPT ![p] = [code |-> MapException(exc), row |-> None]]
                /\ exc = "StudentNotFoundError" => ~Found(p)

Failing(p) == Ends(p) /\ Untouched

(* Raise is such an end, for every exception.                              *)
LEMMA RaiseEnds ==
    ASSUME TypeOK, NEW p \in Requests, NEW exc \in Exceptions,
           pc[p] \in Running, Raise(p, exc),
           exc = "StudentNotFoundError" => ~Found(p)
    PROVE  Ends(p)
<1>1. CASE exc \in Transient /\ AttemptsLeft(p)
  <2>1. Retry(p) /\ EndTransaction(p)
    BY <1>1 DEF Raise
  <2>2. /\ attempt' \in [Requests -> 0 .. MaxAttempts - 1]
        /\ reply' = reply
    BY <1>1, <2>1, MaxAttemptsAssumption DEF Retry, AttemptsLeft, TypeOK
  <2>3. /\ pc' = [pc EXCEPT ![p] = pc'[p]]
        /\ \/ pc'[p] = "lookup" /\ pc[p] = "lookup"
           \/ pc'[p] = "read" /\ pc[p] \in {"read", "write", "commit"}
    BY <2>1 DEF Retry, TypeOK, Running
  <2> QED
    BY <2>1, <2>2, <2>3 DEF Ends
<1>2. CASE ~(exc \in Transient /\ AttemptsLeft(p))
  <2>1. Answer(p, MapException(exc), None) /\ EndTransaction(p)
    BY <1>2 DEF Raise
  <2>2. pc' = [pc EXCEPT ![p] = pc'[p]] /\ pc'[p] = "done"
    BY <2>1 DEF Answer, TypeOK
  <2>3. attempt' \in [Requests -> 0 .. MaxAttempts - 1]
    BY <2>1 DEF Answer, TypeOK
  <2>4. reply' = [reply EXCEPT ![p] = [code |-> MapException(exc), row |-> None]]
    BY <2>1 DEF Answer
  <2> QED
    BY <2>1, <2>2, <2>3, <2>4 DEF Ends
<1> QED
  BY <1>1, <1>2

(* Every action that fails is such an end.                                 *)
LEMMA Failures ==
    ASSUME TypeOK, NEW p \in Requests,
           \/ LookupMissing(p) \/ LookupOutOfBound(p)
           \/ ReadStale(p) \/ ReadOutOfBound(p)
           \/ WriteConflict(p) \/ WriteOverflow(p) \/ WriteViolatesCheck(p)
           \/ LookupFails(p) \/ ReadFails(p) \/ TransactionFails(p)
           \/ Lost(p)
    PROVE  Failing(p)
<1>1. CASE Lost(p)
  <2>1. /\ pc[p] \in Running /\ EndTransaction(p) /\ Untouched
        /\ attempt' = attempt /\ reply' = reply
        /\ pc' = [pc EXCEPT ![p] = "lost"]
    BY <1>1 DEF Lost
  <2>2. pc' = [pc EXCEPT ![p] = pc'[p]] /\ pc'[p] = "lost"
    BY <2>1 DEF TypeOK
  <2>3. attempt' \in [Requests -> 0 .. MaxAttempts - 1]
    BY <2>1 DEF TypeOK
  <2> QED
    BY <2>1, <2>2, <2>3 DEF Failing, Ends
<1>2. CASE ~Lost(p)
  <2>1. PICK exc \in Exceptions :
           /\ Raise(p, exc) /\ Untouched /\ pc[p] \in Running
           /\ exc = "StudentNotFoundError" => ~Found(p)
    BY <1>2 DEF LookupMissing, LookupOutOfBound, ReadStale, ReadOutOfBound,
                WriteConflict, WriteOverflow, WriteViolatesCheck, LookupFails,
                ReadFails, TransactionFails, ConnectFailures, StatementFailures,
                Exceptions, Running
  <2> QED
    BY <2>1, RaiseEnds DEF Failing
<1> QED
  BY <1>1, <1>2

(* The steps of one request, with the failures taken together.             *)
LEMMA StepCases ==
    ASSUME TypeOK, NEW p \in Requests, Step(p)
    PROVE  \/ Receive(p) \/ Reject(p) \/ LookupPasses(p) \/ ReadRow(p)
           \/ WriteRow(p) \/ Commit(p) \/ CommitAckLost(p) \/ Failing(p)
BY Failures DEF Step, Progress, Lookup, UpdateRead, UpdateWrite
-----------------------------------------------------------------------------
Inv == TypeOK /\ IInv

(* The invariant holds before the first request.                           *)
LEMMA InitInv == Init => Inv
<1> SUFFICES ASSUME Init PROVE Inv
  OBVIOUS
<1>1. TypeOK
  BY SeedAssumption, MaxAttemptsAssumption DEF Init, TypeOK, Running
<1>2. LockInv /\ ArrivedInv /\ VersionInv /\ SnapInv /\ DraftInv /\ TokenInv
  BY SeedAssumption, RequestsAssumption
     DEF Init, LockInv, ArrivedInv, VersionInv, SnapInv, DraftInv, TokenInv,
         Conditional, Running
<1>3. FeeBoundHolds
  BY SeedAssumption DEF Init, FeeBoundHolds, Legal
<1> QED
  BY <1>1, <1>2, <1>3 DEF Inv, IInv

(* The row an UPDATE leaves, and what it is made of.                       *)
LEMMA NewRowType ==
    ASSUME TypeOK, NEW p \in Requests, order[p] # None, snap[p] # None
    PROVE  /\ snap[p] \in Row
           /\ order[p] \in Order
           /\ Merge(snap[p], order[p].body) \in Row
           /\ NewRow(p) \in Row
           /\ NewRow(p).version = snap[p].version
           /\ \A v \in Nat : [NewRow(p) EXCEPT !.version = v] \in Row
<1>1. snap[p] \in Row /\ order[p] \in Order
  BY DEF TypeOK
<1>2. order[p].body \in Body
  BY <1>1, BodiesAssumption DEF Order
<1>3. Merge(snap[p], order[p].body) \in Row
  BY <1>1, <1>2, MergeType
<1>4. NewRow(p) \in Row
  BY <1>3, StoredType DEF NewRow
<1>5. NewRow(p).version = snap[p].version
  BY <1>3, StoredType DEF NewRow, Merge
<1>6. \A v \in Nat : [NewRow(p) EXCEPT !.version = v] \in Row
  BY <1>4 DEF Row
<1> QED
  BY <1>1, <1>3, <1>4, <1>5, <1>6

(* Every step keeps the types.                                             *)
LEMMA TypeStep ==
    ASSUME TypeOK, ArrivedInv, NEW p \in Requests, Step(p)
    PROVE  TypeOK'
<1>1. CASE Receive(p)
  <2>1. PICK id \in Ids, body \in Bodies :
           \E ifMatch \in Tokens(id) :
              order' = [order EXCEPT ![p] = [id |-> id, body |-> body, ifMatch |-> ifMatch]]
    BY <1>1 DEF Receive
  <2>2. Tokens(id) \subseteq Nat \cup {None}
    BY DEF Tokens, TypeOK, Row
  <2>3. order' \in [Requests -> Order \cup {None}]
    BY <2>1, <2>2 DEF Order, TypeOK
  <2> QED
    BY <1>1, <2>3 DEF Receive, db, TypeOK, Running
<1>2. CASE Reject(p)
  <2>1. PICK code \in Codes : Answer(p, code, None)
    BY <1>2, CodeType DEF Reject, Codes, Exceptions
  <2>2. [code |-> code, row |-> None] \in Reply
    BY DEF Reply
  <2> QED
    BY <1>2, <2>1, <2>2 DEF Reject, Answer, db, TypeOK
<1>3. CASE LookupPasses(p)
  BY <1>3, MaxAttemptsAssumption DEF LookupPasses, db, TypeOK, Running
<1>4. CASE ReadRow(p)
  <2>1. rows[Id(p)] \in Row \cup {None}
    BY <1>4 DEF ReadRow, ArrivedInv, Found, TypeOK
  <2> QED
    BY <1>4, <2>1 DEF ReadRow, db, TypeOK, Running
<1>5. CASE WriteRow(p)
  <2>1. order[p] # None /\ snap[p] # None
    BY <1>5 DEF WriteRow, ArrivedInv, Running
  <2>2. dbts' \in Nat
    BY <1>5 DEF WriteRow, VersionsTaken, TypeOK
  <2>3. [NewRow(p) EXCEPT !.version = dbts'] \in Row
    BY <2>1, <2>2, NewRowType
  <2> QED
    BY <1>5, <2>2, <2>3 DEF WriteRow, TypeOK, Running
<1>6. CASE Commit(p) \/ CommitAckLost(p)
  <2>1. /\ pc[p] = "commit" /\ Install(p)
        /\ Id(p) \in Students
        /\ draft[p] \in Row
        /\ snap' = [snap EXCEPT ![p] = None]
        /\ draft' = [draft EXCEPT ![p] = None]
        /\ Release(p)
    BY <1>6 DEF Commit, CommitAckLost, Raise, EndTransaction, ArrivedInv, Found,
                Running, TypeOK
  <2>2. lock' \in [Students -> Requests \cup {None}]
    BY <2>1 DEF Release, TypeOK
  <2>3. /\ rows' \in [Students -> Row]
        /\ commits' \in [Requests -> Nat]
        /\ writer' \in [Students -> Requests \cup {None}]
        /\ dbts' = dbts /\ order' = order
    BY <2>1 DEF Install, TypeOK
  <2>4. /\ pc' \in [Requests -> Running \cup {"idle", "done", "lost"}]
        /\ attempt' \in [Requests -> 0 .. MaxAttempts - 1]
        /\ reply' \in [Requests -> Reply \cup {None}]
    <3>1. CASE Commit(p)
      <4>1. [code |-> "OK", row |-> draft[p]] \in Reply
        BY <2>1 DEF Reply
      <4> QED
        BY <3>1, <4>1 DEF Commit, RowReadBack, Answer, TypeOK
    <3>2. CASE CommitAckLost(p)
      <4>1. Ends(p)
        BY <3>2, RaiseEnds DEF CommitAckLost, Running, Exceptions
      <4>2. \A exc \in Exceptions : [code |-> MapException(exc), row |-> None] \in Reply
        BY CodeType DEF Reply
      <4> QED
        BY <4>1, <4>2 DEF Ends, Running, TypeOK
    <3> QED
      BY <1>6, <3>1, <3>2
  <2> QED
    BY <2>1, <2>2, <2>3, <2>4 DEF TypeOK
<1>7. CASE Failing(p)
  <2>1. \A exc \in Exceptions : [code |-> MapException(exc), row |-> None] \in Reply
    BY CodeType DEF Reply
  <2> QED
    BY <1>7, <2>1 DEF Failing, Ends, EndTransaction, Release, Untouched, Running, TypeOK
<1> QED
  BY <1>1, <1>2, <1>3, <1>4, <1>5, <1>6, <1>7, StepCases

(* A commit, heard of or not: the row is replaced by the draft, and the    *)
(* request is answered or tries again.                                     *)
Committing(p) ==
    /\ pc[p] = "commit"
    /\ Install(p)
    /\ EndTransaction(p)
    /\ pc' = [pc EXCEPT ![p] = pc'[p]]
    /\ pc'[p] \in {"read", "done"}
    /\ \/ pc'[p] = "read" /\ reply' = reply
       \/ /\ pc'[p] = "done"
          /\ \/ reply' = [reply EXCEPT ![p] = [code |-> "OK", row |-> draft[p]]]
             \/ reply' = [reply EXCEPT ![p] = [code |-> "SERVICE_UNAVAILABLE", row |-> None]]

(* Both forms of commit have that effect.                                  *)
LEMMA CommitEffect ==
    ASSUME TypeOK, NEW p \in Requests, Commit(p) \/ CommitAckLost(p)
    PROVE  Committing(p)
<1>1. CASE Commit(p)
  BY <1>1 DEF Commit, Committing, Answer, RowReadBack, TypeOK
<1>2. CASE CommitAckLost(p)
  <2>1. CASE AttemptsLeft(p)
    BY <1>2, <2>1 DEF CommitAckLost, Committing, Raise, Retry, Transient, TypeOK
  <2>2. CASE ~AttemptsLeft(p)
    BY <1>2, <2>2 DEF CommitAckLost, Committing, Raise, Answer, MapException, Transient, TypeOK
  <2> QED
    BY <2>1, <2>2
<1> QED
  BY <1>1, <1>2

(* The seven kinds of steps the invariants tell apart.                     *)
LEMMA StepKinds ==
    ASSUME TypeOK, NEW p \in Requests, Step(p)
    PROVE  \/ Receive(p) \/ Reject(p) \/ LookupPasses(p) \/ ReadRow(p)
           \/ WriteRow(p) \/ Committing(p) \/ Failing(p)
BY StepCases, CommitEffect

(* A step of one request leaves what the others know as it was.            *)
LEMMA OthersKeep ==
    ASSUME TypeOK, NEW p \in Requests, Step(p), NEW q \in Requests, q # p
    PROVE  /\ pc'[q] = pc[q] /\ order'[q] = order[q] /\ Id(q)' = Id(q)
           /\ snap'[q] = snap[q] /\ draft'[q] = draft[q]
           /\ commits'[q] = commits[q] /\ reply'[q] = reply[q]
<1>1. CASE Receive(p)
  BY <1>1 DEF Receive, Id, TypeOK
<1>2. CASE Reject(p) \/ LookupPasses(p) \/ ReadRow(p) \/ WriteRow(p)
  BY <1>2 DEF Reject, Answer, LookupPasses, ReadRow, WriteRow, Id, TypeOK
<1>3. CASE Committing(p)
  BY <1>3 DEF Committing, Install, EndTransaction, Id, TypeOK
<1>4. CASE Failing(p)
  BY <1>4 DEF Failing, Ends, EndTransaction, Untouched, Id, TypeOK
<1> QED
  BY <1>1, <1>2, <1>3, <1>4, StepKinds

(* Every step keeps what a request carries on its way.                     *)
LEMMA ArrivedStep ==
    ASSUME TypeOK, TypeOK', ArrivedInv, NEW p \in Requests, Step(p)
    PROVE  ArrivedInv'
<1> SUFFICES ASSUME NEW q \in Requests
             PROVE  /\ pc'[q] \in Running => order'[q] # None /\ reply'[q] = None
                    /\ pc'[q] = "idle" => order'[q] = None /\ reply'[q] = None
                    /\ pc'[q] \in {"read", "write", "commit"} => Found(q)'
                    /\ pc'[q] \in {"write", "commit"} => snap'[q] # None
                    /\ pc'[q] = "commit" => draft'[q] # None
  BY DEF ArrivedInv
<1>1. CASE q # p
  BY <1>1, OthersKeep DEF ArrivedInv, Found
<1>2. CASE q = p
  <2>1. CASE Receive(p)
    <3>1. PICK id \in Ids, body \in Bodies : \E ifMatch \in Tokens(id) :
             order'[p] = [id |-> id, body |-> body, ifMatch |-> ifMatch]
      BY <2>1 DEF Receive, TypeOK
    <3>2. order'[p] # None
      BY <3>1, OrderAssumption DEF Order, Tokens, TypeOK, Row
    <3> QED
      BY <1>2, <2>1, <3>2 DEF Receive, ArrivedInv, Running, TypeOK
  <2>2. CASE Reject(p)
    BY <1>2, <2>2 DEF Reject, Answer, Running, TypeOK
  <2>3. CASE LookupPasses(p)
    BY <1>2, <2>3 DEF LookupPasses, ArrivedInv, Found, Id, Running, TypeOK
  <2>4. CASE ReadRow(p)
    <3>1. rows[Id(p)] # None
      BY <2>4, NoneAssumption DEF ReadRow, ArrivedInv, Found, TypeOK
    <3> QED
      BY <1>2, <2>4, <3>1 DEF ReadRow, ArrivedInv, Found, Id, Running, TypeOK
  <2>5. CASE WriteRow(p)
    <3>1. order[p] # None /\ snap[p] # None /\ dbts' \in Nat
      BY <2>5 DEF WriteRow, ArrivedInv, Running, TypeOK
    <3>2. [NewRow(p) EXCEPT !.version = dbts'] \in Row
      BY <3>1, NewRowType
    <3>3. draft'[p] # None
      BY <2>5, <3>2, NoneAssumption DEF WriteRow, TypeOK
    <3> QED
      BY <1>2, <2>5, <3>3 DEF WriteRow, ArrivedInv, Found, Id, Running, TypeOK
  <2>6. CASE Committing(p)
    BY <1>2, <2>6 DEF Committing, Install, ArrivedInv, Found, Id, Running, TypeOK
  <2>7. CASE Failing(p)
    BY <1>2, <2>7 DEF Failing, Ends, Untouched, ArrivedInv, Found, Id, Running, TypeOK
  <2> QED
    BY <2>1, <2>2, <2>3, <2>4, <2>5, <2>6, <2>7, StepKinds
<1> QED
  BY <1>1, <1>2

(* The only step that changes a row replaces it by the draft of the        *)
(* request that holds its lock; rowversions only grow.                     *)
LEMMA RowsMove ==
    ASSUME TypeOK, NEW p \in Requests, Step(p)
    PROVE  /\ dbts' >= dbts
           /\ \A s \in Students :
                 \/ rows'[s] = rows[s]
                 \/ Committing(p) /\ s = Id(p) /\ rows'[s] = draft[p]
<1>1. CASE Receive(p) \/ Reject(p) \/ LookupPasses(p) \/ ReadRow(p) \/ WriteRow(p)
  BY <1>1 DEF Receive, Reject, LookupPasses, ReadRow, WriteRow, VersionsTaken, db, TypeOK
<1>2. CASE Committing(p)
  BY <1>2 DEF Committing, Install, TypeOK
<1>3. CASE Failing(p)
  BY <1>3 DEF Failing, Untouched, TypeOK
<1> QED
  BY <1>1, <1>2, <1>3, StepKinds

(* A row lock stays with the transaction that changed the row.             *)
LEMMA LockStep ==
    ASSUME TypeOK, ArrivedInv, LockInv, NEW p \in Requests, Step(p)
    PROVE  LockInv'
<1> SUFFICES ASSUME NEW s \in Students, NEW q \in Requests
             PROVE  lock'[s] = q <=> (pc'[q] = "commit" /\ Id(q)' = s)
  BY DEF LockInv
<1>0. /\ lock[s] = q <=> (pc[q] = "commit" /\ Id(q) = s)
      /\ lock[s] = p <=> (pc[p] = "commit" /\ Id(p) = s)
  BY DEF LockInv
<1>1. CASE Receive(p) \/ Reject(p) \/ LookupPasses(p) \/ ReadRow(p)
  <2>1. lock' = lock /\ pc[p] # "commit" /\ pc'[p] # "commit"
    BY <1>1 DEF Receive, Reject, Answer, LookupPasses, ReadRow, db, TypeOK
  <2> QED
    BY <2>1, <1>0, OthersKeep
<1>2. CASE WriteRow(p)
  <2>1. /\ lock[Id(p)] = None /\ lock' = [lock EXCEPT ![Id(p)] = p]
        /\ pc'[p] = "commit" /\ Id(p)' = Id(p)
    BY <1>2 DEF WriteRow, RowFree, Id, TypeOK
  <2>2. CASE q = p
    BY <2>1, <2>2, <1>0, <1>2 DEF WriteRow, TypeOK
  <2>3. CASE q # p
    <3>1. pc'[q] = pc[q] /\ Id(q)' = Id(q)
      BY <2>3, OthersKeep
    <3>2. CASE s = Id(p)
      BY <2>1, <2>3, <3>1, <3>2, <1>0, RequestsAssumption DEF TypeOK
    <3>3. CASE s # Id(p)
      BY <2>1, <3>1, <3>3, <1>0 DEF TypeOK
    <3> QED
      BY <3>2, <3>3
  <2> QED
    BY <2>2, <2>3
<1>3. CASE Committing(p) \/ Failing(p)
  <2>1. /\ lock'[s] = IF lock[s] = p THEN None ELSE lock[s]
        /\ pc'[p] # "commit"
    BY <1>3 DEF Committing, Failing, Ends, EndTransaction, Release
  <2>2. CASE q = p
    BY <2>1, <2>2, RequestsAssumption
  <2>3. CASE q # p
    BY <2>1, <2>3, <1>0, OthersKeep, RequestsAssumption
  <2> QED
    BY <2>2, <2>3
<1> QED
  BY <1>1, <1>2, <1>3, StepKinds

(* No row gets ahead of the rowversion counter.                            *)
LEMMA VersionStep ==
    ASSUME TypeOK, TypeOK', VersionInv, DraftInv, NEW p \in Requests, Step(p)
    PROVE  VersionInv'
<1> SUFFICES ASSUME NEW s \in Students PROVE rows'[s].version <= dbts'
  BY DEF VersionInv
<1>0. /\ rows[s].version \in Nat /\ rows'[s].version \in Nat
      /\ dbts \in Nat /\ dbts' \in Nat
  BY DEF TypeOK, Row
<1>a. dbts' >= dbts
  BY RowsMove
<1>1. CASE rows'[s] = rows[s]
  BY <1>0, <1>a, <1>1 DEF VersionInv
<1>2. CASE rows'[s] = draft[p] /\ Committing(p)
  <2>1. draft[p].version <= dbts
    BY <1>2 DEF Committing, DraftInv
  <2> QED
    BY <1>0, <1>a, <1>2, <2>1
<1> QED
  BY <1>1, <1>2, RowsMove

(* A committed draft has passed the CHECK constraint.                      *)
LEMMA BoundStep ==
    ASSUME TypeOK, DraftInv, FeeBoundHolds, NEW p \in Requests, Step(p)
    PROVE  FeeBoundHolds'
<1> SUFFICES ASSUME NEW s \in Students
             PROVE  Bounded(rows'[s].total, rows'[s].paid)
  BY DEF FeeBoundHolds
<1>1. CASE rows'[s] = rows[s]
  BY <1>1 DEF FeeBoundHolds
<1>2. CASE rows'[s] = draft[p] /\ Committing(p)
  BY <1>2 DEF Committing, DraftInv, Legal
<1> QED
  BY <1>1, <1>2, RowsMove

(* A row that changes after it was read has a larger version than the      *)
(* snapshot.                                                               *)
LEMMA SnapStep ==
    ASSUME TypeOK, ArrivedInv, ArrivedInv', SnapInv, DraftInv,
           NEW p \in Requests, Step(p)
    PROVE  SnapInv'
<1> SUFFICES ASSUME NEW q \in Requests, pc'[q] \in {"write", "commit"}
             PROVE  /\ snap'[q].version <= rows'[Id(q)'].version
                    /\ rows'[Id(q)'].version = snap'[q].version => snap'[q] = rows'[Id(q)']
                    /\ order'[q].ifMatch \in {None, snap'[q].version}
  BY DEF SnapInv, RowMatches
<1>1. CASE q = p
  <2>1. CASE ReadRow(p)
    <3>1. /\ rows[Id(p)] \in Row
          /\ rows' = rows /\ order' = order /\ snap'[p] = rows[Id(p)]
          /\ Id(p)' = Id(p)
          /\ IfMatchAccepted(p)
      BY <2>1 DEF ReadRow, ArrivedInv, Found, Id, db, TypeOK
    <3> QED
      BY <1>1, <3>1 DEF IfMatchAccepted, Row
  <2>2. CASE WriteRow(p)
    BY <1>1, <2>2 DEF WriteRow, SnapInv, RowMatches, Id
  <2>3. CASE Receive(p) \/ Reject(p) \/ LookupPasses(p) \/ Committing(p) \/ Failing(p)
    BY <1>1, <2>3 DEF Receive, Reject, Answer, LookupPasses, Committing, Failing, Ends, TypeOK
  <2> QED
    BY <2>1, <2>2, <2>3, StepKinds
<1>2. CASE q # p
  <2>1. /\ pc[q] \in {"write", "commit"} /\ Id(q)' = Id(q)
        /\ snap'[q] = snap[q] /\ order'[q] = order[q]
    BY <1>2, OthersKeep
  <2>2. Id(q) \in Students /\ snap[q] \in Row /\ rows[Id(q)] \in Row
    BY <2>1 DEF ArrivedInv, Found, TypeOK
  <2>3. /\ snap[q].version <= rows[Id(q)].version
        /\ rows[Id(q)].version = snap[q].version => snap[q] = rows[Id(q)]
        /\ order[q].ifMatch \in {None, snap[q].version}
    BY <2>1 DEF SnapInv, RowMatches
  <2>4. CASE rows'[Id(q)] = rows[Id(q)]
    BY <2>1, <2>3, <2>4
  <2>5. CASE Committing(p) /\ Id(q) = Id(p) /\ rows'[Id(q)] = draft[p]
    <3>1. rows[Id(q)].version < draft[p].version /\ draft[p] \in Row
      BY <2>5 DEF Committing, DraftInv, ArrivedInv, TypeOK
    <3> QED
      BY <2>1, <2>2, <2>3, <2>5, <3>1 DEF Row
  <2> QED
    BY <2>2, <2>4, <2>5, RowsMove
<1> QED
  BY <1>1, <1>2

(* While a transaction holds the lock nobody else changes its row.         *)
LEMMA DraftStep ==
    ASSUME TypeOK, ArrivedInv, LockInv, VersionInv, SnapInv, DraftInv,
           NEW p \in Requests, Step(p), TypeOK'
    PROVE  DraftInv'
<1> SUFFICES ASSUME NEW q \in Requests, pc'[q] = "commit"
             PROVE  /\ snap'[q] = rows'[Id(q)']
                    /\ draft'[q] = [NewRow(q)' EXCEPT !.version = draft'[q].version]
                    /\ rows'[Id(q)'].version < draft'[q].version
                    /\ draft'[q].version <= dbts'
                    /\ Legal(draft'[q])
  BY DEF DraftInv
<1>1. CASE q = p
  <2>1. WriteRow(p)
    BY <1>1, StepKinds
       DEF Receive, Reject, Answer, LookupPasses, ReadRow, Committing, Failing, Ends, TypeOK
  <2>2. /\ order[p] # None /\ snap[p] # None /\ Id(p) \in Students
        /\ rows[Id(p)] \in Row /\ dbts \in Nat
    BY <2>1 DEF WriteRow, ArrivedInv, Found, Running, TypeOK
  <2>3. snap[p] = rows[Id(p)]
    BY <2>1 DEF WriteRow, SnapInv
  <2>4. /\ rows' = rows /\ snap' = snap /\ order' = order
        /\ Id(p)' = Id(p) /\ NewRow(p)' = NewRow(p)
        /\ dbts' = dbts + 2
        /\ draft'[p] = [NewRow(p) EXCEPT !.version = dbts']
        /\ Legal(NewRow(p))
    BY <2>1 DEF WriteRow, Id, NewRow, VersionsTaken, TypeOK
  <2>5. NewRow(p) \in Row
    BY <2>2, NewRowType
  <2>6. /\ draft'[p].version = dbts'
        /\ draft'[p].total = NewRow(p).total
        /\ draft'[p].paid = NewRow(p).paid
    BY <2>4, <2>5 DEF Row
  <2>7. rows[Id(p)].version <= dbts
    BY <2>2 DEF VersionInv
  <2> QED
    BY <1>1, <2>2, <2>3, <2>4, <2>6, <2>7 DEF Legal, Row
<1>2. CASE q # p
  <2>1. /\ pc[q] = "commit" /\ Id(q)' = Id(q)
        /\ snap'[q] = snap[q] /\ order'[q] = order[q] /\ draft'[q] = draft[q]
    BY <1>2, OthersKeep
  <2>2. NewRow(q)' = NewRow(q)
    BY <2>1 DEF NewRow
  <2>3. Id(q) \in Students /\ draft[q] \in Row
    BY <2>1 DEF ArrivedInv, Found, TypeOK
  <2>4. rows'[Id(q)] = rows[Id(q)]
    <3>1. ~(Committing(p) /\ Id(q) = Id(p))
      BY <1>2, <2>1, <2>3 DEF Committing, LockInv
    <3> QED
      BY <2>3, <3>1, RowsMove
  <2>5. dbts' >= dbts /\ dbts \in Nat /\ dbts' \in Nat
    BY RowsMove DEF TypeOK
  <2>6. /\ snap[q] = rows[Id(q)]
        /\ draft[q] = [NewRow(q) EXCEPT !.version = draft[q].version]
        /\ rows[Id(q)].version < draft[q].version
        /\ draft[q].version <= dbts
        /\ Legal(draft[q])
    BY <2>1 DEF DraftInv
  <2> QED
    BY <2>1, <2>2, <2>3, <2>4, <2>5, <2>6 DEF Row
<1> QED
  BY <1>1, <1>2

(* A commit moves the row past the token it was accepted with.             *)
LEMMA TokenStep ==
    ASSUME TypeOK, TypeOK', ArrivedInv, SnapInv, DraftInv, TokenInv,
           NEW p \in Requests, Step(p)
    PROVE  TokenInv'
<1> SUFFICES ASSUME NEW q \in Requests
             PROVE  /\ order'[q] = None => commits'[q] = 0
                    /\ Conditional(q)' =>
                          /\ commits'[q] <= 1
                          /\ commits'[q] > 0 =>
                                Found(q)' /\ order'[q].ifMatch < rows'[Id(q)'].version
  BY DEF TokenInv
<1>1. CASE q = p /\ Receive(p)
  <2>1. commits'[p] = 0
    BY <1>1 DEF Receive, ArrivedInv, TokenInv
  <2> QED
    BY <1>1, <2>1
<1>2. CASE q = p /\ Committing(p)
  <2>1. /\ order' = order /\ commits'[p] = commits[p] + 1
        /\ order[p] # None /\ Id(p) \in Students
        /\ rows'[Id(p)] = draft[p] /\ Id(p)' = Id(p)
    BY <1>2 DEF Committing, Install, ArrivedInv, Found, Id, Running, TypeOK
  <2>2. /\ snap[p] = rows[Id(p)] /\ rows[Id(p)] \in Row
        /\ rows[Id(p)].version < draft[p].version
        /\ order[p].ifMatch \in {None, snap[p].version}
    BY <1>2, <2>1 DEF Committing, DraftInv, SnapInv, TypeOK
  <2>3. ASSUME Conditional(p) PROVE commits[p] = 0 /\ order[p].ifMatch < draft[p].version
    <3>1. order[p].ifMatch = rows[Id(p)].version
      BY <2>2, <2>3 DEF Conditional
    <3>2. rows[Id(p)].version \in Nat /\ commits[p] \in Nat
      BY <2>2 DEF Row, TypeOK
    <3>3. commits[p] > 0 => order[p].ifMatch < rows[Id(p)].version
      BY <2>3 DEF TokenInv
    <3> QED
      BY <2>2, <3>1, <3>2, <3>3
  <2> QED
    BY <1>2, <2>1, <2>3 DEF Conditional, Found
<1>3. CASE q # p \/ ~(Receive(p) \/ Committing(p))
  <2>1. order'[q] = order[q] /\ commits'[q] = commits[q] /\ Id(q)' = Id(q)
    BY <1>3, OthersKeep, StepKinds
       DEF Reject, LookupPasses, ReadRow, WriteRow, Failing, Untouched, Id
  <2>2. ASSUME Conditional(q), commits[q] > 0
        PROVE  Found(q) /\ order[q].ifMatch < rows'[Id(q)].version
    <3>1. Found(q) /\ order[q].ifMatch < rows[Id(q)].version
      BY <2>2 DEF TokenInv
    <3>2. /\ rows[Id(q)].version \in Nat /\ rows'[Id(q)].version \in Nat
          /\ order[q].ifMatch \in Nat
      BY <2>2, <3>1 DEF Found, Conditional, Order, TypeOK, Row
    <3>3. CASE rows'[Id(q)] = rows[Id(q)]
      BY <3>1, <3>3
    <3>4. CASE Committing(p) /\ Id(q) = Id(p) /\ rows'[Id(q)] = draft[p]
      <4>1. rows[Id(q)].version < draft[p].version
        BY <3>4 DEF Committing, DraftInv
      <4> QED
        BY <3>1, <3>2, <3>4, <4>1
    <3> QED
      BY <3>1, <3>3, <3>4, RowsMove DEF Found
  <2> QED
    BY <2>1, <2>2 DEF TokenInv, Conditional, Found
<1> QED
  BY <1>1, <1>2, <1>3
-----------------------------------------------------------------------------
(* The invariant is inductive.                                             *)
LEMMA StepInv ==
    ASSUME Inv, [Next]_vars
    PROVE  Inv'
<1>1. CASE \E p \in Requests : Step(p)
  <2>1. PICK p \in Requests : Step(p)
    BY <1>1
  <2>2. TypeOK'
    BY <2>1, TypeStep DEF Inv, IInv
  <2>3. ArrivedInv'
    BY <2>1, <2>2, ArrivedStep DEF Inv, IInv
  <2>4. LockInv' /\ FeeBoundHolds'
    BY <2>1, LockStep, BoundStep DEF Inv, IInv
  <2>5. VersionInv' /\ DraftInv' /\ TokenInv'
    BY <2>1, <2>2, VersionStep, DraftStep, TokenStep DEF Inv, IInv
  <2>6. SnapInv'
    BY <2>1, <2>3, SnapStep DEF Inv, IInv
  <2> QED
    BY <2>2, <2>3, <2>4, <2>5, <2>6 DEF Inv, IInv
<1>2. CASE UNCHANGED vars
  BY <1>2 DEF vars, Inv, IInv, TypeOK, ArrivedInv, LockInv, VersionInv, SnapInv,
              DraftInv, TokenInv, FeeBoundHolds, Found, Id, NewRow, RowMatches,
              Conditional
<1> QED
  BY <1>1, <1>2 DEF Next, Terminated

(* The inductive invariant: the lock is held by the transaction that       *)
(* changed the row, a draft was computed from the row it will replace, and *)
(* a token that was used is behind its row.                                *)
THEOREM Invariance == Spec => []Inv
BY InitInv, StepInv, PTL DEF Spec

(* Every variable keeps its type, attempts stay below MaxAttempts.         *)
THEOREM TypeCorrect == Spec => []TypeOK
<1>1. Inv => TypeOK
  BY DEF Inv
<1> QED
  BY <1>1, Invariance, PTL

(* Whatever the requests and their interleaving, a committed row satisfies *)
(* paid <= 1.5 * total after rounding.                                     *)
THEOREM BoundAlwaysHolds == Spec => []FeeBoundHolds
<1>1. Inv => FeeBoundHolds
  BY DEF Inv, IInv
<1> QED
  BY <1>1, Invariance, PTL

(* For any number of attempts and of lost commit acknowledgements, a       *)
(* request with If-Match is applied at most once.                          *)
THEOREM ConditionalAtMostOnce == Spec => []AppliedAtMostOnce
<1>1. Inv => AppliedAtMostOnce
  BY DEF Inv, IInv, TokenInv, AppliedAtMostOnce
<1> QED
  BY <1>1, Invariance, PTL

(* The draft a committing transaction installs, in terms of the row it     *)
(* replaces.                                                               *)
LEMMA DraftReplaces ==
    ASSUME Inv, NEW p \in Requests, Committing(p)
    PROVE  /\ order[p] # None /\ Found(p) /\ reply[p] = None
           /\ draft[p] = [Stored(Merge(rows[Id(p)], order[p].body))
                             EXCEPT !.version = draft[p].version]
           /\ draft[p] \in Row
           /\ Replaces(p, rows[Id(p)], draft[p])
<1>1. pc[p] = "commit"
  BY DEF Committing
<1>2. order[p] # None /\ Found(p) /\ reply[p] = None /\ snap[p] # None
  BY <1>1 DEF Inv, IInv, ArrivedInv, Running
<1>3. /\ snap[p] = rows[Id(p)]
      /\ draft[p] = [NewRow(p) EXCEPT !.version = draft[p].version]
      /\ rows[Id(p)].version < draft[p].version
  BY <1>1 DEF Inv, IInv, DraftInv
<1>4. order[p].ifMatch \in {None, rows[Id(p)].version}
  BY <1>1, <1>3 DEF Inv, IInv, SnapInv
<1>5. /\ Merge(snap[p], order[p].body) \in Row
      /\ NewRow(p) \in Row
      /\ draft[p] \in Row
  BY <1>1, <1>2, NewRowType DEF Inv, IInv, ArrivedInv, TypeOK
<1>6. /\ NewRow(p).total = Cents(Given(order[p].body.total, snap[p].total))
      /\ NewRow(p).paid = Cents(Given(order[p].body.paid, snap[p].paid))
      /\ NewRow(p).due = Given(order[p].body.due, snap[p].due)
  BY <1>5, StoredType DEF NewRow, Merge
<1>7. /\ draft[p].total = NewRow(p).total
      /\ draft[p].paid = NewRow(p).paid
      /\ draft[p].due = NewRow(p).due
  BY <1>3, <1>5 DEF Row
<1>8. Replaces(p, rows[Id(p)], draft[p])
  BY <1>3, <1>4, <1>6, <1>7 DEF Replaces
<1> QED
  BY <1>2, <1>3, <1>5, <1>8 DEF NewRow

(* No committed change is lost: every change of a row is one request's     *)
(* commit, computed from the row it replaces.                              *)
THEOREM NothingLost == Spec => NoLostUpdate
<1>1. ASSUME Inv, [Next]_vars
      PROVE  [\A s \in Students : rows'[s] # rows[s] =>
                 \E p \in Requests :
                    /\ pc[p] = "commit"
                    /\ Id(p) = s
                    /\ Replaces(p, rows[s], rows'[s])]_vars
  <2>1. CASE \E p \in Requests : Step(p)
    <3>1. PICK p \in Requests : Step(p)
      BY <2>1
    <3>2. ASSUME NEW s \in Students, rows'[s] # rows[s]
          PROVE  pc[p] = "commit" /\ Id(p) = s /\ Replaces(p, rows[s], rows'[s])
      <4>1. Committing(p) /\ s = Id(p) /\ rows'[s] = draft[p]
        BY <1>1, <3>1, <3>2, RowsMove DEF Inv
      <4> QED
        BY <1>1, <4>1, DraftReplaces DEF Committing
    <3> QED
      BY <3>2
  <2>2. CASE UNCHANGED vars
    BY <2>2
  <2> QED
    BY <1>1, <2>1, <2>2 DEF Next, Terminated
<1> QED
  BY <1>1, Invariance, PTL DEF Spec, NoLostUpdate
-----------------------------------------------------------------------------
(* The register's operators are the ones of this module.                   *)
LEMMA RecordOperators ==
    /\ \A row : Record!Stored(row) = Stored(row)
    /\ \A row, body : Record!Merge(row, body) = Merge(row, body)
    /\ \A row : Record!Legal(row) = Legal(row)
    /\ Record!Codes = Codes
BY DEF Record!Stored, Stored, Record!Cents, Cents, Record!Merge, Merge,
       Record!Given, Given, Record!Legal, Legal, Record!Bounded, Bounded,
       Record!Codes, Codes, Record!Exceptions, Exceptions,
       Record!MapException, MapException, Record!EarlyRefusals, EarlyRefusals

(* A commit is one Apply of the register, an answered refusal one Refuse,  *)
(* an arrival one Submit; every other step stutters.                       *)
LEMMA RecordStep ==
    ASSUME Inv, NEW p \in Requests, Step(p)
    PROVE  Record!Next \/ UNCHANGED <<rows, order, reply>>
<1>0. /\ order[p] # None => order[p] \in Order
      /\ TypeOK /\ ArrivedInv
  BY DEF Inv, IInv, TypeOK
<1>1. CASE Receive(p)
  <2>1. PICK id \in Ids, body \in Bodies : \E ifMatch \in Tokens(id) :
           order' = [order EXCEPT ![p] = [id |-> id, body |-> body, ifMatch |-> ifMatch]]
    BY <1>1 DEF Receive
  <2>2. Tokens(id) \subseteq Nat \cup {None}
    BY <1>0 DEF Tokens, TypeOK, Row
  <2>3. order'[p] \in Record!Order /\ order' = [order EXCEPT ![p] = order'[p]]
    BY <1>0, <2>1, <2>2 DEF Record!Order, TypeOK
  <2>4. order[p] = None /\ UNCHANGED <<rows, reply>>
    BY <1>0, <1>1 DEF Receive, ArrivedInv, db
  <2> QED
    BY <2>3, <2>4 DEF Record!Submit, Record!Next
<1>2. CASE Reject(p)
  <2>1. PICK code \in Codes : Answer(p, code, None) /\ code # "STUDENT_NOT_FOUND"
    BY <1>2, CodeType DEF Reject, Codes, Exceptions, EarlyRefusals
  <2>2. UNCHANGED <<rows, order>> /\ reply[p] = None
    BY <1>0, <1>2 DEF Reject, ArrivedInv, db
  <2>3. Record!Refuse(p)
    BY <2>1, <2>2, RecordOperators DEF Answer, Record!Refuse, Record!Pending
  <2> QED
    BY <2>3 DEF Record!Next
<1>3. CASE LookupPasses(p) \/ ReadRow(p) \/ WriteRow(p)
  BY <1>3 DEF LookupPasses, ReadRow, WriteRow, db
<1>4. CASE Committing(p)
  <2>1. /\ order[p] # None /\ Found(p) /\ reply[p] = None
        /\ draft[p] \in Row
        /\ draft[p] = [Stored(Merge(rows[Id(p)], order[p].body))
                             EXCEPT !.version = draft[p].version]
        /\ order[p].ifMatch \in {None, rows[Id(p)].version}
        /\ draft[p].version > rows[Id(p)].version
    BY <1>4, DraftReplaces DEF Replaces
  <2>2. Legal(draft[p])
    BY <1>4 DEF Committing, Inv, IInv, DraftInv
  <2>3. /\ rows' = [rows EXCEPT ![Id(p)] = draft[p]]
        /\ rows'[Id(p)] = draft[p]
        /\ order' = order
    BY <1>0, <1>4, <2>1 DEF Committing, Install, Found, TypeOK
  <2>4. Record!Acknowledge(p, draft[p])
    BY <1>4 DEF Committing, Record!Acknowledge
  <2>5. Record!Apply(p)
    BY <2>1, <2>2, <2>3, <2>4, RecordOperators
       DEF Record!Apply, Record!Pending, Record!Holds, Found, Id
  <2> QED
    BY <2>5 DEF Record!Next
<1>5. CASE Failing(p)
  <2>1. UNCHANGED <<rows, order>>
    BY <1>5 DEF Failing, Untouched
  <2>2. CASE reply' = reply
    BY <2>1, <2>2
  <2>3. CASE reply' # reply
    <3>1. PICK exc \in Exceptions :
             /\ reply' = [reply EXCEPT ![p] = [code |-> MapException(exc), row |-> None]]
             /\ exc = "StudentNotFoundError" => ~Found(p)
      BY <1>5, <2>3 DEF Failing, Ends
    <3>2. order[p] # None /\ reply[p] = None
      BY <1>0, <1>5 DEF Failing, Ends, ArrivedInv
    <3>3. Record!Refuse(p)
      BY <2>1, <3>1, <3>2, CodeType, RecordOperators
         DEF Record!Refuse, Record!Pending, Found, Id
    <3> QED
      BY <3>3 DEF Record!Next
  <2> QED
    BY <2>2, <2>3
<1> QED
  BY <1>0, <1>1, <1>2, <1>3, <1>4, <1>5, StepKinds

(* The handler with its transaction, row lock, lost acknowledgements and   *)
(* retries implements the atomic conditional register FeeRecord.           *)
THEOREM Refinement == Spec => ImplementsRecord
<1>1. Init => Record!Init
  BY DEF Init, Record!Init
<1>2. ASSUME Inv, [Next]_vars
      PROVE  [Record!Next]_(Record!vars)
  <2>1. CASE \E p \in Requests : Step(p)
    BY <1>2, <2>1, RecordStep DEF Record!vars
  <2>2. CASE UNCHANGED vars
    BY <2>2 DEF vars, Record!vars
  <2> QED
    BY <1>2, <2>1, <2>2 DEF Next, Terminated
<1> QED
  BY <1>1, <1>2, Invariance, PTL DEF Spec, ImplementsRecord, Record!Spec
-----------------------------------------------------------------------------
(* The row of a 200 answer, as long as its writer is the last one.         *)
EtagInv ==
    \A p \in Requests : Answered(p, "OK") =>
        Found(p) /\ (writer[Id(p)] = p => rows[Id(p)] = reply[p].row)

(* The only OK answers are those of a commit, with the row it installs;    *)
(* a later change of the row has another writer.                           *)
LEMMA EtagStep ==
    ASSUME Inv, EtagInv, NEW p \in Requests, Step(p)
    PROVE  EtagInv'
<1>0. TypeOK /\ ArrivedInv
  BY DEF Inv, IInv
<1>1. ASSUME NEW q \in Requests, q # p, Answered(q, "OK")'
      PROVE  Found(q)' /\ (writer'[Id(q)'] = q => rows'[Id(q)'] = reply'[q].row)
  <2>1. /\ reply'[q] = reply[q] /\ Id(q)' = Id(q)
    BY <1>0, <1>1, OthersKeep
  <2>2. Found(q) /\ (writer[Id(q)] = q => rows[Id(q)] = reply[q].row)
    BY <1>1, <2>1 DEF EtagInv, Answered
  <2>3. CASE Committing(p)
    <3>1. CASE Id(q) = Id(p)
      BY <1>0, <1>1, <2>1, <2>2, <2>3, <3>1 DEF Committing, Install, Found, TypeOK
    <3>2. CASE Id(q) # Id(p)
      BY <1>0, <2>1, <2>2, <2>3, <3>2 DEF Committing, Install, Found, TypeOK
    <3> QED
      BY <3>1, <3>2
  <2>4. CASE ~Committing(p)
    <3>1. writer' = writer /\ rows' = rows
      BY <1>0, <2>4, StepKinds DEF Receive, Reject, LookupPasses, ReadRow, WriteRow,
                                   Failing, Untouched, db
    <3> QED
      BY <2>1, <2>2, <3>1 DEF Found
  <2> QED
    BY <2>3, <2>4
<1>2. ASSUME Answered(p, "OK")'
      PROVE  Found(p)' /\ (writer'[Id(p)'] = p => rows'[Id(p)'] = reply'[p].row)
  <2>1. CASE Committing(p)
    <3>1. reply[p] = None /\ Found(p) /\ Id(p)' = Id(p)
      BY <1>0, <2>1 DEF Committing, Install, ArrivedInv, Running, Id
    <3>2. rows'[Id(p)] = draft[p]
      BY <1>0, <2>1, <3>1 DEF Committing, Install, Found, TypeOK
    <3>3. reply'[p].row = draft[p]
      BY <1>0, <1>2, <2>1, <3>1 DEF Committing, Answered, TypeOK
    <3> QED
      BY <3>1, <3>2, <3>3 DEF Found
  <2>2. CASE Receive(p) \/ LookupPasses(p) \/ ReadRow(p) \/ WriteRow(p)
    BY <1>0, <1>2, <2>2 DEF Receive, LookupPasses, ReadRow, WriteRow, Answered,
                            ArrivedInv, Running
  <2>3. CASE Reject(p) \/ Failing(p)
    <3>1. \A exc \in Exceptions : MapException(exc) # "OK"
      BY DEF Exceptions, MapException
    <3>2. reply'[p] = reply[p] \/ reply'[p].code # "OK"
      BY <1>0, <2>3, <3>1 DEF Reject, Answer, Failing, Ends, EarlyRefusals, Exceptions, TypeOK
    <3>3. reply[p] = None
      BY <1>0, <2>3 DEF Reject, Failing, Ends, ArrivedInv
    <3> QED
      BY <1>2, <3>2, <3>3 DEF Answered
  <2> QED
    BY <1>0, <2>1, <2>2, <2>3, StepKinds
<1> QED
  BY <1>1, <1>2 DEF EtagInv

(* The ETag of a 200 answer is good for the next conditional update until  *)
(* somebody else writes the row.                                           *)
THEOREM EtagAlwaysCurrent == Spec => []EtagIsCurrent
<1>1. Init => EtagInv
  BY DEF Init, EtagInv, Answered
<1>2. Inv /\ EtagInv /\ [Next]_vars => EtagInv'
  <2>1. CASE UNCHANGED vars
    BY <2>1 DEF vars, EtagInv, Answered, Found, Id
  <2> QED
    BY <2>1, EtagStep DEF Next, Terminated
<1>3. EtagInv => EtagIsCurrent
  BY DEF EtagInv, EtagIsCurrent
<1> QED
  BY <1>1, <1>2, <1>3, Invariance, PTL DEF Spec
-----------------------------------------------------------------------------
Refusing == {"INVALID_FEE_AMOUNTS", "STUDENT_NOT_FOUND"}
Refused(p) == reply[p] # None /\ reply[p].code \in Refusing

(* Nothing is committed before the lookup has passed, nor by a conditional *)
(* request that is then refused for its amounts or its id.                 *)
RefusalInv ==
    \A p \in Requests :
        /\ pc[p] \in {"idle", "lookup"} => commits[p] = 0
        /\ Conditional(p) /\ Refused(p) => commits[p] = 0

(* An exception answers with its own code or with nothing.                 *)
LEMMA RaiseReply ==
    ASSUME TypeOK, NEW p \in Requests, NEW exc \in Exceptions, Raise(p, exc), reply[p] = None
    PROVE  reply'[p] = None \/ reply'[p].code = MapException(exc)
BY DEF Raise, Retry, Answer, TypeOK

(* The only exceptions that answer with one of the two codes.              *)
LEMMA RefusingExceptions ==
    \A exc \in Exceptions : MapException(exc) \in Refusing =>
        exc \in {"FeeConstraintError", "StudentNotFoundError"}
BY DEF Exceptions, MapException, Refusing

(* Where a conditional request can be refused, its token still names the   *)
(* row, so it has not been applied.                                        *)
LEMMA RefusedUnapplied ==
    ASSUME Inv, RefusalInv, NEW p \in Requests, Step(p), Refused(p)', Conditional(p)
    PROVE  commits'[p] = 0
<1>0. TypeOK /\ ArrivedInv /\ TokenInv /\ SnapInv
  BY DEF Inv, IInv
<1>a. order[p] # None /\ order[p] \in Order /\ order[p].ifMatch \in Nat
  BY <1>0 DEF Conditional, Order, TypeOK
<1>b. ASSUME Found(p), order[p].ifMatch = rows[Id(p)].version
      PROVE  commits[p] = 0
  BY <1>0, <1>a, <1>b DEF TokenInv, TypeOK
<1>1. CASE Committing(p)
  BY <1>0, <1>1 DEF Committing, Refused, Refusing, ArrivedInv, Running, TypeOK
<1>2. CASE Receive(p) \/ Reject(p)
  BY <1>0, <1>2, <1>a DEF Receive, Reject, ArrivedInv
<1>3. CASE LookupPasses(p) \/ ReadRow(p) \/ WriteRow(p) \/ Lost(p)
  BY <1>0, <1>3 DEF LookupPasses, ReadRow, WriteRow, Lost, Refused, ArrivedInv, Running
<1>4. CASE LookupMissing(p) \/ LookupOutOfBound(p) \/ LookupFails(p)
  BY <1>4 DEF LookupMissing, LookupOutOfBound, LookupFails, Untouched, RefusalInv
<1>5. CASE ReadOutOfBound(p)
  <2>1. Found(p) /\ order[p].ifMatch = rows[Id(p)].version
    BY <1>0, <1>5, <1>a DEF ReadOutOfBound, IfMatchAccepted, ArrivedInv, Conditional
  <2> QED
    BY <1>5, <1>b, <2>1 DEF ReadOutOfBound, Untouched
<1>6. CASE WriteViolatesCheck(p)
  <2>1. Found(p) /\ order[p].ifMatch = rows[Id(p)].version
    BY <1>0, <1>6, <1>a DEF WriteViolatesCheck, RowMatches, SnapInv, ArrivedInv, Conditional
  <2> QED
    BY <1>6, <1>b, <2>1 DEF WriteViolatesCheck, Untouched
<1>7. CASE ReadStale(p) \/ WriteConflict(p) \/ WriteOverflow(p) \/ ReadFails(p)
           \/ TransactionFails(p)
  <2>1. PICK exc \in Exceptions :
           Raise(p, exc) /\ exc \notin {"FeeConstraintError", "StudentNotFoundError"}
    BY <1>7 DEF ReadStale, WriteConflict, WriteOverflow, ReadFails, TransactionFails,
                ConnectFailures, StatementFailures, Exceptions
  <2>2. reply[p] = None
    BY <1>0, <1>7 DEF ReadStale, WriteConflict, WriteOverflow, ReadFails,
                      TransactionFails, ArrivedInv, Running
  <2> QED
    BY <1>0, <2>1, <2>2, RaiseReply, RefusingExceptions DEF Refused
<1> QED
  BY <1>0, <1>1, <1>2, <1>3, <1>4, <1>5, <1>6, <1>7, CommitEffect
     DEF Step, Progress, Lookup, UpdateRead, UpdateWrite

(* Every step keeps RefusalInv.                                            *)
LEMMA RefusalStep ==
    ASSUME Inv, RefusalInv, NEW p \in Requests, Step(p)
    PROVE  RefusalInv'
<1>0. TypeOK /\ ArrivedInv
  BY DEF Inv, IInv
<1>1. ASSUME NEW q \in Requests, q # p
      PROVE  /\ pc'[q] \in {"idle", "lookup"} => commits'[q] = 0
             /\ Conditional(q)' /\ Refused(q)' => commits'[q] = 0
  BY <1>0, <1>1, OthersKeep DEF RefusalInv, Conditional, Refused
<1>2. pc'[p] \in {"idle", "lookup"} => commits'[p] = 0
  <2>1. CASE Committing(p)
    BY <2>1 DEF Committing
  <2>2. CASE ~Committing(p)
    <3>1. commits' = commits
      BY <2>2, <1>0, StepKinds DEF Receive, Reject, LookupPasses, ReadRow, WriteRow,
                                   Failing, Untouched
    <3>2. pc'[p] \in {"idle", "lookup"} => pc[p] \in {"idle", "lookup"}
      BY <2>2, <1>0, StepKinds DEF Receive, Reject, Answer, LookupPasses, ReadRow,
                                   WriteRow, Failing, Ends, TypeOK
    <3> QED
      BY <3>1, <3>2 DEF RefusalInv
  <2> QED
    BY <2>1, <2>2
<1>3. Conditional(p)' /\ Refused(p)' => commits'[p] = 0
  <2>1. CASE Receive(p)
    BY <1>0, <2>1 DEF Receive, RefusalInv
  <2>2. CASE ~Receive(p)
    <3>1. order' = order
      BY <2>2, <1>0, StepKinds DEF Reject, LookupPasses, ReadRow, WriteRow, Committing,
                                   Install, Failing, Untouched
    <3> QED
      BY <3>1, RefusedUnapplied DEF Conditional
  <2> QED
    BY <2>1, <2>2
<1> QED
  BY <1>1, <1>2, <1>3 DEF RefusalInv

(* Whatever attempts and lost acknowledgements came before, a conditional  *)
(* request refused for its amounts or its id has changed nothing.          *)
THEOREM RefusalsChangeNothing == Spec => []RefusalMeansUntouched
<1>1. Init => RefusalInv
  BY DEF Init, RefusalInv, Refused
<1>2. Inv /\ RefusalInv /\ [Next]_vars => RefusalInv'
  <2>1. CASE UNCHANGED vars
    BY <2>1 DEF vars, RefusalInv, Conditional, Refused
  <2> QED
    BY <2>1, RefusalStep DEF Next, Terminated
<1>3. RefusalInv => RefusalMeansUntouched
  BY DEF RefusalInv, RefusalMeansUntouched, Refused, Refusing, Answered
<1> QED
  BY <1>1, <1>2, <1>3, Invariance, PTL DEF Spec
-----------------------------------------------------------------------------
(* Each attempt of update_fee commits once at most, none before the first. *)
CountInv ==
    \A p \in Requests :
        /\ pc[p] \in {"idle", "lookup"} => commits[p] = 0
        /\ pc[p] \in {"read", "write", "commit"} => commits[p] <= attempt[p]
        /\ commits[p] <= attempt[p] + 1

(* A failure keeps the attempt or goes on to the next; a commit that leads *)
(* to another attempt counts it.                                           *)
LEMMA AttemptMoves ==
    ASSUME TypeOK, NEW p \in Requests, Step(p), ~LookupPasses(p)
    PROVE  /\ \/ attempt' = attempt
              \/ attempt' = [attempt EXCEPT ![p] = @ + 1]
           /\ Committing(p) /\ pc'[p] = "read" => attempt'[p] = attempt[p] + 1
<1>1. CASE Receive(p) \/ Reject(p) \/ ReadRow(p) \/ WriteRow(p)
  <2>1. attempt' = attempt
    BY <1>1 DEF Receive, Reject, Answer, ReadRow, WriteRow
  <2>2. ~(Committing(p) /\ pc'[p] = "read")
    BY <1>1 DEF Receive, Reject, ReadRow, WriteRow, Committing
  <2> QED
    BY <2>1, <2>2
<1>2. CASE Lost(p)
  BY <1>2 DEF Lost, TypeOK
<1>3. CASE Commit(p)
  BY <1>3 DEF Commit, Answer, TypeOK
<1>4. ASSUME NEW exc \in Exceptions, Raise(p, exc)
      PROVE  /\ \/ attempt' = attempt /\ pc'[p] = "done"
                \/ attempt' = [attempt EXCEPT ![p] = @ + 1]
             /\ pc'[p] = "read" => attempt'[p] = attempt[p] + 1
  <2>1. CASE Retry(p)
    BY <2>1 DEF Retry, TypeOK
  <2>2. CASE Answer(p, MapException(exc), None)
    BY <2>2 DEF Answer, TypeOK
  <2> QED
    BY <1>4, <2>1, <2>2 DEF Raise
<1>5. CASE CommitAckLost(p)
  BY <1>5, <1>4 DEF CommitAckLost, Exceptions
<1>6. CASE \/ LookupMissing(p) \/ LookupOutOfBound(p) \/ ReadStale(p)
           \/ ReadOutOfBound(p) \/ WriteConflict(p) \/ WriteOverflow(p)
           \/ WriteViolatesCheck(p) \/ LookupFails(p) \/ ReadFails(p)
           \/ TransactionFails(p)
  <2>1. PICK exc \in Exceptions : Raise(p, exc)
    BY <1>6 DEF LookupMissing, LookupOutOfBound, ReadStale, ReadOutOfBound,
                WriteConflict, WriteOverflow, WriteViolatesCheck, LookupFails,
                ReadFails, TransactionFails, ConnectFailures, StatementFailures,
                Exceptions
  <2> QED
    BY <2>1, <1>4
<1> QED
  BY <1>1, <1>2, <1>3, <1>5, <1>6 DEF Step, Progress, Lookup, UpdateRead, UpdateWrite

(* Every step keeps CountInv.                                              *)
LEMMA CountStep ==
    ASSUME Inv, TypeOK', CountInv, NEW p \in Requests, Step(p)
    PROVE  CountInv'
<1>0. TypeOK
  BY DEF Inv
<1> SUFFICES ASSUME NEW q \in Requests
             PROVE  /\ pc'[q] \in {"idle", "lookup"} => commits'[q] = 0
                    /\ pc'[q] \in {"read", "write", "commit"} => commits'[q] <= attempt'[q]
                    /\ commits'[q] <= attempt'[q] + 1
  BY DEF CountInv
<1>1. /\ pc[q] \in {"idle", "lookup"} => commits[q] = 0
      /\ pc[q] \in {"read", "write", "commit"} => commits[q] <= attempt[q]
      /\ commits[q] <= attempt[q] + 1
  BY DEF CountInv
<1>2. /\ commits[q] \in Nat /\ commits'[q] \in Nat
      /\ attempt[q] \in Nat /\ attempt'[q] \in Nat
  BY <1>0, MaxAttemptsAssumption DEF TypeOK
<1>3. CASE LookupPasses(p)
  BY <1>0, <1>1, <1>2, <1>3 DEF LookupPasses, TypeOK
<1>4. CASE ~LookupPasses(p) /\ q # p
  <2>1. attempt'[q] = attempt[q]
    BY <1>0, <1>4, AttemptMoves DEF TypeOK
  <2>2. pc'[q] = pc[q] /\ commits'[q] = commits[q]
    BY <1>0, <1>4, OthersKeep
  <2> QED
    BY <1>1, <2>1, <2>2
<1>5. CASE ~LookupPasses(p) /\ q = p /\ Committing(p)
  <2>1. /\ commits'[p] = commits[p] + 1
        /\ pc[p] = "commit" /\ pc'[p] \in {"read", "done"}
    BY <1>0, <1>5 DEF Committing, Install, TypeOK
  <2>2. attempt'[p] \in {attempt[p], attempt[p] + 1}
    BY <1>0, <1>5, AttemptMoves DEF TypeOK
  <2>3. pc'[p] = "read" => attempt'[p] = attempt[p] + 1
    BY <1>0, <1>5, AttemptMoves
  <2> QED
    BY <1>1, <1>2, <1>5, <2>1, <2>2, <2>3
<1>6. CASE ~LookupPasses(p) /\ q = p /\ ~Committing(p)
  <2>1. attempt'[p] \in {attempt[p], attempt[p] + 1}
    BY <1>0, <1>6, AttemptMoves DEF TypeOK
  <2>2. commits'[p] = commits[p]
    BY <1>0, <1>6, StepKinds DEF Receive, Reject, ReadRow, WriteRow, Failing, Untouched
  <2>3. /\ pc'[p] \in {"idle", "lookup"} => pc[p] \in {"idle", "lookup"}
        /\ pc'[p] \in {"read", "write", "commit"} => pc[p] \in {"read", "write", "commit"}
    BY <1>0, <1>6, StepKinds DEF Receive, Reject, Answer, ReadRow, WriteRow, Failing,
                                 Ends, TypeOK
  <2> QED
    BY <1>1, <1>2, <1>6, <2>1, <2>2, <2>3
<1> QED
  BY <1>3, <1>4, <1>5, <1>6

(* With or without If-Match, no request is applied more often than         *)
(* with_db_retry has attempts.                                             *)
THEOREM AttemptsBoundCommits == Spec => []AppliedAtMostPerAttempt
<1>1. Init => CountInv
  BY DEF Init, CountInv
<1>2. Inv /\ TypeOK' /\ CountInv /\ [Next]_vars => CountInv'
  <2>1. CASE UNCHANGED vars
    BY <2>1 DEF vars, CountInv
  <2> QED
    BY <2>1, CountStep DEF Next, Terminated
<1>3. Inv => TypeOK
  BY DEF Inv
<1>4. TypeOK /\ CountInv => AppliedAtMostPerAttempt
  <2> SUFFICES ASSUME TypeOK, CountInv, NEW p \in Requests
               PROVE  commits[p] <= MaxAttempts
    BY DEF AppliedAtMostPerAttempt
  <2>1. commits[p] <= attempt[p] + 1 /\ commits[p] \in Nat
    BY DEF CountInv, TypeOK
  <2>2. attempt[p] \in 0 .. MaxAttempts - 1 /\ MaxAttempts \in Nat
    BY MaxAttemptsAssumption DEF TypeOK
  <2> QED
    BY <2>1, <2>2
<1> QED
  BY <1>1, <1>2, <1>3, <1>4, Invariance, PTL DEF Spec
=============================================================================
