--------------------------- MODULE MCStudentReads ---------------------------
(***************************************************************************)
(* Two students of different courses, the second not linked to an account, *)
(* and an id without a row.  One row falls due on day 0, so it is overdue  *)
(* from day 1; an edit overpays it or moves the due date.                  *)
(***************************************************************************)
EXTENDS StudentReads, TLC

CONSTANTS r1, r2, o1, o2, c1, c2

Fees(total, paid, due) == [total |-> total, paid |-> paid, due |-> due, version |-> 1]

MCSeedRows == 1 :> Fees(4, 2, 0) @@ 2 :> Fees(4, 0, 1)
MCSeedOwner == 1 :> o1 @@ 2 :> None
MCCourse == 1 :> c1 @@ 2 :> c2
MCEdits == {Fees(4, 6, 0), Fees(4, 2, 1)}
MCCallers ==
    {[roles |-> {"Student"}, oid |-> o1], [roles |-> {"Student"}, oid |-> None],
     [roles |-> {"Administrator"}, oid |-> None]}
MCQueries ==
    {[course |-> None, status |-> None, page |-> 2],
     [course |-> c1, status |-> None, page |-> 1],
     [course |-> None, status |-> "Overdue", page |-> 1]}
SameReaders == Permutations(Readers)
=============================================================================
