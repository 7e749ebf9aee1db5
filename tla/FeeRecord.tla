----------------------------- MODULE FeeRecord ------------------------------
(***************************************************************************)
(* What the fee update promises its callers, without transactions, locks   *)
(* or retries: every row is a register that a request may change in one    *)
(* atomic step, computed from the row as it is in that step, only if the   *)
(* version the request holds is the row's, and only into a legal row with  *)
(* a larger version.                                                       *)
(***************************************************************************)
EXTENDS FeeRules, ApiErrors

CONSTANTS Requests, Students, Ids, Bodies, SeedRows

VARIABLES rows, order, reply

vars == <<rows, order, reply>>

Order == [id : Ids, body : Bodies, ifMatch : Nat \cup {None}]

Init ==
    /\ rows = SeedRows
    /\ order = [p \in Requests |-> None]
    /\ reply = [p \in Requests |-> None]

Submit(p) ==
    /\ order[p] = None
    /\ order'[p] \in Order
    /\ order' = [order EXCEPT ![p] = order'[p]]
    /\ UNCHANGED <<rows, reply>>

Pending(p) == reply[p] = None

Holds(p) ==
    /\ order[p].id \in Students
    /\ order[p].ifMatch \in {None, rows[order[p].id].version}

(* The answer to an applied update is the new row; it may also be lost, or *)
(* say only that the database was not reachable.                           *)
Acknowledge(p, row) ==
    \/ reply' = [reply EXCEPT ![p] = [code |-> "OK", row |-> row]]
    \/ reply' = [reply EXCEPT ![p] = [code |-> "SERVICE_UNAVAILABLE", row |-> None]]
    \/ UNCHANGED reply

(* How far the version moves is left open.                                 *)
Apply(p) ==
    LET id == order[p].id
        new == [Stored(Merge(rows[id], order[p].body))
                    EXCEPT !.version = rows'[id].version]
    IN  /\ order[p] # None
        /\ Pending(p)
        /\ Holds(p)
        /\ rows'[id].version > rows[id].version
        /\ Legal(new)
        /\ rows' = [rows EXCEPT ![id] = new]
        /\ Acknowledge(p, new)
        /\ UNCHANGED order

Refuse(p) ==
    /\ Pending(p)
    /\ \E code \in Codes :
          /\ code = "STUDENT_NOT_FOUND" =>
                order[p] # None /\ order[p].id \notin Students
          /\ reply' = [reply EXCEPT ![p] = [code |-> code, row |-> None]]
    /\ UNCHANGED <<rows, order>>

Next == \E p \in Requests : Submit(p) \/ Apply(p) \/ Refuse(p)

Spec == Init /\ [][Next]_vars
=============================================================================
