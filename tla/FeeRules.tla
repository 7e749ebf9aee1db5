------------------------------ MODULE FeeRules ------------------------------
(***************************************************************************)
(* The fee arithmetic of the system, as constant operators: the bound      *)
(* between paid and total, the merge of a partial update into a row, what  *)
(* DECIMAL(10,2) columns do to an amount when it is stored, and the        *)
(* payment status as Python and as SQL compute it.                         *)
(*                                                                         *)
(* Amounts are whole numbers of half-cents, so that a request may carry    *)
(* an amount the column must round (the request schema sets no scale).     *)
(* Dates are whole numbers of days.                                        *)
(***************************************************************************)
EXTENDS Integers

CONSTANTS
    None,       \* the absent value (Python None, a missing header, no owner)
    MaxAmount   \* the largest amount DECIMAL(10,2) holds, in half-cents

ASSUME MaxAmountAssumption == MaxAmount \in Nat

Amount == Nat
Day == Int
Row == [total : Amount, paid : Amount, due : Day, version : Nat]
Body == [total : Amount \cup {None}, paid : Amount \cup {None},
         due : Day \cup {None}]

ASSUME NoneAssumption == None \notin Int /\ None \notin Row

(* A request body must set at least one field. *)
NonEmpty(body) ==
    body.total # None \/ body.paid # None \/ body.due # None

(* paid <= total * 1.5, multiplied out. *)
Bounded(total, paid) == 2 * paid <= 3 * total

Given(new, old) == IF new # None THEN new ELSE old

(* The row an update means to leave: given fields replace, others stay. *)
Merge(row, body) ==
    [total   |-> Given(body.total, row.total),
     paid    |-> Given(body.paid, row.paid),
     due     |-> Given(body.due, row.due),
     version |-> row.version]

(* DECIMAL(10,2) keeps whole cents: a half-cent is rounded up. *)
Cents(amount) == amount + (amount % 2)
Stored(row) ==
    [total   |-> Cents(row.total),
     paid    |-> Cents(row.paid),
     due     |-> row.due,
     version |-> row.version]

Fits(row) == row.total <= MaxAmount /\ row.paid <= MaxAmount

(* Mutant: the table without CK_Students_PaidAmount_Bound. *)
NoBoundConstraint(row) == TRUE

(* The CHECK constraints on dbo.Students.  The two non-negative ones hold   *)
(* of every Amount.                                                         *)
Legal(row) == Bounded(row.total, row.paid)

-----------------------------------------------------------------------------
PaymentStatus == {"Paid", "PartiallyPaid", "Overdue"}

compute_payment_status(total, paid, due, today) ==
    IF paid >= total THEN "Paid"
    ELSE IF due < today THEN "Overdue" ELSE "PartiallyPaid"

(* Mutant: an overpayment shows as a negative amount due. *)
Outstanding(total, paid) == total - paid

compute_due_amount(total, paid) == IF total > paid THEN total - paid ELSE 0

compute_days_overdue(due, status, today) ==
    IF status = "Overdue" THEN today - due ELSE None

(* Mutant: overdue on the due date itself. *)
SqlStatusOnDueDate(row, utcToday) ==
    IF row.paid >= row.total THEN "Paid"
    ELSE IF row.due <= utcToday THEN "Overdue" ELSE "PartiallyPaid"

(* The CASE expression the list query selects and filters by. *)
SqlStatus(row, utcToday) ==
    IF row.paid >= row.total THEN "Paid"
    ELSE IF row.due < utcToday THEN "Overdue" ELSE "PartiallyPaid"

(* Mutant: the selection by due date alone. *)
SelectedPaidToo(row, utcToday) == row.due < utcToday

(* The WHERE clause of the overdue selection of the reminder job. *)
OverdueSelected(row, utcToday) == row.paid < row.total /\ row.due < utcToday
=============================================================================
