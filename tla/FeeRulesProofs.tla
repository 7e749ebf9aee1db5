--------------------------- MODULE FeeRulesProofs ---------------------------
(***************************************************************************)
(* Facts about the fee arithmetic, for every amount and every day: the     *)
(* three computations of the status agree, the fields of a details answer  *)
(* agree with each other, and rounding is harmless where the checks in     *)
(* Python pass and the table's constraint passes, but only there.          *)
(***************************************************************************)
EXTENDS FeeRules, TLAPS

(* The status Python computes from a row is the one the list query selects *)
(* and filters by, on one and the same day (payment_status.py:44,          *)
(* students_repository.py:28).                                             *)
THEOREM StatusesAgree ==
    ASSUME NEW row \in Row, NEW today \in Day
    PROVE  compute_payment_status(row.total, row.paid, row.due, today)
              = SqlStatus(row, today)
BY DEF compute_payment_status, SqlStatus

(* The reminder job selects exactly the rows whose status is Overdue       *)
(* (students_repository.py:271).                                           *)
THEOREM SelectionIsOverdue ==
    ASSUME NEW row \in Row, NEW today \in Day
    PROVE  OverdueSelected(row, today) <=> SqlStatus(row, today) = "Overdue"
BY DEF OverdueSelected, SqlStatus, Row, Amount, Day

(* A row once overdue stays overdue, on every later day, while nobody      *)
(* changes it.                                                             *)
THEOREM OverdueStays ==
    ASSUME NEW row \in Row, NEW today \in Day, NEW later \in Day,
           today <= later, SqlStatus(row, today) = "Overdue"
    PROVE  SqlStatus(row, later) = "Overdue"
BY DEF SqlStatus, Row, Amount, Day

(* What a details answer says of one row on one day is consistent          *)
(* (payment_status.py:21-76).                                              *)
THEOREM DetailsAgree ==
    ASSUME NEW total \in Amount, NEW paid \in Amount, NEW due \in Day, NEW today \in Day
    PROVE  LET status == compute_payment_status(total, paid, due, today)
               amount == compute_due_amount(total, paid)
               days   == compute_days_overdue(due, status, today)
           IN  /\ status \in PaymentStatus
               /\ amount \in Amount
               /\ (status = "Paid") <=> (amount = 0)
               /\ (status = "Overdue") <=> (days # None)
               /\ days # None => days \in Nat /\ days >= 1
<1> DEFINE status == compute_payment_status(total, paid, due, today)
<1>1. CASE paid >= total
  <2>1. status = "Paid"
    BY <1>1 DEF compute_payment_status
  <2>2. compute_due_amount(total, paid) = 0
    BY <1>1 DEF compute_due_amount, Amount
  <2>3. compute_days_overdue(due, status, today) = None
    BY <2>1 DEF compute_days_overdue
  <2> QED
    BY <2>1, <2>2, <2>3 DEF PaymentStatus, Amount
<1>2. CASE ~(paid >= total) /\ due < today
  <2>1. status = "Overdue"
    BY <1>2 DEF compute_payment_status
  <2>2. compute_due_amount(total, paid) \in Amount \ {0}
    BY <1>2 DEF compute_due_amount, Amount
  <2>3. compute_days_overdue(due, status, today) = today - due
    BY <2>1 DEF compute_days_overdue
  <2>4. today - due \in Nat /\ today - due >= 1 /\ today - due # None
    BY <1>2, NoneAssumption DEF Day
  <2> QED
    BY <2>1, <2>2, <2>3, <2>4 DEF PaymentStatus
<1>3. CASE ~(paid >= total) /\ ~(due < today)
  <2>1. status = "PartiallyPaid"
    BY <1>3 DEF compute_payment_status
  <2>2. compute_due_amount(total, paid) \in Amount \ {0}
    BY <1>3 DEF compute_due_amount, Amount
  <2>3. compute_days_overdue(due, status, today) = None
    BY <2>1 DEF compute_days_overdue
  <2> QED
    BY <2>1, <2>2, <2>3 DEF PaymentStatus
<1> QED
  BY <1>1, <1>2, <1>3

(* Rounding to cents keeps a row that was whole cents, so an update that   *)
(* leaves a field alone leaves it exactly.                                 *)
THEOREM RoundingIsStable ==
    ASSUME NEW amount \in Amount
    PROVE  /\ Cents(amount) \in Amount
           /\ Cents(Cents(amount)) = Cents(amount)
           /\ amount <= Cents(amount)
BY DEF Cents, Amount

(* With amounts in whole cents the check in Python and the constraint of   *)
(* the table accept the same updates: only a half-cent can make them       *)
(* differ (students_repository.py:324, 001_create_schema.sql:19).          *)
THEOREM ChecksAgreeOnCents ==
    ASSUME NEW row \in Row, row.total % 2 = 0, row.paid % 2 = 0
    PROVE  Legal(Stored(row)) <=> Bounded(row.total, row.paid)
BY DEF Legal, Stored, Cents, Row, Amount, Bounded

(* An update leaves a row that has the type of a row.                      *)
LEMMA MergeType ==
    ASSUME NEW row \in Row, NEW body \in Body
    PROVE  Merge(row, body) \in Row
BY NoneAssumption DEF Merge, Given, Row, Body, Amount, Day
=============================================================================
