---------------------------- MODULE MCFeeUpdate -----------------------------
(***************************************************************************)
(* Small instances of FeeUpdate.  Amounts are half-cents: the seed row has *)
(* a total of 4 cents and nothing paid.  With the bodies below two         *)
(* requests that are each legal alone are not legal together (total down,  *)
(* paid up), one amount (9) is within the bound until the column rounds    *)
(* it, one does not fit the column, and one sets total and paid together,  *)
(* so that a retried LowerTotal finds a row it no longer fits.             *)
(***************************************************************************)
EXTENDS FeeUpdate

CONSTANTS s1, s2, p1, p2

MCSeed == [s \in Students |-> [total |-> 8, paid |-> 0, due |-> 0, version |-> 1]]

Fee(total, paid, due) == [total |-> total, paid |-> paid, due |-> due]

LowerTotal == Fee(4, None, None)
RaisePaid  == Fee(None, 10, None)
MoveDue    == Fee(None, None, 1)
OddBound   == Fee(6, 9, None)
TooLarge   == Fee(90, 2, None)
Resettle   == Fee(8, 10, None)

AllBodies  == {LowerTotal, RaisePaid, MoveDue, OddBound, TooLarge, Resettle}
RaceBodies == {LowerTotal, RaisePaid}
=============================================================================
