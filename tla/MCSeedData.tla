----------------------------- MODULE MCSeedData -----------------------------
(* SeedData for TLC: all of a single loan on days around short months, leap *)
(* days and the end of the year, and two loans on a plain day: open ones a  *)
(* month old, and every payment made when due.                              *)
EXTENDS SeedData

CONSTANTS c1, p1

Date(y, m, d) == [year |-> y, month |-> m, day |-> d]

PlainDay == Date(2026, 5, 15)

SomeDays ==
  {PlainDay, Date(2026, 3, 1), Date(2026, 3, 31), Date(2028, 2, 29),
   Date(2028, 3, 30), Date(2026, 12, 31), Date(2026, 7, 31), Date(2027, 1, 1)}

Plain(loan, payments) ==
  /\ loan.status # "closed" => loan.start = AddMonths(PlainDay, -1)
  /\ \A i \in DOMAIN payments : payments[i].paid \in {None, payments[i].due}

Few ==
  num > 1 => \A l \in DOMAIN loans : Plain(loans[l], history[l])

FewInit == SeedDataInit /\ (num > 1 => runDate = PlainDay)

FewSpec == FewInit /\ [][SeedDataNext /\ Few']_seedDataVars

=============================================================================
