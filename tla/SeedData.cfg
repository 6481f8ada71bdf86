\* Dates and payments of one loan; two loans of a customer.
SPECIFICATION FewSpec
CONSTANTS
  c1 = c1
  p1 = p1
  Customers = {c1}
  Loans = {1}
  Payments = {p1}
  None = None
  Todays <- SomeDays
  NumLoans = {1, 2}
  Terms = {6, 12, 24, 120}
  Months = {1, 2, 3, 4, 5, 6, 11, 12, 13, 23}
  Since = {1, 24}
  OverdueDays = {5, 14, 15, 30, 31, 45, 46, 60, 74, 75, 76, 90, 105, 106, 120}
  MaxPaymentHistoryMonths = 4
INVARIANTS StatusMatchesPayments DatesInOrder PaymentsNotOlder RiskyHaveOverdue
CHECK_DEADLOCK FALSE
