------------------------------- MODULE LoanBook -------------------------------
(***************************************************************************)
(* The bank's data (app/database/models.py) and what the services compute   *)
(* from it (app/services/loan_service.py, app/services/analytics_service.py)*)
(*                                                                         *)
(* A book is one committed state of the three tables: which customers exist *)
(* and what they earn, which loans, which payments.  Money is counted in    *)
(* hundredths (the columns are Numeric(14, 2)), days from an arbitrary      *)
(* origin, a DTI ratio in hundredths of a percent.                          *)
(***************************************************************************)
EXTENDS Integers, FiniteSets, Functions

CONSTANTS
  Customers,  \* Customer.id
  Loans,      \* Loan.id
  Payments,   \* Payment.id
  None        \* Python's None

LoanStatus == {"active", "overdue", "closed"}

LoanRow == [customer : Customers, status : LoanStatus, monthlyPayment : Nat]

PaymentRow == [loan : Loans, due : Int, paid : BOOLEAN, late : BOOLEAN]

(* The tables' columns, primary keys and foreign keys; a table is finite.   *)
IsBook(b) ==
  /\ DOMAIN b.income \subseteq Customers
  /\ DOMAIN b.loan \subseteq Loans /\ IsFiniteSet(DOMAIN b.loan)
  /\ DOMAIN b.payment \subseteq Payments
  /\ \A c \in DOMAIN b.income : b.income[c] \in Nat
  /\ \A l \in DOMAIN b.loan :
        b.loan[l] \in LoanRow /\ b.loan[l].customer \in DOMAIN b.income
  /\ \A p \in DOMAIN b.payment :
        b.payment[p] \in PaymentRow /\ b.payment[p].loan \in DOMAIN b.loan

NoRows == [x \in {} |-> None]
EmptyBook == [income |-> NoRows, loan |-> NoRows, payment |-> NoRows]

-----------------------------------------------------------------------------
(* loan_service                                                             *)

Exists(b, c) == c \in DOMAIN b.income

GetActiveLoans(b, c) ==
  {l \in DOMAIN b.loan : /\ b.loan[l].customer = c
                         /\ b.loan[l].status \in {"active", "overdue"}}

GetAllLoans(b, c) == {l \in DOMAIN b.loan : b.loan[l].customer = c}

(* The join of get_overdue_payments.                                        *)
OverdueRows(b, c) ==
  {p \in DOMAIN b.payment :
     /\ b.payment[p].loan \in DOMAIN b.loan
     /\ b.loan[b.payment[p].loan].customer = c
     /\ b.loan[b.payment[p].loan].status = "overdue"
     /\ b.payment[p].late
     /\ ~b.payment[p].paid}

(* max((today - due_date).days, 0)                                          *)
DaysOverdue(due, today) == IF today > due THEN today - due ELSE 0

-----------------------------------------------------------------------------
(* analytics_service                                                        *)

(* Variants, which nothing below uses, stand before what they vary: a       *)
(* plausible slip in the code, named for what it does.                      *)
(* Variant: the integer below.                                              *)
FlooredQuotient(n, d) == n \div d

(* The integer nearest n/d, the even one of two: Python's round.            *)
RoundedQuotient(n, d) ==
  LET q == n \div d
      twice == 2 * (n % d)
  IN  IF twice > d \/ (twice = d /\ q % 2 = 1) THEN q + 1 ELSE q

(* round(total / income * 100, 2), exact but for halves that a binary float *)
(* cannot hold, where Python may round the other way.                       *)
ComputeDtiRatio(total, income) ==
  IF income <= 0 THEN 0 ELSE RoundedQuotient(10000 * total, income)

(* Variant: every loan counts.                                              *)
TotalOfAllLoans(b, c) ==
  LET selected == {l \in DOMAIN b.loan : b.loan[l].customer = c}
  IN  SumFunctionOnSet([l \in selected |-> b.loan[l].monthlyPayment], selected)

(* The sum of the monthly payments that calculate_dti's query selects.      *)
TotalMonthlyDebt(b, c) ==
  LET selected == {l \in DOMAIN b.loan :
                     /\ b.loan[l].customer = c
                     /\ b.loan[l].status \in {"active", "overdue"}}
  IN  SumFunctionOnSet([l \in selected |-> b.loan[l].monthlyPayment], selected)

=============================================================================
