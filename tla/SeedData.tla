------------------------------ MODULE SeedData ------------------------------
(***************************************************************************)
(* The data one run of the seed script makes up for a customer              *)
(* (app/database/seed.py), before Seed's statements write it: loan types    *)
(* under their caps, statuses, the dates of each loan, its payment history. *)
(* Whatever the script draws at random is a choice here, so what holds here *)
(* holds for every SEED.  The result is a book as LoanBook's queries read   *)
(* it; amounts of money are left out.                                       *)
(*                                                                         *)
(* A date is a record; payments hold the day number their date stands for.  *)
(***************************************************************************)
EXTENDS LoanBook, Sequences, FiniteSets

CONSTANTS
  Todays,       \* the dates the script may run on
  NumLoans,     \* how many loans a customer may get: 5..10 in the code
  Terms,        \* the terms considered, of those a loan type may have
  Months,       \* the elapsed months considered, of those an open loan may have
  Since,        \* the months since a closed loan's term considered, of 1..24
  OverdueDays,  \* the days overdue considered, of those a loan may have
  MaxPaymentHistoryMonths

Min2(a, b) == IF a < b THEN a ELSE b
Max2(a, b) == IF a > b THEN a ELSE b

-----------------------------------------------------------------------------
(* Python's calendar.                                                       *)

IsLeap(year) == year % 4 = 0 /\ (year % 100 # 0 \/ year % 400 = 0)

DaysIn(year, month) ==
  IF month = 2 /\ IsLeap(year) THEN 29
  ELSE <<31, 28, 31, 30, 31, 30, 31, 31, 30, 31, 30, 31>>[month]

ASSUME SeedDataAssumption ==
  /\ \A d \in Todays : /\ d \in [year : Nat, month : 1..12, day : 1..31]
                        /\ d.day <= DaysIn(d.year, d.month)
  /\ NumLoans \subseteq Nat \ {0}
  /\ MaxPaymentHistoryMonths \in Nat \ {0}
  /\ None \notin Int

DaysBefore(month) == <<0, 31, 59, 90, 120, 151, 181, 212, 243, 273, 304, 334>>[month]

DayNumber(d) ==
  LET past == d.year - 1
      leap == IF d.month > 2 /\ IsLeap(d.year) THEN 1 ELSE 0
  IN  365 * past + (past \div 4) - (past \div 100) + (past \div 400)
        + DaysBefore(d.month) + leap + d.day

AddMonths(d, months) ==
  LET index == d.month - 1 + months
      year == d.year + index \div 12
      month == (index % 12) + 1
  IN  [year |-> year, month |-> month, day |-> Min2(d.day, DaysIn(year, month))]

-----------------------------------------------------------------------------
LoanType == {"mortgage", "car", "consumer", "business", "credit_card"}

LoanTermMonthsRange(type) ==
  CASE type = "mortgage" -> 120..360
    [] type = "car" -> 24..72
    [] type = "consumer" -> 6..36
    [] type = "business" -> 12..60
    [] type = "credit_card" -> 12..24

CappedTypes == {"mortgage", "business", "car"}
LoanTypeCaps == [t \in CappedTypes |-> IF t = "car" THEN 2 ELSE 1]

VARIABLES
  runDate,   \* the script's today: date.today(), read once
  risky,     \* the customer's name is in RISKY_CUSTOMER_NAMES
  num,       \* num_loans
  caps,      \* remaining_caps
  types,     \* loan_types
  statuses,  \* statuses, empty until chosen
  loans,     \* the loans built
  history    \* the payments built for each of them

seedDataVars == <<runDate, risky, num, caps, types, statuses, loans, history>>

SeedDataInit ==
  /\ runDate \in Todays
  /\ risky \in BOOLEAN
  /\ num \in NumLoans
  /\ caps = LoanTypeCaps
  /\ types = <<>>
  /\ statuses = <<>>
  /\ loans = <<>>
  /\ history = <<>>

UseCap(type) == [caps EXCEPT ![type] = @ - 1]

(* The loop of choose_loan_types.  Its final shuffle adds no order that the *)
(* loop does not also produce.                                              *)
ChooseLoanType ==
  /\ Len(types) < num
  /\ \E type \in LoanType :
        /\ type \in CappedTypes => caps[type] > 0
        /\ types' = Append(types, type)
        /\ caps' = IF type \in CappedTypes THEN UseCap(type) ELSE caps
  /\ UNCHANGED <<runDate, risky, num, statuses, loans, history>>

(* Variants, which nothing below uses, stand before what they vary: a       *)
(* plausible slip in the code, named for what it does.                      *)
(* Variant: nobody sees to the risky customers.                             *)
AsDrawn(drawn) == drawn

WithOverdue(drawn) ==
  IF risky /\ \A i \in DOMAIN drawn : drawn[i] # "overdue"
    THEN [drawn EXCEPT ![1] = "overdue"]
    ELSE drawn

ChooseStatuses ==
  /\ Len(types) = num
  /\ statuses = <<>>
  /\ \E drawn \in [1..num -> LoanStatus] : statuses' = WithOverdue(drawn)
  /\ UNCHANGED <<runDate, risky, num, caps, types, loans, history>>

-----------------------------------------------------------------------------
(* How long an open loan of this term has run.                              *)
Elapsed(term) == 1..Max2(term - 1, 1)

DaysOverdueRange(elapsed) == 5..Max2(5, Min2(120, elapsed * 30))

(* Variant: a month begun is a month missed.                                *)
MonthsBegun(loan, months) ==
  IF loan.status = "overdue" THEN Min2((loan.daysOverdue \div 30) + 1, months) ELSE 0

(* Variant: no month is missed in the first fortnight.                      *)
RoundedMonths(loan, months) ==
  IF loan.status = "overdue"
    THEN Min2(RoundedQuotient(loan.daysOverdue, 30), months) ELSE 0

LateTail(loan, months) ==
  IF loan.status = "overdue"
    THEN Min2(Max2(1, RoundedQuotient(loan.daysOverdue, 30)), months) ELSE 0

(* Variant: one month too far.                                              *)
NextMonthIndex(elapsed, months) == elapsed - months + 2

FirstMonthIndex(elapsed, months) == elapsed - months + 1

IsUnpaidTail(i, months, tail) == i > months - tail

(* build_payment_history, delay giving the delay_days of each payment.      *)
PaymentHistory(loan, elapsed, months, delay) ==
  [i \in 1..months |->
     LET due == DayNumber(AddMonths(loan.start, FirstMonthIndex(elapsed, months) + i - 1))
     IN  IF IsUnpaidTail(i, months, LateTail(loan, months))
           THEN [due |-> due, paid |-> None, late |-> TRUE]
           ELSE [due |-> due, paid |-> due + delay[i], late |-> delay[i] > 0]]

(* The next loan, built with its payments and added to the session.         *)
AddLoan(start, term, elapsed, days) ==
  LET l == Len(loans) + 1
      loan == [type |-> types[l], status |-> statuses[l], start |-> start,
               end |-> AddMonths(start, term), daysOverdue |-> days]
      months == Min2(elapsed, MaxPaymentHistoryMonths)
  IN  /\ loans' = Append(loans, loan)
      /\ \E delay \in [1..months -> 0..2] :
            history' = Append(history, PaymentHistory(loan, elapsed, months, delay))
      /\ UNCHANGED <<runDate, risky, num, caps, types, statuses>>

Building(l) == statuses # <<>> /\ l = Len(loans) + 1 /\ l <= num

TermsOf(l) == Terms \cap LoanTermMonthsRange(types[l])

BuildClosedLoan(l) ==
  /\ Building(l)
  /\ statuses[l] = "closed"
  /\ \E term \in TermsOf(l), since \in Since \cap (1..24) :
        AddLoan(AddMonths(runDate, -term - since), term, term, 0)

BuildActiveLoan(l) ==
  /\ Building(l)
  /\ statuses[l] = "active"
  /\ \E term \in TermsOf(l) : \E elapsed \in Months \cap Elapsed(term) :
        AddLoan(AddMonths(runDate, -elapsed), term, elapsed, 0)

BuildOverdueLoan(l) ==
  /\ Building(l)
  /\ statuses[l] = "overdue"
  /\ \E term \in TermsOf(l) : \E elapsed \in Months \cap Elapsed(term) :
        \E days \in OverdueDays \cap DaysOverdueRange(elapsed) :
           AddLoan(AddMonths(runDate, -elapsed), term, elapsed, days)

SeedDataNext ==
  \/ ChooseLoanType
  \/ ChooseStatuses
  \/ \E l \in 1..num : BuildClosedLoan(l) \/ BuildActiveLoan(l) \/ BuildOverdueLoan(l)

SeedDataSpec == SeedDataInit /\ [][SeedDataNext]_seedDataVars

-----------------------------------------------------------------------------
(* Properties.                                                              *)

Done == Len(loans) = num

(* What the queries of LoanBook see of it, for one customer.                *)
Book(c) ==
  [income |-> [x \in {c} |-> 1],
   loan |-> [l \in DOMAIN loans |->
               [customer |-> c, status |-> loans[l].status, monthlyPayment |-> 1]],
   payment |-> [p \in {q \in (DOMAIN loans) \X (1..MaxPaymentHistoryMonths) :
                         q[2] \in DOMAIN history[q[1]]} |->
                  LET payment == history[p[1]][p[2]] IN
                  [loan |-> p[1], due |-> payment.due,
                   paid |-> payment.paid # None, late |-> payment.late]]]

DaysCounted(payment) == DaysOverdue(payment.due, DayNumber(runDate))

(* "These two are guaranteed at least one overdue loan each" (seed.py:38):  *)
(* and get_overdue_payments has something to list for them.                 *)
RiskyHaveOverdue ==
  Done /\ risky => \A c \in Customers : OverdueRows(Book(c), c) # {}

(* A loan's status and its payments tell one story: an overdue loan has     *)
(* unpaid payments, the last ones of its history, and no other loan has any *)
(* (seed.py:187-202).                                                       *)
StatusMatchesPayments ==
  \A l \in DOMAIN loans :
     LET unpaid == {i \in DOMAIN history[l] : history[l][i].paid = None} IN
     /\ loans[l].status = "overdue" <=> unpaid # {}
     /\ \A i \in unpaid, j \in DOMAIN history[l] : j > i => j \in unpaid

(* Month arithmetic back from today and forth again, over short months and  *)
(* leap days: payments are due once a month, after the loan started and not *)
(* later than today; an open loan ends after today, a closed one before     *)
(* (seed.py:80-85, 142-151, 191-194).                                       *)
DatesInOrder ==
  \A l \in DOMAIN loans :
     LET now == DayNumber(runDate)
         start == DayNumber(loans[l].start)
     IN  /\ \A i \in DOMAIN history[l] :
               /\ start < history[l][i].due /\ history[l][i].due <= now
               /\ i > 1 => history[l][i].due - history[l][i - 1].due \in 28..31
         /\ (DayNumber(loans[l].end) > now) <=> loans[l].status # "closed"

(* No payment of a loan is listed as more days overdue than the loan, whose *)
(* own number is drawn by the day and turned into months (seed.py:159-160,  *)
(* 189; loan_service.py:95).                                                *)
PaymentsNotOlder ==
  \A l \in DOMAIN loans : \A i \in DOMAIN history[l] :
     history[l][i].paid = None => DaysCounted(history[l][i]) <= loans[l].daysOverdue

=============================================================================
