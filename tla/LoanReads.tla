------------------------------ MODULE LoanReads ------------------------------
(***************************************************************************)
(* Reading the bank's data while it changes.  A reader is a database        *)
(* session: of an MCP tool (app/mcp_servers/server.py) or of the UI's       *)
(* sidebar (app/ui.py).  It sends its statements one after the other, each  *)
(* under READ COMMITTED, so each sees the last commit before it, while      *)
(* `seed --reset` (app/database/seed.py) commits an emptied and then a      *)
(* refilled database, and while midnight passes.                            *)
(***************************************************************************)
EXTENDS LoanBook, Sequences

CONSTANTS
  Readers,     \* database sessions
  Books,       \* what a seed may commit
  MaxCommits,  \* length of the commit history considered
  MaxToday     \* last day considered

ASSUME ReadsAssumption ==
  /\ \A b \in Books : IsBook(b)
  /\ MaxCommits \in Nat \ {0}
  /\ MaxToday \in Nat
  /\ None \notin Nat
  /\ Customers \cap Loans = {}

VARIABLES
  log,      \* every commit so far, the last one current
  today,    \* date.today()
  at,       \* each reader's next statement, "idle" or "done"
  op,       \* which operation it runs
  who,      \* its customer_id or loan_id
  since,    \* the commit that was current when it started
  shown,    \* the income of the profile a sidebar prints
  income,   \* the income calculate_dti has read
  table,    \* the Loan rows it has read
  rows,     \* the Payment rows it has read
  answer    \* what the operation returned

vars == <<log, today, at, op, who, since, shown, income, table, rows, answer>>
locals == <<op, who, since, shown, income, table, rows>>

(* The tools and the sidebar.  The prompts explain_dti and                  *)
(* summarize_overdue run calculate_dti and get_overdue_payments and put the *)
(* result in words.                                                         *)
Ops == {"get_active_loans", "get_loan_by_id", "get_overdue_payments",
        "calculate_dti", "get_customer_income", "get_customer_profile", "sidebar"}

(* What an operation may be asked for.                                      *)
Ids(o) == IF o = "get_loan_by_id" THEN Loans ELSE Customers

book == log[Len(log)]

NotFound == [found |-> FALSE]
DtiAnswer(total, inc) ==
  [found |-> TRUE, income |-> inc, total |-> total,
   ratio |-> ComputeDtiRatio(total, inc)]
DaysAnswer(days) == [found |-> TRUE, days |-> days]
IncomeAnswer(inc) == [found |-> TRUE, income |-> inc]
Listed == [found |-> TRUE]

-----------------------------------------------------------------------------
Init ==
  /\ log \in {<<b>> : b \in Books}
  /\ today = 0
  /\ at = [r \in Readers |-> "idle"]
  /\ op = [r \in Readers |-> None]
  /\ who = [r \in Readers |-> None]
  /\ since = [r \in Readers |-> 0]
  /\ shown = [r \in Readers |-> None]
  /\ income = [r \in Readers |-> None]
  /\ table = [r \in Readers |-> NoRows]
  /\ rows = [r \in Readers |-> NoRows]
  /\ answer = [r \in Readers |-> NotFound]

(* seed --reset: the deletes of the three tables are one commit ...         *)
Wipe ==
  /\ Len(log) < MaxCommits
  /\ book # EmptyBook
  /\ log' = Append(log, EmptyBook)
  /\ UNCHANGED <<today, at, locals, answer>>

(* ... and the inserts another; a database with customers is left alone.    *)
Fill(b) ==
  /\ Len(log) < MaxCommits
  /\ DOMAIN book.income = {}
  /\ log' = Append(log, b)
  /\ UNCHANGED <<today, at, locals, answer>>

DayPasses ==
  /\ today < MaxToday
  /\ today' = today + 1
  /\ UNCHANGED <<log, at, locals, answer>>

-----------------------------------------------------------------------------
FirstStatement(o) ==
  CASE o = "get_overdue_payments" -> "payments"
    [] o = "get_active_loans" -> "active"
    [] o = "get_loan_by_id" -> "loan"
    [] o = "calculate_dti" -> "income"
    [] OTHER -> "customer"

(* A new session begins an operation for a customer or a loan.              *)
Begin(r, o, c) ==
  /\ at[r] \in {"idle", "done"}
  /\ at' = [at EXCEPT ![r] = FirstStatement(o)]
  /\ op' = [op EXCEPT ![r] = o]
  /\ who' = [who EXCEPT ![r] = c]
  /\ since' = [since EXCEPT ![r] = Len(log)]
  /\ shown' = [shown EXCEPT ![r] = None]
  /\ income' = [income EXCEPT ![r] = None]
  /\ table' = [table EXCEPT ![r] = NoRows]
  /\ rows' = [rows EXCEPT ![r] = NoRows]
  /\ answer' = [answer EXCEPT ![r] = NotFound]
  /\ UNCHANGED <<log, today>>

(* session.get(Customer, ...) finds no row: a ToolError, or the sidebar's   *)
(* "not found".                                                             *)
CustomerMissing(r) ==
  /\ at[r] = "customer" \/ (at[r] = "income" /\ op[r] = "calculate_dti")
  /\ ~Exists(book, who[r])
  /\ at' = [at EXCEPT ![r] = "done"]
  /\ UNCHANGED <<log, today, locals, answer>>

(* The sidebar's get_customer_profile, which lets go of the Customer: the   *)
(* session, whose references are weak, does not keep it for calculate_dti.  *)
ReadProfile(r) ==
  /\ at[r] = "customer"
  /\ op[r] = "sidebar"
  /\ Exists(book, who[r])
  /\ shown' = [shown EXCEPT ![r] = book.income[who[r]]]
  /\ at' = [at EXCEPT ![r] = "loans"]
  /\ UNCHANGED <<log, today, op, who, since, income, table, rows, answer>>

(* calculate_dti's first statement, for the tool or after the sidebar's     *)
(* loans.                                                                   *)
ReadIncome(r) ==
  /\ at[r] = "income"
  /\ Exists(book, who[r])
  /\ income' = [income EXCEPT ![r] = book.income[who[r]]]
  /\ at' = [at EXCEPT ![r] = "debts"]
  /\ UNCHANGED <<log, today, op, who, since, shown, table, rows, answer>>

(* Variants, which nothing below uses, stand before what they vary: a       *)
(* plausible slip in the code, named for what it does.                      *)
(* Variant: no line for a customer without income, either.                  *)
DropLineOfZero(r) ==
  /\ at[r] = "income"
  /\ op[r] = "sidebar"
  /\ Exists(book, who[r]) => book.income[who[r]] = 0
  /\ answer' = [answer EXCEPT ![r] = Listed]
  /\ at' = [at EXCEPT ![r] = "done"]
  /\ UNCHANGED <<log, today, locals>>

(* The customer has gone since the profile: `dti is None`, and the sidebar  *)
(* leaves out the line.                                                     *)
DropDtiLine(r) ==
  /\ at[r] = "income"
  /\ op[r] = "sidebar"
  /\ ~Exists(book, who[r])
  /\ answer' = [answer EXCEPT ![r] = Listed]
  /\ at' = [at EXCEPT ![r] = "done"]
  /\ UNCHANGED <<log, today, locals>>

(* get_customer_income and get_customer_profile return what they find.      *)
ReadCustomer(r) ==
  /\ at[r] = "customer"
  /\ op[r] \in {"get_customer_income", "get_customer_profile"}
  /\ Exists(book, who[r])
  /\ answer' = [answer EXCEPT ![r] = IncomeAnswer(book.income[who[r]])]
  /\ at' = [at EXCEPT ![r] = "done"]
  /\ UNCHANGED <<log, today, locals>>

(* get_active_loans: the loans, none for a customer there is not.           *)
ReadActiveLoans(r) ==
  /\ at[r] = "active"
  /\ table' = [table EXCEPT ![r] = Restrict(book.loan, GetActiveLoans(book, who[r]))]
  /\ answer' = [answer EXCEPT ![r] = Listed]
  /\ at' = [at EXCEPT ![r] = "done"]
  /\ UNCHANGED <<log, today, op, who, since, shown, income, rows>>

(* get_loan_by_id: a ToolError if there is no row, else the row.            *)
LoanMissing(r) ==
  /\ at[r] = "loan"
  /\ who[r] \notin DOMAIN book.loan
  /\ at' = [at EXCEPT ![r] = "done"]
  /\ UNCHANGED <<log, today, locals, answer>>

ReadLoan(r) ==
  /\ at[r] = "loan"
  /\ who[r] \in DOMAIN book.loan
  /\ table' = [table EXCEPT ![r] = Restrict(book.loan, {who[r]})]
  /\ answer' = [answer EXCEPT ![r] = Listed]
  /\ at' = [at EXCEPT ![r] = "done"]
  /\ UNCHANGED <<log, today, op, who, since, shown, income, rows>>

(* The sidebar's get_all_loans.                                             *)
ReadLoans(r) ==
  /\ at[r] = "loans"
  /\ table' = [table EXCEPT ![r] = Restrict(book.loan, GetAllLoans(book, who[r]))]
  /\ at' = [at EXCEPT ![r] = "income"]
  /\ UNCHANGED <<log, today, op, who, since, shown, income, rows, answer>>

(* Variant: the debt of the first commit, kept across sessions.             *)
ReadDebtsOnce(r) ==
  /\ at[r] = "debts"
  /\ answer' = [answer EXCEPT ![r] =
                  DtiAnswer(TotalMonthlyDebt(log[1], who[r]), income[r])]
  /\ at' = [at EXCEPT ![r] = "done"]
  /\ UNCHANGED <<log, today, locals>>

(* calculate_dti's second statement, and its result, the sidebar's last.    *)
ReadDebts(r) ==
  /\ at[r] = "debts"
  /\ answer' = [answer EXCEPT ![r] =
                  DtiAnswer(TotalMonthlyDebt(book, who[r]), income[r])]
  /\ at' = [at EXCEPT ![r] = "done"]
  /\ UNCHANGED <<log, today, locals>>

(* get_overdue_payments' statement.                                         *)
ReadPayments(r) ==
  /\ at[r] = "payments"
  /\ rows' = [rows EXCEPT ![r] =
                Restrict(book.payment, OverdueRows(book, who[r]))]
  /\ at' = [at EXCEPT ![r] = "today"]
  /\ UNCHANGED <<log, today, op, who, since, shown, income, table, answer>>

(* Variant: one number for a loan, as loan_service.py:65-70 describes.      *)
DaysByLoan(payments) ==
  [p \in DOMAIN payments |->
     CHOOSE d \in 0..(MaxToday + 1) : \E q \in DOMAIN payments :
        /\ payments[q].loan = payments[p].loan
        /\ d = DaysOverdue(payments[q].due, today)]

DaysByPayment(payments) ==
  [p \in DOMAIN payments |-> DaysOverdue(payments[p].due, today)]

(* Only then date.today(), once for all the rows.                           *)
CountDays(r) ==
  /\ at[r] = "today"
  /\ answer' = [answer EXCEPT ![r] = DaysAnswer(DaysByPayment(rows[r]))]
  /\ at' = [at EXCEPT ![r] = "done"]
  /\ UNCHANGED <<log, today, locals>>

ReaderStep(r) ==
  \/ \E o \in Ops : \E x \in Ids(o) : Begin(r, o, x)
  \/ CustomerMissing(r) \/ ReadCustomer(r)
  \/ ReadProfile(r) \/ ReadIncome(r) \/ DropDtiLine(r)
  \/ ReadActiveLoans(r) \/ LoanMissing(r) \/ ReadLoan(r)
  \/ ReadLoans(r) \/ ReadDebts(r)
  \/ ReadPayments(r) \/ CountDays(r)

Next ==
  \/ Wipe
  \/ \E b \in Books : Fill(b)
  \/ DayPasses
  \/ \E r \in Readers : ReaderStep(r)

Spec == Init /\ [][Next]_vars

-----------------------------------------------------------------------------
(* Properties.                                                              *)

Window(r) == since[r]..Len(log)

HasDti(r) ==
  /\ at[r] = "done"
  /\ op[r] \in {"calculate_dti", "sidebar"}
  /\ "ratio" \in DOMAIN answer[r]

(* A sidebar with the profile and the loans of a customer.                  *)
IsShown(r) == at[r] = "done" /\ op[r] = "sidebar" /\ answer[r].found

(* Every variable keeps its type.                                           *)
TypeOK ==
  /\ log \in Seq(Books \cup {EmptyBook}) /\ Len(log) \in 1..MaxCommits
  /\ today \in 0..MaxToday
  /\ at \in [Readers -> {"idle", "customer", "loans", "income", "debts",
                         "payments", "today", "active", "loan", "done"}]
  /\ op \in [Readers -> Ops \cup {None}]
  /\ who \in [Readers -> Customers \cup Loans \cup {None}]
  /\ since \in [Readers -> 0..MaxCommits]
  /\ shown \in [Readers -> Nat \cup {None}]
  /\ income \in [Readers -> Nat \cup {None}]
  /\ DOMAIN table = Readers /\ DOMAIN rows = Readers /\ DOMAIN answer = Readers
  /\ \A r \in Readers :
        /\ DOMAIN table[r] \subseteq Loans
        /\ \A l \in DOMAIN table[r] : table[r][l] \in LoanRow
        /\ DOMAIN rows[r] \subseteq Payments
        /\ \A p \in DOMAIN rows[r] : rows[r][p] \in PaymentRow
        /\ answer[r].found \in BOOLEAN

(* A DTI a reader returns is made of an income and a debt that were both    *)
(* committed while it ran, the income no later than the debt, and its ratio *)
(* is the ratio of the two numbers shown beside it                          *)
(* (analytics_service.py:30-50).                                            *)
DtiFromWindow ==
  \A r \in Readers : HasDti(r) =>
     \E v \in Window(r) : \E w \in v..Len(log) :
        /\ Exists(log[v], who[r])
        /\ answer[r].income = log[v].income[who[r]]
        /\ answer[r].total = TotalMonthlyDebt(log[w], who[r])
        /\ answer[r].ratio = ComputeDtiRatio(answer[r].total, answer[r].income)

(* What the sidebar shows was committed while it ran and in the order it is *)
(* read: the profile no later than the loans, these no later than the DTI's *)
(* income and this no later than its debt.  The DTI's line is missing only  *)
(* if the customer, whose profile it shows, was gone by then                *)
(* (ui.py:83-94, analytics_service.py:31-33).                               *)
SidebarInOrder ==
  \A r \in Readers : IsShown(r) =>
     \E u \in Window(r) : \E t \in u..Len(log) : \E v \in t..Len(log) :
        /\ Exists(log[u], who[r])
        /\ shown[r] = log[u].income[who[r]]
        /\ table[r] = Restrict(log[t].loan, GetAllLoans(log[t], who[r]))
        /\ HasDti(r) <=> Exists(log[v], who[r])
        /\ HasDti(r) =>
              /\ answer[r].income = log[v].income[who[r]]
              /\ \E w \in v..Len(log) :
                    answer[r].total = TotalMonthlyDebt(log[w], who[r])

(* With no commit in between, the sidebar's four statements tell one story: *)
(* it has a DTI line, of the income printed above it, and the debt is the   *)
(* sum over the open loans listed beside it (ui.py:83-95).                  *)
SidebarAgrees ==
  \A r \in Readers : IsShown(r) /\ since[r] = Len(log) =>
     LET open == {l \in DOMAIN table[r] : table[r][l].status # "closed"}
     IN  /\ HasDti(r)
         /\ answer[r].income = shown[r]
         /\ answer[r].total =
              SumFunctionOnSet([l \in open |-> table[r][l].monthlyPayment], open)

Present(b, x) == IF x \in Loans THEN x \in DOMAIN b.loan ELSE Exists(b, x)

(* A reader says "not found" only if the customer or the loan was missing   *)
(* at some commit while it ran (analytics_service.py:31-33, ui.py:84-86,    *)
(* server.py:149-150).                                                      *)
NotFoundJustified ==
  \A r \in Readers :
     at[r] = "done" /\ ~answer[r].found =>
        \E v \in Window(r) : ~Present(log[v], who[r])

(* The loans a tool returns are rows of one commit that was current while   *)
(* it ran: the one asked for, or the open ones of the customer asked for    *)
(* and none of another's (loan_service.py:29-57).                           *)
LoansFromWindow ==
  \A r \in Readers :
     at[r] = "done" /\ op[r] \in {"get_loan_by_id", "get_active_loans"} /\ answer[r].found =>
        \E v \in Window(r) :
           /\ DOMAIN table[r] \subseteq DOMAIN log[v].loan
           /\ \A l \in DOMAIN table[r] : table[r][l] = log[v].loan[l]
           /\ IF op[r] = "get_loan_by_id"
                THEN DOMAIN table[r] = {who[r]}
                ELSE \A l \in Loans :
                       l \in DOMAIN table[r] <=>
                         /\ l \in DOMAIN log[v].loan
                         /\ log[v].loan[l].customer = who[r]
                         /\ log[v].loan[l].status # "closed"

(* With no commit in between, the loans that get_active_loans lists are     *)
(* those whose payments make calculate_dti's debt: two services, two        *)
(* queries, one sum (loan_service.py:37-40, analytics_service.py:35-40).    *)
OpenLoansMakeDebt ==
  \A r \in Readers :
     at[r] = "done" /\ op[r] = "get_active_loans" /\ since[r] = Len(log) =>
        TotalMonthlyDebt(book, who[r]) =
          SumFunctionOnSet([l \in DOMAIN table[r] |-> table[r][l].monthlyPayment],
                           DOMAIN table[r])

(* The overdue payments a reader lists belong to loans that                 *)
(* get_active_loans lists for the same customer in the same commit, so the  *)
(* two tools tell one story (loan_service.py:37-40, 72-81).                 *)
OverdueIsOpen ==
  \A r \in Readers :
     rows[r] # NoRows =>
        \E v \in Window(r) : \A p \in DOMAIN rows[r] :
           /\ p \in DOMAIN log[v].payment
           /\ rows[r][p] = log[v].payment[p]
           /\ rows[r][p].loan \in GetActiveLoans(log[v], who[r])

(* The days of all the payments in one answer are counted to one and the    *)
(* same day, each from its own due date ("computed per payment from its own *)
(* `due_date`", loan_service.py:65-70).                                     *)
OneDayForAll ==
  \A r \in Readers :
     at[r] = "done" /\ op[r] = "get_overdue_payments" =>
        LET days == answer[r].days IN
        \A p, q \in DOMAIN days :
           days[p] > 0 /\ days[q] > 0 =>
              days[p] + rows[r][p].due = days[q] + rows[r][q].due

(* The ratio is the nearest hundredth of a percent, and a customer without  *)
(* income gets 0 (analytics_service.py:16-20).                              *)
DtiNearest ==
  \A r \in Readers : HasDti(r) =>
     LET inc == answer[r].income
         error == answer[r].ratio * inc - 10000 * answer[r].total
     IN  IF inc = 0 THEN answer[r].ratio = 0
                    ELSE 2 * error <= inc /\ -2 * error <= inc

=============================================================================
