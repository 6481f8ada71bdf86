--------------------------- MODULE LoanBookProofs ----------------------------
(***************************************************************************)
(* LoanReads, for any readers, books and commits.  A reader's answer is     *)
(* made of what was committed while it ran: its window only grows, and the  *)
(* commits in it stay as they are.  Then SeedData, for any day, number of   *)
(* loans, terms and months.                                                 *)
(***************************************************************************)
EXTENDS LoanReads, SeedData, FiniteSetTheorems, TLAPS

USE ReadsAssumption

-----------------------------------------------------------------------------
(* What a reader knows at each of its statements.                           *)

(* The operation belongs to the statement, and the id to the operation.     *)
Statements(o) ==
  CASE o = "get_overdue_payments" -> {"payments", "today", "done"}
    [] o = "get_active_loans" -> {"active", "done"}
    [] o = "get_loan_by_id" -> {"loan", "done"}
    [] o = "calculate_dti" -> {"income", "debts", "done"}
    [] o = "sidebar" -> {"customer", "loans", "income", "debts", "done"}
    [] OTHER -> {"customer", "done"}

Placed(r) ==
  at[r] # "idle" =>
    /\ op[r] \in Ops
    /\ who[r] \in Ids(op[r])
    /\ at[r] \in Statements(op[r])
    /\ since[r] \in 1..Len(log)

(* There is no answer and there are no payments yet.                        *)
NothingYet(r) ==
  /\ at[r] # "done" => answer[r] = NotFound
  /\ at[r] \notin {"today", "done"} => rows[r] = NoRows

(* The income is a commit's of the window.                                  *)
IncomeRead(r) ==
  at[r] = "debts" =>
    \E v \in Window(r) : Exists(log[v], who[r]) /\ income[r] = log[v].income[who[r]]

(* A sidebar's chain of commits, as far as it has come.                     *)
ProfileOf(r, u) == Exists(log[u], who[r]) /\ shown[r] = log[u].income[who[r]]
LoansOf(r, t) == table[r] = Restrict(log[t].loan, GetAllLoans(log[t], who[r]))
DtiOf(r, v) ==
  IF HasDti(r)
    THEN /\ Exists(log[v], who[r])
         /\ answer[r].income = log[v].income[who[r]]
         /\ \E w \in Window(r) : v <= w /\ answer[r].total = TotalMonthlyDebt(log[w], who[r])
    ELSE ~Exists(log[v], who[r])

Chain(r) ==
  op[r] = "sidebar" =>
    /\ at[r] = "loans" => \E u \in Window(r) : ProfileOf(r, u)
    /\ at[r] = "income" =>
         \E u, t \in Window(r) : u <= t /\ ProfileOf(r, u) /\ LoansOf(r, t)
    /\ at[r] = "debts" =>
         \E u, t, v \in Window(r) :
            /\ u <= t /\ t <= v /\ ProfileOf(r, u) /\ LoansOf(r, t)
            /\ Exists(log[v], who[r]) /\ income[r] = log[v].income[who[r]]
    /\ IsShown(r) =>
         \E u, t, v \in Window(r) :
            u <= t /\ t <= v /\ ProfileOf(r, u) /\ LoansOf(r, t) /\ DtiOf(r, v)

DtiOK(r) ==
  HasDti(r) =>
    \E v \in Window(r) : \E w \in v..Len(log) :
       /\ Exists(log[v], who[r])
       /\ answer[r].income = log[v].income[who[r]]
       /\ answer[r].total = TotalMonthlyDebt(log[w], who[r])
       /\ answer[r].ratio = ComputeDtiRatio(answer[r].total, answer[r].income)

NotFoundOK(r) ==
  at[r] = "done" /\ ~answer[r].found => \E v \in Window(r) : ~Present(log[v], who[r])

LoansOK(r) ==
  at[r] = "done" /\ ( \/ op[r] = "get_active_loans"
                      \/ op[r] = "get_loan_by_id" /\ answer[r].found) =>
    \E v \in Window(r) :
       IF op[r] = "get_loan_by_id"
         THEN who[r] \in DOMAIN log[v].loan /\ table[r] = Restrict(log[v].loan, {who[r]})
         ELSE table[r] = Restrict(log[v].loan, GetActiveLoans(log[v], who[r]))

(* What a sidebar that no commit has come between has read.                 *)
SidebarOK(r) ==
  op[r] = "sidebar" /\ since[r] = Len(log) =>
    /\ at[r] \in {"loans", "income", "debts"} \/ IsShown(r) =>
          Exists(book, who[r]) /\ shown[r] = book.income[who[r]]
    /\ at[r] \in {"income", "debts"} \/ IsShown(r) =>
          table[r] = Restrict(book.loan, GetAllLoans(book, who[r]))
    /\ at[r] = "debts" => income[r] = shown[r]
    /\ IsShown(r) =>
          /\ HasDti(r)
          /\ answer[r].income = shown[r]
          /\ answer[r].total = TotalMonthlyDebt(book, who[r])

PaymentsOK(r) ==
  rows[r] # NoRows =>
    \E v \in Window(r) : rows[r] = Restrict(log[v].payment, OverdueRows(log[v], who[r]))

DaysOK(r) ==
  at[r] = "done" /\ op[r] = "get_overdue_payments" =>
    \E t \in Int : answer[r] = DaysAnswer([p \in DOMAIN rows[r] |->
                                             DaysOverdue(rows[r][p].due, t)])

ReaderOK(r) ==
  /\ Placed(r) /\ NothingYet(r) /\ IncomeRead(r) /\ Chain(r) /\ DtiOK(r) /\ NotFoundOK(r)
  /\ LoansOK(r) /\ SidebarOK(r) /\ PaymentsOK(r) /\ DaysOK(r)

IInv == TypeOK /\ \A r \in Readers : ReaderOK(r)

-----------------------------------------------------------------------------
(* Types.                                                                   *)

LEMMA EmptyIsBook == IsBook(EmptyBook)
  BY FS_EmptySet DEF IsBook, EmptyBook, NoRows

LEMMA BookRows ==
  ASSUME NEW b, IsBook(b)
  PROVE  /\ \A c \in DOMAIN b.income : b.income[c] \in Nat
         /\ DOMAIN b.loan \subseteq Loans
         /\ \A l \in DOMAIN b.loan : b.loan[l] \in LoanRow
         /\ DOMAIN b.payment \subseteq Payments
         /\ \A p \in DOMAIN b.payment : b.payment[p] \in PaymentRow
  BY DEF IsBook

LEMMA LogBooks ==
  ASSUME TypeOK
  PROVE  /\ \A v \in 1..Len(log) : IsBook(log[v])
         /\ Len(log) \in Nat /\ Len(log) >= 1
         /\ IsBook(book)
<1>1. \A v \in 1..Len(log) : log[v] \in Books \cup {EmptyBook}
  BY DEF TypeOK
<1>2. Len(log) \in Nat /\ Len(log) >= 1
  BY DEF TypeOK
<1> QED
  BY <1>1, <1>2, EmptyIsBook DEF book

LEMMA RestrictFacts ==
  ASSUME NEW f, NEW S
  PROVE  DOMAIN Restrict(f, S) = S /\ \A x \in S : Restrict(f, S)[x] = f[x]
  BY DEF Restrict

LEMMA TypeInit == Init => TypeOK
<1> SUFFICES ASSUME Init PROVE TypeOK
  OBVIOUS
<1>1. PICK b \in Books : log = <<b>>
  BY DEF Init
<1>2. log \in Seq(Books \cup {EmptyBook}) /\ Len(log) \in 1..MaxCommits
  BY <1>1
<1>3. DOMAIN NoRows = {} /\ NotFound.found \in BOOLEAN
  BY DEF NoRows, NotFound
<1> QED
  BY <1>2, <1>3 DEF Init, TypeOK

(* The steps of one reader that end it or go on, by what they write.        *)
LEMMA ReaderTypes ==
  ASSUME TypeOK, NEW r \in Readers, ReaderStep(r)
  PROVE  TypeOK'
<1> USE DEF locals
<1>1. CASE \E o \in Ops : \E x \in Ids(o) : Begin(r, o, x)
  <2>0. PICK o \in Ops : \E x \in Ids(o) : Begin(r, o, x)
    BY <1>1
  <2>1. PICK x \in Ids(o) : Begin(r, o, x)
    BY <2>0
  <2>2. x \in Customers \cup Loans
    BY DEF Ids
  <2>3. FirstStatement(o) \in {"customer", "income", "payments", "active", "loan"}
    BY DEF FirstStatement
  <2>4. DOMAIN NoRows = {} /\ NotFound.found \in BOOLEAN
    BY DEF NoRows, NotFound
  <2>5. since' \in [Readers -> 0..MaxCommits]
    BY <2>1 DEF TypeOK, Begin
  <2> QED
    BY <2>1, <2>2, <2>3, <2>4, <2>5 DEF TypeOK, Begin
<1>2. CASE CustomerMissing(r) \/ LoanMissing(r)
  BY <1>2 DEF TypeOK, CustomerMissing, LoanMissing
<1>3. CASE ReadProfile(r) \/ ReadIncome(r)
  <2>1. book.income[who[r]] \in Nat
    BY <1>3, LogBooks, BookRows DEF ReadProfile, ReadIncome, Exists
  <2> QED
    BY <1>3, <2>1 DEF TypeOK, ReadProfile, ReadIncome
<1>4. CASE ReadCustomer(r) \/ ReadDebts(r) \/ CountDays(r) \/ DropDtiLine(r)
  <2>1. \A x, y : /\ IncomeAnswer(x).found /\ DtiAnswer(x, y).found /\ DaysAnswer(x).found
                  /\ Listed.found
    BY DEF IncomeAnswer, DtiAnswer, DaysAnswer, Listed
  <2>2. PICK a : answer' = [answer EXCEPT ![r] = a] /\ a.found = TRUE
    BY <1>4, <2>1 DEF ReadCustomer, ReadDebts, CountDays, DropDtiLine
  <2>3. at' = [at EXCEPT ![r] = "done"] /\ UNCHANGED <<log, today, locals>>
    BY <1>4 DEF ReadCustomer, ReadDebts, CountDays, DropDtiLine
  <2> QED
    BY <2>2, <2>3 DEF TypeOK
<1>5. CASE ReadActiveLoans(r) \/ ReadLoan(r) \/ ReadLoans(r)
  <2>1. PICK S \in SUBSET DOMAIN book.loan : table' = [table EXCEPT ![r] = Restrict(book.loan, S)]
    BY <1>5 DEF ReadActiveLoans, ReadLoan, ReadLoans, GetActiveLoans, GetAllLoans
  <2>2. /\ DOMAIN Restrict(book.loan, S) \subseteq Loans
        /\ \A l \in DOMAIN Restrict(book.loan, S) : Restrict(book.loan, S)[l] \in LoanRow
    BY LogBooks, BookRows, RestrictFacts
  <2>3. PICK new : /\ table' = [table EXCEPT ![r] = new]
                    /\ DOMAIN new \subseteq Loans /\ \A l \in DOMAIN new : new[l] \in LoanRow
    BY <2>1, <2>2
  <2>4. Listed.found \in BOOLEAN
    BY DEF Listed
  <2> QED
    BY <1>5, <2>3, <2>4 DEF TypeOK, ReadActiveLoans, ReadLoan, ReadLoans
<1>6. CASE ReadPayments(r)
  <2>1. OverdueRows(book, who[r]) \subseteq DOMAIN book.payment
    BY DEF OverdueRows
  <2>2. PICK new : /\ rows' = [rows EXCEPT ![r] = new]
                    /\ DOMAIN new \subseteq Payments /\ \A p \in DOMAIN new : new[p] \in PaymentRow
    <3>1. /\ DOMAIN Restrict(book.payment, OverdueRows(book, who[r])) \subseteq Payments
          /\ \A p \in DOMAIN Restrict(book.payment, OverdueRows(book, who[r])) :
                Restrict(book.payment, OverdueRows(book, who[r]))[p] \in PaymentRow
      BY <2>1, LogBooks, BookRows, RestrictFacts
    <3> QED
      BY <1>6, <3>1 DEF ReadPayments
  <2> QED
    BY <1>6, <2>2 DEF TypeOK, ReadPayments
<1> QED
  BY <1>1, <1>2, <1>3, <1>4, <1>5, <1>6 DEF ReaderStep

LEMMA TypeNext == TypeOK /\ [Next]_vars => TypeOK'
<1> SUFFICES ASSUME TypeOK, [Next]_vars PROVE TypeOK'
  OBVIOUS
<1>1. CASE Wipe \/ \E b \in Books : Fill(b)
  <2>1. PICK b \in Books \cup {EmptyBook} : log' = Append(log, b)
    BY <1>1 DEF Wipe, Fill
  <2>2. log' \in Seq(Books \cup {EmptyBook}) /\ Len(log') \in 1..MaxCommits
    BY <1>1, <2>1 DEF TypeOK, Wipe, Fill
  <2> QED
    BY <1>1, <2>2 DEF TypeOK, Wipe, Fill, locals
<1>2. CASE DayPasses
  BY <1>2 DEF TypeOK, DayPasses, locals
<1>3. CASE UNCHANGED vars
  BY <1>3 DEF TypeOK, vars
<1> QED
  BY <1>1, <1>2, <1>3, ReaderTypes DEF Next

-----------------------------------------------------------------------------
(* Steps of others.                                                         *)

(* A reader that no step touches, and the commits it has seen, stay true.   *)
LEMMA Undisturbed ==
  ASSUME TypeOK, NEW r \in Readers, ReaderOK(r),
         at'[r] = at[r], op'[r] = op[r], who'[r] = who[r], since'[r] = since[r],
         shown'[r] = shown[r], income'[r] = income[r], table'[r] = table[r], rows'[r] = rows[r],
         answer'[r] = answer[r], log' = log
  PROVE  ReaderOK(r)'
<1>1. Placed(r)' /\ NothingYet(r)' /\ IncomeRead(r)'
  BY DEF ReaderOK, Placed, NothingYet, IncomeRead, Window
<1>2. DtiOK(r)' /\ NotFoundOK(r)'
  BY DEF ReaderOK, DtiOK, HasDti, NotFoundOK, Window
<1>3. LoansOK(r)' /\ PaymentsOK(r)'
  BY DEF ReaderOK, LoansOK, PaymentsOK, Window
<1>4. SidebarOK(r)' /\ DaysOK(r)'
  BY DEF ReaderOK, SidebarOK, IsShown, HasDti, DaysOK, book
<1>5. Chain(r)'
  BY DEF ReaderOK, Chain, ProfileOf, LoansOf, DtiOf, IsShown, HasDti, Window
<1> QED
  BY <1>1, <1>2, <1>3, <1>4, <1>5 DEF ReaderOK

(* A commit while it runs only lengthens its window.                        *)
LEMMA Committed ==
  ASSUME TypeOK, NEW r \in Readers, ReaderOK(r), NEW b, log' = Append(log, b),
         UNCHANGED <<at, locals, answer>>
  PROVE  ReaderOK(r)'
<1> USE DEF locals
<1>1. /\ Len(log) \in Nat /\ since[r] \in Nat
      /\ Len(log') = Len(log) + 1
      /\ \A v \in 1..Len(log) : log'[v] = log[v]
  BY DEF TypeOK
<1>2. Placed(r) /\ NothingYet(r)
  BY DEF ReaderOK
<1>3. Placed(r)' /\ NothingYet(r)'
  BY <1>1, <1>2 DEF Placed, NothingYet
<1>4. at[r] # "idle" =>
        \A v \in Window(r) : v \in Window(r)' /\ v \in 1..Len(log) /\ log'[v] = log[v]
  BY <1>1, <1>2 DEF Placed, Window
<1>5. IncomeRead(r)' /\ NotFoundOK(r)' /\ PaymentsOK(r)' /\ DaysOK(r)'
  <2>1. IncomeRead(r)'
    BY <1>4 DEF ReaderOK, IncomeRead
  <2>2. NotFoundOK(r)'
    BY <1>4 DEF ReaderOK, NotFoundOK
  <2>3. PaymentsOK(r)'
    BY <1>2, <1>4 DEF ReaderOK, PaymentsOK, NothingYet
  <2>4. DaysOK(r)'
    BY DEF ReaderOK, DaysOK
  <2> QED
    BY <2>1, <2>2, <2>3, <2>4
<1>6. LoansOK(r)'
  BY <1>4 DEF ReaderOK, LoansOK
<1>7. DtiOK(r)'
  <2> SUFFICES ASSUME HasDti(r)' PROVE DtiOK(r)'
    BY DEF DtiOK
  <2>1. HasDti(r) /\ at[r] = "done"
    BY DEF HasDti
  <2>2. PICK v \in Window(r), w \in Int :
          /\ w \in v..Len(log)
          /\ Exists(log[v], who[r])
          /\ answer[r].income = log[v].income[who[r]]
          /\ answer[r].total = TotalMonthlyDebt(log[w], who[r])
          /\ answer[r].ratio = ComputeDtiRatio(answer[r].total, answer[r].income)
    BY <2>1 DEF ReaderOK, DtiOK
  <2>3. w \in Window(r)
    BY <1>1, <2>2 DEF Window
  <2>4. v \in Window(r)' /\ w \in v..Len(log') /\ log'[v] = log[v] /\ log'[w] = log[w]
    BY <1>1, <1>4, <2>1, <2>2, <2>3
  <2> QED
    BY <2>2, <2>4 DEF DtiOK
<1>8. SidebarOK(r)'
  BY <1>1, <1>2 DEF Placed, SidebarOK, IsShown
<1>9. Chain(r)'
  <2> SUFFICES ASSUME op[r] = "sidebar", at[r] # "idle" PROVE Chain(r)'
    BY DEF Chain, IsShown
  <2>1. \A v \in Window(r) : /\ ProfileOf(r, v) => ProfileOf(r, v)'
                             /\ LoansOf(r, v) => LoansOf(r, v)'
    BY <1>4 DEF ProfileOf, LoansOf
  <2>2. \A v \in Window(r) : DtiOf(r, v) => DtiOf(r, v)'
    BY <1>4 DEF DtiOf, HasDti
  <2>3. at[r] = "loans" => \E u \in Window(r)' : ProfileOf(r, u)'
    BY <1>4, <2>1 DEF ReaderOK, Chain
  <2>4. at[r] = "income" =>
          \E u, t \in Window(r)' : u <= t /\ ProfileOf(r, u)' /\ LoansOf(r, t)'
    BY <1>4, <2>1 DEF ReaderOK, Chain
  <2>5. at[r] = "debts" =>
          \E u, t, v \in Window(r)' :
             /\ u <= t /\ t <= v /\ ProfileOf(r, u)' /\ LoansOf(r, t)'
             /\ Exists(log'[v], who[r]) /\ income[r] = log'[v].income[who[r]]
    BY <1>4, <2>1 DEF ReaderOK, Chain
  <2>6. IsShown(r) =>
          \E u, t, v \in Window(r)' :
             u <= t /\ t <= v /\ ProfileOf(r, u)' /\ LoansOf(r, t)' /\ DtiOf(r, v)'
    BY <1>4, <2>1, <2>2 DEF ReaderOK, Chain
  <2> QED
    BY <2>3, <2>4, <2>5, <2>6 DEF Chain, IsShown
<1> QED
  BY <1>3, <1>5, <1>6, <1>7, <1>8, <1>9 DEF ReaderOK

-----------------------------------------------------------------------------
(* A reader's own steps.                                                    *)

(* The commit a statement reads is in the reader's window, and if no commit *)
(* came since it began, it is the one it began at.                          *)
LEMMA Current ==
  ASSUME TypeOK, NEW r \in Readers, Placed(r), at[r] # "idle"
  PROVE  /\ Len(log) \in Window(r) /\ log[Len(log)] = book
         /\ \A v \in Window(r) : v <= Len(log) /\ Len(log) \in v..Len(log)
  BY DEF TypeOK, Placed, Window, book

LEMMA BeginOK ==
  ASSUME TypeOK, NEW r \in Readers, NEW o \in Ops, NEW x \in Ids(o), Begin(r, o, x)
  PROVE  ReaderOK(r)'
<1>1. /\ at'[r] = FirstStatement(o) /\ op'[r] = o /\ who'[r] = x
      /\ since'[r] = Len(log) /\ log' = log
      /\ rows'[r] = NoRows /\ answer'[r] = NotFound
  BY DEF Begin, TypeOK
<1>2. FirstStatement(o) \in Statements(o) \ {"idle", "loans", "debts", "today", "done"}
  BY DEF FirstStatement, Statements, Ops
<1>3. Len(log) \in 1..Len(log')
  BY <1>1 DEF TypeOK
<1>4. Placed(r)' /\ NothingYet(r)'
  BY <1>1, <1>2, <1>3 DEF Placed, NothingYet
<1>5. IncomeRead(r)' /\ DtiOK(r)' /\ NotFoundOK(r)'
  BY <1>1, <1>2 DEF IncomeRead, DtiOK, HasDti, NotFoundOK
<1>6. op'[r] = "sidebar" => at'[r] = "customer"
  BY <1>1 DEF FirstStatement
<1>7. Chain(r)' /\ SidebarOK(r)'
  BY <1>6 DEF Chain, SidebarOK, IsShown
<1>8. LoansOK(r)' /\ PaymentsOK(r)' /\ DaysOK(r)'
  BY <1>1, <1>2 DEF LoansOK, PaymentsOK, DaysOK
<1> QED
  BY <1>4, <1>5, <1>7, <1>8 DEF ReaderOK

(* The two refusals, which say that what was asked for is not there.        *)
LEMMA MissingOK ==
  ASSUME TypeOK, NEW r \in Readers, ReaderOK(r), CustomerMissing(r) \/ LoanMissing(r)
  PROVE  ReaderOK(r)'
<1> USE DEF locals
<1>1. /\ at'[r] = "done" /\ UNCHANGED <<log, locals, answer>>
      /\ at[r] \in {"customer", "income", "loan"}
  BY DEF CustomerMissing, LoanMissing, TypeOK
<1>2. Placed(r) /\ answer[r] = NotFound /\ rows[r] = NoRows
  BY <1>1 DEF ReaderOK, NothingYet
<1>3. /\ op[r] \in Ops /\ op[r] # "get_overdue_payments"
      /\ op[r] # "get_active_loans"
      /\ at[r] \in {"customer", "income"} => who[r] \in Customers
      /\ at[r] = "loan" => who[r] \in Loans
  BY <1>1, <1>2 DEF Placed, Statements, Ids, Ops
<1>4. ~Present(book, who[r])
  BY <1>3 DEF CustomerMissing, LoanMissing, Present
<1>5. ~answer'[r].found
  BY <1>1, <1>2 DEF NotFound
<1>6. Placed(r)' /\ NothingYet(r)'
  BY <1>1, <1>2 DEF Placed, NothingYet, Statements, Ops
<1>7. NotFoundOK(r)'
  BY <1>1, <1>2, <1>4, Current DEF NotFoundOK, Window
<1>8. ~HasDti(r)' /\ ~IsShown(r)'
  BY <1>1, <1>2, <1>5 DEF HasDti, IsShown, NotFound
<1>9. IncomeRead(r)' /\ Chain(r)' /\ DtiOK(r)' /\ LoansOK(r)' /\ SidebarOK(r)'
      /\ PaymentsOK(r)' /\ DaysOK(r)'
  BY <1>1, <1>2, <1>3, <1>5, <1>8
     DEF IncomeRead, Chain, DtiOK, LoansOK, SidebarOK, PaymentsOK, DaysOK
<1> QED
  BY <1>6, <1>7, <1>9 DEF ReaderOK

LEMMA ReadProfileOK ==
  ASSUME TypeOK, NEW r \in Readers, ReaderOK(r), ReadProfile(r)
  PROVE  ReaderOK(r)'
<1>1. /\ at[r] = "customer" /\ at'[r] = "loans" /\ op[r] = "sidebar"
      /\ shown'[r] = book.income[who[r]] /\ Exists(book, who[r])
      /\ UNCHANGED <<log, op, who, since, income, table, rows, answer>>
  BY DEF ReadProfile, TypeOK
<1>2. Placed(r) /\ answer[r] = NotFound /\ rows[r] = NoRows
  BY <1>1 DEF ReaderOK, NothingYet
<1>3. Placed(r)' /\ NothingYet(r)'
  BY <1>1, <1>2 DEF Placed, NothingYet, Statements
<1>4. \E u \in Window(r)' : ProfileOf(r, u)'
  BY <1>1, <1>2, Current DEF ProfileOf, Window
<1>5. Chain(r)'
  BY <1>1, <1>4 DEF Chain, IsShown
<1>6. SidebarOK(r)'
  BY <1>1 DEF SidebarOK, IsShown, book
<1>7. IncomeRead(r)' /\ DtiOK(r)' /\ NotFoundOK(r)' /\ LoansOK(r)' /\ PaymentsOK(r)' /\ DaysOK(r)'
  BY <1>1, <1>2 DEF IncomeRead, DtiOK, HasDti, NotFoundOK, LoansOK, PaymentsOK, DaysOK
<1> QED
  BY <1>3, <1>5, <1>6, <1>7 DEF ReaderOK

LEMMA ReadIncomeOK ==
  ASSUME TypeOK, NEW r \in Readers, ReaderOK(r), ReadIncome(r)
  PROVE  ReaderOK(r)'
<1>1. /\ at[r] = "income" /\ at'[r] = "debts"
      /\ income'[r] = book.income[who[r]] /\ Exists(book, who[r])
      /\ UNCHANGED <<log, op, who, since, shown, table, rows, answer>>
  BY DEF ReadIncome, TypeOK
<1>2. Placed(r) /\ answer[r] = NotFound /\ rows[r] = NoRows
  BY <1>1 DEF ReaderOK, NothingYet
<1>3. op[r] \in {"calculate_dti", "sidebar"}
  BY <1>1, <1>2 DEF Placed, Statements, Ops
<1>4. Placed(r)' /\ NothingYet(r)'
  BY <1>1, <1>2, <1>3 DEF Placed, NothingYet, Statements
<1>5. IncomeRead(r)'
  BY <1>1, <1>2, Current DEF IncomeRead, Window
<1>6. Chain(r)'
  <2> SUFFICES ASSUME op[r] = "sidebar" PROVE Chain(r)'
    BY <1>1 DEF Chain
  <2>1. PICK u \in Window(r), t \in Window(r) : u <= t /\ ProfileOf(r, u) /\ LoansOf(r, t)
    BY <1>1 DEF ReaderOK, Chain
  <2>2. Len(log) \in Window(r) /\ t <= Len(log) /\ log[Len(log)] = book
    BY <1>1, <1>2, Current
  <2>3. Window(r)' = Window(r) /\ ProfileOf(r, u)' /\ LoansOf(r, t)'
    BY <1>1, <2>1 DEF Window, ProfileOf, LoansOf
  <2> QED
    BY <1>1, <2>1, <2>2, <2>3 DEF Chain, IsShown
<1>7. SidebarOK(r)'
  BY <1>1 DEF ReaderOK, SidebarOK, IsShown, book
<1>8. DtiOK(r)' /\ NotFoundOK(r)' /\ LoansOK(r)' /\ PaymentsOK(r)' /\ DaysOK(r)'
  BY <1>1, <1>2 DEF DtiOK, HasDti, NotFoundOK, LoansOK, PaymentsOK, DaysOK
<1> QED
  BY <1>4, <1>5, <1>6, <1>7, <1>8 DEF ReaderOK

LEMMA DropDtiLineOK ==
  ASSUME TypeOK, NEW r \in Readers, ReaderOK(r), DropDtiLine(r)
  PROVE  ReaderOK(r)'
<1> USE DEF locals
<1>1. /\ at[r] = "income" /\ at'[r] = "done" /\ op[r] = "sidebar"
      /\ ~Exists(book, who[r]) /\ answer'[r] = Listed
      /\ UNCHANGED <<log, locals>>
  BY DEF DropDtiLine, TypeOK
<1>2. Placed(r) /\ rows[r] = NoRows
  BY <1>1 DEF ReaderOK, NothingYet
<1>3. answer'[r].found /\ ~HasDti(r)'
  BY <1>1 DEF HasDti, Listed
<1>4. Placed(r)' /\ NothingYet(r)'
  BY <1>1, <1>2 DEF Placed, NothingYet, Statements
<1>5. Chain(r)'
  <2>1. PICK u \in Window(r), t \in Window(r) : u <= t /\ ProfileOf(r, u) /\ LoansOf(r, t)
    BY <1>1 DEF ReaderOK, Chain
  <2>2. Len(log) \in Window(r) /\ t <= Len(log) /\ ~Exists(log[Len(log)], who[r])
    BY <1>1, <1>2, Current
  <2>3. /\ Window(r)' = Window(r) /\ ProfileOf(r, u)' /\ LoansOf(r, t)'
        /\ DtiOf(r, Len(log))'
    BY <1>1, <1>3, <2>1, <2>2 DEF Window, ProfileOf, LoansOf, DtiOf
  <2> QED
    BY <1>1, <2>1, <2>2, <2>3 DEF Chain
<1>6. SidebarOK(r)'
  <2>1. since[r] # Len(log)
    BY <1>1 DEF ReaderOK, SidebarOK
  <2> QED
    BY <1>1, <2>1 DEF SidebarOK
<1>7. IncomeRead(r)' /\ DtiOK(r)' /\ NotFoundOK(r)' /\ LoansOK(r)' /\ PaymentsOK(r)' /\ DaysOK(r)'
  BY <1>1, <1>2, <1>3 DEF IncomeRead, DtiOK, NotFoundOK, LoansOK, PaymentsOK, DaysOK
<1> QED
  BY <1>4, <1>5, <1>6, <1>7 DEF ReaderOK

LEMMA ReadCustomerOK ==
  ASSUME TypeOK, NEW r \in Readers, ReaderOK(r), ReadCustomer(r)
  PROVE  ReaderOK(r)'
<1> USE DEF locals
<1>1. /\ at[r] = "customer" /\ at'[r] = "done"
      /\ op[r] \in {"get_customer_income", "get_customer_profile"}
      /\ answer'[r] = IncomeAnswer(book.income[who[r]])
      /\ UNCHANGED <<log, locals>>
  BY DEF ReadCustomer, TypeOK
<1>2. Placed(r) /\ rows[r] = NoRows /\ answer'[r].found
  BY <1>1 DEF ReaderOK, NothingYet, IncomeAnswer
<1>3. Placed(r)' /\ NothingYet(r)'
  BY <1>1, <1>2 DEF Placed, NothingYet, Statements
<1>4. IncomeRead(r)' /\ Chain(r)' /\ DtiOK(r)' /\ NotFoundOK(r)' /\ LoansOK(r)' /\ SidebarOK(r)'
      /\ PaymentsOK(r)' /\ DaysOK(r)'
  BY <1>1, <1>2
     DEF IncomeRead, Chain, DtiOK, HasDti, NotFoundOK, LoansOK, SidebarOK, IsShown, PaymentsOK,
         DaysOK
<1> QED
  BY <1>3, <1>4 DEF ReaderOK

(* get_active_loans and get_loan_by_id: the rows of the current commit.     *)
LEMMA ListLoansOK ==
  ASSUME TypeOK, NEW r \in Readers, ReaderOK(r), ReadActiveLoans(r) \/ ReadLoan(r)
  PROVE  ReaderOK(r)'
<1>1. /\ at[r] \in {"active", "loan"} /\ at'[r] = "done"
      /\ at[r] = "active" => table'[r] = Restrict(book.loan, GetActiveLoans(book, who[r]))
      /\ at[r] = "loan" => /\ who[r] \in DOMAIN book.loan
                           /\ table'[r] = Restrict(book.loan, {who[r]})
      /\ answer'[r] = Listed
      /\ UNCHANGED <<log, op, who, since, rows>>
  BY DEF ReadActiveLoans, ReadLoan, TypeOK
<1>2. Placed(r) /\ rows[r] = NoRows /\ answer'[r].found
  BY <1>1 DEF ReaderOK, NothingYet, Listed
<1>3. op[r] = IF at[r] = "active" THEN "get_active_loans" ELSE "get_loan_by_id"
  BY <1>1, <1>2 DEF Placed, Statements, Ops
<1>4. Placed(r)' /\ NothingYet(r)'
  BY <1>1, <1>2, <1>3 DEF Placed, NothingYet, Statements
<1>5. LoansOK(r)'
  <2>1. IF op[r] = "get_loan_by_id"
          THEN who[r] \in DOMAIN book.loan /\ table'[r] = Restrict(book.loan, {who[r]})
          ELSE table'[r] = Restrict(book.loan, GetActiveLoans(book, who[r]))
    BY <1>1, <1>3
  <2> QED
    BY <1>1, <1>2, <2>1, Current DEF LoansOK, Window
<1>6. IncomeRead(r)' /\ Chain(r)' /\ DtiOK(r)' /\ NotFoundOK(r)' /\ SidebarOK(r)'
      /\ PaymentsOK(r)' /\ DaysOK(r)'
  BY <1>1, <1>2, <1>3
     DEF IncomeRead, Chain, DtiOK, HasDti, NotFoundOK, SidebarOK, IsShown, PaymentsOK, DaysOK
<1> QED
  BY <1>4, <1>5, <1>6 DEF ReaderOK

LEMMA ReadLoansOK ==
  ASSUME TypeOK, NEW r \in Readers, ReaderOK(r), ReadLoans(r)
  PROVE  ReaderOK(r)'
<1>1. /\ at[r] = "loans" /\ at'[r] = "income"
      /\ table'[r] = Restrict(book.loan, GetAllLoans(book, who[r]))
      /\ UNCHANGED <<log, op, who, since, shown, income, rows, answer>>
  BY DEF ReadLoans, TypeOK
<1>2. Placed(r) /\ answer[r] = NotFound /\ rows[r] = NoRows
  BY <1>1 DEF ReaderOK, NothingYet
<1>3. op[r] = "sidebar"
  BY <1>1, <1>2 DEF Placed, Statements, Ops
<1>4. Placed(r)' /\ NothingYet(r)'
  BY <1>1, <1>2, <1>3 DEF Placed, NothingYet, Statements
<1>5. Chain(r)'
  <2>1. PICK u \in Window(r) : ProfileOf(r, u)
    BY <1>1, <1>3 DEF ReaderOK, Chain
  <2>2. Len(log) \in Window(r) /\ u <= Len(log) /\ log[Len(log)] = book
    BY <1>1, <1>2, Current
  <2>3. Window(r)' = Window(r) /\ ProfileOf(r, u)' /\ LoansOf(r, Len(log))'
    BY <1>1, <2>1, <2>2 DEF Window, ProfileOf, LoansOf
  <2> QED
    BY <1>1, <2>1, <2>2, <2>3 DEF Chain, IsShown
<1>6. SidebarOK(r)'
  BY <1>1 DEF ReaderOK, SidebarOK, IsShown, book
<1>7. IncomeRead(r)' /\ DtiOK(r)' /\ NotFoundOK(r)' /\ LoansOK(r)' /\ PaymentsOK(r)' /\ DaysOK(r)'
  BY <1>1, <1>2 DEF IncomeRead, DtiOK, HasDti, NotFoundOK, LoansOK, PaymentsOK, DaysOK
<1> QED
  BY <1>4, <1>5, <1>6, <1>7 DEF ReaderOK

LEMMA ReadDebtsOK ==
  ASSUME TypeOK, NEW r \in Readers, ReaderOK(r), ReadDebts(r)
  PROVE  ReaderOK(r)'
<1> USE DEF locals
<1>1. /\ at[r] = "debts" /\ at'[r] = "done"
      /\ answer'[r] = DtiAnswer(TotalMonthlyDebt(book, who[r]), income[r])
      /\ UNCHANGED <<log, locals>>
  BY DEF ReadDebts, TypeOK
<1>2. Placed(r) /\ rows[r] = NoRows
  BY <1>1 DEF ReaderOK, NothingYet
<1>3. op[r] \in {"calculate_dti", "sidebar"}
  BY <1>1, <1>2 DEF Placed, Statements, Ops
<1>4. /\ answer'[r].found /\ answer'[r].income = income[r]
      /\ answer'[r].total = TotalMonthlyDebt(book, who[r])
      /\ answer'[r].ratio = ComputeDtiRatio(answer'[r].total, answer'[r].income)
      /\ "ratio" \in DOMAIN answer'[r]
  BY <1>1 DEF DtiAnswer
<1>5. Placed(r)' /\ NothingYet(r)'
  BY <1>1, <1>2, <1>3 DEF Placed, NothingYet, Statements
<1>6. DtiOK(r)'
  <2>1. PICK v \in Window(r) : Exists(log[v], who[r]) /\ income[r] = log[v].income[who[r]]
    BY <1>1 DEF ReaderOK, IncomeRead
  <2>2. Len(log) \in v..Len(log) /\ log[Len(log)] = book
    BY <1>1, <1>2, Current
  <2> QED
    BY <1>1, <1>4, <2>1, <2>2 DEF DtiOK, Window
<1>7. SidebarOK(r)'
  <2>1. op[r] = "sidebar" /\ since[r] = Len(log) =>
          /\ Exists(book, who[r]) /\ shown[r] = book.income[who[r]] /\ income[r] = shown[r]
          /\ table[r] = Restrict(book.loan, GetAllLoans(book, who[r]))
    BY <1>1 DEF ReaderOK, SidebarOK
  <2> QED
    BY <1>1, <1>4, <2>1 DEF SidebarOK, IsShown, HasDti, book
<1>9. Chain(r)'
  <2> SUFFICES ASSUME op[r] = "sidebar" PROVE Chain(r)'
    BY <1>1 DEF Chain
  <2>1. PICK u \in Window(r), t \in Window(r), v \in Window(r) :
          /\ u <= t /\ t <= v /\ ProfileOf(r, u) /\ LoansOf(r, t)
          /\ Exists(log[v], who[r]) /\ income[r] = log[v].income[who[r]]
    BY <1>1 DEF ReaderOK, Chain
  <2>2. Len(log) \in Window(r) /\ v <= Len(log) /\ log[Len(log)] = book
    BY <1>1, <1>2, Current
  <2>3. /\ Window(r)' = Window(r) /\ ProfileOf(r, u)' /\ LoansOf(r, t)' /\ DtiOf(r, v)'
    BY <1>1, <1>3, <1>4, <2>1, <2>2 DEF Window, ProfileOf, LoansOf, DtiOf, HasDti
  <2> QED
    BY <1>1, <2>1, <2>3 DEF Chain
<1>8. IncomeRead(r)' /\ NotFoundOK(r)' /\ LoansOK(r)' /\ PaymentsOK(r)' /\ DaysOK(r)'
  BY <1>1, <1>2, <1>3, <1>4 DEF IncomeRead, NotFoundOK, LoansOK, PaymentsOK, DaysOK
<1> QED
  BY <1>5, <1>6, <1>7, <1>8, <1>9 DEF ReaderOK

LEMMA ReadPaymentsOK ==
  ASSUME TypeOK, NEW r \in Readers, ReaderOK(r), ReadPayments(r)
  PROVE  ReaderOK(r)'
<1>1. /\ at[r] = "payments" /\ at'[r] = "today"
      /\ rows'[r] = Restrict(book.payment, OverdueRows(book, who[r]))
      /\ UNCHANGED <<log, op, who, since, answer>>
  BY DEF ReadPayments, TypeOK
<1>2. Placed(r) /\ answer[r] = NotFound
  BY <1>1 DEF ReaderOK, NothingYet
<1>3. op[r] = "get_overdue_payments"
  BY <1>1, <1>2 DEF Placed, Statements, Ops
<1>4. Placed(r)' /\ NothingYet(r)'
  BY <1>1, <1>2, <1>3 DEF Placed, NothingYet, Statements
<1>5. PaymentsOK(r)'
  BY <1>1, <1>2, Current DEF PaymentsOK, Window
<1>6. IncomeRead(r)' /\ Chain(r)' /\ DtiOK(r)' /\ NotFoundOK(r)' /\ LoansOK(r)' /\ SidebarOK(r)'
      /\ DaysOK(r)'
  BY <1>1, <1>3 DEF IncomeRead, Chain, DtiOK, HasDti, NotFoundOK, LoansOK, SidebarOK, DaysOK
<1> QED
  BY <1>4, <1>5, <1>6 DEF ReaderOK

LEMMA CountDaysOK ==
  ASSUME TypeOK, NEW r \in Readers, ReaderOK(r), CountDays(r)
  PROVE  ReaderOK(r)'
<1> USE DEF locals
<1>1. /\ at[r] = "today" /\ at'[r] = "done"
      /\ answer'[r] = DaysAnswer(DaysByPayment(rows[r]))
      /\ UNCHANGED <<log, locals>>
  BY DEF CountDays, TypeOK
<1>2. Placed(r) /\ answer'[r].found
  BY <1>1 DEF ReaderOK, DaysAnswer
<1>3. op[r] = "get_overdue_payments"
  BY <1>1, <1>2 DEF Placed, Statements, Ops
<1>4. Placed(r)' /\ NothingYet(r)'
  BY <1>1, <1>2, <1>3 DEF Placed, NothingYet, Statements
<1>5. PaymentsOK(r)'
  BY <1>1 DEF ReaderOK, PaymentsOK, Window
<1>6. DaysOK(r)'
  <2>1. today \in Int
    BY DEF TypeOK
  <2> QED
    BY <1>1, <2>1 DEF DaysOK, DaysByPayment
<1>7. IncomeRead(r)' /\ Chain(r)' /\ DtiOK(r)' /\ NotFoundOK(r)' /\ LoansOK(r)' /\ SidebarOK(r)'
  BY <1>1, <1>2, <1>3 DEF IncomeRead, Chain, DtiOK, HasDti, NotFoundOK, LoansOK, SidebarOK
<1> QED
  BY <1>4, <1>5, <1>6, <1>7 DEF ReaderOK

-----------------------------------------------------------------------------
(* The invariant is inductive.                                              *)

LEMMA InvInit == Init => IInv
<1> SUFFICES ASSUME Init PROVE IInv
  OBVIOUS
<1>1. \A r \in Readers : /\ at[r] = "idle" /\ op[r] = None
                         /\ rows[r] = NoRows /\ answer[r] = NotFound
  BY DEF Init
<1>2. ASSUME NEW r \in Readers PROVE ReaderOK(r)
  BY <1>1 DEF ReaderOK, Placed, NothingYet, IncomeRead, Chain, DtiOK, HasDti, NotFoundOK,
              LoansOK, SidebarOK, IsShown, PaymentsOK, DaysOK
<1> QED
  BY <1>2, TypeInit DEF IInv

LEMMA InvStep ==
  ASSUME IInv, NEW r \in Readers, ReaderStep(r)
  PROVE  \A q \in Readers : ReaderOK(q)'
<1> USE DEF locals
<1>1. TypeOK /\ ReaderOK(r)
  BY DEF IInv
<1>2. ReaderOK(r)'
  <2>1. CASE \E o \in Ops : \E x \in Ids(o) : Begin(r, o, x)
    BY <1>1, <2>1, BeginOK
  <2> QED
    BY <1>1, <2>1, MissingOK, ReadProfileOK, ReadIncomeOK, DropDtiLineOK, ReadCustomerOK,
       ListLoansOK, ReadLoansOK, ReadDebtsOK, ReadPaymentsOK, CountDaysOK
       DEF ReaderStep
<1>3. ASSUME NEW q \in Readers, q # r PROVE ReaderOK(q)'
  <2>1. /\ at'[q] = at[q] /\ op'[q] = op[q] /\ who'[q] = who[q] /\ since'[q] = since[q]
        /\ shown'[q] = shown[q] /\ income'[q] = income[q] /\ table'[q] = table[q] /\ rows'[q] = rows[q]
        /\ answer'[q] = answer[q] /\ log' = log
    <3>1. CASE \E o \in Ops : \E x \in Ids(o) : Begin(r, o, x)
      BY <1>1, <1>3, <3>1 DEF TypeOK, Begin
    <3>2. CASE CustomerMissing(r) \/ ReadCustomer(r) \/ ReadProfile(r) \/ ReadIncome(r) \/ DropDtiLine(r)
      BY <1>1, <1>3, <3>2
         DEF TypeOK, CustomerMissing, ReadCustomer, ReadProfile, ReadIncome, DropDtiLine
    <3>3. CASE ReadActiveLoans(r) \/ LoanMissing(r) \/ ReadLoan(r)
      BY <1>1, <1>3, <3>3 DEF TypeOK, ReadActiveLoans, LoanMissing, ReadLoan
    <3>4. CASE ReadLoans(r) \/ ReadDebts(r) \/ ReadPayments(r) \/ CountDays(r)
      BY <1>1, <1>3, <3>4 DEF TypeOK, ReadLoans, ReadDebts, ReadPayments, CountDays
    <3> QED
      BY <3>1, <3>2, <3>3, <3>4 DEF ReaderStep
  <2>2. ReaderOK(q)
    BY DEF IInv
  <2> QED
    BY <1>1, <2>1, <2>2, Undisturbed
<1> QED
  BY <1>2, <1>3

LEMMA InvNext == IInv /\ [Next]_vars => IInv'
<1> SUFFICES ASSUME IInv, [Next]_vars PROVE \A r \in Readers : ReaderOK(r)'
  BY TypeNext DEF IInv
<1> TypeOK /\ \A r \in Readers : ReaderOK(r)
  BY DEF IInv
<1>1. CASE Wipe \/ \E b \in Books : Fill(b)
  <2>1. \E b : log' = Append(log, b) /\ UNCHANGED <<at, locals, answer>>
    BY <1>1 DEF Wipe, Fill
  <2> QED
    BY <2>1, Committed
<1>2. CASE DayPasses \/ UNCHANGED vars
  <2>1. UNCHANGED <<log, at, op, who, since, shown, income, table, rows, answer>>
    BY <1>2 DEF DayPasses, vars, locals
  <2> QED
    BY <2>1, Undisturbed
<1>3. CASE \E r \in Readers : ReaderStep(r)
  BY <1>3, InvStep
<1> QED
  BY <1>1, <1>2, <1>3 DEF Next

LEMMA Invariance == Spec => []IInv
<1> QED
  BY InvInit, InvNext, PTL DEF Spec

-----------------------------------------------------------------------------
(* What follows from it.                                                    *)

(* Every variable keeps its type.                                           *)
THEOREM ReadTypes == Spec => []TypeOK
<1>1. IInv => TypeOK
  BY DEF IInv
<1> QED
  BY <1>1, Invariance, PTL

(* However commits fall between a reader's statements, the DTI it returns   *)
(* is made of an income and a debt that were both committed while it ran    *)
(* (analytics_service.py:30-50, ui.py:88).                                  *)
THEOREM DtiIsOfItsWindow == Spec => []DtiFromWindow
<1>1. IInv => DtiFromWindow
  BY DEF IInv, ReaderOK, DtiOK, DtiFromWindow
<1> QED
  BY <1>1, Invariance, PTL

(* A reader says "not found" only of what was missing while it ran          *)
(* (analytics_service.py:31-33, server.py:149-150).                         *)
THEOREM MissingIsJustified == Spec => []NotFoundJustified
<1>1. IInv => NotFoundJustified
  BY DEF IInv, ReaderOK, NotFoundOK, NotFoundJustified
<1> QED
  BY <1>1, Invariance, PTL

(* The loans a tool returns are the right rows of one commit of its window  *)
(* (loan_service.py:29-57).                                                 *)
THEOREM LoansAreOfItsWindow == Spec => []LoansFromWindow
<1>1. IInv => LoansFromWindow
  <2> SUFFICES ASSUME IInv, NEW r \in Readers, at[r] = "done",
                      op[r] \in {"get_loan_by_id", "get_active_loans"}, answer[r].found
               PROVE  \E v \in Window(r) :
                        /\ DOMAIN table[r] \subseteq DOMAIN log[v].loan
                        /\ \A l \in DOMAIN table[r] : table[r][l] = log[v].loan[l]
                        /\ IF op[r] = "get_loan_by_id"
                             THEN DOMAIN table[r] = {who[r]}
                             ELSE \A l \in Loans :
                                    l \in DOMAIN table[r] <=>
                                      /\ l \in DOMAIN log[v].loan
                                      /\ log[v].loan[l].customer = who[r]
                                      /\ log[v].loan[l].status # "closed"
    BY DEF LoansFromWindow
  <2>1. TypeOK /\ Placed(r) /\ LoansOK(r)
    BY DEF IInv, ReaderOK
  <2> DEFINE asked(v) == IF op[r] = "get_loan_by_id" THEN {who[r]}
                                                     ELSE GetActiveLoans(log[v], who[r])
  <2>2. PICK v \in Window(r) : /\ op[r] = "get_loan_by_id" => who[r] \in DOMAIN log[v].loan
                               /\ table[r] = Restrict(log[v].loan, asked(v))
    BY <2>1 DEF LoansOK
  <2>3. v \in 1..Len(log)
    BY <2>1 DEF Window, Placed, TypeOK
  <2>4. \A l \in DOMAIN log[v].loan : log[v].loan[l].status \in LoanStatus
    BY <2>1, <2>3, LogBooks, BookRows DEF LoanRow
  <2>5. asked(v) \subseteq DOMAIN log[v].loan
    BY <2>2 DEF GetActiveLoans
  <2>6. op[r] = "get_loan_by_id" => asked(v) = {who[r]}
    OBVIOUS
  <2>7. op[r] # "get_loan_by_id" =>
          \A l : l \in asked(v) <=> /\ l \in DOMAIN log[v].loan
                                    /\ log[v].loan[l].customer = who[r]
                                    /\ log[v].loan[l].status # "closed"
    BY <2>4 DEF GetActiveLoans, LoanStatus
  <2> HIDE DEF asked
  <2>8. DOMAIN table[r] = asked(v) /\ \A l \in asked(v) : table[r][l] = log[v].loan[l]
    BY <2>2, RestrictFacts
  <2> QED
    BY <2>5, <2>6, <2>7, <2>8
<1> QED
  BY <1>1, Invariance, PTL

(* An overdue payment a reader lists is of a loan that get_active_loans     *)
(* lists in the same commit (loan_service.py:37-40, 72-81).                 *)
THEOREM OverdueLoansAreOpen == Spec => []OverdueIsOpen
<1>1. IInv => OverdueIsOpen
  <2> SUFFICES ASSUME IInv, NEW r \in Readers, rows[r] # NoRows
               PROVE  \E v \in Window(r) : \A p \in DOMAIN rows[r] :
                        /\ p \in DOMAIN log[v].payment
                        /\ rows[r][p] = log[v].payment[p]
                        /\ rows[r][p].loan \in GetActiveLoans(log[v], who[r])
    BY DEF OverdueIsOpen
  <2>1. PICK v \in Window(r) :
          rows[r] = Restrict(log[v].payment, OverdueRows(log[v], who[r]))
    BY DEF IInv, ReaderOK, PaymentsOK
  <2>2. /\ DOMAIN rows[r] = OverdueRows(log[v], who[r])
        /\ \A p \in DOMAIN rows[r] : rows[r][p] = log[v].payment[p]
    BY <2>1, RestrictFacts
  <2>3. \A p \in OverdueRows(log[v], who[r]) :
          /\ p \in DOMAIN log[v].payment
          /\ log[v].payment[p].loan \in GetActiveLoans(log[v], who[r])
    BY DEF OverdueRows, GetActiveLoans
  <2> QED
    BY <2>2, <2>3
<1> QED
  BY <1>1, Invariance, PTL

(* The days of one answer are counted to one day, even when midnight passes *)
(* while it is made (loan_service.py:65-70).                                *)
THEOREM DaysAreOfOneDay == Spec => []OneDayForAll
<1>1. IInv => OneDayForAll
  <2> SUFFICES ASSUME IInv, NEW r \in Readers, at[r] = "done", op[r] = "get_overdue_payments",
                      NEW p \in DOMAIN answer[r].days, NEW q \in DOMAIN answer[r].days,
                      answer[r].days[p] > 0, answer[r].days[q] > 0
               PROVE  answer[r].days[p] + rows[r][p].due = answer[r].days[q] + rows[r][q].due
    BY DEF OneDayForAll
  <2>1. PICK t \in Int : answer[r] = DaysAnswer([x \in DOMAIN rows[r] |->
                                                   DaysOverdue(rows[r][x].due, t)])
    BY DEF IInv, ReaderOK, DaysOK
  <2>2. /\ p \in DOMAIN rows[r] /\ q \in DOMAIN rows[r]
        /\ answer[r].days[p] = DaysOverdue(rows[r][p].due, t)
        /\ answer[r].days[q] = DaysOverdue(rows[r][q].due, t)
    BY <2>1 DEF DaysAnswer
  <2>3. rows[r][p].due \in Int /\ rows[r][q].due \in Int
    BY <2>2 DEF IInv, TypeOK, PaymentRow
  <2> QED
    BY <2>2, <2>3 DEF DaysOverdue
<1> QED
  BY <1>1, Invariance, PTL

(* The open loans of a table of all the customer's loans are the selection  *)
(* that TotalMonthlyDebt sums.                                              *)
LEMMA DebtOfOpenLoans ==
  ASSUME NEW b, IsBook(b), NEW c
  PROVE  LET all == Restrict(b.loan, GetAllLoans(b, c))
             open == {l \in DOMAIN all : all[l].status # "closed"}
         IN  TotalMonthlyDebt(b, c) =
               SumFunctionOnSet([l \in open |-> all[l].monthlyPayment], open)
<1> DEFINE all == Restrict(b.loan, GetAllLoans(b, c))
           open == {l \in DOMAIN all : all[l].status # "closed"}
           selected == {l \in DOMAIN b.loan :
                          /\ b.loan[l].customer = c
                          /\ b.loan[l].status \in {"active", "overdue"}}
<1>1. DOMAIN all = GetAllLoans(b, c) /\ \A l \in GetAllLoans(b, c) : all[l] = b.loan[l]
  BY RestrictFacts
<1>2. \A l \in DOMAIN b.loan : b.loan[l].status \in LoanStatus
  BY BookRows DEF LoanRow
<1>3. open = selected
  BY <1>1, <1>2 DEF GetAllLoans, LoanStatus
<1>4. [l \in open |-> all[l].monthlyPayment] = [l \in selected |-> b.loan[l].monthlyPayment]
  BY <1>1, <1>3 DEF GetAllLoans
<1> QED
  BY <1>3, <1>4 DEF TotalMonthlyDebt

(* What the sidebar shows was committed while it ran, in the order of its   *)
(* four statements, and it leaves out the DTI only of a customer gone since *)
(* the profile (ui.py:83-94, analytics_service.py:31-33).                   *)
THEOREM SidebarIsInOrder == Spec => []SidebarInOrder
<1>1. IInv => SidebarInOrder
  <2> SUFFICES ASSUME IInv, NEW r \in Readers, IsShown(r)
               PROVE  \E u \in Window(r) : \E t \in u..Len(log) : \E v \in t..Len(log) :
                        /\ Exists(log[u], who[r])
                        /\ shown[r] = log[u].income[who[r]]
                        /\ table[r] = Restrict(log[t].loan, GetAllLoans(log[t], who[r]))
                        /\ HasDti(r) <=> Exists(log[v], who[r])
                        /\ HasDti(r) =>
                              /\ answer[r].income = log[v].income[who[r]]
                              /\ \E w \in v..Len(log) :
                                    answer[r].total = TotalMonthlyDebt(log[w], who[r])
    BY DEF SidebarInOrder
  <2>1. TypeOK /\ Chain(r) /\ op[r] = "sidebar"
    BY DEF IInv, ReaderOK, IsShown
  <2>2. PICK u \in Window(r), t \in Window(r), v \in Window(r) :
          u <= t /\ t <= v /\ ProfileOf(r, u) /\ LoansOf(r, t) /\ DtiOf(r, v)
    BY <2>1 DEF Chain
  <2>3. t \in u..Len(log) /\ v \in t..Len(log)
    BY <2>1, <2>2 DEF Window, TypeOK
  <2>4. \A w \in Window(r) : v <= w => w \in v..Len(log)
    BY <2>1 DEF Window, TypeOK
  <2>5. /\ HasDti(r) <=> Exists(log[v], who[r])
        /\ HasDti(r) => /\ answer[r].income = log[v].income[who[r]]
                        /\ \E w \in v..Len(log) :
                              answer[r].total = TotalMonthlyDebt(log[w], who[r])
    BY <2>2, <2>4 DEF DtiOf
  <2> QED
    BY <2>2, <2>3, <2>5 DEF ProfileOf, LoansOf
<1> QED
  BY <1>1, Invariance, PTL

(* With no commit in between, the sidebar has a DTI line, of the income it  *)
(* prints, and the debt is the sum over the open loans it lists             *)
(* (ui.py:83-95).                                                           *)
THEOREM SidebarIsConsistent == Spec => []SidebarAgrees
<1>1. IInv => SidebarAgrees
  <2> SUFFICES ASSUME IInv, NEW r \in Readers, IsShown(r), since[r] = Len(log)
               PROVE  LET open == {l \in DOMAIN table[r] : table[r][l].status # "closed"}
                      IN  /\ HasDti(r)
                          /\ answer[r].income = shown[r]
                          /\ answer[r].total =
                               SumFunctionOnSet([l \in open |-> table[r][l].monthlyPayment], open)
    BY DEF SidebarAgrees
  <2>1. /\ table[r] = Restrict(book.loan, GetAllLoans(book, who[r]))
        /\ HasDti(r) /\ answer[r].income = shown[r]
        /\ answer[r].total = TotalMonthlyDebt(book, who[r])
    BY DEF IInv, ReaderOK, SidebarOK, IsShown
  <2>2. IsBook(book)
    BY LogBooks DEF IInv
  <2> QED
    BY <2>1, <2>2, DebtOfOpenLoans
<1> QED
  BY <1>1, Invariance, PTL

(* With no commit in between, the loans that get_active_loans lists make    *)
(* calculate_dti's debt (loan_service.py:37-40, analytics_service.py:35-40).*)
THEOREM ListedLoansMakeDebt == Spec => []OpenLoansMakeDebt
<1>1. IInv => OpenLoansMakeDebt
  <2> SUFFICES ASSUME IInv, NEW r \in Readers, at[r] = "done", op[r] = "get_active_loans",
                      since[r] = Len(log)
               PROVE  TotalMonthlyDebt(book, who[r]) =
                        SumFunctionOnSet([l \in DOMAIN table[r] |-> table[r][l].monthlyPayment],
                                         DOMAIN table[r])
    BY DEF OpenLoansMakeDebt
  <2>1. TypeOK /\ Placed(r) /\ LoansOK(r)
    BY DEF IInv, ReaderOK
  <2>2. Window(r) = {Len(log)}
    BY <2>1 DEF TypeOK, Window
  <2>3. table[r] = Restrict(book.loan, GetActiveLoans(book, who[r]))
    <3>1. PICK v \in Window(r) : table[r] = Restrict(log[v].loan, GetActiveLoans(log[v], who[r]))
      BY <2>1 DEF LoansOK
    <3> QED
      BY <2>2, <3>1 DEF book
  <2> DEFINE selected == {l \in DOMAIN book.loan :
                            /\ book.loan[l].customer = who[r]
                            /\ book.loan[l].status \in {"active", "overdue"}}
  <2>4. DOMAIN table[r] = selected /\ \A l \in selected : table[r][l] = book.loan[l]
    BY <2>3, RestrictFacts DEF GetActiveLoans
  <2>5. [l \in DOMAIN table[r] |-> table[r][l].monthlyPayment] =
          [l \in selected |-> book.loan[l].monthlyPayment]
    BY <2>4
  <2> QED
    BY <2>4, <2>5 DEF TotalMonthlyDebt
<1> QED
  BY <1>1, Invariance, PTL

-----------------------------------------------------------------------------
(* Sums.  An invariant set of subsets takes the place of an induction       *)
(* hypothesis: strict inclusion of finite sets is well founded.             *)

First(s) == CHOOSE x \in s : TRUE

LEMMA SubsetInduction ==
  ASSUME NEW S, IsFiniteSet(S), NEW C,
         \A T \in SUBSET S : (\A U \in SUBSET T : U # T => U \in C) => T \in C
  PROVE  S \in C
<1> DEFINE B == {T \in SUBSET S : T \notin C}
<1> SUFFICES ASSUME B # {} PROVE FALSE
  OBVIOUS
<1>1. B \subseteq FiniteSubsetsOf(S)
  BY FS_Subset DEF FiniteSubsetsOf
<1>2. IsWellFoundedOn(StrictSubsetOrdering(S), FiniteSubsetsOf(S))
  BY FS_StrictSubsetOrderingWellFounded
<1>3. PICK T \in B : \A U \in B : <<U, T>> \notin StrictSubsetOrdering(S)
  <2> HIDE DEF B
  <2> QED
    BY <1>1, <1>2, WFMin
<1>4. \A U \in SUBSET T : U # T => U \in C
  BY <1>3 DEF StrictSubsetOrdering
<1> QED
  BY <1>3, <1>4

(* One step of the recursion that sums f, and what solves it on S.          *)
SumBody(f, g, s) == IF s = {} THEN 0 ELSE f[First(s)] + g[s \ {First(s)}]
Sums(f, S, g) == g = [s \in SUBSET S |-> SumBody(f, g, s)]
TheSums(f, S) == CHOOSE g : Sums(f, S, g)

LEMMA SumIsTheSums == ASSUME NEW f, NEW S PROVE SumFunctionOnSet(f, S) = TheSums(f, S)[S]
  BY Zenon
     DEF SumFunctionOnSet, FoldFunctionOnSet, MapThenFoldSet, TheSums, Sums, SumBody, First

LEMMA FirstIsIn == ASSUME NEW s, s # {} PROVE First(s) \in s
  BY DEF First

(* A solution on a set is one on its subsets.                               *)
LEMMA SumsAgree ==
  ASSUME NEW f, NEW S, IsFiniteSet(S), NEW T, S \subseteq T,
         NEW g, Sums(f, S, g), NEW h, Sums(f, T, h)
  PROVE  g[S] = h[S]
<1> DEFINE C == {s \in SUBSET S : g[s] = h[s]}
<1>1. ASSUME NEW s \in SUBSET S, \A u \in SUBSET s : u # s => u \in C
      PROVE  s \in C
  <2>1. g[s] = SumBody(f, g, s) /\ h[s] = SumBody(f, h, s)
    BY DEF Sums
  <2>2. CASE s = {}
    BY <2>1, <2>2 DEF SumBody
  <2>3. CASE s # {}
    <3>1. s \ {First(s)} \in SUBSET s /\ s \ {First(s)} # s
      BY <2>3, FirstIsIn
    <3>2. g[s \ {First(s)}] = h[s \ {First(s)}]
      BY <1>1, <3>1
    <3> QED
      BY <2>1, <3>2 DEF SumBody
  <2> QED
    BY <2>2, <2>3
<1>2. S \in C
  <2> HIDE DEF C
  <2> QED
    BY <1>1, SubsetInduction
<1> QED
  BY <1>2

(* Every finite set has one, put together from those of its strict subsets. *)
LEMMA SumsExist ==
  ASSUME NEW f, NEW S, IsFiniteSet(S)
  PROVE  Sums(f, S, TheSums(f, S))
<1> DEFINE C == {s \in SUBSET S : \E g : Sums(f, s, g)}
<1>1. ASSUME NEW T \in SUBSET S, \A u \in SUBSET T : u # T => u \in C
      PROVE  T \in C
  <2> DEFINE Rest(s) == s \ {First(s)}
             Of(u) == TheSums(f, u)[u]
             g == [s \in SUBSET T |-> IF s = {} THEN 0 ELSE f[First(s)] + Of(Rest(s))]
  <2>1. ASSUME NEW s \in SUBSET T, s # {}
        PROVE  Rest(s) \in SUBSET T /\ Rest(s) # T
    BY <2>1, FirstIsIn
  <2>2. ASSUME NEW u \in SUBSET T, u # T PROVE Sums(f, u, TheSums(f, u))
    <3>1. \E h : Sums(f, u, h)
      BY <1>1, <2>2
    <3> QED
      BY <3>1 DEF TheSums
  <2>3. ASSUME NEW u \in SUBSET T, u # T PROVE g[u] = Of(u)
    <3>1. Of(u) = SumBody(f, TheSums(f, u), u)
      BY <2>2, <2>3 DEF Sums
    <3>2. CASE u = {}
      BY <3>1, <3>2 DEF SumBody
    <3>3. CASE u # {}
      <4>1. Rest(u) \in SUBSET T /\ Rest(u) # T /\ IsFiniteSet(Rest(u)) /\ Rest(u) \subseteq u
        BY <2>1, <3>3, FS_Subset
      <4>2. TheSums(f, Rest(u))[Rest(u)] = TheSums(f, u)[Rest(u)]
        BY <2>2, <2>3, <4>1, SumsAgree
      <4> QED
        BY <3>1, <3>3, <4>2 DEF SumBody
    <3> QED
      BY <3>2, <3>3
  <2>4. \A s \in SUBSET T : g[s] = SumBody(f, g, s)
    BY <2>1, <2>3 DEF SumBody
  <2>5. Sums(f, T, g)
    <3>1. g = [s \in SUBSET T |-> g[s]]
      OBVIOUS
    <3> HIDE DEF g
    <3> QED
      BY <2>4, <3>1 DEF Sums
  <2> QED
    BY <2>5
<1>2. S \in C
  <2> HIDE DEF C
  <2> QED
    BY <1>1, SubsetInduction
<1> QED
  BY <1>2 DEF TheSums

(* A finite sum of natural numbers is one.                                  *)
LEMMA SumType ==
  ASSUME NEW f, NEW S, IsFiniteSet(S), \A x \in S : f[x] \in Nat
  PROVE  SumFunctionOnSet(f, S) \in Nat
<1> DEFINE g == TheSums(f, S)
           C == {s \in SUBSET S : g[s] \in Nat}
<1>0. Sums(f, S, g)
  BY SumsExist
<1>1. ASSUME NEW s \in SUBSET S, \A u \in SUBSET s : u # s => u \in C
      PROVE  s \in C
  <2>1. g[s] = SumBody(f, g, s)
    <3> HIDE DEF g
    <3> QED
      BY <1>0 DEF Sums
  <2>2. CASE s = {}
    BY <2>1, <2>2 DEF SumBody
  <2>3. CASE s # {}
    <3>1. First(s) \in s /\ f[First(s)] \in Nat
      BY <2>3, FirstIsIn
    <3>2. g[s \ {First(s)}] \in Nat
      BY <1>1, <3>1
    <3> QED
      BY <2>1, <2>3, <3>1, <3>2 DEF SumBody
  <2> QED
    BY <2>2, <2>3
<1>2. S \in C
  <2> HIDE DEF C
  <2> QED
    BY <1>1, SubsetInduction
<1> QED
  BY <1>2, SumIsTheSums

LEMMA DebtType ==
  ASSUME NEW b, IsBook(b), NEW c
  PROVE  TotalMonthlyDebt(b, c) \in Nat
<1> DEFINE S == {l \in DOMAIN b.loan :
                   /\ b.loan[l].customer = c
                   /\ b.loan[l].status \in {"active", "overdue"}}
           f == [l \in S |-> b.loan[l].monthlyPayment]
<1>1. IsFiniteSet(S)
  BY FS_Subset DEF IsBook
<1>2. \A l \in S : f[l] \in Nat
  BY DEF IsBook, LoanRow
<1>3. SumFunctionOnSet(f, S) \in Nat
  <2> HIDE DEF f, S
  <2> QED
    BY <1>1, <1>2, SumType
<1> QED
  BY <1>3 DEF TotalMonthlyDebt

-----------------------------------------------------------------------------
(* Rounding.                                                                *)

LEMMA Euclid ==
  ASSUME NEW n \in Nat, NEW d \in Nat \ {0}
  PROVE  /\ n \div d \in Nat
         /\ n % d \in 0..(d - 1)
         /\ n = d * (n \div d) + (n % d)
  OBVIOUS

(* The rounded quotient is off by half a divisor at most.                   *)
LEMMA Rounded ==
  ASSUME NEW n \in Nat, NEW d \in Nat \ {0}
  PROVE  /\ RoundedQuotient(n, d) \in Nat
         /\ 2 * (RoundedQuotient(n, d) * d - n) <= d
         /\ -2 * (RoundedQuotient(n, d) * d - n) <= d
<1> DEFINE q == n \div d
           r == n % d
<1>1. q \in Nat /\ r \in 0..(d-1) /\ n = d * q + r
  BY Euclid
<1>2. RoundedQuotient(n, d) = IF 2*r > d \/ (2*r = d /\ q % 2 = 1) THEN q + 1 ELSE q
  BY DEF RoundedQuotient
<1> HIDE DEF q, r
<1>3. CASE RoundedQuotient(n,d) = q /\ 2*r <= d
  BY <1>1, <1>3
<1>4. CASE RoundedQuotient(n,d) = q + 1 /\ 2*r >= d
  BY <1>1, <1>4
<1> QED
  BY <1>1, <1>2, <1>3, <1>4

(* The ratio of a DTI is the nearest hundredth of a percent to what its own *)
(* two numbers give, for every income and every sum of payments             *)
(* (analytics_service.py:16-20, 42-50).                                     *)
THEOREM RatiosAreNearest == Spec => []DtiNearest
<1>1. IInv => DtiNearest
  <2> SUFFICES ASSUME IInv, NEW r \in Readers, HasDti(r)
               PROVE  LET inc == answer[r].income
                          error == answer[r].ratio * inc - 10000 * answer[r].total
                      IN  IF inc = 0 THEN answer[r].ratio = 0
                                     ELSE 2 * error <= inc /\ -2 * error <= inc
    BY DEF DtiNearest
  <2>1. PICK v \in Window(r) : \E w \in v..Len(log) :
           /\ Exists(log[v], who[r])
           /\ answer[r].income = log[v].income[who[r]]
           /\ answer[r].total = TotalMonthlyDebt(log[w], who[r])
           /\ answer[r].ratio = ComputeDtiRatio(answer[r].total, answer[r].income)
    BY DEF IInv, ReaderOK, DtiOK
  <2>2. PICK w \in v..Len(log) :
           /\ Exists(log[v], who[r])
           /\ answer[r].income = log[v].income[who[r]]
           /\ answer[r].total = TotalMonthlyDebt(log[w], who[r])
           /\ answer[r].ratio = ComputeDtiRatio(answer[r].total, answer[r].income)
    BY <2>1
  <2>3. v \in 1..Len(log) /\ w \in 1..Len(log)
    <3>1. since[r] \in 1..Len(log)
      BY DEF IInv, ReaderOK, Placed, HasDti
    <3>2. Len(log) \in Nat
      BY LogBooks DEF IInv
    <3> QED
      BY <3>1, <3>2 DEF Window
  <2>4. answer[r].income \in Nat
    BY <2>2, <2>3, LogBooks, BookRows DEF IInv, Exists
  <2>5. answer[r].total \in Nat
    BY <2>2, <2>3, LogBooks, DebtType DEF IInv
  <2>6. CASE answer[r].income = 0
    BY <2>2, <2>6 DEF ComputeDtiRatio
  <2>7. CASE answer[r].income # 0
    <3> DEFINE n == 10000 * answer[r].total
               d == answer[r].income
    <3>1. n \in Nat /\ d \in Nat \ {0}
      BY <2>4, <2>5, <2>7
    <3>2. answer[r].ratio = RoundedQuotient(n, d)
      BY <2>2, <2>4, <2>7 DEF ComputeDtiRatio
    <3>3. /\ 2 * (RoundedQuotient(n, d) * d - n) <= d
          /\ -2 * (RoundedQuotient(n, d) * d - n) <= d
      <4> HIDE DEF n, d
      <4> QED
        BY <3>1, Rounded
    <3> QED
      BY <2>7, <3>2, <3>3
  <2> QED
    BY <2>6, <2>7
<1> QED
  BY <1>1, Invariance, PTL

-----------------------------------------------------------------------------
(***************************************************************************)
(* The data of the seed script (SeedData), for every day it may run on.     *)
(***************************************************************************)
(* Months are numbered through, from the year zero.                         *)
YearOf(i) == i \div 12
MonthOf(i) == (i % 12) + 1
IndexOf(d) == 12 * d.year + (d.month - 1)
Length(i) == DaysIn(YearOf(i), MonthOf(i))
Before(i) == DayNumber([year |-> YearOf(i), month |-> MonthOf(i), day |-> 0])

IsDate(d) ==
  /\ d.year \in Int /\ d.month \in 1..12
  /\ d.day \in 1..DaysIn(d.year, d.month)

LEMMA Leaps == ASSUME NEW y \in Int PROVE IsLeap(y) \in BOOLEAN
  BY DEF IsLeap

LEMMA MonthLengths ==
  ASSUME NEW y \in Int, NEW m \in 1..12
  PROVE  /\ DaysIn(y, m) = IF m = 2 THEN IF IsLeap(y) THEN 29 ELSE 28
                              ELSE IF m \in {4, 6, 9, 11} THEN 30 ELSE 31
         /\ DaysIn(y, m) \in 28..31
<1>1. \A n \in 1..12 : <<31, 28, 31, 30, 31, 30, 31, 31, 30, 31, 30, 31>>[n] =
         IF n = 2 THEN 28 ELSE IF n \in {4, 6, 9, 11} THEN 30 ELSE 31
  OBVIOUS
<1>2. DaysIn(y, m) = IF m = 2 /\ IsLeap(y) THEN 29
         ELSE <<31, 28, 31, 30, 31, 30, 31, 31, 30, 31, 30, 31>>[m]
  BY DEF DaysIn
<1> QED
  BY <1>1, <1>2

LEMMA MonthStarts ==
  /\ \A m \in 1..12 : DaysBefore(m) \in 0..334
  /\ DaysBefore(1) = 0 /\ DaysBefore(12) = 334
  /\ \A m \in 1..11 : DaysBefore(m + 1) = DaysBefore(m) +
        IF m = 2 THEN 28 ELSE IF m \in {4, 6, 9, 11} THEN 30 ELSE 31
<1>1. \A m : DaysBefore(m) = <<0, 31, 59, 90, 120, 151, 181, 212, 243, 273, 304, 334>>[m]
  BY DEF DaysBefore
<1> QED
  BY <1>1

LEMMA IndexParts ==
  ASSUME NEW i \in Int
  PROVE  /\ YearOf(i) \in Int /\ MonthOf(i) \in 1..12
         /\ i = 12 * YearOf(i) + (MonthOf(i) - 1)
  BY DEF YearOf, MonthOf

LEMMA IndexRoundTrip ==
  ASSUME NEW y \in Int, NEW m \in 1..12
  PROVE  YearOf(12 * y + (m - 1)) = y /\ MonthOf(12 * y + (m - 1)) = m
  BY DEF YearOf, MonthOf

(* Days before the first of a year.                                         *)
YearStart(y) == 365 * (y - 1) + ((y - 1) \div 4) - ((y - 1) \div 100) + ((y - 1) \div 400)
LeapDay(y, m) == IF m > 2 /\ IsLeap(y) THEN 1 ELSE 0

LEMMA YearStartType == ASSUME NEW y \in Int PROVE YearStart(y) \in Int
  BY DEF YearStart

LEMMA DayNumberSum ==
  ASSUME NEW y \in Int, NEW m \in 1..12, NEW k \in Int
  PROVE  DayNumber([year |-> y, month |-> m, day |-> k]) =
           YearStart(y) + DaysBefore(m) + LeapDay(y, m) + k
  BY YearStartType, MonthStarts DEF DayNumber, YearStart, LeapDay

LEMMA NextYearStart ==
  ASSUME NEW y \in Int
  PROVE  YearStart(y + 1) = YearStart(y) + 365 + (IF IsLeap(y) THEN 1 ELSE 0)
<1> DEFINE a == y - 1
           q == a \div 4   qq == y \div 4
           h == a \div 100 hh == y \div 100
           g == a \div 400 gg == y \div 400
<1>1. qq - q = IF y % 4 = 0 THEN 1 ELSE 0
  OBVIOUS
<1>2. hh - h = IF y % 100 = 0 THEN 1 ELSE 0
  OBVIOUS
<1>3. gg - g = IF y % 400 = 0 THEN 1 ELSE 0
  OBVIOUS
<1>4. (y % 100 = 0 => y % 4 = 0) /\ (y % 400 = 0 => y % 100 = 0)
  OBVIOUS
<1>5. /\ q \in Int /\ qq \in Int /\ h \in Int /\ hh \in Int /\ g \in Int /\ gg \in Int
  OBVIOUS
<1>6. YearStart(y) = 365 * a + q - h + g /\ a = y - 1
  BY DEF YearStart
<1>7. YearStart(y + 1) = 365 * y + qq - hh + gg
  <2>1. YearStart(y + 1) = 365 * ((y + 1) - 1) + (((y + 1) - 1) \div 4)
           - (((y + 1) - 1) \div 100) + (((y + 1) - 1) \div 400)
    BY DEF YearStart
  <2>2. (y + 1) - 1 = y
    OBVIOUS
  <2> QED
    BY <2>1, <2>2
<1>8. IsLeap(y) <=> y % 4 = 0 /\ (y % 100 # 0 \/ y % 400 = 0)
  BY DEF IsLeap
<1> HIDE DEF a, q, h, g, qq, hh, gg
<1>9. (qq - q) - (hh - h) + (gg - g) = IF IsLeap(y) THEN 1 ELSE 0
  BY <1>1, <1>2, <1>3, <1>4, <1>5, <1>8
<1> QED
  BY <1>5, <1>6, <1>7, <1>9

LEMMA YearsRise ==
  ASSUME NEW y \in Int, NEW z \in Int, y <= z
  PROVE  YearStart(y) <= YearStart(z)
<1> DEFINE a == y - 1
           b == z - 1
<1>1. a \in Int /\ b \in Int /\ a <= b
  OBVIOUS
<1>2. /\ YearStart(y) = 365 * a + (a \div 4) - (a \div 100) + (a \div 400)
      /\ YearStart(z) = 365 * b + (b \div 4) - (b \div 100) + (b \div 400)
  BY DEF YearStart
<1> HIDE DEF a, b
<1>3. (a \div 4) <= (b \div 4) /\ (a \div 400) <= (b \div 400)
  BY <1>1
<1>4. 100 * ((b \div 100) - (a \div 100)) <= (b - a) + 99
  BY <1>1
<1>5. /\ a \div 4 \in Int /\ b \div 4 \in Int /\ a \div 100 \in Int /\ b \div 100 \in Int
      /\ a \div 400 \in Int /\ b \div 400 \in Int
  BY <1>1
<1>6. (b \div 100) - (a \div 100) <= 365 * (b - a)
  BY <1>1, <1>4, <1>5
<1> QED
  BY <1>1, <1>2, <1>3, <1>5, <1>6

LEMMA BeforeSum ==
  ASSUME NEW i \in Int
  PROVE  /\ Before(i) = YearStart(YearOf(i)) + DaysBefore(MonthOf(i))
                          + LeapDay(YearOf(i), MonthOf(i))
         /\ Before(i) \in Int
         /\ Length(i) \in 28..31
<1> DEFINE y == YearOf(i)
           m == MonthOf(i)
<1>1. y \in Int /\ m \in 1..12
  BY IndexParts
<1>2. Length(i) = DaysIn(y, m) /\ Before(i) = DayNumber([year |-> y, month |-> m, day |-> 0])
  BY DEF Length, Before
<1> HIDE DEF y, m
<1>3. DaysBefore(m) \in Int /\ LeapDay(y, m) \in Int /\ YearStart(y) \in Int
  BY <1>1, MonthStarts, YearStartType DEF LeapDay
<1>4. Before(i) = YearStart(y) + DaysBefore(m) + LeapDay(y, m) + 0
  BY <1>1, <1>2, DayNumberSum
<1>5. Length(i) \in 28..31
  BY <1>1, <1>2, MonthLengths
<1> QED
  BY <1>3, <1>4, <1>5 DEF y, m

LEMMA NextMonth ==
  ASSUME NEW i \in Int
  PROVE  Before(i + 1) = Before(i) + Length(i)
<1> DEFINE y == YearOf(i)
           m == MonthOf(i)
<1>1. y \in Int /\ m \in 1..12 /\ i = 12 * y + (m - 1)
  BY IndexParts
<1>2. Before(i) = YearStart(y) + DaysBefore(m) + LeapDay(y, m)
  BY BeforeSum
<1>3. Length(i) = DaysIn(y, m)
  BY DEF Length
<1>4. i + 1 \in Int
  OBVIOUS
<1> HIDE DEF y, m
<1>5. CASE m = 12
  <2>1. i + 1 = 12 * (y + 1) + (1 - 1) /\ y + 1 \in Int
    BY <1>1, <1>5
  <2>2. YearOf(i + 1) = y + 1 /\ MonthOf(i + 1) = 1
    BY <2>1, IndexRoundTrip
  <2>3. Before(i + 1) = YearStart(y + 1)
    BY <1>1, <2>2, <1>4, BeforeSum, MonthStarts, YearStartType DEF LeapDay
  <2>4. YearStart(y + 1) = YearStart(y) + 365 + (IF IsLeap(y) THEN 1 ELSE 0)
    BY <1>1, NextYearStart
  <2>5. DaysBefore(m) = 334 /\ DaysIn(y, m) = 31
    BY <1>1, <1>5, MonthStarts, MonthLengths
  <2>6. LeapDay(y, m) = IF IsLeap(y) THEN 1 ELSE 0
    BY <1>5 DEF LeapDay
  <2>7. YearStart(y) \in Int
    BY <1>1, YearStartType
  <2> QED
    BY <1>2, <1>3, <2>3, <2>4, <2>5, <2>6, <2>7
<1>6. CASE m < 12
  <2>1. i + 1 = 12 * y + ((m + 1) - 1) /\ m + 1 \in 1..12 /\ m \in 1..11
    BY <1>1, <1>6
  <2>2. YearOf(i + 1) = y /\ MonthOf(i + 1) = m + 1
    BY <1>1, <2>1, IndexRoundTrip
  <2>3. Before(i + 1) = YearStart(y) + DaysBefore(m + 1) + LeapDay(y, m + 1)
    BY <2>2, <1>4, BeforeSum
  <2>4. LeapDay(y, m + 1) = IF m >= 2 /\ IsLeap(y) THEN 1 ELSE 0
    BY <1>1 DEF LeapDay
  <2> QED
    BY <1>1, <1>2, <1>3, <2>1, <2>3, <2>4, MonthStarts, MonthLengths, YearStartType,
       Leaps DEF LeapDay
<1> QED
  BY <1>1, <1>5, <1>6

LEMMA MonthsRise ==
  ASSUME NEW i \in Int, NEW j \in Int, i <= j
  PROVE  Before(i) <= Before(j)
<1> DEFINE y == YearOf(i)  m == MonthOf(i)
           z == YearOf(j)  n == MonthOf(j)
<1>1. y \in Int /\ m \in 1..12 /\ i = 12 * y + (m - 1)
  BY IndexParts
<1>2. z \in Int /\ n \in 1..12 /\ j = 12 * z + (n - 1)
  BY IndexParts
<1>3. Before(i) = YearStart(y) + DaysBefore(m) + LeapDay(y, m)
  BY BeforeSum
<1>4. Before(j) = YearStart(z) + DaysBefore(n) + LeapDay(z, n)
  BY BeforeSum
<1> HIDE DEF y, m, z, n
<1>5. /\ YearStart(y) \in Int /\ YearStart(z) \in Int
      /\ DaysBefore(m) \in 0..334 /\ DaysBefore(n) \in 0..334
  BY <1>1, <1>2, YearStartType, MonthStarts
<1>6. LeapDay(y, m) \in 0..1 /\ LeapDay(z, n) \in 0..1
  BY DEF LeapDay
<1>7. y < z \/ (y = z /\ m <= n)
  BY <1>1, <1>2
<1>8. CASE y < z
  <2>1. YearStart(y + 1) = YearStart(y) + 365 + (IF IsLeap(y) THEN 1 ELSE 0)
    BY <1>1, NextYearStart
  <2>2. YearStart(y + 1) >= YearStart(y) + 365
    BY <1>5, <2>1
  <2>3. YearStart(y + 1) <= YearStart(z) /\ YearStart(y + 1) \in Int
    BY <1>1, <1>2, <1>8, YearsRise, YearStartType
  <2> DEFINE A == YearStart(y)  B == YearStart(y + 1)  C == YearStart(z)
             p == DaysBefore(m)  q == LeapDay(y, m)
             r == DaysBefore(n)  t == LeapDay(z, n)
  <2>4. A \in Int /\ B \in Int /\ C \in Int /\ p \in 0..334 /\ r \in 0..334 /\ q \in 0..1 /\ t \in 0..1
    BY <1>5, <1>6, <2>3
  <2>5. B >= A + 365 /\ B <= C
    BY <2>2, <2>3
  <2>6. Before(i) = A + p + q /\ Before(j) = C + r + t
    BY <1>3, <1>4
  <2> HIDE DEF A, B, C, p, q, r, t
  <2> QED
    BY <2>4, <2>5, <2>6
<1>9. CASE y = z /\ m <= n
  <2>1. DaysBefore(m) <= DaysBefore(n)
    <3>1. \A k \in 1..12 : DaysBefore(k) =
             <<0, 31, 59, 90, 120, 151, 181, 212, 243, 273, 304, 334>>[k]
      BY DEF DaysBefore
    <3>2. \A k \in 1..12, l \in 1..12 : k <= l =>
             <<0, 31, 59, 90, 120, 151, 181, 212, 243, 273, 304, 334>>[k] <=
             <<0, 31, 59, 90, 120, 151, 181, 212, 243, 273, 304, 334>>[l]
      OBVIOUS
    <3> QED
      BY <1>1, <1>2, <1>9, <3>1, <3>2
  <2>2. LeapDay(y, m) <= LeapDay(z, n)
    BY <1>1, <1>2, <1>9 DEF LeapDay
  <2>3. Before(j) = YearStart(y) + DaysBefore(n) + LeapDay(z, n)
    BY <1>4, <1>9
  <2> DEFINE A == YearStart(y)
             p == DaysBefore(m)  q == LeapDay(y, m)
             r == DaysBefore(n)  t == LeapDay(z, n)
  <2>4. A \in Int /\ p \in 0..334 /\ r \in 0..334 /\ q \in 0..1 /\ t \in 0..1
    BY <1>5, <1>6
  <2>5. p <= r /\ q <= t
    BY <2>1, <2>2
  <2>6. Before(i) = A + p + q /\ Before(j) = A + r + t
    BY <1>3, <2>3
  <2> HIDE DEF A, p, q, r, t
  <2> QED
    BY <2>4, <2>5, <2>6
<1> QED
  BY <1>7, <1>8, <1>9

LEMMA MonthsDoNotOverlap ==
  ASSUME NEW i \in Int, NEW j \in Int, i < j
  PROVE  Before(i) + Length(i) <= Before(j)
<1>1. i + 1 \in Int /\ i + 1 <= j
  OBVIOUS
<1> QED
  BY <1>1, NextMonth, MonthsRise


(* What a date's number and a shifted date are, in terms of the months.     *)
LEMMA NumberOfDate ==
  ASSUME NEW d, IsDate(d)
  PROVE  /\ IndexOf(d) \in Int /\ d.day \in 1..Length(IndexOf(d))
         /\ DayNumber(d) = Before(IndexOf(d)) + d.day
<1> DEFINE y == d.year  m == d.month  i == IndexOf(d)
<1>1. y \in Int /\ m \in 1..12 /\ d.day \in 1..DaysIn(y, m)
  BY DEF IsDate
<1>2. i = 12 * y + (m - 1)
  BY DEF IndexOf
<1>3. i \in Int
  BY <1>1, <1>2
<1>4. DaysIn(y, m) \in 28..31
  BY <1>1, MonthLengths
<1>5. d.day \in Int
  BY <1>1, <1>4
<1>6. DayNumber(d) = DayNumber([year |-> y, month |-> m, day |-> d.day])
  BY DEF DayNumber
<1>7. DayNumber(d) = YearStart(y) + DaysBefore(m) + LeapDay(y, m) + d.day
  BY <1>1, <1>5, <1>6, DayNumberSum
<1>8. YearOf(i) = y /\ MonthOf(i) = m
  BY <1>1, <1>2, IndexRoundTrip
<1>9. Before(i) = YearStart(y) + DaysBefore(m) + LeapDay(y, m)
  BY <1>3, <1>8, BeforeSum
<1>10. Length(i) = DaysIn(y, m)
  BY <1>8 DEF Length
<1> QED
  BY <1>1, <1>3, <1>7, <1>9, <1>10

LEMMA ShiftedDate ==
  ASSUME NEW d, IsDate(d), NEW k \in Int
  PROVE  /\ IsDate(AddMonths(d, k))
         /\ IndexOf(AddMonths(d, k)) = IndexOf(d) + k
         /\ AddMonths(d, k).day = Min2(d.day, Length(IndexOf(d) + k))
<1> DEFINE n == d.month - 1 + k
           y == d.year + n \div 12
           m == (n % 12) + 1
           i == IndexOf(d) + k
           e == AddMonths(d, k)
<1>1. d.year \in Int /\ d.month \in 1..12
  BY DEF IsDate
<1>2. d.day \in 1..31
  BY <1>1, MonthLengths DEF IsDate
<1>3. n \in Int
  BY <1>1
<1>4. e = [year |-> y, month |-> m, day |-> Min2(d.day, DaysIn(y, m))]
  BY DEF AddMonths
<1>5. y \in Int /\ m \in 1..12 /\ n = 12 * (n \div 12) + (m - 1)
  <2> HIDE DEF n
  <2> QED
    BY <1>1, <1>3
<1>6. i = 12 * y + (m - 1)
  <2>1. i = 12 * d.year + n
    BY <1>1 DEF IndexOf
  <2>2. n \div 12 \in Int
    BY <1>3
  <2> DEFINE q == n \div 12
  <2>3. y = d.year + q /\ n = 12 * q + (m - 1)
    BY <1>5
  <2> HIDE DEF q, n, m, y, i
  <2> QED
    BY <1>1, <1>3, <1>5, <2>1, <2>2, <2>3 DEF q
<1> HIDE DEF n, y, m, i, e
<1>7. YearOf(i) = y /\ MonthOf(i) = m
  BY <1>5, <1>6, IndexRoundTrip
<1>8. Length(i) = DaysIn(y, m)
  BY <1>7 DEF Length
<1>9. e.year = y /\ e.month = m /\ e.day = Min2(d.day, DaysIn(y, m))
  BY <1>4
<1>10. IndexOf(e) = i
  BY <1>6, <1>9 DEF IndexOf
<1>11. DaysIn(y, m) \in 28..31
  BY <1>5, MonthLengths
<1>12. Min2(d.day, DaysIn(y, m)) \in 1..DaysIn(y, m)
  BY <1>2, <1>11 DEF Min2
<1>13. IsDate(e)
  BY <1>5, <1>9, <1>12 DEF IsDate
<1> QED
  BY <1>8, <1>9, <1>10, <1>13 DEF i, e


(* The number of the day that a loan's j-th payment is due on.              *)
Due(start, j) == DayNumber(AddMonths(start, j))

LEMMA DueNumber ==
  ASSUME NEW d, IsDate(d), NEW j \in Int
  PROVE  /\ Due(d, j) = Before(IndexOf(d) + j) + Min2(d.day, Length(IndexOf(d) + j))
         /\ Due(d, j) \in Int /\ IndexOf(d) \in Int
<1>1. IndexOf(d) \in Int /\ d.day \in 1..Length(IndexOf(d))
  BY NumberOfDate
<1>2. IndexOf(d) + j \in Int
  BY <1>1
<1>3. /\ Length(IndexOf(d)) \in 28..31
      /\ Before(IndexOf(d) + j) \in Int /\ Length(IndexOf(d) + j) \in 28..31
  BY <1>1, <1>2, BeforeSum
<1>4. Min2(d.day, Length(IndexOf(d) + j)) \in Int
  BY <1>1, <1>3 DEF Min2
<1>5. Due(d, j) = Before(IndexOf(d) + j) + Min2(d.day, Length(IndexOf(d) + j))
  BY ShiftedDate, NumberOfDate DEF Due
<1> QED
  BY <1>1, <1>3, <1>4, <1>5

(* A payment follows the one before it by a month's days.                   *)
LEMMA DuesAMonthApart ==
  ASSUME NEW d, IsDate(d), NEW j \in Int
  PROVE  Due(d, j + 1) - Due(d, j) \in 28..31
<1> DEFINE i == IndexOf(d) + j
           s == d.day
           L == Length(i)
           M == Length(i + 1)
<1>1. IndexOf(d) \in Int /\ s \in 1..Length(IndexOf(d)) /\ Length(IndexOf(d)) \in 28..31
  BY NumberOfDate, BeforeSum
<1>2. i \in Int /\ i + 1 \in Int /\ IndexOf(d) + (j + 1) = i + 1 /\ j + 1 \in Int
  BY <1>1
<1>3. Due(d, j) = Before(i) + Min2(s, L)
  BY DueNumber
<1>4. Due(d, j + 1) = Before(i + 1) + Min2(s, M)
  BY <1>2, DueNumber
<1>5. /\ Before(i) \in Int /\ L \in 28..31 /\ M \in 28..31
      /\ Before(i + 1) = Before(i) + L
  BY <1>2, BeforeSum, NextMonth
<1>6. s \in 1..31
  BY <1>1
<1> HIDE DEF i, s, L, M
<1> QED
  BY <1>3, <1>4, <1>5, <1>6 DEF Min2

(* From a date on, the first payment is due after it.                       *)
LEMMA DueAfterStart ==
  ASSUME NEW d, IsDate(d), NEW j \in Int, j >= 1
  PROVE  DayNumber(d) < Due(d, j)
<1> DEFINE i == IndexOf(d)
           s == d.day
           L == Length(i)
           M == Length(i + j)
<1>1. i \in Int /\ s \in 1..L /\ DayNumber(d) = Before(i) + s
  BY NumberOfDate
<1>2. i + j \in Int /\ i < i + j
  BY <1>1
<1>3. Due(d, j) = Before(i + j) + Min2(s, M)
  BY DueNumber
<1>4. Before(i) \in Int /\ L \in 28..31 /\ Before(i + j) \in Int /\ M \in 28..31
  BY <1>1, <1>2, BeforeSum
<1>5. Before(i) + L <= Before(i + j)
  BY <1>1, <1>2, MonthsDoNotOverlap
<1> HIDE DEF i, s, L, M
<1>6. Min2(s, M) \in Int /\ Min2(s, M) >= 1
  BY <1>1, <1>4 DEF Min2
<1> QED
  BY <1>1, <1>3, <1>4, <1>5, <1>6

(* Back b months and j forth again: the same day or up to three before it,  *)
(* an earlier day, a later one.                                             *)
LEMMA BackAndForth ==
  ASSUME NEW t, IsDate(t), NEW b \in Int, NEW j \in Int
  PROVE  LET now == DayNumber(t)
             due == Due(AddMonths(t, -b), j)
         IN  /\ now \in Int /\ due \in Int
             /\ j = b => now - due \in 0..3
             /\ j < b => due < now
             /\ j > b => due > now
<1> DEFINE T == IndexOf(t)
           D == t.day
           d == AddMonths(t, -b)
           now == DayNumber(t)
           due == Due(d, j)
           i == IndexOf(d) + j
           L == Length(T)
           K == Length(T - b)
           M == Length(i)
<1>1. T \in Int /\ D \in 1..L /\ now = Before(T) + D
  BY NumberOfDate
<1>2. -b \in Int /\ T - b \in Int /\ T + (-b) = T - b /\ (T - b) + j \in Int
  BY <1>1
<1>3. IsDate(d) /\ IndexOf(d) = T - b /\ d.day = Min2(D, K)
  BY <1>2, ShiftedDate
<1>4. i = (T - b) + j /\ i \in Int
  BY <1>2, <1>3
<1>5. due = Before(i) + Min2(Min2(D, K), M)
  BY <1>3, DueNumber
<1>6. Before(T) \in Int /\ Before(i) \in Int /\ L \in 28..31 /\ K \in 28..31 /\ M \in 28..31
  BY <1>1, <1>2, <1>4, BeforeSum
<1>7. i < T => Before(i) + M <= Before(T)
  BY <1>1, <1>4, MonthsDoNotOverlap
<1>8. T < i => Before(T) + L <= Before(i)
  BY <1>1, <1>4, MonthsDoNotOverlap
<1>9. i = T => Before(i) = Before(T) /\ M = L
  OBVIOUS
<1>10. (j = b => i = T) /\ (j < b => i < T) /\ (j > b => T < i)
  <2> HIDE DEF T, i
  <2> QED
    BY <1>1, <1>4
<1> SUFFICES /\ now \in Int /\ due \in Int
             /\ j = b => now - due \in 0..3
             /\ j < b => due < now
             /\ j > b => due > now
  OBVIOUS
<1> HIDE DEF T, D, d, now, due, i, L, K, M
<1>11. /\ Min2(Min2(D, K), M) \in 1..31 /\ Min2(Min2(D, K), M) <= M
       /\ M = L => D - Min2(Min2(D, K), M) \in 0..3
  BY <1>1, <1>6 DEF Min2
<1>12. D \in 1..31 /\ D <= L
  BY <1>1, <1>6
<1> QED
  BY <1>1, <1>5, <1>6, <1>7, <1>8, <1>9, <1>10, <1>11, <1>12

(* A few payments before today's, not more than as many months of 31 days.  *)
LEMMA FewMonthsBack ==
  ASSUME NEW t, IsDate(t), NEW b \in Int, NEW k \in 0..3
  PROVE  DayNumber(t) - Due(AddMonths(t, -b), b - k) <= 31 * k + 3
<1> DEFINE d == AddMonths(t, -b)
           now == DayNumber(t)
<1>1. IsDate(d)
  BY ShiftedDate
<1>2. now \in Int /\ now - Due(d, b) \in 0..3
  BY BackAndForth
<1>3. \A j \in Int : Due(d, j) \in Int /\ Due(d, j + 1) - Due(d, j) \in 28..31
  BY <1>1, DueNumber, DuesAMonthApart
<1>4. /\ b - 1 \in Int /\ b - 2 \in Int /\ b - 3 \in Int
      /\ (b - 1) + 1 = b /\ (b - 2) + 1 = b - 1 /\ (b - 3) + 1 = b - 2 /\ b - 0 = b
  OBVIOUS
<1> HIDE DEF d, now
<1>5. Due(d, b) - Due(d, b - 1) \in 28..31
  BY <1>3, <1>4
<1>6. Due(d, b - 1) - Due(d, b - 2) \in 28..31
  BY <1>3, <1>4
<1>7. Due(d, b - 2) - Due(d, b - 3) \in 28..31
  BY <1>3, <1>4
<1>8. Due(d, b) \in Int /\ Due(d, b - 1) \in Int /\ Due(d, b - 2) \in Int /\ Due(d, b - 3) \in Int
  BY <1>3, <1>4
<1>9. k = 0 \/ k = 1 \/ k = 2 \/ k = 3
  OBVIOUS
<1>10. now - Due(d, b - k) <= 31 * k + 3
  BY <1>2, <1>4, <1>5, <1>6, <1>7, <1>8, <1>9
<1> QED
  BY <1>10 DEF d, now


(* What StatusMatchesPayments, DatesInOrder and PaymentsNotOlder ask of one  *)
(* loan and its payments, and what Book reads of them.                      *)
Unpaid(payments) == {i \in DOMAIN payments : payments[i].paid = None}

StoryFits(loan, payments) ==
  /\ loan.status = "overdue" <=> Unpaid(payments) # {}
  /\ \A i \in Unpaid(payments), j \in DOMAIN payments : j > i => j \in Unpaid(payments)

DatesFit(loan, payments, now) ==
  /\ \A i \in DOMAIN payments :
        /\ DayNumber(loan.start) < payments[i].due /\ payments[i].due <= now
        /\ i > 1 => payments[i].due - payments[i - 1].due \in 28..31
  /\ (DayNumber(loan.end) > now) <=> loan.status # "closed"

NotOlder(loan, payments, now) ==
  \A i \in DOMAIN payments :
     payments[i].paid = None => DaysOverdue(payments[i].due, now) <= loan.daysOverdue

Readable(payments) ==
  /\ \E n \in 1..MaxPaymentHistoryMonths : DOMAIN payments = 1..n
  /\ \A i \in Unpaid(payments) : payments[i].late

LoanFits(loan, payments, now) ==
  /\ StoryFits(loan, payments)
  /\ DatesFit(loan, payments, now)
  /\ NotOlder(loan, payments, now)
  /\ Readable(payments)

LEMMA TailOfLoan ==
  ASSUME NEW loan, NEW months \in Nat \ {0},
         loan.status = "overdue" => loan.daysOverdue \in 5..120
  PROVE  /\ LateTail(loan, months) \in 0..months
         /\ loan.status = "overdue" <=> LateTail(loan, months) > 0
         /\ \A k \in Nat : k < LateTail(loan, months) =>
               k <= 3 /\ 31 * k + 3 <= loan.daysOverdue
<1>1. CASE loan.status # "overdue"
  <2>1. LateTail(loan, months) = 0
    BY <1>1 DEF LateTail
  <2> QED
    BY <1>1, <2>1
<1>2. CASE loan.status = "overdue"
  <2> DEFINE days == loan.daysOverdue
             r == RoundedQuotient(days, 30)
             tail == LateTail(loan, months)
  <2>1. tail = Min2(Max2(1, r), months)
    BY <1>2 DEF LateTail
  <2>2. days \in 5..120
    BY <1>2
  <2> HIDE DEF days, tail
  <2>3. /\ days \div 30 \in 0..4 /\ days % 30 \in 0..29 /\ days = 30 * (days \div 30) + (days % 30)
    BY <2>2
  <2>4. r \in {days \div 30, (days \div 30) + 1} /\ (r = (days \div 30) + 1 => days % 30 >= 15)
    BY <2>2, <2>3 DEF RoundedQuotient
  <2>5. r \in 0..4 /\ 30 * r <= days + 15
    BY <2>2, <2>3, <2>4
  <2> HIDE DEF r
  <2>6. tail \in 1..months /\ (tail <= r \/ tail <= 1)
    BY <2>1, <2>5 DEF Min2, Max2
  <2>7. \A k \in Nat : k < tail => k <= 3 /\ 31 * k + 3 <= days
    BY <2>2, <2>5, <2>6
  <2> QED
    BY <1>2, <2>6, <2>7 DEF days, tail
<1> QED
  BY <1>1, <1>2

(* A loan that began b months ago, e of them its history, fits its payments.*)
LEMMA BuiltLoanFits ==
  ASSUME NEW t, IsDate(t),
         NEW type, NEW status \in {"active", "overdue", "closed"},
         NEW b \in Nat, NEW term \in Nat, NEW e \in Nat \ {0}, NEW days,
         e <= b, status = "closed" => b > term,
         status # "closed" => b = e /\ e < term,
         status = "overdue" => days \in 5..120,
         NEW delay \in [1..Min2(e, MaxPaymentHistoryMonths) -> 0..2]
  PROVE  LET start == AddMonths(t, -b)
             loan == [type |-> type, status |-> status, start |-> start,
                      end |-> AddMonths(start, term), daysOverdue |-> days]
             months == Min2(e, MaxPaymentHistoryMonths)
         IN  LoanFits(loan, PaymentHistory(loan, e, months, delay), DayNumber(t))
<1> DEFINE start == AddMonths(t, -b)
           loan == [type |-> type, status |-> status, start |-> start,
                    end |-> AddMonths(start, term), daysOverdue |-> days]
           months == Min2(e, MaxPaymentHistoryMonths)
           now == DayNumber(t)
           pay == PaymentHistory(loan, e, months, delay)
           tail == LateTail(loan, months)
           due(i) == Due(start, e - months + i)
<1> SUFFICES LoanFits(loan, pay, now)
  OBVIOUS
<1>1. MaxPaymentHistoryMonths \in Nat \ {0} /\ None \notin Int
  BY SeedDataAssumption
<1>2. months \in Nat \ {0} /\ months <= e /\ months <= MaxPaymentHistoryMonths
  BY <1>1 DEF Min2
<1>3. /\ loan.status = status /\ loan.start = start /\ loan.daysOverdue = days
      /\ loan.end = AddMonths(start, term)
  OBVIOUS
<1>4. delay \in [1..months -> 0..2]
  OBVIOUS
<1>5. IsDate(start)
  BY ShiftedDate
<1>6. /\ now \in Int
      /\ \A j \in Int : /\ Due(start, j) \in Int
                        /\ j = b => now - Due(start, j) \in 0..3
                        /\ j < b => Due(start, j) < now
                        /\ j > b => Due(start, j) > now
  <2>1. b \in Int
    OBVIOUS
  <2>2. now \in Int
    BY NumberOfDate, BeforeSum
  <2>3. SUFFICES ASSUME NEW j \in Int
                 PROVE  /\ Due(start, j) \in Int
                        /\ j = b => now - Due(start, j) \in 0..3
                        /\ j < b => Due(start, j) < now
                        /\ j > b => Due(start, j) > now
    BY <2>2
  <2> QED
    BY <2>1, BackAndForth
<1>7. DayNumber(loan.end) = Due(start, term)
  BY <1>3 DEF Due
<1> HIDE DEF start, loan, now, months
<1>8. /\ tail \in 0..months
      /\ loan.status = "overdue" <=> tail > 0
      /\ \A k \in Nat : k < tail => k <= 3 /\ 31 * k + 3 <= loan.daysOverdue
  BY <1>2, <1>3, TailOfLoan
<1>9. pay = [i \in 1..months |->
               IF i > months - tail
                 THEN [due |-> due(i), paid |-> None, late |-> TRUE]
                 ELSE [due |-> due(i), paid |-> due(i) + delay[i], late |-> delay[i] > 0]]
  <2>1. \A i \in 1..months : FirstMonthIndex(e, months) + i - 1 = e - months + i
    BY <1>2 DEF FirstMonthIndex
  <2>2. \A i \in 1..months :
          DayNumber(AddMonths(loan.start, FirstMonthIndex(e, months) + i - 1)) = due(i)
    BY <2>1, <1>3 DEF Due
  <2> QED
    BY <2>2 DEF PaymentHistory, IsUnpaidTail
<1>10. \A i \in 1..months : due(i) \in Int /\ due(i) + delay[i] \in Int
  <2>1. SUFFICES ASSUME NEW i \in 1..months
                 PROVE  due(i) \in Int /\ due(i) + delay[i] \in Int
    OBVIOUS
  <2>2. e - months + i \in Int
    BY <1>2
  <2>3. due(i) \in Int
    BY <1>6, <2>2
  <2>4. delay[i] \in 0..2
    BY <1>4
  <2> QED
    BY <2>3, <2>4
<1> HIDE DEF pay, tail, due
<1>11. /\ DOMAIN pay = 1..months
       /\ \A i \in 1..months : /\ pay[i].due = due(i)
                               /\ i > months - tail => pay[i].paid = None /\ pay[i].late
                               /\ i <= months - tail => pay[i].paid # None
  <2>1. \A i \in 1..months : i > months - tail =>
          pay[i] = [due |-> due(i), paid |-> None, late |-> TRUE]
    BY <1>9
  <2>2. \A i \in 1..months : i <= months - tail =>
          pay[i] = [due |-> due(i), paid |-> due(i) + delay[i], late |-> delay[i] > 0]
    BY <1>9, <1>2, <1>8
  <2>3. DOMAIN pay = 1..months
    BY <1>9
  <2>4. \A i \in 1..months : i > months - tail \/ i <= months - tail
    BY <1>2, <1>8
  <2>5. \A i \in 1..months : due(i) + delay[i] # None
    BY <1>1, <1>10
  <2> QED
    BY <2>1, <2>2, <2>3, <2>4, <2>5
<1>12. Unpaid(pay) = (months - tail + 1)..months
  BY <1>2, <1>8, <1>11 DEF Unpaid
<1>13. StoryFits(loan, pay)
  <2>1. loan.status = "overdue" <=> Unpaid(pay) # {}
    <3>1. tail > 0 => months \in Unpaid(pay)
      BY <1>2, <1>8, <1>12
    <3>2. tail = 0 => Unpaid(pay) = {}
      BY <1>2, <1>12
    <3> QED
      BY <1>8, <3>1, <3>2
  <2>2. \A i \in Unpaid(pay), j \in DOMAIN pay : j > i => j \in Unpaid(pay)
    BY <1>2, <1>8, <1>11, <1>12
  <2> QED
    BY <2>1, <2>2 DEF StoryFits
<1>14. DatesFit(loan, pay, now)
  <2>1. \A i \in 1..months : /\ e - months + i \in Int /\ e - months + i >= 1
                            /\ e - months + i <= b
    BY <1>2
  <2>2. \A i \in 1..months : DayNumber(start) < due(i)
    BY <1>5, <2>1, DueAfterStart DEF due
  <2>3. \A i \in 1..months : due(i) <= now
    <3>1. SUFFICES ASSUME NEW i \in 1..months
                   PROVE  due(i) <= now
      OBVIOUS
    <3> DEFINE j == e - months + i
    <3>2. j \in Int /\ (j = b \/ j < b)
      BY <2>1
    <3>3. due(i) = Due(start, j)
      BY DEF due
    <3>4. /\ Due(start, j) \in Int /\ now \in Int
          /\ j = b => now - Due(start, j) \in 0..3
          /\ j < b => Due(start, j) < now
      BY <1>6, <3>2
    <3> HIDE DEF j
    <3> QED
      BY <3>2, <3>3, <3>4
  <2>4. \A i \in 1..months : i > 1 => due(i) - due(i - 1) \in 28..31
    <3>1. SUFFICES ASSUME NEW i \in 1..months, i > 1
                   PROVE  due(i) - due(i - 1) \in 28..31
      OBVIOUS
    <3> DEFINE j == e - months + (i - 1)
    <3>2. j \in Int /\ j + 1 = e - months + i
      BY <1>2
    <3>3. Due(start, j + 1) - Due(start, j) \in 28..31
      BY <1>5, <3>2, DuesAMonthApart
    <3> QED
      BY <3>2, <3>3 DEF due
  <2>5. \A i \in 1..months : i > 1 => i - 1 \in 1..months
    BY <1>2
  <2>6. (DayNumber(loan.end) > now) <=> loan.status # "closed"
    <3>1. term \in Int /\ (status = "closed" => term < b) /\ (status # "closed" => term > b)
      OBVIOUS
    <3>2. /\ Due(start, term) \in Int /\ now \in Int
          /\ term < b => Due(start, term) < now
          /\ term > b => Due(start, term) > now
      BY <1>6, <3>1
    <3> QED
      BY <1>3, <1>7, <3>1, <3>2
  <2> QED
    BY <1>3, <1>11, <2>2, <2>3, <2>4, <2>5, <2>6 DEF DatesFit
<1>15. NotOlder(loan, pay, now)
  <2>1. SUFFICES ASSUME NEW i \in 1..months, i > months - tail
                 PROVE  DaysOverdue(due(i), now) <= loan.daysOverdue
    BY <1>2, <1>8, <1>11, <1>12 DEF NotOlder, Unpaid
  <2> DEFINE k == months - i
  <2>2. k \in Nat /\ k < tail
    BY <1>2, <1>8, <2>1
  <2>3. k \in 0..3 /\ 31 * k + 3 <= days /\ status = "overdue"
    <3> HIDE DEF k
    <3>1. k <= 3 /\ 31 * k + 3 <= loan.daysOverdue
      BY <1>8, <2>2
    <3>2. tail > 0
      BY <1>2, <1>8, <2>2
    <3> QED
      BY <1>3, <1>8, <2>2, <3>1, <3>2
  <2>4. e = b /\ days \in 5..120 /\ e - months + i = b - k
    BY <1>2, <2>3
  <2>5. now - Due(start, b - k) <= 31 * k + 3
    <3>1. b \in Int
      OBVIOUS
    <3> HIDE DEF k
    <3>2. DayNumber(t) - Due(AddMonths(t, -b), b - k) <= 31 * k + 3
      BY <2>3, <3>1, FewMonthsBack
    <3> QED
      BY <3>2 DEF now, start
  <2>6. now - due(i) <= days
    <3>1. due(i) = Due(start, b - k)
      BY <2>4 DEF due
    <3>2. now \in Int /\ due(i) \in Int
      BY <1>6, <1>10
    <3> HIDE DEF k
    <3> QED
      BY <2>3, <2>4, <2>5, <3>1, <3>2
  <2> QED
    <3>1. now \in Int /\ due(i) \in Int
      BY <1>6, <1>10
    <3> QED
      BY <1>3, <2>4, <2>6, <3>1 DEF DaysOverdue
<1>16. Readable(pay)
  BY <1>1, <1>2, <1>8, <1>11, <1>12 DEF Readable
<1> QED
  BY <1>13, <1>14, <1>15, <1>16 DEF LoanFits

LEMMA TermsAreMonths ==
  ASSUME NEW type \in LoanType
  PROVE  LoanTermMonthsRange(type) \subseteq 6..360
<1>1. CASE type = "mortgage"
  BY <1>1 DEF LoanTermMonthsRange
<1>2. CASE type = "car"
  BY <1>2 DEF LoanTermMonthsRange
<1>3. CASE type = "consumer"
  BY <1>3 DEF LoanTermMonthsRange
<1>4. CASE type = "business"
  BY <1>4 DEF LoanTermMonthsRange
<1>5. CASE type = "credit_card"
  BY <1>5 DEF LoanTermMonthsRange
<1> QED
  BY <1>1, <1>2, <1>3, <1>4, <1>5 DEF LoanType

IsASequence(s) == s \in Seq(Range(s))

LEMMA OneMore ==
  ASSUME NEW s, IsASequence(s), NEW x
  PROVE  /\ IsASequence(Append(s, x))
         /\ Len(s) \in Nat /\ Len(Append(s, x)) = Len(s) + 1
         /\ \A i \in 1..Len(s) : Append(s, x)[i] = s[i]
         /\ Append(s, x)[Len(s) + 1] = x
<1> DEFINE T == Range(s) \cup {x}
           a == Append(s, x)
<1>1. s \in Seq(T)
  BY DEF IsASequence
<1> HIDE DEF T
<1>2. x \in T
  BY DEF T
<1>3. /\ Len(s) \in Nat /\ a \in Seq(T) /\ Len(a) = Len(s) + 1
      /\ \A i \in 1..Len(s) : a[i] = s[i]
      /\ a[Len(s) + 1] = x
  BY <1>1, <1>2
<1> HIDE DEF a
<1>4. \A i \in DOMAIN a : a[i] \in Range(a)
  BY DEF Range
<1>5. a \in Seq(Range(a))
  BY <1>3, <1>4
<1> QED
  BY <1>3, <1>5 DEF IsASequence, a

SeedDataInv ==
  /\ runDate \in Todays /\ num \in NumLoans
  /\ types \in Seq(LoanType) /\ (statuses # <<>> => Len(types) = num)
  /\ statuses = <<>> \/ statuses \in [1..num -> {"active", "overdue", "closed"}]
  /\ risky /\ statuses # <<>> => \E i \in 1..num : statuses[i] = "overdue"
  /\ IsASequence(loans) /\ IsASequence(history)
  /\ Len(history) = Len(loans) /\ Len(loans) <= num
  /\ statuses = <<>> => Len(loans) = 0
  /\ \A l \in 1..Len(loans) : /\ loans[l].status = statuses[l]
                              /\ LoanFits(loans[l], history[l], DayNumber(runDate))

LEMMA TodayIsDate ==
  ASSUME NEW t \in Todays
  PROVE  IsDate(t)
<1>1. t \in [year : Nat, month : 1..12, day : 1..31] /\ t.day <= DaysIn(t.year, t.month)
  BY SeedDataAssumption
<1>2. t.year \in Int /\ t.month \in 1..12 /\ t.day \in 1..31
  BY <1>1
<1>3. DaysIn(t.year, t.month) \in 28..31
  BY <1>2, MonthLengths
<1> QED
  BY <1>1, <1>2, <1>3 DEF IsDate

LEMMA AddLoanKeepsInv ==
  ASSUME SeedDataInv,
         NEW l, Building(l), NEW term \in Nat, NEW e \in Nat \ {0}, NEW b \in Nat, NEW days,
         e <= b, statuses[l] = "closed" => b > term,
         statuses[l] # "closed" => b = e /\ e < term,
         statuses[l] = "overdue" => days \in 5..120,
         AddLoan(AddMonths(runDate, -b), term, e, days)
  PROVE  SeedDataInv'
<1> DEFINE start == AddMonths(runDate, -b)
           loan == [type |-> types[l], status |-> statuses[l], start |-> start,
                    end |-> AddMonths(start, term), daysOverdue |-> days]
           months == Min2(e, MaxPaymentHistoryMonths)
<1>1. l = Len(loans) + 1 /\ l <= num /\ statuses # <<>>
  BY DEF Building
<1>2. /\ loans' = Append(loans, loan)
      /\ UNCHANGED <<runDate, risky, num, caps, types, statuses>>
  BY <1>1 DEF AddLoan
<1>3. PICK delay \in [1..months -> 0..2] :
         history' = Append(history, PaymentHistory(loan, e, months, delay))
  BY <1>1 DEF AddLoan
<1> DEFINE pay == PaymentHistory(loan, e, months, delay)
<1>4. num \in Nat /\ Len(loans) \in Nat /\ l \in 1..num
  BY <1>1, OneMore, SeedDataAssumption DEF SeedDataInv
<1>5. statuses[l] \in {"active", "overdue", "closed"}
  BY <1>1, <1>4 DEF SeedDataInv
<1>6. LoanFits(loan, pay, DayNumber(runDate))
  <2>1. IsDate(runDate)
    BY TodayIsDate DEF SeedDataInv
  <2> QED
    BY <1>5, <2>1, BuiltLoanFits
<1>7. loan.status = statuses[l]
  OBVIOUS
<1> HIDE DEF loan, pay
<1>8. /\ IsASequence(loans') /\ Len(loans') = l
      /\ \A i \in 1..Len(loans) : loans'[i] = loans[i]
      /\ loans'[l] = loan
  BY <1>1, <1>2, OneMore DEF SeedDataInv
<1>9. /\ IsASequence(history') /\ Len(history') = l
      /\ \A i \in 1..Len(loans) : history'[i] = history[i]
      /\ history'[l] = pay
  BY <1>1, <1>3, OneMore DEF SeedDataInv, pay
<1>10. \A i \in 1..l : i \in 1..Len(loans) \/ i = l
  BY <1>1, <1>4
<1>11. ASSUME NEW i \in 1..Len(loans')
       PROVE  loans'[i].status = statuses[i] /\ LoanFits(loans'[i], history'[i], DayNumber(runDate))
  BY <1>6, <1>7, <1>8, <1>9, <1>10 DEF SeedDataInv
<1>12. \A i \in 1..Len(loans') : /\ loans'[i].status = statuses'[i]
                                 /\ LoanFits(loans'[i], history'[i], DayNumber(runDate'))
  BY <1>2, <1>11
<1> QED
  BY <1>1, <1>2, <1>4, <1>8, <1>9, <1>12 DEF SeedDataInv

LEMMA SeedDataInvInit ==
  ASSUME SeedDataInit PROVE SeedDataInv
<1>1. Len(<<>>) = 0 /\ <<>> \in Seq(LoanType) /\ IsASequence(<<>>)
  BY DEF IsASequence
<1>2. num \in Nat
  BY SeedDataAssumption DEF SeedDataInit
<1> QED
  BY <1>1, <1>2 DEF SeedDataInit, SeedDataInv

LEMMA SeedDataInvNext ==
  ASSUME SeedDataInv, [SeedDataNext]_seedDataVars
  PROVE  SeedDataInv'
<1>1. num \in Nat \ {0} /\ Len(loans) \in Nat
  BY OneMore, SeedDataAssumption DEF SeedDataInv
<1>2. CASE ChooseLoanType
  <2>1. PICK type \in LoanType : types' = Append(types, type)
    BY <1>2 DEF ChooseLoanType
  <2>2. /\ Len(types) < num
        /\ UNCHANGED <<runDate, risky, num, statuses, loans, history>>
    BY <1>2 DEF ChooseLoanType
  <2>3. types' \in Seq(LoanType)
    BY <2>1 DEF SeedDataInv
  <2>4. statuses = <<>>
    BY <1>1, <2>2 DEF SeedDataInv
  <2> QED
    BY <2>2, <2>3, <2>4 DEF SeedDataInv
<1>3. CASE ChooseStatuses
  <2>1. PICK drawn \in [1..num -> LoanStatus] : statuses' = WithOverdue(drawn)
    BY <1>3 DEF ChooseStatuses
  <2>2. /\ Len(types) = num /\ statuses = <<>>
        /\ UNCHANGED <<runDate, risky, num, caps, types, loans, history>>
    BY <1>3 DEF ChooseStatuses
  <2>3. statuses' \in [1..num -> {"active", "overdue", "closed"}]
    BY <2>1 DEF WithOverdue, LoanStatus
  <2>4. risky => \E i \in 1..num : statuses'[i] = "overdue"
    <3>1. CASE \A i \in DOMAIN drawn : drawn[i] # "overdue"
      BY <1>1, <2>1, <3>1 DEF WithOverdue
    <3>2. CASE \E i \in DOMAIN drawn : drawn[i] = "overdue"
      BY <2>1, <3>2 DEF WithOverdue
    <3> QED
      BY <3>1, <3>2
  <2>5. Len(loans) = 0
    BY <2>2 DEF SeedDataInv
  <2> QED
    BY <2>2, <2>3, <2>4, <2>5 DEF SeedDataInv
<1>4. ASSUME NEW l \in 1..num,
             BuildClosedLoan(l) \/ BuildActiveLoan(l) \/ BuildOverdueLoan(l)
      PROVE  SeedDataInv'
  <2>1. Building(l) /\ types \in Seq(LoanType) /\ Len(types) = num
    BY <1>4 DEF BuildClosedLoan, BuildActiveLoan, BuildOverdueLoan, Building, SeedDataInv
  <2>2. types[l] \in LoanType
    BY <2>1
  <2>3. TermsOf(l) \subseteq 6..360
    BY <2>2, TermsAreMonths DEF TermsOf
  <2>4. CASE BuildClosedLoan(l)
    <3>1. PICK term \in TermsOf(l), s \in 1..24 :
             AddLoan(AddMonths(runDate, -term - s), term, term, 0)
      BY <2>4 DEF BuildClosedLoan
    <3>2. statuses[l] = "closed"
      BY <2>4 DEF BuildClosedLoan
    <3> DEFINE back == term + s
    <3>3. /\ term \in Nat \ {0} /\ term \in Nat /\ back \in Nat /\ back > term /\ term <= back
          /\ -term - s = -back
      BY <2>3, <3>1
    <3>4. AddLoan(AddMonths(runDate, -back), term, term, 0)
      BY <3>1, <3>3
    <3> HIDE DEF back
    <3> QED
      BY <2>1, <3>2, <3>3, <3>4, AddLoanKeepsInv
  <2>5. ASSUME NEW term \in 6..360, NEW e \in Elapsed(term)
        PROVE  e \in Nat \ {0} /\ e < term
    BY <2>5 DEF Elapsed, Max2
  <2>6. CASE BuildActiveLoan(l)
    <3>1. PICK term \in TermsOf(l) : \E e \in Elapsed(term) :
             AddLoan(AddMonths(runDate, -e), term, e, 0)
      BY <2>6 DEF BuildActiveLoan
    <3>2. PICK e \in Elapsed(term) : AddLoan(AddMonths(runDate, -e), term, e, 0)
      BY <3>1
    <3>3. statuses[l] = "active"
      BY <2>6 DEF BuildActiveLoan
    <3>4. term \in Nat /\ e \in Nat \ {0} /\ e < term /\ e <= e
      BY <2>3, <2>5, <3>2
    <3> QED
      BY <2>1, <3>2, <3>3, <3>4, AddLoanKeepsInv
  <2>7. CASE BuildOverdueLoan(l)
    <3>1. PICK term \in TermsOf(l) :
             \E e \in Elapsed(term) : \E days \in DaysOverdueRange(e) :
                AddLoan(AddMonths(runDate, -e), term, e, days)
      BY <2>7 DEF BuildOverdueLoan
    <3>2. PICK e \in Elapsed(term) : \E days \in DaysOverdueRange(e) :
             AddLoan(AddMonths(runDate, -e), term, e, days)
      BY <3>1
    <3>3. PICK days \in DaysOverdueRange(e) :
             AddLoan(AddMonths(runDate, -e), term, e, days)
      BY <3>2
    <3>4. statuses[l] = "overdue"
      BY <2>7 DEF BuildOverdueLoan
    <3>5. term \in Nat /\ e \in Nat \ {0} /\ e < term /\ e <= e
      BY <2>3, <2>5, <3>3
    <3>6. days \in 5..120
      BY <3>3, <3>5 DEF DaysOverdueRange, Max2, Min2
    <3> QED
      BY <2>1, <3>3, <3>4, <3>5, <3>6, AddLoanKeepsInv
  <2> QED
    BY <1>4, <2>4, <2>6, <2>7
<1>5. CASE UNCHANGED seedDataVars
  BY <1>5 DEF seedDataVars, SeedDataInv
<1> QED
  BY <1>2, <1>3, <1>4, <1>5 DEF SeedDataNext

LEMMA SeedDataInvHolds == SeedDataSpec => []SeedDataInv
<1>1. SeedDataInit => SeedDataInv
  BY SeedDataInvInit
<1>2. SeedDataInv /\ [SeedDataNext]_seedDataVars => SeedDataInv'
  BY SeedDataInvNext
<1> QED
  BY <1>1, <1>2, PTL DEF SeedDataSpec

LEMMA LoansOfInv ==
  ASSUME SeedDataInv
  PROVE  /\ Len(loans) \in Nat /\ DOMAIN loans = 1..Len(loans) /\ DOMAIN history = 1..Len(loans)
         /\ \A l \in DOMAIN loans : LoanFits(loans[l], history[l], DayNumber(runDate))
<1>1. /\ Len(loans) \in Nat /\ DOMAIN loans = 1..Len(loans)
      /\ Len(history) \in Nat /\ DOMAIN history = 1..Len(history)
  BY DEF SeedDataInv, IsASequence
<1> QED
  BY <1>1 DEF SeedDataInv

(* StatusMatchesPayments: an overdue loan's unpaid payments are the last of *)
(* its history, and no other loan has any (seed.py:187-202).                *)
THEOREM StatusAndPaymentsAgree == SeedDataSpec => []StatusMatchesPayments
<1>1. SeedDataInv => StatusMatchesPayments
  BY LoansOfInv DEF StatusMatchesPayments, LoanFits, StoryFits, Unpaid
<1> QED
  BY <1>1, SeedDataInvHolds, PTL

(* DatesInOrder: for every day the seed may run on, and every term, elapsed *)
(* time and length of history (seed.py:80-85, 142-151, 191-194).            *)
THEOREM DatesAreInOrder == SeedDataSpec => []DatesInOrder
<1>1. SeedDataInv => DatesInOrder
  BY LoansOfInv DEF DatesInOrder, LoanFits, DatesFit
<1> QED
  BY <1>1, SeedDataInvHolds, PTL

(* PaymentsNotOlder: rounding 30-day months never lists a payment as older  *)
(* than its loan (seed.py:159-160, 189; loan_service.py:95).                *)
THEOREM PaymentsAreNotOlder == SeedDataSpec => []PaymentsNotOlder
<1>1. SeedDataInv => PaymentsNotOlder
  BY LoansOfInv DEF PaymentsNotOlder, DaysCounted, LoanFits, NotOlder
<1> QED
  BY <1>1, SeedDataInvHolds, PTL

(* RiskyHaveOverdue: once a risky customer's loans are built, the query of  *)
(* get_overdue_payments has a row for them (seed.py:38).                    *)
THEOREM RiskyAreListed == SeedDataSpec => []RiskyHaveOverdue
<1>1. ASSUME SeedDataInv, Done, risky, NEW c \in Customers
      PROVE  OverdueRows(Book(c), c) # {}
  <2> DEFINE B == Book(c)
  <2>1. num \in Nat \ {0} /\ Len(loans) = num
    BY <1>1, SeedDataAssumption DEF SeedDataInv, Done
  <2>2. PICK l \in 1..num : statuses[l] = "overdue"
    <3>1. statuses # <<>>
      BY <1>1, <2>1 DEF SeedDataInv
    <3> QED
      BY <1>1, <3>1 DEF SeedDataInv
  <2>3. /\ l \in DOMAIN loans /\ loans[l].status = "overdue"
        /\ LoanFits(loans[l], history[l], DayNumber(runDate))
    BY <1>1, <2>1, <2>2, LoansOfInv DEF SeedDataInv
  <2>4. PICK i \in Unpaid(history[l]) : TRUE
    BY <2>3 DEF LoanFits, StoryFits
  <2>5. /\ i \in DOMAIN history[l] /\ i \in 1..MaxPaymentHistoryMonths
        /\ history[l][i].paid = None /\ history[l][i].late
    <3>1. PICK n \in 1..MaxPaymentHistoryMonths : DOMAIN history[l] = 1..n
      BY <2>3 DEF LoanFits, Readable
    <3>2. MaxPaymentHistoryMonths \in Nat
      BY SeedDataAssumption
    <3> QED
      BY <2>3, <2>4, <3>1, <3>2 DEF LoanFits, Readable, Unpaid
  <2> DEFINE p == <<l, i>>
  <2>6. p \in DOMAIN B.payment
    BY <2>3, <2>5 DEF Book
  <2>7. /\ B.payment[p].loan = l /\ ~B.payment[p].paid /\ B.payment[p].late
    BY <2>3, <2>5, <2>6 DEF Book
  <2>8. /\ l \in DOMAIN B.loan /\ B.loan[l].customer = c /\ B.loan[l].status = "overdue"
    BY <2>3 DEF Book
  <2> HIDE DEF B, p
  <2>9. p \in OverdueRows(B, c)
    BY <2>6, <2>7, <2>8 DEF OverdueRows
  <2> QED
    BY <2>9 DEF B
<1>2. SeedDataInv => RiskyHaveOverdue
  BY <1>1 DEF RiskyHaveOverdue
<1> QED
  BY <1>2, SeedDataInvHolds, PTL

=============================================================================
