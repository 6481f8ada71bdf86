----------------------------- MODULE MCLoanReads -----------------------------
(* LoanReads for TLC.  c1 owns loan l1 and c2, where it exists, loan l2;    *)
(* the payments are of l1, but for p2 that may be of l2.                    *)
EXTENDS LoanReads, TLC

CONSTANTS c1, c2, l1, l2, p1, p2

(* Every small book: incomes with and without a zero, every status, debts   *)
(* whose ratio is a half, paid, unpaid, late and early payments.            *)
SmallBooks ==
  {[income |-> (c1 :> i) @@ (c2 :> 300),
    loan |-> (l1 :> [customer |-> c1, status |-> s1, monthlyPayment |-> m])
             @@ (l2 :> [customer |-> d, status |-> s2, monthlyPayment |-> 7]),
    payment |-> (p1 :> [loan |-> l1, due |-> -1, paid |-> q, late |-> t])
                @@ (p2 :> [loan |-> l, due |-> 1, paid |-> FALSE,
                           late |-> TRUE])] :
      i \in {0, 32, 80000}, s1 \in LoanStatus, s2 \in LoanStatus,
      m \in {1, 4, 12}, d \in {c1, c2}, l \in {l1, l2},
      q \in BOOLEAN, t \in BOOLEAN}

(* Three for the commits of a reset; in the third c2 has left.              *)
SomeBooks ==
  LET loan(c, s, m) == [customer |-> c, status |-> s, monthlyPayment |-> m]
      unpaid(l, d) == [loan |-> l, due |-> d, paid |-> FALSE, late |-> TRUE]
  IN  {[income |-> (c1 :> 32) @@ (c2 :> 300),
        loan |-> (l1 :> loan(c1, "overdue", 4)) @@ (l2 :> loan(c1, "active", 7)),
        payment |-> (p1 :> unpaid(l1, 0)) @@ (p2 :> unpaid(l1, 1))],
       [income |-> (c1 :> 60) @@ (c2 :> 300),
        loan |-> (l1 :> loan(c1, "closed", 4)) @@ (l2 :> loan(c2, "overdue", 9)),
        payment |-> (p1 :> unpaid(l2, -1)) @@ (p2 :> unpaid(l2, 1))],
       [income |-> (c1 :> 60),
        loan |-> (l1 :> loan(c1, "overdue", 5)),
        payment |-> (p1 :> unpaid(l1, -1))]}

AllBooks == SmallBooks \cup SomeBooks

(* Every operation on every small book; commits and a second midnight only  *)
(* where the day began with one of SomeBooks.                               *)
BooksNext ==
  \/ /\ log[1] \in SomeBooks
     /\ Wipe \/ \E b \in SomeBooks : Fill(b)
  \/ /\ today = 0 \/ log[1] \in SomeBooks
     /\ DayPasses
  \/ \E r \in Readers : ReaderStep(r)

BooksSpec == Init /\ [][BooksNext]_vars

=============================================================================
