\* A reader on every small book, with resets and midnights on some.
SPECIFICATION BooksSpec
CONSTANTS
  c1 = c1
  c2 = c2
  l1 = l1
  l2 = l2
  p1 = p1
  p2 = p2
  Customers = {c1, c2}
  Loans = {l1, l2}
  Payments = {p1, p2}
  Readers = {r1}
  Books <- AllBooks
  MaxCommits = 4
  MaxToday = 2
  None = None
INVARIANTS DtiFromWindow OneDayForAll SidebarInOrder SidebarAgrees DtiNearest
CHECK_DEADLOCK FALSE
