\* A model whose arguments need not fit the bound schemas, with tools that
\* all take a customer_id.
SPECIFICATION Spec
CONSTANTS
  Requests = {r1}
  Followers = {}
  Customers = {c1, c2}
  Books = {b1}
  Names <- CustomerTools
  Tools <- CustomerTools
  RecursionLimit = 3
  MaxCalls = 1
  None = None
INVARIANTS NeverModelControlled
CHECK_DEADLOCK FALSE
