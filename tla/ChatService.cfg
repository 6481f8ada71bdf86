\* Two requests and a question of the UI over one connection.
SPECIFICATION SubjectsSpec
CONSTANTS
  h1 = h1
  h2 = h2
  u1 = u1
  c1 = c1
  c2 = c2
  Http = {h1, h2}
  Ui = {u1}
  Followers = {h1, h2, u1}
  Customers = {c1, c2}
  Names <- OneTool
  Tools <- OneTool
  Books = {b1}
  RecursionLimit = 3
  MaxCalls = 1
  MaxLaunches = 1
  HttpApp = FALSE
  PoolSize = 1
  None = None
INVARIANTS ConnectionsReturn RequestsKnowTools
PROPERTIES KeepsContract EveryQuestionEnds
CHECK_DEADLOCK FALSE
