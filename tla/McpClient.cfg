\* One HTTP request and one queued UI event, two processes, /mcp mounted.
SPECIFICATION FairSpec
CONSTANTS
  Callers = {chat, ui}
  HttpCallers = {chat}
  ServerTools = {t1}
  MaxLaunches = 2
  HttpApp = TRUE
  None = None
INVARIANTS ChildHasOwner EndsClean
PROPERTIES ShutdownCompletes
CHECK_DEADLOCK FALSE
