\* One invocation, of a model that keeps to the schemas or of any other.
SPECIFICATION OneSpec
CONSTANTS
  Requests = {r1, r2}
  Followers = {r1}
  Customers = {c1, c2}
  Books = {b1}
  Names <- FewNames
  Tools <- FewTools
  RecursionLimit = 4
  MaxCalls = 2
  None = None
INVARIANTS OwnData TranscriptOK ResultsAgree
PROPERTIES EveryInvocationEnds
CHECK_DEADLOCK FALSE
