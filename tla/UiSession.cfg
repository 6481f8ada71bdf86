\* A page with up to three questions, and another that gets in its way.
SPECIFICATION SmallSpec
CONSTANTS
  p1 = p1
  p2 = p2
  c1 = c1
  c2 = c2
  b1 = b1
  None = None
  Pages = {p1, p2}
  Customers = {c1, c2}
  Suggested = {b1}
  MaxTurns = 3
INVARIANTS SidebarFollows LostOnlyByOverlap TranscriptInOrder
PROPERTIES QuestionEnds
