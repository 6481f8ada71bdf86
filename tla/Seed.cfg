\* Two containers that boot, and two resets by hand.
SPECIFICATION FairSpec
CONSTANTS
  Seeders = {s1, s2, s3, s4}
  Resetting = {s3, s4}
  Earlier = Earlier
  None = None
INVARIANTS SeededAtEnd
PROPERTIES KeepsHistory EveryRunEnds
CHECK_DEADLOCK FALSE
