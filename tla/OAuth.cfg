\* Two connectors, two faults and a clock that lets codes of before expire.
SPECIFICATION FairSpec
CONSTANTS
  c1 = c1
  c2 = c2
  Connectors = {c1, c2}
  TTL = 0
  MaxNow = 1
  MaxFaults = 2
  MaxDrawn = 16
INVARIANTS CodeOnce GrantsJustified
PROPERTIES Connected
CHECK_DEADLOCK FALSE
