\* Two containers that start together and two resets by hand.
SPECIFICATION FairSpec
CONSTANTS
  l1 = l1
  l2 = l2
  r1 = r1
  r2 = r2
  Seeders = {l1, l2, r1, r2}
  Resetting = {r1, r2}
  Earlier = Earlier
  None = None
  MAX_ATTEMPTS = 2
INVARIANTS ServesLoans OneServes LosersHaveWinners
PROPERTIES LaunchesEnd
