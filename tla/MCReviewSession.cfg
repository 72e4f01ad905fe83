CONSTANTS
  Books = {b1, b2}
  NItems = 2
  Nothing = Nothing
  MaxRuns = 0
  MaxEvents = 1
SPECIFICATION FairSpec
INVARIANT ViewIsCurrent
PROPERTY LoadSettles
