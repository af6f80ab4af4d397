CONSTANTS
  Positions = {1, 2, 3, 4}
  Limit = 1
  MaxPages = 2
  MaxChanges = 0
SPECIFICATION PagesSpec
INVARIANT BackKnown
CHECK_DEADLOCK FALSE
