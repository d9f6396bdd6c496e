SPECIFICATION FairSpec
CONSTANTS
  r1 = r1
  r2 = r2
  a = a
  b = b
  c = c
  Rows = {r1, r2}
  Approvals = {a, b, c}
  Handlers = {p1, p2}
  Review <- MCReview
INVARIANTS
  FailedNeverMoves
PROPERTIES
  SpendsOnce
  Settles
CHECK_DEADLOCK FALSE
