SPECIFICATION FairSpec
CONSTANTS
  Sessions = {a, b}
  Handlers = {p1, p2}
INVARIANTS
  FailedNeverPaid
  MoneyIsHeld
  LiveIsPaid
PROPERTIES
  Publishes
CHECK_DEADLOCK FALSE
